---------------------------- MODULE ScanScheduler ----------------------------
(***************************************************************************)
(* How the TUI (ui/ui.go) schedules its scans.  Bubble Tea delivers one    *)
(* message at a time to Update; a scan is a command that runs in its own   *)
(* goroutine and posts a result message when it is done.  Ticks, keys and  *)
(* stop results ask for scans at any moment; pausing must freeze the view  *)
(* without losing the slot of the command that still runs.                 *)
(*                                                                         *)
(* The view is known by the scan that filled it, and scan n+1 is requested *)
(* later than scan n: "view >= n" reads "the view is no older than scan n".*)
(***************************************************************************)
EXTENDS Naturals, FiniteSets

CONSTANT MaxEvents   \* bound: ticks, keys and stop results in a behaviour

ASSUME SchedulerAssumption == MaxEvents \in Nat

VARIABLES
    \* ------------------------------------------------- fields of the model
    paused, scanInFlight, nextScanID, activeScanID,
    applyActiveScan, activeManual, pendingScan, pendingManual, loading,
    lastScan,   \* completion time of the scan that is shown, 0 if none
    view,       \* the scan whose rows are shown, 0 if none
    \* ------------------------------------------- outside of the event loop
    running,    \* scan commands that still run
    results,    \* result messages that have not been delivered
    completed,  \* commands completed so far: the clock that dates results
    booted,     \* the message of Init has been delivered
    stops,      \* stop commands under way
    \* ------------------------------------------------ bound, observations
    events,
    reported,   \* the last scan whose rows or error were shown
    pausedAt,   \* nextScanID when the view was last frozen
    owed,       \* scan number that a manual refresh is waiting for, 0 if none
    due         \* scan number that will show the effect of a stop, 0 if none

slotVars == <<scanInFlight, nextScanID, activeScanID, applyActiveScan,
              activeManual, pendingScan, pendingManual, loading>>
viewVars == <<lastScan, view, reported>>
outVars  == <<running, results, completed>>
histVars == <<pausedAt, owed, due>>
vars == <<paused, slotVars, viewVars, outVars, booted, stops, events, histVars>>

\* Every scan is started by an event or by the message of Init.
ScanIDs == 1 .. MaxEvents + 1

TypeOK ==
    /\ paused \in BOOLEAN /\ scanInFlight \in BOOLEAN /\ loading \in BOOLEAN
    /\ applyActiveScan \in BOOLEAN /\ activeManual \in BOOLEAN
    /\ pendingScan \in BOOLEAN /\ pendingManual \in BOOLEAN /\ booted \in BOOLEAN
    /\ nextScanID \in 0 .. MaxEvents + 1 /\ activeScanID \in 0 .. nextScanID
    /\ lastScan \in Nat /\ view \in Nat /\ reported \in Nat /\ completed \in Nat
    /\ running \subseteq Nat
    /\ results \subseteq [id : Nat, at : Nat, ok : BOOLEAN]
    /\ stops \in Nat /\ events \in 0 .. MaxEvents
    /\ pausedAt \in Nat /\ owed \in Nat /\ due \in Nat

Init ==
    /\ paused = FALSE /\ scanInFlight = FALSE /\ nextScanID = 0 /\ activeScanID = 0
    /\ applyActiveScan = FALSE /\ activeManual = FALSE
    /\ pendingScan = FALSE /\ pendingManual = FALSE /\ loading = TRUE
    /\ lastScan = 0 /\ view = 0 /\ reported = 0
    /\ running = {} /\ results = {} /\ completed = 0
    /\ booted = FALSE /\ stops = 0 /\ events = 0
    /\ pausedAt = 0 /\ owed = 0 /\ due = 0

-----------------------------------------------------------------------------
\* requestScan past its first test: a new command takes the slot.
StartScan(manual) ==
    /\ nextScanID' = nextScanID + 1
    /\ activeScanID' = nextScanID + 1
    /\ scanInFlight' = TRUE /\ loading' = TRUE
    /\ applyActiveScan' = TRUE /\ activeManual' = manual
    /\ running' = running \cup {nextScanID + 1}

\* Slips: a request is dropped while a scan runs; or it waits, but is not
\* remembered as a manual one.
SlipDropRequest(isPaused, manual) ==
    IF scanInFlight \/ (isPaused /\ ~manual) THEN UNCHANGED <<slotVars, running>>
    ELSE StartScan(manual) /\ UNCHANGED <<pendingScan, pendingManual>>
SlipForgetManual(isPaused, manual) ==
    IF isPaused /\ ~manual THEN UNCHANGED <<slotVars, running>>
    ELSE IF scanInFlight
    THEN /\ pendingScan' = TRUE
         /\ UNCHANGED <<scanInFlight, nextScanID, activeScanID, applyActiveScan,
                        activeManual, pendingManual, loading, running>>
    ELSE StartScan(manual) /\ UNCHANGED <<pendingScan, pendingManual>>

\* requestScan, called with the slot and the pending request as they are.
RequestScan(isPaused, manual) ==
    IF isPaused /\ ~manual THEN UNCHANGED <<slotVars, running>>
    ELSE IF scanInFlight
    THEN /\ pendingScan' = TRUE
         /\ pendingManual' = (pendingManual \/ manual)
         /\ UNCHANGED <<scanInFlight, nextScanID, activeScanID, applyActiveScan,
                        activeManual, loading, running>>
    ELSE StartScan(manual) /\ UNCHANGED <<pendingScan, pendingManual>>

Count == events < MaxEvents /\ events' = events + 1

\* scanRequestedMsg, the message of Init.
Boot ==
    /\ ~booted /\ booted' = TRUE
    /\ RequestScan(paused, FALSE)
    /\ UNCHANGED <<paused, viewVars, results, completed, stops, events, histVars>>

\* tickMsg: the next tick is always rescheduled.
Tick ==
    /\ Count
    /\ RequestScan(paused, FALSE)
    /\ UNCHANGED <<paused, viewVars, results, completed, booted, stops, histVars>>

\* The key "r".
Refresh ==
    /\ Count
    /\ RequestScan(paused, TRUE)
    /\ owed' = nextScanID + 1
    /\ UNCHANGED <<paused, viewVars, results, completed, booted, stops, pausedAt, due>>

\* Slips of pausing: the slot is freed although its command still runs; the
\* running scan may still be shown.
SlipFreeSlot ==
    /\ Count /\ ~paused
    /\ paused' = TRUE
    /\ applyActiveScan' = FALSE /\ scanInFlight' = FALSE
    /\ pendingScan' = FALSE /\ pendingManual' = FALSE /\ loading' = FALSE
    /\ pausedAt' = nextScanID /\ owed' = 0 /\ due' = 0
    /\ UNCHANGED <<nextScanID, activeScanID, activeManual,
                   viewVars, outVars, booted, stops>>
SlipStillApply ==
    /\ Count /\ ~paused
    /\ paused' = TRUE
    /\ pendingScan' = FALSE /\ pendingManual' = FALSE /\ loading' = FALSE
    /\ pausedAt' = nextScanID /\ owed' = 0 /\ due' = 0
    /\ UNCHANGED <<scanInFlight, nextScanID, activeScanID, activeManual,
                   applyActiveScan, viewVars, outVars, booted, stops>>

\* The key "p" on a live view freezes it, whatever is running or requested.
Pause ==
    /\ Count /\ ~paused
    /\ paused' = TRUE
    /\ applyActiveScan' = FALSE
    /\ pendingScan' = FALSE /\ pendingManual' = FALSE /\ loading' = FALSE
    /\ pausedAt' = nextScanID /\ owed' = 0 /\ due' = 0
    /\ UNCHANGED <<scanInFlight, nextScanID, activeScanID, activeManual,
                   viewVars, outVars, booted, stops>>

Resume ==
    /\ Count /\ paused
    /\ paused' = FALSE
    /\ RequestScan(FALSE, FALSE)
    /\ UNCHANGED <<viewVars, results, completed, booted, stops, histVars>>

\* A confirmed stop runs as a command of its own.
Stop ==
    /\ Count
    /\ stops' = stops + 1
    /\ UNCHANGED <<paused, slotVars, viewVars, outVars, booted, histVars>>

\* stopResultMsg: only a scan requested from now on is sure to see the result.
StopResult ==
    /\ stops > 0 /\ stops' = stops - 1
    /\ RequestScan(paused, FALSE)
    /\ due' = IF paused THEN due ELSE nextScanID + 1
    /\ UNCHANGED <<paused, viewVars, results, completed, booted, events, pausedAt, owed>>

\* scanCmd: the goroutine scans and posts its result.
Complete(n) ==
    /\ n \in running
    /\ running' = running \ {n}
    /\ completed' = completed + 1
    /\ \E ok \in BOOLEAN :
           results' = results \cup {[id |-> n, at |-> completed + 1, ok |-> ok]}
    /\ UNCHANGED <<paused, slotVars, viewVars, booted, stops, events, histVars>>

-----------------------------------------------------------------------------
\* scannedMsg.
Matches(msg) == scanInFlight /\ msg.id = activeScanID
Applies(msg) == applyActiveScan /\ (~paused \/ activeManual) /\ msg.at >= lastScan

Show(msg) ==
    IF ~Applies(msg) THEN UNCHANGED viewVars
    ELSE /\ reported' = msg.id
         /\ IF msg.ok THEN view' = msg.id /\ lastScan' = msg.at
            ELSE UNCHANGED <<view, lastScan>>

\* The slot is free again and the one request that waited, if it is still
\* wanted, takes it at once.
Succeed ==
    /\ pendingScan' = FALSE /\ pendingManual' = FALSE
    /\ IF pendingScan /\ (~paused \/ pendingManual)
       THEN StartScan(pendingManual)
       ELSE /\ scanInFlight' = FALSE /\ loading' = FALSE
            /\ UNCHANGED <<nextScanID, activeScanID, applyActiveScan, activeManual, running>>

Scanned(msg) ==
    /\ msg \in results
    /\ results' = results \ {msg}
    /\ IF Matches(msg) THEN Show(msg) /\ Succeed
       ELSE UNCHANGED <<slotVars, viewVars, running>>
    /\ UNCHANGED <<paused, completed, booted, stops, events, histVars>>

Deliver == \E msg \in results : Scanned(msg)

Next ==
    \/ Boot \/ Tick \/ Refresh \/ Pause \/ Resume \/ Stop \/ StopResult
    \/ \E n \in ScanIDs : Complete(n)
    \/ Deliver

Spec == Init /\ [][Next]_vars

\* Every message is delivered and Init's message is.  Neither keys nor ticks nor
\* the end of a scan are owed: the commands a scan runs (lsof, ps, launchctl,
\* brew) have no timeout on this path.
Fairness == WF_vars(Deliver) /\ WF_vars(Boot)

FairSpec == Spec /\ Fairness

-----------------------------------------------------------------------------
(* Safety *)

\* README.md, "refresh requests share one scan at a time": a command or its
\* undelivered result exists exactly when the slot says so, and it is the one
\* that the slot names, so pausing, errors and late results cannot free a slot
\* whose command still runs.
OneScanAtATime ==
    /\ scanInFlight => (running \cup {m.id : m \in results}) = {activeScanID}
    /\ ~scanInFlight => running = {} /\ results = {}
    /\ running \cap {m.id : m \in results} = {}
    /\ \A m, n \in results : m = n

\* The word "scanning" is shown exactly while a scan runs that will be shown
\* (and before the first one), never for a scan whose result is to be dropped.
SpinnerHonest == booted => (loading <=> scanInFlight /\ applyActiveScan)

\* Nothing is left waiting for a slot that is free.
NoStrandedRequest == pendingScan => scanInFlight

(* The inductive invariant: why the safety properties hold *)

One(b) == IF b THEN 1 ELSE 0

\* A scan in flight that may still be shown on a paused view was started by
\* hand after the pause; a stranded request or a lying spinner needs a slot that
\* was freed too early; and every scan is paid for by an event, so the
\* numbers stay within the bound.
SchedulerInv ==
    /\ OneScanAtATime /\ NoStrandedRequest
    /\ paused /\ scanInFlight /\ applyActiveScan => activeManual /\ activeScanID > pausedAt
    /\ pausedAt <= nextScanID
    /\ booted \/ paused \/ scanInFlight => (loading <=> scanInFlight /\ applyActiveScan)
    /\ nextScanID + stops + One(pendingScan) + One(~booted) <= events + 1

\* README.md, "an already-running live scan cannot replace the snapshot after
\* pausing": a paused view is replaced only by a scan that was started, by
\* hand, after the pause.
PausedViewFrozen ==
    [][paused /\ view' # view => view' > pausedAt /\ activeManual]_vars

-----------------------------------------------------------------------------
(* Liveness, under FairSpec *)

\* No scan hangs for ever.  Nothing in the code makes this so: a hung subprocess
\* keeps the slot, and neither keys nor ticks can take it back.
NoScanHangs == []<>(running = {})

\* README.md, "r takes one fresh snapshot while staying paused": a manual
\* refresh is answered, by rows or by an error, by a scan that was started
\* after the key press, unless the view is frozen again or a scan hangs for ever.
ManualRefreshAnswered ==
    NoScanHangs => \A n \in ScanIDs : (owed = n) ~> (reported >= n \/ owed # n)

\* Once a stop on a live view has come back, the table comes to show what the
\* machine looks like after it, without waiting for the next tick, unless a
\* scan hangs for ever.
StopIsSeen ==
    NoScanHangs => \A n \in ScanIDs : (due = n) ~> (reported >= n \/ due # n)

=============================================================================
