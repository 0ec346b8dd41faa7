--------------------------- MODULE CompanionServer ---------------------------
(***************************************************************************)
(* The local companion server (companion/server.go) and the shutdown half  *)
(* of its session (companion/run_unix.go).  Concurrent HTTP handlers share *)
(* one work slot (the channel Server.work), one retained snapshot with its *)
(* expiry timer, and the receipts that make actions replayable.            *)
(*                                                                         *)
(* The engine is seen through what it promises its caller: an action may   *)
(* take effect while it runs, a result "ok" means that it did, a result    *)
(* "refused" means that it did not, and anything else says nothing.        *)
(***************************************************************************)
EXTENDS Naturals, FiniteSets

CONSTANTS
    Handlers,      \* goroutines that net/http may run ServeHTTP in
    RequestIDs,    \* values of ActionRequest.RequestID
    Rows,          \* rows an engine snapshot may contain
    Operations,    \* what serveAction accepts for one: stop, restartManaged
    NoRequest,     \* a handler that serves no action
    Free,          \* the work channel is empty
    Stopper,       \* the work channel is filled by stopAndWait
    SnapshotTTL,   \* ticks a snapshot lives
    ReceiptTTL,    \* ticks a final receipt lives
    MaxReceipts,   \* receipt capacity
    MaxSnapshots,  \* bound: snapshots published in a behaviour
    MaxClock       \* bound: ticks in a behaviour

SnapIDs == 1 .. MaxSnapshots

\* The complete parameters of an action: reuse of a request ID with any of
\* them changed is a conflict.  TargetID is a row of the named snapshot.
Requests == [id : RequestIDs, snap : SnapIDs, row : Rows, op : Operations]

ASSUME CompanionAssumption ==
    /\ SnapshotTTL \in Nat /\ ReceiptTTL \in Nat /\ MaxReceipts \in Nat
    /\ MaxSnapshots \in Nat /\ MaxClock \in Nat
    /\ NoRequest \notin Requests
    /\ Free \notin Handlers /\ Stopper \notin Handlers /\ Free # Stopper

VARIABLES
    \* ------------------------------------------------ the Server's fields
    slot,       \* who has sent into Server.work: Free, Stopper or a handler
    closing,    \* Server.closing
    snapshot,   \* Server.snapshot; id 0 is nil
    armed,      \* the snapshot whose timer is running, 0 if none
    due,        \* when that timer fires
    firing,     \* snapshots whose timer callback waits for Server.mu
    receipts,   \* Server.receipts: a map from some RequestIDs to receipts
    \* ---------------------------------------------- the handlers' locals
    pc, req, ctxDone, verdict, draft,
    \* ------------------------------------------------------- the session
    life,       \* where serveSession is
    cancelled,  \* the session context, the base of every request context
    \* ------------------------------------------- clock and observations
    clock,
    issued,     \* snapshots published so far: their IDs are 1..issued
    runs,       \* engine actions started on each snapshot
    touched,    \* snapshots whose action took effect
    decided,    \* outcomes recorded in a final receipt
    told        \* outcomes sent to a client in a final receipt

serverVars == <<slot, closing, snapshot, armed, due, firing, receipts>>
localVars  == <<pc, req, ctxDone, verdict, draft>>
lifeVars   == <<life, cancelled>>
obsVars    == <<issued, runs, touched, decided, told>>
vars == <<serverVars, localVars, lifeVars, clock, obsVars>>

Outcomes == {"completed", "refused", "failed", "unknown"}
Results  == {"ok", "refused", "failed", "context", "outputLimit"}

Snapshots == [id : 0 .. MaxSnapshots, rows : SUBSET Rows, expires : Nat]
Receipts  ==
    [req : Requests, state : {"pending"}, outcome : {"none"}, expires : Nat]
        \cup [req : Requests, state : {"final"}, outcome : Outcomes, expires : Nat]
NoSnapshot == [id |-> 0, rows |-> {}, expires |-> 0]

\* A snapshot that is dated and encoded but not yet stored.
Drafts  == [rows : SUBSET Rows, expires : Nat]
NoDraft == [rows |-> {}, expires |-> 0]

\* Where a handler is.  "snapshot" and "action" are before the claim of the
\* slot; from then on until its deferred receive the handler holds it.
Holding == {"clear", "collect", "publish", "run", "record", "release"}
Phases  == {"idle", "snapshot", "action"} \cup Holding
\* A handler whose snapshot request may still publish one.
Publishing == {"snapshot", "clear", "collect", "publish"}

Lives == {"serving", "closed", "waiting", "held", "released", "drained", "exited"}

TypeOK ==
    /\ slot \in Handlers \cup {Free, Stopper}
    /\ closing \in BOOLEAN
    /\ snapshot \in Snapshots
    /\ armed \in 0 .. MaxSnapshots
    /\ due \in Nat
    /\ firing \subseteq SnapIDs
    /\ DOMAIN receipts \subseteq RequestIDs
    /\ \A i \in DOMAIN receipts : receipts[i] \in Receipts
    /\ pc \in [Handlers -> Phases]
    /\ req \in [Handlers -> Requests \cup {NoRequest}]
    /\ ctxDone \in [Handlers -> BOOLEAN]
    /\ verdict \in [Handlers -> Outcomes \cup {"none"}]
    /\ draft \in [Handlers -> Drafts]
    /\ life \in Lives
    /\ cancelled \in BOOLEAN
    /\ clock \in Nat
    /\ issued \in 0 .. MaxSnapshots
    /\ runs \in [SnapIDs -> Nat]
    /\ touched \subseteq SnapIDs
    /\ decided \subseteq Requests \X Outcomes
    /\ told \subseteq Requests \X Outcomes

Init ==
    /\ slot = Free /\ closing = FALSE
    /\ snapshot = NoSnapshot /\ armed = 0 /\ due = 0 /\ firing = {}
    /\ receipts = [i \in {} |-> {}]
    /\ pc = [h \in Handlers |-> "idle"]
    /\ req = [h \in Handlers |-> NoRequest]
    /\ ctxDone = [h \in Handlers |-> FALSE]
    /\ verdict = [h \in Handlers |-> "none"]
    /\ draft = [h \in Handlers |-> NoDraft]
    /\ life = "serving" /\ cancelled = FALSE
    /\ clock = 0 /\ issued = 0
    /\ runs = [s \in SnapIDs |-> 0]
    /\ touched = {} /\ decided = {} /\ told = {}

-----------------------------------------------------------------------------
(* Helpers *)

Goto(h, label) == pc' = [pc EXCEPT ![h] = label]

\* claimWork: refuses once stopAndWait has set closing, never waits.
CanClaim == ~closing /\ slot = Free
ClaimWork(h) == CanClaim /\ slot' = h

\* clearSnapshotLocked.  Timer.Stop cannot call back a callback that has
\* already started and is waiting for the mutex: firing is left alone.
ClearSnapshotLocked ==
    /\ snapshot' = NoSnapshot
    /\ armed' = 0 /\ due' = 0
    /\ UNCHANGED firing

\* A slip: a pending receipt ages like a final one.
SlipPurgePending(r) == clock >= r.expires

\* The receipts left by the purge at the head of every action request.
Expired(r) == r.state = "final" /\ clock >= r.expires
Kept == [i \in {j \in DOMAIN receipts : ~Expired(receipts[j])} |-> receipts[i]]

\* Whether a new receipt fits after the purge.
HasRoom == Cardinality(DOMAIN Kept) < MaxReceipts

\* Assignment to an entry of the receipts map.
Put(map, i, r) == [j \in DOMAIN map \cup {i} |-> IF j = i THEN r ELSE map[j]]

\* A slip: rows are looked up in whatever snapshot is retained.
SlipAnySnapshot(q) == snapshot.id # 0 /\ clock < snapshot.expires /\ q.row \in snapshot.rows

\* The target of a request: a row of the retained snapshot, still unexpired.
Found(q) ==
    /\ snapshot.id = q.snap
    /\ clock < snapshot.expires
    /\ q.row \in snapshot.rows

\* A slip: every error counts as a refusal.
SlipErrorsRefuse(done, res) ==
    CASE done \/ res \in {"context", "outputLimit"} -> "unknown"
      [] ~done /\ res \in {"refused", "failed"} -> "refused"
      [] ~done /\ res = "ok" -> "completed"

\* The outcome recorded for an engine result: a context that is done hides it.
Outcome(done, res) ==
    CASE done \/ res \in {"context", "outputLimit"} -> "unknown"
      [] ~done /\ res = "refused" -> "refused"
      [] ~done /\ res = "failed" -> "failed"
      [] ~done /\ res = "ok" -> "completed"

Alive == life # "exited"

-----------------------------------------------------------------------------
(* Requests *)

\* ServeHTTP hands an accepted request to one of the two stateful routes.  A
\* client can only name snapshots that it has been sent.  net/http may still
\* dispatch a request it has already read after the listener is closed.
\* Bound: at most MaxSnapshots snapshots are asked for.
ReceiveSnapshot(h) ==
    /\ Alive /\ pc[h] = "idle"
    /\ issued + Cardinality({g \in Handlers : pc[g] \in Publishing}) < MaxSnapshots
    /\ Goto(h, "snapshot")
    /\ ctxDone' = [ctxDone EXCEPT ![h] = cancelled]
    /\ UNCHANGED <<serverVars, req, verdict, draft, lifeVars, clock, obsVars>>

ReceiveAction(h, q) ==
    /\ Alive /\ pc[h] = "idle"
    /\ q.snap <= issued
    /\ Goto(h, "action")
    /\ req' = [req EXCEPT ![h] = q]
    /\ ctxDone' = [ctxDone EXCEPT ![h] = cancelled]
    /\ UNCHANGED <<serverVars, verdict, draft, lifeVars, clock, obsVars>>

\* A deadline passes or the client goes away while the request is served.
CancelContext(h) ==
    /\ Alive /\ pc[h] # "idle" /\ ~ctxDone[h]
    /\ ctxDone' = [ctxDone EXCEPT ![h] = TRUE]
    /\ UNCHANGED <<serverVars, pc, req, verdict, draft, lifeVars, clock, obsVars>>

\* A slip: an early return of serveSnapshot forgets the deferred receive.
SlipKeepSlot(h) ==
    /\ Alive /\ pc[h] = "release"
    /\ slot' = IF verdict[h] = "none" THEN slot ELSE Free
    /\ Goto(h, "idle")
    /\ req' = [req EXCEPT ![h] = NoRequest]
    /\ verdict' = [verdict EXCEPT ![h] = "none"]
    /\ told' = IF verdict[h] = "none" THEN told
               ELSE told \cup {<<req[h], verdict[h]>>}
    /\ UNCHANGED <<closing, snapshot, armed, due, firing, receipts, ctxDone,
                   draft, lifeVars, clock, issued, runs, touched, decided>>

\* The deferred receive that ends a handler which holds the slot.  Its reply
\* leaves with it; for an action that ran, this is the final receipt.
Release(h) ==
    /\ Alive /\ pc[h] = "release"
    /\ slot' = Free
    /\ Goto(h, "idle")
    /\ req' = [req EXCEPT ![h] = NoRequest]
    /\ verdict' = [verdict EXCEPT ![h] = "none"]
    /\ told' = IF verdict[h] = "none" THEN told
               ELSE told \cup {<<req[h], verdict[h]>>}
    /\ UNCHANGED <<closing, snapshot, armed, due, firing, receipts, ctxDone,
                   draft, lifeVars, clock, issued, runs, touched, decided>>

-----------------------------------------------------------------------------
(* serveSnapshot *)

SnapshotBusy(h) ==
    /\ Alive /\ pc[h] = "snapshot"
    /\ ~CanClaim
    /\ Goto(h, "idle")
    /\ UNCHANGED <<serverVars, req, ctxDone, verdict, draft, lifeVars, clock, obsVars>>

SnapshotClaim(h) ==
    /\ Alive /\ pc[h] = "snapshot"
    /\ ClaimWork(h)
    /\ Goto(h, "clear")
    /\ UNCHANGED <<closing, snapshot, armed, due, firing, receipts,
                   req, ctxDone, verdict, draft, lifeVars, clock, obsVars>>

SnapshotClear(h) ==
    /\ Alive /\ pc[h] = "clear"
    /\ ClearSnapshotLocked
    /\ Goto(h, "collect")
    /\ UNCHANGED <<slot, closing, receipts,
                   req, ctxDone, verdict, draft, lifeVars, clock, obsVars>>

\* The engine returns a complete snapshot within every limit and the context
\* is still live at both checks: the snapshot is dated now, stored later.
SnapshotCollected(h) ==
    /\ Alive /\ pc[h] = "collect" /\ ~ctxDone[h]
    /\ \E rows \in SUBSET Rows :
           draft' = [draft EXCEPT ![h] =
                        [rows |-> rows, expires |-> clock + SnapshotTTL]]
    /\ Goto(h, "publish")
    /\ UNCHANGED <<serverVars, req, ctxDone, verdict, lifeVars, clock, obsVars>>

\* Deadline, engine error, row limit, randomness or response limit.
SnapshotFailed(h) ==
    /\ Alive /\ pc[h] = "collect"
    /\ Goto(h, "release")
    /\ UNCHANGED <<serverVars, req, ctxDone, verdict, draft, lifeVars, clock, obsVars>>

\* A slip: the old timer is stopped, and no new one is armed.
SlipNoTimer(h) ==
    /\ Alive /\ pc[h] = "publish"
    /\ issued < MaxSnapshots
    /\ issued' = issued + 1
    /\ snapshot' = [id |-> issued + 1, rows |-> draft[h].rows,
                    expires |-> draft[h].expires]
    /\ draft' = [draft EXCEPT ![h] = NoDraft]
    /\ Goto(h, "release")
    /\ UNCHANGED <<slot, closing, armed, due, firing, receipts, req, ctxDone,
                   verdict, lifeVars, clock, runs, touched, decided, told>>

\* The snapshot is retained and its timer armed under one hold of the mutex.
SnapshotPublish(h) ==
    /\ Alive /\ pc[h] = "publish"
    /\ issued < MaxSnapshots
    /\ issued' = issued + 1
    /\ snapshot' = [id |-> issued + 1, rows |-> draft[h].rows,
                    expires |-> draft[h].expires]
    /\ armed' = issued + 1
    /\ due' = clock + SnapshotTTL
    /\ draft' = [draft EXCEPT ![h] = NoDraft]
    /\ Goto(h, "release")
    /\ UNCHANGED <<slot, closing, firing, receipts, req, ctxDone, verdict,
                   lifeVars, clock, runs, touched, decided, told>>

\* time.AfterFunc: the timer fires, its callback runs once it gets the mutex.
TimerFire ==
    /\ Alive /\ armed # 0 /\ clock >= due
    /\ firing' = firing \cup {armed}
    /\ armed' = 0 /\ due' = 0
    /\ UNCHANGED <<slot, closing, snapshot, receipts,
                   localVars, lifeVars, clock, obsVars>>

\* A slip: the callback drops whatever snapshot it finds.
SlipDropAny(s) ==
    /\ Alive /\ s \in firing
    /\ firing' = firing \ {s}
    /\ snapshot' = NoSnapshot /\ armed' = 0 /\ due' = 0
    /\ UNCHANGED <<slot, closing, receipts,
                   localVars, lifeVars, clock, obsVars>>

TimerCallback(s) ==
    /\ Alive /\ s \in firing
    /\ firing' = firing \ {s}
    /\ IF snapshot.id = s
       THEN snapshot' = NoSnapshot /\ armed' = 0 /\ due' = 0
       ELSE UNCHANGED <<snapshot, armed, due>>
    /\ UNCHANGED <<slot, closing, receipts,
                   localVars, lifeVars, clock, obsVars>>

-----------------------------------------------------------------------------
(* serveAction: everything up to the engine call happens under one hold of  *)
(* the mutex.  Each way out purges expired receipts first.                   *)

\* A known request ID: the receipt is replayed, or other parameters refused.
ActionReplay(h) ==
    /\ Alive /\ pc[h] = "action"
    /\ receipts' = Kept
    /\ LET q == req[h] IN
         /\ q.id \in DOMAIN Kept
         /\ told' = IF Kept[q.id].req = q /\ Kept[q.id].state = "final"
                    THEN told \cup {<<q, Kept[q.id].outcome>>}
                    ELSE told
    /\ Goto(h, "idle")
    /\ req' = [req EXCEPT ![h] = NoRequest]
    /\ UNCHANGED <<slot, closing, snapshot, armed, due, firing, ctxDone, verdict,
                   draft, lifeVars, clock, issued, runs, touched, decided>>

\* No slot for a receipt, or the work slot is taken or closed.
ActionBusy(h) ==
    /\ Alive /\ pc[h] = "action"
    /\ receipts' = Kept
    /\ req[h].id \notin DOMAIN Kept
    /\ ~HasRoom \/ ~CanClaim
    /\ Goto(h, "idle")
    /\ req' = [req EXCEPT ![h] = NoRequest]
    /\ UNCHANGED <<slot, closing, snapshot, armed, due, firing, ctxDone, verdict,
                   draft, lifeVars, clock, obsVars>>

\* The slot is claimed, then the target turns out to be gone.
ActionStale(h) ==
    /\ Alive /\ pc[h] = "action"
    /\ receipts' = Kept
    /\ req[h].id \notin DOMAIN Kept
    /\ HasRoom
    /\ ClaimWork(h)
    /\ ~Found(req[h])
    /\ Goto(h, "release")
    /\ UNCHANGED <<closing, snapshot, armed, due, firing, req, ctxDone, verdict,
                   draft, lifeVars, clock, obsVars>>

\* The snapshot is consumed and a pending receipt stored before the engine
\* runs.  A pending receipt is never purged, whatever its date.
ActionStart(h) ==
    /\ Alive /\ pc[h] = "action"
    /\ LET q == req[h] IN
         /\ q.id \notin DOMAIN Kept
         /\ HasRoom
         /\ ClaimWork(h)
         /\ Found(q)
         /\ ClearSnapshotLocked
         /\ receipts' = Put(Kept, q.id,
                [req |-> q, state |-> "pending", outcome |-> "none",
                 expires |-> clock + ReceiptTTL])
         /\ runs' = [runs EXCEPT ![q.snap] = @ + 1]
    /\ Goto(h, "run")
    /\ UNCHANGED <<closing, req, ctxDone, verdict, draft, lifeVars, clock,
                   issued, touched, decided, told>>

\* The engine signals the process or the service manager obeys.
EngineEffect(h) ==
    /\ Alive /\ pc[h] = "run"
    /\ req[h].snap \notin touched
    /\ touched' = touched \cup {req[h].snap}
    /\ UNCHANGED <<serverVars, localVars, lifeVars, clock, issued, runs, decided, told>>

\* The handler goes on with what the engine has returned.
TakeResult(h, res) ==
    /\ Alive /\ pc[h] = "run"
    /\ verdict' = [verdict EXCEPT ![h] = Outcome(ctxDone[h], res)]
    /\ Goto(h, "record")
    /\ UNCHANGED <<serverVars, req, ctxDone, draft, lifeVars, clock, obsVars>>

\* The engine returns.  What it says about the effect is its contract.
EngineReturn(h, res) ==
    /\ TakeResult(h, res)
    /\ res = "ok" => req[h].snap \in touched
    /\ res = "refused" => req[h].snap \notin touched

\* A slip: nothing is recorded for a client that has gone.
SlipForgetGone(h) ==
    /\ Alive /\ pc[h] = "record"
    /\ receipts' = IF ctxDone[h] THEN receipts
                   ELSE Put(receipts, req[h].id,
                            [req |-> req[h], state |-> "final", outcome |-> verdict[h],
                             expires |-> clock + ReceiptTTL])
    /\ decided' = decided \cup {<<req[h], verdict[h]>>}
    /\ Goto(h, "release")
    /\ UNCHANGED <<slot, closing, snapshot, armed, due, firing, req, ctxDone,
                   verdict, draft, lifeVars, clock, issued, runs, touched, told>>

\* The final receipt replaces the pending one and starts its lifetime.
ActionRecord(h) ==
    /\ Alive /\ pc[h] = "record"
    /\ receipts' = Put(receipts, req[h].id,
           [req |-> req[h], state |-> "final", outcome |-> verdict[h],
            expires |-> clock + ReceiptTTL])
    /\ decided' = decided \cup {<<req[h], verdict[h]>>}
    /\ Goto(h, "release")
    /\ UNCHANGED <<slot, closing, snapshot, armed, due, firing, req, ctxDone,
                   verdict, draft, lifeVars, clock, issued, runs, touched, told>>

-----------------------------------------------------------------------------
(* serveSession: how the server stops *)

\* SIGINT, SIGTERM or SIGHUP cancels the session context, the base of every
\* request context.
Signal ==
    /\ Alive /\ ~cancelled
    /\ cancelled' = TRUE
    /\ ctxDone' = [h \in Handlers |-> ctxDone[h] \/ pc[h] # "idle"]
    /\ UNCHANGED <<serverVars, pc, req, verdict, draft, life, clock, obsVars>>

\* Serve returns: server.Close follows the cancellation, or the listener
\* fails on its own and nothing is cancelled.
ServeCloses ==
    /\ life = "serving" /\ cancelled
    /\ life' = "closed"
    /\ UNCHANGED <<serverVars, localVars, cancelled, clock, obsVars>>

ServeFails ==
    /\ life = "serving" /\ ~cancelled
    /\ life' = "closed"
    /\ UNCHANGED <<serverVars, localVars, cancelled, clock, obsVars>>

\* A slip: stopAndWait waits for the slot without closing it to newcomers.
SlipNotClosing ==
    /\ life = "closed"
    /\ life' = "waiting"
    /\ UNCHANGED <<serverVars, localVars, cancelled, clock, obsVars>>

\* stopAndWait, one step per critical section.
StopSetClosing ==
    /\ life = "closed"
    /\ closing' = TRUE
    /\ life' = "waiting"
    /\ UNCHANGED <<slot, snapshot, armed, due, firing, receipts,
                   localVars, cancelled, clock, obsVars>>

StopAcquire ==
    /\ life = "waiting" /\ slot = Free
    /\ slot' = Stopper
    /\ life' = "held"
    /\ UNCHANGED <<closing, snapshot, armed, due, firing, receipts,
                   localVars, cancelled, clock, obsVars>>

StopRelease ==
    /\ life = "held"
    /\ slot' = Free
    /\ life' = "released"
    /\ UNCHANGED <<closing, snapshot, armed, due, firing, receipts,
                   localVars, cancelled, clock, obsVars>>

StopClear ==
    /\ life = "released"
    /\ ClearSnapshotLocked
    /\ life' = "drained"
    /\ UNCHANGED <<slot, closing, receipts, localVars, cancelled, clock, obsVars>>

\* The command returns; whatever goroutine is left dies with the process.
Exit ==
    /\ life = "drained"
    /\ life' = "exited"
    /\ UNCHANGED <<serverVars, localVars, cancelled, clock, obsVars>>

Stop == ServeCloses \/ StopSetClosing \/ StopAcquire \/ StopRelease \/ StopClear \/ Exit

\* Bound: the clock stops at MaxClock.
Tick ==
    /\ Alive /\ clock < MaxClock
    /\ clock' = clock + 1
    /\ UNCHANGED <<serverVars, localVars, lifeVars, obsVars>>

-----------------------------------------------------------------------------

\* The steps a handler takes once it has a request.
Serve(h) ==
    \/ SnapshotBusy(h) \/ SnapshotClaim(h) \/ SnapshotClear(h)
    \/ SnapshotCollected(h) \/ SnapshotFailed(h) \/ SnapshotPublish(h)
    \/ ActionReplay(h) \/ ActionBusy(h) \/ ActionStale(h) \/ ActionStart(h)
    \/ \E res \in Results : EngineReturn(h, res)
    \/ ActionRecord(h) \/ Release(h)

Next ==
    \/ \E h \in Handlers :
          \/ ReceiveSnapshot(h)
          \/ \E q \in Requests : ReceiveAction(h, q)
          \/ CancelContext(h)
          \/ EngineEffect(h)
          \/ Serve(h)
    \/ TimerFire
    \/ \E s \in SnapIDs : TimerCallback(s)
    \/ Signal \/ ServeFails \/ Stop
    \/ Tick

Spec == Init /\ [][Next]_vars

\* Goroutines run and the engine honours its deadline, so every handler that
\* has a request finishes it; timers fire and stopAndWait proceeds.  Clients,
\* signals and effects are under no obligation.
Fairness ==
    /\ \A h \in Handlers : WF_vars(Serve(h))
    /\ WF_vars(TimerFire)
    /\ \A s \in SnapIDs : WF_vars(TimerCallback(s))
    /\ WF_vars(Stop)

FairSpec == Spec /\ Fairness

-----------------------------------------------------------------------------
(* Safety *)

\* docs/COMPANION.md, "an accepted action consumes its snapshot": however
\* requests, expiries and purges interleave, no snapshot carries two actions,
\* and the snapshot that is retained has carried none and is the latest.
OneRunPerSnapshot ==
    /\ \A s \in SnapIDs : runs[s] <= 1
    /\ snapshot.id # 0 => snapshot.id = issued /\ runs[snapshot.id] = 0

\* claimWork and the deferred receive: the handlers between a successful claim
\* and their release are exactly the holder of the slot, so engine work never
\* overlaps, with another handler or with the drain in stopAndWait.
WorkIsExclusive ==
    \A h \in Handlers : pc[h] \in Holding <=> slot = h

\* stopAndWait: once it has had the slot no handler works, although requests
\* still arrive, and once it has cleared the snapshot none is retained again.
NothingAfterDrain ==
    /\ life \in {"released", "drained", "exited"} =>
           \A h \in Handlers : pc[h] \notin Holding
    /\ life \in {"drained", "exited"} => snapshot = NoSnapshot /\ armed = 0

\* A pending receipt is one that some handler is going to settle: it cannot be
\* stranded, and no action runs whose receipt a purge or a reuse has lost.
PendingHasWorker ==
    \A q \in Requests :
        (\E i \in DOMAIN receipts : receipts[i].req = q /\ receipts[i].state = "pending")
            <=> (\E h \in Handlers : req[h] = q /\ pc[h] \in {"run", "record"})

\* docs/COMPANION.md, receipt capacity: refusing new actions is what keeps the
\* map bounded; the final store after the engine call must not add an entry.
ReceiptsBounded == Cardinality(DOMAIN receipts) <= MaxReceipts

\* What a client hears is true: "refused" was never followed by an effect and
\* "completed" was preceded by one, at whatever moment the context ended.
OutcomeTruthful ==
    \A t \in told :
        /\ t[2] = "completed" => t[1].snap \in touched
        /\ t[2] = "refused" => t[1].snap \notin touched

\* Replay never contradicts itself: an action is told with one outcome only,
\* also by a client that asks again after its receipt has expired.
ReplayConsistent ==
    \A a, b \in told : a[1].snap = b[1].snap => a = b

\* A retained snapshot always has an expiry on its way: the running timer is
\* its own, or a callback for it is already waiting for the mutex.
RetainedWillExpire ==
    snapshot.id # 0 => armed = snapshot.id \/ snapshot.id \in firing

-----------------------------------------------------------------------------
(* The inductive invariant: why the safety properties hold *)

\* The slot passes from Free to one holder and back; stopAndWait takes it once,
\* after closing, and nobody takes it after stopAndWait has let it go.
SlotInv ==
    /\ WorkIsExclusive
    /\ slot = Stopper <=> life = "held"
    /\ closing <=> life \notin {"serving", "closed"}
    /\ life \in {"released", "drained", "exited"} => slot = Free
    /\ life \in {"drained", "exited"} => snapshot = NoSnapshot /\ armed = 0

\* A snapshot that is not yet issued, or is still retained, has run nothing.
SnapshotInv ==
    /\ OneRunPerSnapshot
    /\ \A s \in SnapIDs : s > issued => runs[s] = 0
    /\ \A h \in Handlers : req[h] \in Requests => req[h].snap <= issued
    /\ snapshot.id = 0 => snapshot = NoSnapshot

\* What a handler's locals hold at each point of serveAction.
RequestInv ==
    \A h \in Handlers :
        /\ pc[h] \in {"action", "run", "record"} => req[h] \in Requests
        /\ pc[h] = "record" => verdict[h] # "none"
        /\ pc[h] \notin {"record", "release"} => verdict[h] = "none"
        /\ pc[h] = "release" /\ verdict[h] # "none" => req[h] \in Requests

\* A running action has used its snapshot's only run, and the verdict that it
\* is about to record agrees with the effect it had.
LocalInv ==
    \A h \in Handlers :
        /\ pc[h] \in {"run", "record"} => runs[req[h].snap] = 1
        /\ pc[h] = "record" /\ verdict[h] = "completed" => req[h].snap \in touched
        /\ pc[h] = "record" /\ verdict[h] = "refused" => req[h].snap \notin touched
        /\ pc[h] = "release" /\ verdict[h] # "none" => <<req[h], verdict[h]>> \in decided

\* What is decided is decided for good: its snapshot has had its one run, and
\* that run is over.
DecidedInv ==
    /\ \A s \in touched : runs[s] = 1
    /\ \A t \in decided :
          /\ runs[t[1].snap] = 1
          /\ \A h \in Handlers : pc[h] \in {"run", "record"} => req[h].snap # t[1].snap
          /\ t[2] = "completed" => t[1].snap \in touched
          /\ t[2] = "refused" => t[1].snap \notin touched
    /\ \A a, b \in decided : a[1].snap = b[1].snap => a = b
    /\ told \subseteq decided

\* A receipt is filed under its own request ID.  A pending one belongs to the
\* handler that runs its action, a final one carries the decided outcome.
ReceiptInv ==
    /\ \A i \in DOMAIN receipts :
          /\ receipts[i].req.id = i
          /\ receipts[i].state = "pending" =>
                \E h \in Handlers : pc[h] \in {"run", "record"} /\ req[h] = receipts[i].req
          /\ receipts[i].state = "final" =>
                <<receipts[i].req, receipts[i].outcome>> \in decided
    /\ \A h \in Handlers : pc[h] \in {"run", "record"} =>
          /\ req[h].id \in DOMAIN receipts
          /\ receipts[req[h].id].state = "pending"
          /\ receipts[req[h].id].req = req[h]

\* A running timer is that of the retained snapshot and not early for it, so a
\* callback that finds its own snapshot finds it expired.
ExpiryInv ==
    /\ RetainedWillExpire
    /\ armed # 0 => armed = snapshot.id /\ due >= snapshot.expires
    /\ armed <= issued
    /\ \A s \in firing : s <= issued /\ (s = snapshot.id => clock >= snapshot.expires)
    /\ \A h \in Handlers : pc[h] = "publish" => draft[h].expires <= clock + SnapshotTTL

CompanionInv ==
    /\ RequestInv
    /\ SlotInv
    /\ SnapshotInv
    /\ LocalInv
    /\ DecidedInv
    /\ ReceiptInv
    /\ ExpiryInv

-----------------------------------------------------------------------------
(* Action properties *)

\* A client that was given a snapshot keeps it until it expires, unless a
\* handler that holds the slot takes it (a new snapshot, its action) or the
\* server stops: in particular a late timer callback of an older snapshot
\* never drops the newer one.
SnapshotLossJustified ==
    [][snapshot.id # 0 /\ snapshot'.id # snapshot.id =>
         \/ clock >= snapshot.expires
         \/ slot' \in Handlers
         \/ life = "released"]_vars

\* A receipt is only ever settled by its own action or dropped when final and
\* past its date: never rewritten, never evicted early.
ReceiptsDurable ==
    [][\A i \in DOMAIN receipts :
         \/ i \in DOMAIN receipts' /\ receipts'[i] = receipts[i]
         \/ i \in DOMAIN receipts' /\ receipts[i].state = "pending"
              /\ receipts'[i].state = "final" /\ receipts'[i].req = receipts[i].req
         \/ receipts[i].state = "final" /\ clock >= receipts[i].expires]_vars

-----------------------------------------------------------------------------
(* Liveness, under FairSpec *)

\* Every accepted action is settled in its receipt, also when its client has
\* gone or the server is stopping.
ActionsSettle ==
    \A i \in RequestIDs :
        (i \in DOMAIN receipts /\ receipts[i].state = "pending")
            ~> (i \in DOMAIN receipts => receipts[i].state = "final")

\* An expired snapshot is let go, not kept in memory until the next request.
SnapshotExpires ==
    \A s \in SnapIDs : (snapshot.id = s /\ clock >= due) ~> (snapshot.id # s)

-----------------------------------------------------------------------------
(* The server implements the ledger *)

Begun == {s \in SnapIDs : runs[s] > 0}
Running == {q \in Requests : \E h \in Handlers : req[h] = q /\ pc[h] \in {"run", "record"}}

Ledger == INSTANCE ActionLedger WITH
    begun <- Begun, running <- Running, acted <- touched,
    settled <- decided, heard <- told

\* Every behaviour of the server is one of the ledger: the order of its steps
\* (consume, act, settle, tell) survives locks, purges, replays and shutdown.
ImplementsLedger == Ledger!Spec

=============================================================================
