----------------------------- MODULE CompanionStop -----------------------------
(***************************************************************************)
(* The companion over the engine that it really calls (LocalEngine in      *)
(* companion/server.go): CompanionServer and StopGuard side by side.  The  *)
(* engine of CompanionServer acts and answers as it likes within its       *)
(* contract; here one action is traced into kill.StopContext or            *)
(* RestartContext, and nothing is assumed of what it answers.              *)
(*                                                                         *)
(* Which row of which snapshot is traced is a constant, so that what holds *)
(* of it holds of every one.  Other actions are those of CompanionServer.  *)
(* The instance is of the module of proofs, which adds theorems only.      *)
(***************************************************************************)
EXTENDS CompanionServer

CONSTANTS
    PIDs, Programs, ShortName, Labels, NoLabel, MaxProcs, MaxPerLabel,
    MaxSeconds,    \* StopGuard's MaxClock: its clock has other units
    Restart,       \* the operation restartManaged
    TracedSnap,    \* the snapshot and
    TracedRow      \* the row of it that are traced

VARIABLES
    \* StopGuard's variables; second, at and ended are its clock, pc and ctxDone
    second, procs, live, job, row, psStart, psCommand,
    at, seam, restart, ended, result,
    present, verified, owners, acted, victims, legacyToo

Guard == INSTANCE StopGuardProofs WITH
    clock <- second, pc <- at, ctxDone <- ended, MaxClock <- MaxSeconds

\* What the constants are: a hypothesis of the theorems.
CompanionStopAssumption ==
    /\ TracedSnap \in SnapIDs /\ TracedRow \in Rows /\ Restart \in Operations
    /\ Guard!StopGuardAssumption

guardVars == <<second, procs, live, job, row, psStart, psCommand, at, seam, restart,
               ended, result, present, verified, owners, acted, victims, legacyToo>>
stopVars == <<vars, guardVars>>

StopInit == Init /\ Guard!Init

IsTraced(q) == q.snap = TracedSnap /\ q.row = TracedRow

\* The handler that collects what may become the traced snapshot.
Collects(h) == Alive /\ pc[h] = "collect" /\ issued + 1 = TracedSnap

\* The handler that is inside LocalEngine.Action for the traced row.
Runs(h) == Alive /\ pc[h] = "run" /\ IsTraced(req[h])

-----------------------------------------------------------------------------
(* Steps of one of the two *)

System == Guard!OS /\ UNCHANGED vars

\* LocalEngine.Snapshot.  Of the scans that may become the traced snapshot only
\* the one that succeeds is followed; those that fail leave nothing behind.
ScanRow(h) ==
    /\ Collects(h) /\ ~ctxDone[h]
    /\ Guard!Scan
    /\ UNCHANGED vars

\* LocalEngine.Action chooses the seam by the operation.
EngineBegin(h) ==
    /\ Runs(h)
    /\ Guard!Begin("context", req[h].op = Restart)
    /\ UNCHANGED vars

\* The engine looks at its context some time after the context has ended.
EngineNotices(h) ==
    /\ Runs(h) /\ ctxDone[h]
    /\ Guard!CancelContext
    /\ UNCHANGED vars

\* What the engine does that hits nobody.
EngineChecks(h) ==
    /\ Runs(h)
    /\ \/ Guard!CutShort \/ Guard!RefuseOutright
       \/ \E i \in live : Guard!IdentityPass(i)
       \/ Guard!IdentityFail \/ Guard!Route
       \/ \E answer \in {"known", "unknown", "unusable"} : Guard!CheckBrew(answer)
       \/ Guard!LookupPass \/ Guard!LookupFail
       \/ Guard!TermFails \/ Guard!ManagerReturns
    /\ UNCHANGED vars

\* Every step of the server, but for those that the engine takes for the
\* traced row, and a traced scan ends with a snapshot that has its row.
Elsewhere ==
    /\ Next
    /\ \A h \in Handlers :
          /\ Runs(h) => pc'[h] = "run" /\ touched' = touched
          /\ Collects(h) /\ pc'[h] # "collect" =>
                \/ at = "ready" /\ TracedRow \in draft'[h].rows
                \/ at = "scan" /\ TracedRow \notin draft'[h].rows
    /\ UNCHANGED guardVars

-----------------------------------------------------------------------------
(* Steps of both *)

\* kill(2), brew or launchctl: for the server this is the effect.
EngineHits(h) ==
    /\ Runs(h)
    /\ Guard!Term \/ Guard!ManagerActs
    /\ EngineEffect(h)

\* What the errors of the seam are to errors.Is in serveAction.
Reported ==
    CASE result = "unknown" -> {"context", "outputLimit"}
      [] result \in {"ok", "refused", "failed"} -> {result}

\* The engine's answer, whatever it is.
EngineAnswers(h, res) ==
    /\ Runs(h) /\ at = "done"
    /\ res \in Reported
    /\ TakeResult(h, res)
    /\ UNCHANGED guardVars

Engine(h) ==
    \/ EngineBegin(h) \/ EngineNotices(h) \/ EngineChecks(h) \/ EngineHits(h)
    \/ \E res \in Results : EngineAnswers(h, res)

StopNext ==
    \/ System \/ Elsewhere
    \/ \E h \in Handlers : ScanRow(h) \/ Engine(h)

StopSpec == StopInit /\ [][StopNext]_stopVars

-----------------------------------------------------------------------------
(* What holds *)

\* companion/server.go, serveAction: the switch on the engine's error relies on
\* what kill/context.go means by its errors.  With the real engine the server
\* is still the one of CompanionServer, which assumes that contract.
EngineKeepsContract == Spec

\* companion/server.go, serveAction, and docs/COMPANION.md: a client that is told
\* "refused" may believe that nothing was hit for its action, and one that is
\* told "completed" that the operation went through; and whatever it is told, of
\* the processes alive at the check only the one that its row shows can have been
\* hit, by PID and start time (intel/context.go: under a label that lists several
\* processes it may have been another one of them).
ToldOfTheProcess ==
    /\ \A t \in told : IsTraced(t[1]) =>
          /\ t[2] = "refused" => victims = {}
          /\ t[2] = "completed" => acted
    /\ \A i \in victims \cap present :
          \/ procs[i].pid = row.pid /\ procs[i].start = row.start
          \/ i \in owners /\ Cardinality(owners) > 1

\* stopAndWait and the receipts: a process is hit only while the handler that
\* holds the slot runs the action of an accepted request, for the only time,
\* and so never after a client was told an outcome, nor after the drain.
NoLateSignal ==
    [][acted' # acted =>
          /\ life \notin {"held", "released", "drained", "exited"}
          /\ \E h \in Handlers : slot = h /\ pc[h] = "run" /\ IsTraced(req[h])
          /\ runs[TracedSnap] = 1
          /\ \A t \in told : t[1].snap # TracedSnap]_stopVars

-----------------------------------------------------------------------------
(* Why: the engine's state and the server's tell the same story *)

\* The traced action has been started.
TracedBegun ==
    \/ \E h \in Handlers : pc[h] \in {"run", "record"} /\ IsTraced(req[h])
    \/ \E t \in decided : IsTraced(t[1])

LinkInv ==
    /\ acted => TracedSnap \in touched
    /\ TracedBegun /\ TracedSnap \in touched => acted
    /\ ~acted => victims = {}
    /\ at \notin {"scan", "ps", "profile", "ready"} => seam = "context"

=============================================================================
