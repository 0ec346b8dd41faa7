------------------------- MODULE BoundedCommandProofs -------------------------
(***************************************************************************)
(* Proofs about BoundedCommand: for every limit, pipe and size of output,  *)
(* success means the whole output, and nothing outlives the call.          *)
(*                                                                         *)
(* The flags and the other variables have lemmas of their own, because     *)
(* their leaves go to different provers.                                   *)
(***************************************************************************)
EXTENDS BoundedCommand, TLAPS

\* The invariant holds before anything runs.
LEMMA CommandInit == Init => CommandInv
<1> SUFFICES ASSUME Init PROVE CommandInv
  OBVIOUS
<1> USE BoundedCommandAssumption DEF Init, Parts
<1>1. StateOK
  BY DEF StateOK, Modes, Phases, Results
<1>2. FlagsOK
  BY Zenon DEF FlagsOK
<1>3. CallerInv
  BY DEF CallerInv, Returned
<1>4. FlowInv
  BY DEF FlowInv, Sound
<1>5. QED
  BY <1>1, <1>2, <1>3, <1>4 DEF CommandInv, TypeOK

\* Every step keeps the types of the state: no write takes more than the limit
\* leaves.
LEMMA StateStep == TypeOK /\ [Next]_vars => StateOK'
<1> SUFFICES ASSUME TypeOK, [Next]_vars PROVE StateOK'
  OBVIOUS
<1> USE BoundedCommandAssumption DEF TypeOK, StateOK, Modes, Parts, Phases, Results, vars, procVars, copyVars
<1>1. CASE Fork
  BY <1>1 DEF Fork
<1>2. CASE LeaderExits
  BY <1>2 DEF LeaderExits
<1>3. CASE HelperEnds
  BY <1>3 DEF HelperEnds
<1>4. ASSUME NEW p \in Parts, Produce(p) PROVE StateOK'
  BY <1>4 DEF Produce, Alive
<1>5. ASSUME NEW p \in Parts, ProduceInVain(p) PROVE StateOK'
  BY <1>5 DEF ProduceInVain, Alive
<1>6. ASSUME NEW n \in 1 .. PipeCap, Copy(n) PROVE StateOK'
  BY <1>6 DEF Copy, CopyToBuffer, CopyToFile, PassesLimit, Fits
<1>7. CASE StderrPassesLimit
  BY <1>7 DEF StderrPassesLimit
<1>8. CASE CopyEOF
  BY <1>8 DEF CopyEOF
<1>9. CASE Expire
  BY <1>9 DEF Expire
<1>10. CASE Cancel
  BY <1>10 DEF Cancel, KillGroup
<1>11. CASE Start
  BY <1>11 DEF Start, Goto, Finish
<1>12. CASE Reap
  BY <1>12 DEF Reap, Goto
<1>13. CASE TakeWatch
  BY <1>13 DEF TakeWatch, Goto
<1>14. CASE AwaitCopy
  BY <1>14 DEF AwaitCopy, Goto
<1>15. CASE AwaitDelay
  BY <1>15 DEF AwaitDelay, Goto
<1>16. CASE Retire
  BY <1>16 DEF Retire, KillGroup, Goto
<1>17. CASE Return
  BY <1>17 DEF Return, Goto, Finish, Verdict
<1>18. CASE Sync
  BY <1>18 DEF Sync, Goto
<1>19. CASE Close
  BY <1>19 DEF Close, Goto
<1>20. CASE UNCHANGED vars
  BY <1>20
<1>21. QED
  BY <1>1, <1>2, <1>3, <1>4, <1>5, <1>6, <1>7, <1>8, <1>9, <1>10,
     <1>11, <1>12, <1>13, <1>14, <1>15, <1>16, <1>17, <1>18, <1>19, <1>20 DEF Next, Command, Caller

\* Every step keeps the flags Boolean.
LEMMA FlagsStep == TypeOK /\ [Next]_vars => FlagsOK'
<1> SUFFICES ASSUME TypeOK, [Next]_vars PROVE FlagsOK'
  OBVIOUS
<1> USE BoundedCommandAssumption DEF TypeOK, FlagsOK, Modes, Parts, Phases, Results, vars, procVars, copyVars
<1>1. CASE Fork
  BY Zenon, <1>1 DEF Fork
<1>2. CASE LeaderExits
  BY Zenon, <1>2 DEF LeaderExits
<1>3. CASE HelperEnds
  BY Zenon, <1>3 DEF HelperEnds
<1>4. ASSUME NEW p \in Parts, Produce(p) PROVE FlagsOK'
  BY Zenon, <1>4 DEF Produce, Alive
<1>5. ASSUME NEW p \in Parts, ProduceInVain(p) PROVE FlagsOK'
  BY Zenon, <1>5 DEF ProduceInVain, Alive
<1>6. ASSUME NEW n \in 1 .. PipeCap, Copy(n) PROVE FlagsOK'
  BY Zenon, <1>6 DEF Copy, CopyToBuffer, CopyToFile, PassesLimit, Fits
<1>7. CASE StderrPassesLimit
  BY Zenon, <1>7 DEF StderrPassesLimit
<1>8. CASE CopyEOF
  BY Zenon, <1>8 DEF CopyEOF
<1>9. CASE Expire
  BY Zenon, <1>9 DEF Expire
<1>10. CASE Cancel
  BY Zenon, <1>10 DEF Cancel, KillGroup
<1>11. CASE Start
  BY Zenon, <1>11 DEF Start, Goto, Finish
<1>12. CASE Reap
  BY Zenon, <1>12 DEF Reap, Goto
<1>13. CASE TakeWatch
  BY Zenon, <1>13 DEF TakeWatch, Goto
<1>14. CASE AwaitCopy
  BY Zenon, <1>14 DEF AwaitCopy, Goto
<1>15. CASE AwaitDelay
  BY Zenon, <1>15 DEF AwaitDelay, Goto
<1>16. CASE Retire
  BY Zenon, <1>16 DEF Retire, KillGroup, Goto
<1>17. CASE Return
  BY Zenon, <1>17 DEF Return, Goto, Finish, Verdict
<1>18. CASE Sync
  BY Zenon, <1>18 DEF Sync, Goto
<1>19. CASE Close
  BY Zenon, <1>19 DEF Close, Goto
<1>20. CASE UNCHANGED vars
  BY Zenon, <1>20
<1>21. QED
  BY Zenon, <1>1, <1>2, <1>3, <1>4, <1>5, <1>6, <1>7, <1>8, <1>9, <1>10,
     <1>11, <1>12, <1>13, <1>14, <1>15, <1>16, <1>17, <1>18, <1>19, <1>20 DEF Next, Command, Caller

\* Every step keeps what the caller knows.
LEMMA CallerStep == TypeOK /\ CallerInv /\ FlowInv /\ [Next]_vars => CallerInv'
<1> SUFFICES ASSUME TypeOK, CallerInv, FlowInv, [Next]_vars PROVE CallerInv'
  OBVIOUS
<1> USE BoundedCommandAssumption DEF TypeOK, StateOK, Modes, Parts, Phases, Results, vars, procVars, copyVars, CallerInv, Returned
<1>1. CASE Fork
  BY <1>1 DEF Fork
<1>2. CASE LeaderExits
  BY <1>2 DEF LeaderExits
<1>3. CASE HelperEnds
  BY <1>3 DEF HelperEnds
<1>4. ASSUME NEW p \in Parts, Produce(p) PROVE CallerInv'
  BY <1>4 DEF Produce, Alive
<1>5. ASSUME NEW p \in Parts, ProduceInVain(p) PROVE CallerInv'
  BY <1>5 DEF ProduceInVain, Alive
<1>6. ASSUME NEW n \in 1 .. PipeCap, Copy(n) PROVE CallerInv'
  BY <1>6 DEF Copy, CopyToBuffer, CopyToFile, PassesLimit, Fits
<1>7. CASE StderrPassesLimit
  BY <1>7 DEF StderrPassesLimit
<1>8. CASE CopyEOF
  BY <1>8 DEF CopyEOF
<1>9. CASE Expire
  BY <1>9 DEF Expire
<1>10. CASE Cancel
  BY <1>10 DEF Cancel, KillGroup
<1>11. CASE Start
  BY <1>11 DEF Start, Goto, Finish
<1>12. CASE Reap
  BY <1>12 DEF Reap, Goto
<1>13. CASE TakeWatch
  BY <1>13 DEF TakeWatch, Goto
<1>14. CASE AwaitCopy
  BY <1>14 DEF AwaitCopy, Goto
<1>15. CASE AwaitDelay
  BY <1>15 DEF AwaitDelay, Goto
<1>16. CASE Retire
  BY <1>16 DEF Retire, KillGroup, Goto
<1>17. CASE Return
  BY <1>17 DEF Return, Goto, Finish, Verdict
<1>18. CASE Sync
  BY <1>18 DEF Sync, Goto
<1>19. CASE Close
  BY <1>19 DEF Close, Goto
<1>20. CASE UNCHANGED vars
  BY <1>20
<1>21. QED
  BY <1>1, <1>2, <1>3, <1>4, <1>5, <1>6, <1>7, <1>8, <1>9, <1>10,
     <1>11, <1>12, <1>13, <1>14, <1>15, <1>16, <1>17, <1>18, <1>19, <1>20 DEF Next, Command, Caller

\* A helper takes over part of what is left: nothing is lost.
LEMMA ForkFlow ==
  ASSUME TypeOK, CallerInv, FlowInv, Fork PROVE FlowInv'
<1>1. PICK n \in 0 .. MaxDump : todo' = [leader |-> todo["leader"] - n, helper |-> n] /\ n <= todo["leader"]
  BY DEF Fork
<1>2. todo'["leader"] = todo["leader"] - n /\ todo'["helper"] = n
  BY <1>1
<1>3. leader = "alive" /\ leader' = leader /\ helper' = "alive" /\ watch # "killed" /\ helper = "none"
  BY DEF Fork, CallerInv
<1>4. (Sound' <=> Sound) /\ copier' = copier /\ (readable' <=> readable) /\ kept' = kept /\ pipe' = pipe /\ dump' = dump
  BY DEF Fork, copyVars, Sound
<1>5. Sound => todo["helper"] = 0
  BY <1>3 DEF FlowInv
<1>6. Sound' => kept' + pipe' + todo'["leader"] + todo'["helper"] = dump'
  BY <1>2, <1>4, <1>5 DEF FlowInv, TypeOK, StateOK, Parts
<1>7. QED
    BY <1>3, <1>4, <1>6 DEF FlowInv

\* Cancel stops both processes, and its verdict says so.
LEMMA CancelFlow ==
  ASSUME TypeOK, CallerInv, FlowInv, Cancel PROVE FlowInv'
<1>1. leader' # "alive" /\ helper' # "alive"
  BY DEF Cancel, KillGroup
<1>5. watch' = "killed" \/ (leader' = leader /\ helper' = helper /\ watch # "killed")
  <2>1. CASE leader = "alive" \/ helper = "alive"
    <3>1. watch' \in {"killed"}
      BY Zenon, <2>1 DEF Cancel
    <3>2. QED
      BY <3>1
  <2>2. CASE leader # "alive" /\ helper # "alive"
    BY <2>2 DEF Cancel, KillGroup
  <2>3. QED
    BY <2>1, <2>2
<1>2. (leader' = "ok" => leader = "ok") /\ (leader' = "alive" => leader = "alive") /\ (helper' = "alive" => helper = "alive")
  BY DEF Cancel, KillGroup, TypeOK, StateOK
<1>3. (Sound' <=> Sound) /\ copier' = copier /\ (readable' <=> readable) /\ kept' = kept /\ pipe' = pipe /\ dump' = dump /\ todo' = todo
  BY DEF Cancel, copyVars, Sound
<1>4. QED
    BY <1>1, <1>5, <1>2, <1>3 DEF FlowInv

\* The copier: as long as nothing goes wrong, what leaves the pipe is kept.
LEMMA CopyFlow ==
  ASSUME TypeOK, CallerInv, FlowInv, NEW n \in 1 .. PipeCap, Copy(n) PROVE FlowInv'
<1>1. readable' <=> copier' = "copying"
  BY DEF Copy, CopyToFile, CopyToBuffer, FlowInv
<1>2. leader' = leader /\ helper' = helper /\ watch' = watch /\ todo' = todo /\ dump' = dump /\ copier = "copying" /\ pipe' = pipe - n /\ (runErr' <=> runErr)
  BY DEF Copy, procVars
<1>3. Sound' => Sound /\ ~PassesLimit(n)
  BY <1>2 DEF Copy, CopyToBuffer, CopyToFile, Sound
<1>4. ASSUME Sound' PROVE copier' = "copying" /\ kept' = kept + Fits(n)
  <2>1. CASE CopyToBuffer(n)
    BY <1>2, <2>1 DEF CopyToBuffer
  <2>2. CASE CopyToFile(n)
    <3>1. PICK m \in 0 .. n : /\ m <= Fits(n) /\ kept' = kept + m
             /\ IF m < Fits(n) \/ PassesLimit(n)
             THEN copier' = "done" /\ copyErr' = TRUE /\ readable' = FALSE
             ELSE UNCHANGED <<copier, copyErr, readable>>
      BY <2>2 DEF CopyToFile
    <3>2. ~(m < Fits(n))
      BY <1>4, <3>1 DEF Sound
    <3>3. copier' = copier
      BY <1>3, <1>4, <3>1, <3>2
    <3>4. m = Fits(n)
      BY <3>1, <3>2, BoundedCommandAssumption DEF Fits, TypeOK, StateOK
    <3>5. QED
    BY <1>2, <3>1, <3>3, <3>4
  <2>3. QED
    BY <2>1, <2>2 DEF Copy
<1>5. ASSUME Sound' PROVE kept' + pipe' = kept + pipe
  BY <1>2, <1>3, <1>4, <1>5, BoundedCommandAssumption DEF Fits, PassesLimit, TypeOK, StateOK
<1>6. ASSUME Sound' PROVE kept' + pipe' + todo'["leader"] + todo'["helper"] = dump'
  <2>1. todo["leader"] \in Nat /\ todo["helper"] \in Nat /\ dump \in Nat /\ kept \in Nat /\ pipe \in Nat
    BY BoundedCommandAssumption DEF TypeOK, StateOK, Parts
  <2>2. kept' \in Nat /\ pipe' \in Int
    BY <1>2, <1>4, <1>6, <2>1, BoundedCommandAssumption DEF Fits, TypeOK, StateOK
  <2>3. kept + pipe + todo["leader"] + todo["helper"] = dump
    BY <1>3, <1>6 DEF FlowInv
  <2>4. QED
    BY <1>2, <1>5, <1>6, <2>1, <2>2, <2>3
<1>7. QED
    BY <1>1, <1>2, <1>3, <1>4, <1>6 DEF FlowInv

\* Every step keeps the account of the units.
LEMMA FlowStep == TypeOK /\ CallerInv /\ FlowInv /\ [Next]_vars => FlowInv'
<1> SUFFICES ASSUME TypeOK, CallerInv, FlowInv, [Next]_vars PROVE FlowInv'
  OBVIOUS
<1> USE BoundedCommandAssumption DEF TypeOK, StateOK, Modes, Parts, Phases, Results, vars, procVars, copyVars, CallerInv, FlowInv, Sound, Returned
<1>1. CASE Fork
  BY <1>1, ForkFlow
<1>2. CASE LeaderExits
  BY <1>2 DEF LeaderExits
<1>3. CASE HelperEnds
  BY <1>3 DEF HelperEnds
<1>4. ASSUME NEW p \in Parts, Produce(p) PROVE FlowInv'
  BY <1>4 DEF Produce, Alive
<1>5. ASSUME NEW p \in Parts, ProduceInVain(p) PROVE FlowInv'
  BY <1>5 DEF ProduceInVain, Alive
<1>6. ASSUME NEW n \in 1 .. PipeCap, Copy(n) PROVE FlowInv'
  BY <1>6, CopyFlow
<1>7. CASE StderrPassesLimit
  BY <1>7 DEF StderrPassesLimit
<1>8. CASE CopyEOF
  BY <1>8 DEF CopyEOF
<1>9. CASE Expire
  BY <1>9 DEF Expire
<1>10. CASE Cancel
  BY <1>10, CancelFlow
<1>11. CASE Start
  BY <1>11 DEF Start, Goto, Finish
<1>12. CASE Reap
  BY <1>12 DEF Reap, Goto
<1>13. CASE TakeWatch
  BY <1>13 DEF TakeWatch, Goto
<1>14. CASE AwaitCopy
  BY <1>14 DEF AwaitCopy, Goto
<1>15. CASE AwaitDelay
  BY <1>15 DEF AwaitDelay, Goto
<1>16. CASE Retire
  BY <1>16 DEF Retire, KillGroup, Goto
<1>17. CASE Return
  BY <1>17 DEF Return, Goto, Finish, Verdict
<1>18. CASE Sync
  BY <1>18 DEF Sync, Goto
<1>19. CASE Close
  BY <1>19 DEF Close, Goto
<1>20. CASE UNCHANGED vars
  BY <1>20
<1>21. QED
  BY <1>1, <1>2, <1>3, <1>4, <1>5, <1>6, <1>7, <1>8, <1>9, <1>10,
     <1>11, <1>12, <1>13, <1>14, <1>15, <1>16, <1>17, <1>18, <1>19, <1>20 DEF Next, Command, Caller

\* The inductive invariant of a bounded command.
THEOREM CommandCorrect == Spec => []CommandInv
<1>1. CommandInv /\ [Next]_vars => CommandInv'
  BY StateStep, FlagsStep, CallerStep, FlowStep DEF CommandInv, TypeOK
<1>2. QED
  BY CommandInit, <1>1, PTL DEF Spec

\* Stream, run and Backup: what is returned without an error is the whole.
THEOREM SuccessMeansWhole == Spec => []SuccessIsWhole
<1>1. CommandInv => SuccessIsWhole
  <2> SUFFICES ASSUME CommandInv, pc = "done", result = "ok"
               PROVE  /\ leader = "ok" /\ kept = dump
                      /\ mode = "stream" => synced /\ kept > 0
    BY DEF SuccessIsWhole
  <2>1. Returned /\ ~exceeded /\ ~runErr
    BY DEF CommandInv, CallerInv, Returned
  <2>2. leader = "ok" /\ watch # "killed" /\ copier = "done" /\ helper # "alive" /\ Sound
    BY <2>1 DEF CommandInv, CallerInv, Sound, TypeOK
  <2>3. todo["leader"] = 0 /\ todo["helper"] = 0 /\ pipe = 0
    BY <2>2 DEF CommandInv, FlowInv
  <2>4. kept = dump
    BY <2>2, <2>3, BoundedCommandAssumption DEF CommandInv, FlowInv, TypeOK, StateOK
  <2>5. QED
    BY <2>2, <2>4 DEF CommandInv, CallerInv
<1>2. QED
  BY <1>1, CommandCorrect, PTL

\* retire and WaitDelay: nothing that the call started is left behind.
THEOREM NothingIsLeftRunning == Spec => []NothingOutlives
<1>1. CommandInv => NothingOutlives
  BY DEF CommandInv, CallerInv, Returned, NothingOutlives
<1>2. QED
  BY <1>1, CommandCorrect, PTL

=============================================================================
