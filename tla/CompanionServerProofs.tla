------------------------- MODULE CompanionServerProofs -------------------------
(***************************************************************************)
(* CompanionInv is inductive, and what follows from it, for any number of  *)
(* handlers, request IDs, rows, snapshots and any lifetimes; then that a   *)
(* session runs this server, and what becomes of its connection file; and  *)
(* that over the engine which it really calls it is still this server, and *)
(* what its clients are told is true of the processes.                     *)
(***************************************************************************)
EXTENDS CompanionSession, CompanionStop, FiniteSetTheorems, TLAPS

\* The purge keeps receipts as they are, and keeps all that are not expired.
LEMMA KeptFacts ==
    /\ DOMAIN Kept \subseteq DOMAIN receipts
    /\ \A i \in DOMAIN Kept : Kept[i] = receipts[i]
    /\ \A i \in DOMAIN receipts : receipts[i].state = "pending" => i \in DOMAIN Kept
  BY DEF Kept, Expired

\* The initial state is well typed, and no handler serves anything.
LEMMA TypeInit == Init => TypeOK /\ RequestInv
<1> SUFFICES ASSUME Init PROVE TypeOK /\ RequestInv
  OBVIOUS
<1> USE CompanionAssumption DEF Init
<1>1. snapshot \in Snapshots /\ draft \in [Handlers -> Drafts]
  BY DEF NoSnapshot, Snapshots, NoDraft, Drafts
<1>2. DOMAIN receipts = {}
  OBVIOUS
<1>3. pc \in [Handlers -> Phases] /\ verdict \in [Handlers -> Outcomes \cup {"none"}]
  BY DEF Phases
<1>4. runs \in [SnapIDs -> Nat] /\ req \in [Handlers -> Requests \cup {NoRequest}]
      /\ ctxDone \in [Handlers -> BOOLEAN]
  OBVIOUS
<1>5. RequestInv
  BY DEF RequestInv
<1>6. /\ armed \in 0 .. MaxSnapshots /\ issued \in 0 .. MaxSnapshots
      /\ due \in Nat /\ clock \in Nat
      /\ life \in Lives /\ closing \in BOOLEAN /\ cancelled \in BOOLEAN
  <2>1. 0 \in 0 .. MaxSnapshots
    OBVIOUS
  <2>2. QED
    BY <2>1 DEF Lives
<1>7. /\ firing \subseteq SnapIDs /\ touched \subseteq SnapIDs
      /\ decided \subseteq Requests \X Outcomes /\ told \subseteq Requests \X Outcomes
      /\ slot \in Handlers \cup {Free, Stopper}
  OBVIOUS
<1>8. QED
  BY <1>1, <1>2, <1>3, <1>4, <1>5, <1>6, <1>7 DEF TypeOK

\* Every step keeps the types: outcomes, receipts and snapshot IDs stay in range.
LEMMA TypeStep == TypeOK /\ RequestInv /\ [Next]_vars => TypeOK'
<1> SUFFICES ASSUME TypeOK, RequestInv, [Next]_vars PROVE TypeOK'
  OBVIOUS
<1> USE CompanionAssumption DEF Requests, Phases, Holding, Lives, SnapIDs,
      vars, serverVars, localVars, lifeVars, obsVars
<1>1. ASSUME NEW h \in Handlers, ReceiveSnapshot(h)
      PROVE  TypeOK'
  BY <1>1 DEF TypeOK, RequestInv, ReceiveSnapshot, Goto
<1>2. ASSUME NEW h \in Handlers, NEW q \in Requests, ReceiveAction(h, q)
      PROVE  TypeOK'
  BY <1>2 DEF TypeOK, RequestInv, ReceiveAction, Goto
<1>3. ASSUME NEW h \in Handlers, CancelContext(h)
      PROVE  TypeOK'
  BY <1>3 DEF TypeOK, RequestInv, CancelContext
<1>4. ASSUME NEW h \in Handlers, EngineEffect(h)
      PROVE  TypeOK'
  <2>1. req[h].snap \in SnapIDs
    BY <1>4 DEF EngineEffect, RequestInv
  <2>2. QED
    BY <1>4, <2>1 DEF EngineEffect, TypeOK
<1>5. ASSUME NEW h \in Handlers, SnapshotBusy(h)
      PROVE  TypeOK'
  BY <1>5 DEF TypeOK, RequestInv, SnapshotBusy, Goto
<1>6. ASSUME NEW h \in Handlers, SnapshotClaim(h)
      PROVE  TypeOK'
  BY <1>6 DEF TypeOK, RequestInv, SnapshotClaim, Goto, ClaimWork
<1>7. ASSUME NEW h \in Handlers, SnapshotClear(h)
      PROVE  TypeOK'
  BY <1>7 DEF TypeOK, RequestInv, SnapshotClear, Goto, ClearSnapshotLocked,
     NoSnapshot, Snapshots
<1>8. ASSUME NEW h \in Handlers, SnapshotCollected(h)
      PROVE  TypeOK'
  BY <1>8 DEF TypeOK, RequestInv, SnapshotCollected, Goto, Drafts, NoDraft
<1>9. ASSUME NEW h \in Handlers, SnapshotFailed(h)
      PROVE  TypeOK'
  BY <1>9 DEF TypeOK, RequestInv, SnapshotFailed, Goto
<1>10. ASSUME NEW h \in Handlers, SnapshotPublish(h)
      PROVE  TypeOK'
  BY <1>10 DEF TypeOK, RequestInv, SnapshotPublish, Goto, NoSnapshot,
     Snapshots, Drafts, NoDraft
<1>11. ASSUME NEW h \in Handlers, ActionReplay(h)
      PROVE  TypeOK'
  <2>1. DOMAIN receipts' \subseteq RequestIDs
    BY <1>11, KeptFacts DEF ActionReplay, TypeOK
  <2>2. \A i \in DOMAIN receipts' : receipts'[i] \in Receipts
    BY <1>11, KeptFacts DEF ActionReplay, TypeOK
  <2>3. told' \subseteq Requests \X Outcomes
    <3>1. CASE told' = told
      BY <3>1 DEF TypeOK
    <3>2. CASE told' # told
      <4> DEFINE q == req[h]
      <4>1. /\ Kept[q.id] \in Receipts /\ q \in Requests
            /\ Kept[q.id].state = "final"
            /\ told' = told \cup {<<q, Kept[q.id].outcome>>}
        BY <1>11, <3>2, KeptFacts DEF ActionReplay, TypeOK, RequestInv
      <4>2. Kept[q.id].outcome \in Outcomes
        BY <4>1 DEF Receipts
      <4>3. QED
        BY <4>1, <4>2 DEF TypeOK
    <3>3. QED
      BY <3>1, <3>2
  <2>4. QED
    BY <1>11, <2>1, <2>2, <2>3 DEF ActionReplay, Goto, TypeOK
<1>12. ASSUME NEW h \in Handlers, ActionBusy(h)
      PROVE  TypeOK'
  BY <1>12, KeptFacts DEF TypeOK, RequestInv, ActionBusy, Goto
<1>13. ASSUME NEW h \in Handlers, ActionStale(h)
      PROVE  TypeOK'
  BY <1>13, KeptFacts DEF TypeOK, RequestInv, ActionStale, Goto, ClaimWork
<1>14. ASSUME NEW h \in Handlers, ActionStart(h)
      PROVE  TypeOK'
  <2> DEFINE q == req[h]
             pending == [req |-> q, state |-> "pending", outcome |-> "none",
                         expires |-> clock + ReceiptTTL]
  <2>1. q \in Requests /\ pending \in Receipts
    BY <1>14 DEF ActionStart, RequestInv, TypeOK, Receipts
  <2>2. receipts' = Put(Kept, q.id, pending)
    BY <1>14 DEF ActionStart
  <2>3. DOMAIN receipts' \subseteq RequestIDs
    BY <2>1, <2>2, KeptFacts DEF TypeOK, Put
  <2>4. \A i \in DOMAIN receipts' : receipts'[i] \in Receipts
    BY <2>1, <2>2, KeptFacts DEF TypeOK, Put
  <2>5. snapshot' \in Snapshots /\ armed' \in 0 .. MaxSnapshots /\ due' \in Nat
        /\ firing' \subseteq SnapIDs
    BY <1>14 DEF ActionStart, ClearSnapshotLocked, NoSnapshot, Snapshots, TypeOK
  <2>6. runs' \in [SnapIDs -> Nat]
    BY <1>14, <2>1 DEF ActionStart, TypeOK
  <2>7. QED
    BY <1>14, <2>3, <2>4, <2>5, <2>6 DEF ActionStart, ClaimWork, Goto, TypeOK
<1>15. ASSUME NEW h \in Handlers, NEW res \in Results, EngineReturn(h, res)
      PROVE  TypeOK'
  BY <1>15 DEF TypeOK, RequestInv, EngineReturn, TakeResult, Goto, Outcome, Outcomes,
     Results
<1>16. ASSUME NEW h \in Handlers, ActionRecord(h)
      PROVE  TypeOK'
  <2> DEFINE final == [req |-> req[h], state |-> "final", outcome |-> verdict[h],
                       expires |-> clock + ReceiptTTL]
  <2>1. req[h] \in Requests /\ verdict[h] \in Outcomes
    BY <1>16 DEF ActionRecord, RequestInv, TypeOK
  <2>2. final \in Receipts
    BY <2>1 DEF TypeOK, Receipts
  <2>3. receipts' = Put(receipts, req[h].id, final)
    BY <1>16 DEF ActionRecord
  <2>4. DOMAIN receipts' \subseteq RequestIDs
    BY <2>1, <2>3 DEF TypeOK, Put
  <2>5. \A i \in DOMAIN receipts' : receipts'[i] \in Receipts
    BY <2>2, <2>3 DEF TypeOK, Put
  <2>6. decided' \subseteq Requests \X Outcomes
    BY <1>16, <2>1 DEF ActionRecord, TypeOK
  <2>7. QED
    BY <1>16, <2>4, <2>5, <2>6 DEF ActionRecord, Goto, TypeOK
<1>17. ASSUME NEW h \in Handlers, Release(h)
      PROVE  TypeOK'
  BY <1>17 DEF TypeOK, RequestInv, Release, Goto, Outcomes, Receipts
<1>18. CASE TimerFire
  <2>1. firing' \subseteq SnapIDs
    BY <1>18 DEF TypeOK, TimerFire
  <2>2. armed' \in 0 .. MaxSnapshots /\ due' \in Nat
    BY <1>18 DEF TypeOK, TimerFire
  <2>3. QED
    BY <1>18, <2>1, <2>2 DEF TypeOK, TimerFire
<1>19. ASSUME NEW s \in SnapIDs, TimerCallback(s)
      PROVE  TypeOK'
  <2>1. snapshot' \in Snapshots
    BY <1>19 DEF TimerCallback, NoSnapshot, Snapshots, TypeOK
  <2>2. /\ firing' \subseteq firing
        /\ \/ armed' = 0 /\ due' = 0
           \/ armed' = armed /\ due' = due
    BY <1>19 DEF TimerCallback
  <2>3. armed' \in 0 .. MaxSnapshots /\ due' \in Nat /\ firing' \subseteq SnapIDs
    BY <2>2 DEF TypeOK
  <2>4. QED
    BY <1>19, <2>1, <2>3 DEF TimerCallback, TypeOK
<1>20. CASE Signal
  BY <1>20 DEF TypeOK, RequestInv, Signal
<1>21. CASE ServeFails
  BY <1>21 DEF TypeOK, RequestInv, ServeFails
<1>22. CASE ServeCloses
  BY <1>22 DEF TypeOK, RequestInv, ServeCloses
<1>23. CASE StopSetClosing
  BY <1>23 DEF TypeOK, RequestInv, StopSetClosing
<1>24. CASE StopAcquire
  BY <1>24 DEF TypeOK, RequestInv, StopAcquire
<1>25. CASE StopRelease
  BY <1>25 DEF TypeOK, RequestInv, StopRelease
<1>26. CASE StopClear
  BY <1>26 DEF TypeOK, RequestInv, StopClear, ClearSnapshotLocked,
     NoSnapshot, Snapshots
<1>27. CASE Exit
  BY <1>27 DEF TypeOK, RequestInv, Exit
<1>28. CASE Tick
  BY <1>28 DEF TypeOK, RequestInv, Tick
<1>29. CASE UNCHANGED vars
  BY <1>29 DEF TypeOK, RequestInv
<1>30. QED
  BY <1>1, <1>2, <1>3, <1>4, <1>5, <1>6, <1>7, <1>8, <1>9, <1>10, <1>11, <1>12, <1>13,
     <1>14, <1>15, <1>16, <1>17, <1>18, <1>19, <1>20, <1>21, <1>22, <1>23, <1>24, <1>25,
     <1>26, <1>27, <1>28, <1>29 DEF Next, Serve, Stop

\* A handler's request and verdict fit the point it has reached.
LEMMA RequestStep ==
    TypeOK /\ RequestInv /\ [Next]_vars => RequestInv'
<1> SUFFICES ASSUME TypeOK, RequestInv, [Next]_vars PROVE RequestInv'
  OBVIOUS
<1> USE CompanionAssumption DEF TypeOK, RequestInv, Requests, Phases, Holding, Lives, SnapIDs,
      vars, serverVars, localVars, lifeVars, obsVars
<1>1. ASSUME NEW h \in Handlers, ReceiveSnapshot(h)
      PROVE  RequestInv'
  BY <1>1 DEF ReceiveSnapshot, Goto
<1>2. ASSUME NEW h \in Handlers, NEW q \in Requests, ReceiveAction(h, q)
      PROVE  RequestInv'
  BY <1>2 DEF ReceiveAction, Goto
<1>3. ASSUME NEW h \in Handlers, CancelContext(h)
      PROVE  RequestInv'
  BY <1>3 DEF CancelContext
<1>4. ASSUME NEW h \in Handlers, EngineEffect(h)
      PROVE  RequestInv'
  BY <1>4 DEF EngineEffect
<1>5. ASSUME NEW h \in Handlers, SnapshotBusy(h)
      PROVE  RequestInv'
  BY <1>5 DEF SnapshotBusy, Goto
<1>6. ASSUME NEW h \in Handlers, SnapshotClaim(h)
      PROVE  RequestInv'
  BY <1>6 DEF SnapshotClaim, Goto, ClaimWork, CanClaim
<1>7. ASSUME NEW h \in Handlers, SnapshotClear(h)
      PROVE  RequestInv'
  BY <1>7 DEF SnapshotClear, Goto, ClearSnapshotLocked
<1>8. ASSUME NEW h \in Handlers, SnapshotCollected(h)
      PROVE  RequestInv'
  BY <1>8 DEF SnapshotCollected, Goto
<1>9. ASSUME NEW h \in Handlers, SnapshotFailed(h)
      PROVE  RequestInv'
  BY <1>9 DEF SnapshotFailed, Goto
<1>10. ASSUME NEW h \in Handlers, SnapshotPublish(h)
      PROVE  RequestInv'
  BY <1>10 DEF SnapshotPublish, Goto
<1>11. ASSUME NEW h \in Handlers, ActionReplay(h)
      PROVE  RequestInv'
  BY <1>11 DEF ActionReplay, Goto
<1>12. ASSUME NEW h \in Handlers, ActionBusy(h)
      PROVE  RequestInv'
  BY <1>12 DEF ActionBusy, Goto
<1>13. ASSUME NEW h \in Handlers, ActionStale(h)
      PROVE  RequestInv'
  BY <1>13 DEF ActionStale, Goto, ClaimWork, CanClaim
<1>14. ASSUME NEW h \in Handlers, ActionStart(h)
      PROVE  RequestInv'
  BY <1>14 DEF ActionStart, Goto, ClearSnapshotLocked, ClaimWork, CanClaim
<1>15. ASSUME NEW h \in Handlers, NEW res \in Results, EngineReturn(h, res)
      PROVE  RequestInv'
  BY <1>15 DEF EngineReturn, TakeResult, Goto, Outcome, Results
<1>16. ASSUME NEW h \in Handlers, ActionRecord(h)
      PROVE  RequestInv'
  BY <1>16 DEF ActionRecord, Goto
<1>17. ASSUME NEW h \in Handlers, Release(h)
      PROVE  RequestInv'
  BY <1>17 DEF Release, Goto
<1>18. CASE TimerFire
  BY <1>18 DEF TimerFire
<1>19. ASSUME NEW s \in SnapIDs, TimerCallback(s)
      PROVE  RequestInv'
  BY <1>19 DEF TimerCallback
<1>20. CASE Signal
  BY <1>20 DEF Signal
<1>21. CASE ServeFails
  BY <1>21 DEF ServeFails
<1>22. CASE ServeCloses
  BY <1>22 DEF ServeCloses
<1>23. CASE StopSetClosing
  BY <1>23 DEF StopSetClosing
<1>24. CASE StopAcquire
  BY <1>24 DEF StopAcquire
<1>25. CASE StopRelease
  BY <1>25 DEF StopRelease
<1>26. CASE StopClear
  BY <1>26 DEF StopClear, ClearSnapshotLocked
<1>27. CASE Exit
  BY <1>27 DEF Exit
<1>28. CASE Tick
  BY <1>28 DEF Tick
<1>29. CASE UNCHANGED vars
  BY <1>29
<1>30. QED
  BY <1>1, <1>2, <1>3, <1>4, <1>5, <1>6, <1>7, <1>8, <1>9, <1>10, <1>11, <1>12, <1>13,
     <1>14, <1>15, <1>16, <1>17, <1>18, <1>19, <1>20, <1>21, <1>22, <1>23, <1>24, <1>25,
     <1>26, <1>27, <1>28, <1>29 DEF Next, Serve, Stop

\* The slot has one holder, and none after the drain.
LEMMA SlotStep ==
    TypeOK /\ SlotInv /\ [Next]_vars => SlotInv'
<1> SUFFICES ASSUME TypeOK, SlotInv, [Next]_vars PROVE SlotInv'
  OBVIOUS
<1> USE CompanionAssumption DEF TypeOK, SlotInv, Requests, Phases, Holding, Lives, SnapIDs,
      vars, serverVars, localVars, lifeVars, obsVars
<1>1. ASSUME NEW h \in Handlers, ReceiveSnapshot(h)
      PROVE  SlotInv'
  BY <1>1 DEF WorkIsExclusive, ReceiveSnapshot, Goto, Alive
<1>2. ASSUME NEW h \in Handlers, NEW q \in Requests, ReceiveAction(h, q)
      PROVE  SlotInv'
  BY <1>2 DEF WorkIsExclusive, ReceiveAction, Goto, Alive
<1>3. ASSUME NEW h \in Handlers, CancelContext(h)
      PROVE  SlotInv'
  BY <1>3 DEF WorkIsExclusive, CancelContext, Alive
<1>4. ASSUME NEW h \in Handlers, EngineEffect(h)
      PROVE  SlotInv'
  BY <1>4 DEF WorkIsExclusive, EngineEffect, Alive
<1>5. ASSUME NEW h \in Handlers, SnapshotBusy(h)
      PROVE  SlotInv'
  BY <1>5 DEF WorkIsExclusive, SnapshotBusy, Goto, Alive
<1>6. ASSUME NEW h \in Handlers, SnapshotClaim(h)
      PROVE  SlotInv'
  BY <1>6 DEF WorkIsExclusive, SnapshotClaim, Goto, ClaimWork, CanClaim,
     Alive
<1>7. ASSUME NEW h \in Handlers, SnapshotClear(h)
      PROVE  SlotInv'
  BY <1>7 DEF WorkIsExclusive, SnapshotClear, Goto, ClearSnapshotLocked,
     Alive
<1>8. ASSUME NEW h \in Handlers, SnapshotCollected(h)
      PROVE  SlotInv'
  BY <1>8 DEF WorkIsExclusive, SnapshotCollected, Goto, Alive
<1>9. ASSUME NEW h \in Handlers, SnapshotFailed(h)
      PROVE  SlotInv'
  BY <1>9 DEF WorkIsExclusive, SnapshotFailed, Goto, Alive
<1>10. ASSUME NEW h \in Handlers, SnapshotPublish(h)
      PROVE  SlotInv'
  BY <1>10 DEF WorkIsExclusive, SnapshotPublish, Goto, Alive
<1>11. ASSUME NEW h \in Handlers, ActionReplay(h)
      PROVE  SlotInv'
  BY <1>11 DEF WorkIsExclusive, ActionReplay, Goto, Alive
<1>12. ASSUME NEW h \in Handlers, ActionBusy(h)
      PROVE  SlotInv'
  BY <1>12 DEF WorkIsExclusive, ActionBusy, Goto, Alive
<1>13. ASSUME NEW h \in Handlers, ActionStale(h)
      PROVE  SlotInv'
  BY <1>13 DEF WorkIsExclusive, ActionStale, Goto, ClaimWork, CanClaim, Alive
<1>14. ASSUME NEW h \in Handlers, ActionStart(h)
      PROVE  SlotInv'
  BY <1>14 DEF WorkIsExclusive, ActionStart, Goto, ClearSnapshotLocked,
     ClaimWork, CanClaim, Alive
<1>15. ASSUME NEW h \in Handlers, NEW res \in Results, EngineReturn(h, res)
      PROVE  SlotInv'
  BY <1>15 DEF WorkIsExclusive, EngineReturn, TakeResult, Goto, Alive
<1>16. ASSUME NEW h \in Handlers, ActionRecord(h)
      PROVE  SlotInv'
  BY <1>16 DEF WorkIsExclusive, ActionRecord, Goto, Alive
<1>17. ASSUME NEW h \in Handlers, Release(h)
      PROVE  SlotInv'
  BY <1>17 DEF WorkIsExclusive, Release, Goto, Alive
<1>18. CASE TimerFire
  BY <1>18 DEF WorkIsExclusive, TimerFire, Alive
<1>19. ASSUME NEW s \in SnapIDs, TimerCallback(s)
      PROVE  SlotInv'
  BY <1>19 DEF WorkIsExclusive, TimerCallback, Alive
<1>20. CASE Signal
  BY <1>20 DEF WorkIsExclusive, Signal, Alive
<1>21. CASE ServeFails
  BY <1>21 DEF WorkIsExclusive, ServeFails, Alive
<1>22. CASE ServeCloses
  BY <1>22 DEF WorkIsExclusive, ServeCloses, Alive
<1>23. CASE StopSetClosing
  BY <1>23 DEF WorkIsExclusive, StopSetClosing, Alive
<1>24. CASE StopAcquire
  BY <1>24 DEF WorkIsExclusive, StopAcquire, Alive
<1>25. CASE StopRelease
  BY <1>25 DEF WorkIsExclusive, StopRelease, Alive
<1>26. CASE StopClear
  BY <1>26 DEF WorkIsExclusive, StopClear, ClearSnapshotLocked, Alive
<1>27. CASE Exit
  BY <1>27 DEF WorkIsExclusive, Exit, Alive
<1>28. CASE Tick
  BY <1>28 DEF WorkIsExclusive, Tick, Alive
<1>29. CASE UNCHANGED vars
  BY <1>29 DEF WorkIsExclusive, Alive
<1>30. QED
  BY <1>1, <1>2, <1>3, <1>4, <1>5, <1>6, <1>7, <1>8, <1>9, <1>10, <1>11, <1>12, <1>13,
     <1>14, <1>15, <1>16, <1>17, <1>18, <1>19, <1>20, <1>21, <1>22, <1>23, <1>24, <1>25,
     <1>26, <1>27, <1>28, <1>29 DEF Next, Serve, Stop

\* A snapshot that is retained has never carried an action.
LEMMA SnapshotStep ==
    TypeOK /\ RequestInv /\ SlotInv /\ SnapshotInv /\ [Next]_vars => SnapshotInv'
<1> SUFFICES ASSUME TypeOK, RequestInv, SlotInv, SnapshotInv, [Next]_vars PROVE SnapshotInv'
  OBVIOUS
<1> USE CompanionAssumption DEF TypeOK, RequestInv, SlotInv, SnapshotInv,
      Requests, Phases, Holding, Lives, SnapIDs,
      vars, serverVars, localVars, lifeVars, obsVars
<1>1. ASSUME NEW h \in Handlers, ReceiveSnapshot(h)
      PROVE  SnapshotInv'
  BY <1>1 DEF WorkIsExclusive, OneRunPerSnapshot, ReceiveSnapshot, Goto
<1>2. ASSUME NEW h \in Handlers, NEW q \in Requests, ReceiveAction(h, q)
      PROVE  SnapshotInv'
  BY <1>2 DEF WorkIsExclusive, OneRunPerSnapshot, ReceiveAction, Goto
<1>3. ASSUME NEW h \in Handlers, CancelContext(h)
      PROVE  SnapshotInv'
  BY <1>3 DEF WorkIsExclusive, OneRunPerSnapshot, CancelContext
<1>4. ASSUME NEW h \in Handlers, EngineEffect(h)
      PROVE  SnapshotInv'
  BY <1>4 DEF WorkIsExclusive, OneRunPerSnapshot, EngineEffect
<1>5. ASSUME NEW h \in Handlers, SnapshotBusy(h)
      PROVE  SnapshotInv'
  BY <1>5 DEF WorkIsExclusive, OneRunPerSnapshot, SnapshotBusy, Goto
<1>6. ASSUME NEW h \in Handlers, SnapshotClaim(h)
      PROVE  SnapshotInv'
  BY <1>6 DEF WorkIsExclusive, OneRunPerSnapshot, SnapshotClaim, Goto,
     ClaimWork, CanClaim
<1>7. ASSUME NEW h \in Handlers, SnapshotClear(h)
      PROVE  SnapshotInv'
  BY <1>7 DEF WorkIsExclusive, OneRunPerSnapshot, SnapshotClear, Goto,
     ClearSnapshotLocked, NoSnapshot
<1>8. ASSUME NEW h \in Handlers, SnapshotCollected(h)
      PROVE  SnapshotInv'
  BY <1>8 DEF WorkIsExclusive, OneRunPerSnapshot, SnapshotCollected, Goto
<1>9. ASSUME NEW h \in Handlers, SnapshotFailed(h)
      PROVE  SnapshotInv'
  BY <1>9 DEF WorkIsExclusive, OneRunPerSnapshot, SnapshotFailed, Goto
<1>10. ASSUME NEW h \in Handlers, SnapshotPublish(h)
      PROVE  SnapshotInv'
  BY <1>10 DEF WorkIsExclusive, OneRunPerSnapshot, SnapshotPublish, Goto,
     Snapshots, NoSnapshot
<1>11. ASSUME NEW h \in Handlers, ActionReplay(h)
      PROVE  SnapshotInv'
  BY <1>11 DEF WorkIsExclusive, OneRunPerSnapshot, ActionReplay, Goto
<1>12. ASSUME NEW h \in Handlers, ActionBusy(h)
      PROVE  SnapshotInv'
  BY <1>12 DEF WorkIsExclusive, OneRunPerSnapshot, ActionBusy, Goto
<1>13. ASSUME NEW h \in Handlers, ActionStale(h)
      PROVE  SnapshotInv'
  BY <1>13 DEF WorkIsExclusive, OneRunPerSnapshot, ActionStale, Goto,
     ClaimWork, CanClaim
<1>14. ASSUME NEW h \in Handlers, ActionStart(h)
      PROVE  SnapshotInv'
  BY <1>14 DEF WorkIsExclusive, OneRunPerSnapshot, ActionStart, Goto,
     ClearSnapshotLocked, ClaimWork, CanClaim, NoSnapshot, Found
<1>15. ASSUME NEW h \in Handlers, NEW res \in Results, EngineReturn(h, res)
      PROVE  SnapshotInv'
  BY <1>15 DEF WorkIsExclusive, OneRunPerSnapshot, EngineReturn, TakeResult, Goto
<1>16. ASSUME NEW h \in Handlers, ActionRecord(h)
      PROVE  SnapshotInv'
  BY <1>16 DEF WorkIsExclusive, OneRunPerSnapshot, ActionRecord, Goto
<1>17. ASSUME NEW h \in Handlers, Release(h)
      PROVE  SnapshotInv'
  BY <1>17 DEF WorkIsExclusive, OneRunPerSnapshot, Release, Goto
<1>18. CASE TimerFire
  BY <1>18 DEF WorkIsExclusive, OneRunPerSnapshot, TimerFire
<1>19. ASSUME NEW s \in SnapIDs, TimerCallback(s)
      PROVE  SnapshotInv'
  BY <1>19 DEF WorkIsExclusive, OneRunPerSnapshot, TimerCallback, NoSnapshot
<1>20. CASE Signal
  BY <1>20 DEF WorkIsExclusive, OneRunPerSnapshot, Signal
<1>21. CASE ServeFails
  BY <1>21 DEF WorkIsExclusive, OneRunPerSnapshot, ServeFails
<1>22. CASE ServeCloses
  BY <1>22 DEF WorkIsExclusive, OneRunPerSnapshot, ServeCloses
<1>23. CASE StopSetClosing
  BY <1>23 DEF WorkIsExclusive, OneRunPerSnapshot, StopSetClosing
<1>24. CASE StopAcquire
  BY <1>24 DEF WorkIsExclusive, OneRunPerSnapshot, StopAcquire
<1>25. CASE StopRelease
  BY <1>25 DEF WorkIsExclusive, OneRunPerSnapshot, StopRelease
<1>26. CASE StopClear
  BY <1>26 DEF WorkIsExclusive, OneRunPerSnapshot, StopClear,
     ClearSnapshotLocked, NoSnapshot
<1>27. CASE Exit
  BY <1>27 DEF WorkIsExclusive, OneRunPerSnapshot, Exit
<1>28. CASE Tick
  BY <1>28 DEF WorkIsExclusive, OneRunPerSnapshot, Tick
<1>29. CASE UNCHANGED vars
  BY <1>29 DEF WorkIsExclusive, OneRunPerSnapshot
<1>30. QED
  BY <1>1, <1>2, <1>3, <1>4, <1>5, <1>6, <1>7, <1>8, <1>9, <1>10, <1>11, <1>12, <1>13,
     <1>14, <1>15, <1>16, <1>17, <1>18, <1>19, <1>20, <1>21, <1>22, <1>23, <1>24, <1>25,
     <1>26, <1>27, <1>28, <1>29 DEF Next, Serve, Stop

\* What a running handler knows stays true until it reports.
LEMMA LocalStep ==
    TypeOK /\ RequestInv /\ SlotInv /\ SnapshotInv /\ LocalInv /\ [Next]_vars => LocalInv'
<1> SUFFICES ASSUME TypeOK, RequestInv, SlotInv, SnapshotInv, LocalInv, [Next]_vars
             PROVE LocalInv'
  OBVIOUS
<1> USE CompanionAssumption DEF TypeOK, RequestInv, SlotInv, SnapshotInv, LocalInv,
      Requests, Phases, Holding, Lives, SnapIDs,
      vars, serverVars, localVars, lifeVars, obsVars
<1>1. ASSUME NEW h \in Handlers, ReceiveSnapshot(h)
      PROVE  LocalInv'
  BY <1>1 DEF WorkIsExclusive, OneRunPerSnapshot, ReceiveSnapshot, Goto
<1>2. ASSUME NEW h \in Handlers, NEW q \in Requests, ReceiveAction(h, q)
      PROVE  LocalInv'
  BY <1>2 DEF WorkIsExclusive, OneRunPerSnapshot, ReceiveAction, Goto
<1>3. ASSUME NEW h \in Handlers, CancelContext(h)
      PROVE  LocalInv'
  BY <1>3 DEF WorkIsExclusive, OneRunPerSnapshot, CancelContext
<1>4. ASSUME NEW h \in Handlers, EngineEffect(h)
      PROVE  LocalInv'
  BY <1>4 DEF WorkIsExclusive, OneRunPerSnapshot, EngineEffect
<1>5. ASSUME NEW h \in Handlers, SnapshotBusy(h)
      PROVE  LocalInv'
  BY <1>5 DEF WorkIsExclusive, OneRunPerSnapshot, SnapshotBusy, Goto
<1>6. ASSUME NEW h \in Handlers, SnapshotClaim(h)
      PROVE  LocalInv'
  BY <1>6 DEF WorkIsExclusive, OneRunPerSnapshot, SnapshotClaim, Goto,
     ClaimWork, CanClaim
<1>7. ASSUME NEW h \in Handlers, SnapshotClear(h)
      PROVE  LocalInv'
  BY <1>7 DEF WorkIsExclusive, OneRunPerSnapshot, SnapshotClear, Goto,
     ClearSnapshotLocked
<1>8. ASSUME NEW h \in Handlers, SnapshotCollected(h)
      PROVE  LocalInv'
  BY <1>8 DEF WorkIsExclusive, OneRunPerSnapshot, SnapshotCollected, Goto
<1>9. ASSUME NEW h \in Handlers, SnapshotFailed(h)
      PROVE  LocalInv'
  BY <1>9 DEF WorkIsExclusive, OneRunPerSnapshot, SnapshotFailed, Goto
<1>10. ASSUME NEW h \in Handlers, SnapshotPublish(h)
      PROVE  LocalInv'
  BY <1>10 DEF WorkIsExclusive, OneRunPerSnapshot, SnapshotPublish, Goto
<1>11. ASSUME NEW h \in Handlers, ActionReplay(h)
      PROVE  LocalInv'
  BY <1>11 DEF WorkIsExclusive, OneRunPerSnapshot, ActionReplay, Goto
<1>12. ASSUME NEW h \in Handlers, ActionBusy(h)
      PROVE  LocalInv'
  BY <1>12 DEF WorkIsExclusive, OneRunPerSnapshot, ActionBusy, Goto
<1>13. ASSUME NEW h \in Handlers, ActionStale(h)
      PROVE  LocalInv'
  BY <1>13 DEF WorkIsExclusive, OneRunPerSnapshot, ActionStale, Goto,
     ClaimWork, CanClaim
<1>14. ASSUME NEW h \in Handlers, ActionStart(h)
      PROVE  LocalInv'
  BY <1>14 DEF WorkIsExclusive, OneRunPerSnapshot, ActionStart, Goto,
     ClearSnapshotLocked, ClaimWork, CanClaim, Found
<1>15. ASSUME NEW h \in Handlers, NEW res \in Results, EngineReturn(h, res)
      PROVE  LocalInv'
  BY <1>15 DEF WorkIsExclusive, OneRunPerSnapshot, EngineReturn, TakeResult, Goto,
     Outcome, Results
<1>16. ASSUME NEW h \in Handlers, ActionRecord(h)
      PROVE  LocalInv'
  BY <1>16 DEF WorkIsExclusive, OneRunPerSnapshot, ActionRecord, Goto
<1>17. ASSUME NEW h \in Handlers, Release(h)
      PROVE  LocalInv'
  BY <1>17 DEF WorkIsExclusive, OneRunPerSnapshot, Release, Goto
<1>18. CASE TimerFire
  BY <1>18 DEF WorkIsExclusive, OneRunPerSnapshot, TimerFire
<1>19. ASSUME NEW s \in SnapIDs, TimerCallback(s)
      PROVE  LocalInv'
  BY <1>19 DEF WorkIsExclusive, OneRunPerSnapshot, TimerCallback
<1>20. CASE Signal
  BY <1>20 DEF WorkIsExclusive, OneRunPerSnapshot, Signal
<1>21. CASE ServeFails
  BY <1>21 DEF WorkIsExclusive, OneRunPerSnapshot, ServeFails
<1>22. CASE ServeCloses
  BY <1>22 DEF WorkIsExclusive, OneRunPerSnapshot, ServeCloses
<1>23. CASE StopSetClosing
  BY <1>23 DEF WorkIsExclusive, OneRunPerSnapshot, StopSetClosing
<1>24. CASE StopAcquire
  BY <1>24 DEF WorkIsExclusive, OneRunPerSnapshot, StopAcquire
<1>25. CASE StopRelease
  BY <1>25 DEF WorkIsExclusive, OneRunPerSnapshot, StopRelease
<1>26. CASE StopClear
  BY <1>26 DEF WorkIsExclusive, OneRunPerSnapshot, StopClear,
     ClearSnapshotLocked
<1>27. CASE Exit
  BY <1>27 DEF WorkIsExclusive, OneRunPerSnapshot, Exit
<1>28. CASE Tick
  BY <1>28 DEF WorkIsExclusive, OneRunPerSnapshot, Tick
<1>29. CASE UNCHANGED vars
  BY <1>29 DEF WorkIsExclusive, OneRunPerSnapshot
<1>30. QED
  BY <1>1, <1>2, <1>3, <1>4, <1>5, <1>6, <1>7, <1>8, <1>9, <1>10, <1>11, <1>12, <1>13,
     <1>14, <1>15, <1>16, <1>17, <1>18, <1>19, <1>20, <1>21, <1>22, <1>23, <1>24, <1>25,
     <1>26, <1>27, <1>28, <1>29 DEF Next, Serve, Stop

\* A decided outcome is never decided again or contradicted.
LEMMA DecidedStep ==
    TypeOK /\ RequestInv /\ SlotInv /\ SnapshotInv
        /\ LocalInv /\ DecidedInv /\ ReceiptInv /\ [Next]_vars => DecidedInv'
<1> SUFFICES ASSUME TypeOK, RequestInv, SlotInv, SnapshotInv, LocalInv, DecidedInv,
                    ReceiptInv, [Next]_vars
             PROVE DecidedInv'
  OBVIOUS
<1> USE CompanionAssumption DEF TypeOK, RequestInv, SlotInv, SnapshotInv, LocalInv, DecidedInv,
      ReceiptInv,
      Requests, Phases, Holding, Lives, SnapIDs,
      vars, serverVars, localVars, lifeVars, obsVars
<1>1. ASSUME NEW h \in Handlers, ReceiveSnapshot(h)
      PROVE  DecidedInv'
  BY <1>1 DEF WorkIsExclusive, OneRunPerSnapshot, ReceiveSnapshot, Goto
<1>2. ASSUME NEW h \in Handlers, NEW q \in Requests, ReceiveAction(h, q)
      PROVE  DecidedInv'
  BY <1>2 DEF WorkIsExclusive, OneRunPerSnapshot, ReceiveAction, Goto
<1>3. ASSUME NEW h \in Handlers, CancelContext(h)
      PROVE  DecidedInv'
  BY <1>3 DEF WorkIsExclusive, OneRunPerSnapshot, CancelContext
<1>4. ASSUME NEW h \in Handlers, EngineEffect(h)
      PROVE  DecidedInv'
  <2>1. runs[req[h].snap] = 1 /\ req[h].snap \in SnapIDs
    BY <1>4 DEF EngineEffect
  <2>2. \A t \in decided : t[1].snap # req[h].snap
    BY <1>4 DEF EngineEffect
  <2>3. QED
    BY <1>4, <2>1, <2>2 DEF EngineEffect
<1>5. ASSUME NEW h \in Handlers, SnapshotBusy(h)
      PROVE  DecidedInv'
  BY <1>5 DEF WorkIsExclusive, OneRunPerSnapshot, SnapshotBusy, Goto
<1>6. ASSUME NEW h \in Handlers, SnapshotClaim(h)
      PROVE  DecidedInv'
  BY <1>6 DEF WorkIsExclusive, OneRunPerSnapshot, SnapshotClaim, Goto,
     ClaimWork, CanClaim
<1>7. ASSUME NEW h \in Handlers, SnapshotClear(h)
      PROVE  DecidedInv'
  BY <1>7 DEF WorkIsExclusive, OneRunPerSnapshot, SnapshotClear, Goto,
     ClearSnapshotLocked
<1>8. ASSUME NEW h \in Handlers, SnapshotCollected(h)
      PROVE  DecidedInv'
  BY <1>8 DEF WorkIsExclusive, OneRunPerSnapshot, SnapshotCollected, Goto
<1>9. ASSUME NEW h \in Handlers, SnapshotFailed(h)
      PROVE  DecidedInv'
  BY <1>9 DEF WorkIsExclusive, OneRunPerSnapshot, SnapshotFailed, Goto
<1>10. ASSUME NEW h \in Handlers, SnapshotPublish(h)
      PROVE  DecidedInv'
  BY <1>10 DEF WorkIsExclusive, OneRunPerSnapshot, SnapshotPublish, Goto
<1>11. ASSUME NEW h \in Handlers, ActionReplay(h)
      PROVE  DecidedInv'
  BY <1>11, KeptFacts DEF WorkIsExclusive, OneRunPerSnapshot, ActionReplay,
     Goto
<1>12. ASSUME NEW h \in Handlers, ActionBusy(h)
      PROVE  DecidedInv'
  BY <1>12 DEF WorkIsExclusive, OneRunPerSnapshot, ActionBusy, Goto
<1>13. ASSUME NEW h \in Handlers, ActionStale(h)
      PROVE  DecidedInv'
  BY <1>13 DEF WorkIsExclusive, OneRunPerSnapshot, ActionStale, Goto,
     ClaimWork, CanClaim
<1>14. ASSUME NEW h \in Handlers, ActionStart(h)
      PROVE  DecidedInv'
  BY <1>14 DEF WorkIsExclusive, OneRunPerSnapshot, ActionStart, Goto,
     ClearSnapshotLocked, ClaimWork, CanClaim, Found
<1>15. ASSUME NEW h \in Handlers, NEW res \in Results, EngineReturn(h, res)
      PROVE  DecidedInv'
  BY <1>15 DEF WorkIsExclusive, OneRunPerSnapshot, EngineReturn, TakeResult, Goto
<1>16. ASSUME NEW h \in Handlers, ActionRecord(h)
      PROVE  DecidedInv'
  <2> DEFINE new == <<req[h], verdict[h]>>
  <2>1. /\ decided' = decided \cup {new} /\ told' = told /\ req' = req
        /\ runs' = runs /\ touched' = touched
    BY <1>16 DEF ActionRecord
  <2>2. /\ runs[req[h].snap] = 1
        /\ verdict[h] = "completed" => req[h].snap \in touched
        /\ verdict[h] = "refused" => req[h].snap \notin touched
    BY <1>16 DEF ActionRecord
  <2>3. \A t \in decided : t[1].snap # req[h].snap
    BY <1>16 DEF ActionRecord
  <2>4. \A g \in Handlers : pc'[g] \notin {"run", "record"}
    BY <1>16 DEF ActionRecord, Goto, WorkIsExclusive
  <2>5. ASSUME NEW a \in decided', NEW b \in decided', a[1].snap = b[1].snap
        PROVE  a = b
    <3>1. new[1].snap = req[h].snap
      OBVIOUS
    <3> HIDE DEF new
    <3>2. CASE a = new \/ b = new
      BY <2>1, <2>3, <2>5, <3>1, <3>2
    <3>3. CASE a # new /\ b # new
      BY <2>1, <2>5, <3>3
    <3>4. QED
      BY <3>2, <3>3
  <2>6. QED
    BY <2>1, <2>2, <2>4, <2>5
<1>17. ASSUME NEW h \in Handlers, Release(h)
      PROVE  DecidedInv'
  BY <1>17 DEF WorkIsExclusive, OneRunPerSnapshot, Release, Goto
<1>18. CASE TimerFire
  BY <1>18 DEF WorkIsExclusive, OneRunPerSnapshot, TimerFire
<1>19. ASSUME NEW s \in SnapIDs, TimerCallback(s)
      PROVE  DecidedInv'
  BY <1>19 DEF WorkIsExclusive, OneRunPerSnapshot, TimerCallback
<1>20. CASE Signal
  BY <1>20 DEF WorkIsExclusive, OneRunPerSnapshot, Signal
<1>21. CASE ServeFails
  BY <1>21 DEF WorkIsExclusive, OneRunPerSnapshot, ServeFails
<1>22. CASE ServeCloses
  BY <1>22 DEF WorkIsExclusive, OneRunPerSnapshot, ServeCloses
<1>23. CASE StopSetClosing
  BY <1>23 DEF WorkIsExclusive, OneRunPerSnapshot, StopSetClosing
<1>24. CASE StopAcquire
  BY <1>24 DEF WorkIsExclusive, OneRunPerSnapshot, StopAcquire
<1>25. CASE StopRelease
  BY <1>25 DEF WorkIsExclusive, OneRunPerSnapshot, StopRelease
<1>26. CASE StopClear
  BY <1>26 DEF WorkIsExclusive, OneRunPerSnapshot, StopClear,
     ClearSnapshotLocked
<1>27. CASE Exit
  BY <1>27 DEF WorkIsExclusive, OneRunPerSnapshot, Exit
<1>28. CASE Tick
  BY <1>28 DEF WorkIsExclusive, OneRunPerSnapshot, Tick
<1>29. CASE UNCHANGED vars
  BY <1>29 DEF WorkIsExclusive, OneRunPerSnapshot
<1>30. QED
  BY <1>1, <1>2, <1>3, <1>4, <1>5, <1>6, <1>7, <1>8, <1>9, <1>10, <1>11, <1>12, <1>13,
     <1>14, <1>15, <1>16, <1>17, <1>18, <1>19, <1>20, <1>21, <1>22, <1>23, <1>24, <1>25,
     <1>26, <1>27, <1>28, <1>29 DEF Next, Serve, Stop

\* Each pending receipt keeps its handler, each final one its outcome.
LEMMA ReceiptStep ==
    TypeOK /\ RequestInv /\ SlotInv /\ LocalInv /\ ReceiptInv /\ [Next]_vars => ReceiptInv'
<1> SUFFICES ASSUME TypeOK, RequestInv, SlotInv, LocalInv, ReceiptInv, [Next]_vars
             PROVE ReceiptInv'
  OBVIOUS
<1> USE CompanionAssumption DEF TypeOK, RequestInv, SlotInv, LocalInv, ReceiptInv,
      Phases, Holding, Lives, SnapIDs,
      vars, serverVars, localVars, lifeVars, obsVars
<1>1. ASSUME NEW h \in Handlers, ReceiveSnapshot(h)
      PROVE  ReceiptInv'
  BY <1>1 DEF WorkIsExclusive, ReceiveSnapshot, Goto
<1>2. ASSUME NEW h \in Handlers, NEW q \in Requests, ReceiveAction(h, q)
      PROVE  ReceiptInv'
  BY <1>2 DEF WorkIsExclusive, ReceiveAction, Goto
<1>3. ASSUME NEW h \in Handlers, CancelContext(h)
      PROVE  ReceiptInv'
  BY <1>3 DEF WorkIsExclusive, CancelContext
<1>4. ASSUME NEW h \in Handlers, EngineEffect(h)
      PROVE  ReceiptInv'
  BY <1>4 DEF WorkIsExclusive, EngineEffect
<1>5. ASSUME NEW h \in Handlers, SnapshotBusy(h)
      PROVE  ReceiptInv'
  BY <1>5 DEF WorkIsExclusive, SnapshotBusy, Goto
<1>6. ASSUME NEW h \in Handlers, SnapshotClaim(h)
      PROVE  ReceiptInv'
  <2>1. /\ receipts' = receipts /\ req' = req /\ decided' = decided
        /\ \A g \in Handlers :
              pc'[g] \in {"run", "record"} <=> pc[g] \in {"run", "record"}
    BY <1>6 DEF SnapshotClaim, Goto
  <2>2. QED
    BY <2>1
<1>7. ASSUME NEW h \in Handlers, SnapshotClear(h)
      PROVE  ReceiptInv'
  BY <1>7 DEF WorkIsExclusive, SnapshotClear, Goto, ClearSnapshotLocked
<1>8. ASSUME NEW h \in Handlers, SnapshotCollected(h)
      PROVE  ReceiptInv'
  BY <1>8 DEF WorkIsExclusive, SnapshotCollected, Goto
<1>9. ASSUME NEW h \in Handlers, SnapshotFailed(h)
      PROVE  ReceiptInv'
  BY <1>9 DEF WorkIsExclusive, SnapshotFailed, Goto
<1>10. ASSUME NEW h \in Handlers, SnapshotPublish(h)
      PROVE  ReceiptInv'
  <2>1. /\ receipts' = receipts /\ req' = req /\ decided' = decided
        /\ \A g \in Handlers :
              pc'[g] \in {"run", "record"} <=> pc[g] \in {"run", "record"}
    BY <1>10 DEF SnapshotPublish, Goto
  <2>2. QED
    BY <2>1
<1>11. ASSUME NEW h \in Handlers, ActionReplay(h)
      PROVE  ReceiptInv'
  <2>1. \A g \in Handlers :
           /\ pc'[g] \in {"run", "record"} <=> pc[g] \in {"run", "record"}
           /\ pc[g] \in {"run", "record"} => req'[g] = req[g]
    BY <1>11 DEF ActionReplay, Goto
  <2>2. receipts' = Kept /\ decided' = decided
    BY <1>11 DEF ActionReplay
  <2> HIDE DEF TypeOK, RequestInv, SlotInv, LocalInv
  <2>3. QED
    BY <2>1, <2>2, KeptFacts
<1>12. ASSUME NEW h \in Handlers, ActionBusy(h)
      PROVE  ReceiptInv'
  <2>1. \A g \in Handlers :
           /\ pc'[g] \in {"run", "record"} <=> pc[g] \in {"run", "record"}
           /\ pc[g] \in {"run", "record"} => req'[g] = req[g]
    BY <1>12 DEF ActionBusy, Goto
  <2>2. receipts' = Kept /\ decided' = decided
    BY <1>12 DEF ActionBusy
  <2> HIDE DEF TypeOK, RequestInv, SlotInv, LocalInv
  <2>3. QED
    BY <2>1, <2>2, KeptFacts
<1>13. ASSUME NEW h \in Handlers, ActionStale(h)
      PROVE  ReceiptInv'
  BY <1>13, KeptFacts DEF WorkIsExclusive, ActionStale, Goto, ClaimWork,
     CanClaim
<1>14. ASSUME NEW h \in Handlers, ActionStart(h)
      PROVE  ReceiptInv'
  <2> DEFINE q == req[h]
             pending == [req |-> q, state |-> "pending", outcome |-> "none",
                         expires |-> clock + ReceiptTTL]
  <2>1. receipts' = Put(Kept, q.id, pending) /\ req' = req /\ decided' = decided
    BY <1>14 DEF ActionStart
  <2>2. \A g \in Handlers : pc[g] \notin {"run", "record"}
    BY <1>14 DEF ActionStart, ClaimWork, CanClaim, WorkIsExclusive
  <2>3. \A g \in Handlers : pc'[g] \in {"run", "record"} <=> g = h
    BY <1>14, <2>2 DEF ActionStart, Goto
  <2>4. /\ DOMAIN receipts' = DOMAIN Kept \cup {q.id}
        /\ receipts'[q.id] = pending
        /\ \A i \in DOMAIN Kept \ {q.id} : receipts'[i] = Kept[i]
    BY <2>1 DEF Put
  <2>5. \A i \in DOMAIN Kept :
           /\ i \in DOMAIN receipts /\ Kept[i] = receipts[i]
           /\ receipts[i].state # "pending"
    BY <2>2, KeptFacts
  <2> HIDE DEF TypeOK, RequestInv, SlotInv, LocalInv
  <2>6. QED
    BY <2>1, <2>3, <2>4, <2>5
<1>15. ASSUME NEW h \in Handlers, NEW res \in Results, EngineReturn(h, res)
      PROVE  ReceiptInv'
  <2>1. receipts' = receipts /\ req' = req /\ decided' = decided
    BY <1>15 DEF EngineReturn, TakeResult
  <2>2. \A g \in Handlers : pc'[g] \in {"run", "record"} <=> pc[g] \in {"run", "record"}
    BY <1>15 DEF EngineReturn, TakeResult, Goto
  <2>3. QED
    BY <2>1, <2>2
<1>16. ASSUME NEW h \in Handlers, ActionRecord(h)
      PROVE  ReceiptInv'
  <2> DEFINE final == [req |-> req[h], state |-> "final", outcome |-> verdict[h],
                       expires |-> clock + ReceiptTTL]
  <2>1. receipts' = Put(receipts, req[h].id, final) /\ req' = req
        /\ decided' = decided \cup {<<req[h], verdict[h]>>}
    BY <1>16 DEF ActionRecord
  <2>2. \A g \in Handlers : g # h => pc[g] \notin {"run", "record"}
    BY <1>16 DEF ActionRecord, WorkIsExclusive
  <2>3. \A g \in Handlers : pc'[g] \notin {"run", "record"}
    BY <1>16, <2>2 DEF ActionRecord, Goto
  <2>4. /\ DOMAIN receipts' = DOMAIN receipts \cup {req[h].id}
        /\ receipts'[req[h].id] = final
        /\ \A i \in DOMAIN receipts \ {req[h].id} : receipts'[i] = receipts[i]
    BY <2>1 DEF Put
  <2>5. ASSUME NEW i \in DOMAIN receipts, receipts[i].state = "pending"
        PROVE  i = req[h].id
    <3>1. PICK g \in Handlers : pc[g] \in {"run", "record"} /\ req[g] = receipts[i].req
      BY <2>5
    <3>2. g = h /\ receipts[i].req.id = i
      BY <2>2, <2>5, <3>1
    <3>3. QED
      BY <3>1, <3>2
  <2> HIDE DEF TypeOK, RequestInv, SlotInv, LocalInv
  <2>6. QED
    BY <2>1, <2>3, <2>4, <2>5
<1>17. ASSUME NEW h \in Handlers, Release(h)
      PROVE  ReceiptInv'
  BY <1>17 DEF WorkIsExclusive, Release, Goto
<1>18. CASE TimerFire
  BY <1>18 DEF WorkIsExclusive, TimerFire
<1>19. ASSUME NEW s \in SnapIDs, TimerCallback(s)
      PROVE  ReceiptInv'
  BY <1>19 DEF WorkIsExclusive, TimerCallback
<1>20. CASE Signal
  BY <1>20 DEF WorkIsExclusive, Signal
<1>21. CASE ServeFails
  BY <1>21 DEF WorkIsExclusive, ServeFails
<1>22. CASE ServeCloses
  BY <1>22 DEF WorkIsExclusive, ServeCloses
<1>23. CASE StopSetClosing
  BY <1>23 DEF WorkIsExclusive, StopSetClosing
<1>24. CASE StopAcquire
  BY <1>24 DEF WorkIsExclusive, StopAcquire
<1>25. CASE StopRelease
  BY <1>25 DEF WorkIsExclusive, StopRelease
<1>26. CASE StopClear
  BY <1>26 DEF WorkIsExclusive, StopClear, ClearSnapshotLocked
<1>27. CASE Exit
  BY <1>27 DEF WorkIsExclusive, Exit
<1>28. CASE Tick
  BY <1>28 DEF WorkIsExclusive, Tick
<1>29. CASE UNCHANGED vars
  BY <1>29 DEF WorkIsExclusive
<1>30. QED
  BY <1>1, <1>2, <1>3, <1>4, <1>5, <1>6, <1>7, <1>8, <1>9, <1>10, <1>11, <1>12, <1>13,
     <1>14, <1>15, <1>16, <1>17, <1>18, <1>19, <1>20, <1>21, <1>22, <1>23, <1>24, <1>25,
     <1>26, <1>27, <1>28, <1>29 DEF Next, Serve, Stop

\* The retained snapshot keeps its own timer, whatever callbacks are late.
LEMMA ExpiryStep ==
    TypeOK /\ ExpiryInv /\ [Next]_vars => ExpiryInv'
<1> SUFFICES ASSUME TypeOK, ExpiryInv, [Next]_vars PROVE ExpiryInv'
  OBVIOUS
<1> USE CompanionAssumption DEF TypeOK, ExpiryInv, SnapIDs,
      vars, serverVars, localVars, lifeVars, obsVars
<1>1. ASSUME NEW h \in Handlers, ReceiveSnapshot(h)
      PROVE  ExpiryInv'
  BY <1>1 DEF RetainedWillExpire, ReceiveSnapshot, Goto
<1>2. ASSUME NEW h \in Handlers, NEW q \in Requests, ReceiveAction(h, q)
      PROVE  ExpiryInv'
  BY <1>2 DEF RetainedWillExpire, ReceiveAction, Goto
<1>3. ASSUME NEW h \in Handlers, CancelContext(h)
      PROVE  ExpiryInv'
  BY <1>3 DEF RetainedWillExpire, CancelContext
<1>4. ASSUME NEW h \in Handlers, EngineEffect(h)
      PROVE  ExpiryInv'
  BY <1>4 DEF RetainedWillExpire, EngineEffect
<1>5. ASSUME NEW h \in Handlers, SnapshotBusy(h)
      PROVE  ExpiryInv'
  BY <1>5 DEF RetainedWillExpire, SnapshotBusy, Goto
<1>6. ASSUME NEW h \in Handlers, SnapshotClaim(h)
      PROVE  ExpiryInv'
  BY <1>6 DEF RetainedWillExpire, SnapshotClaim, Goto, ClaimWork, CanClaim
<1>7. ASSUME NEW h \in Handlers, SnapshotClear(h)
      PROVE  ExpiryInv'
  BY <1>7 DEF RetainedWillExpire, SnapshotClear, Goto, ClearSnapshotLocked, NoSnapshot
<1>8. ASSUME NEW h \in Handlers, SnapshotCollected(h)
      PROVE  ExpiryInv'
  <2>1. UNCHANGED <<snapshot, armed, due, firing, issued, clock>>
    BY <1>8 DEF SnapshotCollected
  <2>2. draft'[h].expires = clock + SnapshotTTL
    BY <1>8 DEF SnapshotCollected
  <2>3. \A g \in Handlers : g # h /\ pc'[g] = "publish" =>
            pc[g] = "publish" /\ draft'[g] = draft[g]
    BY <1>8 DEF SnapshotCollected, Goto
  <2>4. \A g \in Handlers : pc'[g] = "publish" =>
            draft'[g].expires <= clock' + SnapshotTTL
    BY <2>1, <2>2, <2>3
  <2>5. QED
    BY <2>1, <2>4 DEF RetainedWillExpire
<1>9. ASSUME NEW h \in Handlers, SnapshotFailed(h)
      PROVE  ExpiryInv'
  BY <1>9 DEF RetainedWillExpire, SnapshotFailed, Goto
<1>10. ASSUME NEW h \in Handlers, SnapshotPublish(h)
      PROVE  ExpiryInv'
  <2>1. /\ snapshot'.id = issued + 1 /\ snapshot'.expires = draft[h].expires
        /\ armed' = issued + 1 /\ due' = clock + SnapshotTTL
        /\ firing' = firing /\ issued' = issued + 1 /\ clock' = clock
    BY <1>10 DEF SnapshotPublish
  <2>2. draft[h].expires <= clock + SnapshotTTL
    BY <1>10 DEF SnapshotPublish
  <2>3. \A s \in firing' : s <= issued /\ s # issued + 1
    BY <2>1
  <2>4. \A g \in Handlers : pc'[g] = "publish" => pc[g] = "publish" /\ draft'[g] = draft[g]
    BY <1>10 DEF SnapshotPublish, Goto
  <2>5. QED
    BY <2>1, <2>2, <2>3, <2>4 DEF RetainedWillExpire
<1>11. ASSUME NEW h \in Handlers, ActionReplay(h)
      PROVE  ExpiryInv'
  <2>1. UNCHANGED <<snapshot, armed, due, firing, issued, clock, draft>>
    BY <1>11 DEF ActionReplay
  <2>2. \A g \in Handlers : pc'[g] = "publish" => pc[g] = "publish"
    BY <1>11 DEF ActionReplay, Goto
  <2>3. QED
    BY <2>1, <2>2 DEF RetainedWillExpire
<1>12. ASSUME NEW h \in Handlers, ActionBusy(h)
      PROVE  ExpiryInv'
  BY <1>12 DEF RetainedWillExpire, ActionBusy, Goto
<1>13. ASSUME NEW h \in Handlers, ActionStale(h)
      PROVE  ExpiryInv'
  BY <1>13 DEF RetainedWillExpire, ActionStale, Goto, ClaimWork, CanClaim
<1>14. ASSUME NEW h \in Handlers, ActionStart(h)
      PROVE  ExpiryInv'
  BY <1>14 DEF RetainedWillExpire, ActionStart, Goto, ClearSnapshotLocked, NoSnapshot,
     ClaimWork, CanClaim
<1>15. ASSUME NEW h \in Handlers, NEW res \in Results, EngineReturn(h, res)
      PROVE  ExpiryInv'
  BY <1>15 DEF RetainedWillExpire, EngineReturn, TakeResult, Goto
<1>16. ASSUME NEW h \in Handlers, ActionRecord(h)
      PROVE  ExpiryInv'
  <2>1. UNCHANGED <<snapshot, armed, due, firing, issued, clock, draft>>
    BY <1>16 DEF ActionRecord
  <2>2. \A g \in Handlers : pc'[g] = "publish" => pc[g] = "publish"
    BY <1>16 DEF ActionRecord, Goto
  <2>3. QED
    BY <2>1, <2>2 DEF RetainedWillExpire
<1>17. ASSUME NEW h \in Handlers, Release(h)
      PROVE  ExpiryInv'
  BY <1>17 DEF RetainedWillExpire, Release, Goto
<1>18. CASE TimerFire
  <2>1. /\ UNCHANGED <<snapshot, issued, clock, pc, draft>>
        /\ firing' = firing \cup {armed} /\ armed' = 0
        /\ armed = snapshot.id /\ armed # 0 /\ clock >= due /\ due >= snapshot.expires
    BY <1>18 DEF TimerFire
  <2>2. clock >= snapshot.expires /\ snapshot.id \in 0 .. MaxSnapshots
    BY <2>1 DEF Snapshots
  <2>3. \A s \in firing' : s <= issued /\ (s = snapshot.id => clock >= snapshot.expires)
    BY <2>1, <2>2
  <2>4. QED
    BY <2>1, <2>2, <2>3 DEF RetainedWillExpire
<1>19. ASSUME NEW s \in SnapIDs, TimerCallback(s)
      PROVE  ExpiryInv'
  BY <1>19 DEF RetainedWillExpire, TimerCallback, NoSnapshot
<1>20. CASE Signal
  BY <1>20 DEF RetainedWillExpire, Signal
<1>21. CASE ServeFails
  BY <1>21 DEF RetainedWillExpire, ServeFails
<1>22. CASE ServeCloses
  BY <1>22 DEF RetainedWillExpire, ServeCloses
<1>23. CASE StopSetClosing
  BY <1>23 DEF RetainedWillExpire, StopSetClosing
<1>24. CASE StopAcquire
  BY <1>24 DEF RetainedWillExpire, StopAcquire
<1>25. CASE StopRelease
  BY <1>25 DEF RetainedWillExpire, StopRelease
<1>26. CASE StopClear
  BY <1>26 DEF RetainedWillExpire, StopClear, ClearSnapshotLocked, NoSnapshot
<1>27. CASE Exit
  BY <1>27 DEF RetainedWillExpire, Exit
<1>28. CASE Tick
  <2>1. /\ UNCHANGED <<snapshot, armed, due, firing, issued, pc, draft>>
        /\ clock' = clock + 1 /\ clock \in Nat
    BY <1>28 DEF Tick
  <2>2. snapshot.expires \in Nat /\ \A h \in Handlers : draft[h].expires \in Nat
    BY DEF Snapshots, Drafts
  <2>3. QED
    BY <2>1, <2>2 DEF RetainedWillExpire
<1>29. CASE UNCHANGED vars
  BY <1>29 DEF RetainedWillExpire
<1>30. QED
  BY <1>1, <1>2, <1>3, <1>4, <1>5, <1>6, <1>7, <1>8, <1>9, <1>10, <1>11, <1>12, <1>13,
     <1>14, <1>15, <1>16, <1>17, <1>18, <1>19, <1>20, <1>21, <1>22, <1>23, <1>24, <1>25,
     <1>26, <1>27, <1>28, <1>29 DEF Next, Serve, Stop

\* Nothing is claimed, issued or decided at the start.
LEMMA CompanionInvInit == Init => CompanionInv
<1> SUFFICES ASSUME Init PROVE CompanionInv
  OBVIOUS
<1> USE DEF Init
<1>1. RequestInv
  BY TypeInit
<1>2. SlotInv
  BY CompanionAssumption DEF SlotInv, WorkIsExclusive, Holding
<1>3. SnapshotInv
  BY CompanionAssumption DEF SnapshotInv, OneRunPerSnapshot, NoSnapshot, SnapIDs
<1>4. LocalInv /\ DecidedInv
  BY DEF LocalInv, DecidedInv
<1>5. ReceiptInv
  BY DEF ReceiptInv
<1>6. ExpiryInv
  BY DEF ExpiryInv, RetainedWillExpire, NoSnapshot
<1>7. QED
  BY <1>1, <1>2, <1>3, <1>4, <1>5, <1>6 DEF CompanionInv

\* The parts of the invariant are preserved together.
LEMMA CompanionInvStep == TypeOK /\ CompanionInv /\ [Next]_vars => CompanionInv'
  BY RequestStep, SlotStep, SnapshotStep, LocalStep, DecidedStep, ReceiptStep,
     ExpiryStep
     DEF CompanionInv

\* Every reachable state is well typed.
THEOREM TypeCorrect == Spec => []TypeOK
  BY TypeInit, TypeStep, RequestStep, PTL DEF Spec

\* The inductive invariant, and with it every property below.
THEOREM CompanionCorrect == Spec => []CompanionInv
<1>1. Init => TypeOK /\ CompanionInv
  BY TypeInit, CompanionInvInit
<1>2. TypeOK /\ CompanionInv /\ [Next]_vars => (TypeOK /\ CompanionInv)'
  BY TypeStep, CompanionInvStep DEF CompanionInv
<1>3. QED
  BY <1>1, <1>2, PTL DEF Spec

\* serveAction consumes a snapshot before the engine runs: for every number of
\* handlers and requests, a snapshot carries at most one action.
THEOREM SnapshotRunsOnce == Spec => []OneRunPerSnapshot
<1>1. CompanionInv => OneRunPerSnapshot
  BY DEF CompanionInv, SnapshotInv
<1>2. QED
  BY <1>1, CompanionCorrect, PTL

\* claimWork and the deferred receive give the slot to one handler at a time.
THEOREM EngineWorkIsExclusive == Spec => []WorkIsExclusive
<1>1. CompanionInv => WorkIsExclusive
  BY DEF CompanionInv, SlotInv
<1>2. QED
  BY <1>1, CompanionCorrect, PTL

\* stopAndWait: no engine work and no retained snapshot after the drain.
THEOREM DrainIsFinal == Spec => []NothingAfterDrain
<1>1. TypeOK /\ CompanionInv => NothingAfterDrain
  BY CompanionAssumption
     DEF CompanionInv, SlotInv, WorkIsExclusive, NothingAfterDrain
<1>2. QED
  BY <1>1, TypeCorrect, CompanionCorrect, PTL

\* Pending receipts and running actions are the same thing.
THEOREM PendingReceiptsAreServed == Spec => []PendingHasWorker
<1>1. CompanionInv => PendingHasWorker
  <2> SUFFICES ASSUME CompanionInv, NEW q \in Requests
               PROVE  (\E i \in DOMAIN receipts :
                           receipts[i].req = q /\ receipts[i].state = "pending")
                      <=> (\E h \in Handlers : req[h] = q /\ pc[h] \in {"run", "record"})
    BY DEF PendingHasWorker
  <2>1. ASSUME NEW i \in DOMAIN receipts,
               receipts[i].req = q, receipts[i].state = "pending"
        PROVE  \E h \in Handlers : req[h] = q /\ pc[h] \in {"run", "record"}
    BY <2>1 DEF CompanionInv, ReceiptInv
  <2>2. ASSUME NEW h \in Handlers, req[h] = q, pc[h] \in {"run", "record"}
        PROVE  \E i \in DOMAIN receipts :
                   receipts[i].req = q /\ receipts[i].state = "pending"
    BY <2>2 DEF CompanionInv, ReceiptInv
  <2>3. QED
    BY <2>1, <2>2
<1>2. QED
  BY <1>1, CompanionCorrect, PTL

\* What clients are told agrees with the effect.
THEOREM ToldOutcomesAreTrue == Spec => []OutcomeTruthful
<1>1. CompanionInv => OutcomeTruthful
  BY DEF CompanionInv, DecidedInv, OutcomeTruthful
<1>2. QED
  BY <1>1, CompanionCorrect, PTL

\* A snapshot's action is told with one outcome, also after its receipt is gone.
THEOREM ToldOutcomesAgree == Spec => []ReplayConsistent
<1>1. CompanionInv => ReplayConsistent
  BY DEF CompanionInv, DecidedInv, ReplayConsistent
<1>2. QED
  BY <1>1, CompanionCorrect, PTL

\* An expiry is always on its way for the retained snapshot.
THEOREM RetainedSnapshotsExpire == Spec => []RetainedWillExpire
<1>1. CompanionInv => RetainedWillExpire
  BY DEF CompanionInv, ExpiryInv
<1>2. QED
  BY <1>1, CompanionCorrect, PTL

\* A snapshot is only let go when it has expired, or by the holder of the work
\* slot, or at the end of stopAndWait: late callbacks of serveSnapshot's timers
\* take nothing from a client.
THEOREM SnapshotsAreNotLost == Spec => SnapshotLossJustified
<1> DEFINE Justified ==
        snapshot.id # 0 /\ snapshot'.id # snapshot.id =>
            \/ clock >= snapshot.expires
            \/ slot' \in Handlers
            \/ life = "released"
<1>1. TypeOK /\ CompanionInv /\ [Next]_vars => [Justified]_vars
  <2> SUFFICES ASSUME TypeOK, CompanionInv, Next, snapshot' # snapshot, snapshot.id # 0
               PROVE  \/ clock >= snapshot.expires
                      \/ slot' \in Handlers
                      \/ life = "released"
    BY DEF vars, serverVars
  <2> USE DEF serverVars, localVars, lifeVars, obsVars
  <2>1. ASSUME NEW h \in Handlers, SnapshotClear(h)
        PROVE  slot' \in Handlers
    BY <2>1 DEF CompanionInv, SlotInv, WorkIsExclusive, SnapshotClear, Holding
  <2>2. ASSUME NEW h \in Handlers, SnapshotPublish(h)
        PROVE  slot' \in Handlers
    BY <2>2 DEF CompanionInv, SlotInv, WorkIsExclusive, SnapshotPublish, Holding
  <2>3. ASSUME NEW h \in Handlers, ActionStart(h)
        PROVE  slot' \in Handlers
    BY <2>3 DEF ActionStart, ClaimWork
  <2>4. ASSUME NEW s \in SnapIDs, TimerCallback(s)
        PROVE  clock >= snapshot.expires
    BY <2>4 DEF CompanionInv, ExpiryInv, TimerCallback
  <2>5. CASE StopClear
    BY <2>5 DEF StopClear
  <2>6. ASSUME NEW h \in Handlers,
               \/ ReceiveSnapshot(h) \/ \E q \in Requests : ReceiveAction(h, q)
               \/ CancelContext(h) \/ EngineEffect(h)
               \/ SnapshotBusy(h) \/ SnapshotClaim(h)
               \/ SnapshotCollected(h) \/ SnapshotFailed(h)
               \/ ActionReplay(h) \/ ActionBusy(h) \/ ActionStale(h)
               \/ \E res \in Results : EngineReturn(h, res)
               \/ ActionRecord(h) \/ Release(h)
        PROVE  FALSE
    BY <2>6 DEF ReceiveSnapshot, ReceiveAction, CancelContext, EngineEffect,
       SnapshotBusy, SnapshotClaim, SnapshotCollected, SnapshotFailed,
       ActionReplay, ActionBusy, ActionStale, EngineReturn, TakeResult, ActionRecord, Release
  <2>7. CASE \/ TimerFire \/ Signal \/ ServeFails \/ ServeCloses \/ StopSetClosing
             \/ StopAcquire \/ StopRelease \/ Exit \/ Tick
    BY <2>7 DEF TimerFire, Signal, ServeFails, ServeCloses, StopSetClosing,
       StopAcquire, StopRelease, Exit, Tick
  <2>8. QED
    BY <2>1, <2>2, <2>3, <2>4, <2>5, <2>6, <2>7 DEF Next, Serve, Stop
<1>2. QED
  BY <1>1, TypeCorrect, CompanionCorrect, PTL DEF Spec, SnapshotLossJustified

\* Receipts are settled by their own action or dropped when due: purges, reused
\* request IDs and shutdown never rewrite or evict one.
THEOREM ReceiptsAreDurable == Spec => ReceiptsDurable
<1> DEFINE Kind(i) ==
        \/ i \in DOMAIN receipts' /\ receipts'[i] = receipts[i]
        \/ i \in DOMAIN receipts' /\ receipts[i].state = "pending"
             /\ receipts'[i].state = "final" /\ receipts'[i].req = receipts[i].req
        \/ receipts[i].state = "final" /\ clock >= receipts[i].expires
<1>1. TypeOK /\ CompanionInv /\ [Next]_vars => [\A i \in DOMAIN receipts : Kind(i)]_vars
  <2> SUFFICES ASSUME TypeOK, CompanionInv, Next, receipts' # receipts,
                      NEW i \in DOMAIN receipts
               PROVE  Kind(i)
    BY DEF vars, serverVars
  <2> USE DEF serverVars, localVars, lifeVars, obsVars
  <2>1. CASE receipts' = Kept
    BY <2>1 DEF Kept, Expired
  <2>2. ASSUME NEW h \in Handlers, ActionStart(h)
        PROVE  Kind(i)
    <3>1. CASE i \in DOMAIN Kept
      BY <2>2, <3>1, KeptFacts DEF ActionStart, Put
    <3>2. CASE i \notin DOMAIN Kept
      BY <3>2 DEF Kept, Expired
    <3>3. QED
      BY <3>1, <3>2
  <2>3. ASSUME NEW h \in Handlers, ActionRecord(h)
        PROVE  Kind(i)
    <3>1. receipts[req[h].id].state = "pending" /\ receipts[req[h].id].req = req[h]
      BY <2>3 DEF ActionRecord, CompanionInv, ReceiptInv
    <3>2. QED
      BY <2>3, <3>1 DEF ActionRecord, Put
  <2>4. ASSUME NEW h \in Handlers,
               ActionReplay(h) \/ ActionBusy(h) \/ ActionStale(h)
        PROVE  receipts' = Kept
    BY <2>4 DEF ActionReplay, ActionBusy, ActionStale
  <2>5. ASSUME NEW h \in Handlers,
               \/ ReceiveSnapshot(h) \/ \E q \in Requests : ReceiveAction(h, q)
               \/ CancelContext(h) \/ EngineEffect(h)
               \/ SnapshotBusy(h) \/ SnapshotClaim(h) \/ SnapshotClear(h)
               \/ SnapshotCollected(h) \/ SnapshotFailed(h) \/ SnapshotPublish(h)
               \/ \E res \in Results : EngineReturn(h, res)
               \/ Release(h)
        PROVE  FALSE
    BY <2>5 DEF ReceiveSnapshot, ReceiveAction, CancelContext, EngineEffect,
       SnapshotBusy, SnapshotClaim, SnapshotClear, SnapshotCollected,
       SnapshotFailed, SnapshotPublish, EngineReturn, TakeResult, Release
  <2>6. CASE \/ TimerFire \/ (\E s \in SnapIDs : TimerCallback(s))
             \/ Signal \/ ServeFails \/ ServeCloses \/ StopSetClosing
             \/ StopAcquire \/ StopRelease \/ StopClear \/ Exit \/ Tick
    BY <2>6 DEF TimerFire, TimerCallback, Signal, ServeFails, ServeCloses,
       StopSetClosing, StopAcquire, StopRelease, StopClear, Exit, Tick
  <2>7. QED
    BY <2>1, <2>2, <2>3, <2>4, <2>5, <2>6 DEF Next, Serve, Stop
<1>2. QED
  BY <1>1, TypeCorrect, CompanionCorrect, PTL DEF Spec, ReceiptsDurable

\* The receipts map never outgrows its capacity: only a new action adds to it,
\* and it looks for room after its purge and before it runs.
THEOREM ReceiptsStayBounded == Spec => []ReceiptsBounded
<1> DEFINE BoundInv == IsFiniteSet(DOMAIN receipts) /\ ReceiptsBounded
<1>1. Init => BoundInv
  BY FS_EmptySet, CompanionAssumption DEF Init, ReceiptsBounded
<1>2. TypeOK /\ CompanionInv /\ BoundInv /\ [Next]_vars => BoundInv'
  <2> SUFFICES ASSUME TypeOK, CompanionInv, BoundInv, [Next]_vars,
                      DOMAIN receipts' # DOMAIN receipts
               PROVE  BoundInv'
    BY DEF ReceiptsBounded
  <2> USE CompanionAssumption DEF serverVars, localVars, lifeVars, obsVars
  <2>1. /\ IsFiniteSet(DOMAIN Kept) /\ Cardinality(DOMAIN Kept) \in Nat
        /\ Cardinality(DOMAIN Kept) <= MaxReceipts
    <3>1. /\ IsFiniteSet(DOMAIN Kept)
          /\ Cardinality(DOMAIN Kept) <= Cardinality(DOMAIN receipts)
      BY KeptFacts, FS_Subset
    <3>2. Cardinality(DOMAIN Kept) \in Nat /\ Cardinality(DOMAIN receipts) \in Nat
      BY <3>1, FS_CardinalityType
    <3>3. QED
      BY <3>1, <3>2 DEF ReceiptsBounded
  <2>2. CASE receipts' = Kept
    BY <2>1, <2>2 DEF ReceiptsBounded
  <2>3. ASSUME NEW h \in Handlers, ActionStart(h)
        PROVE  BoundInv'
    <3> DEFINE D == DOMAIN Kept
               i == req[h].id
    <3>1. i \notin D /\ Cardinality(D) < MaxReceipts /\ DOMAIN receipts' = D \cup {i}
      BY <2>3 DEF ActionStart, HasRoom, Put
    <3> HIDE DEF D, i
    <3>2. IsFiniteSet(D) /\ Cardinality(D) \in Nat
      BY <2>1 DEF D
    <3>3. IsFiniteSet(D \cup {i}) /\ Cardinality(D \cup {i}) = Cardinality(D) + 1
      BY <3>1, <3>2, FS_AddElement
    <3>4. QED
      BY <3>1, <3>2, <3>3 DEF ReceiptsBounded
  <2>4. ASSUME NEW h \in Handlers, ActionRecord(h)
        PROVE  FALSE
    BY <2>4 DEF ActionRecord, Put, CompanionInv, ReceiptInv
  <2>5. ASSUME NEW h \in Handlers,
               ActionReplay(h) \/ ActionBusy(h) \/ ActionStale(h)
        PROVE  receipts' = Kept
    BY <2>5 DEF ActionReplay, ActionBusy, ActionStale
  <2>6. ASSUME NEW h \in Handlers,
               \/ ReceiveSnapshot(h) \/ \E q \in Requests : ReceiveAction(h, q)
               \/ CancelContext(h) \/ EngineEffect(h)
               \/ SnapshotBusy(h) \/ SnapshotClaim(h) \/ SnapshotClear(h)
               \/ SnapshotCollected(h) \/ SnapshotFailed(h) \/ SnapshotPublish(h)
               \/ \E res \in Results : EngineReturn(h, res)
               \/ Release(h)
        PROVE  FALSE
    BY <2>6 DEF ReceiveSnapshot, ReceiveAction, CancelContext, EngineEffect,
       SnapshotBusy, SnapshotClaim, SnapshotClear, SnapshotCollected,
       SnapshotFailed, SnapshotPublish, EngineReturn, TakeResult, Release
  <2>7. CASE \/ TimerFire \/ (\E s \in SnapIDs : TimerCallback(s))
             \/ Signal \/ ServeFails \/ ServeCloses \/ StopSetClosing
             \/ StopAcquire \/ StopRelease \/ StopClear \/ Exit \/ Tick
             \/ UNCHANGED vars
    BY <2>7 DEF TimerFire, TimerCallback, Signal, ServeFails, ServeCloses,
       StopSetClosing, StopAcquire, StopRelease, StopClear, Exit, Tick, vars
  <2>8. QED
    BY <2>2, <2>3, <2>4, <2>5, <2>6, <2>7 DEF Next, Serve, Stop
<1>3. BoundInv => ReceiptsBounded
  OBVIOUS
<1> HIDE DEF BoundInv
<1>4. QED
  BY <1>1, <1>2, <1>3, TypeCorrect, CompanionCorrect, PTL DEF Spec

\* The server starts as an empty ledger.
LEMMA LedgerInit == Init => Ledger!Init
<1> SUFFICES ASSUME Init PROVE Ledger!Init
  OBVIOUS
<1>1. Begun = {} /\ Running = {}
  BY DEF Init, Begun, Running
<1>2. QED
  BY <1>1 DEF Init, Ledger!Init

\* Every step of the server is a step of the ledger or leaves it alone.
LEMMA LedgerStep == TypeOK /\ CompanionInv /\ [Next]_vars => [Ledger!Next]_(Ledger!vars)
<1> SUFFICES ASSUME TypeOK, CompanionInv, [Next]_vars
             PROVE  [Ledger!Next]_(Ledger!vars)
  OBVIOUS
<1> USE DEF CompanionInv
<1>1. ASSUME NEW h \in Handlers, ReceiveSnapshot(h)
      PROVE  [Ledger!Next]_(Ledger!vars)
  BY <1>1 DEF ReceiveSnapshot, Goto, Running, Begun, TypeOK, Ledger!vars,
     serverVars, localVars, lifeVars, obsVars, vars
<1>2. ASSUME NEW h \in Handlers, NEW q \in Requests, ReceiveAction(h, q)
      PROVE  [Ledger!Next]_(Ledger!vars)
  BY <1>2 DEF ReceiveAction, Goto, Running, Begun, TypeOK, Ledger!vars,
     serverVars, localVars, lifeVars, obsVars, vars
<1>3. ASSUME NEW h \in Handlers, CancelContext(h)
      PROVE  [Ledger!Next]_(Ledger!vars)
  BY <1>3 DEF CancelContext, Running, Begun, TypeOK, Ledger!vars, serverVars,
     localVars, lifeVars, obsVars, vars
<1>4. ASSUME NEW h \in Handlers, EngineEffect(h)
      PROVE  [Ledger!Next]_(Ledger!vars)
  <2>1. req[h] \in Requests /\ req[h] \in Running
    BY <1>4 DEF EngineEffect, RequestInv, Running
  <2>2. Running' = Running /\ Begun' = Begun
    BY <1>4 DEF EngineEffect, Running, Begun, localVars
  <2>3. Ledger!Act(req[h])
    BY <1>4, <2>1, <2>2 DEF EngineEffect, Ledger!Act
  <2>4. QED
    BY <2>1, <2>3 DEF Ledger!Next
<1>5. ASSUME NEW h \in Handlers, SnapshotBusy(h)
      PROVE  [Ledger!Next]_(Ledger!vars)
  BY <1>5 DEF SnapshotBusy, Goto, Running, Begun, TypeOK, Ledger!vars,
     serverVars, localVars, lifeVars, obsVars, vars
<1>6. ASSUME NEW h \in Handlers, SnapshotClaim(h)
      PROVE  [Ledger!Next]_(Ledger!vars)
  BY <1>6 DEF SnapshotClaim, Goto, Running, Begun, TypeOK, Ledger!vars,
     serverVars, localVars, lifeVars, obsVars, vars
<1>7. ASSUME NEW h \in Handlers, SnapshotClear(h)
      PROVE  [Ledger!Next]_(Ledger!vars)
  BY <1>7 DEF SnapshotClear, Goto, Running, Begun, TypeOK, Ledger!vars,
     serverVars, localVars, lifeVars, obsVars, vars
<1>8. ASSUME NEW h \in Handlers, SnapshotCollected(h)
      PROVE  [Ledger!Next]_(Ledger!vars)
  BY <1>8 DEF SnapshotCollected, Goto, Running, Begun, TypeOK, Ledger!vars,
     serverVars, localVars, lifeVars, obsVars, vars
<1>9. ASSUME NEW h \in Handlers, SnapshotFailed(h)
      PROVE  [Ledger!Next]_(Ledger!vars)
  BY <1>9 DEF SnapshotFailed, Goto, Running, Begun, TypeOK, Ledger!vars,
     serverVars, localVars, lifeVars, obsVars, vars
<1>10. ASSUME NEW h \in Handlers, SnapshotPublish(h)
      PROVE  [Ledger!Next]_(Ledger!vars)
  BY <1>10 DEF SnapshotPublish, Goto, Running, Begun, TypeOK, Ledger!vars,
     serverVars, localVars, lifeVars, obsVars, vars
<1>11. ASSUME NEW h \in Handlers, ActionReplay(h)
      PROVE  [Ledger!Next]_(Ledger!vars)
  <2>1. Begun' = Begun /\ touched' = touched /\ decided' = decided
    BY <1>11 DEF ActionReplay, Begun
  <2>2. Running' = Running
    <3>1. \A g \in Handlers : pc[g] \in {"run", "record"} \/ pc'[g] \in {"run", "record"}
                                => pc'[g] = pc[g] /\ req'[g] = req[g]
      BY <1>11 DEF ActionReplay, Goto, TypeOK
    <3>2. QED
      BY <3>1 DEF Running
  <2>3. CASE told' = told
    BY <2>1, <2>2, <2>3 DEF Ledger!vars
  <2>4. CASE told' # told
    <3> DEFINE q == req[h]
               o == Kept[q.id].outcome
    <3>1. /\ q \in Requests /\ told' = told \cup {<<q, o>>}
          /\ q.id \in DOMAIN Kept /\ Kept[q.id].req = q /\ Kept[q.id].state = "final"
      BY <1>11, <2>4 DEF ActionReplay, RequestInv
    <3>2. q.id \in DOMAIN receipts /\ receipts[q.id] = Kept[q.id]
      BY <3>1, KeptFacts
    <3>3. receipts[q.id].req = q /\ receipts[q.id].state = "final"
      BY <3>1, <3>2
    <3>4. <<q, receipts[q.id].outcome>> \in decided
      BY <3>2, <3>3 DEF ReceiptInv
    <3>5. <<q, o>> \in decided
      BY <3>2, <3>4
    <3>6. o \in Outcomes
      BY <3>5 DEF TypeOK
    <3>7. Ledger!Tell(q, o)
      BY <2>1, <2>2, <3>1, <3>5 DEF Ledger!Tell
    <3> HIDE DEF q, o
    <3>8. QED
      BY <3>1, <3>6, <3>7 DEF Ledger!Next, Ledger!Verdicts, Outcomes
  <2>5. QED
    BY <2>3, <2>4
<1>12. ASSUME NEW h \in Handlers, ActionBusy(h)
      PROVE  [Ledger!Next]_(Ledger!vars)
  BY <1>12 DEF ActionBusy, Goto, Running, Begun, TypeOK, Ledger!vars,
     serverVars, localVars, lifeVars, obsVars, vars
<1>13. ASSUME NEW h \in Handlers, ActionStale(h)
      PROVE  [Ledger!Next]_(Ledger!vars)
  BY <1>13 DEF ActionStale, Goto, Running, Begun, TypeOK, Ledger!vars,
     serverVars, localVars, lifeVars, obsVars, vars
<1>14. ASSUME NEW h \in Handlers, ActionStart(h)
      PROVE  [Ledger!Next]_(Ledger!vars)
  <2> DEFINE q == req[h]
  <2>1. q \in Requests /\ runs[q.snap] = 0
    BY <1>14 DEF ActionStart, Found, RequestInv, SnapshotInv, OneRunPerSnapshot,
              Requests, SnapIDs
  <2>2. Begun' = Begun \cup {q.snap}
    BY <1>14, <2>1 DEF ActionStart, Begun, TypeOK, Requests, SnapIDs
  <2>3. \A g \in Handlers : pc[g] \notin {"run", "record"}
    BY <1>14, CompanionAssumption
       DEF ActionStart, ClaimWork, CanClaim, SlotInv, WorkIsExclusive, Holding
  <2>4. \A g \in Handlers : pc'[g] \in {"run", "record"} <=> g = h
    BY <1>14, <2>3 DEF ActionStart, Goto, TypeOK
  <2>5. Running = {} /\ Running' = {q}
    BY <1>14, <2>1, <2>3, <2>4 DEF ActionStart, Running
  <2>6. q.snap \notin Begun
    BY <2>1 DEF Begun
  <2>7. UNCHANGED <<touched, decided, told>>
    BY <1>14 DEF ActionStart
  <2>8. Ledger!Begin(q)
    BY <2>2, <2>5, <2>6, <2>7 DEF Ledger!Begin
  <2>9. QED
    BY <2>1, <2>8 DEF Ledger!Next
<1>15. ASSUME NEW h \in Handlers, NEW res \in Results, EngineReturn(h, res)
      PROVE  [Ledger!Next]_(Ledger!vars)
  BY <1>15 DEF EngineReturn, TakeResult, Goto, Running, Begun, TypeOK, Ledger!vars,
     serverVars, localVars, lifeVars, obsVars, vars
<1>16. ASSUME NEW h \in Handlers, ActionRecord(h)
      PROVE  [Ledger!Next]_(Ledger!vars)
  <2>1. /\ req[h] \in Requests /\ verdict[h] \in Outcomes
        /\ verdict[h] = "completed" => req[h].snap \in touched
        /\ verdict[h] = "refused" => req[h].snap \notin touched
    BY <1>16 DEF ActionRecord, RequestInv, LocalInv, TypeOK
  <2>2. \A g \in Handlers : pc[g] \in {"run", "record"} <=> g = h
    BY <1>16 DEF ActionRecord, SlotInv, WorkIsExclusive, Holding
  <2>3. \A g \in Handlers : pc'[g] \notin {"run", "record"}
    BY <1>16, <2>2 DEF ActionRecord, Goto, TypeOK
  <2>4. Running = {req[h]} /\ Running' = {}
    BY <1>16, <2>1, <2>2, <2>3 DEF ActionRecord, Running
  <2>5. Begun' = Begun
    BY <1>16 DEF ActionRecord, Begun
  <2>6. Ledger!Settle(req[h], verdict[h])
    BY <1>16, <2>1, <2>4, <2>5 DEF ActionRecord, Ledger!Settle
  <2>7. QED
    BY <2>1, <2>6 DEF Ledger!Next, Ledger!Verdicts, Outcomes
<1>17. ASSUME NEW h \in Handlers, Release(h)
      PROVE  [Ledger!Next]_(Ledger!vars)
  <2>1. Begun' = Begun /\ touched' = touched /\ decided' = decided
    BY <1>17 DEF Release, Begun
  <2>2. Running' = Running
    <3>1. \A g \in Handlers : pc[g] \in {"run", "record"} \/ pc'[g] \in {"run", "record"}
                                => pc'[g] = pc[g] /\ req'[g] = req[g]
      BY <1>17 DEF Release, Goto, TypeOK
    <3>2. QED
      BY <3>1 DEF Running
  <2>3. CASE verdict[h] = "none"
    BY <1>17, <2>1, <2>2, <2>3 DEF Release, Ledger!vars
  <2>4. CASE verdict[h] # "none"
    <3>1. /\ req[h] \in Requests /\ verdict[h] \in Outcomes
          /\ <<req[h], verdict[h]>> \in decided
          /\ told' = told \cup {<<req[h], verdict[h]>>}
      BY <1>17, <2>4 DEF Release, RequestInv, LocalInv, TypeOK
    <3>2. Ledger!Tell(req[h], verdict[h])
      BY <2>1, <2>2, <3>1 DEF Ledger!Tell
    <3>3. QED
      BY <3>1, <3>2 DEF Ledger!Next, Ledger!Verdicts, Outcomes
  <2>5. QED
    BY <2>3, <2>4
<1>18. CASE TimerFire
  BY <1>18 DEF TimerFire, Running, Begun, TypeOK, Ledger!vars, serverVars,
     localVars, lifeVars, obsVars, vars
<1>19. ASSUME NEW s \in SnapIDs, TimerCallback(s)
      PROVE  [Ledger!Next]_(Ledger!vars)
  BY <1>19 DEF TimerCallback, Running, Begun, TypeOK, Ledger!vars,
     serverVars, localVars, lifeVars, obsVars, vars
<1>20. CASE Signal
  BY <1>20 DEF Signal, Running, Begun, TypeOK, Ledger!vars, serverVars,
     localVars, lifeVars, obsVars, vars
<1>21. CASE ServeFails
  BY <1>21 DEF ServeFails, Running, Begun, TypeOK, Ledger!vars, serverVars,
     localVars, lifeVars, obsVars, vars
<1>22. CASE ServeCloses
  BY <1>22 DEF ServeCloses, Running, Begun, TypeOK, Ledger!vars, serverVars,
     localVars, lifeVars, obsVars, vars
<1>23. CASE StopSetClosing
  BY <1>23 DEF StopSetClosing, Running, Begun, TypeOK, Ledger!vars,
     serverVars, localVars, lifeVars, obsVars, vars
<1>24. CASE StopAcquire
  BY <1>24 DEF StopAcquire, Running, Begun, TypeOK, Ledger!vars, serverVars,
     localVars, lifeVars, obsVars, vars
<1>25. CASE StopRelease
  BY <1>25 DEF StopRelease, Running, Begun, TypeOK, Ledger!vars, serverVars,
     localVars, lifeVars, obsVars, vars
<1>26. CASE StopClear
  BY <1>26 DEF StopClear, Running, Begun, TypeOK, Ledger!vars, serverVars,
     localVars, lifeVars, obsVars, vars
<1>27. CASE Exit
  BY <1>27 DEF Exit, Running, Begun, TypeOK, Ledger!vars, serverVars,
     localVars, lifeVars, obsVars, vars
<1>28. CASE Tick
  BY <1>28 DEF Tick, Running, Begun, TypeOK, Ledger!vars, serverVars,
     localVars, lifeVars, obsVars, vars
<1>29. CASE UNCHANGED vars
  BY <1>29 DEF Running, Begun, TypeOK, Ledger!vars, serverVars, localVars,
     lifeVars, obsVars, vars
<1>30. QED
  BY <1>1, <1>2, <1>3, <1>4, <1>5, <1>6, <1>7, <1>8, <1>9, <1>10, <1>11, <1>12, <1>13,
     <1>14, <1>15, <1>16, <1>17, <1>18, <1>19, <1>20, <1>21, <1>22, <1>23, <1>24, <1>25,
     <1>26, <1>27, <1>28, <1>29 DEF Next, Serve, Stop

\* The server implements the ledger, for every number of handlers and requests.
THEOREM ServerImplementsLedger == Spec => ImplementsLedger
<1>1. Init => Ledger!Init
  BY LedgerInit
<1>2. TypeOK /\ CompanionInv /\ [Next]_vars => [Ledger!Next]_(Ledger!vars)
  BY LedgerStep
<1>3. QED
  BY <1>1, <1>2, TypeCorrect, CompanionCorrect, PTL DEF Spec, ImplementsLedger, Ledger!Spec

-----------------------------------------------------------------------------
(* The session *)

\* A step of the session is one of the server or leaves the server alone.
LEMMA SessionStepServes == [SessionNext]_sessionVars => [Next]_vars
<1> SUFFICES ASSUME [SessionNext]_sessionVars PROVE [Next]_vars
  OBVIOUS
<1>1. CASE Create \/ Encode \/ Look \/ Open \/ Compare \/ Unlink \/ Crash
  BY <1>1 DEF Create, Encode, Look, Open, Compare, Unlink, Crash
<1>2. CASE UserEdits \/ UserRemoves \/ UserReplaces
  BY <1>2 DEF UserEdits, UserRemoves, UserReplaces
<1>3. CASE Return
  BY <1>3 DEF Return, Next, Stop
<1>4. CASE EarlySignal
  BY <1>4 DEF EarlySignal, Next
<1>5. CASE Server
  BY <1>5 DEF Server, Within
<1>6. CASE UNCHANGED sessionVars
  BY <1>6 DEF sessionVars
<1>7. QED
  BY <1>1, <1>2, <1>3, <1>4, <1>5, <1>6 DEF SessionNext, Retire

\* Every session is a behaviour of the server: whatever is proved of the server
\* above holds within a session, with its failed starts and its crashes.
THEOREM SessionRunsServer == SessionSpec => Spec
<1>1. SessionInit => Init
  BY DEF SessionInit
<1>2. QED
  BY <1>1, SessionStepServes, PTL DEF SessionSpec, Spec

\* Only the return of the command leaves "drained"; only Exit makes "exited".
LEMMA DrainedStays ==
    ASSUME Next, life = "drained" PROVE life' \in {"drained", "exited"}
  BY DEF Next, Serve, Stop, ReceiveSnapshot, ReceiveAction, CancelContext, EngineEffect,
     SnapshotBusy, SnapshotClaim, SnapshotClear, SnapshotCollected, SnapshotFailed,
     SnapshotPublish, ActionReplay, ActionBusy, ActionStale, ActionStart, EngineReturn,
     TakeResult,
     ActionRecord, Release, TimerFire, TimerCallback, Signal, ServeFails, ServeCloses,
     StopSetClosing, StopAcquire, StopRelease, StopClear, Exit, Tick, lifeVars

DescriptorInv == SessionTypeOK /\ PhaseInv /\ FileInv /\ WindowInv

\* The ends of the session keep order with the server, and retire's knowledge
\* of the file stays true or is marked as meddled with.
LEMMA DescriptorStep == DescriptorInv /\ [SessionNext]_sessionVars => DescriptorInv'
<1> SUFFICES ASSUME DescriptorInv, [SessionNext]_sessionVars PROVE DescriptorInv'
  OBVIOUS
<1> USE DEF DescriptorInv, SessionTypeOK, PhaseInv, FileInv, WindowInv, SessionPhases,
      Retiring, Ended, Goes, GiveUp, fileVars
<1>1. CASE Create
  <2>1. /\ phase = "create" /\ UNCHANGED <<life, edited, handle, meddled, gaveUp>>
        /\ \/ entry' = "own" /\ phase' = "encode"
           \/ entry' = entry /\ phase' = "failed"
    BY <1>1 DEF Create, vars, lifeVars
  <2>2. QED
    BY <2>1
<1>2. CASE Encode
  <2>1. /\ phase = "encode" /\ UNCHANGED <<life, edited, handle, meddled>>
        /\ \/ phase' = "up" /\ entry' = entry /\ gaveUp' = gaveUp
           \/ phase' = "failed" /\ entry' = "none" /\ gaveUp' = gaveUp
           \/ phase' = "failed" /\ entry' = entry /\ gaveUp' = TRUE
    BY <1>2 DEF Encode, vars, lifeVars
  <2>2. SessionTypeOK'
    BY <2>1
  <2>3. PhaseInv'
    BY <2>1
  <2>4. FileInv'
    BY <2>1
  <2>5. WindowInv'
    BY <2>1
  <2>6. QED
    BY <2>2, <2>3, <2>4, <2>5
<1>3. CASE Look
  <2>1. /\ phase = "up" /\ life = "drained"
        /\ UNCHANGED <<life, entry, edited, handle, meddled>>
        /\ \/ entry = "own" /\ phase' = "open" /\ gaveUp' = gaveUp
           \/ (entry # "own" \/ edited) /\ phase' = "retired" /\ gaveUp' = gaveUp
           \/ phase' = "retired" /\ gaveUp' = TRUE
    BY <1>3 DEF Look, vars, lifeVars
  <2>2. SessionTypeOK'
    BY <2>1
  <2>3. PhaseInv'
    BY <2>1
  <2>4. FileInv'
    BY <2>1
  <2>5. WindowInv'
    BY <2>1
  <2>6. QED
    BY <2>2, <2>3, <2>4, <2>5
<1>4. CASE Open
  <2>1. /\ phase = "open" /\ UNCHANGED <<life, entry, edited>>
        /\ \/ /\ handle' = entry /\ meddled' = meddled \ {"name"} /\ gaveUp' = gaveUp
              /\ phase' = IF entry = "none" THEN "retired" ELSE "compare"
           \/ phase' = "retired" /\ gaveUp' = TRUE /\ UNCHANGED <<handle, meddled>>
    BY <1>4 DEF Open, vars, lifeVars
  <2>2. SessionTypeOK'
    BY <2>1
  <2>3. PhaseInv'
    BY <2>1
  <2>4. FileInv'
    BY <2>1
  <2>5. WindowInv'
    BY <2>1
  <2>6. QED
    BY <2>2, <2>3, <2>4, <2>5
<1>5. CASE Compare
  <2>1. /\ phase = "compare" /\ UNCHANGED <<life, entry, edited, handle>>
        /\ \/ /\ meddled' = meddled \ {"content"} /\ gaveUp' = gaveUp
              /\ \/ handle = "own" /\ ~edited /\ phase' = "unlink"
                 \/ (handle # "own" \/ edited) /\ phase' = "retired"
           \/ phase' = "retired" /\ meddled' = meddled /\ gaveUp' = TRUE
    BY <1>5 DEF Compare, vars, lifeVars
  <2>2. SessionTypeOK'
    BY <2>1
  <2>3. PhaseInv'
    BY <2>1
  <2>4. FileInv'
    BY <2>1
  <2>5. WindowInv'
    BY <2>1
  <2>6. QED
    BY <2>2, <2>3, <2>4, <2>5
<1>6. CASE Unlink
  BY <1>6 DEF Unlink, vars, lifeVars
<1>7. CASE Return
  BY <1>7 DEF Return, Exit
<1>8. CASE UserEdits
  BY <1>8 DEF UserEdits, UserMay, vars, lifeVars
<1>9. CASE UserRemoves
  BY <1>9 DEF UserRemoves, UserMay, vars, lifeVars
<1>10. CASE UserReplaces
  BY <1>10 DEF UserReplaces, UserMay, vars, lifeVars
<1>11. CASE Crash
  BY <1>11 DEF Crash, UserMay, vars, lifeVars
<1>12. CASE EarlySignal
  BY <1>12 DEF EarlySignal, Signal
<1>13. CASE Server
  BY <1>13, DrainedStays DEF Server, Within, Serving
<1>14. CASE UNCHANGED sessionVars
  BY <1>14 DEF sessionVars, vars, lifeVars
<1>15. QED
  BY <1>1, <1>2, <1>3, <1>4, <1>5, <1>6, <1>7, <1>8, <1>9, <1>10, <1>11, <1>12, <1>13,
     <1>14 DEF SessionNext, Retire

\* The descriptor's part of the invariant holds in every session.
LEMMA DescriptorCorrect == SessionSpec => []DescriptorInv
<1>1. SessionInit => DescriptorInv
  BY DEF SessionInit, Init, DescriptorInv, SessionTypeOK, PhaseInv, FileInv, WindowInv,
     SessionPhases, Retiring, Ended
<1>2. QED
  BY <1>1, DescriptorStep, PTL DEF SessionSpec

\* When retire begins nothing works any more and no snapshot is kept, and when
\* the command has returned its file is gone, is not as it was written, or has
\* been left because a call of retire failed.
THEOREM SessionCorrect == SessionSpec => []SessionInv
<1>1. DescriptorInv /\ NothingAfterDrain => SessionInv
  BY DEF DescriptorInv, SessionInv, NothingAfterDrain, PhaseInv
<1>2. QED
  BY <1>1, DescriptorCorrect, SessionRunsServer, DrainIsFinal, PTL

\* Retire removes nothing but its own unedited file, unless the user replaced
\* or edited it after retire had looked.
THEOREM DescriptorIsItsOwn == SessionSpec => RetiresItsOwn
<1>1. DescriptorInv /\ [SessionNext]_sessionVars =>
        [Unlink => /\ entry # "own" => "name" \in meddled
                   /\ edited => "content" \in meddled]_sessionVars
  BY DEF DescriptorInv, WindowInv, Unlink
<1>2. QED
  BY <1>1, DescriptorCorrect, PTL DEF SessionSpec, RetiresItsOwn

-----------------------------------------------------------------------------
(* The companion over its real engine *)

\* What the engine does beside the server are steps of the guard.
LEMMA GuardStep == [StopNext]_stopVars => [Guard!Next]_(Guard!vars)
<1> SUFFICES ASSUME [StopNext]_stopVars PROVE [Guard!Next]_(Guard!vars)
  OBVIOUS
<1>0. UNCHANGED guardVars => UNCHANGED Guard!vars
  BY DEF guardVars, Guard!vars, Guard!osVars, Guard!scanVars, Guard!attemptVars, Guard!obsVars
<1>1. CASE System
  BY <1>1 DEF System, Guard!Next
<1>2. CASE Elsewhere
  BY <1>2, <1>0 DEF Elsewhere
<1>3. ASSUME NEW h \in Handlers, ScanRow(h) PROVE Guard!Next
  BY <1>3 DEF ScanRow, Guard!Next
<1>4. ASSUME NEW h \in Handlers, Engine(h) PROVE [Guard!Next]_(Guard!vars)
  <2>1. CASE EngineBegin(h)
    BY <2>1 DEF EngineBegin, Guard!Next, Guard!Attempt, Guard!Seams
  <2>2. CASE EngineNotices(h)
    BY <2>2 DEF EngineNotices, Guard!Next, Guard!Attempt
  <2>3. CASE EngineChecks(h)
    BY <2>3 DEF EngineChecks, Guard!Next, Guard!Attempt
  <2>4. CASE EngineHits(h)
    BY <2>4 DEF EngineHits, Guard!Next, Guard!Attempt
  <2>5. ASSUME NEW res \in Results, EngineAnswers(h, res) PROVE UNCHANGED Guard!vars
    BY <2>5, <1>0 DEF EngineAnswers
  <2>6. QED
    BY <1>4, <2>1, <2>2, <2>3, <2>4, <2>5 DEF Engine
<1>5. CASE UNCHANGED stopVars
  BY <1>5, <1>0 DEF stopVars
<1>6. QED
  BY <1>1, <1>2, <1>3, <1>4, <1>5 DEF StopNext

\* The seam does what StopGuard says of it, also under the companion.
LEMMA StopRunsGuard == StopSpec => Guard!Spec
<1>1. StopInit => Guard!Init
  BY DEF StopInit
<1>2. QED
  BY <1>1, GuardStep, PTL DEF StopSpec, Guard!Spec

LEMMA StopGuarded ==
  ASSUME CompanionStopAssumption
  PROVE  StopSpec => []Guard!GuardInv
<1>1. Guard!StopGuardAssumption
  BY DEF CompanionStopAssumption
<1>2. QED
  BY <1>1, StopRunsGuard, Guard!GuardCorrect, PTL

\* Nothing is marked as hit but by the two steps that hit.
LEMMA OnlyHits ==
  ASSUME [StopNext]_stopVars
  PROVE  \/ UNCHANGED <<acted, victims>>
         \/ \E h \in Handlers : EngineHits(h)
<1>1. CASE System
  BY <1>1 DEF System, Guard!OS, Guard!Spawn, Guard!Exit, Guard!Tick, Guard!obsVars
<1>2. CASE Elsewhere
  BY <1>2 DEF Elsewhere, guardVars
<1>3. ASSUME NEW h \in Handlers, ScanRow(h) PROVE UNCHANGED <<acted, victims>>
  BY <1>3 DEF ScanRow, Guard!Scan, Guard!ScanLsof, Guard!ReadUser, Guard!ReadCommand,
     Guard!BuildRow, Guard!Profile, Guard!obsVars
<1>4. ASSUME NEW h \in Handlers, Engine(h) PROVE UNCHANGED <<acted, victims>> \/ EngineHits(h)
  <2>1. CASE EngineBegin(h)
    BY <2>1 DEF EngineBegin, Guard!Begin, Guard!obsVars
  <2>2. CASE EngineNotices(h)
    BY <2>2 DEF EngineNotices, Guard!CancelContext, Guard!obsVars
  <2>3. CASE EngineChecks(h)
    BY <2>3 DEF EngineChecks, Guard!CutShort, Guard!RefuseOutright, Guard!IdentityPass,
       Guard!IdentityFail, Guard!Route, Guard!CheckBrew, Guard!LookupPass, Guard!LookupFail,
       Guard!TermFails, Guard!ManagerReturns, Guard!obsVars
  <2>5. ASSUME NEW res \in Results, EngineAnswers(h, res) PROVE UNCHANGED <<acted, victims>>
    BY <2>5 DEF EngineAnswers, guardVars
  <2>6. QED
    BY <1>4, <2>1, <2>2, <2>3, <2>5 DEF Engine
<1>5. CASE UNCHANGED stopVars
  BY <1>5 DEF stopVars, guardVars
<1>6. QED
  BY <1>1, <1>2, <1>3, <1>4, <1>5 DEF StopNext

\* With what the guard promises, the engine keeps its contract.
LEMMA ServerStep ==
  ASSUME Guard!GuardInv, LinkInv, [StopNext]_stopVars
  PROVE  [Next]_vars
<1>1. CASE System
  BY <1>1 DEF System
<1>2. CASE Elsewhere
  BY <1>2 DEF Elsewhere
<1>3. ASSUME NEW h \in Handlers, ScanRow(h) PROVE UNCHANGED vars
  BY <1>3 DEF ScanRow
<1>4. ASSUME NEW h \in Handlers, Engine(h) PROVE [Next]_vars
  <2>1. CASE EngineBegin(h) \/ EngineNotices(h) \/ EngineChecks(h)
    BY <2>1 DEF EngineBegin, EngineNotices, EngineChecks
  <2>2. CASE EngineHits(h)
    BY <2>2 DEF EngineHits, Next
  <2>3. ASSUME NEW res \in Results, EngineAnswers(h, res) PROVE Next
    <3>1. Runs(h) /\ res \in Reported /\ TakeResult(h, res) /\ at = "done"
      BY <2>3 DEF EngineAnswers
    <3>2. TracedBegun /\ req[h].snap = TracedSnap
      BY <3>1 DEF TracedBegun, Runs, IsTraced
    <3>3. acted <=> TracedSnap \in touched
      BY <3>2 DEF LinkInv
    <3>4. /\ result = "ok" => acted
          /\ result = "refused" => ~acted
          /\ result \in {"ok", "refused", "failed", "unknown"}
      BY <3>1 DEF Guard!GuardInv, Guard!VerdictIsHonest, Guard!TypeOK, Guard!ProgressInv
    <3>5. (res = "ok" => acted) /\ (res = "refused" => ~acted)
      BY <3>1, <3>4 DEF Reported
    <3>6. EngineReturn(h, res)
      BY <3>1, <3>2, <3>3, <3>4, <3>5 DEF EngineReturn
    <3>7. QED
      BY <3>6 DEF Next, Serve
  <2>4. QED
    BY <1>4, <2>1, <2>2, <2>3 DEF Engine
<1>5. CASE UNCHANGED stopVars
  BY <1>5 DEF stopVars
<1>6. QED
  BY <1>1, <1>2, <1>3, <1>4, <1>5 DEF StopNext

\* What the server does to the traced action.
LEMMA ServerMoves ==
  ASSUME CompanionStopAssumption, TypeOK, CompanionInv, Next
  PROVE  /\ touched \subseteq touched'
         /\ TracedSnap \in touched' \ touched =>
               \E g \in Handlers : Alive /\ pc[g] = "run" /\ req[g].snap = TracedSnap
         /\ \A h \in Handlers : pc'[h] \in {"run", "record"} /\ IsTraced(req[h])' =>
               \/ pc[h] \in {"run", "record"} /\ req'[h] = req[h]
               \/ TracedSnap \notin touched'
         /\ \A t \in decided' \ decided :
               \E h \in Handlers : pc[h] = "record" /\ t[1] = req[h]
<1> DEFINE Same(h) == pc[h] \in {"run", "record"} /\ req'[h] = req[h]
           Fresh(h) == pc'[h] \notin {"run", "record"}
           Quiet == UNCHANGED <<touched, decided>>
           Work == \A h \in Handlers : Same(h) \/ Fresh(h)
<1>a. pc \in [Handlers -> Phases] /\ req \in [Handlers -> Requests \cup {NoRequest}]
  BY DEF TypeOK
<1>1. ASSUME NEW h \in Handlers, ActionStart(h), IsTraced(req[h])
      PROVE  TracedSnap \notin touched
  <2>1. req[h] \in Requests /\ snapshot.id = TracedSnap
    BY <1>1 DEF ActionStart, Found, CompanionInv, RequestInv, IsTraced
  <2>2. TracedSnap # 0 /\ runs[TracedSnap] = 0
    BY <2>1, CompanionAssumption
       DEF CompanionStopAssumption, SnapIDs, CompanionInv, SnapshotInv, OneRunPerSnapshot
  <2>3. QED
    BY <2>2 DEF CompanionInv, DecidedInv
<1>2. CASE \E g \in Handlers :
               \/ ReceiveSnapshot(g) \/ \E q \in Requests : ReceiveAction(g, q)
               \/ CancelContext(g) \/ SnapshotBusy(g) \/ SnapshotClaim(g)
               \/ SnapshotClear(g) \/ SnapshotCollected(g) \/ SnapshotFailed(g)
  <2>1. Quiet /\ Work
    BY <1>2, <1>a DEF ReceiveSnapshot, ReceiveAction, CancelContext, SnapshotBusy,
       SnapshotClaim, SnapshotClear, SnapshotCollected, SnapshotFailed, obsVars, Goto
  <2>2. QED
    BY <2>1
<1>3. CASE \E g \in Handlers :
               \/ SnapshotPublish(g) \/ ActionReplay(g) \/ ActionBusy(g)
               \/ ActionStale(g) \/ Release(g)
  <2>1. Quiet /\ Work
    BY <1>3, <1>a DEF SnapshotPublish, ActionReplay, ActionBusy, ActionStale, Release,
       obsVars, Goto
  <2>2. QED
    BY <2>1
<1>4. ASSUME NEW g \in Handlers, ActionStart(g)
      PROVE  /\ Quiet /\ req' = req
             /\ \A h \in Handlers : h # g => Same(h) \/ Fresh(h)
  BY <1>4, <1>a DEF ActionStart, Goto
<1>5. ASSUME NEW g \in Handlers, EngineEffect(g)
      PROVE  /\ touched' = touched \cup {req[g].snap} /\ UNCHANGED decided
             /\ Alive /\ pc[g] = "run" /\ Work
  BY <1>5 DEF EngineEffect, localVars
<1>6. ASSUME NEW g \in Handlers, NEW res \in Results, EngineReturn(g, res)
      PROVE  Quiet /\ Work
  BY <1>6, <1>a DEF EngineReturn, TakeResult, obsVars, Goto
<1>7. ASSUME NEW g \in Handlers, ActionRecord(g)
      PROVE  /\ UNCHANGED touched /\ decided' = decided \cup {<<req[g], verdict[g]>>}
             /\ pc[g] = "record" /\ Work
  BY <1>7, <1>a DEF ActionRecord, Goto
<1>8. CASE \/ TimerFire \/ \E s \in SnapIDs : TimerCallback(s)
           \/ Signal \/ ServeFails \/ Stop \/ Tick
  <2>1. Quiet /\ Work
    BY <1>8 DEF TimerFire, TimerCallback, Signal, ServeFails, Stop, ServeCloses,
       StopSetClosing, StopAcquire, StopRelease, StopClear, Exit, Tick, localVars, obsVars
  <2>2. QED
    BY <2>1
<1>9. ASSUME NEW g \in Handlers, ActionStart(g)
      PROVE IsTraced(req[g])' => TracedSnap \notin touched'
  BY <1>1, <1>4, <1>9 DEF IsTraced
<1>10. QED
  BY <1>2, <1>3, <1>4, <1>5, <1>6, <1>7, <1>8, <1>9 DEF Next, Serve

\* The traced action is begun by nothing but its start, and while it is under
\* way nothing else can count as its effect.
LEMMA ElsewhereStep ==
  ASSUME CompanionStopAssumption, TypeOK, CompanionInv, LinkInv, Elsewhere,
         TracedBegun', TracedSnap \in touched'
  PROVE  acted
<1>1. \/ \E h \in Handlers : pc[h] \in {"run", "record"} /\ IsTraced(req[h])
      \/ \E t \in decided : IsTraced(t[1])
  <2>1. CASE \E h \in Handlers : pc'[h] \in {"run", "record"} /\ IsTraced(req[h])'
    BY <2>1, ServerMoves DEF Elsewhere, IsTraced
  <2>2. CASE \E t \in decided' : IsTraced(t[1])
    <3>1. PICK t \in decided' : IsTraced(t[1])
      BY <2>2
    <3>2. t \in decided \/ \E h \in Handlers : pc[h] = "record" /\ t[1] = req[h]
      BY ServerMoves DEF Elsewhere
    <3>3. QED
      BY <3>1, <3>2
  <2>3. QED
    BY <2>1, <2>2 DEF TracedBegun, IsTraced
<1>2. CASE TracedSnap \in touched
  BY <1>1, <1>2 DEF LinkInv, TracedBegun
<1>3. CASE TracedSnap \notin touched
  <2>1. PICK g \in Handlers : Alive /\ pc[g] = "run" /\ req[g].snap = TracedSnap
    BY <1>3, ServerMoves DEF Elsewhere
  <2>2. \A t \in decided : ~IsTraced(t[1])
    BY <2>1 DEF CompanionInv, DecidedInv, IsTraced
  <2>3. PICK h \in Handlers : pc[h] \in {"run", "record"} /\ IsTraced(req[h])
    BY <1>1, <2>2
  <2>4. h = g
    BY <2>1, <2>3 DEF CompanionInv, SlotInv, WorkIsExclusive, Holding
  <2>5. Runs(g)
    BY <2>1, <2>3, <2>4 DEF Runs
  <2>6. QED
    BY <1>3, <2>5 DEF Elsewhere
<1>4. QED
  BY <1>2, <1>3

\* The engine's state and the server's go on telling the same story.
LEMMA LinkStep ==
  ASSUME CompanionStopAssumption, TypeOK, CompanionInv, Guard!GuardInv, LinkInv,
         [StopNext]_stopVars
  PROVE  LinkInv'
<1>1. CASE \E h \in Handlers : EngineHits(h)
  <2>1. PICK h \in Handlers : EngineHits(h)
    BY <1>1
  <2>2. acted' /\ TracedSnap \in touched'
    BY <2>1 DEF EngineHits, Runs, IsTraced, EngineEffect, Guard!Term, Guard!ManagerActs
  <2>3. seam' = seam /\ at \notin {"scan", "ps", "profile", "ready"}
    BY <2>1 DEF EngineHits, Guard!Term, Guard!ManagerActs, Guard!attemptVars
  <2>4. QED
    BY <2>2, <2>3 DEF LinkInv
<1>2. CASE ~\E h \in Handlers : EngineHits(h)
  <2>1. UNCHANGED <<acted, victims>>
    BY <1>2, OnlyHits
  <2>2. touched \subseteq touched'
    BY ServerStep, ServerMoves DEF vars, obsVars
  <2>3. TracedBegun' /\ TracedSnap \in touched' => acted
    <3>1. CASE Elsewhere
      BY <3>1, ElsewhereStep
    <3>2. CASE \E h \in Handlers : \E res \in Results : EngineAnswers(h, res)
      <4>1. PICK h \in Handlers : Runs(h) /\ \E res \in Results : TakeResult(h, res)
        BY <3>2 DEF EngineAnswers
      <4>2. TracedBegun /\ touched' = touched
        BY <4>1 DEF Runs, TracedBegun, TakeResult, obsVars
      <4>3. QED
        BY <4>2 DEF LinkInv
    <3>3. CASE UNCHANGED vars
      <4>1. TracedBegun' <=> TracedBegun
        BY <3>3 DEF TracedBegun, IsTraced, vars, localVars, obsVars
      <4>2. QED
        BY <3>3, <4>1 DEF LinkInv, vars, obsVars
    <3>4. QED
      BY <1>2, <3>1, <3>2, <3>3 DEF StopNext, System, ScanRow, Engine, EngineBegin,
         EngineNotices, EngineChecks, stopVars
  <2>4. at' \notin {"scan", "ps", "profile", "ready"} => seam' = "context"
    <3>1. CASE \E h \in Handlers : EngineBegin(h)
      BY <3>1 DEF EngineBegin, Guard!Begin
    <3>2. CASE \E h \in Handlers : EngineNotices(h) \/ EngineChecks(h)
      <4>1. seam' = seam /\ at \notin {"scan", "ps", "profile", "ready"}
        BY <3>2 DEF EngineNotices, EngineChecks, Guard!CancelContext, Guard!CutShort,
           Guard!RefuseOutright, Guard!IdentityPass, Guard!IdentityFail, Guard!Route,
           Guard!CheckBrew, Guard!LookupPass, Guard!LookupFail, Guard!TermFails,
           Guard!ManagerReturns
      <4>2. QED
        BY <4>1 DEF LinkInv
    <3>3. CASE \E h \in Handlers : ScanRow(h)
      BY <3>3 DEF ScanRow, Guard!Scan, Guard!ScanLsof, Guard!ReadUser, Guard!ReadCommand,
         Guard!BuildRow, Guard!Profile, Guard!attemptVars
    <3>4. CASE System \/ UNCHANGED guardVars
      <4>1. at' = at /\ seam' = seam
        BY <3>4 DEF System, Guard!OS, Guard!Spawn, Guard!Exit, Guard!Tick,
           Guard!attemptVars, guardVars
      <4>2. QED
        BY <4>1 DEF LinkInv
    <3>5. QED
      BY <1>2, <3>1, <3>2, <3>3, <3>4 DEF StopNext, Engine, EngineAnswers, Elsewhere, stopVars
  <2>5. QED
    BY <2>1, <2>2, <2>3, <2>4 DEF LinkInv
<1>3. QED
  BY <1>1, <1>2

StopInv == TypeOK /\ CompanionInv /\ LinkInv

LEMMA StopCorrect ==
  ASSUME CompanionStopAssumption
  PROVE  StopSpec => [](StopInv /\ Guard!GuardInv)
<1>1. StopInit => StopInv
  <2>1. StopInit => TypeOK /\ CompanionInv
    BY TypeInit, CompanionInvInit DEF StopInit
  <2>2. StopInit => LinkInv
    BY DEF StopInit, LinkInv, Init, Guard!Init
  <2>3. QED
    BY <2>1, <2>2 DEF StopInv
<1>2. StopInv /\ Guard!GuardInv /\ [StopNext]_stopVars => StopInv'
  <2> SUFFICES ASSUME StopInv, Guard!GuardInv, [StopNext]_stopVars PROVE StopInv'
    OBVIOUS
  <2>1. [Next]_vars
    BY ServerStep DEF StopInv
  <2>2. TypeOK' /\ CompanionInv'
    BY <2>1, TypeStep, CompanionInvStep DEF StopInv, CompanionInv
  <2>3. LinkInv'
    BY LinkStep DEF StopInv
  <2>4. QED
    BY <2>2, <2>3 DEF StopInv
<1>3. QED
  BY <1>1, <1>2, StopGuarded, PTL DEF StopSpec

\* The contract that CompanionServer assumes of its engine is kept by the seam
\* that it calls: over the real engine the companion is still that server, and
\* all that is proved of it above holds.
THEOREM EngineIsAsAssumed ==
  ASSUME CompanionStopAssumption
  PROVE  StopSpec => EngineKeepsContract
<1>1. StopInit => Init
  BY DEF StopInit
<1>2. StopInv /\ Guard!GuardInv /\ [StopNext]_stopVars => [Next]_vars
  BY ServerStep DEF StopInv
<1>3. QED
  BY <1>1, <1>2, StopCorrect, PTL DEF StopSpec, Spec, EngineKeepsContract

\* What a client is told of an action is true of the processes: for any number
\* of handlers, requests, processes and labels, and any row of any snapshot.
THEOREM ToldOfProcesses ==
  ASSUME CompanionStopAssumption
  PROVE  StopSpec => []ToldOfTheProcess
<1>1. StopInv /\ Guard!GuardInv => ToldOfTheProcess
  <2> SUFFICES ASSUME StopInv, Guard!GuardInv PROVE ToldOfTheProcess
    OBVIOUS
  <2>1. ASSUME NEW t \in told, IsTraced(t[1])
        PROVE  (t[2] = "refused" => victims = {}) /\ (t[2] = "completed" => acted)
    <3>1. t \in decided /\ t[1].snap = TracedSnap
      BY <2>1 DEF StopInv, CompanionInv, DecidedInv, IsTraced
    <3>2. TracedBegun
      BY <2>1, <3>1 DEF TracedBegun
    <3>3. /\ t[2] = "completed" => TracedSnap \in touched
          /\ t[2] = "refused" => TracedSnap \notin touched
      BY <3>1 DEF StopInv, CompanionInv, DecidedInv
    <3>4. QED
      BY <3>2, <3>3 DEF StopInv, LinkInv
  <2>2. ASSUME NEW i \in victims \cap present
        PROVE  \/ procs[i].pid = row.pid /\ procs[i].start = row.start
               \/ i \in owners /\ Cardinality(owners) > 1
    <3>1. acted /\ TracedSnap \in touched
      BY <2>2 DEF StopInv, LinkInv
    <3>2. at \notin {"scan", "ps", "profile", "ready"}
      BY <3>1 DEF Guard!GuardInv, Guard!ProgressInv
    <3>3. row.start # 0
      BY <3>1, <3>2 DEF StopInv, LinkInv, Guard!GuardInv, Guard!ContextSeamIsStrict
    <3>4. Guard!OnlyVerifiedVictims
      BY DEF Guard!GuardInv
    <3>5. \/ procs[i].pid = row.pid /\ Guard!StillSame(i)
          \/ i \in owners /\ Cardinality(owners) > 1
      BY <2>2, <3>4 DEF Guard!OnlyVerifiedVictims, Cardinality, Guard!Cardinality
    <3>6. Guard!StillSame(i) => procs[i].start = row.start
      BY <3>3 DEF Guard!StillSame
    <3>7. QED
      BY <3>5, <3>6
  <2>3. QED
    BY <2>1, <2>2 DEF ToldOfTheProcess
<1>2. QED
  BY <1>1, StopCorrect, PTL

\* The drain and the receipts are final for the processes too.
THEOREM SignalsAreInTime ==
  ASSUME CompanionStopAssumption
  PROVE  StopSpec => NoLateSignal
<1>1. StopInv /\ [StopNext]_stopVars =>
        [acted' # acted =>
            /\ life \notin {"held", "released", "drained", "exited"}
            /\ \E h \in Handlers : slot = h /\ pc[h] = "run" /\ IsTraced(req[h])
            /\ runs[TracedSnap] = 1
            /\ \A t \in told : t[1].snap # TracedSnap]_stopVars
  <2> SUFFICES ASSUME StopInv, [StopNext]_stopVars, acted' # acted
               PROVE  /\ life \notin {"held", "released", "drained", "exited"}
                      /\ \E h \in Handlers : slot = h /\ pc[h] = "run" /\ IsTraced(req[h])
                      /\ runs[TracedSnap] = 1
                      /\ \A t \in told : t[1].snap # TracedSnap
    OBVIOUS
  <2>1. PICK h \in Handlers : EngineHits(h)
    BY OnlyHits
  <2>2. pc[h] = "run" /\ IsTraced(req[h])
    BY <2>1 DEF EngineHits, Runs
  <2>3. slot = h
    BY <2>2 DEF StopInv, CompanionInv, SlotInv, WorkIsExclusive, Holding
  <2>4. life \notin {"held", "released", "drained", "exited"}
    BY <2>3, CompanionAssumption DEF StopInv, CompanionInv, SlotInv
  <2>5. runs[TracedSnap] = 1
    BY <2>2 DEF StopInv, CompanionInv, LocalInv, IsTraced
  <2>6. \A t \in told : t[1].snap # TracedSnap
    BY <2>2 DEF StopInv, CompanionInv, DecidedInv, IsTraced
  <2>7. QED
    BY <2>2, <2>3, <2>4, <2>5, <2>6
<1>2. QED
  BY <1>1, StopCorrect, PTL DEF StopSpec, NoLateSignal

=============================================================================
