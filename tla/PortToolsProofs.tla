---------------------------- MODULE PortToolsProofs ----------------------------
(***************************************************************************)
(* ToolsInv is inductive for any number of invocations of le, any ports    *)
(* and any jobs, and what follows from it: nothing that an invocation has  *)
(* taken or started outlives it, an answer has been the case, and what     *)
(* came true in time is not reported as a timeout.                         *)
(***************************************************************************)
EXTENDS PortTools, TLAPS

\* A step of an invocation or of a server, without what is observed of it.
Acts == \/ \E c \in Commands : Step(c)
        \/ \E p \in Ports : ServerListens(p) \/ ServerCloses(p)

Flags ==
    /\ due \in [Commands -> BOOLEAN] /\ sig \in [Commands -> BOOLEAN]
    /\ met \in [Commands -> BOOLEAN] /\ steady \in [Commands -> BOOLEAN]

\* TypeOK without the Boolean-valued variables.
Types ==
    /\ bound \in [Ports -> Commands \cup {Nobody, Server}]
    /\ refused \subseteq Commands
    /\ \A c \in Commands : job[c] \in Jobs[c]
    /\ pc \in [Commands -> Points]
    /\ next \in [Commands -> Nat]
    /\ look \in [Commands -> Looks]
    /\ child \in [Commands -> {"none", "running", "exited"}]
    /\ backoff \in [Commands -> Rungs]
    /\ result \in [Commands -> Results]
    /\ wanted \in [Commands -> Nat]

\* What a job may be.
LEMMA JobFacts ==
    ASSUME Types, NEW c \in Commands
    PROVE  /\ job[c].lo \in Nat /\ job[c].hi \in Nat /\ job[c].lo <= job[c].hi
           /\ job[c].limited \in BOOLEAN /\ Tool(c) \in Tools
           /\ Port(c) \in Ports \/ Port(c) = BadPort
           /\ Tool(c) \in {"forward", "awake"} => Port(c) \in Ports
<1>1. job[c] \in Jobs[c]
  BY DEF Types
<1>2. job[c] \in [tool : Tools, lo : Nat, hi : Nat, limited : BOOLEAN]
  BY <1>1, PortToolsAssumption
<1>3. QED
  BY <1>1, <1>2, PortToolsAssumption DEF Tool, Port

\* Every step keeps the types.
LEMMA TypesStep ==
    ASSUME Types, Acts PROVE Types'
<1> USE PortToolsAssumption DEF Types, Points, Looks, Results, Rungs, Waiters
<1>1. ASSUME NEW c \in Commands, Begin(c) PROVE Types'
  BY <1>1 DEF Begin, fixed, jobVars, childVars, Goto, Finish, Bind, Unbind, Looked
<1>2. ASSUME NEW c \in Commands, HoldPort(c) PROVE Types'
  BY <1>2 DEF HoldPort, fixed, jobVars, childVars, Goto, Finish, Bind, Unbind, Looked
<1>3. ASSUME NEW c \in Commands, HoldDone(c) PROVE Types'
  BY <1>3 DEF HoldDone, fixed, jobVars, childVars, Goto, Finish, Bind, Unbind, Looked
<1>4. ASSUME NEW c \in Commands, HoldReleased(c) PROVE Types'
  BY <1>4 DEF HoldReleased, fixed, jobVars, childVars, Goto, Finish, Bind, Unbind, Looked
<1>5. ASSUME NEW c \in Commands, ProbeFree(c) PROVE Types'
  BY <1>5 DEF ProbeFree, fixed, jobVars, childVars, Goto, Finish, Bind, Unbind, Looked
<1>6. ASSUME NEW c \in Commands, ProbeBusy(c) PROVE Types'
  BY <1>6 DEF ProbeBusy, fixed, jobVars, childVars, Goto, Finish, Bind, Unbind, Looked
<1>7. ASSUME NEW c \in Commands, ProbeClose(c) PROVE Types'
  BY <1>7 DEF ProbeClose, fixed, jobVars, childVars, Goto, Finish, Bind, Unbind, Looked
<1>8. ASSUME NEW c \in Commands, Tick(c) PROVE Types'
  BY <1>8 DEF Tick, fixed, jobVars, childVars, Goto, Finish, Bind, Unbind, Looked
<1>9. ASSUME NEW c \in Commands, DeadlinePasses(c) PROVE Types'
  BY <1>9 DEF DeadlinePasses, fixed, jobVars, childVars, Goto, Finish, Bind, Unbind, Looked
<1>10. ASSUME NEW c \in Commands, LastLook(c) PROVE Types'
  BY <1>10 DEF LastLook, fixed, jobVars, childVars, Goto, Finish, Bind, Unbind, Looked
<1>11. ASSUME NEW c \in Commands, Browse(c) PROVE Types'
  BY <1>11 DEF Browse, fixed, jobVars, childVars, Goto, Finish, Bind, Unbind, Looked
<1>12. ASSUME NEW c \in Commands, Launch(c) PROVE Types'
  BY <1>12 DEF Launch, fixed, jobVars, childVars, Goto, Finish, Bind, Unbind, Looked
<1>13. ASSUME NEW c \in Commands, Guard(c) PROVE Types'
  BY <1>13 DEF Guard, fixed, jobVars, childVars, Goto, Finish, Bind, Unbind, Looked
<1>14. ASSUME NEW c \in Commands, ForwardDropped(c) PROVE Types'
  BY <1>14 DEF ForwardDropped, fixed, jobVars, childVars, Goto, Finish, Bind, Unbind, Looked
<1>15. ASSUME NEW c \in Commands, Retry(c) PROVE Types'
  <2>1. 2 * backoff[c] \in Nat /\ 2 * wanted[c] \in Nat /\ backoff[c] <= 2 * backoff[c]
    OBVIOUS
  <2>2. Least(2 * backoff[c], MaxBackoff) \in Rungs
    BY <2>1 DEF Least
  <2>3. QED
    BY <1>15, <2>1, <2>2 DEF Retry, fixed, jobVars, childVars, Goto
<1>16. ASSUME NEW c \in Commands, Interrupted(c) PROVE Types'
  BY <1>16 DEF Interrupted, fixed, jobVars, childVars, Goto, Finish, Bind, Unbind, Looked
<1>17. ASSUME NEW c \in Commands, Reap(c) PROVE Types'
  BY <1>17 DEF Reap, fixed, jobVars, childVars, Goto, Finish, Bind, Unbind, Looked
<1>18. ASSUME NEW c \in Commands, Signal(c) PROVE Types'
  BY <1>18 DEF Signal, fixed, jobVars, childVars, Goto, Finish, Bind, Unbind, Looked
<1>19. ASSUME NEW c \in Commands, ChildBinds(c) PROVE Types'
  BY <1>19 DEF ChildBinds, fixed, jobVars, childVars, Goto, Finish, Bind, Unbind, Looked
<1>20. ASSUME NEW c \in Commands, ChildExits(c) PROVE Types'
  BY <1>20 DEF ChildExits, fixed, jobVars, childVars, Goto, Finish, Bind, Unbind, Looked
<1>21. ASSUME NEW c \in Commands, Refusal(c) PROVE Types'
  BY <1>21 DEF Refusal, fixed, jobVars, childVars, Goto, Finish, Bind, Unbind, Looked
<1>22. ASSUME NEW p \in Ports, ServerListens(p) PROVE Types'
  BY <1>22 DEF ServerListens, fixed, jobVars, childVars, Goto, Finish, Bind, Unbind, Looked
<1>23. ASSUME NEW p \in Ports, ServerCloses(p) PROVE Types'
  BY <1>23 DEF ServerCloses, fixed, jobVars, childVars, Goto, Finish, Bind, Unbind, Looked
<1>24. QED
  BY <1>1, <1>2, <1>3, <1>4, <1>5, <1>6, <1>7, <1>8, <1>9, <1>10, <1>11, <1>12, <1>13, <1>14, <1>15, <1>16, <1>17, <1>18, <1>19, <1>20, <1>21, <1>22, <1>23 DEF Acts, Step

\* A child is known to the invocation that waits for it.
LEMMA ChildStep ==
    ASSUME Types, PointInv, ChildInv, Acts PROVE ChildInv'
<1> USE PortToolsAssumption DEF Types, PointInv, ChildInv, Tool, Waiters, Handled
<1>1. ASSUME NEW c \in Commands, Begin(c) PROVE ChildInv'
  BY <1>1 DEF Begin, fixed, jobVars, childVars, Goto, Finish, Bind, Unbind, Looked
<1>2. ASSUME NEW c \in Commands, HoldPort(c) PROVE ChildInv'
  BY <1>2 DEF HoldPort, fixed, jobVars, childVars, Goto, Finish, Bind, Unbind, Looked
<1>3. ASSUME NEW c \in Commands, HoldDone(c) PROVE ChildInv'
  BY <1>3 DEF HoldDone, fixed, jobVars, childVars, Goto, Finish, Bind, Unbind, Looked
<1>4. ASSUME NEW c \in Commands, HoldReleased(c) PROVE ChildInv'
  BY <1>4 DEF HoldReleased, fixed, jobVars, childVars, Goto, Finish, Bind, Unbind, Looked
<1>5. ASSUME NEW c \in Commands, ProbeFree(c) PROVE ChildInv'
  BY <1>5 DEF ProbeFree, fixed, jobVars, childVars, Goto, Finish, Bind, Unbind, Looked
<1>6. ASSUME NEW c \in Commands, ProbeBusy(c) PROVE ChildInv'
  BY <1>6 DEF ProbeBusy, fixed, jobVars, childVars, Goto, Finish, Bind, Unbind, Looked
<1>7. ASSUME NEW c \in Commands, ProbeClose(c) PROVE ChildInv'
  BY <1>7 DEF ProbeClose, fixed, jobVars, childVars, Goto, Finish, Bind, Unbind, Looked
<1>8. ASSUME NEW c \in Commands, Tick(c) PROVE ChildInv'
  BY <1>8 DEF Tick, fixed, jobVars, childVars, Goto, Finish, Bind, Unbind, Looked
<1>9. ASSUME NEW c \in Commands, DeadlinePasses(c) PROVE ChildInv'
  BY <1>9 DEF DeadlinePasses, fixed, jobVars, childVars, Goto, Finish, Bind, Unbind, Looked
<1>10. ASSUME NEW c \in Commands, LastLook(c) PROVE ChildInv'
  BY <1>10 DEF LastLook, fixed, jobVars, childVars, Goto, Finish, Bind, Unbind, Looked
<1>11. ASSUME NEW c \in Commands, Browse(c) PROVE ChildInv'
  BY <1>11 DEF Browse, fixed, jobVars, childVars, Goto, Finish, Bind, Unbind, Looked
<1>12. ASSUME NEW c \in Commands, Launch(c) PROVE ChildInv'
  BY <1>12 DEF Launch, fixed, jobVars, childVars, Goto, Finish, Bind, Unbind, Looked
<1>13. ASSUME NEW c \in Commands, Guard(c) PROVE ChildInv'
  BY <1>13 DEF Guard, fixed, jobVars, childVars, Goto, Finish, Bind, Unbind, Looked
<1>14. ASSUME NEW c \in Commands, ForwardDropped(c) PROVE ChildInv'
  BY <1>14 DEF ForwardDropped, fixed, jobVars, childVars, Goto, Finish, Bind, Unbind, Looked
<1>15. ASSUME NEW c \in Commands, Retry(c) PROVE ChildInv'
  BY <1>15 DEF Retry, fixed, jobVars, childVars, Goto, Finish, Bind, Unbind, Looked
<1>16. ASSUME NEW c \in Commands, Interrupted(c) PROVE ChildInv'
  BY <1>16 DEF Interrupted, fixed, jobVars, childVars, Goto, Finish, Bind, Unbind, Looked
<1>17. ASSUME NEW c \in Commands, Reap(c) PROVE ChildInv'
  BY <1>17 DEF Reap, fixed, jobVars, childVars, Goto, Finish, Bind, Unbind, Looked
<1>18. ASSUME NEW c \in Commands, Signal(c) PROVE ChildInv'
  BY <1>18 DEF Signal, fixed, jobVars, childVars, Goto, Finish, Bind, Unbind, Looked
<1>19. ASSUME NEW c \in Commands, ChildBinds(c) PROVE ChildInv'
  BY <1>19 DEF ChildBinds, fixed, jobVars, childVars, Goto, Finish, Bind, Unbind, Looked
<1>20. ASSUME NEW c \in Commands, ChildExits(c) PROVE ChildInv'
  BY <1>20 DEF ChildExits, fixed, jobVars, childVars, Goto, Finish, Bind, Unbind, Looked
<1>21. ASSUME NEW c \in Commands, Refusal(c) PROVE ChildInv'
  BY <1>21 DEF Refusal, fixed, jobVars, childVars, Goto, Finish, Bind, Unbind, Looked
<1>22. ASSUME NEW p \in Ports, ServerListens(p) PROVE ChildInv'
  BY <1>22 DEF ServerListens, fixed, jobVars, childVars, Goto, Finish, Bind, Unbind, Looked
<1>23. ASSUME NEW p \in Ports, ServerCloses(p) PROVE ChildInv'
  BY <1>23 DEF ServerCloses, fixed, jobVars, childVars, Goto, Finish, Bind, Unbind, Looked
<1>24. QED
  BY <1>1, <1>2, <1>3, <1>4, <1>5, <1>6, <1>7, <1>8, <1>9, <1>10, <1>11, <1>12, <1>13, <1>14, <1>15, <1>16, <1>17, <1>18, <1>19, <1>20, <1>21, <1>22, <1>23 DEF Acts, Step

\* The wait is the doubled one, cut at the limit.
LEMMA LadderStep ==
    ASSUME Types, LadderInv, Acts PROVE LadderInv'
<1> USE PortToolsAssumption DEF Types, LadderInv, Rungs, Least
<1>1. ASSUME NEW c \in Commands, Begin(c) PROVE LadderInv'
  BY <1>1 DEF Begin, fixed, jobVars, childVars, Goto, Finish, Bind, Unbind, Looked
<1>2. ASSUME NEW c \in Commands, HoldPort(c) PROVE LadderInv'
  BY <1>2 DEF HoldPort, fixed, jobVars, childVars, Goto, Finish, Bind, Unbind, Looked
<1>3. ASSUME NEW c \in Commands, HoldDone(c) PROVE LadderInv'
  BY <1>3 DEF HoldDone, fixed, jobVars, childVars, Goto, Finish, Bind, Unbind, Looked
<1>4. ASSUME NEW c \in Commands, HoldReleased(c) PROVE LadderInv'
  BY <1>4 DEF HoldReleased, fixed, jobVars, childVars, Goto, Finish, Bind, Unbind, Looked
<1>5. ASSUME NEW c \in Commands, ProbeFree(c) PROVE LadderInv'
  BY <1>5 DEF ProbeFree, fixed, jobVars, childVars, Goto, Finish, Bind, Unbind, Looked
<1>6. ASSUME NEW c \in Commands, ProbeBusy(c) PROVE LadderInv'
  BY <1>6 DEF ProbeBusy, fixed, jobVars, childVars, Goto, Finish, Bind, Unbind, Looked
<1>7. ASSUME NEW c \in Commands, ProbeClose(c) PROVE LadderInv'
  BY <1>7 DEF ProbeClose, fixed, jobVars, childVars, Goto, Finish, Bind, Unbind, Looked
<1>8. ASSUME NEW c \in Commands, Tick(c) PROVE LadderInv'
  BY <1>8 DEF Tick, fixed, jobVars, childVars, Goto, Finish, Bind, Unbind, Looked
<1>9. ASSUME NEW c \in Commands, DeadlinePasses(c) PROVE LadderInv'
  BY <1>9 DEF DeadlinePasses, fixed, jobVars, childVars, Goto, Finish, Bind, Unbind, Looked
<1>10. ASSUME NEW c \in Commands, LastLook(c) PROVE LadderInv'
  BY <1>10 DEF LastLook, fixed, jobVars, childVars, Goto, Finish, Bind, Unbind, Looked
<1>11. ASSUME NEW c \in Commands, Browse(c) PROVE LadderInv'
  BY <1>11 DEF Browse, fixed, jobVars, childVars, Goto, Finish, Bind, Unbind, Looked
<1>12. ASSUME NEW c \in Commands, Launch(c) PROVE LadderInv'
  BY <1>12 DEF Launch, fixed, jobVars, childVars, Goto, Finish, Bind, Unbind, Looked
<1>13. ASSUME NEW c \in Commands, Guard(c) PROVE LadderInv'
  BY <1>13 DEF Guard, fixed, jobVars, childVars, Goto, Finish, Bind, Unbind, Looked
<1>14. ASSUME NEW c \in Commands, ForwardDropped(c) PROVE LadderInv'
  BY <1>14 DEF ForwardDropped, fixed, jobVars, childVars, Goto, Finish, Bind, Unbind, Looked
<1>15. ASSUME NEW c \in Commands, Retry(c) PROVE LadderInv'
  BY <1>15 DEF Retry, fixed, jobVars, childVars, Goto, Finish, Bind, Unbind, Looked
<1>16. ASSUME NEW c \in Commands, Interrupted(c) PROVE LadderInv'
  BY <1>16 DEF Interrupted, fixed, jobVars, childVars, Goto, Finish, Bind, Unbind, Looked
<1>17. ASSUME NEW c \in Commands, Reap(c) PROVE LadderInv'
  BY <1>17 DEF Reap, fixed, jobVars, childVars, Goto, Finish, Bind, Unbind, Looked
<1>18. ASSUME NEW c \in Commands, Signal(c) PROVE LadderInv'
  BY <1>18 DEF Signal, fixed, jobVars, childVars, Goto, Finish, Bind, Unbind, Looked
<1>19. ASSUME NEW c \in Commands, ChildBinds(c) PROVE LadderInv'
  BY <1>19 DEF ChildBinds, fixed, jobVars, childVars, Goto, Finish, Bind, Unbind, Looked
<1>20. ASSUME NEW c \in Commands, ChildExits(c) PROVE LadderInv'
  BY <1>20 DEF ChildExits, fixed, jobVars, childVars, Goto, Finish, Bind, Unbind, Looked
<1>21. ASSUME NEW c \in Commands, Refusal(c) PROVE LadderInv'
  BY <1>21 DEF Refusal, fixed, jobVars, childVars, Goto, Finish, Bind, Unbind, Looked
<1>22. ASSUME NEW p \in Ports, ServerListens(p) PROVE LadderInv'
  BY <1>22 DEF ServerListens, fixed, jobVars, childVars, Goto, Finish, Bind, Unbind, Looked
<1>23. ASSUME NEW p \in Ports, ServerCloses(p) PROVE LadderInv'
  BY <1>23 DEF ServerCloses, fixed, jobVars, childVars, Goto, Finish, Bind, Unbind, Looked
<1>24. QED
  BY <1>1, <1>2, <1>3, <1>4, <1>5, <1>6, <1>7, <1>8, <1>9, <1>10, <1>11, <1>12, <1>13, <1>14, <1>15, <1>16, <1>17, <1>18, <1>19, <1>20, <1>21, <1>22, <1>23 DEF Acts, Step

\* Every tool stays at its own points.
LEMMA PointStep ==
    ASSUME Types, PointInv, Acts PROVE PointInv'
<1> USE PortToolsAssumption DEF Types, PointInv, Tool, Port, Points, Results, Waiters, Tools
<1>1. ASSUME NEW c \in Commands, Begin(c) PROVE PointInv'
  BY <1>1, JobFacts DEF Begin, fixed, jobVars, childVars, Goto, Finish, Bind, Unbind, Looked
<1>2. ASSUME NEW c \in Commands, HoldPort(c) PROVE PointInv'
  BY <1>2, JobFacts DEF HoldPort, fixed, jobVars, childVars, Goto, Finish, Bind, Unbind, Looked
<1>3. ASSUME NEW c \in Commands, HoldDone(c) PROVE PointInv'
  BY <1>3, JobFacts DEF HoldDone, fixed, jobVars, childVars, Goto, Finish, Bind, Unbind, Looked
<1>4. ASSUME NEW c \in Commands, HoldReleased(c) PROVE PointInv'
  BY <1>4, JobFacts DEF HoldReleased, fixed, jobVars, childVars, Goto, Finish, Bind, Unbind, Looked
<1>5. ASSUME NEW c \in Commands, ProbeFree(c) PROVE PointInv'
  BY <1>5, JobFacts DEF ProbeFree, fixed, jobVars, childVars, Goto, Finish, Bind, Unbind, Looked
<1>6. ASSUME NEW c \in Commands, ProbeBusy(c) PROVE PointInv'
  BY <1>6, JobFacts DEF ProbeBusy, fixed, jobVars, childVars, Goto, Finish, Bind, Unbind, Looked
<1>7. ASSUME NEW c \in Commands, ProbeClose(c) PROVE PointInv'
  BY <1>7, JobFacts DEF ProbeClose, fixed, jobVars, childVars, Goto, Finish, Bind, Unbind, Looked
<1>8. ASSUME NEW c \in Commands, Tick(c) PROVE PointInv'
  BY <1>8, JobFacts DEF Tick, fixed, jobVars, childVars, Goto, Finish, Bind, Unbind, Looked
<1>9. ASSUME NEW c \in Commands, DeadlinePasses(c) PROVE PointInv'
  BY <1>9, JobFacts DEF DeadlinePasses, fixed, jobVars, childVars, Goto, Finish, Bind, Unbind, Looked
<1>10. ASSUME NEW c \in Commands, LastLook(c) PROVE PointInv'
  BY <1>10, JobFacts DEF LastLook, fixed, jobVars, childVars, Goto, Finish, Bind, Unbind, Looked
<1>11. ASSUME NEW c \in Commands, Browse(c) PROVE PointInv'
  BY <1>11, JobFacts DEF Browse, fixed, jobVars, childVars, Goto, Finish, Bind, Unbind, Looked
<1>12. ASSUME NEW c \in Commands, Launch(c) PROVE PointInv'
  BY <1>12, JobFacts DEF Launch, fixed, jobVars, childVars, Goto, Finish, Bind, Unbind, Looked
<1>13. ASSUME NEW c \in Commands, Guard(c) PROVE PointInv'
  BY <1>13, JobFacts DEF Guard, fixed, jobVars, childVars, Goto, Finish, Bind, Unbind, Looked
<1>14. ASSUME NEW c \in Commands, ForwardDropped(c) PROVE PointInv'
  BY <1>14, JobFacts DEF ForwardDropped, fixed, jobVars, childVars, Goto, Finish, Bind, Unbind, Looked
<1>15. ASSUME NEW c \in Commands, Retry(c) PROVE PointInv'
  BY <1>15, JobFacts DEF Retry, fixed, jobVars, childVars, Goto, Finish, Bind, Unbind, Looked
<1>16. ASSUME NEW c \in Commands, Interrupted(c) PROVE PointInv'
  BY <1>16, JobFacts DEF Interrupted, fixed, jobVars, childVars, Goto, Finish, Bind, Unbind, Looked
<1>17. ASSUME NEW c \in Commands, Reap(c) PROVE PointInv'
  BY <1>17, JobFacts DEF Reap, fixed, jobVars, childVars, Goto, Finish, Bind, Unbind, Looked
<1>18. ASSUME NEW c \in Commands, Signal(c) PROVE PointInv'
  <2>1. CASE Handled(c) /\ sig' = [sig EXCEPT ![c] = TRUE] /\ UNCHANGED <<pc, result>>
    BY <1>18, <2>1, JobFacts DEF Signal, fixed, jobVars, Handled
  <2>2. CASE Finish(c, "killed") /\ UNCHANGED sig
    BY <1>18, <2>2, JobFacts DEF Signal, fixed, jobVars, Finish, Goto
  <2>3. QED
    BY <1>18, <2>1, <2>2 DEF Signal
<1>19. ASSUME NEW c \in Commands, ChildBinds(c) PROVE PointInv'
  BY <1>19, JobFacts DEF ChildBinds, fixed, jobVars, childVars, Goto, Finish, Bind, Unbind, Looked
<1>20. ASSUME NEW c \in Commands, ChildExits(c) PROVE PointInv'
  BY <1>20, JobFacts DEF ChildExits, fixed, jobVars, childVars, Goto, Finish, Bind, Unbind, Looked
<1>21. ASSUME NEW c \in Commands, Refusal(c) PROVE PointInv'
  BY <1>21, JobFacts DEF Refusal, fixed, jobVars, childVars, Goto, Finish, Bind, Unbind, Looked
<1>22. ASSUME NEW p \in Ports, ServerListens(p) PROVE PointInv'
  BY <1>22, JobFacts DEF ServerListens, fixed, jobVars, childVars, Goto, Finish, Bind, Unbind, Looked
<1>23. ASSUME NEW p \in Ports, ServerCloses(p) PROVE PointInv'
  BY <1>23, JobFacts DEF ServerCloses, fixed, jobVars, childVars, Goto, Finish, Bind, Unbind, Looked
<1>24. QED
  BY <1>1, <1>2, <1>3, <1>4, <1>5, <1>6, <1>7, <1>8, <1>9, <1>10, <1>11, <1>12, <1>13, <1>14, <1>15, <1>16, <1>17, <1>18, <1>19, <1>20, <1>21, <1>22, <1>23 DEF Acts, Step

\* What an invocation does leaves the others, and their sockets, as they are.
LEMMA OthersStay ==
    ASSUME Types, PointInv, ChildInv, SocketInv, NEW c \in Commands, Step(c)
    PROVE  /\ job' = job
           /\ \A d \in Commands \ {c} :
                 /\ pc'[d] = pc[d] /\ child'[d] = child[d] /\ next'[d] = next[d]
                 /\ result'[d] = result[d]
                 /\ d \in refused' <=> d \in refused
           /\ \A p \in Ports : \/ bound'[p] = bound[p]
                               \/ bound[p] \in {Nobody, c} /\ bound'[p] \in {Nobody, c}
<1> USE PortToolsAssumption DEF Types, CanListen, Unbound
<1>1. CASE Begin(c)
  BY <1>1 DEF Begin, fixed, jobVars, childVars, Goto, Finish, Bind, Unbind, Looked
<1>2. CASE HoldPort(c)
  BY <1>2 DEF HoldPort, fixed, jobVars, childVars, Goto, Finish, Bind, Unbind, Looked
<1>3. CASE HoldDone(c)
  BY <1>3 DEF HoldDone, fixed, jobVars, childVars, Goto, Finish, Bind, Unbind, Looked
<1>4. CASE HoldReleased(c)
  BY <1>4 DEF HoldReleased, fixed, jobVars, childVars, Goto, Finish, Bind, Unbind, Looked
<1>5. CASE ProbeFree(c)
  BY <1>5 DEF ProbeFree, fixed, jobVars, childVars, Goto, Finish, Bind, Unbind, Looked
<1>6. CASE ProbeBusy(c)
  BY <1>6 DEF ProbeBusy, fixed, jobVars, childVars, Goto, Finish, Bind, Unbind, Looked
<1>7. CASE ProbeClose(c)
  BY <1>7 DEF ProbeClose, fixed, jobVars, childVars, Goto, Finish, Bind, Unbind, Looked
<1>8. CASE Tick(c)
  BY <1>8 DEF Tick, fixed, jobVars, childVars, Goto, Finish, Bind, Unbind, Looked
<1>9. CASE DeadlinePasses(c)
  BY <1>9 DEF DeadlinePasses, fixed, jobVars, childVars, Goto, Finish, Bind, Unbind, Looked
<1>10. CASE LastLook(c)
  BY <1>10 DEF LastLook, fixed, jobVars, childVars, Goto, Finish, Bind, Unbind, Looked
<1>11. CASE Browse(c)
  BY <1>11 DEF Browse, fixed, jobVars, childVars, Goto, Finish, Bind, Unbind, Looked
<1>12. CASE Launch(c)
  BY <1>12 DEF Launch, fixed, jobVars, childVars, Goto, Finish, Bind, Unbind, Looked
<1>13. CASE Guard(c)
  BY <1>13 DEF Guard, fixed, jobVars, childVars, Goto, Finish, Bind, Unbind, Looked
<1>14. CASE ForwardDropped(c)
  BY <1>14 DEF ForwardDropped, fixed, jobVars, childVars, Goto, Finish, Bind, Unbind, Looked
<1>15. CASE Retry(c)
  BY <1>15 DEF Retry, fixed, jobVars, childVars, Goto, Finish, Bind, Unbind, Looked
<1>16. CASE Interrupted(c)
  BY <1>16 DEF Interrupted, fixed, jobVars, childVars, Goto, Finish, Bind, Unbind, Looked
<1>17. CASE Reap(c)
  BY <1>17 DEF Reap, fixed, jobVars, childVars, Goto, Finish, Bind, Unbind, Looked
<1>18. CASE Signal(c)
  BY <1>18 DEF Signal, fixed, jobVars, childVars, Goto, Finish, Bind, Unbind, Looked
<1>19. CASE ChildBinds(c)
  BY <1>19 DEF ChildBinds, fixed, jobVars, childVars, Goto, Finish, Bind, Unbind, Looked
<1>20. CASE ChildExits(c)
  BY <1>20 DEF ChildExits, fixed, jobVars, childVars, Goto, Finish, Bind, Unbind, Looked
<1>21. CASE Refusal(c)
  BY <1>21 DEF Refusal, fixed, jobVars, childVars, Goto, Finish, Bind, Unbind, Looked
<1>22. QED
  BY <1>1, <1>2, <1>3, <1>4, <1>5, <1>6, <1>7, <1>8, <1>9, <1>10, <1>11, <1>12, <1>13, <1>14, <1>15, <1>16, <1>17, <1>18, <1>19, <1>20, <1>21 DEF Step

\* A socket that an invocation has after its step is one that it uses there.
LEMMA OwnUsed ==
    ASSUME Types, PointInv, ChildInv, SocketInv, NEW c \in Commands, Step(c)
    PROVE  \A p \in Ports : bound'[p] = c => Using(c, p)'
<1> USE PortToolsAssumption DEF Types, CanListen, Unbound, Using, Tool, Port, Holds, Waiters, Handled
<1>0. /\ \A p \in Ports : bound[p] = c => Using(c, p)
      /\ job[c].lo <= next[c]
      /\ pc[c] = "probing" => Port(c) \in Ports /\ bound[Port(c)] = c /\ c \notin refused
      /\ pc[c] = "hold" \/ (pc[c] = "unguarded" /\ Tool(c) = "hold") =>
            \E p \in Ports : bound[p] = c
      /\ pc[c] \in {"bind", "hold"} => Tool(c) = "hold"
      /\ pc[c] \in {"look", "probing", "select", "browse"} => Tool(c) \in Waiters
      /\ pc[c] \in {"launch", "up", "reap"} => Tool(c) \in {"forward", "awake"}
      /\ pc[c] = "backoff" => Tool(c) = "forward"
      /\ child[c] # "none" => Tool(c) \in {"forward", "awake"}
      /\ child[c] # "none" /\ Tool(c) = "forward" => pc[c] \in {"up", "reap"}
  BY DEF PointInv, ChildInv, SocketInv, OwnerInv, HolderInv, Holds
<1>1. CASE Begin(c)
  BY <1>0, <1>1 DEF Begin, fixed, jobVars, childVars, Goto, Finish, Bind, Unbind, Looked
<1>2. CASE HoldPort(c)
  <2>1. /\ pc' = pc /\ job' = job /\ next[c] \in Nat
        /\ next'[c] = next[c] + 1 /\ pc[c] = "bind" /\ Tool(c) = "hold"
    BY <1>0, <1>2 DEF HoldPort, fixed, jobVars
  <2>2. \A p \in Ports : bound'[p] = c => bound[p] = c \/ p = next[c]
    BY <1>2 DEF HoldPort, Bind
  <2>3. \A p \in Ports : bound[p] = c => job[c].lo <= p /\ p < next[c]
    BY <1>0, <2>1
  <2>4. QED
    BY <1>0, <2>1, <2>2, <2>3, PortToolsAssumption
<1>3. CASE HoldDone(c)
  BY <1>0, <1>3 DEF HoldDone, fixed, jobVars, childVars, Goto, Finish, Bind, Unbind, Looked
<1>4. CASE HoldReleased(c)
  BY <1>0, <1>4 DEF HoldReleased, fixed, jobVars, childVars, Goto, Finish, Bind, Unbind, Looked
<1>5. CASE ProbeFree(c)
  BY <1>0, <1>5 DEF ProbeFree, fixed, jobVars, childVars, Goto, Finish, Bind, Unbind, Looked
<1>6. CASE ProbeBusy(c)
  BY <1>0, <1>6 DEF ProbeBusy, fixed, jobVars, childVars, Goto, Finish, Bind, Unbind, Looked
<1>7. CASE ProbeClose(c)
  BY <1>0, <1>7 DEF ProbeClose, fixed, jobVars, childVars, Goto, Finish, Bind, Unbind, Looked
<1>8. CASE Tick(c)
  BY <1>0, <1>8 DEF Tick, fixed, jobVars, childVars, Goto, Finish, Bind, Unbind, Looked
<1>9. CASE DeadlinePasses(c)
  BY <1>0, <1>9 DEF DeadlinePasses, fixed, jobVars, childVars, Goto, Finish, Bind, Unbind, Looked
<1>10. CASE LastLook(c)
  BY <1>0, <1>10 DEF LastLook, fixed, jobVars, childVars, Goto, Finish, Bind, Unbind, Looked
<1>11. CASE Browse(c)
  BY <1>0, <1>11 DEF Browse, fixed, jobVars, childVars, Goto, Finish, Bind, Unbind, Looked
<1>12. CASE Launch(c)
  BY <1>0, <1>12 DEF Launch, fixed, jobVars, childVars, Goto, Finish, Bind, Unbind, Looked
<1>13. CASE Guard(c)
  BY <1>0, <1>13 DEF Guard, fixed, jobVars, childVars, Goto, Finish, Bind, Unbind, Looked
<1>14. CASE ForwardDropped(c)
  BY <1>0, <1>14 DEF ForwardDropped, fixed, jobVars, childVars, Goto, Finish, Bind, Unbind, Looked
<1>15. CASE Retry(c)
  BY <1>0, <1>15 DEF Retry, fixed, jobVars, childVars, Goto, Finish, Bind, Unbind, Looked
<1>16. CASE Interrupted(c)
  BY <1>0, <1>16 DEF Interrupted, fixed, jobVars, childVars, Goto, Finish, Bind, Unbind, Looked
<1>17. CASE Reap(c)
  BY <1>0, <1>17 DEF Reap, fixed, jobVars, childVars, Goto, Finish, Bind, Unbind, Looked
<1>18. CASE Signal(c)
  BY <1>0, <1>18 DEF Signal, fixed, jobVars, childVars, Goto, Finish, Bind, Unbind, Looked
<1>19. CASE ChildBinds(c)
  BY <1>0, <1>19 DEF ChildBinds, fixed, jobVars, childVars, Goto, Finish, Bind, Unbind, Looked
<1>20. CASE ChildExits(c)
  BY <1>0, <1>20 DEF ChildExits, fixed, jobVars, childVars, Goto, Finish, Bind, Unbind, Looked
<1>21. CASE Refusal(c)
  BY <1>0, <1>21 DEF Refusal, fixed, jobVars, childVars, Goto, Finish, Bind, Unbind, Looked
<1>22. QED
  BY <1>1, <1>2, <1>3, <1>4, <1>5, <1>6, <1>7, <1>8, <1>9, <1>10, <1>11, <1>12, <1>13, <1>14, <1>15, <1>16, <1>17, <1>18, <1>19, <1>20, <1>21 DEF Step

\* A look keeps its port, and hold goes on only with one.
LEMMA OwnHeld ==
    ASSUME Types, PointInv, ChildInv, SocketInv, NEW c \in Commands, Step(c)
    PROVE  /\ job[c].lo <= next'[c]
           /\ pc'[c] = "probing" => Port(c) \in Ports /\ bound'[Port(c)] = c /\ c \notin refused'
           /\ pc'[c] = "hold" \/ (pc'[c] = "unguarded" /\ Tool(c) = "hold") =>
                 \E p \in Ports : bound'[p] = c
<1> USE PortToolsAssumption DEF Types, CanListen, Unbound, Tool, Port, Holds, Waiters, Handled
<1>0. /\ \A p \in Ports : bound[p] = c => Using(c, p)
      /\ job[c].lo <= next[c]
      /\ pc[c] = "probing" => Port(c) \in Ports /\ bound[Port(c)] = c /\ c \notin refused
      /\ pc[c] = "hold" \/ (pc[c] = "unguarded" /\ Tool(c) = "hold") =>
            \E p \in Ports : bound[p] = c
      /\ pc[c] \in {"bind", "hold"} => Tool(c) = "hold"
      /\ pc[c] \in {"look", "probing", "select", "browse"} => Tool(c) \in Waiters
      /\ pc[c] \in {"launch", "up", "reap"} => Tool(c) \in {"forward", "awake"}
      /\ pc[c] = "backoff" => Tool(c) = "forward"
      /\ child[c] # "none" => Tool(c) \in {"forward", "awake"}
      /\ child[c] # "none" /\ Tool(c) = "forward" => pc[c] \in {"up", "reap"}
  BY DEF PointInv, ChildInv, SocketInv, OwnerInv, HolderInv, Holds
<1>1. CASE Begin(c)
  BY <1>0, <1>1 DEF Begin, fixed, jobVars, childVars, Goto, Finish, Bind, Unbind, Looked
<1>2. CASE HoldPort(c)
  BY <1>0, <1>2 DEF HoldPort, fixed, jobVars, childVars, Goto, Finish, Bind, Unbind, Looked
<1>3. CASE HoldDone(c)
  BY <1>0, <1>3 DEF HoldDone, fixed, jobVars, childVars, Goto, Finish, Bind, Unbind, Looked
<1>4. CASE HoldReleased(c)
  BY <1>0, <1>4 DEF HoldReleased, fixed, jobVars, childVars, Goto, Finish, Bind, Unbind, Looked
<1>5. CASE ProbeFree(c)
  BY <1>0, <1>5 DEF ProbeFree, fixed, jobVars, childVars, Goto, Finish, Bind, Unbind, Looked
<1>6. CASE ProbeBusy(c)
  BY <1>0, <1>6 DEF ProbeBusy, fixed, jobVars, childVars, Goto, Finish, Bind, Unbind, Looked
<1>7. CASE ProbeClose(c)
  BY <1>0, <1>7 DEF ProbeClose, fixed, jobVars, childVars, Goto, Finish, Bind, Unbind, Looked
<1>8. CASE Tick(c)
  BY <1>0, <1>8 DEF Tick, fixed, jobVars, childVars, Goto, Finish, Bind, Unbind, Looked
<1>9. CASE DeadlinePasses(c)
  BY <1>0, <1>9 DEF DeadlinePasses, fixed, jobVars, childVars, Goto, Finish, Bind, Unbind, Looked
<1>10. CASE LastLook(c)
  BY <1>0, <1>10 DEF LastLook, fixed, jobVars, childVars, Goto, Finish, Bind, Unbind, Looked
<1>11. CASE Browse(c)
  BY <1>0, <1>11 DEF Browse, fixed, jobVars, childVars, Goto, Finish, Bind, Unbind, Looked
<1>12. CASE Launch(c)
  BY <1>0, <1>12 DEF Launch, fixed, jobVars, childVars, Goto, Finish, Bind, Unbind, Looked
<1>13. CASE Guard(c)
  BY <1>0, <1>13 DEF Guard, fixed, jobVars, childVars, Goto, Finish, Bind, Unbind, Looked
<1>14. CASE ForwardDropped(c)
  BY <1>0, <1>14 DEF ForwardDropped, fixed, jobVars, childVars, Goto, Finish, Bind, Unbind, Looked
<1>15. CASE Retry(c)
  BY <1>0, <1>15 DEF Retry, fixed, jobVars, childVars, Goto, Finish, Bind, Unbind, Looked
<1>16. CASE Interrupted(c)
  BY <1>0, <1>16 DEF Interrupted, fixed, jobVars, childVars, Goto, Finish, Bind, Unbind, Looked
<1>17. CASE Reap(c)
  BY <1>0, <1>17 DEF Reap, fixed, jobVars, childVars, Goto, Finish, Bind, Unbind, Looked
<1>18. CASE Signal(c)
  BY <1>0, <1>18 DEF Signal, fixed, jobVars, childVars, Goto, Finish, Bind, Unbind, Looked
<1>19. CASE ChildBinds(c)
  BY <1>0, <1>19 DEF ChildBinds, fixed, jobVars, childVars, Goto, Finish, Bind, Unbind, Looked
<1>20. CASE ChildExits(c)
  BY <1>0, <1>20 DEF ChildExits, fixed, jobVars, childVars, Goto, Finish, Bind, Unbind, Looked
<1>21. CASE Refusal(c)
  BY <1>0, <1>21 DEF Refusal, fixed, jobVars, childVars, Goto, Finish, Bind, Unbind, Looked
<1>22. QED
  BY <1>1, <1>2, <1>3, <1>4, <1>5, <1>6, <1>7, <1>8, <1>9, <1>10, <1>11, <1>12, <1>13, <1>14, <1>15, <1>16, <1>17, <1>18, <1>19, <1>20, <1>21 DEF Step

\* Every socket has an owner that is at work with it, and the other way round.
LEMMA SocketStep ==
    ASSUME Types, PointInv, ChildInv, SocketInv, Acts PROVE SocketInv'
<1>1. ASSUME NEW c \in Commands, Step(c) PROVE SocketInv'
  <2>1. OwnerInv'
    <3> SUFFICES ASSUME NEW p \in Ports, NEW d \in Commands, bound'[p] = d
                 PROVE  Using(d, p)'
      BY DEF OwnerInv
    <3>1. CASE d = c
      BY <1>1, <3>1, OwnUsed
    <3>2. CASE d # c
      <4>1. /\ bound[p] = d /\ job' = job
            /\ pc'[d] = pc[d] /\ child'[d] = child[d] /\ next'[d] = next[d]
        BY <1>1, <3>2, OthersStay, PortToolsAssumption
      <4>2. Using(d, p)
        BY <4>1 DEF SocketInv, OwnerInv
      <4>3. QED
        BY <4>1, <4>2 DEF Using, Tool, Port
    <3>3. QED
      BY <3>1, <3>2
  <2>2. HolderInv'
    <3> SUFFICES ASSUME NEW d \in Commands
                 PROVE  /\ job'[d].lo <= next'[d]
                        /\ pc'[d] = "probing" =>
                              job'[d].lo \in Ports /\ bound'[job'[d].lo] = d /\ d \notin refused'
                        /\ pc'[d] = "hold" \/ (pc'[d] = "unguarded" /\ job'[d].tool = "hold") =>
                              \E p \in Ports : bound'[p] = d
      BY DEF HolderInv, Tool, Port, Holds
    <3>1. CASE d = c
      BY <1>1, <3>1, OwnHeld, OthersStay DEF Tool, Port
    <3>2. CASE d # c
      <4>1. /\ job' = job /\ pc'[d] = pc[d] /\ next'[d] = next[d]
            /\ d \in refused' <=> d \in refused
            /\ \A p \in Ports : bound[p] = d => bound'[p] = d
        BY <1>1, <3>2, OthersStay, PortToolsAssumption
      <4>2. QED
        BY <4>1 DEF SocketInv, HolderInv, Tool, Port, Holds
    <3>3. QED
      BY <3>1, <3>2
  <2>3. QED
    BY <2>1, <2>2 DEF SocketInv
<1>2. ASSUME NEW q \in Ports, ServerListens(q) \/ ServerCloses(q) PROVE SocketInv'
  <2>1. /\ UNCHANGED <<pc, fixed, next, child>>
        /\ \A p \in Ports : \/ bound'[p] = bound[p]
                            \/ bound[p] \notin Commands /\ bound'[p] \notin Commands
    BY <1>2, PortToolsAssumption
       DEF ServerListens, ServerCloses, CanListen, Unbound, Bind, fixed, jobVars, childVars, Types
  <2>2. OwnerInv'
    BY <2>1 DEF SocketInv, OwnerInv, Using, Tool, Port, fixed
  <2>3. HolderInv'
    BY <2>1 DEF SocketInv, HolderInv, Tool, Port, Holds, fixed
  <2>4. QED
    BY <2>2, <2>3 DEF SocketInv
<1>3. QED
  BY <1>1, <1>2 DEF Acts

\* The observations are Boolean, whatever the step.
LEMMA FlagsStep == ASSUME Flags, Acts, Observe PROVE Flags'
<1>1. met' \in [Commands -> BOOLEAN] /\ steady' \in [Commands -> BOOLEAN]
  BY DEF Observe, Flags, Waiting, Met
<1>2. due' \in [Commands -> BOOLEAN] /\ sig' \in [Commands -> BOOLEAN]
  <2> USE DEF Flags, fixed, jobVars, childVars
  <2>1. ASSUME NEW c \in Commands, Begin(c) PROVE due' \in [Commands -> BOOLEAN] /\ sig' \in [Commands -> BOOLEAN]
    BY <2>1 DEF Begin
  <2>2. ASSUME NEW c \in Commands, HoldPort(c) PROVE due' \in [Commands -> BOOLEAN] /\ sig' \in [Commands -> BOOLEAN]
    BY <2>2 DEF HoldPort
  <2>3. ASSUME NEW c \in Commands, HoldDone(c) PROVE due' \in [Commands -> BOOLEAN] /\ sig' \in [Commands -> BOOLEAN]
    BY <2>3 DEF HoldDone
  <2>4. ASSUME NEW c \in Commands, HoldReleased(c) PROVE due' \in [Commands -> BOOLEAN] /\ sig' \in [Commands -> BOOLEAN]
    BY <2>4 DEF HoldReleased
  <2>5. ASSUME NEW c \in Commands, ProbeFree(c) PROVE due' \in [Commands -> BOOLEAN] /\ sig' \in [Commands -> BOOLEAN]
    BY <2>5 DEF ProbeFree
  <2>6. ASSUME NEW c \in Commands, ProbeBusy(c) PROVE due' \in [Commands -> BOOLEAN] /\ sig' \in [Commands -> BOOLEAN]
    BY <2>6 DEF ProbeBusy
  <2>7. ASSUME NEW c \in Commands, ProbeClose(c) PROVE due' \in [Commands -> BOOLEAN] /\ sig' \in [Commands -> BOOLEAN]
    BY <2>7 DEF ProbeClose
  <2>8. ASSUME NEW c \in Commands, Tick(c) PROVE due' \in [Commands -> BOOLEAN] /\ sig' \in [Commands -> BOOLEAN]
    BY <2>8 DEF Tick
  <2>9. ASSUME NEW c \in Commands, DeadlinePasses(c) PROVE due' \in [Commands -> BOOLEAN] /\ sig' \in [Commands -> BOOLEAN]
    BY <2>9 DEF DeadlinePasses
  <2>10. ASSUME NEW c \in Commands, LastLook(c) PROVE due' \in [Commands -> BOOLEAN] /\ sig' \in [Commands -> BOOLEAN]
    BY <2>10 DEF LastLook
  <2>11. ASSUME NEW c \in Commands, Browse(c) PROVE due' \in [Commands -> BOOLEAN] /\ sig' \in [Commands -> BOOLEAN]
    BY <2>11 DEF Browse
  <2>12. ASSUME NEW c \in Commands, Launch(c) PROVE due' \in [Commands -> BOOLEAN] /\ sig' \in [Commands -> BOOLEAN]
    BY <2>12 DEF Launch
  <2>13. ASSUME NEW c \in Commands, Guard(c) PROVE due' \in [Commands -> BOOLEAN] /\ sig' \in [Commands -> BOOLEAN]
    BY <2>13 DEF Guard
  <2>14. ASSUME NEW c \in Commands, ForwardDropped(c) PROVE due' \in [Commands -> BOOLEAN] /\ sig' \in [Commands -> BOOLEAN]
    BY <2>14 DEF ForwardDropped
  <2>15. ASSUME NEW c \in Commands, Retry(c) PROVE due' \in [Commands -> BOOLEAN] /\ sig' \in [Commands -> BOOLEAN]
    BY <2>15 DEF Retry
  <2>16. ASSUME NEW c \in Commands, Interrupted(c) PROVE due' \in [Commands -> BOOLEAN] /\ sig' \in [Commands -> BOOLEAN]
    BY <2>16 DEF Interrupted
  <2>17. ASSUME NEW c \in Commands, Reap(c) PROVE due' \in [Commands -> BOOLEAN] /\ sig' \in [Commands -> BOOLEAN]
    BY <2>17 DEF Reap
  <2>18. ASSUME NEW c \in Commands, Signal(c) PROVE due' \in [Commands -> BOOLEAN] /\ sig' \in [Commands -> BOOLEAN]
    BY <2>18 DEF Signal
  <2>19. ASSUME NEW c \in Commands, ChildBinds(c) PROVE due' \in [Commands -> BOOLEAN] /\ sig' \in [Commands -> BOOLEAN]
    BY <2>19 DEF ChildBinds
  <2>20. ASSUME NEW c \in Commands, ChildExits(c) PROVE due' \in [Commands -> BOOLEAN] /\ sig' \in [Commands -> BOOLEAN]
    BY <2>20 DEF ChildExits
  <2>21. ASSUME NEW c \in Commands, Refusal(c) PROVE due' \in [Commands -> BOOLEAN] /\ sig' \in [Commands -> BOOLEAN]
    BY <2>21 DEF Refusal
  <2>22. ASSUME NEW p \in Ports, ServerListens(p) PROVE due' \in [Commands -> BOOLEAN] /\ sig' \in [Commands -> BOOLEAN]
    BY <2>22 DEF ServerListens
  <2>23. ASSUME NEW p \in Ports, ServerCloses(p) PROVE due' \in [Commands -> BOOLEAN] /\ sig' \in [Commands -> BOOLEAN]
    BY <2>23 DEF ServerCloses
  <2>24. QED
    BY <2>1, <2>2, <2>3, <2>4, <2>5, <2>6, <2>7, <2>8, <2>9, <2>10, <2>11, <2>12, <2>13, <2>14, <2>15, <2>16, <2>17, <2>18, <2>19, <2>20, <2>21, <2>22, <2>23 DEF Acts, Step
<1>3. QED
  BY <1>1, <1>2 DEF Flags

\* What is waited for and is the case has been noted, and it counts as steady
\* only while it is the case.
Noted ==
    \A c \in Commands :
        /\ Waiting(c) /\ Met(c) => met[c]
        /\ steady[c] => Waiting(c) /\ Met(c)

LEMMA NotedStep == ASSUME Flags, Observe PROVE Noted'
  BY DEF Flags, Observe, Noted

\* A waiter is done after a look at what it waits for, and gives up after one
\* at the opposite.
LEMMA LooksAreTrue ==
    ASSUME Types, PointInv, ChildInv, SocketInv, NEW c \in Commands, Step(c)
    PROVE  /\ Tool(c) \in Waiters /\ (pc'[c] = "browse" \/ result'[c] = "ok") =>
                 (Waiting(c) /\ Met(c)) \/ pc[c] = "browse" \/ result[c] = "ok"
           /\ result'[c] = "timeout" => ~(Waiting(c) /\ Met(c))
<1> USE PortToolsAssumption DEF Types, CanListen, Unbound, Using, Tool, Port, Waiting, Met, Waiters
<1>0. /\ \A p \in Ports : bound[p] = c => Using(c, p)
      /\ job[c].lo <= next[c]
      /\ pc[c] = "probing" => Port(c) \in Ports /\ bound[Port(c)] = c /\ c \notin refused
      /\ pc[c] = "hold" \/ (pc[c] = "unguarded" /\ Tool(c) = "hold") =>
            \E p \in Ports : bound[p] = c
      /\ pc[c] \in {"bind", "hold"} => Tool(c) = "hold"
      /\ pc[c] \in {"look", "probing", "select", "browse"} => Tool(c) \in Waiters
      /\ pc[c] \in {"launch", "up", "reap"} => Tool(c) \in {"forward", "awake"}
      /\ pc[c] = "backoff" => Tool(c) = "forward"
      /\ child[c] # "none" => Tool(c) \in {"forward", "awake"}
      /\ child[c] # "none" /\ Tool(c) = "forward" => pc[c] \in {"up", "reap"}
      /\ pc[c] = "look" => Port(c) \in Ports
      /\ pc[c] = "over" <=> result[c] # "none"
  BY DEF PointInv, ChildInv, SocketInv, OwnerInv, HolderInv, Holds
<1>1. CASE Begin(c)
  BY <1>0, <1>1 DEF Begin, fixed, jobVars, childVars, Goto, Finish, Bind, Unbind, Looked
<1>2. CASE HoldPort(c)
  BY <1>0, <1>2 DEF HoldPort, fixed, jobVars, childVars, Goto, Finish, Bind, Unbind, Looked
<1>3. CASE HoldDone(c)
  BY <1>0, <1>3 DEF HoldDone, fixed, jobVars, childVars, Goto, Finish, Bind, Unbind, Looked
<1>4. CASE HoldReleased(c)
  BY <1>0, <1>4 DEF HoldReleased, fixed, jobVars, childVars, Goto, Finish, Bind, Unbind, Looked
<1>5. CASE ProbeFree(c)
  BY <1>0, <1>5 DEF ProbeFree, fixed, jobVars, childVars, Goto, Finish, Bind, Unbind, Looked
<1>6. CASE ProbeBusy(c)
  BY <1>0, <1>6 DEF ProbeBusy, fixed, jobVars, childVars, Goto, Finish, Bind, Unbind, Looked
<1>7. CASE ProbeClose(c)
  <2>1. /\ pc[c] = "probing" /\ bound[Port(c)] = c /\ c \notin refused
        /\ Port(c) \in Ports /\ Looked(c, TRUE)
    BY <1>0, <1>7 DEF ProbeClose
  <2>2. QED
    BY <1>0, <2>1 DEF Looked, Goto, Finish
<1>8. CASE Tick(c)
  BY <1>0, <1>8 DEF Tick, fixed, jobVars, childVars, Goto, Finish, Bind, Unbind, Looked
<1>9. CASE DeadlinePasses(c)
  BY <1>0, <1>9 DEF DeadlinePasses, fixed, jobVars, childVars, Goto, Finish, Bind, Unbind, Looked
<1>10. CASE LastLook(c)
  BY <1>0, <1>10 DEF LastLook, fixed, jobVars, childVars, Goto, Finish, Bind, Unbind, Looked
<1>11. CASE Browse(c)
  BY <1>0, <1>11 DEF Browse, fixed, jobVars, childVars, Goto, Finish, Bind, Unbind, Looked
<1>12. CASE Launch(c)
  BY <1>0, <1>12 DEF Launch, fixed, jobVars, childVars, Goto, Finish, Bind, Unbind, Looked
<1>13. CASE Guard(c)
  BY <1>0, <1>13 DEF Guard, fixed, jobVars, childVars, Goto, Finish, Bind, Unbind, Looked
<1>14. CASE ForwardDropped(c)
  BY <1>0, <1>14 DEF ForwardDropped, fixed, jobVars, childVars, Goto, Finish, Bind, Unbind, Looked
<1>15. CASE Retry(c)
  BY <1>0, <1>15 DEF Retry, fixed, jobVars, childVars, Goto, Finish, Bind, Unbind, Looked
<1>16. CASE Interrupted(c)
  BY <1>0, <1>16 DEF Interrupted, fixed, jobVars, childVars, Goto, Finish, Bind, Unbind, Looked
<1>17. CASE Reap(c)
  BY <1>0, <1>17 DEF Reap, fixed, jobVars, childVars, Goto, Finish, Bind, Unbind, Looked
<1>18. CASE Signal(c)
  BY <1>0, <1>18 DEF Signal, fixed, jobVars, childVars, Goto, Finish, Bind, Unbind, Looked
<1>19. CASE ChildBinds(c)
  BY <1>0, <1>19 DEF ChildBinds, fixed, jobVars, childVars, Goto, Finish, Bind, Unbind, Looked
<1>20. CASE ChildExits(c)
  BY <1>0, <1>20 DEF ChildExits, fixed, jobVars, childVars, Goto, Finish, Bind, Unbind, Looked
<1>21. CASE Refusal(c)
  BY <1>0, <1>21 DEF Refusal, fixed, jobVars, childVars, Goto, Finish, Bind, Unbind, Looked
<1>22. QED
  BY <1>1, <1>2, <1>3, <1>4, <1>5, <1>6, <1>7, <1>8, <1>9, <1>10, <1>11, <1>12, <1>13, <1>14, <1>15, <1>16, <1>17, <1>18, <1>19, <1>20, <1>21 DEF Step

\* What is so at first.
LEMMA ToolsInit == Init => ToolsInv /\ Noted /\ AnswersAreWitnessed
<1> SUFFICES ASSUME Init PROVE ToolsInv /\ Noted /\ AnswersAreWitnessed
  OBVIOUS
<1> USE PortToolsAssumption DEF Init
<1>1. Flags
  BY DEF Flags
<1>2. \A c \in Commands : job[c] \in Jobs[c]
  OBVIOUS
<1>3. \A c \in Commands : job[c].lo \in Nat
  BY <1>2
<1>4. Types
  BY <1>2, <1>3 DEF Types, Points, Looks, Results, Rungs
<1>5. TypeOK
  BY <1>1, <1>4 DEF TypeOK, Types, Flags
<1>6. SocketInv
  <2>0. \A p \in Ports : bound[p] \in {Nobody, Server}
    OBVIOUS
  <2>1. OwnerInv
    BY <2>0 DEF OwnerInv
  <2>2. HolderInv
    BY <1>3 DEF HolderInv
  <2>3. QED
    BY <2>1, <2>2 DEF SocketInv
<1>7. PointInv
  BY DEF PointInv
<1>8. ChildInv
  BY DEF ChildInv
<1>9. LadderInv
  BY DEF LadderInv, Least
<1>10. Noted /\ AnswersAreWitnessed
  BY DEF Noted, AnswersAreWitnessed, Waiting
<1>11. QED
  BY <1>5, <1>6, <1>7, <1>8, <1>9, <1>10 DEF ToolsInv

\* Every step keeps the invariant.
LEMMA ToolsStep == ToolsInv /\ [Next]_vars => ToolsInv'
<1> SUFFICES ASSUME ToolsInv, [Next]_vars PROVE ToolsInv'
  OBVIOUS
<1>1. Types /\ Flags /\ SocketInv /\ PointInv /\ ChildInv /\ LadderInv
  BY DEF ToolsInv, TypeOK, Types, Flags
<1>2. CASE Next
  <2>1. Acts /\ Observe
    BY <1>2 DEF Next, Acts
  <2>2. Types' /\ Flags'
    BY <1>1, <2>1, TypesStep, FlagsStep
  <2>3. SocketInv' /\ PointInv' /\ ChildInv' /\ LadderInv'
    BY <1>1, <2>1, SocketStep, PointStep, ChildStep, LadderStep
  <2>4. QED
    BY <2>2, <2>3 DEF ToolsInv, TypeOK, Types, Flags
<1>3. CASE UNCHANGED vars
  <2>1. UNCHANGED <<bound, refused, job, pc, next, look, due, child, sig, backoff, result,
                    wanted, met, steady>>
    BY <1>3 DEF vars, fixed, jobVars, childVars
  <2>2. Types' /\ Flags'
    BY <1>1, <2>1 DEF Types, Flags
  <2>3. SocketInv'
    BY <1>1, <2>1 DEF SocketInv, OwnerInv, HolderInv, Using, Holds, Tool, Port
  <2>4. PointInv' /\ ChildInv' /\ LadderInv'
    BY <1>1, <2>1 DEF PointInv, ChildInv, LadderInv, Tool, Port
  <2>5. QED
    BY <2>2, <2>3, <2>4 DEF ToolsInv, TypeOK, Types, Flags
<1>4. QED
  BY <1>2, <1>3

\* The invariant holds for any number of invocations, ports and jobs.
THEOREM ToolsCorrect == Spec => []ToolsInv
<1>1. Init => ToolsInv
  BY ToolsInit
<1>2. QED
  BY <1>1, ToolsStep, PTL DEF Spec

\* No invocation leaves a socket or a child behind, save caffeinate in the one
\* window that keepawake.go leaves open.
THEOREM NothingStays == Spec => []NothingIsLeft
<1>1. ToolsInv => NothingIsLeft
  <2> SUFFICES ASSUME ToolsInv, NEW c \in Commands, pc[c] = "over"
               PROVE  /\ \A p \in Ports : bound[p] # c
                      /\ child[c] = "none" \/ (Tool(c) = "awake" /\ result[c] = "killed")
    BY DEF NothingIsLeft
  <2>1. child[c] = "none" \/ (Tool(c) = "awake" /\ result[c] = "killed")
    BY DEF ToolsInv, ChildInv
  <2>2. \A p \in Ports : bound[p] # c
    BY <2>1 DEF ToolsInv, SocketInv, OwnerInv, Using
  <2>3. QED
    BY <2>1, <2>2
<1>2. QED
  BY <1>1, ToolsCorrect, PTL

\* A step keeps what is known of the answers, and notes what is the case.
LEMMA WitnessStep ==
    ToolsInv /\ Noted /\ AnswersAreWitnessed /\ [Next]_vars =>
        Noted' /\ AnswersAreWitnessed'
<1> SUFFICES ASSUME ToolsInv, Noted, AnswersAreWitnessed, [Next]_vars
             PROVE  Noted' /\ AnswersAreWitnessed'
  OBVIOUS
<1>1. Types /\ Flags /\ SocketInv /\ PointInv /\ ChildInv
  BY DEF ToolsInv, TypeOK, Types, Flags
<1>2. CASE Next
  <2>1. Acts /\ Observe
    BY <1>2 DEF Next, Acts
  <2>2. Noted'
    BY <1>1, <2>1, NotedStep
  <2>3. \A c \in Commands : met[c] => met'[c]
    BY <1>1, <2>1 DEF Flags, Observe
  <2>4. ASSUME NEW c \in Commands, Step(c) PROVE AnswersAreWitnessed'
    <3>1. job' = job
      BY <1>1, <2>4, OthersStay
    <3>2. ASSUME NEW d \in Commands, Tool(d) \in Waiters, pc'[d] = "browse" \/ result'[d] = "ok"
          PROVE  met[d]
      <4>1. CASE d = c
        BY <1>1, <2>4, <3>2, <4>1, LooksAreTrue DEF Noted, AnswersAreWitnessed
      <4>2. CASE d # c
        BY <1>1, <2>4, <3>2, <4>2, OthersStay DEF AnswersAreWitnessed
      <4>3. QED
        BY <4>1, <4>2
    <3>3. QED
      BY <2>3, <3>1, <3>2 DEF AnswersAreWitnessed, Tool
  <2>5. ASSUME NEW p \in Ports, ServerListens(p) \/ ServerCloses(p)
        PROVE  AnswersAreWitnessed'
    <3>1. UNCHANGED <<pc, job, result>>
      BY <2>5 DEF ServerListens, ServerCloses, fixed, jobVars
    <3>2. QED
      BY <2>3, <3>1 DEF AnswersAreWitnessed, Tool
  <2>6. QED
    BY <2>1, <2>2, <2>4, <2>5 DEF Acts
<1>3. CASE UNCHANGED vars
  <2>1. UNCHANGED <<bound, refused, job, pc, result, met, steady>>
    BY <1>3 DEF vars, fixed, jobVars
  <2>2. QED
    BY <2>1 DEF Noted, AnswersAreWitnessed, Waiting, Met, Tool, Port
<1>4. QED
  BY <1>2, <1>3

\* What is known of the answers holds throughout.
LEMMA WitnessCorrect == Spec => [](ToolsInv /\ Noted /\ AnswersAreWitnessed)
<1>1. Init => ToolsInv /\ Noted /\ AnswersAreWitnessed
  BY ToolsInit
<1>2. QED
  BY <1>1, ToolsStep, WitnessStep, PTL DEF Spec

\* No answer without its having been the case.
THEOREM AnswersWereTrue == Spec => []AnswersAreWitnessed
  BY WitnessCorrect, PTL

\* A timeout is only reported when what is waited for is not the case, or came
\* to be so after the time was up.
THEOREM TimeoutsWereReal == Spec => TimeoutsAreReal
<1>1. ToolsInv /\ Noted /\ [Next]_vars =>
        [\A c \in Commands : steady[c] => result'[c] # "timeout"]_vars
  <2> SUFFICES ASSUME ToolsInv, Noted, Next, NEW d \in Commands, steady[d]
               PROVE  result'[d] # "timeout"
    OBVIOUS
  <2>1. Types /\ SocketInv /\ PointInv /\ ChildInv
    BY DEF ToolsInv, TypeOK, Types
  <2>2. Waiting(d) /\ Met(d)
    BY DEF Noted
  <2>3. result[d] # "timeout"
    BY <2>1, <2>2 DEF PointInv, Waiting
  <2>4. ASSUME NEW c \in Commands, Step(c) PROVE result'[d] # "timeout"
    BY <2>1, <2>2, <2>3, <2>4, LooksAreTrue, OthersStay
  <2>5. ASSUME NEW p \in Ports, ServerListens(p) \/ ServerCloses(p)
        PROVE  result'[d] # "timeout"
    BY <2>3, <2>5 DEF ServerListens, ServerCloses
  <2>6. QED
    BY <2>4, <2>5 DEF Next
<1>2. QED
  BY <1>1, WitnessCorrect, PTL DEF Spec, TimeoutsAreReal

=============================================================================
