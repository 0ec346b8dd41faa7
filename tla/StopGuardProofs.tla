---------------------------- MODULE StopGuardProofs ----------------------------
(***************************************************************************)
(* GuardInv is inductive for any PIDs, programs and labels, and however    *)
(* many processes are born: with it the three properties of the guard hold *)
(* of every interleaving of a stop with the operating system.              *)
(***************************************************************************)
EXTENDS StopGuard, SequenceTheorems, FiniteSetTheorems, TLAPS

-----------------------------------------------------------------------------
(* The operating system *)

Proc == [pid : PIDs, start : 1 .. MaxClock + 1, argv : Programs]

\* What a process is stays what it is, and those that were there before a step
\* are found afterwards only where they were.
LEMMA SystemStep ==
    ASSUME SystemOK, OS
    PROVE  /\ SystemOK' /\ Len(procs) \in Nat /\ Len(procs') >= Len(procs)
           /\ \A i \in 1 .. Len(procs) : procs'[i] = procs[i]
           /\ \A i \in 1 .. Len(procs) : i \in live' => i \in live
           /\ \A l \in Labels, i \in 1 .. Len(procs) : i \in job'[l] => i \in job[l]
           /\ UNCHANGED <<scanVars, attemptVars, obsVars>>
<1> USE StopGuardAssumption
<1>1. procs \in Seq(Proc) /\ Len(procs) \in Nat
  BY LenProperties DEF SystemOK, Proc
<1>2. ASSUME NEW pid \in PIDs, NEW argv \in Programs, NEW l \in Labels \cup {NoLabel},
             Spawn(pid, argv, l)
      PROVE  /\ SystemOK' /\ Len(procs') >= Len(procs)
             /\ \A i \in 1 .. Len(procs) : procs'[i] = procs[i]
             /\ \A i \in 1 .. Len(procs) : i \in live' => i \in live
             /\ \A k \in Labels, i \in 1 .. Len(procs) : i \in job'[k] => i \in job[k]
  <2> DEFINE born == [pid |-> pid, start |-> clock, argv |-> argv]
             new == Len(procs) + 1
  <2>1. born \in Proc /\ procs' = Append(procs, born)
    BY <1>2 DEF SystemOK, Spawn, Proc
  <2> HIDE DEF born
  <2>2. /\ procs' \in Seq(Proc) /\ Len(procs') = Len(procs) + 1
        /\ \A i \in 1 .. Len(procs) : procs'[i] = procs[i]
    BY <1>1, <2>1, AppendProperties
  <2>3. /\ live' = live \cup {new} /\ live' \subseteq 1 .. Len(procs')
        /\ new \notin 1 .. Len(procs) /\ live \subseteq 1 .. Len(procs)
    <3>1. live' = live \cup {new} /\ live \subseteq 1 .. Len(procs)
      BY <1>2 DEF SystemOK, Spawn
    <3>2. new \notin 1 .. Len(procs) /\ new \in 1 .. Len(procs')
            /\ 1 .. Len(procs) \subseteq 1 .. Len(procs')
      BY <1>1, <2>2
    <3>3. QED
      BY <3>1, <3>2
  <2>4. job' = job \/ (l \in Labels /\ job' = [job EXCEPT ![l] = @ \cup {new}])
    BY <1>2 DEF Spawn
  <2>5. job' \in [Labels -> SUBSET live'] /\ \A k \in Labels : job'[k] \subseteq job[k] \cup {new}
    BY <2>3, <2>4 DEF SystemOK
  <2>6. clock' = clock /\ Len(procs') <= MaxProcs
    BY <1>1, <1>2, <2>2 DEF Spawn
  <2>7. SystemOK'
    BY <2>2, <2>3, <2>5, <2>6 DEF SystemOK, Proc
  <2>8. QED
    BY <1>1, <2>2, <2>3, <2>5, <2>7
<1>3. ASSUME NEW i \in live, Exit(i)
      PROVE  /\ SystemOK' /\ procs' = procs /\ live' \subseteq live
             /\ \A k \in Labels : job'[k] \subseteq job[k]
  <2>1. /\ procs' = procs /\ clock' = clock /\ live' = live \ {i}
        /\ job' = [l \in Labels |-> job[l] \ {i}]
    BY <1>3 DEF Exit
  <2>2. job' \in [Labels -> SUBSET live']
    BY <2>1 DEF SystemOK
  <2>3. QED
    BY <2>1, <2>2 DEF SystemOK
<1>4. ASSUME Tick
      PROVE  SystemOK' /\ procs' = procs /\ live' = live /\ job' = job
  BY <1>4 DEF Tick, SystemOK
<1>5. UNCHANGED <<scanVars, attemptVars, obsVars>>
  BY DEF OS, Spawn, Exit, Tick
<1>6. QED
  BY <1>1, <1>2, <1>3, <1>4, <1>5 DEF OS

\* ... and a PID goes to a new process only when nobody has it.
LEMMA OnePerPIDStep ==
    ASSUME SystemOK, OnePerPID, OS PROVE OnePerPID'
<1>1. ASSUME NEW pid \in PIDs, NEW argv \in Programs, NEW l \in Labels \cup {NoLabel},
             Spawn(pid, argv, l)
      PROVE  OnePerPID'
  <2> DEFINE born == [pid |-> pid, start |-> clock, argv |-> argv]
  <2>1. procs \in Seq(Proc) /\ Len(procs) \in Nat /\ live \subseteq 1 .. Len(procs)
    BY LenProperties DEF SystemOK, Proc
  <2>2. born \in Proc /\ procs' = Append(procs, born) /\ born.pid = pid
    BY <1>1 DEF SystemOK, Spawn, Proc
  <2> HIDE DEF born
  <2>3. procs'[Len(procs) + 1] = born /\ \A i \in live : procs'[i] = procs[i]
    BY <2>1, <2>2, AppendProperties
  <2>4. live' = live \cup {Len(procs) + 1} /\ \A i \in live : procs[i].pid # pid
    BY <1>1 DEF Spawn, Holder
  <2>5. SUFFICES ASSUME NEW i \in live', NEW j \in live', procs'[i].pid = procs'[j].pid
                 PROVE  i = j
    BY DEF OnePerPID
  <2>6. CASE i \in live /\ j \in live
    BY <2>3, <2>5, <2>6 DEF OnePerPID
  <2>7. CASE i = Len(procs) + 1 \/ j = Len(procs) + 1
    BY <2>2, <2>3, <2>4, <2>5, <2>7
  <2>8. QED
    BY <2>4, <2>6, <2>7
<1>2. CASE procs' = procs /\ live' \subseteq live
  BY <1>2 DEF OnePerPID
<1>3. QED
  BY <1>1, <1>2 DEF OS, Exit, Tick

\* What the operating system does leaves the guard's conclusions true.
LEMMA OSStep ==
    ASSUME GuardInv, OS PROVE GuardInv'
<1>1. /\ SystemOK' /\ Len(procs) \in Nat /\ Len(procs') >= Len(procs)
      /\ \A i \in 1 .. Len(procs) : procs'[i] = procs[i]
      /\ \A l \in Labels, i \in 1 .. Len(procs) : i \in job'[l] => i \in job[l]
      /\ UNCHANGED <<scanVars, attemptVars, obsVars>>
  BY SystemStep DEF GuardInv, TypeOK
<1>2. UNCHANGED <<row, psStart, psCommand, pc, seam, restart, ctxDone, result, present, verified,
                  owners, acted, victims, legacyToo>>
  BY <1>1 DEF scanVars, attemptVars, obsVars
<1>3. 1 .. Len(procs) \subseteq 1 .. Len(procs') /\ 0 .. Len(procs) \subseteq 0 .. Len(procs')
  <2>1. Len(procs') \in Nat
    BY <1>1, LenProperties DEF SystemOK
  <2>2. QED
    BY <1>1, <2>1
<1>4. TypeOK'
  <2>1. PsReads \subseteq PsReads'
    BY <1>3 DEF PsReads
  <2>2. RowOK'
    BY <1>2, <2>1 DEF GuardInv, TypeOK, RowOK
  <2>3. /\ present' \subseteq 1 .. Len(procs') /\ victims' \subseteq 1 .. Len(procs')
        /\ owners' \subseteq 1 .. Len(procs') /\ verified' \in 0 .. Len(procs')
    BY <1>2, <1>3 DEF GuardInv, TypeOK
  <2>4. acted' \in BOOLEAN /\ legacyToo' \in BOOLEAN /\ restart' \in BOOLEAN /\ ctxDone' \in BOOLEAN
    BY <1>2 DEF GuardInv, TypeOK
  <2>5. QED
    BY <1>1, <1>2, <2>2, <2>3, <2>4 DEF GuardInv, TypeOK
<1>5. OnePerPID'
  BY OnePerPIDStep DEF GuardInv, TypeOK
<1>6. RouteInv'
  BY <1>2 DEF GuardInv, RouteInv
<1>7. \A i \in 1 .. Len(procs) : procs'[i] = procs[i] /\ StillSame(i)' = StillSame(i)
  BY <1>1, <1>2 DEF StillSame
<1>8. /\ present \subseteq 1 .. Len(procs) /\ owners \subseteq 1 .. Len(procs)
      /\ verified \in 0 .. Len(procs)
  BY DEF GuardInv, TypeOK
<1>9. verified # 0 => verified \in 1 .. Len(procs)
  BY <1>1, <1>8
<1>10. IdentityInv'
  BY <1>2, <1>7, <1>8, <1>9 DEF GuardInv, IdentityInv, Passed, RefusedOutright
<1>11. pc = "manager" => row.label \in Labels
  BY DEF GuardInv, RouteInv, TypeOK, RowOK
<1>12. ManagerInv'
  <2>1. pc = "manager" => job'[row.label] \cap present \subseteq job[row.label]
    BY <1>1, <1>8, <1>11
  <2>2. QED
    BY <1>2, <1>7, <1>8, <2>1 DEF GuardInv, ManagerInv
<1>13. ProgressInv' /\ VerdictIsHonest' /\ ContextSeamIsStrict'
  BY <1>2 DEF GuardInv, ProgressInv, VerdictIsHonest, ContextSeamIsStrict
<1>14. OnlyVerifiedVictims'
  BY <1>2, <1>7, <1>8 DEF GuardInv, OnlyVerifiedVictims
<1>15. QED
  BY <1>4, <1>5, <1>6, <1>10, <1>12, <1>13, <1>14 DEF GuardInv

-----------------------------------------------------------------------------
(* The scan and the attempt *)

\* A guess at how many there are: two of them make more than one.
LEMMA TwoOfThem ==
    ASSUME NEW n \in Nat, NEW S \in SUBSET (1 .. n), NEW i \in S, NEW j \in S, i # j
    PROVE  Cardinality(S) > 1
<1>1. IsFiniteSet(1 .. n)
  BY FS_Interval
<1>2. IsFiniteSet(S)
  BY <1>1, FS_Subset
<1>3. Cardinality({i, j}) <= Cardinality(S) /\ Cardinality(S) \in Nat
  BY <1>2, FS_Subset, FS_CardinalityType
<1>4. Cardinality({i}) = 1 /\ IsFiniteSet({i})
  BY FS_Singleton
<1>5. Cardinality({i} \cup {j}) = 2
  BY <1>4, FS_AddElement
<1>6. {i} \cup {j} = {i, j}
  OBVIOUS
<1>7. QED
  BY <1>3, <1>5, <1>6

\* While a row is put together nothing is at stake.
LEMMA ScanStep ==
    ASSUME GuardInv, Scan PROVE GuardInv'
<1>1. /\ UNCHANGED <<osVars, seam, restart, ctxDone, result, obsVars>>
      /\ pc \in {"scan", "ps", "profile"}
      /\ pc' \in {"scan", "ps", "profile", "ready"}
  BY DEF Scan, ScanLsof, ReadUser, ReadCommand, BuildRow, Profile, attemptVars
<1>2. /\ UNCHANGED <<clock, procs, live, job, seam, restart, ctxDone, result, present, verified,
                     owners, acted, victims, legacyToo>>
      /\ ~acted /\ victims = {}
  BY <1>1 DEF osVars, obsVars, GuardInv, ProgressInv
<1>3. SystemOK' /\ OnePerPID'
  BY <1>2 DEF GuardInv, TypeOK, SystemOK, OnePerPID
<1>4. PsReads' = PsReads /\ Holder(row.pid) \subseteq 1 .. Len(procs)
  BY <1>2 DEF PsReads, Holder, GuardInv, TypeOK, SystemOK
<1>5. RowOK'
  <2>1. RowOK /\ SystemOK
    BY DEF GuardInv, TypeOK
  <2>2. \A i \in 1 .. Len(procs) :
          /\ procs[i].pid \in PIDs /\ procs[i].start \in 0 .. MaxClock + 1
          /\ procs[i].argv \in Programs /\ ShortName[procs[i].argv] \in Commands
    <3>1. \A i \in 1 .. Len(procs) : procs[i] \in Proc
      BY <2>1, ElementOfSeq DEF SystemOK, Proc
    <3>2. 1 .. MaxClock + 1 \subseteq 0 .. MaxClock + 1
      BY StopGuardAssumption
    <3>3. \A argv \in Programs : ShortName[argv] \in Commands
      BY DEF Commands
    <3>4. QED
      BY <3>1, <3>2, <3>3 DEF Proc
  <2>3. CASE \E i \in live : ScanLsof(i)
    <3>1. PICK i \in live : ScanLsof(i)
      BY <2>3
    <3>2. i \in 1 .. Len(procs)
      BY <2>1 DEF SystemOK
    <3>3. row' = [NoRow EXCEPT !.pid = procs[i].pid, !.command = ShortName[procs[i].argv]]
            /\ UNCHANGED <<psStart, psCommand>>
      BY <3>1 DEF ScanLsof
    <3>4. row' = [pid |-> procs[i].pid, start |-> 0, command |-> ShortName[procs[i].argv],
                  kind |-> "avoid", label |-> NoLabel]
      BY <3>3 DEF NoRow
    <3>5. 0 \in 0 .. MaxClock + 1
      BY StopGuardAssumption
    <3>6. row' \in [pid : PIDs \cup {0}, start : 0 .. MaxClock + 1, command : Commands,
                    kind : Kinds, label : Labels \cup {NoLabel}]
      BY <2>2, <3>2, <3>4, <3>5 DEF Kinds
    <3>7. QED
      BY <1>4, <2>1, <3>3, <3>6 DEF RowOK
  <2>4. CASE ReadUser \/ ReadCommand
    <3>1. PsResults \subseteq PsReads
      BY <1>4 DEF PsResults, PsReads
    <3>2. row' = row /\ psStart' \in PsReads /\ psCommand' \in PsReads
      BY <2>1, <2>4, <3>1 DEF ReadUser, ReadCommand, RowOK
    <3>3. QED
      BY <1>4, <2>1, <3>2 DEF RowOK
  <2>5. CASE BuildRow
    <3>1. psStart.seen => psStart.proc \in 1 .. Len(procs)
      BY <2>1 DEF RowOK, PsReads, Unread, Missed, Line
    <3>2. psCommand.seen => psCommand.proc \in 1 .. Len(procs)
      BY <2>1 DEF RowOK, PsReads, Unread, Missed, Line
    <3>3. row' = row \/
            (/\ psStart.seen /\ psCommand.seen
             /\ row' = [row EXCEPT !.start = procs[psStart.proc].start,
                                   !.command = procs[psCommand.proc].argv])
      BY <2>5 DEF BuildRow
    <3>4. row' \in [pid : PIDs \cup {0}, start : 0 .. MaxClock + 1, command : Commands,
                    kind : Kinds, label : Labels \cup {NoLabel}]
      BY <2>1, <2>2, <3>1, <3>2, <3>3 DEF RowOK, Commands
    <3>5. psStart' \in PsReads /\ psCommand' \in PsReads
      BY <2>5 DEF BuildRow, PsReads
    <3>6. QED
      BY <1>4, <3>4, <3>5 DEF RowOK
  <2>6. CASE \E kind \in Kinds, l \in Labels \cup {NoLabel} : Profile(kind, l)
    BY <1>4, <2>1, <2>6 DEF Profile, RowOK
  <2>7. QED
    BY <2>3, <2>4, <2>5, <2>6 DEF Scan
<1>6. TypeOK'
  <2>1. /\ present' \subseteq 1 .. Len(procs') /\ victims' \subseteq 1 .. Len(procs')
        /\ owners' \subseteq 1 .. Len(procs') /\ verified' \in 0 .. Len(procs')
    BY <1>2 DEF GuardInv, TypeOK
  <2>2. acted' \in BOOLEAN /\ legacyToo' \in BOOLEAN /\ restart' \in BOOLEAN /\ ctxDone' \in BOOLEAN
    BY <1>2 DEF GuardInv, TypeOK
  <2>3. QED
    BY <1>1, <1>2, <1>3, <1>5, <2>1, <2>2 DEF GuardInv, TypeOK, Phases
<1>7. RouteInv'
  <2>1. CASE pc' # "ready"
    BY <1>1, <2>1 DEF RouteInv
  <2>2. CASE pc' = "ready"
    <3>1. PICK kind \in Kinds, l \in Labels \cup {NoLabel} : Profile(kind, l)
      BY <1>1, <2>2 DEF Scan, ScanLsof, ReadUser, ReadCommand, BuildRow, attemptVars
    <3>2. row'.kind = kind /\ row'.label = l /\ (kind \in {"brew", "launchd"} <=> l # NoLabel)
      BY <3>1 DEF Profile, GuardInv, TypeOK, RowOK
    <3>3. QED
      BY <2>2, <3>2 DEF RouteInv
  <2>3. QED
    BY <2>1, <2>2
<1>8. IdentityInv' /\ ManagerInv' /\ OnlyVerifiedVictims' /\ ContextSeamIsStrict'
  BY <1>1, <1>2 DEF IdentityInv, Passed, ManagerInv, OnlyVerifiedVictims, ContextSeamIsStrict
<1>9. ProgressInv' /\ VerdictIsHonest'
  BY <1>1, <1>2 DEF GuardInv, ProgressInv, VerdictIsHonest
<1>10. QED
  BY <1>3, <1>6, <1>7, <1>8, <1>9 DEF GuardInv

\* What an attempt does not touch keeps its type.
LEMMA Unmoved ==
    ASSUME GuardInv, UNCHANGED <<clock, procs, live, job, row, psStart, psCommand>>
    PROVE  /\ SystemOK' /\ RowOK' /\ OnePerPID'
           /\ \A i : StillSame(i)' = StillSame(i)
           /\ live \subseteq 1 .. Len(procs)
           /\ pc = "manager" => job[row.label] \subseteq live
<1>1. SystemOK' /\ RowOK' /\ OnePerPID'
  BY DEF GuardInv, TypeOK, SystemOK, RowOK, PsReads, OnePerPID
<1>2. \A i : StillSame(i)' = StillSame(i)
  BY DEF StillSame
<1>3. live \subseteq 1 .. Len(procs)
  BY DEF GuardInv, TypeOK, SystemOK
<1>4. pc = "manager" => row.label \in Labels
  BY DEF GuardInv, RouteInv, TypeOK, RowOK
<1>5. QED
  BY <1>1, <1>2, <1>3, <1>4 DEF GuardInv, TypeOK, SystemOK

\* A verdict: a refusal comes before anything is done, a success after it.
LEMMA VerdictStep ==
    ASSUME GuardInv,
           UNCHANGED <<clock, procs, live, job, row, psStart, psCommand, seam, restart, ctxDone,
                       present, verified, owners, acted, victims>>,
           pc \in Phases \ {"scan", "ps", "profile", "done"}, pc' = "done",
           legacyToo' \in BOOLEAN, result' \in {"ok", "refused", "failed", "unknown"},
           result' = "refused" => pc # "manager", result' = "ok" => acted,
           pc # "manager" \/ legacyToo' = legacyToo
    PROVE  GuardInv'
<1>1. SystemOK' /\ RowOK' /\ OnePerPID' /\ \A i : StillSame(i)' = StillSame(i)
  BY Unmoved
<1>2. /\ present' \subseteq 1 .. Len(procs') /\ victims' \subseteq 1 .. Len(procs')
      /\ owners' \subseteq 1 .. Len(procs') /\ verified' \in 0 .. Len(procs')
  BY DEF GuardInv, TypeOK
<1>3. acted' \in BOOLEAN /\ restart' \in BOOLEAN /\ ctxDone' \in BOOLEAN
  BY DEF GuardInv, TypeOK
<1>4. TypeOK'
  BY <1>1, <1>2, <1>3 DEF GuardInv, TypeOK, Phases
<1>5. RouteInv' /\ IdentityInv' /\ ManagerInv' /\ ProgressInv'
  <2>1. RouteInv'
    BY DEF GuardInv, RouteInv
  <2>2. IdentityInv' /\ ManagerInv' /\ ProgressInv'
    BY DEF IdentityInv, Passed, ManagerInv, ProgressInv
  <2>3. QED
    BY <2>1, <2>2
<1>6. pc # "manager" => ~acted /\ victims = {}
  BY DEF GuardInv, ProgressInv
<1>7. VerdictIsHonest' /\ ContextSeamIsStrict'
  BY <1>6 DEF GuardInv, VerdictIsHonest, ContextSeamIsStrict
<1>8. OnlyVerifiedVictims'
  BY <1>1 DEF GuardInv, OnlyVerifiedVictims
<1>9. QED
  BY <1>1, <1>4, <1>5, <1>7, <1>8 DEF GuardInv

\* A step on the ladder: nothing has been done, and nothing is done by it.
LEMMA LadderStep ==
    ASSUME GuardInv,
           UNCHANGED <<clock, procs, live, job, row, psStart, psCommand, ctxDone, result,
                       acted, victims>>,
           pc \notin {"manager", "done"}, pc' \in Phases \ {"done"},
           seam' \in Seams, restart' \in BOOLEAN, legacyToo' \in BOOLEAN,
           pc' # "manager" => legacyToo',
           present' \subseteq 1 .. Len(procs), owners' \subseteq 1 .. Len(procs),
           verified' \in 0 .. Len(procs),
           RouteInv', IdentityInv', ManagerInv'
    PROVE  GuardInv'
<1>1. SystemOK' /\ RowOK' /\ OnePerPID'
  BY Unmoved
<1>2. ~acted /\ victims = {} /\ result = "none"
  BY DEF GuardInv, ProgressInv
<1>3. acted' \in BOOLEAN /\ ctxDone' \in BOOLEAN
  BY DEF GuardInv, TypeOK
<1>4. TypeOK'
  BY <1>1, <1>2, <1>3 DEF GuardInv, TypeOK
<1>5. ProgressInv' /\ VerdictIsHonest' /\ ContextSeamIsStrict' /\ OnlyVerifiedVictims'
  BY <1>2 DEF GuardInv, ProgressInv, VerdictIsHonest, ContextSeamIsStrict, OnlyVerifiedVictims
<1>6. QED
  BY <1>1, <1>4, <1>5 DEF GuardInv

\* The action itself: whom it hits, it hits on what has been established.
LEMMA ActionStep ==
    ASSUME GuardInv,
           UNCHANGED <<clock, procs, live, job, row, psStart, psCommand, seam, restart, ctxDone,
                       present, verified, owners, legacyToo>>,
           \/ (pc = "term" /\ pc' = "done" /\ result' = "ok" /\ victims' = Holder(row.pid))
           \/ (pc = "manager" /\ pc' = "manager" /\ result' = result /\ victims' = job[row.label]),
           acted' = TRUE
    PROVE  GuardInv'
<1>1. /\ SystemOK' /\ RowOK' /\ OnePerPID' /\ \A i : StillSame(i)' = StillSame(i)
      /\ live \subseteq 1 .. Len(procs)
      /\ pc = "manager" => job[row.label] \subseteq live
  BY Unmoved
<1>2. /\ present' \subseteq 1 .. Len(procs') /\ owners' \subseteq 1 .. Len(procs')
      /\ verified' \in 0 .. Len(procs') /\ victims' \subseteq 1 .. Len(procs')
  BY <1>1 DEF GuardInv, TypeOK, Holder
<1>3. acted' \in BOOLEAN /\ legacyToo' \in BOOLEAN /\ restart' \in BOOLEAN /\ ctxDone' \in BOOLEAN
  BY DEF GuardInv, TypeOK
<1>4. TypeOK'
  BY <1>1, <1>2, <1>3 DEF GuardInv, TypeOK, Phases
<1>5. RouteInv' /\ ManagerInv' /\ ProgressInv'
  BY DEF GuardInv, RouteInv, ManagerInv, ProgressInv
<1>6. IdentityInv'
  BY <1>1 DEF GuardInv, IdentityInv, Passed, RefusedOutright
<1>7. /\ ~RefusedOutright
      /\ verified # 0 /\ procs[verified].pid = row.pid /\ StillSame(verified)
      /\ \A i \in present : procs[i].pid = row.pid => i = verified
  BY DEF GuardInv, IdentityInv, Passed
<1>8. VerdictIsHonest'
  BY DEF GuardInv, VerdictIsHonest, ProgressInv
<1>9. ContextSeamIsStrict'
  <2>1. row.kind \in {"term", "brew", "launchd"}
    BY DEF GuardInv, RouteInv
  <2>2. seam = "context" => row.start # 0 /\ (restart => row.kind = "brew")
    BY <1>7 DEF RefusedOutright
  <2>3. legacyToo \/ Cardinality(owners) > 1
    BY DEF GuardInv, ManagerInv, ProgressInv
  <2>4. QED
    BY <2>1, <2>2, <2>3 DEF ContextSeamIsStrict
<1>10. OnlyVerifiedVictims'
  <2>1. SUFFICES ASSUME NEW i \in victims' \cap present
                 PROVE  \/ i = verified /\ procs[i].pid = row.pid /\ StillSame(i)
                        \/ seam = "context" /\ i \in owners /\ Cardinality(owners) > 1
    BY <1>1 DEF OnlyVerifiedVictims
  <2>2. CASE pc = "term"
    <3>1. procs[i].pid = row.pid
      BY <2>1, <2>2 DEF Holder
    <3>2. QED
      BY <1>7, <2>1, <3>1
  <2>3. CASE pc = "manager"
    <3>1. i \in owners
      BY <2>1, <2>3 DEF GuardInv, ManagerInv
    <3>2. CASE procs[i].pid = row.pid
      BY <1>7, <2>1, <3>2
    <3>3. CASE procs[i].pid # row.pid
      BY <2>3, <3>1, <3>3 DEF GuardInv, ManagerInv
    <3>4. QED
      BY <3>2, <3>3
  <2>4. QED
    BY <2>2, <2>3
<1>11. QED
  BY <1>1, <1>4, <1>5, <1>6, <1>8, <1>9, <1>10 DEF GuardInv

\* The lookup: the processes under the label are the row's, or there are two.
LEMMA LookupStep ==
    ASSUME GuardInv, LookupPass PROVE ManagerInv'
<1>1. /\ owners' = job[row.label] /\ UNCHANGED <<procs, job, row, present, seam>>
      /\ legacyToo' = (legacyToo /\ LegacyOwns) /\ legacyToo /\ pc = "lookup"
      /\ IF seam = "legacy" THEN LegacyOwns ELSE row.pid \in ListedPIDs
      /\ seam \in Seams
  BY DEF LookupPass, osVars, scanVars, GuardInv, ProgressInv, TypeOK
<1>2. job[row.label] \subseteq 1 .. Len(procs) /\ Len(procs) \in Nat
  BY <1>1, LenProperties DEF GuardInv, TypeOK, SystemOK, RouteInv, RowOK
<1>3. CASE LegacyOwns
  <2>1. \A i \in job[row.label] : procs[i].pid = row.pid
    BY <1>3 DEF LegacyOwns, ListedPIDs
  <2>2. QED
    BY <1>1, <1>3, <2>1 DEF ManagerInv
<1>4. CASE ~LegacyOwns
  <2>1. seam = "context" /\ row.pid \in ListedPIDs
    BY <1>1, <1>4 DEF Seams
  <2>2. PICK i \in job[row.label] : procs[i].pid = row.pid
    BY <2>1 DEF ListedPIDs
  <2>3. PICK j \in job[row.label] : procs[j].pid # row.pid
    BY <1>4, <2>1 DEF LegacyOwns, ListedPIDs
  <2>4. Cardinality(job[row.label]) > 1
    BY <1>2, <2>2, <2>3, TwoOfThem
  <2>5. QED
    BY <1>1, <2>1, <2>4 DEF ManagerInv
<1>5. QED
  BY <1>3, <1>4

\* Every step of the attempt is one of these.
LEMMA AttemptStep ==
    ASSUME GuardInv, Attempt PROVE GuardInv'
<1>1. /\ present \subseteq 1 .. Len(procs) /\ owners \subseteq 1 .. Len(procs)
      /\ verified \in 0 .. Len(procs) /\ live \subseteq 1 .. Len(procs) /\ seam \in Seams
  BY DEF GuardInv, TypeOK, SystemOK
<1>2. restart \in BOOLEAN /\ legacyToo \in BOOLEAN
  BY DEF GuardInv, TypeOK
<1>3. pc \notin {"manager", "done"} => ~acted /\ victims = {} /\ legacyToo
  BY DEF GuardInv, ProgressInv
<1>4. ASSUME NEW s \in Seams, NEW r \in BOOLEAN, Begin(s, r) PROVE GuardInv'
  <2>1. /\ RouteInv' /\ IdentityInv' /\ ManagerInv'
    BY <1>4 DEF Begin, GuardInv, RouteInv, IdentityInv, Passed, ManagerInv, scanVars
  <2>2. QED
    BY <1>1, <1>2, <1>3, <1>4, <2>1, LadderStep DEF Begin, osVars, scanVars, obsVars, Phases
<1>5. CASE CancelContext
  <2>1. /\ UNCHANGED <<clock, procs, live, job, row, psStart, psCommand, pc, seam, restart, result,
                      present, verified, owners, acted, victims, legacyToo>>
        /\ ctxDone' \in BOOLEAN
    BY <1>5 DEF CancelContext, osVars, scanVars, obsVars
  <2>2. SystemOK' /\ RowOK' /\ OnePerPID' /\ \A i : StillSame(i)' = StillSame(i)
    BY <2>1, Unmoved
  <2>3. acted' \in BOOLEAN /\ legacyToo' \in BOOLEAN /\ restart' \in BOOLEAN
    BY <2>1 DEF GuardInv, TypeOK
  <2>4. TypeOK'
    BY <2>1, <2>2, <2>3 DEF GuardInv, TypeOK
  <2>5. RouteInv' /\ ManagerInv' /\ ProgressInv' /\ VerdictIsHonest' /\ ContextSeamIsStrict'
    BY <2>1 DEF GuardInv, RouteInv, ManagerInv, ProgressInv, VerdictIsHonest, ContextSeamIsStrict
  <2>6. IdentityInv' /\ OnlyVerifiedVictims'
    BY <2>1, <2>2 DEF GuardInv, IdentityInv, Passed, RefusedOutright, OnlyVerifiedVictims
  <2>7. QED
    BY <2>2, <2>4, <2>5, <2>6 DEF GuardInv
<1>6. CASE CutShort \/ RefuseOutright \/ IdentityFail \/ LookupFail \/ TermFails
  BY <1>2, <1>6, VerdictStep
     DEF CutShort, RefuseOutright, IdentityFail, LookupFail, TermFails, Finish, osVars, scanVars, obsVars,
         Phases
<1>7. CASE ManagerReturns
  BY <1>2, <1>7, VerdictStep DEF ManagerReturns, Finish, osVars, scanVars, obsVars, Phases
<1>8. ASSUME NEW i \in live, IdentityPass(i) PROVE GuardInv'
  <2>1. /\ UNCHANGED <<clock, procs, live, job, row, psStart, psCommand, ctxDone, result, seam, restart,
                       acted, victims, owners, legacyToo>>
        /\ pc = "identity" /\ pc' = "route" /\ ~RefusedOutright
        /\ i \in Holder(row.pid) /\ StillSame(i) /\ verified' = i /\ present' = live
    BY <1>8 DEF IdentityPass, osVars, scanVars
  <2>2. procs[i].pid = row.pid /\ i \in live
    BY <2>1 DEF Holder
  <2>3. \A j \in live : procs[j].pid = row.pid => j = i
    BY <2>2 DEF GuardInv, OnePerPID
  <2>4. i # 0 /\ i \in 0 .. Len(procs)
    BY <1>1, <2>2
  <2>5. StillSame(i)'
    BY <2>1 DEF StillSame
  <2>6. IdentityInv'
    BY <2>1, <2>2, <2>3, <2>4, <2>5 DEF IdentityInv, RefusedOutright
  <2>7. RouteInv' /\ ManagerInv'
    BY <2>1 DEF GuardInv, RouteInv, ManagerInv
  <2>8. QED
    BY <1>1, <1>2, <1>3, <2>1, <2>4, <2>6, <2>7, LadderStep DEF Phases
<1>9. CASE Route
  <2>1. /\ UNCHANGED <<clock, procs, live, job, row, psStart, psCommand, seam, restart, ctxDone,
                       present, verified, owners, acted, victims, legacyToo>>
        /\ pc = "route"
    BY <1>9 DEF Route, osVars, scanVars, obsVars
  <2>2. CASE row.kind = "avoid" \/ (restart /\ row.kind # "brew")
    BY <1>2, <1>9, <2>1, <2>2, VerdictStep DEF Route, Finish, Phases
  <2>3. CASE ~(row.kind = "avoid" \/ (restart /\ row.kind # "brew"))
    <3>1. /\ pc' = CASE row.kind = "brew" -> "brew" [] row.kind = "launchd" -> "lookup"
                     [] OTHER -> "term"
          /\ result' = result
      BY <1>9, <2>3 DEF Route
    <3>2. row.kind \in {"term", "brew", "launchd"}
      BY <2>1, <2>3 DEF GuardInv, IdentityInv, Passed, RefusedOutright, TypeOK, RowOK, Kinds
    <3>3. RouteInv' /\ ManagerInv'
      BY <2>1, <3>1, <3>2 DEF GuardInv, RouteInv, ManagerInv
    <3>4. IdentityInv'
      BY <2>1, <3>1, <3>2, Unmoved DEF GuardInv, IdentityInv, Passed, RefusedOutright
    <3>5. QED
      BY <1>1, <1>2, <1>3, <2>1, <3>1, <3>2, <3>3, <3>4, LadderStep DEF Phases
  <2>4. QED
    BY <2>2, <2>3
<1>10. ASSUME NEW answer \in {"known", "unknown", "unusable"}, CheckBrew(answer) PROVE GuardInv'
  <2>1. /\ UNCHANGED <<clock, procs, live, job, row, psStart, psCommand, seam, restart, ctxDone,
                       present, verified, owners, acted, victims>>
        /\ pc = "brew"
    BY <1>10 DEF CheckBrew, osVars, scanVars
  <2>2. legacyToo' \in BOOLEAN /\ (BrewAccepts(answer, seam) => legacyToo')
    BY <1>3, <1>10, <2>1 DEF CheckBrew, BrewAccepts
  <2>3. CASE ~BrewAccepts(answer, seam)
    BY <1>10, <2>1, <2>2, <2>3, VerdictStep DEF CheckBrew, Finish, Phases
  <2>4. CASE BrewAccepts(answer, seam)
    <3>1. pc' = "lookup" /\ result' = result
      BY <1>10, <2>4 DEF CheckBrew
    <3>2. RouteInv' /\ ManagerInv'
      BY <2>1, <3>1 DEF GuardInv, RouteInv, ManagerInv
    <3>3. IdentityInv'
      BY <2>1, <3>1, Unmoved DEF GuardInv, IdentityInv, Passed, RefusedOutright
    <3>4. QED
      BY <1>1, <1>2, <2>1, <2>2, <2>4, <3>1, <3>2, <3>3, LadderStep DEF Phases
  <2>5. QED
    BY <2>3, <2>4
<1>11. CASE LookupPass
  <2>1. /\ UNCHANGED <<clock, procs, live, job, row, psStart, psCommand, seam, restart, ctxDone, result,
                       present, verified, acted, victims>>
        /\ pc = "lookup" /\ pc' = "manager" /\ owners' = job[row.label]
    BY <1>11 DEF LookupPass, osVars, scanVars
  <2>2. legacyToo' \in BOOLEAN
    BY <1>11 DEF LookupPass
  <2>3. ManagerInv'
    BY <1>11, LookupStep
  <2>4. RouteInv'
    BY <2>1 DEF GuardInv, RouteInv
  <2>5. IdentityInv'
    BY <2>1, Unmoved DEF GuardInv, IdentityInv, Passed, RefusedOutright
  <2>6. owners' \subseteq 1 .. Len(procs)
    BY <2>1 DEF GuardInv, TypeOK, SystemOK, RouteInv, RowOK
  <2>7. QED
    BY <1>1, <1>2, <2>1, <2>2, <2>3, <2>4, <2>5, <2>6, LadderStep DEF Phases
<1>12. CASE Term
  <2>1. /\ UNCHANGED <<clock, procs, live, job, row, psStart, psCommand, seam, restart, ctxDone,
                       present, verified, owners, legacyToo>>
        /\ pc = "term" /\ pc' = "done" /\ result' = "ok"
        /\ acted' = TRUE /\ victims' = Holder(row.pid)
    BY <1>12 DEF Term, Finish, osVars, scanVars
  <2>2. QED
    BY <2>1, ActionStep
<1>13. CASE ManagerActs
  BY <1>13, ActionStep DEF ManagerActs, osVars, scanVars, attemptVars
<1>14. QED
  BY <1>4, <1>5, <1>6, <1>7, <1>8, <1>9, <1>10, <1>11, <1>12, <1>13 DEF Attempt

-----------------------------------------------------------------------------
(* Theorems *)

LEMMA GuardInit == Init => GuardInv
<1> SUFFICES ASSUME Init PROVE GuardInv
  OBVIOUS
<1> USE StopGuardAssumption
<1>1. procs \in Seq(Proc) /\ Len(procs) = 0 /\ live = {}
  BY EmptySeq DEF Init
<1>2. SystemOK
  BY <1>1 DEF Init, SystemOK, Proc
<1>3. RowOK
  <2>1. 0 \in 0 .. MaxClock + 1 /\ row = NoRow
    BY DEF Init
  <2>2. NoRow \in [pid : PIDs \cup {0}, start : 0 .. MaxClock + 1, command : Commands,
                   kind : Kinds, label : Labels \cup {NoLabel}]
    BY <2>1 DEF NoRow, Commands, Kinds
  <2>3. QED
    BY <2>1, <2>2 DEF Init, RowOK, PsReads
<1>4. acted \in BOOLEAN /\ legacyToo \in BOOLEAN /\ restart \in BOOLEAN /\ ctxDone \in BOOLEAN
  BY DEF Init
<1>5. TypeOK
  BY <1>1, <1>2, <1>3, <1>4 DEF Init, TypeOK, Phases, Seams
<1>6. ~acted /\ victims = {} /\ legacyToo /\ live = {} /\ pc = "scan" /\ result = "none"
  BY DEF Init
<1>7. QED
  BY <1>5, <1>6 DEF GuardInv, OnePerPID, RouteInv, IdentityInv, Passed, ManagerInv, ProgressInv,
     OnlyVerifiedVictims, VerdictIsHonest, ContextSeamIsStrict

\* The inductive invariant of a stop among births, exits and reused PIDs.
THEOREM GuardCorrect == Spec => []GuardInv
<1>1. GuardInv /\ [Next]_vars => GuardInv'
  <2> SUFFICES ASSUME GuardInv, [Next]_vars PROVE GuardInv'
    OBVIOUS
  <2>1. CASE UNCHANGED vars
    <3>1. UNCHANGED <<clock, procs, live, job, row, psStart, psCommand, pc, seam, restart, ctxDone,
                      result, present, verified, owners, acted, victims, legacyToo>>
      BY <2>1 DEF vars, osVars, scanVars, attemptVars, obsVars
    <3>2. SystemOK' /\ RowOK' /\ OnePerPID' /\ \A i : StillSame(i)' = StillSame(i)
      BY <3>1, Unmoved
    <3>3. acted' \in BOOLEAN /\ legacyToo' \in BOOLEAN /\ restart' \in BOOLEAN /\ ctxDone' \in BOOLEAN
      BY <3>1 DEF GuardInv, TypeOK
    <3>4. TypeOK'
      BY <3>1, <3>2, <3>3 DEF GuardInv, TypeOK
    <3>5. RouteInv' /\ ManagerInv' /\ ProgressInv' /\ VerdictIsHonest' /\ ContextSeamIsStrict'
      BY <3>1 DEF GuardInv, RouteInv, ManagerInv, ProgressInv, VerdictIsHonest, ContextSeamIsStrict
    <3>6. IdentityInv' /\ OnlyVerifiedVictims'
      BY <3>1, <3>2 DEF GuardInv, IdentityInv, Passed, RefusedOutright, OnlyVerifiedVictims
    <3>7. QED
      BY <3>2, <3>4, <3>5, <3>6 DEF GuardInv
  <2>2. QED
    BY <2>1, OSStep, ScanStep, AttemptStep DEF Next
<1>2. QED
  BY GuardInit, <1>1, PTL DEF Spec

\* README.md, "no signal without proven identity": whatever is born, exits, or
\* takes over the PID or the label between the check and the action.
THEOREM VictimsAreVerified == Spec => []OnlyVerifiedVictims
<1>1. GuardInv => OnlyVerifiedVictims
  BY DEF GuardInv
<1>2. QED
  BY <1>1, GuardCorrect, PTL

\* ErrRefused (kill/context.go): a refusal means that nothing was attempted,
\* and a success that it was done, at whatever point a context ends.
THEOREM VerdictsAreHonest == Spec => []VerdictIsHonest
<1>1. GuardInv => VerdictIsHonest
  BY DEF GuardInv
<1>2. QED
  BY <1>1, GuardCorrect, PTL

\* kill/context.go: the companion's seam never acts where the CLI's would not,
\* save under a label that lists several processes.
THEOREM ContextIsStricter == Spec => []ContextSeamIsStrict
<1>1. GuardInv => ContextSeamIsStrict
  BY DEF GuardInv
<1>2. QED
  BY <1>1, GuardCorrect, PTL

=============================================================================
