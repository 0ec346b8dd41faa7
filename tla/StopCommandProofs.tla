--------------------------- MODULE StopCommandProofs ---------------------------
(***************************************************************************)
(* CommandInv is inductive for any machine, argument and number of         *)
(* processes, and with it: only what the argument addresses is hit, exit   *)
(* code 0 means that it was done, what launchd supervises stays down, and  *)
(* a preview keeps its word.                                               *)
(***************************************************************************)
EXTENDS StopCommand, SequenceTheorems, TLAPS

-----------------------------------------------------------------------------
(* Make *)

\* There is a first rule that applies, since the last one always does.
LEMMA FirstApplies ==
    ASSUME NEW R, DOMAIN R = 1 .. 12, R[12].applies
    PROVE  /\ FirstThatApplies(R) \in 1 .. 12
           /\ R[FirstThatApplies(R)].applies
           /\ \A m \in 1 .. FirstThatApplies(R) - 1 : ~R[m].applies
<1> DEFINE Earliest(k) == R[k].applies /\ \A m \in 1 .. k - 1 : ~R[m].applies
           None(n) == \A m \in 1 .. n : ~R[m].applies
<1>1. (\E k \in 1 .. 12 : Earliest(k)) \/ None(1)
  BY SMT
<1>2. (\E k \in 1 .. 12 : Earliest(k)) \/ None(2)
  BY <1>1, SMT
<1>3. (\E k \in 1 .. 12 : Earliest(k)) \/ None(3)
  BY <1>2, SMT
<1>4. (\E k \in 1 .. 12 : Earliest(k)) \/ None(4)
  BY <1>3, SMT
<1>5. (\E k \in 1 .. 12 : Earliest(k)) \/ None(5)
  BY <1>4, SMT
<1>6. (\E k \in 1 .. 12 : Earliest(k)) \/ None(6)
  BY <1>5, SMT
<1>7. (\E k \in 1 .. 12 : Earliest(k)) \/ None(7)
  BY <1>6, SMT
<1>8. (\E k \in 1 .. 12 : Earliest(k)) \/ None(8)
  BY <1>7, SMT
<1>9. (\E k \in 1 .. 12 : Earliest(k)) \/ None(9)
  BY <1>8, SMT
<1>10. (\E k \in 1 .. 12 : Earliest(k)) \/ None(10)
  BY <1>9, SMT
<1>11. (\E k \in 1 .. 12 : Earliest(k)) \/ None(11)
  BY <1>10, SMT
<1>12. \E k \in 1 .. 12 : Earliest(k)
  BY <1>11, SMT
<1>13. QED
  BY <1>12 DEF FirstThatApplies

\* Container helpers are refused, only a formula goes to brew, and launchd is
\* asked about a label exactly where a TERM would not last.
LEMMA MakeFacts ==
    ASSUME NEW a, NEW run \in BOOLEAN, NEW label, run => a.formula # NoFormula
    PROVE  /\ Make(a, run, label).kind \in Kinds
           /\ a.helper => Make(a, run, label).kind = "avoid"
           /\ Make(a, run, label).kind = "brew" => a.formula # NoFormula
           /\ Make(a, run, label).kind = "launchd" <=> Make(a, run, label).label # NoLabel
           /\ Make(a, run, label).kind = "launchd" => Make(a, run, label).label = label
           /\ Make(a, run, label).kind = "term" => label = NoLabel
           /\ Make(a, run, label) \in [kind : Kinds, label : {label, NoLabel}]
<1> DEFINE R == Rules(a, run)
           k == FirstThatApplies(R)
<1>1. DOMAIN R = 1 .. 12 /\ R[12].applies
  BY DEF Rules, On
<1>2. /\ k \in 1 .. 12 /\ R[k].applies
      /\ \A m \in 1 .. k - 1 : ~R[m].applies
  BY <1>1, FirstApplies
<1>3. a.helper => k = 1
  <2>1. a.helper => R[1].applies
    BY DEF Rules, On
  <2>2. QED
    BY <1>2, <2>1
<1>4. R[1].kind = "avoid"
  BY DEF Rules, On
<1>5. \A i \in 1 .. 12 : R[i].kind \in {"term", "brew", "avoid"}
  BY DEF Rules, On, ByFormula
<1>6. \A i \in 1 .. 12 : R[i].kind = "brew" /\ R[i].applies => a.formula # NoFormula
  BY DEF Rules, On, ByFormula
<1>7. Make(a, run, label) =
        IF R[k].kind = "term" /\ label # NoLabel
        THEN [kind |-> "launchd", label |-> label]
        ELSE [kind |-> R[k].kind, label |-> NoLabel]
  BY DEF Make
<1> HIDE DEF R, k
<1>8. QED
  BY <1>2, <1>3, <1>4, <1>5, <1>6, <1>7 DEF Kinds

-----------------------------------------------------------------------------
(* The machine *)

\* A birth does not disturb the processes born before.
LEMMA SpawnFacts ==
    ASSUME TypeOK, NEW pid \in PIDs, NEW p \in Programs, Spawn(pid, p)
    PROVE  /\ Len(procs') = Len(procs) + 1 /\ Len(procs) \in Nat
           /\ \A i \in 1 .. Len(procs) :
                 procs'[i] = procs[i] /\ PID(i)' = PID(i) /\ Prog(i)' = Prog(i)
           /\ \A n : n = Len(procs) + 1 => PID(n)' = pid /\ Prog(n)' = p
           /\ procs' \in Seq([pid : PIDs, program : Programs])
<1> DEFINE born == [pid |-> pid, program |-> p]
<1>1. procs \in Seq([pid : PIDs, program : Programs]) /\ procs' = Append(procs, born)
  BY DEF TypeOK, Spawn
<1>2. born \in [pid : PIDs, program : Programs] /\ born.pid = pid /\ born.program = p
  OBVIOUS
<1> HIDE DEF born
<1>3. /\ procs' \in Seq([pid : PIDs, program : Programs])
      /\ Len(procs') = Len(procs) + 1
      /\ \A i \in 1 .. Len(procs) : procs'[i] = procs[i]
      /\ procs'[Len(procs) + 1] = born
  BY <1>1, <1>2, AppendProperties
<1>4. Len(procs) \in Nat
  BY <1>1, LenProperties
<1>5. QED
  BY <1>2, <1>3, <1>4 DEF PID, Prog

\* What is known of a process that has been born.
LEMMA ProcFacts ==
    ASSUME TypeOK, NEW i \in 1 .. Len(procs)
    PROVE  /\ PID(i) \in PIDs /\ Prog(i) \in Programs /\ Prog(i) \in Listening
           /\ Prog(i).formula \in DOMAIN BrewLabel \cup {NoFormula}
           /\ Prog(i).job \in Labels \cup {NoLabel}
           /\ Prog(i).formula # NoFormula => BrewLabel[Prog(i).formula] \in Labels
<1>1. procs[i] \in [pid : PIDs, program : Programs]
  BY ElementOfSeq DEF TypeOK
<1>2. Prog(i) \in Listening
  BY <1>1, StopCommandAssumption DEF Prog
<1>3. QED
  BY <1>1, <1>2, StopCommandAssumption DEF PID, Prog, Listening

\* One process for a PID and for a job.
LEMMA SystemStep ==
    ASSUME TypeOK, SystemInv, Next PROVE SystemInv'
<1>1. CASE UNCHANGED <<procs, live>>
  BY <1>1 DEF SystemInv, PID, Prog
<1>2. CASE procs' = procs /\ live' \subseteq live
  BY <1>2 DEF SystemInv, PID, Prog
<1>3. ASSUME NEW pid \in PIDs, NEW p \in Programs, Spawn(pid, p) PROVE SystemInv'
  <2>1. live' = live \cup {Len(procs) + 1} /\ live \subseteq 1 .. Len(procs)
    BY <1>3 DEF Spawn, TypeOK
  <2>2. \A i \in live : PID(i)' = PID(i) /\ Prog(i)' = Prog(i)
    BY <1>3, <2>1, SpawnFacts
  <2>3. \A n : n = Len(procs) + 1 => PID(n)' = pid /\ Prog(n)' = p
    BY <1>3, SpawnFacts
  <2>4. \A i \in live : PID(i) # pid /\ (p.job # NoLabel => Prog(i).job # p.job)
    BY <1>3 DEF Spawn, Holder, Running
  <2> SUFFICES ASSUME NEW i \in live', NEW j \in live'
               PROVE  /\ PID(i)' = PID(j)' => i = j
                      /\ Prog(i)'.job = Prog(j)'.job /\ Prog(i)'.job # NoLabel => i = j
    BY DEF SystemInv
  <2>5. CASE i \in live /\ j \in live
    BY <2>2, <2>5 DEF SystemInv
  <2>6. CASE i \in live /\ j = Len(procs) + 1
    BY <2>2, <2>3, <2>4, <2>6
  <2>7. CASE j \in live /\ i = Len(procs) + 1
    BY <2>2, <2>3, <2>4, <2>7
  <2>8. QED
    BY <2>1, <2>5, <2>6, <2>7
<1>4. QED
  BY <1>1, <1>2, <1>3 DEF Next, Command, Scan, Detect, Match, RefuseHelper, Identify, Route,
     Lookup, Manager, Term, SweepDone, Probe, Exit, osVars

\* What launchctl lists under a PID is the job of the process that has it.
LEMMA ListFacts ==
    ASSUME TypeOK, SystemInv
    PROVE  /\ DOMAIN LaunchdByPID \subseteq PIDs
           /\ \A pid \in DOMAIN LaunchdByPID : LaunchdByPID[pid] \in Labels
           /\ \A i \in live : /\ Prog(i).job # NoLabel =>
                                   PID(i) \in DOMAIN LaunchdByPID
                              /\ PID(i) \in DOMAIN LaunchdByPID =>
                                   LaunchdByPID[PID(i)] = Prog(i).job
<1> DEFINE Supervised == {j \in live : Prog(j).job # NoLabel}
<1>1. DOMAIN LaunchdByPID = {PID(i) : i \in Supervised}
  BY DEF LaunchdByPID
<1>2. ASSUME NEW i \in live, PID(i) \in DOMAIN LaunchdByPID
      PROVE  LaunchdByPID[PID(i)] = Prog(i).job /\ Prog(i).job # NoLabel
  <2>1. Holder(PID(i)) = {i}
    BY DEF Holder, SystemInv
  <2>2. (CHOOSE j \in Holder(PID(i)) : TRUE) = i
    BY <2>1
  <2>3. LaunchdByPID[PID(i)] = Prog(i).job
    BY <1>1, <1>2, <2>2 DEF LaunchdByPID
  <2>4. PICK j \in Supervised : PID(j) = PID(i)
    BY <1>1, <1>2
  <2>5. QED
    BY <2>3, <2>4 DEF SystemInv
<1>3. \A i \in live : i \in 1 .. Len(procs)
  BY DEF TypeOK
<1>4. QED
  BY <1>1, <1>2, <1>3, ProcFacts


-----------------------------------------------------------------------------
(* The rows *)

\* What the argument addresses are rows, of which it says one thing or another.
LEMMA MatchFacts ==
    ASSUME TypeOK
    PROVE  Matched \subseteq rows /\ \A r \in Matched : Addressed(r)
<1>1. CASE target.by = "dir"
  BY <1>1 DEF Matched, Addressed, Within
<1>2. CASE target.by = "range"
  <2>1. \A r \in rows : Prog(r).ports \subseteq Nat
    BY ProcFacts, StopCommandAssumption DEF TypeOK, Listening
  <2>2. QED
    BY <1>2, <2>1, StopCommandAssumption DEF Matched, Addressed, OnPorts, TypeOK
<1>3. CASE target.by = "number"
  <2>1. \A r \in rows : Prog(r).ports \subseteq Nat
    BY ProcFacts, StopCommandAssumption DEF TypeOK, Listening
  <2>2. target.number \in Nat
    BY <1>3, StopCommandAssumption DEF TypeOK
  <2>3. OnPorts(target.number, target.number) = {r \in rows : target.number \in Prog(r).ports}
    BY <2>1, <2>2 DEF OnPorts
  <2>4. QED
    BY <1>3, <2>3 DEF Matched, Addressed
<1>4. QED
  BY <1>1, <1>2, <1>3, StopCommandAssumption DEF TypeOK

\* What Make says of a row.
LEMMA ProfileFacts ==
    ASSUME TypeOK, NEW r \in rows
    PROVE  /\ Profile(r) \in [kind : Kinds, label : Labels \cup {NoLabel}]
           /\ Prog(r).helper => Profile(r).kind = "avoid"
           /\ Profile(r).kind = "brew" => Prog(r).formula # NoFormula
           /\ Profile(r).kind = "launchd" <=> Profile(r).label # NoLabel
           /\ Profile(r).kind = "launchd" => Profile(r).label = LabelOf(PID(r))
           /\ Profile(r).kind = "term" => LabelOf(PID(r)) = NoLabel
<1>1. Prog(r).formula \in started => Prog(r).formula # NoFormula
  BY StopCommandAssumption DEF TypeOK
<1>2. LabelOf(PID(r)) \in Labels \cup {NoLabel}
  BY DEF LabelOf, TypeOK
<1> DEFINE run == Prog(r).formula \in started
           label == LabelOf(PID(r))
           made == Make(Prog(r), run, label)
<1>3. run \in BOOLEAN
  OBVIOUS
<1>4. Profile(r) = made
  BY DEF Profile
<1>5. run => Prog(r).formula # NoFormula
  BY <1>1
<1>6. label \in Labels \cup {NoLabel}
  BY <1>2
<1> HIDE DEF run, label
<1>7. /\ made.kind \in Kinds
      /\ Prog(r).helper => made.kind = "avoid"
      /\ made.kind = "brew" => Prog(r).formula # NoFormula
      /\ made.kind = "launchd" <=> made.label # NoLabel
      /\ made.kind = "launchd" => made.label = label
      /\ made.kind = "term" => label = NoLabel
      /\ made \in [kind : Kinds, label : {label, NoLabel}]
  BY <1>3, <1>5, MakeFacts
<1> HIDE DEF made
<1>8. QED
  BY <1>4, <1>6, <1>7 DEF label

-----------------------------------------------------------------------------
(* The invariant, part by part *)

\* Every step keeps the types.
LEMMA TypeStep ==
    ASSUME TypeOK, SystemInv, SweepOnce, Next PROVE TypeOK'
<1> USE StopCommandAssumption DEF TypeOK, Points, Modes
<1>1. CASE Scan
  <2>1. rows' \subseteq 1 .. Len(procs) /\ plan = <<>>
    BY <1>1 DEF Scan, SweepOnce
  <2>2. QED
    BY <1>1, <2>1 DEF Scan, osVars, sweepVars, Goto, Finish
<1>2. CASE Detect
  <2>1. /\ DOMAIN listed' \subseteq PIDs
        /\ \A pid \in DOMAIN listed' : listed'[pid] \in Labels
    BY <1>2, ListFacts DEF Detect
  <2>2. started' \subseteq DOMAIN BrewLabel /\ detected' \in BOOLEAN
    BY <1>2 DEF Detect
  <2>3. QED
    BY <1>2, <2>1, <2>2 DEF Detect, osVars, sweepVars, Goto
<1>3. CASE Match
  <2>1. ASSUME NEW r \in Matched
        PROVE  r \in rows /\ Profile(r) \in [kind : Kinds, label : Labels \cup {NoLabel}]
    BY MatchFacts, ProfileFacts
  <2>2. QED
    BY <1>3, <2>1 DEF Match, osVars, envVars, Goto, Finish, IsFirst
<1>4. ASSUME NEW r \in todo, RefuseHelper(r) PROVE TypeOK'
  BY <1>4 DEF RefuseHelper, osVars, envVars, Turn, SweepOnce
<1>5. ASSUME NEW r \in todo, Identify(r) PROVE TypeOK'
  BY <1>5 DEF Identify, osVars, envVars, Turn, SweepOnce, Goto
<1>6. CASE Route
  BY <1>6 DEF Route, osVars, envVars, sweepVars, Goto, Finish, Succeed, Fail, Hit, Turn, IsFirst
<1>7. CASE Lookup
  BY <1>7 DEF Lookup, osVars, envVars, sweepVars, Goto, Finish, Succeed, Fail, Hit, Turn, IsFirst
<1>8. CASE Manager
  <2>1. live' \subseteq live /\ loaded' \subseteq loaded /\ victims' \subseteq victims \cup live
    BY <1>8 DEF Manager, Hit, Running
  <2>2. pc' = "sweep" /\ result' = result
    BY <1>8 DEF Manager, Succeed, Fail, Goto
  <2>3. QED
    BY <1>8, <2>1, <2>2 DEF Manager, envVars
<1>9. CASE Term
  <2>1. victims' \subseteq victims \cup live
    BY <1>9 DEF Term, Hit, Holder
  <2>2. pc' = "sweep" /\ result' = result
    BY <1>9 DEF Term, Succeed, Fail, Goto
  <2>3. QED
    BY <1>9, <2>1, <2>2 DEF Term, osVars, envVars
<1>10. CASE SweepDone
  BY <1>10 DEF SweepDone, osVars, envVars, sweepVars, Goto, Finish, Succeed, Fail, Hit, Turn, IsFirst
<1>11. CASE Probe
  BY <1>11 DEF Probe, osVars, envVars, sweepVars, Goto, Finish, Succeed, Fail, Hit, Turn, IsFirst
<1>12. ASSUME NEW pid \in PIDs, NEW p \in Programs, Spawn(pid, p) PROVE TypeOK'
  <2>1. /\ procs' \in Seq([pid : PIDs, program : Programs])
        /\ Len(procs') = Len(procs) + 1 /\ Len(procs) \in Nat
    BY <1>12, SpawnFacts
  <2>2. 1 .. Len(procs) \subseteq 1 .. Len(procs') /\ 0 .. Len(procs) \subseteq 0 .. Len(procs')
    BY <2>1
  <2>3. live' \subseteq 1 .. Len(procs') /\ Len(procs') <= MaxProcs
    BY <1>12, <2>1, <2>2 DEF Spawn
  <2>4. QED
    BY <1>12, <2>1, <2>2, <2>3 DEF Spawn, envVars, sweepVars
<1>13. ASSUME NEW i \in live, Exit(i) PROVE TypeOK'
  BY <1>13 DEF Exit, osVars, envVars, sweepVars, Goto, Finish, Succeed, Fail, Hit, Turn, IsFirst
<1>14. QED
  BY <1>1, <1>2, <1>3, <1>4, <1>5, <1>6, <1>7, <1>8, <1>9, <1>10, <1>11, <1>12, <1>13 DEF Next, Command

\* Who has been born stays what it was, none comes back, no job is loaded anew.
LEMMA History ==
    ASSUME TypeOK, Next
    PROVE  /\ Len(procs) \in Nat
           /\ \A i \in 1 .. Len(procs) : PID(i)' = PID(i) /\ Prog(i)' = Prog(i)
           /\ \A i \in 1 .. Len(procs) : i \in live' => i \in live
           /\ loaded' \subseteq loaded
           /\ mode' = mode /\ target' = target
<1> DEFINE Keeps == /\ Len(procs) \in Nat
                    /\ \A i \in 1 .. Len(procs) : PID(i)' = PID(i) /\ Prog(i)' = Prog(i)
                    /\ \A i \in 1 .. Len(procs) : i \in live' => i \in live
                    /\ loaded' \subseteq loaded
                    /\ mode' = mode /\ target' = target
<1>1. Len(procs) \in Nat
  BY LenProperties DEF TypeOK
<1>2. ASSUME NEW pid \in PIDs, NEW p \in Programs, Spawn(pid, p) PROVE Keeps
  <2>1. Len(procs) + 1 \notin 1 .. Len(procs)
    BY <1>1
  <2>2. QED
    BY <1>1, <1>2, <2>1, SpawnFacts DEF Spawn
<1>3. CASE procs' = procs /\ live' \subseteq live /\ loaded' \subseteq loaded
            /\ mode' = mode /\ target' = target
  BY <1>1, <1>3 DEF PID, Prog
<1>4. CASE Command
  <2>1. procs' = procs /\ live' \subseteq live /\ loaded' \subseteq loaded
          /\ mode' = mode /\ target' = target
    BY <1>4 DEF Command, Scan, Detect, Match, RefuseHelper, Identify, Route, Lookup,
       Manager, Term, SweepDone, Probe, osVars
  <2>2. QED
    BY <1>3, <2>1
<1>5. ASSUME NEW i \in live, Exit(i) PROVE Keeps
  BY <1>3, <1>5 DEF Exit
<1>6. QED
  BY <1>2, <1>4, <1>5 DEF Next


\* Every row is in one place, and is moved from one to the next.
LEMMA SweepStep ==
    ASSUME TypeOK, SweepOnce, Next PROVE SweepOnce'
<1> USE StopCommandAssumption DEF SweepOnce, Attempting
<1>1. CASE Scan
  BY <1>1 DEF Scan, osVars, envVars, sweepVars, Goto, Finish, Succeed, Fail, Hit, Turn, IsFirst
<1>2. CASE Detect
  BY <1>2 DEF Detect, osVars, envVars, sweepVars, Goto, Finish, Succeed, Fail, Hit, Turn, IsFirst
<1>3. CASE Match
  <2>1. todo = {} /\ stopped = {} /\ failed = {} /\ DOMAIN plan' = Matched
    BY <1>3 DEF Match
  <2>2. QED
    BY <1>3, <2>1 DEF Match, Goto, Finish
<1>4. ASSUME NEW r \in todo, RefuseHelper(r) PROVE SweepOnce'
  BY <1>4 DEF RefuseHelper, osVars, envVars, sweepVars, Goto, Finish, Succeed, Fail, Hit, Turn, IsFirst
<1>5. ASSUME NEW r \in todo, Identify(r) PROVE SweepOnce'
  BY <1>5 DEF Identify, osVars, envVars, sweepVars, Goto, Finish, Succeed, Fail, Hit, Turn, IsFirst
<1>6. CASE Route
  BY <1>6 DEF Route, osVars, envVars, sweepVars, Goto, Finish, Succeed, Fail, Hit, Turn, IsFirst
<1>7. CASE Lookup
  BY <1>7 DEF Lookup, osVars, envVars, sweepVars, Goto, Finish, Succeed, Fail, Hit, Turn, IsFirst
<1>8. CASE Manager
  BY <1>8 DEF Manager, osVars, envVars, sweepVars, Goto, Finish, Succeed, Fail, Hit, Turn, IsFirst
<1>9. CASE Term
  BY <1>9 DEF Term, osVars, envVars, sweepVars, Goto, Finish, Succeed, Fail, Hit, Turn, IsFirst
<1>10. CASE SweepDone
  BY <1>10 DEF SweepDone, osVars, envVars, sweepVars, Goto, Finish, Succeed, Fail, Hit, Turn, IsFirst
<1>11. CASE Probe
  BY <1>11 DEF Probe, osVars, envVars, sweepVars, Goto, Finish, Succeed, Fail, Hit, Turn, IsFirst
<1>12. ASSUME NEW pid \in PIDs, NEW p \in Programs, Spawn(pid, p) PROVE SweepOnce'
  BY <1>12 DEF Spawn, osVars, envVars, sweepVars, Goto, Finish, Succeed, Fail, Hit, Turn, IsFirst
<1>13. ASSUME NEW i \in live, Exit(i) PROVE SweepOnce'
  BY <1>13 DEF Exit, osVars, envVars, sweepVars, Goto, Finish, Succeed, Fail, Hit, Turn, IsFirst
<1>14. QED
  BY <1>1, <1>2, <1>3, <1>4, <1>5, <1>6, <1>7, <1>8, <1>9, <1>10, <1>11, <1>12, <1>13 DEF Next, Command

\* What is addressed, and what is known of a row, does not change any more.
LEMMA RowsStay ==
    ASSUME TypeOK, Next, UNCHANGED <<rows, started, listed>>
    PROVE  /\ Matched' = Matched
           /\ \A r \in rows : /\ PID(r)' = PID(r) /\ Prog(r)' = Prog(r)
                              /\ LabelOf(PID(r))' = LabelOf(PID(r))
           /\ \A r \in rows : r \in live' => r \in live
<1>1. \A r \in rows : PID(r)' = PID(r) /\ Prog(r)' = Prog(r) /\ (r \in live' => r \in live)
  BY History DEF TypeOK
<1>2. target' = target
  BY History
<1>3. \A lo, hi : OnPorts(lo, hi)' = OnPorts(lo, hi)
  BY <1>1 DEF OnPorts
<1>4. {r \in rows : PID(r) = target.number}' = {r \in rows : PID(r) = target.number}
  BY <1>1, <1>2
<1>5. {r \in rows : Within(Prog(r).cwd, target.dir)}' = {r \in rows : Within(Prog(r).cwd, target.dir)}
  BY <1>1, <1>2 DEF Within
<1>6. Matched' = Matched
  BY <1>2, <1>3, <1>4, <1>5 DEF Matched
<1>7. QED
  BY <1>1, <1>6 DEF LabelOf


\* What was said of the rows is said once, and of what launchd has listed.
LEMMA PlanStep ==
    ASSUME TypeOK, SystemInv, SweepOnce, PlanInv, Next PROVE PlanInv'
<1> USE StopCommandAssumption
<1>1. CASE Scan
  <2>1. plan' = <<>> /\ listed' = <<>> /\ ~detected' /\ pc' \in {"detect", "over"}
    BY <1>1 DEF Scan, SweepOnce, PlanInv, sweepVars, Goto, Finish
  <2>2. \A r \in rows' : LabelOf(PID(r))' = NoLabel
    BY <2>1 DEF LabelOf
  <2>3. QED
    BY <2>1, <2>2 DEF PlanInv
<1>2. CASE Detect
  <2>1. plan' = <<>> /\ pc' = "match" /\ procs' = procs /\ live' = live /\ rows' = rows
    BY <1>2 DEF Detect, SweepOnce, osVars, sweepVars, Goto
  <2>2. ASSUME NEW r \in rows', r \in live'
        PROVE  LabelOf(PID(r))' = Prog(r)'.job \/ (~detected' /\ LabelOf(PID(r))' = NoLabel)
    <3>1. r \in live /\ r \in 1 .. Len(procs) /\ PID(r)' = PID(r) /\ Prog(r)' = Prog(r)
      BY <2>1, <2>2 DEF TypeOK, PID, Prog
    <3>2. CASE listed' = <<>> /\ detected' = FALSE
      BY <3>2 DEF LabelOf
    <3>3. CASE listed' = LaunchdByPID
      <4>1. Prog(r).job # NoLabel => PID(r) \in DOMAIN LaunchdByPID
        BY <3>1, ListFacts
      <4>2. PID(r) \in DOMAIN LaunchdByPID => LaunchdByPID[PID(r)] = Prog(r).job
        BY <3>1, ListFacts
      <4>3. QED
        BY <3>1, <3>3, <4>1, <4>2 DEF LabelOf
    <3>4. QED
      BY <1>2, <3>2, <3>3 DEF Detect
  <2>3. QED
    BY <2>1, <2>2 DEF PlanInv
<1>3. CASE Match
  <2>1. /\ plan' = [r \in Matched |-> Profile(r)] /\ UNCHANGED <<rows, started, listed, detected>>
        /\ pc' \notin {"scan", "detect"}
    BY <1>3 DEF Match, envVars, Goto, Finish
  <2>2. /\ Matched' = Matched
        /\ \A r \in rows : /\ PID(r)' = PID(r) /\ Prog(r)' = Prog(r)
                           /\ LabelOf(PID(r))' = LabelOf(PID(r))
                           /\ r \in live' => r \in live
    BY <2>1, RowsStay
  <2>3. Matched \subseteq rows
    BY MatchFacts
  <2>4. \A r \in Matched :
          /\ Prog(r).helper => Profile(r).kind = "avoid"
          /\ Profile(r).kind = "brew" => Prog(r).formula # NoFormula
          /\ Profile(r).kind = "launchd" <=> Profile(r).label # NoLabel
          /\ Profile(r).kind = "launchd" => Profile(r).label = LabelOf(PID(r))
          /\ Profile(r).kind = "term" => LabelOf(PID(r)) = NoLabel
    BY <2>3, ProfileFacts
  <2>5. \A r \in DOMAIN plan' :
          /\ Prog(r)'.helper => plan'[r].kind = "avoid"
          /\ plan'[r].kind = "brew" => Prog(r)'.formula # NoFormula
          /\ plan'[r].kind = "launchd" <=> plan'[r].label # NoLabel
          /\ plan'[r].kind = "launchd" => plan'[r].label = LabelOf(PID(r))'
          /\ plan'[r].kind = "term" => LabelOf(PID(r))' = NoLabel
    BY <2>1, <2>2, <2>3, <2>4
  <2>6. \A r \in rows' : r \in live' =>
          LabelOf(PID(r))' = Prog(r)'.job \/ (~detected' /\ LabelOf(PID(r))' = NoLabel)
    BY <2>1, <2>2 DEF PlanInv
  <2>7. QED
    BY <2>1, <2>2, <2>5, <2>6 DEF PlanInv
<1>4. CASE /\ UNCHANGED <<plan, rows, started, listed, detected>>
           /\ pc' \in {"scan", "detect"} => pc' = pc
  <2>1. /\ Matched' = Matched
        /\ \A r \in rows : /\ PID(r)' = PID(r) /\ Prog(r)' = Prog(r)
                           /\ LabelOf(PID(r))' = LabelOf(PID(r))
                           /\ r \in live' => r \in live
    BY <1>4, RowsStay
  <2>2. DOMAIN plan \subseteq rows
    BY DEF TypeOK
  <2>3. QED
    BY <1>4, <2>1, <2>2 DEF PlanInv
<1>5. CASE Command /\ ~Scan /\ ~Detect /\ ~Match
  <2>1. /\ UNCHANGED <<plan, rows, started, listed, detected>>
        /\ pc' \in {"scan", "detect"} => pc' = pc
    BY <1>5 DEF Command, RefuseHelper, Identify, Route, Lookup, Manager, Term, SweepDone, Probe,
       envVars, sweepVars, Goto, Finish, Succeed, Fail
  <2>2. QED
    BY <1>4, <2>1
<1>6. CASE (\E pid \in PIDs, p \in Programs : Spawn(pid, p)) \/ (\E i \in live : Exit(i))
  BY <1>4, <1>6 DEF Spawn, Exit, envVars, sweepVars
<1>7. QED
  BY <1>1, <1>2, <1>3, <1>5, <1>6 DEF Next


\* What an attempt has established is not undone by what the machine does.
LEMMA AttemptStep ==
    ASSUME TypeOK, SystemInv, SweepOnce, PlanInv, AttemptInv, Next PROVE AttemptInv'
<1>1. CASE Scan \/ Detect \/ Match \/ SweepDone \/ Probe \/ Manager \/ Term
  BY <1>1 DEF Scan, Detect, Match, SweepDone, Probe, Manager, Term, AttemptInv, Attempting,
     Goto, Finish, Succeed, Fail
<1>2. ASSUME NEW r \in todo, RefuseHelper(r) PROVE AttemptInv'
  BY <1>2 DEF RefuseHelper, Turn, AttemptInv, Attempting
<1>3. ASSUME NEW r \in todo, Identify(r) PROVE AttemptInv'
  <2>1. CASE r \in live /\ Goto("route")
    <3>1. /\ row' = r /\ known' = Len(procs) /\ UNCHANGED <<procs, live>> /\ ~Prog(r).helper
          /\ pc' = "route"
      BY <1>3, <2>1 DEF Identify, Turn, osVars, Goto
    <3>2. r <= Len(procs)
      BY <2>1, LenProperties DEF TypeOK
    <3>3. \A i \in live : PID(i) = PID(r) => i = r
      BY <2>1 DEF SystemInv
    <3>4. QED
      BY <3>1, <3>2, <3>3 DEF AttemptInv, PID, Prog
  <2>2. CASE pc' = pc
    BY <1>3, <2>2 DEF Identify, Turn, AttemptInv, Attempting
  <2>3. QED
    BY <1>3, <2>1, <2>2 DEF Identify
<1>4. CASE Route
  <2>1. UNCHANGED <<procs, live, mode, plan, row, known>>
    BY <1>4 DEF Route, osVars
  <2>2. \/ pc' = "sweep"
        \/ pc' = "lookup" /\ (plan[row].kind = "brew" \/ (plan[row].kind = "launchd" /\ mode = "stop"))
        \/ pc' = "term" /\ plan[row].kind = "term" /\ mode = "stop"
    BY <1>4 DEF Route, Goto, Fail
  <2>3. Attempting
    BY <1>4 DEF Route, Attempting
  <2>4. QED
    BY <2>1, <2>2, <2>3 DEF AttemptInv, Attempting, PID, Prog
<1>5. CASE Lookup
  <2>1. UNCHANGED <<procs, live, mode, plan, row, known>> /\ pc = "lookup"
    BY <1>5 DEF Lookup, osVars
  <2>2. CASE pc' = "sweep"
    BY <2>2 DEF AttemptInv, Attempting
  <2>3. CASE {PID(i) : i \in Running(Service)} = {PID(row)} /\ pc' = "manager"
    <3>1. \A i \in Running(Service) : i \in live /\ PID(i) = PID(row)
      BY <2>3 DEF Running
    <3>2. \A i \in Running(Service) : i <= known => i = row
      BY <2>1, <3>1 DEF AttemptInv, Attempting
    <3>3. row \in live => row \in Running(Service)
      <4>1. PICK j \in Running(Service) : PID(j) = PID(row)
        BY <2>3
      <4>2. QED
        BY <3>1, <4>1 DEF SystemInv
    <3>4. Running(Service)' = Running(Service)
      BY <2>1 DEF Running, Service, Prog
    <3>5. QED
      BY <2>1, <2>3, <3>2, <3>3, <3>4 DEF AttemptInv, Attempting, PID, Prog
  <2>4. QED
    BY <1>5, <2>2, <2>3 DEF Lookup, Goto, Fail
<1>6. CASE (\E pid \in PIDs, p \in Programs : Spawn(pid, p)) \/ (\E i \in live : Exit(i))
  <2>1. UNCHANGED <<pc, mode, plan, row, known>>
    BY <1>6 DEF Spawn, Exit, sweepVars
  <2>2. /\ \A i \in 1 .. Len(procs) : PID(i)' = PID(i) /\ Prog(i)' = Prog(i)
        /\ \A i \in 1 .. Len(procs) : i \in live' => i \in live
    BY History
  <2>3. live' \subseteq live \cup {Len(procs) + 1} /\ Len(procs) \in Nat
    BY <1>6, LenProperties DEF Spawn, Exit, TypeOK
  <2>4. known \in 0 .. Len(procs) /\ live \subseteq 1 .. Len(procs) /\ DOMAIN plan \subseteq 1 .. Len(procs)
    BY DEF TypeOK
  <2>5. \A i \in live' : i <= known => i \in live /\ i \in 1 .. Len(procs)
    BY <2>3, <2>4
  <2>6. SUFFICES ASSUME Attempting PROVE AttemptInv'
    BY <2>1 DEF AttemptInv, Attempting
  <2>7. row \in 1 .. Len(procs)
    BY <2>4, <2>6 DEF SweepOnce
  <2>8. Service' = Service
    BY <2>1, <2>2, <2>7 DEF Service
  <2>9. \A i \in Running(Service)' : i <= known => i \in Running(Service)
    BY <2>2, <2>5, <2>8 DEF Running
  <2>10. row \in live' /\ row \in Running(Service) => row \in Running(Service)'
    BY <2>2, <2>7, <2>8 DEF Running
  <2>11. /\ row <= known /\ ~Prog(row)'.helper
         /\ \A i \in live' : i <= known /\ PID(i)' = PID(row)' => i = row
    <3>1. /\ row <= known /\ ~Prog(row).helper
          /\ \A i \in live : i <= known /\ PID(i) = PID(row) => i = row
      BY <2>6 DEF AttemptInv
    <3>2. PID(row)' = PID(row) /\ Prog(row)' = Prog(row)
      BY <2>1, <2>2, <2>7
    <3>3. \A i \in live' : i <= known => i \in live /\ PID(i)' = PID(i)
      BY <2>2, <2>5
    <3>4. QED
      BY <3>1, <3>2, <3>3
  <2>12. pc = "manager" =>
           /\ \A i \in Running(Service)' : i <= known => i = row
           /\ row \in live' => row \in Running(Service)'
    BY <2>2, <2>7, <2>9, <2>10 DEF AttemptInv
  <2>13. QED
    BY <2>1, <2>11, <2>12 DEF AttemptInv, Attempting
<1>7. QED
  BY <1>1, <1>2, <1>3, <1>4, <1>5, <1>6 DEF Next, Command

\* Whom a signal or a manager hits: of those known, the row whose turn it is.
LEMMA HitFacts ==
    ASSUME TypeOK, SystemInv, SweepOnce, AttemptInv, Manager \/ Term
    PROVE  /\ row \in DOMAIN plan \ (todo \cup stopped \cup failed)
           /\ UNCHANGED <<mode, plan, procs, rows, listed, detected, row>> /\ pc' = "sweep"
           /\ victims' \subseteq victims \cup {row} /\ victims \subseteq victims'
           /\ row \in victims' /\ row \notin victims => row \in live
           /\ \/ /\ stopped' = stopped \cup {row} /\ failed' = failed
                 /\ row \in live => row \in victims'
              \/ failed' = failed \cup {row} /\ stopped' = stopped
           /\ plan[row].kind # "avoid" /\ (mode = "restart" => plan[row].kind = "brew")
           /\ live' \subseteq live /\ loaded' \subseteq loaded
<1>1. /\ row \in DOMAIN plan \ (todo \cup stopped \cup failed)
      /\ row <= known
      /\ \A i \in live : i <= known /\ PID(i) = PID(row) => i = row
  BY DEF Manager, Term, Attempting, SweepOnce, AttemptInv
<1>2. /\ UNCHANGED <<mode, plan, procs, rows, listed, detected, row>> /\ pc' = "sweep"
      /\ live' \subseteq live /\ loaded' \subseteq loaded
  BY DEF Manager, Term, osVars, envVars, Succeed, Fail, Goto
<1>3. \/ stopped' = stopped \cup {row} /\ failed' = failed
      \/ failed' = failed \cup {row} /\ stopped' = stopped
  BY DEF Manager, Term, Succeed, Fail
<1>4. CASE Manager
  <2>1. \A i \in Running(Service) : i <= known => i = row
    BY <1>4 DEF Manager, AttemptInv
  <2>2. victims' = victims \/ victims' = victims \cup {i \in Running(Service) : i <= known}
    BY <1>4 DEF Manager, Hit
  <2>3. Running(Service) \subseteq live
    BY DEF Running
  <2>4. victims' # victims \/ Succeed => victims' = victims \cup {i \in Running(Service) : i <= known}
    BY <1>1, <1>4 DEF Manager, Hit, Succeed, Fail
  <2>5. row \in live => row \in Running(Service)
    BY <1>4 DEF Manager, AttemptInv
  <2>6. plan[row].kind # "avoid" /\ (mode = "restart" => plan[row].kind = "brew")
    BY <1>4 DEF Manager, AttemptInv
  <2>7. CASE Succeed
    BY <1>1, <1>2, <2>1, <2>3, <2>4, <2>5, <2>6, <2>7 DEF Succeed
  <2>8. CASE Fail
    BY <1>1, <1>2, <2>1, <2>2, <2>3, <2>6, <2>8 DEF Fail
  <2>9. QED
    BY <1>4, <2>7, <2>8 DEF Manager
<1>5. CASE Term
  <2>1. Holder(PID(row)) \subseteq live /\ \A i \in Holder(PID(row)) : i <= known => i = row
    BY <1>1 DEF Holder
  <2>2. row \in live => row \in Holder(PID(row))
    BY DEF Holder
  <2>3. plan[row].kind = "term" /\ mode = "stop"
    BY <1>5 DEF Term, AttemptInv
  <2>4. CASE Hit(Holder(PID(row))) /\ Succeed
    BY <1>1, <1>2, <2>1, <2>2, <2>3, <2>4 DEF Hit, Succeed
  <2>5. CASE Fail /\ UNCHANGED victims
    BY <1>1, <1>2, <2>3, <2>5 DEF Fail
  <2>6. QED
    BY <1>5, <2>4, <2>5 DEF Term
<1>6. QED
  BY <1>4, <1>5

\* Without Manager and Term nobody is hit and nothing is stopped.
LEMMA NothingHit ==
    ASSUME Next, ~Manager, ~Term
    PROVE  UNCHANGED <<victims, stopped>> /\ failed \subseteq failed'
  BY DEF Next, Command, Scan, Detect, Match, RefuseHelper, Identify, Route, Lookup, SweepDone,
     Probe, Spawn, Exit, sweepVars, Fail

\* Only what was to be hit is hit, and what has succeeded was hit or has gone.
LEMMA OutcomeStep ==
    ASSUME TypeOK, SystemInv, SweepOnce, AttemptInv, OutcomeInv, Next PROVE OutcomeInv'
<1>1. /\ mode' = mode /\ \A i \in 1 .. Len(procs) : i \in live' => i \in live
  BY History
<1>2. stopped \subseteq DOMAIN plan /\ DOMAIN plan \subseteq 1 .. Len(procs)
  BY DEF TypeOK, SweepOnce
<1>3. CASE Manager \/ Term
  BY <1>1, <1>2, <1>3, HitFacts DEF OutcomeInv
<1>4. CASE ~Manager /\ ~Term
  <2>1. UNCHANGED <<victims, stopped>> /\ failed \subseteq failed'
    BY <1>4, NothingHit
  <2>2. plan' = plan \/ DOMAIN plan = {}
    <3>1. Match => DOMAIN plan = {}
      BY DEF Match, SweepOnce
    <3>2. ~Match => plan' = plan
      BY <1>4 DEF Next, Command, Scan, Detect, RefuseHelper, Identify, Route, Lookup,
         SweepDone, Probe, Spawn, Exit, sweepVars
    <3>3. QED
      BY <3>1, <3>2
  <2>3. victims \subseteq DOMAIN plan
    BY DEF OutcomeInv, SweepOnce
  <2>4. \A r \in stopped' : r \in victims' \/ r \notin live'
    BY <1>1, <1>2, <2>1 DEF OutcomeInv
  <2>5. QED
    BY <1>1, <2>1, <2>2, <2>3, <2>4 DEF OutcomeInv
<1>5. QED
  BY <1>3, <1>4

-----------------------------------------------------------------------------
(* Theorems *)

\* CommandInv holds of a command that is given on any machine.
LEMMA InitInv == Init => CommandInv
<1> SUFFICES ASSUME Init PROVE CommandInv
  OBVIOUS
<1> USE StopCommandAssumption
<1>1. DOMAIN procs = 1 .. StartProcs /\ procs \in [1 .. StartProcs -> [pid : PIDs, program : Programs]]
  BY DEF Init
<1>2. procs \in Seq([pid : PIDs, program : Programs])
  <2> DEFINE Procs == [pid : PIDs, program : Programs]
  <2>1. procs \in [1 .. StartProcs -> Procs] /\ StartProcs \in Nat
    BY <1>1
  <2> HIDE DEF Procs
  <2>2. procs \in Seq(Procs)
    BY <2>1, SeqDef
  <2>3. QED
    BY <2>2 DEF Procs
<1>3. Len(procs) = StartProcs
  BY <1>1, <1>2, LenProperties
<1> DEFINE OsTypes == /\ procs \in Seq([pid : PIDs, program : Programs])
                      /\ Len(procs) <= MaxProcs
                      /\ live \subseteq 1 .. Len(procs) /\ loaded \subseteq Labels
<1>4. OsTypes
  BY <1>1, <1>2, <1>3 DEF Init
<1>5. TypeOK
  <2>1. /\ mode \in Modes /\ target \in Targets /\ pc \in Points
        /\ result \in {"none", "ok", "failed", "timeout"}
    BY DEF Init, Points
  <2>2. /\ rows = {} /\ row = 0 /\ started = {} /\ DOMAIN listed = {} /\ DOMAIN plan = {}
        /\ known = 0 /\ victims = {}
    BY DEF Init
  <2>3. 0 \in 0 .. Len(procs) /\ detected \in BOOLEAN
    <3>1. detected = FALSE
      BY DEF Init
    <3>2. detected \in BOOLEAN
      BY <3>1
    <3>3. StartProcs \in Nat /\ 0 \in 0 .. StartProcs
      OBVIOUS
    <3>4. QED
      BY <1>3, <3>2, <3>3
  <2>4. QED
    BY <1>4, <2>1, <2>2, <2>3 DEF TypeOK
<1>6. SystemInv
  <2>1. \A i, j \in 1 .. StartProcs : i < j =>
          /\ PID(i) < PID(j) /\ (Prog(i).job = Prog(j).job => Prog(i).job = NoLabel)
    BY <1>1 DEF Init, PID, Prog
  <2>2. \A i \in 1 .. StartProcs : PID(i) \in Nat
    BY <1>1 DEF PID
  <2>3. ASSUME NEW i \in live, NEW j \in live
        PROVE  /\ PID(i) = PID(j) => i = j
               /\ Prog(i).job = Prog(j).job /\ Prog(i).job # NoLabel => i = j
    <3>1. i \in 1 .. StartProcs /\ j \in 1 .. StartProcs
      BY <1>1 DEF Init
    <3>2. i < j \/ j < i \/ i = j
      BY <3>1
    <3>3. QED
      BY <2>1, <2>2, <3>1, <3>2
  <2>4. QED
    BY <2>3 DEF SystemInv
<1>7. SweepOnce /\ AttemptInv /\ OutcomeInv
  BY DEF Init, SweepOnce, AttemptInv, OutcomeInv, Attempting
<1>8. PlanInv
  BY DEF Init, PlanInv
<1>9. QED
  BY <1>6, <1>7, <1>8, <1>5 DEF CommandInv

\* ... and every step keeps it.
LEMMA StepInv == CommandInv /\ [Next]_vars => CommandInv'
<1> SUFFICES ASSUME CommandInv, [Next]_vars PROVE CommandInv'
  OBVIOUS
<1> USE DEF CommandInv
<1>1. CASE Next
  BY <1>1, TypeStep, SystemStep, SweepStep, PlanStep, AttemptStep, OutcomeStep
<1>2. CASE UNCHANGED vars
  <2>1. TypeOK' /\ SystemInv'
    BY <1>2 DEF vars, osVars, envVars, sweepVars, TypeOK, SystemInv, PID, Prog
  <2>2. SweepOnce' /\ AttemptInv' /\ OutcomeInv'
    BY <1>2 DEF vars, osVars, envVars, sweepVars, SweepOnce, AttemptInv, OutcomeInv, Attempting,
       Running, Service, PID, Prog
  <2>3. PlanInv'
    BY <1>2 DEF vars, osVars, envVars, sweepVars, PlanInv, Matched, OnPorts, Within, LabelOf,
       PID, Prog
  <2>4. QED
    BY <2>1, <2>2, <2>3
<1>3. QED
  BY <1>1, <1>2

\* The inductive invariant of the command and the machine under it.
THEOREM CommandCorrect == Spec => []CommandInv
  BY InitInv, StepInv, PTL DEF Spec

\* README.md, "no signal without proven identity": whatever starts, ends and
\* takes over a PID while the rows are dealt with, of the processes known when
\* the identity was checked only those are hit that the argument addresses.
THEOREM NobodyElseIsHit == Spec => []OnlyTheTargetIsHit
<1>1. CommandInv => OnlyTheTargetIsHit
  <2> SUFFICES ASSUME CommandInv, NEW i \in victims
               PROVE  /\ i \in DOMAIN plan /\ Addressed(i)
                      /\ plan[i].kind # "avoid" /\ ~Prog(i).helper
                      /\ mode = "stop" \/ (mode = "restart" /\ Prog(i).formula # NoFormula)
    BY DEF OnlyTheTargetIsHit
  <2>1. i \in stopped \cup failed /\ plan[i].kind # "avoid" /\ (mode = "restart" => plan[i].kind = "brew")
    BY DEF CommandInv, OutcomeInv
  <2>2. i \in DOMAIN plan /\ mode \notin {"preview", "watch"} /\ mode \in Modes
    BY <2>1 DEF CommandInv, SweepOnce, TypeOK
  <2>3. i \in Matched /\ (Prog(i).helper => plan[i].kind = "avoid")
          /\ (plan[i].kind = "brew" => Prog(i).formula # NoFormula)
    BY <2>2 DEF CommandInv, PlanInv
  <2>4. Addressed(i)
    BY <2>3, MatchFacts DEF CommandInv
  <2>5. QED
    BY <2>1, <2>2, <2>3, <2>4 DEF Modes
<1>2. QED
  BY <1>1, CommandCorrect, PTL

\* docs/COMPATIBILITY.md:132-134: what a preview promises, a stop in the same
\* state would do, the binary of a formula that brew does not run excepted.
THEOREM PreviewIsHonest == Spec => []PreviewKeepsItsWord
<1>1. CommandInv => PreviewKeepsItsWord
  <2> SUFFICES ASSUME CommandInv, NEW r \in DOMAIN plan, r \in live, plan[r].kind # "avoid"
               PROVE  \/ CouldBeStopped(r)
                      \/ Prog(r).formula # NoFormula /\ Prog(r).job # BrewLabel[Prog(r).formula]
    BY DEF PreviewKeepsItsWord
  <2>1. /\ plan[r] \in [kind : Kinds, label : Labels \cup {NoLabel}]
        /\ r \in rows /\ r \in 1 .. Len(procs)
    BY DEF CommandInv, TypeOK
  <2>2. /\ ~Prog(r).helper
        /\ plan[r].kind = "brew" => Prog(r).formula # NoFormula
        /\ plan[r].kind = "launchd" => plan[r].label = Prog(r).job /\ Prog(r).job # NoLabel
    BY <2>1 DEF CommandInv, PlanInv
  <2>3. Prog(r).job # NoLabel => Running(Prog(r).job) = {r}
    BY DEF CommandInv, SystemInv, Running
  <2>4. Prog(r).formula # NoFormula => BrewLabel[Prog(r).formula] # NoLabel
    BY <2>1, ProcFacts, StopCommandAssumption DEF CommandInv
  <2>5. QED
    BY <2>1, <2>2, <2>3, <2>4 DEF CouldBeStopped, Kinds
<1>2. QED
  BY <1>1, CommandCorrect, PTL

\* docs/COMPATIBILITY.md:18-19: exit code 0 is never given for a sweep of which
\* a row was neither hit nor gone, for a preview that hit something, or for a
\* watched process that is still there.
THEOREM ZeroIsTrue == Spec => []ZeroMeansDone
<1>1. Init => ZeroMeansDone
  BY DEF Init, ZeroMeansDone
<1>2. CommandInv /\ ZeroMeansDone /\ [Next]_vars => ZeroMeansDone'
  <2> SUFFICES ASSUME CommandInv, ZeroMeansDone, [Next]_vars, result' = "ok"
               PROVE  ZeroMeansDone'
    BY DEF ZeroMeansDone
  <2> USE DEF CommandInv
  <2>1. CASE result = "ok"
    <3>1. pc = "over"
      BY <2>1 DEF SweepOnce
    <3>2. ~Next
      BY <3>1 DEF Next, Command, Scan, Detect, Match, RefuseHelper, Identify, Route, Lookup,
         Manager, Term, SweepDone, Probe, Spawn, Exit, Turn, Changing
    <3>3. QED
      BY <3>2 DEF ZeroMeansDone, vars, osVars, envVars, sweepVars
  <2>2. CASE Match
    <3>1. DOMAIN plan' = Matched /\ Matched # {} /\ mode = "preview" /\ mode' = mode /\ victims' = victims
      BY <2>2 DEF Match, SweepOnce, Goto, Finish
    <3>2. QED
      BY <3>1 DEF ZeroMeansDone, SweepOnce
  <2>3. CASE SweepDone
    <3>1. /\ failed = {} /\ todo = {} /\ pc = "sweep"
          /\ UNCHANGED <<plan, mode, victims, live>>
      BY <2>3 DEF SweepDone, Finish, osVars, sweepVars
    <3>2. DOMAIN plan = stopped /\ DOMAIN plan # {} /\ mode \in {"stop", "restart"}
      BY <3>1 DEF SweepOnce
    <3>3. QED
      BY <3>1, <3>2 DEF ZeroMeansDone, OutcomeInv
  <2>4. CASE Probe
    <3>1. /\ pc \in {"first", "poll"} /\ Holder(PID(row)) = {}
          /\ UNCHANGED <<plan, mode, victims, live, row>>
      BY <2>4 DEF Probe, Finish, Goto, SweepOnce, osVars, sweepVars
    <3>2. mode = "watch" /\ DOMAIN plan # {}
      BY <3>1 DEF SweepOnce
    <3>3. row \notin live
      BY <3>1 DEF Holder
    <3>4. QED
      BY <3>1, <3>2, <3>3 DEF ZeroMeansDone
  <2>5. CASE result # "ok" /\ ~Match /\ ~SweepDone /\ ~Probe
    BY <2>5 DEF Next, Command, Scan, Detect, RefuseHelper, Identify, Route, Lookup, Manager,
       Term, Spawn, Exit, Goto, Finish, Succeed, Fail, vars
  <2>6. QED
    BY <2>1, <2>2, <2>3, <2>4, <2>5
<1>3. QED
  BY <1>1, <1>2, CommandCorrect, PTL DEF Spec

\* README.md, "the supervisor is the thing to stop": what a stop has hit with
\* success is not under a job that launchd would start it from again.
THEOREM SupervisorsAreStopped == Spec => []SupervisedStaysDown
<1>1. Init => SupervisedStaysDown
  BY DEF Init, SupervisedStaysDown
<1>2. CommandInv /\ SupervisedStaysDown /\ [Next]_vars => SupervisedStaysDown'
  <2> SUFFICES ASSUME CommandInv, SupervisedStaysDown, [Next]_vars PROVE SupervisedStaysDown'
    OBVIOUS
  <2> USE DEF CommandInv
  <2>1. victims \subseteq DOMAIN plan /\ DOMAIN plan \subseteq rows /\ rows \subseteq 1 .. Len(procs)
    BY DEF TypeOK, SweepOnce, OutcomeInv
  <2>2. CASE UNCHANGED vars
    BY <2>2 DEF SupervisedStaysDown, vars, osVars, envVars, sweepVars, Prog
  <2>3. CASE Manager \/ Term
    <3>1. ASSUME NEW r \in victims' \cap stopped', mode' = "stop", detected'
          PROVE  Prog(r)'.job \notin loaded'
      <4>1. /\ UNCHANGED <<mode, plan, procs, rows, listed, detected, row>> /\ loaded' \subseteq loaded
            /\ r \in (victims \cap stopped) \cup {row} /\ victims \subseteq stopped \cup failed
            /\ row \in DOMAIN plan \ (todo \cup stopped \cup failed)
        BY <2>3, <3>1, HitFacts DEF OutcomeInv
      <4>2. CASE r \in victims \cap stopped
        BY <3>1, <4>1, <4>2 DEF SupervisedStaysDown, Prog
      <4>3. CASE r = row
        <5>1. row \in live /\ row \in victims' /\ row \notin victims /\ row \in stopped'
          BY <2>3, <3>1, <4>1, <4>3, HitFacts
        <5>2. CASE Manager
          <6>1. row \in Running(Service) /\ loaded' = loaded \ {Service}
            BY <3>1, <4>1, <5>1, <5>2 DEF Manager, AttemptInv
          <6>2. QED
            BY <4>1, <4>3, <6>1 DEF Running, Prog
        <5>3. CASE Term
          <6>1. plan[row].kind = "term"
            BY <5>3 DEF Term, AttemptInv
          <6>2. LabelOf(PID(row)) = NoLabel
            BY <4>1, <6>1 DEF PlanInv
          <6>3. Prog(row).job = NoLabel
            BY <2>1, <3>1, <4>1, <5>1, <6>2 DEF PlanInv
          <6>4. QED
            BY <4>1, <4>3, <6>3, StopCommandAssumption DEF TypeOK, Prog
        <5>4. QED
          BY <2>3, <5>2, <5>3
      <4>4. QED
        BY <4>1, <4>2, <4>3
    <3>2. QED
      BY <3>1 DEF SupervisedStaysDown
  <2>4. CASE Next /\ ~Manager /\ ~Term
    <3>1. UNCHANGED <<victims, stopped>> /\ mode' = mode /\ loaded' \subseteq loaded
      BY <2>4, NothingHit, History
    <3>2. \A r \in victims : Prog(r)' = Prog(r)
      BY <2>1, <2>4, History
    <3>3. detected' = detected \/ victims = {}
      <4>1. Detect => DOMAIN plan = {}
        BY DEF Detect, SweepOnce
      <4>2. ~Detect => detected' = detected
        BY <2>4 DEF Next, Command, Scan, Match, RefuseHelper, Identify, Route, Lookup,
           SweepDone, Probe, Spawn, Exit, envVars
      <4>3. QED
        BY <2>1, <4>1, <4>2
    <3>4. QED
      BY <3>1, <3>2, <3>3 DEF SupervisedStaysDown
  <2>5. QED
    BY <2>2, <2>3, <2>4
<1>3. QED
  BY <1>1, <1>2, CommandCorrect, PTL DEF Spec

=============================================================================
