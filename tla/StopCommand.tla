------------------------------- MODULE StopCommand -------------------------------
(***************************************************************************)
(* One invocation of `le stop`, `le stop --dry-run`, `le restart` or `le   *)
(* watch` (cmd/cmd.go) over a machine that goes on: a scan, the profiles,  *)
(* the rows that the argument addresses, and then one attempt after the    *)
(* other (kill/kill.go), each of which may change what the next one finds. *)
(*                                                                         *)
(* A process is known by its number in the order of birth, which stands    *)
(* for its start time; what happens when that is missing, or has too few   *)
(* digits, is the subject of StopGuard.                                    *)
(***************************************************************************)
EXTENDS Profiles, FiniteSets

CONSTANTS
    PIDs, Ports,
    Programs,    \* what may run: attributes for Make, ports, cwd, launchd job
    Labels,      \* user-domain launchd labels
    BrewLabel,   \* the label of each formula's service: homebrew.mxcl.FORMULA
    Targets,     \* arguments of the commands
    StartProcs,  \* bound: processes there when the command is given
    MaxProcs     \* bound: processes born in a behaviour

Numbers == PIDs \cup Ports
NoDir == <<"unknown">>

Listening == [cmd : SUBSET Marks, dir : SUBSET Marks, helper : BOOLEAN, script : BOOLEAN,
              system : BOOLEAN, app : BOOLEAN, formula : DOMAIN BrewLabel \cup {NoFormula},
              ports : SUBSET Ports \ {{}}, cwd : Seq(STRING), job : Labels \cup {NoLabel}]

ASSUME StopCommandAssumption ==
    /\ PIDs \subseteq Nat /\ Ports \subseteq Nat
    /\ StartProcs \in Nat /\ MaxProcs \in Nat /\ StartProcs <= MaxProcs
    /\ NoLabel \notin Labels /\ NoFormula \notin DOMAIN BrewLabel
    /\ BrewLabel \in [DOMAIN BrewLabel -> Labels]
    /\ \A p \in Programs : p \in Listening
    /\ \A t \in Targets :
          \/ t.by = "number" /\ t.number \in Nat
          \/ t.by = "range" /\ t.lo \in Nat /\ t.hi \in Nat
          \/ t.by = "dir" /\ t.dir \in Seq(STRING)

VARIABLES
    \* --------------------------------------------------- operating system
    procs,     \* every process ever born, in order: [pid, program]
    live,      \* numbers of those that have not exited
    loaded,    \* labels that launchd keeps a process under
    \* --------------------------------------------------------- the command
    mode, target,
    pc,
    rows,      \* what the scan has listed
    started,   \* Env.BrewStarted: formulae
    listed,    \* Env.LaunchdByPID: labels by PID
    plan,      \* the addressed rows and what Make has said of them
    todo,      \* those whose turn has not come
    row,       \* the one whose turn it is
    stopped, failed,
    result,
    \* -------------------------------------------------------- observations
    detected,  \* launchctl has answered when the profiles were made
    known,     \* processes born before the identity of the row was checked
    victims    \* of these, the ones a signal or a manager has hit

osVars  == <<procs, live, loaded>>
envVars == <<rows, started, listed, detected>>
sweepVars == <<plan, todo, row, stopped, failed, known, victims>>
vars == <<osVars, mode, target, pc, result, envVars, sweepVars>>

Modes == {"stop", "preview", "restart", "watch"}
Points == {"scan", "detect", "match", "sweep", "route", "lookup", "manager", "term",
           "first", "poll", "over"}

ProcIDs == 1 .. MaxProcs
Prog(i) == procs[i].program
PID(i) == procs[i].pid
Holder(pid) == {i \in live : PID(i) = pid}
Running(label) == {i \in live : Prog(i).job = label}

TypeOK ==
    /\ procs \in Seq([pid : PIDs, program : Programs]) /\ Len(procs) <= MaxProcs
    /\ live \subseteq 1 .. Len(procs) /\ loaded \subseteq Labels
    /\ mode \in Modes /\ target \in Targets /\ pc \in Points
    /\ result \in {"none", "ok", "failed", "timeout"}
    /\ rows \subseteq 1 .. Len(procs) /\ row \in 0 .. Len(procs)
    /\ started \subseteq DOMAIN BrewLabel
    /\ DOMAIN listed \subseteq PIDs /\ \A pid \in DOMAIN listed : listed[pid] \in Labels
    /\ DOMAIN plan \subseteq rows
    /\ \A r \in DOMAIN plan : plan[r] \in [kind : Kinds, label : Labels \cup {NoLabel}]
    /\ detected \in BOOLEAN /\ known \in 0 .. Len(procs)
    /\ victims \subseteq 1 .. Len(procs)

\* Every PID is taken once; a label that is loaded may have no process just now.
Init ==
    /\ procs \in {s \in [1 .. StartProcs -> [pid : PIDs, program : Programs]] :
                    \A i, j \in DOMAIN s : i < j =>
                        s[i].pid < s[j].pid /\ (s[i].program.job = s[j].program.job =>
                                                s[i].program.job = NoLabel)}
    /\ live = DOMAIN procs
    /\ loaded = Labels
    /\ mode \in Modes /\ target \in Targets
    /\ mode \in {"restart", "watch"} => target.by # "dir"
    /\ pc = "scan" /\ result = "none"
    /\ rows = {} /\ started = {} /\ listed = <<>> /\ detected = FALSE
    /\ plan = <<>> /\ todo = {} /\ row = 0 /\ stopped = {} /\ failed = {}
    /\ known = 0 /\ victims = {}

Goto(point) == pc' = point /\ UNCHANGED result
Finish(r) == pc' = "over" /\ result' = r

-----------------------------------------------------------------------------
(* The operating system: in any state when the command begins, and changing  *)
(* until it is over                                                          *)

Changing == pc \notin {"scan", "over"}

\* A process is started by hand, or by launchd under a label that is loaded and
\* has none: KeepAlive.
Spawn(pid, program) ==
    /\ Changing /\ Len(procs) < MaxProcs
    /\ Holder(pid) = {}
    /\ program.job # NoLabel => program.job \in loaded /\ Running(program.job) = {}
    /\ procs' = Append(procs, [pid |-> pid, program |-> program])
    /\ live' = live \cup {Len(procs) + 1}
    /\ UNCHANGED <<loaded, mode, target, pc, result, envVars, sweepVars>>

Exit(i) ==
    /\ Changing /\ i \in live
    /\ live' = live \ {i}
    /\ UNCHANGED <<procs, loaded, mode, target, pc, result, envVars, sweepVars>>

-----------------------------------------------------------------------------
(* gather *)

Scan ==
    /\ pc = "scan"
    /\ \/ rows' = live /\ Goto("detect")
       \/ UNCHANGED rows /\ Finish("failed")
    /\ UNCHANGED <<osVars, mode, target, started, listed, detected, sweepVars>>

\* Detect, after the scan: each of the two lists may be empty because its
\* command could not be run.
LaunchdByPID ==
    [pid \in {PID(i) : i \in {j \in live : Prog(j).job # NoLabel}} |->
        Prog(CHOOSE i \in Holder(pid) : TRUE).job]

Detect ==
    /\ pc = "detect"
    /\ started' \in {{}, {f \in DOMAIN BrewLabel : BrewLabel[f] \in loaded}}
    /\ \/ listed' = LaunchdByPID /\ detected' = TRUE
       \/ listed' = <<>> /\ detected' = FALSE
    /\ Goto("match")
    /\ UNCHANGED <<osVars, mode, target, rows, sweepVars>>

-----------------------------------------------------------------------------
(* The rows that the argument addresses *)

\* withinDir compares whole components; a cwd that is not known is nowhere.
Within(cwd, dir) ==
    cwd # NoDir /\ Len(dir) <= Len(cwd) /\ SubSeq(cwd, 1, Len(dir)) = dir

OnPorts(lo, hi) == {r \in rows : Prog(r).ports \cap lo .. hi # {}}

\* A slip: a number is looked up among the ports and among the PIDs.
SlipMatched ==
    CASE target.by = "dir" -> {r \in rows : Within(Prog(r).cwd, target.dir)}
      [] target.by = "range" -> OnPorts(target.lo, target.hi)
      [] target.by = "number" ->
            OnPorts(target.number, target.number) \cup {r \in rows : PID(r) = target.number}

\* matchRows and matchDir: a number is a PID only where no row has that port.
Matched ==
    CASE target.by = "dir" -> {r \in rows : Within(Prog(r).cwd, target.dir)}
      [] target.by = "range" -> OnPorts(target.lo, target.hi)
      [] target.by = "number" ->
            LET onPort == OnPorts(target.number, target.number) IN
            IF onPort # {} THEN onPort ELSE {r \in rows : PID(r) = target.number}

LabelOf(pid) == IF pid \in DOMAIN listed THEN listed[pid] ELSE NoLabel
Profile(r) == Make(Prog(r), Prog(r).formula \in started, LabelOf(PID(r)))

\* sortListeners: by first port, then by PID.
Earlier(r, s) ==
    LET first(i) == CHOOSE p \in Prog(i).ports : \A q \in Prog(i).ports : p <= q IN
    first(r) < first(s) \/ (first(r) = first(s) /\ PID(r) <= PID(s))
IsFirst(r, set) == r \in set /\ \A s \in set : Earlier(r, s)

\* Nothing addressed is an error; a preview prints the plan and is done.
Match ==
    /\ pc = "match"
    /\ plan' = [r \in Matched |-> Profile(r)]
    /\ \/ Matched = {} /\ Finish("failed") /\ UNCHANGED <<todo, row>>
       \/ Matched # {} /\ mode = "preview" /\ Finish("ok") /\ UNCHANGED <<todo, row>>
       \/ Matched # {} /\ mode \in {"stop", "restart"}
            /\ todo' = Matched /\ Goto("sweep") /\ UNCHANGED row
       \/ Matched # {} /\ mode = "watch"
            /\ \E r \in Matched : IsFirst(r, Matched) /\ row' = r
            /\ Goto("first") /\ UNCHANGED todo
    /\ UNCHANGED <<osVars, mode, target, envVars, stopped, failed, known, victims>>

-----------------------------------------------------------------------------
(* kill.Stop and kill.Restart for one row after the other *)

\* The attempt on the row is over; the sweep goes on whatever it has come to.
Succeed == stopped' = stopped \cup {row} /\ Goto("sweep") /\ UNCHANGED failed
Fail    == failed' = failed \cup {row} /\ Goto("sweep") /\ UNCHANGED stopped

\* It is the turn of the first row that is left.
Turn(r) ==
    /\ pc = "sweep" /\ IsFirst(r, todo)
    /\ row' = r /\ todo' = todo \ {r}

\* A container helper is refused before anything is looked at.
RefuseHelper(r) ==
    /\ Turn(r) /\ Prog(r).helper
    /\ failed' = failed \cup {r}
    /\ UNCHANGED <<osVars, mode, target, pc, result, envVars, plan, stopped, known, victims>>

\* stillSame: the process that has the PID is the one that was listed.  It
\* fails too when ps cannot be run.
Identify(r) ==
    /\ Turn(r) /\ ~Prog(r).helper
    /\ known' = Len(procs)
    /\ \/ r \in live /\ Goto("route") /\ UNCHANGED failed
       \/ failed' = failed \cup {r} /\ UNCHANGED <<pc, result>>
    /\ UNCHANGED <<osVars, mode, target, envVars, plan, stopped, victims>>

\* The switch on StopKind: restart knows one kind only.
Route ==
    /\ pc = "route"
    /\ LET kind == plan[row].kind IN
       \/ (kind = "avoid" \/ (mode = "restart" /\ kind # "brew")) /\ Fail
       \/ kind = "brew" /\ Goto("lookup") /\ UNCHANGED <<stopped, failed>>
       \/ kind = "launchd" /\ mode = "stop" /\ Goto("lookup") /\ UNCHANGED <<stopped, failed>>
       \/ kind = "term" /\ mode = "stop" /\ Goto("term") /\ UNCHANGED <<stopped, failed>>
    /\ UNCHANGED <<osVars, mode, target, envVars, plan, todo, row, known, victims>>

Service == IF plan[row].kind = "brew" THEN BrewLabel[Prog(row).formula] ELSE plan[row].label

\* BrewServiceKnown and LaunchdLabelPID: the service still runs this process.
\* Either command may also fail.
Lookup ==
    /\ pc = "lookup"
    /\ \/ {PID(i) : i \in Running(Service)} = {PID(row)}
            /\ Goto("manager") /\ UNCHANGED <<stopped, failed>>
       \/ Fail
    /\ UNCHANGED <<osVars, mode, target, envVars, plan, todo, row, known, victims>>

Hit(set) == victims' = victims \cup {i \in set : i <= known}

\* brew services stop or launchctl bootout unloads the job and ends what runs
\* under it; brew services restart leaves it loaded.  A command that fails may
\* have done so all the same.
Manager ==
    /\ pc = "manager"
    /\ \/ /\ Hit(Running(Service))
          /\ live' = live \ Running(Service)
          /\ loaded' = IF mode = "restart" THEN loaded ELSE loaded \ {Service}
          /\ Succeed \/ Fail
       \/ Fail /\ UNCHANGED <<live, loaded, victims>>
    /\ UNCHANGED <<procs, mode, target, envVars, plan, todo, row, known>>

\* kill(2).  What the process does about it is its own affair.
Term ==
    /\ pc = "term"
    /\ \/ Holder(PID(row)) # {} /\ Hit(Holder(PID(row))) /\ Succeed
       \/ Fail /\ UNCHANGED victims
    /\ UNCHANGED <<osVars, mode, target, envVars, plan, todo, row, known>>

\* A slip: the exit code is that of the last row.
SlipSweepDone ==
    /\ pc = "sweep" /\ todo = {}
    /\ Finish(IF row \in failed THEN "failed" ELSE "ok")
    /\ UNCHANGED <<osVars, mode, target, envVars, sweepVars>>

\* Every row has had its turn.  The JSON array may fail to be written.
SweepDone ==
    /\ pc = "sweep" /\ todo = {}
    /\ \/ failed = {} /\ Finish("ok")
       \/ Finish("failed")
    /\ UNCHANGED <<osVars, mode, target, envVars, sweepVars>>

-----------------------------------------------------------------------------
(* WatchPID: kill(pid, 0) once a second.  It knows the PID and nothing else. *)

\* Gone, another user's, or there; only later is gone what was waited for.
Probe ==
    /\ pc \in {"first", "poll"}
    /\ \/ Holder(PID(row)) = {} /\ Finish(IF pc = "first" THEN "failed" ELSE "ok")
       \/ Holder(PID(row)) # {} /\ Finish("failed")
       \/ Holder(PID(row)) # {} /\ Goto("poll")
       \/ Holder(PID(row)) # {} /\ Finish("timeout")
    /\ UNCHANGED <<osVars, mode, target, envVars, sweepVars>>

Command ==
    \/ Scan \/ Detect \/ Match
    \/ \E r \in todo : RefuseHelper(r) \/ Identify(r)
    \/ Route \/ Lookup \/ Manager \/ Term \/ SweepDone
    \/ Probe

Next ==
    \/ Command
    \/ \E pid \in PIDs, p \in Programs : Spawn(pid, p)
    \/ \E i \in live : Exit(i)

Spec == Init /\ [][Next]_vars

-----------------------------------------------------------------------------
(* The inductive invariant *)

Attempting == pc \in {"route", "lookup", "manager", "term"}

\* A PID and a job have one process at a time.
SystemInv ==
    \A i, j \in live :
        /\ PID(i) = PID(j) => i = j
        /\ Prog(i).job = Prog(j).job /\ Prog(i).job # NoLabel => i = j

\* Every addressed row is waiting, tried now, or has come out one way.
SweepOnce ==
    /\ pc \in {"scan", "detect", "match"} => plan = <<>>
    /\ todo \cup stopped \cup failed \subseteq DOMAIN plan
    /\ todo \cap (stopped \cup failed) = {} /\ stopped \cap failed = {}
    /\ Attempting => row \in DOMAIN plan \ (todo \cup stopped \cup failed)
    /\ pc = "sweep" => DOMAIN plan = todo \cup stopped \cup failed
    /\ Attempting => DOMAIN plan = todo \cup stopped \cup failed \cup {row}
    /\ pc = "sweep" \/ Attempting => mode \in {"stop", "restart"}
    /\ pc \in {"first", "poll"} => mode = "watch"
    /\ pc \in {"sweep", "first", "poll"} \/ Attempting => DOMAIN plan # {}
    /\ result # "none" => pc = "over"
    /\ mode \in {"preview", "watch"} => stopped = {} /\ failed = {} /\ victims = {}

\* What is addressed, and what Make may have said about it: container helpers
\* are refused in the profile as in kill, so a preview does not promise them
\* (cmd.go:820-822), and a label is only ever that of the row's own PID, which
\* is the row's own job if launchctl answered and the process is still there.
PlanInv ==
    /\ DOMAIN plan \subseteq Matched
    /\ \A r \in DOMAIN plan :
          /\ Prog(r).helper => plan[r].kind = "avoid"
          /\ plan[r].kind = "brew" => Prog(r).formula # NoFormula
          /\ plan[r].kind = "launchd" <=> plan[r].label # NoLabel
          /\ plan[r].kind = "launchd" => plan[r].label = LabelOf(PID(r))
          /\ plan[r].kind = "term" => LabelOf(PID(r)) = NoLabel
    /\ pc \in {"scan", "detect"} => listed = <<>> /\ ~detected
    /\ \A r \in rows \cap live :
          LabelOf(PID(r)) = Prog(r).job \/ (~detected /\ LabelOf(PID(r)) = NoLabel)

\* What an attempt has established when it comes to act: of the processes known
\* when the identity was checked, the row's PID and its service have no other.
AttemptInv ==
    /\ Attempting =>
          /\ row <= known /\ ~Prog(row).helper
          /\ \A i \in live : i <= known /\ PID(i) = PID(row) => i = row
    /\ pc \in {"lookup", "manager"} =>
          plan[row].kind = "brew" \/ (plan[row].kind = "launchd" /\ mode = "stop")
    /\ pc = "manager" =>
          /\ \A i \in Running(Service) : i <= known => i = row
          /\ row \in live => row \in Running(Service)
    /\ pc = "term" => plan[row].kind = "term" /\ mode = "stop"

\* What the attempts that are over have come to.
OutcomeInv ==
    /\ \A r \in stopped : r \in victims \/ r \notin live
    /\ \A i \in victims :
          /\ i \in stopped \cup failed
          /\ plan[i].kind # "avoid" /\ (mode = "restart" => plan[i].kind = "brew")

CommandInv == TypeOK /\ SystemInv /\ SweepOnce /\ PlanInv /\ AttemptInv /\ OutcomeInv

-----------------------------------------------------------------------------
(* Properties *)

\* README.md, "no signal without proven identity", for the whole command: of
\* the processes that were there when the identity was checked, only those are
\* hit that the argument addresses (a PID only if no row has that port), whose
\* profile is not a refusal, and for restart only those of a formula.
Addressed(i) ==
    \/ target.by = "dir" /\ Within(Prog(i).cwd, target.dir)
    \/ target.by = "range" /\ \E p \in Prog(i).ports : target.lo <= p /\ p <= target.hi
    \/ target.by = "number" /\ target.number \in Prog(i).ports
    \/ /\ target.by = "number" /\ target.number = PID(i)
       /\ \A r \in rows : target.number \notin Prog(r).ports

OnlyTheTargetIsHit ==
    \A i \in victims :
        /\ i \in DOMAIN plan /\ Addressed(i)
        /\ plan[i].kind # "avoid" /\ ~Prog(i).helper
        /\ mode = "stop" \/ (mode = "restart" /\ Prog(i).formula # NoFormula)

\* docs/COMPATIBILITY.md:18-19, the exit codes: 0 means that everything the
\* argument addressed was hit or has gone, however the rows of one scan have
\* got into each other's way; that a preview hit nothing; and that what was
\* watched has exited, whoever has had its PID since.
ZeroMeansDone ==
    result = "ok" =>
        /\ DOMAIN plan # {}
        /\ mode \in {"stop", "restart"} => \A r \in DOMAIN plan : r \in victims \/ r \notin live
        /\ mode = "preview" => victims = {}
        /\ mode = "watch" => row \notin live

\* README.md, "a KeepAlive agent respawns if you kill the PID — the supervisor
\* is the thing to stop": what was stopped with success stays down, that is,
\* its job is unloaded, provided that launchctl answered when the profiles
\* were made.
SupervisedStaysDown ==
    \A r \in victims \cap stopped :
        mode = "stop" /\ detected => Prog(r).job \notin loaded

\* docs/COMPATIBILITY.md:132-134: a preview never promises something that a
\* real stop, in the same state, would not do.  The one exception is a binary of
\* a formula that brew services does not run: it is promised `brew services
\* stop` (intel.go:403-405, 479-481), and kill refuses it (kill.go:74-76).
CouldBeStopped(r) ==
    /\ ~Prog(r).helper
    /\ \/ plan[r].kind = "term"
       \/ plan[r].kind = "brew" /\ Running(BrewLabel[Prog(r).formula]) = {r}
       \/ plan[r].kind = "launchd" /\ Running(plan[r].label) = {r}

PreviewKeepsItsWord ==
    mode = "preview" /\ result = "ok" =>
        \A r \in DOMAIN plan \cap live :
            plan[r].kind # "avoid" =>
                \/ CouldBeStopped(r)
                \/ Prog(r).formula # NoFormula /\ Prog(r).job # BrewLabel[Prog(r).formula]

=============================================================================
