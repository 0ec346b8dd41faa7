------------------------------- MODULE StopGuard -------------------------------
(***************************************************************************)
(* How le decides to stop a process (kill/kill.go, kill/context.go) while  *)
(* the operating system goes on: processes exit, PIDs are reused, launchd  *)
(* moves its jobs.  A row is captured by a scan (scan/scan_unix.go) in     *)
(* several reads, then one stop or restart is attempted through one of the *)
(* two seams: "legacy" (Stop, Restart: CLI and TUI) or "context"           *)
(* (StopContext, RestartContext: the companion).                           *)
(*                                                                         *)
(* Time is what ps shows of it: lstart is a number of seconds.             *)
(***************************************************************************)
EXTENDS Integers, Sequences, FiniteSets

CONSTANTS
    PIDs,
    Programs,      \* full command lines
    ShortName,     \* what lsof calls a program; a bare program is its own name
    Labels,        \* user-domain launchd labels
    NoLabel,
    MaxProcs,      \* bound: processes born in a behaviour
    MaxPerLabel,   \* bound: processes launchctl lists under one label
    MaxClock       \* bound: seconds in a behaviour

ASSUME StopGuardAssumption ==
    /\ MaxProcs \in Nat /\ MaxPerLabel \in Nat /\ MaxClock \in Nat
    /\ DOMAIN ShortName = Programs
    /\ NoLabel \notin Labels

VARIABLES
    \* --------------------------------------------------- operating system
    clock,      \* in seconds; the first second is 1
    procs,      \* every process ever born, in order: [pid, start, argv]
    live,       \* indices of those that have not exited
    job,        \* the live processes that launchd runs under each label
    \* ----------------------------------------------------------- the scan
    row,        \* the row, filled in as the scan proceeds
    psStart,    \* what the first ps call returned for the row's PID
    psCommand,  \* what the second one did
    \* -------------------------------------------------------- the attempt
    pc, seam, restart, ctxDone,
    result,     \* how the attempt ended
    \* ------------------------------------------------------- observations
    present,    \* processes alive when the identity was checked
    verified,   \* the process that passed the identity check, 0 if none
    owners,     \* processes listed under the label when it was looked up
    acted,      \* kill(2) succeeded or the manager obeyed
    victims,    \* the processes that this hit
    legacyToo   \* Stop would have decided the same so far on the same reads

osVars      == <<clock, procs, live, job>>
scanVars    == <<row, psStart, psCommand>>
attemptVars == <<pc, seam, restart, ctxDone, result>>
obsVars     == <<present, verified, owners, acted, victims, legacyToo>>
vars == <<osVars, scanVars, attemptVars, obsVars>>

Seams == {"legacy", "context"}
Kinds == {"term", "brew", "launchd", "avoid", "docker"}

\* Results of a ps call for one PID: not called yet, no line, or a line.
Unread == [seen |-> FALSE, read |-> FALSE, proc |-> 0]
Missed == [seen |-> FALSE, read |-> TRUE, proc |-> 0]
Line(i) == [seen |-> TRUE, read |-> TRUE, proc |-> i]

\* start 0 is the empty StartTime; command is a program or a short name.
NoRow == [pid |-> 0, start |-> 0, command |-> "",
          kind |-> "avoid", label |-> NoLabel]

Phases ==
    {"scan", "ps", "profile", "ready", "identity", "route",
     "brew", "lookup", "term", "manager", "done"}

Commands == Programs \cup {ShortName[argv] : argv \in Programs} \cup {""}
PsReads == {Unread, Missed} \cup {Line(i) : i \in 1 .. Len(procs)}

RowOK ==
    /\ row \in [pid : PIDs \cup {0}, start : 0 .. MaxClock + 1, command : Commands,
                kind : Kinds, label : Labels \cup {NoLabel}]
    /\ psStart \in PsReads /\ psCommand \in PsReads

SystemOK ==
    /\ clock \in 1 .. MaxClock + 1
    /\ procs \in Seq([pid : PIDs, start : 1 .. MaxClock + 1, argv : Programs])
    /\ Len(procs) <= MaxProcs
    /\ live \subseteq 1 .. Len(procs)
    /\ job \in [Labels -> SUBSET live]

TypeOK ==
    /\ SystemOK /\ RowOK
    /\ pc \in Phases /\ seam \in Seams
    /\ restart \in BOOLEAN /\ ctxDone \in BOOLEAN
    /\ acted \in BOOLEAN /\ legacyToo \in BOOLEAN
    /\ result \in {"none", "ok", "refused", "failed", "unknown"}
    /\ present \subseteq 1 .. Len(procs) /\ victims \subseteq 1 .. Len(procs)
    /\ owners \subseteq 1 .. Len(procs) /\ verified \in 0 .. Len(procs)

Init ==
    /\ clock = 1 /\ procs = <<>> /\ live = {} /\ job = [l \in Labels |-> {}]
    /\ row = NoRow /\ psStart = Unread /\ psCommand = Unread
    /\ pc = "scan" /\ seam = "legacy" /\ restart = FALSE /\ ctxDone = FALSE
    /\ result = "none"
    /\ present = {} /\ verified = 0 /\ owners = {} /\ victims = {}
    /\ acted = FALSE /\ legacyToo = TRUE

-----------------------------------------------------------------------------
(* The operating system *)

\* The processes, at most one, that have the PID now.
Holder(pid) == {i \in live : procs[i].pid = pid}

Spawn(pid, argv, l) ==
    /\ Len(procs) < MaxProcs
    /\ Holder(pid) = {}
    /\ procs' = Append(procs, [pid |-> pid, start |-> clock, argv |-> argv])
    /\ live' = live \cup {Len(procs) + 1}
    /\ IF l = NoLabel
       THEN UNCHANGED job
       ELSE /\ Cardinality(job[l]) < MaxPerLabel
            /\ job' = [job EXCEPT ![l] = @ \cup {Len(procs) + 1}]
    /\ UNCHANGED <<clock, scanVars, attemptVars, obsVars>>

Exit(i) ==
    /\ i \in live
    /\ live' = live \ {i}
    /\ job' = [l \in Labels |-> job[l] \ {i}]
    /\ UNCHANGED <<clock, procs, scanVars, attemptVars, obsVars>>

Tick ==
    /\ clock <= MaxClock
    /\ clock' = clock + 1
    /\ UNCHANGED <<procs, live, job, scanVars, attemptVars, obsVars>>

OS ==
    \/ \E pid \in PIDs, argv \in Programs, l \in Labels \cup {NoLabel} : Spawn(pid, argv, l)
    \/ \E i \in live : Exit(i)
    \/ Tick

-----------------------------------------------------------------------------
(* The scan *)

\* lsof lists a listener: its PID and the short name of its command.
ScanLsof(i) ==
    /\ pc = "scan" /\ i \in live
    /\ row' = [NoRow EXCEPT !.pid = procs[i].pid,
                            !.command = ShortName[procs[i].argv]]
    /\ pc' = "ps"
    /\ UNCHANGED <<osVars, psStart, psCommand, seam, restart, ctxDone, result, obsVars>>

\* The two ps calls run concurrently.  Each sees the process that has the PID
\* at its own moment; a call may return no line for a PID.
PsResults == {Missed} \cup {Line(i) : i \in Holder(row.pid)}

ReadUser ==
    /\ pc = "ps" /\ ~psStart.read
    /\ psStart' \in PsResults
    /\ UNCHANGED <<osVars, row, psCommand, attemptVars, obsVars>>

ReadCommand ==
    /\ pc = "ps" /\ ~psCommand.read
    /\ psCommand' \in PsResults
    /\ UNCHANGED <<osVars, row, psStart, attemptVars, obsVars>>

\* readPS: a PID that only one of the calls has seen is dropped from both, and
\* the row keeps lsof's short name with no start time.
BuildRow ==
    /\ pc = "ps" /\ psStart.read /\ psCommand.read
    /\ row' = IF psStart.seen /\ psCommand.seen
              THEN [row EXCEPT !.start = procs[psStart.proc].start,
                               !.command = procs[psCommand.proc].argv]
              ELSE row
    /\ psStart' = Unread /\ psCommand' = Unread
    /\ pc' = "profile"
    /\ UNCHANGED <<osVars, seam, restart, ctxDone, result, obsVars>>

\* Detect and Make choose a strategy.  A Homebrew formula comes from the
\* command line, a launchd label from the label's current PID.
Profile(kind, l) ==
    /\ pc = "profile"
    /\ kind \in {"brew", "launchd"} <=> l # NoLabel
    /\ kind = "launchd" => \E i \in job[l] : procs[i].pid = row.pid
    /\ row' = [row EXCEPT !.kind = kind, !.label = l]
    /\ pc' = "ready"
    /\ UNCHANGED <<osVars, psStart, psCommand, seam, restart, ctxDone, result, obsVars>>

-----------------------------------------------------------------------------
(* The attempt *)

Finish(how) == pc' = "done" /\ result' = how

\* A context that is done ends a context attempt at the next check.
Cut == seam = "context" /\ ctxDone

Begin(s, r) ==
    /\ pc = "ready"
    /\ seam' = s /\ restart' = r
    /\ pc' = "identity"
    /\ UNCHANGED <<osVars, scanVars, ctxDone, result, obsVars>>

CancelContext ==
    /\ pc \in {"identity", "route", "brew", "lookup", "term", "manager"}
    /\ seam = "context" /\ ~ctxDone
    /\ ctxDone' = TRUE
    /\ UNCHANGED <<osVars, scanVars, pc, seam, restart, result, obsVars>>

\* A slip: a row without start time is let through.
SlipNoStart ==
    \/ row.kind = "docker"
    \/ seam = "context" /\ (row.kind = "avoid" \/ (restart /\ row.kind # "brew"))

\* What is refused before the process is looked at: Docker in both seams; in
\* the context seam also a row without start time, a strategy that is not
\* known to be safe, and a restart that Homebrew does not own.
RefusedOutright ==
    \/ row.kind = "docker"
    \/ seam = "context" /\ \/ row.start = 0
                           \/ row.kind = "avoid"
                           \/ restart /\ row.kind # "brew"

RefuseOutright ==
    /\ pc = "identity" /\ ~Cut /\ RefusedOutright
    /\ Finish("refused")
    /\ UNCHANGED <<osVars, scanVars, seam, restart, ctxDone, obsVars>>

\* stillSame, for the process that has the PID now: the start second is the
\* identity; without one the full command line has to be the captured text.
StillSame(i) ==
    IF row.start # 0 THEN procs[i].start = row.start
    ELSE procs[i].argv = row.command

IdentityPass(i) ==
    /\ pc = "identity" /\ ~Cut /\ ~RefusedOutright
    /\ i \in Holder(row.pid) /\ StillSame(i)
    /\ verified' = i /\ present' = live
    /\ pc' = "route"
    /\ UNCHANGED <<osVars, scanVars, seam, restart, ctxDone, result,
                   owners, acted, victims, legacyToo>>

\* No such process, another one, or ps could not be run.
IdentityFail ==
    /\ pc = "identity" /\ ~Cut /\ ~RefusedOutright
    /\ Finish("refused")
    /\ UNCHANGED <<osVars, scanVars, seam, restart, ctxDone, obsVars>>

\* The switch on StopKind.  Stop refuses "avoid" and Restart everything but
\* Homebrew only here.
Route ==
    /\ pc = "route"
    /\ IF row.kind = "avoid" \/ (restart /\ row.kind # "brew")
       THEN Finish("refused")
       ELSE /\ pc' = CASE row.kind = "brew" -> "brew"
                       [] row.kind = "launchd" -> "lookup"
                       [] OTHER -> "term"
            /\ UNCHANGED result
    /\ UNCHANGED <<osVars, scanVars, seam, restart, ctxDone, obsVars>>

\* The formula is listed, is not listed, or brew cannot be run: the legacy
\* check lets the last case pass.  The refusal of a malformed service name in
\* the context seam is one of the refusals here and in LookupFail.
BrewAccepts(answer, s) == answer = "known" \/ (s = "legacy" /\ answer = "unusable")

CheckBrew(answer) ==
    /\ pc = "brew" /\ ~Cut
    /\ IF BrewAccepts(answer, seam)
       THEN pc' = "lookup" /\ UNCHANGED result
       ELSE Finish("refused")
    /\ legacyToo' = (legacyToo /\ BrewAccepts(answer, "legacy"))
    /\ UNCHANGED <<osVars, scanVars, seam, restart, ctxDone,
                   present, verified, owners, acted, victims>>

\* launchctl list.  The legacy lookup wants exactly one process under the
\* label; the context lookup takes the first one that the map iteration meets.
ListedPIDs == {procs[i].pid : i \in job[row.label]}

LegacyOwns == ListedPIDs = {row.pid}

\* A slip: the label is not checked against the selected PID.
SlipAnyOwner ==
    /\ pc = "lookup" /\ ~Cut
    /\ owners' = job[row.label]
    /\ legacyToo' = (legacyToo /\ LegacyOwns)
    /\ pc' = "manager"
    /\ UNCHANGED <<osVars, scanVars, seam, restart, ctxDone, result,
                   present, verified, acted, victims>>

LookupPass ==
    /\ pc = "lookup" /\ ~Cut
    /\ IF seam = "legacy" THEN LegacyOwns ELSE row.pid \in ListedPIDs
    /\ owners' = job[row.label]
    /\ legacyToo' = (legacyToo /\ LegacyOwns)
    /\ pc' = "manager"
    /\ UNCHANGED <<osVars, scanVars, seam, restart, ctxDone, result,
                   present, verified, acted, victims>>

\* Another owner, none, or launchctl could not be run.
LookupFail ==
    /\ pc = "lookup" /\ ~Cut
    /\ Finish("refused")
    /\ UNCHANGED <<osVars, scanVars, seam, restart, ctxDone, obsVars>>

\* kill(2).  It fails for a PID that is free or not ours.
Term ==
    /\ pc = "term" /\ ~Cut
    /\ Holder(row.pid) # {}
    /\ acted' = TRUE
    /\ victims' = Holder(row.pid)
    /\ Finish("ok")
    /\ UNCHANGED <<osVars, scanVars, seam, restart, ctxDone,
                   present, verified, owners, legacyToo>>

TermFails ==
    /\ pc = "term" /\ ~Cut
    /\ Finish("failed")
    /\ UNCHANGED <<osVars, scanVars, seam, restart, ctxDone, obsVars>>

\* brew services stop/restart or launchctl bootout: it acts on whatever the
\* label runs at that moment.  Success means that it has; an error or a
\* command that was cut off says nothing.
ManagerActs ==
    /\ pc = "manager" /\ ~acted
    /\ acted' = TRUE
    /\ victims' = job[row.label]
    /\ UNCHANGED <<osVars, scanVars, attemptVars, present, verified, owners, legacyToo>>

ManagerReturns ==
    /\ pc = "manager" /\ ~Cut
    /\ \/ acted /\ Finish("ok")
       \/ Finish("failed")
       \/ seam = "context" /\ Finish("unknown")   \* the output limit
    /\ UNCHANGED <<osVars, scanVars, seam, restart, ctxDone, obsVars>>

\* A slip: a context that ended is reported as a refusal.
SlipCutRefuses ==
    /\ pc \in {"identity", "brew", "lookup", "term", "manager"} /\ Cut
    /\ Finish("refused")
    /\ UNCHANGED <<osVars, scanVars, seam, restart, ctxDone, obsVars>>

\* ctx.Err() comes back instead of a verdict, wherever the attempt is.
CutShort ==
    /\ pc \in {"identity", "brew", "lookup", "term", "manager"} /\ Cut
    /\ Finish("unknown")
    /\ UNCHANGED <<osVars, scanVars, seam, restart, ctxDone, obsVars>>

Attempt ==
    \/ \E s \in Seams, r \in BOOLEAN : Begin(s, r)
    \/ CancelContext \/ CutShort
    \/ RefuseOutright \/ \E i \in live : IdentityPass(i)
    \/ IdentityFail \/ Route
    \/ \E answer \in {"known", "unknown", "unusable"} : CheckBrew(answer)
    \/ LookupPass \/ LookupFail
    \/ Term \/ TermFails \/ ManagerActs \/ ManagerReturns

Scan ==
    \/ \E i \in live : ScanLsof(i)
    \/ ReadUser \/ ReadCommand \/ BuildRow
    \/ \E kind \in Kinds, l \in Labels \cup {NoLabel} : Profile(kind, l)

Next == OS \/ Scan \/ Attempt

Spec == Init /\ [][Next]_vars

-----------------------------------------------------------------------------
(* What holds *)

\* README.md, "no signal without proven identity": of the processes alive when
\* the identity was checked, the one that passed is the only one that can be
\* hit, and its identity is the row's.  Whatever exits, is born, or takes over
\* the PID or the label before the action cannot make another one a victim.
\* (Under an ambiguous label the context seam is weaker, see below.)
OnlyVerifiedVictims ==
    \A i \in victims \cap present :
        \/ i = verified /\ procs[i].pid = row.pid /\ StillSame(i)
        \/ seam = "context" /\ i \in owners /\ Cardinality(owners) > 1

\* ErrRefused (kill/context.go): a refusal means that nothing was attempted,
\* which the companion's outcome "refused" relies on; success means that the
\* signal was sent or the manager obeyed.
VerdictIsHonest ==
    /\ result = "refused" => ~acted /\ victims = {}
    /\ result = "ok" => acted

\* kill/context.go: the context seam acts only on a row with a start time and
\* a known strategy, restarts only through Homebrew, and, whenever the label
\* was not ambiguous, only where the legacy seam would have acted on the same
\* reads.
ContextSeamIsStrict ==
    seam = "context" /\ acted =>
        /\ row.start # 0
        /\ row.kind \in {"term", "brew", "launchd"}
        /\ restart => row.kind = "brew"
        /\ legacyToo \/ Cardinality(owners) > 1

-----------------------------------------------------------------------------
(* The inductive invariant: why the three hold *)

\* A PID has one process at a time.
OnePerPID == \A i, j \in live : procs[i].pid = procs[j].pid => i = j

\* A label goes with the strategies that have a manager.
RouteInv ==
    /\ pc \notin {"scan", "ps", "profile"} =>
          (row.kind \in {"brew", "launchd"} <=> row.label # NoLabel)
    /\ pc \in {"brew", "lookup", "manager"} => row.kind \in {"brew", "launchd"}
    /\ pc = "term" => row.kind = "term"

Passed == pc \in {"route", "brew", "lookup", "term", "manager"}

\* Who has passed the check was the only one there with the row's PID.
IdentityInv ==
    Passed =>
        /\ ~RefusedOutright
        /\ verified # 0 /\ procs[verified].pid = row.pid /\ StillSame(verified)
        /\ \A i \in present : procs[i].pid = row.pid => i = verified

\* Of the processes present at the check, the label has only those that the
\* lookup found there, which are one process unless there were several.
ManagerInv ==
    pc = "manager" =>
        /\ job[row.label] \cap present \subseteq owners
        /\ \/ \A i \in owners : procs[i].pid = row.pid
           \/ seam = "context" /\ Cardinality(owners) > 1
        /\ legacyToo \/ Cardinality(owners) > 1

\* Nothing is done before the last two steps, and a verdict ends the attempt.
ProgressInv ==
    /\ pc \notin {"manager", "done"} => ~acted /\ victims = {} /\ legacyToo
    /\ pc # "done" <=> result = "none"

GuardInv ==
    /\ TypeOK /\ OnePerPID /\ RouteInv /\ IdentityInv /\ ManagerInv /\ ProgressInv
    /\ OnlyVerifiedVictims /\ VerdictIsHonest /\ ContextSeamIsStrict

=============================================================================
