---------------------------- MODULE BoundedCommand ----------------------------
(***************************************************************************)
(* A command that le runs with a deadline and a limit on its output        *)
(* (internal/boundedexec): run keeps the text in a buffer ("output"),      *)
(* Stream copies it to the file of a database backup ("stream"), which     *)
(* Backup (datacenter/database/backup.go) then syncs and closes.           *)
(*                                                                         *)
(* Five parties move independently: the command and a helper it may start  *)
(* in its process group, the goroutine that copies the pipe, the goroutine *)
(* that watches the context, and the caller.  os/exec is modelled from how *)
(* this code uses it: Wait reaps the command, takes the watcher's verdict, *)
(* and gives the copier WaitDelay to finish before it closes the pipe.     *)
(*                                                                         *)
(* Output is counted in units.  A command that exits with status 0 has     *)
(* written all that was its own to write; a helper that is still alive has *)
(* not finished.                                                           *)
(***************************************************************************)
EXTENDS Integers

CONSTANTS
    MaxDump,    \* bound: units that a command sets out to write
    Limit,      \* MaxStdout, or BackupOptions.MaxBytes
    PipeCap     \* units that the pipe holds

ASSUME BoundedCommandAssumption ==
    MaxDump \in Nat /\ Limit \in Nat \ {0} /\ PipeCap \in Nat \ {0}

VARIABLES
    mode,       \* which of the two entry points
    pc,         \* the caller
    leader,     \* the command
    helper,     \* a process that the command starts, in the same group
    todo,       \* units that each of the two has yet to write
    pipe,       \* units in the pipe
    readable,   \* le's end of the pipe is open
    copier,     \* the copying goroutine
    copyErr,    \* it ended with an error of Write
    kept,       \* units in the buffer or the file
    exceeded,   \* the limit was passed
    ctxDone,    \* the caller's context is over: deadline or signal
    cancelled,  \* the writer has cancelled the command's own context
    watch,      \* the watching goroutine: what Cancel returned
    runErr,     \* cmd.Run returns an error
    synced,
    result,
    dump        \* what the command set out to write; never read by le

procVars == <<leader, helper, todo, dump>>
copyVars == <<pipe, readable, copier, copyErr, kept, exceeded, cancelled>>
vars == <<mode, pc, procVars, copyVars, ctxDone, watch, runErr, synced, result>>

Modes == {"output", "stream"}
Parts == {"leader", "helper"}
Phases == {"create", "wait", "reaped", "await", "retire", "verdict", "sync", "close", "done"}
Results == {"none", "ok", "refused", "limit", "context", "failed"}

StateOK ==
    /\ mode \in Modes /\ pc \in Phases /\ result \in Results
    /\ leader \in {"none", "alive", "ok", "bad"} /\ helper \in {"none", "alive", "ended"}
    /\ dump \in 0 .. MaxDump /\ todo \in [Parts -> 0 .. MaxDump]
    /\ pipe \in 0 .. PipeCap /\ kept \in 0 .. Limit
    /\ copier \in {"copying", "done"}
    /\ watch \in {"watching", "killed", "missed", "gone"}

FlagsOK ==
    /\ readable \in BOOLEAN /\ copyErr \in BOOLEAN /\ exceeded \in BOOLEAN
    /\ ctxDone \in BOOLEAN /\ cancelled \in BOOLEAN /\ runErr \in BOOLEAN
    /\ synced \in BOOLEAN

TypeOK == StateOK /\ FlagsOK

Init ==
    /\ mode \in Modes /\ pc = "create" /\ result = "none"
    /\ leader = "none" /\ helper = "none"
    /\ dump \in 0 .. MaxDump /\ todo = [p \in Parts |-> IF p = "leader" THEN dump ELSE 0]
    /\ pipe = 0 /\ readable = TRUE /\ kept = 0
    /\ copier = "copying" /\ copyErr = FALSE /\ exceeded = FALSE
    /\ ctxDone = FALSE /\ cancelled = FALSE /\ watch = "watching"
    /\ runErr = FALSE /\ synced = FALSE

Goto(phase) == pc' = phase
Finish(r) == pc' = "done" /\ result' = r

-----------------------------------------------------------------------------
(* The command and its helper *)

Alive(p) == IF p = "leader" THEN leader = "alive" ELSE helper = "alive"

Fork ==
    /\ leader = "alive" /\ helper = "none"
    /\ helper' = "alive"
    /\ \E n \in 0 .. MaxDump :
          /\ n <= todo["leader"]
          /\ todo' = [leader |-> todo["leader"] - n, helper |-> n]
    /\ UNCHANGED <<mode, pc, leader, dump, copyVars, ctxDone, watch, runErr, synced, result>>

Produce(p) ==
    /\ Alive(p) /\ todo[p] > 0 /\ readable /\ pipe < PipeCap
    /\ todo' = [todo EXCEPT ![p] = @ - 1]
    /\ pipe' = pipe + 1
    /\ UNCHANGED <<mode, pc, leader, helper, dump, readable, copier, copyErr, kept,
                   exceeded, cancelled, ctxDone, watch, runErr, synced, result>>

\* Nobody reads any more: a process may ignore that and write into the void.
ProduceInVain(p) ==
    /\ Alive(p) /\ todo[p] > 0 /\ ~readable
    /\ todo' = [todo EXCEPT ![p] = 0]
    /\ UNCHANGED <<mode, pc, leader, helper, dump, copyVars, ctxDone, watch, runErr,
                   synced, result>>

LeaderExits ==
    /\ leader = "alive"
    /\ leader' \in IF todo["leader"] = 0 THEN {"ok", "bad"} ELSE {"bad"}
    /\ UNCHANGED <<mode, pc, helper, todo, dump, copyVars, ctxDone, watch, runErr,
                   synced, result>>

HelperEnds ==
    /\ helper = "alive" /\ todo["helper"] = 0
    /\ helper' = "ended"
    /\ UNCHANGED <<mode, pc, leader, todo, dump, copyVars, ctxDone, watch, runErr,
                   synced, result>>

Command == Fork \/ LeaderExits \/ HelperEnds \/ \E p \in Parts : Produce(p) \/ ProduceInVain(p)

\* Kill of the process group with SIGKILL.
KillGroup ==
    /\ leader' = IF leader = "alive" THEN "bad" ELSE leader
    /\ helper' = IF helper = "alive" THEN "ended" ELSE helper

-----------------------------------------------------------------------------
(* The copying goroutine *)

PassesLimit(n) == n > Limit - kept
Fits(n) == IF n > Limit - kept THEN Limit - kept ELSE n

\* limitedBuffer.Write: the rest is dropped and the copying goes on.
CopyToBuffer(n) ==
    /\ mode = "output"
    /\ kept' = kept + Fits(n)
    /\ UNCHANGED <<copier, copyErr, readable>>

\* streamWriter.Write: io.Copy stops at the limit, or where the file takes
\* only m of the units; then the goroutine closes its end of the pipe.
CopyToFile(n) ==
    /\ mode = "stream"
    /\ \E m \in 0 .. n :
          /\ m <= Fits(n)
          /\ kept' = kept + m
          /\ IF m < Fits(n) \/ PassesLimit(n)
             THEN copier' = "done" /\ copyErr' = TRUE /\ readable' = FALSE
             ELSE UNCHANGED <<copier, copyErr, readable>>

Copy(n) ==
    /\ copier = "copying" /\ n \in 1 .. pipe
    /\ pipe' = pipe - n
    /\ exceeded' = (exceeded \/ PassesLimit(n))
    /\ cancelled' = (cancelled \/ PassesLimit(n))
    /\ CopyToBuffer(n) \/ CopyToFile(n)
    /\ UNCHANGED <<mode, pc, procVars, ctxDone, watch, runErr, synced, result>>

\* run also bounds what the command says on stderr.
StderrPassesLimit ==
    /\ mode = "output" /\ leader = "alive" /\ ~exceeded
    /\ exceeded' = TRUE /\ cancelled' = TRUE
    /\ UNCHANGED <<mode, pc, procVars, pipe, readable, copier, copyErr, kept, ctxDone, watch,
                   runErr, synced, result>>

CopyEOF ==
    /\ copier = "copying" /\ pipe = 0
    /\ leader \in {"ok", "bad"} /\ helper # "alive"
    /\ copier' = "done" /\ readable' = FALSE
    /\ UNCHANGED <<mode, pc, procVars, pipe, copyErr, kept, exceeded, cancelled, ctxDone,
                   watch, runErr, synced, result>>

-----------------------------------------------------------------------------
(* The context and its watcher *)

Expire ==
    /\ pc # "done" /\ ~ctxDone
    /\ ctxDone' = TRUE
    /\ UNCHANGED <<mode, pc, procVars, copyVars, watch, runErr, synced, result>>

\* cmd.Cancel, as long as Wait has not taken the watcher's verdict.  A command
\* that has exited but is not reaped can still be signalled, or not.
Cancel ==
    /\ pc \in {"wait", "reaped"} /\ watch = "watching" /\ (ctxDone \/ cancelled)
    /\ KillGroup
    /\ watch' \in IF leader = "alive" \/ helper = "alive" THEN {"killed"}
                  ELSE IF pc = "wait" THEN {"killed", "missed"} ELSE {"missed"}
    /\ UNCHANGED <<mode, pc, todo, dump, copyVars, ctxDone, runErr, synced, result>>

-----------------------------------------------------------------------------
(* The caller *)

\* Stream and run start the command; Backup first creates its file, which
\* must not exist.  Either may fail before anything runs.
Start ==
    /\ pc = "create"
    /\ \/ Goto("wait") /\ leader' = "alive" /\ UNCHANGED result
       \/ Finish("refused") /\ UNCHANGED leader
    /\ UNCHANGED <<mode, helper, todo, dump, copyVars, ctxDone, watch, runErr, synced>>

Reap ==
    /\ pc = "wait" /\ leader \in {"ok", "bad"}
    /\ runErr' = (leader = "bad")
    /\ Goto("reaped")
    /\ UNCHANGED <<mode, procVars, copyVars, ctxDone, watch, synced, result>>

TakeWatch ==
    /\ pc = "reaped"
    /\ runErr' = (runErr \/ watch = "killed")
    /\ watch' = IF watch = "watching" THEN "gone" ELSE watch
    /\ Goto("await")
    /\ UNCHANGED <<mode, procVars, copyVars, ctxDone, synced, result>>

AwaitCopy ==
    /\ pc = "await" /\ copier = "done"
    /\ runErr' = (runErr \/ copyErr)
    /\ Goto("retire")
    /\ UNCHANGED <<mode, procVars, copyVars, ctxDone, watch, synced, result>>

\* Slips: no WaitDelay is set; the error it leads to is forgotten.
SlipNoDelay == FALSE /\ UNCHANGED vars
SlipDelayIsFine ==
    /\ pc = "await" /\ copier = "copying"
    /\ copier' = "done" /\ readable' = FALSE
    /\ Goto("retire")
    /\ UNCHANGED <<mode, procVars, pipe, copyErr, kept, exceeded, cancelled, ctxDone, watch,
                   runErr, synced, result>>

\* cmd.WaitDelay has passed since Wait, and somebody still holds the pipe.
AwaitDelay ==
    /\ pc = "await" /\ copier = "copying"
    /\ copier' = "done" /\ readable' = FALSE
    /\ runErr' = TRUE
    /\ Goto("retire")
    /\ UNCHANGED <<mode, procVars, pipe, copyErr, kept, exceeded, cancelled, ctxDone, watch,
                   synced, result>>

\* A slip: nobody looks for descendants once the command has gone.
SlipLeaveHelper ==
    /\ pc = "retire"
    /\ Goto("verdict")
    /\ UNCHANGED <<mode, procVars, copyVars, ctxDone, watch, runErr, synced, result>>

Retire ==
    /\ pc = "retire"
    /\ KillGroup
    /\ Goto("verdict")
    /\ UNCHANGED <<mode, todo, dump, copyVars, ctxDone, watch, runErr, synced, result>>

\* The order in which run and Stream look at what happened.
Verdict ==
    CASE exceeded -> "limit"
      [] ~exceeded /\ ctxDone -> "context"
      [] ~exceeded /\ ~ctxDone /\ runErr -> "failed"
      [] OTHER -> "ok"

Return ==
    /\ pc = "verdict"
    /\ IF mode = "output" THEN Finish(Verdict)
       ELSE Goto("sync") /\ result' = Verdict
    /\ UNCHANGED <<mode, procVars, copyVars, ctxDone, watch, runErr, synced>>

\* Backup: an empty dump is none; only a good one is synced.
Sync ==
    /\ pc = "sync"
    /\ \/ result = "ok" /\ kept > 0 /\ synced' = TRUE /\ UNCHANGED result
       \/ result = "ok" /\ result' = "failed" /\ UNCHANGED synced
       \/ result # "ok" /\ UNCHANGED <<synced, result>>
    /\ Goto("close")
    /\ UNCHANGED <<mode, procVars, copyVars, ctxDone, watch, runErr>>

Close ==
    /\ pc = "close"
    /\ result' \in IF result = "ok" THEN {"ok", "failed"} ELSE {result}
    /\ Goto("done")
    /\ UNCHANGED <<mode, procVars, copyVars, ctxDone, watch, runErr, synced>>

Caller ==
    \/ Start \/ Reap \/ TakeWatch \/ AwaitCopy \/ AwaitDelay \/ Retire
    \/ Return \/ Sync \/ Close

Next ==
    \/ Command
    \/ \E n \in 1 .. PipeCap : Copy(n)
    \/ StderrPassesLimit \/ CopyEOF
    \/ Expire \/ Cancel
    \/ Caller

Spec == Init /\ [][Next]_vars

\* The deadline comes, goroutines run, WaitDelay passes, and reads and writes
\* of le's own end.  The command is under no obligation of any kind.
Fairness ==
    /\ WF_vars(Caller) /\ WF_vars(Cancel) /\ WF_vars(Expire)
    /\ WF_vars(CopyEOF) /\ WF_vars(\E n \in 1 .. PipeCap : Copy(n))

FairSpec == Spec /\ Fairness

-----------------------------------------------------------------------------
(* What holds *)

\* README.md, "Failure preserves the partial file and reports complete:false",
\* and the scan's "complete snapshot": output that is returned without an error
\* is all that the command set out to write, and a backup is on the disk.  No
\* helper, deadline, limit or full disk can make a prefix pass for the whole.
SuccessIsWhole ==
    pc = "done" /\ result = "ok" =>
        /\ leader = "ok" /\ kept = dump
        /\ mode = "stream" => synced /\ kept > 0

\* retire, and docs/COMPANION.md on shutdown: when the caller goes on, neither
\* a process of the group nor the copying goroutine is left.
NothingOutlives ==
    pc \in {"verdict", "sync", "close", "done"} /\ result # "refused" =>
        leader # "alive" /\ helper # "alive" /\ copier = "done"

(* The inductive invariant: why the two hold *)

\* Nothing has gone wrong that le can see.
Sound == ~exceeded /\ ~copyErr /\ ~runErr

Returned == pc \in {"verdict", "sync", "close", "done"} /\ result # "refused"

\* What the caller knows at each of its steps.
CallerInv ==
    /\ pc = "create" => leader = "none" /\ copier = "copying" /\ pipe = 0
    /\ pc = "wait" => leader # "none"
    /\ pc \in {"create", "wait"} => ~runErr
    /\ watch = "killed" => leader \in {"ok", "bad"} /\ helper # "alive"
    /\ leader = "none" => helper = "none" /\ (pc = "create" \/ result = "refused")
    /\ pc \notin {"create", "wait"} /\ result # "refused" => leader \in {"ok", "bad"}
    /\ pc = "reaped" /\ ~runErr => leader = "ok"
    /\ pc \in {"await", "retire"} \/ Returned =>
           runErr \/ (leader = "ok" /\ watch # "killed")
    /\ pc = "retire" \/ Returned => copier = "done" /\ (copyErr => runErr)
    /\ Returned => helper # "alive"
    /\ result = "refused" => pc = "done"
    /\ result # "none" => pc \in {"sync", "close", "done"}
    /\ result = "ok" => ~exceeded /\ ~runErr
    /\ result = "ok" /\ mode = "stream" /\ pc # "sync" => synced /\ kept > 0

\* As long as nothing has gone wrong every unit is in one place, and the copier
\* ends only when the writers have.
FlowInv ==
    /\ leader = "ok" => todo["leader"] = 0
    /\ Sound /\ helper # "alive" /\ watch # "killed" => todo["helper"] = 0
    /\ Sound => kept + pipe + todo["leader"] + todo["helper"] = dump
    /\ Sound /\ copier = "done" => pipe = 0 /\ leader # "alive" /\ helper # "alive"
    /\ readable <=> copier = "copying"

CommandInv == TypeOK /\ CallerInv /\ FlowInv

\* Once started, a command cannot keep its caller for ever: not one that never
\* exits, nor one that exits while a helper keeps the pipe and writes or sleeps.
CommandReturns == pc = "wait" ~> pc = "done"

=============================================================================
