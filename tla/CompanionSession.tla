---------------------------- MODULE CompanionSession ----------------------------
(***************************************************************************)
(* One run of `le companion` (companion/run_unix.go): the server of        *)
(* CompanionServer between the two ends of its session, which are about    *)
(* the connection file.  It is created before anything is served and       *)
(* retired after the server is drained, if it is still the one that was    *)
(* written; the user may edit, remove or replace it, any call on it may    *)
(* fail, and the process may be killed.                                    *)
(***************************************************************************)
EXTENDS CompanionServer

VARIABLES
    phase,    \* where serveSession is, around the server's life
    entry,    \* what the file's name refers to
    edited,   \* the file that was written has another mtime since
    handle,   \* what retire has opened
    meddled,  \* observation: what the user has changed since retire looked at it
    gaveUp    \* observation: a call that was to look at or remove the file has failed

fileVars == <<phase, entry, edited, handle, meddled, gaveUp>>
sessionVars == <<vars, fileVars>>

Retiring == {"open", "compare", "unlink", "retired"}
Ended == {"failed", "over", "crashed"}
SessionPhases == {"create", "encode", "up"} \cup Retiring \cup Ended

SessionTypeOK ==
    /\ phase \in SessionPhases
    /\ entry \in {"none", "own", "other"} /\ handle \in {"none", "own", "other"}
    /\ edited \in BOOLEAN /\ gaveUp \in BOOLEAN
    /\ meddled \subseteq {"name", "content"}

SessionInit ==
    /\ Init
    /\ phase = "create" /\ entry = "none" /\ handle = "none"
    /\ edited = FALSE /\ meddled = {} /\ gaveUp = FALSE

Goes(p) == phase' = p
Serving == phase = "up" \/ phase \in Retiring

-----------------------------------------------------------------------------
(* writeDescriptor *)

\* The directories are opened, and the file created exclusively.
Create ==
    /\ phase = "create"
    /\ \/ entry' = "own" /\ Goes("encode")
       \/ Goes("failed") /\ UNCHANGED entry
    /\ UNCHANGED <<vars, edited, handle, meddled, gaveUp>>

\* Encode, sync, fstat, close: one failure removes the file again, or tries.
Encode ==
    /\ phase = "encode"
    /\ \/ Goes("up") /\ UNCHANGED <<entry, gaveUp>>
       \/ Goes("failed") /\ entry' = "none" /\ UNCHANGED gaveUp
       \/ Goes("failed") /\ gaveUp' = TRUE /\ UNCHANGED entry
    /\ UNCHANGED <<vars, edited, handle, meddled>>

-----------------------------------------------------------------------------
(* retire, deferred: the server is drained by then.  It has no result: a call *)
(* that fails is the end of it, and the file stays.                           *)

GiveUp == Goes("retired") /\ gaveUp' = TRUE

\* Fstatat: device, inode and size.  An edit may have kept the size.
Look ==
    /\ phase = "up" /\ life = "drained"
    /\ \/ entry = "own" /\ Goes("open") /\ UNCHANGED gaveUp
       \/ (entry # "own" \/ edited) /\ Goes("retired") /\ UNCHANGED gaveUp
       \/ GiveUp
    /\ UNCHANGED <<vars, entry, edited, handle, meddled>>

Open ==
    /\ phase = "open"
    /\ \/ /\ handle' = entry
          /\ meddled' = meddled \ {"name"}
          /\ Goes(IF entry = "none" THEN "retired" ELSE "compare")
          /\ UNCHANGED gaveUp
       \/ GiveUp /\ UNCHANGED <<handle, meddled>>
    /\ UNCHANGED <<vars, entry, edited>>

\* A slip: the modification time is not compared.
SlipCompare ==
    /\ phase = "compare"
    /\ Goes(IF handle = "own" THEN "unlink" ELSE "retired")
    /\ meddled' = meddled \ {"content"}
    /\ UNCHANGED <<vars, entry, edited, handle, gaveUp>>

\* Stat of what is open: device, inode and modification time.
Compare ==
    /\ phase = "compare"
    /\ \/ /\ Goes(IF handle = "own" /\ ~edited THEN "unlink" ELSE "retired")
          /\ meddled' = meddled \ {"content"}
          /\ UNCHANGED gaveUp
       \/ GiveUp /\ UNCHANGED meddled
    /\ UNCHANGED <<vars, entry, edited, handle>>

\* Unlinkat goes by the name.
Unlink ==
    /\ phase = "unlink"
    /\ \/ entry' = "none" /\ Goes("retired") /\ UNCHANGED gaveUp
       \/ GiveUp /\ UNCHANGED entry
    /\ UNCHANGED <<vars, edited, handle, meddled>>

\* The other deferred calls, and the command returns.
Return ==
    /\ phase = "retired"
    /\ Exit
    /\ Goes("over")
    /\ UNCHANGED <<entry, edited, handle, meddled, gaveUp>>

-----------------------------------------------------------------------------
(* The world outside *)

\* The server does not look at the file, so what the user does to it while it
\* serves is as good as done when it is drained; after that the moment counts.
UserMay == (phase = "up" /\ life = "drained") \/ phase \in Retiring

UserEdits ==
    /\ UserMay /\ entry = "own"
    /\ edited' = TRUE /\ meddled' = meddled \cup {"content"}
    /\ UNCHANGED <<vars, phase, entry, handle, gaveUp>>

UserRemoves ==
    /\ UserMay /\ entry # "none"
    /\ entry' = "none" /\ meddled' = meddled \cup {"name"}
    /\ UNCHANGED <<vars, phase, edited, handle, gaveUp>>

UserReplaces ==
    /\ UserMay /\ entry # "other"
    /\ entry' = "other" /\ meddled' = meddled \cup {"name"}
    /\ UNCHANGED <<vars, phase, edited, handle, gaveUp>>

\* SIGKILL or a power failure, where it makes a difference to the file.
Crash ==
    /\ phase \in {"create", "encode"} \/ UserMay
    /\ Goes("crashed")
    /\ UNCHANGED <<vars, entry, edited, handle, meddled, gaveUp>>

\* A signal before the server serves cancels the context all the same.
EarlySignal ==
    /\ phase \in {"create", "encode"}
    /\ Signal
    /\ UNCHANGED fileVars

\* The server as it is in CompanionServer, up to its return.
Within(step) == Serving /\ step /\ life' # "exited" /\ UNCHANGED fileVars
Server == Within(Next)

Retire == Look \/ Open \/ Compare \/ Unlink \/ Return

SessionNext ==
    \/ Create \/ Encode \/ Retire
    \/ UserEdits \/ UserRemoves \/ UserReplaces
    \/ Crash \/ EarlySignal
    \/ Server

SessionSpec == SessionInit /\ [][SessionNext]_sessionVars

\* The command's own steps are taken, and what CompanionServer assumes.
FairSession ==
    /\ SessionSpec
    /\ WF_sessionVars(Create \/ Encode) /\ WF_sessionVars(Retire)
    /\ \A h \in Handlers : WF_sessionVars(Within(Serve(h)))
    /\ WF_sessionVars(Within(TimerFire))
    /\ \A s \in SnapIDs : WF_sessionVars(Within(TimerCallback(s)))
    /\ WF_sessionVars(Within(Stop))

-----------------------------------------------------------------------------
(* Properties *)

\* The server lives between the two ends: it serves after writeDescriptor has
\* succeeded, and it is drained before retire looks at the file.
PhaseInv ==
    /\ phase \in {"create", "encode", "failed"} => life = "serving"
    /\ phase \in Retiring => life = "drained"
    /\ phase = "over" <=> life = "exited"

\* The file is there from its creation on.  Once the command has returned, the
\* name does not refer to the file as it was written any more, and a start
\* that failed has left no file, unless a call of the file system that had to
\* find that out or to remove the file has failed; then nobody is told.
FileInv ==
    /\ phase = "create" => entry = "none"
    /\ phase = "encode" => entry = "own"
    /\ phase \in {"create", "encode"} => ~edited
    /\ gaveUp => phase \in {"retired"} \cup Ended
    /\ phase = "failed" => entry = "none" \/ gaveUp
    /\ phase \in {"retired", "over"} => entry # "own" \/ edited \/ gaveUp

\* What retire knows of the file is true, or the user has acted since.
WindowInv ==
    /\ phase = "compare" => handle # "none" /\ (entry = "own" => handle = "own")
    /\ phase = "unlink" => handle = "own" /\ (edited => "content" \in meddled)
    /\ phase \in {"compare", "unlink"} /\ handle = "own" =>
          entry = "own" \/ "name" \in meddled

\* docs/COMPANION.md:5-8, "cancel active work and retire the owned connection
\* file before the foreground command exits": no handler works and no snapshot
\* is kept from the moment retire begins, and no file is left as it was written,
\* unless the system fails a call of retire, which the command passes over.
SessionInv ==
    /\ SessionTypeOK /\ PhaseInv /\ FileInv /\ WindowInv
    /\ phase \in Retiring \cup {"over"} =>
          /\ \A h \in Handlers : pc[h] \notin Holding
          /\ snapshot = NoSnapshot /\ armed = 0

\* docs/COMPANION.md:22-23, "Exit retires only the exact descriptor the command
\* still owns": retire removes another file under that name only if the user
\* put it there after retire opened the file, and an edited file only if it
\* was edited after its modification time was compared.
RetiresItsOwn ==
    [][Unlink => /\ entry # "own" => "name" \in meddled
                 /\ edited => "content" \in meddled]_sessionVars

\* A cancelled session ends and so does one whose listener failed, wherever the
\* signal comes: in writeDescriptor, in Serve, in the engine, in stopAndWait or
\* in retire.
ShutdownCompletes == (cancelled \/ life = "closed") ~> phase \in Ended

=============================================================================
