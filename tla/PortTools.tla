------------------------------- MODULE PortTools -------------------------------
(***************************************************************************)
(* The commands of le that hold a port, wait for one, or look after a      *)
(* child (tools/tools.go, portrange.go, exit_open.go, forward.go,          *)
(* keepawake.go): hold, wait, ready, open, forward and awake.  Several of  *)
(* them run at the same time and share the ports of 127.0.0.1 with the     *)
(* servers they are about.  le finds out whether a port is free by binding *)
(* it for a moment, so a look is itself something that others can see.     *)
(***************************************************************************)
EXTENDS Naturals, FiniteSets

CONSTANTS
    Commands,       \* invocations of le, each of which does one job
    Ports,          \* ports of 127.0.0.1
    BadPort,        \* an argument that no socket can be bound to
    Jobs,           \* what each invocation may be asked for
    Nobody, Server, \* owners of a port that are not invocations
    InitialBackoff, \* forwardInitialBackoff, in seconds
    MaxBackoff      \* forwardMaxBackoff

Waiters == {"wait", "ready", "open"}
Tools == Waiters \cup {"hold", "forward", "awake"}

ASSUME PortToolsAssumption ==
    /\ Ports \subseteq Nat /\ BadPort \in Nat \ Ports
    /\ Jobs \in [Commands -> SUBSET [tool : Tools, lo : Nat, hi : Nat, limited : BOOLEAN]]
    /\ \A c \in Commands : \A j \in Jobs[c] :
          /\ j.lo <= j.hi
          /\ j.lo .. j.hi \subseteq Ports \/ (j.lo = BadPort /\ j.hi = BadPort)
          /\ j.tool # "hold" => j.lo = j.hi
          /\ j.tool \in {"forward", "awake"} => j.lo \in Ports
    /\ Nobody # Server /\ Nobody \notin Commands /\ Server \notin Commands
    /\ InitialBackoff \in Nat \ {0} /\ MaxBackoff \in Nat /\ InitialBackoff <= MaxBackoff

VARIABLES
    bound,      \* who is bound to each port
    refused,    \* whom the kernel gives no socket, whoever is bound (a privileged port, no descriptor)
    job, pc,    \* what each invocation does, and where it is
    next,       \* hold: the next port of the range
    look,       \* which look at the port a waiter takes
    due,        \* the time of --timeout has come
    child,      \* kubectl or caffeinate
    sig,        \* a signal is in the channel
    backoff,    \* forward: the wait before the next session
    result,     \* how the invocation has ended
    wanted,     \* observation: the first wait, doubled for every session lost since a healthy one
    met,        \* observation: what a waiter waits for has been the case
    steady      \* observation: ... since before the time had come, until now

fixed == <<job, refused>>
jobVars  == <<fixed, next, look, due>>
childVars == <<child, sig, backoff, wanted>>
vars == <<bound, pc, result, jobVars, childVars, met, steady>>

Points == {"idle", "bind", "unguarded", "hold", "look", "probing", "select", "browse",
           "launch", "up", "reap", "backoff", "over"}
Looks == {"first", "second", "tick", "last"}
Results == {"none", "ok", "failed", "usage", "timeout", "killed"}
Rungs == InitialBackoff .. MaxBackoff

TypeOK ==
    /\ bound \in [Ports -> Commands \cup {Nobody, Server}]
    /\ refused \subseteq Commands
    /\ \A c \in Commands : job[c] \in Jobs[c]
    /\ pc \in [Commands -> Points]
    /\ next \in [Commands -> Nat]
    /\ look \in [Commands -> Looks]
    /\ child \in [Commands -> {"none", "running", "exited"}]
    /\ backoff \in [Commands -> Rungs]
    /\ result \in [Commands -> Results]
    /\ wanted \in [Commands -> Nat]
    /\ due \in [Commands -> BOOLEAN] /\ sig \in [Commands -> BOOLEAN]
    /\ met \in [Commands -> BOOLEAN] /\ steady \in [Commands -> BOOLEAN]

Init ==
    /\ bound \in [Ports -> {Nobody, Server}]
    /\ job \in {f \in [Commands -> UNION {Jobs[c] : c \in Commands}] :
                 \A c \in Commands : f[c] \in Jobs[c]}
    /\ refused \in SUBSET {c \in Commands : job[c].tool \in Waiters \cup {"hold"}}
    /\ pc = [c \in Commands |-> "idle"]
    /\ next = [c \in Commands |-> job[c].lo]
    /\ look = [c \in Commands |-> "first"]
    /\ due = [c \in Commands |-> FALSE]
    /\ child = [c \in Commands |-> "none"]
    /\ sig = [c \in Commands |-> FALSE]
    /\ backoff = [c \in Commands |-> InitialBackoff]
    /\ result = [c \in Commands |-> "none"]
    /\ wanted = [c \in Commands |-> InitialBackoff]
    /\ met = [c \in Commands |-> FALSE]
    /\ steady = [c \in Commands |-> FALSE]

Tool(c) == job[c].tool
Port(c) == job[c].lo
Goto(c, point) == pc' = [pc EXCEPT ![c] = point]
Finish(c, r) == Goto(c, "over") /\ result' = [result EXCEPT ![c] = r]

\* net.Listen succeeds on a port that is one and that nobody is bound to,
\* unless the kernel refuses the socket for a reason of its own.
Unbound(p) == p \in Ports /\ bound[p] = Nobody
CanListen(c, p) == Unbound(p) /\ c \notin refused
Bind(p, who) == bound' = [bound EXCEPT ![p] = who]
Unbind(c) == bound' = [p \in Ports |-> IF bound[p] = c THEN Nobody ELSE bound[p]]

-----------------------------------------------------------------------------
\* A slip: validPort is not asked, so a port that cannot be bound looks busy.
SlipBegin(c) ==
    /\ pc[c] = "idle"
    /\ Goto(c, IF Tool(c) = "hold" THEN "bind" ELSE IF Tool(c) \in Waiters THEN "look" ELSE "launch")
    /\ UNCHANGED <<bound, result, jobVars, childVars>>

\* The invocation starts.  validPort turns a bad argument of wait, ready and
\* open into a usage error; hold leaves that to Listen.
Begin(c) ==
    /\ pc[c] = "idle"
    /\ \/ Tool(c) = "hold" /\ Goto(c, "bind") /\ UNCHANGED result
       \/ Tool(c) \in Waiters /\ Port(c) \in Ports /\ Goto(c, "look") /\ UNCHANGED result
       \/ Tool(c) \in Waiters /\ Port(c) = BadPort /\ Finish(c, "usage")
       \/ Tool(c) \in {"forward", "awake"} /\ Goto(c, "launch") /\ UNCHANGED result
    /\ UNCHANGED <<bound, jobVars, childVars>>

(* hold, and hold of a range *)

\* One Listen after the other; a port for which it fails is skipped for good.
HoldPort(c) ==
    /\ pc[c] = "bind" /\ next[c] <= job[c].hi
    /\ next' = [next EXCEPT ![c] = @ + 1]
    /\ \/ CanListen(c, next[c]) /\ Bind(next[c], c)
       \/ ~CanListen(c, next[c]) /\ UNCHANGED bound
    /\ UNCHANGED <<pc, result, fixed, look, due, childVars>>

Holds(c) == \E p \in Ports : bound[p] = c

\* Nothing held is an error; otherwise only now signals are caught.
HoldDone(c) ==
    /\ pc[c] = "bind" /\ next[c] > job[c].hi
    /\ \/ Holds(c) /\ Goto(c, "unguarded") /\ UNCHANGED result
       \/ ~Holds(c) /\ Finish(c, "failed")
    /\ UNCHANGED <<bound, jobVars, childVars>>

HoldReleased(c) ==
    /\ pc[c] = "hold" /\ sig[c]
    /\ Unbind(c)
    /\ Finish(c, "ok")
    /\ UNCHANGED <<jobVars, childVars>>

(* wait, ready and open: look at once, look again, then at every tick, and a *)
(* last time when the time has come                                          *)

\* What a look at a port that was free, or not, leads to.
Looked(c, free) ==
    IF free <=> Tool(c) = "wait" THEN
        /\ IF Tool(c) = "open" THEN Goto(c, "browse") /\ UNCHANGED result ELSE Finish(c, "ok")
        /\ UNCHANGED look
    ELSE
        \/ look[c] = "first" /\ look' = [look EXCEPT ![c] = "second"] /\ Goto(c, "look") /\ UNCHANGED result
        \/ look[c] \in {"second", "tick"} /\ Goto(c, "select") /\ UNCHANGED <<result, look>>
        \/ look[c] = "last" /\ Finish(c, "timeout") /\ UNCHANGED look

\* Free: the look takes the port if it can; every error of Listen is "busy" ...
ProbeFree(c) ==
    /\ pc[c] = "look" /\ CanListen(c, Port(c))
    /\ Bind(Port(c), c)
    /\ Goto(c, "probing")
    /\ UNCHANGED <<result, jobVars, childVars>>

ProbeBusy(c) ==
    /\ pc[c] = "look" /\ ~CanListen(c, Port(c))
    /\ Looked(c, FALSE)
    /\ UNCHANGED <<bound, fixed, next, due, childVars>>

\* ... and gives it back.
ProbeClose(c) ==
    /\ pc[c] = "probing"
    /\ Unbind(c)
    /\ Looked(c, TRUE)
    /\ UNCHANGED <<fixed, next, due, childVars>>

Tick(c) ==
    /\ pc[c] = "select"
    /\ look' = [look EXCEPT ![c] = "tick"]
    /\ Goto(c, "look")
    /\ UNCHANGED <<bound, result, fixed, next, due, childVars>>

\* A slip: the sign of the timeout is read the wrong way round.
SlipDeadline(c) ==
    /\ ~job[c].limited /\ ~due[c]
    /\ pc[c] = "select" \/ (pc[c] \in {"look", "probing"} /\ look[c] = "tick")
    /\ due' = [due EXCEPT ![c] = TRUE]
    /\ UNCHANGED <<bound, pc, result, fixed, next, look, childVars>>

\* The timer is set when the loop is entered, after the second look.
DeadlinePasses(c) ==
    /\ job[c].limited /\ ~due[c]
    /\ pc[c] = "select" \/ (pc[c] \in {"look", "probing"} /\ look[c] = "tick")
    /\ due' = [due EXCEPT ![c] = TRUE]
    /\ UNCHANGED <<bound, pc, result, fixed, next, look, childVars>>

\* A slip: the deadline ends the wait without a last look.
SlipLastLook(c) ==
    /\ pc[c] = "select" /\ due[c]
    /\ Finish(c, "timeout")
    /\ UNCHANGED <<bound, jobVars, childVars>>

LastLook(c) ==
    /\ pc[c] = "select" /\ due[c]
    /\ look' = [look EXCEPT ![c] = "last"]
    /\ Goto(c, "look")
    /\ UNCHANGED <<bound, result, fixed, next, due, childVars>>

\* open goes on to the browser, which may not start.
Browse(c) ==
    /\ pc[c] = "browse"
    /\ \E r \in {"ok", "failed"} : Finish(c, r)
    /\ UNCHANGED <<bound, jobVars, childVars>>

(* forward and awake: a child *)

\* forward catches signals from the start, awake only after the child started.
Launch(c) ==
    /\ pc[c] = "launch"
    /\ \/ /\ child' = [child EXCEPT ![c] = "running"]
          /\ Goto(c, IF Tool(c) = "forward" THEN "up" ELSE "unguarded")
          /\ UNCHANGED result
       \/ Finish(c, "failed") /\ UNCHANGED child
    /\ UNCHANGED <<bound, jobVars, sig, backoff, wanted>>

\* signal.Notify of hold and awake.
Guard(c) ==
    /\ pc[c] = "unguarded"
    /\ Goto(c, IF Tool(c) = "hold" THEN "hold" ELSE "up")
    /\ UNCHANGED <<bound, result, jobVars, childVars>>

\* A slip: the ladder is never left.
SlipDropped(c) ==
    /\ pc[c] = "up" /\ Tool(c) = "forward" /\ child[c] = "exited"
    /\ child' = [child EXCEPT ![c] = "none"]
    /\ wanted' \in {wanted, [wanted EXCEPT ![c] = InitialBackoff]}
    /\ Goto(c, "backoff")
    /\ UNCHANGED <<bound, result, jobVars, sig, backoff>>

\* kubectl has gone by itself: after a healthy session the ladder starts anew.
ForwardDropped(c) ==
    /\ pc[c] = "up" /\ Tool(c) = "forward" /\ child[c] = "exited"
    /\ child' = [child EXCEPT ![c] = "none"]
    /\ \/ UNCHANGED <<backoff, wanted>>
       \/ /\ backoff' = [backoff EXCEPT ![c] = InitialBackoff]
          /\ wanted' = [wanted EXCEPT ![c] = InitialBackoff]
    /\ Goto(c, "backoff")
    /\ UNCHANGED <<bound, result, jobVars, sig>>

\* The smaller of two numbers.
Least(a, b) == IF a <= b THEN a ELSE b

\* time.After(backoff).  Bound: wanted counts no further than past the limit.
Retry(c) ==
    /\ pc[c] = "backoff"
    /\ backoff' = [backoff EXCEPT ![c] = Least(2 * @, MaxBackoff)]
    /\ wanted' = [wanted EXCEPT ![c] = IF @ < MaxBackoff THEN 2 * @ ELSE @]
    /\ Goto(c, "launch")
    /\ UNCHANGED <<bound, result, jobVars, child, sig>>

\* A slip: the child is left alone.
SlipInterrupted(c) ==
    /\ pc[c] \in {"up", "backoff"} /\ sig[c]
    /\ Finish(c, "ok")
    /\ UNCHANGED <<bound, jobVars, childVars>>

\* A signal while the child runs kills it, and le waits for it to be gone; in
\* the backoff there is none.  select may prefer the child's exit or the timer
\* if either is ready as well.
Interrupted(c) ==
    /\ sig[c]
    /\ \/ pc[c] = "up" /\ Goto(c, "reap") /\ UNCHANGED result
       \/ pc[c] = "backoff" /\ Finish(c, "ok")
    /\ UNCHANGED <<bound, jobVars, childVars>>

Reap(c) ==
    /\ \/ pc[c] = "reap" /\ child[c] = "exited"
       \/ pc[c] = "up" /\ Tool(c) = "awake" /\ child[c] = "exited"
    /\ child' = [child EXCEPT ![c] = "none"]
    /\ Finish(c, "ok")
    /\ UNCHANGED <<bound, jobVars, sig, backoff, wanted>>

(* the world outside *)

\* SIGINT or SIGTERM, once per invocation.  Where it is not caught it ends le,
\* and the kernel closes its sockets; a child dies with it only when the
\* signal came from the terminal.
Handled(c) ==
    \/ Tool(c) = "forward"
    \/ Tool(c) = "hold" /\ pc[c] = "hold"
    \/ Tool(c) = "awake" /\ pc[c] \in {"up", "reap"}

Signal(c) ==
    /\ pc[c] \notin {"idle", "over"} /\ ~sig[c]
    /\ \/ /\ Handled(c)
          /\ sig' = [sig EXCEPT ![c] = TRUE]
          /\ UNCHANGED <<bound, pc, result, child>>
       \/ /\ ~Handled(c)
          /\ Unbind(c)
          /\ Finish(c, "killed")
          /\ child' \in {child, [child EXCEPT ![c] = "none"]}
          /\ UNCHANGED sig
    /\ UNCHANGED <<jobVars, backoff, wanted>>

\* kubectl binds the local port of the forward, if it can.
ChildBinds(c) ==
    /\ Tool(c) = "forward" /\ child[c] = "running" /\ Unbound(Port(c))
    /\ Bind(Port(c), c)
    /\ UNCHANGED <<pc, result, jobVars, childVars>>

\* The child ends by itself, or because it has been killed (pc "reap").
ChildExits(c) ==
    /\ child[c] = "running" /\ pc[c] # "over"
    /\ child' = [child EXCEPT ![c] = "exited"]
    /\ Unbind(c)
    /\ UNCHANGED <<pc, result, jobVars, sig, backoff, wanted>>

\* Listen begins, or ceases, to be refused to an invocation that will ask.
Refusal(c) ==
    /\ pc[c] \in {"bind", "look", "select"}
    /\ refused' = IF c \in refused THEN refused \ {c} ELSE refused \cup {c}
    /\ UNCHANGED <<bound, pc, result, job, next, look, due, childVars>>

ServerListens(p) ==
    /\ Unbound(p)
    /\ Bind(p, Server)
    /\ UNCHANGED <<pc, result, jobVars, childVars>>

ServerCloses(p) ==
    /\ bound[p] = Server
    /\ Bind(p, Nobody)
    /\ UNCHANGED <<pc, result, jobVars, childVars>>

-----------------------------------------------------------------------------
(* What a waiter waits for: a port that it could bind, or could not.  Its own *)
(* look does not count.                                                       *)
Waiting(c) == Tool(c) \in Waiters /\ pc[c] \in {"look", "probing", "select"}
Met(c) ==
    /\ Port(c) \in Ports
    /\ (bound[Port(c)] \in {Nobody, c} /\ c \notin refused) <=> Tool(c) = "wait"

Observe ==
    /\ met' = [c \in Commands |-> met[c] \/ (Waiting(c)' /\ Met(c)')]
    /\ steady' = [c \in Commands |-> Waiting(c)' /\ Met(c)' /\ (steady[c] \/ ~due'[c])]

Step(c) ==
    \/ Begin(c) \/ HoldPort(c) \/ HoldDone(c) \/ HoldReleased(c)
    \/ ProbeFree(c) \/ ProbeBusy(c) \/ ProbeClose(c) \/ Tick(c)
    \/ DeadlinePasses(c) \/ LastLook(c) \/ Browse(c)
    \/ Launch(c) \/ Guard(c) \/ ForwardDropped(c) \/ Retry(c)
    \/ Interrupted(c) \/ Reap(c)
    \/ Signal(c) \/ ChildBinds(c) \/ ChildExits(c) \/ Refusal(c)

Next ==
    /\ \/ \E c \in Commands : Step(c)
       \/ \E p \in Ports : ServerListens(p) \/ ServerCloses(p)
    /\ Observe

Spec == Init /\ [][Next]_vars

\* le's own steps are taken, tickers tick, timers fire and a killed child is
\* gone some time.  A select that finds two channels ready takes either with
\* the same probability, so neither is passed over for ever.  Nothing is owed
\* by servers, users, kubectl, caffeinate.
Owed(c) ==
    \/ HoldPort(c) \/ HoldDone(c) \/ HoldReleased(c)
    \/ ProbeFree(c) \/ ProbeBusy(c) \/ ProbeClose(c) \/ Tick(c) \/ Browse(c)
    \/ Launch(c) \/ Guard(c) \/ ForwardDropped(c) \/ Retry(c) \/ Reap(c)
    \/ pc[c] = "reap" /\ ChildExits(c)

Fairness ==
    \A c \in Commands :
        /\ WF_vars(Owed(c) /\ Observe)
        /\ WF_vars(DeadlinePasses(c) /\ Observe)
        /\ SF_vars(LastLook(c) /\ Observe)
        /\ SF_vars(Interrupted(c) /\ Observe)

FairSpec == Spec /\ Fairness

-----------------------------------------------------------------------------
(* The inductive invariant *)

\* The points at which an invocation has a socket on p: a held port that was
\* tried, the one look under way, or kubectl's.
Using(c, p) ==
    \/ /\ Tool(c) = "hold" /\ pc[c] \in {"bind", "unguarded", "hold"}
       /\ job[c].lo <= p /\ p < next[c]
    \/ Tool(c) \in Waiters /\ pc[c] = "probing" /\ p = Port(c)
    \/ Tool(c) = "forward" /\ child[c] = "running" /\ p = Port(c)

OwnerInv == \A p \in Ports : bound[p] \in Commands => Using(bound[p], p)

\* A look that found its port free still has it, and hold goes on only with a
\* port; hold never comes back before the first port of its range.
HolderInv ==
    \A c \in Commands :
        /\ job[c].lo <= next[c]
        /\ pc[c] = "probing" => Port(c) \in Ports /\ bound[Port(c)] = c /\ c \notin refused
        /\ pc[c] = "hold" \/ (pc[c] = "unguarded" /\ Tool(c) = "hold") => Holds(c)

SocketInv == OwnerInv /\ HolderInv

\* Which points belong to which tool, and what is known there.
PointInv ==
    \A c \in Commands :
        /\ pc[c] \in {"bind", "hold"} => Tool(c) = "hold"
        /\ pc[c] = "unguarded" => Tool(c) \in {"hold", "awake"}
        /\ pc[c] \in {"look", "probing", "select", "browse"} =>
              Tool(c) \in Waiters /\ Port(c) \in Ports
        /\ pc[c] \in {"launch", "up", "reap"} => Tool(c) \in {"forward", "awake"}
        /\ pc[c] = "backoff" => Tool(c) = "forward"
        /\ pc[c] = "over" <=> result[c] # "none"
        /\ sig[c] => Tool(c) \in {"hold", "forward", "awake"}
        /\ pc[c] = "select" => look[c] \in {"second", "tick"}
        /\ look[c] = "last" => due[c]
        /\ due[c] => job[c].limited /\ look[c] # "first"

\* A child is known to the invocation that has to wait for it.
ChildInv ==
    \A c \in Commands :
        /\ child[c] # "none" =>
              \/ pc[c] \in {"unguarded", "up", "reap"} /\ Tool(c) \in {"forward", "awake"}
              \/ result[c] = "killed" /\ Tool(c) = "awake"
        /\ Tool(c) = "forward" => pc[c] # "unguarded" /\ result[c] # "killed"
        /\ pc[c] \in {"up", "reap"} \/ (pc[c] = "unguarded" /\ Tool(c) = "awake") =>
              child[c] # "none"

\* The wait before the next session is the first one doubled for every session
\* lost since the last healthy one, up to the limit (forward.go:34-36).
LadderInv == \A c \in Commands : backoff[c] = Least(wanted[c], MaxBackoff)

ToolsInv == TypeOK /\ SocketInv /\ PointInv /\ ChildInv /\ LadderInv

-----------------------------------------------------------------------------
(* Properties *)

\* What an invocation started or took is gone when it is over, however it has
\* ended: the ports, the probe's socket, kubectl.  The one exception is
\* caffeinate when a SIGTERM hits le after Start and before signal.Notify
\* (keepawake.go:27-32).
NothingIsLeft ==
    \A c \in Commands : pc[c] = "over" =>
        /\ \A p \in Ports : bound[p] # c
        /\ child[c] = "none" \/ (Tool(c) = "awake" /\ result[c] = "killed")

\* An answer is true of some instant of the call, in Free's sense of "free"
\* (tools.go:46): wait could have bound the port; to ready and open a Listen on
\* it would have failed, because of somebody else on it, a listener or the look
\* of another le, or because the kernel refused the socket, which they take for
\* a listener (tools.go:49-52).  For an argument that is no port there is no
\* such instant, so none of them may answer (validPort, tools.go:38).
AnswersAreWitnessed ==
    \A c \in Commands :
        Tool(c) \in Waiters /\ (pc[c] = "browse" \/ result[c] = "ok") => met[c]

\* What came true before the time was up, and has stayed true, is not reported
\* as a timeout (tools.go:150-153, "One final check AT the deadline").
TimeoutsAreReal ==
    [][\A c \in Commands : steady[c] => result'[c] # "timeout"]_vars

\* A signal that is caught ends the invocation; a time limit ends a wait; and a
\* wait without limit goes on only if what it waits for fails to hold again
\* and again (another waiter's look may be what makes it fail).
ToolsReturn ==
    \A c \in Commands :
        /\ sig[c] ~> pc[c] = "over"
        /\ (Waiting(c) /\ job[c].limited) ~> (pc[c] \in {"browse", "over"})
        /\ <>[]Waiting(c) => []<>~Met(c)
=============================================================================
