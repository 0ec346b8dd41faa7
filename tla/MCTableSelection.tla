-------------------------- MODULE MCTableSelection --------------------------
(* A small instance of TableSelection for TLC.                              *)
EXTENDS TableSelection

Listener(pid, start, line, full, owner, stoppable) ==
    [pid |-> pid, start |-> start, line |-> line, full |-> full,
     owner |-> owner, port |-> pid, stoppable |-> stoppable]

\* A dev server, and the process that reuses its PID.
Server   == Listener(1, 1, "node a.js", TRUE, "terminal", TRUE)
Reused   == Listener(1, 2, "node b.js", TRUE, "terminal", TRUE)
\* Three helpers that le will not stop: a group that starts folded.
Helpers  == {Listener(p, 1, "helper", TRUE, "ide", FALSE) : p \in {2, 3, 4}}
\* A process whose start time is unknown, with its command line or without.
Named    == Listener(5, 0, "node c.js", TRUE, "terminal", TRUE)
Nameless == Listener(5, 0, "node", FALSE, "terminal", TRUE)

SomeScans ==
    {{}, {Server, Named}, {Reused, Nameless}, {Server} \cup Helpers,
     Helpers \cup {Named}}

PaneFields(r) == IF r.stoppable THEN 2 ELSE 1
Matches(r) == r.pid \in {1, 2}

=============================================================================
