----------------------------- MODULE MCPortTools -----------------------------
(* Two invocations of le and two ports: every job about the first port, next  *)
(* to another invocation that takes it or looks at it.                        *)
EXTENDS PortTools, TLC

CONSTANTS c1, c2

Job(tool, lo, hi, limited) == [tool |-> tool, lo |-> lo, hi |-> hi, limited |-> limited]

TwoPorts == {1, 2}
Partner ==
    {Job("hold", 1, 2, FALSE), Job("ready", 1, 1, FALSE)}
AnyJob == Partner \cup
    {Job("hold", 0, 0, FALSE), Job("wait", 1, 1, FALSE), Job("wait", 1, 1, TRUE),
     Job("ready", 0, 0, TRUE), Job("ready", 1, 1, TRUE),
     Job("open", 1, 1, TRUE), Job("forward", 1, 1, FALSE), Job("awake", 1, 1, FALSE)}
EveryJob == (c1 :> AnyJob) @@ (c2 :> Partner)

=============================================================================
