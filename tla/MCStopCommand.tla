---------------------------- MODULE MCStopCommand ----------------------------
(* One machine with two ports, of which one number is also a PID, and one     *)
(* program of each sort: started by hand, by brew services, by an agent.      *)
EXTENDS StopCommand, TLC

TwoPorts == {1, 2}
TwoPIDs == {2, 3}

RedisService == "homebrew.mxcl.redis"
Agent == "com.example.agent"

Listens(ports) ==
    [cmd |-> {}, dir |-> {}, helper |-> FALSE, script |-> FALSE, system |-> FALSE,
     app |-> FALSE, formula |-> NoFormula, ports |-> ports, cwd |-> NoDir, job |-> NoLabel]

Redis == [Listens({1}) EXCEPT !.cmd = {"database"}, !.formula = "redis"]
SomePrograms ==
    { [Listens({1}) EXCEPT !.script = TRUE, !.cmd = {"runtime"}, !.cwd = <<"work", "api">>],
      [Listens({1, 2}) EXCEPT !.script = TRUE, !.cwd = <<"work">>, !.job = Agent],
      Redis,
      [Redis EXCEPT !.job = RedisService],
      [Listens({2}) EXCEPT !.helper = TRUE, !.cmd = {"runtime"}],
      [Listens({2}) EXCEPT !.system = TRUE, !.cwd = <<"workshop">>] }

Arguments ==
    {[by |-> "number", number |-> n] : n \in 1 .. 3}
        \cup {[by |-> "range", lo |-> 1, hi |-> 2], [by |-> "dir", dir |-> <<"work">>]}

ServiceLabels == [f \in {"redis"} |-> RedisService]
=============================================================================
