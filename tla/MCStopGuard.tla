----------------------------- MODULE MCStopGuard -----------------------------
(* Small instances of StopGuard for TLC.                                    *)
EXTENDS StopGuard, TLC

\* Two command lines that lsof shows alike; the first one is bare.
CommandLines == {"node", "node app.js"}
LsofName == [argv \in CommandLines |-> "node"]

Interchangeable == Permutations(PIDs)

=============================================================================
