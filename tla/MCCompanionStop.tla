---------------------------- MODULE MCCompanionStop ----------------------------
(* A small instance of CompanionStop for TLC.                                *)
EXTENDS CompanionStop, TLC

\* The context seam does not read command lines: one is enough.
CommandLines == {"node"}
LsofName == [argv \in CommandLines |-> "node"]

Interchangeable == Permutations(Handlers)

===============================================================================
