-------------------------- MODULE MCCompanionServer --------------------------
(* Small instances of CompanionServer for TLC.                              *)
EXTENDS CompanionServer, TLC

\* Handlers, request IDs and, since the server only compares and passes them on,
\* operations are interchangeable; sound for safety only.
Interchangeable ==
    Permutations(Handlers) \cup Permutations(RequestIDs) \cup Permutations(Operations)

=============================================================================
