-------------------------- MODULE MCCompanionSession --------------------------
(* A small instance of CompanionSession for TLC.                             *)
EXTENDS CompanionSession
===============================================================================
