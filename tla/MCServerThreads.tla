-------------------------- MODULE MCServerThreads --------------------------
(***************************************************************************)
(* ServerThreads for TLC: two workers at most, one connection waiting.     *)
(***************************************************************************)
EXTENDS ServerThreads
=============================================================================
