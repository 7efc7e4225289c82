-------------------------- MODULE MCServerContext --------------------------
(* Two workers, one router of the application, one context.                *)
EXTENDS ServerContext, TLC

Symmetry == Permutations(Workers)
=============================================================================
