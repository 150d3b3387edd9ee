----------------------------- MODULE MCContexts -----------------------------
(***************************************************************************)
(* Instances of Contexts for TLC.                                          *)
(***************************************************************************)
EXTENDS Contexts, TLC

Interchangeable == Permutations(Names) \cup Permutations(Calls)
=============================================================================
