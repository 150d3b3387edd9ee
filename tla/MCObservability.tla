--------------------------- MODULE MCObservability ---------------------------
(***************************************************************************)
(* Instances of Observability for TLC: contents are numbers, similar when  *)
(* they are equal or neighbours.                                           *)
(***************************************************************************)
EXTENDS Observability, TLC

Symmetry == Permutations(Workers) \cup Permutations(Ids)

MCSimilar == {p \in Contents \X Contents : p[1] <= p[2] + 1 /\ p[2] <= p[1] + 1}

=============================================================================
