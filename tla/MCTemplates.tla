---------------------------- MODULE MCTemplates ----------------------------
(***************************************************************************)
(* Instances of Templates for TLC.                                         *)
(***************************************************************************)
EXTENDS Templates, TLC

\* With one child per node, the first token of all takes a leaf for itself and
\* the other lines share the bucket, where the third may join either of its
\* neighbours.  Blank lines included.
MCLines == {<<"a", "b">>, <<"f", "b">>, <<"f", "e">>, <<"g", "e">>, <<>>}

\* A line, and a message of white space only.
MCBlank == {<<"a", "b">>, <<>>}

WorkerSymmetry == Permutations(Workers)

=============================================================================
