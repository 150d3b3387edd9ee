----------------------------- MODULE MCChunking -----------------------------
(***************************************************************************)
(* Instances of Chunking for TLC: every text of at most MaxAtoms atoms of  *)
(* at most MaxLen characters, every chunk size up to MaxChars and every    *)
(* overlap up to the chunk size.                                           *)
(***************************************************************************)
EXTENDS Chunking

CONSTANTS MaxAtoms, MaxLen, MaxChars

EndsOf(k, lengths) ==
    LET upto[i \in 0..k] == IF i = 0 THEN 0 ELSE upto[i - 1] + lengths[i]
    IN  [i \in 0..k |-> upto[i]]

SmallInputs ==
    UNION {
        {[n |-> k, ends |-> EndsOf(k, lengths), max_chars |-> max, overlap |-> over] :
            lengths \in [1..k -> 1..MaxLen], max \in 1..MaxChars, over \in 0..MaxChars} :
        k \in 0..MaxAtoms}
=============================================================================
