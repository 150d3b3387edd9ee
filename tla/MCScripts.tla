------------------------------ MODULE MCScripts ------------------------------
(***************************************************************************)
(* Instances of Scripts for TLC.                                           *)
(***************************************************************************)
EXTENDS Scripts

\* Every minute; every second minute.
EveryAndOdd == [v \in 1..2 |-> IF v = 1 THEN 0..9 ELSE {1, 3, 5, 7, 9}]
=============================================================================
