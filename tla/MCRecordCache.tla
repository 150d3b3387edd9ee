---------------------------- MODULE MCRecordCache ----------------------------
(***************************************************************************)
(* Instances of RecordCache for TLC.                                       *)
(***************************************************************************)
EXTENDS RecordCache

=============================================================================
