---------------------------- MODULE MCIngestPipe ----------------------------
(***************************************************************************)
(* Instances of IngestPipe for TLC.                                        *)
(***************************************************************************)
EXTENDS IngestPipe

=============================================================================
