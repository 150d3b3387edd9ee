----------------------------- MODULE IngestLog -----------------------------
(***************************************************************************)
(* What the ingest path promises to its producers: documents are handed to *)
(* the store in the order in which they were taken in, each of them once,  *)
(* in batches, and none is taken in once the path has closed with nothing  *)
(* left behind.  A batch with a blank line may break the path: nothing is  *)
(* handed over any more, though documents are still taken in.              *)
(***************************************************************************)
EXTENDS Naturals, Sequences

CONSTANTS Docs, Blank, BatchSize

VARIABLES
    log,        \* every document taken in, in order
    handed,     \* those handed to the store, in order
    path        \* "open", "closed", "broken"

logvars == <<log, handed, path>>

LogInit == log = <<>> /\ handed = <<>> /\ path = "open"

Take(d) ==
    /\ path # "closed"
    /\ log' = Append(log, d)
    /\ UNCHANGED <<handed, path>>

Hand ==
    /\ path = "open"
    /\ \E n \in Len(handed) + 1 .. Len(handed) + BatchSize :
          /\ n <= Len(log)
          /\ handed' = SubSeq(log, 1, n)
          /\ \/ path' = "open"
             \/ path' = "closed" /\ n = Len(log)
             \/ path' = "broken" /\ \E i \in Len(handed) + 1 .. n : log[i] \in Blank
    /\ UNCHANGED log

Close ==
    /\ path = "open" /\ handed = log
    /\ path' = "closed"
    /\ UNCHANGED <<log, handed>>

LogNext == (\E d \in Docs : Take(d)) \/ Hand \/ Close

LogSpec == LogInit /\ [][LogNext]_logvars

=============================================================================
