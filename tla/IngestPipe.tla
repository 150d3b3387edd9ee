---------------------------- MODULE IngestPipe -----------------------------
(***************************************************************************)
(* The ingest path of bdsnode: the handlers of v2/add and v2/add.batch,    *)
(* which push documents onto the bounded "ingest" channel (common/pipe.rs),*)
(* the bds-add thread (server/add.rs), which collects them into batches    *)
(* for ShardsManager::add_batch, and the shutdown sequence of main.rs.     *)
(***************************************************************************)
EXTENDS Naturals, Sequences, FiniteSets

CONSTANTS
    Docs,           \* documents, each submitted by one client
    Bad,            \* those without a numeric timestamp
    Blank,          \* those whose line has no token
    Clients,        \* connections that call the two methods
    Capacity,       \* ingest_channel_capacity; 0 is unbounded
    BatchSize,      \* pipe_batch_size
    MaxDocs,        \* bound on the documents of one call
    MaxLog          \* bound on the documents pushed, retries included

ASSUME IngestPipeAssumption ==
    /\ Bad \subseteq Docs /\ Blank \subseteq Docs
    /\ Capacity \in Nat /\ MaxDocs \in Nat /\ MaxLog \in Nat
    /\ BatchSize \in Nat \ {0}

VARIABLES
    phase,      \* of main: "serving", "closing", "draining", "syncing", "down"
    calls,      \* what each client is doing
    used,       \* documents that were submitted
    accepted,   \* documents of calls answered "queued" or with an id
    channel,    \* the documents in the channel
    thread,     \* of bds-add: "select", "drain", "flush", "stopped", "dead"
    resume,     \* where it goes on after a flush
    batch,      \* the documents it holds
    log,        \* every document pushed, in order
    handed,     \* every document handed to add_batch, in order
    stored,     \* the documents in the shards
    dropped     \* the documents a failed add_batch left unstored

vars == <<phase, calls, used, accepted, channel, thread, resume, batch, log,
          handed, stored, dropped>>

node   == <<phase>>
client == <<calls, used, accepted>>
adder  == <<thread, resume, batch, handed, stored, dropped>>

Idle == [pc |-> "idle"]

Call ==
    {Idle}
    \cup {k \in [pc : {"sending"}, docs : Seq(Docs), sent : Nat] : k.sent < Len(k.docs)}
    \cup [pc : {"refused"}, docs : Seq(Docs) \ {<<>>}]

TypeOK ==
    /\ calls \in [Clients -> Call]
    /\ phase \in {"serving", "closing", "draining", "syncing", "down"}
    /\ used \subseteq Docs /\ accepted \subseteq Docs
    /\ stored \subseteq Docs /\ dropped \subseteq Docs
    /\ channel \in Seq(Docs) /\ batch \in Seq(Docs)
    /\ log \in Seq(Docs) /\ handed \in Seq(Docs)
    /\ thread \in {"select", "drain", "flush", "stopped", "dead"}
    /\ resume \in {"select", "drain", "stopped"}

Elements(s) == {s[i] : i \in DOMAIN s}

-----------------------------------------------------------------------------
(* v2/add is a call with one document, v2/add.batch one with several; v2/add *)
(* with sync goes past the channel.                                        *)

\* Bounds the documents pushed by bounding the calls.
Bounded == Len(log) + MaxDocs * Cardinality(Clients) <= MaxLog

Submit(c, docs) ==
    /\ phase = "serving"
    /\ calls[c] = Idle
    /\ Bounded
    /\ Elements(docs) \cap used = {}
    /\ used' = used \cup Elements(docs)
    /\ calls' = [calls EXCEPT ![c] = [pc |-> "sending", docs |-> docs, sent |-> 0]]
    /\ UNCHANGED <<node, accepted, channel, adder, log>>

Room == Capacity = 0 \/ Len(channel) < Capacity

\* send_many: one try_send per document; other producers come in between.
Push(c) ==
    /\ calls[c].pc = "sending"
    /\ Room
    /\ LET docs == calls[c].docs
           n    == calls[c].sent + 1
       IN  /\ channel' = Append(channel, docs[n])
           /\ log' = Append(log, docs[n])
           /\ IF n = Len(docs)
              THEN /\ calls' = [calls EXCEPT ![c] = Idle]
                   /\ accepted' = accepted \cup Elements(docs)
              ELSE /\ calls' = [calls EXCEPT ![c].sent = n]
                   /\ UNCHANGED accepted
    /\ UNCHANGED <<node, used, adder>>

\* The first document that finds the channel full ends the call; those sent
\* before it stay in the channel.
Refuse(c) ==
    /\ calls[c].pc = "sending"
    /\ ~Room
    /\ calls' = [calls EXCEPT ![c] = [pc |-> "refused", docs |-> calls[c].docs]]
    /\ UNCHANGED <<node, used, accepted, channel, adder, log>>

\* The client backs off and submits the same documents again.
Retry(c) ==
    /\ phase = "serving"
    /\ calls[c].pc = "refused"
    /\ Bounded
    /\ calls' = [calls EXCEPT ![c] = [pc |-> "sending", docs |-> calls[c].docs, sent |-> 0]]
    /\ UNCHANGED <<node, used, accepted, channel, adder, log>>

\* v2/add with sync: the document is stored before the call returns its id.
\* A call that fails, or panics on a blank line, may have stored it.
AddNow(c, d) ==
    /\ phase \in {"serving", "closing"}
    /\ calls[c] = Idle
    /\ d \notin used
    /\ used' = used \cup {d}
    /\ \/ /\ d \notin Bad
          /\ stored' = stored \cup {d}
          /\ accepted' = accepted \cup {d}
       \/ /\ stored' \in {stored, stored \cup ({d} \ Bad)}
          /\ UNCHANGED accepted
    /\ UNCHANGED <<node, calls, channel, thread, resume, batch, log, handed, dropped>>

-----------------------------------------------------------------------------
(* run and flush in server/add.rs. *)

\* The next message goes into the batch; a full batch is flushed.
Receive ==
    /\ thread \in {"select", "drain"}
    /\ channel # <<>>
    /\ channel' = Tail(channel)
    /\ batch' = Append(batch, Head(channel))
    /\ IF Len(batch') >= BatchSize
       THEN thread' = "flush" /\ resume' = thread
       ELSE UNCHANGED <<thread, resume>>
    /\ UNCHANGED <<node, client, log, handed, stored, dropped>>

\* Flushes full batches only.
SlipTimeout ==
    /\ thread = "select"
    /\ channel = <<>> /\ phase # "draining"
    /\ Len(batch) >= BatchSize
    /\ thread' = "flush" /\ resume' = "select"
    /\ UNCHANGED <<node, client, channel, log, batch, handed, stored, dropped>>

\* select!'s default: neither channel became ready for the timeout.
Timeout ==
    /\ thread = "select"
    /\ channel = <<>> /\ phase # "draining"
    /\ batch # <<>>
    /\ thread' = "flush" /\ resume' = "select"
    /\ UNCHANGED <<node, client, channel, log, batch, handed, stored, dropped>>

\* Listens for the signal between batches.
SlipSeeShutdown ==
    /\ thread = "select"
    /\ phase = "draining" /\ batch = <<>>
    /\ thread' = "drain"
    /\ UNCHANGED <<node, client, channel, log, resume, batch, handed, stored, dropped>>

\* The shutdown signal may be picked while there are messages.
SeeShutdown ==
    /\ thread = "select"
    /\ phase = "draining"
    /\ thread' = "drain"
    /\ UNCHANGED <<node, client, channel, log, resume, batch, handed, stored, dropped>>

\* The channel is empty: the rest of the batch is flushed and the thread ends.
Drained ==
    /\ thread = "drain"
    /\ channel = <<>>
    /\ IF batch # <<>> THEN thread' = "flush" /\ resume' = "stopped"
       ELSE thread' = "stopped" /\ UNCHANGED resume
    /\ UNCHANGED <<node, client, channel, log, batch, handed, stored, dropped>>

\* Keeps the documents for the next batch as well.
SlipFlush ==
    /\ thread = "flush"
    /\ stored' = stored \cup Elements(batch)
    /\ handed' = handed \o batch
    /\ thread' = resume
    /\ UNCHANGED <<node, client, channel, log, resume, batch, dropped>>

\* add_batch: one document without a timestamp fails the call before any is
\* stored; any shard may fail, and those of the other shards are stored.
\* Whatever it returns, the batch is gone.
Flush ==
    /\ thread = "flush"
    /\ \E kept \in SUBSET Elements(batch) :
          /\ Elements(batch) \cap Bad # {} => kept = {}
          /\ stored' = stored \cup kept
          /\ dropped' = dropped \cup (Elements(batch) \ kept)
    /\ handed' = handed \o batch
    /\ batch' = <<>>
    /\ thread' = resume
    /\ UNCHANGED <<node, client, channel, log, resume>>

\* add_batch parses every line with the Drain miner before it stores any: a
\* blank one panics when the miner is on and its lock was not poisoned by an
\* earlier panic (else Flush).  Nothing catches it: the batch is lost and
\* bds-add ends, while the channel keeps its documents and takes more.
Panic ==
    /\ thread = "flush"
    /\ Elements(batch) \cap Blank # {}
    /\ dropped' = dropped \cup Elements(batch)
    /\ handed' = handed \o batch
    /\ batch' = <<>>
    /\ thread' = "dead"
    /\ UNCHANGED <<node, client, channel, log, resume, stored>>

-----------------------------------------------------------------------------
(* The shutdown sequence of main. *)

\* ctrl-c; the RPC server takes no more calls.
StopServer ==
    /\ phase = "serving"
    /\ phase' = "closing"
    /\ UNCHANGED <<client, channel, adder, log>>

\* Signals bds-add while calls are still running.
SlipStopAdd ==
    /\ phase = "closing"
    /\ phase' = "draining"
    /\ UNCHANGED <<client, channel, adder, log>>

\* The server has stopped when its last call has returned.  Then the tasks
\* that do not touch the channel are stopped, and bds-add is signalled.
StopAdd ==
    /\ phase = "closing"
    /\ \A c \in Clients : calls[c].pc # "sending"
    /\ phase' = "draining"
    /\ UNCHANGED <<client, channel, adder, log>>

\* The thread is joined; that it panicked is only logged.
JoinAdd ==
    /\ phase = "draining"
    /\ thread \in {"stopped", "dead"}
    /\ phase' = "syncing"
    /\ UNCHANGED <<client, channel, adder, log>>

SyncDb ==
    /\ phase = "syncing"
    /\ phase' = "down"
    /\ UNCHANGED <<client, channel, adder, log>>

-----------------------------------------------------------------------------
Init ==
    /\ phase = "serving"
    /\ calls = [c \in Clients |-> Idle]
    /\ used = {} /\ accepted = {} /\ stored = {} /\ dropped = {}
    /\ channel = <<>> /\ batch = <<>> /\ log = <<>> /\ handed = <<>>
    /\ thread = "select" /\ resume = "select"

\* The calls a client may make: distinct documents.
Requests ==
    {s \in UNION {[1..n -> Docs] : n \in 1..MaxDocs} :
        \A i, j \in DOMAIN s : s[i] = s[j] => i = j}

Answer(c) == Push(c) \/ Refuse(c)
Add == Receive \/ Timeout \/ SeeShutdown \/ Drained \/ Flush \/ Panic
Shutdown == StopAdd \/ JoinAdd \/ SyncDb

Next ==
    \/ \E c \in Clients :
          \/ \E docs \in Requests : Submit(c, docs)
          \/ \E d \in Docs : AddNow(c, d)
          \/ Answer(c) \/ Retry(c)
    \/ Add \/ StopServer \/ Shutdown

Spec == Init /\ [][Next]_vars

\* Handlers and the thread run; main goes on once it has begun to stop.
FairSpec ==
    /\ Spec
    /\ \A c \in Clients : WF_vars(Answer(c))
    /\ WF_vars(Add) /\ WF_vars(Shutdown)

-----------------------------------------------------------------------------
\* The channel and the batch stay within their limits, whoever pushes.
QueuesBounded ==
    /\ Len(batch) <= BatchSize
    /\ Capacity > 0 => Len(channel) <= Capacity

\* Nothing is lost, doubled or reordered between a push and add_batch.
Conveyed == log = handed \o batch \o channel

\* A thread that has stopped has left nothing behind; one that has died left
\* no batch, and was handed a blank line.
NothingLeftBehind ==
    /\ thread = "stopped" => channel = <<>> /\ batch = <<>>
    /\ thread = "dead" => batch = <<>> /\ Elements(handed) \cap Blank # {}

\* Once the node is down, every document of an accepted call is in a shard,
\* unless add_batch was given it and failed; if add_batch was given a blank
\* line, on which bds-add may have died, some may be left in the channel
\* (add.rs, start: "ensuring no data is lost on server shutdown").
AcceptedAreStored ==
    phase = "down" =>
        \/ accepted \subseteq stored \cup dropped
        \/ /\ Elements(handed) \cap Blank # {}
           /\ accepted \subseteq stored \cup dropped \cup Elements(channel)

\* A document of an accepted call is handed to add_batch sooner or later, and
\* stored if that call does not fail, as long as bds-add does not die of a
\* blank line.
AcceptedGetStored ==
    \A d \in Docs : d \in accepted ~> d \in stored \cup dropped \/ thread = "dead"

\* A shutdown comes to an end.
ShutdownEnds == phase = "closing" ~> phase = "down"

\* What producers see of the state of the thread.
PathState ==
    IF thread = "stopped" THEN "closed" ELSE IF thread = "dead" THEN "broken" ELSE "open"

Abstract == INSTANCE IngestLog WITH path <- PathState

\* The path implements IngestLog.
ImplementsLog == Abstract!LogSpec

=============================================================================
