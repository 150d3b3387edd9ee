-------------------------- MODULE IngestPipeProofs --------------------------
(***************************************************************************)
(* The ingest path keeps its queues within their limits, loses, doubles    *)
(* and reorders nothing up to add_batch, leaves nothing behind when it     *)
(* stops, can die of nothing but a blank line, and implements IngestLog:   *)
(* for any set of documents and clients, any capacity and any batch size.  *)
(***************************************************************************)
EXTENDS IngestPipe, SequenceTheorems, TLAPS

\* Once bds-add has been told to stop, no handler is left to push.
QuietWhenDraining ==
    phase \in {"draining", "syncing", "down"} =>
        \A c \in Clients : calls[c].pc # "sending"

\* The thread drains only when told to.
Ending == thread \in {"drain", "stopped"} \/ (thread = "flush" /\ resume # "select")
DrainsWhenTold == Ending => phase \in {"draining", "syncing", "down"}

BatchFits ==
    /\ Len(batch) <= BatchSize
    /\ thread \in {"select", "drain"} => Len(batch) < BatchSize
    /\ thread = "flush" => Len(batch) > 0
    /\ thread \in {"stopped", "dead"} => batch = <<>>

ChannelFits == Capacity > 0 => Len(channel) <= Capacity

ChannelDrained ==
    thread = "stopped" \/ (thread = "flush" /\ resume = "stopped") => channel = <<>>

\* bds-add dies of a blank line only.
DeadOfBlank == thread = "dead" => Elements(handed) \cap Blank # {}

Inv ==
    /\ TypeOK
    /\ Conveyed
    /\ QuietWhenDraining
    /\ DrainsWhenTold
    /\ BatchFits
    /\ ChannelFits
    /\ ChannelDrained
    /\ DeadOfBlank

LEMMA InitInv == Init => Inv
  BY IngestPipeAssumption
  DEF Init, Inv, TypeOK, Call, Idle, Conveyed, QuietWhenDraining, DrainsWhenTold,
      Ending, BatchFits, ChannelFits, ChannelDrained, DeadOfBlank

\* Requests are sequences of documents.
LEMMA RequestsAreSeqs ==
  ASSUME NEW docs \in Requests
  PROVE  docs \in Seq(Docs) /\ Len(docs) > 0
  BY IngestPipeAssumption DEF Requests

LEMMA SubmitInv ==
  ASSUME Inv, NEW c \in Clients, NEW docs \in Requests, Submit(c, docs)
  PROVE  Inv'
  <1>1. docs \in Seq(Docs) /\ Len(docs) > 0
    BY RequestsAreSeqs
  <1>2. [pc |-> "sending", docs |-> docs, sent |-> 0] \in Call
    BY <1>1 DEF Call
  <1>3. Elements(docs) \subseteq Docs
    BY <1>1 DEF Elements
  <1>. QED
    BY <1>2, <1>3
    DEF Inv, TypeOK, Conveyed, QuietWhenDraining, DrainsWhenTold, Ending, BatchFits,
        ChannelFits, ChannelDrained, DeadOfBlank, Elements, Submit, node, adder

\* A document pushed is the last of what is under way.
LEMMA AppendLast ==
  ASSUME NEW a \in Seq(Docs), NEW b \in Seq(Docs), NEW q \in Seq(Docs), NEW d \in Docs
  PROVE  Append(a \o b \o q, d) = a \o b \o Append(q, d)
  <1>1. a \o b \in Seq(Docs)
    OBVIOUS
  <1>2. a \o b \o q \in Seq(Docs) /\ <<d>> \in Seq(Docs)
    BY <1>1
  <1>3. Append(a \o b \o q, d) = a \o b \o q \o <<d>>
    BY <1>2, AppendIsConcat
  <1>4. Append(q, d) = q \o <<d>>
    BY AppendIsConcat
  <1>5. a \o b \o q \o <<d>> = a \o b \o (q \o <<d>>)
    BY <1>1, <1>2, ConcatAssociative
  <1>. QED
    BY <1>3, <1>4, <1>5

LEMMA PushInv ==
  ASSUME Inv, NEW c \in Clients, Push(c)
  PROVE  Inv'
  <1>. DEFINE docs == calls[c].docs
              n == calls[c].sent + 1
  <1>1. /\ docs \in Seq(Docs) /\ n \in 1..Len(docs)
        /\ calls[c].sent \in Nat
        /\ calls[c] = [pc |-> "sending", docs |-> docs, sent |-> calls[c].sent]
    BY DEF Inv, TypeOK, Call, Idle, Push
  <1>2. docs[n] \in Docs /\ Elements(docs) \subseteq Docs
    BY <1>1 DEF Elements
  <1>3. channel' = Append(channel, docs[n]) /\ log' = Append(log, docs[n])
    BY DEF Push
  <1>4. calls' \in [Clients -> Call]
    <2>1. CASE n = Len(docs)
      BY <2>1 DEF Push, Inv, TypeOK, Call
    <2>2. CASE n # Len(docs)
      <3>1. [calls[c] EXCEPT !.sent = n] \in Call
        BY <2>2, <1>1 DEF Call
      <3>2. calls' = [calls EXCEPT ![c] = [calls[c] EXCEPT !.sent = n]]
        BY <2>2 DEF Push
      <3>. QED
        BY <3>1, <3>2 DEF Inv, TypeOK
    <2>. QED
      BY <2>1, <2>2
  <1>5. TypeOK'
    BY <1>2, <1>3, <1>4 DEF Inv, TypeOK, Push, node, adder
  <1>6. Conveyed'
    <2>1. /\ log = handed \o batch \o channel
          /\ handed \in Seq(Docs) /\ batch \in Seq(Docs) /\ channel \in Seq(Docs)
          /\ handed' = handed /\ batch' = batch
      BY DEF Inv, TypeOK, Conveyed, Push, adder
    <2>2. Append(log, docs[n]) = handed \o batch \o Append(channel, docs[n])
      BY <2>1, <1>2, AppendLast
    <2>. QED
      BY <2>1, <2>2, <1>3 DEF Conveyed
  <1>7. phase \in {"serving", "closing"} /\ phase' = phase
    BY DEF Inv, TypeOK, QuietWhenDraining, Push, node
  <1>8. thread' = thread /\ resume' = resume /\ batch' = batch
    BY DEF Push, adder
  <1>9. ChannelFits'
    BY <1>2, <1>3, IngestPipeAssumption DEF Inv, TypeOK, ChannelFits, Push, Room
  <1>10. QuietWhenDraining' /\ DrainsWhenTold' /\ BatchFits' /\ ChannelDrained'
    BY <1>7, <1>8
    DEF Inv, TypeOK, QuietWhenDraining, DrainsWhenTold, Ending, BatchFits, ChannelDrained
  <1>11. DeadOfBlank'
    BY DEF Inv, DeadOfBlank, Elements, Push, adder
  <1>. QED
    BY <1>5, <1>6, <1>9, <1>10, <1>11 DEF Inv

LEMMA RefuseInv ==
  ASSUME Inv, NEW c \in Clients, Refuse(c)
  PROVE  Inv'
  <1>1. [pc |-> "refused", docs |-> calls[c].docs] \in Call
    BY DEF Refuse, Inv, TypeOK, Call, Idle
  <1>. QED
    BY <1>1
    DEF Inv, TypeOK, Conveyed, QuietWhenDraining, DrainsWhenTold, Ending, BatchFits,
        ChannelFits, ChannelDrained, DeadOfBlank, Elements, Refuse, node, adder

LEMMA RetryInv ==
  ASSUME Inv, NEW c \in Clients, Retry(c)
  PROVE  Inv'
  <1>1. [pc |-> "sending", docs |-> calls[c].docs, sent |-> 0] \in Call
    BY DEF Retry, Inv, TypeOK, Call, Idle
  <1>. QED
    BY <1>1
    DEF Inv, TypeOK, Conveyed, QuietWhenDraining, DrainsWhenTold, Ending, BatchFits,
        ChannelFits, ChannelDrained, DeadOfBlank, Elements, Retry, node, adder

LEMMA AddNowInv ==
  ASSUME Inv, NEW c \in Clients, NEW d \in Docs, AddNow(c, d)
  PROVE  Inv'
  BY DEF Inv, TypeOK, Conveyed, QuietWhenDraining, DrainsWhenTold, Ending, BatchFits,
         ChannelFits, ChannelDrained, DeadOfBlank, Elements, AddNow, node

\* A message that moves from the channel to the batch keeps its place.
LEMMA MoveOne ==
  ASSUME NEW a \in Seq(Docs), NEW b \in Seq(Docs), NEW q \in Seq(Docs), q # <<>>
  PROVE  a \o Append(b, Head(q)) \o Tail(q) = a \o b \o q
  OBVIOUS

LEMMA ReceiveInv ==
  ASSUME Inv, Receive
  PROVE  Inv'
  <1>1. /\ channel \in Seq(Docs) /\ channel # <<>> /\ batch \in Seq(Docs)
        /\ channel' = Tail(channel) /\ batch' = Append(batch, Head(channel))
    BY DEF Inv, TypeOK, Receive
  <1>2. /\ Head(channel) \in Docs /\ channel' \in Seq(Docs) /\ batch' \in Seq(Docs)
        /\ Len(channel') = Len(channel) - 1 /\ Len(batch') = Len(batch) + 1
    BY <1>1
  <1>3. TypeOK'
    BY <1>2 DEF Inv, TypeOK, Receive, node, client
  <1>4. Conveyed'
    <2>1. /\ log = handed \o batch \o channel /\ handed \in Seq(Docs)
          /\ log' = log /\ handed' = handed
      BY DEF Inv, TypeOK, Conveyed, Receive
    <2>2. handed \o batch \o channel
            = handed \o Append(batch, Head(channel)) \o Tail(channel)
      BY <1>1, <2>1, MoveOne
    <2>. QED
      BY <1>1, <2>1, <2>2 DEF Conveyed
  <1>5. ChannelFits'
    BY <1>1, <1>2, IngestPipeAssumption DEF Inv, ChannelFits
  <1>6. BatchFits'
    BY <1>1, <1>2, IngestPipeAssumption DEF Inv, TypeOK, BatchFits, Receive
  <1>7. QuietWhenDraining' /\ DrainsWhenTold' /\ ChannelDrained'
    BY DEF Inv, TypeOK, QuietWhenDraining, DrainsWhenTold, Ending, ChannelDrained, Receive,
           node, client
  <1>8. DeadOfBlank'
    BY DEF Inv, TypeOK, DeadOfBlank, Elements, Receive
  <1>. QED
    BY <1>3, <1>4, <1>5, <1>6, <1>7, <1>8 DEF Inv

LEMMA FlushInv ==
  ASSUME Inv, Flush
  PROVE  Inv'
  <1>1. batch \in Seq(Docs) /\ handed \in Seq(Docs) /\ channel \in Seq(Docs)
    BY DEF Inv, TypeOK
  <1>2. handed' \in Seq(Docs) /\ batch' = <<>> /\ Elements(batch) \subseteq Docs
    BY <1>1 DEF Flush, Elements
  <1>3. stored' \subseteq Docs /\ dropped' \subseteq Docs
    BY <1>2 DEF Flush, Inv, TypeOK
  <1>4. TypeOK'
    BY <1>2, <1>3 DEF Inv, TypeOK, Flush, node, client
  <1>5. Conveyed'
    BY <1>1, <1>2 DEF Inv, Conveyed, Flush
  <1>6. BatchFits'
    BY <1>2, IngestPipeAssumption DEF Inv, TypeOK, BatchFits, Flush
  <1>7. QuietWhenDraining' /\ DrainsWhenTold' /\ ChannelDrained' /\ ChannelFits'
    BY DEF Inv, TypeOK, QuietWhenDraining, DrainsWhenTold, Ending, ChannelDrained,
           ChannelFits, Flush, node, client
  <1>8. DeadOfBlank'
    BY DEF Inv, TypeOK, DeadOfBlank, Flush
  <1>. QED
    BY <1>4, <1>5, <1>6, <1>7, <1>8 DEF Inv

LEMMA ElementsOfConcat ==
  ASSUME NEW s \in Seq(Docs), NEW q \in Seq(Docs)
  PROVE  Elements(s \o q) = Elements(s) \cup Elements(q)
  <1>1. ASSUME NEW i \in DOMAIN (s \o q)
        PROVE  (s \o q)[i] \in Elements(s) \cup Elements(q)
    <2>1. i \in 1..Len(s) + Len(q) /\ Len(s) \in Nat /\ Len(q) \in Nat
      OBVIOUS
    <2>2. CASE i <= Len(s)
      BY <2>1, <2>2 DEF Elements
    <2>3. CASE i > Len(s)
      <3>1. (s \o q)[i] = q[i - Len(s)] /\ i - Len(s) \in 1..Len(q)
        BY <2>1, <2>3
      <3>. QED
        BY <3>1 DEF Elements
    <2>. QED
      BY <2>1, <2>2, <2>3
  <1>2. ASSUME NEW i \in DOMAIN s
        PROVE  s[i] \in Elements(s \o q)
    <2>1. i \in DOMAIN (s \o q) /\ (s \o q)[i] = s[i]
      OBVIOUS
    <2>. QED
      BY <2>1 DEF Elements
  <1>3. ASSUME NEW i \in DOMAIN q
        PROVE  q[i] \in Elements(s \o q)
    <2>1. Len(s) + i \in DOMAIN (s \o q) /\ (s \o q)[Len(s) + i] = q[i]
      OBVIOUS
    <2>. QED
      BY <2>1 DEF Elements
  <1>. QED
    BY <1>1, <1>2, <1>3 DEF Elements

LEMMA PanicInv ==
  ASSUME Inv, Panic
  PROVE  Inv'
  <1>1. batch \in Seq(Docs) /\ handed \in Seq(Docs) /\ channel \in Seq(Docs)
    BY DEF Inv, TypeOK
  <1>2. handed' \in Seq(Docs) /\ batch' = <<>> /\ Elements(batch) \subseteq Docs
    BY <1>1 DEF Panic, Elements
  <1>3. TypeOK'
    BY <1>2 DEF Inv, TypeOK, Panic, node, client
  <1>4. Conveyed'
    BY <1>1, <1>2 DEF Inv, Conveyed, Panic
  <1>5. BatchFits'
    BY <1>2, IngestPipeAssumption DEF Inv, TypeOK, BatchFits, Panic
  <1>6. QuietWhenDraining' /\ DrainsWhenTold' /\ ChannelDrained' /\ ChannelFits'
    BY DEF Inv, TypeOK, QuietWhenDraining, DrainsWhenTold, Ending, ChannelDrained,
           ChannelFits, Panic, node, client
  <1>7. DeadOfBlank'
    <2>1. handed' = handed \o batch /\ Elements(batch) \cap Blank # {}
      BY DEF Panic
    <2>2. Elements(handed') = Elements(handed) \cup Elements(batch)
      BY <1>1, <2>1, ElementsOfConcat
    <2>3. Elements(handed)' = Elements(handed')
      BY DEF Elements
    <2>. QED
      BY <2>1, <2>2, <2>3 DEF DeadOfBlank
  <1>. QED
    BY <1>3, <1>4, <1>5, <1>6, <1>7 DEF Inv

\* The steps that touch neither the documents nor the calls.
LEMMA ControlInv ==
  ASSUME Inv, \/ Timeout \/ SeeShutdown \/ Drained
              \/ StopServer \/ StopAdd \/ JoinAdd \/ SyncDb
  PROVE  Inv'
  <1>. USE DEF Inv, TypeOK, Conveyed, QuietWhenDraining, DrainsWhenTold, Ending, BatchFits,
               ChannelFits, ChannelDrained, DeadOfBlank, Elements, node, client, adder
  <1>1. CASE Timeout      BY <1>1 DEF Timeout
  <1>2. CASE SeeShutdown  BY <1>2 DEF SeeShutdown
  <1>3. CASE Drained      BY <1>3 DEF Drained
  <1>4. CASE StopServer   BY <1>4 DEF StopServer
  <1>5. CASE StopAdd      BY <1>5 DEF StopAdd
  <1>6. CASE JoinAdd      BY <1>6 DEF JoinAdd
  <1>7. CASE SyncDb       BY <1>7 DEF SyncDb
  <1>. QED
    BY <1>1, <1>2, <1>3, <1>4, <1>5, <1>6, <1>7

LEMMA NextInv == Inv /\ [Next]_vars => Inv'
  <1>. SUFFICES ASSUME Inv, [Next]_vars PROVE Inv'
    OBVIOUS
  <1>1. CASE \E c \in Clients : \E docs \in Requests : Submit(c, docs)
    BY <1>1, SubmitInv
  <1>2. CASE \E c \in Clients : Answer(c) \/ Retry(c)
    BY <1>2, PushInv, RefuseInv, RetryInv DEF Answer
  <1>3. CASE Add
    BY <1>3, ReceiveInv, FlushInv, PanicInv, ControlInv DEF Add
  <1>4. CASE StopServer \/ Shutdown
    BY <1>4, ControlInv DEF Shutdown
  <1>5. CASE UNCHANGED vars
    BY <1>5
    DEF Inv, TypeOK, Conveyed, QuietWhenDraining, DrainsWhenTold, Ending, BatchFits,
        ChannelFits, ChannelDrained, DeadOfBlank, Elements, vars
  <1>6. CASE \E c \in Clients : \E d \in Docs : AddNow(c, d)
    BY <1>6, AddNowInv
  <1>. QED
    BY <1>1, <1>2, <1>3, <1>4, <1>5, <1>6 DEF Next

LEMMA SpecInv == Spec => []Inv
  BY InitInv, NextInv, PTL DEF Spec

\* The limits of channel and batch, the conservation and order of documents
\* from push to add_batch, the emptiness of a stopped path and the one cause
\* a path can die of.
THEOREM IngestSafety == Spec => [](QueuesBounded /\ Conveyed /\ NothingLeftBehind)
  <1>1. Inv => QueuesBounded /\ Conveyed /\ NothingLeftBehind
    BY DEF Inv, BatchFits, ChannelFits, ChannelDrained, DeadOfBlank, QueuesBounded,
           NothingLeftBehind
  <1>. QED
    BY <1>1, SpecInv, PTL

-----------------------------------------------------------------------------
\* What has been handed over is a prefix of what was taken in.
LEMMA PrefixOfConcat ==
  ASSUME NEW a \in Seq(Docs), NEW b \in Seq(Docs), NEW q \in Seq(Docs)
  PROVE  /\ a \o b = SubSeq(a \o b \o q, 1, Len(a) + Len(b))
         /\ Len(a) + Len(b) <= Len(a \o b \o q)
  OBVIOUS

LEMMA PushTakes ==
  ASSUME Inv, NEW c \in Clients, Push(c)
  PROVE  \E d \in Docs : Abstract!Take(d)
  <1>. DEFINE d == calls[c].docs[calls[c].sent + 1]
  <1>1. d \in Docs
    BY DEF Inv, TypeOK, Call, Idle, Push
  <1>2. thread # "stopped"
    BY DEF Inv, TypeOK, QuietWhenDraining, DrainsWhenTold, Ending, Push
  <1>3. Abstract!Take(d)
    BY <1>2 DEF Push, PathState, Abstract!Take, adder
  <1>. QED
    BY <1>1, <1>3

\* Handing the batch to add_batch, whatever comes of it.
LEMMA BatchHands ==
  ASSUME Inv, Flush \/ Panic
  PROVE  LET n == Len(handed) + Len(batch)
         IN  /\ n \in Len(handed) + 1 .. Len(handed) + BatchSize
             /\ n <= Len(log) /\ handed' = SubSeq(log, 1, n) /\ log' = log
             /\ resume = "stopped" => n = Len(log)
             /\ \A i \in DOMAIN batch :
                   Len(handed) + i \in Len(handed) + 1 .. n /\ log[Len(handed) + i] = batch[i]
  <1>. DEFINE n == Len(handed) + Len(batch)
  <1>1. /\ batch \in Seq(Docs) /\ handed \in Seq(Docs) /\ channel \in Seq(Docs)
        /\ log = handed \o batch \o channel
        /\ handed' = handed \o batch /\ log' = log
        /\ Len(batch) \in 1..BatchSize
    BY IngestPipeAssumption DEF Inv, TypeOK, Conveyed, BatchFits, Flush, Panic
  <1>2. n \in Len(handed) + 1 .. Len(handed) + BatchSize
    BY <1>1, IngestPipeAssumption
  <1>3. n <= Len(log) /\ handed' = SubSeq(log, 1, n)
    BY <1>1, PrefixOfConcat
  <1>4. resume = "stopped" => n = Len(log)
    <2>1. resume = "stopped" => channel = <<>>
      BY DEF Inv, ChannelDrained, Flush, Panic
    <2>2. channel = <<>> => Len(handed \o batch \o channel) = n
      BY <1>1
    <2>. QED
      BY <1>1, <2>1, <2>2
  <1>5. ASSUME NEW i \in DOMAIN batch
        PROVE  Len(handed) + i \in Len(handed) + 1 .. n /\ log[Len(handed) + i] = batch[i]
    BY <1>1
  <1>. QED
    BY <1>1, <1>2, <1>3, <1>4, <1>5

LEMMA FlushHands ==
  ASSUME Inv, Flush
  PROVE  Abstract!Hand
  <1>1. thread = "flush" /\ thread' = resume /\ resume \in {"select", "drain", "stopped"}
    BY DEF Inv, TypeOK, Flush
  <1>2. /\ PathState = "open"
        /\ PathState' = "open" \/ (PathState' = "closed" /\ resume = "stopped")
    BY <1>1 DEF PathState
  <1>. QED
    BY <1>2, BatchHands DEF Abstract!Hand

LEMMA PanicBreaks ==
  ASSUME Inv, Panic
  PROVE  Abstract!Hand
  <1>. DEFINE n == Len(handed) + Len(batch)
  <1>1. PathState = "open" /\ PathState' = "broken"
    BY DEF Panic, PathState
  <1>2. PICK i \in DOMAIN batch : batch[i] \in Blank
    BY DEF Panic, Elements
  <1>3. Len(handed) + i \in Len(handed) + 1 .. n /\ log[Len(handed) + i] \in Blank
    BY <1>2, BatchHands
  <1>4. \E j \in Len(handed) + 1 .. n : log[j] \in Blank
    BY <1>3
  <1>5. /\ n \in Len(handed) + 1 .. Len(handed) + BatchSize
        /\ n <= Len(log) /\ handed' = SubSeq(log, 1, n) /\ log' = log
    BY BatchHands
  <1>. QED
    BY <1>1, <1>4, <1>5 DEF Abstract!Hand

LEMMA DrainedCloses ==
  ASSUME Inv, Drained
  PROVE  Abstract!Close \/ UNCHANGED Abstract!logvars
  BY DEF Inv, TypeOK, Conveyed, Drained, PathState, Abstract!Close, Abstract!logvars

LEMMA StepsRefine == Inv /\ [Next]_vars => [Abstract!LogNext]_(Abstract!logvars)
  <1>. SUFFICES ASSUME Inv, [Next]_vars PROVE [Abstract!LogNext]_(Abstract!logvars)
    OBVIOUS
  <1>1. CASE \E c \in Clients : Push(c)
    BY <1>1, PushTakes DEF Abstract!LogNext
  <1>2. CASE Flush \/ Panic
    BY <1>2, FlushHands, PanicBreaks DEF Abstract!LogNext
  <1>3. CASE Drained
    BY <1>3, DrainedCloses DEF Abstract!LogNext
  <1>4. CASE \E c \in Clients : Refuse(c) \/ Retry(c) \/ \E docs \in Requests : Submit(c, docs)
    BY <1>4 DEF Refuse, Retry, Submit, adder, PathState, Abstract!logvars
  <1>5. CASE \E c \in Clients : \E d \in Docs : AddNow(c, d)
    BY <1>5 DEF AddNow, PathState, Abstract!logvars
  <1>6. CASE Receive \/ Timeout \/ SeeShutdown
    BY <1>6 DEF Receive, Timeout, SeeShutdown, Inv, TypeOK, PathState, Abstract!logvars
  <1>7. CASE StopServer \/ Shutdown
    BY <1>7
    DEF StopServer, Shutdown, StopAdd, JoinAdd, SyncDb, adder, PathState, Abstract!logvars
  <1>8. CASE UNCHANGED vars
    BY <1>8 DEF vars, PathState, Abstract!logvars
  <1>. QED
    BY <1>1, <1>2, <1>3, <1>4, <1>5, <1>6, <1>7, <1>8 DEF Next, Answer, Add

\* The ingest path implements the abstract log: nothing pushed is lost,
\* doubled or overtaken on its way to add_batch, nothing is taken in once the
\* thread has stopped, and it dies only as it hands over a blank line.
THEOREM IngestImplementsLog == Spec => ImplementsLog
  <1>1. Init => Abstract!LogInit
    BY DEF Init, PathState, Abstract!LogInit
  <1>. QED
    BY <1>1, SpecInv, StepsRefine, PTL DEF Spec, ImplementsLog, Abstract!LogSpec

-----------------------------------------------------------------------------
(* What was accepted is not lost in a shutdown. *)

\* Where a document is: accepted, it was pushed or stored; sent, it was pushed;
\* handed over, it was stored or dropped; and main goes on only after the
\* thread has ended.
Tracked ==
    /\ accepted \subseteq Elements(log) \cup stored
    /\ \A c \in Clients : calls[c].pc = "sending" =>
          \A i \in 1..calls[c].sent : calls[c].docs[i] \in Elements(log)
    /\ Elements(handed) \subseteq stored \cup dropped
    /\ phase \in {"syncing", "down"} => thread \in {"stopped", "dead"}

LEMMA ElementsOfAppend ==
  ASSUME NEW s \in Seq(Docs), NEW d \in Docs
  PROVE  Elements(Append(s, d)) = Elements(s) \cup {d}
  <1>1. /\ DOMAIN Append(s, d) = 1..Len(s) + 1 /\ DOMAIN s = 1..Len(s) /\ Len(s) \in Nat
        /\ \A i \in 1..Len(s) : Append(s, d)[i] = s[i]
        /\ Append(s, d)[Len(s) + 1] = d
    OBVIOUS
  <1>2. 1..Len(s) + 1 = 1..Len(s) \cup {Len(s) + 1}
    BY <1>1
  <1>. QED
    BY <1>1, <1>2 DEF Elements

LEMMA PushTracked ==
  ASSUME Inv, Tracked, NEW c \in Clients, Push(c)
  PROVE  Tracked'
  <1>. DEFINE docs == calls[c].docs
              n == calls[c].sent + 1
  <1>1. docs \in Seq(Docs) /\ n \in 1..Len(docs) /\ calls[c].sent \in Nat
    BY DEF Inv, TypeOK, Call, Idle, Push
  <1>2. Elements(log') = Elements(log) \cup {docs[n]}
    <2>1. log' = Append(log, docs[n]) /\ log \in Seq(Docs) /\ docs[n] \in Docs
      BY <1>1 DEF Inv, TypeOK, Push
    <2>. QED
      BY <2>1, ElementsOfAppend
  <1>3. \A i \in 1..n : docs[i] \in Elements(log')
    <2>1. \A i \in 1..calls[c].sent : docs[i] \in Elements(log)
      BY DEF Tracked, Push
    <2>. QED
      BY <1>1, <1>2, <2>1
  <1>4. n = Len(docs) => Elements(docs) \subseteq Elements(log')
    <2>1. Elements(docs) = {docs[i] : i \in 1..Len(docs)}
      BY <1>1 DEF Elements
    <2>. HIDE DEF docs, n
    <2>. QED
      BY <1>3, <2>1
  <1>5. accepted' \subseteq Elements(log') \cup stored
    BY <1>2, <1>4 DEF Tracked, Push
  <1>6. ASSUME NEW b \in Clients, calls'[b].pc = "sending"
        PROVE  \A i \in 1..calls'[b].sent : calls'[b].docs[i] \in Elements(log')
    <2>1. CASE b # c
      <3>1. calls'[b] = calls[b]
        BY <2>1 DEF Push, Inv, TypeOK
      <3>. QED
        BY <1>2, <1>6, <3>1 DEF Tracked
    <2>2. CASE b = c
      <3>1. n # Len(docs)
        BY <1>6, <2>2 DEF Push, Inv, TypeOK, Idle
      <3>2. calls' = [calls EXCEPT ![c] = [calls[c] EXCEPT !.sent = n]]
        BY <3>1 DEF Push
      <3>3. calls'[c].docs = docs /\ calls'[c].sent = n
        BY <3>2 DEF Push, Inv, TypeOK, Call, Idle
      <3>. QED
        BY <1>3, <2>2, <3>3
    <2>. QED
      BY <2>1, <2>2
  <1>. QED
    BY <1>5, <1>6 DEF Tracked, Push, node, adder

LEMMA FlushTracked ==
  ASSUME Inv, Tracked, Flush \/ Panic
  PROVE  Tracked'
  <1>1. /\ handed' = handed \o batch /\ handed \in Seq(Docs) /\ batch \in Seq(Docs)
        /\ stored \cup dropped \cup Elements(batch) \subseteq stored' \cup dropped'
        /\ stored \subseteq stored'
    BY DEF Inv, TypeOK, Flush, Panic
  <1>2. Elements(handed') \subseteq stored' \cup dropped'
    BY <1>1, ElementsOfConcat DEF Tracked
  <1>3. /\ UNCHANGED <<phase, calls, accepted, log>> /\ thread = "flush"
    BY DEF Flush, Panic, node, client
  <1>4. Elements(log)' = Elements(log) /\ Elements(handed)' = Elements(handed')
    BY <1>3 DEF Elements
  <1>5. accepted' \subseteq Elements(log)' \cup stored'
    BY <1>1, <1>3, <1>4 DEF Tracked
  <1>6. phase \notin {"syncing", "down"}
    BY <1>3 DEF Tracked
  <1>. QED
    BY <1>2, <1>3, <1>4, <1>5, <1>6 DEF Tracked

LEMMA AddNowTracked ==
  ASSUME Tracked, NEW c \in Clients, NEW d \in Docs, AddNow(c, d)
  PROVE  Tracked'
  <1>1. /\ UNCHANGED <<phase, calls, thread, log, handed, dropped>>
        /\ stored \subseteq stored'
        /\ accepted' \ accepted \subseteq stored'
    BY DEF AddNow, node
  <1>. QED
    BY <1>1 DEF Tracked, Elements

LEMMA ClientTracked ==
  ASSUME Inv, Tracked, NEW c \in Clients,
         Refuse(c) \/ Retry(c) \/ \E docs \in Requests : Submit(c, docs)
  PROVE  Tracked'
  <1>1. UNCHANGED <<phase, accepted, log, adder>>
    BY DEF Refuse, Retry, Submit, node
  <1>2. PICK k : calls' = [calls EXCEPT ![c] = k] /\ (k.pc = "refused" \/ k.sent = 0)
    <2>1. CASE Refuse(c)
      <3>. WITNESS [pc |-> "refused", docs |-> calls[c].docs]
      <3>. QED
        BY <2>1 DEF Refuse
    <2>2. CASE Retry(c)
      <3>. WITNESS [pc |-> "sending", docs |-> calls[c].docs, sent |-> 0]
      <3>. QED
        BY <2>2 DEF Retry
    <2>3. ASSUME NEW docs \in Requests, Submit(c, docs)
          PROVE  \E k : calls' = [calls EXCEPT ![c] = k] /\ (k.pc = "refused" \/ k.sent = 0)
      <3>. WITNESS [pc |-> "sending", docs |-> docs, sent |-> 0]
      <3>. QED
        BY <2>3 DEF Submit
    <2>. QED
      BY <2>1, <2>2, <2>3
  <1>3. ASSUME NEW b \in Clients, calls'[b].pc = "sending"
        PROVE  \A i \in 1..calls'[b].sent : calls'[b].docs[i] \in Elements(log)
    <2>1. calls \in [Clients -> Call]
      BY DEF Inv, TypeOK
    <2>2. CASE b # c
      BY <1>2, <1>3, <2>1, <2>2 DEF Tracked
    <2>3. CASE b = c
      <3>1. calls'[b] = k
        BY <1>2, <2>1, <2>3
      <3>2. k.sent = 0
        BY <1>2, <1>3, <3>1
      <3>3. 1..calls'[b].sent = {}
        BY <3>1, <3>2
      <3>. QED
        BY <3>3
    <2>. QED
      BY <2>2, <2>3
  <1>. QED
    BY <1>1, <1>3 DEF Tracked, adder, Elements

LEMMA TrackedNext == Inv /\ Tracked /\ [Next]_vars => Tracked'
  <1>. SUFFICES ASSUME Inv, Tracked, [Next]_vars PROVE Tracked'
    OBVIOUS
  <1>1. CASE \E c \in Clients : Push(c)
    BY <1>1, PushTracked
  <1>2. CASE Flush \/ Panic
    BY <1>2, FlushTracked
  <1>3. CASE \E c \in Clients : Refuse(c) \/ Retry(c) \/ \E docs \in Requests : Submit(c, docs)
    BY <1>3, ClientTracked
  <1>4. CASE Receive \/ Timeout \/ SeeShutdown \/ Drained
    BY <1>4 DEF Receive, Timeout, SeeShutdown, Drained, node, client, Tracked, Elements
  <1>5. CASE StopServer \/ Shutdown
    BY <1>5
    DEF StopServer, Shutdown, StopAdd, JoinAdd, SyncDb, client, adder, Tracked, Elements
  <1>6. CASE UNCHANGED vars
    BY <1>6 DEF vars, Tracked, Elements
  <1>7. CASE \E c \in Clients : \E d \in Docs : AddNow(c, d)
    BY <1>7, AddNowTracked
  <1>. QED
    BY <1>1, <1>2, <1>3, <1>4, <1>5, <1>6, <1>7 DEF Next, Answer, Add

\* When the shutdown of main has ended, every document of an accepted call is
\* in a shard, unless add_batch was given it and failed, or was given a blank
\* line before it; then it may be left in the channel, and nowhere else.
THEOREM AcceptedSurvive == Spec => []AcceptedAreStored
  <1>1. Init => Tracked
    BY DEF Init, Tracked, Idle, Elements
  <1>2. Inv /\ Tracked => AcceptedAreStored
    <2>. SUFFICES ASSUME Inv, Tracked, phase = "down" PROVE AcceptedAreStored
      BY DEF AcceptedAreStored
    <2>1. /\ batch = <<>> /\ handed \in Seq(Docs) /\ channel \in Seq(Docs)
          /\ log = handed \o batch \o channel
          /\ thread \in {"stopped", "dead"}
      BY DEF Tracked, Inv, TypeOK, BatchFits, Conveyed
    <2>2. log = handed \o channel
      BY <2>1
    <2>3. CASE thread = "stopped"
      <3>1. log = handed
        BY <2>2, <2>1, <2>3 DEF Inv, ChannelDrained
      <3>. QED
        BY <3>1 DEF Tracked, AcceptedAreStored
    <2>4. CASE thread = "dead"
      <3>1. Elements(log) = Elements(handed) \cup Elements(channel)
        BY <2>1, <2>2, ElementsOfConcat
      <3>2. Elements(handed) \cap Blank # {}
        BY <2>4 DEF Inv, DeadOfBlank
      <3>. QED
        BY <3>1, <3>2 DEF Tracked, AcceptedAreStored
    <2>. QED
      BY <2>1, <2>3, <2>4
  <1>. QED
    BY <1>1, <1>2, SpecInv, TrackedNext, PTL DEF Spec

=============================================================================
