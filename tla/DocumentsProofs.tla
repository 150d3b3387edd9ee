--------------------------- MODULE DocumentsProofs ---------------------------
(***************************************************************************)
(* What was embedded is found, what was deleted is gone and the records of *)
(* files have their chunks, for any documents, versions, threads, calls,   *)
(* sizes of files and listings, through failures and crashes.  A file is   *)
(* covered by bounded chunks, whatever its atoms.                          *)
(***************************************************************************)
EXTENDS Documents, Chunking, FiniteSetTheorems, SequenceTheorems, TLAPS

Ops == {"insert", "list", "embed", "upsert", "observe", "update", "read",
        "drop", "remove", "forget", "sync"}

Statement == [op : Ops, id : Ids \cup {None}, slot : Slots \cup {"both", "none"},
              v : Versions \cup {None}]
Job == [ids : SUBSET Ids, todo : Seq(Statement), fate : Fates]

Typed ==
    /\ rows \in Index /\ vectors \in Index /\ saved \in Index
    /\ chunks \in [Ids -> SUBSET Ids]
    /\ fate \in [Ids -> Fates]
    /\ kept \subseteq Ids /\ mixed \subseteq Ids /\ doomed \subseteq Ids
    /\ frequency \subseteq Ids
    /\ work \in [Workers -> Job]

-----------------------------------------------------------------------------
(* What a statement does to an entry, and what is left of a call after it. *)

On(h, id, slot) == h.id = id /\ h.slot \in {slot, "both"}
Writes(h, id, slot) == h.op \in {"insert", "list"} /\ h.id = id /\ h.slot = slot
Embeds(h, id, slot) == h.op \in {"embed", "upsert"} /\ On(h, id, slot)
Reads(h, id, slot) == h.op = "read" /\ h.id = id /\ h.slot = slot
Updates(h, id, slot) == h.op = "update" /\ h.id = id /\ h.slot = slot
Drops(h, id, slot) == h.op = "drop" /\ h.id = id /\ h.slot = slot
Removes(h, id, slot) == h.op = "remove" /\ h.id = id /\ h.slot = slot

NewRow(h, r, id, slot) ==
    IF Writes(h, id, slot) THEN h.v
    ELSE IF Updates(h, id, slot) /\ r[<<id, slot>>] # None THEN h.v
    ELSE IF Drops(h, id, slot) THEN None
    ELSE r[<<id, slot>>]

NewVec(h, x, id, slot) ==
    IF Embeds(h, id, slot) THEN h.v
    ELSE IF Removes(h, id, slot) THEN None
    ELSE x[<<id, slot>>]

Rest(T, r) ==
    IF T[1].op = "read" /\ r[<<T[1].id, T[1].slot>>] # None
    THEN << Do("upsert", T[1].id, T[1].slot, r[<<T[1].id, T[1].slot>>]) >> \o Tail(T)
    ELSE Tail(T)

-----------------------------------------------------------------------------
(* Invariants of what is left of a call. *)

\* With rows r and vectors x, what is left to do ends with the row of the
\* entry embedded as it is then: nothing and it is, or some statement embeds
\* what was or is going to be written, or reads what is going to be there.
EndsEmbedded(T, r, x, id, slot) ==
    \/ /\ \A k \in DOMAIN T : ~On(T[k], id, slot)
       /\ x[<<id, slot>>] = r[<<id, slot>>]
    \/ \E k \in DOMAIN T :
          /\ \A j \in DOMAIN T : j > k => ~On(T[j], id, slot)
          /\ \/ /\ Embeds(T[k], id, slot)
                /\ \A j \in DOMAIN T : j < k /\ On(T[j], id, slot) =>
                      Writes(T[j], id, slot) /\ T[j].v = T[k].v
                /\ r[<<id, slot>>] = T[k].v \/ \E j \in DOMAIN T : j < k /\ Writes(T[j], id, slot)
             \/ /\ Reads(T[k], id, slot)
                /\ \A j \in DOMAIN T : j < k /\ On(T[j], id, slot) => Updates(T[j], id, slot)
                /\ r[<<id, "meta">>] # None

EndsDeleted(T, r, x, f, id) ==
    /\ \A slot \in Slots :
          /\ r[<<id, slot>>] = None \/ \E k \in DOMAIN T : Drops(T[k], id, slot)
          /\ x[<<id, slot>>] = None \/ \E k \in DOMAIN T : Removes(T[k], id, slot)
    /\ id \notin f \/ \E k \in DOMAIN T : T[k].op = "forget" /\ T[k].id = id

Deletion == {"drop", "remove", "forget"}

\* A statement of a call about these documents that is to end like this.
Proper(h, ids, end) ==
    /\ h.op # "sync" => h.id \in ids
    /\ h.op \in {"insert", "list", "update", "read", "drop", "remove"} => h.slot \in Slots
    /\ h.op \in {"insert", "list", "update"} => h.v # None
    /\ h.op = "list" => h.slot = "meta"
    /\ end = "deleted" <=> h.op \in Deletion

\* A call is about its own documents; one that deletes does nothing else.
CallsInv ==
    \A w \in Workers :
        /\ work[w].fate \in {"unused", "embedded", "stale", "deleted"}
        /\ work[w].fate = "unused" => work[w].ids = {}
        /\ \A k \in DOMAIN work[w].todo : Proper(work[w].todo[k], work[w].ids, work[w].fate)

\* Two calls about a document at once leave a mark; ids are not used again.
BusyInv ==
    /\ \A w \in Workers : \A id \in work[w].ids : fate[id] = "busy"
    /\ \A u, w \in Workers : \A id \in work[u].ids \cap work[w].ids : u # w => id \in mixed
    /\ \A id \in Ids : fate[id] = "unused" =>
          \A slot \in Slots :
             rows[<<id, slot>>] = None /\ vectors[<<id, slot>>] = None /\ saved[<<id, slot>>] = None
    /\ \A i, j \in Ids : i < j /\ fate[i] = "unused" => fate[j] = "unused"
    /\ \A w \in Workers : work[w].fate = "deleted" => work[w].ids \subseteq doomed
    /\ \A id \in kept : fate[id] \in {"embedded", "deleted"}

\* The metadata of a document are stored once, and before that only its own
\* call knows the document.
StoreInv ==
    \A w \in Workers : \A k \in DOMAIN work[w].todo : \A id \in Ids :
        Writes(work[w].todo[k], id, "meta") =>
            /\ rows[<<id, "meta">>] = None
            /\ Busy(id) = {w}
            /\ \A j \in DOMAIN work[w].todo : Writes(work[w].todo[j], id, "meta") => j = k

\* They are the first that a deletion drops.
DropInv ==
    \A w \in Workers : \A k \in DOMAIN work[w].todo : \A id \in Ids :
        Drops(work[w].todo[k], id, "content") =>
            \/ rows[<<id, "meta">>] = None
            \/ \E j \in DOMAIN work[w].todo : j < k /\ Drops(work[w].todo[j], id, "meta")

\* A document that has metadata, or is about to.
Alive(id) ==
    \/ rows[<<id, "meta">>] # None
    \/ \E w \in Workers : \E k \in DOMAIN work[w].todo : Writes(work[w].todo[k], id, "meta")

\* There is no vector of a content that is not there.
ContentInv ==
    \A id \in Ids : Alive(id) /\ rows[<<id, "content">>] = None =>
        /\ vectors[<<id, "content">>] = None /\ saved[<<id, "content">>] = None
        /\ \A w \in Workers : \A k \in DOMAIN work[w].todo :
              Embeds(work[w].todo[k], id, "content") =>
                  \E j \in DOMAIN work[w].todo : j < k /\ Writes(work[w].todo[j], id, "content")

\* No other call is about this document.
Sole(w, id) == id \in work[w].ids /\ id \notin mixed

OutcomeInv ==
    \A w \in Workers, id \in Ids : Sole(w, id) =>
        /\ work[w].fate = "embedded" =>
              \A slot \in Slots : EndsEmbedded(work[w].todo, rows, vectors, id, slot)
        /\ work[w].fate = "deleted" =>
              EndsDeleted(work[w].todo, rows, vectors, frequency, id)

\* A record is listed after its chunks.
ChunkInv ==
    /\ RecordsHaveTheirChunks
    /\ \A w \in Workers : \A k \in DOMAIN work[w].todo : work[w].todo[k].op = "list" =>
          \A c \in work[w].ids \ ({work[w].todo[k].id} \cup doomed) : \A slot \in Slots :
              \/ rows[<<c, slot>>] # None
              \/ \E j \in DOMAIN work[w].todo : j < k /\ Writes(work[w].todo[j], c, slot)

FoundInv == EmbeddedIsFound /\ DeletedIsGone

DocInv == Typed /\ CallsInv /\ BusyInv /\ StoreInv /\ DropInv /\ ContentInv
          /\ OutcomeInv /\ ChunkInv /\ FoundInv

-----------------------------------------------------------------------------
(* What is left of a call after a statement.  Either it is the tail, or a  *)
(* statement that reads was replaced by one that embeds what it read.      *)

Shift(T, R, r) ==
    /\ Len(T) \in Nat \ {0} /\ DOMAIN T = 1..Len(T) /\ DOMAIN R = 1..(Len(T) - 1)
    /\ \A k \in DOMAIN R : R[k] = T[k + 1]
    /\ T[1].op = "read" => r[<<T[1].id, T[1].slot>>] = None

Swap(T, R, r) ==
    /\ Len(T) \in Nat \ {0} /\ DOMAIN T = 1..Len(T) /\ DOMAIN R = 1..Len(T)
    /\ \A k \in DOMAIN R : k > 1 => R[k] = T[k]
    /\ T[1].op = "read" /\ r[<<T[1].id, T[1].slot>>] # None
    /\ R[1] = Do("upsert", T[1].id, T[1].slot, r[<<T[1].id, T[1].slot>>])

\* Rest is a sequence of statements of one of these two shapes.
LEMMA RestShape ==
    ASSUME NEW T \in Seq(Statement), T # <<>>, NEW r \in Index,
           T[1].op = "read" => T[1].id \in Ids /\ T[1].slot \in Slots
    PROVE  /\ Rest(T, r) \in Seq(Statement)
           /\ Shift(T, Rest(T, r), r) \/ Swap(T, Rest(T, r), r)
<1>1. /\ Tail(T) \in Seq(Statement)
      /\ Len(Tail(T)) = Len(T) - 1
      /\ \A i \in 1..Len(Tail(T)) : Tail(T)[i] = T[i + 1]
      /\ Len(T) \in Nat \ {0} /\ DOMAIN T = 1..Len(T)
      /\ DOMAIN Tail(T) = 1..(Len(T) - 1)
  <2>1. /\ Tail(T) \in Seq(Statement)
        /\ Len(Tail(T)) = Len(T) - 1
        /\ \A i \in 1..Len(Tail(T)) : Tail(T)[i] = T[i + 1]
    BY HeadTailProperties
  <2>2. Len(T) \in Nat \ {0} /\ DOMAIN T = 1..Len(T)
    BY EmptySeq
  <2>3. DOMAIN Tail(T) = 1..Len(Tail(T))
    BY <2>1
  <2> QED
    BY <2>1, <2>2, <2>3
<1>2. CASE ~(T[1].op = "read" /\ r[<<T[1].id, T[1].slot>>] # None)
  BY <1>1, <1>2 DEF Rest, Shift
<1>3. CASE T[1].op = "read" /\ r[<<T[1].id, T[1].slot>>] # None
  <2> DEFINE d == Do("upsert", T[1].id, T[1].slot, r[<<T[1].id, T[1].slot>>])
  <2>1. <<T[1].id, T[1].slot>> \in Ids \X Slots
    BY <1>3
  <2>2. r[<<T[1].id, T[1].slot>>] \in Versions \cup {None}
    BY <2>1 DEF Index
  <2>3. d \in Statement
    BY <1>3, <2>2 DEF Do, Statement, Ops
  <2>4. <<d>> \in Seq(Statement) /\ Len(<<d>>) = 1 /\ <<d>>[1] = d
    BY <2>3
  <2> HIDE DEF d
  <2>5. /\ <<d>> \o Tail(T) \in Seq(Statement)
        /\ Len(<<d>> \o Tail(T)) = Len(<<d>>) + Len(Tail(T))
        /\ \A i \in 1..(Len(<<d>>) + Len(Tail(T))) : (<<d>> \o Tail(T))[i] =
               IF i <= Len(<<d>>) THEN <<d>>[i] ELSE Tail(T)[i - Len(<<d>>)]
    BY <1>1, <2>4, ConcatProperties
  <2>6. Rest(T, r) = <<d>> \o Tail(T)
    BY <1>3 DEF Rest, d
  <2> DEFINE R == Rest(T, r)
  <2>7. R \in Seq(Statement) /\ Len(R) = Len(T) /\ R[1] = d
    BY <1>1, <2>4, <2>5, <2>6
  <2>8. DOMAIN R = 1..Len(T)
    BY <2>7
  <2>9. ASSUME NEW k \in 1..Len(T), k > 1 PROVE R[k] = T[k]
    <3>1. R[k] = Tail(T)[k - 1]
      BY <1>1, <2>4, <2>5, <2>6, <2>9
    <3>2. k - 1 \in 1..Len(Tail(T)) /\ (k - 1) + 1 = k
      BY <1>1, <2>9
    <3> QED
      BY <1>1, <3>1, <3>2
  <2> HIDE DEF R
  <2>10. Swap(T, R, r)
    BY <1>1, <1>3, <2>7, <2>8, <2>9 DEF Swap, d
  <2> QED
    BY <2>7, <2>10 DEF R
<1> QED
  BY <1>2, <1>3

-----------------------------------------------------------------------------
(* A statement keeps what a call is to end with. *)

\* The call that was to end with an entry embedded still is.
LEMMA EmbedStep ==
    ASSUME NEW T, NEW R, NEW r, NEW s, NEW x, NEW y, NEW id, NEW slot \in Slots,
           Shift(T, R, r) \/ Swap(T, R, r),
           EndsEmbedded(T, r, x, id, slot),
           s[<<id, slot>>] = NewRow(T[1], r, id, slot),
           s[<<id, "meta">>] = NewRow(T[1], r, id, "meta"),
           y[<<id, slot>>] = NewVec(T[1], x, id, slot),
           T[1].op \notin Deletion,
           T[1].op \in {"insert", "list", "update"} => T[1].v # None,
           r[<<id, "meta">>] # None /\ r[<<id, "content">>] = None => x[<<id, "content">>] = None
    PROVE  EndsEmbedded(R, s, y, id, slot)
<1> USE DEF Writes, Updates, Embeds, Reads, On
<1>1. Len(T) \in Nat \ {0} /\ DOMAIN T = 1..Len(T) /\ 1 \in DOMAIN T
  BY DEF Shift, Swap
<1>2. s[<<id, slot>>] # r[<<id, slot>>] => T[1].op \in {"insert", "list", "update"} /\ On(T[1], id, slot)
  BY DEF NewRow, Drops, Deletion
<1>3. y[<<id, slot>>] # x[<<id, slot>>] => Embeds(T[1], id, slot)
  BY DEF NewVec, Removes, Deletion
<1>4. CASE /\ \A k \in DOMAIN T : ~On(T[k], id, slot)
           /\ x[<<id, slot>>] = r[<<id, slot>>]
  <2>1. \A k \in DOMAIN R : ~On(R[k], id, slot)
    <3>1. CASE Shift(T, R, r)
      BY <1>1, <1>4, <3>1 DEF Shift
    <3>2. CASE Swap(T, R, r)
      BY <1>1, <1>4, <3>2 DEF Swap, Do
    <3> QED
      BY <3>1, <3>2
  <2>2. y[<<id, slot>>] = s[<<id, slot>>]
    BY <1>1, <1>2, <1>3, <1>4
  <2> QED
    BY <2>1, <2>2 DEF EndsEmbedded
<1>5. ASSUME NEW k \in DOMAIN T,
             \A j \in DOMAIN T : j > k => ~On(T[j], id, slot),
             Embeds(T[k], id, slot),
             \A j \in DOMAIN T : j < k /\ On(T[j], id, slot) =>
                Writes(T[j], id, slot) /\ T[j].v = T[k].v,
             r[<<id, slot>>] = T[k].v \/ \E j \in DOMAIN T : j < k /\ Writes(T[j], id, slot)
      PROVE  EndsEmbedded(R, s, y, id, slot)
  <2>1. CASE k = 1
    <3>1. r[<<id, slot>>] = T[1].v
      BY <1>1, <1>5, <2>1
    <3>2. y[<<id, slot>>] = T[1].v
      BY <1>5, <2>1 DEF NewVec
    <3>3. s[<<id, slot>>] = r[<<id, slot>>]
      BY <1>5, <1>2, <2>1
    <3>4. Shift(T, R, r)
      BY <1>5, <2>1 DEF Swap
    <3>5. \A j \in DOMAIN R : ~On(R[j], id, slot)
      BY <1>1, <1>5, <2>1, <3>4 DEF Shift
    <3> QED
      BY <3>1, <3>2, <3>3, <3>5 DEF EndsEmbedded
  <2>2. CASE k # 1
    <3>1. On(T[1], id, slot) => Writes(T[1], id, slot) /\ T[1].v = T[k].v
      BY <1>1, <1>5, <2>2
    <3>2. s[<<id, slot>>] = IF Writes(T[1], id, slot) THEN T[k].v ELSE r[<<id, slot>>]
      BY <1>2, <3>1 DEF NewRow
    <3>3. CASE Shift(T, R, r)
      <4>1. k - 1 \in DOMAIN R /\ R[k - 1] = T[k]
        BY <1>1, <2>2, <3>3 DEF Shift
      <4>2. \A j \in DOMAIN R : j > k - 1 => ~On(R[j], id, slot)
        BY <1>1, <1>5, <3>3 DEF Shift
      <4>3. \A j \in DOMAIN R : j < k - 1 /\ On(R[j], id, slot) =>
               Writes(R[j], id, slot) /\ R[j].v = R[k - 1].v
        BY <1>1, <1>5, <3>3, <4>1 DEF Shift
      <4>4. s[<<id, slot>>] = R[k - 1].v \/ \E j \in DOMAIN R : j < k - 1 /\ Writes(R[j], id, slot)
        <5>1. CASE s[<<id, slot>>] = T[k].v
          BY <4>1, <5>1
        <5>2. CASE s[<<id, slot>>] # T[k].v
          <6>1. ~Writes(T[1], id, slot) /\ r[<<id, slot>>] # T[k].v
            BY <3>2, <5>2
          <6>2. PICK j \in DOMAIN T : j < k /\ Writes(T[j], id, slot)
            BY <1>5, <6>1
          <6>3. j - 1 \in DOMAIN R /\ R[j - 1] = T[j] /\ j - 1 < k - 1
            <7>1. j # 1 /\ j \in 1..Len(T)
              BY <1>1, <6>1, <6>2
            <7> QED
              BY <1>1, <3>3, <6>2, <7>1 DEF Shift
          <6> QED
            BY <6>2, <6>3
        <5> QED
          BY <5>1, <5>2
      <4> QED
        BY <1>5, <4>1, <4>2, <4>3, <4>4 DEF EndsEmbedded
    <3>4. CASE Swap(T, R, r)
      <4>1. ~On(T[1], id, slot) /\ ~On(R[1], id, slot) /\ s[<<id, slot>>] = r[<<id, slot>>]
        BY <3>1, <3>2, <3>4 DEF Swap, Do
      <4>2. k \in DOMAIN R /\ R[k] = T[k] /\ DOMAIN R = DOMAIN T
        BY <1>1, <2>2, <3>4 DEF Swap
      <4>3. \A j \in DOMAIN R : j # 1 => R[j] = T[j]
        BY <1>1, <3>4 DEF Swap
      <4>4. \A j \in DOMAIN R : j > k => ~On(R[j], id, slot)
        BY <1>5, <4>1, <4>2, <4>3
      <4>5. \A j \in DOMAIN R : j < k /\ On(R[j], id, slot) =>
               Writes(R[j], id, slot) /\ R[j].v = R[k].v
        BY <1>5, <4>1, <4>2, <4>3
      <4>6. s[<<id, slot>>] = R[k].v \/ \E j \in DOMAIN R : j < k /\ Writes(R[j], id, slot)
        BY <1>5, <4>1, <4>2, <4>3
      <4> QED
        BY <1>5, <4>2, <4>4, <4>5, <4>6 DEF EndsEmbedded
    <3> QED
      BY <3>3, <3>4
  <2> QED
    BY <2>1, <2>2
<1>6. ASSUME NEW k \in DOMAIN T,
             \A j \in DOMAIN T : j > k => ~On(T[j], id, slot),
             Reads(T[k], id, slot),
             \A j \in DOMAIN T : j < k /\ On(T[j], id, slot) => Updates(T[j], id, slot),
             r[<<id, "meta">>] # None
      PROVE  EndsEmbedded(R, s, y, id, slot)
  <2>1. CASE k = 1 /\ Shift(T, R, r)
    <3>1. r[<<id, slot>>] = None
      BY <1>6, <2>1 DEF Shift
    <3>2. slot = "content"
      BY <1>6, <3>1 DEF Slots
    <3>3. x[<<id, slot>>] = None
      BY <1>6, <3>1, <3>2
    <3>4. s[<<id, slot>>] = r[<<id, slot>>] /\ y[<<id, slot>>] = x[<<id, slot>>]
      BY <1>2, <1>3, <1>6, <2>1
    <3>5. \A j \in DOMAIN R : ~On(R[j], id, slot)
      BY <1>1, <1>6, <2>1 DEF Shift
    <3> QED
      BY <3>1, <3>3, <3>4, <3>5 DEF EndsEmbedded
  <2>2. CASE k = 1 /\ Swap(T, R, r)
    <3>1. s[<<id, slot>>] = r[<<id, slot>>]
      BY <1>2, <1>6, <2>2
    <3>2. 1 \in DOMAIN R /\ Embeds(R[1], id, slot) /\ R[1].v = r[<<id, slot>>]
      BY <1>1, <1>6, <2>2 DEF Swap, Do
    <3>3. \A j \in DOMAIN R : j > 1 => ~On(R[j], id, slot)
      BY <1>1, <1>6, <2>2 DEF Swap
    <3>4. \A j \in DOMAIN R : ~(j < 1)
      BY <2>2 DEF Swap
    <3> QED
      BY <3>1, <3>2, <3>3, <3>4 DEF EndsEmbedded
  <2>3. CASE k # 1
    <3>1. On(T[1], id, slot) => Updates(T[1], id, slot)
      BY <1>1, <1>6, <2>3
    <3>2. s[<<id, "meta">>] # None
      BY <1>6 DEF NewRow, Drops, Deletion
    <3>3. CASE Shift(T, R, r)
      <4>1. k - 1 \in DOMAIN R /\ R[k - 1] = T[k]
        BY <1>1, <2>3, <3>3 DEF Shift
      <4>2. \A j \in DOMAIN R : j > k - 1 => ~On(R[j], id, slot)
        BY <1>1, <1>6, <3>3 DEF Shift
      <4>3. \A j \in DOMAIN R : j < k - 1 /\ On(R[j], id, slot) => Updates(R[j], id, slot)
        BY <1>1, <1>6, <3>3 DEF Shift
      <4> QED
        BY <1>6, <3>2, <4>1, <4>2, <4>3 DEF EndsEmbedded
    <3>4. CASE Swap(T, R, r)
      <4>1. ~On(T[1], id, slot) /\ ~On(R[1], id, slot)
        BY <3>1, <3>4 DEF Swap, Do
      <4>2. k \in DOMAIN R /\ R[k] = T[k] /\ DOMAIN R = DOMAIN T
        BY <1>1, <2>3, <3>4 DEF Swap
      <4>3. \A j \in DOMAIN R : j # 1 => R[j] = T[j]
        BY <1>1, <3>4 DEF Swap
      <4>4. \A j \in DOMAIN R : j > k => ~On(R[j], id, slot)
        BY <1>6, <4>1, <4>2, <4>3
      <4>5. \A j \in DOMAIN R : j < k /\ On(R[j], id, slot) => Updates(R[j], id, slot)
        BY <1>6, <4>1, <4>2, <4>3
      <4> QED
        BY <1>6, <3>2, <4>2, <4>4, <4>5 DEF EndsEmbedded
    <3> QED
      BY <3>3, <3>4
  <2> QED
    BY <2>1, <2>2, <2>3
<1> QED
  BY <1>4, <1>5, <1>6 DEF EndsEmbedded

\* The call that was to end with nothing left of a document still is.
LEMMA DeleteStep ==
    ASSUME NEW T, NEW R, NEW r, NEW s, NEW x, NEW y, NEW f, NEW g, NEW id,
           Shift(T, R, r), EndsDeleted(T, r, x, f, id),
           \A slot \in Slots : /\ s[<<id, slot>>] = NewRow(T[1], r, id, slot)
                               /\ y[<<id, slot>>] = NewVec(T[1], x, id, slot),
           id \in g => id \in f /\ ~(T[1].op = "forget" /\ T[1].id = id),
           T[1].op \in Deletion
    PROVE  EndsDeleted(R, s, y, g, id)
<1>1. Len(T) \in Nat \ {0} /\ DOMAIN T = 1..Len(T) /\ 1 \in DOMAIN T
  BY DEF Shift
<1>2. \A k \in DOMAIN T : k = 1 \/ (k - 1 \in DOMAIN R /\ R[k - 1] = T[k])
  BY <1>1 DEF Shift
<1>3. ASSUME NEW slot \in Slots
      PROVE  s[<<id, slot>>] = None \/ \E k \in DOMAIN R : Drops(R[k], id, slot)
  <2>1. s[<<id, slot>>] = IF Drops(T[1], id, slot) THEN None ELSE r[<<id, slot>>]
    BY DEF NewRow, Writes, Updates, Deletion
  <2>2. r[<<id, slot>>] = None \/ \E k \in DOMAIN T : Drops(T[k], id, slot)
    BY DEF EndsDeleted
  <2> QED
    BY <1>2, <2>1, <2>2
<1>4. ASSUME NEW slot \in Slots
      PROVE  y[<<id, slot>>] = None \/ \E k \in DOMAIN R : Removes(R[k], id, slot)
  <2>1. y[<<id, slot>>] = IF Removes(T[1], id, slot) THEN None ELSE x[<<id, slot>>]
    BY DEF NewVec, Embeds, Deletion
  <2>2. x[<<id, slot>>] = None \/ \E k \in DOMAIN T : Removes(T[k], id, slot)
    BY DEF EndsDeleted
  <2> QED
    BY <1>2, <2>1, <2>2
<1>5. id \notin g \/ \E k \in DOMAIN R : R[k].op = "forget" /\ R[k].id = id
  BY <1>2 DEF EndsDeleted
<1> QED
  BY <1>3, <1>4, <1>5 DEF EndsDeleted

-----------------------------------------------------------------------------
(* A statement of a call, as what it does to each entry. *)

Stepped(w) ==
    /\ work[w].todo # <<>>
    /\ rows' \in Index /\ vectors' \in Index /\ saved' \in Index
    /\ chunks' \in [Ids -> SUBSET Ids] /\ frequency' \subseteq Ids
    /\ \A id \in Ids, slot \in Slots :
          /\ rows'[<<id, slot>>] = NewRow(work[w].todo[1], rows, id, slot)
          /\ vectors'[<<id, slot>>] = NewVec(work[w].todo[1], vectors, id, slot)
    /\ saved' = IF work[w].todo[1].op = "sync" THEN vectors ELSE saved
    /\ \A id \in Ids : id \in frequency' =>
          \/ id \in frequency /\ ~(work[w].todo[1].op = "forget" /\ work[w].todo[1].id = id)
          \/ work[w].todo[1].op = "observe" /\ work[w].todo[1].id = id
    /\ \A id \in Ids : chunks'[id] \subseteq
          IF work[w].todo[1].op = "list" /\ work[w].todo[1].id = id THEN work[w].ids \ {id}
          ELSE chunks[id]
    /\ Continue(w, Rest(work[w].todo, rows))
    /\ kept' = IF work[w].todo[1].op = "sync"
               THEN {id \in Ids : fate'[id] \in {"embedded", "deleted"}} ELSE kept
    /\ doomed' = doomed

\* The first statement of a call and where it is.
LEMMA HeadOf ==
    ASSUME Typed, CallsInv, NEW w \in Workers, work[w].todo # <<>>
    PROVE  /\ Head(work[w].todo) = work[w].todo[1]
           /\ 1 \in DOMAIN work[w].todo
           /\ work[w].todo \in Seq(Statement)
           /\ work[w].todo[1] \in Statement
           /\ Proper(work[w].todo[1], work[w].ids, work[w].fate)
           /\ work[w].ids \subseteq Ids
           /\ Rest(work[w].todo, rows) =
                 IF work[w].todo[1].op = "read" /\ rows[At(w)] # None
                 THEN << Do("upsert", work[w].todo[1].id, work[w].todo[1].slot, rows[At(w)]) >>
                      \o Tail(work[w].todo)
                 ELSE Tail(work[w].todo)
           /\ At(w) = <<work[w].todo[1].id, work[w].todo[1].slot>>
<1>1. work[w].todo \in Seq(Statement) /\ work[w].ids \subseteq Ids
  BY DEF Typed, Job
<1>2. Len(work[w].todo) \in Nat \ {0} /\ DOMAIN work[w].todo = 1..Len(work[w].todo)
  BY <1>1, EmptySeq
<1>3. 1 \in DOMAIN work[w].todo
  BY <1>2
<1>4. Head(work[w].todo) = work[w].todo[1] /\ work[w].todo[1] \in Statement
  BY <1>1, <1>2, <1>3
<1>5. At(w) = <<work[w].todo[1].id, work[w].todo[1].slot>>
  BY <1>4 DEF At, Now
<1> QED
  BY <1>1, <1>3, <1>4, <1>5 DEF CallsInv, Rest

\* An entry of an index changes.
LEMMA IndexExcept ==
    ASSUME NEW r \in Index, NEW e \in Ids \X Slots, NEW v \in Versions \cup {None}
    PROVE  [r EXCEPT ![e] = v] \in Index
BY DEF Index

\* Every statement is such a step.
LEMMA StatementSteps ==
    ASSUME Typed, CallsInv, NEW w \in Workers,
           \/ InsertRow(w) \/ InsertRecord(w) \/ UpdateRow(w) \/ DropRow(w)
           \/ Upsert(w) \/ RemoveVector(w) \/ ReadRow(w) \/ Count(w) \/ Sync(w)
    PROVE  Stepped(w)
<1> DEFINE T == work[w].todo
           h == work[w].todo[1]
<1>1. T # <<>>
  BY DEF InsertRow, InsertRecord, UpdateRow, DropRow, Upsert, RemoveVector, ReadRow, Count, Sync, Next1
<1>2. /\ Head(T) = h /\ h \in Statement /\ T \in Seq(Statement)
      /\ Proper(h, work[w].ids, work[w].fate) /\ work[w].ids \subseteq Ids
      /\ At(w) = <<h.id, h.slot>> /\ Now(w) = h
      /\ Rest(T, rows) = IF h.op = "read" /\ rows[At(w)] # None
                         THEN << Do("upsert", h.id, h.slot, rows[At(w)]) >> \o Tail(T)
                         ELSE Tail(T)
  BY <1>1, HeadOf DEF Now
<1>3. /\ rows \in [Ids \X Slots -> Versions \cup {None}]
      /\ vectors \in [Ids \X Slots -> Versions \cup {None}]
      /\ saved \in [Ids \X Slots -> Versions \cup {None}]
      /\ chunks \in [Ids -> SUBSET Ids] /\ frequency \subseteq Ids
  BY DEF Typed, Index
<1>4. /\ h.op # "sync" => h.id \in Ids
      /\ h.op \in {"insert", "list", "update", "read", "drop", "remove"} => h.slot \in Slots
      /\ h.v \in Versions \cup {None}
      /\ h.op = "list" => h.slot = "meta"
      /\ h.op # "read" => Rest(T, rows) = Tail(T)
  BY <1>2 DEF Proper, Statement
<1>20. /\ rows \in Index /\ vectors \in Index
       /\ h.op \in {"insert", "list", "update", "read", "drop", "remove"} =>
             <<h.id, h.slot>> \in Ids \X Slots
  BY <1>4 DEF Typed
<1> HIDE DEF T, h
<1>5. CASE InsertRow(w)
  <2>1. h.op = "insert" /\ rows' = [rows EXCEPT ![<<h.id, h.slot>>] = h.v]
        /\ Continue(w, Tail(T)) /\ kept' = kept /\ doomed' = doomed
        /\ chunks' = chunks /\ frequency' = frequency /\ vectors' = vectors /\ saved' = saved
    BY <1>2, <1>5 DEF InsertRow, Next1, Proceed, Continue, End, T, h
  <2>2. rows' \in Index
    BY <1>4, <1>20, <2>1, IndexExcept
  <2>3. ASSUME NEW id \in Ids, NEW slot \in Slots
        PROVE  rows'[<<id, slot>>] = NewRow(h, rows, id, slot)
    BY <1>3, <1>4, <2>1 DEF NewRow, Writes, Updates, Drops
  <2>4. ASSUME NEW id \in Ids, NEW slot \in Slots
        PROVE  vectors'[<<id, slot>>] = NewVec(h, vectors, id, slot)
    BY <2>1 DEF NewVec, Embeds, Removes
  <2>5. vectors' \in Index /\ saved' \in Index /\ chunks' \in [Ids -> SUBSET Ids] /\ frequency' \subseteq Ids
    BY <1>3, <2>1 DEF Index
  <2> QED
    BY <1>1, <1>4, <2>1, <2>2, <2>3, <2>4, <2>5 DEF Stepped, T, h
<1>6. CASE InsertRecord(w)
  <2>1. h.op = "list" /\ rows' = [rows EXCEPT ![<<h.id, h.slot>>] = h.v]
        /\ chunks' = [chunks EXCEPT ![h.id] = work[w].ids \ {h.id}]
        /\ Continue(w, Tail(T)) /\ kept' = kept /\ doomed' = doomed
        /\ frequency' = frequency /\ vectors' = vectors /\ saved' = saved
    BY <1>2, <1>6 DEF InsertRecord, Next1, Proceed, Continue, End, T, h
  <2>2. rows' \in Index
    BY <1>4, <1>20, <2>1, IndexExcept
  <2>3. ASSUME NEW id \in Ids, NEW slot \in Slots
        PROVE  rows'[<<id, slot>>] = NewRow(h, rows, id, slot)
    BY <1>3, <1>4, <2>1 DEF NewRow, Writes, Updates, Drops
  <2>4. ASSUME NEW id \in Ids, NEW slot \in Slots
        PROVE  vectors'[<<id, slot>>] = NewVec(h, vectors, id, slot)
    BY <2>1 DEF NewVec, Embeds, Removes
  <2>5. vectors' \in Index /\ saved' \in Index /\ frequency' \subseteq Ids
    BY <1>3, <2>1 DEF Index
  <2>6. chunks' \in [Ids -> SUBSET Ids]
    BY <1>2, <1>3, <2>1
  <2>7. \A id \in Ids : chunks'[id] \subseteq IF h.op = "list" /\ h.id = id THEN work[w].ids \ {id}
                                              ELSE chunks[id]
    BY <1>3, <2>1
  <2> QED
    BY <1>1, <1>4, <2>1, <2>2, <2>3, <2>4, <2>5, <2>6, <2>7 DEF Stepped, T, h
<1>7. CASE UpdateRow(w)
  <2>1. h.op = "update" /\ Continue(w, Tail(T)) /\ kept' = kept /\ doomed' = doomed
        /\ frequency' = frequency /\ vectors' = vectors /\ saved' = saved
    BY <1>2, <1>7 DEF UpdateRow, Next1, Proceed, Continue, End, T, h
  <2>2. IF rows[<<h.id, h.slot>>] = None THEN rows' = rows /\ chunks' = chunks
        ELSE /\ rows' = [rows EXCEPT ![<<h.id, h.slot>>] = h.v]
             /\ chunks' = IF h.slot = "meta" THEN [chunks EXCEPT ![h.id] = {}] ELSE chunks
    BY <1>2, <1>7 DEF UpdateRow
  <2>3. rows' \in Index
    BY <1>4, <1>20, <2>1, <2>2, IndexExcept
  <2>4. ASSUME NEW id \in Ids, NEW slot \in Slots
        PROVE  rows'[<<id, slot>>] = NewRow(h, rows, id, slot)
    BY <1>3, <1>4, <2>1, <2>2 DEF NewRow, Writes, Updates, Drops
  <2>5. ASSUME NEW id \in Ids, NEW slot \in Slots
        PROVE  vectors'[<<id, slot>>] = NewVec(h, vectors, id, slot)
    BY <2>1 DEF NewVec, Embeds, Removes
  <2>6. vectors' \in Index /\ saved' \in Index /\ frequency' \subseteq Ids
    BY <1>3, <2>1 DEF Index
  <2>7. chunks' \in [Ids -> SUBSET Ids] /\ \A id \in Ids : chunks'[id] \subseteq chunks[id]
    BY <1>3, <1>4, <2>1, <2>2
  <2> QED
    BY <1>1, <1>4, <2>1, <2>3, <2>4, <2>5, <2>6, <2>7 DEF Stepped, T, h
<1>8. CASE DropRow(w)
  <2>1. h.op = "drop" /\ rows' = [rows EXCEPT ![<<h.id, h.slot>>] = None]
        /\ chunks' = (IF h.slot = "meta" THEN [chunks EXCEPT ![h.id] = {}] ELSE chunks)
        /\ Continue(w, Tail(T)) /\ kept' = kept /\ doomed' = doomed
        /\ frequency' = frequency /\ vectors' = vectors /\ saved' = saved
    BY <1>2, <1>8 DEF DropRow, Next1, Proceed, Continue, End, T, h
  <2>2. rows' \in Index
    BY <1>4, <1>20, <2>1, IndexExcept
  <2>3. ASSUME NEW id \in Ids, NEW slot \in Slots
        PROVE  rows'[<<id, slot>>] = NewRow(h, rows, id, slot)
    BY <1>3, <1>4, <2>1 DEF NewRow, Writes, Updates, Drops
  <2>4. ASSUME NEW id \in Ids, NEW slot \in Slots
        PROVE  vectors'[<<id, slot>>] = NewVec(h, vectors, id, slot)
    BY <2>1 DEF NewVec, Embeds, Removes
  <2>5. vectors' \in Index /\ saved' \in Index /\ frequency' \subseteq Ids
    BY <1>3, <2>1 DEF Index
  <2>6. chunks' \in [Ids -> SUBSET Ids] /\ \A id \in Ids : chunks'[id] \subseteq chunks[id]
    BY <1>3, <1>4, <2>1
  <2> QED
    BY <1>1, <1>4, <2>1, <2>2, <2>3, <2>4, <2>5, <2>6 DEF Stepped, T, h
<1>9. CASE Upsert(w)
  <2>1. h.op \in {"embed", "upsert"}
        /\ vectors' = [e \in Ids \X Slots |->
                         IF e[1] = h.id /\ h.slot \in {e[2], "both"} THEN h.v ELSE vectors[e]]
        /\ Continue(w, Tail(T)) /\ kept' = kept /\ doomed' = doomed
        /\ rows' = rows /\ chunks' = chunks /\ frequency' = frequency /\ saved' = saved
    BY <1>2, <1>9 DEF Upsert, Next1, Proceed, Continue, End, T, h
  <2>2. vectors' \in Index
    BY <1>3, <1>4, <2>1 DEF Index
  <2>3. ASSUME NEW id \in Ids, NEW slot \in Slots
        PROVE  rows'[<<id, slot>>] = NewRow(h, rows, id, slot)
    BY <2>1 DEF NewRow, Writes, Updates, Drops
  <2>4. ASSUME NEW id \in Ids, NEW slot \in Slots
        PROVE  vectors'[<<id, slot>>] = NewVec(h, vectors, id, slot)
    <3>1. <<id, slot>> \in Ids \X Slots /\ <<id, slot>>[1] = id /\ <<id, slot>>[2] = slot
      OBVIOUS
    <3>2. vectors'[<<id, slot>>] =
             IF id = h.id /\ h.slot \in {slot, "both"} THEN h.v ELSE vectors[<<id, slot>>]
      BY <2>1, <3>1
    <3> QED
      BY <2>1, <3>2 DEF NewVec, Embeds, On, Removes
  <2>5. rows' \in Index /\ saved' \in Index /\ chunks' \in [Ids -> SUBSET Ids] /\ frequency' \subseteq Ids
    BY <1>3, <2>1 DEF Index
  <2>6. h.op \in {"embed", "upsert"} /\ Continue(w, Tail(T)) /\ kept' = kept /\ doomed' = doomed
        /\ rows' = rows /\ chunks' = chunks /\ frequency' = frequency /\ saved' = saved
    BY <2>1
  <2> QED
    BY <1>1, <1>4, <2>2, <2>3, <2>4, <2>5, <2>6 DEF Stepped, T, h
<1>10. CASE RemoveVector(w)
  <2>1. h.op = "remove" /\ vectors' = [vectors EXCEPT ![<<h.id, h.slot>>] = None]
        /\ Continue(w, Tail(T)) /\ kept' = kept /\ doomed' = doomed
        /\ rows' = rows /\ chunks' = chunks /\ frequency' = frequency /\ saved' = saved
    BY <1>2, <1>10 DEF RemoveVector, Next1, Proceed, Continue, End, T, h
  <2>2. vectors' \in Index
    BY <1>4, <1>20, <2>1, IndexExcept
  <2>3. ASSUME NEW id \in Ids, NEW slot \in Slots
        PROVE  rows'[<<id, slot>>] = NewRow(h, rows, id, slot)
    BY <2>1 DEF NewRow, Writes, Updates, Drops
  <2>4. ASSUME NEW id \in Ids, NEW slot \in Slots
        PROVE  vectors'[<<id, slot>>] = NewVec(h, vectors, id, slot)
    BY <1>3, <1>4, <2>1 DEF NewVec, Embeds, Removes
  <2>5. rows' \in Index /\ saved' \in Index /\ chunks' \in [Ids -> SUBSET Ids] /\ frequency' \subseteq Ids
    BY <1>3, <2>1 DEF Index
  <2> QED
    BY <1>1, <1>4, <2>1, <2>2, <2>3, <2>4, <2>5 DEF Stepped, T, h
<1>11. CASE ReadRow(w)
  <2>1. h.op = "read" /\ kept' = kept
        /\ rows' = rows /\ chunks' = chunks /\ frequency' = frequency
        /\ vectors' = vectors /\ saved' = saved
    BY <1>2, <1>11 DEF ReadRow, Next1, stores, T, h
  <2>2. Continue(w, (IF rows[At(w)] = None THEN <<>>
                     ELSE << Do("upsert", h.id, h.slot, rows[At(w)]) >>) \o Tail(T))
    BY <1>2, <1>11 DEF ReadRow, T, h
  <2>3. <<>> \o Tail(T) = Tail(T)
    <3>1. Tail(T) \in Seq(Statement)
      BY <1>1, <1>2, HeadTailProperties
    <3> QED
      BY <3>1, ConcatEmptySeq
  <2>4. Continue(w, Rest(T, rows))
    BY <1>2, <2>1, <2>2, <2>3
  <2>5. doomed' = doomed
    BY <2>4 DEF Continue, End
  <2>6. ASSUME NEW id \in Ids, NEW slot \in Slots
        PROVE  /\ rows'[<<id, slot>>] = NewRow(h, rows, id, slot)
               /\ vectors'[<<id, slot>>] = NewVec(h, vectors, id, slot)
    BY <2>1 DEF NewRow, NewVec, Writes, Updates, Drops, Embeds, Removes
  <2>7. rows' \in Index /\ vectors' \in Index /\ saved' \in Index
        /\ chunks' \in [Ids -> SUBSET Ids] /\ frequency' \subseteq Ids
    BY <1>3, <2>1 DEF Index
  <2> QED
    BY <1>1, <2>1, <2>4, <2>5, <2>6, <2>7 DEF Stepped, T, h
<1>12. CASE Count(w)
  <2>1. h.op \in {"observe", "forget"}
        /\ frequency' = (IF h.op = "observe" THEN frequency \cup {h.id} ELSE frequency \ {h.id})
        /\ Continue(w, Tail(T)) /\ kept' = kept /\ doomed' = doomed
        /\ rows' = rows /\ chunks' = chunks /\ vectors' = vectors /\ saved' = saved
    BY <1>2, <1>12 DEF Count, Next1, Proceed, Continue, End, T, h
  <2>2. ASSUME NEW id \in Ids, NEW slot \in Slots
        PROVE  /\ rows'[<<id, slot>>] = NewRow(h, rows, id, slot)
               /\ vectors'[<<id, slot>>] = NewVec(h, vectors, id, slot)
    BY <2>1 DEF NewRow, NewVec, Writes, Updates, Drops, Embeds, Removes
  <2>3. rows' \in Index /\ vectors' \in Index /\ saved' \in Index
        /\ chunks' \in [Ids -> SUBSET Ids] /\ frequency' \subseteq Ids
    BY <1>3, <1>4, <2>1 DEF Index
  <2> QED
    BY <1>1, <1>4, <2>1, <2>2, <2>3 DEF Stepped, T, h
<1>13. CASE Sync(w)
  <2>1. h.op = "sync" /\ saved' = vectors /\ Continue(w, Tail(T)) /\ doomed' = doomed
        /\ kept' = {id \in Ids : fate'[id] \in {"embedded", "deleted"}}
        /\ rows' = rows /\ chunks' = chunks /\ frequency' = frequency /\ vectors' = vectors
    BY <1>2, <1>13 DEF Sync, Next1, Continue, End, T, h
  <2>2. ASSUME NEW id \in Ids, NEW slot \in Slots
        PROVE  /\ rows'[<<id, slot>>] = NewRow(h, rows, id, slot)
               /\ vectors'[<<id, slot>>] = NewVec(h, vectors, id, slot)
    BY <2>1 DEF NewRow, NewVec, Writes, Updates, Drops, Embeds, Removes
  <2>3. rows' \in Index /\ vectors' \in Index /\ saved' \in Index
        /\ chunks' \in [Ids -> SUBSET Ids] /\ frequency' \subseteq Ids
    BY <1>3, <2>1 DEF Index
  <2> QED
    BY <1>1, <1>4, <2>1, <2>2, <2>3 DEF Stepped, T, h
<1> QED
  BY <1>5, <1>6, <1>7, <1>8, <1>9, <1>10, <1>11, <1>12, <1>13

-----------------------------------------------------------------------------
(* What is left of the thread that made the step, and what its end tells.  *)

Left(w, R, end) ==
    /\ \A u \in Workers : u # w => work'[u] = work[u]
    /\ work'[w] = IF R = <<>> THEN Idle
                  ELSE [ids |-> work[w].ids, todo |-> R, fate |-> work[w].fate]
    /\ \A id \in Ids :
          IF R = <<>> /\ id \in work[w].ids /\ Busy(id) = {w}
          THEN fate'[id] = (IF id \in mixed THEN "broken" ELSE end) /\ id \notin mixed'
          ELSE fate'[id] = fate[id] /\ (id \in mixed' <=> id \in mixed)
    /\ work' \in [Workers -> Job] /\ fate' \in [Ids -> Fates]
    /\ mixed' \subseteq Ids /\ doomed' = doomed

\* A call that ends.
LEMMA EndLeaves ==
    ASSUME Typed, NEW w \in Workers, NEW end \in Fates, End(w, end)
    PROVE  Left(w, <<>>, end)
<1>1. work \in [Workers -> Job] /\ fate \in [Ids -> Fates] /\ mixed \subseteq Ids
  BY DEF Typed
<1>2. work[w].ids \subseteq Ids
  BY <1>1 DEF Job
<1> DEFINE ended == {id \in work[w].ids : Busy(id) = {w}}
<1>3. /\ work' = [work EXCEPT ![w] = Idle]
      /\ fate' = [id \in Ids |-> IF id \notin ended THEN fate[id]
                                 ELSE IF id \in mixed THEN "broken" ELSE end]
      /\ mixed' = mixed \ ended /\ doomed' = doomed
  BY DEF End
<1>4. \A id \in Ids : id \in ended <=> id \in work[w].ids /\ Busy(id) = {w}
  OBVIOUS
<1> HIDE DEF ended
<1>5. Idle \in Job
  BY DEF Idle, Job, Fates
<1>6. work' \in [Workers -> Job] /\ work'[w] = Idle
      /\ \A u \in Workers : u # w => work'[u] = work[u]
  BY <1>1, <1>3, <1>5
<1>7. fate' \in [Ids -> Fates] /\ mixed' \subseteq Ids
  BY <1>1, <1>3 DEF Fates
<1>8. \A id \in Ids :
        IF id \in work[w].ids /\ Busy(id) = {w}
        THEN fate'[id] = (IF id \in mixed THEN "broken" ELSE end) /\ id \notin mixed'
        ELSE fate'[id] = fate[id] /\ (id \in mixed' <=> id \in mixed)
  BY <1>3, <1>4
<1> QED
  BY <1>3, <1>6, <1>7, <1>8 DEF Left

\* A call that goes on, or ends as it was to.
LEMMA ContinueLeaves ==
    ASSUME Typed, NEW w \in Workers, NEW R \in Seq(Statement), Continue(w, R)
    PROVE  Left(w, R, work[w].fate)
<1>1. work \in [Workers -> Job] /\ fate \in [Ids -> Fates] /\ mixed \subseteq Ids
  BY DEF Typed
<1>2. work[w].ids \subseteq Ids /\ work[w].fate \in Fates
      /\ work[w] = [ids |-> work[w].ids, todo |-> work[w].todo, fate |-> work[w].fate]
  BY <1>1 DEF Job
<1>3. CASE R = <<>>
  BY <1>2, <1>3, EndLeaves DEF Continue
<1>4. CASE R # <<>>
  <2>1. work' = [work EXCEPT ![w].todo = R]
        /\ fate' = fate /\ mixed' = mixed /\ doomed' = doomed
    BY <1>4 DEF Continue
  <2> DEFINE job == [ids |-> work[w].ids, todo |-> R, fate |-> work[w].fate]
  <2>2. work' = [work EXCEPT ![w] = job]
    <3>1. [work[w] EXCEPT !.todo = R] = job
      BY <1>2
    <3> QED
      BY <2>1, <3>1
  <2>3. job \in Job
    BY <1>2 DEF Job
  <2> HIDE DEF job
  <2>4. work' \in [Workers -> Job] /\ work'[w] = job
        /\ \A u \in Workers : u # w => work'[u] = work[u]
    BY <1>1, <2>2, <2>3
  <2> QED
    BY <1>1, <1>4, <2>1, <2>4 DEF Left, job
<1> QED
  BY <1>3, <1>4

\* What is left is of the same call, or nothing is.
LEMMA LeftJob ==
    ASSUME NEW w \in Workers, NEW R, NEW end, Left(w, R, end)
    PROVE  /\ work'[w].todo = R
           /\ work'[w].ids \subseteq work[w].ids
           /\ R # <<>> => work'[w].ids = work[w].ids /\ work'[w].fate = work[w].fate
           /\ R = <<>> => work'[w].ids = {} /\ work'[w].fate = "unused"
           /\ \A id : Busy(id)' \subseteq Busy(id)
           /\ \A id : id \notin work[w].ids \/ R # <<>> => Busy(id)' = Busy(id)
<1>1. CASE R = <<>>
  <2>1. work'[w].todo = R /\ work'[w].ids = {} /\ work'[w].fate = "unused"
    BY <1>1 DEF Left, Idle
  <2> QED
    BY <1>1, <2>1 DEF Left, Busy
<1>2. CASE R # <<>>
  <2>1. work'[w].todo = R /\ work'[w].ids = work[w].ids /\ work'[w].fate = work[w].fate
    BY <1>2 DEF Left
  <2> QED
    BY <1>2, <2>1 DEF Left, Busy
<1> QED
  BY <1>1, <1>2

\* Calls stay about documents of their own.
LEMMA CallsStay ==
    ASSUME CallsInv, NEW w \in Workers, NEW R, NEW end, Left(w, R, end),
           \A k \in DOMAIN R : Proper(R[k], work[w].ids, work[w].fate)
    PROVE  CallsInv'
<1> SUFFICES ASSUME NEW u \in Workers
             PROVE  /\ work'[u].fate \in {"unused", "embedded", "stale", "deleted"}
                    /\ work'[u].fate = "unused" => work'[u].ids = {}
                    /\ \A k \in DOMAIN work'[u].todo :
                          Proper(work'[u].todo[k], work'[u].ids, work'[u].fate)
  BY DEF CallsInv
<1>1. CASE u # w
  BY <1>1 DEF Left, CallsInv
<1>2. CASE u = w /\ R # <<>>
  BY <1>2, LeftJob DEF CallsInv
<1>3. CASE u = w /\ R = <<>>
  <2>1. work'[u].todo = <<>> /\ work'[u].ids = {} /\ work'[u].fate = "unused"
    BY <1>3, LeftJob
  <2>2. DOMAIN work'[u].todo = {}
    BY <2>1
  <2> QED
    BY <2>1, <2>2
<1> QED
  BY <1>1, <1>2, <1>3

LEMMA BusyStay ==
    ASSUME Typed, CallsInv, BusyInv, NEW w \in Workers, NEW R, NEW end, Left(w, R, end),
           end \in {"embedded", "stale", "deleted", "broken"} \/ work[w].ids = {},
           \A id \in Ids : fate[id] = "unused" => \A slot \in Slots :
              /\ rows'[<<id, slot>>] = None
              /\ vectors'[<<id, slot>>] = None
              /\ saved'[<<id, slot>>] = None,
           \A id \in kept' : fate'[id] \in {"embedded", "deleted"}
    PROVE  BusyInv'
<1>0. /\ work'[w].ids \subseteq work[w].ids
      /\ R = <<>> => work'[w].ids = {} /\ work'[w].fate = "unused"
      /\ R # <<>> => work'[w].fate = work[w].fate
  BY LeftJob
<1> USE DEF Left
<1>1. \A u \in Workers : work[u].ids \subseteq Ids
  BY DEF Typed, Job
<1>2. \A u \in Workers : work'[u].ids \subseteq work[u].ids
  BY <1>0
<1>3. \A id \in Ids : fate'[id] = "unused" <=> fate[id] = "unused"
  BY <1>1 DEF BusyInv
<1>4. ASSUME NEW u \in Workers, NEW id \in work'[u].ids
      PROVE  /\ fate'[id] = "busy" /\ id \in Ids
             /\ id \in mixed => id \in mixed'
  <2>1. id \in Ids /\ id \in work[u].ids /\ fate[id] = "busy"
    BY <1>1, <1>2, <1>4 DEF BusyInv
  <2>2. CASE u = w
    <3>1. R # <<>>
      BY <1>0, <1>4, <2>2
    <3> QED
      BY <2>1, <3>1
  <2>3. CASE u # w
    <3>1. Busy(id) # {w}
      BY <2>1, <2>3 DEF Busy
    <3> QED
      BY <2>1, <3>1
  <2> QED
    BY <2>2, <2>3
<1>5. ASSUME NEW u \in Workers, NEW v \in Workers, u # v, NEW id \in work'[u].ids \cap work'[v].ids
      PROVE  id \in mixed'
  <2>1. id \in work[u].ids \cap work[v].ids
    BY <1>2, <1>5
  <2>2. id \in mixed
    BY <1>5, <2>1 DEF BusyInv
  <2> QED
    BY <1>4, <1>5, <2>2
<1>6. \A id \in Ids : fate'[id] = "unused" => \A slot \in Slots :
         rows'[<<id, slot>>] = None /\ vectors'[<<id, slot>>] = None /\ saved'[<<id, slot>>] = None
  BY <1>3
<1>7. \A i, j \in Ids : i < j /\ fate'[i] = "unused" => fate'[j] = "unused"
  BY <1>3 DEF BusyInv
<1>8. \A u \in Workers : work'[u].fate = "deleted" => work'[u].ids \subseteq doomed'
  <2> SUFFICES ASSUME NEW u \in Workers, work'[u].fate = "deleted"
               PROVE  work'[u].ids \subseteq doomed'
    OBVIOUS
  <2>1. work[u].fate = "deleted"
    BY <1>0
  <2> QED
    BY <1>2, <2>1 DEF BusyInv
<1> QED
  BY <1>4, <1>5, <1>6, <1>7, <1>8 DEF BusyInv

-----------------------------------------------------------------------------
(* A statement keeps the invariants. *)

\* Statements keep their order, d places further to the front.
Placed(T, R, r, d) ==
    /\ 1 \in DOMAIN T
    /\ \A i \in DOMAIN T : i \in Nat /\ i >= 1 /\ (i # 1 => i - d \in DOMAIN R /\ R[i - d] = T[i])
    /\ \A k \in DOMAIN R :
          /\ k \in Nat
          /\ \/ k + d \in DOMAIN T /\ k + d # 1 /\ R[k] = T[k + d]
             \/ /\ k = 1 /\ d = 0 /\ T[1].op = "read"
                /\ r[<<T[1].id, T[1].slot>>] # None
                /\ R[1] = Do("upsert", T[1].id, T[1].slot, r[<<T[1].id, T[1].slot>>])

LEMMA RestPlaces ==
    ASSUME NEW T, NEW R, NEW r, Shift(T, R, r) \/ Swap(T, R, r)
    PROVE  \E d \in {0, 1} : Placed(T, R, r, d)
<1>1. CASE Shift(T, R, r)
  <2>1. Placed(T, R, r, 1)
    BY <1>1 DEF Shift, Placed
  <2> QED
    BY <2>1
<1>2. CASE Swap(T, R, r)
  <2>1. Placed(T, R, r, 0)
    BY <1>2 DEF Swap, Placed
  <2> QED
    BY <2>1
<1> QED
  BY <1>1, <1>2

\* What the proofs below use of a statement.
LEMMA StepFacts ==
    ASSUME Typed, CallsInv, NEW w \in Workers, Stepped(w)
    PROVE  /\ Rest(work[w].todo, rows) \in Seq(Statement)
           /\ \/ Shift(work[w].todo, Rest(work[w].todo, rows), rows)
              \/ Swap(work[w].todo, Rest(work[w].todo, rows), rows)
           /\ Left(w, Rest(work[w].todo, rows), work[w].fate)
           /\ \A k \in DOMAIN work[w].todo : Proper(work[w].todo[k], work[w].ids, work[w].fate)
           /\ Proper(work[w].todo[1], work[w].ids, work[w].fate)
           /\ \A k \in DOMAIN Rest(work[w].todo, rows) :
                 Proper(Rest(work[w].todo, rows)[k], work[w].ids, work[w].fate)
           /\ \A id \in Ids : id \notin work[w].ids =>
                 /\ id \in frequency' => id \in frequency
                 /\ \A slot \in Slots :
                       /\ rows'[<<id, slot>>] = rows[<<id, slot>>]
                       /\ vectors'[<<id, slot>>] = vectors[<<id, slot>>]
<1> DEFINE T == work[w].todo
           h == work[w].todo[1]
           R == Rest(work[w].todo, rows)
<1>1. T # <<>> /\ Continue(w, R)
  BY DEF Stepped
<1>2. T \in Seq(Statement) /\ work[w].ids \subseteq Ids /\ rows \in Index
      /\ Proper(h, work[w].ids, work[w].fate)
  BY <1>1, HeadOf DEF Typed
<1>3. h.op = "read" => h.id \in Ids /\ h.slot \in Slots
  BY <1>2 DEF Proper
<1>4. R \in Seq(Statement) /\ (Shift(T, R, rows) \/ Swap(T, R, rows))
  BY <1>1, <1>2, <1>3, RestShape
<1>5. Left(w, R, work[w].fate)
  BY <1>1, <1>4, ContinueLeaves
<1>6. \A k \in DOMAIN T : Proper(T[k], work[w].ids, work[w].fate)
  BY DEF CallsInv
<1> HIDE DEF T, h, R
<1>7. PICK d \in {0, 1} : Placed(T, R, rows, d)
  BY <1>4, RestPlaces
<1>8. ASSUME NEW k \in DOMAIN R PROVE Proper(R[k], work[w].ids, work[w].fate)
  <2>1. CASE k + d \in DOMAIN T /\ R[k] = T[k + d]
    BY <1>6, <2>1
  <2>2. CASE T[1].op = "read" /\ k = 1 /\ R[1] = Do("upsert", T[1].id, T[1].slot, rows[<<T[1].id, T[1].slot>>])
    <3>1. Proper(T[1], work[w].ids, work[w].fate)
      BY <1>6, <1>7 DEF Placed
    <3>2. T[1].id \in work[w].ids /\ work[w].fate # "deleted" /\ T[1].slot \in Slots
      BY <2>2, <3>1 DEF Proper, Deletion
    <3>3. R[k].op = "upsert" /\ R[k].id = T[1].id /\ R[k].slot = T[1].slot
      BY <2>2 DEF Do
    <3> QED
      BY <3>2, <3>3 DEF Proper, Deletion
  <2> QED
    BY <1>7, <2>1, <2>2 DEF Placed
<1>9. ASSUME NEW id \in Ids, id \notin work[w].ids
      PROVE  /\ id \in frequency' => id \in frequency
             /\ \A slot \in Slots :
                   /\ rows'[<<id, slot>>] = rows[<<id, slot>>]
                   /\ vectors'[<<id, slot>>] = vectors[<<id, slot>>]
  <2>1. h.op = "sync" \/ h.id # id
    BY <1>2, <1>9 DEF Proper
  <2>2. id \in frequency' => id \in frequency
    BY <2>1 DEF Stepped, h
  <2>3. ASSUME NEW slot \in Slots
        PROVE  /\ rows'[<<id, slot>>] = NewRow(h, rows, id, slot)
               /\ vectors'[<<id, slot>>] = NewVec(h, vectors, id, slot)
    BY DEF Stepped, h
  <2>4. ASSUME NEW slot \in Slots
        PROVE  /\ NewRow(h, rows, id, slot) = rows[<<id, slot>>]
               /\ NewVec(h, vectors, id, slot) = vectors[<<id, slot>>]
    BY <2>1 DEF NewRow, NewVec, Writes, Updates, Drops, Embeds, On, Removes
  <2> QED
    BY <2>2, <2>3, <2>4
<1> QED
  BY <1>2, <1>4, <1>5, <1>6, <1>8, <1>9 DEF T, h, R

LEMMA StepKeepsTyped ==
    ASSUME Typed, CallsInv, NEW w \in Workers, Stepped(w)
    PROVE  Typed'
<1>1. Left(w, Rest(work[w].todo, rows), work[w].fate)
  BY StepFacts
<1>2. kept' \subseteq Ids
  BY DEF Stepped, Typed
<1>3. doomed' \subseteq Ids
  BY DEF Stepped, Typed
<1> QED
  BY <1>1, <1>2, <1>3 DEF Left, Stepped, Typed

LEMMA StepKeepsBusy ==
    ASSUME Typed, CallsInv, BusyInv, NEW w \in Workers, Stepped(w)
    PROVE  BusyInv'
<1> DEFINE R == Rest(work[w].todo, rows)
<1>1. Left(w, R, work[w].fate)
  BY StepFacts
<1>2. work[w].fate \in {"embedded", "stale", "deleted", "broken"} \/ work[w].ids = {}
  BY DEF CallsInv
<1>3. ASSUME NEW id \in Ids, fate[id] = "unused", NEW slot \in Slots
      PROVE  /\ rows'[<<id, slot>>] = None
             /\ vectors'[<<id, slot>>] = None
             /\ saved'[<<id, slot>>] = None
  <2>1. id \notin work[w].ids
    BY <1>3 DEF BusyInv
  <2>2. rows'[<<id, slot>>] = None /\ vectors'[<<id, slot>>] = None
    BY <1>3, <2>1, StepFacts DEF BusyInv
  <2>3. saved'[<<id, slot>>] = None
    BY <1>3 DEF BusyInv, Stepped
  <2> QED
    BY <2>2, <2>3
<1>4. ASSUME NEW id \in kept' PROVE fate'[id] \in {"embedded", "deleted"}
  <2>1. CASE kept' = kept
    <3>1. id \in Ids /\ fate[id] \in {"embedded", "deleted"}
      BY <1>4, <2>1 DEF BusyInv, Typed
    <3>2. id \notin work[w].ids
      BY <3>1 DEF BusyInv
    <3> QED
      BY <1>1, <3>1, <3>2 DEF Left
  <2>2. CASE kept' = {i \in Ids : fate'[i] \in {"embedded", "deleted"}}
    BY <1>4, <2>2
  <2> QED
    BY <2>1, <2>2 DEF Stepped
<1> HIDE DEF R
<1> QED
  BY <1>1, <1>2, <1>3, <1>4, BusyStay

LEMMA StepKeepsStore ==
    ASSUME Typed, CallsInv, StoreInv, NEW w \in Workers, Stepped(w)
    PROVE  StoreInv'
<1> DEFINE T == work[w].todo
           R == Rest(work[w].todo, rows)
<1>1. /\ Left(w, R, work[w].fate)
      /\ Shift(T, R, rows) \/ Swap(T, R, rows)
      /\ \A id \in Ids : id \notin work[w].ids => rows'[<<id, "meta">>] = rows[<<id, "meta">>]
      /\ \A k \in DOMAIN T : Proper(T[k], work[w].ids, work[w].fate)
  BY StepFacts DEF Slots
<1>2. work'[w].todo = R /\ (\A id : Busy(id)' \subseteq Busy(id))
      /\ \A id : id \notin work[w].ids \/ R # <<>> => Busy(id)' = Busy(id)
  BY <1>1, LeftJob
<1>3. PICK d \in {0, 1} : Placed(T, R, rows, d)
  BY <1>1, RestPlaces
<1>4. \A id \in Ids : rows'[<<id, "meta">>] = NewRow(T[1], rows, id, "meta")
  BY DEF Stepped, Slots
<1> HIDE DEF T, R
<1> SUFFICES ASSUME NEW u \in Workers, NEW k \in DOMAIN work'[u].todo, NEW id \in Ids,
                    Writes(work'[u].todo[k], id, "meta")
             PROVE  /\ rows'[<<id, "meta">>] = None
                    /\ Busy(id)' = {u}
                    /\ \A j \in DOMAIN work'[u].todo : Writes(work'[u].todo[j], id, "meta") => j = k
  BY DEF StoreInv
<1>5. CASE u # w
  <2>1. work'[u] = work[u]
    BY <1>1, <1>5 DEF Left
  <2>2. /\ rows[<<id, "meta">>] = None /\ Busy(id) = {u}
        /\ \A j \in DOMAIN work'[u].todo : Writes(work'[u].todo[j], id, "meta") => j = k
    BY <2>1 DEF StoreInv
  <2>3. id \notin work[w].ids
    BY <1>5, <2>2 DEF Busy
  <2> QED
    BY <1>1, <1>2, <2>2, <2>3
<1>6. CASE u = w
  <2>1. k \in DOMAIN R /\ Writes(R[k], id, "meta")
    BY <1>2, <1>6
  <2>2. k + d \in DOMAIN T /\ k + d # 1 /\ R[k] = T[k + d]
    BY <1>3, <2>1 DEF Placed, Writes, Do
  <2>3. /\ rows[<<id, "meta">>] = None /\ Busy(id) = {w}
        /\ \A j \in DOMAIN T : Writes(T[j], id, "meta") => j = k + d
    BY <2>1, <2>2 DEF StoreInv, T
  <2>4. ~Writes(T[1], id, "meta")
    BY <1>3, <2>2, <2>3 DEF Placed
  <2>5. rows'[<<id, "meta">>] = None
    BY <1>4, <2>3, <2>4 DEF NewRow
  <2>6. R # <<>>
    BY <2>1
  <2>7. ASSUME NEW j \in DOMAIN R, Writes(R[j], id, "meta") PROVE j = k
    <3>1. j + d \in DOMAIN T /\ R[j] = T[j + d]
      BY <1>3, <2>7 DEF Placed, Writes, Do
    <3>2. j + d = k + d
      BY <2>3, <2>7, <3>1
    <3>3. j \in Nat /\ k \in Nat
      BY <1>3, <2>1 DEF Placed
    <3> QED
      BY <3>2, <3>3
  <2> QED
    BY <1>2, <1>6, <2>3, <2>5, <2>6, <2>7
<1> QED
  BY <1>5, <1>6

LEMMA StepKeepsDrop ==
    ASSUME Typed, CallsInv, StoreInv, DropInv, NEW w \in Workers, Stepped(w)
    PROVE  DropInv'
<1> DEFINE T == work[w].todo
           R == Rest(work[w].todo, rows)
<1>1. /\ Left(w, R, work[w].fate)
      /\ Shift(T, R, rows) \/ Swap(T, R, rows)
      /\ \A k \in DOMAIN T : Proper(T[k], work[w].ids, work[w].fate)
  BY StepFacts
<1>2. work'[w].todo = R
  BY <1>1, LeftJob
<1>3. PICK d \in {0, 1} : Placed(T, R, rows, d)
  BY <1>1, RestPlaces
<1>4. \A id \in Ids : rows'[<<id, "meta">>] = NewRow(T[1], rows, id, "meta")
  BY DEF Stepped, Slots
<1>5. 1 \in DOMAIN T
  BY <1>3 DEF Placed
<1> HIDE DEF R
<1> SUFFICES ASSUME NEW u \in Workers, NEW k \in DOMAIN work'[u].todo, NEW id \in Ids,
                    Drops(work'[u].todo[k], id, "content")
             PROVE  \/ rows'[<<id, "meta">>] = None
                    \/ \E j \in DOMAIN work'[u].todo : j < k /\ Drops(work'[u].todo[j], id, "meta")
  BY DEF DropInv
<1>6. CASE u # w
  <2>1. work'[u] = work[u]
    BY <1>1, <1>6 DEF Left
  <2>2. \/ rows[<<id, "meta">>] = None
        \/ \E j \in DOMAIN work[u].todo : j < k /\ Drops(work[u].todo[j], id, "meta")
    BY <2>1 DEF DropInv
  <2>3. id \in work[u].ids
    BY <2>1 DEF CallsInv, Proper, Drops
  <2>4. ~Writes(T[1], id, "meta")
    <3>1. SUFFICES ASSUME Writes(T[1], id, "meta") PROVE FALSE
      OBVIOUS
    <3>2. Busy(id) = {w}
      BY <1>5, <3>1 DEF StoreInv
    <3> QED
      BY <1>6, <2>3, <3>2 DEF Busy
  <2>5. rows[<<id, "meta">>] = None => rows'[<<id, "meta">>] = None
    BY <1>4, <2>4 DEF NewRow
  <2> QED
    BY <2>1, <2>2, <2>5
<1>7. CASE u = w
  <2> HIDE DEF T
  <2>1. k \in DOMAIN R /\ Drops(R[k], id, "content")
    BY <1>2, <1>7
  <2>2. k + d \in DOMAIN T /\ k + d # 1 /\ R[k] = T[k + d]
    BY <1>3, <2>1 DEF Placed, Drops, Do
  <2>3. work[w].fate = "deleted"
    BY <1>1, <2>1, <2>2 DEF Proper, Deletion, Drops
  <2>4. T[1].op \in Deletion
    BY <1>1, <1>5, <2>3 DEF Proper
  <2>5. \/ rows[<<id, "meta">>] = None
        \/ \E j \in DOMAIN T : j < k + d /\ Drops(T[j], id, "meta")
    BY <2>1, <2>2 DEF DropInv, T
  <2>6. rows[<<id, "meta">>] = None \/ Drops(T[1], id, "meta") => rows'[<<id, "meta">>] = None
    BY <1>4, <2>4 DEF NewRow, Writes, Updates, Deletion
  <2>7. ASSUME NEW j \in DOMAIN T, j < k + d, Drops(T[j], id, "meta"), j # 1
        PROVE  j - d \in DOMAIN R /\ j - d < k /\ Drops(R[j - d], id, "meta")
    BY <1>3, <2>1, <2>7 DEF Placed
  <2> QED
    BY <1>2, <1>7, <2>5, <2>6, <2>7
<1> QED
  BY <1>6, <1>7

\* A document of which metadata are there, or about to be, already was.
LEMMA StepAlive ==
    ASSUME Typed, CallsInv, NEW w \in Workers, Stepped(w), NEW id \in Ids, Alive(id)'
    PROVE  Alive(id)
<1> DEFINE T == work[w].todo
           R == Rest(work[w].todo, rows)
<1>1. /\ Left(w, R, work[w].fate)
      /\ Shift(T, R, rows) \/ Swap(T, R, rows)
  BY StepFacts
<1>2. work'[w].todo = R
  BY <1>1, LeftJob
<1>3. PICK d \in {0, 1} : Placed(T, R, rows, d)
  BY <1>1, RestPlaces
<1>4. rows'[<<id, "meta">>] = NewRow(T[1], rows, id, "meta")
  BY DEF Stepped, Slots
<1>5. 1 \in DOMAIN T
  BY <1>3 DEF Placed
<1> HIDE DEF R
<1>6. CASE rows'[<<id, "meta">>] # None
  <2>1. Writes(T[1], id, "meta") \/ rows[<<id, "meta">>] # None
    BY <1>4, <1>6 DEF NewRow
  <2> QED
    BY <1>5, <2>1 DEF Alive
<1>7. ASSUME NEW u \in Workers, NEW k \in DOMAIN work'[u].todo, Writes(work'[u].todo[k], id, "meta")
      PROVE  Alive(id)
  <2>1. CASE u # w
    <3>1. work'[u] = work[u]
      BY <1>1, <2>1 DEF Left
    <3> QED
      BY <1>7, <3>1 DEF Alive
  <2>2. CASE u = w
    <3>1. k \in DOMAIN R /\ Writes(R[k], id, "meta")
      BY <1>2, <1>7, <2>2
    <3>2. k + d \in DOMAIN T /\ R[k] = T[k + d]
      BY <1>3, <3>1 DEF Placed, Writes, Do
    <3> QED
      BY <3>1, <3>2 DEF Alive
  <2> QED
    BY <2>1, <2>2
<1> QED
  BY <1>6, <1>7 DEF Alive

LEMMA StepKeepsContent ==
    ASSUME Typed, CallsInv, StoreInv, DropInv, ContentInv, NEW w \in Workers, Stepped(w)
    PROVE  ContentInv'
<1> DEFINE T == work[w].todo
           R == Rest(work[w].todo, rows)
<1>1. /\ Left(w, R, work[w].fate)
      /\ Shift(T, R, rows) \/ Swap(T, R, rows)
      /\ \A k \in DOMAIN T : Proper(T[k], work[w].ids, work[w].fate)
  BY StepFacts
<1>2. work'[w].todo = R
  BY <1>1, LeftJob
<1>3. PICK d \in {0, 1} : Placed(T, R, rows, d)
  BY <1>1, RestPlaces
<1>4. 1 \in DOMAIN T
  BY <1>3 DEF Placed
<1> HIDE DEF R
<1> SUFFICES ASSUME NEW id \in Ids, Alive(id)', rows'[<<id, "content">>] = None
             PROVE  /\ vectors'[<<id, "content">>] = None /\ saved'[<<id, "content">>] = None
                    /\ \A u \in Workers : \A k \in DOMAIN work'[u].todo :
                          Embeds(work'[u].todo[k], id, "content") =>
                             \E j \in DOMAIN work'[u].todo :
                                j < k /\ Writes(work'[u].todo[j], id, "content")
  BY DEF ContentInv
<1>5. /\ rows'[<<id, "content">>] = NewRow(T[1], rows, id, "content")
      /\ vectors'[<<id, "content">>] = NewVec(T[1], vectors, id, "content")
      /\ saved' = IF T[1].op = "sync" THEN vectors ELSE saved
  BY DEF Stepped, Slots
<1>6. Alive(id)
  BY StepAlive
<1>7. ~Drops(T[1], id, "content")
  <2>1. SUFFICES ASSUME Drops(T[1], id, "content") PROVE FALSE
    OBVIOUS
  <2>2. rows[<<id, "meta">>] = None \/ \E j \in DOMAIN T : j < 1 /\ Drops(T[j], id, "meta")
    BY <1>4, <2>1 DEF DropInv
  <2>3. rows[<<id, "meta">>] = None
    BY <1>3, <2>2 DEF Placed
  <2>4. PICK u \in Workers : \E k \in DOMAIN work[u].todo : Writes(work[u].todo[k], id, "meta")
    BY <1>6, <2>3 DEF Alive
  <2>5. PICK k \in DOMAIN work[u].todo : Writes(work[u].todo[k], id, "meta")
    BY <2>4
  <2>6. Busy(id) = {u}
    BY <2>5 DEF StoreInv
  <2>7. id \in work[w].ids /\ work[w].fate = "deleted"
    BY <1>1, <1>4, <2>1 DEF Proper, Drops, Deletion
  <2>8. u = w
    BY <2>6, <2>7 DEF Busy
  <2> QED
    BY <1>1, <2>5, <2>7, <2>8 DEF Proper, Writes, Deletion
<1>8. ~Writes(T[1], id, "content") /\ rows[<<id, "content">>] = None
  <2>1. T[1].op \in {"insert", "list", "update"} => T[1].v # None
    BY <1>1, <1>4 DEF Proper
  <2> QED
    BY <1>5, <1>7, <2>1 DEF NewRow, Writes, Updates
<1>9. /\ vectors[<<id, "content">>] = None /\ saved[<<id, "content">>] = None
      /\ \A u \in Workers : \A k \in DOMAIN work[u].todo :
            Embeds(work[u].todo[k], id, "content") =>
               \E j \in DOMAIN work[u].todo : j < k /\ Writes(work[u].todo[j], id, "content")
  BY <1>6, <1>8 DEF ContentInv
<1>10. ~Embeds(T[1], id, "content")
  BY <1>3, <1>4, <1>9 DEF Placed
<1>11. vectors'[<<id, "content">>] = None /\ saved'[<<id, "content">>] = None
  BY <1>5, <1>9, <1>10 DEF NewVec
<1>12. ASSUME NEW u \in Workers, NEW k \in DOMAIN work'[u].todo,
              Embeds(work'[u].todo[k], id, "content")
       PROVE  \E j \in DOMAIN work'[u].todo : j < k /\ Writes(work'[u].todo[j], id, "content")
  <2>1. CASE u # w
    <3>1. work'[u] = work[u]
      BY <1>1, <2>1 DEF Left
    <3> QED
      BY <1>9, <1>12, <3>1
  <2>2. CASE u = w
    <3>1. k \in DOMAIN R /\ Embeds(R[k], id, "content")
      BY <1>2, <1>12, <2>2
    <3>2. CASE k + d \in DOMAIN T /\ k + d # 1 /\ R[k] = T[k + d]
      <4>1. PICK j \in DOMAIN T : j < k + d /\ Writes(T[j], id, "content")
        BY <1>9, <3>1, <3>2
      <4>2. j # 1
        BY <1>8, <4>1
      <4>3. j - d \in DOMAIN R /\ j - d < k /\ R[j - d] = T[j]
        BY <1>3, <3>1, <4>1, <4>2 DEF Placed
      <4> QED
        BY <1>2, <2>2, <4>1, <4>3
    <3>3. CASE /\ k = 1 /\ T[1].op = "read" /\ rows[<<T[1].id, T[1].slot>>] # None
               /\ R[1] = Do("upsert", T[1].id, T[1].slot, rows[<<T[1].id, T[1].slot>>])
      <4>1. T[1].slot \in Slots
        BY <1>1, <1>4, <3>3 DEF Proper
      <4>2. T[1].id = id /\ T[1].slot = "content"
        BY <3>1, <3>3, <4>1 DEF Embeds, On, Do, Slots
      <4> QED
        BY <1>8, <3>3, <4>2
    <3> QED
      BY <1>3, <3>1, <3>2, <3>3 DEF Placed
  <2> QED
    BY <2>1, <2>2
<1> QED
  BY <1>11, <1>12

LEMMA StepKeepsOutcome ==
    ASSUME Typed, CallsInv, BusyInv, ContentInv, OutcomeInv, NEW w \in Workers, Stepped(w)
    PROVE  OutcomeInv' /\ \A id \in Ids : Sole(w, id) =>
              LET R == Rest(work[w].todo, rows) IN
              /\ work[w].fate = "embedded" =>
                    \A slot \in Slots : EndsEmbedded(R, rows', vectors', id, slot)
              /\ work[w].fate = "deleted" => EndsDeleted(R, rows', vectors', frequency', id)
<1> DEFINE T == work[w].todo
           R == Rest(work[w].todo, rows)
<1>1. /\ Left(w, R, work[w].fate)
      /\ Shift(T, R, rows) \/ Swap(T, R, rows)
      /\ Proper(T[1], work[w].ids, work[w].fate)
  BY StepFacts
<1>2. /\ work'[w].todo = R /\ work'[w].ids \subseteq work[w].ids
      /\ R # <<>> => work'[w].fate = work[w].fate
      /\ R = <<>> => work'[w].ids = {}
  BY <1>1, LeftJob
<1>3. \A id \in Ids, slot \in Slots :
         /\ rows'[<<id, slot>>] = NewRow(T[1], rows, id, slot)
         /\ vectors'[<<id, slot>>] = NewVec(T[1], vectors, id, slot)
  BY DEF Stepped
<1>4. \A id \in Ids : id \in frequency' =>
          \/ id \in frequency /\ ~(T[1].op = "forget" /\ T[1].id = id)
          \/ T[1].op = "observe" /\ T[1].id = id
  BY DEF Stepped
<1> HIDE DEF R, T
<1>5. ASSUME NEW id \in Ids, Sole(w, id)
      PROVE  /\ work[w].fate = "embedded" =>
                   \A slot \in Slots : EndsEmbedded(R, rows', vectors', id, slot)
             /\ work[w].fate = "deleted" => EndsDeleted(R, rows', vectors', frequency', id)
  <2>1. ASSUME work[w].fate = "embedded", NEW slot \in Slots
        PROVE  EndsEmbedded(R, rows', vectors', id, slot)
    <3>1. EndsEmbedded(T, rows, vectors, id, slot)
      BY <1>5, <2>1 DEF OutcomeInv, T
    <3>2. T[1].op \notin Deletion /\ (T[1].op \in {"insert", "list", "update"} => T[1].v # None)
      BY <1>1, <2>1 DEF Proper
    <3>3. rows[<<id, "meta">>] # None /\ rows[<<id, "content">>] = None =>
             vectors[<<id, "content">>] = None
      BY DEF ContentInv, Alive
    <3>4. /\ rows'[<<id, slot>>] = NewRow(T[1], rows, id, slot)
          /\ rows'[<<id, "meta">>] = NewRow(T[1], rows, id, "meta")
          /\ vectors'[<<id, slot>>] = NewVec(T[1], vectors, id, slot)
      BY <1>3 DEF Slots
    <3> QED
      BY <1>1, <3>1, <3>2, <3>3, <3>4, EmbedStep
  <2>2. ASSUME work[w].fate = "deleted"
        PROVE  EndsDeleted(R, rows', vectors', frequency', id)
    <3>1. EndsDeleted(T, rows, vectors, frequency, id)
      BY <1>5, <2>2 DEF OutcomeInv, T
    <3>2. T[1].op \in Deletion
      BY <1>1, <2>2 DEF Proper
    <3>3. Shift(T, R, rows)
      BY <1>1, <3>2 DEF Swap, Deletion
    <3>4. id \in frequency' => id \in frequency /\ ~(T[1].op = "forget" /\ T[1].id = id)
      BY <1>4, <3>2 DEF Deletion
    <3>5. \A slot \in Slots : /\ rows'[<<id, slot>>] = NewRow(T[1], rows, id, slot)
                              /\ vectors'[<<id, slot>>] = NewVec(T[1], vectors, id, slot)
      BY <1>3
    <3> QED
      BY <3>1, <3>2, <3>3, <3>4, <3>5, DeleteStep
  <2> QED
    BY <2>1, <2>2
<1>6. ASSUME NEW u \in Workers, NEW id \in Ids, id \in work'[u].ids, id \notin mixed'
      PROVE  /\ work'[u].fate = "embedded" =>
                   \A slot \in Slots : EndsEmbedded(work'[u].todo, rows', vectors', id, slot)
             /\ work'[u].fate = "deleted" =>
                   EndsDeleted(work'[u].todo, rows', vectors', frequency', id)
  <2>1. CASE u = w
    <3>1. R # <<>> /\ id \in work[w].ids
      BY <1>2, <1>6, <2>1
    <3>2. id \notin mixed
      BY <1>1, <1>6, <3>1 DEF Left
    <3> QED
      BY <1>2, <1>5, <2>1, <3>1, <3>2 DEF Sole
  <2>2. CASE u # w
    <3>1. work'[u] = work[u] /\ id \in work[u].ids
      BY <1>1, <1>6, <2>2 DEF Left
    <3>2. Busy(id) # {w}
      BY <2>2, <3>1 DEF Busy
    <3>3. id \notin mixed
      BY <1>1, <1>6, <3>2 DEF Left
    <3>4. id \notin work[w].ids
      BY <2>2, <3>1, <3>3 DEF BusyInv
    <3>5. /\ id \in frequency' => id \in frequency
          /\ \A slot \in Slots :
                /\ rows'[<<id, slot>>] = rows[<<id, slot>>]
                /\ vectors'[<<id, slot>>] = vectors[<<id, slot>>]
      BY <3>4, StepFacts
    <3>6. /\ work[u].fate = "embedded" =>
                \A slot \in Slots : EndsEmbedded(work[u].todo, rows, vectors, id, slot)
          /\ work[u].fate = "deleted" =>
                EndsDeleted(work[u].todo, rows, vectors, frequency, id)
      BY <3>1, <3>3 DEF OutcomeInv, Sole
    <3>7. ASSUME work[u].fate = "embedded", NEW slot \in Slots
          PROVE  EndsEmbedded(work[u].todo, rows', vectors', id, slot)
      <4>1. EndsEmbedded(work[u].todo, rows, vectors, id, slot)
        BY <3>6, <3>7
      <4>2. /\ rows'[<<id, slot>>] = rows[<<id, slot>>]
            /\ rows'[<<id, "meta">>] = rows[<<id, "meta">>]
            /\ vectors'[<<id, slot>>] = vectors[<<id, slot>>]
        BY <3>5 DEF Slots
      <4> QED
        BY <4>1, <4>2 DEF EndsEmbedded
    <3>8. ASSUME work[u].fate = "deleted"
          PROVE  EndsDeleted(work[u].todo, rows', vectors', frequency', id)
      BY <3>5, <3>6, <3>8 DEF EndsDeleted
    <3> QED
      BY <3>1, <3>7, <3>8
  <2> QED
    BY <2>1, <2>2
<1> QED
  BY <1>5, <1>6 DEF OutcomeInv, Sole, R

LEMMA StepKeepsFound ==
    ASSUME Typed, CallsInv, BusyInv, ContentInv, OutcomeInv, FoundInv,
           NEW w \in Workers, Stepped(w)
    PROVE  FoundInv'
<1> DEFINE R == Rest(work[w].todo, rows)
<1>1. Left(w, R, work[w].fate)
  BY StepFacts
<1>2. /\ kept' = IF work[w].todo[1].op = "sync"
                 THEN {id \in Ids : fate'[id] \in {"embedded", "deleted"}} ELSE kept
      /\ saved' = IF work[w].todo[1].op = "sync" THEN vectors ELSE saved
  BY DEF Stepped
<1>3. work[w].todo[1].op = "sync" => \A id \in Ids, slot \in Slots :
         vectors'[<<id, slot>>] = vectors[<<id, slot>>]
  BY DEF Stepped, NewVec, Embeds, Removes
<1> HIDE DEF R
<1>4. ASSUME NEW id \in Ids, fate'[id] \in {"embedded", "deleted"}
      PROVE  \/ id \notin work[w].ids /\ fate'[id] = fate[id]
             \/ R = <<>> /\ Sole(w, id) /\ fate'[id] = work[w].fate /\ id \notin kept
  <2>1. CASE R = <<>> /\ id \in work[w].ids /\ Busy(id) = {w}
    <3>1. id \notin mixed /\ fate'[id] = work[w].fate
      BY <1>1, <1>4, <2>1 DEF Left
    <3>2. fate[id] = "busy"
      BY <2>1 DEF BusyInv
    <3>3. id \notin kept
      BY <3>2 DEF BusyInv
    <3> QED
      BY <2>1, <3>1, <3>3 DEF Sole
  <2>2. CASE ~(R = <<>> /\ id \in work[w].ids /\ Busy(id) = {w})
    <3>1. fate'[id] = fate[id]
      BY <1>1, <2>2 DEF Left
    <3>2. id \notin work[w].ids
      BY <1>4, <3>1 DEF BusyInv
    <3> QED
      BY <3>1, <3>2
  <2> QED
    BY <2>1, <2>2
<1>5. ASSUME NEW id \in Ids, fate'[id] = "embedded", NEW slot \in Slots
      PROVE  /\ vectors'[<<id, slot>>] = rows'[<<id, slot>>]
             /\ id \in kept' => saved'[<<id, slot>>] = rows'[<<id, slot>>]
  <2>1. CASE id \notin work[w].ids /\ fate'[id] = fate[id]
    <3>1. rows'[<<id, slot>>] = rows[<<id, slot>>] /\ vectors'[<<id, slot>>] = vectors[<<id, slot>>]
      BY <2>1, StepFacts
    <3>2. /\ vectors[<<id, slot>>] = rows[<<id, slot>>]
          /\ id \in kept => saved[<<id, slot>>] = rows[<<id, slot>>]
      BY <1>5, <2>1 DEF FoundInv, EmbeddedIsFound, Current
    <3> QED
      BY <1>2, <3>1, <3>2
  <2>2. CASE R = <<>> /\ Sole(w, id) /\ fate'[id] = work[w].fate /\ id \notin kept
    <3>1. EndsEmbedded(R, rows', vectors', id, slot)
      BY <1>5, <2>2, StepKeepsOutcome DEF R
    <3>2. vectors'[<<id, slot>>] = rows'[<<id, slot>>]
      BY <2>2, <3>1 DEF EndsEmbedded
    <3> QED
      BY <1>2, <1>3, <2>2, <3>2
  <2> QED
    BY <1>4, <1>5, <2>1, <2>2
<1>6. ASSUME NEW id \in Ids, fate'[id] = "deleted"
      PROVE  /\ id \notin frequency'
             /\ \A slot \in Slots :
                   /\ rows'[<<id, slot>>] = None /\ vectors'[<<id, slot>>] = None
                   /\ id \in kept' => saved'[<<id, slot>>] = None
  <2>1. CASE id \notin work[w].ids /\ fate'[id] = fate[id]
    <3>1. /\ id \in frequency' => id \in frequency
          /\ \A slot \in Slots : /\ rows'[<<id, slot>>] = rows[<<id, slot>>]
                                 /\ vectors'[<<id, slot>>] = vectors[<<id, slot>>]
      BY <2>1, StepFacts
    <3>2. /\ id \notin frequency
          /\ \A slot \in Slots : /\ rows[<<id, slot>>] = None /\ vectors[<<id, slot>>] = None
                                 /\ id \in kept => saved[<<id, slot>>] = None
      BY <1>6, <2>1 DEF FoundInv, DeletedIsGone, Absent
    <3> QED
      BY <1>2, <3>1, <3>2
  <2>2. CASE R = <<>> /\ Sole(w, id) /\ fate'[id] = work[w].fate /\ id \notin kept
    <3>1. EndsDeleted(R, rows', vectors', frequency', id)
      BY <1>6, <2>2, StepKeepsOutcome DEF R
    <3>2. /\ id \notin frequency'
          /\ \A slot \in Slots : rows'[<<id, slot>>] = None /\ vectors'[<<id, slot>>] = None
      BY <2>2, <3>1 DEF EndsDeleted
    <3> QED
      BY <1>2, <1>3, <2>2, <3>2
  <2> QED
    BY <1>4, <1>6, <2>1, <2>2
<1> QED
  BY <1>5, <1>6 DEF FoundInv, EmbeddedIsFound, DeletedIsGone, Current, Absent

LEMMA StepKeepsChunks ==
    ASSUME Typed, CallsInv, BusyInv, ChunkInv, NEW w \in Workers, Stepped(w)
    PROVE  ChunkInv'
<1> DEFINE T == work[w].todo
           R == Rest(work[w].todo, rows)
<1>1. /\ Left(w, R, work[w].fate)
      /\ Shift(T, R, rows) \/ Swap(T, R, rows)
      /\ \A k \in DOMAIN T : Proper(T[k], work[w].ids, work[w].fate)
  BY StepFacts
<1>2. /\ work'[w].todo = R /\ work'[w].ids \subseteq work[w].ids
      /\ work[w].ids \subseteq Ids
  BY <1>1, LeftJob DEF Typed, Job
<1>3. PICK d \in {0, 1} : Placed(T, R, rows, d)
  BY <1>1, RestPlaces
<1>4. 1 \in DOMAIN T
  BY <1>3 DEF Placed
<1>5. /\ \A id \in Ids, slot \in Slots : rows'[<<id, slot>>] = NewRow(T[1], rows, id, slot)
      /\ doomed' = doomed /\ chunks' \in [Ids -> SUBSET Ids]
      /\ \A id \in Ids : chunks'[id] \subseteq
            IF T[1].op = "list" /\ T[1].id = id THEN work[w].ids \ {id} ELSE chunks[id]
  BY DEF Stepped
<1>6. \A u \in Workers : work[u].ids \subseteq Ids
  BY DEF Typed, Job
<1> HIDE DEF R
<1>7. ASSUME NEW c \in Ids \ doomed, NEW slot \in Slots
      PROVE  rows[<<c, slot>>] # None \/ Writes(T[1], c, slot) => rows'[<<c, slot>>] # None
  <2>1. ~Drops(T[1], c, slot)
    BY <1>1, <1>4, <1>7 DEF Proper, Drops, Deletion, BusyInv
  <2>2. T[1].op \in {"insert", "list", "update"} => T[1].v # None
    BY <1>1, <1>4 DEF Proper
  <2> QED
    BY <1>5, <2>1, <2>2 DEF NewRow, Writes, Updates
<1>8. ASSUME NEW id \in Ids, NEW c \in chunks'[id] \ doomed', NEW slot \in Slots
      PROVE  rows'[<<c, slot>>] # None
  <2>1. c \in Ids \ doomed
    BY <1>5, <1>8
  <2>2. CASE c \in chunks[id]
    <3>1. rows[<<c, slot>>] # None
      BY <2>1, <2>2 DEF ChunkInv, RecordsHaveTheirChunks
    <3> QED
      BY <1>7, <2>1, <3>1
  <2>3. CASE T[1].op = "list" /\ T[1].id = id /\ c \in work[w].ids \ {id}
    <3>1. \/ rows[<<c, slot>>] # None
          \/ \E j \in DOMAIN T : j < 1 /\ Writes(T[j], c, slot)
      BY <1>4, <2>1, <2>3 DEF ChunkInv
    <3>2. rows[<<c, slot>>] # None
      BY <1>3, <3>1 DEF Placed
    <3> QED
      BY <1>7, <2>1, <3>2
  <2> QED
    BY <1>5, <1>8, <2>2, <2>3
<1>9. ASSUME NEW u \in Workers, NEW k \in DOMAIN work'[u].todo, work'[u].todo[k].op = "list",
             NEW c \in work'[u].ids \ ({work'[u].todo[k].id} \cup doomed'), NEW slot \in Slots
      PROVE  \/ rows'[<<c, slot>>] # None
             \/ \E j \in DOMAIN work'[u].todo : j < k /\ Writes(work'[u].todo[j], c, slot)
  <2>1. CASE u # w
    <3>1. work'[u] = work[u]
      BY <1>1, <2>1 DEF Left
    <3>2. c \in Ids \ doomed /\ c \in work[u].ids \ ({work[u].todo[k].id} \cup doomed)
      BY <1>5, <1>6, <1>9, <3>1
    <3>3. \/ rows[<<c, slot>>] # None
          \/ \E j \in DOMAIN work[u].todo : j < k /\ Writes(work[u].todo[j], c, slot)
      BY <1>9, <3>1, <3>2 DEF ChunkInv
    <3> QED
      BY <1>7, <3>1, <3>2, <3>3
  <2>2. CASE u = w
    <3>1. k \in DOMAIN R /\ R[k].op = "list" /\ c \in work[w].ids \ ({R[k].id} \cup doomed)
      BY <1>2, <1>5, <1>9, <2>2
    <3>2. k + d \in DOMAIN T /\ k + d # 1 /\ R[k] = T[k + d]
      BY <1>3, <3>1 DEF Placed, Do
    <3>3. \/ rows[<<c, slot>>] # None
          \/ \E j \in DOMAIN T : j < k + d /\ Writes(T[j], c, slot)
      BY <3>1, <3>2 DEF ChunkInv
    <3>4. c \in Ids \ doomed
      BY <1>2, <3>1
    <3>5. ASSUME NEW j \in DOMAIN T, j < k + d, Writes(T[j], c, slot), j # 1
          PROVE  j - d \in DOMAIN R /\ j - d < k /\ Writes(R[j - d], c, slot)
      BY <1>3, <3>1, <3>5 DEF Placed
    <3> QED
      BY <1>2, <1>7, <2>2, <3>3, <3>4, <3>5
  <2> QED
    BY <2>1, <2>2
<1> QED
  BY <1>8, <1>9 DEF ChunkInv, RecordsHaveTheirChunks

LEMMA StepKeepsDoc ==
    ASSUME DocInv, NEW w \in Workers, Stepped(w)
    PROVE  DocInv'
<1>1. CallsInv'
  <2> DEFINE R == Rest(work[w].todo, rows)
  <2>1. /\ Left(w, R, work[w].fate)
        /\ \A k \in DOMAIN R : Proper(R[k], work[w].ids, work[w].fate)
    BY StepFacts DEF DocInv
  <2> HIDE DEF R
  <2> QED
    BY <2>1, CallsStay DEF DocInv
<1>2. Typed' /\ BusyInv' /\ StoreInv'
  BY StepKeepsTyped, StepKeepsBusy, StepKeepsStore DEF DocInv
<1>3. DropInv' /\ ContentInv' /\ OutcomeInv'
  BY StepKeepsDrop, StepKeepsContent, StepKeepsOutcome DEF DocInv
<1>4. ChunkInv' /\ FoundInv'
  BY StepKeepsChunks, StepKeepsFound DEF DocInv
<1> QED
  BY <1>1, <1>2, <1>3, <1>4 DEF DocInv

-----------------------------------------------------------------------------
(* Failures and restarts: nothing is stored, and calls are over. *)

\* What every thread is left with: what it had, or nothing.
Ended == \A u \in Workers : work'[u] = work[u] \/ work'[u] = Idle

LEMMA IdleJob ==
    ASSUME NEW job, job = Idle
    PROVE  /\ job.ids = {} /\ job.fate = "unused" /\ job.todo = <<>>
           /\ DOMAIN job.todo = {} /\ job \in Job
BY DEF Idle, Job, Fates

\* The invariants that are about rows and calls only.
LEMMA EndedKeeps ==
    ASSUME CallsInv, StoreInv, DropInv, ContentInv, ChunkInv, Ended,
           UNCHANGED <<rows, chunks, doomed>>,
           \A id \in Ids : vectors'[<<id, "content">>] = vectors[<<id, "content">>]
                           \/ vectors'[<<id, "content">>] = saved[<<id, "content">>],
           saved' = saved
    PROVE  CallsInv' /\ StoreInv' /\ DropInv' /\ ContentInv' /\ ChunkInv'
<1>1. ASSUME NEW u \in Workers
      PROVE  /\ work'[u] = work[u] \/ (DOMAIN work'[u].todo = {} /\ work'[u].ids = {}
                                       /\ work'[u].fate = "unused")
             /\ work'[u].ids \subseteq work[u].ids
             /\ work'[u].ids = {} => DOMAIN work'[u].todo = {} \/ work'[u] = work[u]
             /\ \A k \in DOMAIN work'[u].todo : work'[u] = work[u]
  BY <1>1, IdleJob DEF Ended
<1>2. CallsInv'
  BY <1>1 DEF CallsInv
<1>3. ASSUME NEW u \in Workers, NEW k \in DOMAIN work'[u].todo, NEW id \in Ids,
             Writes(work'[u].todo[k], id, "meta")
      PROVE  /\ rows'[<<id, "meta">>] = None
             /\ Busy(id)' = {u}
             /\ \A j \in DOMAIN work'[u].todo : Writes(work'[u].todo[j], id, "meta") => j = k
  <2>1. work'[u] = work[u]
    BY <1>1, <1>3
  <2>2. /\ rows[<<id, "meta">>] = None /\ Busy(id) = {u}
        /\ \A j \in DOMAIN work[u].todo : Writes(work[u].todo[j], id, "meta") => j = k
    BY <1>3, <2>1 DEF StoreInv
  <2>3. id \in work'[u].ids
    BY <2>1, <2>2 DEF Busy
  <2>4. Busy(id)' = {u}
    BY <1>1, <2>2, <2>3 DEF Busy
  <2> QED
    BY <2>1, <2>2, <2>4
<1>4. DropInv'
  BY <1>1 DEF DropInv
<1>5. \A id \in Ids : Alive(id)' => Alive(id)
  BY <1>1 DEF Alive
<1>6. ASSUME NEW id \in Ids, Alive(id)', rows'[<<id, "content">>] = None
      PROVE  /\ vectors'[<<id, "content">>] = None /\ saved'[<<id, "content">>] = None
             /\ \A u \in Workers : \A k \in DOMAIN work'[u].todo :
                   Embeds(work'[u].todo[k], id, "content") =>
                      \E j \in DOMAIN work'[u].todo :
                         j < k /\ Writes(work'[u].todo[j], id, "content")
  <2>1. /\ vectors[<<id, "content">>] = None /\ saved[<<id, "content">>] = None
        /\ \A u \in Workers : \A k \in DOMAIN work[u].todo :
              Embeds(work[u].todo[k], id, "content") =>
                 \E j \in DOMAIN work[u].todo : j < k /\ Writes(work[u].todo[j], id, "content")
    BY <1>5, <1>6 DEF ContentInv
  <2>2. \A u \in Workers : \A k \in DOMAIN work'[u].todo :
           Embeds(work'[u].todo[k], id, "content") =>
              \E j \in DOMAIN work'[u].todo : j < k /\ Writes(work'[u].todo[j], id, "content")
    BY <1>1, <2>1
  <2> QED
    BY <2>1, <2>2
<1>7. ChunkInv'
  BY <1>1 DEF ChunkInv, RecordsHaveTheirChunks
<1> QED
  BY <1>2, <1>3, <1>4, <1>6, <1>7 DEF StoreInv, ContentInv

LEMMA FailKeepsDoc ==
    ASSUME DocInv, NEW w \in Workers, Fail(w)
    PROVE  DocInv'
<1>1. /\ End(w, "broken") /\ kept' = kept \ work[w].ids
      /\ rows' = rows /\ chunks' = chunks /\ frequency' = frequency
      /\ vectors' = vectors /\ saved' = saved
  BY DEF Fail, stores
<1>2. Left(w, <<>>, "broken")
  <2>1. "broken" \in Fates
    BY DEF Fates
  <2> QED
    BY <1>1, <2>1, EndLeaves DEF DocInv
<1>3. Ended /\ doomed' = doomed
  BY <1>2 DEF Left, Ended
<1>4. Typed'
  BY <1>1, <1>2 DEF Left, Typed, DocInv
<1>5. CallsInv' /\ StoreInv' /\ DropInv' /\ ContentInv' /\ ChunkInv'
  BY <1>1, <1>3, EndedKeeps DEF DocInv
<1>6. ASSUME NEW id \in Ids, fate'[id] # "broken"
      PROVE  fate'[id] = fate[id] /\ (id \in mixed' <=> id \in mixed)
  BY <1>2, <1>6 DEF Left
<1>7. BusyInv'
  <2>1. \A id \in Ids : fate[id] = "unused" => \A slot \in Slots :
           /\ rows'[<<id, slot>>] = None
           /\ vectors'[<<id, slot>>] = None
           /\ saved'[<<id, slot>>] = None
    BY <1>1 DEF BusyInv, DocInv
  <2>2. ASSUME NEW id \in kept' PROVE fate'[id] \in {"embedded", "deleted"}
    <3>1. id \in Ids /\ id \notin work[w].ids /\ fate[id] \in {"embedded", "deleted"}
      BY <1>1, <2>2 DEF DocInv, Typed, BusyInv
    <3> QED
      BY <1>2, <3>1 DEF Left
  <2> QED
    BY <1>2, <2>1, <2>2, BusyStay DEF DocInv
<1>8. OutcomeInv'
  <2> SUFFICES ASSUME NEW u \in Workers, NEW id \in Ids, id \in work'[u].ids, id \notin mixed'
               PROVE  /\ work'[u].fate = "embedded" =>
                            \A slot \in Slots : EndsEmbedded(work'[u].todo, rows', vectors', id, slot)
                      /\ work'[u].fate = "deleted" =>
                            EndsDeleted(work'[u].todo, rows', vectors', frequency', id)
    BY DEF OutcomeInv, Sole
  <2>1. u # w /\ work'[u] = work[u]
    BY <1>2 DEF Left, Idle
  <2>2. Busy(id) # {w}
    BY <2>1 DEF Busy
  <2>3. id \notin mixed
    BY <1>2, <2>2 DEF Left
  <2> QED
    BY <1>1, <2>1, <2>3 DEF DocInv, OutcomeInv, Sole
<1>9. FoundInv'
  BY <1>1, <1>6 DEF DocInv, FoundInv, EmbeddedIsFound, DeletedIsGone, Current, Absent
<1> QED
  BY <1>4, <1>5, <1>7, <1>8, <1>9 DEF DocInv

LEMMA RestartKeepsDoc ==
    ASSUME DocInv, Restart
    PROVE  DocInv'
<1>1. /\ vectors' = saved /\ rows' = rows /\ chunks' = chunks /\ frequency' = frequency
      /\ saved' = saved /\ doomed' = doomed /\ mixed' = {}
      /\ work' = [w \in Workers |-> Idle]
      /\ kept' = {id \in kept : fate[id] # "busy"}
      /\ fate' = [id \in Ids |->
                  IF fate[id] = "busy" \/ (fate[id] = "deleted" /\ id \notin kept) THEN "broken"
                  ELSE IF fate[id] = "embedded" /\ id \notin kept THEN "stale"
                  ELSE fate[id]]
  BY DEF Restart
<1>2. \A u \in Workers : work'[u] = Idle
  BY <1>1
<1>3. Ended
  BY <1>2 DEF Ended
<1>4. fate' \in [Ids -> Fates]
  BY <1>1 DEF DocInv, Typed, Fates
<1>5. work' \in [Workers -> Job]
  BY <1>1, IdleJob
<1>6. Typed'
  BY <1>1, <1>4, <1>5 DEF DocInv, Typed
<1>7. CallsInv' /\ StoreInv' /\ DropInv' /\ ContentInv' /\ ChunkInv'
  BY <1>1, <1>3, EndedKeeps DEF DocInv
<1>8. \A u \in Workers : work'[u].ids = {} /\ work'[u].fate = "unused"
  BY <1>2, IdleJob
<1>9. ASSUME NEW id \in Ids
      PROVE  /\ fate'[id] = "unused" <=> fate[id] = "unused"
             /\ fate'[id] \in {"embedded", "deleted"} => fate[id] = fate'[id] /\ id \in kept
             /\ fate[id] \in {"embedded", "deleted"} /\ id \in kept => fate'[id] = fate[id]
  BY <1>1
<1>10. BusyInv'
  <2>1. \A id \in Ids : fate'[id] = "unused" => \A slot \in Slots :
           rows'[<<id, slot>>] = None /\ vectors'[<<id, slot>>] = None /\ saved'[<<id, slot>>] = None
    BY <1>1, <1>9 DEF DocInv, BusyInv
  <2>2. \A i, j \in Ids : i < j /\ fate'[i] = "unused" => fate'[j] = "unused"
    BY <1>9 DEF DocInv, BusyInv
  <2>3. ASSUME NEW id \in kept' PROVE fate'[id] \in {"embedded", "deleted"}
    <3>1. id \in kept /\ id \in Ids /\ fate[id] \in {"embedded", "deleted"}
      BY <1>1, <2>3 DEF DocInv, Typed, BusyInv
    <3> QED
      BY <1>9, <3>1
  <2> QED
    BY <1>8, <2>1, <2>2, <2>3 DEF BusyInv
<1>11. OutcomeInv'
  BY <1>8 DEF OutcomeInv, Sole
<1>12. FoundInv'
  <2>1. ASSUME NEW id \in Ids, fate'[id] = "embedded", NEW slot \in Slots
        PROVE  vectors'[<<id, slot>>] = rows'[<<id, slot>>] /\ saved'[<<id, slot>>] = rows'[<<id, slot>>]
    BY <1>1, <1>9, <2>1 DEF DocInv, FoundInv, EmbeddedIsFound, Current
  <2>2. ASSUME NEW id \in Ids, fate'[id] = "deleted"
        PROVE  /\ id \notin frequency'
               /\ \A slot \in Slots : rows'[<<id, slot>>] = None /\ vectors'[<<id, slot>>] = None
                                      /\ saved'[<<id, slot>>] = None
    BY <1>1, <1>9, <2>2 DEF DocInv, FoundInv, DeletedIsGone, Absent
  <2> QED
    BY <2>1, <2>2 DEF FoundInv, EmbeddedIsFound, DeletedIsGone, Current, Absent
<1> QED
  BY <1>6, <1>7, <1>10, <1>11, <1>12 DEF DocInv

-----------------------------------------------------------------------------
(* A call begins. *)

\* A call about these documents that is to end like this and consists of
\* these statements: what it has to be for the invariants.
Sound(ids, T, end) ==
    /\ ids \subseteq Ids /\ T \in Seq(Statement)
    /\ end \in {"unused", "embedded", "stale", "deleted"}
    /\ end = "unused" => ids = {}
    /\ \A k \in DOMAIN T : Proper(T[k], ids, end)
    /\ \A id \in ids : fate[id] = "unused" \/ rows[<<id, "meta">>] # None
    /\ \A i \in Ids, j \in ids : i < j /\ fate[i] = "unused" => i \in ids
    /\ \A k \in DOMAIN T, id \in Ids : Writes(T[k], id, "meta") =>
          /\ fate[id] = "unused"
          /\ \A j \in DOMAIN T : Writes(T[j], id, "meta") => j = k
    /\ \A k \in DOMAIN T, id \in Ids : Drops(T[k], id, "content") =>
          \E j \in DOMAIN T : j < k /\ Drops(T[j], id, "meta")
    /\ \A k \in DOMAIN T, id \in Ids : Embeds(T[k], id, "content") =>
          \E j \in DOMAIN T : j < k /\ Writes(T[j], id, "content")
    /\ end = "embedded" =>
          \A id \in ids, slot \in Slots : EndsEmbedded(T, rows, vectors, id, slot)
    /\ end = "deleted" => \A id \in ids : EndsDeleted(T, rows, vectors, frequency, id)
    /\ \A k \in DOMAIN T : T[k].op = "list" =>
          \A c \in ids \ {T[k].id}, slot \in Slots :
             \E j \in DOMAIN T : j < k /\ Writes(T[j], c, slot)

LEMMA TakeKeepsDoc ==
    ASSUME DocInv, NEW w \in Workers, NEW ids, NEW T, NEW end,
           Take(w, ids, T, end), Sound(ids, T, end),
           doomed' = IF end = "deleted" THEN doomed \cup ids ELSE doomed
    PROVE  DocInv'
<1> DEFINE job == [ids |-> ids, todo |-> T, fate |-> end]
<1>1. /\ work[w] = Idle /\ work' = [work EXCEPT ![w] = job]
      /\ fate' = [id \in Ids |-> IF id \in ids THEN "busy" ELSE fate[id]]
      /\ kept' = kept \ ids /\ mixed' = mixed \cup {id \in ids : Busy(id) # {}}
      /\ rows' = rows /\ chunks' = chunks /\ frequency' = frequency
      /\ vectors' = vectors /\ saved' = saved
  BY DEF Take, stores
<1>2. job.ids = ids /\ job.todo = T /\ job.fate = end
  OBVIOUS
<1>3. job \in Job /\ ids \subseteq Ids
  BY DEF Sound, Job, Fates
<1> HIDE DEF job
<1>4. work \in [Workers -> Job]
  BY DEF DocInv, Typed
<1>5. /\ work' \in [Workers -> Job] /\ work'[w] = job
      /\ \A u \in Workers : u # w => work'[u] = work[u]
  BY <1>1, <1>3, <1>4
<1>6. work[w].ids = {} /\ DOMAIN work[w].todo = {}
  BY <1>1, IdleJob
<1>7. \A id : Busy(id)' = IF id \in ids THEN Busy(id) \cup {w} ELSE Busy(id)
  BY <1>2, <1>5, <1>6 DEF Busy
<1>8. ASSUME NEW id \in Ids
      PROVE  /\ id \in ids => fate'[id] = "busy"
             /\ id \notin ids => fate'[id] = fate[id] /\ (id \in mixed' <=> id \in mixed)
             /\ id \notin mixed' => id \notin mixed
  BY <1>1
<1>9. Typed'
  <2>1. fate' \in [Ids -> Fates]
    BY <1>1 DEF DocInv, Typed, Fates
  <2>2. mixed' \subseteq Ids /\ kept' \subseteq Ids /\ doomed' \subseteq Ids
    BY <1>1, <1>3 DEF DocInv, Typed
  <2> QED
    BY <1>1, <1>5, <2>1, <2>2 DEF DocInv, Typed
<1>10. CallsInv'
  BY <1>2, <1>5 DEF DocInv, CallsInv, Sound
<1>11. BusyInv'
  <2>1. \A u \in Workers : \A id \in work'[u].ids : fate'[id] = "busy"
    <3> SUFFICES ASSUME NEW u \in Workers, NEW id \in work'[u].ids PROVE fate'[id] = "busy"
      OBVIOUS
    <3>1. id \in Ids
      BY <1>5 DEF Job
    <3>2. id \in ids \/ id \in work[u].ids
      BY <1>2, <1>5
    <3> QED
      BY <1>8, <3>1, <3>2 DEF DocInv, BusyInv
  <2>2. ASSUME NEW u \in Workers, NEW v \in Workers, NEW id \in work'[u].ids \cap work'[v].ids, u # v
        PROVE  id \in mixed'
    <3>1. CASE u # w /\ v # w
      <4>1. id \in work[u].ids \cap work[v].ids
        BY <1>5, <2>2, <3>1
      <4>2. id \in mixed
        BY <2>2, <4>1 DEF DocInv, BusyInv
      <4> QED
        BY <1>1, <4>2
    <3>2. CASE u = w \/ v = w
      <4>1. id \in ids /\ Busy(id) # {}
        BY <1>2, <1>5, <2>2, <3>2 DEF Busy
      <4> QED
        BY <1>1, <4>1
    <3> QED
      BY <3>1, <3>2
  <2>3. \A id \in Ids : fate'[id] = "unused" => \A slot \in Slots :
           rows'[<<id, slot>>] = None /\ vectors'[<<id, slot>>] = None /\ saved'[<<id, slot>>] = None
    BY <1>1, <1>8 DEF DocInv, BusyInv
  <2>4. ASSUME NEW i \in Ids, NEW j \in Ids, i < j, fate'[i] = "unused" PROVE fate'[j] = "unused"
    <3>1. fate[i] = "unused" /\ i \notin ids
      BY <1>8, <2>4
    <3>2. fate[j] = "unused"
      BY <2>4, <3>1 DEF DocInv, BusyInv
    <3>3. j \notin ids
      BY <2>4, <3>1 DEF Sound
    <3> QED
      BY <1>8, <3>2, <3>3
  <2>5. \A u \in Workers : work'[u].fate = "deleted" => work'[u].ids \subseteq doomed'
    BY <1>2, <1>5 DEF DocInv, BusyInv
  <2>6. ASSUME NEW id \in kept' PROVE fate'[id] \in {"embedded", "deleted"}
    BY <1>1, <1>8, <2>6 DEF DocInv, BusyInv, Typed
  <2> QED
    BY <2>1, <2>2, <2>3, <2>4, <2>5, <2>6 DEF BusyInv
<1>12. StoreInv'
  <2> SUFFICES ASSUME NEW u \in Workers, NEW k \in DOMAIN work'[u].todo, NEW id \in Ids,
                      Writes(work'[u].todo[k], id, "meta")
               PROVE  /\ rows'[<<id, "meta">>] = None
                      /\ Busy(id)' = {u}
                      /\ \A j \in DOMAIN work'[u].todo :
                            Writes(work'[u].todo[j], id, "meta") => j = k
    BY DEF StoreInv
  <2>1. CASE u = w
    <3>1. k \in DOMAIN T /\ Writes(T[k], id, "meta")
      BY <1>2, <1>5, <2>1
    <3>2. /\ fate[id] = "unused"
          /\ \A j \in DOMAIN T : Writes(T[j], id, "meta") => j = k
      BY <3>1 DEF Sound
    <3>3. id \in ids
      BY <3>1 DEF Sound, Proper, Writes
    <3>4. Busy(id) = {}
      BY <3>2 DEF Busy, DocInv, BusyInv
    <3>5. rows[<<id, "meta">>] = None
      BY <3>2 DEF DocInv, BusyInv, Slots
    <3> QED
      BY <1>1, <1>2, <1>5, <1>7, <2>1, <3>2, <3>3, <3>4, <3>5
  <2>2. CASE u # w
    <3>1. work'[u] = work[u]
      BY <1>5, <2>2
    <3>2. /\ rows[<<id, "meta">>] = None /\ Busy(id) = {u}
          /\ \A j \in DOMAIN work[u].todo : Writes(work[u].todo[j], id, "meta") => j = k
      BY <3>1 DEF DocInv, StoreInv
    <3>3. fate[id] = "busy"
      BY <3>2 DEF Busy, DocInv, BusyInv
    <3>4. id \notin ids
      BY <3>2, <3>3 DEF Sound
    <3> QED
      BY <1>1, <1>7, <3>1, <3>2, <3>4
  <2> QED
    BY <2>1, <2>2
<1>13. DropInv'
  <2> SUFFICES ASSUME NEW u \in Workers, NEW k \in DOMAIN work'[u].todo, NEW id \in Ids,
                      Drops(work'[u].todo[k], id, "content")
               PROVE  \/ rows'[<<id, "meta">>] = None
                      \/ \E j \in DOMAIN work'[u].todo :
                            j < k /\ Drops(work'[u].todo[j], id, "meta")
    BY DEF DropInv
  <2>1. CASE u = w
    BY <1>2, <1>5, <2>1 DEF Sound
  <2>2. CASE u # w
    BY <1>1, <1>5, <2>2 DEF DocInv, DropInv
  <2> QED
    BY <2>1, <2>2
<1>14. ContentInv'
  <2> SUFFICES ASSUME NEW id \in Ids, Alive(id)', rows'[<<id, "content">>] = None
               PROVE  /\ vectors'[<<id, "content">>] = None /\ saved'[<<id, "content">>] = None
                      /\ \A u \in Workers : \A k \in DOMAIN work'[u].todo :
                            Embeds(work'[u].todo[k], id, "content") =>
                               \E j \in DOMAIN work'[u].todo :
                                  j < k /\ Writes(work'[u].todo[j], id, "content")
    BY DEF ContentInv
  <2>1. /\ vectors[<<id, "content">>] = None /\ saved[<<id, "content">>] = None
        /\ \A u \in Workers : u # w => \A k \in DOMAIN work[u].todo :
              Embeds(work[u].todo[k], id, "content") =>
                 \E j \in DOMAIN work[u].todo : j < k /\ Writes(work[u].todo[j], id, "content")
    <3>1. CASE Alive(id)
      BY <1>1, <3>1 DEF DocInv, ContentInv
    <3>2. CASE ~Alive(id)
      <4>1. PICK k \in DOMAIN T : Writes(T[k], id, "meta")
        BY <1>1, <1>2, <1>5, <3>2 DEF Alive
      <4>2. fate[id] = "unused"
        BY <4>1 DEF Sound
      <4>3. vectors[<<id, "content">>] = None /\ saved[<<id, "content">>] = None
        BY <4>2 DEF DocInv, BusyInv, Slots
      <4>4. \A u \in Workers : id \notin work[u].ids
        BY <4>2 DEF DocInv, BusyInv
      <4>5. \A u \in Workers : \A k1 \in DOMAIN work[u].todo :
               ~Embeds(work[u].todo[k1], id, "content")
        BY <4>4 DEF DocInv, CallsInv, Proper, Embeds, On
      <4> QED
        BY <4>3, <4>5
    <3> QED
      BY <3>1, <3>2
  <2>2. ASSUME NEW u \in Workers, NEW k \in DOMAIN work'[u].todo,
               Embeds(work'[u].todo[k], id, "content")
        PROVE  \E j \in DOMAIN work'[u].todo : j < k /\ Writes(work'[u].todo[j], id, "content")
    <3>1. CASE u = w
      BY <1>2, <1>5, <2>2, <3>1 DEF Sound
    <3>2. CASE u # w
      BY <1>5, <2>1, <2>2, <3>2
    <3> QED
      BY <3>1, <3>2
  <2> QED
    BY <1>1, <2>1, <2>2
<1>15. OutcomeInv'
  <2> SUFFICES ASSUME NEW u \in Workers, NEW id \in Ids, id \in work'[u].ids, id \notin mixed'
               PROVE  /\ work'[u].fate = "embedded" =>
                            \A slot \in Slots : EndsEmbedded(work'[u].todo, rows', vectors', id, slot)
                      /\ work'[u].fate = "deleted" =>
                            EndsDeleted(work'[u].todo, rows', vectors', frequency', id)
    BY DEF OutcomeInv, Sole
  <2>1. CASE u = w
    BY <1>1, <1>2, <1>5, <2>1 DEF Sound
  <2>2. CASE u # w
    BY <1>1, <1>5, <1>8, <2>2 DEF DocInv, OutcomeInv, Sole
  <2> QED
    BY <2>1, <2>2
<1>16. ChunkInv'
  <2>1. RecordsHaveTheirChunks'
    BY <1>1 DEF DocInv, ChunkInv, RecordsHaveTheirChunks
  <2>2. ASSUME NEW u \in Workers, NEW k \in DOMAIN work'[u].todo, work'[u].todo[k].op = "list",
               NEW c \in work'[u].ids \ ({work'[u].todo[k].id} \cup doomed'), NEW slot \in Slots
        PROVE  \/ rows'[<<c, slot>>] # None
               \/ \E j \in DOMAIN work'[u].todo : j < k /\ Writes(work'[u].todo[j], c, slot)
    <3>1. CASE u = w
      BY <1>2, <1>5, <2>2, <3>1 DEF Sound
    <3>2. CASE u # w
      <4>1. work'[u] = work[u] /\ doomed \subseteq doomed'
        BY <1>5, <3>2
      <4>2. c \in work[u].ids \ ({work[u].todo[k].id} \cup doomed)
        BY <2>2, <4>1
      <4> QED
        BY <1>1, <2>2, <4>1, <4>2 DEF DocInv, ChunkInv
    <3> QED
      BY <3>1, <3>2
  <2> QED
    BY <2>1, <2>2 DEF ChunkInv
<1>17. FoundInv'
  <2>1. ASSUME NEW id \in Ids, fate'[id] \in {"embedded", "deleted"}
        PROVE  fate'[id] = fate[id]
    BY <1>8, <2>1
  <2> QED
    BY <1>1, <2>1 DEF DocInv, FoundInv, EmbeddedIsFound, DeletedIsGone, Current, Absent
<1> QED
  BY <1>9, <1>10, <1>11, <1>12, <1>13, <1>14, <1>15, <1>16, <1>17 DEF DocInv

-----------------------------------------------------------------------------
(* The calls are sound. *)

\* Ids that a listing has have been used, and so have all before them.
LEMMA ListedUsed ==
    ASSUME DocInv, NEW id \in Listed
    PROVE  /\ id \in Ids /\ rows[<<id, "meta">>] # None
           /\ \A i \in Ids : i < id => fate[i] # "unused"
<1>1. id \in Ids /\ rows[<<id, "meta">>] # None
  BY DEF Listed
<1>2. fate[id] # "unused"
  BY <1>1 DEF DocInv, BusyInv, Slots
<1> QED
  BY <1>1, <1>2 DEF DocInv, BusyInv

\* A new document has nothing yet.
LEMMA FreshUnused ==
    ASSUME DocInv, NEW id \in Ids, fate[id] = "unused", NEW slot \in Slots
    PROVE  rows[<<id, slot>>] = None /\ vectors[<<id, slot>>] = None
BY DEF DocInv, BusyInv

LEMMA One == 1 \in Versions /\ 1 # None
BY DocumentsAssumption DEF Versions, None

LEMMA AddIsSound ==
    ASSUME DocInv, NEW id \in Ids, Fresh(id)
    PROVE  /\ Sound({id}, AddDocument(id, 1), "embedded")
           /\ Sound({id}, AddThenEmbed(id, 1), "embedded")
           /\ Sound({id}, AddWithVectors(id, 1), "embedded")
<1>1. /\ fate[id] = "unused"
      /\ \A i \in Ids, j \in {id} : i < j /\ fate[i] = "unused" => i \in {id}
  BY DEF Fresh
<1>2. 1 \in Versions /\ 1 # None
  BY One
<1>3. Sound({id}, AddDocument(id, 1), "embedded")
  <2> DEFINE T == AddDocument(id, 1)
  <2>1. /\ DOMAIN T = 1..4
        /\ T[1] = Do("insert", id, "meta", 1) /\ T[2] = Do("insert", id, "content", 1)
        /\ T[3] = Do("embed", id, "both", 1) /\ T[4] = Do("observe", id, "none", 1)
    BY DEF AddDocument
  <2>2. T \in Seq(Statement)
    BY <1>2 DEF AddDocument, Do, Statement, Ops, Slots
  <2> HIDE DEF T
  <2>3. /\ T[1].op = "insert" /\ T[1].id = id /\ T[1].slot = "meta" /\ T[1].v = 1
        /\ T[2].op = "insert" /\ T[2].id = id /\ T[2].slot = "content" /\ T[2].v = 1
        /\ T[3].op = "embed" /\ T[3].id = id /\ T[3].slot = "both" /\ T[3].v = 1
        /\ T[4].op = "observe" /\ T[4].id = id /\ T[4].slot = "none"
    BY <2>1 DEF Do
  <2>4. \A k \in DOMAIN T : Proper(T[k], {id}, "embedded")
    BY <1>2, <2>1, <2>3 DEF Proper, Deletion, Slots
  <2>5. \A slot \in Slots : EndsEmbedded(T, rows, vectors, id, slot)
    BY <2>1, <2>3 DEF EndsEmbedded, Slots, Writes, Embeds, On
  <2>6. \A k \in DOMAIN T, i \in Ids :
           Embeds(T[k], i, "content") => \E j \in DOMAIN T : j < k /\ Writes(T[j], i, "content")
    BY <2>1, <2>3 DEF Writes, Embeds, On
  <2>7. \A k \in DOMAIN T, i \in Ids : Writes(T[k], i, "meta") =>
           fate[i] = "unused" /\ \A j \in DOMAIN T : Writes(T[j], i, "meta") => j = k
    BY <1>1, <2>1, <2>3 DEF Writes
  <2>8. \A k \in DOMAIN T : T[k].op \notin {"list", "drop"}
    BY <2>1, <2>3
  <2> QED
    BY <1>1, <2>2, <2>4, <2>5, <2>6, <2>7, <2>8 DEF Sound, Drops, T
<1>4. Sound({id}, AddThenEmbed(id, 1), "embedded")
  <2> DEFINE T == AddThenEmbed(id, 1)
  <2>1. /\ DOMAIN T = 1..4
        /\ T[1] = Do("insert", id, "meta", 1) /\ T[2] = Do("insert", id, "content", 1)
        /\ T[3] = Do("observe", id, "none", 1) /\ T[4] = Do("embed", id, "both", 1)
    BY DEF AddThenEmbed
  <2>2. T \in Seq(Statement)
    BY <1>2 DEF AddThenEmbed, Do, Statement, Ops, Slots
  <2> HIDE DEF T
  <2>3. /\ T[1].op = "insert" /\ T[1].id = id /\ T[1].slot = "meta" /\ T[1].v = 1
        /\ T[2].op = "insert" /\ T[2].id = id /\ T[2].slot = "content" /\ T[2].v = 1
        /\ T[3].op = "observe" /\ T[3].id = id /\ T[3].slot = "none"
        /\ T[4].op = "embed" /\ T[4].id = id /\ T[4].slot = "both" /\ T[4].v = 1
    BY <2>1 DEF Do
  <2>4. \A k \in DOMAIN T : Proper(T[k], {id}, "embedded")
    BY <1>2, <2>1, <2>3 DEF Proper, Deletion, Slots
  <2>5. \A slot \in Slots : EndsEmbedded(T, rows, vectors, id, slot)
    BY <2>1, <2>3 DEF EndsEmbedded, Slots, Writes, Embeds, On
  <2>6. \A k \in DOMAIN T, i \in Ids :
           Embeds(T[k], i, "content") => \E j \in DOMAIN T : j < k /\ Writes(T[j], i, "content")
    BY <2>1, <2>3 DEF Writes, Embeds, On
  <2>7. \A k \in DOMAIN T, i \in Ids : Writes(T[k], i, "meta") =>
           fate[i] = "unused" /\ \A j \in DOMAIN T : Writes(T[j], i, "meta") => j = k
    BY <1>1, <2>1, <2>3 DEF Writes
  <2>8. \A k \in DOMAIN T : T[k].op \notin {"list", "drop"}
    BY <2>1, <2>3
  <2> QED
    BY <1>1, <2>2, <2>4, <2>5, <2>6, <2>7, <2>8 DEF Sound, Drops, T
<1>5. Sound({id}, AddWithVectors(id, 1), "embedded")
  <2> DEFINE T == AddWithVectors(id, 1)
  <2>1. /\ DOMAIN T = 1..5
        /\ T[1] = Do("insert", id, "meta", 1) /\ T[2] = Do("insert", id, "content", 1)
        /\ T[3] = Do("upsert", id, "meta", 1) /\ T[4] = Do("upsert", id, "content", 1)
        /\ T[5] = Do("observe", id, "none", 1)
    BY DEF AddWithVectors
  <2>2. T \in Seq(Statement)
    BY <1>2 DEF AddWithVectors, Do, Statement, Ops, Slots
  <2> HIDE DEF T
  <2>3. /\ T[1].op = "insert" /\ T[1].id = id /\ T[1].slot = "meta" /\ T[1].v = 1
        /\ T[2].op = "insert" /\ T[2].id = id /\ T[2].slot = "content" /\ T[2].v = 1
        /\ T[3].op = "upsert" /\ T[3].id = id /\ T[3].slot = "meta" /\ T[3].v = 1
        /\ T[4].op = "upsert" /\ T[4].id = id /\ T[4].slot = "content" /\ T[4].v = 1
        /\ T[5].op = "observe" /\ T[5].id = id /\ T[5].slot = "none"
    BY <2>1 DEF Do
  <2>4. \A k \in DOMAIN T : Proper(T[k], {id}, "embedded")
    BY <1>2, <2>1, <2>3 DEF Proper, Deletion, Slots
  <2>5. \A slot \in Slots : EndsEmbedded(T, rows, vectors, id, slot)
    BY <2>1, <2>3 DEF EndsEmbedded, Slots, Writes, Embeds, On
  <2>6. \A k \in DOMAIN T, i \in Ids :
           Embeds(T[k], i, "content") => \E j \in DOMAIN T : j < k /\ Writes(T[j], i, "content")
    BY <2>1, <2>3 DEF Writes, Embeds, On
  <2>7. \A k \in DOMAIN T, i \in Ids : Writes(T[k], i, "meta") =>
           fate[i] = "unused" /\ \A j \in DOMAIN T : Writes(T[j], i, "meta") => j = k
    BY <1>1, <2>1, <2>3 DEF Writes
  <2>8. \A k \in DOMAIN T : T[k].op \notin {"list", "drop"}
    BY <2>1, <2>3
  <2> QED
    BY <1>1, <2>2, <2>4, <2>5, <2>6, <2>7, <2>8 DEF Sound, Drops, T
<1> QED
  BY <1>3, <1>4, <1>5

LEMMA UpdateIsSound ==
    ASSUME DocInv, NEW id \in Listed, NEW slot \in Slots,
           NEW v \in (rows[<<id, slot>>] + 1)..MaxVersion
    PROVE  /\ Sound({id}, Update(id, slot, v), "stale")
           /\ Sound({id}, Revise(id, slot, v), "embedded")
<1>1. /\ id \in Ids /\ rows[<<id, "meta">>] # None
      /\ \A i \in Ids : i < id => fate[i] # "unused"
  BY ListedUsed
<1>2. v \in Versions /\ v # None
  <2>1. rows[<<id, slot>>] \in Versions \cup {None}
    BY <1>1 DEF DocInv, Typed, Index
  <2> QED
    BY <2>1, DocumentsAssumption DEF Versions, None
<1> USE DEF Writes, Drops, Embeds, On
<1>3. Sound({id}, Update(id, slot, v), "stale")
  <2> DEFINE T == Update(id, slot, v)
  <2>1. DOMAIN T = 1..1 /\ T[1] = Do("update", id, slot, v)
    BY DEF Update
  <2>2. T \in Seq(Statement)
    BY <1>1, <1>2 DEF Update, Do, Statement, Ops, Slots
  <2> HIDE DEF T
  <2>3. T[1].op = "update" /\ T[1].id = id /\ T[1].slot = slot /\ T[1].v = v
    BY <2>1 DEF Do
  <2>4. \A k \in DOMAIN T : Proper(T[k], {id}, "stale")
    BY <1>2, <2>1, <2>3 DEF Proper, Deletion
  <2> QED
    BY <1>1, <2>1, <2>2, <2>3, <2>4 DEF Sound, T
<1>4. Sound({id}, Revise(id, slot, v), "embedded")
  <2> DEFINE T == Revise(id, slot, v)
  <2>1. /\ DOMAIN T = 1..3 /\ T[1] = Do("update", id, slot, v)
        /\ T[2] = Do("read", id, "meta", None) /\ T[3] = Do("read", id, "content", None)
    BY DEF Revise
  <2>2. T \in Seq(Statement)
    BY <1>1, <1>2 DEF Revise, Do, Statement, Ops, Slots
  <2> HIDE DEF T
  <2>3. /\ T[1].op = "update" /\ T[1].id = id /\ T[1].slot = slot /\ T[1].v = v
        /\ T[2].op = "read" /\ T[2].id = id /\ T[2].slot = "meta"
        /\ T[3].op = "read" /\ T[3].id = id /\ T[3].slot = "content"
    BY <2>1 DEF Do
  <2>4. \A k \in DOMAIN T : Proper(T[k], {id}, "embedded")
    BY <1>2, <2>1, <2>3 DEF Proper, Deletion, Slots
  <2>5. \A s \in Slots : EndsEmbedded(T, rows, vectors, id, s)
    BY <1>1, <2>1, <2>3 DEF EndsEmbedded, Slots, Reads, Updates
  <2> QED
    BY <1>1, <2>1, <2>2, <2>3, <2>4, <2>5 DEF Sound, T
<1> QED
  BY <1>3, <1>4

LEMMA DeleteIsSound ==
    ASSUME DocInv, NEW id \in Listed
    PROVE  Sound({id}, Delete(id), "deleted")
<1>1. /\ id \in Ids /\ rows[<<id, "meta">>] # None
      /\ \A i \in Ids : i < id => fate[i] # "unused"
  BY ListedUsed
<1> USE DEF Writes, Drops, Embeds, On, Removes
<1> DEFINE T == Delete(id)
<1>2. /\ DOMAIN T = 1..5
      /\ T[1] = Do("drop", id, "meta", None) /\ T[2] = Do("drop", id, "content", None)
      /\ T[3] = Do("remove", id, "meta", None) /\ T[4] = Do("remove", id, "content", None)
      /\ T[5] = Do("forget", id, "none", None)
  BY DEF Delete
<1>3. T \in Seq(Statement)
  BY <1>1 DEF Delete, Do, Statement, Ops, Slots
<1> HIDE DEF T
<1>4. /\ T[1].op = "drop" /\ T[1].id = id /\ T[1].slot = "meta"
      /\ T[2].op = "drop" /\ T[2].id = id /\ T[2].slot = "content"
      /\ T[3].op = "remove" /\ T[3].id = id /\ T[3].slot = "meta"
      /\ T[4].op = "remove" /\ T[4].id = id /\ T[4].slot = "content"
      /\ T[5].op = "forget" /\ T[5].id = id
  BY <1>2 DEF Do
<1>5. \A k \in DOMAIN T : Proper(T[k], {id}, "deleted")
  BY <1>2, <1>4 DEF Proper, Deletion, Slots
<1>6. EndsDeleted(T, rows, vectors, frequency, id)
  BY <1>2, <1>4 DEF EndsDeleted, Slots
<1>7. \A k \in DOMAIN T, i \in Ids : Drops(T[k], i, "content") =>
         \E j \in DOMAIN T : j < k /\ Drops(T[j], i, "meta")
  BY <1>2, <1>4
<1> QED
  BY <1>1, <1>2, <1>3, <1>4, <1>5, <1>6, <1>7 DEF Sound, T

LEMMA SyncIsSound == Sound({}, << Do("sync", None, "none", None) >>, "unused")
<1> DEFINE T == << Do("sync", None, "none", None) >>
<1>1. DOMAIN T = 1..1 /\ T[1] = Do("sync", None, "none", None)
  OBVIOUS
<1>2. T \in Seq(Statement)
  BY DEF Do, Statement, Ops
<1> HIDE DEF T
<1>3. T[1].op = "sync"
  BY <1>1 DEF Do
<1> QED
  BY <1>1, <1>2, <1>3 DEF Sound, T, Proper, Deletion, Writes, Drops, Embeds

\* Where the statements of a file are: four for each of n chunks, then the
\* document record.
FileAt(T, id, n) ==
    /\ T \in Seq(Statement) /\ DOMAIN T = 1..(4 * n + 3)
    /\ \A m \in 1..n :
          /\ T[4 * m - 3] = Do("insert", id + m, "content", 1)
          /\ T[4 * m - 2] = Do("insert", id + m, "meta", 1)
          /\ T[4 * m - 1] = Do("upsert", id + m, "content", 1)
          /\ T[4 * m] = Do("upsert", id + m, "meta", 1)
    /\ T[4 * n + 1] = Do("list", id, "meta", 1)
    /\ T[4 * n + 2] = Do("upsert", id, "meta", 1)
    /\ T[4 * n + 3] = Do("sync", None, "none", 1)

LEMMA FilePlaces ==
    ASSUME NEW n \in Nat, NEW id \in Ids, id..(id + n) \subseteq Ids
    PROVE  FileAt(AddFile(id, [k \in 1..n |-> id + k], 1), id, n)
<1> DEFINE parts == [k \in 1..n |-> id + k]
           C == AddChunks(parts, 1)
           A == AddRecord(id, 1)
           S == << Do("sync", None, "none", 1) >>
<1>1. id \in Nat /\ 1 \in Versions
  BY DocumentsAssumption, One
<1>2. parts \in Seq(Ids) /\ Len(parts) = n
  BY <1>1
<1>3. C = [k \in 1..(4 * n) |-> AddChunk(parts[(k - 1) \div 4 + 1], 1)[((k - 1) % 4) + 1]]
  BY <1>2 DEF AddChunks
<1>4. \A m \in 1..n : parts[m] = id + m /\ id + m \in Ids
  BY <1>1
<1> HIDE DEF parts
<1>5. ASSUME NEW m \in 1..n
      PROVE  /\ 4 * m - 3 \in 1..(4 * n) /\ (4 * m - 3 - 1) \div 4 + 1 = m /\ ((4 * m - 3 - 1) % 4) + 1 = 1
             /\ 4 * m - 2 \in 1..(4 * n) /\ (4 * m - 2 - 1) \div 4 + 1 = m /\ ((4 * m - 2 - 1) % 4) + 1 = 2
             /\ 4 * m - 1 \in 1..(4 * n) /\ (4 * m - 1 - 1) \div 4 + 1 = m /\ ((4 * m - 1 - 1) % 4) + 1 = 3
             /\ 4 * m \in 1..(4 * n) /\ (4 * m - 1) \div 4 + 1 = m /\ ((4 * m - 1) % 4) + 1 = 4
  BY <1>5
<1>6. ASSUME NEW m \in 1..n
      PROVE  /\ AddChunk(parts[m], 1)[1] = Do("insert", id + m, "content", 1)
             /\ AddChunk(parts[m], 1)[2] = Do("insert", id + m, "meta", 1)
             /\ AddChunk(parts[m], 1)[3] = Do("upsert", id + m, "content", 1)
             /\ AddChunk(parts[m], 1)[4] = Do("upsert", id + m, "meta", 1)
  BY <1>4 DEF AddChunk
<1>7. ASSUME NEW m \in 1..n
      PROVE  /\ C[4 * m - 3] = Do("insert", id + m, "content", 1)
             /\ C[4 * m - 2] = Do("insert", id + m, "meta", 1)
             /\ C[4 * m - 1] = Do("upsert", id + m, "content", 1)
             /\ C[4 * m] = Do("upsert", id + m, "meta", 1)
  <2> DEFINE At4(k) == AddChunk(parts[(k - 1) \div 4 + 1], 1)[((k - 1) % 4) + 1]
  <2>1. \A k \in 1..(4 * n) : C[k] = At4(k)
    BY <1>3
  <2>2. /\ At4(4 * m - 3) = AddChunk(parts[m], 1)[1]
        /\ At4(4 * m - 2) = AddChunk(parts[m], 1)[2]
        /\ At4(4 * m - 1) = AddChunk(parts[m], 1)[3]
        /\ At4(4 * m) = AddChunk(parts[m], 1)[4]
    BY <1>5
  <2> HIDE DEF At4, C
  <2>3. /\ 4 * m - 3 \in 1..(4 * n) /\ 4 * m - 2 \in 1..(4 * n)
        /\ 4 * m - 1 \in 1..(4 * n) /\ 4 * m \in 1..(4 * n)
    BY <1>5
  <2>4. /\ C[4 * m - 3] = At4(4 * m - 3) /\ C[4 * m - 2] = At4(4 * m - 2)
        /\ C[4 * m - 1] = At4(4 * m - 1) /\ C[4 * m] = At4(4 * m)
    BY <2>1, <2>3
  <2> QED
    BY <1>6, <2>2, <2>4
<1>8. ASSUME NEW k \in 1..(4 * n)
      PROVE  \E m \in 1..n : k \in {4 * m - 3, 4 * m - 2, 4 * m - 1, 4 * m}
  <2>1. (k - 1) \div 4 + 1 \in 1..n
    OBVIOUS
  <2>2. k \in {4 * ((k - 1) \div 4 + 1) - 3, 4 * ((k - 1) \div 4 + 1) - 2,
               4 * ((k - 1) \div 4 + 1) - 1, 4 * ((k - 1) \div 4 + 1)}
    OBVIOUS
  <2> QED
    BY <2>1, <2>2
<1>9. \A m \in 1..n : /\ Do("insert", id + m, "content", 1) \in Statement
                      /\ Do("insert", id + m, "meta", 1) \in Statement
                      /\ Do("upsert", id + m, "content", 1) \in Statement
                      /\ Do("upsert", id + m, "meta", 1) \in Statement
  BY <1>1, <1>4 DEF Do, Statement, Ops, Slots
<1>10. ASSUME NEW k \in 1..(4 * n) PROVE C[k] \in Statement
  <2>1. PICK m \in 1..n : k \in {4 * m - 3, 4 * m - 2, 4 * m - 1, 4 * m}
    BY <1>8
  <2> HIDE DEF C
  <2> QED
    BY <1>7, <1>9, <2>1
<1>11. DOMAIN C = 1..(4 * n) /\ 4 * n \in Nat
  BY <1>3
<1>12. C = [k \in 1..(4 * n) |-> C[k]]
  BY <1>3
<1> HIDE DEF C
<1>13. C \in Seq(Statement) /\ Len(C) = 4 * n
  BY <1>10, <1>11, <1>12
<1>14. A \in Seq(Statement) /\ Len(A) = 2
       /\ A[1] = Do("list", id, "meta", 1) /\ A[2] = Do("upsert", id, "meta", 1)
  BY <1>1 DEF AddRecord, Do, Statement, Ops, Slots
<1>15. S \in Seq(Statement) /\ Len(S) = 1 /\ S[1] = Do("sync", None, "none", 1)
  BY <1>1 DEF Do, Statement, Ops
<1> HIDE DEF A, S
<1>16. /\ C \o A \in Seq(Statement)
       /\ Len(C \o A) = 4 * n + 2
       /\ \A k \in 1..(4 * n + 2) : (C \o A)[k] = IF k <= 4 * n THEN C[k] ELSE A[k - 4 * n]
  <2>1. /\ C \o A \in Seq(Statement)
        /\ Len(C \o A) = Len(C) + Len(A)
        /\ \A k \in 1..(Len(C) + Len(A)) : (C \o A)[k] = IF k <= Len(C) THEN C[k] ELSE A[k - Len(C)]
    BY <1>13, <1>14, ConcatProperties
  <2> QED
    BY <1>13, <1>14, <2>1
<1> DEFINE B == C \o A
           T == B \o S
<1> HIDE DEF B
<1>17. /\ T \in Seq(Statement)
       /\ Len(T) = 4 * n + 3
       /\ \A k \in 1..(4 * n + 3) : T[k] = IF k <= 4 * n + 2 THEN B[k] ELSE S[k - (4 * n + 2)]
  <2>1. /\ B \o S \in Seq(Statement)
        /\ Len(B \o S) = Len(B) + Len(S)
        /\ \A k \in 1..(Len(B) + Len(S)) : (B \o S)[k] = IF k <= Len(B) THEN B[k] ELSE S[k - Len(B)]
    BY <1>15, <1>16, ConcatProperties DEF B
  <2> QED
    BY <1>15, <1>16, <2>1 DEF B
<1>18. AddFile(id, [k \in 1..n |-> id + k], 1) = T
  BY DEF AddFile, parts, C, A, S, B
<1> HIDE DEF T
<1>19. DOMAIN T = 1..(4 * n + 3)
  BY <1>17
<1>20. \A k \in 1..(4 * n) : T[k] = C[k]
  BY <1>11, <1>16, <1>17 DEF B
<1>21. /\ T[4 * n + 1] = A[1] /\ T[4 * n + 2] = A[2] /\ T[4 * n + 3] = S[1]
  <2>1. /\ 4 * n + 1 \in 1..(4 * n + 2) /\ ~(4 * n + 1 <= 4 * n) /\ 4 * n + 1 - 4 * n = 1
        /\ 4 * n + 2 \in 1..(4 * n + 2) /\ ~(4 * n + 2 <= 4 * n) /\ 4 * n + 2 - 4 * n = 2
        /\ 4 * n + 3 \in 1..(4 * n + 3) /\ ~(4 * n + 3 <= 4 * n + 2) /\ 4 * n + 3 - (4 * n + 2) = 1
        /\ 4 * n + 1 \in 1..(4 * n + 3) /\ 4 * n + 1 <= 4 * n + 2
        /\ 4 * n + 2 \in 1..(4 * n + 3) /\ 4 * n + 2 <= 4 * n + 2
    BY <1>11
  <2>2. B[4 * n + 1] = A[1] /\ B[4 * n + 2] = A[2]
    BY <1>16, <2>1 DEF B
  <2> QED
    BY <1>17, <2>1, <2>2
<1>22. \A m \in 1..n :
          /\ T[4 * m - 3] = Do("insert", id + m, "content", 1)
          /\ T[4 * m - 2] = Do("insert", id + m, "meta", 1)
          /\ T[4 * m - 1] = Do("upsert", id + m, "content", 1)
          /\ T[4 * m] = Do("upsert", id + m, "meta", 1)
  BY <1>5, <1>7, <1>20
<1> QED
  BY <1>14, <1>15, <1>17, <1>18, <1>19, <1>21, <1>22 DEF FileAt

\* What kinds of statements a file has, and where.
FileHas(h, k, id, n) ==
    \/ \E m \in 1..n :
          /\ h.id = id + m /\ h.v = 1
          /\ \/ k = 4 * m - 3 /\ h.op = "insert" /\ h.slot = "content"
             \/ k = 4 * m - 2 /\ h.op = "insert" /\ h.slot = "meta"
             \/ k = 4 * m - 1 /\ h.op = "upsert" /\ h.slot = "content"
             \/ k = 4 * m /\ h.op = "upsert" /\ h.slot = "meta"
    \/ k = 4 * n + 1 /\ h.op = "list" /\ h.id = id /\ h.slot = "meta" /\ h.v = 1
    \/ k = 4 * n + 2 /\ h.op = "upsert" /\ h.id = id /\ h.slot = "meta" /\ h.v = 1
    \/ k = 4 * n + 3 /\ h.op = "sync" /\ h.slot = "none"

LEMMA FileCases ==
    ASSUME NEW n \in Nat, NEW id \in Nat, NEW T, FileAt(T, id, n), NEW k \in DOMAIN T
    PROVE  FileHas(T[k], k, id, n)
<1>1. k \in 1..(4 * n + 3)
  BY DEF FileAt
<1>2. CASE k > 4 * n
  <2>1. k \in {4 * n + 1, 4 * n + 2, 4 * n + 3}
    BY <1>1, <1>2
  <2> QED
    BY <2>1 DEF FileAt, Do, FileHas
<1>3. CASE ~(k > 4 * n)
  <2> DEFINE m == (k - 1) \div 4 + 1
  <2>1. m \in 1..n /\ k \in {4 * m - 3, 4 * m - 2, 4 * m - 1, 4 * m}
    BY <1>1, <1>3
  <2> HIDE DEF m
  <2>2. /\ T[4 * m - 3] = Do("insert", id + m, "content", 1)
        /\ T[4 * m - 2] = Do("insert", id + m, "meta", 1)
        /\ T[4 * m - 1] = Do("upsert", id + m, "content", 1)
        /\ T[4 * m] = Do("upsert", id + m, "meta", 1)
    BY <2>1 DEF FileAt
  <2> QED
    BY <2>1, <2>2 DEF Do, FileHas
<1> QED
  BY <1>2, <1>3

LEMMA FileIsSound ==
    ASSUME DocInv, NEW id \in Ids, Fresh(id), NEW n \in Nat, id..(id + n) \subseteq Ids
    PROVE  Sound(id..(id + n), AddFile(id, [k \in 1..n |-> id + k], 1), "embedded")
<1> DEFINE T == AddFile(id, [k \in 1..n |-> id + k], 1)
           ids == id..(id + n)
<1>1. FileAt(T, id, n)
  BY FilePlaces
<1> HIDE DEF T
<1>2. id \in Nat /\ 1 \in Versions /\ 1 # None
  BY DocumentsAssumption, One
<1>has. \A k \in DOMAIN T : FileHas(T[k], k, id, n)
  BY <1>1, <1>2, FileCases
<1>3. \A c \in ids : fate[c] = "unused"
  <2>1. fate[id] = "unused"
    BY DEF Fresh
  <2> SUFFICES ASSUME NEW c \in ids PROVE fate[c] = "unused"
    OBVIOUS
  <2>2. c = id \/ id < c
    BY <1>2
  <2> QED
    BY <2>1, <2>2 DEF DocInv, BusyInv
<1>4. ASSUME NEW i \in Ids, NEW j \in ids, i < j, fate[i] = "unused" PROVE i \in ids
  <2>1. i \in Nat /\ ~(i < id)
    BY <1>4, DocumentsAssumption DEF Fresh
  <2> QED
    BY <1>2, <1>4, <2>1
<1>5. T \in Seq(Statement) /\ DOMAIN T = 1..(4 * n + 3)
  BY <1>1 DEF FileAt
<1>6. \A m \in 1..n : id + m \in ids
  BY <1>2
<1>7. id \in ids
  BY <1>2
<1>8. \A k \in DOMAIN T : Proper(T[k], ids, "embedded")
  <2> SUFFICES ASSUME NEW k \in DOMAIN T PROVE Proper(T[k], ids, "embedded")
    OBVIOUS
  <2> HIDE DEF ids
  <2> QED
    BY <1>2, <1>6, <1>7, <1>has DEF FileHas, Proper, Deletion, Slots
<1>9. \A m \in 1..n :
         /\ 4 * m - 3 \in DOMAIN T /\ T[4 * m - 3] = Do("insert", id + m, "content", 1)
         /\ 4 * m - 2 \in DOMAIN T /\ T[4 * m - 2] = Do("insert", id + m, "meta", 1)
         /\ 4 * m - 1 \in DOMAIN T /\ T[4 * m - 1] = Do("upsert", id + m, "content", 1)
         /\ 4 * m \in DOMAIN T /\ T[4 * m] = Do("upsert", id + m, "meta", 1)
  <2> SUFFICES ASSUME NEW m \in 1..n
               PROVE  /\ 4 * m - 3 \in DOMAIN T /\ T[4 * m - 3] = Do("insert", id + m, "content", 1)
                      /\ 4 * m - 2 \in DOMAIN T /\ T[4 * m - 2] = Do("insert", id + m, "meta", 1)
                      /\ 4 * m - 1 \in DOMAIN T /\ T[4 * m - 1] = Do("upsert", id + m, "content", 1)
                      /\ 4 * m \in DOMAIN T /\ T[4 * m] = Do("upsert", id + m, "meta", 1)
    OBVIOUS
  <2>1. /\ 4 * m - 3 \in 1..(4 * n + 3) /\ 4 * m - 2 \in 1..(4 * n + 3)
        /\ 4 * m - 1 \in 1..(4 * n + 3) /\ 4 * m \in 1..(4 * n + 3)
    OBVIOUS
  <2> QED
    BY <1>1, <1>5, <2>1 DEF FileAt
<1>10. \A c \in ids : c = id \/ \E m \in 1..n : c = id + m
  <2> SUFFICES ASSUME NEW c \in ids, c # id PROVE \E m \in 1..n : c = id + m
    OBVIOUS
  <2>1. c - id \in 1..n /\ c = id + (c - id)
    BY <1>2
  <2> QED
    BY <2>1
<1>11. ids \subseteq Ids
  OBVIOUS
<1> HIDE DEF ids
<1>12. ASSUME NEW k \in DOMAIN T, NEW i \in Ids, Writes(T[k], i, "meta")
       PROVE  /\ fate[i] = "unused"
              /\ \A j \in DOMAIN T : Writes(T[j], i, "meta") => j = k
  <2>1. fate[i] = "unused"
    BY <1>3, <1>8, <1>12 DEF Writes, Proper
  <2>2. ASSUME NEW j \in DOMAIN T, Writes(T[j], i, "meta")
        PROVE  (j = 4 * n + 1 /\ i = id) \/ \E m \in 1..n : j = 4 * m - 2 /\ i = id + m
    BY <1>2, <2>2, <1>has DEF FileHas, Writes
  <2>3. (k = 4 * n + 1 /\ i = id) \/ \E m \in 1..n : k = 4 * m - 2 /\ i = id + m
    BY <1>12, <2>2
  <2>4. ASSUME NEW j \in DOMAIN T, Writes(T[j], i, "meta") PROVE j = k
    <3>1. (j = 4 * n + 1 /\ i = id) \/ \E m \in 1..n : j = 4 * m - 2 /\ i = id + m
      BY <2>2, <2>4
    <3> QED
      BY <1>2, <2>3, <3>1
  <2> QED
    BY <2>1, <2>4
<1>13. \A k \in DOMAIN T : T[k].op # "drop"
  <2> SUFFICES ASSUME NEW k \in DOMAIN T PROVE T[k].op # "drop"
    OBVIOUS
  <2> QED
    BY <1>2, <1>has DEF FileHas
<1>list. \A k \in DOMAIN T : T[k].op = "list" => k = 4 * n + 1 /\ T[k].id = id
  <2> SUFFICES ASSUME NEW k \in DOMAIN T, T[k].op = "list"
               PROVE  k = 4 * n + 1 /\ T[k].id = id
    OBVIOUS
  <2> QED
    BY <1>2, <1>has DEF FileHas
<1>14. ASSUME NEW k \in DOMAIN T, NEW i \in Ids, Embeds(T[k], i, "content")
       PROVE  \E j \in DOMAIN T : j < k /\ Writes(T[j], i, "content")
  <2>1. \E m \in 1..n : k = 4 * m - 1 /\ i = id + m
    BY <1>2, <1>14, <1>has DEF FileHas, Embeds, On
  <2>2. PICK m \in 1..n : k = 4 * m - 1 /\ i = id + m
    BY <2>1
  <2>3. 4 * m - 3 \in DOMAIN T /\ T[4 * m - 3] = Do("insert", i, "content", 1)
    BY <1>9, <2>2
  <2>4. 4 * m - 3 < k
    BY <2>2
  <2> QED
    BY <2>3, <2>4 DEF Writes, Do
<1>15. ASSUME NEW c \in ids, NEW slot \in Slots
       PROVE  EndsEmbedded(T, rows, vectors, c, slot)
  <2>1. ASSUME NEW k \in DOMAIN T, On(T[k], id, slot)
        PROVE  slot = "meta" /\ k \in {4 * n + 1, 4 * n + 2}
    BY <1>2, <2>1, <1>has DEF FileHas, On, Slots, None
  <2>2. CASE c = id /\ slot = "meta"
    <3>1. /\ 4 * n + 1 \in DOMAIN T /\ Writes(T[4 * n + 1], id, slot) /\ T[4 * n + 1].v = 1
          /\ 4 * n + 2 \in DOMAIN T /\ Embeds(T[4 * n + 2], id, slot) /\ T[4 * n + 2].v = 1
      BY <1>1, <1>5, <2>2 DEF FileAt, Do, Writes, Embeds, On
    <3>2. /\ \A j \in DOMAIN T : j > 4 * n + 2 => ~On(T[j], id, slot)
          /\ \A j \in DOMAIN T : j < 4 * n + 2 /\ On(T[j], id, slot) => j = 4 * n + 1
      BY <2>1
    <3>3. 4 * n + 1 < 4 * n + 2
      OBVIOUS
    <3> QED
      BY <2>2, <3>1, <3>2, <3>3 DEF EndsEmbedded
  <2>3. CASE c = id /\ slot = "content"
    <3>1. \A k \in DOMAIN T : ~On(T[k], id, slot)
      BY <2>1, <2>3
    <3>2. vectors[<<id, slot>>] = rows[<<id, slot>>]
      BY <1>3, <1>7, FreshUnused
    <3> QED
      BY <2>3, <3>1, <3>2 DEF EndsEmbedded
  <2>4. ASSUME NEW m \in 1..n, c = id + m PROVE EndsEmbedded(T, rows, vectors, c, slot)
    <3>0. /\ 4 * m - 3 \in DOMAIN T /\ T[4 * m - 3] = Do("insert", c, "content", 1)
          /\ 4 * m - 2 \in DOMAIN T /\ T[4 * m - 2] = Do("insert", c, "meta", 1)
          /\ 4 * m - 1 \in DOMAIN T /\ T[4 * m - 1] = Do("upsert", c, "content", 1)
          /\ 4 * m \in DOMAIN T /\ T[4 * m] = Do("upsert", c, "meta", 1)
      BY <1>9, <2>4
    <3>1. ASSUME NEW k \in DOMAIN T, On(T[k], c, slot)
          PROVE  IF slot = "content" THEN k \in {4 * m - 3, 4 * m - 1}
                 ELSE k \in {4 * m - 2, 4 * m}
      <4>1. T[k].op = "sync" => T[k].slot = "none"
        BY <1>2, <1>has DEF FileHas
      <4>2. slot \in {"meta", "content"}
        BY DEF Slots
      <4>3. \A l \in 1..n : id + l = id + m => l = m
        BY <1>2
      <4>4. id # id + m
        BY <1>2
      <4>5. T[k].id = c /\ T[k].slot \in {slot, "both"}
        BY <3>1 DEF On
      <4> QED
        BY <1>2, <1>has, <2>4, <4>1, <4>2, <4>3, <4>4, <4>5 DEF FileHas
    <3>2. CASE slot = "content"
      <4>1. /\ 4 * m - 3 \in DOMAIN T /\ Writes(T[4 * m - 3], c, slot) /\ T[4 * m - 3].v = 1
            /\ 4 * m - 1 \in DOMAIN T /\ Embeds(T[4 * m - 1], c, slot) /\ T[4 * m - 1].v = 1
        BY <3>0, <3>2 DEF Writes, Embeds, On, Do
      <4>2. /\ \A j \in DOMAIN T : j > 4 * m - 1 => ~On(T[j], c, slot)
            /\ \A j \in DOMAIN T : j < 4 * m - 1 /\ On(T[j], c, slot) => j = 4 * m - 3
        BY <3>1, <3>2
      <4>3. 4 * m - 3 < 4 * m - 1
        OBVIOUS
      <4> QED
        BY <4>1, <4>2, <4>3 DEF EndsEmbedded
    <3>3. CASE slot = "meta"
      <4>1. /\ 4 * m - 2 \in DOMAIN T /\ Writes(T[4 * m - 2], c, slot) /\ T[4 * m - 2].v = 1
            /\ 4 * m \in DOMAIN T /\ Embeds(T[4 * m], c, slot) /\ T[4 * m].v = 1
        BY <3>0, <3>3 DEF Writes, Embeds, On, Do
      <4>2. /\ \A j \in DOMAIN T : j > 4 * m => ~On(T[j], c, slot)
            /\ \A j \in DOMAIN T : j < 4 * m /\ On(T[j], c, slot) => j = 4 * m - 2
        BY <3>1, <3>3
      <4>3. 4 * m - 2 < 4 * m
        OBVIOUS
      <4> QED
        BY <4>1, <4>2, <4>3 DEF EndsEmbedded
    <3> QED
      BY <3>2, <3>3 DEF Slots
  <2> QED
    BY <1>10, <2>2, <2>3, <2>4 DEF Slots
<1>16. ASSUME NEW k \in DOMAIN T, T[k].op = "list", NEW c \in ids \ {T[k].id}, NEW slot \in Slots
       PROVE  \E j \in DOMAIN T : j < k /\ Writes(T[j], c, slot)
  <2>1. k = 4 * n + 1 /\ T[k].id = id
    BY <1>list, <1>16
  <2>2. PICK m \in 1..n : c = id + m
    BY <1>10, <1>16, <2>1
  <2>3. /\ 4 * m - 3 \in DOMAIN T /\ T[4 * m - 3] = Do("insert", c, "content", 1)
        /\ 4 * m - 2 \in DOMAIN T /\ T[4 * m - 2] = Do("insert", c, "meta", 1)
    BY <1>9, <2>2
  <2>4. 4 * m - 3 < k /\ 4 * m - 2 < k
    BY <2>1
  <2>5. Writes(T[4 * m - 3], c, "content") /\ Writes(T[4 * m - 2], c, "meta")
    BY <2>3 DEF Writes, Do
  <2> QED
    BY <2>3, <2>4, <2>5 DEF Slots
<1>17. Sound(ids, T, "embedded")
  BY <1>3, <1>4, <1>5, <1>8, <1>11, <1>12, <1>13, <1>14, <1>15, <1>16 DEF Sound, Drops
<1> QED
  BY <1>17 DEF ids, T

LEMMA ReindexIsSound ==
    ASSUME DocInv, NEW order \in Bijection(1..Cardinality(Listed), Listed)
    PROVE  Sound(Listed, Reindex(order), "embedded")
<1> DEFINE n == Cardinality(Listed)
           ids == Listed
           C == [k \in 1..(2 * Len(order)) |->
                   LET id == order[(k - 1) \div 2 + 1]
                   IN  IF k % 2 = 1 THEN Do("upsert", id, "meta", rows[<<id, "meta">>])
                       ELSE Do("read", id, "content", None)]
           S == << Do("sync", None, "none", None) >>
           T == C \o S
<1>1. n \in Nat /\ ids \subseteq Ids
  <2>1. ids \subseteq Ids
    BY DEF Listed
  <2> QED
    BY <2>1, DocumentsAssumption, FS_Subset, FS_CardinalityType
<1>2. /\ order \in [1..n -> ids]
      /\ \A a, b \in 1..n : order[a] = order[b] => a = b
      /\ \A id \in ids : \E m \in 1..n : order[m] = id
  BY DEF Bijection, Injection, Surjection, IsInjective
<1>3. \A id \in ids : /\ id \in Ids /\ rows[<<id, "meta">>] # None
                      /\ \A i \in Ids : i < id => fate[i] # "unused"
  BY ListedUsed
<1>4. \A id \in ids : rows[<<id, "meta">>] \in Versions \cup {None}
  BY <1>1 DEF DocInv, Typed, Index, Slots
<1>5. Reindex(order) = T
  BY DEF Reindex
<1> HIDE DEF n, ids
<1>6. Len(order) = n
  BY <1>1, <1>2
<1>7. ASSUME NEW m \in 1..n
      PROVE  /\ 2 * m - 1 \in 1..(2 * n) /\ 2 * m \in 1..(2 * n)
             /\ C[2 * m - 1] = Do("upsert", order[m], "meta", rows[<<order[m], "meta">>])
             /\ C[2 * m] = Do("read", order[m], "content", None)
  <2> DEFINE At2(k) == LET id == order[(k - 1) \div 2 + 1]
                       IN  IF k % 2 = 1 THEN Do("upsert", id, "meta", rows[<<id, "meta">>])
                           ELSE Do("read", id, "content", None)
  <2>1. \A k \in 1..(2 * n) : C[k] = At2(k)
    BY <1>6
  <2>2. /\ (2 * m - 1 - 1) \div 2 + 1 = m /\ (2 * m - 1) % 2 = 1
        /\ (2 * m - 1) \div 2 + 1 = m /\ (2 * m) % 2 = 0
        /\ 2 * m - 1 \in 1..(2 * n) /\ 2 * m \in 1..(2 * n)
    BY <1>1
  <2>3. /\ At2(2 * m - 1) = Do("upsert", order[m], "meta", rows[<<order[m], "meta">>])
        /\ At2(2 * m) = Do("read", order[m], "content", None)
    BY <2>2
  <2> HIDE DEF At2, C
  <2> QED
    BY <2>1, <2>2, <2>3
<1>8. DOMAIN C = 1..(2 * n) /\ C = [k \in 1..(2 * n) |-> C[k]]
  BY <1>6
<1> HIDE DEF C
<1>9. ASSUME NEW k \in 1..(2 * n)
      PROVE  \E m \in 1..n : k = 2 * m - 1 \/ k = 2 * m
  <2>1. (k - 1) \div 2 + 1 \in 1..n
    BY <1>1
  <2>2. k = 2 * ((k - 1) \div 2 + 1) - 1 \/ k = 2 * ((k - 1) \div 2 + 1)
    BY <1>1
  <2> QED
    BY <2>1, <2>2
<1>10. ASSUME NEW k \in 1..(2 * n) PROVE C[k] \in Statement
  <2>1. PICK m \in 1..n : k = 2 * m - 1 \/ k = 2 * m
    BY <1>9
  <2>2. order[m] \in Ids /\ rows[<<order[m], "meta">>] \in Versions \cup {None}
    BY <1>2, <1>3, <1>4
  <2>3. /\ Do("upsert", order[m], "meta", rows[<<order[m], "meta">>]) \in Statement
        /\ Do("read", order[m], "content", None) \in Statement
    BY <2>2 DEF Do, Statement, Ops, Slots
  <2> QED
    BY <1>7, <2>1, <2>3
<1>11. C \in Seq(Statement) /\ Len(C) = 2 * n
  BY <1>1, <1>8, <1>10
<1>12. S \in Seq(Statement) /\ Len(S) = 1 /\ S[1] = Do("sync", None, "none", None)
  BY DEF Do, Statement, Ops
<1> HIDE DEF S
<1>13. /\ T \in Seq(Statement) /\ Len(T) = 2 * n + 1
       /\ \A k \in 1..(2 * n + 1) : T[k] = IF k <= 2 * n THEN C[k] ELSE S[k - 2 * n]
  <2>1. /\ C \o S \in Seq(Statement)
        /\ Len(C \o S) = Len(C) + Len(S)
        /\ \A k \in 1..(Len(C) + Len(S)) : (C \o S)[k] = IF k <= Len(C) THEN C[k] ELSE S[k - Len(C)]
    BY <1>11, <1>12, ConcatProperties
  <2> QED
    BY <1>11, <1>12, <2>1
<1> HIDE DEF T
<1>14. DOMAIN T = 1..(2 * n + 1)
  BY <1>13
<1>15. ASSUME NEW m \in 1..n
       PROVE  /\ 2 * m - 1 \in DOMAIN T /\ T[2 * m - 1].op = "upsert" /\ T[2 * m - 1].id = order[m]
              /\ T[2 * m - 1].slot = "meta" /\ T[2 * m - 1].v = rows[<<order[m], "meta">>]
              /\ 2 * m \in DOMAIN T /\ T[2 * m].op = "read" /\ T[2 * m].id = order[m]
              /\ T[2 * m].slot = "content"
  <2>1. /\ 2 * m - 1 \in 1..(2 * n + 1) /\ 2 * m - 1 <= 2 * n
        /\ 2 * m \in 1..(2 * n + 1) /\ 2 * m <= 2 * n
    BY <1>1
  <2>2. /\ T[2 * m - 1] = Do("upsert", order[m], "meta", rows[<<order[m], "meta">>])
        /\ T[2 * m] = Do("read", order[m], "content", None)
    BY <1>7, <1>13, <2>1
  <2> QED
    BY <1>14, <2>1, <2>2 DEF Do
<1>16. T[2 * n + 1].op = "sync" /\ T[2 * n + 1].slot = "none"
  <2>1. 2 * n + 1 \in 1..(2 * n + 1) /\ ~(2 * n + 1 <= 2 * n) /\ 2 * n + 1 - 2 * n = 1
    BY <1>1
  <2>2. ASSUME NEW k \in 1..(2 * n + 1), ~(k <= 2 * n) PROVE T[k] = S[1]
    <3>1. T[k] = S[k - 2 * n]
      BY <1>13, <2>2
    <3>2. k - 2 * n = 1
      BY <1>1, <2>2
    <3> QED
      BY <3>1, <3>2
  <2>3. T[2 * n + 1] = Do("sync", None, "none", None)
    BY <1>12, <2>1, <2>2
  <2> QED
    BY <2>3 DEF Do
<1>17. ASSUME NEW k \in DOMAIN T
       PROVE  \/ k = 2 * n + 1 /\ T[k].op = "sync" /\ T[k].slot = "none"
              \/ \E m \in 1..n :
                    \/ k = 2 * m - 1 /\ T[k].op = "upsert" /\ T[k].id = order[m] /\ T[k].slot = "meta"
                    \/ k = 2 * m /\ T[k].op = "read" /\ T[k].id = order[m] /\ T[k].slot = "content"
  <2>1. CASE k = 2 * n + 1
    BY <1>16, <2>1
  <2>2. CASE k \in 1..(2 * n)
    <3>1. PICK m \in 1..n : k = 2 * m - 1 \/ k = 2 * m
      BY <1>9, <2>2
    <3>2. /\ T[2 * m - 1].op = "upsert" /\ T[2 * m - 1].id = order[m] /\ T[2 * m - 1].slot = "meta"
          /\ T[2 * m].op = "read" /\ T[2 * m].id = order[m] /\ T[2 * m].slot = "content"
      BY <1>15
    <3>3. CASE k = 2 * m - 1
      BY <3>2, <3>3
    <3>4. CASE k = 2 * m
      BY <3>2, <3>4
    <3> QED
      BY <3>1, <3>3, <3>4
  <2> QED
    BY <1>1, <1>14, <2>1, <2>2
<1>18. ASSUME NEW k \in DOMAIN T PROVE Proper(T[k], ids, "embedded")
  <2>1. CASE T[k].op = "sync"
    BY <2>1 DEF Proper, Deletion
  <2>2. CASE T[k].op \in {"upsert", "read"} /\ T[k].id \in ids /\ T[k].slot \in Slots
    BY <2>2 DEF Proper, Deletion
  <2> QED
    BY <1>2, <1>17, <2>1, <2>2 DEF Slots
<1>19. \A k \in DOMAIN T : T[k].op \in {"sync", "upsert", "read"} /\ (T[k].op = "upsert" => T[k].slot = "meta")
  BY <1>17
<1>20. ASSUME NEW m \in 1..n, NEW k \in DOMAIN T, NEW slot \in Slots, On(T[k], order[m], slot),
              T[k].op # "sync"
       PROVE  k = IF slot = "meta" THEN 2 * m - 1 ELSE 2 * m
  <2>1. PICK l \in 1..n :
          \/ k = 2 * l - 1 /\ T[k].id = order[l] /\ T[k].slot = "meta"
          \/ k = 2 * l /\ T[k].id = order[l] /\ T[k].slot = "content"
    BY <1>17, <1>20
  <2>2. T[k].id = order[l]
    BY <2>1
  <2>3. l = m
    BY <1>2, <1>20, <2>2 DEF On
  <2> QED
    BY <1>20, <2>1, <2>2, <2>3 DEF On, Slots
<1>21. \A k \in DOMAIN T : T[k].op = "sync" => k = 2 * n + 1 /\ T[k].slot = "none"
  BY <1>17
<1>22. ASSUME NEW id \in ids, NEW slot \in Slots
       PROVE  EndsEmbedded(T, rows, vectors, id, slot)
  <2>1. PICK m \in 1..n : order[m] = id
    BY <1>2
  <2>2. ASSUME NEW k \in DOMAIN T, On(T[k], id, slot)
        PROVE  k = IF slot = "meta" THEN 2 * m - 1 ELSE 2 * m
    <3>1. T[k].op # "sync"
      BY <1>21, <2>2 DEF On, Slots
    <3> QED
      BY <1>20, <2>1, <2>2, <3>1
  <2>3. /\ 2 * m - 1 \in DOMAIN T /\ T[2 * m - 1].op = "upsert" /\ T[2 * m - 1].id = id
        /\ T[2 * m - 1].slot = "meta" /\ T[2 * m - 1].v = rows[<<id, "meta">>]
        /\ 2 * m \in DOMAIN T /\ T[2 * m].op = "read" /\ T[2 * m].id = id
        /\ T[2 * m].slot = "content"
    BY <1>15, <2>1
  <2>4. CASE slot = "meta"
    <3>1. /\ Embeds(T[2 * m - 1], id, slot)
          /\ \A j \in DOMAIN T : On(T[j], id, slot) => j = 2 * m - 1
          /\ rows[<<id, slot>>] = T[2 * m - 1].v
      BY <2>2, <2>3, <2>4 DEF Embeds, On
    <3> QED
      BY <1>1, <2>3, <3>1 DEF EndsEmbedded
  <2>5. CASE slot = "content"
    <3>1. /\ Reads(T[2 * m], id, slot)
          /\ \A j \in DOMAIN T : On(T[j], id, slot) => j = 2 * m
          /\ rows[<<id, "meta">>] # None
      BY <1>3, <2>2, <2>3, <2>5 DEF Reads, Slots
    <3> QED
      BY <1>1, <2>3, <3>1 DEF EndsEmbedded
  <2> QED
    BY <2>4, <2>5 DEF Slots
<1>23. \A i \in Ids, j \in ids : i < j /\ fate[i] = "unused" => i \in ids
  BY <1>3
<1>24. Sound(ids, T, "embedded")
  BY <1>1, <1>3, <1>13, <1>18, <1>19, <1>22, <1>23 DEF Sound, Writes, Drops, Embeds, On
<1> QED
  BY <1>5, <1>24 DEF ids

-----------------------------------------------------------------------------
(* The theorems. *)

LEMMA BeginKeepsDoc ==
    ASSUME DocInv, NEW w \in Workers,
           BeginAdd(w) \/ BeginUpdate(w) \/ BeginDelete(w) \/ BeginReindex(w) \/ BeginSync(w)
    PROVE  DocInv'
<1>1. ASSUME NEW ids, NEW T, NEW end, Take(w, ids, T, end), Sound(ids, T, end),
             end # "deleted", doomed' = doomed
      PROVE  DocInv'
  BY <1>1, TakeKeepsDoc
<1>2. CASE BeginAdd(w)
  <2>1. PICK id \in Ids :
          /\ Fresh(id) /\ doomed' = doomed
          /\ \/ Take(w, {id}, AddDocument(id, 1), "embedded")
             \/ Take(w, {id}, AddWithVectors(id, 1), "embedded")
             \/ Take(w, {id}, AddThenEmbed(id, 1), "embedded")
             \/ \E n \in 0..MaxChunks :
                   /\ id..(id + n) \subseteq Ids
                   /\ Take(w, id..(id + n), AddFile(id, [k \in 1..n |-> id + k], 1), "embedded")
    BY <1>2 DEF BeginAdd
  <2>2. /\ Sound({id}, AddDocument(id, 1), "embedded")
        /\ Sound({id}, AddThenEmbed(id, 1), "embedded")
        /\ Sound({id}, AddWithVectors(id, 1), "embedded")
    BY <2>1, AddIsSound
  <2>3. ASSUME NEW n \in 0..MaxChunks, id..(id + n) \subseteq Ids,
               Take(w, id..(id + n), AddFile(id, [k \in 1..n |-> id + k], 1), "embedded")
        PROVE  DocInv'
    <3>1. n \in Nat
      BY DocumentsAssumption
    <3>2. Sound(id..(id + n), AddFile(id, [k \in 1..n |-> id + k], 1), "embedded")
      BY <2>1, <2>3, <3>1, FileIsSound
    <3> QED
      BY <1>1, <2>1, <2>3, <3>2
  <2> QED
    BY <1>1, <2>1, <2>2, <2>3
<1>3. CASE BeginUpdate(w)
  <2>1. PICK id \in Listed, slot \in Slots : \E v \in (rows[<<id, slot>>] + 1)..MaxVersion :
          /\ \/ Take(w, {id}, Update(id, slot, v), "stale")
             \/ Take(w, {id}, Revise(id, slot, v), "embedded")
          /\ doomed' = doomed
    BY <1>3 DEF BeginUpdate
  <2>2. PICK v \in (rows[<<id, slot>>] + 1)..MaxVersion :
          /\ \/ Take(w, {id}, Update(id, slot, v), "stale")
             \/ Take(w, {id}, Revise(id, slot, v), "embedded")
          /\ doomed' = doomed
    BY <2>1
  <2>3. /\ Sound({id}, Update(id, slot, v), "stale")
        /\ Sound({id}, Revise(id, slot, v), "embedded")
    BY UpdateIsSound
  <2> QED
    BY <1>1, <2>2, <2>3
<1>4. CASE BeginDelete(w)
  <2>1. PICK id \in Listed : /\ Take(w, {id}, Delete(id), "deleted")
                             /\ doomed' = doomed \cup {id}
    BY <1>4 DEF BeginDelete
  <2>2. Sound({id}, Delete(id), "deleted")
    BY DeleteIsSound
  <2> QED
    BY <2>1, <2>2, TakeKeepsDoc
<1>5. CASE BeginReindex(w)
  <2>1. PICK order \in Bijection(1..Cardinality(Listed), Listed) :
          Take(w, Listed, Reindex(order), "embedded") /\ doomed' = doomed
    BY <1>5 DEF BeginReindex
  <2>2. Sound(Listed, Reindex(order), "embedded")
    BY ReindexIsSound
  <2> QED
    BY <1>1, <2>1, <2>2
<1>6. CASE BeginSync(w)
  BY <1>1, <1>6, SyncIsSound DEF BeginSync
<1> QED
  BY <1>2, <1>3, <1>4, <1>5, <1>6

LEMMA DocInit == Init => DocInv
<1> SUFFICES ASSUME Init PROVE DocInv
  OBVIOUS
<1>1. /\ rows = [e \in Ids \X Slots |-> None] /\ vectors = rows /\ saved = rows
      /\ chunks = [id \in Ids |-> {}] /\ frequency = {}
      /\ work = [w \in Workers |-> Idle] /\ fate = [id \in Ids |-> "unused"]
      /\ kept = {} /\ mixed = {} /\ doomed = {}
  BY DEF Init
<1>2. \A w \in Workers : /\ work[w].ids = {} /\ work[w].fate = "unused"
                         /\ DOMAIN work[w].todo = {}
  BY <1>1, IdleJob
<1>3. work \in [Workers -> Job]
  BY <1>1, IdleJob
<1>4. Typed
  BY <1>1, <1>3 DEF Typed, Index, Fates
<1>5. \A id \in Ids, slot \in Slots :
         rows[<<id, slot>>] = None /\ vectors[<<id, slot>>] = None /\ saved[<<id, slot>>] = None
  BY <1>1
<1>6. \A id \in Ids : fate[id] = "unused" /\ chunks[id] = {}
  BY <1>1
<1>7. CallsInv /\ BusyInv
  BY <1>1, <1>2, <1>5, <1>6 DEF CallsInv, BusyInv
<1>8. StoreInv /\ DropInv
  BY <1>2 DEF StoreInv, DropInv
<1>9. ContentInv /\ OutcomeInv
  BY <1>2, <1>5 DEF ContentInv, OutcomeInv, Sole, Slots
<1>10. ChunkInv /\ FoundInv
  BY <1>2, <1>6 DEF ChunkInv, RecordsHaveTheirChunks, FoundInv, EmbeddedIsFound, DeletedIsGone
<1> QED
  BY <1>4, <1>7, <1>8, <1>9, <1>10 DEF DocInv

LEMMA DocNext == DocInv /\ [Next]_vars => DocInv'
<1> SUFFICES ASSUME DocInv, [Next]_vars PROVE DocInv'
  OBVIOUS
<1>1. ASSUME NEW w \in Workers,
             BeginAdd(w) \/ BeginUpdate(w) \/ BeginDelete(w) \/ BeginReindex(w) \/ BeginSync(w)
      PROVE  DocInv'
  BY <1>1, BeginKeepsDoc
<1>2. ASSUME NEW w \in Workers,
             \/ InsertRow(w) \/ InsertRecord(w) \/ UpdateRow(w) \/ DropRow(w)
             \/ Upsert(w) \/ RemoveVector(w) \/ ReadRow(w) \/ Count(w) \/ Sync(w)
      PROVE  DocInv'
  <2>1. Stepped(w)
    BY <1>2, StatementSteps DEF DocInv
  <2> QED
    BY <2>1, StepKeepsDoc
<1>3. ASSUME NEW w \in Workers, Fail(w) PROVE DocInv'
  BY <1>3, FailKeepsDoc
<1>4. CASE Restart
  BY <1>4, RestartKeepsDoc
<1>5. CASE UNCHANGED vars
  BY <1>5 DEF vars, stores, history, DocInv, Typed, CallsInv, BusyInv, StoreInv, DropInv, ContentInv,
              OutcomeInv, ChunkInv, FoundInv, Alive, Busy, Sole, EmbeddedIsFound, DeletedIsGone,
              RecordsHaveTheirChunks, Current, Absent
<1> QED
  BY <1>1, <1>2, <1>3, <1>4, <1>5 DEF Next

LEMMA DocAlways == Spec => []DocInv
BY DocInit, DocNext, PTL DEF Spec

\* Whatever calls interleave, fail or are cut off by crashes: after an add, a
\* re-embedding or a reindex that had a document to itself, the index has what
\* is stored of it, on disk too once a sync has come after that.
THEOREM WhatWasEmbeddedIsFound == Spec => []EmbeddedIsFound
BY DocAlways, PTL DEF DocInv, FoundInv

\* After a deletion that had a document to itself nothing of it is left in the
\* rows, the counters or the index, on disk either once a sync has come after.
THEOREM WhatWasDeletedIsGone == Spec => []DeletedIsGone
BY DocAlways, PTL DEF DocInv, FoundInv

\* A file's record never lists a chunk that is not stored, unless somebody
\* asked for the deletion of that chunk.
THEOREM FilesHaveTheirChunks == Spec => []RecordsHaveTheirChunks
BY DocAlways, PTL DEF DocInv, ChunkInv

-----------------------------------------------------------------------------
(* The chunks of a file (Chunking): every text is covered by bounded        *)
(* chunks, whatever the lengths of its atoms, the chunk size and overlap.   *)

\* The window begins in the last chunk and has its new atoms after it; win_len
\* is its length, and too long only with a single new atom.
WindowInv ==
    /\ win_start <= overlap_end /\ overlap_end <= win_end
    /\ win_len = Ends[win_end] - Ends[win_start]
    /\ Ends[overlap_end] - Ends[win_start] <= overlap_chars
    /\ win_len <= text.max_chars \/ win_end = overlap_end + 1

\* What the window and the tail have to do with the last chunk.
LastInv ==
    LET last == packed[Len(packed)] IN
    /\ packed = <<>> => /\ win_start = 0 /\ overlap_end = 0
                        /\ pc # "slide"
                        /\ pc = "done" => Atoms = 0
    /\ pc = "extend" => win_end > overlap_end \/ win_end < Atoms
    /\ pc = "extend" /\ packed # <<>> =>
          /\ overlap_end = last.to
          /\ last.from < win_start
    /\ pc = "slide" =>
          /\ last.from = win_start /\ last.to = win_end /\ win_end < Atoms
          /\ win_start < new_start /\ new_start <= win_end
          /\ kept_len = Ends[win_end] - Ends[new_start]
          /\ kept_len <= overlap_chars
    /\ pc = "done" /\ packed # <<>> => last.to = Atoms

SplitInv == SplitTypeOK /\ WindowInv /\ LastInv /\ TextIsCovered /\ ChunksAreBounded

\* What a text is.
LEMMA TextIsInput ==
    ASSUME text \in Inputs
    PROVE  /\ Atoms \in Nat /\ Ends \in [0..Atoms -> Nat] /\ Ends[0] = 0
           /\ \A i \in 0..(Atoms - 1) : Len1(i) \in Nat \ {0}
           /\ text.max_chars \in Nat \ {0} /\ text.overlap \in Nat
           /\ overlap_chars \in Nat /\ overlap_chars < text.max_chars
<1>1. /\ Atoms \in Nat /\ Ends \in [0..Atoms -> Nat] /\ Ends[0] = 0
      /\ text.max_chars \in Nat \ {0} /\ text.overlap \in Nat
      /\ \A i \in 1..Atoms : Ends[i - 1] < Ends[i]
    BY InputsAssumption DEF Atoms, Ends
<1>2. ASSUME NEW i \in 0..(Atoms - 1)
      PROVE  Len1(i) \in Nat \ {0}
    <2>1. i + 1 \in 1..Atoms /\ i \in 0..Atoms /\ i + 1 \in 0..Atoms /\ (i + 1) - 1 = i
        BY <1>1
    <2>2. Ends[i] < Ends[i + 1] /\ Ends[i] \in Nat /\ Ends[i + 1] \in Nat
        BY <1>1, <2>1
    <2> QED BY <2>2 DEF Len1
<1>3. overlap_chars \in Nat /\ overlap_chars < text.max_chars
    BY <1>1 DEF overlap_chars
<1> QED BY <1>1, <1>2, <1>3

\* The invariant holds before the first atom is looked at.
LEMMA SplitInitInv == SplitInit => SplitInv
<1> SUFFICES ASSUME SplitInit PROVE SplitInv
    OBVIOUS
<1>1. /\ Atoms \in Nat /\ Ends[0] \in Nat /\ overlap_chars \in Nat /\ text.max_chars \in Nat
    BY TextIsInput DEF SplitInit
<1>2. packed = <<>> /\ Len(packed) = 0 /\ text \in Inputs
    BY DEF SplitInit
<1>3. SplitTypeOK
    BY <1>1, <1>2 DEF SplitTypeOK, SplitInit
<1>4. WindowInv
    BY <1>1 DEF WindowInv, SplitInit
<1>5. LastInv
    BY <1>1, <1>2 DEF LastInv, SplitInit
<1>6. TextIsCovered /\ ChunksAreBounded
    BY <1>1, <1>2 DEF TextIsCovered, ChunksAreBounded, SplitInit
<1> QED BY <1>3, <1>4, <1>5, <1>6 DEF SplitInv

\* Taking an atom in lengthens the window by it.
LEMMA ExtendInv == SplitInv /\ Extend => SplitInv'
<1> SUFFICES ASSUME SplitInv, Extend PROVE SplitInv'
    OBVIOUS
<1>1. /\ text' = text /\ Atoms' = Atoms /\ Ends' = Ends /\ overlap_chars' = overlap_chars
      /\ packed' = packed /\ pc' = pc /\ pc = "extend"
      /\ win_start' = win_start /\ overlap_end' = overlap_end /\ new_start' = new_start
      /\ win_end' = win_end + 1 /\ win_len' = win_len + Len1(win_end)
      /\ kept_len' = kept_len
    BY DEF Extend, window, slide, Atoms, Ends, overlap_chars
<1>2. /\ Atoms \in Nat /\ Ends \in [0..Atoms -> Nat] /\ Len1(win_end) \in Nat
      /\ win_start \in 0..Atoms /\ win_end \in 0..(Atoms - 1) /\ overlap_end \in 0..Atoms
      /\ win_len \in Nat /\ text.max_chars \in Nat /\ overlap_chars \in Nat
    BY TextIsInput DEF SplitInv, SplitTypeOK, Extend
<1>3. SplitTypeOK'
    BY <1>1, <1>2 DEF SplitInv, SplitTypeOK
<1>4. WindowInv'
    <2>1. Ends[win_start] \in Nat /\ Ends[win_end] \in Nat /\ Ends[win_end + 1] \in Nat
        BY <1>2
    <2>2. win_len' = Ends[win_end + 1] - Ends[win_start]
        <3>1. win_len = Ends[win_end] - Ends[win_start]
            BY DEF SplitInv, WindowInv
        <3>2. Len1(win_end) = Ends[win_end + 1] - Ends[win_end]
            BY DEF Len1
        <3>3. win_len' = win_len + Len1(win_end)
            BY <1>1
        <3> QED BY <2>1, <3>1, <3>2, <3>3
    <2>3. win_end = overlap_end \/ win_len' <= text.max_chars
        BY <1>1 DEF Extend, Fits
    <2>4. win_start <= overlap_end /\ overlap_end <= win_end
          /\ Ends[overlap_end] - Ends[win_start] <= overlap_chars
        BY DEF SplitInv, WindowInv
    <2> QED BY <1>1, <1>2, <2>2, <2>3, <2>4 DEF WindowInv
<1>5. LastInv'
    BY <1>1, <1>2 DEF SplitInv, LastInv, WindowInv
<1>6. TextIsCovered' /\ ChunksAreBounded'
    BY <1>1 DEF SplitInv, TextIsCovered, ChunksAreBounded
<1> QED BY <1>3, <1>4, <1>5, <1>6 DEF SplitInv

\* A chunk that is complete follows on the last one.
LEMMA EmitInv == SplitInv /\ Emit => SplitInv'
<1> SUFFICES ASSUME SplitInv, Emit PROVE SplitInv'
    OBVIOUS
<1> DEFINE new  == [from |-> win_start, to |-> win_end]
           last == packed[Len(packed)]
<1>1. /\ text' = text /\ Atoms' = Atoms /\ Ends' = Ends /\ overlap_chars' = overlap_chars
      /\ packed' = Append(packed, new) /\ pc = "extend"
      /\ pc' = IF win_end = Atoms THEN "done" ELSE "slide"
      /\ win_start' = win_start /\ overlap_end' = overlap_end
      /\ win_end' = win_end /\ win_len' = win_len
      /\ new_start' = win_end /\ kept_len' = 0
    BY DEF Emit, window, Atoms, Ends, overlap_chars
<1>2. /\ Atoms \in Nat /\ Ends \in [0..Atoms -> Nat]
      /\ win_start \in 0..Atoms /\ win_end \in 0..Atoms /\ overlap_end \in 0..Atoms
      /\ win_len \in Nat /\ text.max_chars \in Nat /\ overlap_chars \in Nat
      /\ packed \in Seq([from : 0..Atoms, to : 0..Atoms])
      /\ new \in [from : 0..Atoms, to : 0..Atoms]
    BY TextIsInput DEF SplitInv, SplitTypeOK
<1>3. /\ Len(packed) \in Nat /\ Len(packed') = Len(packed) + 1
      /\ packed'[Len(packed) + 1] = new
      /\ \A k \in 1..Len(packed) : packed'[k] = packed[k]
      /\ packed' # <<>> /\ packed' \in Seq([from : 0..Atoms, to : 0..Atoms])
      /\ (packed = <<>>) <=> (Len(packed) = 0)
    <2>1. /\ Len(packed) \in Nat /\ Len(packed') = Len(packed) + 1
          /\ packed'[Len(packed) + 1] = new
          /\ packed' \in Seq([from : 0..Atoms, to : 0..Atoms])
        BY <1>1, <1>2
    <2>2. \A k \in 1..Len(packed) : packed'[k] = packed[k]
        BY <1>1, <1>2
    <2>3. (packed = <<>>) <=> (Len(packed) = 0)
        BY <1>2
    <2>4. packed' # <<>>
        BY <2>1
    <2> QED BY <2>1, <2>2, <2>3, <2>4
<1>4. win_end > overlap_end
    BY <1>2 DEF SplitInv, WindowInv, LastInv, Emit, Fits
<1>5. SplitTypeOK'
    BY <1>1, <1>2, <1>3 DEF SplitInv, SplitTypeOK
<1>6. WindowInv'
    BY <1>1 DEF SplitInv, WindowInv
<1>7. LastInv'
    <2>1. packed'[Len(packed')] = new
        BY <1>3
    <2>2. Ends[win_end] \in Nat /\ win_start < win_end
        BY <1>2, <1>4 DEF SplitInv, WindowInv
    <2>5. packed'[Len(packed')].from = win_start /\ packed'[Len(packed')].to = win_end
        BY <2>1
    <2>3. CASE win_end = Atoms
        <3>1. pc' = "done"
            BY <1>1, <2>3
        <3> QED BY <1>1, <1>3, <2>3, <2>5, <3>1 DEF LastInv
    <2>4. CASE win_end # Atoms
        <3>1. pc' = "slide" /\ win_end < Atoms
            BY <1>1, <1>2, <2>4
        <3>2. kept_len' = Ends'[win_end'] - Ends'[new_start'] /\ kept_len' <= overlap_chars'
            BY <1>1, <1>2, <2>2
        <3>3. /\ packed' # <<>> /\ win_start' < new_start' /\ new_start' <= win_end'
              /\ win_end' < Atoms' /\ win_start' = win_start /\ win_end' = win_end
            BY <1>1, <1>2, <1>3, <2>2, <3>1
        <3> QED BY <2>5, <3>1, <3>2, <3>3 DEF LastInv
    <2> QED BY <2>3, <2>4
<1>8. TextIsCovered'
    <2>1. packed = <<>> => new.from = 0 /\ new.to > 0
        BY <1>1, <1>2, <1>4 DEF SplitInv, LastInv
    <2>2. ASSUME packed # <<>>
          PROVE  new.from \in (last.from + 1)..last.to /\ new.to > last.to
        <3>1. last.from \in Nat /\ last.to \in Nat
            <4>1. Len(packed) \in 1..Len(packed)
                BY <1>3, <2>2
            <4>2. packed[Len(packed)] \in [from : 0..Atoms, to : 0..Atoms]
                <5>1. packed \in Seq([from : 0..Atoms, to : 0..Atoms])
                    BY <1>2
                <5> QED BY <4>1, <5>1, ElementOfSeq
            <4> QED BY <1>2, <4>2
        <3>2. overlap_end = last.to /\ last.from < win_start
            BY <1>1, <2>2 DEF SplitInv, LastInv
        <3>3. win_start <= overlap_end
            BY DEF SplitInv, WindowInv
        <3>4. new.from = win_start /\ new.to = win_end
            OBVIOUS
        <3> HIDE DEF new, last
        <3> QED BY <1>2, <1>4, <3>1, <3>2, <3>3, <3>4
    <2>3. ASSUME NEW k \in 1..Len(packed')
          PROVE  IF k = 1 THEN packed'[k].from = 0 /\ packed'[k].to > 0
                 ELSE /\ packed'[k].from \in (packed'[k - 1].from + 1)..packed'[k - 1].to
                      /\ packed'[k].to > packed'[k - 1].to
        <3>1. CASE k = Len(packed) + 1
            BY <1>3, <2>1, <2>2, <3>1
        <3>2. CASE k # Len(packed) + 1
            <4>1. k \in 1..Len(packed) /\ (k # 1 => k - 1 \in 1..Len(packed))
                BY <1>3, <3>2
            <4> QED BY <1>3, <4>1 DEF SplitInv, TextIsCovered
        <3> QED BY <3>1, <3>2
    <2>4. pc' = "done" => packed'[Len(packed')].to = Atoms
        BY <1>1, <1>3
    <2> QED BY <1>1, <1>3, <2>3, <2>4 DEF TextIsCovered
<1>9. ChunksAreBounded'
    <2>1. ASSUME NEW k \in 1..Len(packed')
          PROVE  LET old == IF k = 1 THEN 0 ELSE packed'[k - 1].to IN
                 /\ Ends[old] - Ends[packed'[k].from] <= overlap_chars
                 /\ \/ Ends[packed'[k].to] - Ends[packed'[k].from] <= text.max_chars
                    \/ packed'[k].to = old + 1
        <3>1. CASE k = Len(packed) + 1
            <4>1. (IF k = 1 THEN 0 ELSE packed'[k - 1].to) = overlap_end
                BY <1>1, <1>3, <3>1 DEF SplitInv, LastInv
            <4> QED BY <1>3, <3>1, <4>1 DEF SplitInv, WindowInv
        <3>2. CASE k # Len(packed) + 1
            <4>1. k \in 1..Len(packed) /\ (k # 1 => k - 1 \in 1..Len(packed))
                BY <1>3, <3>2
            <4> QED BY <1>3, <4>1 DEF SplitInv, ChunksAreBounded
        <3> QED BY <3>1, <3>2
    <2> QED BY <1>1, <1>3, <2>1 DEF ChunksAreBounded
<1> QED BY <1>5, <1>6, <1>7, <1>8, <1>9 DEF SplitInv

\* The tail grows by an atom, and still fits into the overlap.
LEMMA KeepInv == SplitInv /\ Keep => SplitInv'
<1> SUFFICES ASSUME SplitInv, Keep PROVE SplitInv'
    OBVIOUS
<1>1. /\ text' = text /\ Atoms' = Atoms /\ Ends' = Ends /\ overlap_chars' = overlap_chars
      /\ packed' = packed /\ pc' = pc /\ pc = "slide"
      /\ win_start' = win_start /\ overlap_end' = overlap_end
      /\ win_end' = win_end /\ win_len' = win_len
      /\ new_start' = new_start - 1 /\ kept_len' = kept_len + Len1(new_start - 1)
    BY DEF Keep, window, Atoms, Ends, overlap_chars
<1>2. /\ Atoms \in Nat /\ Ends \in [0..Atoms -> Nat]
      /\ win_start \in 0..Atoms /\ win_end \in 0..Atoms /\ new_start \in 0..Atoms
      /\ kept_len \in Nat /\ overlap_chars \in Nat
    BY TextIsInput DEF SplitInv, SplitTypeOK
<1>3. /\ new_start > win_start + 1 /\ new_start - 1 \in 0..(Atoms - 1)
      /\ kept_len + Len1(new_start - 1) <= overlap_chars
    BY <1>2 DEF Keep, MayKeep
<1>4. Len1(new_start - 1) \in Nat /\ (new_start - 1) + 1 = new_start
    BY <1>2, <1>3, TextIsInput DEF SplitInv, SplitTypeOK
<1>5. SplitTypeOK'
    BY <1>1, <1>2, <1>3, <1>4 DEF SplitInv, SplitTypeOK
<1>6. WindowInv'
    BY <1>1 DEF SplitInv, WindowInv
<1>7. LastInv'
    <2>1. Ends[win_end] \in Nat /\ Ends[new_start] \in Nat /\ Ends[new_start - 1] \in Nat
        BY <1>2, <1>3
    <2>2. kept_len' = Ends[win_end] - Ends[new_start - 1]
        BY <1>1, <1>2, <1>4, <2>1 DEF SplitInv, LastInv, Len1
    <2> QED BY <1>1, <1>2, <1>3, <2>2 DEF SplitInv, LastInv
<1>8. TextIsCovered' /\ ChunksAreBounded'
    BY <1>1 DEF SplitInv, TextIsCovered, ChunksAreBounded
<1> QED BY <1>5, <1>6, <1>7, <1>8 DEF SplitInv

\* The next window is the tail, and there is an atom left for it.
LEMMA SlideInv == SplitInv /\ Slide => SplitInv'
<1> SUFFICES ASSUME SplitInv, Slide PROVE SplitInv'
    OBVIOUS
<1>1. /\ text' = text /\ Atoms' = Atoms /\ Ends' = Ends /\ overlap_chars' = overlap_chars
      /\ packed' = packed /\ pc' = "extend" /\ pc = "slide"
      /\ win_start' = new_start /\ overlap_end' = win_end
      /\ win_end' = win_end /\ win_len' = kept_len
      /\ new_start' = new_start /\ kept_len' = kept_len
    BY DEF Slide, slide, Atoms, Ends, overlap_chars
<1>2. /\ Atoms \in Nat /\ Ends \in [0..Atoms -> Nat]
      /\ win_end \in 0..Atoms /\ new_start \in 0..Atoms /\ kept_len \in Nat
      /\ overlap_chars \in Nat /\ text.max_chars \in Nat /\ overlap_chars < text.max_chars
    BY TextIsInput DEF SplitInv, SplitTypeOK
<1>3. /\ packed # <<>> /\ win_end < Atoms /\ new_start <= win_end /\ win_start < new_start
      /\ kept_len = Ends[win_end] - Ends[new_start] /\ kept_len <= overlap_chars
      /\ packed[Len(packed)].from = win_start /\ packed[Len(packed)].to = win_end
    BY <1>1 DEF SplitInv, LastInv
<1>4. SplitTypeOK'
    BY <1>1, <1>2 DEF SplitInv, SplitTypeOK
<1>5. WindowInv'
    BY <1>1, <1>2, <1>3 DEF WindowInv
<1>6. LastInv'
    BY <1>1, <1>2, <1>3 DEF LastInv
<1>7. TextIsCovered' /\ ChunksAreBounded'
    BY <1>1 DEF SplitInv, TextIsCovered, ChunksAreBounded
<1> QED BY <1>4, <1>5, <1>6, <1>7 DEF SplitInv

\* IInv holds of every window on the way.
THEOREM ChunkingInv == SplitSpec => []SplitInv
<1>1. SplitInv /\ [SplitNext]_splitVars => SplitInv'
    <2> SUFFICES ASSUME SplitInv, [SplitNext]_splitVars PROVE SplitInv'
        OBVIOUS
    <2>1. CASE Extend
        BY <2>1, ExtendInv
    <2>2. CASE Emit
        BY <2>2, EmitInv
    <2>3. CASE Keep
        BY <2>3, KeepInv
    <2>4. CASE Slide
        BY <2>4, SlideInv
    <2>5. CASE UNCHANGED splitVars
        BY <2>5 DEF splitVars, window, slide, SplitInv, SplitTypeOK, WindowInv, LastInv, TextIsCovered,
                    ChunksAreBounded, Atoms, Ends, overlap_chars
    <2> QED BY <2>1, <2>2, <2>3, <2>4, <2>5 DEF SplitNext
<1> QED BY SplitInitInv, <1>1, PTL DEF SplitSpec

\* Every chunk but the first begins within the one before it and goes further
\* than it; together they are the whole text.
THEOREM CoversText == SplitSpec => []TextIsCovered
<1>1. SplitInv => TextIsCovered
    BY DEF SplitInv
<1> QED BY ChunkingInv, <1>1, PTL

\* No chunk repeats more than the overlap, or is longer than asked for by more
\* than a single new atom.
THEOREM BoundsChunks == SplitSpec => []ChunksAreBounded
<1>1. SplitInv => ChunksAreBounded
    BY DEF SplitInv
<1> QED BY ChunkingInv, <1>1, PTL

=============================================================================
