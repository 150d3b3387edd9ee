------------------------- MODULE RecordCacheProofs -------------------------
(***************************************************************************)
(* The cache stays within its capacity and its entries are current, for    *)
(* any ids, times, capacity and time to live, with any number of threads.  *)
(***************************************************************************)
EXTENDS RecordCache, FiniteSetTheorems, TLAPS

Entry == [id : Ids, ts : Times, doc : Docs, left : 0..Ttl]

\* What a thread can be doing.
Filler  == [pc : {"fill"}, id : Ids, ts : Times, doc : Docs]
Seeker  == [pc : {"lookup", "fetch", "delete"}, id : Ids]
Fetcher == [pc : {"secondaries"}, id : Ids, ts : Times]
Keeper  == [pc : {"keep"}, id : Ids, doc : Docs]
Work    == {Idle} \cup Filler \cup Seeker \cup Fetcher \cup Keeper

\* A record has one row, and an id that was given out.
RowsInv ==
    /\ \A r, s \in rows : r.id = s.id => r = s
    /\ \A r \in rows : r.id \in used

\* The document of an id that no delete and other call met on is there while
\* a thread is at work on it, which has read it as it is.
WorkInv ==
    \A w \in Workers : work[w] # Idle /\ work[w].id \notin mixed =>
        \E r \in rows :
            /\ r.id = work[w].id
            /\ work[w].pc \in {"fill", "keep"} => work[w].doc.ts = r.ts
            /\ work[w].pc = "secondaries" => work[w].ts = r.ts

\* A thread that deletes a record has it to itself.
DeletesAlone ==
    \A v, w \in Workers :
        v # w /\ work[v].pc = "delete" /\ work[w] # Idle /\ work[w].id = work[v].id
            => work[v].id \in mixed

\* What is cached is stored, and not about to be deleted.
EntryInv ==
    \A e \in entries : e.id \notin mixed =>
        /\ \E r \in rows : r.id = e.id /\ r.ts = e.doc.ts
        /\ ~BeingDeleted(e.id)

CurrentInv ==
    /\ TypeOK
    /\ work \in [Workers -> Work]
    /\ RowsInv /\ WorkInv /\ DeletesAlone /\ EntryInv

-----------------------------------------------------------------------------
(* Steps of a thread. *)

LEMMA WorkOf ==
    ASSUME work \in [Workers -> Work], NEW w \in Workers
    PROVE  /\ work[w] = Idle <=> work[w].pc = "idle"
           /\ work[w].pc = "fill" => work[w] \in Filler
           /\ work[w].pc \in {"lookup", "fetch", "delete"} => work[w] \in Seeker
           /\ work[w].pc = "secondaries" => work[w] \in Fetcher
           /\ work[w].pc = "keep" => work[w] \in Keeper
           /\ work[w] # Idle => work[w].id \in Ids
<1>1. work[w] \in Work
  OBVIOUS
<1>2. CASE work[w] = Idle
  BY <1>2 DEF Idle
<1>3. CASE work[w] \in Filler
  <2>1. work[w].pc = "fill" /\ work[w].id \in Ids
    BY <1>3 DEF Filler
  <2>2. QED
    BY <1>3, <2>1 DEF Idle
<1>4. CASE work[w] \in Seeker
  <2>1. work[w].pc \in {"lookup", "fetch", "delete"} /\ work[w].id \in Ids
    BY <1>4 DEF Seeker
  <2>2. work[w] # Idle
    BY <2>1 DEF Idle
  <2>3. QED
    BY <1>4, <2>1, <2>2
<1>5. CASE work[w] \in Fetcher
  <2>1. work[w].pc = "secondaries" /\ work[w].id \in Ids
    BY <1>5 DEF Fetcher
  <2>2. work[w] # Idle
    BY <2>1 DEF Idle
  <2>3. QED
    BY <1>5, <2>1, <2>2
<1>6. CASE work[w] \in Keeper
  <2>1. work[w].pc = "keep" /\ work[w].id \in Ids
    BY <1>6 DEF Keeper
  <2>2. QED
    BY <1>6, <2>1 DEF Idle
<1>7. QED
  BY <1>1, <1>2, <1>3, <1>4, <1>5, <1>6 DEF Work

\* Thread x has read its record as row r has it.
Knows(x, r) ==
    /\ r.id = x.id
    /\ x.pc \in {"fill", "keep"} => x.doc.ts = r.ts
    /\ x.pc = "secondaries" => x.ts = r.ts

\* Thread w goes on with x, and no row goes away.
LEMMA GoesOn ==
    ASSUME CurrentInv, RowsInv', rows \subseteq rows', mixed \subseteq mixed',
           NEW w \in Workers, NEW x \in Work, work' = [work EXCEPT ![w] = x],
           x # Idle /\ x.id \notin mixed' =>
               /\ \E r \in rows' : Knows(x, r)
               /\ \A v \in Workers \ {w} : work[v].pc = "delete" => work[v].id # x.id
               /\ x.pc = "delete" =>
                     \A v \in Workers \ {w} : work[v] # Idle => work[v].id # x.id
    PROVE  /\ work' \in [Workers -> Work] /\ WorkInv' /\ DeletesAlone'
           /\ \A id : BeingDeleted(id)' => BeingDeleted(id) \/ (x.pc = "delete" /\ x.id = id)
<1>1. work' \in [Workers -> Work] /\ work'[w] = x /\ \A v \in Workers \ {w} : work'[v] = work[v]
  BY DEF CurrentInv
<1>2. WorkInv'
  <2>1. ASSUME NEW v \in Workers, work'[v] # Idle, work'[v].id \notin mixed'
        PROVE  \E r \in rows' : Knows(work'[v], r)
    <3>1. CASE v = w
      BY <1>1, <2>1, <3>1
    <3>2. CASE v # w
      <4>1. work'[v] = work[v] /\ work[v].id \notin mixed
        BY <1>1, <2>1, <3>2
      <4>2. \E r \in rows : Knows(work[v], r)
        BY <2>1, <4>1 DEF CurrentInv, WorkInv, Knows
      <4>3. QED
        BY <4>1, <4>2
    <3>3. QED
      BY <3>1, <3>2
  <2>2. QED
    BY <2>1 DEF WorkInv, Knows
<1>3. DeletesAlone'
  <2>1. ASSUME NEW u \in Workers, NEW v \in Workers, u # v, work'[u].pc = "delete",
               work'[v] # Idle, work'[v].id = work'[u].id, work'[u].id \notin mixed'
        PROVE  FALSE
    <3>1. CASE u = w
      <4>1. x # Idle
        BY <1>1, <2>1, <3>1 DEF Idle
      <4>2. QED
        BY <1>1, <2>1, <3>1, <4>1
    <3>2. CASE v = w
      BY <1>1, <2>1, <3>2
    <3>3. CASE u # w /\ v # w
      <4>1. work'[u] = work[u] /\ work'[v] = work[v]
        BY <1>1, <3>3
      <4>2. QED
        BY <2>1, <4>1 DEF CurrentInv, DeletesAlone
    <3>4. QED
      BY <3>1, <3>2, <3>3
  <2>2. QED
    BY <2>1 DEF DeletesAlone
<1>4. ASSUME NEW id, BeingDeleted(id)'
      PROVE  BeingDeleted(id) \/ (x.pc = "delete" /\ x.id = id)
  BY <1>1, <1>4 DEF BeingDeleted
<1>5. QED
  BY <1>1, <1>2, <1>3, <1>4

\* What is in the cache after a step that takes no row away.
LEMMA EntriesGo ==
    ASSUME CurrentInv, rows \subseteq rows', mixed \subseteq mixed', entries' \subseteq Entry,
           \A e \in entries' : e.id \notin mixed' =>
               \/ \E f \in entries : f.id = e.id /\ f.doc = e.doc /\ ~BeingDeleted(e.id)'
               \/ (\E r \in rows' : r.id = e.id /\ r.ts = e.doc.ts) /\ ~BeingDeleted(e.id)'
    PROVE  EntryInv'
<1> SUFFICES ASSUME NEW e \in entries', e.id \notin mixed'
             PROVE  (\E r \in rows' : r.id = e.id /\ r.ts = e.doc.ts) /\ ~BeingDeleted(e.id)'
  BY DEF EntryInv, BeingDeleted
<1>1. CASE \E f \in entries : f.id = e.id /\ f.doc = e.doc /\ ~BeingDeleted(e.id)'
  <2>1. PICK f \in entries : f.id = e.id /\ f.doc = e.doc /\ ~BeingDeleted(e.id)'
    BY <1>1
  <2>2. f.id \notin mixed
    BY <2>1
  <2>3. PICK r \in rows : r.id = f.id /\ r.ts = f.doc.ts
    BY <2>2 DEF CurrentInv, EntryInv
  <2>4. QED
    BY <2>1, <2>3
<1>2. QED
  BY <1>1

\* What insert() leaves in the cache: some of what was there, and the new entry.
LEMMA InsertedFrom ==
    ASSUME CurrentInv, NEW id \in Ids, NEW ts \in Times, NEW doc \in Docs,
           NEW es \in Inserted(id, ts, doc)
    PROVE  /\ es \subseteq entries \cup {[id |-> id, ts |-> ts, doc |-> doc, left |-> Ttl]}
           /\ es \subseteq Entry
<1> DEFINE new == [id |-> id, ts |-> ts, doc |-> doc, left |-> Ttl]
           others == {e \in entries : e.id # id \/ e.ts # ts}
           live == {e \in entries : Live(e)}
<1>1. \/ es = others \cup {new}
      \/ es = live \cup {new}
      \/ \E e \in live : es = (live \ {e}) \cup {new}
  BY DEF Inserted
<1>2. entries \subseteq Entry
  BY DEF CurrentInv, TypeOK, Entry
<1>3. new \in Entry
  BY RecordCacheAssumption DEF Entry
<1> HIDE DEF new
<1>4. es \subseteq entries \cup {new}
  BY <1>1
<1>5. QED
  BY <1>2, <1>3, <1>4 DEF new

\* Thread w goes on with the record it was at work on.
LEMMA SameRecord ==
    ASSUME CurrentInv, NEW w \in Workers, work[w] # Idle, work[w].id \notin mixed
    PROVE  /\ \E r \in rows : Knows(work[w], r)
           /\ \A v \in Workers \ {w} : work[v].pc = "delete" => work[v].id # work[w].id
<1>1. \E r \in rows : Knows(work[w], r)
  BY DEF CurrentInv, WorkInv, Knows
<1>2. ASSUME NEW v \in Workers \ {w}, work[v].pc = "delete", work[v].id = work[w].id
      PROVE  FALSE
  BY <1>2 DEF CurrentInv, DeletesAlone
<1>3. QED
  BY <1>1, <1>2

\* A step that leaves the rows and puts thread w at x.
LEMMA ThreadStep ==
    ASSUME CurrentInv, rows' = rows, mixed \subseteq mixed', mixed' \subseteq Ids,
           links' = links, used' = used,
           NEW w \in Workers, NEW x \in Work, work' = [work EXCEPT ![w] = x],
           x # Idle /\ x.id \notin mixed' =>
               /\ \E r \in rows : Knows(x, r)
               /\ \A v \in Workers \ {w} : work[v].pc = "delete" => work[v].id # x.id
               /\ x.pc = "delete" =>
                     \A v \in Workers \ {w} : work[v] # Idle => work[v].id # x.id,
           entries' \subseteq entries,
           x.pc = "delete" => \A e \in entries' : e.id # x.id
    PROVE  CurrentInv'
<1>1. RowsInv' /\ rows \subseteq rows'
  BY DEF CurrentInv, RowsInv
<1>2. TypeOK'
  BY DEF CurrentInv, TypeOK
<1>3. x # Idle /\ x.id \notin mixed' =>
          /\ \E r \in rows' : Knows(x, r)
          /\ \A v \in Workers \ {w} : work[v].pc = "delete" => work[v].id # x.id
          /\ x.pc = "delete" =>
                \A v \in Workers \ {w} : work[v] # Idle => work[v].id # x.id
  OBVIOUS
<1>4. /\ work' \in [Workers -> Work] /\ WorkInv' /\ DeletesAlone'
      /\ \A id : BeingDeleted(id)' => BeingDeleted(id) \/ (x.pc = "delete" /\ x.id = id)
  BY <1>1, <1>3, GoesOn
<1>5. entries' \subseteq Entry
  BY DEF CurrentInv, TypeOK, Entry
<1>6. ASSUME NEW e \in entries', e.id \notin mixed'
      PROVE  \E f \in entries : f.id = e.id /\ f.doc = e.doc /\ ~BeingDeleted(e.id)'
  <2>1. ~BeingDeleted(e.id)
    BY <1>6 DEF CurrentInv, EntryInv
  <2>2. ~BeingDeleted(e.id)'
    BY <1>4, <2>1
  <2>3. QED
    BY <2>2
<1>7. EntryInv'
  BY <1>1, <1>5, <1>6, EntriesGo
<1>8. QED
  BY <1>1, <1>2, <1>4, <1>7 DEF CurrentInv

-----------------------------------------------------------------------------
(* The actions. *)

LEMMA FillKeeps ==
    ASSUME CurrentInv, NEW w \in Workers, work[w].pc \in {"fill", "keep"},
           NEW ts \in Times, entries' \in Inserted(work[w].id, ts, work[w].doc),
           Return(w), UNCHANGED <<rows, links, used, mixed>>
    PROVE  CurrentInv'
<1> DEFINE new == [id |-> work[w].id, ts |-> ts, doc |-> work[w].doc, left |-> Ttl]
<1>1. /\ work[w] # Idle /\ work[w].id \in Ids /\ work[w].doc \in Docs
      /\ work[w].pc # "delete"
  <2>1. work \in [Workers -> Work]
    BY DEF CurrentInv
  <2>2. work[w] # Idle /\ work[w].id \in Ids /\ work[w] \in Filler \cup Keeper
    BY <2>1, WorkOf
  <2>3. QED
    BY <2>2 DEF Filler, Keeper
<1>2. entries' \subseteq entries \cup {new} /\ entries' \subseteq Entry
  BY <1>1, InsertedFrom
<1>3. RowsInv' /\ rows \subseteq rows' /\ mixed \subseteq mixed'
  BY DEF CurrentInv, RowsInv
<1>4. Idle \in Work /\ Idle.pc # "delete" /\ work' = [work EXCEPT ![w] = Idle]
  BY DEF Work, Idle, Return
<1>5. /\ work' \in [Workers -> Work] /\ WorkInv' /\ DeletesAlone'
      /\ \A id : BeingDeleted(id)' => BeingDeleted(id) \/ (Idle.pc = "delete" /\ Idle.id = id)
  BY <1>3, <1>4, GoesOn
<1>6. ASSUME NEW e \in entries', e.id \notin mixed'
      PROVE  \/ \E f \in entries : f.id = e.id /\ f.doc = e.doc /\ ~BeingDeleted(e.id)'
             \/ (\E r \in rows' : r.id = e.id /\ r.ts = e.doc.ts) /\ ~BeingDeleted(e.id)'
  <2>1. CASE e \in entries
    <3>1. ~BeingDeleted(e.id)
      BY <1>6, <2>1 DEF CurrentInv, EntryInv
    <3>2. QED
      BY <1>4, <1>5, <2>1, <3>1
  <2>2. CASE e = new
    <3>1. e.id = work[w].id /\ e.doc = work[w].doc
      BY <2>2
    <3>2. /\ \E r \in rows : Knows(work[w], r)
          /\ \A v \in Workers \ {w} : work[v].pc = "delete" => work[v].id # work[w].id
      BY <1>1, <1>6, <3>1, SameRecord
    <3>3. ~BeingDeleted(e.id)
      BY <1>1, <3>1, <3>2 DEF BeingDeleted
    <3>4. \E r \in rows : r.id = e.id /\ r.ts = e.doc.ts
      BY <3>1, <3>2 DEF Knows
    <3>5. QED
      BY <1>4, <1>5, <3>3, <3>4
  <2>3. QED
    BY <1>2, <2>1, <2>2
<1>7. EntryInv'
  BY <1>2, <1>3, <1>6, EntriesGo
<1>8. TypeOK'
  BY <1>2 DEF CurrentInv, TypeOK, Entry
<1>9. QED
  BY <1>3, <1>5, <1>7, <1>8 DEF CurrentInv

\* A document that a shard has just stored, or has had before.
LEMMA FillStarts ==
    ASSUME NEW w, NEW id \in Ids, NEW ts \in Times, Fill(w, id, ts)
    PROVE  \E x \in Work :
               /\ work' = [work EXCEPT ![w] = x]
               /\ x.pc = "fill" /\ x.id = id /\ x.doc.ts = ts
<1> DEFINE x == [pc |-> "fill", id |-> id, ts |-> ts, doc |-> [ts |-> ts, secondaries |-> {}]]
<1>1. x \in Work
  BY DEF Work, Filler, Docs
<1>2. x.pc = "fill" /\ x.id = id /\ x.doc.ts = ts
  OBVIOUS
<1>3. work' = [work EXCEPT ![w] = x]
  BY DEF Fill
<1>4. QED
  BY <1>1, <1>2, <1>3

LEMMA StoreKeeps ==
    ASSUME CurrentInv, NEW w \in Workers, NEW id \in Ids, NEW ts \in Times,
           NEW primary \in BOOLEAN, Fresh(id), Fill(w, id, ts),
           rows' = rows \cup {[id |-> id, ts |-> ts, primary |-> primary]},
           used' = used \cup {id}, links' \subseteq Ids \X Ids,
           UNCHANGED <<entries, mixed>>
    PROVE  CurrentInv'
<1> DEFINE row == [id |-> id, ts |-> ts, primary |-> primary]
<1>1. ~Stored(id)
  BY DEF Fresh, Stored, CurrentInv, RowsInv
<1>2. PICK x \in Work : /\ work' = [work EXCEPT ![w] = x]
                        /\ x.pc = "fill" /\ x.id = id /\ x.doc.ts = ts
  BY FillStarts
<1>3. row.id = id /\ row.ts = ts /\ row \in [id : Ids, ts : Times, primary : BOOLEAN]
  OBVIOUS
<1> HIDE DEF row
<1>4. rows' = rows \cup {row}
  BY DEF row
<1>5. RowsInv'
  BY <1>1, <1>3, <1>4 DEF CurrentInv, RowsInv, Stored
<1>6. TypeOK'
  BY <1>3, <1>4 DEF CurrentInv, TypeOK
<1>7. rows \subseteq rows' /\ mixed \subseteq mixed'
  BY <1>4
<1>8. x # Idle /\ x.id \notin mixed' =>
          /\ \E r \in rows' : Knows(x, r)
          /\ \A v \in Workers \ {w} : work[v].pc = "delete" => work[v].id # x.id
          /\ x.pc = "delete" =>
                \A v \in Workers \ {w} : work[v] # Idle => work[v].id # x.id
  <2>1. Knows(x, row)
    BY <1>2, <1>3 DEF Knows
  <2>2. ASSUME NEW v \in Workers \ {w}, work[v].pc = "delete", work[v].id = id, id \notin mixed
        PROVE  FALSE
    <3>1. work[v] # Idle
      BY <2>2 DEF Idle
    <3>2. QED
      BY <1>1, <2>2, <3>1 DEF CurrentInv, WorkInv, Stored
  <2>3. QED
    BY <1>2, <1>4, <2>1, <2>2
<1>9. /\ work' \in [Workers -> Work] /\ WorkInv' /\ DeletesAlone'
      /\ \A i : BeingDeleted(i)' => BeingDeleted(i) \/ (x.pc = "delete" /\ x.id = i)
  BY <1>2, <1>5, <1>7, <1>8, GoesOn
<1>10. entries' \subseteq Entry
  BY DEF CurrentInv, TypeOK, Entry
<1>11. ASSUME NEW e \in entries', e.id \notin mixed'
       PROVE  \E f \in entries : f.id = e.id /\ f.doc = e.doc /\ ~BeingDeleted(e.id)'
  <2>1. ~BeingDeleted(e.id)
    BY <1>11 DEF CurrentInv, EntryInv
  <2>2. QED
    BY <1>2, <1>9, <2>1
<1>12. EntryInv'
  BY <1>7, <1>10, <1>11, EntriesGo
<1>13. QED
  BY <1>5, <1>6, <1>9, <1>12 DEF CurrentInv

LEMMA DuplicateKeeps ==
    ASSUME CurrentInv, NEW w \in Workers, NEW r \in rows, NEW ts \in Times,
           AddDuplicate(w, r, ts)
    PROVE  CurrentInv'
<1>1. r.id \in Ids
  BY DEF CurrentInv, TypeOK
<1>2. PICK x \in Work : /\ work' = [work EXCEPT ![w] = x]
                        /\ x.pc = "fill" /\ x.id = r.id /\ x.doc.ts = ts
  BY <1>1, FillStarts DEF AddDuplicate
<1>3. mixed \subseteq mixed' /\ mixed' \subseteq Ids
  BY <1>1 DEF AddDuplicate, Mix, CurrentInv, TypeOK
<1>4. x # Idle /\ x.id \notin mixed' =>
          /\ \E s \in rows : Knows(x, s)
          /\ \A v \in Workers \ {w} : work[v].pc = "delete" => work[v].id # x.id
          /\ x.pc = "delete" =>
                \A v \in Workers \ {w} : work[v] # Idle => work[v].id # x.id
  <2>1. HAVE x # Idle /\ x.id \notin mixed'
  <2>2. ts = r.ts /\ ~BeingDeleted(r.id)
    BY <1>2, <2>1 DEF AddDuplicate, Mix
  <2>3. QED
    BY <1>2, <2>2 DEF Knows, BeingDeleted
<1>5. /\ rows' = rows /\ links' = links
      /\ entries' \subseteq entries /\ x.pc # "delete"
  BY <1>2 DEF AddDuplicate
<1>6. QED
  BY <1>2, <1>3, <1>4, <1>5, ThreadStep DEF AddDuplicate

LEMMA ForgetKeeps ==
    ASSUME CurrentInv, NEW w \in Workers, NEW id \in Ids, Forget(w, id)
    PROVE  CurrentInv'
<1> DEFINE x == [pc |-> "delete", id |-> id]
<1>1. x \in Work /\ x.pc = "delete" /\ x.id = id
  BY DEF Work, Seeker
<1>2. work' = [work EXCEPT ![w] = x]
  BY DEF Forget
<1> HIDE DEF x
<1>3. mixed \subseteq mixed' /\ mixed' \subseteq Ids
  BY DEF Forget, Mix, CurrentInv, TypeOK
<1>4. x # Idle /\ x.id \notin mixed' =>
          /\ \E s \in rows : Knows(x, s)
          /\ \A v \in Workers \ {w} : work[v].pc = "delete" => work[v].id # x.id
          /\ x.pc = "delete" =>
                \A v \in Workers \ {w} : work[v] # Idle => work[v].id # x.id
  <2>1. HAVE x # Idle /\ x.id \notin mixed'
  <2>2. ~Busy(id)
    BY <1>1, <2>1 DEF Forget, Mix
  <2>3. \A v \in Workers \ {w} : work[v] # Idle => work[v].id # x.id
    BY <1>1, <2>2 DEF Busy
  <2>4. \A v \in Workers \ {w} : work[v].pc = "delete" => work[v].id # x.id
    BY <2>3 DEF Idle
  <2>5. \E s \in rows : Knows(x, s)
    BY <1>1 DEF Forget, Stored, Knows
  <2>6. QED
    BY <2>3, <2>4, <2>5
<1>5. entries' \subseteq entries /\ \A e \in entries' : e.id # x.id
  BY <1>1 DEF Forget
<1>6. QED
  BY <1>1, <1>2, <1>3, <1>4, <1>5, ThreadStep DEF Forget

LEMMA DeleteKeeps ==
    ASSUME CurrentInv, NEW w \in Workers, Delete(w)
    PROVE  CurrentInv'
<1> DEFINE id == work[w].id
<1>1. rows' = {r \in rows : r.id # id} /\ entries' = entries /\ mixed' = mixed
  BY DEF Delete
<1>2. /\ work' \in [Workers -> Work] /\ work'[w] = Idle
      /\ \A v \in Workers \ {w} : work'[v] = work[v]
  BY DEF Delete, Return, CurrentInv, Work
<1>3. work[w].pc = "delete" /\ work[w] # Idle
  BY DEF Delete, Idle
<1>4. TypeOK'
  BY <1>1 DEF Delete, CurrentInv, TypeOK
<1>5. RowsInv'
  BY <1>1 DEF Delete, CurrentInv, RowsInv
<1>6. WorkInv'
  <2>1. ASSUME NEW v \in Workers, work'[v] # Idle, work'[v].id \notin mixed'
        PROVE  \E r \in rows' : Knows(work'[v], r)
    <3>1. v # w /\ work'[v] = work[v] /\ work[v].id \notin mixed
      BY <1>1, <1>2, <2>1
    <3>2. work[v].id # id
      BY <1>3, <2>1, <3>1 DEF CurrentInv, DeletesAlone
    <3>3. PICK r \in rows : Knows(work[v], r)
      BY <2>1, <3>1 DEF CurrentInv, WorkInv, Knows
    <3>4. r \in rows'
      BY <1>1, <3>2, <3>3 DEF Knows
    <3>5. QED
      BY <3>1, <3>3, <3>4
  <2>2. QED
    BY <2>1 DEF WorkInv, Knows
<1>7. DeletesAlone'
  BY <1>1, <1>2, <1>3 DEF CurrentInv, DeletesAlone, Idle
<1>8. EntryInv'
  <2>1. ASSUME NEW e \in entries', e.id \notin mixed'
        PROVE  (\E r \in rows' : r.id = e.id /\ r.ts = e.doc.ts) /\ ~BeingDeleted(e.id)'
    <3>1. PICK r \in rows : r.id = e.id /\ r.ts = e.doc.ts
      BY <1>1, <2>1 DEF CurrentInv, EntryInv
    <3>2. ~BeingDeleted(e.id)
      BY <1>1, <2>1 DEF CurrentInv, EntryInv
    <3>3. e.id # id
      BY <1>3, <3>2 DEF BeingDeleted
    <3>4. ~BeingDeleted(e.id)'
      BY <1>2, <3>2 DEF BeingDeleted, Idle
    <3>5. QED
      BY <1>1, <3>1, <3>3, <3>4
  <2>2. QED
    BY <2>1 DEF EntryInv, BeingDeleted
<1>9. QED
  BY <1>2, <1>4, <1>5, <1>6, <1>7, <1>8 DEF CurrentInv

LEMMA BeginKeeps ==
    ASSUME CurrentInv, NEW w \in Workers, NEW r \in rows, NEW pc \in {"lookup", "fetch"},
           Begin(w, r, pc)
    PROVE  CurrentInv'
<1> DEFINE x == [pc |-> pc, id |-> r.id]
<1>1. r.id \in Ids
  BY DEF CurrentInv, TypeOK
<1>2. x \in Work /\ x.pc = pc /\ x.id = r.id
  BY <1>1 DEF Work, Seeker
<1>3. work' = [work EXCEPT ![w] = x]
  BY DEF Begin
<1> HIDE DEF x
<1>4. mixed \subseteq mixed' /\ mixed' \subseteq Ids
  BY <1>1 DEF Begin, Mix, CurrentInv, TypeOK
<1>5. x # Idle /\ x.id \notin mixed' =>
          /\ \E s \in rows : Knows(x, s)
          /\ \A v \in Workers \ {w} : work[v].pc = "delete" => work[v].id # x.id
          /\ x.pc = "delete" =>
                \A v \in Workers \ {w} : work[v] # Idle => work[v].id # x.id
  <2>1. HAVE x # Idle /\ x.id \notin mixed'
  <2>2. ~BeingDeleted(r.id)
    BY <1>2, <2>1 DEF Begin, Mix
  <2>3. QED
    BY <1>2, <2>2 DEF Knows, BeingDeleted
<1>6. QED
  BY <1>2, <1>3, <1>4, <1>5, ThreadStep DEF Begin

\* A search goes on with its record, or ends.
LEMMA SearchStep ==
    ASSUME CurrentInv, NEW w \in Workers, work[w] # Idle, NEW x \in Work,
           work' = [work EXCEPT ![w] = x], x.pc # "delete",
           x # Idle => x.id = work[w].id,
           x # Idle => \A r \in rows : Knows(work[w], r) => Knows(x, r),
           UNCHANGED <<rows, links, used, mixed>>, entries' \subseteq entries
    PROVE  CurrentInv'
<1>1. mixed \subseteq mixed' /\ mixed' \subseteq Ids
  BY DEF CurrentInv, TypeOK
<1>2. x # Idle /\ x.id \notin mixed' =>
          /\ \E s \in rows : Knows(x, s)
          /\ \A v \in Workers \ {w} : work[v].pc = "delete" => work[v].id # x.id
          /\ x.pc = "delete" =>
                \A v \in Workers \ {w} : work[v] # Idle => work[v].id # x.id
  <2>1. HAVE x # Idle /\ x.id \notin mixed'
  <2>2. /\ \E r \in rows : Knows(work[w], r)
        /\ \A v \in Workers \ {w} : work[v].pc = "delete" => work[v].id # work[w].id
    BY <2>1, SameRecord
  <2>3. QED
    BY <2>1, <2>2
<1>3. QED
  BY <1>1, <1>2, ThreadStep

LEMMA IdleIsWork ==
    /\ Idle \in Work
    /\ Idle.pc = "idle"
BY DEF Work, Idle

LEMMA LookupKeeps ==
    ASSUME CurrentInv, NEW w \in Workers, Lookup(w)
    PROVE  CurrentInv'
<1>1. work[w] # Idle /\ work[w] \in Seeker /\ work[w].id \in Ids
  BY WorkOf DEF CurrentInv, Lookup, Idle
<1> DEFINE x == [pc |-> "fetch", id |-> work[w].id]
<1>2. x \in Work /\ x.pc = "fetch" /\ x.id = work[w].id
  BY <1>1 DEF Work, Seeker
<1>3. [work[w] EXCEPT !.pc = "fetch"] = x
  BY <1>1 DEF Seeker
<1> HIDE DEF x
<1>4. entries' \subseteq entries /\ UNCHANGED <<rows, links, used, mixed>>
  BY DEF Lookup
<1>5. work' = [work EXCEPT ![w] = Idle] \/ work' = [work EXCEPT ![w] = x]
  BY <1>3 DEF Lookup, Return, CurrentInv
<1>6. CASE work' = [work EXCEPT ![w] = Idle]
  BY <1>1, <1>4, <1>6, IdleIsWork, SearchStep
<1>7. CASE work' = [work EXCEPT ![w] = x]
  <2>1. \A r \in rows : Knows(work[w], r) => Knows(x, r)
    BY <1>2 DEF Knows
  <2>2. QED
    BY <1>1, <1>2, <1>4, <1>7, <2>1, SearchStep
<1>8. QED
  BY <1>5, <1>6, <1>7

LEMMA FetchKeeps ==
    ASSUME CurrentInv, NEW w \in Workers, Fetch(w)
    PROVE  CurrentInv'
<1>1. work[w] # Idle /\ work[w].id \in Ids
  BY WorkOf DEF CurrentInv, Fetch, Idle
<1>2. entries' \subseteq entries /\ UNCHANGED <<rows, links, used, mixed>>
  BY DEF Fetch
<1>3. CASE work' = [work EXCEPT ![w] = Idle]
  BY <1>1, <1>2, <1>3, IdleIsWork, SearchStep
<1>4. ASSUME NEW r \in rows, r.id = work[w].id,
             work' = [work EXCEPT ![w] = [pc |-> "secondaries", id |-> r.id, ts |-> r.ts]]
      PROVE  CurrentInv'
  <2> DEFINE x == [pc |-> "secondaries", id |-> r.id, ts |-> r.ts]
  <2>1. r.id \in Ids /\ r.ts \in Times
    BY DEF CurrentInv, TypeOK
  <2>2. x \in Work /\ x.pc = "secondaries" /\ x.id = work[w].id /\ x.ts = r.ts
    BY <1>4, <2>1 DEF Work, Fetcher
  <2>3. work' = [work EXCEPT ![w] = x]
    BY <1>4
  <2> HIDE DEF x
  <2>4. \A s \in rows : Knows(work[w], s) => Knows(x, s)
    BY <1>4, <2>2 DEF Knows, CurrentInv, RowsInv
  <2>5. QED
    BY <1>1, <1>2, <2>2, <2>3, <2>4, SearchStep
<1>5. QED
  BY <1>3, <1>4 DEF Fetch, Return

LEMMA SecondariesKeeps ==
    ASSUME CurrentInv, NEW w \in Workers, FetchSecondaries(w)
    PROVE  CurrentInv'
<1>1. /\ work[w] # Idle /\ work[w].pc = "secondaries"
      /\ work[w].id \in Ids /\ work[w].ts \in Times
  <2>1. work[w] # Idle /\ work[w] \in Fetcher
    BY WorkOf DEF CurrentInv, FetchSecondaries, Idle
  <2>2. QED
    BY <2>1 DEF FetchSecondaries, Fetcher
<1> DEFINE x == [pc |-> "keep", id |-> work[w].id,
                 doc |-> [ts |-> work[w].ts, secondaries |-> Secondaries(work[w].id)]]
<1>2. Secondaries(work[w].id) \subseteq Ids
  BY DEF Secondaries, CurrentInv, TypeOK
<1>3. x \in Work /\ x.pc = "keep" /\ x.id = work[w].id /\ x.doc.ts = work[w].ts
  BY <1>1, <1>2 DEF Work, Keeper, Docs
<1>4. /\ work' = [work EXCEPT ![w] = x]
      /\ entries' \subseteq entries /\ UNCHANGED <<rows, links, used, mixed>>
  BY DEF FetchSecondaries
<1> HIDE DEF x
<1>5. \A r \in rows : Knows(work[w], r) => Knows(x, r)
  BY <1>1, <1>3 DEF Knows
<1>6. QED
  BY <1>1, <1>3, <1>4, <1>5, SearchStep

\* Time passes, or what has expired is dropped.
LEMMA CacheStepKeeps ==
    ASSUME CurrentInv, UNCHANGED <<rows, links, work, used, mixed>>, entries' \subseteq Entry,
           \A e \in entries' : \E f \in entries : f.id = e.id /\ f.doc = e.doc
    PROVE  CurrentInv'
<1>1. /\ TypeOK' /\ work' \in [Workers -> Work]
      /\ RowsInv' /\ WorkInv' /\ DeletesAlone'
  BY DEF CurrentInv, TypeOK, RowsInv, WorkInv, DeletesAlone, Entry
<1>2. \A id : BeingDeleted(id)' <=> BeingDeleted(id)
  BY DEF BeingDeleted
<1>3. ASSUME NEW e \in entries', e.id \notin mixed'
      PROVE  \E f \in entries : f.id = e.id /\ f.doc = e.doc /\ ~BeingDeleted(e.id)'
  <2>1. PICK f \in entries : f.id = e.id /\ f.doc = e.doc
    OBVIOUS
  <2>2. ~BeingDeleted(f.id)
    BY <1>3, <2>1 DEF CurrentInv, EntryInv
  <2>3. QED
    BY <1>2, <2>1, <2>2
<1>4. EntryInv'
  BY <1>3, EntriesGo
<1>5. QED
  BY <1>1, <1>4 DEF CurrentInv

\* An entry a tick later.
Aged(e) == [e EXCEPT !.left = IF @ > 0 THEN @ - 1 ELSE 0]

LEMMA AgedEntry ==
    ASSUME NEW e \in Entry
    PROVE  Aged(e) \in Entry /\ Aged(e).id = e.id /\ Aged(e).doc = e.doc
BY RecordCacheAssumption DEF Entry, Aged

LEMMA TickKeeps ==
    ASSUME CurrentInv, Tick
    PROVE  CurrentInv'
<1>1. entries \subseteq Entry
  BY DEF CurrentInv, TypeOK, Entry
<1>2. entries' = {Aged(e) : e \in entries}
  BY DEF Tick, Aged
<1>3. entries' \subseteq Entry
  BY <1>1, <1>2, AgedEntry
<1>4. \A e \in entries' : \E f \in entries : f.id = e.id /\ f.doc = e.doc
  BY <1>1, <1>2, AgedEntry
<1>5. QED
  BY <1>3, <1>4, CacheStepKeeps DEF Tick

LEMMA SweepKeeps ==
    ASSUME CurrentInv, Sweep
    PROVE  CurrentInv'
<1>1. entries' \subseteq entries /\ entries' \subseteq Entry
  BY DEF Sweep, CurrentInv, TypeOK, Entry
<1>2. \A e \in entries' : \E f \in entries : f.id = e.id /\ f.doc = e.doc
  BY <1>1
<1>3. QED
  BY <1>1, <1>2, CacheStepKeeps DEF Sweep

LEMMA CurrentInit == Init => CurrentInv
<1> HAVE Init
<1>1. TypeOK /\ RowsInv /\ EntryInv
  BY DEF Init, TypeOK, RowsInv, EntryInv
<1>2. work \in [Workers -> Work] /\ \A w \in Workers : work[w] = Idle
  BY IdleIsWork DEF Init
<1>3. WorkInv /\ DeletesAlone
  BY <1>2 DEF WorkInv, DeletesAlone
<1>4. QED
  BY <1>1, <1>2, <1>3 DEF CurrentInv

LEMMA CallKeeps ==
    ASSUME CurrentInv, NEW w \in Workers, Call(w)
    PROVE  CurrentInv'
<1>1. ASSUME NEW id \in Ids, NEW ts \in Times, AddPrimary(w, id, ts)
      PROVE  CurrentInv'
  <2>1. links' \subseteq Ids \X Ids
    BY <1>1 DEF AddPrimary, CurrentInv, TypeOK
  <2>2. QED
    BY <1>1, <2>1, StoreKeeps DEF AddPrimary
<1>2. ASSUME NEW id \in Ids, NEW ts \in Times, NEW p \in rows, AddSecondary(w, id, ts, p)
      PROVE  CurrentInv'
  <2>1. links' \subseteq Ids \X Ids
    BY <1>2 DEF AddSecondary, CurrentInv, TypeOK
  <2>2. QED
    BY <1>2, <2>1, StoreKeeps DEF AddSecondary
<1>3. ASSUME NEW r \in rows, SearchFts(w, r) \/ SearchVector(w, r)
      PROVE  CurrentInv'
  BY <1>3, BeginKeeps DEF SearchFts, SearchVector
<1>4. QED
  BY <1>1, <1>2, <1>3, DuplicateKeeps, ForgetKeeps DEF Call

LEMMA ProceedKeeps ==
    ASSUME CurrentInv, NEW w \in Workers, Proceed(w)
    PROVE  CurrentInv'
<1>1. CASE FillEntry(w)
  <2>1. work[w] \in Filler
    BY <1>1, WorkOf DEF CurrentInv, FillEntry
  <2>2. work[w].ts \in Times
    BY <2>1 DEF Filler
  <2>3. QED
    BY <1>1, <2>2, FillKeeps DEF FillEntry
<1>2. CASE Keep(w)
  <2>1. work[w] \in Keeper
    BY <1>2, WorkOf DEF CurrentInv, Keep
  <2>2. work[w].doc.ts \in Times
    BY <2>1 DEF Keeper, Docs
  <2>3. QED
    BY <1>2, <2>2, FillKeeps DEF Keep
<1>3. QED
  BY <1>1, <1>2, DeleteKeeps, LookupKeeps, FetchKeeps, SecondariesKeeps DEF Proceed

LEMMA CurrentNext == CurrentInv /\ [Next]_vars => CurrentInv'
<1> SUFFICES ASSUME CurrentInv, [Next]_vars
             PROVE  CurrentInv'
  OBVIOUS
<1>1. CASE UNCHANGED vars
  <2>1. entries' \subseteq Entry
    BY <1>1 DEF vars, CurrentInv, TypeOK, Entry
  <2>2. QED
    BY <1>1, <2>1, CacheStepKeeps DEF vars
<1>2. QED
  BY <1>1, CallKeeps, ProceedKeeps, TickKeeps, SweepKeeps DEF Next

\* Whatever a search, an add or a delete of any number of threads leaves in
\* the cache under the id of a stored record is that record (add, delete_by_id
\* and resolve_records_with_cache), for ids that no delete and other call were
\* about at once and no other duplicate was cached under.
THEOREM EntriesStayCurrent == Spec => []EntriesAreCurrent
<1>1. CurrentInv => EntriesAreCurrent
  <2> SUFFICES ASSUME CurrentInv, NEW e \in entries, NEW r \in rows, e.id = r.id, r.id \notin mixed
               PROVE  e.doc.ts = r.ts
    BY DEF EntriesAreCurrent
  <2>1. PICK s \in rows : s.id = e.id /\ s.ts = e.doc.ts
    BY DEF CurrentInv, EntryInv
  <2>2. s = r
    BY <2>1 DEF CurrentInv, RowsInv
  <2>3. QED
    BY <2>1, <2>2
<1>2. QED
  BY <1>1, CurrentInit, CurrentNext, PTL DEF Spec

-----------------------------------------------------------------------------
(* The capacity. *)

SizeInv == IsFiniteSet(entries) /\ CacheBounded

\* A step that leaves no more entries than there were.
LEMMA NoMore ==
    ASSUME SizeInv, IsFiniteSet(entries'), Cardinality(entries') <= Cardinality(entries)
    PROVE  SizeInv'
<1>1. Cardinality(entries) \in Nat /\ Cardinality(entries') \in Nat /\ Capacity \in Nat
  BY FS_CardinalityType, RecordCacheAssumption DEF SizeInv
<1>2. QED
  BY <1>1 DEF SizeInv, CacheBounded

LEMMA SomeGo ==
    ASSUME SizeInv, entries' \subseteq entries
    PROVE  SizeInv'
BY FS_Subset, NoMore DEF SizeInv

\* One more entry, for one that goes or where there is room for it.
LEMMA OneMore ==
    ASSUME SizeInv, NEW base \in SUBSET entries, NEW new, entries' = base \cup {new},
           \/ base = {}
           \/ Cardinality(base) < Capacity
           \/ Cardinality(base) < Cardinality(entries)
    PROVE  SizeInv'
<1>1. IsFiniteSet(base) /\ Cardinality(base) \in Nat
  BY FS_Subset, FS_CardinalityType DEF SizeInv
<1>2. /\ IsFiniteSet(entries') /\ Cardinality(entries') \in Nat
      /\ Cardinality(entries') <= Cardinality(base) + 1
  <2>1. /\ IsFiniteSet(base \cup {new})
        /\ Cardinality(base \cup {new}) =
              IF new \in base THEN Cardinality(base) ELSE Cardinality(base) + 1
    BY <1>1, FS_AddElement
  <2>2. Cardinality(base \cup {new}) <= Cardinality(base) + 1
    BY <1>1, <2>1
  <2>3. QED
    BY <2>1, <2>2, FS_CardinalityType
<1>3. Cardinality(entries) \in Nat /\ Capacity \in Nat
  BY FS_CardinalityType, RecordCacheAssumption DEF SizeInv
<1>4. CASE base = {}
  <2>1. Cardinality(base) = 0
    BY <1>4, FS_EmptySet
  <2>2. Cardinality(entries') # 0
    BY <1>2, FS_EmptySet
  <2>3. QED
    BY <1>2, <2>1, <2>2 DEF SizeInv, CacheBounded
<1>5. CASE Cardinality(base) < Capacity
  BY <1>1, <1>2, <1>3, <1>5 DEF SizeInv, CacheBounded
<1>6. CASE Cardinality(base) < Cardinality(entries)
  <2>1. Cardinality(entries') <= Cardinality(entries)
    BY <1>1, <1>2, <1>3, <1>6
  <2>2. QED
    BY <1>2, <2>1, NoMore
<1>7. QED
  BY <1>4, <1>5, <1>6

LEMMA InsertStays ==
    ASSUME SizeInv, NEW id, NEW ts, NEW doc, entries' \in Inserted(id, ts, doc)
    PROVE  SizeInv'
<1> DEFINE new == [id |-> id, ts |-> ts, doc |-> doc, left |-> Ttl]
           others == {e \in entries : e.id # id \/ e.ts # ts}
           live == {e \in entries : Live(e)}
<1>1. IsFiniteSet(live) /\ Cardinality(live) <= Cardinality(entries)
  BY FS_Subset DEF SizeInv
<1>2. others \in SUBSET entries /\ live \in SUBSET entries
  OBVIOUS
<1>3. others # entries => Cardinality(others) < Cardinality(entries)
  <2>1. /\ Cardinality(others) <= Cardinality(entries)
        /\ Cardinality(others) = Cardinality(entries) => others = entries
    BY <1>2, FS_Subset DEF SizeInv
  <2>2. Cardinality(others) \in Nat /\ Cardinality(entries) \in Nat
    BY <1>2, FS_Subset, FS_CardinalityType DEF SizeInv
  <2>3. QED
    BY <2>1, <2>2
<1>4. \/ /\ others # entries \/ Cardinality(entries) < Capacity
         /\ entries' = others \cup {new}
      \/ /\ Cardinality(live) < Capacity \/ live = {}
         /\ entries' = live \cup {new}
      \/ \E e \in live : entries' = (live \ {e}) \cup {new}
  BY DEF Inserted
<1> HIDE DEF new, others, live
<1>5. CASE others # entries /\ entries' = others \cup {new}
  BY <1>2, <1>3, <1>5, OneMore
<1>6. CASE others = entries /\ Cardinality(entries) < Capacity /\ entries' = others \cup {new}
  BY <1>2, <1>6, OneMore
<1>7. CASE (Cardinality(live) < Capacity \/ live = {}) /\ entries' = live \cup {new}
  BY <1>2, <1>7, OneMore
<1>8. ASSUME NEW e \in live, entries' = (live \ {e}) \cup {new}
      PROVE  SizeInv'
  <2>1. live \ {e} \in SUBSET entries
    BY <1>2
  <2>2. Cardinality(live \ {e}) = Cardinality(live) - 1
    BY <1>1, FS_RemoveElement
  <2>3. Cardinality(live) \in Nat /\ Cardinality(entries) \in Nat
    BY <1>1, FS_CardinalityType DEF SizeInv
  <2>4. Cardinality(live \ {e}) < Cardinality(entries)
    BY <1>1, <2>2, <2>3
  <2>5. QED
    BY <1>8, <2>1, <2>4, OneMore
<1>9. QED
  BY <1>4, <1>5, <1>6, <1>7, <1>8

LEMMA TickStays ==
    ASSUME SizeInv, Tick
    PROVE  SizeInv'
<1> DEFINE f == [e \in entries |-> Aged(e)]
<1>1. entries' = {Aged(e) : e \in entries}
  BY DEF Tick, Aged
<1>2. f \in Surjection(entries, entries')
  BY <1>1 DEF Surjection
<1>3. IsFiniteSet(entries') /\ Cardinality(entries') <= Cardinality(entries)
  BY <1>2, FS_Surjection DEF SizeInv
<1>4. QED
  BY <1>3, NoMore

LEMMA SizeNext == SizeInv /\ [Next]_vars => SizeInv'
<1> SUFFICES ASSUME SizeInv, [Next]_vars
             PROVE  SizeInv'
  OBVIOUS
<1>1. CASE entries' \subseteq entries
  BY <1>1, SomeGo
<1>2. ASSUME NEW w \in Workers, Call(w)
      PROVE  entries' \subseteq entries
  BY <1>2 DEF Call, AddPrimary, AddSecondary, AddDuplicate, Forget, SearchFts, SearchVector, Begin
<1>3. ASSUME NEW w \in Workers, Delete(w) \/ Lookup(w) \/ Fetch(w) \/ FetchSecondaries(w)
      PROVE  entries' \subseteq entries
  BY <1>3 DEF Delete, Lookup, Fetch, FetchSecondaries
<1>4. ASSUME NEW w \in Workers, FillEntry(w) \/ Keep(w)
      PROVE  SizeInv'
  BY <1>4, InsertStays DEF FillEntry, Keep
<1>5. CASE Sweep \/ UNCHANGED vars
  BY <1>1, <1>5 DEF Sweep, vars
<1>6. QED
  BY <1>1, <1>2, <1>3, <1>4, <1>5, TickStays DEF Next, Proceed

\* The cache never holds more than its capacity, in whatever order the inserts
\* of any number of threads, the cleanup thread and the clock take turns; one
\* of capacity zero holds the last insert (JsonCache::insert).
THEOREM CacheStaysInBounds == Spec => []CacheBounded
<1>1. Init => SizeInv
  <2>1. Capacity \in Nat
    BY RecordCacheAssumption
  <2>2. QED
    BY <2>1, FS_EmptySet DEF Init, SizeInv, CacheBounded
<1>2. SizeInv => CacheBounded
  BY DEF SizeInv
<1>3. QED
  BY <1>1, <1>2, SizeNext, PTL DEF Spec

=============================================================================
