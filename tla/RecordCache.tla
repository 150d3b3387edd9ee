---------------------------- MODULE RecordCache ----------------------------
(***************************************************************************)
(* The in-memory JSON cache (common/cache_json.rs) and the ShardsManager   *)
(* calls that fill, read and empty it: add, delete_by_id, search_fts with  *)
(* resolve_records_with_cache, and the vector searches.                    *)
(*                                                                         *)
(* The shards are one set of rows here: what a store or a delete does in   *)
(* them step by step is the subject of Observability and ShardHandles.     *)
(* update is delete_by_id followed by add, on the same thread.             *)
(***************************************************************************)
EXTENDS Naturals, FiniteSets

CONSTANTS
    Ids, Times,         \* record ids and event timestamps
    CallerIds,          \* ids a caller may supply again after a delete
    Workers,            \* threads that call the manager
    Calls,              \* the calls they make
    Capacity, Ttl       \* of the cache

ASSUME RecordCacheAssumption ==
    /\ CallerIds \subseteq Ids
    /\ Calls \subseteq {"add", "secondary", "duplicate", "search", "vector", "delete"}
    /\ Capacity \in Nat /\ Ttl \in Nat

VARIABLES
    rows,       \* stored records: [id, ts, primary]
    links,      \* <<primary id, secondary id>>
    entries,    \* of the cache: [id, ts, doc, left]; left is the time to live
    work,       \* what each thread is doing
    used,       \* ids given out
    mixed       \* history: ids that a delete and another call were about at
                \* once, or that a duplicate was cached under

vars == <<rows, links, entries, work, used, mixed>>

\* A document as returned to a caller: its timestamp and its secondaries.
Docs == [ts : Times, secondaries : SUBSET Ids]

Idle == [pc |-> "idle"]
Return(w) == work' = [work EXCEPT ![w] = Idle]

TypeOK ==
    /\ rows \subseteq [id : Ids, ts : Times, primary : BOOLEAN]
    /\ links \subseteq Ids \X Ids
    /\ entries \subseteq [id : Ids, ts : Times, doc : Docs, left : 0..Ttl]
    /\ used \cup mixed \subseteq Ids

Stored(id) == \E r \in rows : r.id = id
Live(e) == e.left > 0

\* Some thread is at work on this record, or is deleting it.
Busy(id) == \E w \in Workers : work[w] # Idle /\ work[w].id = id
BeingDeleted(id) == \E w \in Workers : work[w].pc = "delete" /\ work[w].id = id

Mix(id, cond) == mixed' = IF cond THEN mixed \cup {id} ELSE mixed

-----------------------------------------------------------------------------
(* JsonCache *)

\* Drops what has expired, and nothing else.
SlipInserted(id, ts, doc) ==
    {{e \in entries : Live(e)} \cup {[id |-> id, ts |-> ts, doc |-> doc, left |-> Ttl]}}

\* insert.  A full cache drops what has expired and then, if that was not
\* enough, an entry picked at random.
Inserted(id, ts, doc) ==
    LET new    == [id |-> id, ts |-> ts, doc |-> doc, left |-> Ttl]
        others == {e \in entries : e.id # id \/ e.ts # ts}
        live   == {e \in entries : Live(e)}
    IN  IF others # entries \/ Cardinality(entries) < Capacity THEN {others \cup {new}}
        ELSE IF Cardinality(live) < Capacity \/ live = {} THEN {live \cup {new}}
        ELSE {(live \ {e}) \cup {new} : e \in live}

\* Wakes up but never reaches its interval.
SlipSweep == entries # {} /\ UNCHANGED vars

\* The background thread, and evict_expired.
Sweep ==
    /\ \E e \in entries : ~Live(e)
    /\ entries' = {e \in entries : Live(e)}
    /\ UNCHANGED <<rows, links, work, used, mixed>>

Tick ==
    /\ \E e \in entries : Live(e)
    /\ entries' = {[e EXCEPT !.left = IF @ > 0 THEN @ - 1 ELSE 0] : e \in entries}
    /\ UNCHANGED <<rows, links, work, used, mixed>>

-----------------------------------------------------------------------------
(* add *)

\* The submitted document, with the id it was given, is to be cached.
Fill(w, id, ts) ==
    work' = [work EXCEPT ![w] = [pc |-> "fill", id |-> id, ts |-> ts,
                                 doc |-> [ts |-> ts, secondaries |-> {}]]]

Fresh(id) == id \notin used \/ (id \in CallerIds /\ ~Stored(id))

\* The shard stores the document as a primary.
AddPrimary(w, id, ts) ==
    /\ "add" \in Calls
    /\ work[w] = Idle
    /\ Fresh(id)
    /\ rows' = rows \cup {[id |-> id, ts |-> ts, primary |-> TRUE]}
    /\ used' = used \cup {id}
    /\ Fill(w, id, ts)
    /\ UNCHANGED <<links, entries, mixed>>

\* The shard links it to the nearest primary.
AddSecondary(w, id, ts, p) ==
    /\ "secondary" \in Calls
    /\ work[w] = Idle
    /\ Fresh(id)
    /\ p.primary
    /\ rows' = rows \cup {[id |-> id, ts |-> ts, primary |-> FALSE]}
    /\ links' = links \cup {<<p.id, id>>}
    /\ used' = used \cup {id}
    /\ Fill(w, id, ts)
    /\ UNCHANGED <<entries, mixed>>

\* The shard has the same key and data already, and returns that record's id.
AddDuplicate(w, r, ts) ==
    /\ "duplicate" \in Calls
    /\ work[w] = Idle
    /\ Fill(w, r.id, ts)
    /\ Mix(r.id, ts # r.ts \/ BeingDeleted(r.id))
    /\ UNCHANGED <<rows, links, entries, used>>

FillEntry(w) ==
    /\ work[w].pc = "fill"
    /\ entries' \in Inserted(work[w].id, work[w].ts, work[w].doc)
    /\ Return(w)
    /\ UNCHANGED <<rows, links, used, mixed>>

-----------------------------------------------------------------------------
(* delete_by_id: the cache first, the shards after it. *)

\* Leaves the cache alone.
SlipForget(w, id) ==
    /\ "delete" \in Calls
    /\ work[w] = Idle
    /\ Stored(id)
    /\ work' = [work EXCEPT ![w] = [pc |-> "delete", id |-> id]]
    /\ Mix(id, Busy(id))
    /\ UNCHANGED <<rows, links, entries, used>>

Forget(w, id) ==
    /\ "delete" \in Calls
    /\ work[w] = Idle
    /\ Stored(id)
    /\ entries' = {e \in entries : e.id # id}
    /\ work' = [work EXCEPT ![w] = [pc |-> "delete", id |-> id]]
    /\ Mix(id, Busy(id))
    /\ UNCHANGED <<rows, links, used>>

Delete(w) ==
    /\ work[w].pc = "delete"
    /\ rows' = {r \in rows : r.id # work[w].id}
    /\ links' = {l \in links : l[1] # work[w].id /\ l[2] # work[w].id}
    /\ Return(w)
    /\ UNCHANGED <<entries, used, mixed>>

-----------------------------------------------------------------------------
(* Searches, about one record that the index of a shard returns.           *)

\* The columns of the link table taken the other way round.
SlipSecondaries(id) == {l[1] : l \in {m \in links : m[2] = id}}

Secondaries(id) == {l[2] : l \in {m \in links : m[1] = id}}

Begin(w, r, pc) ==
    /\ work[w] = Idle
    /\ r.primary
    /\ work' = [work EXCEPT ![w] = [pc |-> pc, id |-> r.id]]
    /\ Mix(r.id, BeingDeleted(r.id))
    /\ UNCHANGED <<rows, links, entries, used>>

\* search_fts looks the id up in the cache first.
SearchFts(w, r) == "search" \in Calls /\ Begin(w, r, "lookup")

\* The vector searches read the shard and only write the cache.
SearchVector(w, r) == "vector" \in Calls /\ Begin(w, r, "fetch")

\* get_by_id: expired entries of the id go, any live one is the answer.
Lookup(w) ==
    /\ work[w].pc = "lookup"
    /\ LET mine == {e \in entries : e.id = work[w].id}
       IN  /\ entries' = {e \in entries : e \in mine => Live(e)}
           /\ IF \E e \in mine : Live(e)
              THEN Return(w)
              ELSE work' = [work EXCEPT ![w].pc = "fetch"]
    /\ UNCHANGED <<rows, links, used, mixed>>

\* get_by_ids: a record deleted meanwhile is left out of the results.
Fetch(w) ==
    /\ work[w].pc = "fetch"
    /\ \/ /\ ~Stored(work[w].id)
          /\ Return(w)
       \/ \E r \in rows :
             /\ r.id = work[w].id
             /\ work' = [work EXCEPT ![w] = [pc |-> "secondaries", id |-> r.id, ts |-> r.ts]]
    /\ UNCHANGED <<rows, links, entries, used, mixed>>

\* get_secondaries_batch, then the insert of the assembled document.
FetchSecondaries(w) ==
    /\ work[w].pc = "secondaries"
    /\ work' = [work EXCEPT ![w] =
                  [pc |-> "keep", id |-> work[w].id,
                   doc |-> [ts |-> work[w].ts, secondaries |-> Secondaries(work[w].id)]]]
    /\ UNCHANGED <<rows, links, entries, used, mixed>>

Keep(w) ==
    /\ work[w].pc = "keep"
    /\ entries' \in Inserted(work[w].id, work[w].doc.ts, work[w].doc)
    /\ Return(w)
    /\ UNCHANGED <<rows, links, used, mixed>>

-----------------------------------------------------------------------------
Init ==
    /\ rows = {} /\ links = {} /\ entries = {} /\ used = {} /\ mixed = {}
    /\ work = [w \in Workers |-> Idle]

Proceed(w) ==
    \/ FillEntry(w) \/ Delete(w)
    \/ Lookup(w) \/ Fetch(w) \/ FetchSecondaries(w) \/ Keep(w)

Call(w) ==
    \/ \E id \in Ids, ts \in Times :
          \/ AddPrimary(w, id, ts)
          \/ \E p \in rows : AddSecondary(w, id, ts, p)
    \/ \E r \in rows, ts \in Times : AddDuplicate(w, r, ts)
    \/ \E id \in Ids : Forget(w, id)
    \/ \E r \in rows : SearchFts(w, r) \/ SearchVector(w, r)

Next ==
    \/ \E w \in Workers : Call(w) \/ Proceed(w)
    \/ Tick \/ Sweep

Spec == Init /\ [][Next]_vars

\* Threads finish their calls, time passes and the cleanup thread runs.
FairSpec ==
    /\ Spec
    /\ \A w \in Workers : WF_vars(Proceed(w))
    /\ WF_vars(Tick) /\ WF_vars(Sweep)

-----------------------------------------------------------------------------
\* The cache never holds more than its capacity, whoever fills it at the
\* same time; a capacity of zero still holds the last insert.
CacheBounded == Cardinality(entries) <= Capacity \/ Cardinality(entries) = 1

\* What is cached under the id of a stored record is that record, not one
\* that had the id before it was replaced, unless a delete of the record met
\* another call about it or a duplicate of it was submitted.
EntriesAreCurrent ==
    \A e \in entries, r \in rows :
        Live(e) /\ e.id = r.id => e.doc.ts = r.ts \/ r.id \in mixed

Filling(id) == \E w \in Workers : work[w].pc = "fill" /\ work[w].id = id

\* A secondary that stays linked is listed by whatever is cached of its
\* primary, sooner or later (SHARDSMANAGER.md, search_fts: "a secondaries
\* array containing every secondary linked to that primary").  What was cached
\* before the link was made does not list it, nor does what every further
\* submission of the primary puts in the cache.
SecondariesShowUp ==
    \A p, id \in Ids :
        <>[](<<p, id>> \in links /\ ~Filling(p))
            => <>[](\A e \in entries : e.id = p => id \in e.doc.secondaries)

\* A deleted record is out of the cache for good sooner or later, even if a
\* search that had read it before puts it back after the delete.
DeletedFades ==
    \A id \in Ids \ CallerIds :
        (id \in used /\ ~Stored(id)) ~> [](\A e \in entries : e.id # id)

=============================================================================
