---------------------------- MODULE ShardHandles ----------------------------
(***************************************************************************)
(* Open shards and the calls that hold them (shardscache.rs, shard.rs,     *)
(* fts.rs, vectorengine.rs; delete and search of shardsmanager.rs).        *)
(*                                                                         *)
(* shard() gives out a clone; the clone keeps the shard's engines alive    *)
(* after the cache has evicted it, and the next shard() for the interval   *)
(* opens a second instance on the same directory.  The three stores of a   *)
(* directory differ in what reaches the disk and when:                     *)
(*   rows   DuckDB: on disk when the statement commits;                    *)
(*   fts    Tantivy: on disk with every call, by the one instance that     *)
(*          holds the index writer's directory lock, which an instance     *)
(*          takes at its first full-text call and keeps while it lives;    *)
(*   saved  VecStore: the whole file, written by sync() only.  An instance *)
(*          reads it at its first vector call and then works in memory.    *)
(* Every record is primary here; Observability has the classification.     *)
(***************************************************************************)
EXTENDS ShardsCache

CONSTANTS
    Records,            \* documents, told apart by (key, data)
    TimeOf,             \* their timestamps
    Workers,            \* threads that run an operation
    Instances,          \* names for live Shard instances
    Kinds,              \* operations taken up: add, batch, delete, search
    Events              \* what befalls the cache: sync, close, stop, crash

NoHandle   == 0
NoInstance == [key |-> <<>>, fts |-> FALSE, loaded |-> FALSE, vec |-> {}]
Idle       == [pc |-> "idle", inst |-> NoHandle]

ASSUME HandleAssumption ==
    /\ TimeOf \in [Records -> Times]
    /\ NoHandle \notin Instances
    /\ Kinds \subseteq {"add", "batch", "search", "delete", "delete_busy"}
    /\ Events \subseteq {"sync", "close", "stop", "crash"}
    \* delete_by_id and search_fts ask for the starts of shards
    /\ \A t \in Times, d \in Durations : CatalogRow(align_to_duration(t, d))[1] \in Times

VARIABLES
    inst,               \* the instances: key, fts opened, vectors in memory
    cached,             \* the instances in CacheInner.map
    work,               \* what each worker is doing, and with which handle
    syncing,            \* a running sync(): instances it holds, and has left
    rows, fts, saved,   \* what is in the stores: pairs <<key, record>>
    acked,              \* records whose add returned Ok
    deleted             \* records whose deletion was asked for

handleVars == <<inst, cached, work, syncing, rows, fts, saved, acked, deleted>>
hvars == <<vars, handleVars>>

Entry == Interval \X Records

Held(w, s) == {w[c].inst : c \in Workers} \cup s.held
Live == cached \cup Held(work, syncing)

\* An instance nobody holds any more is dropped: its directory lock is
\* released and vectors that were only in its memory are gone.
Settle(next) ==
    inst' = [i \in Instances |-> IF i \in cached' \cup Held(work', syncing')
                                 THEN next[i] ELSE NoInstance]

\* What the vector stores have on disk after sync() of some instances: each
\* writes its whole file, if it ever opened its store.  (The rest of
\* Shard::sync finds nothing to write: rows and full text are committed.)
Synced(is) ==
    LET writers == {i \in is : inst[i].loaded}
    IN  {e \in saved : \A i \in writers : inst[i].key # e[1]}
            \cup UNION {inst[i].vec : i \in writers}

-----------------------------------------------------------------------------
(* A call of shard(): what the cache does, and the handle it gives. *)

\* Shards that are pushed out of the map are synced; one that is replaced
\* under its own key is not.  A new instance takes a free name of Instances,
\* a bound of the model on how many are alive at once.
NewInstance == CHOOSE i \in Instances \ Live : TRUE

GetHit(t, key, i) ==
    /\ CacheHit(t, key)
    /\ i \in cached
    /\ inst[i].key = key
    /\ UNCHANGED <<cached, saved>>
    /\ Settle(inst)

\* Instances are pushed out without being synced.
SlipGetOpenNoSync(t, key, i) ==
    /\ Instances \ Live # {}
    /\ i = NewInstance
    /\ CatalogHit(t, key) \/ AutoCreate(t, key)
    /\ cached' = {j \in cached : inst[j].key \in open' \ {key}} \cup {i}
    /\ UNCHANGED saved
    /\ Settle([inst EXCEPT ![i] = [NoInstance EXCEPT !.key = key]])

GetOpen(t, key, i) ==
    /\ Instances \ Live # {}
    /\ i = NewInstance
    /\ CatalogHit(t, key) \/ AutoCreate(t, key)
    /\ cached' = {j \in cached : inst[j].key \in open' \ {key}} \cup {i}
    /\ saved' = Synced({j \in cached : inst[j].key \notin open'})
    /\ Settle([inst EXCEPT ![i] = [NoInstance EXCEPT !.key = key]])

\* Worker c calls shard(t) and goes on with `next', holding the handle.
Acquire(c, t, next) ==
    /\ UNCHANGED <<duration, span, syncing, rows, fts>>
    /\ \E key \in Candidates(t), i \in Instances :
          /\ work' = [work EXCEPT ![c] = [next EXCEPT !.inst = i]]
          /\ GetHit(t, key, i) \/ GetOpen(t, key, i)

-----------------------------------------------------------------------------
(* Engine calls through a handle. *)

Key(c) == inst[work[c].inst].key
Doc(c) == <<Key(c), work[c].rec>>

\* FTSEngine::ensure: the index writer is there, or Tantivy gives it out
\* because no other instance of the directory has one.
CanOpenFts(i) ==
    \A j \in Live \ {i, NoHandle} : inst[j].key = inst[i].key => ~inst[j].fts

\* The saved file is not read.
SlipVectorsStartEmpty(i) == inst[i].vec

\* VectorEngine::with_store: the vectors an instance works on, read from the
\* file the first time.
Vectors(i) ==
    IF inst[i].loaded THEN inst[i].vec ELSE {e \in saved : e[1] = inst[i].key}

FtsOpened(c) == [inst EXCEPT ![work[c].inst].fts = TRUE]
VecHolds(c, es) == [inst EXCEPT ![work[c].inst].loaded = TRUE,
                                ![work[c].inst].vec = es]

Goto(c, pc) == work' = [work EXCEPT ![c].pc = pc]
\* The call ends and drops its handle.
Done(c) == work' = [work EXCEPT ![c] = Idle]

\* A deletion that was asked for takes precedence over later answers.
Ack(r) == acked' = acked \cup ({r} \ deleted)

CacheUnchanged == UNCHANGED <<vars, cached, syncing>>

-----------------------------------------------------------------------------
(* ShardsManager::add and add_batch: shard(), then Shard::add stores the   *)
(* row, the full text and the vector; Shard::add_batch the row, the vector *)
(* and the full text.  A worker stands for a client that may ask again.    *)

AddBegin(c, r, kind) ==
    /\ work[c].pc = "idle"
    /\ kind \in Kinds \cap {"add", "batch"}
    /\ r \notin deleted
    /\ Acquire(c, TimeOf[r], [pc |-> "row", inst |-> NoHandle, rec |-> r, kind |-> kind])
    /\ UNCHANGED <<acked, deleted>>

\* ObservabilityStorage::add finds the (key, data) pair: Ok, not primary.
AddDuplicate(c) ==
    /\ work[c].pc = "row"
    /\ Doc(c) \in rows
    /\ Ack(work[c].rec)
    /\ Done(c)
    /\ CacheUnchanged /\ UNCHANGED <<rows, fts, saved, deleted>>
    /\ Settle(inst)

\* The record is indexed before, or without, being stored.
SlipAddRowLast(c) ==
    /\ work[c].pc = "row"
    /\ Doc(c) \notin rows
    /\ Goto(c, IF work[c].kind = "add" THEN "fts" ELSE "vec")
    /\ CacheUnchanged /\ UNCHANGED <<rows, fts, saved, acked, deleted>>
    /\ Settle(inst)

AddRow(c) ==
    /\ work[c].pc = "row"
    /\ Doc(c) \notin rows
    /\ rows' = rows \cup {Doc(c)}
    /\ Goto(c, IF work[c].kind = "add" THEN "fts" ELSE "vec")
    /\ CacheUnchanged /\ UNCHANGED <<fts, saved, acked, deleted>>
    /\ Settle(inst)

\* Shard::add_batch ends with the full text, Shard::add with the vector.
AddFts(c) ==
    /\ work[c].pc = "fts"
    /\ CanOpenFts(work[c].inst)
    /\ fts' = fts \cup {Doc(c)}
    /\ IF work[c].kind = "add"
       THEN Goto(c, "vec") /\ UNCHANGED acked
       ELSE Done(c) /\ Ack(work[c].rec)
    /\ CacheUnchanged /\ UNCHANGED <<rows, saved, deleted>>
    /\ Settle(FtsOpened(c))

AddVec(c) ==
    /\ work[c].pc = "vec"
    /\ IF work[c].kind = "batch"
       THEN Goto(c, "fts") /\ UNCHANGED acked
       ELSE Done(c) /\ Ack(work[c].rec)
    /\ CacheUnchanged /\ UNCHANGED <<rows, fts, saved, deleted>>
    /\ Settle(VecHolds(c, Vectors(work[c].inst) \cup {Doc(c)}))

\* The index writer's lock is held by another instance: the call returns Err
\* and leaves what it has stored so far.  Deletion and search end so, too.
FtsLocked(c) ==
    /\ work[c].pc \in {"fts", "drop", "search"}
    /\ ~CanOpenFts(work[c].inst)
    /\ Done(c)
    /\ CacheUnchanged /\ UNCHANGED <<rows, fts, saved, acked, deleted>>
    /\ Settle(inst)

-----------------------------------------------------------------------------
(* ShardsManager::delete_by_id: every shard of the catalog is opened in    *)
(* turn until one has the row; Shard::delete removes row, text and vector. *)

Quiet(r) == \A c \in Workers : "rec" \in DOMAIN work[c] => work[c].rec # r

\* The caller knows the id from the add that returned it.  That may be the
\* answer to a duplicate, while the first add is still storing the record:
\* only "delete_busy" takes this case up.
DeleteBegin(c, r) ==
    /\ ("delete" \in Kinds /\ Quiet(r)) \/ "delete_busy" \in Kinds
    /\ work[c].pc = "idle"
    /\ r \in acked
    /\ acked' = acked \ {r}
    /\ deleted' = deleted \cup {r}
    /\ work' = [work EXCEPT ![c] = [pc |-> "visit", inst |-> NoHandle, rec |-> r,
                                    todo |-> catalog]]
    /\ CacheUnchanged /\ UNCHANGED <<rows, fts, saved>>
    /\ Settle(inst)

DeleteVisit(c) ==
    /\ work[c].pc = "visit"
    /\ \E row \in FirstRows(work[c].todo) :
          Acquire(c, row[1], [work[c] EXCEPT !.pc = "look", !.todo = @ \ {row}])
    /\ UNCHANGED <<acked, deleted>>

DeleteMiss(c) ==
    /\ work[c].pc = "look"
    /\ Doc(c) \notin rows
    /\ IF work[c].todo = {} THEN Done(c)
       ELSE work' = [work EXCEPT ![c].pc = "visit", ![c].inst = NoHandle]
    /\ CacheUnchanged /\ UNCHANGED <<rows, fts, saved, acked, deleted>>
    /\ Settle(inst)

\* get, is_primary and delete_by_id: only another deletion of the same
\* record could come between them.
DeleteRow(c) ==
    /\ work[c].pc = "look"
    /\ Doc(c) \in rows
    /\ rows' = rows \ {Doc(c)}
    /\ Goto(c, "drop")
    /\ CacheUnchanged /\ UNCHANGED <<fts, saved, acked, deleted>>
    /\ Settle(inst)

\* The vector is forgotten.
SlipDeleteFtsOnly(c) ==
    /\ work[c].pc = "drop"
    /\ CanOpenFts(work[c].inst)
    /\ fts' = fts \ {Doc(c)}
    /\ Done(c)
    /\ CacheUnchanged /\ UNCHANGED <<rows, saved, acked, deleted>>
    /\ Settle(FtsOpened(c))

DeleteFts(c) ==
    /\ work[c].pc = "drop"
    /\ CanOpenFts(work[c].inst)
    /\ fts' = fts \ {Doc(c)}
    /\ Goto(c, "unvec")
    /\ CacheUnchanged /\ UNCHANGED <<rows, saved, acked, deleted>>
    /\ Settle(FtsOpened(c))

DeleteVec(c) ==
    /\ work[c].pc = "unvec"
    /\ Done(c)
    /\ CacheUnchanged /\ UNCHANGED <<rows, fts, saved, acked, deleted>>
    /\ Settle(VecHolds(c, Vectors(work[c].inst) \ {Doc(c)}))

-----------------------------------------------------------------------------
(* search_fts over one shard: opening the index takes the writer's lock,   *)
(* although nothing is written.                                            *)

SearchBegin(c) ==
    /\ "search" \in Kinds
    /\ work[c].pc = "idle"
    /\ \E row \in catalog :
          Acquire(c, row[1], [pc |-> "search", inst |-> NoHandle])
    /\ UNCHANGED <<acked, deleted>>

Search(c) ==
    /\ work[c].pc = "search"
    /\ CanOpenFts(work[c].inst)
    /\ Done(c)
    /\ CacheUnchanged /\ UNCHANGED <<rows, fts, saved, acked, deleted>>
    /\ Settle(FtsOpened(c))

-----------------------------------------------------------------------------
(* sync(): clones of all cached shards are taken under the lock and synced *)
(* one by one after it is released.                                        *)

NoSync == [held |-> {}, todo |-> {}]

SyncBegin ==
    /\ "sync" \in Events
    /\ syncing = NoSync
    /\ syncing' = [held |-> cached, todo |-> cached]
    /\ UNCHANGED <<vars, cached, work, rows, fts, saved, acked, deleted>>
    /\ Settle(inst)

SyncOne(i) ==
    /\ i \in syncing.todo
    /\ saved' = Synced({i})
    /\ syncing' = [syncing EXCEPT !.todo = @ \ {i}]
    /\ UNCHANGED <<vars, cached, work, rows, fts, acked, deleted>>
    /\ Settle(inst)

SyncEnd ==
    /\ syncing.todo = {} /\ syncing # NoSync
    /\ syncing' = NoSync
    /\ UNCHANGED <<vars, cached, work, rows, fts, saved, acked, deleted>>
    /\ Settle(inst)

-----------------------------------------------------------------------------
(* The ends: close() empties the cache; an orderly stop ends the requests  *)
(* and the sync task and calls sync() last; a crash just happens.          *)

CloseCache ==
    /\ "close" \in Events
    /\ Close
    /\ cached' = {}
    /\ saved' = Synced(cached)
    /\ UNCHANGED <<work, syncing, rows, fts, acked, deleted>>
    /\ Settle(inst)

Reopen ==
    /\ \E d \in Durations : Restart(d)
    /\ cached' = {}
    /\ work' = [c \in Workers |-> Idle]
    /\ syncing' = NoSync
    /\ UNCHANGED <<rows, fts, acked, deleted>>
    /\ Settle(inst)

Stop ==
    /\ "stop" \in Events
    /\ \A c \in Workers : work[c].pc = "idle"
    /\ syncing = NoSync
    /\ saved' = Synced(cached)
    /\ Reopen

Crash ==
    /\ "crash" \in Events
    /\ UNCHANGED saved
    /\ Reopen

HInit ==
    /\ Init
    /\ inst = [i \in Instances |-> NoInstance]
    /\ cached = {}
    /\ work = [c \in Workers |-> Idle]
    /\ syncing = NoSync
    /\ rows = {} /\ fts = {} /\ saved = {}
    /\ acked = {} /\ deleted = {}

WorkerStep(c) ==
    \/ \E r \in Records : \/ \E kind \in {"add", "batch"} : AddBegin(c, r, kind)
                          \/ DeleteBegin(c, r)
    \/ AddDuplicate(c) \/ AddRow(c) \/ AddFts(c) \/ AddVec(c)
    \/ FtsLocked(c)
    \/ DeleteVisit(c) \/ DeleteMiss(c) \/ DeleteRow(c)
    \/ DeleteFts(c) \/ DeleteVec(c)
    \/ SearchBegin(c) \/ Search(c)

HNext ==
    \/ \E c \in Workers : WorkerStep(c)
    \/ SyncBegin \/ SyncEnd
    \/ \E i \in Instances : SyncOne(i)
    \/ CloseCache \/ Stop \/ Crash

HSpec == HInit /\ [][HNext]_hvars

-----------------------------------------------------------------------------
HTypeOK ==
    /\ TypeOK
    /\ inst \in [Instances -> [key : Interval \cup {<<>>}, fts : BOOLEAN,
                               loaded : BOOLEAN, vec : SUBSET Entry]]
    /\ cached \subseteq Instances
    /\ \A c \in Workers : work[c].inst \in Instances \cup {NoHandle}
    /\ syncing \in [held : SUBSET Instances, todo : SUBSET Instances]
    /\ rows \subseteq Entry /\ fts \subseteq Entry /\ saved \subseteq Entry
    /\ acked \subseteq Records /\ deleted \subseteq Records

\* What an index can answer with: full text, saved vectors, and the vectors
\* of every instance, evicted ones included.
Indexed == fts \cup saved \cup UNION {inst[i].vec : i \in Instances}

\* A record is stored before it is indexed, by every path and across evicted
\* instances, errors and crashes: no index entry is without its record as
\* long as nothing is deleted.
IndexedHaveRows == deleted = {} => Indexed \subseteq rows

\* What a search through a new handle finds: full text is on disk; vectors
\* are those of the cached instance, or what it would load.
FoundByVector(e) ==
    IF \E i \in cached : inst[i].key = e[1]
    THEN \E i \in cached : inst[i].key = e[1] /\ e \in Vectors(i)
    ELSE e \in saved

\* An add that returned Ok can be found, by text and by meaning, once no
\* call is busy with the record.
AckedIsFound ==
    \A r \in acked : Quiet(r) =>
        \E key \in catalog : /\ <<key, r>> \in rows
                             /\ <<key, r>> \in fts
                             /\ FoundByVector(<<key, r>>)

\* A deleted record is found by neither, once no call is busy with it: not
\* after a sync() that began before the deletion, nor after a restart.
DeletedIsGone ==
    \A r \in deleted : Quiet(r) =>
        \A key \in catalog : <<key, r>> \notin fts /\ ~FoundByVector(<<key, r>>)

\* The entries a search by vector finds.
Found == {e \in Indexed : FoundByVector(e)}

\* A running sync() is still to write a shard that has left the map since it
\* took its clones.
StaleSync == \E i \in syncing.todo : i \notin cached

KeepsFound == {e \in Found : e[2] \notin deleted'} \subseteq Found'

\* What a search by vector finds it goes on finding: through the eviction of
\* its shard and the next opening, close(), orderly stops and starts, and
\* whatever calls do meanwhile with handles on evicted instances.  A crash
\* loses what no sync() wrote, a deletion takes its record away, and a sync()
\* that is about to write an evicted shard may put back an older file.
VectorsStayFound == [][StaleSync \/ KeepsFound \/ Crash]_hvars

=============================================================================
