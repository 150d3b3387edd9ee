------------------------------ MODULE Documents ------------------------------
(***************************************************************************)
(* Document storage (documentstorage.rs, datastorage.rs): a row of         *)
(* metadata (metadata.db), a row of content (blobs.db) and two entries in  *)
(* one vector index, "<id>:meta" and "<id>:content", for every document.   *)
(* The document, signal, script and template stores are all of this kind.  *)
(*                                                                         *)
(* Rows are on disk when their statement commits.  The index is in memory  *)
(* and reaches the disk with sync() only.  A call is the sequence of its   *)
(* statements; other threads' statements come between them.                *)
(***************************************************************************)
EXTENDS Naturals, FiniteSets, Sequences, Functions

CONSTANTS
    Ids,                \* documents, in the order in which ids are generated
    MaxVersion,         \* versions of a metadata record or of a content
    MaxCalls,           \* calls and restarts of a behaviour
    MaxChunks,          \* of a file
    Workers,            \* threads that run a call
    Calls,              \* the calls they make
    Events              \* what befalls the process

None     == 0
Versions == 1..MaxVersion
Slots    == {"meta", "content"}

ASSUME DocumentsAssumption ==
    /\ Ids \subseteq Nat /\ None \notin Ids /\ IsFiniteSet(Ids)
    /\ MaxVersion \in Nat \ {0} /\ MaxCalls \in Nat /\ MaxChunks \in Nat
    /\ Calls \subseteq {"add", "vectors", "batch", "file", "update", "revise",
                        "delete", "reindex", "sync"}
    /\ Events \subseteq {"crash", "failure"}

VARIABLES
    rows,       \* metadata.db and blobs.db: the version of <<id, slot>>, or None
    chunks,     \* the ids a metadata record lists under "chunks"
    frequency,  \* ids in frequency.db
    vectors,    \* the index in memory: the version that was embedded
    saved,      \* the index on disk
    work        \* what each thread is doing

\* History: calls and restarts so far; how the last call about an id ended;
\* ids that were synced since; ids that two calls have been busy with at once;
\* ids whose deletion was asked for.
VARIABLES begun, fate, kept, mixed, doomed

stores  == <<rows, chunks, frequency, vectors, saved>>
history == <<begun, fate, kept, mixed, doomed>>
vars    == <<stores, work, history>>

Index == [Ids \X Slots -> Versions \cup {None}]
Fates == {"unused", "busy", "embedded", "stale", "deleted", "broken"}
Idle  == [ids |-> {}, todo |-> <<>>, fate |-> "unused"]

TypeOK ==
    /\ rows \in Index /\ vectors \in Index /\ saved \in Index
    /\ chunks \in [Ids -> SUBSET Ids]
    /\ frequency \subseteq Ids
    /\ fate \in [Ids -> Fates]
    /\ begun \in 0..MaxCalls
    /\ kept \subseteq Ids /\ mixed \subseteq Ids /\ doomed \subseteq Ids

-----------------------------------------------------------------------------
(* The calls, as the statements they consist of: op on the entry <<id,     *)
(* slot>> with version v.                                                  *)

Do(op, id, slot, v) == [op |-> op, id |-> id, slot |-> slot, v |-> v]

\* Both vectors are upserted under one lock.
AddDocument(id, v) ==
    << Do("insert", id, "meta", v), Do("insert", id, "content", v),
       Do("embed", id, "both", v), Do("observe", id, "none", v) >>

AddWithVectors(id, v) ==
    << Do("insert", id, "meta", v), Do("insert", id, "content", v),
       Do("upsert", id, "meta", v), Do("upsert", id, "content", v),
       Do("observe", id, "none", v) >>

\* add_document_no_embed, then embed_documents_batch for what was added.
AddThenEmbed(id, v) ==
    << Do("insert", id, "meta", v), Do("insert", id, "content", v),
       Do("observe", id, "none", v), Do("embed", id, "both", v) >>

AddChunk(id, v) ==
    << Do("insert", id, "content", v), Do("insert", id, "meta", v),
       Do("upsert", id, "content", v), Do("upsert", id, "meta", v) >>

\* One chunk after the other.
AddChunks(parts, v) ==
    [k \in 1..(4 * Len(parts)) |-> AddChunk(parts[(k - 1) \div 4 + 1], v)[((k - 1) % 4) + 1]]

AddRecord(id, v) == << Do("list", id, "meta", v), Do("upsert", id, "meta", v) >>

\* The document record goes first.
SlipAddFile(id, parts, v) ==
    AddRecord(id, v) \o AddChunks(parts, v) \o << Do("sync", None, "none", v) >>

\* Every chunk (an empty file has none), then the document record that lists them and has no content
\* of its own; the RPC method syncs at the end.
AddFile(id, parts, v) ==
    AddChunks(parts, v) \o AddRecord(id, v) \o << Do("sync", None, "none", v) >>

Update(id, slot, v) == << Do("update", id, slot, v) >>

\* The document is read before it is updated.
SlipRevise(id, slot, v) ==
    << Do("read", id, "meta", None), Do("update", id, slot, v),
       Do("read", id, "content", None) >>

\* Shard::tpl_update_metadata and tpl_update_body: an update, and then
\* reembed_document, which reads both rows and embeds what it read.
Revise(id, slot, v) ==
    << Do("update", id, slot, v),
       Do("read", id, "meta", None), Do("read", id, "content", None) >>

\* The content's vector is forgotten.
SlipDelete(id) ==
    << Do("drop", id, "meta", None), Do("drop", id, "content", None),
       Do("remove", id, "meta", None), Do("forget", id, "none", None) >>

Delete(id) ==
    << Do("drop", id, "meta", None), Do("drop", id, "content", None),
       Do("remove", id, "meta", None), Do("remove", id, "content", None),
       Do("forget", id, "none", None) >>

\* The metadata to be embedded are those of the listing; the contents are
\* read when their turn comes.  Listings are in no particular order.
Reindex(order) ==
    [k \in 1..(2 * Len(order)) |->
        LET id == order[(k - 1) \div 2 + 1]
        IN  IF k % 2 = 1 THEN Do("upsert", id, "meta", rows[<<id, "meta">>])
            ELSE Do("read", id, "content", None)]
    \o << Do("sync", None, "none", None) >>

-----------------------------------------------------------------------------
(* A thread takes up a call.                                               *)

Busy(id) == {w \in Workers : id \in work[w].ids}

Counted == begun < MaxCalls /\ begun' = begun + 1

Take(w, ids, todo, end) ==
    /\ work[w] = Idle
    /\ work' = [work EXCEPT ![w] = [ids |-> ids, todo |-> todo, fate |-> end]]
    /\ fate' = [id \in Ids |-> IF id \in ids THEN "busy" ELSE fate[id]]
    /\ kept' = kept \ ids
    /\ mixed' = mixed \cup {id \in ids : Busy(id) # {}}
    /\ Counted
    /\ UNCHANGED stores

Fresh(id) == fate[id] = "unused" /\ \A j \in Ids : j < id => fate[j] # "unused"

BeginAdd(w) ==
    \E id \in Ids :
        /\ Fresh(id)
        /\ \/ "add" \in Calls /\ Take(w, {id}, AddDocument(id, 1), "embedded")
           \/ "vectors" \in Calls /\ Take(w, {id}, AddWithVectors(id, 1), "embedded")
           \/ "batch" \in Calls /\ Take(w, {id}, AddThenEmbed(id, 1), "embedded")
           \/ /\ "file" \in Calls
              /\ \E n \in 0..MaxChunks :
                    LET parts == [k \in 1..n |-> id + k]
                    IN  /\ id..(id + n) \subseteq Ids
                        /\ Take(w, id..(id + n), AddFile(id, parts, 1), "embedded")
        /\ UNCHANGED doomed

\* The other calls are about documents that a listing or a search may return.
Listed == {id \in Ids : rows[<<id, "meta">>] # None}

BeginUpdate(w) ==
    \E id \in Listed, slot \in Slots : \E v \in (rows[<<id, slot>>] + 1)..MaxVersion :
        /\ \/ "update" \in Calls /\ Take(w, {id}, Update(id, slot, v), "stale")
           \/ "revise" \in Calls /\ Take(w, {id}, Revise(id, slot, v), "embedded")
        /\ UNCHANGED doomed

BeginDelete(w) ==
    \E id \in Listed :
        /\ "delete" \in Calls
        /\ Take(w, {id}, Delete(id), "deleted")
        /\ doomed' = doomed \cup {id}

BeginReindex(w) ==
    \E order \in Bijection(1..Cardinality(Listed), Listed) :
        /\ "reindex" \in Calls
        /\ Take(w, Listed, Reindex(order), "embedded")
        /\ UNCHANGED doomed

BeginSync(w) ==
    /\ "sync" \in Calls
    /\ Take(w, {}, << Do("sync", None, "none", None) >>, "unused")
    /\ UNCHANGED doomed

-----------------------------------------------------------------------------
(* One statement of a call.                                                *)

Next1(w, op) == work[w].todo # <<>> /\ Head(work[w].todo).op = op
Now(w)  == Head(work[w].todo)
At(w)   == <<Now(w).id, Now(w).slot>>

\* The call ends; ids that it shared with another one are in no known state.
End(w, end) ==
    LET ended == {id \in work[w].ids : Busy(id) = {w}} IN
    /\ work' = [work EXCEPT ![w] = Idle]
    /\ fate' = [id \in Ids |-> IF id \notin ended THEN fate[id]
                               ELSE IF id \in mixed THEN "broken" ELSE end]
    /\ mixed' = mixed \ ended
    /\ UNCHANGED <<begun, doomed>>

Continue(w, todo) ==
    IF todo = <<>> THEN End(w, work[w].fate)
    ELSE /\ work' = [work EXCEPT ![w].todo = todo]
         /\ UNCHANGED <<begun, fate, mixed, doomed>>

Proceed(w) == Continue(w, Tail(work[w].todo)) /\ UNCHANGED kept

InsertRow(w) ==
    /\ Next1(w, "insert")
    /\ rows' = [rows EXCEPT ![At(w)] = Now(w).v]
    /\ Proceed(w) /\ UNCHANGED <<chunks, frequency, vectors, saved>>

InsertRecord(w) ==
    /\ Next1(w, "list")
    /\ rows' = [rows EXCEPT ![At(w)] = Now(w).v]
    /\ chunks' = [chunks EXCEPT ![Now(w).id] = work[w].ids \ {Now(w).id}]
    /\ Proceed(w) /\ UNCHANGED <<frequency, vectors, saved>>

\* UPDATE of a row that is not there changes nothing.  New metadata replace
\* the old ones, the list of chunks included.
UpdateRow(w) ==
    /\ Next1(w, "update")
    /\ IF rows[At(w)] = None THEN UNCHANGED <<rows, chunks>>
       ELSE /\ rows' = [rows EXCEPT ![At(w)] = Now(w).v]
            /\ chunks' = IF Now(w).slot = "meta" THEN [chunks EXCEPT ![Now(w).id] = {}]
                         ELSE chunks
    /\ Proceed(w) /\ UNCHANGED <<frequency, vectors, saved>>

DropRow(w) ==
    /\ Next1(w, "drop")
    /\ rows' = [rows EXCEPT ![At(w)] = None]
    /\ chunks' = IF Now(w).slot = "meta" THEN [chunks EXCEPT ![Now(w).id] = {}] ELSE chunks
    /\ Proceed(w) /\ UNCHANGED <<frequency, vectors, saved>>

\* store_documents_batch, or store_document and store_vector.
Upsert(w) ==
    /\ Next1(w, "embed") \/ Next1(w, "upsert")
    /\ vectors' = [e \in Ids \X Slots |->
                     IF e[1] = Now(w).id /\ Now(w).slot \in {e[2], "both"}
                     THEN Now(w).v ELSE vectors[e]]
    /\ Proceed(w) /\ UNCHANGED <<rows, chunks, frequency, saved>>

RemoveVector(w) ==
    /\ Next1(w, "remove")
    /\ vectors' = [vectors EXCEPT ![At(w)] = None]
    /\ Proceed(w) /\ UNCHANGED <<rows, chunks, frequency, saved>>

\* get_json or get_blob: what was read is embedded next, if anything was.
ReadRow(w) ==
    /\ Next1(w, "read")
    /\ Continue(w, (IF rows[At(w)] = None THEN <<>>
                    ELSE << Do("upsert", Now(w).id, Now(w).slot, rows[At(w)]) >>)
                   \o Tail(work[w].todo))
    /\ UNCHANGED <<stores, kept>>

Count(w) ==
    /\ Next1(w, "observe") \/ Next1(w, "forget")
    /\ frequency' = IF Now(w).op = "observe" THEN frequency \cup {Now(w).id}
                    ELSE frequency \ {Now(w).id}
    /\ Proceed(w) /\ UNCHANGED <<rows, chunks, vectors, saved>>

\* What was embedded or deleted by now will survive a restart.
Sync(w) ==
    /\ Next1(w, "sync")
    /\ saved' = vectors
    /\ Continue(w, Tail(work[w].todo))
    /\ kept' = {id \in Ids : fate'[id] \in {"embedded", "deleted"}}
    /\ UNCHANGED <<rows, chunks, frequency, vectors>>

-----------------------------------------------------------------------------
\* A statement fails, or the embedding does: the call ends there, and what
\* it has stored stays.
Fail(w) ==
    /\ "failure" \in Events
    /\ work[w].todo # <<>>
    /\ End(w, "broken")
    /\ kept' = kept \ work[w].ids
    /\ UNCHANGED stores

\* The process starts again with the index that was saved.  An orderly stop
\* is no different: sync_db() goes through the shards only.
Restart ==
    /\ "crash" \in Events
    /\ vectors' = saved
    /\ work' = [w \in Workers |-> Idle]
    /\ fate' = [id \in Ids |->
                  IF fate[id] = "busy" \/ (fate[id] = "deleted" /\ id \notin kept) THEN "broken"
                  ELSE IF fate[id] = "embedded" /\ id \notin kept THEN "stale"
                  ELSE fate[id]]
    /\ mixed' = {} /\ kept' = {id \in kept : fate[id] # "busy"}
    /\ Counted
    /\ UNCHANGED <<rows, chunks, frequency, saved, doomed>>

Init ==
    /\ rows = [e \in Ids \X Slots |-> None]
    /\ vectors = rows /\ saved = rows
    /\ chunks = [id \in Ids |-> {}]
    /\ frequency = {}
    /\ work = [w \in Workers |-> Idle]
    /\ fate = [id \in Ids |-> "unused"]
    /\ begun = 0 /\ kept = {} /\ mixed = {} /\ doomed = {}

Next ==
    \/ \E w \in Workers :
          \/ BeginAdd(w) \/ BeginUpdate(w) \/ BeginDelete(w) \/ BeginReindex(w) \/ BeginSync(w)
          \/ InsertRow(w) \/ InsertRecord(w) \/ UpdateRow(w) \/ DropRow(w)
          \/ Upsert(w) \/ RemoveVector(w) \/ ReadRow(w) \/ Count(w) \/ Sync(w)
          \/ Fail(w)
    \/ Restart

Spec == Init /\ [][Next]_vars

-----------------------------------------------------------------------------
Current(id, index) == \A slot \in Slots : index[<<id, slot>>] = rows[<<id, slot>>]
Absent(id, index)  == \A slot \in Slots : index[<<id, slot>>] = None

\* Once an add, a re-embedding or a reindex of a document has returned, and
\* no other call was busy with it meanwhile, the index has its metadata and
\* its content as they are stored; and so does the index on disk, once a
\* sync has come after that.  Whatever state crashes and failed calls had
\* left the document in before.
EmbeddedIsFound ==
    \A id \in Ids : fate[id] = "embedded" =>
        Current(id, vectors) /\ (id \in kept => Current(id, saved))

\* Once delete_document has returned, and no other call was busy with the
\* document meanwhile, nothing of it is left in memory; nor, once a sync has
\* come after that, on disk: no restart brings it back into searches.
DeletedIsGone ==
    \A id \in Ids : fate[id] = "deleted" =>
        /\ Absent(id, rows) /\ Absent(id, vectors) /\ id \notin frequency
        /\ id \in kept => Absent(id, saved)

\* The record of a file is stored last: the chunks it lists exist, unless
\* somebody asked for their deletion, wherever the ingest of a file fails
\* or the process dies.
RecordsHaveTheirChunks ==
    \A id \in Ids : \A c \in chunks[id] \ doomed :
        \A slot \in Slots : rows[<<c, slot>>] # None

=============================================================================
