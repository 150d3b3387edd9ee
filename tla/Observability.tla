--------------------------- MODULE Observability ---------------------------
(***************************************************************************)
(* ObservabilityStorage of one shard (observability.rs): deduplication,    *)
(* primary/secondary classification and deletion, run by several threads   *)
(* at once.  Every SQL statement is a step; classification holds the lock  *)
(* of the in-memory primary cache and is a step; so is the transaction     *)
(* that ends add_batch.                                                    *)
(*                                                                         *)
(* A record's content stands for its (key, data_text) pair, which also     *)
(* determines its embedding.  Two contents are Similar when the cosine of  *)
(* their embeddings reaches the threshold.                                 *)
(***************************************************************************)
EXTENDS Naturals, Sequences, FiniteSets

CONSTANTS
    Contents,           \* (key, data_text) pairs
    Similar,            \* pairs of contents at or above the threshold
    Ids,                \* record ids
    CallerIds,          \* those that callers may supply in the "id" field
    Workers,            \* threads
    MaxBatch,           \* longest batch
    MaxLog,             \* bound on a log's length; longer ones are not told apart
    Deletes, Crashes    \* whether records are deleted, the process killed

ASSUME ObservabilityAssumption ==
    /\ Similar \subseteq Contents \X Contents
    /\ \A p \in Similar : <<p[2], p[1]>> \in Similar
    /\ CallerIds \subseteq Ids
    /\ MaxBatch \in Nat /\ MaxLog \in Nat \ {0}
    /\ Deletes \in BOOLEAN /\ Crashes \in BOOLEAN

VARIABLES
    telemetry,          \* rows: [id, content, primary]
    embeddings,         \* rows of primary_embeddings: [id, content]
    links,              \* rows of primary_secondary: <<primary id, id>>
    log,                \* dedup_tracking: how many timestamps per content
    loaded, cache,      \* primary_cache: Some or None, and its entries
    work,               \* what each thread is doing
    used                \* ids given out so far

\* History, contents: those two calls were at work on at once, those of
\* the records somebody asked to delete, those that were at work when the
\* process died, and those of adds that ended in an error.
VARIABLES raced, deleted, cut, failed

tables  == <<telemetry, embeddings, links, log>>
history == <<raced, deleted, cut, failed>>
vars    == <<tables, loaded, cache, work, used, history>>

Doc == [id : Ids, content : Contents]
Row == [id : Ids, content : Contents, primary : BOOLEAN]

Idle == [pc |-> "idle"]

TypeOK ==
    /\ telemetry \subseteq Row
    /\ embeddings \subseteq Doc
    /\ links \subseteq Ids \X Ids
    /\ log \in [Contents -> 0..MaxLog]
    /\ loaded \in BOOLEAN
    /\ cache \subseteq Doc
    /\ used \subseteq Ids
    /\ raced \cup deleted \cup cut \cup failed \subseteq Contents

Stored(id) == \E r \in telemetry : r.id = id
Quiet == \A w \in Workers : work[w] = Idle

Return(w) == work' = [work EXCEPT ![w] = Idle]

\* What thread w is adding or deleting.
AtWork(w) ==
    IF work[w] = Idle THEN {}
    ELSE IF "docs" \in DOMAIN work[w] THEN {work[w].docs[i] : i \in DOMAIN work[w].docs}
    ELSE {[id |-> work[w].id, content |-> c] : c \in work[w].contents}

\* The statement is refused and the add returns the error.
Fail(w) ==
    /\ Return(w)
    /\ failed' = failed \cup {d.content : d \in AtWork(w)}
    /\ UNCHANGED <<raced, deleted, cut>>

\* The contents of these records, where others are at work on the content or
\* on the id, and theirs.
Races(docs) ==
    LET met == {p \in docs \X UNION {AtWork(v) : v \in Workers} :
                   p[1].id = p[2].id \/ p[1].content = p[2].content}
    IN  {p[1].content : p \in met} \cup {p[2].content : p \in met}

-----------------------------------------------------------------------------
(* add and add_batch.  queue: the positions in docs whose duplicate        *)
(* timestamp is still to be logged; new: the positions to be stored;       *)
(* verdict: for each of those its nearest primary, or {} if it is primary. *)

\* generate_v7_at never repeats an id; a caller may.
AddBegin(w, docs, kind) ==
    /\ work[w] = Idle
    /\ \A i \in DOMAIN docs :
          \/ docs[i].id \in CallerIds
          \/ docs[i].id \notin used /\ \A j \in 1..(i - 1) : docs[j].id # docs[i].id
    /\ used' = used \cup {docs[i].id : i \in DOMAIN docs}
    /\ work' = [work EXCEPT ![w] =
                  [pc |-> "select", kind |-> kind, docs |-> docs, queue |-> {},
                   new |-> {}, seen |-> 0, verdict |-> <<>>]]
    /\ raced' = raced \cup Races({docs[i] : i \in DOMAIN docs})
    /\ UNCHANGED <<tables, loaded, cache, deleted, cut, failed>>

\* Looks at the table but not at the rest of the batch.
SlipNewAt(docs) ==
    {i \in DOMAIN docs : \A r \in telemetry : r.content # docs[i].content}

\* The positions that are new: not stored and not seen earlier in the batch.
NewAt(docs) ==
    {i \in DOMAIN docs :
        /\ \A r \in telemetry : r.content # docs[i].content
        /\ \A j \in 1..(i - 1) : docs[j].content # docs[i].content}

\* Where a call goes on once part of its queue is left.
AfterLog(queue, new) ==
    IF queue # {} THEN "read log" ELSE IF new # {} THEN "classify" ELSE "return"

\* One SELECT for all the (key, data_text) pairs.
Select(w) ==
    /\ work[w].pc = "select"
    /\ LET new  == NewAt(work[w].docs)
           dups == DOMAIN work[w].docs \ new
       IN  work' = [work EXCEPT ![w].pc = AfterLog(dups, new),
                                ![w].queue = dups, ![w].new = new]
    /\ UNCHANGED <<tables, loaded, cache, used, history>>

\* The duplicates are logged in input order.
NextDuplicate(w) == CHOOSE i \in work[w].queue : \A j \in work[w].queue : i <= j

\* record_duplicate: SELECT the timestamps, append one, write them back.
ReadLog(w) ==
    /\ work[w].pc = "read log"
    /\ LET c == work[w].docs[NextDuplicate(w)].content
       IN  work' = [work EXCEPT ![w].pc = "write log", ![w].seen = log[c]]
    /\ UNCHANGED <<tables, loaded, cache, used, history>>

\* The INSERT of a log that another thread has inserted meanwhile fails and
\* ends the call; the UPDATE of one that was deleted changes no row.
WriteLog(w) ==
    /\ work[w].pc = "write log"
    /\ LET c    == work[w].docs[NextDuplicate(w)].content
           seen == work[w].seen
           rest == work[w].queue \ {NextDuplicate(w)}
       IN  IF seen = 0 /\ log[c] # 0
           THEN Fail(w) /\ UNCHANGED log
           ELSE /\ log' = [log EXCEPT ![c] = IF seen > 0 /\ @ = 0 THEN 0
                                            ELSE IF seen < MaxLog THEN seen + 1 ELSE MaxLog]
                /\ work' = [work EXCEPT ![w].pc = AfterLog(rest, work[w].new),
                                        ![w].queue = rest]
                /\ UNCHANGED history
    /\ UNCHANGED <<telemetry, embeddings, links, loaded, cache, used>>

\* Every document was a duplicate.
ReturnDuplicates(w) ==
    /\ work[w].pc = "return"
    /\ Return(w)
    /\ UNCHANGED <<tables, loaded, cache, used, history>>

\* The entries of the primary cache, loaded from the table the first time.
Entries == IF loaded THEN cache ELSE embeddings

Near(c, entries) == {e.id : e \in {d \in entries : <<c, d.content>> \in Similar}}

Nearest == {{}} \cup {{id} : id \in Ids}

\* Compares the documents of a batch with the cache but not with each other.
SlipVerdicts(docs, new, entries) ==
    {v \in [new -> Nearest] :
        \A k \in new :
            LET near == Near(docs[k].content, entries)
            IN  v[k] \subseteq near /\ (v[k] = {} <=> near = {})}

\* classify_in_memory for each new document, in order, the primaries found
\* so far included.  The nearest primary is any of the similar ones.
Verdicts(docs, new, entries) ==
    {v \in [new -> Nearest] :
        \A k \in new :
            LET sofar == {j \in new : j < k /\ v[j] = {}}
                near  == Near(docs[k].content, entries \cup {docs[j] : j \in sofar})
            IN  v[k] \subseteq near /\ (v[k] = {} <=> near = {})}

\* What thread w has classified as primary.
Primaries(docs, new, v) == {docs[k] : k \in {j \in new : v[j] = {}}}

\* classify: the primaries are in the cache before they are stored.
Classify(w) ==
    /\ work[w].pc = "classify"
    /\ \E v \in Verdicts(work[w].docs, work[w].new, Entries) :
          /\ cache' = Entries \cup Primaries(work[w].docs, work[w].new, v)
          /\ work' = [work EXCEPT ![w].pc = work[w].kind, ![w].verdict = v]
    /\ loaded' = TRUE
    /\ UNCHANGED <<tables, used, history>>

NewRow(d, nearest) ==
    [id |-> d.id, content |-> d.content, primary |-> nearest = {}]

\* add: the row is inserted first; the primary key rejects an id in use.
InsertRow(w) ==
    /\ work[w].pc = "add"
    /\ LET d == work[w].docs[1]
       IN  IF Stored(d.id)
           THEN Fail(w) /\ UNCHANGED telemetry
           ELSE /\ telemetry' = telemetry \cup {NewRow(d, work[w].verdict[1])}
                /\ work' = [work EXCEPT ![w].pc = "relate"]
                /\ UNCHANGED history
    /\ UNCHANGED <<embeddings, links, log, loaded, cache, used>>

\* Stores the embedding of a secondary record in place of its link.
SlipRelate(w) ==
    /\ work[w].pc = "relate"
    /\ embeddings' = embeddings \cup {work[w].docs[1]}
    /\ Return(w)
    /\ UNCHANGED <<telemetry, links, log, loaded, cache, used, history>>

\* add: then its embedding, or its link to the nearest primary; either is
\* rejected when its key is taken, and the row stays.
Relate(w) ==
    /\ work[w].pc = "relate"
    /\ LET d       == work[w].docs[1]
           nearest == work[w].verdict[1]
           taken   == IF nearest = {} THEN \E e \in embeddings : e.id = d.id
                      ELSE nearest \X {d.id} \subseteq links
       IN  IF taken
           THEN Fail(w) /\ UNCHANGED <<embeddings, links>>
           ELSE /\ embeddings' = embeddings \cup (IF nearest = {} THEN {d} ELSE {})
                /\ links' = links \cup (nearest \X {d.id})
                /\ Return(w)
                /\ UNCHANGED history
    /\ UNCHANGED <<telemetry, log, loaded, cache, used>>

\* add_batch: rows, embeddings and links in one transaction, all or nothing.
InsertBatch(w) ==
    /\ work[w].pc = "batch"
    /\ LET docs == work[w].docs
           new  == work[w].new
           v    == work[w].verdict
           prim == Primaries(docs, new, v)
           conflict == \/ \E k \in new : Stored(docs[k].id)
                       \/ \E j, k \in new : j # k /\ docs[j].id = docs[k].id
                       \/ \E d \in prim : \E e \in embeddings : e.id = d.id
                       \/ \E k \in new : \E p \in v[k] : <<p, docs[k].id>> \in links
       IN  IF conflict
           THEN Fail(w) /\ UNCHANGED <<telemetry, embeddings, links>>
           ELSE /\ telemetry' = telemetry \cup {NewRow(docs[k], v[k]) : k \in new}
                /\ embeddings' = embeddings \cup prim
                /\ links' = links \cup UNION {v[k] \X {docs[k].id} : k \in new}
                /\ Return(w)
                /\ UNCHANGED history
    /\ UNCHANGED <<log, loaded, cache, used>>

-----------------------------------------------------------------------------
(* delete_by_id: the content is looked up, then one DELETE per table.  The  *)
(* primary cache is not told.                                              *)

\* No add of this id is running, and none can begin.
Spent(id) ==
    /\ id \in used \ CallerIds
    /\ \A w \in Workers : "docs" \in DOMAIN work[w] =>
          \A i \in DOMAIN work[w].docs : work[w].docs[i].id # id

\* The manager has seen the record; another deletion may have taken it since.
DeleteBegin(w, id) ==
    /\ Deletes
    /\ work[w] = Idle
    /\ Stored(id) \/ Spent(id)
    /\ LET contents == {r.content : r \in {q \in telemetry : q.id = id}}
       IN  /\ work' = [work EXCEPT ![w] = [pc |-> "unlink", id |-> id, contents |-> contents]]
           /\ raced' = raced \cup Races({[id |-> id, content |-> c] : c \in contents})
           /\ deleted' = deleted \cup contents
    /\ UNCHANGED <<tables, loaded, cache, used, cut, failed>>

DeleteLinks(w) ==
    /\ work[w].pc = "unlink"
    /\ links' = {l \in links : l[1] # work[w].id /\ l[2] # work[w].id}
    /\ work' = [work EXCEPT ![w].pc = "unembed"]
    /\ UNCHANGED <<telemetry, embeddings, log, loaded, cache, used, history>>

DeleteEmbedding(w) ==
    /\ work[w].pc = "unembed"
    /\ embeddings' = {e \in embeddings : e.id # work[w].id}
    /\ work' = [work EXCEPT ![w].pc = "remove"]
    /\ UNCHANGED <<telemetry, links, log, loaded, cache, used, history>>

DeleteRow(w) ==
    /\ work[w].pc = "remove"
    /\ telemetry' = {r \in telemetry : r.id # work[w].id}
    /\ work' = [work EXCEPT ![w].pc = "unlog"]
    /\ UNCHANGED <<embeddings, links, log, loaded, cache, used, history>>

\* Leaves the timestamps behind.
SlipDeleteLog(w) ==
    /\ work[w].pc = "unlog"
    /\ Return(w)
    /\ UNCHANGED <<tables, loaded, cache, used, history>>

DeleteLog(w) ==
    /\ work[w].pc = "unlog"
    /\ log' = [c \in Contents |-> IF c \in work[w].contents THEN 0 ELSE log[c]]
    /\ Return(w)
    /\ UNCHANGED <<telemetry, embeddings, links, loaded, cache, used, history>>

-----------------------------------------------------------------------------
\* The store is opened again: after an orderly stop nobody is at work.  The
\* process is killed at work at most once.
Reopen ==
    /\ Quiet \/ (Crashes /\ cut = {})
    /\ loaded' = FALSE
    /\ cache' = {}
    /\ work' = [w \in Workers |-> Idle]
    /\ cut' = cut \cup {d.content : d \in UNION {AtWork(w) : w \in Workers}}
    /\ UNCHANGED <<tables, used, raced, deleted, failed>>

Init ==
    /\ telemetry = {} /\ embeddings = {} /\ links = {}
    /\ log = [c \in Contents |-> 0]
    /\ loaded = FALSE /\ cache = {}
    /\ work = [w \in Workers |-> Idle]
    /\ used = {} /\ raced = {} /\ deleted = {} /\ cut = {} /\ failed = {}

Batches == UNION {[1..n -> Doc] : n \in 2..MaxBatch}

Next ==
    \/ \E w \in Workers :
          \/ \E d \in Doc : AddBegin(w, <<d>>, "add")
          \/ \E docs \in Batches : AddBegin(w, docs, "batch")
          \/ Select(w) \/ ReadLog(w) \/ WriteLog(w) \/ ReturnDuplicates(w)
          \/ Classify(w)
          \/ InsertRow(w) \/ Relate(w) \/ InsertBatch(w)
          \/ \E id \in Ids : DeleteBegin(w, id)
          \/ DeleteLinks(w) \/ DeleteEmbedding(w) \/ DeleteRow(w) \/ DeleteLog(w)
    \/ Reopen

Spec == Init /\ [][Next]_vars

-----------------------------------------------------------------------------
\* Rows whose embedding is gone and whose own DELETE comes next.
Going(id) == \E w \in Workers : work[w].pc = "remove" /\ work[w].id = id

\* However many threads add at once, no two primary records are similar
\* (DATABASE.md: "no two threads can both classify the same near-duplicate
\* as primary"), unless a crash has kept the embedding of one from being stored.
NoSimilarPrimaries ==
    \A r, s \in telemetry :
        r.primary /\ s.primary /\ r # s /\ ~Going(r.id) /\ ~Going(s.id)
            => <<r.content, s.content>> \notin Similar \/ {r.content, s.content} \cap cut # {}

\* When nobody is at work every record can be reached by a search: it is
\* primary and will be classified against, or it is linked to one that is.
\* Only a crash during its add, or the loss or deletion of the primary it is
\* similar to takes that away.
RecordsAreReachable ==
    Quiet => \A r \in telemetry :
        \/ r.content \in cut
        \/ IF r.primary THEN [id |-> r.id, content |-> r.content] \in embeddings
           ELSE \/ \E p \in telemetry : p.primary /\ <<p.id, r.id>> \in links
                \/ \E c \in deleted \cup cut : <<c, r.content>> \in Similar

\* A (key, data) pair is stored once, unless two calls add it at once.
StoredOnce ==
    \A r, s \in telemetry : r.content = s.content => r = s \/ r.content \in raced

\* Log entries are about stored records, when nobody is at work: a deletion
\* takes them along.  A batch logs its own repetitions before it stores
\* anything; one that then fails leaves them (observability.rs, add_batch).
LoggedIsStored ==
    Quiet => \A c \in Contents \ (raced \cup cut \cup failed) :
        log[c] > 0 => \E r \in telemetry : r.content = c

=============================================================================
