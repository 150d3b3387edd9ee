----------------------------- MODULE Templates -----------------------------
(***************************************************************************)
(* Log templates: the drain parser that all threads share (drain.rs), the  *)
(* template documents it has the manager store, the map from its clusters  *)
(* to those documents, and the observations by which templates_recent      *)
(* finds them (shardsmanager.rs add and add_batch, shardsmanager_drain.rs, *)
(* shardsmanager_tplstorage.rs).                                           *)
(*                                                                         *)
(* A line is the sequence of its tokens after masking; the tree has depth  *)
(* 3, the default, so that a leaf belongs to a length and a first token.   *)
(* What a template document is otherwise made of, its vectors included, is *)
(* the subject of Documents.                                               *)
(***************************************************************************)
EXTENDS Naturals, Sequences, FiniteSets, SequencesExt

CONSTANTS
    Wild,           \* the token "<*>"
    Lines,          \* log lines: sequences of tokens, <<>> for a blank one
    MaxChildren,    \* of an inner node of the tree
    Workers,        \* threads that add documents
    Width,          \* of a shard
    Lookback,       \* of templates_recent
    LoadWindow,     \* drain_load_duration
    MaxTime, MaxCalls, MaxBatch,    \* bounds on the clock, the calls, a batch
    MaxEvents,      \* and on the events: restarts, deletions and failures
    Events          \* those that happen: of "restart", "delete", "failure"

ASSUME TemplatesAssumption ==
    /\ MaxChildren \in Nat \ {0} /\ Width \in Nat \ {0}
    /\ Lookback \in Nat /\ LoadWindow \in Nat
    /\ MaxTime \in Nat /\ MaxCalls \in Nat /\ MaxBatch \in Nat \ {0}
    /\ MaxEvents \in Nat
    /\ Events \subseteq {"restart", "delete", "failure"}
    /\ \A line \in Lines : line \in Seq(ToSet(line))

VARIABLES
    clusters,       \* of the parser: [template, leaf]
    lock, poisoned, \* the mutex of the parser: {} or its holder
    map,            \* drain_cluster_map: cluster |-> template document
    seeds,          \* documents the parser is still to be seeded with
    templates,      \* template documents: [name, ts, deleted]
    observations,   \* frequency tracking: [id, at, shard]
    work,           \* what each thread is doing
    now, calls, events

\* History: documents whose cluster was observed without a failure, a race or
\* a second shard in the call; documents that a panic kept from being stored;
\* clusters two threads were at work on at once, or whose document was
\* not stored or not mapped; lines parsed since the start.
VARIABLES reported, lost, troubled, parsed

parser  == <<clusters, lock, poisoned, map, seeds>>
tables  == <<templates, observations>>
history == <<reported, lost, troubled, parsed>>
bounded == <<now, calls, events>>
vars    == <<parser, tables, work, bounded, history>>

Happens(e) == e \in Events /\ events < MaxEvents /\ events' = events + 1

Idle == [pc |-> "idle"]
Quiet == seeds = <<>> /\ \A w \in Workers : work[w] = Idle
Return(w) == work' = [work EXCEPT ![w] = Idle]

Shard(ts) == ts - (ts % Width)

\* Shards that overlap the lookback window.
Overlaps(shard, window) == shard + Width + window > now

-----------------------------------------------------------------------------
(* DrainParser *)

Children(n) == {c.leaf : c \in {d \in ToSet(clusters) : Len(d.template) = n}}

\* Uses the bucket as soon as the node is full.
SlipLeaf(line) ==
    IF Cardinality(Children(Len(line))) < MaxChildren THEN line[1] ELSE Wild

\* traverse_to_leaf.  What does not fit in a full node goes in one bucket.
Leaf(line) ==
    LET children == Children(Len(line))
    IN  IF line[1] \in children \/ Cardinality(children) < MaxChildren
        THEN line[1] ELSE Wild

Cluster(line) == [template |-> line, leaf |-> Leaf(line)]

Equal(template, line) == Cardinality({i \in DOMAIN line : template[i] = line[i]})

\* Clusters of the leaf at or above the threshold of one half.
Matches(line) ==
    {k \in DOMAIN clusters :
        /\ Len(clusters[k].template) = Len(line)
        /\ clusters[k].leaf = Leaf(line)
        /\ 2 * Equal(clusters[k].template, line) >= Len(line)}

\* The most similar one, the last of several.
Best(line) ==
    CHOOSE k \in Matches(line) : \A j \in Matches(line) :
        LET e == Equal(clusters[k].template, line)
            f == Equal(clusters[j].template, line)
        IN  e > f \/ (e = f /\ k >= j)

Covers(template, line) ==
    /\ Len(template) = Len(line)
    /\ \A i \in DOMAIN line : template[i] \in {Wild, line[i]}

\* update_template
Generalised(template, line) ==
    [i \in DOMAIN template |-> IF template[i] = line[i] THEN line[i] ELSE Wild]

-----------------------------------------------------------------------------
(* add and add_batch.  The parser is locked while the documents of a call  *)
(* are parsed, and the template documents are stored under that lock.      *)
(* todo: documents still to be parsed; new: the mappings to be made;       *)
(* seen: the clusters matched, each with its document, which is history.   *)

Ready(w) == work[w] = Idle /\ seeds = <<>> /\ lock = {} /\ calls < MaxCalls

\* A poisoned lock is passed by: nothing is parsed.
Begin(w, docs, kind) ==
    /\ calls' = calls + 1
    /\ lock' = IF poisoned THEN {} ELSE {w}
    /\ work' = [work EXCEPT ![w] =
                  [pc   |-> IF poisoned THEN "store" ELSE "parse",
                   kind |-> kind, docs |-> docs, todo |-> docs,
                   new |-> <<>>, seen |-> {}]]
    /\ UNCHANGED <<clusters, poisoned, map, seeds, tables, now, events, history>>

\* Documents may be backdated, never stamped with a later time.
Docs == [line : Lines, ts : 0..now]

Batches == {docs \in UNION {[1..n -> Docs] : n \in 2..MaxBatch} :
               IsInjective([i \in DOMAIN docs |-> docs[i].line])}

Add(w) == Ready(w) /\ \E d \in Docs : Begin(w, <<d>>, "add")
AddBatch(w) == Ready(w) /\ \E docs \in Batches : Begin(w, docs, "batch")

\* Clusters whose mapping thread w has not made yet.
Pending(w) == IF work[w] = Idle THEN {} ELSE {m[1] : m \in ToSet(work[w].new)}

\* After the last document the lock is released.
AfterParse(call) ==
    IF call.todo # <<>> THEN "parse"
    ELSE IF call.new # <<>> THEN "map"
    ELSE IF call.kind = "add" THEN "observe" ELSE "store"

\* parse_json_with_callback: cluster k gets this template.  A new or changed
\* template is stored; that may fail at once, or after the document is stored
\* and before its observation is, and then the caller has no cluster.
ParseAs(w, k, template, outcome) ==
    LET d     == Head(work[w].todo)
        store == IF k \in DOMAIN clusters THEN clusters[k].template # template ELSE TRUE
        id    == Len(templates) + 1
        ok    == outcome = "stored"
        call  == [work[w] EXCEPT
                    !.todo = Tail(@),
                    !.new  = IF store /\ ok THEN Append(@, <<k, id>>) ELSE @,
                    !.seen = IF ok THEN @ \cup {<<k, d>>} ELSE @]
    IN  /\ IF ok THEN UNCHANGED events ELSE store /\ Happens("failure")
        /\ clusters' = IF k \in DOMAIN clusters
                       THEN [clusters EXCEPT ![k].template = template]
                       ELSE Append(clusters, Cluster(template))
        /\ templates' = IF store /\ outcome # "failed"
                        THEN Append(templates, [name |-> template, ts |-> d.ts, deleted |-> FALSE])
                        ELSE templates
        /\ observations' = IF store /\ ok
                           THEN observations \cup {[id |-> id, at |-> d.ts, shard |-> Shard(d.ts)]}
                           ELSE observations
        /\ work' = [work EXCEPT ![w] = [call EXCEPT !.pc = AfterParse(call)]]
        /\ lock' = IF call.todo = <<>> THEN {} ELSE lock
        /\ troubled' = IF ok /\ \A v \in Workers \ {w} : k \notin Pending(v)
                       THEN troubled ELSE troubled \cup {k}
        /\ parsed' = parsed \cup {d.line}

Parse(w) ==
    /\ work[w].pc = "parse"
    /\ LET line == Head(work[w].todo).line
       IN  /\ line # <<>>
           /\ \E outcome \in {"stored", "half stored", "failed"} :
                 IF Matches(line) = {}
                 THEN ParseAs(w, Len(clusters) + 1, line, outcome)
                 ELSE ParseAs(w, Best(line), Generalised(clusters[Best(line)].template, line), outcome)
    /\ UNCHANGED <<poisoned, map, seeds, now, calls, reported, lost>>

\* A line without tokens has no leaf: traverse_to_leaf panics, which unwinds
\* the thread out of the call and poisons the lock.
Panic(w) ==
    /\ work[w].pc = "parse"
    /\ Head(work[w].todo).line = <<>>
    /\ poisoned' = TRUE
    /\ lock' = {}
    /\ lost' = lost \cup ToSet(work[w].docs)
    /\ Return(w)
    /\ troubled' = troubled \cup Pending(w)
    /\ UNCHANGED <<clusters, map, seeds, tables, bounded, reported, parsed>>

\* Keeps the document that a cluster was first mapped to.
SlipMapped(new) ==
    [k \in DOMAIN map \cup {m[1] : m \in ToSet(new)} |->
        IF k \in DOMAIN map THEN map[k]
        ELSE (CHOOSE m \in ToSet(new) : m[1] = k)[2]]

\* The later mapping of a cluster takes the place of the earlier one.
Mapped(new) ==
    [k \in DOMAIN map \cup {m[1] : m \in ToSet(new)} |->
        LET ids == {m[2] : m \in {n \in ToSet(new) : n[1] = k}}
        IN  IF ids = {} THEN map[k] ELSE CHOOSE i \in ids : \A j \in ids : j <= i]

\* drain_cluster_map has a lock of its own.
InsertMappings(w) ==
    /\ work[w].pc = "map"
    /\ map' = Mapped(work[w].new)
    /\ work' = [work EXCEPT ![w].new = <<>>,
                            ![w].pc = IF work[w].kind = "add" THEN "observe" ELSE "store"]
    /\ UNCHANGED <<clusters, lock, poisoned, seeds, tables, bounded, history>>

\* The first of the shards that the documents belong to.
FirstShard(docs) == Min({Shard(d.ts) : d \in ToSet(docs)})

\* Observes the newest template only.
SlipObserved(w) ==
    {map[m[1]] : m \in {n \in work[w].seen : n[1] \in DOMAIN map /\ map[n[1]] = Len(templates)}}

\* The documents of the matched clusters, as the map has them by now.
Observed(w) == {map[m[1]] : m \in {n \in work[w].seen : n[1] \in DOMAIN map}}

\* frequencytracking_observe: now, in the first shard.
Observe(w) ==
    /\ work[w].pc = "observe"
    /\ LET docs == work[w].docs
       IN  /\ observations' = observations \cup
                 {[id |-> id, at |-> now, shard |-> FirstShard(docs)] : id \in Observed(w)}
           /\ reported' = reported \cup
                 {d \in ToSet(docs) :
                     /\ \A e \in ToSet(docs) : Shard(e.ts) = Shard(d.ts)
                     /\ \E m \in work[w].seen : m[2] = d /\ m[1] \notin troubled}
    /\ IF work[w].kind = "add" THEN work' = [work EXCEPT ![w].pc = "store"] ELSE Return(w)
    /\ UNCHANGED <<parser, templates, bounded, lost, troubled, parsed>>

\* The shards store the documents.  A batch whose new templates cannot be
\* embedded ends before that.
Store(w) ==
    /\ work[w].pc = "store"
    /\ \/ /\ IF work[w].kind = "batch" THEN work' = [work EXCEPT ![w].pc = "observe"] ELSE Return(w)
          /\ UNCHANGED events
       \/ work[w].kind = "batch" /\ Happens("failure") /\ Return(w)
    /\ UNCHANGED <<parser, tables, now, calls, history>>

-----------------------------------------------------------------------------
\* tpl_delete: the document goes, with its observations in its own shard.
Delete(id) ==
    /\ Happens("delete")
    /\ ~templates[id].deleted
    /\ templates' = [templates EXCEPT ![id].deleted = TRUE]
    /\ observations' = {o \in observations : o.id # id \/ o.shard # Shard(templates[id].ts)}
    /\ UNCHANGED <<parser, work, now, calls, history>>

Tick ==
    /\ now < MaxTime
    /\ now' = now + 1
    /\ UNCHANGED <<parser, tables, work, calls, events, history>>

\* tpl_list: the documents of the shards in the window, shard by shard; the
\* statement leaves their order in a shard open.
Listings ==
    LET ids == {i \in DOMAIN templates :
                  ~templates[i].deleted /\ Overlaps(Shard(templates[i].ts), LoadWindow)}
    IN  {list \in Bijection(1..Cardinality(ids), ids) :
            \A i, j \in DOMAIN list :
                i < j => Shard(templates[list[i]].ts) <= Shard(templates[list[j]].ts)}

\* The process starts again, whatever it was doing: drain_load.
Restart ==
    /\ Happens("restart")
    /\ clusters' = <<>> /\ map' = <<>>
    /\ lock' = {} /\ poisoned' = FALSE
    /\ seeds' \in Listings
    /\ work' = [w \in Workers |-> Idle]
    /\ parsed' = {} /\ troubled' = {}
    /\ UNCHANGED <<tables, now, calls, reported, lost>>

\* from_tpl_list: seed_cluster gives every document a cluster of its own.
Seed ==
    /\ seeds # <<>>
    /\ LET id == Head(seeds)
       IN  /\ clusters' = Append(clusters, Cluster(templates[id].name))
           /\ map' = Append(map, id)
    /\ seeds' = Tail(seeds)
    /\ UNCHANGED <<lock, poisoned, tables, work, bounded, history>>

Init ==
    /\ clusters = <<>> /\ lock = {} /\ poisoned = FALSE /\ map = <<>> /\ seeds = <<>>
    /\ templates = <<>> /\ observations = {}
    /\ work = [w \in Workers |-> Idle]
    /\ now = 0 /\ calls = 0 /\ events = 0
    /\ reported = {} /\ lost = {} /\ troubled = {} /\ parsed = {}

Next ==
    \/ \E w \in Workers :
          \/ Add(w) \/ AddBatch(w)
          \/ Parse(w) \/ Panic(w) \/ InsertMappings(w) \/ Observe(w) \/ Store(w)
    \/ \E id \in DOMAIN templates : Delete(id)
    \/ Tick \/ Restart \/ Seed

Spec == Init /\ [][Next]_vars

-----------------------------------------------------------------------------
\* templates_recent: documents with an observation in the window, in a shard
\* that overlaps it.
Recent ==
    {id \in DOMAIN templates :
        /\ ~templates[id].deleted
        /\ \E o \in observations :
              o.id = id /\ o.at + Lookback >= now /\ Overlaps(o.shard, Lookback)}

\* A line whose document is not older than the window has its template among
\* the recent ones once it is observed, unless somebody has deleted it.
LinesAreReported ==
    \A d \in reported :
        d.ts + Lookback >= now =>
            \E id \in DOMAIN templates :
                /\ Covers(templates[id].name, d.line)
                /\ id \in Recent \/ templates[id].deleted

\* When nobody is at work every cluster is mapped to the document that holds
\* its template as it is now.
MapIsCurrent ==
    Quiet => \A k \in DOMAIN clusters \ troubled :
        k \in DOMAIN map /\ templates[map[k]].name = clusters[k].template

\* While no line has masked tokens, a line that was parsed has its cluster,
\* however the templates have been generalised and the tree filled since.
ParsedAreKnown ==
    (\A line \in parsed : Wild \notin ToSet(line))
        => \A line \in parsed : Matches(line) # {}

\* Documents are stored whatever becomes of their templates (shardsmanager.rs,
\* add: "Drain errors (e.g. the document has no "data" field) are non-fatal and
\* do not prevent the document from being stored").
DocumentsAreStored == lost = {}

=============================================================================
