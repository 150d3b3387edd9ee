---------------------------- MODULE ShardsCache ----------------------------
(***************************************************************************)
(* The shard catalog and the LRU cache of open shards (shardscache.rs and  *)
(* shardsinfo.rs): which shard a timestamp is routed to, which shards are  *)
(* open, and which one is closed to make room.                             *)
(*                                                                         *)
(* A shard is named by its interval <<start, end>>, in clock ticks; the    *)
(* directory "{root}/{start_secs}_{end_secs}" is determined by the catalog *)
(* row.  One call of shard() holds the cache lock from beginning to end    *)
(* and is one step.  shards_span() takes the lock once for every interval, *)
(* so other calls come between its steps.  What an open shard does with    *)
(* its data is the subject of ShardHandles and Observability.              *)
(***************************************************************************)
EXTENDS TimeRange, Sequences, FiniteSets

CONSTANTS
    Times,              \* instants callers ask for
    Durations,          \* shard widths the process may be configured with
    MaxOpenShards,      \* the max_open_shards setting
    Clients             \* callers of shards_span

ASSUME CacheAssumption ==
    /\ Times \subseteq Nat
    /\ Durations \subseteq Nat \ {0} /\ Durations # {}
    /\ MaxOpenShards \in Nat

VARIABLES
    duration,           \* shard_duration of this run of the process
    catalog,            \* rows of the shards table: <<start_ts, end_ts>>
    open,               \* keys of CacheInner.map
    lru,                \* CacheInner.lru, most recently used first
    span                \* progress of each client's shards_span call

vars == <<duration, catalog, open, lru, span>>

Interval == Nat \X Nat

NoSpan == [active |-> FALSE]

\* got: the intervals of the shards collected so far.
SpanState == [active : {TRUE}, from : Nat, cursor : Nat, to : Nat,
              got : SUBSET Interval]

TypeOK ==
    /\ duration \in Durations
    /\ catalog \subseteq Interval
    /\ open \subseteq Interval
    /\ lru \in Seq(Interval)
    /\ span \in [Clients -> SpanState \cup {NoSpan}]

Limit == IF MaxOpenShards < 1 THEN 1 ELSE MaxOpenShards

Elements(s) == {s[i] : i \in DOMAIN s}

-----------------------------------------------------------------------------
(* The catalog. *)

\* add_shard truncates both ends to whole seconds.
CatalogRow(key) == <<to_unix_secs(key[1]) * Sec, to_unix_secs(key[2]) * Sec>>

\* shards_at: the rows whose interval holds the timestamp's second.
shards_at(t) == {r \in catalog : Covers(r, to_unix_secs(t) * Sec)}

\* ORDER BY start_ts ASC, first row; rows with one start come in any order.
FirstRows(rows) == {r \in rows : \A s \in rows : r[1] <= s[1]}

-----------------------------------------------------------------------------
(* The LRU list. *)

\* lru.retain(|k| k != key): what is kept keeps its order, so that the j-th
\* key is the one with j - 1 kept ones before it.  (SelectSeq, as a set.)
Retain(s, key) ==
    LET kept == {i \in DOMAIN s : s[i] # key}
    IN  [j \in 1..Cardinality(kept) |->
            s[CHOOSE i \in kept : Cardinality({m \in kept : m < i}) = j - 1]]

Promote(s, key) == <<key>> \o Retain(s, key)

LastKeys(s, n) == {s[i] : i \in (Len(s) - n + 1)..Len(s)}

\* A map one larger than the limit is let be.
SlipOneMoreThanLimit(keys, s) ==
    LET Stops(n) == n = Len(s) \/ Cardinality(keys \ LastKeys(s, n)) <= Limit + 1
    IN  CHOOSE n \in 0..Len(s) : Stops(n) /\ \A m \in 0..(n - 1) : ~Stops(m)

\* How many keys `while map.len() > max { lru.pop_back(); map.remove() }`
\* pops: the loop stops when the map fits or the list is empty.
Evictions(keys, s) ==
    LET Stops(n) == n = Len(s) \/ Cardinality(keys \ LastKeys(s, n)) <= Limit
    IN  CHOOSE n \in 0..Len(s) : Stops(n) /\ \A m \in 0..(n - 1) : ~Stops(m)

\* The map is trimmed, the list is left as it was.
SlipInsertEvictsOnlyMap(key) ==
    LET keys == open \cup {key}
        list == <<key>> \o lru
        n    == Evictions(keys, list)
    IN  /\ open' = keys \ LastKeys(list, n)
        /\ lru'  = lru

\* An eviction pops one key more from the list than it removes from the map.
SlipInsertPopsOneMore(key) ==
    LET keys == open \cup {key}
        list == <<key>> \o lru
        n    == Evictions(keys, list)
    IN  /\ open' = keys \ LastKeys(list, n)
        /\ lru'  = SubSeq(list, 1, Len(list) - (IF n = 0 THEN 0 ELSE n + 1))

\* map.insert, lru.push_front and the eviction loop.
Insert(key) ==
    LET keys == open \cup {key}
        list == <<key>> \o lru
        n    == Evictions(keys, list)
    IN  /\ open' = keys \ LastKeys(list, n)
        /\ lru'  = SubSeq(list, 1, Len(list) - n)

-----------------------------------------------------------------------------
(* shard(timestamp): cache, then catalog, then auto-create. *)

CacheHit(t, key) ==
    /\ key = align_to_duration(t, duration)
    /\ key \in open
    /\ lru' = Promote(lru, key)
    /\ UNCHANGED <<catalog, open>>

CatalogHit(t, key) ==
    /\ align_to_duration(t, duration) \notin open
    /\ key \in FirstRows(shards_at(t))
    /\ Insert(key)
    /\ UNCHANGED catalog

\* The new shard gets no catalog row.
SlipAutoCreateUnregistered(t, key) ==
    /\ key = align_to_duration(t, duration)
    /\ key \notin open
    /\ shards_at(t) = {}
    /\ Insert(key)
    /\ UNCHANGED catalog

\* The catalog row begins at the instant asked for, not at its boundary.
SlipAutoCreateFromInstant(t, key) ==
    /\ key = align_to_duration(t, duration)
    /\ key \notin open
    /\ shards_at(t) = {}
    /\ catalog' = catalog \cup {CatalogRow(<<t, t + duration>>)}
    /\ Insert(key)

AutoCreate(t, key) ==
    /\ key = align_to_duration(t, duration)
    /\ key \notin open
    /\ shards_at(t) = {}
    /\ catalog' = catalog \cup {CatalogRow(key)}
    /\ Insert(key)

shard(t, key) == CacheHit(t, key) \/ CatalogHit(t, key) \/ AutoCreate(t, key)

\* The keys a caller can be given: the aligned interval or a catalog row.
Candidates(t) == {align_to_duration(t, duration)} \cup shards_at(t)

\* A call of shard() that opens the shard.  A call whose open or whose
\* catalog statement fails returns Err and leaves the cache as it was.
Lookup(t) ==
    /\ \E key \in Candidates(t) : shard(t, key)
    /\ UNCHANGED <<duration, span>>

-----------------------------------------------------------------------------
(* shards_span(start, end): one shard() per interval. *)

\* The walk begins at the end of the first interval.
SlipSpanStartFromEnd(c, s, e) ==
    /\ ~span[c].active
    /\ s < e
    /\ span' = [span EXCEPT ![c] =
                  [active |-> TRUE, from |-> s, to |-> e, got |-> {},
                   cursor |-> align_to_duration(s, duration)[2]]]
    /\ UNCHANGED <<duration, catalog, open, lru>>

SpanStart(c, s, e) ==
    /\ ~span[c].active
    /\ s < e
    /\ span' = [span EXCEPT ![c] =
                  [active |-> TRUE, from |-> s, to |-> e, got |-> {},
                   cursor |-> align_to_duration(s, duration)[1]]]
    /\ UNCHANGED <<duration, catalog, open, lru>>

SpanStep(c) ==
    /\ span[c].active
    /\ span[c].cursor < span[c].to
    /\ \E key \in Candidates(span[c].cursor) :
          /\ shard(span[c].cursor, key)
          /\ span' = [span EXCEPT ![c].cursor = @ + duration,
                                  ![c].got = @ \cup {key}]
    /\ UNCHANGED duration

\* The call returns: all intervals collected, or an Err from one of them.
SpanReturn(c) ==
    /\ span[c].active
    /\ span' = [span EXCEPT ![c] = NoSpan]
    /\ UNCHANGED <<duration, catalog, open, lru>>

-----------------------------------------------------------------------------
\* close(): every cached shard is synced and dropped, under the lock.
Close ==
    /\ open' = {}
    /\ lru' = <<>>
    /\ UNCHANGED <<duration, catalog, span>>

\* The process ends, in order or not, and is started again on the same
\* directory, possibly with another shard_duration in its configuration.
Restart(d) ==
    /\ duration' = d
    /\ open' = {}
    /\ lru' = <<>>
    /\ span' = [c \in Clients |-> NoSpan]
    /\ UNCHANGED catalog

Init ==
    /\ duration \in Durations
    /\ catalog = {}
    /\ open = {}
    /\ lru = <<>>
    /\ span = [c \in Clients |-> NoSpan]

Next ==
    \/ \E t \in Times : Lookup(t)
    \/ \E c \in Clients, s, e \in Times : SpanStart(c, s, e)
    \/ \E c \in Clients : SpanStep(c) \/ SpanReturn(c)
    \/ Close
    \/ \E d \in Durations : Restart(d)

Spec == Init /\ [][Next]_vars

-----------------------------------------------------------------------------
(* What the cache and the catalog promise. *)

\* Never more shards open than max_open_shards allows (0 counts as 1): what
\* keeps a backfill over many intervals within the file-descriptor limit.
CacheBounded == Cardinality(open) <= Limit

\* Every open shard is somewhere in the LRU list, so that the eviction loop
\* can always reach it; one that is not would stay open for ever.
OpenIsEvictable == open \subseteq Elements(lru)

\* Every shard of the catalog has the width that is configured now.
SameWidth == \A r \in catalog : r[2] - r[1] = duration

\* The shard a caller was just given is still cached: making room for it
\* never closes the shard room was made for.
JustUsedIsOpen == SameWidth /\ lru # <<>> => lru[1] \in open

\* Every open shard is found again after it is closed: the catalog has its
\* row, so that nothing written to it becomes unreachable.
OpenIsRegistered == \A key \in open : CatalogRow(key) \in catalog

\* No instant belongs to two shards of the catalog.
ShardsDisjoint == SameWidth => \A r1, r2 \in catalog : r1 = r2 \/ Disjoint(r1, r2)

\* The directory shard(t) hands out in this state; none when it would create
\* one.
RoutesTo(t) ==
    IF align_to_duration(t, duration) \in open
    THEN {CatalogRow(align_to_duration(t, duration))}
    ELSE FirstRows(shards_at(t))

\* Once an instant has a shard it keeps it, whatever is opened, evicted,
\* closed or restarted since: a record and its later duplicate or deletion
\* meet in one place.
StableRouting ==
    [][SameWidth =>
        \A t \in Times : RoutesTo(t) # {} => RoutesTo(t)' = RoutesTo(t)]_vars

\* A finished shards_span call has collected the shards of exactly the
\* intervals that meet [from, to), although other callers opened, evicted
\* and closed shards between its steps.
SpanCollectsOverlap ==
    \A c \in Clients :
      SameWidth /\ span[c].active /\ span[c].cursor >= span[c].to =>
        span[c].got = {align_to_duration(t, duration) :
                          t \in span[c].from..(span[c].to - 1)}

=============================================================================
