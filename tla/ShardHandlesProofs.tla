------------------------- MODULE ShardHandlesProofs -------------------------
(***************************************************************************)
(* The interval arithmetic for every instant and width; the cache and      *)
(* catalog invariants for every set of instants, every limit and every     *)
(* number of callers, with shard widths of whole seconds: one, or any      *)
(* number of them between which restarts change.  Then operations on       *)
(* shards, with any number of workers, instances and records: no index     *)
(* entry before its row, what is found by vector stays found while its     *)
(* shard is evicted and opened again, and, where every shard stays open    *)
(* (Roomy), what was added is found and what was deleted is not.           *)
(***************************************************************************)
EXTENDS ShardHandles, FiniteSetTheorems, WellFoundedInduction, TLAPS

-----------------------------------------------------------------------------
(* The arithmetic of intervals (timerange.rs). *)

LEMMA DivBounds ==
    ASSUME NEW u \in Nat, NEW q \in Nat \ {0}
    PROVE  /\ u \div q \in Nat
           /\ (u \div q) * q \in Nat
           /\ (u \div q) * q <= u
           /\ u < (u \div q) * q + q
<1>1. u = q * (u \div q) + (u % q) /\ u \div q \in Nat /\ u % q \in 0 .. q - 1
  OBVIOUS
<1>2. QED
  BY <1>1

LEMMA MulMono ==
    ASSUME NEW a \in Int, NEW b \in Int, NEW q \in Nat, a <= b
    PROVE  a * q <= b * q
  OBVIOUS

LEMMA MultiplesApart ==
    ASSUME NEW a \in Nat, NEW b \in Nat, NEW q \in Nat, a < b
    PROVE  a * q + q <= b * q
<1>1. a + 1 <= b
  OBVIOUS
<1>2. (a + 1) * q <= b * q
  BY <1>1, MulMono
<1>3. (a + 1) * q = a * q + q
  OBVIOUS
<1>4. QED
  BY <1>2, <1>3

\* A duration of q whole seconds is rounded with exactly q.
LEMMA DurSecsWhole ==
    ASSUME NEW d \in WholeSeconds
    PROVE  /\ DurSecs(d) \in Nat \ {0}
           /\ d = DurSecs(d) * Sec
<1> DEFINE q == d \div Sec
<1>1. d = Sec * q + (d % Sec) /\ q \in Nat
  BY SecAssumption DEF WholeSeconds
<1>2. d = q * Sec
  BY <1>1, SecAssumption DEF WholeSeconds
<1>3. q # 0
  BY <1>1, <1>2, SecAssumption DEF WholeSeconds
<1>4. DurSecs(d) = q
  BY <1>1, <1>3 DEF DurSecs
<1> HIDE DEF q
<1>5. QED
  BY <1>1, <1>2, <1>3, <1>4

\* The start of the interval an instant is aligned to is a multiple of the
\* whole duration.
LEMMA AlignedStart ==
    ASSUME NEW t \in Nat, NEW d \in WholeSeconds
    PROVE  \E n \in Nat : /\ align_to_duration(t, d) = <<n * d, n * d + d>>
                          /\ n * d <= t
                          /\ t < n * d + d
<1> DEFINE q == DurSecs(d)
           u == t \div Sec
           n == u \div q
<1>1. q \in Nat \ {0} /\ d = q * Sec
  BY DurSecsWhole
<1>2. u \in Nat /\ u * Sec <= t /\ t < u * Sec + Sec
  BY DivBounds, SecAssumption
<1>3. align_to_duration(t, d) = <<n * q * Sec, n * q * Sec + d>>
  BY DEF align_to_duration, floor_to, to_unix_secs
<1> HIDE DEF q, u
<1>4. n \in Nat /\ n * q \in Nat /\ n * q <= u /\ u < n * q + q
  BY <1>1, <1>2, DivBounds
<1> HIDE DEF n
<1>5. n * q * Sec = n * d
  BY <1>1, <1>4, SecAssumption
<1>6. n * d <= t
  <2>1. (n * q) * Sec <= u * Sec
    BY <1>2, <1>4, MulMono, SecAssumption
  <2>2. QED
    BY <2>1, <1>1, <1>2, <1>4, <1>5, SecAssumption
<1>7. t < n * d + d
  <2>1. u + 1 <= n * q + q
    BY <1>1, <1>2, <1>4
  <2>2. (u + 1) * Sec <= (n * q + q) * Sec
    BY <2>1, <1>1, <1>2, <1>4, MulMono, SecAssumption
  <2>3. (u + 1) * Sec = u * Sec + Sec
    BY <1>2, SecAssumption
  <2>4. (n * q + q) * Sec = n * q * Sec + q * Sec
    BY <1>1, <1>4, SecAssumption
  <2>5. QED
    BY <2>2, <2>3, <2>4, <1>1, <1>2, <1>4, <1>5, SecAssumption
<1>8. QED
  BY <1>3, <1>4, <1>5, <1>6, <1>7

\* For a width of at least a second, with or without a fraction, every instant
\* lies in the interval align_to_duration gives it.
THEOREM AlignCovers ==
    ASSUME NEW t \in Nat, NEW d \in Nat, Sec <= d
    PROVE  Covers(align_to_duration(t, d), t)
<1> DEFINE q == d \div Sec
           u == t \div Sec
           n == u \div q
<1>1. q \in Nat \ {0} /\ q * Sec <= d /\ DurSecs(d) = q
  <2>1. q \in Nat /\ q * Sec <= d /\ d < q * Sec + Sec
    BY DivBounds, SecAssumption
  <2>2. q # 0
    BY <2>1, SecAssumption
  <2> QED
    BY <2>1, <2>2 DEF DurSecs
<1>2. u \in Nat /\ u * Sec <= t /\ t < u * Sec + Sec
  BY DivBounds, SecAssumption
<1>3. align_to_duration(t, d) = <<n * q * Sec, n * q * Sec + d>>
  BY <1>1 DEF align_to_duration, floor_to, to_unix_secs
<1> HIDE DEF q, u
<1>4. n \in Nat /\ n * q \in Nat /\ n * q <= u /\ u < n * q + q
  BY <1>1, <1>2, DivBounds
<1> HIDE DEF n
<1>5. n * q * Sec <= t
  <2>1. (n * q) * Sec <= u * Sec
    BY <1>2, <1>4, MulMono, SecAssumption
  <2> QED
    BY <2>1, <1>1, <1>2, <1>4, SecAssumption
<1>6. t < n * q * Sec + d
  <2>1. u + 1 <= n * q + q
    BY <1>1, <1>2, <1>4
  <2>2. (u + 1) * Sec <= (n * q + q) * Sec
    BY <2>1, <1>1, <1>2, <1>4, MulMono, SecAssumption
  <2>3. (u + 1) * Sec = u * Sec + Sec
    BY <1>2, SecAssumption
  <2>4. (n * q + q) * Sec = n * q * Sec + q * Sec
    BY <1>1, <1>4, SecAssumption
  <2> QED
    BY <2>2, <2>3, <2>4, <1>1, <1>2, <1>4, SecAssumption
<1> QED
  BY <1>3, <1>5, <1>6 DEF Covers

LEMMA WholeCovers ==
    ASSUME NEW t \in Nat, NEW d \in WholeSeconds
    PROVE  Covers(align_to_duration(t, d), t)
BY AlignedStart DEF Covers

\* For a width of whole seconds the intervals of two instants are the same or
\* disjoint: the shards of one width never overlap (the comment of
\* align_to_duration, for every instant and every whole width).
THEOREM AlignTiles ==
    ASSUME NEW t1 \in Nat, NEW t2 \in Nat, NEW d \in WholeSeconds
    PROVE  \/ align_to_duration(t1, d) = align_to_duration(t2, d)
           \/ Disjoint(align_to_duration(t1, d), align_to_duration(t2, d))
<1>1. PICK n1 \in Nat : align_to_duration(t1, d) = <<n1 * d, n1 * d + d>>
  BY AlignedStart
<1>2. PICK n2 \in Nat : align_to_duration(t2, d) = <<n2 * d, n2 * d + d>>
  BY AlignedStart
<1>3. d \in Nat
  BY DEF WholeSeconds
<1>4. CASE n1 = n2
  BY <1>1, <1>2, <1>4
<1>5. CASE n1 < n2
  BY <1>1, <1>2, <1>3, <1>5, MultiplesApart DEF Disjoint
<1>6. CASE n2 < n1
  BY <1>1, <1>2, <1>3, <1>6, MultiplesApart DEF Disjoint
<1>7. QED
  BY <1>4, <1>5, <1>6

\* An instant inside an aligned interval is aligned to that interval.
THEOREM AlignUnique ==
    ASSUME NEW t1 \in Nat, NEW t2 \in Nat, NEW d \in WholeSeconds,
           Covers(align_to_duration(t1, d), t2)
    PROVE  align_to_duration(t2, d) = align_to_duration(t1, d)
<1>1. PICK n1 \in Nat : align_to_duration(t1, d) = <<n1 * d, n1 * d + d>>
  BY AlignedStart
<1>2. PICK n2 \in Nat : /\ align_to_duration(t2, d) = <<n2 * d, n2 * d + d>>
                        /\ n2 * d <= t2
                        /\ t2 < n2 * d + d
  BY AlignedStart
<1>3. n1 * d <= t2 /\ t2 < n1 * d + d
  BY <1>1 DEF Covers
<1>4. d \in Nat /\ n1 * d \in Nat /\ n2 * d \in Nat
  BY DEF WholeSeconds
<1>5. ~(n1 < n2)
  BY <1>2, <1>3, <1>4, MultiplesApart
<1>6. ~(n2 < n1)
  BY <1>2, <1>3, <1>4, MultiplesApart
<1>7. QED
  BY <1>1, <1>2, <1>5, <1>6

\* Cutting an instant to its second does not change its interval.
LEMMA AlignTruncated ==
    ASSUME NEW t \in Nat, NEW d
    PROVE  /\ to_unix_secs(t) * Sec \in Nat
           /\ align_to_duration(to_unix_secs(t) * Sec, d) = align_to_duration(t, d)
<1> DEFINE s == t \div Sec
<1>1. s \in Nat
  BY DivBounds, SecAssumption
<1> HIDE DEF s
<1>2. (s * Sec) \div Sec = s /\ s * Sec \in Nat
  BY <1>1, SecAssumption
<1>3. QED
  BY <1>2 DEF s, align_to_duration, floor_to, to_unix_secs

\* Both ends of an aligned interval are whole seconds.
LEMMA AlignedIsWhole ==
    ASSUME NEW t \in Nat, NEW d \in WholeSeconds
    PROVE  LET r == align_to_duration(t, d)
           IN  /\ r \in Nat \X Nat
               /\ to_unix_secs(r[1]) * Sec = r[1]
               /\ to_unix_secs(r[2]) * Sec = r[2]
<1>1. PICK n \in Nat : align_to_duration(t, d) = <<n * d, n * d + d>>
  BY AlignedStart
<1>2. PICK q \in Nat : d = q * Sec
  BY DurSecsWhole
<1>3. /\ n * d = (n * q) * Sec
      /\ n * d + d = (n * q + q) * Sec
      /\ n * q \in Nat /\ n * q + q \in Nat
  BY <1>2, SecAssumption
<1>4. \A k \in Nat : (k * Sec) \div Sec = k /\ k * Sec \in Nat
  BY SecAssumption
<1>5. QED
  BY <1>1, <1>3, <1>4 DEF to_unix_secs

\* When p is a multiple of q, the multiples of p are multiples of q: rounding
\* down to q stays inside the interval that rounding down to p gives.
LEMMA FloorsNest ==
    ASSUME NEW u \in Nat, NEW q \in Nat \ {0}, NEW k \in Nat \ {0}
    PROVE  /\ (u \div (k * q)) * (k * q) <= (u \div q) * q
           /\ (u \div q) * q + q <= (u \div (k * q)) * (k * q) + k * q
<1> DEFINE p == k * q
           a == u \div p
           b == u \div q
<1>1. p \in Nat \ {0}
  OBVIOUS
<1>2. a \in Nat /\ a * p <= u /\ u < a * p + p
  BY <1>1, DivBounds
<1>3. b \in Nat /\ b * q <= u /\ u < b * q + q
  BY DivBounds
<1> HIDE DEF a, b
<1>4. a * p = (a * k) * q /\ a * k \in Nat
  BY <1>2
<1>5. a * p + p = (a * k + k) * q
  BY <1>2, <1>4
<1> HIDE DEF p
<1>6. a * k <= b
  <2>1. SUFFICES ASSUME b < a * k PROVE FALSE
    BY <1>3, <1>4
  <2>2. b * q + q <= (a * k) * q
    BY <2>1, <1>3, <1>4, MultiplesApart
  <2>3. QED
    BY <2>2, <1>1, <1>2, <1>3, <1>4
<1>7. b + 1 <= a * k + k
  <2>1. SUFFICES ASSUME a * k + k <= b PROVE FALSE
    BY <1>3, <1>4
  <2>2. (a * k + k) * q <= b * q
    BY <2>1, <1>3, <1>4, MulMono
  <2>3. QED
    BY <2>2, <1>1, <1>2, <1>3, <1>5
<1>8. a * p <= b * q
  BY <1>3, <1>4, <1>6, MulMono
<1>9. b * q + q <= a * p + p
  <2>1. (b + 1) * q <= (a * k + k) * q
    BY <1>3, <1>4, <1>7, MulMono
  <2>2. (b + 1) * q = b * q + q
    BY <1>3
  <2>3. QED
    BY <2>1, <2>2, <1>5
<1>10. QED
  BY <1>8, <1>9 DEF a, b, p

Inside(r, o) == o[1] <= r[1] /\ r[2] <= o[2]

\* The range of q seconds around an instant, and that of a multiple p of q,
\* which holds the first.
LEMMA RangesNest ==
    ASSUME NEW t \in Nat, NEW q \in Nat \ {0}, NEW k \in Nat \ {0},
           NEW p \in Nat, p = k * q
    PROVE  /\ Covers(TimeRangeNew(floor_to(t, q), q), t)
           /\ Inside(TimeRangeNew(floor_to(t, q), q), TimeRangeNew(floor_to(t, p), p))
<1> DEFINE u == t \div Sec
           b == (u \div q) * q
           a == (u \div p) * p
<1>1. u \in Nat /\ u * Sec <= t /\ t < u * Sec + Sec
  BY DivBounds, SecAssumption
<1>2. p \in Nat \ {0}
  OBVIOUS
<1>3. floor_to(t, q) = b * Sec /\ floor_to(t, p) = a * Sec
  BY DEF floor_to, to_unix_secs
<1> HIDE DEF u
<1>4. b \in Nat /\ b <= u /\ u < b + q
  BY <1>1, DivBounds
<1>5. a \in Nat
  BY <1>1, <1>2, DivBounds
<1>6. a <= b /\ b + q <= a + p
  BY <1>1, FloorsNest
<1> HIDE DEF a, b
<1>7. b * Sec <= t
  <2>1. b * Sec <= u * Sec
    BY <1>1, <1>4, MulMono, SecAssumption
  <2>2. QED
    BY <2>1, <1>1, <1>4, SecAssumption
<1>8. t < b * Sec + q * Sec
  <2>1. (u + 1) * Sec <= (b + q) * Sec
    BY <1>1, <1>4, MulMono, SecAssumption
  <2>2. (u + 1) * Sec = u * Sec + Sec /\ (b + q) * Sec = b * Sec + q * Sec
    BY <1>1, <1>4, SecAssumption
  <2>3. QED
    BY <2>1, <2>2, <1>1, <1>4, SecAssumption
<1>9. a * Sec <= b * Sec
  BY <1>4, <1>5, <1>6, MulMono, SecAssumption
<1>10. b * Sec + q * Sec <= a * Sec + p * Sec
  <2>1. (b + q) * Sec <= (a + p) * Sec
    BY <1>2, <1>4, <1>5, <1>6, MulMono, SecAssumption
  <2>2. (b + q) * Sec = b * Sec + q * Sec /\ (a + p) * Sec = a * Sec + p * Sec
    BY <1>2, <1>4, <1>5, SecAssumption
  <2>3. QED
    BY <2>1, <2>2
<1>11. QED
  BY <1>3, <1>7, <1>8, <1>9, <1>10 DEF Covers, Inside, TimeRangeNew

\* The calendar ranges hold their instant and nest: the minute ranges that
\* minute_range admits never straddle an hour, nor an hour a day ("n must
\* divide 60 evenly so that boundaries align to the hour").
THEOREM CalendarRangesNest ==
    ASSUME NEW t \in Nat, NEW n \in 1..60, ValidMinutes(n)
    PROVE  /\ Covers(minute_range(t, n), t)
           /\ Inside(minute_range(t, n), hour_range(t))
           /\ Inside(hour_range(t), day_range(t))
<1>1. n * 60 \in Nat \ {0}
  OBVIOUS
<1>2. PICK k \in Nat \ {0} : k * n = 60
  <2> DEFINE h == 60 \div n
  <2>1. 60 = n * h + (60 % n) /\ h \in Nat
    OBVIOUS
  <2>2. 60 % n = 0
    BY DEF ValidMinutes
  <2> HIDE DEF h
  <2>3. h * n = 60
    BY <2>1, <2>2
  <2>4. h # 0
    BY <2>3
  <2>5. QED
    BY <2>1, <2>3, <2>4
<1>3. 3600 = k * (n * 60) /\ 3600 \in Nat \ {0}
  <2>1. k * (n * 60) = (k * n) * 60
    OBVIOUS
  <2>2. QED
    BY <2>1, <1>2
<1>4. /\ Covers(minute_range(t, n), t)
      /\ Inside(minute_range(t, n), hour_range(t))
  <2> DEFINE q == n * 60
             p == 3600
  <2>1. q \in Nat \ {0} /\ p \in Nat /\ p = k * q
    BY <1>1, <1>3
  <2> HIDE DEF q, p
  <2>2. /\ Covers(TimeRangeNew(floor_to(t, q), q), t)
        /\ Inside(TimeRangeNew(floor_to(t, q), q), TimeRangeNew(floor_to(t, p), p))
    BY <2>1, RangesNest
  <2>3. QED
    BY <2>2 DEF minute_range, hour_range, q, p
<1>5. Inside(hour_range(t), day_range(t))
  <2> DEFINE q == 3600
             p == 86400
             h == 24
  <2>1. q \in Nat \ {0} /\ h \in Nat \ {0} /\ p \in Nat /\ p = h * q
    OBVIOUS
  <2> HIDE DEF q, p, h
  <2>2. Inside(TimeRangeNew(floor_to(t, q), q), TimeRangeNew(floor_to(t, p), p))
    BY <2>1, RangesNest
  <2>3. QED
    BY <2>2 DEF hour_range, day_range, q, p
<1>6. QED
  BY <1>4, <1>5

-----------------------------------------------------------------------------
(* The invariants of the cache. *)

\* Widths have no fraction of a second.
WholeWidths == Durations \subseteq WholeSeconds

\* The width is configured once for a data directory.
SingleWidth(d) == d \in WholeSeconds /\ Durations = {d}

Slots(d) == {align_to_duration(t, d) : t \in Nat}

\* Listed once each, exactly the open shards are in the LRU list.
ListExact ==
    /\ Elements(lru) = open
    /\ \A i, j \in DOMAIN lru : lru[i] = lru[j] => i = j

\* The inductive strengthening: every catalog row and every open shard is an
\* aligned interval, which is what makes the aligned key, the catalog row and
\* the directory of a shard one and the same.
CacheInv ==
    /\ duration \in Durations
    /\ catalog \subseteq Slots(duration)
    /\ open \subseteq catalog
    /\ IsFiniteSet(open)
    /\ Cardinality(open) <= Limit
    /\ lru \in Seq(Interval)
    /\ ListExact

-----------------------------------------------------------------------------
LEMMA LimitType == Limit \in Nat \ {0}
BY CacheAssumption DEF Limit

LEMMA SlotFacts ==
    ASSUME NEW d \in WholeSeconds, NEW r \in Slots(d)
    PROVE  /\ r \in Interval
           /\ CatalogRow(r) = r
<1>1. PICK t \in Nat : r = align_to_duration(t, d)
  BY DEF Slots
<1>2. /\ r \in Nat \X Nat
      /\ to_unix_secs(r[1]) * Sec = r[1]
      /\ to_unix_secs(r[2]) * Sec = r[2]
  BY <1>1, AlignedIsWhole
<1>3. r = <<r[1], r[2]>>
  BY <1>2
<1>4. QED
  BY <1>2, <1>3 DEF Interval, CatalogRow

LEMMA SlotsDisjoint ==
    ASSUME NEW d \in WholeSeconds, NEW r1 \in Slots(d), NEW r2 \in Slots(d)
    PROVE  r1 = r2 \/ Disjoint(r1, r2)
BY AlignTiles DEF Slots

-----------------------------------------------------------------------------
(* The list operators, for any list. *)

Less == {p \in Nat \X Nat : p[1] < p[2]}

\* A nonempty set of numbers has a least one.
LEMMA LeastOf ==
    ASSUME NEW S, S \subseteq Nat, S # {}
    PROVE  \E i \in S : \A j \in S : i <= j
<1>1. IsWellFoundedOn(Less, Nat)
  BY NatLessThanWellFounded DEF OpToRel, Less
<1>2. PICK i \in S : \A j \in S : <<j, i>> \notin Less
  BY <1>1, WFMin
<1>3. \A j \in S : j \in Nat /\ i \in Nat /\ ~(j < i)
  BY <1>2 DEF Less
<1>4. QED
  BY <1>3

\* What is kept is everything but the key, and still listed once if it was.
LEMMA RetainFacts ==
    ASSUME NEW S, NEW s \in Seq(S), NEW key
    PROVE  /\ Retain(s, key) \in Seq(S)
           /\ Elements(Retain(s, key)) = Elements(s) \ {key}
           /\ (\A i, j \in DOMAIN s : s[i] = s[j] => i = j) =>
                 \A i, j \in DOMAIN Retain(s, key) :
                     Retain(s, key)[i] = Retain(s, key)[j] => i = j
<1> DEFINE n    == Len(s)
           kept == {i \in DOMAIN s : s[i] # key}
           k    == Cardinality(kept)
           Before(i) == {m \in kept : m < i}
           rank == [i \in kept |-> Cardinality(Before(i)) + 1]
           Nth(j) == CHOOSE i \in kept : Cardinality(Before(i)) = j - 1
<1>1. n \in Nat /\ DOMAIN s = 1..n /\ \A i \in 1..n : s[i] \in S
  OBVIOUS
<1>2. kept \subseteq 1..n /\ IsFiniteSet(kept) /\ k \in Nat
  <2>1. IsFiniteSet(1..n) /\ kept \subseteq 1..n
    BY <1>1, FS_Interval
  <2>2. IsFiniteSet(kept)
    BY <2>1, FS_Subset
  <2>3. QED
    BY <2>1, <2>2, FS_CardinalityType
<1>3. ASSUME NEW i \in kept
      PROVE  IsFiniteSet(Before(i)) /\ Cardinality(Before(i)) \in 0..(k - 1)
  <2>1. IsFiniteSet(kept \ {i}) /\ Cardinality(kept \ {i}) = k - 1
    BY <1>2, FS_RemoveElement
  <2>2. Before(i) \subseteq kept \ {i}
    BY <1>1, <1>2
  <2> HIDE DEF Before, kept, k
  <2>3. IsFiniteSet(Before(i)) /\ Cardinality(Before(i)) <= k - 1
    BY <2>1, <2>2, FS_Subset
  <2>4. QED
    BY <1>2, <2>3, FS_CardinalityType
<1>4. ASSUME NEW i \in kept, NEW j \in kept, i < j
      PROVE  Cardinality(Before(i)) < Cardinality(Before(j))
  <2>1. Before(i) \cup {i} \subseteq Before(j) /\ i \notin Before(i)
    BY <1>1, <1>2, <1>4
  <2> HIDE DEF Before, kept, k
  <2>2. Cardinality(Before(i) \cup {i}) = Cardinality(Before(i)) + 1
    BY <1>3, <2>1, FS_AddElement
  <2>3. Cardinality(Before(i) \cup {i}) <= Cardinality(Before(j))
    BY <1>3, <2>1, FS_Subset
  <2>4. QED
    BY <1>3, <2>2, <2>3
<1>5. \A i, j \in kept : Cardinality(Before(i)) = Cardinality(Before(j)) => i = j
  <2>1. TAKE i, j \in kept
  <2>2. i = j \/ i < j \/ j < i
    BY <1>1, <1>2
  <2> HIDE DEF Before, kept, k
  <2>3. Cardinality(Before(i)) \in Int /\ Cardinality(Before(j)) \in Int
    BY <1>3
  <2>4. QED
    BY <1>4, <2>2, <2>3
<1> HIDE DEF Before, k
<1>6. rank \in Injection(kept, 1..k)
  <2>1. rank \in [kept -> 1..k]
    BY <1>2, <1>3
  <2>2. \A i, j \in kept : rank[i] = rank[j] => i = j
    BY <1>3, <1>5
  <2>3. QED
    BY <2>1, <2>2 DEF Injection, IsInjective
<1>7. \A j \in 1..k : \E i \in kept : rank[i] = j
  <2>1. IsFiniteSet(1..k) /\ Cardinality(1..k) = k
    BY <1>2, FS_Interval
  <2> HIDE DEF rank, kept
  <2>2. rank \in Surjection(kept, 1..k)
    BY <1>2, <1>6, <2>1, FS_Injection DEF k
  <2>3. QED
    BY <2>2 DEF Surjection
<1>8. ASSUME NEW j \in 1..k
      PROVE  Nth(j) \in kept /\ Cardinality(Before(Nth(j))) = j - 1
  <2>1. PICK i \in kept : rank[i] = j
    BY <1>7
  <2>2. Cardinality(Before(i)) = j - 1
    BY <1>3, <2>1
  <2> HIDE DEF rank, kept
  <2>3. QED
    BY <2>2
<1>9. ASSUME NEW i \in kept PROVE \E j \in 1..k : Nth(j) = i
  <2>1. Cardinality(Before(i)) + 1 \in 1..k
    BY <1>2, <1>3
  <2> HIDE DEF rank, kept, Nth
  <2>2. /\ Nth(Cardinality(Before(i)) + 1) \in kept
        /\ Cardinality(Before(Nth(Cardinality(Before(i)) + 1)))
              = (Cardinality(Before(i)) + 1) - 1
    BY <1>8, <2>1
  <2>3. Cardinality(Before(Nth(Cardinality(Before(i)) + 1))) = Cardinality(Before(i))
    BY <1>3, <2>2
  <2>4. QED
    BY <1>5, <2>1, <2>2, <2>3
<1>10. Retain(s, key) = [j \in 1..k |-> s[Nth(j)]]
  BY DEF Retain, Before, k
<1> HIDE DEF rank, Nth
<1>11. Retain(s, key) \in Seq(S)
  BY <1>1, <1>2, <1>8, <1>10
<1>12. Elements(Retain(s, key)) = Elements(s) \ {key}
  <2>1. ASSUME NEW j \in 1..k PROVE s[Nth(j)] \in Elements(s) \ {key}
    BY <1>8 DEF Elements
  <2>2. ASSUME NEW x \in Elements(s) \ {key} PROVE \E j \in 1..k : s[Nth(j)] = x
    <3>1. PICK i \in kept : s[i] = x
      BY DEF Elements
    <3>2. QED
      BY <1>9, <3>1
  <2>3. DOMAIN Retain(s, key) = 1..k /\ \A j \in 1..k : Retain(s, key)[j] = s[Nth(j)]
    BY <1>10
  <2>4. Elements(Retain(s, key)) = {s[Nth(j)] : j \in 1..k}
    BY <2>3 DEF Elements
  <2> HIDE DEF kept
  <2>5. QED
    BY <2>1, <2>2, <2>4
<1>13. ASSUME \A i, j \in DOMAIN s : s[i] = s[j] => i = j,
              NEW i \in 1..k, NEW j \in 1..k, s[Nth(i)] = s[Nth(j)]
       PROVE  i = j
  <2>1. Nth(i) \in kept /\ Cardinality(Before(Nth(i))) = i - 1
        /\ Nth(j) \in kept /\ Cardinality(Before(Nth(j))) = j - 1
    BY <1>8
  <2>2. Nth(i) = Nth(j)
    BY <1>13, <2>1
  <2>3. i - 1 = j - 1
    BY <2>1, <2>2
  <2>4. QED
    BY <2>3
<1>14. DOMAIN Retain(s, key) = 1..k /\ \A j \in 1..k : Retain(s, key)[j] = s[Nth(j)]
  BY <1>10
<1>15. QED
  BY <1>11, <1>12, <1>13, <1>14

\* Promoting puts the key first and keeps the rest.
LEMMA PromoteFacts ==
    ASSUME NEW S, NEW s \in Seq(S), NEW key \in S
    PROVE  /\ Promote(s, key) \in Seq(S)
           /\ Elements(Promote(s, key)) = Elements(s) \cup {key}
           /\ Promote(s, key) # <<>> /\ Promote(s, key)[1] = key
           /\ (\A i, j \in DOMAIN s : s[i] = s[j] => i = j) =>
                 \A i, j \in DOMAIN Promote(s, key) :
                     Promote(s, key)[i] = Promote(s, key)[j] => i = j
<1> DEFINE rest == Retain(s, key)
           new  == Promote(s, key)
           n    == Len(rest)
<1>1. /\ rest \in Seq(S)
      /\ Elements(rest) = Elements(s) \ {key}
      /\ (\A i, j \in DOMAIN s : s[i] = s[j] => i = j) =>
            \A i, j \in DOMAIN rest : rest[i] = rest[j] => i = j
  BY RetainFacts
<1>2. new = <<key>> \o rest
  BY DEF Promote
<1> HIDE DEF rest, new
<1>3. n \in Nat /\ DOMAIN rest = 1..n /\ \A i \in 1..n : rest[i] \in S
  BY <1>1
<1>4. /\ new \in Seq(S) /\ DOMAIN new = 1..(n + 1) /\ new[1] = key /\ new # <<>>
      /\ \A i \in 2..(n + 1) : new[i] = rest[i - 1]
  BY <1>1, <1>2, <1>3
<1>5. Elements(new) = Elements(rest) \cup {key}
  <2>1. ASSUME NEW i \in 1..(n + 1) PROVE new[i] \in Elements(rest) \cup {key}
    <3>1. CASE i = 1
      BY <1>4, <3>1
    <3>2. CASE i # 1
      <4>1. i - 1 \in 1..n /\ new[i] = rest[i - 1]
        BY <1>3, <1>4, <3>2
      <4>2. QED
        BY <1>3, <4>1 DEF Elements
    <3>3. QED
      BY <3>1, <3>2
  <2>2. ASSUME NEW x \in Elements(rest) \cup {key} PROVE \E i \in 1..(n + 1) : new[i] = x
    <3>1. CASE x = key
      BY <1>3, <1>4, <3>1
    <3>2. CASE x # key
      <4>1. PICK i \in 1..n : rest[i] = x
        BY <1>3, <3>2 DEF Elements
      <4>2. i + 1 \in 1..(n + 1) /\ new[i + 1] = rest[i]
        BY <1>3, <1>4
      <4>3. QED
        BY <4>1, <4>2
    <3>3. QED
      BY <3>1, <3>2
  <2>3. Elements(new) = {new[i] : i \in 1..(n + 1)}
    BY <1>4 DEF Elements
  <2>4. QED
    BY <2>1, <2>2, <2>3
<1>6. key \in Elements(s) \cup {key} /\ (Elements(s) \ {key}) \cup {key} = Elements(s) \cup {key}
  OBVIOUS
<1>7. ASSUME \A i, j \in DOMAIN s : s[i] = s[j] => i = j,
             NEW i \in 1..(n + 1), NEW j \in 1..(n + 1), new[i] = new[j]
      PROVE  i = j
  <2>1. \A m \in 1..n : rest[m] # key
    BY <1>1, <1>3 DEF Elements
  <2>2. \A m \in 2..(n + 1) : m - 1 \in 1..n /\ new[m] = rest[m - 1] /\ new[m] # key
    BY <1>3, <1>4, <2>1
  <2>3. CASE i = 1 \/ j = 1
    BY <1>3, <1>4, <1>7, <2>2, <2>3
  <2>4. CASE i # 1 /\ j # 1
    <3>1. i \in 2..(n + 1) /\ j \in 2..(n + 1)
      BY <1>3, <2>4
    <3>2. rest[i - 1] = rest[j - 1] /\ i - 1 \in 1..n /\ j - 1 \in 1..n
      BY <1>7, <2>2, <3>1
    <3>3. i - 1 = j - 1
      BY <1>1, <1>3, <1>7, <3>2
    <3>4. QED
      BY <3>3
  <2>5. QED
    BY <2>3, <2>4
<1>8. QED
  BY <1>1, <1>4, <1>5, <1>6, <1>7 DEF new

\* The eviction loop ends: with the map within the limit, or the list empty.
LEMMA EvictionsFacts ==
    ASSUME NEW keys, NEW S, NEW s \in Seq(S)
    PROVE  /\ Evictions(keys, s) \in 0..Len(s)
           /\ \/ Evictions(keys, s) = Len(s)
              \/ Cardinality(keys \ LastKeys(s, Evictions(keys, s))) <= Limit
<1> DEFINE Stops(n) == n = Len(s) \/ Cardinality(keys \ LastKeys(s, n)) <= Limit
           At == {n \in 0..Len(s) : Stops(n)}
<1>1. Len(s) \in Nat
  OBVIOUS
<1>2. At \subseteq Nat /\ At # {}
  <2>1. Len(s) \in At
    BY <1>1
  <2>2. QED
    BY <1>1, <2>1
<1> HIDE DEF Stops
<1>3. PICK n \in At : \A m \in At : n <= m
  BY <1>2, LeastOf
<1>4. n \in 0..Len(s) /\ Stops(n) /\ \A m \in 0..(n - 1) : ~Stops(m)
  BY <1>1, <1>3
<1>5. Evictions(keys, s) = CHOOSE m \in 0..Len(s) :
                               Stops(m) /\ \A l \in 0..(m - 1) : ~Stops(l)
  BY DEF Evictions, Stops
<1> DEFINE P(m) == Stops(m) /\ \A l \in 0..(m - 1) : ~Stops(l)
<1>6. Evictions(keys, s) \in 0..Len(s) /\ Stops(Evictions(keys, s))
  <2>1. n \in 0..Len(s) /\ P(n)
    BY <1>4
  <2>2. Evictions(keys, s) = CHOOSE m \in 0..Len(s) : P(m)
    BY <1>5
  <2> HIDE DEF P
  <2>3. Evictions(keys, s) \in 0..Len(s) /\ P(Evictions(keys, s))
    BY <2>1, <2>2
  <2>4. QED
    BY <2>3 DEF P
<1>7. QED
  BY <1>6 DEF Stops

\* The catalog can only answer with the interval the timestamp is aligned to.
LEMMA RowsAt ==
    ASSUME NEW d \in WholeSeconds, duration = d, CacheInv, NEW t \in Nat
    PROVE  shards_at(t) = catalog \cap {align_to_duration(t, d)}
<1> DEFINE u == to_unix_secs(t) * Sec
<1>1. u \in Nat /\ align_to_duration(u, d) = align_to_duration(t, d)
  BY AlignTruncated
<1>2. Covers(align_to_duration(t, d), u)
  BY <1>1, WholeCovers
<1>3. ASSUME NEW r \in catalog, Covers(r, u)
      PROVE  r = align_to_duration(t, d)
  <2>1. PICK t1 \in Nat : r = align_to_duration(t1, d)
    BY <1>3 DEF CacheInv, Slots
  <2>2. QED
    BY <1>1, <1>3, <2>1, AlignUnique
<1> HIDE DEF u
<1>4. shards_at(t) = {r \in catalog : Covers(r, u)}
  BY DEF shards_at, u
<1>5. QED
  BY <1>2, <1>3, <1>4

\* Moving a listed key to the front keeps the list exact.
LEMMA PromoteKeepsList ==
    ASSUME CacheInv, NEW key \in open
    PROVE  /\ Promote(lru, key) \in Seq(Interval)
           /\ Elements(Promote(lru, key)) = open
           /\ \A i, j \in DOMAIN Promote(lru, key) :
                 Promote(lru, key)[i] = Promote(lru, key)[j] => i = j
           /\ Promote(lru, key) # <<>>
           /\ Promote(lru, key)[1] = key
<1>1. /\ lru \in Seq(Interval) /\ Elements(lru) = open
      /\ \A i, j \in DOMAIN lru : lru[i] = lru[j] => i = j
  BY DEF CacheInv, ListExact
<1>2. key \in Interval
  BY <1>1 DEF Elements
<1>3. /\ Promote(lru, key) \in Seq(Interval)
      /\ Elements(Promote(lru, key)) = Elements(lru) \cup {key}
      /\ Promote(lru, key) # <<>> /\ Promote(lru, key)[1] = key
      /\ (\A i, j \in DOMAIN lru : lru[i] = lru[j] => i = j) =>
            \A i, j \in DOMAIN Promote(lru, key) :
                Promote(lru, key)[i] = Promote(lru, key)[j] => i = j
  BY <1>1, <1>2, PromoteFacts
<1>4. Elements(lru) \cup {key} = open
  BY <1>1
<1>5. QED
  BY <1>1, <1>3, <1>4

\* Inserting a shard that was not open closes at most the last one listed:
\* the map stays within the limit, the list stays exact, the new shard stays.
LEMMA InsertKeepsList ==
    ASSUME CacheInv, NEW key \in Interval, key \notin open, Insert(key)
    PROVE  /\ open' \subseteq open \cup {key}
           /\ IsFiniteSet(open')
           /\ Cardinality(open') <= Limit
           /\ lru' \in Seq(Interval)
           /\ Elements(lru') = open'
           /\ \A i, j \in DOMAIN lru' : lru'[i] = lru'[j] => i = j
           /\ lru' # <<>> /\ lru'[1] = key /\ key \in open'
<1> DEFINE keys == open \cup {key}
           list == <<key>> \o lru
           n    == Len(lru)
           c    == Evictions(keys, list)
<1>0. n \in Nat /\ DOMAIN lru = 1..n /\ \A i \in 1..n : lru[i] \in Interval
  BY DEF CacheInv
<1>1. /\ list \in Seq(Interval)
      /\ Len(list) = n + 1
      /\ list[1] = key
      /\ \A i \in 2..(n + 1) : list[i] = lru[i - 1]
  BY <1>0 DEF CacheInv
<1>2. IsFiniteSet(keys) /\ Cardinality(keys) = Cardinality(open) + 1
      /\ Cardinality(open) \in Nat
  BY FS_AddElement, FS_CardinalityType DEF CacheInv
<1>3. /\ open' = keys \ LastKeys(list, c)
      /\ lru' = SubSeq(list, 1, Len(list) - c)
  BY DEF Insert
<1>4. Limit \in Nat \ {0}
  BY LimitType
<1>5. {list[i] : i \in 1..(n + 1)} = keys
  <2>1. {lru[i] : i \in 1..n} = open
    BY <1>0 DEF CacheInv, ListExact, Elements
  <2>2. ASSUME NEW i \in 1..(n + 1) PROVE list[i] \in keys
    BY <1>0, <1>1, <2>1
  <2>3. ASSUME NEW k \in keys PROVE \E i \in 1..(n + 1) : list[i] = k
    <3>1. CASE k = key
      BY <1>0, <1>1, <3>1
    <3>2. CASE k \in open
      <4>1. PICK i \in 1..n : lru[i] = k
        BY <2>1, <3>2
      <4>2. i + 1 \in 1..(n + 1) /\ list[i + 1] = k
        BY <1>0, <1>1, <4>1
      <4> HIDE DEF list, n
      <4>3. QED
        BY <4>2
    <3>3. QED
      BY <3>1, <3>2
  <2> HIDE DEF list, keys
  <2>4. QED
    BY <2>2, <2>3
<1>6. \A i, j \in 1..(n + 1) : list[i] = list[j] => i = j
  <2>1. \A i \in 1..n : lru[i] # key
    BY <1>0 DEF CacheInv, ListExact, Elements
  <2>2. QED
    BY <1>0, <1>1, <2>1 DEF CacheInv, ListExact
<1>7. LastKeys(list, 0) = {}
  BY <1>0, <1>1 DEF LastKeys
<1>8. LastKeys(list, 1) = {list[n + 1]}
  BY <1>0, <1>1 DEF LastKeys
<1> HIDE DEF keys, list, n
<1>9. CASE Cardinality(keys) <= Limit
  <2>1. c = 0
    <3>1. 0 = Len(list) \/ Cardinality(keys \ LastKeys(list, 0)) <= Limit
      BY <1>7, <1>9
    <3>2. QED
      BY <3>1, <1>0, <1>1 DEF Evictions
  <2>2. open' = keys /\ lru' = list
    BY <1>0, <1>1, <1>3, <1>7, <2>1
  <2>3. QED
    BY <1>0, <1>1, <1>2, <1>5, <1>6, <1>9, <2>2 DEF Elements, keys
<1>10. CASE ~(Cardinality(keys) <= Limit)
  <2>1. n >= 1
    <3>1. open # {}
      BY <1>2, <1>4, <1>10, FS_EmptySet DEF CacheInv
    <3>2. QED
      BY <1>0, <3>1 DEF CacheInv, ListExact, Elements
  <2>2. list[n + 1] \in keys /\ list[n + 1] # key
    BY <1>0, <1>1, <1>5, <1>6, <2>1
  <2> DEFINE last == list[n + 1]
  <2> HIDE DEF last
  <2>3. Cardinality(keys \ {last}) = Cardinality(open) /\ IsFiniteSet(keys \ {last})
    <3>1. last \in keys
      BY <2>2 DEF last
    <3>2. /\ IsFiniteSet(keys \ {last})
          /\ Cardinality(keys \ {last}) = Cardinality(keys) - 1
      BY <1>2, <3>1, FS_RemoveElement
    <3>3. QED
      BY <1>2, <3>2
  <2>4. Cardinality(open) <= Limit
    BY DEF CacheInv
  <2>5. c = 1
    <3> DEFINE Stops(m) == m = Len(list) \/ Cardinality(keys \ LastKeys(list, m)) <= Limit
    <3>0. keys \ LastKeys(list, 0) = keys
      BY <1>7
    <3>1. ~Stops(0)
      <4>1. Len(list) # 0
        BY <1>0, <1>1
      <4>2. QED
        BY <1>10, <3>0, <4>1
    <3>2. Stops(1)
      <4>1. keys \ LastKeys(list, 1) = keys \ {last}
        BY <1>8 DEF last
      <4>2. QED
        BY <2>3, <2>4, <4>1
    <3>3. Len(list) >= 1 /\ Len(list) \in Nat
      BY <1>0, <1>1
    <3>4. c = CHOOSE m \in 0..Len(list) :
                  Stops(m) /\ \A k \in 0..(m - 1) : ~Stops(k)
      BY DEF Evictions
    <3> HIDE DEF Stops, c
    <3>5. \A m \in 0..Len(list) :
             (Stops(m) /\ \A k \in 0..(m - 1) : ~Stops(k)) <=> m = 1
      BY <3>1, <3>2, <3>3
    <3>6. QED
      BY <3>3, <3>4, <3>5
  <2>6. open' = keys \ {last} /\ lru' = SubSeq(list, 1, n)
    BY <1>0, <1>1, <1>3, <1>8, <2>5 DEF last
  <2>7. /\ lru' \in Seq(Interval) /\ Len(lru') = n /\ DOMAIN lru' = 1..n
        /\ \A i \in 1..n : lru'[i] = list[i]
    BY <1>0, <1>1, <2>6
  <2>8. Elements(lru') = keys \ {last}
    <3>1. ASSUME NEW i \in 1..n PROVE list[i] \in keys \ {last}
      BY <1>0, <1>5, <1>6 DEF last
    <3>2. ASSUME NEW k \in keys \ {last} PROVE \E i \in 1..n : list[i] = k
      BY <1>0, <1>5 DEF last
    <3>3. QED
      BY <2>7, <3>1, <3>2 DEF Elements
  <2>9. QED
    BY <1>0, <1>1, <1>6, <2>1, <2>2, <2>3, <2>4, <2>6, <2>7, <2>8 DEF keys, last
<1>11. QED
  BY <1>9, <1>10

-----------------------------------------------------------------------------
(* One call of shard(). *)

LEMMA LookupStep ==
    ASSUME NEW d \in WholeSeconds, duration = d, CacheInv, NEW t \in Nat, NEW key,
           shard(t, key), duration' = duration
    PROVE  /\ CacheInv'
           /\ key = align_to_duration(t, d)
           /\ lru' # <<>> /\ lru'[1] = key /\ key \in open'
           /\ catalog \subseteq catalog'
<1>1. d \in WholeSeconds /\ duration = d
  OBVIOUS
<1> DEFINE slot == align_to_duration(t, d)
<1>2. slot \in Slots(d) /\ slot \in Interval /\ CatalogRow(slot) = slot
  BY <1>1, SlotFacts DEF Slots
<1>3. shards_at(t) = catalog \cap {slot}
  BY <1>1, RowsAt
<1> HIDE DEF slot
<1>4. CASE CacheHit(t, key)
  <2>1. key = slot /\ key \in open /\ lru' = Promote(lru, key)
        /\ catalog' = catalog /\ open' = open
    BY <1>1, <1>4 DEF CacheHit, slot
  <2>2. /\ lru' \in Seq(Interval)
        /\ Elements(lru') = open
        /\ \A i, j \in DOMAIN lru' : lru'[i] = lru'[j] => i = j
        /\ lru' # <<>> /\ lru'[1] = key
    BY <2>1, PromoteKeepsList
  <2>3. CacheInv'
    BY <2>1, <2>2 DEF CacheInv, ListExact, Elements
  <2>4. QED
    BY <2>1, <2>2, <2>3 DEF slot
<1>5. CASE CatalogHit(t, key)
  <2>1. key \in shards_at(t) /\ slot \notin open /\ Insert(key) /\ catalog' = catalog
    BY <1>1, <1>5 DEF CatalogHit, FirstRows, slot
  <2>2. key = slot /\ key \in catalog
    BY <1>3, <2>1
  <2>3. /\ open' \subseteq open \cup {key}
        /\ IsFiniteSet(open') /\ Cardinality(open') <= Limit
        /\ lru' \in Seq(Interval) /\ Elements(lru') = open'
        /\ \A i, j \in DOMAIN lru' : lru'[i] = lru'[j] => i = j
        /\ lru' # <<>> /\ lru'[1] = key /\ key \in open'
    BY <1>2, <2>1, <2>2, InsertKeepsList
  <2>4. CacheInv'
    BY <2>1, <2>2, <2>3 DEF CacheInv, ListExact, Elements
  <2>5. QED
    BY <2>1, <2>2, <2>3, <2>4 DEF slot
<1>6. CASE AutoCreate(t, key)
  <2>1. key = slot /\ key \notin open /\ Insert(key)
        /\ catalog' = catalog \cup {CatalogRow(key)}
    BY <1>1, <1>6 DEF AutoCreate, slot
  <2>2. catalog' = catalog \cup {slot}
    BY <1>2, <2>1
  <2>3. /\ open' \subseteq open \cup {key}
        /\ IsFiniteSet(open') /\ Cardinality(open') <= Limit
        /\ lru' \in Seq(Interval) /\ Elements(lru') = open'
        /\ \A i, j \in DOMAIN lru' : lru'[i] = lru'[j] => i = j
        /\ lru' # <<>> /\ lru'[1] = key /\ key \in open'
    BY <1>2, <2>1, InsertKeepsList
  <2>4. CacheInv'
    <3>1. catalog' \subseteq Slots(duration)
      BY <1>1, <1>2, <2>2 DEF CacheInv
    <3>2. QED
      BY <2>1, <2>2, <2>3, <3>1 DEF CacheInv, ListExact, Elements
  <2>5. QED
    BY <2>1, <2>2, <2>3, <2>4 DEF slot
<1>7. QED
  BY <1>4, <1>5, <1>6 DEF shard

-----------------------------------------------------------------------------
(* The whole specification. *)

\* A running shards_span has collected the intervals of the instants between
\* the start of its first interval and its cursor.
SpanInv ==
    /\ span \in [Clients -> SpanState \cup {NoSpan}]
    /\ \A c \in Clients : span[c].active =>
          LET first == align_to_duration(span[c].from, duration)[1]
          IN  /\ span[c].from < span[c].to
              /\ \E t \in Nat : span[c].cursor = align_to_duration(t, duration)[1]
              /\ first <= span[c].cursor
              /\ first = span[c].cursor \/ span[c].cursor < span[c].to + duration
              /\ span[c].got = {align_to_duration(t, duration) :
                                   t \in first..(span[c].cursor - 1)}

\* The shard used last is open.
FrontIsOpen == lru # <<>> => lru[1] \in open

AllInv == CacheInv /\ SpanInv /\ FrontIsOpen

LEMMA InitInv == ASSUME Init PROVE AllInv
<1>1. /\ duration \in Durations /\ catalog = {} /\ open = {} /\ lru = <<>>
      /\ span = [c \in Clients |-> NoSpan]
  BY DEF Init
<1>2. IsFiniteSet({}) /\ Cardinality({}) = 0
  BY FS_EmptySet
<1>3. CacheInv
  BY <1>1, <1>2, LimitType DEF CacheInv, ListExact, Elements
<1>4. SpanInv
  BY <1>1 DEF SpanInv, NoSpan
<1>5. QED
  BY <1>1, <1>3, <1>4 DEF AllInv, FrontIsOpen

\* The slot that begins at a slot's end, and the instants inside a slot.
LEMMA SlotArithmetic ==
    ASSUME NEW d \in WholeSeconds, NEW t \in Nat
    PROVE  LET r == align_to_duration(t, d)
           IN  /\ r \in Interval /\ r[2] = r[1] + d
               /\ r[1] <= t /\ t < r[2]
               /\ align_to_duration(r[1], d) = r
               /\ \A x \in r[1]..(r[2] - 1) : align_to_duration(x, d) = r
               /\ align_to_duration(r[2], d)[1] = r[2]
<1> DEFINE r == align_to_duration(t, d)
<1>1. PICK n \in Nat : r = <<n * d, n * d + d>>
  BY AlignedStart
<1>2. d \in Nat \ {0} /\ n * d \in Nat
  BY DEF WholeSeconds
<1>3. Covers(r, t)
  BY WholeCovers
<1>4. \A x \in r[1]..(r[2] - 1) : align_to_duration(x, d) = r
  <2>1. TAKE x \in r[1]..(r[2] - 1)
  <2>2. x \in Nat /\ Covers(r, x)
    BY <1>1, <1>2 DEF Covers
  <2>3. QED
    BY <2>2, AlignUnique
<1>5. align_to_duration(r[2], d)[1] = r[2]
  <2>0. r[2] \in Nat
    BY <1>1, <1>2
  <2> HIDE DEF r
  <2>1. PICK m \in Nat : /\ align_to_duration(r[2], d) = <<m * d, m * d + d>>
                         /\ m * d <= r[2]
                         /\ r[2] < m * d + d
    BY <2>0, AlignedStart
  <2>2. (n + 1) * d = r[2]
    BY <1>1, <1>2
  <2>3. m = n + 1
    <3>1. ~(m < n + 1)
      BY <2>1, <2>2, <1>2, MultiplesApart
    <3>2. ~(n + 1 < m)
      <4>1. ASSUME n + 1 < m PROVE FALSE
        <5>1. (n + 1) * d + d <= m * d
          BY <4>1, <1>2, MultiplesApart
        <5>2. m * d \in Nat /\ r[2] \in Nat
          BY <1>1, <1>2
        <5>3. QED
          BY <5>1, <5>2, <2>1, <2>2, <1>2
      <4>2. QED
        BY <4>1
    <3>3. QED
      BY <3>1, <3>2
  <2>4. QED
    BY <2>1, <2>2, <2>3
<1>6. QED
  BY <1>1, <1>2, <1>3, <1>4, <1>5 DEF Covers, Interval

\* One more interval: the instants covered grow by exactly that interval.
LEMMA SpanGrows ==
    ASSUME NEW d \in WholeSeconds, NEW first \in Nat, NEW t \in Nat,
           first <= align_to_duration(t, d)[1]
    PROVE  LET r == align_to_duration(t, d)
           IN  {align_to_duration(x, d) : x \in first..(r[1] - 1)} \cup {r}
               = {align_to_duration(x, d) : x \in first..(r[1] + d - 1)}
<1> DEFINE r == align_to_duration(t, d)
           A == first..(r[1] - 1)
           B == r[1]..(r[1] + d - 1)
           C == first..(r[1] + d - 1)
<1>1. r[1] \in Nat /\ r[2] = r[1] + d /\ d \in Nat \ {0}
  BY SlotArithmetic DEF Interval, WholeSeconds
<1>2. \A x \in B : align_to_duration(x, d) = r
  BY <1>1, SlotArithmetic
<1>3. r[1] \in B
  BY <1>1
<1>4. \A x : x \in C <=> x \in A \/ x \in B
  BY <1>1
<1> HIDE DEF r, A, B, C
<1>5. {align_to_duration(x, d) : x \in A} \cup {r} = {align_to_duration(x, d) : x \in C}
  BY <1>2, <1>3, <1>4
<1>6. QED
  BY <1>5 DEF A, C, r

\* A step that keeps the width, which a restart may do as well.
LEMMA NextInv == ASSUME NEW d \in WholeSeconds, duration = d, duration' = duration,
                        AllInv, [Next]_vars
                 PROVE  AllInv' /\ catalog \subseteq catalog'
<1>1. d \in WholeSeconds /\ d \in Nat \ {0} /\ duration = d /\ duration' = d
  BY DEF WholeSeconds
<1>2. CASE UNCHANGED vars
  BY <1>2 DEF vars, AllInv, CacheInv, ListExact, Elements, SpanInv, FrontIsOpen
<1>3. ASSUME NEW t \in Times, Lookup(t)
      PROVE  AllInv' /\ catalog \subseteq catalog'
  <2>1. PICK key \in Candidates(t) : shard(t, key)
    BY <1>3 DEF Lookup
  <2>2. duration' = duration /\ span' = span
    BY <1>3 DEF Lookup
  <2>3. t \in Nat
    BY CacheAssumption
  <2>4. CacheInv' /\ catalog \subseteq catalog' /\ FrontIsOpen'
    BY <2>1, <2>2, <2>3, LookupStep DEF AllInv, FrontIsOpen
  <2>5. SpanInv'
    BY <2>2 DEF AllInv, SpanInv
  <2>6. QED
    BY <2>4, <2>5 DEF AllInv
<1>4. ASSUME NEW c \in Clients, NEW s \in Times, NEW e \in Times, SpanStart(c, s, e)
      PROVE  AllInv' /\ catalog \subseteq catalog'
  <2> DEFINE first == align_to_duration(s, d)[1]
             new == [active |-> TRUE, from |-> s, to |-> e, got |-> {},
                     cursor |-> first]
  <2>1. /\ s < e /\ span' = [span EXCEPT ![c] = new]
        /\ UNCHANGED <<duration, catalog, open, lru>>
    BY <1>1, <1>4 DEF SpanStart
  <2>2. s \in Nat /\ e \in Nat /\ first \in Nat
    BY <1>1, CacheAssumption, SlotArithmetic DEF Interval
  <2>3. {align_to_duration(x, d) : x \in first..(first - 1)} = {}
    BY <2>2
  <2> HIDE DEF first
  <2>4. new \in SpanState
    BY <2>2 DEF SpanState
  <2>5. SpanInv'
    <3>1. span' \in [Clients -> SpanState \cup {NoSpan}]
      BY <2>1, <2>4 DEF AllInv, SpanInv
    <3>2. ASSUME NEW b \in Clients, span'[b].active
          PROVE  LET f == align_to_duration(span'[b].from, d)[1]
                 IN  /\ span'[b].from < span'[b].to
                     /\ \E t \in Nat : span'[b].cursor = align_to_duration(t, d)[1]
                     /\ f <= span'[b].cursor
                     /\ f = span'[b].cursor \/ span'[b].cursor < span'[b].to + d
                     /\ span'[b].got = {align_to_duration(t, d) :
                                          t \in f..(span'[b].cursor - 1)}
      <4>1. CASE b # c
        <5>1. span'[b] = span[b]
          BY <2>1, <4>1 DEF AllInv, SpanInv
        <5>2. QED
          BY <1>1, <3>2, <5>1 DEF AllInv, SpanInv
      <4>2. CASE b = c
        <5>1. span'[b] = new
          BY <2>1, <4>2 DEF AllInv, SpanInv
        <5>2. QED
          BY <2>1, <2>2, <2>3, <5>1 DEF first
      <4>3. QED
        BY <4>1, <4>2
    <3>3. duration' = d
      BY <1>1
    <3>4. QED
      BY <3>1, <3>2, <3>3 DEF SpanInv
  <2>6. QED
    BY <2>1, <2>5 DEF AllInv, CacheInv, ListExact, Elements, FrontIsOpen
<1>5. ASSUME NEW c \in Clients, SpanStep(c)
      PROVE  AllInv' /\ catalog \subseteq catalog'
  <2> DEFINE sp == span[c]
             r  == align_to_duration(sp.cursor, d)
  <2>1. PICK key \in Candidates(sp.cursor) :
           /\ shard(sp.cursor, key)
           /\ span' = [span EXCEPT ![c].cursor = @ + duration,
                                   ![c].got = @ \cup {key}]
    BY <1>5 DEF SpanStep
  <2>2. duration' = duration /\ sp.active /\ sp.cursor < sp.to
    BY <1>5 DEF SpanStep
  <2>3. sp \in SpanState
    BY <2>2 DEF AllInv, SpanInv, NoSpan
  <2>4. sp.cursor \in Nat /\ sp.from \in Nat /\ sp.to \in Nat
    BY <2>3 DEF SpanState
  <2>5. CacheInv' /\ catalog \subseteq catalog' /\ FrontIsOpen' /\ key = r
    BY <2>1, <2>2, <2>4, LookupStep DEF AllInv, FrontIsOpen
  <2> DEFINE first == align_to_duration(sp.from, d)[1]
             new == [sp EXCEPT !.cursor = sp.cursor + d, !.got = sp.got \cup {r}]
  <2>6. span' = [span EXCEPT ![c] = new]
    BY <1>1, <2>1, <2>5 DEF AllInv, SpanInv
  <2>7. r \in Interval /\ r[1] = sp.cursor /\ r[2] = sp.cursor + d
        /\ align_to_duration(r[2], d)[1] = r[2] /\ first \in Nat
    <3>1. PICK t \in Nat : sp.cursor = align_to_duration(t, d)[1]
      BY <1>1, <2>2 DEF AllInv, SpanInv
    <3>2. align_to_duration(sp.cursor, d) = align_to_duration(t, d)
      BY <1>1, <3>1, SlotArithmetic
    <3>3. QED
      BY <1>1, <2>4, <3>1, <3>2, SlotArithmetic DEF Interval
  <2>8. sp.got \cup {r} = {align_to_duration(x, d) : x \in first..(sp.cursor + d - 1)}
    <3>1. sp.got = {align_to_duration(x, d) : x \in first..(sp.cursor - 1)}
          /\ first <= sp.cursor
      BY <1>1, <2>2 DEF AllInv, SpanInv
    <3>2. first <= align_to_duration(sp.cursor, d)[1] /\ first \in Nat
      BY <2>7, <3>1
    <3> HIDE DEF first, sp
    <3>3. {align_to_duration(x, d) : x \in first..(align_to_duration(sp.cursor, d)[1] - 1)}
             \cup {align_to_duration(sp.cursor, d)}
          = {align_to_duration(x, d) : x \in first..(align_to_duration(sp.cursor, d)[1] + d - 1)}
      BY <1>1, <2>4, <3>2, SpanGrows
    <3>4. QED
      BY <2>7, <3>1, <3>3
  <2> HIDE DEF r, sp
  <2>9. new \in SpanState
    <3>1. sp.cursor + d \in Nat /\ sp.got \cup {r} \in SUBSET Interval
      BY <1>1, <2>3, <2>4, <2>7 DEF SpanState
    <3>2. QED
      BY <2>3, <3>1 DEF SpanState
  <2>10. /\ new.from = sp.from /\ new.to = sp.to /\ new.cursor = sp.cursor + d
         /\ new.got = sp.got \cup {r}
    BY <2>3 DEF SpanState
  <2>11. sp.from < sp.to /\ first <= sp.cursor
    BY <1>1, <2>2 DEF AllInv, SpanInv, sp
  <2> HIDE DEF first, new
  <2>12. SpanInv'
    <3>1. span' \in [Clients -> SpanState \cup {NoSpan}]
      BY <2>6, <2>9 DEF AllInv, SpanInv
    <3>2. ASSUME NEW b \in Clients, span'[b].active
          PROVE  LET f == align_to_duration(span'[b].from, d)[1]
                 IN  /\ span'[b].from < span'[b].to
                     /\ \E t \in Nat : span'[b].cursor = align_to_duration(t, d)[1]
                     /\ f <= span'[b].cursor
                     /\ f = span'[b].cursor \/ span'[b].cursor < span'[b].to + d
                     /\ span'[b].got = {align_to_duration(t, d) :
                                          t \in f..(span'[b].cursor - 1)}
      <4>1. CASE b # c
        <5>1. span'[b] = span[b]
          BY <2>6, <4>1 DEF AllInv, SpanInv
        <5>2. QED
          BY <1>1, <3>2, <5>1 DEF AllInv, SpanInv
      <4>2. CASE b = c
        <5>1. span'[b] = new
          BY <2>6, <4>2 DEF AllInv, SpanInv
        <5>2. sp.cursor + d \in Nat /\ sp.cursor + d = align_to_duration(sp.cursor + d, d)[1]
          BY <1>1, <2>4, <2>7
        <5>3. sp.cursor + d < sp.to + d /\ first <= sp.cursor + d
          BY <1>1, <2>2, <2>4, <2>7, <2>11
        <5>4. /\ span'[b].from = sp.from /\ span'[b].to = sp.to
              /\ span'[b].cursor = sp.cursor + d /\ span'[b].got = sp.got \cup {r}
          BY <2>10, <5>1
        <5>5. align_to_duration(span'[b].from, d)[1] = first
          BY <5>4 DEF first
        <5>6. span'[b].got = {align_to_duration(t, d) :
                                t \in first..(span'[b].cursor - 1)}
          <6>1. first..(span'[b].cursor - 1) = first..(sp.cursor + d - 1)
            BY <1>1, <2>4, <2>7, <5>4
          <6>2. QED
            BY <2>8, <5>4, <6>1
        <5>7. \E t \in Nat : span'[b].cursor = align_to_duration(t, d)[1]
          BY <5>2, <5>4
        <5>8. first <= span'[b].cursor /\ span'[b].cursor < span'[b].to + d
          BY <5>3, <5>4
        <5>9. span'[b].from < span'[b].to
          BY <2>11, <5>4
        <5>10. QED
          BY <5>5, <5>6, <5>7, <5>8, <5>9
      <4>3. QED
        BY <4>1, <4>2
    <3>3. QED
      BY <1>1, <2>2, <3>1, <3>2 DEF SpanInv
  <2>13. QED
    BY <2>5, <2>12 DEF AllInv
<1>6. ASSUME NEW c \in Clients, SpanReturn(c)
      PROVE  AllInv' /\ catalog \subseteq catalog'
  <2>1. span' = [span EXCEPT ![c] = NoSpan] /\ UNCHANGED <<duration, catalog, open, lru>>
    BY <1>6 DEF SpanReturn
  <2>2. \A b \in Clients : span'[b] = NoSpan \/ span'[b] = span[b]
    BY <2>1 DEF AllInv, SpanInv
  <2>3. SpanInv'
    BY <2>1, <2>2 DEF AllInv, SpanInv, NoSpan
  <2>4. QED
    BY <2>1, <2>3 DEF AllInv, CacheInv, ListExact, Elements, FrontIsOpen
<1>7. CASE Close
  <2>1. open' = {} /\ lru' = <<>> /\ UNCHANGED <<duration, catalog, span>>
    BY <1>7 DEF Close
  <2>2. IsFiniteSet({}) /\ Cardinality({}) = 0
    BY FS_EmptySet
  <2>3. CacheInv'
    BY <2>1, <2>2, LimitType DEF AllInv, CacheInv, ListExact, Elements
  <2>4. SpanInv' /\ FrontIsOpen'
    BY <2>1 DEF AllInv, SpanInv, FrontIsOpen
  <2>5. QED
    BY <2>1, <2>3, <2>4 DEF AllInv
<1>8. ASSUME NEW w \in Durations, Restart(w)
      PROVE  AllInv' /\ catalog \subseteq catalog'
  <2>1. /\ open' = {} /\ lru' = <<>> /\ duration' = duration /\ catalog' = catalog
        /\ span' = [c \in Clients |-> NoSpan]
    BY <1>1, <1>8 DEF Restart
  <2>2. IsFiniteSet({}) /\ Cardinality({}) = 0
    BY FS_EmptySet
  <2>3. CacheInv'
    BY <2>1, <2>2, LimitType DEF AllInv, CacheInv, ListExact, Elements
  <2>4. SpanInv' /\ FrontIsOpen'
    BY <2>1 DEF SpanInv, NoSpan, FrontIsOpen
  <2>5. QED
    BY <2>1, <2>3, <2>4 DEF AllInv
<1>9. QED
  BY <1>2, <1>3, <1>4, <1>5, <1>6, <1>7, <1>8 DEF Next

-----------------------------------------------------------------------------
(* The properties follow from the invariant. *)

LEMMA InvImplies ==
    ASSUME NEW d \in WholeSeconds, duration = d, AllInv
    PROVE  /\ TypeOK /\ CacheBounded /\ OpenIsEvictable /\ JustUsedIsOpen
           /\ OpenIsRegistered /\ ShardsDisjoint /\ SpanCollectsOverlap
           /\ SameWidth
<1>1. d \in WholeSeconds /\ d \in Nat \ {0} /\ duration = d
  BY DEF WholeSeconds
<1>2. catalog \subseteq Interval /\ \A r \in catalog : CatalogRow(r) = r
  BY <1>1, SlotFacts DEF AllInv, CacheInv
<1>3. TypeOK
  BY <1>2 DEF TypeOK, AllInv, CacheInv, SpanInv
<1>4. CacheBounded /\ OpenIsEvictable /\ JustUsedIsOpen
  BY DEF AllInv, CacheInv, ListExact, FrontIsOpen, CacheBounded, OpenIsEvictable,
         JustUsedIsOpen
<1>5. OpenIsRegistered
  BY <1>2 DEF AllInv, CacheInv, OpenIsRegistered
<1>6. ShardsDisjoint
  BY <1>1, SlotsDisjoint DEF AllInv, CacheInv, ShardsDisjoint
<1>7. SpanCollectsOverlap
  <2> SUFFICES ASSUME NEW c \in Clients, span[c].active, span[c].cursor >= span[c].to
               PROVE  span[c].got = {align_to_duration(t, d) :
                                        t \in span[c].from..(span[c].to - 1)}
    BY <1>1 DEF SpanCollectsOverlap
  <2> DEFINE sp    == span[c]
             slot  == align_to_duration(sp.from, d)
             first == slot[1]
  <2>1. sp \in SpanState
    BY DEF AllInv, SpanInv, NoSpan
  <2>2. sp.cursor \in Nat /\ sp.from \in Nat /\ sp.to \in Nat
    BY <2>1 DEF SpanState
  <2>3. /\ sp.from < sp.to
        /\ first = sp.cursor \/ sp.cursor < sp.to + d
        /\ sp.got = {align_to_duration(t, d) : t \in first..(sp.cursor - 1)}
    BY <1>1 DEF AllInv, SpanInv
  <2>4. PICK t0 \in Nat : sp.cursor = align_to_duration(t0, d)[1]
    BY <1>1 DEF AllInv, SpanInv
  <2>5. /\ first \in Nat /\ first <= sp.from
        /\ \A x \in first..sp.from : align_to_duration(x, d) = slot
    <3>1. /\ slot \in Interval /\ slot[2] = slot[1] + d
          /\ slot[1] <= sp.from /\ sp.from < slot[2]
          /\ \A x \in slot[1]..(slot[2] - 1) : align_to_duration(x, d) = slot
      BY <1>1, <2>2, SlotArithmetic
    <3> HIDE DEF slot
    <3>2. QED
      BY <1>1, <2>2, <3>1 DEF Interval
  <2>6. sp.to <= sp.cursor /\ sp.cursor < sp.to + d
    BY <2>2, <2>3, <2>5
  \* The last interval collected begins before sp.to.
  <2>7. \A x \in sp.to..(sp.cursor - 1) :
            align_to_duration(x, d) = align_to_duration(sp.to - 1, d)
    <3>1. TAKE x \in sp.to..(sp.cursor - 1)
    <3> DEFINE y == sp.to - 1
               q == align_to_duration(y, d)
    <3>2. y \in Nat /\ x \in Nat
      BY <2>2, <2>3
    <3>3. PICK n \in Nat : q = <<n * d, n * d + d>> /\ n * d <= y /\ y < n * d + d
      BY <1>1, <3>2, AlignedStart
    <3>4. PICK m \in Nat : align_to_duration(t0, d) = <<m * d, m * d + d>>
      BY <1>1, AlignedStart
    <3>5. m * d = sp.cursor
      BY <2>4, <3>4
    <3> HIDE DEF y, q
    <3>6. sp.cursor <= n * d + d
      <4>1. CASE m <= n
        <5>1. m * d <= n * d
          <6>1. CASE m = n
            BY <1>1, <6>1
          <6>2. CASE m < n
            <7>1. m * d + d <= n * d /\ m * d \in Nat /\ n * d \in Nat
              BY <1>1, <6>2, MultiplesApart
            <7>2. QED
              BY <1>1, <7>1
          <6>3. QED
            BY <4>1, <6>1, <6>2
        <5>2. QED
          BY <1>1, <3>5, <5>1
      <4>2. CASE n + 1 = m
        BY <1>1, <3>5, <4>2
      <4>3. CASE n + 1 < m
        <5>1. (n + 1) * d + d <= m * d
          BY <1>1, <4>3, MultiplesApart
        <5>2. (n + 1) * d = n * d + d /\ n * d \in Nat
          BY <1>1
        <5>3. y = sp.to - 1
          BY DEF y
        <5>4. QED
          BY <1>1, <2>2, <2>6, <3>2, <3>3, <3>5, <5>1, <5>2, <5>3
      <4>4. QED
        BY <4>1, <4>2, <4>3
    <3>7. Covers(q, x)
      <4>1. q[1] = n * d /\ q[2] = n * d + d /\ n * d \in Nat
        BY <1>1, <3>3
      <4>2. y < x /\ x < sp.cursor
        BY <2>2, <3>1 DEF y
      <4>3. QED
        BY <1>1, <2>2, <3>2, <3>3, <3>6, <4>1, <4>2 DEF Covers
    <3>8. align_to_duration(x, d) = q
      BY <1>1, <3>2, <3>7, AlignUnique DEF q
    <3>9. QED
      BY <3>8 DEF q, y
  <2> HIDE DEF sp, slot, first
  <2>8. ASSUME NEW x \in first..(sp.cursor - 1)
        PROVE  \E y \in sp.from..(sp.to - 1) :
                  align_to_duration(x, d) = align_to_duration(y, d)
    <3>1. CASE x < sp.from
      <4>1. align_to_duration(x, d) = slot /\ align_to_duration(sp.from, d) = slot
        BY <2>2, <2>5, <3>1
      <4>2. QED
        BY <2>2, <2>3, <4>1
    <3>2. CASE x >= sp.from /\ x < sp.to
      BY <2>2, <2>5, <3>2
    <3>3. CASE x >= sp.to
      BY <2>2, <2>3, <2>5, <2>7, <3>3
    <3>4. QED
      BY <2>2, <2>5, <3>1, <3>2, <3>3
  <2>9. sp.from..(sp.to - 1) \subseteq first..(sp.cursor - 1)
    BY <2>2, <2>5, <2>6
  <2>10. sp.got = {align_to_duration(t, d) : t \in sp.from..(sp.to - 1)}
    BY <2>3, <2>8, <2>9
  <2>11. QED
    BY <2>10 DEF sp
<1>8. SameWidth
  <2>1. \A r \in Slots(d) : r[2] - r[1] = d
    BY <1>1, SlotArithmetic DEF Slots, Interval
  <2>2. QED
    BY <1>1, <2>1 DEF SameWidth, AllInv, CacheInv
<1>9. QED
  BY <1>3, <1>4, <1>5, <1>6, <1>7, <1>8

-----------------------------------------------------------------------------
(* Widths that change.  The catalog then holds intervals of several widths, *)
(* a key may be inserted that is open, and the list may hold a key twice.   *)
(* The part below holds at all times; AllInv holds while all rows have the  *)
(* configured width, and a restart that makes them so empties the cache.    *)

WidthInv ==
    /\ duration \in Durations
    /\ catalog \subseteq UNION {Slots(e) : e \in Durations}
    /\ open \subseteq catalog
    /\ IsFiniteSet(open)
    /\ Cardinality(open) <= Limit
    /\ lru \in Seq(Interval)
    /\ open \subseteq Elements(lru)
    /\ span \in [Clients -> SpanState \cup {NoSpan}]

WidthsInv == WidthInv /\ (SameWidth => AllInv)

\* Rows are aligned intervals; those of one width are slots of that width.
LEMMA RowFacts ==
    ASSUME WholeWidths, WidthInv
    PROVE  /\ duration \in WholeSeconds /\ duration \in Nat
           /\ \A r \in catalog : r \in Interval /\ CatalogRow(r) = r
           /\ SameWidth => catalog \subseteq Slots(duration)
<1>1. duration \in WholeSeconds /\ duration \in Nat
  BY DEF WholeWidths, WidthInv, WholeSeconds
<1>2. ASSUME NEW r \in catalog
      PROVE  r \in Interval /\ CatalogRow(r) = r /\ r \in Slots(r[2] - r[1])
  <2>1. PICK e \in Durations : r \in Slots(e)
    BY DEF WidthInv
  <2>2. e \in WholeSeconds /\ e \in Nat
    BY DEF WholeWidths, WholeSeconds
  <2>3. PICK t \in Nat : r = align_to_duration(t, e)
    BY <2>1 DEF Slots
  <2>4. r \in Interval /\ r[2] = r[1] + e
    BY <2>2, <2>3, SlotArithmetic
  <2>5. r[2] - r[1] = e
    BY <2>2, <2>4 DEF Interval
  <2>6. QED
    BY <2>1, <2>2, <2>5, SlotFacts
<1>3. ASSUME SameWidth, NEW r \in catalog PROVE r \in Slots(duration)
  BY <1>2, <1>3 DEF SameWidth
<1>4. QED
  BY <1>1, <1>2, <1>3

\* An insertion, of a key that may be open, trims the map to the limit by
\* the end of the list, and leaves what stays open listed.
LEMMA InsertKeepsBound ==
    ASSUME WidthInv, NEW key \in Interval, Insert(key)
    PROVE  /\ open' \subseteq open \cup {key}
           /\ IsFiniteSet(open') /\ Cardinality(open') <= Limit
           /\ lru' \in Seq(Interval)
           /\ open' \subseteq Elements(lru')
<1> DEFINE keys == open \cup {key}
           list == <<key>> \o lru
           n    == Len(lru)
           c    == Evictions(keys, list)
<1>0. n \in Nat /\ DOMAIN lru = 1..n /\ \A i \in 1..n : lru[i] \in Interval
  BY DEF WidthInv
<1>1. /\ list \in Seq(Interval) /\ Len(list) = n + 1 /\ list[1] = key
      /\ \A i \in 2..(n + 1) : list[i] = lru[i - 1]
  BY <1>0 DEF WidthInv
<1>2. IsFiniteSet(keys)
  BY FS_AddElement DEF WidthInv
<1>3. /\ open' = keys \ LastKeys(list, c)
      /\ lru' = SubSeq(list, 1, Len(list) - c)
  BY DEF Insert
<1>4. \A k \in keys : \E i \in 1..(n + 1) : list[i] = k
  <2>1. TAKE k \in keys
  <2>2. CASE k = key
    BY <1>0, <1>1, <2>2
  <2>3. CASE k \in open
    <3>1. PICK i \in 1..n : lru[i] = k
      BY <1>0, <2>3 DEF WidthInv, Elements
    <3>2. i + 1 \in 1..(n + 1) /\ list[i + 1] = k
      BY <1>0, <1>1, <3>1
    <3> HIDE DEF list, n
    <3>3. QED
      BY <3>2
  <2>4. QED
    BY <2>2, <2>3
<1> HIDE DEF list, keys, n, c
<1>5. c \in 0..(n + 1) /\ (c = n + 1 \/ Cardinality(keys \ LastKeys(list, c)) <= Limit)
  BY <1>1, EvictionsFacts DEF c
<1>6. open' \subseteq keys /\ IsFiniteSet(open')
  BY <1>2, <1>3, FS_Subset
<1>7. LastKeys(list, c) = {list[i] : i \in (n + 1 - c + 1)..(n + 1)}
  <2> DEFINE I == (Len(list) - c + 1)..Len(list)
  <2>1. LastKeys(list, c) = {list[i] : i \in I}
    BY DEF LastKeys
  <2>2. I = (n + 1 - c + 1)..(n + 1)
    BY <1>0, <1>1, <1>5
  <2> HIDE DEF I
  <2>3. QED
    BY <2>1, <2>2
<1>8. Cardinality(open') <= Limit
  <2>1. CASE c = n + 1
    <3>1. (n + 1 - c + 1)..(n + 1) = 1..(n + 1)
      BY <1>0, <2>1
    <3>2. open' = {}
      BY <1>3, <1>4, <1>7, <3>1
    <3>3. QED
      BY <3>2, FS_EmptySet, LimitType
  <2>2. CASE c # n + 1
    BY <1>3, <1>5, <2>2
  <2>3. QED
    BY <2>1, <2>2
<1>9. /\ lru' \in Seq(Interval) /\ DOMAIN lru' = 1..(n + 1 - c)
      /\ \A i \in 1..(n + 1 - c) : lru'[i] = list[i]
  BY <1>0, <1>1, <1>3, <1>5
<1>10. ASSUME NEW k \in open' PROVE k \in Elements(lru')
  <2>1. PICK i \in 1..(n + 1) : list[i] = k
    BY <1>4, <1>6
  <2>2. i \notin (n + 1 - c + 1)..(n + 1)
    BY <1>3, <1>7, <2>1
  <2>3. i \in 1..(n + 1 - c)
    BY <1>0, <1>5, <2>1, <2>2
  <2>4. QED
    BY <1>9, <2>1, <2>3 DEF Elements
<1>11. QED
  BY <1>6, <1>8, <1>9, <1>10 DEF keys

LEMMA LookupKeepsBound ==
    ASSUME WholeWidths, WidthInv, NEW t \in Nat, NEW key, shard(t, key),
           duration' = duration
    PROVE  /\ open' \subseteq catalog'
           /\ catalog' \subseteq UNION {Slots(e) : e \in Durations}
           /\ IsFiniteSet(open') /\ Cardinality(open') <= Limit
           /\ lru' \in Seq(Interval)
           /\ open' \subseteq Elements(lru')
           /\ key \in Interval
           /\ catalog \subseteq catalog'
<1> DEFINE slot == align_to_duration(t, duration)
<1>1. duration \in Durations /\ duration \in WholeSeconds
  BY RowFacts DEF WidthInv
<1>2. slot \in Slots(duration) /\ slot \in Interval /\ CatalogRow(slot) = slot
  BY <1>1, SlotFacts DEF Slots
<1> HIDE DEF slot
<1>3. CASE CacheHit(t, key)
  <2>1. key \in open /\ lru' = Promote(lru, key) /\ catalog' = catalog /\ open' = open
    BY <1>3 DEF CacheHit
  <2>2. key \in Interval
    BY <2>1, RowFacts DEF WidthInv
  <2>3. lru' \in Seq(Interval) /\ Elements(lru') = Elements(lru) \cup {key}
    <3>1. lru \in Seq(Interval)
      BY DEF WidthInv
    <3>2. /\ Promote(lru, key) \in Seq(Interval)
          /\ Elements(Promote(lru, key)) = Elements(lru) \cup {key}
      BY <2>2, <3>1, PromoteFacts
    <3>3. QED
      BY <2>1, <3>2
  <2>4. QED
    BY <2>1, <2>2, <2>3 DEF WidthInv
<1>4. CASE CatalogHit(t, key)
  <2>1. key \in catalog /\ Insert(key) /\ catalog' = catalog
    BY <1>4 DEF CatalogHit, FirstRows, shards_at
  <2>2. key \in Interval
    BY <2>1, RowFacts
  <2>3. /\ open' \subseteq open \cup {key}
        /\ IsFiniteSet(open') /\ Cardinality(open') <= Limit
        /\ lru' \in Seq(Interval)
        /\ open' \subseteq Elements(lru')
    BY <2>1, <2>2, InsertKeepsBound
  <2>4. QED
    BY <2>1, <2>2, <2>3 DEF WidthInv
<1>5. CASE AutoCreate(t, key)
  <2>1. key = slot /\ Insert(key) /\ catalog' = catalog \cup {CatalogRow(key)}
    BY <1>5 DEF AutoCreate, slot
  <2>2. catalog' = catalog \cup {slot} /\ key \in Interval
    BY <1>2, <2>1
  <2>3. /\ open' \subseteq open \cup {key}
        /\ IsFiniteSet(open') /\ Cardinality(open') <= Limit
        /\ lru' \in Seq(Interval)
        /\ open' \subseteq Elements(lru')
    BY <2>1, <2>2, InsertKeepsBound
  <2>4. slot \in UNION {Slots(e) : e \in Durations}
    BY <1>1, <1>2
  <2>5. QED
    BY <2>1, <2>2, <2>3, <2>4 DEF WidthInv
<1>6. QED
  BY <1>3, <1>4, <1>5 DEF shard

LEMMA WidthStep ==
    ASSUME WholeWidths, WidthInv, [Next]_vars
    PROVE  WidthInv' /\ catalog \subseteq catalog'
<1>1. CASE UNCHANGED vars
  BY <1>1 DEF vars, WidthInv, Elements
<1>2. ASSUME NEW t \in Times, Lookup(t) PROVE WidthInv' /\ catalog \subseteq catalog'
  <2>1. PICK key \in Candidates(t) : shard(t, key)
    BY <1>2 DEF Lookup
  <2>2. duration' = duration /\ span' = span /\ t \in Nat
    BY <1>2, CacheAssumption DEF Lookup
  <2>3. /\ open' \subseteq catalog' /\ catalog \subseteq catalog'
        /\ catalog' \subseteq UNION {Slots(e) : e \in Durations}
        /\ IsFiniteSet(open') /\ Cardinality(open') <= Limit
        /\ lru' \in Seq(Interval) /\ open' \subseteq Elements(lru')
    BY <2>1, <2>2, LookupKeepsBound
  <2>4. QED
    BY <2>2, <2>3 DEF WidthInv, Elements
<1>3. ASSUME NEW c \in Clients, NEW s \in Times, NEW e \in Times, SpanStart(c, s, e)
      PROVE  WidthInv' /\ catalog \subseteq catalog'
  <2> DEFINE first == align_to_duration(s, duration)[1]
             new == [active |-> TRUE, from |-> s, to |-> e, got |-> {},
                     cursor |-> first]
  <2>1. span' = [span EXCEPT ![c] = new] /\ UNCHANGED <<duration, catalog, open, lru>>
    BY <1>3 DEF SpanStart
  <2>2. s \in Nat /\ e \in Nat /\ first \in Nat
    BY CacheAssumption, RowFacts, SlotArithmetic DEF Interval
  <2> HIDE DEF first
  <2>3. new \in SpanState
    BY <2>2 DEF SpanState
  <2>4. QED
    BY <2>1, <2>3 DEF WidthInv, Elements
<1>4. ASSUME NEW c \in Clients, SpanStep(c) PROVE WidthInv' /\ catalog \subseteq catalog'
  <2> DEFINE sp == span[c]
  <2>1. PICK key \in Candidates(sp.cursor) :
           /\ shard(sp.cursor, key)
           /\ span' = [span EXCEPT ![c].cursor = @ + duration,
                                   ![c].got = @ \cup {key}]
    BY <1>4 DEF SpanStep
  <2>2. duration' = duration /\ sp.active
    BY <1>4 DEF SpanStep
  <2>3. sp \in SpanState
    BY <2>2 DEF WidthInv, NoSpan
  <2>4. sp.cursor \in Nat /\ sp.got \in SUBSET Interval
    BY <2>3 DEF SpanState
  <2> DEFINE new == [sp EXCEPT !.cursor = sp.cursor + duration, !.got = sp.got \cup {key}]
  <2>5. span' = [span EXCEPT ![c] = new]
    BY <2>1 DEF WidthInv
  <2>6. /\ open' \subseteq catalog' /\ catalog \subseteq catalog'
        /\ catalog' \subseteq UNION {Slots(e) : e \in Durations}
        /\ IsFiniteSet(open') /\ Cardinality(open') <= Limit
        /\ lru' \in Seq(Interval) /\ open' \subseteq Elements(lru')
        /\ key \in Interval
    BY <2>1, <2>2, <2>4, LookupKeepsBound
  <2>7. new \in SpanState
    <3>1. sp.cursor + duration \in Nat /\ sp.got \cup {key} \in SUBSET Interval
      BY <2>4, <2>6, RowFacts
    <3> HIDE DEF sp
    <3>2. QED
      BY <2>3, <3>1 DEF SpanState
  <2>8. span' \in [Clients -> SpanState \cup {NoSpan}]
    <3> HIDE DEF new
    <3>1. QED
      BY <2>5, <2>7 DEF WidthInv
  <2>9. QED
    BY <2>2, <2>6, <2>8 DEF WidthInv, Elements
<1>5. ASSUME NEW c \in Clients, SpanReturn(c) PROVE WidthInv' /\ catalog \subseteq catalog'
  BY <1>5 DEF SpanReturn, WidthInv, Elements
<1>6. ASSUME open' = {} /\ lru' = <<>> /\ catalog' = catalog /\ duration' \in Durations
             /\ span' \in [Clients -> SpanState \cup {NoSpan}]
      PROVE  WidthInv' /\ catalog \subseteq catalog'
  <2>1. IsFiniteSet({}) /\ Cardinality({}) = 0 /\ 0 <= Limit
    BY FS_EmptySet, LimitType
  <2>2. QED
    BY <1>6, <2>1 DEF WidthInv
<1>7. CASE Close
  BY <1>6, <1>7 DEF Close, WidthInv
<1>8. ASSUME NEW w \in Durations, Restart(w) PROVE WidthInv' /\ catalog \subseteq catalog'
  BY <1>6, <1>8 DEF Restart
<1>9. QED
  BY <1>1, <1>2, <1>3, <1>4, <1>5, <1>7, <1>8 DEF Next

\* While the width stays, AllInv does; a restart that changes it leaves the
\* cache and the searches empty.
LEMMA WidthsStep ==
    ASSUME WholeWidths, WidthsInv, [Next]_vars
    PROVE  WidthsInv' /\ catalog \subseteq catalog'
<1>1. WidthInv /\ WidthInv' /\ catalog \subseteq catalog'
  BY WidthStep DEF WidthsInv
<1>2. duration \in WholeSeconds
  BY <1>1, RowFacts
<1>3. ASSUME SameWidth', duration' = duration PROVE AllInv'
  <2>1. SameWidth
    BY <1>1, <1>3 DEF SameWidth
  <2>2. QED
    BY <1>2, <1>3, <2>1, NextInv DEF WidthsInv
<1>4. ASSUME SameWidth', duration' # duration PROVE AllInv'
  <2>1. PICK w \in Durations : Restart(w)
    BY <1>4 DEF Next, vars, Lookup, SpanStart, SpanStep, SpanReturn, Close
  <2>2. open' = {} /\ lru' = <<>> /\ span' = [c \in Clients |-> NoSpan]
    BY <2>1 DEF Restart
  <2>3. (SameWidth => catalog \subseteq Slots(duration))'
    <3>1. WholeWidths /\ WidthInv => (SameWidth => catalog \subseteq Slots(duration))
      BY RowFacts
    <3>2. (WholeWidths /\ WidthInv => (SameWidth => catalog \subseteq Slots(duration)))'
      BY RowFacts, PTL
    <3>3. WholeWidths'
      BY DEF WholeWidths
    <3>4. QED
      BY <1>1, <3>2, <3>3
  <2>4. CacheInv'
    BY <1>1, <1>4, <2>2, <2>3 DEF WidthInv, CacheInv, ListExact, Elements
  <2>5. SpanInv' /\ FrontIsOpen'
    BY <2>2 DEF SpanInv, NoSpan, FrontIsOpen
  <2>6. QED
    BY <2>4, <2>5 DEF AllInv
<1>5. QED
  BY <1>1, <1>3, <1>4 DEF WidthsInv

LEMMA WidthsInit == ASSUME Init PROVE WidthsInv
<1>1. AllInv
  BY InitInv
<1>2. WidthInv
  BY <1>1 DEF Init, AllInv, CacheInv, SpanInv, WidthInv
<1>3. QED
  BY <1>1, <1>2 DEF WidthsInv

LEMMA SpecInv == ASSUME WholeWidths PROVE Spec => []WidthsInv
<1>1. Init => WidthsInv
  BY WidthsInit
<1>2. WidthsInv /\ [Next]_vars => WidthsInv'
  BY WidthsStep
<1>3. QED
  BY <1>1, <1>2, PTL DEF Spec

\* What WidthsInv says in the terms of the properties.
LEMMA WidthsImply ==
    ASSUME WholeWidths, WidthsInv
    PROVE  /\ TypeOK /\ CacheBounded /\ OpenIsEvictable /\ OpenIsRegistered
           /\ JustUsedIsOpen /\ ShardsDisjoint /\ SpanCollectsOverlap
<1>1. /\ duration \in WholeSeconds
      /\ \A r \in catalog : r \in Interval /\ CatalogRow(r) = r
  BY RowFacts DEF WidthsInv
<1>2. TypeOK /\ CacheBounded /\ OpenIsEvictable /\ OpenIsRegistered
  BY <1>1 DEF WidthsInv, WidthInv, TypeOK, CacheBounded, OpenIsEvictable, OpenIsRegistered
<1>3. CASE SameWidth
  <2>1. AllInv
    BY <1>3 DEF WidthsInv
  <2>2. JustUsedIsOpen /\ ShardsDisjoint /\ SpanCollectsOverlap
    BY <1>1, <2>1, InvImplies
  <2>3. QED
    BY <1>2, <2>2
<1>4. CASE ~SameWidth
  BY <1>2, <1>4 DEF JustUsedIsOpen, ShardsDisjoint, SpanCollectsOverlap
<1>5. QED
  BY <1>3, <1>4

-----------------------------------------------------------------------------
\* The eviction loop of CacheInner keeps the map within max_open_shards,
\* whatever is asked for and however often the width is changed, although a
\* key may then be inserted that is already open and be listed twice.
THEOREM CacheStaysBounded ==
    ASSUME WholeWidths PROVE Spec => [](TypeOK /\ CacheBounded)
<1>1. WidthsInv => TypeOK /\ CacheBounded
  BY WidthsImply
<1>2. QED
  BY <1>1, SpecInv, PTL

\* Every open shard stays in the list that loop pops from: none is open for
\* ever (shardscache.rs, shard and shards_span).
THEOREM OpenStaysEvictable ==
    ASSUME WholeWidths PROVE Spec => []OpenIsEvictable
<1>1. WidthsInv => OpenIsEvictable
  BY WidthsImply
<1>2. QED
  BY <1>1, SpecInv, PTL

\* Every open shard has its catalog row, also one opened under another width:
\* what is written to it is found after it was closed.
THEOREM OpenStaysRegistered ==
    ASSUME WholeWidths PROVE Spec => []OpenIsRegistered
<1>1. WidthsInv => OpenIsRegistered
  BY WidthsImply
<1>2. QED
  BY <1>1, SpecInv, PTL

\* With all rows of the configured width, the shard handed out last is not
\* the one that was evicted to make room.
THEOREM UsedStaysOpen ==
    ASSUME WholeWidths PROVE Spec => []JustUsedIsOpen
<1>1. WidthsInv => JustUsedIsOpen
  BY WidthsImply
<1>2. QED
  BY <1>1, SpecInv, PTL

\* With all rows of the configured width, no instant belongs to two shards:
\* shard() creates one only where the catalog has none (auto_create).
THEOREM ShardsStayDisjoint ==
    ASSUME WholeWidths PROVE Spec => []ShardsDisjoint
<1>1. WidthsInv => ShardsDisjoint
  BY WidthsImply
<1>2. QED
  BY <1>1, SpecInv, PTL

\* The hypothesis of the last two, and of the next two, always holds where
\* the width is configured once.
THEOREM OneWidth ==
    ASSUME NEW d, SingleWidth(d) PROVE Spec => []SameWidth
<1>1. WholeWidths
  BY DEF SingleWidth, WholeWidths
<1>2. Init => SameWidth
  BY DEF Init, SameWidth
<1>3. WidthInv => SameWidth
  <2> SUFFICES ASSUME WidthInv, NEW r \in catalog PROVE r[2] - r[1] = duration
    BY DEF SameWidth
  <2>1. duration = d /\ r \in Slots(d) /\ d \in WholeSeconds /\ d \in Nat
    BY DEF WidthInv, SingleWidth, WholeSeconds
  <2>2. r \in Interval /\ r[2] = r[1] + d
    BY <2>1, SlotArithmetic DEF Slots
  <2>3. QED
    BY <2>1, <2>2 DEF Interval
<1>4. WidthsInv => SameWidth
  BY <1>3 DEF WidthsInv
<1>5. QED
  BY <1>1, <1>4, SpecInv, PTL

\* A search over [start, end) visits exactly the shards whose interval meets
\* it (shards_span), although other callers open, evict and close shards
\* between its steps.
THEOREM SpanIsExact ==
    ASSUME WholeWidths PROVE Spec => []SpanCollectsOverlap
<1>1. WidthsInv => SpanCollectsOverlap
  BY WidthsImply
<1>2. QED
  BY <1>1, SpecInv, PTL

\* What an instant is routed to while all rows have one width: its own slot,
\* if that is in the catalog.
LEMMA OneRow ==
    ASSUME NEW d \in WholeSeconds, duration = d, AllInv, NEW t \in Times
    PROVE  /\ RoutesTo(t) = catalog \cap {align_to_duration(t, d)}
           /\ FirstRows(shards_at(t)) = RoutesTo(t)
<1>1. t \in Nat /\ CacheInv
  BY CacheAssumption DEF AllInv
<1> DEFINE slot == align_to_duration(t, d)
<1>2. shards_at(t) = catalog \cap {slot}
  BY <1>1, RowsAt
<1>3. slot \in Interval /\ CatalogRow(slot) = slot
  BY <1>1, SlotFacts DEF Slots
<1>4. FirstRows(shards_at(t)) = catalog \cap {slot}
  <2> HIDE DEF slot
  <2>1. FirstRows(catalog \cap {slot}) = catalog \cap {slot}
    BY <1>3 DEF FirstRows, Interval
  <2>2. QED
    BY <1>2, <2>1
<1>5. CASE slot \in open
  <2>1. slot \in catalog
    BY <1>1, <1>5 DEF CacheInv
  <2>2. QED
    BY <1>3, <1>4, <1>5, <2>1 DEF RoutesTo
<1>6. CASE slot \notin open
  <2>1. RoutesTo(t) = FirstRows(shards_at(t))
    BY <1>6 DEF RoutesTo
  <2>2. QED
    BY <1>4, <2>1
<1>7. QED
  BY <1>5, <1>6

\* An instant that has a shard keeps it through eviction, close and restart,
\* also one that changes the width (shard(): cache first, then catalog, and
\* creation only when both miss).
THEOREM RoutingIsStable == ASSUME WholeWidths PROVE Spec => StableRouting
<1> DEFINE Kept == SameWidth =>
                     \A t \in Times : RoutesTo(t) # {} => RoutesTo(t)' = RoutesTo(t)
<1> DEFINE Routed == \A d \in WholeSeconds : duration = d /\ AllInv =>
             \A t \in Times : RoutesTo(t) = catalog \cap {align_to_duration(t, d)}
<1>1. Routed
  BY OneRow
<1>2. Routed'
  <2> HIDE DEF Routed
  <2>1. QED
    BY <1>1, PTL
<1>3. ASSUME WidthsInv, [Next]_vars PROVE Kept
  <2>1. WidthsInv' /\ catalog \subseteq catalog' /\ duration \in WholeSeconds
    BY <1>3, WidthsStep, RowFacts DEF WidthsInv
  <2> SUFFICES ASSUME SameWidth, NEW t \in Times, RoutesTo(t) # {}
               PROVE  RoutesTo(t)' = RoutesTo(t)
    OBVIOUS
  <2>2. AllInv
    BY <1>3 DEF WidthsInv
  <2>3. RoutesTo(t) = catalog \cap {align_to_duration(t, duration)}
    BY <1>1, <2>1, <2>2
  <2>4. CASE duration' = duration
    <3>1. AllInv'
      BY <1>3, <2>1, <2>2, <2>4, NextInv
    <3>2. RoutesTo(t)' = catalog' \cap {align_to_duration(t, duration)}
      BY <1>2, <2>1, <2>4, <3>1
    <3>3. QED
      BY <2>1, <2>3, <3>2
  <2>5. CASE duration' # duration
    <3>1. PICK w \in Durations : Restart(w)
      BY <1>3, <2>5 DEF Next, vars, Lookup, SpanStart, SpanStep, SpanReturn, Close
    <3>2. open' = {} /\ catalog' = catalog
      BY <3>1 DEF Restart
    <3>3. RoutesTo(t)' = FirstRows(shards_at(t))
      BY <3>2 DEF RoutesTo, FirstRows, shards_at
    <3>4. QED
      BY <2>1, <2>2, <3>3, OneRow
  <2>6. QED
    BY <2>4, <2>5
<1>4. WidthsInv /\ [Next]_vars => [Kept]_vars
  BY <1>3
<1> HIDE DEF Kept
<1>5. Spec => [][Kept]_vars
  BY <1>4, SpecInv, PTL DEF Spec
<1>6. QED
  BY <1>5 DEF StableRouting, Kept

-----------------------------------------------------------------------------
(* Operations on shards (ShardHandles).                                     *)

Instance == [key : Interval \cup {<<>>}, fts : BOOLEAN, loaded : BOOLEAN, vec : SUBSET Entry]

AddWork == [pc : {"row", "fts", "vec"}, inst : Instances, rec : Records,
            kind : {"add", "batch"}]
VisitWork == [pc : {"visit"}, inst : {NoHandle}, rec : Records, todo : SUBSET Interval]
DeleteWork == [pc : {"look", "drop", "unvec"}, inst : Instances, rec : Records,
               todo : SUBSET Interval]
SearchWork == [pc : {"search"}, inst : Instances]

Work == AddWork \cup VisitWork \cup DeleteWork \cup SearchWork \cup {Idle}

CacheTyped ==
    /\ duration \in Durations
    /\ catalog \subseteq Interval
    /\ \A r \in catalog : r[1] \in Times

Typed ==
    /\ CacheTyped
    /\ work \in [Workers -> Work]
    /\ rows \subseteq Entry /\ fts \subseteq Entry /\ saved \subseteq Entry

\* What a deletion has still to visit are shards of the catalog.
TodoInv == \A c \in Workers : work[c] \in VisitWork \cup DeleteWork => work[c].todo \subseteq catalog

\* The full text of a directory is written by one instance at a time.
OneWriter ==
    LET writers == {i \in Instances : inst[i].fts}
    IN  \A i, j \in writers : inst[i].key = inst[j].key => i = j

\* The map has one instance for every open shard, and no other.
MapIsOpenShards ==
    /\ open = {inst[i].key : i \in cached}
    /\ \A i, j \in cached : inst[i].key = inst[j].key => i = j

\* Only instances that are held have anything in them; those have their key.
InstInv ==
    /\ inst \in [Instances -> Instance]
    /\ cached \subseteq Instances
    /\ syncing \in [held : SUBSET Instances, todo : SUBSET Instances]
    /\ \A i \in Instances : i \notin Live => inst[i] = NoInstance
    /\ \A i \in Instances : i \in Live => inst[i].key \in Interval
    /\ OneWriter

\* Before anything is deleted: what is indexed is stored, and so is what is
\* about to be indexed.
StoredInv ==
    deleted = {} =>
        /\ Indexed \subseteq rows
        /\ \A c \in Workers : /\ work[c].pc \in {"fts", "vec"} => Doc(c) \in rows
                              /\ work[c].pc \in {"idle", "row", "fts", "vec", "search"}

HInv == Typed /\ TodoInv /\ InstInv /\ StoredInv

-----------------------------------------------------------------------------
(* The cache. *)

LEMMA RowTyped ==
    ASSUME NEW t \in Times, NEW d \in Durations
    PROVE  /\ align_to_duration(t, d) \in Interval
           /\ CatalogRow(align_to_duration(t, d)) \in Interval
<1>1. t \in Nat /\ d \in Nat \ {0} /\ Sec \in Nat \ {0}
  BY CacheAssumption, SecAssumption
<1>2. d \div Sec \in Nat
  BY <1>1, DivBounds
<1>3. DurSecs(d) \in Nat \ {0}
  BY <1>2 DEF DurSecs
<1>4. \A x \in Nat : to_unix_secs(x) * Sec \in Nat
  BY <1>1, DivBounds DEF to_unix_secs
<1>5. to_unix_secs(t) \in Nat
  BY <1>1, DivBounds DEF to_unix_secs
<1>6. (to_unix_secs(t) \div DurSecs(d)) * DurSecs(d) \in Nat
  BY <1>3, <1>5, DivBounds
<1>7. floor_to(t, DurSecs(d)) \in Nat
  BY <1>1, <1>6 DEF floor_to
<1>8. QED
  BY <1>1, <1>4, <1>7 DEF align_to_duration, CatalogRow, Interval

\* shard() in the catalog: it only grows, by typed rows.
LEMMA ShardTyped ==
    ASSUME CacheTyped, NEW t \in Times, NEW key, duration' = duration,
           CacheHit(t, key) \/ CatalogHit(t, key) \/ AutoCreate(t, key)
    PROVE  CacheTyped' /\ catalog \subseteq catalog' /\ key \in Interval
<1>1. duration \in Durations
  BY DEF CacheTyped
<1>2. CASE CacheHit(t, key)
  BY <1>1, <1>2, RowTyped DEF CacheHit, CacheTyped
<1>3. CASE CatalogHit(t, key)
  BY <1>1, <1>3 DEF CatalogHit, CacheTyped, FirstRows, shards_at
<1>4. CASE AutoCreate(t, key)
  BY <1>1, <1>4, RowTyped, HandleAssumption DEF AutoCreate, CacheTyped
<1>5. QED
  BY <1>2, <1>3, <1>4

-----------------------------------------------------------------------------
(* Workers. *)

LEMMA ByPc ==
    ASSUME Typed, NEW c \in Workers
    PROVE  /\ work[c].pc \in {"row", "fts", "vec"} => work[c] \in AddWork
           /\ work[c].pc = "visit" => work[c] \in VisitWork
           /\ work[c].pc \in {"look", "drop", "unvec"} => work[c] \in DeleteWork
           /\ work[c].pc = "search" => work[c] \in SearchWork
           /\ work[c].pc = "idle" => work[c] = Idle
           /\ work[c].inst \in Instances \cup {NoHandle}
           /\ work[c].pc \notin {"idle", "visit"} => work[c].inst \in Instances
           /\ work[c].pc \in {"row", "fts", "vec", "visit", "look", "drop", "unvec", "search", "idle"}
<1>1. work[c] \in Work
  BY DEF Typed
<1>2. CASE work[c] \in AddWork
  BY <1>2 DEF AddWork
<1>3. CASE work[c] \in VisitWork
  BY <1>3 DEF VisitWork
<1>4. CASE work[c] \in DeleteWork
  BY <1>4 DEF DeleteWork
<1>5. CASE work[c] \in SearchWork
  BY <1>5 DEF SearchWork
<1>6. CASE work[c] = Idle
  BY <1>6 DEF Idle
<1>7. QED
  BY <1>1, <1>2, <1>3, <1>4, <1>5, <1>6 DEF Work

\* A worker goes on, with the handle it has or with none.
LEMMA WorkGoes ==
    ASSUME Typed, NEW c \in Workers, NEW w \in Work,
           work' = [work EXCEPT ![c] = w]
    PROVE  /\ work' \in [Workers -> Work]
           /\ work'[c] = w
           /\ \A d \in Workers \ {c} : work'[d] = work[d]
           /\ Held(work', syncing) \subseteq Held(work, syncing) \cup {w.inst}
           /\ w.inst \in {work[c].inst, NoHandle} =>
                 Held(work', syncing) \subseteq Held(work, syncing) \cup {NoHandle}
BY DEF Typed, Held

LEMMA PcGoes ==
    ASSUME Typed, NEW c \in Workers, NEW pc, Goto(c, pc),
           \/ work[c] \in AddWork /\ pc \in {"fts", "vec"}
           \/ work[c] \in DeleteWork /\ pc \in {"drop", "unvec"}
    PROVE  \E w \in Work : /\ work' = [work EXCEPT ![c] = w]
                           /\ w = [work[c] EXCEPT !.pc = pc]
                           /\ w.pc = pc /\ w.inst = work[c].inst /\ w.rec = work[c].rec
                           /\ w \in DeleteWork => work[c] \in DeleteWork /\ w.todo = work[c].todo
                           /\ w \notin VisitWork
<1> DEFINE w == [work[c] EXCEPT !.pc = pc]
<1>1. work' = [work EXCEPT ![c] = w]
  BY DEF Goto, Typed
<1>2. CASE work[c] \in AddWork /\ pc \in {"fts", "vec"}
  <2>1. w \in AddWork /\ w.pc = pc /\ w.inst = work[c].inst /\ w.rec = work[c].rec
    BY <1>2 DEF AddWork
  <2>2. w \notin DeleteWork /\ w \notin VisitWork
    BY <2>1 DEF AddWork, DeleteWork, VisitWork
  <2>3. QED
    BY <1>1, <2>1, <2>2 DEF Work
<1>3. CASE work[c] \in DeleteWork /\ pc \in {"drop", "unvec"}
  <2>1. w \in DeleteWork /\ w.pc = pc /\ w.inst = work[c].inst /\ w.rec = work[c].rec
        /\ w.todo = work[c].todo
    BY <1>3 DEF DeleteWork
  <2>2. w \notin VisitWork
    BY <2>1 DEF DeleteWork, VisitWork
  <2>3. QED
    BY <1>1, <1>3, <2>1, <2>2 DEF Work
<1>4. QED
  BY <1>2, <1>3

-----------------------------------------------------------------------------
(* What a step does to the instances. *)

LEMMA Settled ==
    ASSUME NEW next \in [Instances -> Instance], Settle(next)
    PROVE  /\ inst' \in [Instances -> Instance]
           /\ \A i \in Instances : i \in Live' => inst'[i] = next[i]
           /\ \A i \in Instances : i \notin Live' => inst'[i] = NoInstance
<1>1. NoInstance \in Instance
  BY DEF NoInstance, Instance
<1>2. QED
  BY <1>1 DEF Settle, Live

\* A step that takes no new handle and at most changes what an instance
\* has in memory.
LEMMA SameKeys ==
    ASSUME InstInv, NEW next \in [Instances -> Instance], Settle(next),
           \A i \in Instances : next[i].key = inst[i].key,
           \A i, j \in Instances : next[i].fts /\ next[j].fts /\ i \in Live /\ j \in Live
                                      /\ next[i].key = next[j].key => i = j,
           Live' \subseteq Live \cup {NoHandle},
           cached' \subseteq Instances,
           syncing' \in [held : SUBSET Instances, todo : SUBSET Instances]
    PROVE  InstInv'
<1>1. /\ inst' \in [Instances -> Instance]
      /\ \A i \in Instances : i \in Live' => inst'[i] = next[i]
      /\ \A i \in Instances : i \notin Live' => inst'[i] = NoInstance
  BY Settled
<1>2. \A i \in Instances : i \in Live' => i \in Live
  BY HandleAssumption
<1>3. \A i \in Instances : i \in Live' => inst'[i].key \in Interval
  BY <1>1, <1>2 DEF InstInv
<1>4. ~NoInstance.fts
  BY DEF NoInstance
<1>5. OneWriter'
  BY <1>1, <1>2, <1>4 DEF OneWriter
<1>6. QED
  BY <1>1, <1>3, <1>5 DEF InstInv

LEMMA PlainStep ==
    ASSUME InstInv, Settle(inst),
           Live' \subseteq Live \cup {NoHandle},
           cached' \subseteq Instances,
           syncing' \in [held : SUBSET Instances, todo : SUBSET Instances]
    PROVE  /\ InstInv'
           /\ \A i \in Instances : inst'[i].vec \subseteq inst[i].vec
           /\ \A i \in Instances : i \in Live' => inst'[i] = inst[i]
<1>1. inst \in [Instances -> Instance]
  BY DEF InstInv
<1>2. \A i, j \in Instances : inst[i].fts /\ inst[j].fts /\ inst[i].key = inst[j].key => i = j
  BY DEF InstInv, OneWriter
<1>3. InstInv'
  BY <1>1, <1>2, SameKeys
<1>4. \A i \in Instances : (i \in Live' => inst'[i] = inst[i]) /\ (i \notin Live' => inst'[i] = NoInstance)
  BY <1>1, Settled
<1>5. QED
  BY <1>3, <1>4 DEF NoInstance

\* A full-text call.
LEMMA FtsStep ==
    ASSUME InstInv, NEW c \in Workers, work[c].inst \in Instances,
           CanOpenFts(work[c].inst), Settle(FtsOpened(c)),
           Live' \subseteq Live \cup {NoHandle},
           UNCHANGED <<cached, syncing>>
    PROVE  /\ InstInv'
           /\ \A i \in Instances : inst'[i].vec \subseteq inst[i].vec
           /\ \A i \in Instances : i \in Live' => inst'[i].key = inst[i].key
<1> DEFINE k == work[c].inst
           next == FtsOpened(c)
<1>1. inst \in [Instances -> Instance] /\ k \in Instances
  BY DEF InstInv
<1>2. /\ next \in [Instances -> Instance]
      /\ \A i \in Instances : next[i].key = inst[i].key /\ next[i].vec = inst[i].vec
      /\ \A i \in Instances \ {k} : next[i].fts = inst[i].fts
  BY <1>1 DEF FtsOpened, Instance
<1>3. \A i, j \in Instances : inst[i].fts /\ inst[j].fts /\ inst[i].key = inst[j].key => i = j
  BY DEF InstInv, OneWriter
<1>4. \A j \in Instances : j \in Live /\ j # k /\ inst[j].key = inst[k].key => ~inst[j].fts
  BY HandleAssumption DEF CanOpenFts
<1>5. \A i, j \in Instances : next[i].fts /\ next[j].fts /\ i \in Live /\ j \in Live
                                 /\ next[i].key = next[j].key => i = j
  BY <1>2, <1>3, <1>4
<1>6. cached' \subseteq Instances /\ syncing' \in [held : SUBSET Instances, todo : SUBSET Instances]
  BY DEF InstInv
<1>7. InstInv'
  <2> HIDE DEF next
  <2> QED
    BY <1>2, <1>5, <1>6, SameKeys DEF next
<1>8. \A i \in Instances : (i \in Live' => inst'[i] = next[i]) /\ (i \notin Live' => inst'[i] = NoInstance)
  <2> HIDE DEF next
  <2> QED
    BY <1>2, Settled DEF next
<1>9. QED
  <2> HIDE DEF next
  <2> QED
    BY <1>2, <1>7, <1>8 DEF NoInstance

\* A vector call.
LEMMA VecStep ==
    ASSUME InstInv, NEW c \in Workers, work[c].inst \in Instances,
           NEW es \in SUBSET Entry, Settle(VecHolds(c, es)),
           Live' \subseteq Live \cup {NoHandle},
           UNCHANGED <<cached, syncing>>
    PROVE  /\ InstInv'
           /\ \A i \in Instances : inst'[i].vec \subseteq inst[i].vec \cup es
           /\ \A i \in Instances : i \in Live' => inst'[i].key = inst[i].key
<1> DEFINE k == work[c].inst
           next == VecHolds(c, es)
<1>1. inst \in [Instances -> Instance] /\ k \in Instances
  BY DEF InstInv
<1> DEFINE held == [[inst[k] EXCEPT !.loaded = TRUE] EXCEPT !.vec = es]
<1>0. /\ held \in Instance
      /\ held.key = inst[k].key /\ held.fts = inst[k].fts /\ held.vec = es
  BY <1>1 DEF Instance
<1>1a. next = [inst EXCEPT ![k] = held]
  BY <1>1 DEF VecHolds
<1> HIDE DEF held
<1>2. /\ next \in [Instances -> Instance]
      /\ \A i \in Instances : next[i].key = inst[i].key /\ next[i].fts = inst[i].fts
                                 /\ next[i].vec \subseteq inst[i].vec \cup es
  BY <1>0, <1>1a, <1>1
<1>3. \A i, j \in Instances : inst[i].fts /\ inst[j].fts /\ inst[i].key = inst[j].key => i = j
  BY DEF InstInv, OneWriter
<1>4. cached' \subseteq Instances /\ syncing' \in [held : SUBSET Instances, todo : SUBSET Instances]
  BY DEF InstInv
<1> HIDE DEF next
<1>5. InstInv'
  BY <1>2, <1>3, <1>4, SameKeys DEF next
<1>6. \A i \in Instances : (i \in Live' => inst'[i] = next[i]) /\ (i \notin Live' => inst'[i] = NoInstance)
  BY <1>2, Settled DEF next
<1>7. QED
  BY <1>2, <1>5, <1>6 DEF NoInstance

KeysKept == \A i \in Instances : i \in Live /\ i \in Live' => inst'[i].key = inst[i].key

LEMMA SyncedFrom ==
    ASSUME Typed, InstInv, NEW is \in SUBSET Instances
    PROVE  /\ Synced(is) \subseteq Entry
           /\ Synced(is) \subseteq saved \cup UNION {inst[i].vec : i \in Instances}
BY DEF Typed, InstInv, Instance, Synced

LEMMA VectorsFrom ==
    ASSUME Typed, InstInv, NEW k \in Instances
    PROVE  /\ Vectors(k) \subseteq Entry
           /\ Vectors(k) \subseteq saved \cup inst[k].vec
BY DEF Typed, InstInv, Instance, Vectors

\* A call of shard(): the handle is an instance that was cached, or a new one.
LEMMA AcquireStep ==
    ASSUME Typed, InstInv, NEW c \in Workers, NEW t \in Times, NEW next,
           \A i \in Instances : [next EXCEPT !.inst = i].inst = i,
           Acquire(c, t, next)
    PROVE  /\ CacheTyped' /\ catalog \subseteq catalog'
           /\ \E i \in Instances : work' = [work EXCEPT ![c] = [next EXCEPT !.inst = i]]
           /\ InstInv' /\ KeysKept
           /\ \A i \in Instances : inst'[i].vec \subseteq inst[i].vec
           /\ saved' \subseteq Entry
           /\ saved' \subseteq saved \cup UNION {inst[i].vec : i \in Instances}
<1>1. PICK key \in Candidates(t), i \in Instances :
         /\ work' = [work EXCEPT ![c] = [next EXCEPT !.inst = i]]
         /\ GetHit(t, key, i) \/ GetOpen(t, key, i)
  BY DEF Acquire
<1>2. duration' = duration /\ syncing' = syncing
  BY DEF Acquire
<1>3. CacheHit(t, key) \/ CatalogHit(t, key) \/ AutoCreate(t, key)
  BY <1>1 DEF GetHit, GetOpen
<1>4. CacheTyped' /\ catalog \subseteq catalog' /\ key \in Interval
  BY <1>2, <1>3, ShardTyped DEF Typed
<1>5. Held(work', syncing') \subseteq Held(work, syncing) \cup {i}
  BY <1>1, <1>2 DEF Held, Typed
<1>6. inst \in [Instances -> Instance] /\ cached \subseteq Instances
  BY DEF InstInv
<1>7. CASE GetHit(t, key, i)
  <2>1. i \in cached /\ cached' = cached /\ saved' = saved /\ Settle(inst)
    BY <1>7 DEF GetHit
  <2>2. Live' \subseteq Live \cup {NoHandle}
    BY <1>5, <2>1 DEF Live
  <2>3. syncing' \in [held : SUBSET Instances, todo : SUBSET Instances]
    BY <1>2 DEF InstInv
  <2>4. /\ InstInv'
        /\ \A j \in Instances : inst'[j].vec \subseteq inst[j].vec
        /\ \A j \in Instances : j \in Live' => inst'[j] = inst[j]
    BY <1>6, <2>1, <2>2, <2>3, PlainStep
  <2>5. QED
    BY <1>1, <1>4, <2>1, <2>4 DEF KeysKept, Typed
<1>8. CASE GetOpen(t, key, i)
  <2> DEFINE fresh == [NoInstance EXCEPT !.key = key]
             after == [inst EXCEPT ![i] = fresh]
             pushed == {j \in cached : inst[j].key \notin open'}
  <2>1. i = NewInstance /\ Instances \ Live # {}
    BY <1>8 DEF GetOpen
  <2>2. i \in Instances \ Live
    BY <2>1 DEF NewInstance
  <2>3. cached' \subseteq cached \cup {i} /\ saved' = Synced(pushed) /\ Settle(after)
    BY <1>8 DEF GetOpen
  <2>4. saved' \subseteq Entry /\ saved' \subseteq saved \cup UNION {inst[j].vec : j \in Instances}
    BY <1>6, <2>3, SyncedFrom
  <2>5. fresh.key = key /\ fresh.fts = FALSE /\ fresh.vec = {}
    BY DEF NoInstance
  <2>6. fresh \in Instance
    BY <1>4 DEF Instance, NoInstance
  <2> HIDE DEF fresh
  <2>7. after \in [Instances -> Instance] /\ after[i] = fresh
        /\ \A j \in Instances \ {i} : after[j] = inst[j]
    BY <1>6, <2>6
  <2> HIDE DEF after
  <2>8. /\ inst' \in [Instances -> Instance]
        /\ \A j \in Instances : j \in Live' => inst'[j] = after[j]
        /\ \A j \in Instances : j \notin Live' => inst'[j] = NoInstance
    BY <2>3, <2>7, Settled
  <2>9. Live' \subseteq Live \cup {i}
    BY <1>5, <2>3 DEF Live
  <2>10. \A j \in Instances : j \in Live' => inst'[j].key \in Interval
    BY <1>4, <2>5, <2>7, <2>8, <2>9 DEF InstInv
  <2>11. ~NoInstance.fts /\ NoInstance.vec = {}
    BY DEF NoInstance
  <2>12. OneWriter'
    BY <2>5, <2>7, <2>8, <2>11 DEF OneWriter, InstInv
  <2>13. InstInv'
    BY <1>2, <1>6, <2>3, <2>8, <2>10, <2>12 DEF InstInv
  <2>14. \A j \in Instances : inst'[j].vec \subseteq inst[j].vec
    BY <2>5, <2>7, <2>8, <2>11
  <2>15. KeysKept
    BY <2>2, <2>7, <2>8 DEF KeysKept
  <2>16. QED
    BY <1>1, <1>4, <2>4, <2>13, <2>14, <2>15
<1>9. QED
  BY <1>1, <1>7, <1>8

-----------------------------------------------------------------------------
(* Rows before indexes. *)

LEMMA StoredStep ==
    ASSUME HInv, KeysKept, deleted \subseteq deleted',
           deleted' = {} => rows \subseteq rows' /\ Indexed' \subseteq rows',
           \A d \in Workers :
              \/ work'[d] = work[d]
              \/ deleted' = {} => work'[d].pc \in {"idle", "row", "search"}
              \/ /\ work'[d].pc \in {"fts", "vec"}
                 /\ work[d].inst \in Instances
                 /\ work'[d].inst = work[d].inst /\ work'[d].rec = work[d].rec
                 /\ Doc(d) \in rows'
    PROVE  StoredInv'
<1> SUFFICES ASSUME deleted' = {}, NEW d \in Workers
             PROVE  /\ work'[d].pc \in {"fts", "vec"} => Doc(d)' \in rows'
                    /\ work'[d].pc \in {"idle", "row", "fts", "vec", "search"}
  BY DEF StoredInv
<1>1. deleted = {}
  OBVIOUS
<1>2. ASSUME work[d].inst \in Instances, work'[d].inst = work[d].inst, work'[d].rec = work[d].rec
      PROVE  Doc(d)' = Doc(d)
  <2>1. work[d].inst \in Live /\ work'[d].inst \in Live'
    BY DEF Live, Held
  <2>2. inst'[work'[d].inst].key = inst[work[d].inst].key
    BY <1>2, <2>1 DEF KeysKept
  <2>3. QED
    BY <1>2, <2>2 DEF Doc, Key
<1>3. CASE work'[d] = work[d]
  <2>1. work[d].pc \in {"idle", "row", "fts", "vec", "search"}
        /\ (work[d].pc \in {"fts", "vec"} => Doc(d) \in rows /\ work[d].inst \in Instances)
    BY <1>1, ByPc DEF HInv, StoredInv
  <2>2. QED
    BY <1>2, <1>3, <2>1
<1>4. QED
  BY <1>2, <1>3

LEMMA IndexedFrom ==
    ASSUME NEW X,
           fts' \subseteq fts \cup X,
           saved' \subseteq saved \cup X \cup UNION {inst[i].vec : i \in Instances},
           \A i \in Instances : inst'[i].vec \subseteq Indexed \cup X
    PROVE  Indexed' \subseteq Indexed \cup X
<1>1. fts \subseteq Indexed /\ saved \subseteq Indexed
      /\ UNION {inst[i].vec : i \in Instances} \subseteq Indexed
  BY DEF Indexed
<1>2. Indexed' = fts' \cup saved' \cup UNION {inst'[i].vec : i \in Instances}
  BY DEF Indexed
<1>3. UNION {inst'[i].vec : i \in Instances} \subseteq Indexed \cup X
  OBVIOUS
<1>4. QED
  BY <1>1, <1>2, <1>3

-----------------------------------------------------------------------------
(* The steps of a call that has its handle.  X is what the step may index; *)
(* es is what a vector call leaves in memory.                              *)

EngineCall(c, es) ==
    \/ Settle(inst)
    \/ CanOpenFts(work[c].inst) /\ Settle(FtsOpened(c))
    \/ Settle(VecHolds(c, es))

LEMMA CallStep ==
    ASSUME HInv, NEW c \in Workers, NEW w \in Work, NEW X \in SUBSET Entry,
           NEW es \in SUBSET Entry,
           work' = [work EXCEPT ![c] = w],
           w.inst \in {work[c].inst, NoHandle},
           w \in VisitWork \cup DeleteWork => w.todo \subseteq catalog,
           CacheUnchanged, saved' = saved,
           work[c].inst \in Instances \/ Settle(inst),
           EngineCall(c, es), es \subseteq Indexed \cup X,
           rows' \subseteq Entry, fts' \subseteq fts \cup X,
           deleted \subseteq deleted',
           deleted' = {} =>
              /\ rows \subseteq rows' /\ X \subseteq rows'
              /\ \/ w.pc \in {"idle", "row", "search"}
                 \/ /\ w.pc \in {"fts", "vec"}
                    /\ work[c].inst \in Instances
                    /\ w.inst = work[c].inst /\ w.rec = work[c].rec
                    /\ Doc(c) \in rows'
    PROVE  HInv' /\ KeysKept
<1>1. /\ work' \in [Workers -> Work] /\ work'[c] = w
      /\ \A d \in Workers \ {c} : work'[d] = work[d]
      /\ Held(work', syncing) \subseteq Held(work, syncing) \cup {NoHandle}
  BY WorkGoes DEF HInv
<1>2. UNCHANGED <<duration, catalog, cached, syncing>>
  BY DEF CacheUnchanged, vars
<1>3. Live' \subseteq Live \cup {NoHandle}
  BY <1>1, <1>2 DEF Live
<1>4. cached' \subseteq Instances /\ syncing' \in [held : SUBSET Instances, todo : SUBSET Instances]
  BY <1>2 DEF HInv, InstInv
<1>5. /\ InstInv'
      /\ \A i \in Instances : inst'[i].vec \subseteq inst[i].vec \cup es
      /\ \A i \in Instances : i \in Live' => inst'[i].key = inst[i].key
  <2>1. CASE Settle(inst)
    BY <1>3, <1>4, <2>1, PlainStep DEF HInv
  <2>2. CASE work[c].inst \in Instances /\ CanOpenFts(work[c].inst) /\ Settle(FtsOpened(c))
    BY <1>2, <1>3, <2>2, FtsStep DEF HInv
  <2>3. CASE work[c].inst \in Instances /\ Settle(VecHolds(c, es))
    BY <1>2, <1>3, <2>3, VecStep DEF HInv
  <2>4. QED
    BY <2>1, <2>2, <2>3 DEF EngineCall
<1>6. KeysKept
  BY <1>5 DEF KeysKept
<1>7. Typed'
  BY <1>1, <1>2 DEF HInv, Typed, CacheTyped
<1>8. TodoInv'
  BY <1>1, <1>2 DEF HInv, TodoInv
<1>9. Indexed' \subseteq Indexed \cup X
  <2>1. \A i \in Instances : inst[i].vec \subseteq Indexed
    BY DEF Indexed
  <2>2. \A i \in Instances : inst'[i].vec \subseteq Indexed \cup X
    BY <1>5, <2>1
  <2>3. QED
    BY <2>2, IndexedFrom
<1>10. StoredInv'
  <2>1. deleted' = {} => Indexed \subseteq rows
    BY DEF HInv, StoredInv
  <2>2. deleted' = {} => rows \subseteq rows' /\ Indexed' \subseteq rows'
    BY <1>9, <2>1
  <2>3. ASSUME NEW d \in Workers
        PROVE  \/ work'[d] = work[d]
               \/ deleted' = {} => work'[d].pc \in {"idle", "row", "search"}
               \/ /\ work'[d].pc \in {"fts", "vec"}
                  /\ work[d].inst \in Instances
                  /\ work'[d].inst = work[d].inst /\ work'[d].rec = work[d].rec
                  /\ Doc(d) \in rows'
    BY <1>1
  <2>4. QED
    BY <1>6, <2>2, <2>3, StoredStep
<1>11. QED
  BY <1>5, <1>6, <1>7, <1>8, <1>10 DEF HInv

LEMMA IdleWork == Idle \in Work /\ Idle.inst = NoHandle /\ Idle.pc = "idle"
                  /\ Idle \notin VisitWork \cup DeleteWork
BY DEF Idle, Work, VisitWork, DeleteWork

\* The key of a held instance is an interval, so that what is stored is typed.
LEMMA DocTyped ==
    ASSUME HInv, NEW c \in Workers, work[c] \in AddWork \cup DeleteWork
    PROVE  work[c].inst \in Instances /\ Doc(c) \in Entry
<1>1. work[c].inst \in Instances /\ work[c].rec \in Records
  BY DEF AddWork, DeleteWork
<1>2. work[c].inst \in Live
  BY DEF Live, Held
<1>3. QED
  BY <1>1, <1>2 DEF HInv, InstInv, Doc, Key, Entry

LEMMA AddRowStep == ASSUME HInv, NEW c \in Workers, AddRow(c) PROVE HInv' /\ KeysKept
<1>1. work[c] \in AddWork
  BY ByPc DEF HInv, AddRow
<1>2. work[c].inst \in Instances /\ Doc(c) \in Entry
  BY <1>1, DocTyped
<1> DEFINE pc == IF work[c].kind = "add" THEN "fts" ELSE "vec"
<1>3. Goto(c, pc) /\ pc \in {"fts", "vec"}
  BY DEF AddRow
<1> HIDE DEF pc
<1>4. PICK w \in Work : /\ work' = [work EXCEPT ![c] = w]
                        /\ w.pc = pc /\ w.inst = work[c].inst /\ w.rec = work[c].rec
                        /\ w \in DeleteWork => work[c] \in DeleteWork
                        /\ w \notin VisitWork
  BY <1>1, <1>3, PcGoes DEF HInv
<1>5. work[c] \notin DeleteWork
  BY <1>1 DEF AddWork, DeleteWork
<1>6. /\ CacheUnchanged /\ UNCHANGED <<fts, saved, deleted>> /\ Settle(inst)
      /\ rows' = rows \cup {Doc(c)}
  BY DEF AddRow
<1>7. rows' \subseteq Entry
  BY <1>2, <1>6 DEF HInv, Typed
<1>8. EngineCall(c, {})
  BY <1>6 DEF EngineCall
<1>9. QED
  BY <1>2, <1>3, <1>4, <1>5, <1>6, <1>7, <1>8, CallStep

LEMMA DoneStep ==
    ASSUME HInv, NEW c \in Workers, Done(c), CacheUnchanged,
           UNCHANGED <<rows, fts, saved, deleted>>, Settle(inst)
    PROVE  HInv' /\ KeysKept
<1>1. EngineCall(c, {})
  BY DEF EngineCall
<1>2. QED
  BY <1>1, IdleWork, CallStep DEF Done, HInv, Typed

LEMMA AddFtsStep == ASSUME HInv, NEW c \in Workers, AddFts(c) PROVE HInv' /\ KeysKept
<1>1. work[c] \in AddWork
  BY ByPc DEF HInv, AddFts
<1>2. work[c].inst \in Instances /\ Doc(c) \in Entry
  BY <1>1, DocTyped
<1>3. PICK w \in Work : /\ work' = [work EXCEPT ![c] = w]
                        /\ \/ w = Idle
                           \/ w.pc = "vec" /\ w.inst = work[c].inst /\ w.rec = work[c].rec
                        /\ w \notin VisitWork \cup DeleteWork
  <2>1. CASE work[c].kind = "add"
    <3>1. Goto(c, "vec") /\ work[c] \notin DeleteWork
      BY <1>1, <2>1 DEF AddFts, AddWork, DeleteWork
    <3>2. QED
      BY <1>1, <3>1, PcGoes DEF HInv
  <2>2. CASE work[c].kind # "add"
    BY <2>2, IdleWork DEF AddFts, Done
  <2>3. QED
    BY <2>1, <2>2
<1>4. /\ CacheUnchanged /\ UNCHANGED <<rows, saved, deleted>>
      /\ CanOpenFts(work[c].inst) /\ Settle(FtsOpened(c))
      /\ fts' = fts \cup {Doc(c)} /\ work[c].pc = "fts"
  BY DEF AddFts
<1>5. EngineCall(c, {})
  BY <1>4 DEF EngineCall
<1>6. deleted' = {} => Doc(c) \in rows'
  BY <1>4 DEF HInv, StoredInv
<1>7. rows' \subseteq Entry
  BY <1>4 DEF HInv, Typed
<1>8. /\ w.inst \in {work[c].inst, NoHandle}
      /\ \/ w.pc = "idle"
         \/ w.pc = "vec" /\ w.inst = work[c].inst /\ w.rec = work[c].rec
  BY <1>3, IdleWork
<1>9. QED
  BY <1>2, <1>3, <1>4, <1>5, <1>6, <1>7, <1>8, CallStep

LEMMA AddVecStep == ASSUME HInv, NEW c \in Workers, AddVec(c) PROVE HInv' /\ KeysKept
<1>1. work[c] \in AddWork
  BY ByPc DEF HInv, AddVec
<1>2. work[c].inst \in Instances /\ Doc(c) \in Entry
  BY <1>1, DocTyped
<1>3. PICK w \in Work : /\ work' = [work EXCEPT ![c] = w]
                        /\ \/ w = Idle
                           \/ w.pc = "fts" /\ w.inst = work[c].inst /\ w.rec = work[c].rec
                        /\ w \notin VisitWork \cup DeleteWork
  <2>1. CASE work[c].kind = "batch"
    <3>1. Goto(c, "fts") /\ work[c] \notin DeleteWork
      BY <1>1, <2>1 DEF AddVec, AddWork, DeleteWork
    <3>2. QED
      BY <1>1, <3>1, PcGoes DEF HInv
  <2>2. CASE work[c].kind # "batch"
    BY <2>2, IdleWork DEF AddVec, Done
  <2>3. QED
    BY <2>1, <2>2
<1> DEFINE es == Vectors(work[c].inst) \cup {Doc(c)}
<1>4. /\ CacheUnchanged /\ UNCHANGED <<rows, fts, saved, deleted>>
      /\ Settle(VecHolds(c, es)) /\ work[c].pc = "vec"
  BY DEF AddVec
<1>5. EngineCall(c, es)
  BY <1>4 DEF EngineCall
<1>6. deleted' = {} => Doc(c) \in rows'
  BY <1>4 DEF HInv, StoredInv
<1>7. rows' \subseteq Entry
  BY <1>4 DEF HInv, Typed
<1>8. /\ w.inst \in {work[c].inst, NoHandle}
      /\ \/ w.pc = "idle"
         \/ w.pc = "fts" /\ w.inst = work[c].inst /\ w.rec = work[c].rec
  BY <1>3, IdleWork
<1>9. es \in SUBSET Entry /\ es \subseteq Indexed \cup {Doc(c)}
  BY <1>2, VectorsFrom DEF HInv, Indexed
<1> HIDE DEF es
<1>10. QED
  BY <1>2, <1>3, <1>4, <1>5, <1>6, <1>7, <1>8, <1>9, CallStep

LEMMA DeletesSeen ==
    ASSUME HInv, NEW c \in Workers, work[c] \in VisitWork \cup DeleteWork
    PROVE  deleted # {}
BY DEF HInv, StoredInv, VisitWork, DeleteWork

LEMMA DeleteBeginStep ==
    ASSUME HInv, NEW c \in Workers, NEW r \in Records, DeleteBegin(c, r)
    PROVE  HInv' /\ KeysKept
<1> DEFINE w == [pc |-> "visit", inst |-> NoHandle, rec |-> r, todo |-> catalog]
<1>1. w \in VisitWork /\ w.inst = NoHandle /\ w.todo = catalog
  BY DEF HInv, Typed, CacheTyped, VisitWork
<1>2. w \in Work
  BY <1>1 DEF Work
<1>3. /\ work' = [work EXCEPT ![c] = w] /\ CacheUnchanged /\ UNCHANGED <<rows, fts, saved>>
      /\ Settle(inst) /\ deleted' = deleted \cup {r}
  BY DEF DeleteBegin
<1> HIDE DEF w
<1>4. EngineCall(c, {}) /\ deleted' # {} /\ deleted \subseteq deleted'
  BY <1>3 DEF EngineCall
<1>5. rows' \subseteq Entry
  BY <1>3 DEF HInv, Typed
<1>6. QED
  BY <1>1, <1>2, <1>3, <1>4, <1>5, CallStep

LEMMA DeleteMissStep ==
    ASSUME HInv, NEW c \in Workers, DeleteMiss(c) PROVE HInv' /\ KeysKept
<1>1. work[c] \in DeleteWork
  BY ByPc DEF HInv, DeleteMiss
<1>2. CacheUnchanged /\ UNCHANGED <<rows, fts, saved, deleted>> /\ Settle(inst)
  BY DEF DeleteMiss
<1>3. CASE Done(c)
  BY <1>2, <1>3, DoneStep
<1>4. CASE ~Done(c)
  <2> DEFINE w == [[work[c] EXCEPT !.pc = "visit"] EXCEPT !.inst = NoHandle]
  <2>1. work' = [work EXCEPT ![c] = w]
    BY <1>4 DEF DeleteMiss, HInv, Typed
  <2>2. w \in VisitWork /\ w.inst = NoHandle /\ w.todo = work[c].todo
    BY <1>1 DEF DeleteWork, VisitWork
  <2> HIDE DEF w
  <2>3. w \in Work /\ w.todo \subseteq catalog
    BY <1>1, <2>2 DEF Work, HInv, TodoInv
  <2>4. EngineCall(c, {}) /\ deleted' # {} /\ deleted \subseteq deleted'
    BY <1>1, <1>2, DeletesSeen DEF EngineCall
  <2>5. rows' \subseteq Entry
    BY <1>2 DEF HInv, Typed
  <2>6. QED
    BY <1>2, <2>1, <2>2, <2>3, <2>4, <2>5, CallStep
<1>5. QED
  BY <1>3, <1>4

LEMMA DeleteRowStep ==
    ASSUME HInv, NEW c \in Workers, DeleteRow(c) PROVE HInv' /\ KeysKept
<1>1. work[c] \in DeleteWork
  BY ByPc DEF HInv, DeleteRow
<1>2. Goto(c, "drop")
  BY DEF DeleteRow
<1>3. PICK w \in Work : /\ work' = [work EXCEPT ![c] = w]
                        /\ w.inst = work[c].inst
                        /\ w \in DeleteWork => w.todo = work[c].todo
                        /\ w \notin VisitWork
  BY <1>1, <1>2, PcGoes DEF HInv
<1>4. w \in DeleteWork => w.todo \subseteq catalog
  BY <1>1, <1>3 DEF HInv, TodoInv
<1>5. /\ CacheUnchanged /\ UNCHANGED <<fts, saved, deleted>> /\ Settle(inst)
      /\ rows' \subseteq rows
  BY DEF DeleteRow
<1>6. EngineCall(c, {}) /\ deleted' # {}
  BY <1>1, <1>5, DeletesSeen DEF EngineCall
<1>7. rows' \subseteq Entry
  BY <1>5 DEF HInv, Typed
<1>8. QED
  BY <1>3, <1>4, <1>5, <1>6, <1>7, CallStep

LEMMA DeleteFtsStep ==
    ASSUME HInv, NEW c \in Workers, DeleteFts(c) PROVE HInv' /\ KeysKept
<1>1. work[c] \in DeleteWork
  BY ByPc DEF HInv, DeleteFts
<1>2. Goto(c, "unvec")
  BY DEF DeleteFts
<1>3. PICK w \in Work : /\ work' = [work EXCEPT ![c] = w]
                        /\ w.inst = work[c].inst
                        /\ w \in DeleteWork => w.todo = work[c].todo
                        /\ w \notin VisitWork
  BY <1>1, <1>2, PcGoes DEF HInv
<1>4. w \in DeleteWork => w.todo \subseteq catalog
  BY <1>1, <1>3 DEF HInv, TodoInv
<1>5. /\ CacheUnchanged /\ UNCHANGED <<rows, saved, deleted>>
      /\ CanOpenFts(work[c].inst) /\ Settle(FtsOpened(c)) /\ fts' \subseteq fts
  BY DEF DeleteFts
<1>6. EngineCall(c, {}) /\ deleted' # {} /\ work[c].inst \in Instances
  BY <1>1, <1>5, DeletesSeen, DocTyped DEF EngineCall
<1>7. rows' \subseteq Entry
  BY <1>5 DEF HInv, Typed
<1>8. QED
  BY <1>3, <1>4, <1>5, <1>6, <1>7, CallStep

LEMMA DeleteVecStep ==
    ASSUME HInv, NEW c \in Workers, DeleteVec(c) PROVE HInv' /\ KeysKept
<1>1. work[c] \in DeleteWork
  BY ByPc DEF HInv, DeleteVec
<1> DEFINE es == Vectors(work[c].inst) \ {Doc(c)}
<1>2. /\ Done(c) /\ CacheUnchanged /\ UNCHANGED <<rows, fts, saved, deleted>>
      /\ Settle(VecHolds(c, es))
  BY DEF DeleteVec
<1>3. EngineCall(c, es) /\ deleted' # {} /\ work[c].inst \in Instances
  BY <1>1, <1>2, DeletesSeen, DocTyped DEF EngineCall
<1>4. es \in SUBSET Entry /\ es \subseteq Indexed
  BY <1>3, VectorsFrom DEF HInv, Indexed
<1> HIDE DEF es
<1>5. work' = [work EXCEPT ![c] = Idle] /\ rows' \subseteq Entry
  BY <1>2 DEF Done, HInv, Typed
<1>6. QED
  BY <1>2, <1>3, <1>4, <1>5, IdleWork, CallStep

LEMMA SearchStep ==
    ASSUME HInv, NEW c \in Workers, Search(c) PROVE HInv' /\ KeysKept
<1>1. work[c].inst \in Instances
  BY ByPc DEF HInv, Search
<1>2. /\ Done(c) /\ CacheUnchanged /\ UNCHANGED <<rows, fts, saved, deleted>>
      /\ CanOpenFts(work[c].inst) /\ Settle(FtsOpened(c))
  BY DEF Search
<1>3. EngineCall(c, {})
  BY <1>2 DEF EngineCall
<1>4. work' = [work EXCEPT ![c] = Idle] /\ rows' \subseteq Entry
  BY <1>2 DEF Done, HInv, Typed
<1>5. QED
  BY <1>1, <1>2, <1>3, <1>4, IdleWork, CallStep

-----------------------------------------------------------------------------
(* The steps that take a handle. *)

LEMMA HandleStep ==
    ASSUME HInv, NEW c \in Workers, NEW t \in Times, NEW next, Acquire(c, t, next),
           UNCHANGED deleted,
           \A i \in Instances :
              LET w == [next EXCEPT !.inst = i]
              IN  /\ w \in Work /\ w.inst = i
                  /\ w \in VisitWork \cup DeleteWork => w.todo \subseteq catalog
                  /\ deleted = {} => w.pc \in {"row", "search"}
    PROVE  HInv' /\ KeysKept
<1>1. Typed /\ InstInv
  BY DEF HInv
<1>2. /\ CacheTyped' /\ catalog \subseteq catalog'
      /\ \E i \in Instances : work' = [work EXCEPT ![c] = [next EXCEPT !.inst = i]]
      /\ InstInv' /\ KeysKept
      /\ \A i \in Instances : inst'[i].vec \subseteq inst[i].vec
      /\ saved' \subseteq Entry
      /\ saved' \subseteq saved \cup UNION {inst[i].vec : i \in Instances}
  BY <1>1, AcquireStep
<1>3. PICK i \in Instances : work' = [work EXCEPT ![c] = [next EXCEPT !.inst = i]]
  BY <1>2
<1> DEFINE w == [next EXCEPT !.inst = i]
<1>4. /\ w \in Work
      /\ w \in VisitWork \cup DeleteWork => w.todo \subseteq catalog
      /\ deleted = {} => w.pc \in {"row", "search"}
      /\ work' = [work EXCEPT ![c] = w]
  BY <1>3
<1> HIDE DEF w
<1>5. work' \in [Workers -> Work] /\ work'[c] = w /\ \A d \in Workers \ {c} : work'[d] = work[d]
  BY <1>1, <1>4, WorkGoes
<1>6. rows' = rows /\ fts' = fts
  BY DEF Acquire
<1>7. Typed'
  BY <1>1, <1>2, <1>5, <1>6 DEF Typed
<1>8. TodoInv'
  BY <1>2, <1>4, <1>5 DEF HInv, TodoInv
<1>9. \A j \in Instances : inst'[j].vec \subseteq Indexed
  BY <1>2 DEF Indexed
<1>10. Indexed' \subseteq Indexed \cup {}
  BY <1>2, <1>6, <1>9, IndexedFrom
<1>11. deleted' = {} => rows \subseteq rows' /\ Indexed' \subseteq rows'
  BY <1>6, <1>10 DEF HInv, StoredInv
<1>12. StoredInv'
  BY <1>2, <1>4, <1>5, <1>11, StoredStep
<1>13. QED
  BY <1>2, <1>7, <1>8, <1>12 DEF HInv

LEMMA AddBeginStep ==
    ASSUME HInv, NEW c \in Workers, NEW r \in Records, NEW kind \in {"add", "batch"},
           AddBegin(c, r, kind)
    PROVE  HInv' /\ KeysKept
<1> DEFINE next == [pc |-> "row", inst |-> NoHandle, rec |-> r, kind |-> kind]
<1>1. Acquire(c, TimeOf[r], next) /\ UNCHANGED deleted /\ TimeOf[r] \in Times
  BY HandleAssumption DEF AddBegin
<1>2. ASSUME NEW i \in Instances
      PROVE  /\ [next EXCEPT !.inst = i] \in AddWork
             /\ [next EXCEPT !.inst = i].inst = i /\ [next EXCEPT !.inst = i].pc = "row"
  BY DEF AddWork
<1> HIDE DEF next
<1>3. \A i \in Instances : [next EXCEPT !.inst = i] \notin VisitWork \cup DeleteWork
  BY <1>2 DEF VisitWork, DeleteWork
<1>4. QED
  BY <1>1, <1>2, <1>3, HandleStep DEF Work

LEMMA SearchBeginStep ==
    ASSUME HInv, NEW c \in Workers, SearchBegin(c) PROVE HInv' /\ KeysKept
<1> DEFINE next == [pc |-> "search", inst |-> NoHandle]
<1>1. PICK row \in catalog : Acquire(c, row[1], next)
  BY DEF SearchBegin
<1>2. row[1] \in Times /\ UNCHANGED deleted
  BY DEF HInv, Typed, CacheTyped, SearchBegin
<1>3. ASSUME NEW i \in Instances
      PROVE  /\ [next EXCEPT !.inst = i] \in SearchWork
             /\ [next EXCEPT !.inst = i].inst = i /\ [next EXCEPT !.inst = i].pc = "search"
  BY DEF SearchWork
<1> HIDE DEF next
<1>4. \A i \in Instances : [next EXCEPT !.inst = i] \notin VisitWork \cup DeleteWork
  BY <1>3 DEF VisitWork, DeleteWork
<1>5. QED
  BY <1>1, <1>2, <1>3, <1>4, HandleStep DEF Work

LEMMA DeleteVisitStep ==
    ASSUME HInv, NEW c \in Workers, DeleteVisit(c) PROVE HInv' /\ KeysKept
<1>1. work[c] \in VisitWork
  BY ByPc DEF HInv, DeleteVisit
<1>2. PICK row \in FirstRows(work[c].todo) :
         Acquire(c, row[1], [work[c] EXCEPT !.pc = "look", !.todo = @ \ {row}])
  BY DEF DeleteVisit
<1> DEFINE todo == work[c].todo \ {row}
           next == [[work[c] EXCEPT !.pc = "look"] EXCEPT !.todo = todo]
<1>3. Acquire(c, row[1], next)
  BY <1>1, <1>2 DEF VisitWork
<1>4. work[c].todo \subseteq catalog /\ row \in work[c].todo
  BY <1>1, <1>2 DEF HInv, TodoInv, FirstRows
<1>5. row[1] \in Times /\ UNCHANGED deleted /\ deleted # {}
  BY <1>1, <1>4, DeletesSeen DEF HInv, Typed, CacheTyped, DeleteVisit
<1>6. ASSUME NEW i \in Instances
      PROVE  /\ [next EXCEPT !.inst = i] \in DeleteWork
             /\ [next EXCEPT !.inst = i].inst = i
             /\ [next EXCEPT !.inst = i].todo \subseteq catalog
  BY <1>1, <1>4 DEF DeleteWork, VisitWork
<1> HIDE DEF next
<1>7. QED
  BY <1>3, <1>5, <1>6, HandleStep DEF Work

-----------------------------------------------------------------------------
(* sync, close, stop and crash. *)

LEMMA ServerStep ==
    ASSUME HInv, Settle(inst), Live' \subseteq Live \cup {NoHandle},
           cached' \subseteq Instances,
           syncing' \in [held : SUBSET Instances, todo : SUBSET Instances],
           work' = work \/ work' = [c \in Workers |-> Idle],
           duration' = duration \/ duration' \in Durations,
           UNCHANGED <<catalog, rows, fts, deleted>>,
           saved' \subseteq saved \cup UNION {inst[i].vec : i \in Instances}
    PROVE  HInv' /\ KeysKept
<1>1. /\ InstInv' /\ KeysKept
      /\ \A i \in Instances : inst'[i].vec \subseteq inst[i].vec
  BY PlainStep DEF HInv, KeysKept
<1>2. /\ work' \in [Workers -> Work]
      /\ \A c \in Workers : work'[c] = work[c] \/ work'[c] = Idle
  BY IdleWork DEF HInv, Typed
<1>3. saved' \subseteq Entry
  BY DEF HInv, Typed, InstInv, Instance
<1>4. Typed'
  BY <1>2, <1>3 DEF HInv, Typed, CacheTyped
<1>5. TodoInv'
  BY <1>2, IdleWork DEF HInv, TodoInv
<1>6. \A i \in Instances : inst'[i].vec \subseteq Indexed
  BY <1>1 DEF Indexed
<1>7. Indexed' \subseteq Indexed \cup {}
  BY <1>6, IndexedFrom
<1>8. StoredInv'
  BY <1>1, <1>2, <1>7, IdleWork, StoredStep DEF HInv, StoredInv
<1>9. QED
  BY <1>1, <1>4, <1>5, <1>8 DEF HInv

LEMMA SyncBeginStep == ASSUME HInv, SyncBegin PROVE HInv' /\ KeysKept
<1>1. /\ syncing' = [held |-> cached, todo |-> cached] /\ Settle(inst)
      /\ UNCHANGED <<cached, work, duration, catalog, rows, fts, saved, deleted>>
  BY DEF SyncBegin, vars
<1>2. cached' \subseteq Instances /\ syncing' \in [held : SUBSET Instances, todo : SUBSET Instances]
  BY <1>1 DEF HInv, InstInv
<1>3. Live' \subseteq Live
  BY <1>1 DEF Live, Held
<1>4. QED
  BY <1>1, <1>2, <1>3, ServerStep

LEMMA SyncOneStep ==
    ASSUME HInv, NEW i \in Instances, SyncOne(i) PROVE HInv' /\ KeysKept
<1>1. /\ syncing' = [syncing EXCEPT !.todo = @ \ {i}] /\ Settle(inst)
      /\ saved' = Synced({i})
      /\ UNCHANGED <<cached, work, duration, catalog, rows, fts, deleted>>
  BY DEF SyncOne, vars
<1>2. /\ cached' \subseteq Instances
      /\ syncing' \in [held : SUBSET Instances, todo : SUBSET Instances]
      /\ syncing'.held = syncing.held
  BY <1>1 DEF HInv, InstInv
<1>3. Live' \subseteq Live
  BY <1>1, <1>2 DEF Live, Held
<1>4. saved' \subseteq saved \cup UNION {inst[j].vec : j \in Instances}
  BY <1>1, SyncedFrom DEF HInv
<1>5. QED
  BY <1>1, <1>2, <1>3, <1>4, ServerStep

LEMMA NoSyncTyped == NoSync \in [held : SUBSET Instances, todo : SUBSET Instances] /\ NoSync.held = {}
BY DEF NoSync

LEMMA SyncEndStep == ASSUME HInv, SyncEnd PROVE HInv' /\ KeysKept
<1>1. /\ syncing' = NoSync /\ Settle(inst)
      /\ UNCHANGED <<cached, work, duration, catalog, rows, fts, saved, deleted>>
  BY DEF SyncEnd, vars
<1>2. cached' \subseteq Instances
  BY <1>1 DEF HInv, InstInv
<1>3. Live' \subseteq Live
  BY <1>1, NoSyncTyped DEF Live, Held
<1>4. QED
  BY <1>1, <1>2, <1>3, NoSyncTyped, ServerStep

LEMMA CloseStep == ASSUME HInv, CloseCache PROVE HInv' /\ KeysKept
<1>1. /\ cached' = {} /\ saved' = Synced(cached) /\ Settle(inst)
      /\ UNCHANGED <<work, syncing, duration, catalog, rows, fts, deleted>>
  BY DEF CloseCache, Close
<1>2. syncing' \in [held : SUBSET Instances, todo : SUBSET Instances] /\ cached \subseteq Instances
  BY <1>1 DEF HInv, InstInv
<1>3. Live' \subseteq Live
  BY <1>1 DEF Live, Held
<1>4. saved' \subseteq saved \cup UNION {inst[j].vec : j \in Instances}
  BY <1>1, <1>2, SyncedFrom DEF HInv
<1>5. QED
  BY <1>1, <1>2, <1>3, <1>4, ServerStep

LEMMA ReopenStep ==
    ASSUME HInv, Reopen, saved' = saved \/ saved' = Synced(cached) PROVE HInv' /\ KeysKept
<1>1. /\ cached' = {} /\ syncing' = NoSync /\ work' = [c \in Workers |-> Idle] /\ Settle(inst)
      /\ duration' \in Durations
      /\ UNCHANGED <<catalog, rows, fts, deleted>>
  BY DEF Reopen, Restart
<1>2. cached \subseteq Instances
  BY DEF HInv, InstInv
<1>3. \A c \in Workers : work'[c].inst = NoHandle
  BY <1>1, IdleWork
<1>4. Live' \subseteq {NoHandle}
  BY <1>1, <1>3, NoSyncTyped DEF Live, Held
<1>5. saved' \subseteq saved \cup UNION {inst[j].vec : j \in Instances}
  BY <1>2, SyncedFrom DEF HInv
<1>6. QED
  BY <1>1, <1>4, <1>5, NoSyncTyped, ServerStep

-----------------------------------------------------------------------------
LEMMA HInitInv == HInit => HInv
<1> SUFFICES ASSUME HInit PROVE HInv
  OBVIOUS
<1>1. /\ duration \in Durations /\ catalog = {} /\ cached = {} /\ syncing = NoSync
      /\ work = [c \in Workers |-> Idle] /\ inst = [i \in Instances |-> NoInstance]
      /\ rows = {} /\ fts = {} /\ saved = {}
  BY DEF HInit, Init
<1>2. \A c \in Workers : work[c] = Idle
  BY <1>1
<1>3. Live \subseteq {NoHandle}
  BY <1>1, <1>2, IdleWork, NoSyncTyped DEF Live, Held
<1>4. NoInstance \in Instance /\ ~NoInstance.fts /\ NoInstance.vec = {}
  BY DEF NoInstance, Instance
<1>5. Typed
  BY <1>1, IdleWork DEF Typed, CacheTyped
<1>6. TodoInv
  BY <1>2, IdleWork DEF TodoInv
<1>7. InstInv
  BY <1>1, <1>3, <1>4, NoSyncTyped, HandleAssumption DEF InstInv, OneWriter
<1>8. Indexed = {}
  BY <1>1, <1>4 DEF Indexed
<1>9. StoredInv
  BY <1>2, <1>8, IdleWork DEF StoredInv
<1>10. QED
  BY <1>5, <1>6, <1>7, <1>9 DEF HInv

LEMMA WorkerInv ==
    ASSUME HInv, NEW c \in Workers, WorkerStep(c) PROVE HInv' /\ KeysKept
<1>1. CASE \E r \in Records, kind \in {"add", "batch"} : AddBegin(c, r, kind)
  BY <1>1, AddBeginStep
<1>2. CASE \E r \in Records : DeleteBegin(c, r)
  BY <1>2, DeleteBeginStep
<1>3. CASE AddDuplicate(c)
  BY <1>3, DoneStep DEF AddDuplicate
<1>4. CASE FtsLocked(c)
  BY <1>4, DoneStep DEF FtsLocked
<1>5. CASE AddRow(c) \/ AddFts(c) \/ AddVec(c)
  BY <1>5, AddRowStep, AddFtsStep, AddVecStep
<1>6. CASE DeleteVisit(c) \/ DeleteMiss(c) \/ DeleteRow(c)
  BY <1>6, DeleteVisitStep, DeleteMissStep, DeleteRowStep
<1>7. CASE DeleteFts(c) \/ DeleteVec(c)
  BY <1>7, DeleteFtsStep, DeleteVecStep
<1>8. CASE SearchBegin(c) \/ Search(c)
  BY <1>8, SearchBeginStep, SearchStep
<1>9. QED
  BY <1>1, <1>2, <1>3, <1>4, <1>5, <1>6, <1>7, <1>8 DEF WorkerStep

LEMMA HNextInv == HInv /\ [HNext]_hvars => HInv' /\ KeysKept
<1> SUFFICES ASSUME HInv, [HNext]_hvars PROVE HInv' /\ KeysKept
  OBVIOUS
<1>1. CASE UNCHANGED hvars
  BY <1>1 DEF hvars, vars, handleVars, HInv, Typed, CacheTyped, TodoInv, InstInv, OneWriter,
              StoredInv, Indexed, Doc, Key, Live, Held, KeysKept
<1>2. CASE \E c \in Workers : WorkerStep(c)
  BY <1>2, WorkerInv
<1>3. CASE SyncBegin \/ SyncEnd \/ \E i \in Instances : SyncOne(i)
  BY <1>3, SyncBeginStep, SyncEndStep, SyncOneStep
<1>4. CASE CloseCache
  BY <1>4, CloseStep
<1>5. CASE Stop \/ Crash
  BY <1>5, ReopenStep DEF Stop, Crash
<1>6. QED
  BY <1>1, <1>2, <1>3, <1>4, <1>5 DEF HNext

LEMMA HSpecInv == HSpec => []HInv
<1>1. HInv /\ [HNext]_hvars => HInv'
  BY HNextInv
<1>2. QED
  BY <1>1, HInitInv, PTL DEF HSpec

-----------------------------------------------------------------------------
\* Shard::add and add_batch store a record before they index it; so do
\* errors, crashes and evicted clones (shard.rs).
THEOREM RowsComeFirst == HSpec => []IndexedHaveRows
<1>1. HInv => IndexedHaveRows
  BY DEF HInv, StoredInv, IndexedHaveRows
<1>2. QED
  BY <1>1, HSpecInv, PTL

-----------------------------------------------------------------------------
(* In the cache every step is one of ShardsCache, or none. *)

LEMMA HandleLooksUp ==
    ASSUME NEW c, NEW t \in Times, NEW next, Acquire(c, t, next) PROVE Next
<1>1. \E key \in Candidates(t) : shard(t, key)
  BY DEF Acquire, GetHit, GetOpen, shard
<1>2. Lookup(t)
  BY <1>1 DEF Acquire, Lookup
<1>3. QED
  BY <1>2 DEF Next

LEMMA StepMaps == HInv /\ [HNext]_hvars => [Next]_vars
<1> SUFFICES ASSUME HInv, HNext PROVE Next \/ UNCHANGED vars
  BY DEF hvars
<1>1. CASE \E c \in Workers, r \in Records, kind \in {"add", "batch"} : AddBegin(c, r, kind)
  BY <1>1, HandleLooksUp, HandleAssumption DEF AddBegin
<1>2. CASE \E c \in Workers : SearchBegin(c)
  <2>1. PICK c \in Workers, row \in catalog :
           Acquire(c, row[1], [pc |-> "search", inst |-> NoHandle])
    BY <1>2 DEF SearchBegin
  <2>2. row[1] \in Times
    BY DEF HInv, Typed, CacheTyped
  <2>3. QED
    BY <2>1, <2>2, HandleLooksUp
<1>3. CASE \E c \in Workers : DeleteVisit(c)
  <2>1. PICK c \in Workers : DeleteVisit(c)
    BY <1>3
  <2>2. work[c] \in VisitWork
    BY <2>1, ByPc DEF HInv, DeleteVisit
  <2>3. PICK row \in FirstRows(work[c].todo) :
           Acquire(c, row[1], [work[c] EXCEPT !.pc = "look", !.todo = @ \ {row}])
    BY <2>1 DEF DeleteVisit
  <2>4. row[1] \in Times
    BY <2>2 DEF HInv, Typed, CacheTyped, TodoInv, FirstRows
  <2>5. QED
    BY <2>3, <2>4, HandleLooksUp
<1>4. CASE CloseCache
  BY <1>4 DEF CloseCache, Next
<1>5. CASE Stop \/ Crash
  <2>1. \E d \in Durations : Restart(d)
    BY <1>5 DEF Stop, Crash, Reopen
  <2>2. QED
    BY <2>1 DEF Next
<1>6. CASE SyncBegin \/ SyncEnd \/ \E i \in Instances : SyncOne(i)
  BY <1>6 DEF SyncBegin, SyncEnd, SyncOne
<1>7. CASE \E c \in Workers : \/ \E r \in Records : DeleteBegin(c, r)
                              \/ AddDuplicate(c) \/ AddRow(c) \/ AddFts(c) \/ AddVec(c)
                              \/ FtsLocked(c) \/ DeleteMiss(c) \/ DeleteRow(c)
                              \/ DeleteFts(c) \/ DeleteVec(c) \/ Search(c)
  BY <1>7 DEF DeleteBegin, AddDuplicate, AddRow, AddFts, AddVec, FtsLocked, DeleteMiss,
              DeleteRow, DeleteFts, DeleteVec, Search, CacheUnchanged
<1>8. QED
  BY <1>1, <1>2, <1>3, <1>4, <1>5, <1>6, <1>7 DEF HNext, WorkerStep

-----------------------------------------------------------------------------
(* One instance to an open shard, where every interval has its own key. *)

\* A call of shard() that misses brings in one key, which was not there.
LEMMA MissBringsKey ==
    ASSUME NEW d, SingleWidth(d), CacheInv, NEW t \in Times, NEW key, duration' = duration,
           CatalogHit(t, key) \/ AutoCreate(t, key)
    PROVE  key \notin open /\ key \in open' /\ open' \subseteq open \cup {key}
<1>1. d \in WholeSeconds /\ duration = d /\ t \in Nat
  BY CacheAssumption DEF SingleWidth, CacheInv
<1>2. key \in open'
  BY <1>1, LookupStep DEF shard
<1>3. key \notin open
  <2>1. CASE CatalogHit(t, key)
    BY <1>1, <2>1, RowsAt DEF CatalogHit, FirstRows
  <2>2. CASE AutoCreate(t, key)
    BY <2>2 DEF AutoCreate
  <2>3. QED
    BY <2>1, <2>2
<1>4. Insert(key)
  BY DEF CatalogHit, AutoCreate
<1>5. QED
  BY <1>2, <1>3, <1>4 DEF Insert

LEMMA MapAcquire ==
    ASSUME NEW d, SingleWidth(d), CacheInv, HInv, HInv', KeysKept, MapIsOpenShards,
           NEW c \in Workers, NEW t \in Times, NEW next, Acquire(c, t, next)
    PROVE  MapIsOpenShards'
<1>1. PICK key \in Candidates(t), i \in Instances : GetHit(t, key, i) \/ GetOpen(t, key, i)
  BY DEF Acquire
<1>2. cached \subseteq Live /\ cached' \subseteq Live'
      /\ cached \subseteq Instances /\ cached' \subseteq Instances
  BY DEF Live, HInv, InstInv
<1>3. CASE GetHit(t, key, i)
  <2>1. cached' = cached /\ open' = open
    BY <1>3 DEF GetHit, CacheHit
  <2>2. \A j \in cached : inst'[j].key = inst[j].key
    BY <1>2, <2>1 DEF KeysKept
  <2>3. QED
    BY <2>1, <2>2 DEF MapIsOpenShards
<1>4. CASE GetOpen(t, key, i)
  <2>1. key \notin open /\ key \in open' /\ open' \subseteq open \cup {key}
    BY <1>4, MissBringsKey DEF GetOpen, Acquire
  <2>2. i \in Instances \ Live
    BY <1>4 DEF GetOpen, NewInstance
  <2>3. /\ cached' = {j \in cached : inst[j].key \in open' \ {key}} \cup {i}
        /\ Settle([inst EXCEPT ![i] = [NoInstance EXCEPT !.key = key]])
    BY <1>4 DEF GetOpen
  <2>4. inst'[i] = [NoInstance EXCEPT !.key = key]
    BY <1>2, <2>2, <2>3 DEF Settle, Live, HInv, InstInv
  <2>5. inst'[i].key = key
    BY <2>4 DEF NoInstance
  <2>6. i \notin cached /\ \A j \in cached' \ {i} : j \in cached /\ inst'[j].key = inst[j].key
    BY <1>2, <2>2, <2>3 DEF KeysKept
  <2>7. open = {inst[j].key : j \in cached}
        /\ \A j, k \in cached : inst[j].key = inst[k].key => j = k
    BY DEF MapIsOpenShards
  <2>8. \A j \in cached' \ {i} : inst[j].key \in open' \ {key}
    BY <2>3, <2>6
  <2>9. open' = {inst'[j].key : j \in cached'}
    <3>1. ASSUME NEW k \in open' PROVE \E j \in cached' : k = inst'[j].key
      <4>1. CASE k = key
        BY <2>3, <2>5, <4>1
      <4>2. CASE k # key
        <5>1. PICK j \in cached : k = inst[j].key
          BY <2>1, <2>7, <4>2
        <5>2. j \in cached' \ {i}
          BY <2>3, <2>6, <4>2, <5>1
        <5>3. QED
          BY <2>6, <5>1, <5>2
      <4>3. QED
        BY <4>1, <4>2
    <3>2. \A j \in cached' : inst'[j].key \in open'
      BY <2>1, <2>5, <2>6, <2>8
    <3>3. QED
      BY <3>1, <3>2
  <2>10. \A j, k \in cached' : inst'[j].key = inst'[k].key => j = k
    BY <2>5, <2>6, <2>7, <2>8
  <2>11. QED
    BY <2>9, <2>10 DEF MapIsOpenShards
<1>5. QED
  BY <1>1, <1>3, <1>4

LEMMA MapStays ==
    ASSUME HInv, HInv', KeysKept, MapIsOpenShards,
           UNCHANGED <<cached, open>> \/ (cached' = {} /\ open' = {})
    PROVE  MapIsOpenShards'
<1>1. cached \subseteq Live /\ cached' \subseteq Live' /\ cached \subseteq Instances
  BY DEF Live, HInv, InstInv
<1>2. CASE UNCHANGED <<cached, open>>
  <2>1. \A j \in cached : inst'[j].key = inst[j].key
    BY <1>1, <1>2 DEF KeysKept
  <2>2. QED
    BY <1>2, <2>1 DEF MapIsOpenShards
<1>3. QED
  BY <1>2 DEF MapIsOpenShards

LEMMA MapStep ==
    ASSUME NEW d, SingleWidth(d), CacheInv, HInv, HInv', KeysKept, MapIsOpenShards, [HNext]_hvars
    PROVE  MapIsOpenShards'
<1>1. CASE UNCHANGED <<cached, open>> \/ (cached' = {} /\ open' = {})
  BY <1>1, MapStays
<1>2. CASE \E c \in Workers, r \in Records, kind \in {"add", "batch"} : AddBegin(c, r, kind)
  BY <1>2, MapAcquire, HandleAssumption DEF AddBegin
<1>3. CASE \E c \in Workers : SearchBegin(c)
  <2>1. PICK c \in Workers, row \in catalog :
           Acquire(c, row[1], [pc |-> "search", inst |-> NoHandle])
    BY <1>3 DEF SearchBegin
  <2>2. row[1] \in Times
    BY DEF HInv, Typed, CacheTyped
  <2>3. QED
    BY <2>1, <2>2, MapAcquire
<1>4. CASE \E c \in Workers : DeleteVisit(c)
  <2>1. PICK c \in Workers : DeleteVisit(c)
    BY <1>4
  <2>2. work[c] \in VisitWork
    BY <2>1, ByPc DEF HInv, DeleteVisit
  <2>3. PICK row \in FirstRows(work[c].todo) :
           Acquire(c, row[1], [work[c] EXCEPT !.pc = "look", !.todo = @ \ {row}])
    BY <2>1 DEF DeleteVisit
  <2>4. row[1] \in Times
    BY <2>2 DEF HInv, Typed, CacheTyped, TodoInv, FirstRows
  <2>5. QED
    BY <2>3, <2>4, MapAcquire
<1>5. CASE CloseCache \/ Stop \/ Crash
  BY <1>1, <1>5 DEF CloseCache, Close, Stop, Crash, Reopen, Restart
<1>6. CASE SyncBegin \/ SyncEnd \/ \E i \in Instances : SyncOne(i)
  BY <1>1, <1>6 DEF SyncBegin, SyncEnd, SyncOne, vars
<1>7. CASE \E c \in Workers : \/ \E r \in Records : DeleteBegin(c, r)
                              \/ AddDuplicate(c) \/ AddRow(c) \/ AddFts(c) \/ AddVec(c)
                              \/ FtsLocked(c) \/ DeleteMiss(c) \/ DeleteRow(c)
                              \/ DeleteFts(c) \/ DeleteVec(c) \/ Search(c)
  BY <1>1, <1>7 DEF DeleteBegin, AddDuplicate, AddRow, AddFts, AddVec, FtsLocked, DeleteMiss,
              DeleteRow, DeleteFts, DeleteVec, Search, CacheUnchanged, vars
<1>8. CASE UNCHANGED hvars
  BY <1>1, <1>8 DEF hvars, vars, handleVars
<1>9. QED
  BY <1>2, <1>3, <1>4, <1>5, <1>6, <1>7, <1>8 DEF HNext, WorkerStep

MapInv == HInv /\ AllInv /\ MapIsOpenShards

LEMMA MapInvStep ==
    ASSUME NEW d, SingleWidth(d), MapInv, [HNext]_hvars PROVE MapInv' /\ KeysKept
<1>1. HInv' /\ KeysKept
  BY HNextInv DEF MapInv
<1>2. AllInv'
  <2>1. [Next]_vars
    BY StepMaps DEF MapInv
  <2>2. d \in WholeSeconds /\ duration = d /\ duration' = duration
    BY <2>1 DEF SingleWidth, MapInv, AllInv, CacheInv, Next, vars, Lookup, SpanStart, SpanStep,
                SpanReturn, Close, Restart
  <2>3. QED
    BY <2>1, <2>2, NextInv DEF MapInv
<1>3. MapIsOpenShards'
  BY <1>1, MapStep DEF MapInv, AllInv
<1>4. QED
  BY <1>1, <1>2, <1>3 DEF MapInv

LEMMA MapInit == HInit => MapInv
<1> SUFFICES ASSUME HInit PROVE MapInv
  OBVIOUS
<1>1. AllInv
  BY InitInv DEF HInit
<1>2. MapIsOpenShards
  BY DEF HInit, Init, MapIsOpenShards
<1>3. QED
  BY <1>1, <1>2, HInitInv DEF MapInv

-----------------------------------------------------------------------------
(* What is found, where no shard is ever closed before the process stops.  *)
(* The limit is then enough for all intervals, a cached shard has the only *)
(* instance of its directory, and the index writer is never locked.        *)

\* The width, where there is one.
Width == CHOOSE d \in Durations : TRUE

TimeSlots == {align_to_duration(t, Width) : t \in Times}

\* Every interval fits in the cache, nobody deletes a record that is being
\* added, close() is not called and every stop is an orderly one.
Roomy ==
    /\ SingleWidth(Width)
    /\ IsFiniteSet(TimeSlots) /\ Cardinality(TimeSlots) <= Limit
    /\ Kinds \subseteq {"add", "batch", "delete", "search"}
    /\ Events \subseteq {"sync", "stop"}

Home(r) == align_to_duration(TimeOf[r], Width)
At(r) == <<Home(r), r>>

\* An instance has vectors of its own shard only.
OwnKeys == \A i \in Instances : \A e \in inst[i].vec : e[1] = inst[i].key

\* Whoever has a handle has that of a cached instance.
HandlesInv ==
    /\ Held(work, syncing) \subseteq cached \cup {NoHandle}
    /\ syncing.todo \subseteq syncing.held
    /\ OwnKeys

\* Records are kept, and put, in the shard of their timestamp.
HomeInv ==
    /\ \A e \in rows \cup Indexed : e[1] = Home(e[2])
    /\ \A e \in rows : e[1] \in catalog
    /\ \A c \in Workers : work[c].pc \in {"row", "fts", "vec"} =>
          Key(c) = Home(work[c].rec) /\ Key(c) \in catalog

LEMMA RoomFacts ==
    ASSUME Roomy, MapInv
    PROVE  /\ duration = Width /\ Width \in WholeSeconds /\ Width \in Nat \ {0}
           /\ catalog \subseteq TimeSlots
           /\ \A r \in catalog : align_to_duration(r[1], Width) = r
           /\ CacheInv
<1>1. duration = Width /\ Width \in WholeSeconds /\ Width \in Nat \ {0} /\ CacheInv
  BY DEF Roomy, SingleWidth, MapInv, AllInv, CacheInv, WholeSeconds
<1>2. ASSUME NEW r \in catalog PROVE r[1] \in Times /\ align_to_duration(r[1], Width) = r
  <2>1. PICK t \in Nat : r = align_to_duration(t, Width)
    BY <1>1 DEF CacheInv, Slots
  <2>2. align_to_duration(r[1], Width) = r
    BY <1>1, <2>1, SlotArithmetic
  <2>3. QED
    BY <2>2 DEF MapInv, HInv, Typed, CacheTyped
<1>3. catalog \subseteq TimeSlots
  BY <1>2 DEF TimeSlots
<1>4. QED
  BY <1>1, <1>2, <1>3

\* There is room for every shard: inserting one evicts none.
LEMMA InsertHasRoom ==
    ASSUME Roomy, MapInv, NEW key \in TimeSlots, key \notin open, Insert(key)
    PROVE  open' = open \cup {key}
<1> DEFINE keys == open \cup {key}
           list == <<key>> \o lru
<1>1. open \subseteq TimeSlots /\ CacheInv
  BY RoomFacts DEF CacheInv
<1>2. Cardinality(keys) <= Limit
  <2>1. keys \subseteq TimeSlots
    BY <1>1
  <2>2. Cardinality(keys) <= Cardinality(TimeSlots) /\ IsFiniteSet(keys)
    BY <2>1, FS_Subset DEF Roomy
  <2>3. Cardinality(keys) \in Nat /\ Cardinality(TimeSlots) \in Nat /\ Limit \in Nat
    BY <2>2, FS_CardinalityType, LimitType DEF Roomy
  <2> HIDE DEF keys
  <2>4. QED
    BY <2>2, <2>3 DEF Roomy
<1>3. key \in Interval
  BY RoomFacts, CacheAssumption, SlotArithmetic DEF TimeSlots
<1>4. list \in Seq(Interval) /\ Len(list) \in Nat
  BY <1>1, <1>3 DEF CacheInv
<1> HIDE DEF keys, list
<1>5. LastKeys(list, 0) = {}
  BY <1>4 DEF LastKeys
<1> DEFINE Stops(m) == m = Len(list) \/ Cardinality(keys \ LastKeys(list, m)) <= Limit
           P(m) == Stops(m) /\ \A k \in 0..(m - 1) : ~Stops(k)
<1>6. Stops(0)
  <2>1. keys \ LastKeys(list, 0) = keys
    BY <1>5
  <2>2. QED
    BY <1>2, <2>1
<1> HIDE DEF Stops
<1>7. \A m \in 0..Len(list) : P(m) <=> m = 0
  BY <1>4, <1>6
<1>8. Evictions(keys, list) = CHOOSE m \in 0..Len(list) : P(m)
  BY DEF Evictions, Stops
<1> HIDE DEF P
<1>9. Evictions(keys, list) = 0
  BY <1>4, <1>7, <1>8
<1>10. open' = keys \ LastKeys(list, 0)
  BY <1>9 DEF Insert, keys, list
<1>11. QED
  BY <1>5, <1>10 DEF keys

\* The instances of the cache are what a settled step leaves as they were.
LEMMA CachedSettled ==
    ASSUME NEW next \in [Instances -> Instance], Settle(next), cached' \subseteq Instances
    PROVE  \A i \in cached' : inst'[i] = next[i]
BY Settled DEF Live

\* Worker c gets a handle: that of the instance cached for its interval, or
\* of one that is cached now.
Takes(c, t, next, i) ==
    /\ work' = [work EXCEPT ![c] = [next EXCEPT !.inst = i]]
    /\ i \in cached' /\ cached \subseteq cached' /\ cached' \subseteq cached \cup {i}
    /\ inst'[i].key = align_to_duration(t, Width)
    /\ \A j \in cached : inst'[j] = inst[j]
    /\ saved' = saved
    /\ i \notin cached => inst'[i].vec = {} /\ ~inst'[i].loaded
                          /\ \A j \in cached : inst[j].key # inst'[i].key
    /\ align_to_duration(t, Width) \in catalog'
    /\ catalog \subseteq catalog'
    /\ UNCHANGED <<duration, syncing, rows, fts>>

\* A call of shard() in the room there is.
LEMMA RoomAcquire ==
    ASSUME Roomy, MapInv, NEW c \in Workers, NEW t \in Times, NEW next,
           Acquire(c, t, next)
    PROVE  \E i \in Instances : Takes(c, t, next, i)
<1>1. PICK key \in Candidates(t), i \in Instances :
         /\ work' = [work EXCEPT ![c] = [next EXCEPT !.inst = i]]
         /\ GetHit(t, key, i) \/ GetOpen(t, key, i)
  BY DEF Acquire
<1>2. UNCHANGED <<duration, syncing, rows, fts>>
  BY DEF Acquire
<1>3. duration = Width /\ Width \in WholeSeconds /\ CacheInv /\ t \in Nat
  BY RoomFacts, CacheAssumption
<1>4. shard(t, key)
  BY <1>1 DEF GetHit, GetOpen, shard
<1>5. CacheInv' /\ key = align_to_duration(t, Width) /\ key \in open' /\ catalog \subseteq catalog'
  BY <1>2, <1>3, <1>4, LookupStep
<1>6. key \in catalog'
  BY <1>5 DEF CacheInv
<1>7. inst \in [Instances -> Instance] /\ cached \subseteq Instances
      /\ open = {inst[j].key : j \in cached}
  BY DEF MapInv, HInv, InstInv, MapIsOpenShards
<1>8. CASE GetHit(t, key, i)
  <2>1. i \in cached /\ inst[i].key = key /\ cached' = cached /\ saved' = saved /\ Settle(inst)
    BY <1>8 DEF GetHit
  <2>2. \A j \in cached : inst'[j] = inst[j]
    BY <1>7, <2>1, CachedSettled
  <2>3. QED
    BY <1>1, <1>2, <1>5, <1>6, <2>1, <2>2 DEF Takes
<1>9. CASE GetOpen(t, key, i)
  <2> DEFINE new == [inst EXCEPT ![i] = [NoInstance EXCEPT !.key = key]]
  <2>1. /\ CatalogHit(t, key) \/ AutoCreate(t, key)
        /\ i \in Instances \ Live
        /\ cached' = {j \in cached : inst[j].key \in open' \ {key}} \cup {i}
        /\ saved' = Synced({j \in cached : inst[j].key \notin open'})
        /\ Settle(new)
    BY <1>9 DEF GetOpen, NewInstance
  <2>2. key \notin open /\ Insert(key)
    <3>1. key \notin open
      BY <1>2, <1>3, <2>1, MissBringsKey DEF Roomy
    <3>2. QED
      BY <2>1, <3>1 DEF CatalogHit, AutoCreate
  <2>3. open' = open \cup {key}
    BY <1>5, <2>2, InsertHasRoom DEF TimeSlots
  <2>4. i \notin cached /\ cached' = cached \cup {i}
    BY <1>7, <2>1, <2>2, <2>3 DEF Live
  <2>5. {j \in cached : inst[j].key \notin open'} = {}
    BY <1>7, <2>3
  <2>6. saved' = saved
    BY <2>1, <2>5 DEF Synced
  <2>7. /\ [NoInstance EXCEPT !.key = key] \in Instance
        /\ [NoInstance EXCEPT !.key = key].key = key
        /\ [NoInstance EXCEPT !.key = key].vec = {}
        /\ ~[NoInstance EXCEPT !.key = key].loaded
    <3>1. key \in Interval
      BY <1>3, <1>5, SlotArithmetic
    <3>2. QED
      BY <3>1 DEF NoInstance, Instance
  <2>8. new \in [Instances -> Instance]
    BY <1>7, <2>7
  <2>9. \A j \in cached' : inst'[j] = new[j]
    <3> HIDE DEF new
    <3>1. QED
      BY <1>7, <2>1, <2>4, <2>8, CachedSettled
  <2>10. \A j \in cached : inst'[j] = inst[j]
    BY <1>7, <2>4, <2>9
  <2>11. inst'[i] = [NoInstance EXCEPT !.key = key]
    BY <1>7, <2>1, <2>4, <2>9
  <2>12. \A j \in cached : inst[j].key # key
    BY <1>7, <2>2
  <2>13. QED
    BY <1>1, <1>2, <1>5, <1>6, <2>4, <2>6, <2>7, <2>10, <2>11, <2>12 DEF Takes
<1>10. QED
  BY <1>1, <1>8, <1>9

-----------------------------------------------------------------------------
(* What a new handle would find by vector. *)

\* The cached instance of a shard answers for it.
LEMMA ViewOf ==
    ASSUME MapIsOpenShards, NEW i \in cached, NEW e, e[1] = inst[i].key
    PROVE  FoundByVector(e) <=> e \in Vectors(i)
BY DEF MapIsOpenShards, FoundByVector

LEMMA ViewStays ==
    ASSUME NEW e, cached' = cached, saved' = saved,
           \A i \in cached : /\ inst'[i].key = inst[i].key
                             /\ inst'[i].loaded = inst[i].loaded
                             /\ inst'[i].vec = inst[i].vec
    PROVE  FoundByVector(e)' <=> FoundByVector(e)
BY DEF FoundByVector, Vectors

\* Opening a shard changes nothing that is found.
LEMMA ViewOpens ==
    ASSUME NEW e, NEW i, cached \subseteq cached', cached' \subseteq cached \cup {i},
           saved' = saved,
           \A j \in cached : inst'[j] = inst[j],
           i \notin cached => /\ inst'[i].vec = {} /\ ~inst'[i].loaded
                              /\ \A j \in cached : inst[j].key # inst'[i].key
    PROVE  FoundByVector(e)' <=> FoundByVector(e)
<1>1. \A j \in cached : (j \in cached') /\ (e \in Vectors(j)' <=> e \in Vectors(j))
  BY DEF Vectors
<1>2. i \notin cached /\ e[1] = inst'[i].key => (e \in Vectors(i)' <=> e \in saved)
  BY DEF Vectors
<1>3. CASE \E j \in cached : inst[j].key = e[1]
  BY <1>1, <1>3 DEF FoundByVector
<1>4. CASE ~ \E j \in cached : inst[j].key = e[1]
  BY <1>1, <1>2, <1>4 DEF FoundByVector
<1>5. QED
  BY <1>3, <1>4

\* A vector call through the handle of a cached instance.
LEMMA ViewHolds ==
    ASSUME MapInv, MapIsOpenShards', NEW c \in Workers, work[c].inst \in cached,
           NEW es \in SUBSET Entry, Settle(VecHolds(c, es)),
           cached' = cached, saved' = saved, NEW e
    PROVE  /\ e[1] = Key(c) => (FoundByVector(e)' <=> e \in es)
           /\ e[1] # Key(c) => (FoundByVector(e)' <=> FoundByVector(e))
<1>0. PICK k \in cached : k = work[c].inst
  OBVIOUS
<1> DEFINE next == VecHolds(c, es)
           held == [[inst[k] EXCEPT !.loaded = TRUE] EXCEPT !.vec = es]
<1>1. inst \in [Instances -> Instance] /\ cached \subseteq Instances /\ k \in cached
  BY DEF MapInv, HInv, InstInv
<1>2. /\ held \in Instance
      /\ held.key = inst[k].key /\ held.loaded /\ held.vec = es
  BY <1>1 DEF Instance
<1>3. next = [inst EXCEPT ![k] = held]
  BY <1>0, <1>1 DEF VecHolds
<1> HIDE DEF held
<1>4. next \in [Instances -> Instance]
  BY <1>1, <1>2, <1>3
<1> HIDE DEF next
<1>5. \A i \in cached : inst'[i] = next[i]
  BY <1>1, <1>4, CachedSettled DEF next
<1>6. inst'[k] = held /\ \A i \in cached \ {k} : inst'[i] = inst[i]
  BY <1>1, <1>3, <1>5
<1>7. \A i \in cached : inst'[i].key = inst[i].key
  BY <1>2, <1>6
<1>8. \A i \in cached : inst[i].key = inst[k].key => i = k
  BY <1>1 DEF MapInv, MapIsOpenShards
<1>9. Key(c) = inst[k].key
  BY <1>0 DEF Key
<1>10. CASE e[1] = inst[k].key
  <2>1. FoundByVector(e)' <=> e \in Vectors(k)'
    BY <1>1, <1>7, <1>8, <1>10 DEF FoundByVector
  <2>2. QED
    BY <1>2, <1>6, <1>9, <1>10, <2>1 DEF Vectors
<1>11. CASE e[1] # inst[k].key
  BY <1>6, <1>7, <1>9, <1>11 DEF FoundByVector, Vectors
<1>12. QED
  BY <1>9, <1>10, <1>11

\* Writing the files of cached instances, or of all of them before a stop.
LEMMA ViewSynced ==
    ASSUME MapInv, OwnKeys, NEW is \in SUBSET cached, saved' = Synced(is), NEW e,
           \/ cached' = cached /\ \A i \in cached : inst'[i] = inst[i]
           \/ cached' = {} /\ is = cached
    PROVE  FoundByVector(e)' <=> FoundByVector(e)
<1>1. cached \subseteq Instances
      /\ \A i, j \in cached : inst[i].key = inst[j].key => i = j
  BY DEF MapInv, HInv, InstInv, MapIsOpenShards
<1>2. \A i \in cached : \A x \in inst[i].vec : x[1] = inst[i].key
  BY <1>1 DEF OwnKeys
<1>3. ASSUME NEW i \in is, inst[i].loaded, inst[i].key = e[1]
      PROVE  e \in saved' <=> e \in inst[i].vec
  BY <1>1, <1>2, <1>3 DEF Synced
<1>4. ASSUME \A i \in is : inst[i].loaded => inst[i].key # e[1]
      PROVE  e \in saved' <=> e \in saved
  BY <1>1, <1>2, <1>4 DEF Synced
<1>5. CASE cached' = cached /\ \A i \in cached : inst'[i] = inst[i]
  <2>1. CASE \E i \in cached : inst[i].key = e[1]
    <3>1. PICK i \in cached : inst[i].key = e[1]
      BY <2>1
    <3>2. FoundByVector(e)' <=> e \in Vectors(i)'
      BY <1>1, <1>5, <3>1 DEF FoundByVector
    <3>3. FoundByVector(e) <=> e \in Vectors(i)
      BY <1>1, <3>1 DEF FoundByVector
    <3>4. CASE inst[i].loaded
      BY <1>5, <3>2, <3>3, <3>4 DEF Vectors
    <3>5. CASE ~inst[i].loaded
      <4>1. \A j \in is : inst[j].loaded => inst[j].key # e[1]
        BY <1>1, <3>1, <3>5
      <4>2. e \in saved' <=> e \in saved
        BY <1>4, <4>1
      <4>3. QED
        BY <1>5, <3>1, <3>2, <3>3, <3>5, <4>2 DEF Vectors
    <3>6. QED
      BY <3>4, <3>5
  <2>2. CASE ~ \E i \in cached : inst[i].key = e[1]
    <3>1. e \in saved' <=> e \in saved
      BY <1>4, <2>2
    <3>2. QED
      BY <1>5, <2>2, <3>1 DEF FoundByVector
  <2>3. QED
    BY <2>1, <2>2
<1>6. CASE cached' = {} /\ is = cached
  <2>1. FoundByVector(e)' <=> e \in saved'
    BY <1>6 DEF FoundByVector
  <2>2. CASE \E i \in cached : inst[i].key = e[1]
    <3>1. PICK i \in cached : inst[i].key = e[1]
      BY <2>2
    <3>2. FoundByVector(e) <=> e \in Vectors(i)
      BY <1>1, <3>1 DEF FoundByVector
    <3>3. CASE inst[i].loaded
      BY <1>3, <1>6, <2>1, <3>1, <3>2, <3>3 DEF Vectors
    <3>4. CASE ~inst[i].loaded
      <4>1. \A j \in is : inst[j].loaded => inst[j].key # e[1]
        BY <1>1, <3>1, <3>4
      <4>2. e \in saved' <=> e \in saved
        BY <1>4, <4>1
      <4>3. QED
        BY <2>1, <3>1, <3>2, <3>4, <4>2 DEF Vectors
    <3>5. QED
      BY <3>3, <3>4
  <2>3. CASE ~ \E i \in cached : inst[i].key = e[1]
    <3>1. e \in saved' <=> e \in saved
      BY <1>4, <2>3
    <3>2. QED
      BY <2>1, <2>3, <3>1 DEF FoundByVector
  <2>4. QED
    BY <2>2, <2>3
<1>7. QED
  BY <1>5, <1>6

-----------------------------------------------------------------------------
(* The invariants of the handles. *)

AddPcs == {"row", "fts", "vec"}

LEMMA KeyStays ==
    ASSUME KeysKept, NEW c \in Workers, work[c].inst \in Instances,
           work'[c].inst = work[c].inst
    PROVE  Key(c)' = Key(c)
<1>1. work[c].inst \in Live /\ work'[c].inst \in Live'
  BY DEF Live, Held
<1>2. QED
  BY <1>1 DEF KeysKept, Key

\* An engine call changes the vectors of its own instance only.
LEMMA EngineMem ==
    ASSUME HInv, NEW c \in Workers, NEW es \in SUBSET Entry, EngineCall(c, es),
           work[c].inst \in Instances \/ Settle(inst), NEW i \in Instances
    PROVE  \/ inst'[i].vec = {}
           \/ /\ inst'[i].key = inst[i].key
              /\ inst'[i].vec \subseteq inst[i].vec \/ (i = work[c].inst /\ inst'[i].vec = es)
<1>1. inst \in [Instances -> Instance] /\ NoInstance.vec = {}
  BY DEF HInv, InstInv, NoInstance
<1>2. CASE Settle(inst)
  <2>1. inst'[i] = inst[i] \/ inst'[i] = NoInstance
    BY <1>1, <1>2, Settled
  <2>2. QED
    BY <1>1, <2>1
<1>3. CASE work[c].inst \in Instances /\ Settle(FtsOpened(c))
  <2> DEFINE next == FtsOpened(c)
  <2>1. next \in [Instances -> Instance]
        /\ next[i].key = inst[i].key /\ next[i].vec = inst[i].vec
    BY <1>1, <1>3 DEF FtsOpened, Instance
  <2> HIDE DEF next
  <2>2. inst'[i] = next[i] \/ inst'[i] = NoInstance
    BY <1>3, <2>1, Settled DEF next
  <2>3. QED
    BY <1>1, <2>1, <2>2
<1>4. CASE work[c].inst \in Instances /\ Settle(VecHolds(c, es))
  <2>0. PICK k \in Instances : k = work[c].inst
    BY <1>4
  <2> DEFINE next == VecHolds(c, es)
             held == [[inst[k] EXCEPT !.loaded = TRUE] EXCEPT !.vec = es]
  <2>1. held \in Instance /\ held.key = inst[k].key /\ held.vec = es
    BY <1>1 DEF Instance
  <2>2. next = [inst EXCEPT ![k] = held]
    BY <1>1, <2>0 DEF VecHolds
  <2> HIDE DEF held
  <2>3. next \in [Instances -> Instance] /\ next[k] = held /\ (i # k => next[i] = inst[i])
    BY <1>1, <2>1, <2>2
  <2> HIDE DEF next
  <2>4. inst'[i] = next[i] \/ inst'[i] = NoInstance
    BY <1>4, <2>3, Settled DEF next
  <2>5. QED
    BY <1>1, <2>0, <2>1, <2>3, <2>4
<1>5. QED
  BY <1>2, <1>3, <1>4 DEF EngineCall

\* A step of a call that has its handle.  X is what it stores or indexes.
LEMMA CallRoom ==
    ASSUME HInv, HandlesInv, HomeInv, KeysKept, NEW c \in Workers, NEW w \in Work,
           work' = [work EXCEPT ![c] = w],
           w.inst \in {work[c].inst, NoHandle},
           w.pc \in AddPcs => /\ work[c].pc \in AddPcs
                              /\ w.inst = work[c].inst /\ w.rec = work[c].rec,
           CacheUnchanged, saved' = saved,
           NEW X, X = {} \/ (X = {Doc(c)} /\ work[c].pc \in AddPcs),
           NEW es \in SUBSET Entry, EngineCall(c, es),
           work[c].inst \in Instances \/ Settle(inst),
           es \subseteq {e \in Indexed \cup X : e[1] = Key(c)},
           rows' \subseteq rows \cup X, fts' \subseteq fts \cup X
    PROVE  HandlesInv' /\ HomeInv'
<1>1. cached' = cached /\ syncing' = syncing /\ catalog' = catalog
  BY DEF CacheUnchanged, vars
<1>2. /\ Held(work', syncing') \subseteq cached' \cup {NoHandle}
      /\ \A b \in Workers \ {c} : work'[b] = work[b]
      /\ work'[c] = w
  BY <1>1, WorkGoes DEF HInv, HandlesInv, OwnKeys
<1>3. ASSUME NEW i \in Instances, NEW e \in inst'[i].vec PROVE e[1] = inst'[i].key
  <2>1. /\ inst'[i].key = inst[i].key
        /\ inst'[i].vec \subseteq inst[i].vec \/ (i = work[c].inst /\ inst'[i].vec = es)
    BY <1>3, EngineMem
  <2>2. CASE inst'[i].vec \subseteq inst[i].vec
    BY <1>3, <2>1, <2>2 DEF HandlesInv, OwnKeys
  <2>3. CASE i = work[c].inst /\ inst'[i].vec = es
    BY <1>3, <2>1, <2>3 DEF Key
  <2>4. QED
    BY <2>1, <2>2, <2>3
<1>4. HandlesInv'
  BY <1>1, <1>2, <1>3 DEF HandlesInv, OwnKeys
<1>5. Indexed' \subseteq Indexed \cup X
  <2>1. \A i \in Instances : inst[i].vec \subseteq Indexed
    BY DEF Indexed
  <2>2. \A i \in Instances : inst'[i].vec \subseteq Indexed \cup X
    <3>1. TAKE i \in Instances
    <3>2. inst'[i].vec \subseteq inst[i].vec \/ inst'[i].vec \subseteq es
      BY EngineMem
    <3>3. QED
      BY <2>1, <3>2
  <2>3. QED
    BY <2>2, IndexedFrom
<1>6. \A e \in X : e[1] = Home(e[2]) /\ e[1] \in catalog
  BY DEF AddPcs, HomeInv, Doc
<1>7. ASSUME NEW b \in Workers, work'[b].pc \in AddPcs
      PROVE  Key(b)' = Home(work'[b].rec) /\ Key(b)' \in catalog'
  <2>1. work[b].pc \in AddPcs /\ work'[b].inst = work[b].inst /\ work'[b].rec = work[b].rec
    BY <1>2, <1>7
  <2>2. work[b].inst \in Instances
    BY <2>1, ByPc DEF HInv, AddPcs
  <2>3. Key(b)' = Key(b)
    BY <2>1, <2>2, KeyStays
  <2>4. QED
    BY <1>1, <2>1, <2>3 DEF HomeInv, AddPcs
<1>8. HomeInv'
  <2>1. \A e \in rows' \cup Indexed' : e[1] = Home(e[2])
    BY <1>5, <1>6 DEF HomeInv
  <2>2. \A e \in rows' : e[1] \in catalog'
    BY <1>1, <1>6 DEF HomeInv
  <2>3. QED
    BY <1>7, <2>1, <2>2 DEF HomeInv, Home, AddPcs
<1>9. QED
  BY <1>4, <1>8

\* A step that stores and indexes nothing, and works on no vectors.
LEMMA PlainRoom ==
    ASSUME HInv, HandlesInv, HomeInv, KeysKept, NEW c \in Workers, NEW w \in Work,
           work' = [work EXCEPT ![c] = w],
           w.inst \in {work[c].inst, NoHandle}, w.pc \notin AddPcs,
           CacheUnchanged, saved' = saved,
           \/ Settle(inst)
           \/ work[c].inst \in Instances /\ CanOpenFts(work[c].inst) /\ Settle(FtsOpened(c)),
           rows' \subseteq rows, fts' \subseteq fts
    PROVE  HandlesInv' /\ HomeInv'
<1>1. EngineCall(c, {}) /\ (work[c].inst \in Instances \/ Settle(inst))
  BY DEF EngineCall
<1>2. /\ {} \in SUBSET Entry
      /\ {} \subseteq {e \in Indexed \cup {} : e[1] = Key(c)}
      /\ rows' \subseteq rows \cup {} /\ fts' \subseteq fts \cup {}
  OBVIOUS
<1>3. QED
  BY <1>1, <1>2, CallRoom

\* A step that takes a handle.
LEMMA AcquireRoom ==
    ASSUME Roomy, MapInv, HInv', HandlesInv, HomeInv, KeysKept, NEW c \in Workers,
           NEW t \in Times, NEW next, Acquire(c, t, next),
           ASSUME NEW i \in Instances
           PROVE  /\ [next EXCEPT !.inst = i].inst = i
                  /\ [next EXCEPT !.inst = i].pc \in AddPcs =>
                        align_to_duration(t, Width) = Home([next EXCEPT !.inst = i].rec)
    PROVE  HandlesInv' /\ HomeInv'
<1>0. PICK i \in Instances : Takes(c, t, next, i)
  BY RoomAcquire
<1>1. /\ work' = [work EXCEPT ![c] = [next EXCEPT !.inst = i]]
      /\ i \in cached' /\ cached \subseteq cached' /\ cached' \subseteq cached \cup {i}
      /\ inst'[i].key = align_to_duration(t, Width)
      /\ \A j \in cached : inst'[j] = inst[j]
      /\ saved' = saved
      /\ i \notin cached => inst'[i].vec = {} /\ ~inst'[i].loaded
                            /\ \A j \in cached : inst[j].key # inst'[i].key
      /\ align_to_duration(t, Width) \in catalog'
      /\ catalog \subseteq catalog'
      /\ UNCHANGED <<duration, syncing, rows, fts>>
  BY <1>0 DEF Takes
<1> DEFINE w == [next EXCEPT !.inst = i]
<1>2. w.inst = i /\ (w.pc \in AddPcs => align_to_duration(t, Width) = Home(w.rec))
  OBVIOUS
<1>3. work' = [work EXCEPT ![c] = w]
  BY <1>1
<1> HIDE DEF w
<1>4. work'[c] = w /\ \A b \in Workers \ {c} : work'[b] = work[b]
  BY <1>3 DEF MapInv, HInv, Typed
<1>5. Held(work', syncing') \subseteq cached' \cup {NoHandle}
  BY <1>1, <1>2, <1>4 DEF HandlesInv, OwnKeys, Held
<1>6. ASSUME NEW j \in Instances
      PROVE  inst'[j].vec = {} \/ (inst'[j] = inst[j] /\ inst'[j].vec \subseteq inst[j].vec)
  <2>1. CASE j \in cached
    BY <1>1, <2>1
  <2>2. CASE j \notin cached /\ j = i
    BY <1>1, <2>2
  <2>3. CASE j \notin cached /\ j # i
    <3>1. j \notin Live'
      BY <1>1, <1>5, <2>3, HandleAssumption DEF Live
    <3>2. inst'[j] = NoInstance
      BY <3>1 DEF HInv, InstInv
    <3>3. QED
      BY <3>2 DEF NoInstance
  <2>4. QED
    BY <2>1, <2>2, <2>3
<1>7. HandlesInv'
  <2>1. \A j \in Instances : \A e \in inst'[j].vec : e[1] = inst'[j].key
    BY <1>6 DEF HandlesInv, OwnKeys
  <2>2. QED
    BY <1>1, <1>5, <2>1 DEF HandlesInv, OwnKeys
<1>8. Indexed' \subseteq Indexed \cup {}
  <2>1. \A j \in Instances : inst[j].vec \subseteq Indexed
    BY DEF Indexed
  <2>2. \A j \in Instances : inst'[j].vec \subseteq Indexed \cup {}
    BY <1>6, <2>1
  <2>3. QED
    BY <1>1, <2>2, IndexedFrom
<1>9. ASSUME NEW b \in Workers, work'[b].pc \in AddPcs
      PROVE  Key(b)' = Home(work'[b].rec) /\ Key(b)' \in catalog'
  <2>1. CASE b = c
    <3>1. Key(c)' = inst'[i].key
      BY <1>2, <1>4 DEF Key
    <3>2. QED
      BY <1>1, <1>2, <1>4, <1>9, <2>1, <3>1
  <2>2. CASE b # c
    <3>1. work'[b] = work[b]
      BY <1>4, <2>2
    <3>2. work[b].inst \in Instances
      BY <1>9, <3>1, ByPc DEF MapInv, HInv, AddPcs
    <3>3. Key(b)' = Key(b)
      BY <3>1, <3>2, KeyStays
    <3>4. QED
      BY <1>1, <1>9, <3>1, <3>3 DEF HomeInv, AddPcs
  <2>3. QED
    BY <2>1, <2>2
<1>10. HomeInv'
  <2>1. \A e \in rows' \cup Indexed' : e[1] = Home(e[2])
    BY <1>1, <1>8 DEF HomeInv
  <2>2. \A e \in rows' : e[1] \in catalog'
    BY <1>1 DEF HomeInv
  <2>3. QED
    BY <1>9, <2>1, <2>2 DEF HomeInv, Home, AddPcs
<1>11. QED
  BY <1>7, <1>10

-----------------------------------------------------------------------------
(* The invariant of a record. *)

DeletePcs == {"visit", "look", "drop", "unvec"}

Adds(c, r)    == work[c].pc \in AddPcs /\ work[c].rec = r
Deletes(c, r) == work[c].pc \in DeletePcs /\ work[c].rec = r

\* Worker c has still to index r by text, and by meaning.
OwesFts(c, r) == Adds(c, r) /\ (work[c].pc = "fts" \/ (work[c].pc = "vec" /\ work[c].kind = "batch"))
OwesVec(c, r) == Adds(c, r) /\ (work[c].pc = "vec" \/ (work[c].pc = "fts" /\ work[c].kind = "add"))

\* How far the deletion of r by c is: it will come to the shard that has the
\* row, is there, or has taken the row and the text away.
DeletionInv(c, r) ==
    /\ work[c].pc \in {"visit", "look"} =>
          /\ At(r) \in rows
          /\ Home(r) \in work[c].todo \/ (work[c].pc = "look" /\ Key(c) = Home(r))
    /\ work[c].pc \in {"drop", "unvec"} => Key(c) = Home(r)
    /\ work[c].pc = "unvec" => At(r) \notin fts

RecordInv(r) ==
    /\ r \in acked => r \notin deleted /\ At(r) \in rows
    /\ \A c \in Workers : OwesFts(c, r) \/ OwesVec(c, r) => At(r) \in rows
    /\ r \in deleted =>
          /\ \A c \in Workers : ~Adds(c, r)
          /\ \/ \E c \in Workers : Deletes(c, r)
             \/ At(r) \notin fts /\ ~FoundByVector(At(r))
    /\ r \notin deleted =>
          /\ \A c \in Workers : ~Deletes(c, r)
          /\ At(r) \in rows =>
                /\ At(r) \in fts \/ \E c \in Workers : OwesFts(c, r)
                /\ FoundByVector(At(r)) \/ \E c \in Workers : OwesVec(c, r)
    /\ \A b, c \in Workers : Deletes(b, r) /\ Deletes(c, r) => b = c
    /\ \A c \in Workers : Deletes(c, r) => DeletionInv(c, r)

FoundInv == HandlesInv /\ HomeInv /\ \A r \in Records : RecordInv(r)

RoomInv == MapInv /\ FoundInv

\* What a worker that does nothing has to do with a record stays so.
LEMMA WorkerStays ==
    ASSUME HInv, KeysKept, NEW b \in Workers, NEW r \in Records, work'[b] = work[b]
    PROVE  /\ Adds(b, r)' <=> Adds(b, r)
           /\ Deletes(b, r)' <=> Deletes(b, r)
           /\ OwesFts(b, r)' <=> OwesFts(b, r)
           /\ OwesVec(b, r)' <=> OwesVec(b, r)
           /\ Deletes(b, r) /\ DeletionInv(b, r)
                /\ (At(r) \in rows => At(r) \in rows') /\ (At(r) \in fts' => At(r) \in fts)
              => DeletionInv(b, r)'
<1>1. Adds(b, r)' <=> Adds(b, r)
  BY DEF Adds
<1>2. OwesFts(b, r)' <=> OwesFts(b, r)
  BY <1>1 DEF OwesFts
<1>3. OwesVec(b, r)' <=> OwesVec(b, r)
  BY <1>1 DEF OwesVec
<1>4. Deletes(b, r)' <=> Deletes(b, r)
  BY DEF Deletes
<1>5. ASSUME Deletes(b, r), DeletionInv(b, r), At(r) \in rows => At(r) \in rows',
             At(r) \in fts' => At(r) \in fts
      PROVE  DeletionInv(b, r)'
  <2>1. work[b].pc # "visit" => Key(b)' = Key(b)
    <3>1. work[b].pc # "visit" => work[b].inst \in Instances
      BY <1>5, ByPc DEF Deletes, DeletePcs, HInv
    <3>2. QED
      BY <3>1, KeyStays
  <2>2. QED
    BY <1>5, <2>1 DEF DeletionInv, At, Home
<1>6. QED
  BY <1>1, <1>2, <1>3, <1>4, <1>5

\* A record nobody touches.
LEMMA RecordStays ==
    ASSUME HInv, KeysKept, NEW r \in Records, RecordInv(r),
           At(r) \in rows' <=> At(r) \in rows,
           At(r) \in fts' <=> At(r) \in fts,
           FoundByVector(At(r))' <=> FoundByVector(At(r)),
           r \in acked' <=> r \in acked,
           r \in deleted' <=> r \in deleted,
           \A c \in Workers :
              \/ work'[c] = work[c]
              \/ ~Adds(c, r) /\ ~Deletes(c, r) /\ ~Adds(c, r)' /\ ~Deletes(c, r)'
    PROVE  RecordInv(r)'
<1>1. \A c \in Workers :
         /\ Adds(c, r)' <=> Adds(c, r)
         /\ Deletes(c, r)' <=> Deletes(c, r)
         /\ OwesFts(c, r)' <=> OwesFts(c, r)
         /\ OwesVec(c, r)' <=> OwesVec(c, r)
         /\ Deletes(c, r) /\ DeletionInv(c, r) => DeletionInv(c, r)'
  <2>1. TAKE c \in Workers
  <2>2. CASE work'[c] = work[c]
    BY <2>2, WorkerStays
  <2>3. CASE ~Adds(c, r) /\ ~Deletes(c, r) /\ ~Adds(c, r)' /\ ~Deletes(c, r)'
    BY <2>3 DEF OwesFts, OwesVec
  <2>4. QED
    BY <2>2, <2>3
<1>2. QED
  BY <1>1 DEF RecordInv, At, Home

\* A step of an add of r: what is stored is indexed or owed.
LEMMA AddProgress ==
    ASSUME HInv, KeysKept, NEW c \in Workers, \A b \in Workers \ {c} : work'[b] = work[b],
           NEW r \in Records, RecordInv(r), r \notin deleted, r \notin deleted',
           ~Deletes(c, r)',
           r \in acked' => r \in acked \/ At(r) \in rows,
           At(r) \in rows => At(r) \in rows',
           At(r) \in rows' => At(r) \in rows \/ (OwesFts(c, r)' /\ OwesVec(c, r)'),
           OwesFts(c, r)' \/ OwesVec(c, r)' => At(r) \in rows',
           At(r) \in fts => At(r) \in fts',
           OwesFts(c, r) => OwesFts(c, r)' \/ At(r) \in fts',
           FoundByVector(At(r)) => FoundByVector(At(r))',
           OwesVec(c, r) => OwesVec(c, r)' \/ FoundByVector(At(r))'
    PROVE  RecordInv(r)'
<1>1. \A b \in Workers \ {c} :
         /\ Adds(b, r)' <=> Adds(b, r)
         /\ Deletes(b, r)' <=> Deletes(b, r)
         /\ OwesFts(b, r)' <=> OwesFts(b, r)
         /\ OwesVec(b, r)' <=> OwesVec(b, r)
  BY WorkerStays
<1>2. \A b \in Workers : ~Deletes(b, r) /\ ~Deletes(b, r)'
  BY <1>1 DEF RecordInv
<1>3. ASSUME At(r) \in rows'
      PROVE  /\ At(r) \in fts' \/ \E b \in Workers : OwesFts(b, r)'
             /\ FoundByVector(At(r))' \/ \E b \in Workers : OwesVec(b, r)'
  <2>1. CASE At(r) \in rows
    <3>1. /\ At(r) \in fts \/ \E b \in Workers : OwesFts(b, r)
          /\ FoundByVector(At(r)) \/ \E b \in Workers : OwesVec(b, r)
      BY <2>1 DEF RecordInv
    <3>2. QED
      BY <1>1, <3>1
  <2>2. CASE At(r) \notin rows
    BY <1>3, <2>2
  <2>3. QED
    BY <2>1, <2>2
<1>4. \A b \in Workers : OwesFts(b, r)' \/ OwesVec(b, r)' => At(r) \in rows'
  BY <1>1 DEF RecordInv
<1>5. r \in acked' => At(r) \in rows'
  BY DEF RecordInv
<1>6. QED
  BY <1>2, <1>3, <1>4, <1>5 DEF RecordInv, At, Home

\* A step of the deletion of r.
LEMMA DeleteProgress ==
    ASSUME HInv, KeysKept, NEW c \in Workers, \A b \in Workers \ {c} : work'[b] = work[b],
           NEW r \in Records, RecordInv(r), r \in deleted', r \notin acked',
           \A b \in Workers : ~Adds(b, r),
           \A b \in Workers \ {c} : ~Deletes(b, r),
           ~Adds(c, r)',
           Deletes(c, r)' => DeletionInv(c, r)',
           Deletes(c, r)' \/ (At(r) \notin fts' /\ ~FoundByVector(At(r))')
    PROVE  RecordInv(r)'
<1>1. \A b \in Workers \ {c} :
         /\ Adds(b, r)' <=> Adds(b, r)
         /\ Deletes(b, r)' <=> Deletes(b, r)
  BY WorkerStays
<1>2. \A b \in Workers : ~Adds(b, r)' /\ ~OwesFts(b, r)' /\ ~OwesVec(b, r)'
  <2>1. \A b \in Workers : ~Adds(b, r)'
    BY <1>1
  <2>2. QED
    BY <2>1 DEF OwesFts, OwesVec
<1>3. \A b \in Workers \ {c} : ~Deletes(b, r)'
  BY <1>1
<1>4. QED
  BY <1>2, <1>3 DEF RecordInv, At, Home

-----------------------------------------------------------------------------
(* The steps of the calls. *)

\* The handle of a running call is that of a cached instance, which is the
\* only one of its shard.
LEMMA HandleFacts ==
    ASSUME RoomInv, NEW c \in Workers, work[c].inst \in Instances
    PROVE  work[c].inst \in cached /\ CanOpenFts(work[c].inst)
<1>1. work[c].inst \in cached
  BY HandleAssumption DEF RoomInv, FoundInv, HandlesInv, OwnKeys, Held
<1>2. Live \ {NoHandle} \subseteq cached
  BY DEF Live, RoomInv, FoundInv, HandlesInv, OwnKeys
<1>3. \A i, j \in cached : inst[i].key = inst[j].key => i = j
  BY DEF RoomInv, MapInv, MapIsOpenShards
<1>4. QED
  BY <1>1, <1>2, <1>3 DEF CanOpenFts

\* Calls that do not touch vectors leave what is found by them.
LEMMA ViewCall ==
    ASSUME MapInv, NEW c \in Workers, CacheUnchanged, saved' = saved,
           Settle(inst) \/ (work[c].inst \in Instances /\ Settle(FtsOpened(c))), NEW e
    PROVE  FoundByVector(e)' <=> FoundByVector(e)
<1>1. inst \in [Instances -> Instance] /\ cached \subseteq Instances /\ cached' = cached
  BY DEF MapInv, HInv, InstInv, CacheUnchanged
<1>2. CASE Settle(inst)
  <2>1. \A i \in cached : inst'[i] = inst[i]
    BY <1>1, <1>2, CachedSettled
  <2>2. QED
    BY <1>1, <2>1, ViewStays
<1>3. CASE work[c].inst \in Instances /\ Settle(FtsOpened(c))
  <2> DEFINE next == FtsOpened(c)
  <2>1. /\ next \in [Instances -> Instance]
        /\ \A i \in Instances : /\ next[i].key = inst[i].key
                                /\ next[i].loaded = inst[i].loaded
                                /\ next[i].vec = inst[i].vec
    BY <1>1, <1>3 DEF FtsOpened, Instance
  <2> HIDE DEF next
  <2>2. \A i \in cached : inst'[i] = next[i]
    BY <1>1, <1>3, <2>1, CachedSettled DEF next
  <2>3. QED
    BY <1>1, <2>1, <2>2, ViewStays
<1>4. QED
  BY <1>2, <1>3


\* The records a call is not about.
LEMMA OthersStay ==
    ASSUME HInv, KeysKept, NEW c \in Workers, \A b \in Workers \ {c} : work'[b] = work[b],
           NEW q \in Records,
           work[c].pc \in AddPcs \cup DeletePcs => work[c].rec = q,
           work'[c].pc \in AddPcs \cup DeletePcs => work'[c].rec = q,
           rows' \ {At(q)} = rows \ {At(q)}, fts' \ {At(q)} = fts \ {At(q)},
           acked' \ {q} = acked \ {q}, deleted' \ {q} = deleted \ {q},
           NEW r \in Records \ {q}, RecordInv(r),
           FoundByVector(At(r))' <=> FoundByVector(At(r))
    PROVE  RecordInv(r)'
<1>1. At(r) # At(q)
  BY DEF At
<1>2. ~Adds(c, r) /\ ~Deletes(c, r) /\ ~Adds(c, r)' /\ ~Deletes(c, r)'
  BY DEF Adds, Deletes
<1>3. /\ At(r) \in rows' <=> At(r) \in rows
      /\ At(r) \in fts' <=> At(r) \in fts
      /\ r \in acked' <=> r \in acked
      /\ r \in deleted' <=> r \in deleted
  BY <1>1
<1>4. \A b \in Workers :
         \/ work'[b] = work[b]
         \/ ~Adds(b, r) /\ ~Deletes(b, r) /\ ~Adds(b, r)' /\ ~Deletes(b, r)'
  BY <1>2
<1>5. QED
  BY <1>3, <1>4, RecordStays

\* An add that is under way.
LEMMA AddFacts ==
    ASSUME RoomInv, NEW c \in Workers, work[c].pc \in AddPcs
    PROVE  /\ work[c] \in AddWork /\ work[c].inst \in Instances /\ work[c].inst \in cached
           /\ work[c].rec \in Records \ deleted
           /\ Doc(c) = At(work[c].rec) /\ Doc(c) \in Entry
<1>1. work[c] \in AddWork
  BY ByPc DEF RoomInv, MapInv, HInv, AddPcs
<1>2. work[c].inst \in Instances /\ work[c].rec \in Records
  BY <1>1 DEF AddWork
<1>3. work[c].rec \notin deleted
  BY <1>2 DEF RoomInv, FoundInv, RecordInv, Adds
<1>4. Doc(c) = At(work[c].rec)
  BY DEF RoomInv, FoundInv, HomeInv, AddPcs, Doc, At
<1>5. Doc(c) \in Entry
  BY <1>1, DocTyped DEF RoomInv, MapInv
<1>6. QED
  BY <1>1, <1>2, <1>3, <1>4, <1>5, HandleFacts

\* A deletion that is under way.
LEMMA DeleteFacts ==
    ASSUME RoomInv, NEW c \in Workers, work[c].pc \in DeletePcs
    PROVE  /\ work[c] \in VisitWork \cup DeleteWork
           /\ work[c].rec \in Records /\ work[c].rec \in deleted /\ work[c].rec \notin acked
           /\ RecordInv(work[c].rec) /\ DeletionInv(c, work[c].rec)
           /\ \A b \in Workers : ~Adds(b, work[c].rec)
           /\ \A b \in Workers \ {c} : ~Deletes(b, work[c].rec)
           /\ work[c].pc # "visit" =>
                 /\ work[c] \in DeleteWork /\ work[c].inst \in Instances
                 /\ work[c].inst \in cached /\ Doc(c) \in Entry
<1>1. work[c] \in VisitWork \cup DeleteWork /\ (work[c].pc # "visit" => work[c] \in DeleteWork)
  BY ByPc DEF RoomInv, MapInv, HInv, DeletePcs
<1>2. work[c].rec \in Records
  BY <1>1 DEF VisitWork, DeleteWork
<1>3. PICK r \in Records : r = work[c].rec
  BY <1>2
<1>4. RecordInv(r) /\ Deletes(c, r)
  BY <1>3 DEF RoomInv, FoundInv, Deletes
<1>5. r \in deleted /\ r \notin acked
  BY <1>4 DEF RecordInv
<1>6. /\ DeletionInv(c, r)
      /\ \A b \in Workers : ~Adds(b, r)
      /\ \A b \in Workers \ {c} : ~Deletes(b, r)
  BY <1>4, <1>5 DEF RecordInv
<1>7. work[c].pc # "visit" =>
         /\ work[c] \in DeleteWork /\ work[c].inst \in Instances
         /\ work[c].inst \in cached /\ Doc(c) \in Entry
  BY <1>1, DocTyped, HandleFacts DEF RoomInv, MapInv
<1>8. QED
  BY <1>1, <1>2, <1>3, <1>4, <1>5, <1>6, <1>7

LEMMA TakenView ==
    ASSUME NEW c, NEW t, NEW next, NEW i, Takes(c, t, next, i), NEW e
    PROVE  FoundByVector(e)' <=> FoundByVector(e)
BY ViewOpens DEF Takes

LEMMA VectorsHere ==
    ASSUME HandlesInv, NEW k \in Instances
    PROVE  Vectors(k) \subseteq {e \in Indexed : e[1] = inst[k].key}
BY DEF HandlesInv, OwnKeys, Vectors, Indexed

LEMMA AddBeginRoom ==
    ASSUME Roomy, RoomInv, MapInv', KeysKept,
           NEW c \in Workers, NEW q \in Records, NEW kind \in {"add", "batch"}, AddBegin(c, q, kind)
    PROVE  FoundInv'
<1> DEFINE next == [pc |-> "row", inst |-> NoHandle, rec |-> q, kind |-> kind]
<1>1. /\ Acquire(c, TimeOf[q], next) /\ TimeOf[q] \in Times /\ q \notin deleted
      /\ UNCHANGED <<acked, deleted>> /\ work[c].pc = "idle"
  BY HandleAssumption DEF AddBegin
<1>2. ASSUME NEW i \in Instances
      PROVE  /\ [next EXCEPT !.inst = i].inst = i /\ [next EXCEPT !.inst = i].pc = "row"
             /\ [next EXCEPT !.inst = i].rec = q
  OBVIOUS
<1> HIDE DEF next
<1>3. ASSUME NEW i \in Instances
      PROVE  /\ [next EXCEPT !.inst = i].inst = i
             /\ [next EXCEPT !.inst = i].pc \in AddPcs =>
                   align_to_duration(TimeOf[q], Width) = Home([next EXCEPT !.inst = i].rec)
  BY <1>2 DEF Home
<1>4. MapInv /\ HInv /\ HInv' /\ HandlesInv /\ HomeInv
  BY DEF RoomInv, FoundInv, MapInv
<1>5. HandlesInv' /\ HomeInv'
  BY <1>1, <1>3, <1>4, AcquireRoom
<1>5a. PICK i \in Instances : Takes(c, TimeOf[q], next, i)
  BY <1>1, <1>4, RoomAcquire
<1>6. work' = [work EXCEPT ![c] = [next EXCEPT !.inst = i]] /\ rows' = rows /\ fts' = fts
  BY <1>5a DEF Takes
<1>7. ASSUME NEW r \in Records PROVE FoundByVector(At(r))' <=> FoundByVector(At(r))
  BY <1>5a, TakenView DEF At, Home
<1>8. /\ work'[c].pc = "row" /\ work'[c].rec = q
      /\ \A b \in Workers \ {c} : work'[b] = work[b]
  BY <1>2, <1>4, <1>6 DEF HInv, Typed
<1>9. ASSUME NEW r \in Records PROVE RecordInv(r)'
  <2>0. RecordInv(r)
    BY DEF RoomInv, FoundInv
  <2>1. FoundByVector(At(r))' <=> FoundByVector(At(r))
    BY <1>7
  <2>2. CASE r # q
    <3>1. work[c].pc \notin AddPcs \cup DeletePcs
      BY <1>1 DEF AddPcs, DeletePcs
    <3>2. QED
      BY <1>1, <1>4, <1>6, <1>8, <2>0, <2>1, <2>2, <3>1, OthersStay
  <2>3. CASE r = q
    <3>1. ~OwesFts(c, r) /\ ~OwesVec(c, r)
      BY <1>1 DEF OwesFts, OwesVec
    <3>2. ~OwesFts(c, r)' /\ ~OwesVec(c, r)' /\ ~Deletes(c, r)'
      BY <1>8 DEF OwesFts, OwesVec, Deletes, DeletePcs
    <3>3. r \notin deleted /\ r \notin deleted' /\ (r \in acked' => r \in acked)
      BY <1>1, <2>3
    <3>4. rows' = rows /\ fts' = fts
      BY <1>6
    <3>5. QED
      BY <1>4, <1>8, <2>0, <2>1, <3>1, <3>2, <3>3, <3>4, AddProgress
  <2>4. QED
    BY <2>2, <2>3
<1>10. QED
  BY <1>5, <1>9 DEF FoundInv, RecordInv, At, Home

LEMMA AddDuplicateRoom ==
    ASSUME RoomInv, HInv', KeysKept, NEW c \in Workers, AddDuplicate(c)
    PROVE  FoundInv'
<1>1. /\ work[c].pc = "row" /\ Doc(c) \in rows /\ work' = [work EXCEPT ![c] = Idle]
      /\ CacheUnchanged /\ UNCHANGED <<rows, fts, saved, deleted>> /\ Settle(inst)
      /\ acked' = acked \cup ({work[c].rec} \ deleted)
  BY DEF AddDuplicate, Done, Ack
<1>2. /\ work[c] \in AddWork /\ work[c].inst \in Instances
      /\ work[c].rec \in Records \ deleted
      /\ Doc(c) = At(work[c].rec) /\ Doc(c) \in Entry
  BY <1>1, AddFacts DEF AddPcs
<1>3. PICK q \in Records \ deleted : q = work[c].rec
  BY <1>2
<1>4. MapInv /\ HInv /\ HandlesInv /\ HomeInv
  BY DEF RoomInv, FoundInv, MapInv
<1>6. HandlesInv' /\ HomeInv'
  <2>1. rows' \subseteq rows /\ fts' \subseteq fts /\ Idle.pc \notin AddPcs
    BY <1>1, IdleWork DEF AddPcs
  <2>2. QED
    BY <1>1, <1>4, <2>1, IdleWork, PlainRoom
<1>7. ASSUME NEW r \in Records PROVE FoundByVector(At(r))' <=> FoundByVector(At(r))
  BY <1>1, <1>4, ViewCall DEF At, Home
<1>8. work'[c] = Idle /\ work'[c].pc = "idle" /\ \A b \in Workers \ {c} : work'[b] = work[b]
  BY <1>1, <1>4, IdleWork DEF HInv, Typed
<1>9. ASSUME NEW r \in Records PROVE RecordInv(r)'
  <2>0. RecordInv(r)
    BY DEF RoomInv, FoundInv
  <2>1. FoundByVector(At(r))' <=> FoundByVector(At(r))
    BY <1>7
  <2>2. CASE r # q
    <3>1. work'[c].pc \notin AddPcs \cup DeletePcs
      BY <1>8 DEF AddPcs, DeletePcs
    <3>2. QED
      BY <1>1, <1>3, <1>4, <1>8, <2>0, <2>1, <2>2, <3>1, OthersStay
  <2>3. CASE r = q
    <3>1. ~OwesFts(c, r) /\ ~OwesVec(c, r)
      BY <1>1 DEF OwesFts, OwesVec
    <3>2. ~OwesFts(c, r)' /\ ~OwesVec(c, r)' /\ ~Deletes(c, r)'
      BY <1>8 DEF OwesFts, OwesVec, Adds, AddPcs, Deletes, DeletePcs
    <3>3. r \notin deleted /\ r \notin deleted' /\ At(r) \in rows
      BY <1>1, <1>2, <1>3, <2>3
    <3>4. rows' = rows /\ fts' = fts
      BY <1>1
    <3>5. QED
      BY <1>4, <1>8, <2>0, <2>1, <3>1, <3>2, <3>3, <3>4, AddProgress
  <2>4. QED
    BY <2>2, <2>3
<1>10. QED
  BY <1>6, <1>9 DEF FoundInv, RecordInv, At, Home

LEMMA AddRowRoom ==
    ASSUME RoomInv, HInv', KeysKept, NEW c \in Workers, AddRow(c)
    PROVE  FoundInv'
<1> DEFINE pc == IF work[c].kind = "add" THEN "fts" ELSE "vec"
<1>1. /\ work[c].pc = "row" /\ Doc(c) \notin rows /\ Goto(c, pc)
      /\ CacheUnchanged /\ UNCHANGED <<fts, saved, acked, deleted>> /\ Settle(inst)
      /\ rows' = rows \cup {Doc(c)}
  BY DEF AddRow
<1>2. /\ work[c] \in AddWork /\ work[c].inst \in Instances
      /\ work[c].rec \in Records \ deleted
      /\ Doc(c) = At(work[c].rec) /\ Doc(c) \in Entry
  BY <1>1, AddFacts DEF AddPcs
<1>3. PICK q \in Records \ deleted : q = work[c].rec
  BY <1>2
<1>4. MapInv /\ HInv /\ HandlesInv /\ HomeInv
  BY DEF RoomInv, FoundInv, MapInv
<1>5. EngineCall(c, {})
  BY <1>1 DEF EngineCall
<1>5a. pc \in {"fts", "vec"} /\ work[c].kind \in {"add", "batch"}
  BY <1>2 DEF AddWork
<1> HIDE DEF pc
<1>5b. PICK w \in Work : /\ work' = [work EXCEPT ![c] = w]
                         /\ w = [work[c] EXCEPT !.pc = pc]
                         /\ w.pc = pc /\ w.inst = work[c].inst /\ w.rec = work[c].rec
  BY <1>1, <1>2, <1>4, <1>5a, PcGoes DEF HInv
<1>5c. w.kind = work[c].kind
  BY <1>2, <1>5b DEF AddWork
<1>6. HandlesInv' /\ HomeInv'
  <2>1. work[c].pc \in AddPcs
    BY <1>1 DEF AddPcs
  <2>2. QED
    BY <1>1, <1>2, <1>4, <1>5, <1>5b, <2>1, CallRoom
<1>7. ASSUME NEW r \in Records PROVE FoundByVector(At(r))' <=> FoundByVector(At(r))
  BY <1>1, <1>4, ViewCall DEF At, Home
<1>8. work'[c] = w /\ \A b \in Workers \ {c} : work'[b] = work[b]
  BY <1>4, <1>5b DEF HInv, Typed
<1>9. ASSUME NEW r \in Records PROVE RecordInv(r)'
  <2>0. RecordInv(r)
    BY DEF RoomInv, FoundInv
  <2>1. FoundByVector(At(r))' <=> FoundByVector(At(r))
    BY <1>7
  <2>2. CASE r # q
    <3>1. rows' \ {At(q)} = rows \ {At(q)}
      BY <1>1, <1>2, <1>3
    <3>2. QED
      BY <1>1, <1>3, <1>4, <1>5b, <1>8, <2>0, <2>1, <2>2, <3>1, OthersStay
  <2>3. CASE r = q
    <3>1. ~OwesFts(c, r) /\ ~OwesVec(c, r)
      BY <1>1 DEF OwesFts, OwesVec
    <3>2. OwesFts(c, r)' /\ OwesVec(c, r)' /\ ~Deletes(c, r)'
      BY <1>3, <1>5a, <1>5b, <1>5c, <1>8, <2>3
         DEF OwesFts, OwesVec, Adds, AddPcs, Deletes, DeletePcs, pc
    <3>3. r \notin deleted /\ r \notin deleted' /\ acked' = acked
      BY <1>1, <2>3
    <3>4. rows' = rows \cup {At(r)} /\ fts' = fts
      BY <1>1, <1>2, <1>3, <2>3
    <3>5. QED
      BY <1>4, <1>8, <2>0, <2>1, <3>1, <3>2, <3>3, <3>4, AddProgress
  <2>4. QED
    BY <2>2, <2>3
<1>10. QED
  BY <1>6, <1>9 DEF FoundInv, RecordInv, At, Home


LEMMA AddFtsRoom ==
    ASSUME RoomInv, HInv', KeysKept, NEW c \in Workers, AddFts(c)
    PROVE  FoundInv'
<1>1. /\ work[c].pc = "fts"
      /\ CacheUnchanged /\ UNCHANGED <<rows, saved, deleted>>
      /\ CanOpenFts(work[c].inst) /\ Settle(FtsOpened(c))
      /\ fts' = fts \cup {Doc(c)}
      /\ IF work[c].kind = "add" THEN Goto(c, "vec") /\ acked' = acked
         ELSE Done(c) /\ acked' = acked \cup ({work[c].rec} \ deleted)
  BY DEF AddFts, Ack
<1>2. /\ work[c] \in AddWork /\ work[c].inst \in Instances
      /\ work[c].rec \in Records \ deleted
      /\ Doc(c) = At(work[c].rec) /\ Doc(c) \in Entry
  BY <1>1, AddFacts DEF AddPcs
<1>3. PICK q \in Records \ deleted : q = work[c].rec
  BY <1>2
<1>4. MapInv /\ HInv /\ HandlesInv /\ HomeInv
  BY DEF RoomInv, FoundInv, MapInv
<1>5. EngineCall(c, {})
  BY <1>1 DEF EngineCall
<1>6. work[c].kind \in {"add", "batch"}
  BY <1>2 DEF AddWork
<1>7. PICK w \in Work :
         /\ work' = [work EXCEPT ![c] = w]
         /\ \/ work[c].kind = "batch" /\ w = Idle
            \/ /\ work[c].kind = "add"
               /\ w.pc = "vec" /\ w.inst = work[c].inst /\ w.rec = work[c].rec
               /\ w.kind = "add"
  <2>1. CASE work[c].kind = "add"
    <3>1. PICK w \in Work : /\ work' = [work EXCEPT ![c] = w]
                            /\ w = [work[c] EXCEPT !.pc = "vec"]
                            /\ w.pc = "vec" /\ w.inst = work[c].inst /\ w.rec = work[c].rec
      BY <1>1, <1>2, <1>4, <2>1, PcGoes DEF HInv
    <3>2. w.kind = "add"
      BY <1>2, <2>1, <3>1 DEF AddWork
    <3>3. QED
      BY <2>1, <3>1, <3>2
  <2>2. CASE work[c].kind = "batch"
    BY <1>1, <2>2, IdleWork DEF Done
  <2>3. QED
    BY <1>6, <2>1, <2>2
<1>8. work'[c] = w /\ \A b \in Workers \ {c} : work'[b] = work[b]
  BY <1>4, <1>7 DEF HInv, Typed
<1>9. HandlesInv' /\ HomeInv'
  <2>1. work[c].pc \in AddPcs
    BY <1>1 DEF AddPcs
  <2>2. /\ w.inst \in {work[c].inst, NoHandle}
        /\ w.pc \in AddPcs => w.inst = work[c].inst /\ w.rec = work[c].rec
    BY <1>7, IdleWork DEF AddPcs
  <2>3. QED
    BY <1>1, <1>2, <1>4, <1>5, <1>7, <2>1, <2>2, CallRoom
<1>10. ASSUME NEW r \in Records PROVE FoundByVector(At(r))' <=> FoundByVector(At(r))
  BY <1>1, <1>2, <1>4, ViewCall DEF At, Home
<1>11. ASSUME NEW r \in Records PROVE RecordInv(r)'
  <2>0. RecordInv(r)
    BY DEF RoomInv, FoundInv
  <2>1. FoundByVector(At(r))' <=> FoundByVector(At(r))
    BY <1>10
  <2>2. CASE r # q
    <3>1. fts' \ {At(q)} = fts \ {At(q)}
      BY <1>1, <1>2, <1>3
    <3>2. acked' \ {q} = acked \ {q}
      BY <1>1, <1>3
    <3>3. work'[c].pc \in AddPcs \cup DeletePcs => work'[c].rec = q
      BY <1>3, <1>7, <1>8, IdleWork DEF AddPcs, DeletePcs
    <3>4. QED
      BY <1>1, <1>3, <1>4, <1>8, <2>0, <2>1, <2>2, <3>1, <3>2, <3>3, OthersStay
  <2>3. CASE r = q
    <3>1. OwesFts(c, r) /\ (OwesVec(c, r) => work[c].kind = "add")
      BY <1>1, <1>3, <2>3 DEF OwesFts, OwesVec, Adds, AddPcs
    <3>2. /\ ~Deletes(c, r)' /\ ~OwesFts(c, r)'
          /\ OwesVec(c, r) => OwesVec(c, r)'
      BY <1>1, <1>3, <1>7, <1>8, <2>3, <3>1, IdleWork
         DEF OwesFts, OwesVec, Adds, AddPcs, Deletes, DeletePcs
    <3>3. At(r) \in rows
      BY <2>0, <3>1 DEF RecordInv
    <3>4. r \notin deleted /\ r \notin deleted'
      BY <1>1, <2>3
    <3>5. rows' = rows /\ fts' = fts \cup {At(r)}
      BY <1>1, <1>2, <1>3, <2>3
    <3>6. QED
      BY <1>4, <1>8, <2>0, <2>1, <3>1, <3>2, <3>3, <3>4, <3>5, AddProgress
  <2>4. QED
    BY <2>2, <2>3
<1>12. QED
  BY <1>9, <1>11 DEF FoundInv, RecordInv, At, Home

LEMMA AddVecRoom ==
    ASSUME RoomInv, MapInv', KeysKept, NEW c \in Workers, AddVec(c)
    PROVE  FoundInv'
<1> DEFINE es == Vectors(work[c].inst) \cup {Doc(c)}
<1>1. /\ work[c].pc = "vec"
      /\ CacheUnchanged /\ UNCHANGED <<rows, fts, saved, deleted>>
      /\ Settle(VecHolds(c, es))
      /\ IF work[c].kind = "batch" THEN Goto(c, "fts") /\ acked' = acked
         ELSE Done(c) /\ acked' = acked \cup ({work[c].rec} \ deleted)
  BY DEF AddVec, Ack
<1>2. /\ work[c] \in AddWork /\ work[c].inst \in Instances /\ work[c].inst \in cached
      /\ work[c].rec \in Records \ deleted
      /\ Doc(c) = At(work[c].rec) /\ Doc(c) \in Entry
  BY <1>1, AddFacts DEF AddPcs
<1>3. PICK q \in Records \ deleted : q = work[c].rec
  BY <1>2
<1>4. MapInv /\ HInv /\ HInv' /\ MapIsOpenShards' /\ HandlesInv /\ HomeInv
  BY DEF RoomInv, FoundInv, MapInv
<1>5. EngineCall(c, es)
  BY <1>1 DEF EngineCall
<1>6. work[c].kind \in {"add", "batch"}
  BY <1>2 DEF AddWork
<1>7. PICK w \in Work :
         /\ work' = [work EXCEPT ![c] = w]
         /\ \/ work[c].kind = "add" /\ w = Idle
            \/ /\ work[c].kind = "batch"
               /\ w.pc = "fts" /\ w.inst = work[c].inst /\ w.rec = work[c].rec
               /\ w.kind = "batch"
  <2>1. CASE work[c].kind = "batch"
    <3>1. PICK w \in Work : /\ work' = [work EXCEPT ![c] = w]
                            /\ w = [work[c] EXCEPT !.pc = "fts"]
                            /\ w.pc = "fts" /\ w.inst = work[c].inst /\ w.rec = work[c].rec
      BY <1>1, <1>2, <1>4, <2>1, PcGoes DEF HInv
    <3>2. w.kind = "batch"
      BY <1>2, <2>1, <3>1 DEF AddWork
    <3>3. QED
      BY <2>1, <3>1, <3>2
  <2>2. CASE work[c].kind = "add"
    BY <1>1, <2>2, IdleWork DEF Done
  <2>3. QED
    BY <1>6, <2>1, <2>2
<1>8. work'[c] = w /\ \A b \in Workers \ {c} : work'[b] = work[b]
  BY <1>4, <1>7 DEF HInv, Typed
<1>8a. /\ es \in SUBSET Entry
       /\ es \subseteq {e \in Indexed \cup {Doc(c)} : e[1] = Key(c)}
  <2>1. Vectors(work[c].inst) \subseteq Entry
    BY <1>2, <1>4, VectorsFrom DEF HInv
  <2>2. Vectors(work[c].inst) \subseteq {e \in Indexed : e[1] = inst[work[c].inst].key}
    BY <1>2, <1>4, VectorsHere
  <2>3. Doc(c)[1] = Key(c)
    BY DEF Doc
  <2>4. QED
    BY <1>2, <2>1, <2>2, <2>3 DEF Key
<1> HIDE DEF es
<1>9. HandlesInv' /\ HomeInv'
  <2>1. work[c].pc \in AddPcs
    BY <1>1 DEF AddPcs
  <2>2. /\ w.inst \in {work[c].inst, NoHandle}
        /\ w.pc \in AddPcs => w.inst = work[c].inst /\ w.rec = work[c].rec
    BY <1>7, IdleWork DEF AddPcs
  <2>3. QED
    BY <1>1, <1>2, <1>4, <1>5, <1>7, <1>8a, <2>1, <2>2, CallRoom
<1>10. ASSUME NEW r \in Records
       PROVE  /\ r # q => (FoundByVector(At(r))' <=> FoundByVector(At(r)))
              /\ r = q => FoundByVector(At(r))'
  <2>0. cached' = cached /\ saved' = saved
    BY <1>1 DEF CacheUnchanged
  <2>1. /\ At(r)[1] = Key(c) => (FoundByVector(At(r))' <=> At(r) \in es)
        /\ At(r)[1] # Key(c) => (FoundByVector(At(r))' <=> FoundByVector(At(r)))
    BY <1>1, <1>2, <1>4, <1>8a, <2>0, ViewHolds DEF At, Home
  <2>2. At(r)[1] = Key(c) => (FoundByVector(At(r)) <=> At(r) \in Vectors(work[c].inst))
    BY <1>2, <1>4, ViewOf DEF Key, MapInv
  <2>3. r # q => At(r) # Doc(c)
    BY <1>2, <1>3 DEF At
  <2>4. r = q => At(r) = Doc(c) /\ At(r)[1] = Key(c)
    BY <1>2, <1>3 DEF Doc
  <2>5. QED
    BY <2>1, <2>2, <2>3, <2>4 DEF es
<1>11. ASSUME NEW r \in Records PROVE RecordInv(r)'
  <2>0. RecordInv(r)
    BY DEF RoomInv, FoundInv
  <2>2. CASE r # q
    <3>1. FoundByVector(At(r))' <=> FoundByVector(At(r))
      BY <1>10, <2>2
    <3>2. acked' \ {q} = acked \ {q}
      BY <1>1, <1>3
    <3>3. work'[c].pc \in AddPcs \cup DeletePcs => work'[c].rec = q
      BY <1>3, <1>7, <1>8, IdleWork DEF AddPcs, DeletePcs
    <3>4. QED
      BY <1>1, <1>3, <1>4, <1>8, <2>0, <2>2, <3>1, <3>2, <3>3, OthersStay
  <2>3. CASE r = q
    <3>0. FoundByVector(At(r))'
      BY <1>10, <2>3
    <3>1. OwesVec(c, r) /\ (OwesFts(c, r) => work[c].kind = "batch")
      BY <1>1, <1>3, <2>3 DEF OwesFts, OwesVec, Adds, AddPcs
    <3>2. /\ ~Deletes(c, r)' /\ ~OwesVec(c, r)'
          /\ OwesFts(c, r) => OwesFts(c, r)'
      BY <1>1, <1>3, <1>7, <1>8, <2>3, <3>1, IdleWork
         DEF OwesFts, OwesVec, Adds, AddPcs, Deletes, DeletePcs
    <3>3. At(r) \in rows
      BY <2>0, <3>1 DEF RecordInv
    <3>4. r \notin deleted /\ r \notin deleted'
      BY <1>1, <2>3
    <3>5. rows' = rows /\ fts' = fts
      BY <1>1
    <3>6. QED
      BY <1>4, <1>8, <2>0, <3>0, <3>1, <3>2, <3>3, <3>4, <3>5, AddProgress
  <2>4. QED
    BY <2>2, <2>3
<1>12. QED
  BY <1>9, <1>11 DEF FoundInv, RecordInv, At, Home


\* A step of a deletion that leaves the other records alone.
LEMMA DeletionSteps ==
    ASSUME RoomInv, KeysKept, NEW c \in Workers, NEW q \in Records,
           work[c].pc \in DeletePcs, q = work[c].rec,
           \A b \in Workers \ {c} : work'[b] = work[b],
           work'[c].pc \notin AddPcs,
           work'[c].pc \in DeletePcs => work'[c].rec = q /\ DeletionInv(c, q)',
           work'[c].pc \notin DeletePcs => At(q) \notin fts' /\ ~FoundByVector(At(q))',
           UNCHANGED <<acked, deleted>>,
           rows' \ {At(q)} = rows \ {At(q)}, fts' \ {At(q)} = fts \ {At(q)},
           NEW r \in Records,
           r # q => (FoundByVector(At(r))' <=> FoundByVector(At(r)))
    PROVE  RecordInv(r)'
<1>1. RecordInv(r) /\ HInv
  BY DEF RoomInv, FoundInv, MapInv
<1>2. CASE r # q
  BY <1>1, <1>2, OthersStay
<1>3. CASE r = q
  <2>1. /\ q \in deleted /\ q \notin acked /\ RecordInv(q)
        /\ \A b \in Workers : ~Adds(b, q)
        /\ \A b \in Workers \ {c} : ~Deletes(b, q)
    BY DeleteFacts
  <2>2. ~Adds(c, q)'
    BY DEF Adds
  <2>3. Deletes(c, q)' => DeletionInv(c, q)'
    BY DEF Deletes
  <2>4. Deletes(c, q)' \/ (At(q) \notin fts' /\ ~FoundByVector(At(q))')
    BY DEF Deletes
  <2>5. RecordInv(q)'
    BY <1>1, <2>1, <2>2, <2>3, <2>4, DeleteProgress
  <2>6. QED
    BY <1>3, <2>5
<1>4. QED
  BY <1>2, <1>3

LEMMA DeleteBeginRoom ==
    ASSUME Roomy, RoomInv, HInv', KeysKept, NEW c \in Workers, NEW q \in Records, DeleteBegin(c, q)
    PROVE  FoundInv'
<1> DEFINE w == [pc |-> "visit", inst |-> NoHandle, rec |-> q, todo |-> catalog]
<1>1. /\ work[c].pc = "idle" /\ q \in acked /\ Quiet(q)
      /\ acked' = acked \ {q} /\ deleted' = deleted \cup {q}
      /\ work' = [work EXCEPT ![c] = w]
      /\ CacheUnchanged /\ UNCHANGED <<rows, fts, saved>> /\ Settle(inst)
  BY DEF DeleteBegin, Roomy
<1>2. MapInv /\ HInv /\ HandlesInv /\ HomeInv
  BY DEF RoomInv, FoundInv, MapInv
<1>3. w \in VisitWork /\ w.pc = "visit" /\ w.inst = NoHandle /\ w.rec = q /\ w.todo = catalog
  BY <1>2 DEF HInv, Typed, CacheTyped, VisitWork
<1> HIDE DEF w
<1>4. w \in Work /\ w.pc \notin AddPcs
  BY <1>3 DEF Work, AddPcs
<1>6. HandlesInv' /\ HomeInv'
  <2>1. rows' \subseteq rows /\ fts' \subseteq fts
    BY <1>1
  <2>2. QED
    BY <1>1, <1>2, <1>3, <1>4, <2>1, PlainRoom
<1>7. work'[c] = w /\ \A b \in Workers \ {c} : work'[b] = work[b]
  BY <1>1, <1>2 DEF HInv, Typed
<1>8. ASSUME NEW r \in Records PROVE FoundByVector(At(r))' <=> FoundByVector(At(r))
  BY <1>1, <1>2, ViewCall DEF At, Home
<1>9. \A b \in Workers : ~Adds(b, q) /\ ~Deletes(b, q)
  <2>1. \A b \in Workers : work[b].pc \in AddPcs \cup DeletePcs =>
            work[b] \in AddWork \cup VisitWork \cup DeleteWork
    BY <1>2, ByPc DEF HInv, AddPcs, DeletePcs
  <2>2. \A b \in Workers : work[b].pc \in AddPcs \cup DeletePcs => "rec" \in DOMAIN work[b]
    BY <2>1 DEF AddWork, VisitWork, DeleteWork
  <2>3. QED
    BY <1>1, <2>2 DEF Quiet, Adds, Deletes
<1>10. ASSUME NEW r \in Records PROVE RecordInv(r)'
  <2>0. RecordInv(r)
    BY DEF RoomInv, FoundInv
  <2>1. FoundByVector(At(r))' <=> FoundByVector(At(r))
    BY <1>8
  <2>2. CASE r # q
    <3>1. work[c].pc \notin AddPcs \cup DeletePcs
      BY <1>1 DEF AddPcs, DeletePcs
    <3>2. acked' \ {q} = acked \ {q} /\ deleted' \ {q} = deleted \ {q}
      BY <1>1
    <3>3. QED
      BY <1>1, <1>2, <1>3, <1>7, <2>0, <2>1, <2>2, <3>1, <3>2, OthersStay
  <2>3. CASE r = q
    <3>1. At(q) \in rows /\ Home(q) \in catalog
      BY <1>1, <1>2, <2>0, <2>3 DEF RecordInv, HomeInv, At
    <3>2. DeletionInv(c, q)'
      BY <1>1, <1>3, <1>7, <3>1 DEF DeletionInv, At, Home
    <3>3. Deletes(c, q)' /\ ~Adds(c, q)'
      BY <1>3, <1>4, <1>7 DEF Deletes, Adds, DeletePcs
    <3>4. RecordInv(q) /\ q \in deleted' /\ q \notin acked'
      BY <1>1, <2>0, <2>3
    <3>5. RecordInv(q)'
      BY <1>2, <1>7, <1>9, <3>2, <3>3, <3>4, DeleteProgress
    <3>6. QED
      BY <2>3, <3>5
  <2>4. QED
    BY <2>2, <2>3
<1>11. QED
  BY <1>6, <1>10 DEF FoundInv, RecordInv, At, Home

LEMMA DeleteVisitRoom ==
    ASSUME Roomy, RoomInv, MapInv', KeysKept, NEW c \in Workers, DeleteVisit(c)
    PROVE  FoundInv'
<1>1. work[c].pc = "visit" /\ UNCHANGED <<acked, deleted>>
  BY DEF DeleteVisit
<1>2. MapInv /\ HInv /\ HInv' /\ HandlesInv /\ HomeInv
  BY DEF RoomInv, FoundInv, MapInv
<1>3. work[c] \in VisitWork
  BY <1>1, <1>2, ByPc DEF HInv
<1>4. PICK q \in Records : q = work[c].rec
  BY <1>3 DEF VisitWork
<1>5. PICK row \in FirstRows(work[c].todo) :
         Acquire(c, row[1], [work[c] EXCEPT !.pc = "look", !.todo = @ \ {row}])
  BY DEF DeleteVisit
<1> DEFINE todo == work[c].todo \ {row}
           next == [[work[c] EXCEPT !.pc = "look"] EXCEPT !.todo = todo]
<1>6. Acquire(c, row[1], next)
  BY <1>3, <1>5 DEF VisitWork
<1>7. row \in catalog
  BY <1>2, <1>3, <1>5 DEF HInv, TodoInv, FirstRows
<1>8. row[1] \in Times /\ align_to_duration(row[1], Width) = row
  BY <1>2, <1>7, RoomFacts DEF HInv, Typed, CacheTyped
<1>9. ASSUME NEW i \in Instances
      PROVE  /\ [next EXCEPT !.inst = i].inst = i /\ [next EXCEPT !.inst = i].pc = "look"
             /\ [next EXCEPT !.inst = i].rec = q /\ [next EXCEPT !.inst = i].todo = todo
  BY <1>3, <1>4 DEF VisitWork
<1> HIDE DEF next
<1>10. ASSUME NEW i \in Instances
       PROVE  /\ [next EXCEPT !.inst = i].inst = i
              /\ [next EXCEPT !.inst = i].pc \in AddPcs =>
                    align_to_duration(row[1], Width) = Home([next EXCEPT !.inst = i].rec)
  BY <1>9 DEF AddPcs
<1>11. HandlesInv' /\ HomeInv'
  BY <1>2, <1>6, <1>8, <1>10, AcquireRoom
<1>12. PICK i \in Instances : Takes(c, row[1], next, i)
  BY <1>2, <1>6, <1>8, RoomAcquire
<1>13. /\ work' = [work EXCEPT ![c] = [next EXCEPT !.inst = i]]
       /\ rows' = rows /\ fts' = fts /\ inst'[i].key = row
  BY <1>8, <1>12 DEF Takes
<1>14. ASSUME NEW r \in Records PROVE FoundByVector(At(r))' <=> FoundByVector(At(r))
  BY <1>12, TakenView DEF At, Home
<1>15. /\ work'[c].inst = i /\ work'[c].pc = "look" /\ work'[c].rec = q /\ work'[c].todo = todo
       /\ \A b \in Workers \ {c} : work'[b] = work[b]
  BY <1>2, <1>9, <1>13 DEF HInv, Typed
<1>16. DeletionInv(c, q)'
  <2>1. At(q) \in rows /\ Home(q) \in work[c].todo
    BY <1>1, <1>4, DeleteFacts DEF DeletionInv, DeletePcs
  <2>2. Key(c)' = row
    BY <1>13, <1>15 DEF Key
  <2>3. Home(q) \in work'[c].todo \/ Key(c)' = Home(q)
    BY <1>15, <2>1, <2>2
  <2>4. QED
    BY <1>13, <1>15, <2>1, <2>3 DEF DeletionInv, At, Home
<1>17. ASSUME NEW r \in Records PROVE RecordInv(r)'
  <2>1. FoundByVector(At(r))' <=> FoundByVector(At(r))
    BY <1>14
  <2>2. work[c].pc \in DeletePcs /\ work'[c].pc \in DeletePcs /\ work'[c].pc \notin AddPcs
    BY <1>1, <1>15 DEF DeletePcs, AddPcs
  <2>3. QED
    BY <1>1, <1>4, <1>13, <1>15, <1>16, <2>1, <2>2, DeletionSteps
<1>18. QED
  BY <1>11, <1>17 DEF FoundInv, RecordInv, At, Home

LEMMA DeleteMissRoom ==
    ASSUME RoomInv, HInv', KeysKept, NEW c \in Workers, DeleteMiss(c)
    PROVE  FoundInv'
<1>1. /\ work[c].pc = "look" /\ Doc(c) \notin rows
      /\ CacheUnchanged /\ UNCHANGED <<rows, fts, saved, acked, deleted>> /\ Settle(inst)
  BY DEF DeleteMiss
<1>2. MapInv /\ HInv /\ HandlesInv /\ HomeInv
  BY DEF RoomInv, FoundInv, MapInv
<1>3. /\ work[c] \in DeleteWork /\ work[c].inst \in Instances /\ work[c].rec \in Records
      /\ DeletionInv(c, work[c].rec)
  BY <1>1, DeleteFacts DEF DeletePcs
<1>4. PICK q \in Records : q = work[c].rec
  BY <1>3
\* The shard that has the row is still to be visited.
<1>5. At(q) \in rows /\ Home(q) \in work[c].todo
  <2>1. At(q) \in rows /\ (Home(q) \in work[c].todo \/ Key(c) = Home(q))
    BY <1>1, <1>3, <1>4 DEF DeletionInv
  <2>2. Key(c) # Home(q)
    BY <1>1, <1>4, <2>1 DEF Doc, At
  <2>3. QED
    BY <2>1, <2>2
<1> DEFINE w == [[work[c] EXCEPT !.pc = "visit"] EXCEPT !.inst = NoHandle]
<1>6. work' = [work EXCEPT ![c] = w]
  BY <1>2, <1>5 DEF DeleteMiss, HInv, Typed
<1>7. w \in VisitWork /\ w.pc = "visit" /\ w.inst = NoHandle /\ w.rec = q /\ w.todo = work[c].todo
  BY <1>3, <1>4 DEF DeleteWork, VisitWork
<1> HIDE DEF w
<1>8. w \in Work /\ w.pc \notin AddPcs /\ w.pc \in DeletePcs /\ work[c].pc \in DeletePcs
  BY <1>1, <1>7 DEF Work, AddPcs, DeletePcs
<1>10. HandlesInv' /\ HomeInv'
  <2>1. rows' \subseteq rows /\ fts' \subseteq fts
    BY <1>1
  <2>2. QED
    BY <1>1, <1>2, <1>6, <1>7, <1>8, <2>1, PlainRoom
<1>11. work'[c] = w /\ \A b \in Workers \ {c} : work'[b] = work[b]
  BY <1>2, <1>6 DEF HInv, Typed
<1>12. ASSUME NEW r \in Records PROVE FoundByVector(At(r))' <=> FoundByVector(At(r))
  BY <1>1, <1>2, ViewCall DEF At, Home
<1>13. DeletionInv(c, q)'
  BY <1>1, <1>5, <1>7, <1>11 DEF DeletionInv, At, Home
<1>14. ASSUME NEW r \in Records PROVE RecordInv(r)'
  <2>1. FoundByVector(At(r))' <=> FoundByVector(At(r))
    BY <1>12
  <2>2. QED
    BY <1>1, <1>4, <1>7, <1>8, <1>11, <1>13, <2>1, DeletionSteps
<1>15. QED
  BY <1>10, <1>14 DEF FoundInv, RecordInv, At, Home


LEMMA DeleteRowRoom ==
    ASSUME RoomInv, HInv', KeysKept, NEW c \in Workers, DeleteRow(c)
    PROVE  FoundInv'
<1>1. /\ work[c].pc = "look" /\ Doc(c) \in rows /\ Goto(c, "drop")
      /\ CacheUnchanged /\ UNCHANGED <<fts, saved, acked, deleted>> /\ Settle(inst)
      /\ rows' = rows \ {Doc(c)}
  BY DEF DeleteRow
<1>2. MapInv /\ HInv /\ HandlesInv /\ HomeInv
  BY DEF RoomInv, FoundInv, MapInv
<1>3. work[c] \in DeleteWork /\ work[c].inst \in Instances /\ work[c].rec \in Records
  BY <1>1, DeleteFacts DEF DeletePcs
<1>4. PICK q \in Records : q = work[c].rec
  BY <1>3
\* The row was found where its timestamp says.
<1>5. Key(c) = Home(q) /\ Doc(c) = At(q)
  BY <1>1, <1>2, <1>4 DEF HomeInv, Doc, At
<1>6. PICK w \in Work : /\ work' = [work EXCEPT ![c] = w]
                        /\ w.pc = "drop" /\ w.inst = work[c].inst /\ w.rec = work[c].rec
  BY <1>1, <1>2, <1>3, PcGoes DEF HInv
<1>7. w.pc \notin AddPcs /\ w.pc \in DeletePcs /\ work[c].pc \in DeletePcs
  BY <1>1, <1>6 DEF AddPcs, DeletePcs
<1>8. HandlesInv' /\ HomeInv'
  <2>1. rows' \subseteq rows /\ fts' \subseteq fts
    BY <1>1
  <2>2. QED
    BY <1>1, <1>2, <1>6, <1>7, <2>1, PlainRoom
<1>9. work'[c] = w /\ \A b \in Workers \ {c} : work'[b] = work[b]
  BY <1>2, <1>6 DEF HInv, Typed
<1>10. ASSUME NEW r \in Records PROVE FoundByVector(At(r))' <=> FoundByVector(At(r))
  BY <1>1, <1>2, ViewCall DEF At, Home
<1>11. DeletionInv(c, q)'
  <2>1. Key(c)' = Key(c)
    BY <1>3, <1>6, <1>9, KeyStays
  <2>2. QED
    BY <1>5, <1>6, <1>9, <2>1 DEF DeletionInv, At, Home
<1>12. ASSUME NEW r \in Records PROVE RecordInv(r)'
  <2>1. FoundByVector(At(r))' <=> FoundByVector(At(r))
    BY <1>10
  <2>2. rows' \ {At(q)} = rows \ {At(q)}
    BY <1>1, <1>5
  <2>3. QED
    BY <1>1, <1>4, <1>6, <1>7, <1>9, <1>11, <2>1, <2>2, DeletionSteps
<1>13. QED
  BY <1>8, <1>12 DEF FoundInv, RecordInv, At, Home

LEMMA DeleteFtsRoom ==
    ASSUME RoomInv, HInv', KeysKept, NEW c \in Workers, DeleteFts(c)
    PROVE  FoundInv'
<1>1. /\ work[c].pc = "drop" /\ Goto(c, "unvec")
      /\ CanOpenFts(work[c].inst) /\ Settle(FtsOpened(c))
      /\ CacheUnchanged /\ UNCHANGED <<rows, saved, acked, deleted>>
      /\ fts' = fts \ {Doc(c)}
  BY DEF DeleteFts
<1>2. MapInv /\ HInv /\ HandlesInv /\ HomeInv
  BY DEF RoomInv, FoundInv, MapInv
<1>3. /\ work[c] \in DeleteWork /\ work[c].inst \in Instances /\ work[c].rec \in Records
      /\ DeletionInv(c, work[c].rec)
  BY <1>1, DeleteFacts DEF DeletePcs
<1>4. PICK q \in Records : q = work[c].rec
  BY <1>3
<1>5. Key(c) = Home(q) /\ Doc(c) = At(q)
  BY <1>1, <1>3, <1>4 DEF DeletionInv, Doc, At
<1>6. PICK w \in Work : /\ work' = [work EXCEPT ![c] = w]
                        /\ w.pc = "unvec" /\ w.inst = work[c].inst /\ w.rec = work[c].rec
  BY <1>1, <1>2, <1>3, PcGoes DEF HInv
<1>7. w.pc \notin AddPcs /\ w.pc \in DeletePcs /\ work[c].pc \in DeletePcs
  BY <1>1, <1>6 DEF AddPcs, DeletePcs
<1>8. HandlesInv' /\ HomeInv'
  <2>1. rows' \subseteq rows /\ fts' \subseteq fts
    BY <1>1
  <2>2. QED
    BY <1>1, <1>2, <1>3, <1>6, <1>7, <2>1, PlainRoom
<1>9. work'[c] = w /\ \A b \in Workers \ {c} : work'[b] = work[b]
  BY <1>2, <1>6 DEF HInv, Typed
<1>10. ASSUME NEW r \in Records PROVE FoundByVector(At(r))' <=> FoundByVector(At(r))
  BY <1>1, <1>2, <1>3, ViewCall DEF At, Home
<1>11. DeletionInv(c, q)'
  <2>1. Key(c)' = Key(c)
    BY <1>3, <1>6, <1>9, KeyStays
  <2>2. QED
    BY <1>1, <1>5, <1>6, <1>9, <2>1 DEF DeletionInv, At, Home
<1>12. ASSUME NEW r \in Records PROVE RecordInv(r)'
  <2>1. FoundByVector(At(r))' <=> FoundByVector(At(r))
    BY <1>10
  <2>2. fts' \ {At(q)} = fts \ {At(q)}
    BY <1>1, <1>5
  <2>3. QED
    BY <1>1, <1>4, <1>6, <1>7, <1>9, <1>11, <2>1, <2>2, DeletionSteps
<1>13. QED
  BY <1>8, <1>12 DEF FoundInv, RecordInv, At, Home

LEMMA DeleteVecRoom ==
    ASSUME RoomInv, MapInv', KeysKept, NEW c \in Workers, DeleteVec(c)
    PROVE  FoundInv'
<1> DEFINE es == Vectors(work[c].inst) \ {Doc(c)}
<1>1. /\ work[c].pc = "unvec" /\ work' = [work EXCEPT ![c] = Idle]
      /\ Settle(VecHolds(c, es))
      /\ CacheUnchanged /\ UNCHANGED <<rows, fts, saved, acked, deleted>>
  BY DEF DeleteVec, Done
<1>2. MapInv /\ HInv /\ HInv' /\ MapIsOpenShards' /\ HandlesInv /\ HomeInv
  BY DEF RoomInv, FoundInv, MapInv
<1>3. /\ work[c] \in DeleteWork /\ work[c].inst \in Instances /\ work[c].inst \in cached
      /\ work[c].rec \in Records /\ DeletionInv(c, work[c].rec)
  BY <1>1, DeleteFacts DEF DeletePcs
<1>4. PICK q \in Records : q = work[c].rec
  BY <1>3
<1>5. Key(c) = Home(q) /\ Doc(c) = At(q) /\ At(q) \notin fts
  BY <1>1, <1>3, <1>4 DEF DeletionInv, Doc, At
<1>6. es \in SUBSET Entry /\ es \subseteq {e \in Indexed \cup {} : e[1] = Key(c)}
  <2>1. Vectors(work[c].inst) \subseteq Entry
    BY <1>2, <1>3, VectorsFrom DEF HInv
  <2>2. Vectors(work[c].inst) \subseteq {e \in Indexed : e[1] = inst[work[c].inst].key}
    BY <1>2, <1>3, VectorsHere
  <2>3. QED
    BY <2>1, <2>2 DEF Key
<1>7. EngineCall(c, es)
  BY <1>1 DEF EngineCall
<1> HIDE DEF es
<1>8. HandlesInv' /\ HomeInv'
  <2>1. Idle.pc \notin AddPcs /\ Idle.inst = NoHandle /\ Idle \in Work
    BY IdleWork DEF AddPcs
  <2>2. rows' \subseteq rows \cup {} /\ fts' \subseteq fts \cup {} /\ saved' = saved
    BY <1>1
  <2>3. QED
    BY <1>1, <1>2, <1>3, <1>6, <1>7, <2>1, <2>2, CallRoom
<1>9. work'[c].pc = "idle" /\ \A b \in Workers \ {c} : work'[b] = work[b]
  BY <1>1, <1>2, IdleWork DEF HInv, Typed
<1>10. ASSUME NEW r \in Records
       PROVE  /\ r # q => (FoundByVector(At(r))' <=> FoundByVector(At(r)))
              /\ r = q => ~FoundByVector(At(r))'
  <2>0. cached' = cached /\ saved' = saved
    BY <1>1 DEF CacheUnchanged
  <2>1. /\ At(r)[1] = Key(c) => (FoundByVector(At(r))' <=> At(r) \in es)
        /\ At(r)[1] # Key(c) => (FoundByVector(At(r))' <=> FoundByVector(At(r)))
    BY <1>1, <1>2, <1>3, <1>6, <2>0, ViewHolds DEF At, Home
  <2>2. At(r)[1] = Key(c) => (FoundByVector(At(r)) <=> At(r) \in Vectors(work[c].inst))
    BY <1>2, <1>3, ViewOf DEF Key, MapInv
  <2>3. r # q => At(r) # Doc(c)
    BY <1>5 DEF At
  <2>4. r = q => At(r) = Doc(c) /\ At(r)[1] = Key(c)
    BY <1>5 DEF Doc
  <2>5. QED
    BY <2>1, <2>2, <2>3, <2>4 DEF es
<1>11. ASSUME NEW r \in Records PROVE RecordInv(r)'
  <2>1. r # q => (FoundByVector(At(r))' <=> FoundByVector(At(r)))
    BY <1>10
  <2>2. At(q) \notin fts' /\ ~FoundByVector(At(q))'
    BY <1>1, <1>5, <1>10
  <2>3. work[c].pc \in DeletePcs /\ work'[c].pc \notin DeletePcs /\ work'[c].pc \notin AddPcs
    BY <1>1, <1>9 DEF DeletePcs, AddPcs
  <2>4. QED
    BY <1>1, <1>4, <1>9, <2>1, <2>2, <2>3, DeletionSteps
<1>12. QED
  BY <1>8, <1>11 DEF FoundInv, RecordInv, At, Home

\* Searches leave every record as it is, found or not.
LEMMA SearchRoom ==
    ASSUME RoomInv, HInv', KeysKept, NEW c \in Workers, Search(c)
    PROVE  FoundInv'
<1>1. /\ work[c].pc = "search" /\ work' = [work EXCEPT ![c] = Idle]
      /\ CanOpenFts(work[c].inst) /\ Settle(FtsOpened(c))
      /\ CacheUnchanged /\ UNCHANGED <<rows, fts, saved, acked, deleted>>
  BY DEF Search, Done
<1>2. MapInv /\ HInv /\ HandlesInv /\ HomeInv
  BY DEF RoomInv, FoundInv, MapInv
<1>3. work[c].inst \in Instances
  BY <1>1, <1>2, ByPc DEF HInv
<1>4. HandlesInv' /\ HomeInv'
  <2>1. rows' \subseteq rows /\ fts' \subseteq fts /\ Idle.pc \notin AddPcs
    BY <1>1, IdleWork DEF AddPcs
  <2>2. QED
    BY <1>1, <1>2, <1>3, <2>1, IdleWork, PlainRoom
<1>5. work'[c].pc = "idle" /\ \A b \in Workers \ {c} : work'[b] = work[b]
  BY <1>1, <1>2, IdleWork DEF HInv, Typed
<1>6. ASSUME NEW r \in Records PROVE FoundByVector(At(r))' <=> FoundByVector(At(r))
  BY <1>1, <1>2, <1>3, ViewCall DEF At, Home
<1>7. ASSUME NEW r \in Records PROVE RecordInv(r)'
  <2>1. ~Adds(c, r) /\ ~Deletes(c, r) /\ ~Adds(c, r)' /\ ~Deletes(c, r)'
    BY <1>1, <1>5 DEF Adds, Deletes, AddPcs, DeletePcs
  <2>2. RecordInv(r) /\ (FoundByVector(At(r))' <=> FoundByVector(At(r)))
    BY <1>6 DEF RoomInv, FoundInv
  <2>3. \A b \in Workers :
           \/ work'[b] = work[b]
           \/ ~Adds(b, r) /\ ~Deletes(b, r) /\ ~Adds(b, r)' /\ ~Deletes(b, r)'
    BY <1>5, <2>1
  <2>4. QED
    BY <1>1, <1>2, <2>2, <2>3, RecordStays
<1>8. QED
  BY <1>4, <1>7 DEF FoundInv, RecordInv, At, Home

LEMMA SearchBeginRoom ==
    ASSUME Roomy, RoomInv, MapInv', KeysKept, NEW c \in Workers, SearchBegin(c)
    PROVE  FoundInv'
<1> DEFINE next == [pc |-> "search", inst |-> NoHandle]
<1>1. PICK row \in catalog : Acquire(c, row[1], next)
  BY DEF SearchBegin
<1>2. work[c].pc = "idle" /\ UNCHANGED <<acked, deleted>>
  BY DEF SearchBegin
<1>3. MapInv /\ HInv /\ HInv' /\ HandlesInv /\ HomeInv
  BY DEF RoomInv, FoundInv, MapInv
<1>4. row[1] \in Times
  BY <1>1, <1>3 DEF HInv, Typed, CacheTyped
<1>5. ASSUME NEW i \in Instances
      PROVE  [next EXCEPT !.inst = i].inst = i /\ [next EXCEPT !.inst = i].pc = "search"
  OBVIOUS
<1> HIDE DEF next
<1>6. ASSUME NEW i \in Instances
      PROVE  /\ [next EXCEPT !.inst = i].inst = i
             /\ [next EXCEPT !.inst = i].pc \in AddPcs =>
                   align_to_duration(row[1], Width) = Home([next EXCEPT !.inst = i].rec)
  BY <1>5 DEF AddPcs
<1>7. HandlesInv' /\ HomeInv'
  BY <1>1, <1>3, <1>4, <1>6, AcquireRoom
<1>8. PICK i \in Instances : Takes(c, row[1], next, i)
  BY <1>1, <1>3, <1>4, RoomAcquire
<1>9. work' = [work EXCEPT ![c] = [next EXCEPT !.inst = i]] /\ rows' = rows /\ fts' = fts
  BY <1>8 DEF Takes
<1>10. work'[c].pc = "search" /\ \A b \in Workers \ {c} : work'[b] = work[b]
  BY <1>3, <1>5, <1>9 DEF HInv, Typed
<1>11. ASSUME NEW r \in Records PROVE FoundByVector(At(r))' <=> FoundByVector(At(r))
  BY <1>8, TakenView DEF At, Home
<1>12. ASSUME NEW r \in Records PROVE RecordInv(r)'
  <2>1. ~Adds(c, r) /\ ~Deletes(c, r) /\ ~Adds(c, r)' /\ ~Deletes(c, r)'
    BY <1>2, <1>10 DEF Adds, Deletes, AddPcs, DeletePcs
  <2>2. RecordInv(r) /\ (FoundByVector(At(r))' <=> FoundByVector(At(r)))
    BY <1>11 DEF RoomInv, FoundInv
  <2>3. \A b \in Workers :
           \/ work'[b] = work[b]
           \/ ~Adds(b, r) /\ ~Deletes(b, r) /\ ~Adds(b, r)' /\ ~Deletes(b, r)'
    BY <1>10, <2>1
  <2>4. QED
    BY <1>2, <1>3, <1>9, <2>2, <2>3, RecordStays
<1>13. QED
  BY <1>7, <1>12 DEF FoundInv, RecordInv, At, Home

\* The cached instance is the only one of its shard: it always gets the lock.
LEMMA NeverLocked == ASSUME RoomInv, NEW c \in Workers PROVE ~FtsLocked(c)
<1> SUFFICES ASSUME FtsLocked(c) PROVE FALSE
  OBVIOUS
<1>1. work[c].inst \in Instances
  BY ByPc DEF FtsLocked, RoomInv, MapInv, HInv
<1>2. QED
  BY <1>1, HandleFacts DEF FtsLocked


\* sync(), and a stop when nothing runs: files are written, nothing is found
\* that was not, and nothing is lost.
LEMMA ServerRoom ==
    ASSUME RoomInv, HInv', KeysKept, Settle(inst), NEW is \in SUBSET cached,
           saved' = saved \/ saved' = Synced(is),
           cached' = cached \/ (cached' = {} /\ is = cached /\ saved' = Synced(is)),
           Held(work', syncing') \subseteq cached' \cup {NoHandle},
           syncing'.todo \subseteq syncing'.held,
           \A c \in Workers : work'[c] = work[c] \/ (work[c].pc = "idle" /\ work'[c].pc = "idle"),
           UNCHANGED <<catalog, rows, fts, acked, deleted>>
    PROVE  FoundInv'
<1>1. MapInv /\ HInv /\ HandlesInv /\ HomeInv
  BY DEF RoomInv, FoundInv, MapInv
<1>2. inst \in [Instances -> Instance] /\ cached \subseteq Instances /\ cached' \subseteq Instances
  BY <1>1 DEF HInv, InstInv
<1>3. \A i \in Instances : inst'[i] = inst[i] \/ inst'[i] = NoInstance
  BY <1>2, Settled
<1>4. HandlesInv'
  <2>1. NoInstance.vec = {}
    BY DEF NoInstance
  <2>2. \A i \in Instances : \A e \in inst'[i].vec : e[1] = inst'[i].key
    BY <1>1, <1>3, <2>1 DEF HandlesInv, OwnKeys
  <2>3. QED
    BY <2>2 DEF HandlesInv, OwnKeys
<1>5. Indexed' \subseteq Indexed \cup {}
  <2>1. NoInstance.vec = {}
    BY DEF NoInstance
  <2>2. \A i \in Instances : inst'[i].vec \subseteq Indexed \cup {}
    BY <1>3, <2>1 DEF Indexed
  <2>3. saved' \subseteq saved \cup {} \cup UNION {inst[i].vec : i \in Instances}
    <3>1. is \in SUBSET Instances
      BY <1>2
    <3>2. QED
      BY <1>1, <3>1, SyncedFrom DEF HInv
  <2>4. QED
    BY <2>2, <2>3, IndexedFrom
<1>6. HomeInv'
  <2>1. \A e \in rows' \cup Indexed' : e[1] = Home(e[2])
    BY <1>1, <1>5 DEF HomeInv
  <2>2. \A e \in rows' : e[1] \in catalog'
    BY <1>1 DEF HomeInv
  <2>3. ASSUME NEW b \in Workers, work'[b].pc \in AddPcs
        PROVE  Key(b)' = Home(work'[b].rec) /\ Key(b)' \in catalog'
    <3>1. work'[b] = work[b]
      BY <2>3 DEF AddPcs
    <3>2. work[b].inst \in Instances
      BY <1>1, <2>3, <3>1, ByPc DEF HInv, AddPcs
    <3>3. Key(b)' = Key(b)
      BY <3>1, <3>2, KeyStays
    <3>4. QED
      BY <1>1, <2>3, <3>1, <3>3 DEF HomeInv, AddPcs
  <2>4. QED
    BY <2>1, <2>2, <2>3 DEF HomeInv, Home, AddPcs
<1>7. ASSUME NEW r \in Records PROVE FoundByVector(At(r))' <=> FoundByVector(At(r))
  <2>1. cached' = cached => \A i \in cached : inst'[i] = inst[i]
    BY <1>2, CachedSettled
  <2>2. CASE saved' = Synced(is)
    BY <1>1, <2>1, <2>2, ViewSynced DEF At, Home, HandlesInv
  <2>3. CASE saved' = saved /\ cached' = cached
    BY <2>1, <2>3, ViewStays DEF At, Home
  <2>4. QED
    BY <2>2, <2>3
<1>8. ASSUME NEW r \in Records PROVE RecordInv(r)'
  <2>1. RecordInv(r) /\ (FoundByVector(At(r))' <=> FoundByVector(At(r)))
    BY <1>7 DEF RoomInv, FoundInv
  <2>2. \A b \in Workers :
           \/ work'[b] = work[b]
           \/ ~Adds(b, r) /\ ~Deletes(b, r) /\ ~Adds(b, r)' /\ ~Deletes(b, r)'
    BY DEF Adds, Deletes, AddPcs, DeletePcs
  <2>3. QED
    BY <1>1, <2>1, <2>2, RecordStays
<1>9. QED
  BY <1>4, <1>6, <1>8 DEF FoundInv, RecordInv, At, Home

LEMMA SyncBeginRoom == ASSUME RoomInv, HInv', KeysKept, SyncBegin PROVE FoundInv'
<1>1. /\ syncing' = [held |-> cached, todo |-> cached] /\ Settle(inst)
      /\ UNCHANGED <<cached, work, catalog, rows, fts, saved, acked, deleted>>
  BY DEF SyncBegin, vars
<1>2. Held(work', syncing') \subseteq cached' \cup {NoHandle}
      /\ syncing'.todo \subseteq syncing'.held
  BY <1>1 DEF Held, RoomInv, FoundInv, HandlesInv, OwnKeys
<1>3. {} \in SUBSET cached
  OBVIOUS
<1>4. QED
  BY <1>1, <1>2, <1>3, ServerRoom

LEMMA SyncOneRoom ==
    ASSUME RoomInv, HInv', KeysKept, NEW i \in Instances, SyncOne(i) PROVE FoundInv'
<1>1. /\ i \in syncing.todo
      /\ syncing' = [syncing EXCEPT !.todo = @ \ {i}] /\ Settle(inst)
      /\ saved' = Synced({i})
      /\ UNCHANGED <<cached, work, catalog, rows, fts, acked, deleted>>
  BY DEF SyncOne, vars
<1>2. syncing \in [held : SUBSET Instances, todo : SUBSET Instances] /\ HandlesInv
      /\ cached \subseteq Instances
  BY DEF RoomInv, FoundInv, MapInv, HInv, InstInv
<1>3. syncing'.held = syncing.held /\ syncing'.todo \subseteq syncing.todo
  BY <1>1, <1>2
<1>4. Held(work', syncing') \subseteq cached' \cup {NoHandle}
      /\ syncing'.todo \subseteq syncing'.held
  BY <1>1, <1>2, <1>3 DEF Held, HandlesInv, OwnKeys
<1>5. {i} \in SUBSET cached
  <2>1. i \in syncing.held
    BY <1>1, <1>2 DEF HandlesInv, OwnKeys
  <2>2. i \in cached
    BY <1>2, <2>1, HandleAssumption DEF HandlesInv, OwnKeys, Held
  <2>3. QED
    BY <2>2
<1>6. QED
  BY <1>1, <1>4, <1>5, ServerRoom

LEMMA SyncEndRoom == ASSUME RoomInv, HInv', KeysKept, SyncEnd PROVE FoundInv'
<1>1. /\ syncing' = NoSync /\ Settle(inst)
      /\ UNCHANGED <<cached, work, catalog, rows, fts, saved, acked, deleted>>
  BY DEF SyncEnd, vars
<1>2. Held(work', syncing') \subseteq cached' \cup {NoHandle}
      /\ syncing'.todo \subseteq syncing'.held
  BY <1>1 DEF NoSync, Held, RoomInv, FoundInv, HandlesInv, OwnKeys
<1>3. {} \in SUBSET cached
  OBVIOUS
<1>4. QED
  BY <1>1, <1>2, <1>3, ServerRoom

LEMMA StopRoom == ASSUME RoomInv, HInv', KeysKept, Stop PROVE FoundInv'
<1>1. /\ cached' = {} /\ syncing' = NoSync /\ work' = [c \in Workers |-> Idle] /\ Settle(inst)
      /\ saved' = Synced(cached)
      /\ \A c \in Workers : work[c].pc = "idle"
      /\ UNCHANGED <<catalog, rows, fts, acked, deleted>>
  BY DEF Stop, Reopen, Restart
<1>2. \A c \in Workers : work'[c].pc = "idle" /\ work'[c].inst = NoHandle
  BY <1>1, IdleWork
<1>3. Held(work', syncing') \subseteq cached' \cup {NoHandle}
      /\ syncing'.todo \subseteq syncing'.held
  BY <1>1, <1>2 DEF NoSync, Held
<1>4. cached \in SUBSET cached
  OBVIOUS
<1>5. QED
  BY <1>1, <1>2, <1>3, <1>4, ServerRoom

-----------------------------------------------------------------------------
LEMMA WorkerRoom ==
    ASSUME Roomy, RoomInv, MapInv', KeysKept, NEW c \in Workers, WorkerStep(c)
    PROVE  FoundInv'
<1>0. HInv'
  BY DEF MapInv
<1>1. CASE \E r \in Records, kind \in {"add", "batch"} : AddBegin(c, r, kind)
  BY <1>1, AddBeginRoom
<1>2. CASE \E r \in Records : DeleteBegin(c, r)
  BY <1>0, <1>2, DeleteBeginRoom
<1>3. CASE AddDuplicate(c) \/ AddRow(c)
  BY <1>0, <1>3, AddDuplicateRoom, AddRowRoom
<1>4. CASE AddFts(c) \/ AddVec(c)
  BY <1>0, <1>4, AddFtsRoom, AddVecRoom
<1>5. CASE FtsLocked(c)
  BY <1>5, NeverLocked
<1>6. CASE DeleteVisit(c)
  BY <1>6, DeleteVisitRoom
<1>7. CASE DeleteMiss(c) \/ DeleteRow(c)
  BY <1>0, <1>7, DeleteMissRoom, DeleteRowRoom
<1>8. CASE DeleteFts(c) \/ DeleteVec(c)
  BY <1>0, <1>8, DeleteFtsRoom, DeleteVecRoom
<1>9. CASE SearchBegin(c) \/ Search(c)
  BY <1>0, <1>9, SearchBeginRoom, SearchRoom
<1>10. QED
  BY <1>1, <1>2, <1>3, <1>4, <1>5, <1>6, <1>7, <1>8, <1>9 DEF WorkerStep

\* Whom an answer can be about.
LEMMA NamesStep ==
    ASSUME HInv, acked \subseteq Records, deleted \subseteq Records, [HNext]_hvars
    PROVE  acked' \subseteq Records /\ deleted' \subseteq Records
<1>1. CASE \E c \in Workers : AddDuplicate(c) \/ AddFts(c) \/ AddVec(c)
  <2>1. PICK c \in Workers : AddDuplicate(c) \/ AddFts(c) \/ AddVec(c)
    BY <1>1
  <2>2. work[c] \in AddWork
    BY <2>1, ByPc DEF HInv, AddDuplicate, AddFts, AddVec
  <2>3. work[c].rec \in Records
    BY <2>2 DEF AddWork
  <2>4. QED
    BY <2>1, <2>3 DEF AddDuplicate, AddFts, AddVec, Ack
<1>2. CASE \E c \in Workers, r \in Records : DeleteBegin(c, r)
  BY <1>2 DEF DeleteBegin
<1>3. CASE \E c \in Workers : \/ \E r \in Records, kind \in {"add", "batch"} : AddBegin(c, r, kind)
                              \/ AddRow(c) \/ FtsLocked(c) \/ DeleteVisit(c) \/ DeleteMiss(c)
                              \/ DeleteRow(c) \/ DeleteFts(c) \/ DeleteVec(c)
                              \/ SearchBegin(c) \/ Search(c)
  BY <1>3 DEF AddBegin, AddRow, FtsLocked, DeleteVisit, DeleteMiss, DeleteRow, DeleteFts,
              DeleteVec, SearchBegin, Search
<1>4. CASE SyncBegin \/ SyncEnd \/ (\E i \in Instances : SyncOne(i)) \/ CloseCache \/ Stop \/ Crash
  BY <1>4 DEF SyncBegin, SyncEnd, SyncOne, CloseCache, Stop, Crash, Reopen
<1>5. CASE UNCHANGED hvars
  BY <1>5 DEF hvars, handleVars
<1>6. QED
  BY <1>1, <1>2, <1>3, <1>4, <1>5 DEF HNext, WorkerStep

LEMMA RoomStep == ASSUME Roomy, RoomInv, [HNext]_hvars PROVE RoomInv'
<1>1. MapInv /\ MapInv' /\ KeysKept /\ HInv'
  <2>1. SingleWidth(Width) /\ MapInv
    BY DEF Roomy, RoomInv
  <2>2. QED
    BY <2>1, MapInvStep DEF MapInv
<1>2. CASE UNCHANGED hvars
  <2>1. UNCHANGED <<catalog, inst, cached, work, syncing, rows, fts, saved, acked, deleted>>
    BY <1>2 DEF hvars, vars, handleVars
  <2>2. HandlesInv'
    BY <2>1 DEF RoomInv, FoundInv, HandlesInv, OwnKeys, Held
  <2>3. HomeInv'
    BY <2>1 DEF RoomInv, FoundInv, HomeInv, Indexed, Key, Home
  <2>4. ASSUME NEW r \in Records PROVE RecordInv(r)'
    <3>1. FoundByVector(At(r))' <=> FoundByVector(At(r))
      BY <2>1, ViewStays DEF At, Home
    <3>2. RecordInv(r) /\ HInv
      BY DEF RoomInv, FoundInv, MapInv
    <3>3. QED
      BY <1>1, <2>1, <3>1, <3>2, RecordStays
  <2>5. FoundInv'
    BY <2>2, <2>3, <2>4 DEF FoundInv, RecordInv, At, Home
  <2>6. QED
    BY <1>1, <2>5 DEF RoomInv
<1>3. CASE \E c \in Workers : WorkerStep(c)
  BY <1>1, <1>3, WorkerRoom DEF RoomInv
<1>4. CASE SyncBegin \/ SyncEnd \/ \E i \in Instances : SyncOne(i)
  BY <1>1, <1>4, SyncBeginRoom, SyncEndRoom, SyncOneRoom DEF RoomInv
<1>5. CASE CloseCache \/ Crash
  BY <1>5 DEF Roomy, CloseCache, Crash
<1>6. CASE Stop
  BY <1>1, <1>6, StopRoom DEF RoomInv
<1>7. QED
  BY <1>2, <1>3, <1>4, <1>5, <1>6 DEF HNext

LEMMA RoomInit == Roomy /\ HInit => RoomInv
<1> SUFFICES ASSUME Roomy, HInit PROVE RoomInv
  OBVIOUS
<1>1. /\ cached = {} /\ syncing = NoSync
      /\ inst = [i \in Instances |-> NoInstance] /\ open = {}
      /\ rows = {} /\ fts = {} /\ saved = {} /\ acked = {} /\ deleted = {}
      /\ work = [c \in Workers |-> Idle]
  BY DEF HInit, Init
<1>2. \A c \in Workers : work[c].pc = "idle" /\ work[c].inst = NoHandle
  BY <1>1, IdleWork
<1>3. MapInv
  BY MapInit
<1>4. NoInstance.vec = {}
  BY DEF NoInstance
<1>5. HandlesInv
  BY <1>1, <1>2, <1>4 DEF HandlesInv, OwnKeys, Held, NoSync
<1>6. HomeInv
  <2>1. Indexed = {}
    BY <1>1, <1>4 DEF Indexed
  <2>2. QED
    BY <1>1, <1>2, <2>1 DEF HomeInv
<1>7. ASSUME NEW r \in Records PROVE RecordInv(r)
  BY <1>1, <1>2 DEF RecordInv, Adds, Deletes, OwesFts, OwesVec, AddPcs, DeletePcs
<1>8. QED
  BY <1>3, <1>5, <1>6, <1>7 DEF RoomInv, FoundInv

Answers == acked \subseteq Records /\ deleted \subseteq Records

LEMMA RoomSpec == ASSUME Roomy PROVE HSpec => [](RoomInv /\ Answers)
<1>1. HInit => RoomInv /\ Answers
  BY RoomInit DEF HInit, Answers
<1>2. RoomInv /\ Answers /\ [HNext]_hvars => (RoomInv /\ Answers)'
  BY RoomStep, NamesStep DEF RoomInv, MapInv, Answers
<1>3. QED
  BY <1>1, <1>2, PTL DEF HSpec

\* With no call busy with it, nothing is owed and nobody deletes.
LEMMA QuietRecord ==
    ASSUME RoomInv, NEW r \in Records, Quiet(r)
    PROVE  \A c \in Workers : ~OwesFts(c, r) /\ ~OwesVec(c, r) /\ ~Deletes(c, r)
<1> SUFFICES ASSUME NEW c \in Workers PROVE ~Adds(c, r) /\ ~Deletes(c, r)
  BY DEF OwesFts, OwesVec
<1>1. work[c].pc \in AddPcs \cup DeletePcs => work[c] \in AddWork \cup VisitWork \cup DeleteWork
  BY ByPc DEF RoomInv, MapInv, HInv, AddPcs, DeletePcs
<1>2. work[c].pc \in AddPcs \cup DeletePcs => "rec" \in DOMAIN work[c]
  BY <1>1 DEF AddWork, VisitWork, DeleteWork
<1>3. QED
  BY <1>2 DEF Quiet, Adds, Deletes

\* Where every shard stays open until an orderly stop, what an add answered
\* Ok to is found by text and by meaning, across sync() and restarts, with
\* any number of adds, batches, searches and deletions at work at once
\* (shardsmanager.rs, shard.rs).
THEOREM AddedIsFound == ASSUME Roomy PROVE HSpec => []AckedIsFound
<1>1. RoomInv /\ Answers => AckedIsFound
  <2> SUFFICES ASSUME RoomInv, Answers, NEW r \in acked, Quiet(r)
               PROVE  \E key \in catalog : /\ <<key, r>> \in rows
                                           /\ <<key, r>> \in fts
                                           /\ FoundByVector(<<key, r>>)
    BY DEF AckedIsFound
  <2>1. r \in Records /\ RecordInv(r) /\ HomeInv
    BY DEF Answers, RoomInv, FoundInv
  <2>2. At(r) \in rows /\ At(r) \in fts /\ FoundByVector(At(r))
    BY <2>1, QuietRecord DEF RecordInv
  <2>3. Home(r) \in catalog
    BY <2>1, <2>2 DEF HomeInv, At
  <2>4. QED
    BY <2>2, <2>3 DEF At
<1>2. QED
  BY <1>1, RoomSpec, PTL

\* A deleted record is found by neither, under the same conditions: not by a
\* vector that was loaded before, nor by one that sync() wrote meanwhile.
THEOREM RemovedIsGone == ASSUME Roomy PROVE HSpec => []DeletedIsGone
<1>1. RoomInv /\ Answers => DeletedIsGone
  <2> SUFFICES ASSUME RoomInv, Answers, NEW r \in deleted, Quiet(r), NEW key \in catalog
               PROVE  <<key, r>> \notin fts /\ ~FoundByVector(<<key, r>>)
    BY DEF DeletedIsGone
  <2>1. r \in Records /\ RecordInv(r) /\ HomeInv
    BY DEF Answers, RoomInv, FoundInv
  <2>2. CASE key = Home(r)
    <3>1. At(r) \notin fts /\ ~FoundByVector(At(r))
      BY <2>1, QuietRecord DEF RecordInv
    <3>2. QED
      BY <2>2, <3>1 DEF At
  <2>3. CASE key # Home(r)
    <3>1. <<key, r>> \notin Indexed
      BY <2>1, <2>3 DEF HomeInv
    <3>2. cached \subseteq Instances
      BY DEF RoomInv, MapInv, HInv, InstInv
    <3>3. QED
      BY <3>1, <3>2 DEF Indexed, FoundByVector, Vectors
  <2>4. QED
    BY <2>2, <2>3
<1>2. QED
  BY <1>1, RoomSpec, PTL

-----------------------------------------------------------------------------
(* What is found by vector, whatever is evicted. *)

\* A deletion works on a record whose deletion was asked for.
Deleting == \A c \in Workers : work[c].pc \in DeletePcs => work[c].rec \in deleted

KeptInv == MapInv /\ OwnKeys /\ Deleting

\* A step of the server, or of a call that works on no vectors.
LEMMA OwnSettled ==
    ASSUME InstInv, OwnKeys, Settle(inst) PROVE OwnKeys'
<1>1. inst \in [Instances -> Instance] /\ NoInstance.vec = {}
  BY DEF InstInv, NoInstance
<1>2. \A i \in Instances : inst'[i] = inst[i] \/ inst'[i] = NoInstance
  BY <1>1, Settled
<1> QED
  BY <1>1, <1>2 DEF OwnKeys

LEMMA OwnCall ==
    ASSUME HInv, OwnKeys, NEW c \in Workers, NEW es \in SUBSET Entry, EngineCall(c, es),
           work[c].inst \in Instances, \A e \in es : e[1] = Key(c)
    PROVE  OwnKeys'
<1> SUFFICES ASSUME NEW i \in Instances, NEW e \in inst'[i].vec PROVE e[1] = inst'[i].key
  BY DEF OwnKeys
<1>1. /\ inst'[i].key = inst[i].key
      /\ inst'[i].vec \subseteq inst[i].vec \/ (i = work[c].inst /\ inst'[i].vec = es)
  BY EngineMem
<1> QED
  BY <1>1 DEF OwnKeys, Key

\* Vectors are read from what is saved of the own shard, and added to.
LEMMA OwnVectors ==
    ASSUME HInv, OwnKeys, NEW c \in Workers, work[c] \in AddWork \cup DeleteWork
    PROVE  /\ work[c].inst \in Instances /\ Doc(c) \in Entry
           /\ Vectors(work[c].inst) \in SUBSET Entry
           /\ \A e \in Vectors(work[c].inst) : e[1] = Key(c)
           /\ Doc(c)[1] = Key(c)
<1>1. work[c].inst \in Instances /\ Doc(c) \in Entry
  BY DocTyped
<1>2. Vectors(work[c].inst) \subseteq Entry
  BY <1>1, VectorsFrom DEF HInv
<1> QED
  BY <1>1, <1>2 DEF OwnKeys, Vectors, Key, Doc

LEMMA OwnAcquire ==
    ASSUME HInv, HInv', KeysKept, OwnKeys,
           \A i \in Instances : inst'[i].vec \subseteq inst[i].vec
    PROVE  OwnKeys'
<1> SUFFICES ASSUME NEW i \in Instances, NEW e \in inst'[i].vec PROVE e[1] = inst'[i].key
  BY DEF OwnKeys
<1>1. NoInstance.vec = {}
  BY DEF NoInstance
<1>2. e \in inst[i].vec
  OBVIOUS
<1>3. i \in Live /\ i \in Live'
  BY <1>1, <1>2 DEF HInv, InstInv
<1> QED
  BY <1>2, <1>3 DEF KeysKept, OwnKeys

\* The three calls of shard(): what they go on with, and that they look for
\* the shard of an instant.
LEMMA Acquires ==
    ASSUME HInv, NEW c \in Workers,
           \/ \E r \in Records, kind \in {"add", "batch"} : AddBegin(c, r, kind)
           \/ SearchBegin(c) \/ DeleteVisit(c)
    PROVE  \E t \in Times : \E next :
              /\ Acquire(c, t, next)
              /\ \A i \in Instances :
                    /\ [next EXCEPT !.inst = i].inst = i
                    /\ [next EXCEPT !.inst = i].pc \in DeletePcs =>
                          /\ work[c].pc \in DeletePcs
                          /\ [next EXCEPT !.inst = i].rec = work[c].rec
              /\ deleted' = deleted
<1>1. CASE \E r \in Records, kind \in {"add", "batch"} : AddBegin(c, r, kind)
  <2>1. PICK r \in Records, kind \in {"add", "batch"} : AddBegin(c, r, kind)
    BY <1>1
  <2> DEFINE next == [pc |-> "row", inst |-> NoHandle, rec |-> r, kind |-> kind]
  <2>2. Acquire(c, TimeOf[r], next) /\ TimeOf[r] \in Times /\ deleted' = deleted
    BY <2>1, HandleAssumption DEF AddBegin
  <2>3. \A i \in Instances : [next EXCEPT !.inst = i].inst = i
                             /\ [next EXCEPT !.inst = i].pc = "row"
    OBVIOUS
  <2> QED
    BY <2>2, <2>3 DEF DeletePcs
<1>2. CASE SearchBegin(c)
  <2> DEFINE next == [pc |-> "search", inst |-> NoHandle]
  <2>1. PICK row \in catalog : Acquire(c, row[1], next)
    BY <1>2 DEF SearchBegin
  <2>2. row[1] \in Times /\ deleted' = deleted
    BY <1>2 DEF HInv, Typed, CacheTyped, SearchBegin
  <2>3. \A i \in Instances : [next EXCEPT !.inst = i].inst = i
                             /\ [next EXCEPT !.inst = i].pc = "search"
    OBVIOUS
  <2> QED
    BY <2>1, <2>2, <2>3 DEF DeletePcs
<1>3. CASE DeleteVisit(c)
  <2>1. work[c] \in VisitWork /\ work[c].pc = "visit" /\ deleted' = deleted
    BY <1>3, ByPc DEF HInv, DeleteVisit
  <2>2. PICK row \in FirstRows(work[c].todo) :
           Acquire(c, row[1], [work[c] EXCEPT !.pc = "look", !.todo = @ \ {row}])
    BY <1>3 DEF DeleteVisit
  <2>3. row[1] \in Times
    BY <2>1 DEF HInv, Typed, CacheTyped, TodoInv, FirstRows
  <2> DEFINE next == [work[c] EXCEPT !.pc = "look", !.todo = @ \ {row}]
  <2>4. /\ next \in [pc : {"look"}, inst : {NoHandle}, rec : Records, todo : SUBSET Interval]
        /\ next.rec = work[c].rec
    BY <2>1 DEF VisitWork
  <2> HIDE DEF next
  <2>5. \A i \in Instances : [next EXCEPT !.inst = i].inst = i
                             /\ [next EXCEPT !.inst = i].rec = work[c].rec
    BY <2>4
  <2>6. Acquire(c, row[1], next)
    BY <2>2 DEF next
  <2> QED
    BY <2>1, <2>3, <2>5, <2>6 DEF DeletePcs
<1> QED
  BY <1>1, <1>2, <1>3

\* What the steps of a call do, as far as vectors go.
LEMMA Calls ==
    ASSUME NEW c \in Workers,
           \/ AddDuplicate(c) \/ AddRow(c) \/ AddFts(c) \/ FtsLocked(c)
           \/ (\E r \in Records : DeleteBegin(c, r))
           \/ DeleteMiss(c) \/ DeleteRow(c) \/ DeleteFts(c) \/ Search(c)
    PROVE  /\ CacheUnchanged /\ saved' = saved
           /\ \/ Settle(inst)
              \/ /\ work[c].pc \in {"fts", "drop", "search"}
                 /\ CanOpenFts(work[c].inst) /\ Settle(FtsOpened(c))
BY DEF AddDuplicate, AddRow, AddFts, FtsLocked, DeleteBegin, DeleteMiss, DeleteRow,
       DeleteFts, Search

LEMMA OwnStep ==
    ASSUME HInv, HInv', KeysKept, OwnKeys, [HNext]_hvars PROVE OwnKeys'
<1>1. CASE UNCHANGED hvars
  BY <1>1 DEF hvars, handleVars, OwnKeys
<1>2. CASE SyncBegin \/ SyncEnd \/ (\E i \in Instances : SyncOne(i))
           \/ CloseCache \/ Stop \/ Crash
  <2>1. Settle(inst)
    BY <1>2 DEF SyncBegin, SyncEnd, SyncOne, CloseCache, Stop, Crash, Reopen
  <2> QED
    BY <2>1, OwnSettled DEF HInv
<1>3. ASSUME NEW c \in Workers,
             \/ \E r \in Records, kind \in {"add", "batch"} : AddBegin(c, r, kind)
             \/ SearchBegin(c) \/ DeleteVisit(c)
      PROVE  OwnKeys'
  <2>1. PICK t \in Times : \E next :
           /\ Acquire(c, t, next)
           /\ \A i \in Instances : [next EXCEPT !.inst = i].inst = i
    BY <1>3, Acquires
  <2>2. PICK next : /\ Acquire(c, t, next)
                    /\ \A i \in Instances : [next EXCEPT !.inst = i].inst = i
    BY <2>1
  <2>3. \A i \in Instances : inst'[i].vec \subseteq inst[i].vec
    BY <2>2, AcquireStep DEF HInv
  <2> QED
    BY <2>3, OwnAcquire
<1>4. ASSUME NEW c \in Workers,
             \/ AddDuplicate(c) \/ AddRow(c) \/ AddFts(c) \/ FtsLocked(c)
             \/ (\E r \in Records : DeleteBegin(c, r))
             \/ DeleteMiss(c) \/ DeleteRow(c) \/ DeleteFts(c) \/ Search(c)
      PROVE  OwnKeys'
  <2>1. \/ Settle(inst)
        \/ /\ work[c].pc \in {"fts", "drop", "search"}
           /\ CanOpenFts(work[c].inst) /\ Settle(FtsOpened(c))
    BY <1>4, Calls
  <2>2. CASE Settle(inst)
    BY <2>2, OwnSettled DEF HInv
  <2>3. CASE work[c].pc \in {"fts", "drop", "search"}
             /\ CanOpenFts(work[c].inst) /\ Settle(FtsOpened(c))
    <3>1. work[c].inst \in Instances
      BY <2>3, ByPc DEF HInv
    <3>2. EngineCall(c, {}) /\ {} \in SUBSET Entry
      BY <2>3 DEF EngineCall
    <3> QED
      BY <3>1, <3>2, OwnCall
  <2> QED
    BY <2>1, <2>2, <2>3
<1>5. ASSUME NEW c \in Workers, AddVec(c) \/ DeleteVec(c) PROVE OwnKeys'
  <2>1. work[c] \in AddWork \cup DeleteWork
    BY <1>5, ByPc DEF HInv, AddVec, DeleteVec
  <2>2. PICK es \in SUBSET Entry : Settle(VecHolds(c, es)) /\ \A e \in es : e[1] = Key(c)
    BY <1>5, <2>1, OwnVectors DEF AddVec, DeleteVec
  <2>3. work[c].inst \in Instances /\ EngineCall(c, es)
    BY <2>1, <2>2, OwnVectors DEF EngineCall
  <2> QED
    BY <2>2, <2>3, OwnCall
<1> QED
  BY <1>1, <1>2, <1>3, <1>4, <1>5 DEF HNext, WorkerStep

\* Only a deletion that was asked for goes on deleting.
LEMMA DeletingStep ==
    ASSUME HInv, Deleting, [HNext]_hvars PROVE Deleting' /\ deleted \subseteq deleted'
<1>0. work \in [Workers -> Work] /\ Idle.pc = "idle"
  BY IdleWork DEF HInv, Typed
<1>1. CASE UNCHANGED hvars
  BY <1>1 DEF hvars, handleVars, Deleting
<1>2. CASE SyncBegin \/ SyncEnd \/ (\E i \in Instances : SyncOne(i))
           \/ CloseCache \/ Stop \/ Crash
  <2>1. deleted' = deleted /\ (work' = work \/ work' = [c \in Workers |-> Idle])
    BY <1>2 DEF SyncBegin, SyncEnd, SyncOne, CloseCache, Stop, Crash, Reopen
  <2> QED
    BY <1>0, <2>1 DEF Deleting, DeletePcs
<1>3. ASSUME NEW c \in Workers, NEW w, work' = [work EXCEPT ![c] = w],
             deleted \subseteq deleted',
             w.pc \in DeletePcs =>
                \/ w.rec \in deleted'
                \/ work[c].pc \in DeletePcs /\ w.rec = work[c].rec
      PROVE  Deleting' /\ deleted \subseteq deleted'
  <2>1. work'[c] = w /\ \A b \in Workers \ {c} : work'[b] = work[b]
    BY <1>0, <1>3
  <2> QED
    BY <1>3, <2>1 DEF Deleting
<1>4. ASSUME NEW c \in Workers,
             \/ \E r \in Records, kind \in {"add", "batch"} : AddBegin(c, r, kind)
             \/ SearchBegin(c) \/ DeleteVisit(c)
      PROVE  Deleting' /\ deleted \subseteq deleted'
  <2>1. PICK t \in Times : \E next :
              /\ Acquire(c, t, next)
              /\ \A i \in Instances :
                    [next EXCEPT !.inst = i].pc \in DeletePcs =>
                       /\ work[c].pc \in DeletePcs
                       /\ [next EXCEPT !.inst = i].rec = work[c].rec
              /\ deleted' = deleted
    BY <1>4, Acquires
  <2>2. PICK next :
              /\ Acquire(c, t, next)
              /\ \A i \in Instances :
                    [next EXCEPT !.inst = i].pc \in DeletePcs =>
                       /\ work[c].pc \in DeletePcs
                       /\ [next EXCEPT !.inst = i].rec = work[c].rec
              /\ deleted' = deleted
    BY <2>1
  <2>3. PICK i \in Instances : work' = [work EXCEPT ![c] = [next EXCEPT !.inst = i]]
    BY <2>2 DEF Acquire
  <2> QED
    BY <1>3, <2>2, <2>3
<1>5. ASSUME NEW c \in Workers, AddDuplicate(c) \/ FtsLocked(c) \/ Search(c) \/ DeleteVec(c)
      PROVE  Deleting' /\ deleted \subseteq deleted'
  <2>1. work' = [work EXCEPT ![c] = Idle] /\ deleted' = deleted
    BY <1>5 DEF AddDuplicate, FtsLocked, Search, DeleteVec, Done
  <2> QED
    BY <1>0, <1>3, <2>1 DEF DeletePcs
<1>6. ASSUME NEW c \in Workers, AddRow(c) \/ AddFts(c) \/ AddVec(c)
      PROVE  Deleting' /\ deleted \subseteq deleted'
  <2>1. work[c] \in AddWork /\ deleted' = deleted
    BY <1>6, ByPc DEF HInv, AddRow, AddFts, AddVec
  <2>2. Done(c) \/ \E pc \in {"fts", "vec"} : Goto(c, pc)
    BY <1>6 DEF AddRow, AddFts, AddVec
  <2>3. CASE Done(c)
    BY <1>0, <1>3, <2>1, <2>3 DEF Done, DeletePcs
  <2>4. CASE \E pc \in {"fts", "vec"} : Goto(c, pc)
    <3>1. PICK pc \in {"fts", "vec"} : Goto(c, pc)
      BY <2>4
    <3>2. PICK w \in Work : work' = [work EXCEPT ![c] = w] /\ w.pc = pc
      BY <2>1, <3>1, PcGoes DEF HInv
    <3> QED
      BY <1>3, <2>1, <3>2 DEF DeletePcs
  <2> QED
    BY <2>2, <2>3, <2>4
<1>7. ASSUME NEW c \in Workers, NEW r \in Records, DeleteBegin(c, r)
      PROVE  Deleting' /\ deleted \subseteq deleted'
  BY <1>3, <1>7 DEF DeleteBegin
<1>8. ASSUME NEW c \in Workers, DeleteMiss(c) PROVE Deleting' /\ deleted \subseteq deleted'
  <2>1. work[c] \in DeleteWork /\ work[c].pc = "look" /\ deleted' = deleted
    BY <1>8, ByPc DEF HInv, DeleteMiss
  <2>2. CASE Done(c)
    BY <1>0, <1>3, <2>1, <2>2 DEF Done, DeletePcs
  <2>3. CASE work' = [work EXCEPT ![c].pc = "visit", ![c].inst = NoHandle]
    <3> DEFINE w == [[work[c] EXCEPT !.pc = "visit"] EXCEPT !.inst = NoHandle]
    <3>1. w.rec = work[c].rec
      BY <2>1 DEF DeleteWork
    <3>2. work' = [work EXCEPT ![c] = w]
      BY <1>0, <2>3
    <3> QED
      BY <1>3, <2>1, <3>1, <3>2 DEF DeletePcs
  <2> QED
    BY <1>8, <2>2, <2>3 DEF DeleteMiss
<1>9. ASSUME NEW c \in Workers, DeleteRow(c) \/ DeleteFts(c)
      PROVE  Deleting' /\ deleted \subseteq deleted'
  <2>1. work[c] \in DeleteWork /\ work[c].pc \in DeletePcs /\ deleted' = deleted
    BY <1>9, ByPc DEF HInv, DeleteRow, DeleteFts, DeletePcs
  <2>2. PICK pc \in {"drop", "unvec"} : Goto(c, pc)
    BY <1>9 DEF DeleteRow, DeleteFts
  <2>3. PICK w \in Work : work' = [work EXCEPT ![c] = w] /\ w.rec = work[c].rec
    BY <2>1, <2>2, PcGoes DEF HInv
  <2> QED
    BY <1>3, <2>1, <2>3
<1> QED
  BY <1>1, <1>2, <1>4, <1>5, <1>6, <1>7, <1>8, <1>9 DEF HNext, WorkerStep

LEMMA KeptStep ==
    ASSUME NEW d, SingleWidth(d), KeptInv, [HNext]_hvars PROVE KeptInv'
<1>1. MapInv' /\ KeysKept
  BY MapInvStep DEF KeptInv
<1>2. OwnKeys' /\ Deleting'
  BY <1>1, OwnStep, DeletingStep DEF KeptInv, MapInv
<1> QED
  BY <1>1, <1>2 DEF KeptInv

\* A call of shard() changes nothing that is found: what it pushes out is
\* written, what it opens has nothing in memory yet.
LEMMA ViewAcquire ==
    ASSUME NEW d, SingleWidth(d), KeptInv, NEW c \in Workers, NEW t \in Times,
           NEW next, Acquire(c, t, next), NEW e
    PROVE  FoundByVector(e)' <=> FoundByVector(e)
<1>1. PICK key \in Candidates(t), i \in Instances : GetHit(t, key, i) \/ GetOpen(t, key, i)
  BY DEF Acquire
<1>2. /\ inst \in [Instances -> Instance] /\ cached \subseteq Instances
      /\ open = {inst[j].key : j \in cached}
      /\ \A j, k \in cached : inst[j].key = inst[k].key => j = k
      /\ \A j \in cached : \A x \in inst[j].vec : x[1] = inst[j].key
      /\ cached \subseteq Live
  BY DEF KeptInv, MapInv, HInv, InstInv, MapIsOpenShards, OwnKeys, Live
<1>3. CASE GetHit(t, key, i)
  <2>1. cached' = cached /\ saved' = saved /\ Settle(inst)
    BY <1>3 DEF GetHit
  <2>2. \A j \in cached : inst'[j] = inst[j]
    BY <1>2, <2>1, CachedSettled
  <2> QED
    BY <2>1, <2>2, ViewStays
<1>4. CASE GetOpen(t, key, i)
  <2> DEFINE fresh == [NoInstance EXCEPT !.key = key]
             new == [inst EXCEPT ![i] = fresh]
             pushed == {j \in cached : inst[j].key \notin open'}
  <2>1. /\ i \in Instances \ Live
        /\ cached' = {j \in cached : inst[j].key \in open' \ {key}} \cup {i}
        /\ saved' = Synced(pushed) /\ Settle(new)
        /\ key \notin open /\ key \in open'
    BY <1>4, MissBringsKey DEF GetOpen, NewInstance, Acquire, KeptInv, MapInv, AllInv
  <2>2. fresh.key = key /\ fresh.vec = {} /\ ~fresh.loaded
    BY DEF NoInstance
  <2>3. i \notin cached /\ cached' \subseteq Instances /\ i \in cached'
    BY <1>2, <2>1
  <2>4. inst'[i] = fresh /\ \A j \in cached' \ {i} : inst'[j] = inst[j]
    <3>1. \A j \in cached' : inst'[j] = new[j]
      BY <2>1, <2>3 DEF Settle
    <3>2. new[i] = fresh /\ \A j \in Instances \ {i} : new[j] = inst[j]
      BY <1>2
    <3> QED
      BY <2>3, <3>1, <3>2
  <2> HIDE DEF fresh, new
  <2>5. \A j \in cached : inst[j].key # key
    BY <1>2, <2>1
  <2>6. cached' = (cached \ pushed) \cup {i} /\ pushed \subseteq cached
    BY <2>1, <2>5
  <2>7. \A j \in pushed : inst[j].key # key
    BY <2>5
  <2>8. ASSUME NEW j \in pushed, inst[j].loaded, inst[j].key = e[1]
        PROVE  e \in saved' <=> e \in inst[j].vec
    BY <1>2, <2>1, <2>6, <2>8 DEF Synced
  <2>9. ASSUME \A j \in pushed : inst[j].loaded => inst[j].key # e[1]
        PROVE  e \in saved' <=> e \in saved
    BY <1>2, <2>1, <2>6, <2>9 DEF Synced
  <2> HIDE DEF pushed
  <2>10. CASE \E j \in cached \ pushed : inst[j].key = e[1]
    <3>1. PICK j \in cached \ pushed : inst[j].key = e[1]
      BY <2>10
    <3>2. j \in cached' /\ inst'[j] = inst[j]
          /\ \A k \in cached' : inst'[k].key = e[1] => k = j
      BY <1>2, <2>2, <2>3, <2>4, <2>5, <2>6, <3>1
    <3>3. (FoundByVector(e)' <=> e \in Vectors(j)') /\ (FoundByVector(e) <=> e \in Vectors(j))
      BY <1>2, <3>1, <3>2 DEF FoundByVector
    <3>4. e \in saved' <=> e \in saved
      BY <1>2, <2>6, <2>9, <3>1
    <3> QED
      BY <3>1, <3>2, <3>3, <3>4 DEF Vectors
  <2>11. CASE \E j \in pushed : inst[j].key = e[1]
    <3>1. PICK j \in pushed : inst[j].key = e[1]
      BY <2>11
    <3>2. \A k \in cached' : inst'[k].key # e[1]
      BY <1>2, <2>2, <2>4, <2>5, <2>6, <3>1
    <3>3. (FoundByVector(e)' <=> e \in saved') /\ (FoundByVector(e) <=> e \in Vectors(j))
      BY <1>2, <2>6, <3>1, <3>2 DEF FoundByVector
    <3>4. CASE inst[j].loaded
      BY <2>8, <3>1, <3>3, <3>4 DEF Vectors
    <3>5. CASE ~inst[j].loaded
      <4>1. e \in saved' <=> e \in saved
        BY <1>2, <2>6, <2>9, <3>1, <3>5
      <4> QED
        BY <3>1, <3>3, <3>5, <4>1 DEF Vectors
    <3> QED
      BY <3>4, <3>5
  <2>12. CASE \A j \in cached : inst[j].key # e[1]
    <3>1. e \in saved' <=> e \in saved
      BY <2>6, <2>9, <2>12
    <3>2. FoundByVector(e) <=> e \in saved
      BY <2>12 DEF FoundByVector
    <3>3. FoundByVector(e)' <=> e \in saved'
      <4>1. \A k \in cached' : inst'[k].key = e[1] => k = i
        BY <2>4, <2>6, <2>12
      <4>2. inst'[i].key = e[1] => (e \in Vectors(i)' <=> e \in saved')
        BY <2>2, <2>4 DEF Vectors
      <4> QED
        BY <4>1, <4>2, <2>3 DEF FoundByVector
    <3> QED
      BY <3>1, <3>2, <3>3
  <2> QED
    BY <2>6, <2>10, <2>11, <2>12
<1> QED
  BY <1>1, <1>3, <1>4

\* A vector call leaves what it does not remove, through the handle of a
\* cached instance or of one that was evicted.
LEMMA ViewVec ==
    ASSUME KeptInv, MapInv', NEW c \in Workers, work[c].inst \in Instances,
           NEW es \in SUBSET Entry, Settle(VecHolds(c, es)), cached' = cached, saved' = saved,
           NEW e, FoundByVector(e), e \in Vectors(work[c].inst) => e \in es
    PROVE  FoundByVector(e)'
<1>1. CASE work[c].inst \in cached
  <2>1. e[1] = Key(c) => e \in Vectors(work[c].inst)
    BY <1>1, ViewOf DEF KeptInv, MapInv, Key
  <2> QED
    BY <1>1, <2>1, ViewHolds DEF KeptInv, MapInv
<1>2. CASE work[c].inst \notin cached
  <2> DEFINE next == VecHolds(c, es)
  <2>1. inst \in [Instances -> Instance] /\ cached \subseteq Instances
    BY DEF KeptInv, MapInv, HInv, InstInv
  <2>2. \A i \in cached : next[i] = inst[i]
    BY <1>2, <2>1 DEF VecHolds
  <2>3. \A i \in cached : inst'[i] = next[i]
    BY <2>1 DEF Settle
  <2> QED
    BY <2>2, <2>3, ViewStays
<1> QED
  BY <1>1, <1>2

\* The steps that are not excepted.
LEMMA FoundStep ==
    ASSUME NEW d, SingleWidth(d), KeptInv, KeptInv', HNext, ~Crash, ~StaleSync,
           NEW e, FoundByVector(e), e[2] \notin deleted'
    PROVE  FoundByVector(e)'
<1>0. MapInv /\ MapInv' /\ HInv /\ OwnKeys /\ Deleting /\ cached \subseteq Instances
      /\ inst \in [Instances -> Instance]
  BY DEF KeptInv, MapInv, HInv, InstInv
<1>1. CASE \E c \in Workers :
              \/ \E r \in Records, kind \in {"add", "batch"} : AddBegin(c, r, kind)
              \/ SearchBegin(c) \/ DeleteVisit(c)
  BY <1>0, <1>1, Acquires, ViewAcquire
<1>2. CASE \E c \in Workers :
              \/ AddDuplicate(c) \/ AddRow(c) \/ AddFts(c) \/ FtsLocked(c)
              \/ (\E r \in Records : DeleteBegin(c, r))
              \/ DeleteMiss(c) \/ DeleteRow(c) \/ DeleteFts(c) \/ Search(c)
  <2>1. PICK c \in Workers :
              \/ AddDuplicate(c) \/ AddRow(c) \/ AddFts(c) \/ FtsLocked(c)
              \/ (\E r \in Records : DeleteBegin(c, r))
              \/ DeleteMiss(c) \/ DeleteRow(c) \/ DeleteFts(c) \/ Search(c)
    BY <1>2
  <2>2. /\ CacheUnchanged /\ saved' = saved
        /\ \/ Settle(inst)
           \/ /\ work[c].pc \in {"fts", "drop", "search"}
              /\ CanOpenFts(work[c].inst) /\ Settle(FtsOpened(c))
    BY <2>1, Calls
  <2>3. work[c].pc \in {"fts", "drop", "search"} => work[c].inst \in Instances
    BY <1>0, ByPc DEF HInv
  <2> QED
    BY <1>0, <2>2, <2>3, ViewCall
<1>3. ASSUME NEW c \in Workers, AddVec(c) PROVE FoundByVector(e)'
  <2> DEFINE es == Vectors(work[c].inst) \cup {Doc(c)}
  <2>1. cached' = cached /\ saved' = saved /\ Settle(VecHolds(c, es))
    BY <1>3 DEF AddVec, CacheUnchanged
  <2>2. work[c] \in AddWork
    BY <1>0, <1>3, ByPc DEF HInv, AddVec
  <2>3. work[c].inst \in Instances /\ es \in SUBSET Entry
    BY <1>0, <2>2, OwnVectors
  <2>4. e \in Vectors(work[c].inst) => e \in es
    OBVIOUS
  <2> QED
    BY <1>0, <2>1, <2>3, <2>4, ViewVec
<1>4. ASSUME NEW c \in Workers, DeleteVec(c) PROVE FoundByVector(e)'
  <2> DEFINE es == Vectors(work[c].inst) \ {Doc(c)}
  <2>1. cached' = cached /\ saved' = saved /\ deleted' = deleted /\ Settle(VecHolds(c, es))
    BY <1>4 DEF DeleteVec, CacheUnchanged
  <2>2. work[c] \in DeleteWork /\ work[c].pc \in DeletePcs
    BY <1>0, <1>4, ByPc DEF HInv, DeleteVec, DeletePcs
  <2>3. work[c].inst \in Instances /\ es \in SUBSET Entry
    BY <1>0, <2>2, OwnVectors
  <2>4. Doc(c)[2] \in deleted
    BY <1>0, <2>2 DEF Deleting, Doc
  <2>5. e \in Vectors(work[c].inst) => e \in es
    BY <2>1, <2>4
  <2> QED
    BY <1>0, <2>1, <2>3, <2>5, ViewVec
<1>5. CASE SyncBegin \/ SyncEnd
  <2>1. cached' = cached /\ saved' = saved /\ Settle(inst)
    BY <1>5 DEF SyncBegin, SyncEnd
  <2>2. \A i \in cached : inst'[i] = inst[i]
    BY <1>0, <2>1, CachedSettled
  <2> QED
    BY <2>1, <2>2, ViewStays
<1>6. ASSUME NEW i \in Instances, SyncOne(i) PROVE FoundByVector(e)'
  <2>1. cached' = cached /\ saved' = Synced({i}) /\ Settle(inst) /\ {i} \in SUBSET cached
    BY <1>6 DEF SyncOne, StaleSync
  <2>2. \A j \in cached : inst'[j] = inst[j]
    BY <1>0, <2>1, CachedSettled
  <2> QED
    BY <1>0, <2>1, <2>2, ViewSynced
<1>7. CASE CloseCache \/ Stop
  <2>1. cached' = {} /\ saved' = Synced(cached) /\ cached \in SUBSET cached
    BY <1>7 DEF CloseCache, Stop, Reopen
  <2> QED
    BY <1>0, <2>1, ViewSynced
<1> QED
  BY <1>1, <1>2, <1>3, <1>4, <1>5, <1>6, <1>7 DEF HNext, WorkerStep

\* What a search by vector finds it goes on finding, although its shard is
\* evicted and opened again any number of times while calls hold handles on
\* its earlier instances: every instance is written when it leaves the map,
\* and one that has left is written by nobody but a sync() that had taken it
\* before (shardscache.rs, vectorengine.rs; one width of whole seconds).
THEOREM FoundStays ==
    ASSUME NEW d, SingleWidth(d) PROVE HSpec => VectorsStayFound
<1> DEFINE Kept == StaleSync \/ KeepsFound \/ Crash
<1>1. HInit => KeptInv
  <2> SUFFICES ASSUME HInit PROVE KeptInv
    OBVIOUS
  <2>1. NoInstance.vec = {} /\ Idle.pc = "idle"
    BY DEF NoInstance, Idle
  <2>2. OwnKeys /\ Deleting
    BY <2>1 DEF HInit, OwnKeys, Deleting, DeletePcs
  <2> QED
    BY <2>2, MapInit DEF KeptInv
<1>2. KeptInv /\ [HNext]_hvars => KeptInv'
  BY KeptStep
<1>3. ASSUME KeptInv, HNext PROVE Kept
  <2> SUFFICES ASSUME ~StaleSync, ~Crash, NEW e \in Found, e[2] \notin deleted'
               PROVE  e \in Found'
    BY DEF KeepsFound
  <2>1. FoundByVector(e)'
    BY <1>2, <1>3, FoundStep DEF Found
  <2>2. cached' \subseteq Instances
    BY <1>2, <1>3 DEF KeptInv, MapInv, HInv, InstInv
  <2>3. e \in Indexed'
    BY <2>1, <2>2 DEF FoundByVector, Vectors, Indexed
  <2> QED
    BY <2>1, <2>3 DEF Found
<1> HIDE DEF Kept
<1>4. KeptInv /\ [HNext]_hvars => [Kept]_hvars
  BY <1>3
<1>5. HSpec => [][Kept]_hvars
  BY <1>1, <1>2, <1>4, PTL DEF HSpec
<1> QED
  BY <1>5 DEF VectorsStayFound, Kept
=============================================================================
