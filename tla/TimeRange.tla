----------------------------- MODULE TimeRange -----------------------------
(***************************************************************************)
(* Calendar arithmetic of common/timerange.rs: how an instant is truncated *)
(* to whole seconds and rounded down to the half-open interval that holds  *)
(* it.  Every shard, catalog row and cache key is named by such an         *)
(* interval.                                                               *)
(*                                                                         *)
(* An instant is a natural number of clock ticks since the Unix epoch and  *)
(* Sec ticks make one second, so that instants between two seconds exist   *)
(* when Sec > 1.  With Sec = 1 an instant is a whole second.               *)
(*                                                                         *)
(* In the modules of this directory an operator named Slip... is a wrong   *)
(* variant of the one that follows it.  No action uses it: it is there to  *)
(* be put in that one's place, to see the properties fail.                 *)
(***************************************************************************)
EXTENDS Integers

CONSTANT Sec        \* clock ticks in one second

ASSUME SecAssumption == Sec \in Nat \ {0}

\* SystemTime -> whole Unix seconds (the fraction is cut off).
to_unix_secs(t) == t \div Sec

\* The interval arithmetic is the same for every caller: a number of whole
\* seconds, rounded down to a multiple of the interval, back to ticks.
floor_to(t, secs) == (to_unix_secs(t) \div secs) * secs * Sec

\* TimeRange::new
TimeRangeNew(start, secs) == <<start, start + secs * Sec>>

\* minute_range answers only for the divisors of 60.
ValidMinutes(n) == n # 0 /\ 60 % n = 0

minute_range(t, n) == TimeRangeNew(floor_to(t, n * 60), n * 60)
hour_range(t)      == TimeRangeNew(floor_to(t, 3600), 3600)
day_range(t)       == TimeRangeNew(floor_to(t, 86400), 86400)

\* duration.as_secs().max(1): the number of whole seconds the start is
\* rounded to.  The fraction of the duration plays no part in it.
DurSecs(d) == IF d \div Sec < 1 THEN 1 ELSE d \div Sec

\* align_to_duration: the start is rounded with the whole seconds of d, the
\* end is the start plus all of d.
align_to_duration(t, d) ==
    LET start == floor_to(t, DurSecs(d))
    IN  <<start, start + d>>

\* Durations of whole seconds, the ones align_to_duration tiles the time line
\* with.
WholeSeconds == {d \in Nat \ {0} : d % Sec = 0}

Covers(range, t) == range[1] <= t /\ t < range[2]

Disjoint(r1, r2) == r1[2] <= r2[1] \/ r2[2] <= r1[1]

=============================================================================
