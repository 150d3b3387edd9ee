------------------------------- MODULE Scripts -------------------------------
(***************************************************************************)
(* BUND scripts: the registry of scheduled scripts, the scheduler that     *)
(* fires them, the pool of workers that run them and the queues their      *)
(* results wait in (shardsmanager_scripts.rs, scheduler.rs, vm/workers.rs, *)
(* vm/result_queue.rs and bdsnode's scheduler and results_sweeper tasks).  *)
(***************************************************************************)
EXTENDS Naturals, Sequences, FiniteSets

CONSTANTS
    Scripts,            \* scripts of the registry
    Evals,              \* ids of v2/eval.queued submissions
    Editors,            \* threads that add, update and delete scripts
    Workers,            \* n_workers threads
    Schedules,          \* a script's version -> the minutes it is due in
    Minute, Interval,   \* length of a minute; scheduler_interval_secs
    Ttl, SweepEvery,    \* results_ttl_secs, results_sweep_secs
    MaxTime,            \* the last instant
    MaxEdits,           \* calls of editors
    MaxJobs,            \* that wait
    MaxResults          \* of a script, and in a queue

None     == 0
Versions == DOMAIN Schedules
Ids      == Scripts \cup Evals
Start    == Ttl                 \* so that now - Ttl is a time
Times    == Start..MaxTime
Never    == MaxTime + 1

ASSUME ScriptsAssumption ==
    /\ Versions \subseteq Nat \ {None}
    /\ Minute \in Nat \ {0} /\ Interval \in Nat /\ Interval >= Minute
    /\ Ttl \in Nat \ {0} /\ SweepEvery \in Nat \ {0}
    /\ Scripts \cap Evals = {} /\ None \notin Scripts
    /\ MaxTime \in Nat /\ Start <= MaxTime

VARIABLES
    now,        \* the clock
    meta, body, \* the rows of a script: their versions, or None
    editor,     \* what each editor is doing
    tick,       \* the scheduler task
    jobs,       \* WORKERS_PIPE
    worker,     \* what each worker is doing
    created_at, values, \* RESULTS: when a queue was created, or Never; its length
    sweep_at    \* when the sweeper wakes

\* History: calls of editors so far; ids in use; while the scheduler fires,
\* scripts that were being edited at some time since it listed them; editors
\* whose call has had its script to itself; scripts whose rows the last calls
\* may have left with different versions; the last minute a script was fired
\* for; scripts fired twice in a minute, or with another body than belongs to
\* the schedule; the first push to a queue that is still there; ids of queues
\* that were dropped before their time.
VARIABLES edits, used, torn, alone, apart, fired, twice, mixed, first, early

registry == <<meta, body, editor>>
results  == <<created_at, values>>
edited   == <<edits, used, torn, alone, apart>>
fires    == <<fired, twice, mixed>>
fates    == <<first, early>>
vars     == <<now, registry, tick, jobs, worker, results, sweep_at, edited, fires, fates>>

Idle      == [op |-> "none", id |-> None, version |-> None, todo |-> <<>>]
Resting   == [at |-> "idle", id |-> None, left |-> 0]
Asleep(t) == [at |-> "asleep", minute |-> 0, due |-> {}, wake_at |-> t]

TypeOK ==
    /\ now \in Times
    /\ meta \in [Scripts -> Versions \cup {None}]
    /\ body \in [Scripts -> Versions \cup {None}]
    /\ tick.at \in {"asleep", "listing", "firing"}
    /\ Len(jobs) <= MaxJobs
    /\ \A w \in Workers : worker[w].at \in {"idle", "evaluating", "draining", "dead"}
    /\ created_at \in [Ids -> Times \cup {Never}]
    /\ values \in [Ids -> 0..MaxResults]
    /\ torn \subseteq Scripts /\ alone \subseteq Editors /\ apart \subseteq Scripts
    /\ used \subseteq Ids /\ early \subseteq Ids

-----------------------------------------------------------------------------
(* The registry.  Each call is two statements, the first on the row of the *)
(* metadata, the second on that of the body; they are not a transaction.   *)

Editing(s) == \E e \in Editors : editor[e].id = s

Begin(e, op, s, version, rows) ==
    /\ editor[e] = Idle /\ edits < MaxEdits
    /\ editor' = [editor EXCEPT ![e] =
                    [op |-> op, id |-> s, version |-> version, todo |-> rows]]
    /\ edits' = edits + 1
    /\ used' = used \cup {s}
    /\ torn' = torn \cup (IF tick.at = "firing" THEN {s} ELSE {})
    /\ alone' = IF Editing(s) THEN {f \in alone : editor[f].id # s} ELSE alone \cup {e}
    /\ UNCHANGED <<now, meta, body, tick, jobs, worker, results, sweep_at, apart, fires, fates>>

BothRows == <<"meta", "body">>

script_add(e) ==
    \E s \in Scripts \ used, v \in Versions : Begin(e, "add", s, v, BothRows)

\* The body is forgotten.
SlipUpdateScript(e) ==
    \E s \in Scripts \cap used, v \in Versions : Begin(e, "update", s, v, <<"meta">>)

update_script(e) ==
    \E s \in Scripts \cap used, v \in Versions : Begin(e, "update", s, v, BothRows)

script_delete(e) ==
    \E s \in Scripts \cap used : Begin(e, "delete", s, None, BothRows)

\* An UPDATE of a row that is not there changes nothing.
Written(e, row) ==
    LET s == editor[e].id IN
    IF editor[e].op = "update" /\ row[s] = None THEN row
    ELSE [row EXCEPT ![s] = editor[e].version]

EditRow(e) ==
    /\ editor[e] # Idle
    /\ \/ /\ Head(editor[e].todo) = "meta"
          /\ meta' = Written(e, meta)
          /\ UNCHANGED body
       \/ /\ Head(editor[e].todo) = "body"
          /\ body' = Written(e, body)
          /\ UNCHANGED meta
    /\ IF Len(editor[e].todo) = 1
       THEN /\ editor' = [editor EXCEPT ![e] = Idle]
            /\ alone' = alone \ {e}
            /\ apart' = IF e \in alone THEN apart \ {editor[e].id} ELSE apart \cup {editor[e].id}
       ELSE /\ editor' = [editor EXCEPT ![e].todo = Tail(@)]
            /\ UNCHANGED <<alone, apart>>
    /\ UNCHANGED <<now, tick, jobs, worker, results, sweep_at, edits, used, torn, fires, fates>>

HalfDone(e) == editor[e].todo = <<"body">>

\* A statement fails: the call returns, and what it wrote stays.
FailEdit(e) ==
    /\ editor[e] # Idle
    /\ editor' = [editor EXCEPT ![e] = Idle]
    /\ alone' = alone \ {e}
    /\ apart' = apart \cup (IF HalfDone(e) THEN {editor[e].id} ELSE {})
    /\ UNCHANGED <<now, meta, body, tick, jobs, worker, results, sweep_at, edits, used, torn,
                    fires, fates>>

-----------------------------------------------------------------------------
(* The scheduler sleeps, looks at the clock, lists the scripts and fires   *)
(* those that are due in that minute one after the other.                  *)

Wake ==
    /\ tick.at = "asleep" /\ now >= tick.wake_at
    /\ tick' = [tick EXCEPT !.at = "listing", !.minute = now \div Minute]
    /\ UNCHANGED <<now, registry, jobs, worker, results, sweep_at, edited, fires, fates>>

\* <<script, version of its schedule>>
Listed == {<<s, meta[s]>> : s \in {r \in Scripts :
                meta[r] # None /\ tick.minute \in Schedules[meta[r]]}}

ListScripts ==
    /\ tick.at = "listing"
    /\ tick' = [tick EXCEPT !.at = "firing", !.due = Listed]
    /\ torn' = {s \in Scripts : Editing(s)}
    /\ UNCHANGED <<now, registry, jobs, worker, results, sweep_at, edits, used, alone, apart,
                    fires, fates>>

\* submit_script_with_id sends on an unbounded channel.
Submit(id) == Len(jobs) < MaxJobs /\ jobs' = Append(jobs, id)

\* The body is read now.  A script that has gone, or whose rows cannot be
\* read, is skipped.
FireScript ==
    /\ tick.at = "firing"
    /\ \E d \in tick.due :
          LET s == d[1] IN
          /\ tick' = [tick EXCEPT !.due = @ \ {d}]
          /\ \/ /\ body[s] # None
                /\ Submit(s)
                /\ fired' = [fired EXCEPT ![s] = tick.minute]
                /\ twice' = twice \cup (IF fired[s] = tick.minute THEN {s} ELSE {})
                /\ mixed' = mixed \cup (IF body[s] # d[2] THEN {s} \ (torn \cup apart) ELSE {})
             \/ UNCHANGED <<jobs, fires>>
    /\ UNCHANGED <<now, registry, worker, results, sweep_at, edited, fates>>

\* The time of the tick counts from when it was due.
SlipEndTick ==
    /\ tick.at = "firing" /\ tick.due = {}
    /\ tick' = Asleep(tick.wake_at + Interval)
    /\ torn' = {}
    /\ UNCHANGED <<now, registry, jobs, worker, results, sweep_at, edits, used, alone, apart,
                    fires, fates>>

EndTick ==
    /\ tick.at = "firing" /\ tick.due = {}
    /\ tick' = Asleep(now + Interval)
    /\ torn' = {}
    /\ UNCHANGED <<now, registry, jobs, worker, results, sweep_at, edits, used, alone, apart,
                    fires, fates>>

-----------------------------------------------------------------------------
(* Submissions of clients, and the pool.                                   *)

\* v2/eval.queued: a fresh id.
eval_queued ==
    /\ \E id \in Evals \ used :
          /\ used' = used \cup {id}
          /\ Submit(id)
    /\ UNCHANGED <<now, registry, tick, worker, results, sweep_at, edits, torn, alone, apart,
                    fires, fates>>

\* One job at a time: the lock is held while a script runs.
SlipTakeJob(w) ==
    /\ \A v \in Workers : worker[v].at # "evaluating"
    /\ worker[w].at = "idle" /\ jobs # <<>>
    /\ worker' = [worker EXCEPT ![w] = [at |-> "evaluating", id |-> Head(jobs), left |-> 0]]
    /\ jobs' = Tail(jobs)
    /\ UNCHANGED <<now, registry, tick, results, sweep_at, edited, fires, fates>>

\* Any worker that waits in recv takes the oldest job.
TakeJob(w) ==
    /\ worker[w].at = "idle" /\ jobs # <<>>
    /\ worker' = [worker EXCEPT ![w] = [at |-> "evaluating", id |-> Head(jobs), left |-> 0]]
    /\ jobs' = Tail(jobs)
    /\ UNCHANGED <<now, registry, tick, results, sweep_at, edited, fires, fates>>

\* Evaluation leaves values on the workbench, or fails; nothing catches a
\* panic, and the thread is not replaced.
FinishEval(w) ==
    /\ worker[w].at = "evaluating"
    /\ \/ \E n \in 0..MaxResults :
             worker' = [worker EXCEPT ![w] = IF n = 0 THEN Resting
                                             ELSE [@ EXCEPT !.at = "draining", !.left = n]]
       \/ worker' = [worker EXCEPT ![w] = [Resting EXCEPT !.at = "dead"]]
    /\ UNCHANGED <<now, registry, tick, jobs, results, sweep_at, edited, fires, fates>>

-----------------------------------------------------------------------------
(* The result queues.                                                      *)

\* The queue's time starts anew.
SlipPush(id) ==
    /\ values[id] < MaxResults
    /\ values' = [values EXCEPT ![id] = @ + 1]
    /\ created_at' = [created_at EXCEPT ![id] = now]
    /\ first' = [first EXCEPT ![id] = IF @ = Never THEN now ELSE @]
    /\ UNCHANGED early

\* The first push creates the queue; later ones leave its time alone.
Push(id) ==
    /\ values[id] < MaxResults
    /\ values' = [values EXCEPT ![id] = @ + 1]
    /\ created_at' = [created_at EXCEPT ![id] = IF @ = Never THEN now ELSE @]
    /\ first' = [first EXCEPT ![id] = IF @ = Never THEN now ELSE @]
    /\ UNCHANGED early

PushResult(w) ==
    /\ worker[w].at = "draining"
    /\ Push(worker[w].id)
    /\ worker' = IF worker[w].left = 1 THEN [worker EXCEPT ![w] = Resting]
                 ELSE [worker EXCEPT ![w].left = @ - 1]
    /\ UNCHANGED <<now, registry, tick, jobs, sweep_at, edited, fires>>

results_push ==
    /\ \E id \in used : Push(id)
    /\ UNCHANGED <<now, registry, tick, jobs, worker, sweep_at, edited, fires>>

\* An empty queue stays, and so does its time.
results_pull ==
    /\ \E id \in used : values[id] > 0 /\ values' = [values EXCEPT ![id] = @ - 1]
    /\ UNCHANGED <<now, registry, tick, jobs, worker, created_at, sweep_at, edited, fires, fates>>

sweep_expired ==
    LET old == {id \in Ids : created_at[id] # Never /\ created_at[id] <= now - Ttl} IN
    /\ now >= sweep_at
    /\ created_at' = [id \in Ids |-> IF id \in old THEN Never ELSE created_at[id]]
    /\ values' = [id \in Ids |-> IF id \in old THEN 0 ELSE values[id]]
    /\ first' = [id \in Ids |-> IF id \in old THEN Never ELSE first[id]]
    /\ early' = early \cup {id \in old : now < first[id] + Ttl}
    /\ sweep_at' = now + SweepEvery
    /\ UNCHANGED <<now, registry, tick, jobs, worker, edited, fires>>

\* The sweeper is on time; the scheduler may be late.
Elapse ==
    /\ now < MaxTime /\ now < sweep_at
    /\ now' = now + 1
    /\ UNCHANGED <<registry, tick, jobs, worker, results, sweep_at, edited, fires, fates>>

\* The process ends, in the middle of anything, and is started again: of all
\* this only the rows of the scripts are on disk.  The scheduler sleeps first.
Restart ==
    /\ editor' = [e \in Editors |-> Idle]
    /\ alone' = {} /\ torn' = {}
    /\ apart' = apart \cup {editor[e].id : e \in {f \in Editors : HalfDone(f)}}
    /\ tick' = Asleep(now + Interval)
    /\ jobs' = <<>>
    /\ worker' = [w \in Workers |-> Resting]
    /\ created_at' = [id \in Ids |-> Never]
    /\ values' = [id \in Ids |-> 0]
    /\ first' = [id \in Ids |-> Never]
    /\ sweep_at' = now + SweepEvery
    /\ UNCHANGED <<now, meta, body, edits, used, fires, early>>

-----------------------------------------------------------------------------
Init ==
    /\ now = Start
    /\ meta = [s \in Scripts |-> None] /\ body = meta
    /\ editor = [e \in Editors |-> Idle]
    /\ tick = Asleep(Start + Interval)
    /\ jobs = <<>>
    /\ worker = [w \in Workers |-> Resting]
    /\ created_at = [id \in Ids |-> Never]
    /\ values = [id \in Ids |-> 0]
    /\ sweep_at = Start + SweepEvery
    /\ edits = 0 /\ used = {} /\ torn = {} /\ alone = {} /\ apart = {}
    /\ early = {} /\ twice = {} /\ mixed = {}
    /\ fired = [s \in Scripts |-> 0]       \* minute 0 is over
    /\ first = [id \in Ids |-> Never]

Next ==
    \/ \E e \in Editors : \/ script_add(e) \/ update_script(e) \/ script_delete(e)
                          \/ EditRow(e) \/ FailEdit(e)
    \/ Wake \/ ListScripts \/ FireScript \/ EndTick
    \/ eval_queued
    \/ \E w \in Workers : TakeJob(w) \/ FinishEval(w) \/ PushResult(w)
    \/ results_push \/ results_pull \/ sweep_expired \/ Elapse
    \/ Restart

\* Only the threads that wait in recv are sure to go on: evaluating a script
\* may take for ever.
Fairness == WF_vars(\E w \in Workers : TakeJob(w))

Spec == Init /\ [][Next]_vars /\ Fairness

-----------------------------------------------------------------------------
\* A script is not fired twice in a minute, however late the scheduler's
\* sleep ends, however long its tick takes, and over restarts (scheduler.rs:21:
\* a tick once per minute).
OncePerMinute == twice = {}

\* The body that is run for a schedule is the one that was stored with it,
\* unless the script was edited while the scheduler was between the listing
\* and the body, or the last edit of it was cut short between its two
\* statements, by an error or the end of the process, or overlapped another:
\* then it may run the old body on the new schedule until the script is edited
\* again.
BodyGoesWithSchedule == mixed = {}

\* The results of a queue stay for the time to live, counted from the first
\* of them, and go at the next sweep after that, however many more are pushed,
\* unless the process ends.
ResultsLast ==
    /\ early = {}
    /\ \A id \in Ids : first[id] # Never => now <= first[id] + Ttl + SweepEvery

\* A job waits for ever only if from some time on every worker is dead or at
\* work on a script.
JobsAreTaken ==
    ([]<>\E w \in Workers : worker[w].at = "idle") => [](jobs # <<>> => <>(jobs = <<>>))

=============================================================================
