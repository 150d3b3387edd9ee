---------------------------- MODULE ScriptsProofs ----------------------------
(***************************************************************************)
(* The scheduler, the registry of scripts and the result queues, for any   *)
(* number of scripts, editors, workers and minutes: a script is fired once *)
(* a minute at most, with the body of its schedule, and results stay for   *)
(* their time to live and go at the next sweep.  Each of the three has an  *)
(* invariant of its own.                                                   *)
(***************************************************************************)
EXTENDS Scripts, TLAPS

Ticks ==
    [at : {"asleep", "listing", "firing"}, minute : Nat,
     due : SUBSET (Scripts \X Versions), wake_at : Nat]

EditorStates ==
    {Idle} \cup
    [op : {"add", "update"}, id : Scripts, version : Versions, todo : {BothRows, <<"body">>}] \cup
    [op : {"delete"}, id : Scripts, version : {None}, todo : {BothRows, <<"body">>}]

Rows == [Scripts -> Versions \cup {None}]

Typed ==
    /\ now \in Times /\ tick \in Ticks /\ fired \in [Scripts -> Nat]
    /\ meta \in Rows /\ body \in Rows
    /\ editor \in [Editors -> EditorStates] /\ alone \subseteq Editors

LEMMA TypedInit == Init => Typed
<1> SUFFICES ASSUME Init PROVE Typed
  OBVIOUS
<1>1. Start \in Times /\ Start \in Nat /\ Interval \in Nat
  BY ScriptsAssumption DEF Start, Times
<1>2. tick \in Ticks
  BY <1>1 DEF Init, Asleep, Ticks
<1>3. QED
  BY <1>1, <1>2 DEF Init, Typed, Rows, EditorStates

\* What an editor does with the row that is its turn.
LEMMA EditRowTyped ==
    ASSUME Typed, NEW e \in Editors, EditRow(e)
    PROVE  /\ editor[e] # Idle /\ editor[e].id \in Scripts /\ editor' \in [Editors -> EditorStates]
           /\ meta' \in Rows /\ body' \in Rows
           /\ \A f \in Editors \ {e} : editor'[f] = editor[f]
           /\ \/ /\ editor[e].todo = BothRows
                 /\ editor'[e] = [editor[e] EXCEPT !.todo = <<"body">>]
                 /\ meta' = Written(e, meta) /\ body' = body
                 /\ UNCHANGED <<alone, apart>>
              \/ /\ editor[e].todo = <<"body">>
                 /\ editor'[e] = Idle
                 /\ body' = Written(e, body) /\ meta' = meta
                 /\ alone' = alone \ {e}
                 /\ apart' = IF e \in alone THEN apart \ {editor[e].id}
                             ELSE apart \cup {editor[e].id}
<1>1. editor[e] # Idle /\ editor[e] \in EditorStates
  BY DEF EditRow, Typed
<1>2. /\ editor[e].id \in Scripts /\ editor[e].version \in Versions \cup {None}
      /\ editor[e].todo \in {BothRows, <<"body">>}
  BY <1>1 DEF EditorStates
<1>3. Written(e, meta) \in Rows /\ Written(e, body) \in Rows
  BY <1>2 DEF Typed, Rows, Written
<1>4. CASE editor[e].todo = BothRows
  <2>1. Len(BothRows) = 2 /\ Tail(BothRows) = <<"body">> /\ Head(BothRows) = "meta"
    BY DEF BothRows
  <2>2. editor' = [editor EXCEPT ![e].todo = <<"body">>]
    <3>1. Len(editor[e].todo) # 1 /\ Tail(editor[e].todo) = <<"body">>
      BY <1>4, <2>1
    <3>2. editor' = [editor EXCEPT ![e].todo = Tail(editor[e].todo)]
      BY <3>1, Zenon DEF EditRow
    <3>3. QED
      BY <3>1, <3>2, Zenon
  <2>3. [editor[e] EXCEPT !.todo = <<"body">>] \in EditorStates
    BY <1>1, <1>2 DEF EditorStates
  <2>4. meta' = Written(e, meta) /\ body' = body /\ UNCHANGED <<alone, apart>>
    BY <1>4, <2>1 DEF EditRow
  <2>5. QED
    BY <1>1, <1>2, <1>3, <1>4, <2>2, <2>3, <2>4 DEF Typed
<1>5. CASE editor[e].todo = <<"body">>
  <2>1. Len(<<"body">>) = 1 /\ Head(<<"body">>) = "body"
    OBVIOUS
  <2>2. editor' = [editor EXCEPT ![e] = Idle] /\ Idle \in EditorStates
    BY <1>5, <2>1 DEF EditRow, EditorStates
  <2>3. /\ body' = Written(e, body) /\ meta' = meta
        /\ alone' = alone \ {e}
        /\ apart' = IF e \in alone THEN apart \ {editor[e].id}
                    ELSE apart \cup {editor[e].id}
    BY <1>5, <2>1 DEF EditRow
  <2>4. QED
    BY <1>1, <1>2, <1>3, <1>5, <2>2, <2>3 DEF Typed
<1>6. QED
  BY <1>2, <1>4, <1>5

\* What a call of an editor begins with.
LEMMA BeginTyped ==
    ASSUME Typed, NEW e \in Editors, script_add(e) \/ update_script(e) \/ script_delete(e)
    PROVE  \E s \in Scripts :
              /\ editor[e] = Idle
              /\ editor' \in [Editors -> EditorStates]
              /\ editor'[e].id = s /\ editor'[e].todo = BothRows
              /\ \A f \in Editors \ {e} : editor'[f] = editor[f]
              /\ torn' = torn \cup (IF tick.at = "firing" THEN {s} ELSE {})
              /\ alone' = IF Editing(s) THEN {f \in alone : editor[f].id # s} ELSE alone \cup {e}
              /\ UNCHANGED <<now, meta, body, tick, apart, fires>>
<1>1. PICK s \in Scripts, op \in {"add", "update", "delete"},
            v \in Versions \cup {None} :
         /\ Begin(e, op, s, v, BothRows)
         /\ IF op = "delete" THEN v = None ELSE v \in Versions
  BY DEF script_add, update_script, script_delete
<1>2. [op |-> op, id |-> s, version |-> v, todo |-> BothRows] \in EditorStates
  BY <1>1 DEF EditorStates
<1>3. QED
  BY <1>1, <1>2 DEF Begin, Typed

LEMMA TypedStep == Typed /\ [Next]_vars => Typed'
<1> SUFFICES ASSUME Typed, [Next]_vars PROVE Typed'
  OBVIOUS
<1> USE ScriptsAssumption
<1>0. now \in Nat /\ tick.wake_at \in Nat /\ tick.minute \in Nat /\ Minute \in Nat \ {0}
  BY DEF Typed, Times, Ticks, Start
<1>1. ASSUME UNCHANGED <<now, tick, fired, meta, body, editor, alone>> PROVE Typed'
  BY <1>1 DEF Typed
<1>2. ASSUME NEW e \in Editors, script_add(e) \/ update_script(e) \/ script_delete(e)
      PROVE  Typed'
  BY <1>2, BeginTyped DEF Typed, fires
<1>3. ASSUME NEW e \in Editors, EditRow(e) PROVE Typed'
  BY <1>3, EditRowTyped DEF Typed, EditRow, fires
<1>4. CASE Wake
  <2>1. now \div Minute \in Nat
    BY <1>0
  <2>2. QED
    BY <2>1, <1>4 DEF Wake, registry, fires, edited, Typed, Ticks
<1>5. CASE ListScripts
  <2>1. Listed \in SUBSET (Scripts \X Versions)
    BY DEF Listed, Typed, Rows
  <2>2. QED
    BY <2>1, <1>5 DEF ListScripts, registry, fires, edited, Typed, Ticks
<1>6. CASE FireScript
  <2>1. PICK d \in tick.due :
           /\ tick' = [tick EXCEPT !.due = tick.due \ {d}]
           /\ fired' = [fired EXCEPT ![d[1]] = tick.minute] \/ fired' = fired
    BY <1>6 DEF FireScript, fires
  <2>2. tick' \in Ticks
    BY <2>1 DEF Typed, Ticks
  <2>3. fired' \in [Scripts -> Nat]
    BY <2>1, <1>0 DEF Typed
  <2>4. QED
    BY <2>2, <2>3, <1>6 DEF FireScript, registry, edited, Typed
<1>7. CASE EndTick
  <2>1. now + Interval \in Nat
    BY <1>0
  <2>2. QED
    BY <2>1, <1>7 DEF EndTick, registry, fires, edited, Typed, Ticks, Asleep
<1>8. CASE eval_queued \/ results_push \/ results_pull \/ sweep_expired
  BY <1>1, <1>8 DEF eval_queued, results_push, results_pull, sweep_expired, fires, registry, edited
<1>9. CASE \E w \in Workers : TakeJob(w) \/ FinishEval(w) \/ PushResult(w)
  BY <1>1, <1>9 DEF TakeJob, FinishEval, PushResult, fires, registry, edited
<1>10. CASE Elapse
  <2>1. now' \in Times
    BY <1>10, <1>0 DEF Elapse, Typed, Times, Start
  <2>2. QED
    BY <2>1, <1>10 DEF Elapse, registry, fires, edited, Typed
<1>11. CASE UNCHANGED vars
  BY <1>1, <1>11 DEF vars, fires, registry, edited
<1>12. CASE \E e \in Editors : FailEdit(e)
  BY <1>12 DEF FailEdit, fires, Typed, EditorStates
<1>13. CASE Restart
  <2>1. now + Interval \in Nat
    BY <1>0
  <2>2. QED
    BY <2>1, <1>13 DEF Restart, fires, Typed, Ticks, Asleep, EditorStates
<1>14. QED
  BY <1>2, <1>3, <1>4, <1>5, <1>6, <1>7, <1>8, <1>9, <1>10, <1>11, <1>12, <1>13 DEF Next

-----------------------------------------------------------------------------
(* Once a minute: while the scheduler sleeps, the minute in which it wakes *)
(* is a later one than any that a script was fired for; and none was fired *)
(* for a minute that has not begun, so that a restart finds it so, too.    *)

OnceInv ==
    /\ tick.at = "asleep" => \A s \in Scripts : fired[s] < tick.wake_at \div Minute
    /\ tick.at = "listing" => \A s \in Scripts : fired[s] < tick.minute
    /\ tick.at = "firing" =>
          /\ \A s \in Scripts : fired[s] <= tick.minute
          /\ \A d \in tick.due : fired[d[1]] < tick.minute
          /\ \A d, e \in tick.due : d[1] = e[1] => d = e
    /\ tick.at # "asleep" => tick.minute <= now \div Minute
    /\ \A s \in Scripts : fired[s] <= now \div Minute
    /\ twice = {}

\* What the scheduler knows of the clock.
LEMMA MinutesPass ==
    ASSUME NEW a \in Nat, NEW b \in Nat, a <= b
    PROVE  /\ a \div Minute \in Nat /\ b \div Minute \in Nat
           /\ a \div Minute <= b \div Minute
<1>1. Minute \in Nat \ {0}
  BY ScriptsAssumption
<1> DEFINE p == a \div Minute
           q == b \div Minute
<1>2. p \in Nat /\ q \in Nat /\ Minute * p <= a /\ a < Minute * p + Minute
      /\ Minute * q <= b /\ b < Minute * q + Minute
  BY <1>1
<1> HIDE DEF p, q
<1>3. Minute * p < Minute * q + Minute
  BY <1>1, <1>2
<1>4. ~(q + 1 <= p)
  <2> SUFFICES ASSUME q + 1 <= p PROVE FALSE
    OBVIOUS
  <2>1. Minute * (q + 1) <= Minute * p
    BY <1>1, <1>2
  <2>2. QED
    BY <2>1, <1>1, <1>2, <1>3
<1>5. p <= q
  BY <1>2, <1>4
<1>6. QED
  BY <1>2, <1>5 DEF p, q

LEMMA NextMinute ==
    ASSUME NEW a \in Nat
    PROVE  (a \div Minute) + 1 <= (a + Interval) \div Minute
<1>1. Minute \in Nat \ {0} /\ Interval \in Nat /\ Interval >= Minute
  BY ScriptsAssumption
<1> DEFINE p == a \div Minute
           q == (a + Interval) \div Minute
<1>2. p \in Nat /\ q \in Nat /\ Minute * p <= a /\ a < Minute * p + Minute
      /\ Minute * q <= a + Interval /\ a + Interval < Minute * q + Minute
  BY <1>1
<1> HIDE DEF p, q
<1>3. Minute * p + Minute < Minute * q + Minute
  BY <1>1, <1>2
<1>4. ~(q <= p)
  <2> SUFFICES ASSUME q <= p PROVE FALSE
    OBVIOUS
  <2>1. Minute * q <= Minute * p
    BY <1>1, <1>2
  <2>2. QED
    BY <2>1, <1>1, <1>2, <1>3
<1>5. p + 1 <= q
  BY <1>2, <1>4
<1>6. QED
  BY <1>5 DEF p, q

LEMMA OnceInit == Init => OnceInv
<1> SUFFICES ASSUME Init PROVE OnceInv
  OBVIOUS
<1>1. Start \in Nat /\ Start \in Times /\ Interval \in Nat /\ Minute \in Nat \ {0}
  BY ScriptsAssumption DEF Start, Times
<1>2. tick = Asleep(Start + Interval) /\ now = Start /\ twice = {}
      /\ fired = [s \in Scripts |-> 0]
  BY DEF Init
<1>3. tick.at = "asleep" /\ tick.wake_at = Start + Interval
  BY <1>1, <1>2 DEF Asleep
<1>4. 0 < (Start + Interval) \div Minute
  <2>1. (Start \div Minute) + 1 <= (Start + Interval) \div Minute
    BY <1>1, NextMinute
  <2>2. Start \div Minute \in Nat /\ (Start + Interval) \div Minute \in Nat
    BY <1>1
  <2>3. QED
    BY <2>1, <2>2
<1>5. 0 <= now \div Minute
  BY <1>1, <1>2
<1>6. QED
  BY <1>1, <1>2, <1>3, <1>4, <1>5 DEF OnceInv

LEMMA OnceStep == Typed /\ OnceInv /\ [Next]_vars => OnceInv'
<1> SUFFICES ASSUME Typed, OnceInv, [Next]_vars PROVE OnceInv'
  OBVIOUS
<1> USE ScriptsAssumption
<1>0. now \in Nat /\ tick.wake_at \in Nat /\ tick.minute \in Nat /\ Minute \in Nat \ {0}
  BY DEF Typed, Times, Ticks, Start
<1>1. ASSUME UNCHANGED <<now, tick, fires>> PROVE OnceInv'
  BY <1>1 DEF OnceInv, fires
<1>2. CASE \E e \in Editors : \/ script_add(e) \/ update_script(e) \/ script_delete(e)
                           \/ EditRow(e) \/ FailEdit(e)
  BY <1>1, <1>2 DEF script_add, update_script, script_delete, Begin, EditRow, FailEdit, fires
<1>3. CASE Wake
  <2>1. /\ tick.at = "asleep" /\ now >= tick.wake_at /\ UNCHANGED <<now, fired, twice>>
        /\ tick' = [tick EXCEPT !.at = "listing", !.minute = now \div Minute]
    BY <1>3 DEF Wake, fires
  <2>2. tick.wake_at \div Minute \in Nat /\ tick.wake_at \div Minute <= now \div Minute
    BY <2>1, <1>0, MinutesPass
  <2>3. now \div Minute \in Nat
    BY <1>0
  <2>4. tick' = [at |-> "listing", minute |-> now \div Minute, due |-> tick.due,
                 wake_at |-> tick.wake_at]
    BY <2>1 DEF Typed, Ticks
  <2>5. tick'.at = "listing" /\ tick'.minute = now \div Minute
    BY <2>4
  <2>6. \A s \in Scripts : fired[s] < now \div Minute
    <3> SUFFICES ASSUME NEW s \in Scripts PROVE fired[s] < now \div Minute
      OBVIOUS
    <3>1. fired[s] \in Nat /\ fired[s] < tick.wake_at \div Minute
      BY <2>1 DEF OnceInv, Typed
    <3>2. QED
      BY <3>1, <2>2, <2>3
  <2>7. QED
    BY <2>1, <2>3, <2>5, <2>6 DEF OnceInv
<1>4. CASE ListScripts
  <2>1. /\ tick.at = "listing" /\ tick' = [tick EXCEPT !.at = "firing", !.due = Listed]
        /\ UNCHANGED <<now, fired, twice>>
    BY <1>4 DEF ListScripts, fires
  <2>2. /\ \A d, e \in Listed : d[1] = e[1] => d = e
        /\ \A d \in Listed : d[1] \in Scripts
    BY DEF Listed
  <2>3. tick' = [at |-> "firing", minute |-> tick.minute, due |-> Listed,
                 wake_at |-> tick.wake_at]
    BY <2>1 DEF Typed, Ticks
  <2>4. \A s \in Scripts : fired[s] <= tick.minute
    BY <2>1, <1>0 DEF OnceInv, Typed
  <2>5. QED
    BY <2>1, <2>2, <2>3, <2>4 DEF OnceInv
<1>5. CASE FireScript
  <2>1. PICK d \in tick.due :
           /\ tick.at = "firing" /\ now' = now
           /\ tick' = [tick EXCEPT !.due = tick.due \ {d}]
           /\ \/ /\ fired' = [fired EXCEPT ![d[1]] = tick.minute]
                 /\ twice' = twice \cup (IF fired[d[1]] = tick.minute THEN {d[1]} ELSE {})
              \/ UNCHANGED <<fired, twice>>
    BY <1>5 DEF FireScript, fires
  <2>2. /\ tick'.at = "firing" /\ tick'.minute = tick.minute
        /\ tick'.due = tick.due \ {d}
    BY <2>1 DEF Typed, Ticks
  <2>3. d[1] \in Scripts /\ fired[d[1]] < tick.minute /\ fired[d[1]] \in Nat
    BY <2>1 DEF Typed, Ticks, OnceInv
  <2>4. twice' = {}
    BY <2>1, <2>3, <1>0 DEF OnceInv
  <2>5. \A s \in Scripts : fired'[s] = fired[s] \/ (s = d[1] /\ fired'[s] = tick.minute)
    BY <2>1 DEF Typed
  <2>6. /\ \A s \in Scripts : fired'[s] <= tick.minute
        /\ \A s \in Scripts : fired'[s] <= now \div Minute
    BY <2>1, <2>5, <1>0 DEF OnceInv, Typed
  <2>7. \A e \in tick.due \ {d} : fired'[e[1]] < tick.minute
    <3> SUFFICES ASSUME NEW e \in tick.due, e # d PROVE fired'[e[1]] < tick.minute
      OBVIOUS
    <3>1. e[1] # d[1] /\ e[1] \in Scripts /\ fired[e[1]] < tick.minute
      BY <2>1 DEF OnceInv, Typed, Ticks
    <3>2. QED
      BY <3>1, <2>5
  <2>8. QED
    BY <2>1, <2>2, <2>4, <2>6, <2>7 DEF OnceInv
<1>6. ASSUME EndTick \/ Restart PROVE OnceInv'
  <2>1. tick' = Asleep(now + Interval) /\ UNCHANGED <<now, fired, twice>>
    BY <1>6 DEF EndTick, Restart, fires
  <2>2. (now \div Minute) + 1 <= (now + Interval) \div Minute
    BY <1>0, NextMinute
  <2>3. now \div Minute \in Nat /\ (now + Interval) \div Minute \in Nat /\ now + Interval \in Nat
    BY <1>0
  <2>4. tick'.at = "asleep" /\ tick'.wake_at = now + Interval
    BY <2>1 DEF Asleep
  <2>5. \A s \in Scripts : fired[s] < (now + Interval) \div Minute
    <3> SUFFICES ASSUME NEW s \in Scripts PROVE fired[s] < (now + Interval) \div Minute
      OBVIOUS
    <3>1. fired[s] \in Nat /\ fired[s] <= now \div Minute
      BY DEF OnceInv, Typed
    <3>2. QED
      BY <3>1, <2>2, <2>3, <1>0
  <2>6. QED
    BY <2>1, <2>4, <2>5 DEF OnceInv
<1>7. CASE eval_queued \/ results_push \/ results_pull \/ sweep_expired
  BY <1>1, <1>7 DEF eval_queued, results_push, results_pull, sweep_expired, fires, Push
<1>8. CASE \E w \in Workers : TakeJob(w) \/ FinishEval(w) \/ PushResult(w)
  BY <1>1, <1>8 DEF TakeJob, FinishEval, PushResult, fires
<1>9. CASE Elapse
  <2>1. /\ now < MaxTime /\ now' = now + 1 /\ UNCHANGED <<tick, fired, twice>>
    BY <1>9 DEF Elapse, fires
  <2>2. now' \in Nat /\ now <= now'
    BY <2>1, <1>0
  <2>3. now \div Minute \in Nat /\ now' \div Minute \in Nat /\ now \div Minute <= now' \div Minute
    BY <2>2, <1>0, MinutesPass
  <2>4. tick.minute <= now \div Minute => tick.minute <= now' \div Minute
    BY <2>3, <1>0
  <2>5. \A s \in Scripts : fired[s] <= now \div Minute => fired[s] <= now' \div Minute
    BY <2>3 DEF Typed
  <2>6. QED
    BY <2>1, <2>4, <2>5 DEF OnceInv
<1>10. CASE UNCHANGED vars
  BY <1>1, <1>10 DEF vars, fires
<1>11. QED
  BY <1>2, <1>3, <1>4, <1>5, <1>6, <1>7, <1>8, <1>9, <1>10 DEF Next

\* However late the ticks are, a script is fired once a minute at most.
THEOREM FiredOnce == Spec => []OncePerMinute
<1>1. Init => Typed /\ OnceInv
  BY TypedInit, OnceInit
<1>2. (Typed /\ OnceInv) /\ [Next]_vars => (Typed /\ OnceInv)'
  BY TypedStep, OnceStep
<1>3. OnceInv => OncePerMinute
  BY DEF OnceInv, OncePerMinute
<1>4. QED
  BY <1>1, <1>2, <1>3, PTL DEF Spec

-----------------------------------------------------------------------------
(* The body of the schedule: the two rows of a script belong together      *)
(* unless one is missing, a call is between its two statements, or the     *)
(* last calls left them apart.                                             *)

Fitting(s) == meta[s] = None \/ body[s] = None \/ meta[s] = body[s]

BodyInv ==
    /\ tick.at = "firing" => \A e \in Editors : editor[e] # Idle => editor[e].id \in torn
    /\ \A e \in alone : editor[e] # Idle
    /\ \A e \in alone : \A f \in Editors \ {e} : editor[f].id # editor[e].id
    /\ \A e \in alone : HalfDone(e) => meta[editor[e].id] \in {None, editor[e].version}
    /\ \A s \in Scripts \ apart :
          Fitting(s) \/ \E e \in Editors : HalfDone(e) /\ editor[e].id = s
    /\ tick.at = "firing" =>
          \A d \in tick.due : d[1] \notin torn \cup apart => body[d[1]] \in {None, d[2]}
    /\ mixed = {}

LEMMA RowsDiffer == BothRows # <<"body">> /\ Idle.todo # <<"body">> /\ BothRows # Idle.todo
<1>1. Len(BothRows) = 2 /\ Len(<<"body">>) = 1 /\ Len(<<>>) = 0
  BY DEF BothRows
<1>2. QED
  BY <1>1 DEF Idle

LEMMA EditorIds ==
    ASSUME Typed, NEW e \in Editors
    PROVE  /\ Idle.id = None /\ None \notin Scripts
           /\ editor[e] # Idle => editor[e].id \in Scripts
           /\ HalfDone(e) => editor[e] # Idle
<1>1. Idle.id = None /\ None \notin Scripts
  BY ScriptsAssumption DEF Idle
<1>2. editor[e] # Idle => editor[e].id \in Scripts
  BY DEF Typed, EditorStates
<1>3. HalfDone(e) => editor[e] # Idle
  BY RowsDiffer DEF HalfDone
<1>4. QED
  BY <1>1, <1>2, <1>3

LEMMA BodyInit == Init => BodyInv
  BY ScriptsAssumption DEF Init, BodyInv, Asleep, Fitting

LEMMA BodyBegin ==
    ASSUME Typed, BodyInv, NEW e \in Editors,
           script_add(e) \/ update_script(e) \/ script_delete(e)
    PROVE  BodyInv'
<1>1. PICK s \in Scripts :
         /\ editor[e] = Idle
         /\ editor' \in [Editors -> EditorStates]
         /\ editor'[e].id = s /\ editor'[e].todo = BothRows
         /\ \A f \in Editors \ {e} : editor'[f] = editor[f]
         /\ torn' = torn \cup (IF tick.at = "firing" THEN {s} ELSE {})
         /\ alone' = IF Editing(s) THEN {f \in alone : editor[f].id # s} ELSE alone \cup {e}
         /\ UNCHANGED <<now, meta, body, tick, apart, fires>>
  BY BeginTyped
<1>2. /\ ~HalfDone(e) /\ ~HalfDone(e)' /\ editor'[e] # Idle
      /\ \A f \in Editors \ {e} : HalfDone(f)' = HalfDone(f)
  BY <1>1, RowsDiffer DEF HalfDone
<1>3. e \notin alone
  BY <1>1 DEF BodyInv
<1>4. tick'.at = "firing" => \A f \in Editors : editor'[f] # Idle => editor'[f].id \in torn'
  BY <1>1 DEF BodyInv
<1>5. \A f \in alone' : editor'[f] # Idle
  BY <1>1, <1>2 DEF BodyInv, Typed
<1>6. ASSUME NEW f \in alone', NEW g \in Editors \ {f}
      PROVE  editor'[g].id # editor'[f].id
  <2>1. CASE f = e
    <3>1. ~Editing(s)
      BY <2>1, <1>1, <1>3
    <3>2. QED
      BY <3>1, <2>1, <1>1 DEF Editing
  <2>2. CASE f # e
    <3>1. f \in alone /\ f \in Editors /\ editor'[f] = editor[f]
      BY <2>2, <1>1 DEF Typed
    <3>2. editor[f].id # s
      BY <3>1, <1>1 DEF Editing
    <3>3. QED
      BY <3>1, <3>2, <1>1 DEF BodyInv
  <2>3. QED
    BY <2>1, <2>2
<1>7. \A f \in alone' : HalfDone(f)' => meta'[editor'[f].id] \in {None, editor'[f].version}
  <2> SUFFICES ASSUME NEW f \in alone', HalfDone(f)'
               PROVE  meta'[editor'[f].id] \in {None, editor'[f].version}
    OBVIOUS
  <2>1. f # e /\ f \in alone /\ f \in Editors
    BY <1>1, <1>2 DEF Typed
  <2>2. QED
    BY <2>1, <1>1, <1>2 DEF BodyInv
<1>8. \A t \in Scripts \ apart' :
         Fitting(t)' \/ \E f \in Editors : HalfDone(f)' /\ editor'[f].id = t
  <2> SUFFICES ASSUME NEW t \in Scripts \ apart, ~Fitting(t)
               PROVE  \E f \in Editors : HalfDone(f)' /\ editor'[f].id = t
    BY <1>1 DEF Fitting
  <2>1. PICK f \in Editors : HalfDone(f) /\ editor[f].id = t
    BY DEF BodyInv
  <2>2. f # e
    BY <2>1, <1>2
  <2>3. QED
    BY <2>1, <2>2, <1>1, <1>2
<1>9. tick'.at = "firing" =>
         \A d \in tick'.due : d[1] \notin torn' \cup apart' => body'[d[1]] \in {None, d[2]}
  BY <1>1 DEF BodyInv
<1>10. QED
  BY <1>1, <1>4, <1>5, <1>6, <1>7, <1>8, <1>9 DEF BodyInv, fires

LEMMA BodyEdit == ASSUME Typed, BodyInv, NEW e \in Editors, EditRow(e) PROVE BodyInv'
<1> DEFINE s == editor[e].id
<1>1. /\ editor[e] # Idle /\ s \in Scripts
      /\ \A f \in Editors \ {e} : editor'[f] = editor[f]
      /\ \/ /\ editor[e].todo = BothRows
            /\ editor'[e] = [editor[e] EXCEPT !.todo = <<"body">>]
            /\ meta' = Written(e, meta) /\ body' = body
            /\ UNCHANGED <<alone, apart>>
         \/ /\ editor[e].todo = <<"body">>
            /\ editor'[e] = Idle
            /\ body' = Written(e, body) /\ meta' = meta
            /\ alone' = alone \ {e}
            /\ apart' = IF e \in alone THEN apart \ {s} ELSE apart \cup {s}
  BY EditRowTyped
<1>2. UNCHANGED <<torn, tick, mixed>>
  BY DEF EditRow, fires
<1>3. \A t \in Scripts \ {s} : meta'[t] = meta[t] /\ body'[t] = body[t]
  BY <1>1 DEF Written, Typed, Rows
<1>4. /\ Written(e, meta)[s] \in {None, editor[e].version}
      /\ Written(e, body)[s] \in {None, editor[e].version}
  BY <1>1 DEF Written, Typed, Rows
<1>5. \A f \in Editors \ {e} : HalfDone(f)' = HalfDone(f)
  BY <1>1 DEF HalfDone
<1>6. CASE editor[e].todo = BothRows
  <2>1. /\ editor'[e] = [editor[e] EXCEPT !.todo = <<"body">>]
        /\ meta' = Written(e, meta) /\ body' = body
        /\ UNCHANGED <<alone, apart>>
    BY <1>1, <1>6, RowsDiffer
  <2>2. /\ editor'[e].id = s /\ editor'[e].version = editor[e].version
        /\ editor'[e].todo = <<"body">>
    BY <1>1, <2>1 DEF Typed, EditorStates
  <2>3. HalfDone(e)' /\ editor'[e] # Idle
    BY <2>2, RowsDiffer DEF HalfDone
  <2>4. tick'.at = "firing" => \A f \in Editors : editor'[f] # Idle => editor'[f].id \in torn'
    BY <1>1, <1>2, <2>2 DEF BodyInv
  <2>5. /\ \A f \in alone' : editor'[f] # Idle
        /\ \A f \in alone' : \A g \in Editors \ {f} : editor'[g].id # editor'[f].id
    <3>1. \A f \in Editors : editor'[f].id = editor[f].id /\ (editor[f] # Idle => editor'[f] # Idle)
      BY <1>1, <2>2, <2>3
    <3>2. alone' = alone /\ alone \subseteq Editors
      BY <2>1 DEF Typed
    <3>. QED
      BY <3>1, <3>2 DEF BodyInv
  <2>6. \A f \in alone' : HalfDone(f)' => meta'[editor'[f].id] \in {None, editor'[f].version}
    <3> SUFFICES ASSUME NEW f \in alone', HalfDone(f)'
                 PROVE  meta'[editor'[f].id] \in {None, editor'[f].version}
      OBVIOUS
    <3>1. CASE f = e
      BY <3>1, <2>1, <2>2, <1>4
    <3>2. CASE f # e
      <4>1. f \in alone /\ f \in Editors /\ editor'[f] = editor[f] /\ HalfDone(f)
        BY <3>2, <2>1, <1>1, <1>5 DEF Typed
      <4>2. editor[f].id # s /\ editor[f].id \in Scripts
        BY <4>1, <3>2, EditorIds DEF BodyInv
      <4>3. QED
        BY <4>1, <4>2, <1>3 DEF BodyInv
    <3>3. QED
      BY <3>1, <3>2
  <2>7. \A t \in Scripts \ apart' :
           Fitting(t)' \/ \E f \in Editors : HalfDone(f)' /\ editor'[f].id = t
    <3> SUFFICES ASSUME NEW t \in Scripts \ apart, t # s, ~Fitting(t)
                 PROVE  \E f \in Editors : HalfDone(f)' /\ editor'[f].id = t
      BY <2>1, <2>2, <2>3, <1>3 DEF Fitting
    <3>1. PICK f \in Editors : HalfDone(f) /\ editor[f].id = t
      BY DEF BodyInv
    <3>2. QED
      BY <3>1, <1>1, <1>5
  <2>8. tick'.at = "firing" =>
           \A d \in tick'.due : d[1] \notin torn' \cup apart' => body'[d[1]] \in {None, d[2]}
    BY <1>2, <2>1 DEF BodyInv
  <2>9. QED
    BY <1>2, <2>4, <2>5, <2>6, <2>7, <2>8 DEF BodyInv
<1>7. CASE editor[e].todo = <<"body">>
  <2>1. /\ editor'[e] = Idle
        /\ body' = Written(e, body) /\ meta' = meta
        /\ alone' = alone \ {e}
        /\ apart' = IF e \in alone THEN apart \ {s} ELSE apart \cup {s}
    BY <1>1, <1>7, RowsDiffer
  <2>2. HalfDone(e) /\ ~HalfDone(e)'
    BY <1>7, <2>1, RowsDiffer DEF HalfDone
  <2>3. tick'.at = "firing" => \A f \in Editors : editor'[f] # Idle => editor'[f].id \in torn'
    BY <1>1, <1>2, <2>1 DEF BodyInv
  <2>4. \A f \in alone' : /\ f \in alone /\ f \in Editors /\ f # e
                          /\ editor'[f] = editor[f] /\ editor[f].id \in Scripts
    BY <2>1, <1>1, EditorIds DEF BodyInv, Typed
  <2>5. /\ \A f \in alone' : editor'[f] # Idle
        /\ \A f \in alone' : \A g \in Editors \ {f} : editor'[g].id # editor'[f].id
    <3>1. \A f \in alone' : editor'[f] # Idle
      BY <2>4 DEF BodyInv
    <3>2. ASSUME NEW f \in alone', NEW g \in Editors \ {f} PROVE editor'[g].id # editor'[f].id
      BY <2>1, <2>4, <1>1, EditorIds DEF BodyInv
    <3>3. QED
      BY <3>1, <3>2
  <2>6. \A f \in alone' : HalfDone(f)' => meta'[editor'[f].id] \in {None, editor'[f].version}
    BY <2>1, <2>4, <1>5 DEF BodyInv
  <2>7. ASSUME NEW t \in Scripts \ apart', ~Fitting(t)'
        PROVE  \E f \in Editors : HalfDone(f)' /\ editor'[f].id = t
    <3>1. CASE t = s
      <4>1. e \in alone
        BY <2>1, <3>1
      <4>2. meta[s] \in {None, editor[e].version}
        BY <4>1, <2>2 DEF BodyInv
      <4>3. body'[s] \in {None, editor[e].version} /\ meta'[s] = meta[s]
        BY <2>1, <1>4
      <4>4. QED
        BY <4>2, <4>3, <3>1, <2>7 DEF Fitting
    <3>2. CASE t # s
      <4>1. t \in Scripts \ apart /\ ~Fitting(t)
        BY <3>2, <2>1, <2>7, <1>3 DEF Fitting
      <4>2. PICK f \in Editors : HalfDone(f) /\ editor[f].id = t
        BY <4>1 DEF BodyInv
      <4>3. QED
        BY <4>2, <3>2, <1>1, <1>5
    <3>3. QED
      BY <3>1, <3>2
  <2>8. tick'.at = "firing" =>
           \A d \in tick'.due : d[1] \notin torn' \cup apart' => body'[d[1]] \in {None, d[2]}
    <3> SUFFICES ASSUME tick.at = "firing", NEW d \in tick.due, d[1] \notin torn \cup apart'
                 PROVE  body'[d[1]] \in {None, d[2]}
      BY <1>2
    <3>1. d[1] # s /\ d[1] \in Scripts
      BY <1>1 DEF BodyInv, Typed, Ticks
    <3>2. d[1] \notin apart
      BY <3>1, <2>1
    <3>3. QED
      BY <3>1, <3>2, <1>3 DEF BodyInv
  <2>9. QED
    BY <1>2, <2>3, <2>5, <2>6, <2>7, <2>8 DEF BodyInv
<1>8. QED
  BY <1>1, <1>6, <1>7

\* A call that ends where it is.
LEMMA BodyFail == ASSUME Typed, BodyInv, NEW e \in Editors, FailEdit(e) PROVE BodyInv'
<1>1. /\ editor' = [editor EXCEPT ![e] = Idle] /\ alone' = alone \ {e}
      /\ apart' = apart \cup (IF HalfDone(e) THEN {editor[e].id} ELSE {})
      /\ UNCHANGED <<meta, body, tick, torn, mixed>>
  BY DEF FailEdit, fires
<1>2. /\ editor'[e] = Idle /\ \A f \in Editors \ {e} : editor'[f] = editor[f]
      /\ \A f \in Editors \ {e} : HalfDone(f)' = HalfDone(f)
  BY <1>1 DEF Typed, HalfDone
<1>3. \A f \in alone' : /\ f \in alone /\ f \in Editors /\ f # e
                        /\ editor'[f] = editor[f] /\ editor[f].id \in Scripts
  BY <1>1, <1>2, EditorIds DEF BodyInv, Typed
<1>4. tick'.at = "firing" => \A f \in Editors : editor'[f] # Idle => editor'[f].id \in torn'
  BY <1>1, <1>2 DEF BodyInv
<1>5. \A f \in alone' : editor'[f] # Idle
  BY <1>3 DEF BodyInv
<1>6. ASSUME NEW f \in alone', NEW g \in Editors \ {f} PROVE editor'[g].id # editor'[f].id
  BY <1>2, <1>3, EditorIds DEF BodyInv
<1>7. \A f \in alone' : HalfDone(f)' => meta'[editor'[f].id] \in {None, editor'[f].version}
  BY <1>1, <1>2, <1>3 DEF BodyInv
<1>8. ASSUME NEW t \in Scripts \ apart', ~Fitting(t)'
      PROVE  \E f \in Editors : HalfDone(f)' /\ editor'[f].id = t
  <2>1. t \in Scripts \ apart /\ ~Fitting(t)
    BY <1>1, <1>8 DEF Fitting
  <2>2. PICK f \in Editors : HalfDone(f) /\ editor[f].id = t
    BY <2>1 DEF BodyInv
  <2>3. f # e
    BY <2>2, <1>1, <1>8
  <2>4. QED
    BY <2>2, <2>3, <1>2
<1>9. tick'.at = "firing" =>
         \A d \in tick'.due : d[1] \notin torn' \cup apart' => body'[d[1]] \in {None, d[2]}
  BY <1>1 DEF BodyInv
<1>10. QED
  BY <1>1, <1>4, <1>5, <1>6, <1>7, <1>8, <1>9 DEF BodyInv

LEMMA BodyRestart == ASSUME Typed, BodyInv, Restart PROVE BodyInv'
<1>1. /\ editor' = [e \in Editors |-> Idle] /\ alone' = {} /\ tick'.at = "asleep"
      /\ apart' = apart \cup {editor[e].id : e \in {f \in Editors : HalfDone(f)}}
      /\ UNCHANGED <<meta, body, mixed>>
  BY DEF Restart, Asleep, fires
<1>2. ASSUME NEW t \in Scripts \ apart' PROVE Fitting(t)'
  <2>1. t \notin apart /\ ~\E e \in Editors : HalfDone(e) /\ editor[e].id = t
    BY <1>1
  <2>2. Fitting(t)
    BY <2>1 DEF BodyInv
  <2>3. QED
    BY <2>2, <1>1 DEF Fitting
<1>3. QED
  BY <1>1, <1>2 DEF BodyInv

LEMMA BodyStep == Typed /\ BodyInv /\ [Next]_vars => BodyInv'
<1> SUFFICES ASSUME Typed, BodyInv, [Next]_vars PROVE BodyInv'
  OBVIOUS
<1>1. ASSUME UNCHANGED <<registry, tick, torn, alone, apart, mixed>> PROVE BodyInv'
  BY <1>1 DEF BodyInv, HalfDone, Fitting, registry
<1>2. ASSUME NEW e \in Editors, script_add(e) \/ update_script(e) \/ script_delete(e)
      PROVE  BodyInv'
  BY <1>2, BodyBegin
<1>3. ASSUME NEW e \in Editors, EditRow(e) \/ FailEdit(e) PROVE BodyInv'
  BY <1>3, BodyEdit, BodyFail
<1>4. CASE Wake
  <2>1. tick'.at = "listing"
    BY <1>4 DEF Wake, Typed, Ticks
  <2>2. UNCHANGED <<registry, torn, alone, apart, mixed>>
    BY <1>4 DEF Wake, edited, fires
  <2>3. QED
    BY <2>1, <2>2 DEF BodyInv, HalfDone, Fitting, registry
<1>5. CASE ListScripts
  <2>1. /\ torn' = {s \in Scripts : Editing(s)}
        /\ tick'.due = Listed
        /\ UNCHANGED <<registry, alone, apart, mixed>>
    BY <1>5 DEF ListScripts, Typed, Ticks, fires
  <2>2. \A e \in Editors : editor[e] # Idle => editor[e].id \in torn'
    BY <2>1 DEF Editing, Typed, EditorStates
  <2>3. \A d \in Listed : d[1] \notin torn' \cup apart => body[d[1]] \in {None, d[2]}
    <3> SUFFICES ASSUME NEW d \in Listed, d[1] \notin torn' \cup apart
                 PROVE  body[d[1]] \in {None, d[2]}
      OBVIOUS
    <3>1. d[1] \in Scripts /\ d[2] = meta[d[1]] /\ meta[d[1]] # None
      BY DEF Listed
    <3>2. ~Editing(d[1])
      BY <3>1, <2>1
    <3>3. Fitting(d[1])
      BY <3>1, <3>2 DEF BodyInv, Editing
    <3>4. QED
      BY <3>1, <3>3 DEF Fitting
  <2>4. QED
    BY <2>1, <2>2, <2>3 DEF BodyInv, HalfDone, Fitting, registry
<1>6. CASE FireScript
  <2>1. PICK d \in tick.due :
           /\ tick.at = "firing"
           /\ tick' = [tick EXCEPT !.due = tick.due \ {d}]
           /\ \/ /\ body[d[1]] # None
                 /\ mixed' = mixed \cup (IF body[d[1]] # d[2] THEN {d[1]} \ (torn \cup apart) ELSE {})
              \/ mixed' = mixed
    BY <1>6 DEF FireScript, fires
  <2>2. tick'.due = tick.due \ {d}
    BY <2>1 DEF Typed, Ticks
  <2>3. UNCHANGED <<registry, torn, alone, apart>>
    BY <1>6 DEF FireScript, edited
  <2>4. mixed' = {}
    BY <2>1 DEF BodyInv
  <2>5. QED
    BY <2>1, <2>2, <2>3, <2>4 DEF BodyInv, HalfDone, Fitting, registry
<1>7. CASE EndTick
  <2>1. tick'.at = "asleep"
    BY <1>7 DEF EndTick, Asleep
  <2>2. UNCHANGED <<registry, alone, apart, mixed>>
    BY <1>7 DEF EndTick, fires
  <2>3. QED
    BY <2>1, <2>2 DEF BodyInv, HalfDone, Fitting, registry
<1>8. CASE eval_queued \/ results_push \/ results_pull \/ sweep_expired \/ Elapse
  BY <1>1, <1>8 DEF eval_queued, results_push, results_pull, sweep_expired, Elapse, fires, edited
<1>9. CASE \E w \in Workers : TakeJob(w) \/ FinishEval(w) \/ PushResult(w)
  BY <1>1, <1>9 DEF TakeJob, FinishEval, PushResult, fires, edited
<1>10. CASE Restart
  BY <1>10, BodyRestart
<1>11. CASE UNCHANGED vars
  BY <1>1, <1>11 DEF vars, fires, edited
<1>12. QED
  BY <1>2, <1>3, <1>4, <1>5, <1>6, <1>7, <1>8, <1>9, <1>10, <1>11 DEF Next

\* A script is run with the body that was stored with its schedule, through
\* restarts, if no caller edits it while the scheduler fires it, and its last
\* edit overlapped no other and was not cut short between its two statements.
THEOREM BodyFits == Spec => []BodyGoesWithSchedule
<1>1. Init => Typed /\ BodyInv
  BY TypedInit, BodyInit
<1>2. (Typed /\ BodyInv) /\ [Next]_vars => (Typed /\ BodyInv)'
  BY TypedStep, BodyStep
<1>3. BodyInv => BodyGoesWithSchedule
  BY DEF BodyInv, BodyGoesWithSchedule
<1>4. QED
  BY <1>1, <1>2, <1>3, PTL DEF Spec

-----------------------------------------------------------------------------
(* The result queues: a queue was created when its first value came, and a *)
(* sweep is due within the time to live and one interval after that.       *)

ResultInv ==
    /\ now \in Times /\ created_at \in [Ids -> Times \cup {Never}] /\ first = created_at
    /\ sweep_at \in Nat /\ now <= sweep_at /\ sweep_at <= now + SweepEvery
    /\ \A id \in Ids : first[id] # Never => sweep_at <= first[id] + Ttl + SweepEvery
    /\ early = {}

LEMMA ResultInit == Init => ResultInv
<1> SUFFICES ASSUME Init PROVE ResultInv
  OBVIOUS
<1>1. Start \in Times /\ Start \in Nat /\ SweepEvery \in Nat
  BY ScriptsAssumption DEF Start, Times
<1>2. QED
  BY <1>1 DEF Init, ResultInv

LEMMA PushKeeps ==
    ASSUME ResultInv, NEW id, Push(id), now' = now, sweep_at' = sweep_at
    PROVE  ResultInv'
<1>1. /\ created_at' = [created_at EXCEPT ![id] = IF created_at[id] = Never THEN now ELSE created_at[id]]
      /\ first' = [first EXCEPT ![id] = IF first[id] = Never THEN now ELSE first[id]]
      /\ early' = early
  BY DEF Push
<1>2. now \in Nat /\ Ttl \in Nat /\ SweepEvery \in Nat /\ sweep_at \in Nat
  BY ScriptsAssumption DEF ResultInv, Times, Start
<1>3. first' = created_at'
  BY <1>1 DEF ResultInv
<1>4. created_at' \in [Ids -> Times \cup {Never}]
  BY <1>1 DEF ResultInv
<1>5. \A i \in Ids : first'[i] # Never => sweep_at <= first'[i] + Ttl + SweepEvery
  <2> SUFFICES ASSUME NEW i \in Ids, first'[i] # Never
               PROVE  sweep_at <= first'[i] + Ttl + SweepEvery
    OBVIOUS
  <2>1. CASE first'[i] = first[i]
    BY <2>1 DEF ResultInv
  <2>2. CASE first'[i] # first[i]
    <3>1. first'[i] = now
      BY <2>2, <1>1 DEF ResultInv
    <3>2. QED
      BY <3>1, <1>2 DEF ResultInv
  <2>3. QED
    BY <2>1, <2>2
<1>6. QED
  BY <1>1, <1>3, <1>4, <1>5 DEF ResultInv

LEMMA ResultStep == ResultInv /\ [Next]_vars => ResultInv'
<1> SUFFICES ASSUME ResultInv, [Next]_vars PROVE ResultInv'
  OBVIOUS
<1>0. /\ now \in Nat /\ Ttl \in Nat /\ SweepEvery \in Nat \ {0} /\ sweep_at \in Nat
      /\ Ttl <= now /\ now <= MaxTime /\ MaxTime \in Nat
  BY ScriptsAssumption DEF ResultInv, Times, Start
<1>1. ASSUME UNCHANGED <<now, created_at, sweep_at, fates>> PROVE ResultInv'
  BY <1>1 DEF ResultInv, fates
<1>2. CASE \E e \in Editors : \/ script_add(e) \/ update_script(e) \/ script_delete(e)
                           \/ EditRow(e) \/ FailEdit(e)
  BY <1>1, <1>2
  DEF script_add, update_script, script_delete, Begin, EditRow, FailEdit, results
<1>3. CASE Wake \/ ListScripts \/ FireScript \/ EndTick \/ eval_queued \/ results_pull
  BY <1>1, <1>3 DEF Wake, ListScripts, FireScript, EndTick, eval_queued, results_pull, results
<1>4. CASE \E w \in Workers : TakeJob(w) \/ FinishEval(w)
  BY <1>1, <1>4 DEF TakeJob, FinishEval, results
<1>5. ASSUME NEW w \in Workers, PushResult(w) PROVE ResultInv'
  BY <1>5, PushKeeps DEF PushResult
<1>6. CASE results_push
  BY <1>6, PushKeeps DEF results_push
<1>7. CASE sweep_expired
  <2> DEFINE old == {id \in Ids : created_at[id] # Never /\ created_at[id] <= now - Ttl}
  <2>1. /\ now >= sweep_at /\ now' = now /\ sweep_at' = now + SweepEvery
        /\ created_at' = [id \in Ids |-> IF id \in old THEN Never ELSE created_at[id]]
        /\ first' = [id \in Ids |-> IF id \in old THEN Never ELSE first[id]]
        /\ early' = early \cup {id \in old : now < first[id] + Ttl}
    BY <1>7 DEF sweep_expired
  <2>2. \A id \in Ids : first[id] # Never => first[id] \in Nat
    BY ScriptsAssumption DEF ResultInv, Times, Start
  <2>3. early' = {}
    BY <2>1, <2>2, <1>0 DEF ResultInv
  <2>4. first' = created_at' /\ created_at' \in [Ids -> Times \cup {Never}]
    BY <2>1 DEF ResultInv
  <2>5. \A id \in Ids : first'[id] # Never => sweep_at' <= first'[id] + Ttl + SweepEvery
    <3> SUFFICES ASSUME NEW id \in Ids, first'[id] # Never
                 PROVE  sweep_at' <= first'[id] + Ttl + SweepEvery
      OBVIOUS
    <3>1. id \notin old /\ first'[id] = first[id] /\ first[id] # Never
      BY <2>1
    <3>2. first[id] \in Nat /\ ~(first[id] <= now - Ttl)
      BY <3>1, <2>2 DEF ResultInv
    <3>3. QED
      BY <3>1, <3>2, <2>1, <1>0
  <2>6. QED
    BY <2>1, <2>3, <2>4, <2>5, <1>0 DEF ResultInv
<1>8. CASE Elapse
  BY <1>8, <1>0 DEF Elapse, ResultInv, results, fates, Times, Start
<1>9. CASE UNCHANGED vars
  BY <1>1, <1>9 DEF vars, results
<1>10. CASE Restart
  BY <1>10, <1>0 DEF Restart, ResultInv
<1>11. QED
  BY <1>2, <1>3, <1>4, <1>5, <1>6, <1>7, <1>8, <1>9, <1>10 DEF Next

\* Results stay for the time to live and go at the next sweep after it,
\* whatever is pushed and pulled meanwhile, while the process runs.
THEOREM ResultsStay == Spec => []ResultsLast
<1>1. ResultInv => ResultsLast
  <2> SUFFICES ASSUME ResultInv, NEW id \in Ids, first[id] # Never
               PROVE  now <= first[id] + Ttl + SweepEvery
    BY DEF ResultInv, ResultsLast
  <2>1. first[id] \in Nat /\ now \in Nat /\ sweep_at \in Nat
    BY ScriptsAssumption DEF ResultInv, Times, Start
  <2>2. now <= sweep_at /\ sweep_at <= first[id] + Ttl + SweepEvery
    BY DEF ResultInv
  <2>3. QED
    BY <2>1, <2>2, ScriptsAssumption
<1>2. QED
  BY <1>1, ResultInit, ResultStep, PTL DEF Spec
=============================================================================
