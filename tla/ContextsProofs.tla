--------------------------- MODULE ContextsProofs ---------------------------
(***************************************************************************)
(* Calls of one context exclude each other, for any number of calls and    *)
(* contexts and every time to live: two of them are on different VMs only  *)
(* if one of them asked for its VM too long ago.  And what one of them     *)
(* leaves the next one finds, as long as the context is asked for in time. *)
(***************************************************************************)
EXTENDS Contexts, TLAPS

\* Call c asked for its VM longer ago than the time to live.
Old(c) == \E i \in DOMAIN gets : gets[i].call = c /\ now - gets[i].time > Ttl

Born(c) == call[c].at # "unborn"

\* A call that has asked is in gets, with a VM; the registry was given the
\* time of the last one of its context.
AskedInv ==
    \A c \in Calls : Born(c) =>
        /\ call[c].name \in Names
        /\ call[c].vm \in Calls
        /\ \E i \in DOMAIN gets : gets[i].call = c

TimesInv ==
    \A i \in DOMAIN gets :
        /\ Born(gets[i].call)
        /\ gets[i].time <= now
        /\ gets[i].time <= last_accessed[call[gets[i].call].name]

\* While the server takes calls, the registry has the VM of every call that
\* is not old.
EvictedInv ==
    open => \A c \in Calls :
        Born(c) /\ call[c].vm # entries[call[c].name] => Old(c)

ApartInv ==
    \A c, d \in Calls :
        Born(c) /\ Born(d) /\ call[c].name = call[d].name /\ call[c].vm # call[d].vm
            => Old(c) \/ Old(d)

LockInv == \A c \in Calls : call[c].at = "running" => holder[call[c].vm] = c

IInv == TypeOK /\ gets \in Seq([call : Calls, time : Times])
        /\ AskedInv /\ TimesInv /\ EvictedInv /\ ApartInv /\ LockInv

-----------------------------------------------------------------------------
LEMMA InitInv == Init => IInv
  BY ContextsAssumption
  DEF Init, IInv, TypeOK, AskedInv, TimesInv, EvictedInv, ApartInv, LockInv, Born, Places,
      Times, NoVM

LEMMA GetsTyped ==
    ASSUME IInv, NEW i \in DOMAIN gets
    PROVE  gets[i].call \in Calls /\ gets[i].time \in Times /\ gets[i].time \in Nat
<1>1. gets[i] \in [call : Calls, time : Times]
  BY DEF IInv, TypeOK
<1>2. QED
  BY <1>1 DEF Times

\* A call that goes on to another place.
LEMMA MovedTyped ==
    ASSUME IInv, NEW c \in Calls, NEW at \in Places,
           call' = [call EXCEPT ![c].at = at]
    PROVE  /\ call' \in [Calls -> [at : Places, name : Names \cup {NoVM}, vm : Calls \cup {NoVM}]]
           /\ call'[c] = [at |-> at, name |-> call[c].name, vm |-> call[c].vm]
           /\ \A d \in Calls \ {c} : call'[d] = call[d]
<1>1. call[c] \in [at : Places, name : Names \cup {NoVM}, vm : Calls \cup {NoVM}]
  BY DEF IInv, TypeOK
<1>2. [call[c] EXCEPT !.at = at] = [at |-> at, name |-> call[c].name, vm |-> call[c].vm]
  BY <1>1
<1>3. call' = [call EXCEPT ![c] = [at |-> at, name |-> call[c].name, vm |-> call[c].vm]]
  BY <1>2 DEF IInv, TypeOK
<1>4. QED
  BY <1>1, <1>3 DEF IInv, TypeOK

\* What was old stays old: gets only grow, and so does the time.
LEMMA OldStays ==
    ASSUME IInv, now' \in Nat, now <= now',
           \/ gets' = gets
           \/ \E g \in [call : Calls, time : Times] : gets' = Append(gets, g),
           NEW c, Old(c)
    PROVE  Old(c)'
<1>1. PICK i \in DOMAIN gets : gets[i].call = c /\ now - gets[i].time > Ttl
  BY DEF Old
<1>2. i \in DOMAIN gets' /\ gets'[i] = gets[i]
  BY <1>1 DEF IInv
<1>3. now \in Nat /\ gets[i].time \in Nat /\ Ttl \in Nat
  BY <1>1, ContextsAssumption DEF IInv, TypeOK, Times
<1>4. now' - gets'[i].time > Ttl
  BY <1>1, <1>2, <1>3
<1>5. QED
  BY <1>1, <1>2, <1>4 DEF Old

LEMMA GetInv == ASSUME IInv, NEW c \in Calls, get(c) PROVE IInv'
<1> USE ContextsAssumption
<1>1. PICK name \in Names :
         LET vm == IF entries[name] = NoVM THEN c ELSE entries[name] IN
         /\ entries' = [entries EXCEPT ![name] = vm]
         /\ last_accessed' = [last_accessed EXCEPT ![name] = now]
         /\ call' = [call EXCEPT ![c] = [at |-> "waiting", name |-> name, vm |-> vm]]
  BY DEF get
<1> DEFINE vm == IF entries[name] = NoVM THEN c ELSE entries[name]
           g  == [call |-> c, time |-> now]
<1>2. /\ open /\ open' = open /\ now' = now /\ holder' = holder /\ scan_at' = scan_at
      /\ ran' = ran /\ seen' = seen /\ call[c].at = "unborn"
      /\ gets' = Append(gets, g)
  BY DEF get
<1>3. /\ vm \in Calls
      /\ entries' = [entries EXCEPT ![name] = vm]
      /\ last_accessed' = [last_accessed EXCEPT ![name] = now]
      /\ call' = [call EXCEPT ![c] = [at |-> "waiting", name |-> name, vm |-> vm]]
  BY <1>1 DEF IInv, TypeOK, NoVM
<1>4. now \in Times /\ g \in [call : Calls, time : Times]
  BY DEF IInv, TypeOK
<1>5. gets \in Seq([call : Calls, time : Times])
  BY DEF IInv
<1>6. /\ gets' \in Seq([call : Calls, time : Times])
      /\ DOMAIN gets' = 1..(Len(gets) + 1) /\ DOMAIN gets = 1..Len(gets)
      /\ gets'[Len(gets) + 1] = g
      /\ \A i \in DOMAIN gets : i \in DOMAIN gets' /\ gets'[i] = gets[i]
  BY <1>2, <1>4, <1>5
<1> HIDE DEF vm
<1>7. TypeOK'
  <2>1. call' \in [Calls -> [at : Places, name : Names \cup {NoVM}, vm : Calls \cup {NoVM}]]
    BY <1>3 DEF IInv, TypeOK, Places
  <2>2. \A i \in DOMAIN gets' : gets'[i] \in [call : Calls, time : Times]
    <3>1. \A i \in DOMAIN gets : gets[i] \in [call : Calls, time : Times]
      BY DEF IInv, TypeOK
    <3>2. \A i \in DOMAIN gets' : i = Len(gets) + 1 \/ i \in DOMAIN gets
      BY <1>6
    <3>3. QED
      BY <3>1, <3>2, <1>4, <1>6
  <2>3. QED
    BY <2>1, <2>2, <1>2, <1>3, <1>4 DEF IInv, TypeOK
<1>8. \A d \in Calls \ {c} : call'[d] = call[d]
  BY <1>3 DEF IInv, TypeOK
<1>9. call'[c] = [at |-> "waiting", name |-> name, vm |-> vm]
  BY <1>3 DEF IInv, TypeOK
<1>10. entries'[name] = vm /\ last_accessed'[name] = now
       /\ \A m \in Names \ {name} : entries'[m] = entries[m] /\ last_accessed'[m] = last_accessed[m]
  BY <1>3 DEF IInv, TypeOK
<1>11. \A d : Old(d) => Old(d)'
  <2> SUFFICES ASSUME NEW d, Old(d) PROVE Old(d)'
    OBVIOUS
  <2>1. now' \in Nat /\ now <= now'
    BY <1>2, <1>4 DEF Times
  <2>2. QED
    BY <2>1, <1>2, <1>4, OldStays
<1>12. AskedInv'
  <2> SUFFICES ASSUME NEW d \in Calls, Born(d)'
               PROVE  /\ call'[d].name \in Names
                      /\ call'[d].vm \in Calls
                      /\ \E i \in DOMAIN gets' : gets'[i].call = d
    BY DEF AskedInv
  <2>1. CASE d = c
    <3>1. gets'[Len(gets) + 1].call = c /\ Len(gets) + 1 \in DOMAIN gets'
      BY <1>6
    <3>2. QED
      BY <3>1, <2>1, <1>3, <1>9
  <2>2. CASE d # c
    <3>1. Born(d)
      BY <2>2, <1>8 DEF Born
    <3>2. PICK i \in DOMAIN gets : gets[i].call = d
      BY <3>1 DEF IInv, AskedInv
    <3>3. i \in DOMAIN gets' /\ gets'[i].call = d
      BY <3>2, <1>6
    <3>4. QED
      BY <3>1, <3>3, <2>2, <1>8 DEF IInv, AskedInv
  <2>3. QED
    BY <2>1, <2>2
<1>13. TimesInv'
  <2> SUFFICES ASSUME NEW i \in DOMAIN gets'
               PROVE  /\ call'[gets'[i].call].at # "unborn"
                      /\ gets'[i].time <= now'
                      /\ gets'[i].time <= last_accessed'[call'[gets'[i].call].name]
    BY DEF TimesInv, Born
  <2>1. CASE i = Len(gets) + 1
    <3>1. gets'[i].call = c /\ gets'[i].time = now
      BY <2>1, <1>6
    <3>2. call'[c].at = "waiting" /\ call'[c].name = name
      BY <1>9
    <3>3. QED
      BY <3>1, <3>2, <1>2, <1>4, <1>10 DEF Times
  <2>2. CASE i # Len(gets) + 1
    <3>1. i \in DOMAIN gets /\ gets'[i] = gets[i] /\ gets[i].call \in Calls
      <4>1. i \in DOMAIN gets
        BY <2>2, <1>6
      <4>2. QED
        BY <4>1, <1>6, GetsTyped
    <3>2. /\ Born(gets[i].call) /\ gets[i].time <= now
          /\ gets[i].time <= last_accessed[call[gets[i].call].name]
      BY <3>1 DEF IInv, TimesInv
    <3>3. gets[i].call # c
      BY <3>2, <1>2 DEF Born
    <3>4. call'[gets[i].call] = call[gets[i].call]
      BY <3>1, <3>3, <1>8
    <3>5. call[gets[i].call].name \in Names
      BY <3>1, <3>2 DEF IInv, AskedInv
    <3>6. last_accessed[call[gets[i].call].name] \in Times /\ gets[i].time \in Times
      BY <3>1, <3>5, GetsTyped DEF IInv, TypeOK
    <3>7. gets[i].time <= last_accessed'[call[gets[i].call].name]
      BY <3>2, <3>5, <3>6, <1>4, <1>10
    <3>8. QED
      BY <3>1, <3>2, <3>4, <3>7, <1>2 DEF Born
  <2>3. QED
    BY <2>1, <2>2
<1>14. ASSUME NEW d \in Calls, d # c, Born(d), call[d].vm # entries[call[d].name]
       PROVE  Old(d)
  BY <1>2, <1>14 DEF IInv, EvictedInv
<1>15. EvictedInv'
  <2> SUFFICES ASSUME NEW d \in Calls, Born(d)', call'[d].vm # entries'[call'[d].name]
               PROVE  Old(d)'
    BY DEF EvictedInv
  <2>1. d # c
    BY <1>9, <1>10
  <2>2. call'[d] = call[d] /\ Born(d) /\ call[d].name \in Names /\ call[d].vm \in Calls
    BY <2>1, <1>8 DEF Born, IInv, AskedInv
  <2>3. CASE call[d].name = name
    <3>1. call[d].vm # entries[name]
      BY <2>2, <2>3, <1>10, ContextsAssumption DEF vm, NoVM
    <3>2. QED
      BY <3>1, <2>1, <2>2, <2>3, <1>11, <1>14
  <2>4. CASE call[d].name # name
    BY <2>1, <2>2, <2>4, <1>10, <1>11, <1>14
  <2>5. QED
    BY <2>3, <2>4
<1>16. ASSUME NEW d \in Calls, d # c, Born(d), call[d].name = name, call[d].vm # vm
       PROVE  Old(d)
  <2>1. call[d].vm \in Calls
    BY <1>16 DEF IInv, AskedInv
  <2>2. call[d].vm # entries[name]
    BY <2>1, <1>16, ContextsAssumption DEF vm, NoVM
  <2>3. QED
    BY <2>2, <1>14, <1>16
<1>17. ApartInv'
  <2> SUFFICES ASSUME NEW d \in Calls, NEW e \in Calls, Born(d)', Born(e)',
                      call'[d].name = call'[e].name, call'[d].vm # call'[e].vm
               PROVE  Old(d)' \/ Old(e)'
    BY DEF ApartInv
  <2>1. CASE d = c
    <3>1. e # c /\ call'[e] = call[e]
      BY <2>1, <1>8
    <3>2. Born(e) /\ call[e].name = name /\ call[e].vm # vm
      BY <2>1, <3>1, <1>9 DEF Born
    <3>3. QED
      BY <3>1, <3>2, <1>11, <1>16
  <2>2. CASE e = c
    <3>1. d # c /\ call'[d] = call[d]
      BY <2>2, <1>8
    <3>2. Born(d) /\ call[d].name = name /\ call[d].vm # vm
      BY <2>2, <3>1, <1>9 DEF Born
    <3>3. QED
      BY <3>1, <3>2, <1>11, <1>16
  <2>3. CASE d # c /\ e # c
    <3>1. call'[d] = call[d] /\ call'[e] = call[e]
      BY <2>3, <1>8
    <3>2. Old(d) \/ Old(e)
      BY <3>1 DEF IInv, ApartInv, Born
    <3>3. QED
      BY <3>2, <1>11
  <2>4. QED
    BY <2>1, <2>2, <2>3
<1>18. LockInv'
  <2> SUFFICES ASSUME NEW d \in Calls, call'[d].at = "running"
               PROVE  holder'[call'[d].vm] = d
    BY DEF LockInv
  <2>1. d # c
    BY <1>9
  <2>2. QED
    BY <2>1, <1>2, <1>8 DEF IInv, LockInv
<1>19. QED
  BY <1>6, <1>7, <1>12, <1>13, <1>15, <1>17, <1>18 DEF IInv

\* A step on which no call asks, and which leaves the registry as it is.
LEMMA RegistryStays ==
    ASSUME IInv, gets' = gets, now' = now, entries' = entries, open' = open,
           last_accessed' = last_accessed,
           \A c \in Calls : /\ call'[c].name = call[c].name /\ call'[c].vm = call[c].vm
                            /\ Born(c)' <=> Born(c)
    PROVE  AskedInv' /\ TimesInv' /\ EvictedInv' /\ ApartInv'
<1>1. \A c : Old(c)' <=> Old(c)
  BY DEF Old
<1>2. AskedInv'
  BY DEF IInv, AskedInv
<1>3. TimesInv'
  <2>1. \A i \in DOMAIN gets : gets[i].call \in Calls
    BY GetsTyped
  <2>2. QED
    BY <2>1 DEF IInv, TimesInv
<1>4. EvictedInv'
  BY <1>1 DEF IInv, EvictedInv
<1>5. ApartInv'
  BY <1>1 DEF IInv, ApartInv
<1>6. QED
  BY <1>2, <1>3, <1>4, <1>5

LEMMA AcquireInv == ASSUME IInv, NEW c \in Calls, Acquire(c) PROVE IInv'
<1>1. /\ call[c].at = "waiting" /\ holder[call[c].vm] = NoVM
      /\ holder' = [holder EXCEPT ![call[c].vm] = c]
      /\ call' = [call EXCEPT ![c].at = "running"]
      /\ UNCHANGED <<now, entries, last_accessed, scan_at, open, gets, ran>>
      /\ seen' = [seen EXCEPT ![c] = ran[call[c].vm]]
  BY DEF Acquire
<1>2. call[c].vm \in Calls
  BY <1>1 DEF IInv, AskedInv, Born
<1>3. /\ call' \in [Calls -> [at : Places, name : Names \cup {NoVM}, vm : Calls \cup {NoVM}]]
      /\ call'[c] = [at |-> "running", name |-> call[c].name, vm |-> call[c].vm]
      /\ \A d \in Calls \ {c} : call'[d] = call[d]
  BY <1>1, MovedTyped DEF Places
<1>4. TypeOK'
  <2>2. holder' \in [Calls -> Calls \cup {NoVM}] /\ seen' \in [Calls -> SUBSET Calls]
    BY <1>1, <1>2 DEF IInv, TypeOK
  <2>3. QED
    BY <2>2, <1>1, <1>3 DEF IInv, TypeOK
<1>5. AskedInv' /\ TimesInv' /\ EvictedInv' /\ ApartInv'
  <2>1. \A d \in Calls : /\ call'[d].name = call[d].name /\ call'[d].vm = call[d].vm
                         /\ Born(d)' <=> Born(d)
    BY <1>1, <1>3 DEF IInv, TypeOK, Born
  <2>2. QED
    BY <2>1, <1>1, RegistryStays
<1>6. LockInv'
  <2> SUFFICES ASSUME NEW d \in Calls, call'[d].at = "running"
               PROVE  holder'[call'[d].vm] = d
    BY DEF LockInv
  <2>1. CASE d = c
    BY <2>1, <1>1, <1>2, <1>3 DEF IInv, TypeOK
  <2>2. CASE d # c
    <3>1. call'[d] = call[d] /\ holder[call[d].vm] = d
      BY <2>2, <1>3 DEF IInv, LockInv
    <3>2. call[d].vm # call[c].vm
      BY <3>1, <1>1, ContextsAssumption DEF NoVM
    <3>3. call[d].vm \in Calls
      BY <3>1 DEF IInv, AskedInv, Born
    <3>4. QED
      BY <3>1, <3>2, <3>3, <1>1 DEF IInv, TypeOK
  <2>3. QED
    BY <2>1, <2>2
<1>7. QED
  BY <1>1, <1>4, <1>5, <1>6 DEF IInv

LEMMA FinishInv == ASSUME IInv, NEW c \in Calls, Finish(c) PROVE IInv'
<1>1. /\ call[c].at = "running"
      /\ holder' = [holder EXCEPT ![call[c].vm] = NoVM]
      /\ call' = [call EXCEPT ![c].at = "done"]
      /\ ran' = [ran EXCEPT ![call[c].vm] = @ \cup {c}]
      /\ UNCHANGED <<now, entries, last_accessed, scan_at, open, gets, seen>>
  BY DEF Finish
<1>2. call[c].vm \in Calls /\ holder[call[c].vm] = c
  BY <1>1 DEF IInv, AskedInv, LockInv, Born
<1>3. /\ call' \in [Calls -> [at : Places, name : Names \cup {NoVM}, vm : Calls \cup {NoVM}]]
      /\ call'[c] = [at |-> "done", name |-> call[c].name, vm |-> call[c].vm]
      /\ \A d \in Calls \ {c} : call'[d] = call[d]
  BY <1>1, MovedTyped DEF Places
<1>4. TypeOK'
  <2>2. holder' \in [Calls -> Calls \cup {NoVM}] /\ ran' \in [Calls -> SUBSET Calls]
    BY <1>1, <1>2 DEF IInv, TypeOK
  <2>3. QED
    BY <2>2, <1>1, <1>3 DEF IInv, TypeOK
<1>5. AskedInv' /\ TimesInv' /\ EvictedInv' /\ ApartInv'
  <2>1. \A d \in Calls : /\ call'[d].name = call[d].name /\ call'[d].vm = call[d].vm
                         /\ Born(d)' <=> Born(d)
    BY <1>1, <1>3 DEF IInv, TypeOK, Born
  <2>2. QED
    BY <2>1, <1>1, RegistryStays
<1>6. LockInv'
  <2> SUFFICES ASSUME NEW d \in Calls, call'[d].at = "running"
               PROVE  holder'[call'[d].vm] = d
    BY DEF LockInv
  <2>1. d # c
    BY <1>1, <1>3 DEF IInv, TypeOK
  <2>2. call'[d] = call[d] /\ holder[call[d].vm] = d
    BY <2>1, <1>3 DEF IInv, LockInv
  <2>3. call[d].vm # call[c].vm
    BY <2>1, <2>2, <1>2
  <2>4. call[d].vm \in Calls
    BY <2>2 DEF IInv, AskedInv, Born
  <2>5. QED
    BY <2>2, <2>3, <2>4, <1>1 DEF IInv, TypeOK
<1>7. QED
  BY <1>1, <1>4, <1>5, <1>6 DEF IInv

\* A VM that is evicted is one that every call of its context asked for
\* longer ago than the time to live.
LEMMA EvictInv == ASSUME IInv, evict_stale PROVE IInv'
<1>1. /\ entries' = [name \in Names |-> IF Stale(name) THEN NoVM ELSE entries[name]]
      /\ scan_at' = now + ScanEvery
      /\ UNCHANGED <<now, last_accessed, call, holder, open, gets, ran, seen>>
  BY DEF evict_stale, history
<1>2. TypeOK'
  BY <1>1, ContextsAssumption DEF IInv, TypeOK, Times
<1>3. \A c : (Old(c)' <=> Old(c)) /\ (Born(c)' <=> Born(c))
  BY <1>1 DEF Old, Born
<1>4. AskedInv' /\ TimesInv' /\ LockInv'
  BY <1>1, <1>3 DEF IInv, AskedInv, TimesInv, LockInv
<1>5. ApartInv'
  BY <1>1, <1>3 DEF IInv, ApartInv
<1>6. EvictedInv'
  <2> SUFFICES ASSUME open, NEW c \in Calls, Born(c), call[c].vm # entries'[call[c].name]
               PROVE  Old(c)
    BY <1>1, <1>3 DEF EvictedInv
  <2>1. call[c].name \in Names
    BY DEF IInv, AskedInv
  <2>2. CASE Stale(call[c].name)
    <3>1. PICK i \in DOMAIN gets : gets[i].call = c
      BY DEF IInv, AskedInv
    <3>2. gets[i].time <= last_accessed[call[c].name] /\ gets[i].time \in Times
      BY <3>1, GetsTyped DEF IInv, TimesInv
    <3>3. now - last_accessed[call[c].name] > Ttl
      BY <2>2 DEF Stale
    <3>4. last_accessed[call[c].name] \in Times /\ now \in Times
      BY <2>1 DEF IInv, TypeOK
    <3>5. now - gets[i].time > Ttl
      BY <3>2, <3>3, <3>4, ContextsAssumption DEF Times
    <3>6. QED
      BY <3>1, <3>5 DEF Old
  <2>3. CASE ~Stale(call[c].name)
    BY <2>1, <2>3, <1>1 DEF IInv, EvictedInv
  <2>4. QED
    BY <2>2, <2>3
<1>7. QED
  BY <1>1, <1>2, <1>4, <1>5, <1>6 DEF IInv

LEMMA CloseInv == ASSUME IInv, vm_close PROVE IInv'
<1>1. /\ open' = FALSE
      /\ entries' = [name \in Names |-> NoVM]
      /\ UNCHANGED <<now, last_accessed, call, holder, scan_at, gets, ran, seen>>
  BY DEF vm_close, history
<1>2. \A c : (Old(c)' <=> Old(c)) /\ (Born(c)' <=> Born(c))
  BY <1>1 DEF Old, Born
<1>3. TypeOK'
  BY <1>1 DEF IInv, TypeOK
<1>4. QED
  BY <1>1, <1>2, <1>3 DEF IInv, AskedInv, TimesInv, EvictedInv, ApartInv, LockInv

LEMMA ElapseInv == ASSUME IInv, Elapse PROVE IInv'
<1>1. /\ now < MaxTime /\ now' = now + 1
      /\ UNCHANGED <<entries, last_accessed, call, holder, scan_at, open, gets, ran, seen>>
  BY DEF Elapse, history
<1>2. now \in Nat /\ now' \in Times
  BY <1>1, ContextsAssumption DEF IInv, TypeOK, Times
<1>3. \A c : Old(c) => Old(c)'
  <2> SUFFICES ASSUME NEW c, Old(c) PROVE Old(c)'
    OBVIOUS
  <2>1. now' \in Nat /\ now <= now' /\ gets' = gets
    BY <1>1, <1>2
  <2>2. QED
    BY <2>1, OldStays
<1>4. \A c : Born(c)' <=> Born(c)
  BY <1>1 DEF Born
<1>5. TypeOK'
  BY <1>1, <1>2 DEF IInv, TypeOK
<1>6. TimesInv'
  <2>1. \A i \in DOMAIN gets : gets[i].time \in Nat
    BY GetsTyped
  <2>2. QED
    BY <2>1, <1>1, <1>2, <1>4 DEF IInv, TimesInv
<1>7. QED
  BY <1>1, <1>3, <1>4, <1>5, <1>6 DEF IInv, AskedInv, EvictedInv, ApartInv, LockInv

THEOREM ContextsInv == Spec => []IInv
<1>1. Init => IInv
  BY InitInv
<1>2. IInv /\ [Next]_vars => IInv'
  <2> SUFFICES ASSUME IInv, [Next]_vars PROVE IInv'
    OBVIOUS
  <2>1. ASSUME NEW c \in Calls, get(c) PROVE IInv'
    BY <2>1, GetInv
  <2>2. ASSUME NEW c \in Calls, Acquire(c) PROVE IInv'
    BY <2>2, AcquireInv
  <2>3. ASSUME NEW c \in Calls, Finish(c) PROVE IInv'
    BY <2>3, FinishInv
  <2>4. CASE evict_stale
    BY <2>4, EvictInv
  <2>5. CASE vm_close
    BY <2>5, CloseInv
  <2>6. CASE Elapse
    BY <2>6, ElapseInv
  <2>7. CASE UNCHANGED vars
    BY <2>7 DEF vars, history, IInv, TypeOK, AskedInv, TimesInv, EvictedInv, ApartInv, LockInv,
                Old, Born
  <2>8. QED
    BY <2>1, <2>2, <2>3, <2>4, <2>5, <2>6, <2>7 DEF Next
<1>3. QED
  BY <1>1, <1>2, PTL DEF Spec

\* v2/eval: two calls run in one context at a time only if one of them asked
\* for its VM longer ago than the time to live, whatever the number of calls,
\* the times and the interval of the scans.
THEOREM CallsExclude == Spec => []Serialised
<1>1. IInv => Serialised
  <2> SUFFICES ASSUME IInv, NEW c \in Calls, NEW d \in Calls, c # d,
                      call[c].at = "running", call[d].at = "running",
                      call[c].name = call[d].name
               PROVE  \E g \in {gets[i] : i \in DOMAIN gets} :
                         g.call \in {c, d} /\ now - g.time > Ttl
    BY DEF Serialised
  <2>1. call[c].vm # call[d].vm
    BY DEF IInv, LockInv
  <2>2. Old(c) \/ Old(d)
    BY <2>1 DEF IInv, ApartInv, Born
  <2>3. QED
    BY <2>2 DEF Old
<1>2. QED
  BY <1>1, ContextsInv, PTL

-----------------------------------------------------------------------------
(* Sessions. *)

VmOf(i) == call[gets[i].call].vm
HasRun(c) == call[c].at \in {"running", "done"}

\* A call asks once.
OnceInv == \A i, j \in DOMAIN gets : gets[i].call = gets[j].call => i = j

OrderInv == \A i, j \in DOMAIN gets : i < j => gets[i].time <= gets[j].time

IsLast(l) == \A j \in DOMAIN gets : NameOf(j) = NameOf(l) => j <= l

\* The registry has the VM that a context was last given, unless that was
\* longer ago than the time to live.
RecentInv ==
    open => \A i \in DOMAIN gets : \E l \in DOMAIN gets :
        /\ NameOf(l) = NameOf(i) /\ IsLast(l)
        /\ gets[l].time = last_accessed[NameOf(l)]
        /\ entries[NameOf(l)] = VmOf(l) \/ now - gets[l].time > Ttl

SameInv ==
    \A p, q \in DOMAIN gets :
        p < q /\ NameOf(p) = NameOf(q) /\ KeptUp(p, q) => VmOf(p) = VmOf(q)

\* Of two calls on one VM the later one finds the earlier one.
RanInv == \A c \in Calls : call[c].at = "done" => c \in ran[call[c].vm]

SeenInv ==
    \A c, d \in Calls :
        c # d /\ HasRun(c) /\ HasRun(d) /\ call[c].vm = call[d].vm
            => c \in seen[d] \/ d \in seen[c]

AskInv == OnceInv /\ OrderInv /\ RecentInv /\ SameInv
VmInv == RanInv /\ SeenInv

LEMMA GetsShape ==
    ASSUME IInv, NEW i \in DOMAIN gets
    PROVE  /\ i \in Nat /\ i \in 1..Len(gets)
           /\ gets[i].call \in Calls /\ gets[i].time \in Nat /\ now \in Nat
           /\ gets[i].time <= now
           /\ NameOf(i) \in Names /\ VmOf(i) \in Calls
           /\ call[gets[i].call].at # "unborn"
<1>1. gets[i].call \in Calls /\ gets[i].time \in Nat
  BY GetsTyped
<1>2. Born(gets[i].call) /\ gets[i].time <= now
  BY DEF IInv, TimesInv
<1>3. i \in 1..Len(gets)
  BY DEF IInv
<1>4. NameOf(i) \in Names /\ VmOf(i) \in Calls
  BY <1>1, <1>2 DEF IInv, AskedInv, NameOf, VmOf
<1>5. QED
  BY <1>1, <1>2, <1>3, <1>4 DEF IInv, TypeOK, Times, Born

\* Context and VM of the i-th get, after the step.
NextName(i) == call'[gets'[i].call].name
NextVm(i) == call'[gets'[i].call].vm

\* What is to be shown of the gets after a step.
NextLast(l) == \A j \in DOMAIN gets' : NextName(j) = NextName(l) => j <= l

NextRecent(i) ==
    \E l \in DOMAIN gets' :
        /\ NextName(l) = NextName(i) /\ NextLast(l)
        /\ gets'[l].time = last_accessed'[NextName(l)]
        /\ entries'[NextName(l)] = NextVm(l) \/ now' - gets'[l].time > Ttl

NextKept(p, q) ==
    \A i \in p..(q - 1) : NextName(i) = NextName(q) =>
        \E j \in (i + 1)..q : NextName(j) = NextName(q) /\ gets'[j].time - gets'[i].time <= Ttl

LEMMA NextRecentInv ==
    ASSUME open' => \A i \in DOMAIN gets' : NextRecent(i)
    PROVE  RecentInv'
BY DEF RecentInv, NextRecent, NextLast, IsLast, NameOf, VmOf, NextName, NextVm

LEMMA NextSameInv ==
    ASSUME \A p, q \in DOMAIN gets' :
               p < q /\ NextName(p) = NextName(q) /\ NextKept(p, q) => NextVm(p) = NextVm(q)
    PROVE  SameInv'
BY DEF SameInv, NextKept, KeptUp, NameOf, VmOf, NextName, NextVm

\* What a get adds: one more, of this context and this VM.
Asks(c, name, vm) ==
    /\ open /\ open' = open /\ now' = now
    /\ vm = IF entries[name] = NoVM THEN c ELSE entries[name]
    /\ entries'[name] = vm /\ last_accessed'[name] = now
    /\ \A m \in Names \ {name} :
          entries'[m] = entries[m] /\ last_accessed'[m] = last_accessed[m]
    /\ DOMAIN gets' = 1..(Len(gets) + 1)
    /\ gets'[Len(gets) + 1] = [call |-> c, time |-> now]
    /\ NextName(Len(gets) + 1) = name /\ NextVm(Len(gets) + 1) = vm
    /\ \A i \in DOMAIN gets :
          /\ gets'[i] = gets[i] /\ gets[i].call # c
          /\ NextName(i) = NameOf(i) /\ NextVm(i) = VmOf(i)

LEMMA GetAsks ==
    ASSUME IInv, NEW c \in Calls, get(c)
    PROVE  \E name \in Names, vm \in Calls : Asks(c, name, vm)
<1>1. PICK name \in Names :
         LET vm == IF entries[name] = NoVM THEN c ELSE entries[name] IN
         /\ entries' = [entries EXCEPT ![name] = vm]
         /\ last_accessed' = [last_accessed EXCEPT ![name] = now]
         /\ call' = [call EXCEPT ![c] = [at |-> "waiting", name |-> name, vm |-> vm]]
  BY DEF get
<1> DEFINE vm == IF entries[name] = NoVM THEN c ELSE entries[name]
           g  == [call |-> c, time |-> now]
<1>2. /\ open /\ open' = open /\ now' = now /\ call[c].at = "unborn"
      /\ gets' = Append(gets, g)
  BY DEF get
<1>3. /\ vm \in Calls
      /\ entries' = [entries EXCEPT ![name] = vm]
      /\ last_accessed' = [last_accessed EXCEPT ![name] = now]
      /\ call' = [call EXCEPT ![c] = [at |-> "waiting", name |-> name, vm |-> vm]]
  BY <1>1 DEF IInv, TypeOK, NoVM
<1>4. gets \in Seq([call : Calls, time : Times]) /\ g \in [call : Calls, time : Times]
  BY DEF IInv, TypeOK
<1>5. /\ DOMAIN gets' = 1..(Len(gets) + 1)
      /\ gets'[Len(gets) + 1] = g
      /\ \A i \in DOMAIN gets : gets'[i] = gets[i]
  BY <1>2, <1>4
<1>6. vm = IF entries[name] = NoVM THEN c ELSE entries[name]
  OBVIOUS
<1> HIDE DEF vm
<1>7. /\ call'[c] = [at |-> "waiting", name |-> name, vm |-> vm]
      /\ \A d \in Calls \ {c} : call'[d] = call[d]
  BY <1>3 DEF IInv, TypeOK
<1>8. /\ entries'[name] = vm /\ last_accessed'[name] = now
      /\ \A m \in Names \ {name} :
            entries'[m] = entries[m] /\ last_accessed'[m] = last_accessed[m]
  BY <1>3 DEF IInv, TypeOK
<1>9. \A i \in DOMAIN gets :
          /\ gets'[i] = gets[i] /\ gets[i].call # c
          /\ NextName(i) = NameOf(i) /\ NextVm(i) = VmOf(i)
  <2> SUFFICES ASSUME NEW i \in DOMAIN gets
               PROVE  /\ gets'[i] = gets[i] /\ gets[i].call # c
                      /\ NextName(i) = NameOf(i) /\ NextVm(i) = VmOf(i)
    OBVIOUS
  <2>1. gets[i].call \in Calls /\ gets[i].call # c
    BY <1>2, GetsShape
  <2>2. QED
    BY <2>1, <1>5, <1>7 DEF NameOf, VmOf, NextName, NextVm
<1>10. NextName(Len(gets) + 1) = name /\ NextVm(Len(gets) + 1) = vm
  BY <1>5, <1>7 DEF NextName, NextVm
<1>11. Asks(c, name, vm)
  BY <1>2, <1>5, <1>6, <1>8, <1>9, <1>10 DEF Asks
<1>12. QED
  BY <1>3, <1>11

LEMMA GetAsk == ASSUME IInv, AskInv, NEW c \in Calls, get(c) PROVE AskInv'
<1> DEFINE n == Len(gets) + 1
<1>1. PICK name \in Names, vm \in Calls : Asks(c, name, vm)
  BY GetAsks
<1>2. /\ DOMAIN gets = 1..(n - 1) /\ DOMAIN gets' = 1..n /\ n \in Nat
      /\ gets'[n].call = c /\ gets'[n].time = now
      /\ NextName(n) = name /\ NextVm(n) = vm
      /\ \A i \in DOMAIN gets : gets'[i] = gets[i] /\ gets[i].call # c
      /\ \A i \in DOMAIN gets : NextName(i) = NameOf(i) /\ NextVm(i) = VmOf(i)
  BY <1>1 DEF Asks, IInv
<1> HIDE DEF n
<1>3. OnceInv'
  BY <1>2 DEF AskInv, OnceInv
<1>4. OrderInv'
  <2>1. \A i \in DOMAIN gets : gets[i].time <= now
    BY GetsShape
  <2>2. QED
    BY <1>2, <2>1 DEF AskInv, OrderInv
<1>5. RecentInv'
  <2> SUFFICES ASSUME NEW i \in DOMAIN gets' PROVE NextRecent(i)
    BY NextRecentInv
  <2>1. CASE NextName(i) = name
    <3>1. NextLast(n)
      BY <1>2 DEF NextLast
    <3>2. n \in DOMAIN gets' /\ NextName(n) = NextName(i)
      BY <1>2, <2>1
    <3>3. /\ gets'[n].time = last_accessed'[NextName(n)]
          /\ entries'[NextName(n)] = NextVm(n)
      BY <1>1, <1>2 DEF Asks
    <3>4. QED
      BY <3>1, <3>2, <3>3 DEF NextRecent
  <2>2. CASE NextName(i) # name
    <3>1. i \in DOMAIN gets /\ NameOf(i) # name
      BY <1>2, <2>2
    <3>2. PICK l \in DOMAIN gets :
             /\ NameOf(l) = NameOf(i) /\ IsLast(l)
             /\ gets[l].time = last_accessed[NameOf(l)]
             /\ entries[NameOf(l)] = VmOf(l) \/ now - gets[l].time > Ttl
      BY <1>1, <3>1 DEF AskInv, RecentInv, Asks
    <3>3. /\ l \in DOMAIN gets' /\ gets'[l] = gets[l] /\ NextName(l) = NameOf(l)
          /\ NextVm(l) = VmOf(l) /\ NextName(l) = NextName(i)
      BY <1>2, <3>1, <3>2
    <3>4. NameOf(l) \in Names \ {name}
      BY <3>1, <3>2, GetsShape
    <3>5. entries'[NameOf(l)] = entries[NameOf(l)]
          /\ last_accessed'[NameOf(l)] = last_accessed[NameOf(l)] /\ now' = now
      BY <1>1, <3>4 DEF Asks
    <3>6. NextLast(l)
      <4> SUFFICES ASSUME NEW j \in DOMAIN gets', NextName(j) = NextName(l)
                   PROVE  j <= l
        BY DEF NextLast
      <4>1. j \in DOMAIN gets /\ NameOf(j) = NameOf(l)
        BY <1>2, <3>3, <3>4
      <4>2. QED
        BY <3>2, <4>1 DEF IsLast
    <3>7. QED
      BY <3>2, <3>3, <3>5, <3>6 DEF NextRecent
  <2>3. QED
    BY <2>1, <2>2
<1>6. SameInv'
  <2> SUFFICES ASSUME NEW p \in DOMAIN gets', NEW q \in DOMAIN gets', p < q,
                      NextName(p) = NextName(q), NextKept(p, q)
               PROVE  NextVm(p) = NextVm(q)
    BY NextSameInv
  <2>1. /\ p \in DOMAIN gets /\ NextName(p) = NameOf(p) /\ NextVm(p) = VmOf(p)
        /\ p \in Nat /\ q \in Nat
    BY <1>2
  <2>2. \A i \in p..(q - 1) : NextName(i) = NextName(q) =>
            \E j \in (i + 1)..q : NextName(j) = NextName(q) /\ gets'[j].time - gets'[i].time <= Ttl
    BY DEF NextKept
  <2>3. CASE q \in DOMAIN gets
    <3>1. \A k \in p..q : k \in DOMAIN gets /\ NextName(k) = NameOf(k) /\ gets'[k] = gets[k]
      BY <1>2, <2>1, <2>3
    <3>2. KeptUp(p, q)
      <4> SUFFICES ASSUME NEW i \in p..(q - 1), NameOf(i) = NameOf(q)
                   PROVE  \E j \in (i + 1)..q :
                             NameOf(j) = NameOf(q) /\ gets[j].time - gets[i].time <= Ttl
        BY DEF KeptUp
      <4>1. i \in p..q /\ q \in p..q /\ \A j \in (i + 1)..q : j \in p..q
        BY <2>1
      <4>2. PICK j \in (i + 1)..q :
               NextName(j) = NextName(q) /\ gets'[j].time - gets'[i].time <= Ttl
        BY <2>2, <3>1, <4>1
      <4>3. QED
        BY <3>1, <4>1, <4>2
    <3>3. QED
      BY <2>1, <2>3, <3>2, <1>2 DEF AskInv, SameInv
  <2>4. CASE q = n
    <3>1. PICK l \in DOMAIN gets :
             /\ NameOf(l) = NameOf(p) /\ IsLast(l)
             /\ gets[l].time = last_accessed[NameOf(l)]
             /\ entries[NameOf(l)] = VmOf(l) \/ now - gets[l].time > Ttl
      BY <1>1, <2>1 DEF AskInv, RecentInv, Asks
    <3>2. NameOf(p) = name
      BY <1>2, <2>1, <2>4
    <3>3. p <= l /\ l \in p..(q - 1) /\ l \in Nat /\ l < n
      BY <1>2, <2>1, <2>4, <3>1 DEF IsLast
    <3>4. ASSUME NEW j \in (l + 1)..q, NextName(j) = name
          PROVE  j = n
      <4>1. CASE j \in DOMAIN gets
        <5>1. NameOf(j) = NameOf(l)
          BY <1>2, <3>1, <3>2, <3>4, <4>1
        <5>2. QED
          BY <3>1, <3>3, <4>1, <5>1 DEF IsLast
      <4>2. QED
        BY <1>2, <2>4, <3>3, <4>1
    <3>5. now - gets[l].time <= Ttl
      <4>1. NextName(l) = NextName(q) /\ gets'[l] = gets[l] /\ NextName(q) = name
        BY <1>2, <2>4, <3>1, <3>2
      <4>2. PICK j \in (l + 1)..q :
               NextName(j) = NextName(q) /\ gets'[j].time - gets'[l].time <= Ttl
        BY <2>2, <3>3, <4>1
      <4>3. j = n
        BY <3>4, <4>1, <4>2
      <4>4. QED
        BY <1>2, <4>1, <4>2, <4>3
    <3>6. VmOf(l) = vm
      <4>1. /\ gets[l].time \in Nat /\ now \in Nat /\ VmOf(l) \in Calls
            /\ NameOf(l) = name
        BY <3>1, <3>2, GetsShape
      <4>2. entries[name] = VmOf(l)
        BY <3>1, <3>5, <4>1, ContextsAssumption
      <4>3. QED
        BY <1>1, <4>1, <4>2, ContextsAssumption DEF Asks, NoVM
    <3>7. VmOf(p) = VmOf(l)
      <4>1. CASE p = l
        BY <4>1
      <4>2. CASE p < l
        <5>1. KeptUp(p, l)
          <6> SUFFICES ASSUME NEW i \in p..(l - 1), NameOf(i) = NameOf(l)
                       PROVE  \E j \in (i + 1)..l :
                                 NameOf(j) = NameOf(l) /\ gets[j].time - gets[i].time <= Ttl
            BY DEF KeptUp
          <6>1. /\ i \in DOMAIN gets /\ i \in p..(q - 1) /\ i \in Nat
                /\ NextName(i) = NameOf(i) /\ gets'[i] = gets[i] /\ NextName(q) = name
            <7>1. l < q /\ l \in Nat /\ q \in Nat /\ p \in Nat /\ p >= 1
              BY <1>2, <2>1, <2>4, <3>3
            <7>2. i \in p..(q - 1) /\ i \in Nat /\ i >= 1 /\ i <= n - 1
              BY <2>4, <7>1
            <7>3. i \in DOMAIN gets
              BY <1>2, <7>2
            <7>4. QED
              BY <1>2, <2>4, <7>2, <7>3
          <6>2. PICK j \in (i + 1)..q :
                   NextName(j) = NextName(q) /\ gets'[j].time - gets'[i].time <= Ttl
            BY <2>2, <3>1, <3>2, <6>1
          <6>3. CASE j <= l
            <7>1. j \in (i + 1)..l /\ j \in DOMAIN gets
              BY <1>2, <3>3, <6>1, <6>3
            <7>2. QED
              BY <1>2, <3>1, <3>2, <6>1, <6>2, <7>1
          <6>4. CASE j > l
            <7>1. j = n
              BY <3>3, <3>4, <6>1, <6>2, <6>4
            <7>2. now - gets[i].time <= Ttl
              BY <1>2, <6>1, <6>2, <7>1
            <7>3. /\ gets[l].time <= now /\ gets[l].time \in Nat /\ now \in Nat
                  /\ gets[i].time \in Nat
              BY <3>1, <6>1, GetsShape
            <7>4. gets[l].time - gets[i].time <= Ttl
              BY <7>2, <7>3, ContextsAssumption
            <7>5. l \in (i + 1)..l
              BY <3>3, <6>1
            <7>6. QED
              BY <7>4, <7>5
          <6>5. QED
            BY <3>3, <6>1, <6>3, <6>4
        <5>2. QED
          BY <2>1, <3>1, <4>2, <5>1 DEF AskInv, SameInv
      <4>3. QED
        BY <2>1, <3>3, <4>1, <4>2
    <3>8. QED
      BY <1>2, <2>1, <2>4, <3>6, <3>7
  <2>5. QED
    BY <1>2, <2>3, <2>4
<1>7. QED
  BY <1>3, <1>4, <1>5, <1>6 DEF AskInv

\* A step on which no call asks: time may pass, and an entry may go whose time
\* is up.
LEMMA NobodyAsks ==
    ASSUME IInv, AskInv, gets' = gets, now' \in Nat, now <= now',
           open' => open /\ last_accessed' = last_accessed,
           open' => \A name \in Names : entries'[name] = entries[name] \/ Stale(name),
           \A c \in Calls : call'[c].name = call[c].name /\ call'[c].vm = call[c].vm
    PROVE  AskInv'
<1>1. \A i \in DOMAIN gets : NextName(i) = NameOf(i) /\ NextVm(i) = VmOf(i)
  BY GetsShape DEF NameOf, VmOf, NextName, NextVm
<1>2. OnceInv' /\ OrderInv'
  BY DEF AskInv, OnceInv, OrderInv
<1>3. SameInv'
  <2> SUFFICES ASSUME NEW p \in DOMAIN gets, NEW q \in DOMAIN gets, p < q,
                      NextName(p) = NextName(q), NextKept(p, q)
               PROVE  NextVm(p) = NextVm(q)
    BY NextSameInv
  <2>1. \A k \in p..q : k \in DOMAIN gets
    BY DEF IInv
  <2>2. /\ p \in Nat /\ q \in Nat
        /\ \A i \in p..(q - 1) : i \in p..q /\ \A j \in (i + 1)..q : j \in p..q
    BY GetsShape
  <2>3. KeptUp(p, q)
    BY <1>1, <2>1, <2>2 DEF KeptUp, NextKept
  <2>4. QED
    BY <1>1, <2>3 DEF AskInv, SameInv
<1>4. RecentInv'
  <2> SUFFICES ASSUME open', NEW i \in DOMAIN gets PROVE NextRecent(i)
    BY NextRecentInv
  <2>1. PICK l \in DOMAIN gets :
           /\ NameOf(l) = NameOf(i) /\ IsLast(l)
           /\ gets[l].time = last_accessed[NameOf(l)]
           /\ entries[NameOf(l)] = VmOf(l) \/ now - gets[l].time > Ttl
    BY DEF AskInv, RecentInv
  <2>2. /\ gets[l].time \in Nat /\ now \in Nat /\ Ttl \in Nat /\ NameOf(l) \in Names
    BY GetsShape, ContextsAssumption
  <2>3. NextLast(l)
    BY <1>1, <2>1 DEF IsLast, NextLast
  <2>4. now - gets[l].time > Ttl => now' - gets[l].time > Ttl
    BY <2>2
  <2>5. entries'[NameOf(l)] = VmOf(l) \/ now' - gets[l].time > Ttl
    BY <2>1, <2>2, <2>4 DEF Stale
  <2>6. QED
    BY <1>1, <2>1, <2>3, <2>5 DEF NextRecent
<1>5. QED
  BY <1>2, <1>3, <1>4 DEF AskInv

LEMMA AskNext == IInv /\ AskInv /\ [Next]_vars => AskInv'
<1> SUFFICES ASSUME IInv, AskInv, [Next]_vars PROVE AskInv'
  OBVIOUS
<1>1. now \in Nat
  BY DEF IInv, TypeOK, Times
<1>2. ASSUME NEW c \in Calls, Acquire(c) \/ Finish(c)
      PROVE  AskInv'
  <2>1. PICK at \in Places : call' = [call EXCEPT ![c].at = at]
    BY <1>2 DEF Acquire, Finish, Places
  <2>2. \A d \in Calls : call'[d].name = call[d].name /\ call'[d].vm = call[d].vm
    BY <2>1, MovedTyped
  <2>3. QED
    BY <1>1, <1>2, <2>2, NobodyAsks DEF Acquire, Finish
<1>3. CASE evict_stale \/ vm_close \/ UNCHANGED vars
  BY <1>1, <1>3, NobodyAsks DEF evict_stale, vm_close, vars, history
<1>4. CASE Elapse
  <2>1. now' \in Nat /\ now <= now'
    BY <1>1, <1>4 DEF Elapse
  <2>2. QED
    BY <1>4, <2>1, NobodyAsks DEF Elapse, history
<1>5. QED
  BY <1>2, <1>3, <1>4, GetAsk DEF Next

LEMMA VmNext == IInv /\ VmInv /\ [Next]_vars => VmInv'
<1> SUFFICES ASSUME IInv, VmInv, [Next]_vars PROVE VmInv'
  OBVIOUS
<1>1. CASE UNCHANGED <<call, ran, seen>>
  BY <1>1 DEF VmInv, RanInv, SeenInv, HasRun
<1>2. ASSUME NEW c \in Calls, get(c)
      PROVE  VmInv'
  <2>1. \E name \in Names : \E vm :
           call' = [call EXCEPT ![c] = [at |-> "waiting", name |-> name, vm |-> vm]]
    BY <1>2 DEF get
  <2>2. call'[c].at = "waiting" /\ \A d \in Calls \ {c} : call'[d] = call[d]
    BY <2>1 DEF IInv, TypeOK
  <2>3. ran' = ran /\ seen' = seen
    BY <1>2 DEF get
  <2>4. RanInv'
    BY <2>2, <2>3 DEF VmInv, RanInv
  <2>5. SeenInv'
    BY <2>2, <2>3 DEF VmInv, SeenInv, HasRun
  <2>6. QED
    BY <2>4, <2>5 DEF VmInv
<1>3. ASSUME NEW c \in Calls, Acquire(c)
      PROVE  VmInv'
  <2>1. call[c].at = "waiting" /\ holder[call[c].vm] = NoVM /\ ran' = ran
    BY <1>3 DEF Acquire
  <2>2. /\ call'[c].at = "running" /\ call'[c].vm = call[c].vm
        /\ \A d \in Calls \ {c} : call'[d] = call[d]
    <3>1. call' = [call EXCEPT ![c].at = "running"] /\ "running" \in Places
      BY <1>3 DEF Acquire, Places
    <3>2. /\ call'[c] = [at |-> "running", name |-> call[c].name, vm |-> call[c].vm]
          /\ \A d \in Calls \ {c} : call'[d] = call[d]
      BY <3>1, MovedTyped
    <3>3. QED
      BY <3>2
  <2>3. /\ seen'[c] = ran[call[c].vm]
        /\ \A d \in Calls \ {c} : seen'[d] = seen[d]
    BY <1>3 DEF Acquire, IInv, TypeOK
  <2>4. RanInv'
    BY <2>1, <2>2 DEF VmInv, RanInv
  <2>5. ASSUME NEW d \in Calls \ {c}, HasRun(d), call[d].vm = call[c].vm
        PROVE  d \in seen'[c]
    <3>1. call[d].at # "running"
      BY <2>1, <2>5, ContextsAssumption DEF IInv, LockInv, NoVM
    <3>2. QED
      BY <2>3, <2>5, <3>1 DEF VmInv, RanInv, HasRun
  <2>6. SeenInv'
    <3> SUFFICES ASSUME NEW d \in Calls, NEW e \in Calls, d # e, HasRun(d)', HasRun(e)',
                        call'[d].vm = call'[e].vm
                 PROVE  d \in seen'[e] \/ e \in seen'[d]
      BY DEF SeenInv
    <3>1. CASE d # c /\ e # c
      BY <2>2, <2>3, <3>1 DEF VmInv, SeenInv, HasRun
    <3>2. CASE d = c \/ e = c
      BY <2>2, <2>5, <3>2 DEF HasRun
    <3>3. QED
      BY <3>1, <3>2
  <2>7. QED
    BY <2>4, <2>6 DEF VmInv
<1>4. ASSUME NEW c \in Calls, Finish(c)
      PROVE  VmInv'
  <2>1. call[c].at = "running" /\ seen' = seen /\ ran' = [ran EXCEPT ![call[c].vm] = @ \cup {c}]
    BY <1>4 DEF Finish
  <2>2. /\ call'[c].at = "done" /\ call'[c].vm = call[c].vm
        /\ \A d \in Calls \ {c} : call'[d] = call[d]
    <3>1. call' = [call EXCEPT ![c].at = "done"] /\ "done" \in Places
      BY <1>4 DEF Finish, Places
    <3>2. /\ call'[c] = [at |-> "done", name |-> call[c].name, vm |-> call[c].vm]
          /\ \A d \in Calls \ {c} : call'[d] = call[d]
      BY <3>1, MovedTyped
    <3>3. QED
      BY <3>2
  <2>3. call[c].vm \in Calls
    BY <2>1 DEF IInv, AskedInv, Born
  <2>4. c \in ran'[call[c].vm] /\ \A v \in Calls : ran[v] \subseteq ran'[v]
    BY <2>1, <2>3 DEF IInv, TypeOK
  <2>5. RanInv'
    <3> SUFFICES ASSUME NEW d \in Calls, call'[d].at = "done"
                 PROVE  d \in ran'[call'[d].vm]
      BY DEF RanInv
    <3>1. CASE d = c
      BY <2>2, <2>4, <3>1
    <3>2. CASE d # c
      <4>1. call'[d] = call[d] /\ d \in ran[call[d].vm]
        BY <2>2, <3>2 DEF VmInv, RanInv
      <4>2. call[d].vm \in Calls
        BY <4>1 DEF IInv, AskedInv, Born
      <4>3. QED
        BY <2>4, <4>1, <4>2
    <3>3. QED
      BY <3>1, <3>2
  <2>6. SeenInv'
    BY <2>1, <2>2 DEF VmInv, SeenInv, HasRun
  <2>7. QED
    BY <2>5, <2>6 DEF VmInv
<1>5. CASE evict_stale \/ vm_close \/ Elapse \/ UNCHANGED vars
  BY <1>1, <1>5 DEF evict_stale, vm_close, Elapse, vars, history
<1>6. QED
  BY <1>2, <1>3, <1>4, <1>5 DEF Next

\* v2/eval: a context that is asked for again within the time to live, each
\* time, stays the same VM, whose scripts run one after the other; for any
\* calls, contexts, times and interval of the scans.
THEOREM StateLasts == Spec => []SessionsLast
<1>1. Init => AskInv /\ VmInv
  BY DEF Init, AskInv, VmInv, OnceInv, OrderInv, RecentInv, SameInv, RanInv, SeenInv, HasRun
<1>2. IInv /\ AskInv /\ VmInv => SessionsLast
  <2> SUFFICES ASSUME IInv, AskInv, VmInv, NEW p \in DOMAIN gets, NEW q \in DOMAIN gets,
                      p < q, NameOf(p) = NameOf(q), KeptUp(p, q),
                      HasRun(gets[p].call), HasRun(gets[q].call)
               PROVE  gets[p].call \in seen[gets[q].call] \/ gets[q].call \in seen[gets[p].call]
    BY DEF SessionsLast, HasRun
  <2>1. gets[p].call \in Calls /\ gets[q].call \in Calls /\ p \in Nat /\ q \in Nat
    BY GetsShape
  <2>2. gets[p].call # gets[q].call
    BY <2>1 DEF AskInv, OnceInv
  <2>3. call[gets[p].call].vm = call[gets[q].call].vm
    BY DEF AskInv, SameInv, VmOf
  <2>4. QED
    BY <2>1, <2>2, <2>3 DEF VmInv, SeenInv
<1>3. QED
  BY <1>1, <1>2, AskNext, VmNext, ContextsInv, PTL DEF Spec

=============================================================================
