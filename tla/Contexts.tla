------------------------------ MODULE Contexts ------------------------------
(***************************************************************************)
(* Named BUND VMs (vm/context.rs): v2/eval gets the VM of its context, or  *)
(* creates it, waits for its lock and runs its script on it; a task evicts *)
(* VMs that nobody has asked for in a while (bdsnode/server/bundcleanup).  *)
(***************************************************************************)
EXTENDS Integers, Sequences

CONSTANTS
    Names,              \* contexts
    Calls,              \* calls of v2/eval
    Ttl,                \* bund_ttl_secs
    ScanEvery,          \* vm_cleanup_interval_secs
    MaxTime             \* the last instant

Times == 0..MaxTime

ASSUME ContextsAssumption ==
    /\ Ttl \in Nat \ {0} /\ ScanEvery \in Nat \ {0} /\ MaxTime \in Nat
    /\ "none" \notin Calls

NoVM == "none"

\* A VM is named after the call that created it.
VARIABLES
    now,            \* the clock
    entries,        \* BUNDS: context -> VM, or NoVM
    last_accessed,  \* of the entries
    call,           \* where each call is, in which context and on which VM
    holder,         \* VM -> the call that has its write lock, or NoVM
    scan_at,        \* when bundcleanup wakes
    open            \* the server takes calls

\* History: the calls in the order of their get, with the time of it; the
\* calls that have run on a VM, as each call found them.
VARIABLES gets, ran, seen

history == <<gets, ran, seen>>
vars    == <<now, entries, last_accessed, call, holder, scan_at, open, history>>

Places == {"unborn", "waiting", "running", "done"}

TypeOK ==
    /\ now \in Times
    /\ entries \in [Names -> Calls \cup {NoVM}]
    /\ last_accessed \in [Names -> Times]
    /\ call \in [Calls -> [at : Places, name : Names \cup {NoVM}, vm : Calls \cup {NoVM}]]
    /\ holder \in [Calls -> Calls \cup {NoVM}]
    /\ scan_at \in Nat /\ open \in BOOLEAN
    /\ \A i \in DOMAIN gets : gets[i] \in [call : Calls, time : Times]
    /\ ran \in [Calls -> SUBSET Calls] /\ seen \in [Calls -> SUBSET Calls]

\* Only a new entry is given a time.
SlipGet(c) ==
    /\ open /\ call[c].at = "unborn"
    /\ \E name \in Names :
          LET vm == IF entries[name] = NoVM THEN c ELSE entries[name] IN
          /\ entries' = [entries EXCEPT ![name] = vm]
          /\ last_accessed' = [last_accessed EXCEPT ![name] = IF vm = c THEN now ELSE @]
          /\ call' = [call EXCEPT ![c] = [at |-> "waiting", name |-> name, vm |-> vm]]
    /\ gets' = Append(gets, [call |-> c, time |-> now])
    /\ UNCHANGED <<now, holder, scan_at, open, ran, seen>>

\* Under the registry's lock: the entry is found or created, its idle timer
\* starts anew, and its VM is cloned.  The lock is given back before the VM's
\* own is waited for.
get(c) ==
    /\ open /\ call[c].at = "unborn"
    /\ \E name \in Names :
          LET vm == IF entries[name] = NoVM THEN c ELSE entries[name] IN
          /\ entries' = [entries EXCEPT ![name] = vm]
          /\ last_accessed' = [last_accessed EXCEPT ![name] = now]
          /\ call' = [call EXCEPT ![c] = [at |-> "waiting", name |-> name, vm |-> vm]]
    /\ gets' = Append(gets, [call |-> c, time |-> now])
    /\ UNCHANGED <<now, holder, scan_at, open, ran, seen>>

\* arc.write_arc(), in no particular order.
Acquire(c) ==
    /\ call[c].at = "waiting" /\ holder[call[c].vm] = NoVM
    /\ holder' = [holder EXCEPT ![call[c].vm] = c]
    /\ call' = [call EXCEPT ![c].at = "running"]
    /\ seen' = [seen EXCEPT ![c] = ran[call[c].vm]]
    /\ UNCHANGED <<now, entries, last_accessed, scan_at, open, gets, ran>>

\* The script ends, whether well, with an error or with a panic, and leaves
\* the VM as it has made it.
Finish(c) ==
    /\ call[c].at = "running"
    /\ holder' = [holder EXCEPT ![call[c].vm] = NoVM]
    /\ call' = [call EXCEPT ![c].at = "done"]
    /\ ran' = [ran EXCEPT ![call[c].vm] = @ \cup {c}]
    /\ UNCHANGED <<now, entries, last_accessed, scan_at, open, gets, seen>>

SlipStale(name) == now - last_accessed[name] >= Ttl

Stale(name) == now - last_accessed[name] > Ttl

\* Idle means that nobody has called get: a call may still hold the VM, or
\* wait for it.
evict_stale ==
    /\ now >= scan_at
    /\ entries' = [name \in Names |-> IF Stale(name) THEN NoVM ELSE entries[name]]
    /\ scan_at' = now + ScanEvery
    /\ UNCHANGED <<now, last_accessed, call, holder, open, history>>

\* The server takes no more calls, then the VMs are dropped.
vm_close ==
    /\ open /\ open' = FALSE
    /\ entries' = [name \in Names |-> NoVM]
    /\ UNCHANGED <<now, last_accessed, call, holder, scan_at, history>>

Elapse ==
    /\ now < MaxTime
    /\ now' = now + 1
    /\ UNCHANGED <<entries, last_accessed, call, holder, scan_at, open, history>>

Init ==
    /\ now = 0
    /\ entries = [name \in Names |-> NoVM]
    /\ last_accessed = [name \in Names |-> 0]
    /\ call = [c \in Calls |-> [at |-> "unborn", name |-> NoVM, vm |-> NoVM]]
    /\ holder = [c \in Calls |-> NoVM]
    /\ scan_at = ScanEvery
    /\ open = TRUE
    /\ gets = <<>>
    /\ ran = [c \in Calls |-> {}] /\ seen = ran

Next ==
    \/ \E c \in Calls : get(c) \/ Acquire(c) \/ Finish(c)
    \/ evict_stale \/ vm_close \/ Elapse

Spec == Init /\ [][Next]_vars

-----------------------------------------------------------------------------
\* The context that the i-th get was about.
NameOf(i) == call[gets[i].call].name

\* From the p-th get to the q-th, which were about one context, it was asked
\* for again within the time to live each time.
KeptUp(p, q) ==
    \A i \in p..(q - 1) : NameOf(i) = NameOf(q) =>
        \E j \in (i + 1)..q : NameOf(j) = NameOf(q) /\ gets[j].time - gets[i].time <= Ttl

\* Two calls run in one context at a time only if one of them asked for the VM
\* longer ago than the time to live.  (v2_eval.md:62 has it without the if.)
Serialised ==
    \A c, d \in Calls :
        (c # d /\ call[c].at = "running" /\ call[d].at = "running"
           /\ call[c].name = call[d].name)
        => \E g \in {gets[i] : i \in DOMAIN gets} : g.call \in {c, d} /\ now - g.time > Ttl

\* A context that is asked for again and again, never with more than the time
\* to live in between, stays the same VM: of two calls of it that have had
\* their turn, or are at it, one has found what the other left.
SessionsLast ==
    \A p, q \in DOMAIN gets :
        LET c == gets[p].call  d == gets[q].call IN
        ( /\ p < q /\ NameOf(p) = NameOf(q) /\ KeptUp(p, q)
          /\ call[c].at \in {"running", "done"} /\ call[d].at \in {"running", "done"} )
        => c \in seen[d] \/ d \in seen[c]
=============================================================================
