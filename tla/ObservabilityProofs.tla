------------------------ MODULE ObservabilityProofs ------------------------
(***************************************************************************)
(* For any number of threads, records and contents, any symmetric          *)
(* similarity, and through deletions and a crash: no two similar primaries *)
(* and no orphaned records, when ids are generated (CallerIds = {}); pairs *)
(* stored once and logs about stored pairs, for ids of any kind.           *)
(***************************************************************************)
EXTENDS Observability, TLAPS, WellFoundedInduction

AddFields == {"pc", "kind", "docs", "queue", "new", "seen", "verdict"}

Searching == {"select", "read log", "write log", "classify", "return"}
Storing   == {"add", "batch", "relate"}

Adding(a) ==
    /\ DOMAIN a = AddFields
    /\ a.pc \in Searching \cup Storing
    /\ a.kind \in {"add", "batch"}
    /\ DOMAIN a.docs \subseteq Nat
    /\ \A i \in DOMAIN a.docs : a.docs[i] \in Doc
    /\ \A i, j \in DOMAIN a.docs : a.docs[i].id = a.docs[j].id => i = j
    /\ a.new \subseteq DOMAIN a.docs
    /\ a.kind = "add" => DOMAIN a.docs = {1}
    /\ a.pc \in {"classify"} \cup Storing => a.new # {}
    /\ a.pc \in {"add", "relate"} => a.kind = "add"

Deleting(a) ==
    /\ DOMAIN a = {"pc", "id", "contents"}
    /\ a.pc \in {"unlink", "unembed", "remove", "unlog"}

Typed ==
    /\ telemetry \subseteq Row /\ embeddings \subseteq Doc /\ cache \subseteq Doc
    /\ loaded \in BOOLEAN
    /\ work = [w \in Workers |-> work[w]]
    /\ \A w \in Workers : work[w] = Idle \/ Adding(work[w]) \/ Deleting(work[w])

\* An id belongs to one document: until that is stored nothing else has it,
\* and nobody deletes it.
UsedInv ==
    /\ \A r \in telemetry : r.id \in used
    /\ \A e \in embeddings : e.id \in used
    /\ \A w \in Workers : Adding(work[w]) => \A i \in DOMAIN work[w].docs : work[w].docs[i].id \in used
    /\ \A w \in Workers : Deleting(work[w]) => work[w].id \in used

OwnIds ==
    \A v, w \in Workers : v # w /\ Adding(work[v]) /\ Adding(work[w]) =>
        \A i \in DOMAIN work[v].docs, j \in DOMAIN work[w].docs :
            work[v].docs[i].id # work[w].docs[j].id

NotYetStored ==
    \A w \in Workers : Adding(work[w]) => \A i \in DOMAIN work[w].docs :
        /\ \A e \in embeddings : e.id # work[w].docs[i].id
        /\ work[w].pc # "relate" =>
              /\ \A r \in telemetry : r.id # work[w].docs[i].id
              /\ \A v \in Workers : Deleting(work[v]) => work[v].id # work[w].docs[i].id

\* A deletion knows the contents of the rows it will remove.
ContentsKnown ==
    \A w \in Workers : Deleting(work[w]) =>
        \A r \in telemetry : r.id = work[w].id => r.content \in work[w].contents \/ work[w].pc = "unlog"

Apart(docs) == \A d, e \in docs : d # e => <<d.content, e.content>> \notin Similar

DocOf(r) == [id |-> r.id, content |-> r.content]

Excused(r) == Going(r.id) \/ r.content \in cut

\* What is judged by is never smaller than what is stored, and is free of
\* similar pairs.
JudgedInv ==
    /\ Apart(Entries)
    /\ embeddings \subseteq Entries
    /\ \A w \in Workers : Adding(work[w]) /\ work[w].pc \in Storing =>
          /\ loaded
          /\ \A k \in work[w].new : work[w].verdict[k] = {} => work[w].docs[k] \in cache

\* A primary is judged by, and will be again after a restart: its embedding
\* is stored, or about to be.
PrimariesKept ==
    \A r \in telemetry : r.primary /\ ~Excused(r) =>
        /\ DocOf(r) \in Entries
        /\ \/ DocOf(r) \in embeddings
           \/ \E w \in Workers : /\ Adding(work[w]) /\ work[w].pc = "relate"
                                 /\ work[w].docs[1] = DocOf(r) /\ work[w].verdict[1] = {}

OInv == Typed /\ UsedInv /\ OwnIds /\ NotYetStored /\ ContentsKnown /\ JudgedInv /\ PrimariesKept

-----------------------------------------------------------------------------
LEMMA Kinds ==
    /\ Idle.pc = "idle"
    /\ ~Adding(Idle) /\ ~Deleting(Idle)
    /\ \A a : ~(Adding(a) /\ Deleting(a))
BY DEF Adding, Deleting, Idle, AddFields

LEMMA InitInv == Init => OInv
BY Kinds DEF Init, OInv, Typed, UsedInv, OwnIds, NotYetStored, ContentsKnown, JudgedInv,
             PrimariesKept, Apart, Entries

LEMMA Implied == OInv => NoSimilarPrimaries
<1> SUFFICES ASSUME OInv, NEW r \in telemetry, NEW s \in telemetry,
                    r.primary, s.primary, r # s, ~Going(r.id), ~Going(s.id),
                    r.content \notin cut, s.content \notin cut
             PROVE  <<r.content, s.content>> \notin Similar
  BY DEF NoSimilarPrimaries
<1>1. DocOf(r) \in Entries /\ DocOf(s) \in Entries
  BY DEF OInv, PrimariesKept, Excused
<1>2. r \in Row /\ s \in Row
  BY DEF OInv, Typed
<1>3. DocOf(r) # DocOf(s)
  <2>1. r = [id |-> r.id, content |-> r.content, primary |-> r.primary]
        /\ s = [id |-> s.id, content |-> s.content, primary |-> s.primary]
        /\ r.primary = TRUE /\ s.primary = TRUE
    BY <1>2 DEF Row
  <2>2. r.id # s.id \/ r.content # s.content
    BY <2>1
  <2>3. QED
    BY <2>2 DEF DocOf
<1>4. QED
  BY <1>1, <1>3 DEF OInv, JudgedInv, Apart, DocOf

-----------------------------------------------------------------------------
(* Steps that store nothing. *)

LEMMA PrimariesStep ==
    ASSUME OInv, NEW w \in Workers, work[w].pc \notin {"relate", "remove"},
           work'[w].pc # "remove", \A v \in Workers \ {w} : work'[v] = work[v],
           UNCHANGED <<telemetry, cut>>, embeddings \subseteq embeddings',
           Entries \subseteq Entries'
    PROVE  PrimariesKept'
<1> SUFFICES ASSUME NEW r \in telemetry, r.primary, ~Excused(r)'
             PROVE  /\ DocOf(r) \in Entries'
                    /\ \/ DocOf(r) \in embeddings'
                       \/ \E v \in Workers : /\ Adding(work'[v]) /\ work'[v].pc = "relate"
                                             /\ work'[v].docs[1] = DocOf(r)
                                             /\ work'[v].verdict[1] = {}
  BY DEF PrimariesKept, DocOf
<1>1. ~Excused(r)
  BY DEF Excused, Going
<1>2. DocOf(r) \in Entries
  BY <1>1 DEF OInv, PrimariesKept
<1>3. CASE DocOf(r) \in embeddings
  BY <1>2, <1>3
<1>4. CASE DocOf(r) \notin embeddings
  <2>1. PICK v \in Workers : /\ Adding(work[v]) /\ work[v].pc = "relate"
                             /\ work[v].docs[1] = DocOf(r) /\ work[v].verdict[1] = {}
    BY <1>1, <1>4 DEF OInv, PrimariesKept
  <2>2. work'[v] = work[v]
    BY <2>1
  <2>3. QED
    BY <1>2, <2>1, <2>2
<1>5. QED
  BY <1>3, <1>4

\* A call that goes on looking for duplicates, or ends and stores nothing.
LEMMA SearchStep ==
    ASSUME OInv, NEW w \in Workers, Adding(work[w]), work[w].pc # "relate",
           NEW a, work' = [work EXCEPT ![w] = a],
           a = Idle \/ (Adding(a) /\ a.pc \in Searching /\ a.docs = work[w].docs),
           UNCHANGED <<telemetry, embeddings, loaded, cache, used, cut>>
    PROVE  OInv'
<1>1. work'[w] = a /\ \A v \in Workers \ {w} : work'[v] = work[v]
  BY DEF OInv, Typed
<1>2. Typed'
  BY <1>1 DEF OInv, Typed
<1>3. UsedInv'
  BY <1>1, Kinds DEF OInv, UsedInv
<1>4. OwnIds'
  BY <1>1, Kinds DEF OInv, OwnIds
<1>5. \A v \in Workers : Deleting(work'[v]) => v # w /\ Deleting(work[v]) /\ work'[v] = work[v]
  BY <1>1, Kinds
<1>6. NotYetStored'
  BY <1>1, <1>5, Kinds DEF OInv, NotYetStored
<1>7. ContentsKnown'
  BY <1>5 DEF OInv, ContentsKnown
<1>8. JudgedInv'
  <2>1. a.pc \notin Storing
    BY Kinds DEF Searching, Storing
  <2>2. QED
    BY <1>1, <2>1 DEF OInv, JudgedInv, Entries
<1>9. PrimariesKept'
  <2>1. work[w].pc # "remove" /\ a.pc # "remove"
    BY Kinds DEF Adding, Searching, Storing
  <2>2. Entries' = Entries
    BY DEF Entries
  <2>3. QED
    BY <1>1, <2>1, <2>2, PrimariesStep
<1>10. QED
  BY <1>2, <1>3, <1>4, <1>6, <1>7, <1>8, <1>9 DEF OInv

LEMMA ByPc ==
    ASSUME OInv, NEW w \in Workers
    PROVE  /\ work[w].pc \in Searching \cup Storing => Adding(work[w])
           /\ work[w].pc \in {"unlink", "unembed", "remove", "unlog"} => Deleting(work[w])
<1>1. work[w].pc = "idle" \/ Adding(work[w]) \/ Deleting(work[w])
  BY Kinds DEF OInv, Typed
<1>2. Adding(work[w]) => work[w].pc \in Searching \cup Storing
  BY DEF Adding
<1>3. Deleting(work[w]) => work[w].pc \in {"unlink", "unembed", "remove", "unlog"}
  BY DEF Deleting
<1>4. QED
  BY <1>1, <1>2, <1>3 DEF Searching, Storing

LEMMA SelectStep == ASSUME OInv, NEW w \in Workers, Select(w) PROVE OInv'
<1>1. Adding(work[w]) /\ work[w].pc # "relate"
  BY ByPc DEF Select, Searching
<1> DEFINE new == NewAt(work[w].docs)
           dups == DOMAIN work[w].docs \ new
           a == [[[work[w] EXCEPT !.pc = AfterLog(dups, new)] EXCEPT !.queue = dups] EXCEPT !.new = new]
<1>2. work' = [work EXCEPT ![w] = a]
  BY DEF Select
<1>3. new \subseteq DOMAIN work[w].docs
  BY DEF NewAt
<1>4. AfterLog(dups, new) \in Searching /\ (AfterLog(dups, new) = "classify" => new # {})
      /\ AfterLog(dups, new) \notin Storing
  BY DEF AfterLog, Searching, Storing
<1> HIDE DEF new, dups
<1>5. a.pc = AfterLog(dups, new) /\ a.docs = work[w].docs /\ a.new = new /\ a.kind = work[w].kind
      /\ DOMAIN a = DOMAIN work[w]
  BY <1>1 DEF Adding, AddFields
<1> HIDE DEF a
<1>6. Adding(a)
  BY <1>1, <1>3, <1>4, <1>5 DEF Adding, Storing
<1>7. UNCHANGED <<telemetry, embeddings, loaded, cache, used, cut>>
  BY DEF Select, tables, history
<1>8. a.pc \in Searching
  BY <1>4, <1>5
<1>9. QED
  BY <1>1, <1>2, <1>5, <1>6, <1>7, <1>8, SearchStep

LEMMA ReadLogStep == ASSUME OInv, NEW w \in Workers, ReadLog(w) PROVE OInv'
<1>1. Adding(work[w]) /\ work[w].pc # "relate"
  BY ByPc DEF ReadLog, Searching
<1> DEFINE a == [[work[w] EXCEPT !.pc = "write log"]
                  EXCEPT !.seen = log[work[w].docs[NextDuplicate(w)].content]]
<1>2. work' = [work EXCEPT ![w] = a]
  BY DEF ReadLog
<1>3. a.pc = "write log" /\ a.docs = work[w].docs /\ a.new = work[w].new /\ a.kind = work[w].kind
      /\ DOMAIN a = DOMAIN work[w]
  BY <1>1 DEF Adding, AddFields
<1> HIDE DEF a
<1>4. Adding(a) /\ a.pc \in Searching
  BY <1>1, <1>3 DEF Adding, Storing, Searching
<1>5. QED
  BY <1>1, <1>2, <1>3, <1>4, SearchStep DEF ReadLog, tables, history

LEMMA WriteLogStep == ASSUME OInv, NEW w \in Workers, WriteLog(w) PROVE OInv'
<1>1. Adding(work[w]) /\ work[w].pc # "relate"
  BY ByPc DEF WriteLog, Searching
<1>2. UNCHANGED <<telemetry, embeddings, loaded, cache, used, cut>>
  BY DEF WriteLog, Fail, history
<1>3. CASE Return(w)
  BY <1>1, <1>2, <1>3, SearchStep DEF Return, WriteLog
<1>4. CASE ~Return(w)
  <2> DEFINE rest == work[w].queue \ {NextDuplicate(w)}
             a == [[work[w] EXCEPT !.pc = AfterLog(rest, work[w].new)] EXCEPT !.queue = rest]
  <2>1. work' = [work EXCEPT ![w] = a]
    BY <1>4 DEF WriteLog, Fail
  <2>2. AfterLog(rest, work[w].new) \in Searching
        /\ (AfterLog(rest, work[w].new) = "classify" => work[w].new # {})
        /\ AfterLog(rest, work[w].new) \notin Storing
    BY DEF AfterLog, Searching, Storing
  <2> HIDE DEF rest
  <2>3. a.pc = AfterLog(rest, work[w].new) /\ a.docs = work[w].docs /\ a.new = work[w].new
        /\ a.kind = work[w].kind /\ DOMAIN a = DOMAIN work[w]
    BY <1>1 DEF Adding, AddFields
  <2> HIDE DEF a
  <2>4. Adding(a)
    BY <1>1, <2>2, <2>3 DEF Adding, Storing
  <2>5. QED
    BY <1>1, <1>2, <2>1, <2>2, <2>3, <2>4, SearchStep
<1>5. QED
  BY <1>3, <1>4

LEMMA ReturnStep == ASSUME OInv, NEW w \in Workers, ReturnDuplicates(w) PROVE OInv'
<1>1. Adding(work[w]) /\ work[w].pc # "relate"
  BY ByPc DEF ReturnDuplicates, Searching
<1>2. QED
  BY <1>1, SearchStep DEF ReturnDuplicates, Return, tables, history

\* Begun calls have ids of their own.
LEMMA AddBeginStep ==
    ASSUME OInv, CallerIds = {}, NEW w \in Workers, NEW docs, NEW kind \in {"add", "batch"},
           DOMAIN docs \subseteq Nat \ {0}, \A i \in DOMAIN docs : docs[i] \in Doc,
           kind = "add" => DOMAIN docs = {1},
           AddBegin(w, docs, kind)
    PROVE  OInv'
<1> DEFINE a == [pc |-> "select", kind |-> kind, docs |-> docs, queue |-> {},
                 new |-> {}, seen |-> 0, verdict |-> <<>>]
<1>1. /\ work' = [work EXCEPT ![w] = a] /\ work[w] = Idle
      /\ used' = used \cup {docs[i].id : i \in DOMAIN docs}
      /\ \A i \in DOMAIN docs : docs[i].id \notin used /\ \A j \in 1..(i - 1) : docs[j].id # docs[i].id
      /\ UNCHANGED <<telemetry, embeddings, loaded, cache, cut>>
  BY DEF AddBegin, tables
<1>2. \A i, j \in DOMAIN docs : docs[i].id = docs[j].id => i = j
  <2> SUFFICES ASSUME NEW i \in DOMAIN docs, NEW j \in DOMAIN docs, i < j
               PROVE  docs[i].id # docs[j].id
    OBVIOUS
  <2>1. i \in 1..(j - 1)
    OBVIOUS
  <2> QED
    BY <1>1, <2>1
<1>3. a.pc = "select" /\ a.docs = docs /\ Adding(a)
  BY <1>2 DEF Adding, AddFields, Searching, Storing
<1> HIDE DEF a
<1>4. work'[w] = a /\ \A v \in Workers \ {w} : work'[v] = work[v]
  BY <1>1 DEF OInv, Typed
<1>5. Typed'
  BY <1>1, <1>3, <1>4 DEF OInv, Typed
<1>6. UsedInv'
  BY <1>1, <1>3, <1>4, Kinds DEF OInv, UsedInv
<1>7. OwnIds'
  <2>1. \A v \in Workers \ {w} : Adding(work[v]) =>
           \A i \in DOMAIN docs, j \in DOMAIN work[v].docs : docs[i].id # work[v].docs[j].id
    BY <1>1 DEF OInv, UsedInv
  <2>2. QED
    BY <1>3, <1>4, <2>1 DEF OInv, OwnIds
<1>8. \A v \in Workers : Deleting(work'[v]) => v # w /\ Deleting(work[v]) /\ work'[v] = work[v]
  BY <1>3, <1>4, Kinds
<1>9. NotYetStored'
  <2>1. \A i \in DOMAIN docs : /\ \A e \in embeddings : e.id # docs[i].id
                               /\ \A r \in telemetry : r.id # docs[i].id
                               /\ \A v \in Workers : Deleting(work[v]) => work[v].id # docs[i].id
    BY <1>1 DEF OInv, UsedInv
  <2>2. QED
    BY <1>1, <1>3, <1>4, <1>8, <2>1 DEF OInv, NotYetStored
<1>10. ContentsKnown'
  BY <1>1, <1>8 DEF OInv, ContentsKnown
<1>11. JudgedInv'
  BY <1>1, <1>3, <1>4 DEF OInv, JudgedInv, Entries, Storing
<1>12. PrimariesKept'
  <2>1. work[w].pc = "idle"
    BY <1>1, Kinds
  <2>2. Entries' = Entries
    BY <1>1 DEF Entries
  <2>3. QED
    BY <1>1, <1>3, <1>4, <2>1, <2>2, PrimariesStep
<1>13. QED
  BY <1>5, <1>6, <1>7, <1>9, <1>10, <1>11, <1>12 DEF OInv

-----------------------------------------------------------------------------
(* Classification. *)

LEMMA FoundApart ==
    ASSUME OInv, NEW docs, NEW new, new \subseteq DOMAIN docs, DOMAIN docs \subseteq Nat,
           \A i \in DOMAIN docs : docs[i] \in Doc,
           NEW v \in Verdicts(docs, new, Entries)
    PROVE  Apart(Entries \cup Primaries(docs, new, v))
<1>1. ASSUME NEW k \in new, v[k] = {}, NEW e \in Entries \cup {docs[j] : j \in {i \in new : i < k /\ v[i] = {}}}
      PROVE  <<docs[k].content, e.content>> \notin Similar
  <2>1. Near(docs[k].content, Entries \cup {docs[j] : j \in {i \in new : i < k /\ v[i] = {}}}) = {}
    BY <1>1 DEF Verdicts
  <2>2. QED
    BY <1>1, <2>1 DEF Near
<1>2. \A d, e : <<d.content, e.content>> \in Similar => <<e.content, d.content>> \in Similar
  BY ObservabilityAssumption
<1> SUFFICES ASSUME NEW d \in Entries \cup Primaries(docs, new, v),
                    NEW e \in Entries \cup Primaries(docs, new, v), d # e,
                    <<d.content, e.content>> \in Similar
             PROVE  FALSE
  BY DEF Apart
<1>3. <<e.content, d.content>> \in Similar
  BY <1>2
<1>4. CASE d \in Entries /\ e \in Entries
  BY <1>4 DEF OInv, JudgedInv, Apart
<1>5. CASE d \notin Entries /\ e \in Entries
  <2>1. PICK k \in new : v[k] = {} /\ d = docs[k]
    BY <1>5 DEF Primaries
  <2>2. QED
    BY <1>1, <1>5, <2>1
<1>6. CASE d \in Entries /\ e \notin Entries
  <2>1. PICK k \in new : v[k] = {} /\ e = docs[k]
    BY <1>6 DEF Primaries
  <2>2. QED
    BY <1>1, <1>3, <1>6, <2>1
<1>7. CASE d \notin Entries /\ e \notin Entries
  <2>1. PICK k \in new : v[k] = {} /\ d = docs[k]
    BY <1>7 DEF Primaries
  <2>2. PICK j \in new : v[j] = {} /\ e = docs[j]
    BY <1>7 DEF Primaries
  <2>3. j < k \/ k < j
    <3>1. j \in Nat /\ k \in Nat /\ j # k
      BY <2>1, <2>2
    <3>2. QED
      BY <3>1
  <2>4. CASE j < k
    BY <1>1, <2>1, <2>2, <2>4
  <2>5. CASE k < j
    BY <1>1, <1>3, <2>1, <2>2, <2>5
  <2>6. QED
    BY <2>3, <2>4, <2>5
<1>8. QED
  BY <1>4, <1>5, <1>6, <1>7

LEMMA ClassifyStep == ASSUME OInv, NEW w \in Workers, Classify(w) PROVE OInv'
<1>1. Adding(work[w]) /\ work[w].pc = "classify"
  BY ByPc DEF Classify, Searching
<1>0. work[w].kind # "remove"
  BY <1>1 DEF Adding
<1> DEFINE docs == work[w].docs
           new == work[w].new
<1>2. PICK v \in Verdicts(docs, new, Entries) :
         /\ cache' = Entries \cup Primaries(docs, new, v)
         /\ work' = [work EXCEPT ![w].pc = work[w].kind, ![w].verdict = v]
  BY DEF Classify
<1>3. loaded' = TRUE /\ UNCHANGED <<telemetry, embeddings, used, cut>>
  BY DEF Classify, tables, history
<1> DEFINE a == [[work[w] EXCEPT !.pc = work[w].kind] EXCEPT !.verdict = v]
<1>4. work' = [work EXCEPT ![w] = a]
  BY <1>2
<1>5. a.pc = work[w].kind /\ a.docs = docs /\ a.new = new /\ a.kind = work[w].kind
      /\ a.verdict = v /\ DOMAIN a = DOMAIN work[w]
  BY <1>1 DEF Adding, AddFields
<1> HIDE DEF a
<1>6. new \subseteq DOMAIN docs /\ DOMAIN docs \subseteq Nat
      /\ \A i \in DOMAIN docs : docs[i] \in Doc
      /\ work[w].kind \in {"add", "batch"} /\ new # {}
  BY <1>1 DEF Adding
<1>7. Adding(a)
  BY <1>1, <1>5, <1>6 DEF Adding, Storing
<1>8. work'[w] = a /\ \A u \in Workers \ {w} : work'[u] = work[u]
  BY <1>4 DEF OInv, Typed
<1>9. Apart(cache')
  BY <1>2, <1>6, FoundApart
<1>10. \A k \in new : v[k] = {} => docs[k] \in cache'
  BY <1>2 DEF Primaries
<1>12. Entries' = cache' /\ Entries \subseteq cache'
  BY <1>2, <1>3 DEF Entries
<1>13. cache' \subseteq Doc
  <2>1. Entries \subseteq Doc
    BY DEF OInv, Typed, Entries
  <2>2. Primaries(docs, new, v) \subseteq Doc
    BY <1>6 DEF Primaries
  <2>3. QED
    BY <1>2, <2>1, <2>2
<1>14. Typed'
  BY <1>3, <1>4, <1>7, <1>8, <1>13 DEF OInv, Typed
<1>15. UsedInv'
  BY <1>1, <1>3, <1>5, <1>7, <1>8, Kinds DEF OInv, UsedInv
<1>16. OwnIds'
  BY <1>1, <1>5, <1>7, <1>8 DEF OInv, OwnIds
<1>17. \A u \in Workers : Deleting(work'[u]) => u # w /\ Deleting(work[u]) /\ work'[u] = work[u]
  BY <1>7, <1>8, Kinds
<1>18. NotYetStored'
  BY <1>1, <1>3, <1>5, <1>6, <1>7, <1>8, <1>17 DEF OInv, NotYetStored
<1>19. ContentsKnown'
  BY <1>3, <1>17 DEF OInv, ContentsKnown
<1>20. JudgedInv'
  <2>1. \A u \in Workers \ {w} : Adding(work[u]) /\ work[u].pc \in Storing =>
           \A k \in work[u].new : work[u].verdict[k] = {} => work[u].docs[k] \in cache'
    BY <1>12 DEF OInv, JudgedInv, Entries
  <2>2. embeddings' \subseteq Entries'
    BY <1>3, <1>12 DEF OInv, JudgedInv
  <2>3. QED
    BY <1>3, <1>5, <1>8, <1>9, <1>10, <1>12, <2>1, <2>2 DEF JudgedInv
<1>21. PrimariesKept'
  <2>1. work[w].pc \notin {"relate", "remove"} /\ work'[w].pc # "remove"
    <3>1. work'[w].pc = work[w].kind
      BY <1>5, <1>8
    <3>2. QED
      BY <1>0, <1>1, <3>1
  <2>2. embeddings \subseteq embeddings' /\ Entries \subseteq Entries'
    BY <1>3, <1>12
  <2>3. QED
    BY <1>3, <1>8, <2>1, <2>2, PrimariesStep
<1>22. QED
  BY <1>14, <1>15, <1>16, <1>18, <1>19, <1>20, <1>21 DEF OInv

-----------------------------------------------------------------------------
(* Storing. *)

LEMMA NewRowTyped ==
    ASSUME NEW d \in Doc, NEW nearest
    PROVE  /\ NewRow(d, nearest) \in Row
           /\ NewRow(d, nearest).id = d.id /\ NewRow(d, nearest).content = d.content
           /\ NewRow(d, nearest).primary <=> nearest = {}
           /\ DocOf(NewRow(d, nearest)) = d
BY DEF NewRow, Row, Doc, DocOf

LEMMA InsertRowStep == ASSUME OInv, NEW w \in Workers, InsertRow(w) PROVE OInv'
<1>1. Adding(work[w]) /\ work[w].pc = "add"
  BY ByPc DEF InsertRow, Storing
<1>2. UNCHANGED <<embeddings, loaded, cache, used, cut>>
  BY DEF InsertRow, Fail, history
<1> DEFINE d == work[w].docs[1]
           row == NewRow(d, work[w].verdict[1])
<1>3. CASE Return(w) /\ telemetry' = telemetry
  BY <1>1, <1>2, <1>3, SearchStep DEF Return
<1>4. CASE telemetry' = telemetry \cup {row} /\ work' = [work EXCEPT ![w].pc = "relate"]
  <2> DEFINE a == [work[w] EXCEPT !.pc = "relate"]
  <2>1. work' = [work EXCEPT ![w] = a]
    BY <1>4
  <2>2. a.pc = "relate" /\ a.docs = work[w].docs /\ a.new = work[w].new /\ a.kind = work[w].kind
        /\ a.verdict = work[w].verdict /\ DOMAIN a = DOMAIN work[w]
    BY <1>1 DEF Adding, AddFields
  <2> HIDE DEF a
  <2>3. Adding(a)
    BY <1>1, <2>2 DEF Adding, Storing
  <2>4. work'[w] = a /\ \A v \in Workers \ {w} : work'[v] = work[v]
    BY <2>1 DEF OInv, Typed
  <2>5. DOMAIN work[w].docs = {1} /\ d \in Doc /\ work[w].new = {1}
    BY <1>1 DEF Adding, Storing
  <2>6. /\ row \in Row /\ row.id = d.id /\ row.content = d.content
        /\ row.primary => work[w].verdict[1] = {} /\ DocOf(row) = d
    BY <2>5, NewRowTyped
  <2> HIDE DEF d, row
  <2>7. Typed'
    BY <1>2, <1>4, <2>1, <2>3, <2>4, <2>6 DEF OInv, Typed
  <2>8. UsedInv'
    BY <1>1, <1>2, <1>4, <2>2, <2>3, <2>4, <2>5, <2>6, Kinds DEF OInv, UsedInv, d
  <2>9. OwnIds'
    BY <1>1, <2>2, <2>3, <2>4 DEF OInv, OwnIds
  <2>10. \A v \in Workers : Deleting(work'[v]) => v # w /\ Deleting(work[v]) /\ work'[v] = work[v]
    BY <2>3, <2>4, Kinds
  <2>11. \A v \in Workers \ {w} : Adding(work[v]) => \A i \in DOMAIN work[v].docs :
            work[v].docs[i].id # row.id
    BY <1>1, <2>5, <2>6 DEF OInv, OwnIds, d
  <2>12. NotYetStored'
    BY <1>1, <1>2, <1>4, <2>2, <2>4, <2>10, <2>11 DEF OInv, NotYetStored
  <2>13. \A v \in Workers : Deleting(work[v]) => work[v].id # row.id
    BY <1>1, <2>5, <2>6 DEF OInv, NotYetStored, d
  <2>14. ContentsKnown'
    BY <1>4, <2>10, <2>13 DEF OInv, ContentsKnown
  <2>15. JudgedInv'
    BY <1>1, <1>2, <2>2, <2>4 DEF OInv, JudgedInv, Entries, Storing
  <2>16. PrimariesKept'
    <3>1. ASSUME row.primary
          PROVE  /\ d \in Entries'
                 /\ Adding(work'[w]) /\ work'[w].pc = "relate"
                 /\ work'[w].docs[1] = d /\ work'[w].verdict[1] = {}
      BY <1>1, <1>2, <2>2, <2>3, <2>4, <2>5, <2>6, <3>1 DEF OInv, JudgedInv, Entries, Storing, d
    <3>2. ASSUME NEW r \in telemetry PROVE Excused(r)' <=> Excused(r)
      BY <1>1, <1>2, <2>2, <2>4 DEF Excused, Going
    <3>3. Entries' = Entries
      BY <1>2 DEF Entries
    <3>4. ASSUME NEW v \in Workers, work[v].pc = "relate" PROVE work'[v] = work[v]
      BY <1>1, <2>4, <3>4
    <3>5. ASSUME NEW r \in telemetry, r.primary, ~Excused(r)'
          PROVE  /\ DocOf(r) \in Entries'
                 /\ \/ DocOf(r) \in embeddings'
                    \/ \E v \in Workers : /\ Adding(work'[v]) /\ work'[v].pc = "relate"
                                          /\ work'[v].docs[1] = DocOf(r) /\ work'[v].verdict[1] = {}
      BY <1>2, <3>2, <3>3, <3>4, <3>5 DEF OInv, PrimariesKept
    <3>6. QED
      BY <1>4, <2>6, <3>1, <3>5 DEF PrimariesKept, DocOf
  <2>17. QED
    BY <2>7, <2>8, <2>9, <2>12, <2>14, <2>15, <2>16 DEF OInv
<1>5. QED
  BY <1>3, <1>4 DEF InsertRow, Fail

\* A call that stores embeddings among its documents, if any, and ends.
LEMMA EndStep ==
    ASSUME OInv, NEW w \in Workers, Adding(work[w]), work[w].pc \in Storing, Return(w),
           UNCHANGED <<loaded, cache, used, cut>>,
           NEW kept \in SUBSET work[w].new, NEW placed \in SUBSET work[w].new,
           \A k \in kept : work[w].verdict[k] = {},
           embeddings' = embeddings \cup {work[w].docs[k] : k \in kept},
           telemetry' = telemetry \cup {NewRow(work[w].docs[k], work[w].verdict[k]) : k \in placed},
           placed = {} \/ work[w].pc # "relate",
           \A k \in placed : work[w].verdict[k] = {} => k \in kept,
           work[w].pc = "relate" /\ work[w].verdict[1] = {} => 1 \in kept
    PROVE  OInv'
<1> DEFINE docs == work[w].docs
           Placed(k) == NewRow(docs[k], work[w].verdict[k])
<1>1. work'[w] = Idle /\ (\A v \in Workers \ {w} : work'[v] = work[v])
      /\ work' = [v \in Workers |-> work'[v]]
  BY DEF OInv, Typed, Return
<1>2. \A k \in work[w].new : k \in DOMAIN docs /\ docs[k] \in Doc
  BY DEF Adding
<1>3. \A k \in work[w].new : /\ Placed(k) \in Row /\ Placed(k).id = docs[k].id
                             /\ Placed(k).primary => work[w].verdict[k] = {}
                             /\ DocOf(Placed(k)) = docs[k]
  BY <1>2, NewRowTyped
<1>4. telemetry' = telemetry \cup {Placed(k) : k \in placed}
  OBVIOUS
<1> HIDE DEF Placed
<1>5. Typed'
  BY <1>1, <1>2, <1>3, <1>4 DEF OInv, Typed
<1>6. UsedInv'
  <2>1. \A k \in work[w].new : docs[k].id \in used
    BY <1>2 DEF OInv, UsedInv
  <2>2. QED
    BY <1>1, <1>3, <1>4, <2>1, Kinds DEF OInv, UsedInv
<1>7. OwnIds'
  BY <1>1, Kinds DEF OInv, OwnIds
<1>8. \A v \in Workers : Deleting(work'[v]) => v # w /\ Deleting(work[v]) /\ work'[v] = work[v]
  BY <1>1, Kinds
<1>9. NotYetStored'
  <2>1. \A v \in Workers \ {w} : Adding(work[v]) => \A i \in DOMAIN work[v].docs :
           \A k \in work[w].new : work[v].docs[i].id # docs[k].id
    BY <1>2 DEF OInv, OwnIds
  <2>2. QED
    BY <1>1, <1>3, <1>4, <1>8, <2>1, Kinds DEF OInv, NotYetStored
<1>10. ContentsKnown'
  <2>1. \A v \in Workers : Deleting(work[v]) => \A k \in placed : work[v].id # docs[k].id
    BY <1>2 DEF OInv, NotYetStored
  <2>2. QED
    BY <1>3, <1>4, <1>8, <2>1 DEF OInv, ContentsKnown
<1>11. loaded /\ \A k \in kept : docs[k] \in cache
  BY DEF OInv, JudgedInv
<1>12. JudgedInv'
  <2>1. Entries = cache /\ Entries' = cache
    BY <1>11 DEF Entries
  <2>2. embeddings' \subseteq Entries'
    BY <1>11, <2>1 DEF OInv, JudgedInv
  <2>3. QED
    BY <1>1, <2>1, <2>2, Kinds DEF OInv, JudgedInv
<1>13. PrimariesKept'
  <2>1. work[w].pc # "remove"
    BY DEF Storing
  <2>2. ASSUME NEW r \in telemetry PROVE Excused(r)' <=> Excused(r)
    BY <1>1, <2>1, Kinds DEF Excused, Going
  <2>3. Entries' = Entries /\ Entries = cache
    BY <1>11 DEF Entries
  <2>4. ASSUME NEW r \in telemetry, r.primary, ~Excused(r)'
        PROVE  /\ DocOf(r) \in Entries'
               /\ \/ DocOf(r) \in embeddings'
                  \/ \E v \in Workers : /\ Adding(work'[v]) /\ work'[v].pc = "relate"
                                        /\ work'[v].docs[1] = DocOf(r) /\ work'[v].verdict[1] = {}
    <3>1. DocOf(r) \in Entries
      BY <2>2, <2>4 DEF OInv, PrimariesKept
    <3>2. CASE DocOf(r) \in embeddings
      BY <2>3, <3>1, <3>2
    <3>3. CASE DocOf(r) \notin embeddings
      <4>1. PICK v \in Workers : /\ Adding(work[v]) /\ work[v].pc = "relate"
                                 /\ work[v].docs[1] = DocOf(r) /\ work[v].verdict[1] = {}
        BY <2>2, <2>4, <3>3 DEF OInv, PrimariesKept
      <4>2. CASE v = w
        BY <2>3, <3>1, <4>1, <4>2
      <4>3. CASE v # w
        BY <1>1, <2>3, <3>1, <4>1, <4>3
      <4>4. QED
        BY <4>2, <4>3
    <3>4. QED
      BY <3>2, <3>3
  <2>5. ASSUME NEW k \in placed, Placed(k).primary
        PROVE  DocOf(Placed(k)) \in Entries' /\ DocOf(Placed(k)) \in embeddings'
    BY <1>3, <1>11, <2>3, <2>5
  <2>6. QED
    BY <1>4, <2>4, <2>5 DEF PrimariesKept, DocOf
<1>14. QED
  BY <1>5, <1>6, <1>7, <1>9, <1>10, <1>12, <1>13 DEF OInv

LEMMA RelateStep == ASSUME OInv, NEW w \in Workers, Relate(w) PROVE OInv'
<1>1. Adding(work[w]) /\ work[w].pc = "relate" /\ work[w].pc \in Storing
  BY ByPc DEF Relate, Storing
<1>2. work[w].new = {1} /\ DOMAIN work[w].docs = {1}
  BY <1>1 DEF Adding
<1>3. Return(w) /\ UNCHANGED <<telemetry, loaded, cache, used, cut>>
  BY DEF Relate, Fail, history
<1>4. \A e \in embeddings : e.id # work[w].docs[1].id
  BY <1>1, <1>2 DEF OInv, NotYetStored
<1> DEFINE kept == IF work[w].verdict[1] = {} THEN {1} ELSE {}
           placed == {k \in work[w].new : FALSE}
<1>5. kept \in SUBSET work[w].new /\ placed \in SUBSET work[w].new /\ placed = {}
      /\ (\A k \in kept : work[w].verdict[k] = {})
      /\ (work[w].verdict[1] = {} => 1 \in kept)
  BY <1>2
<1>6. embeddings' = embeddings \cup {work[w].docs[k] : k \in kept}
  BY <1>4 DEF Relate
<1>7. telemetry' = telemetry \cup {NewRow(work[w].docs[k], work[w].verdict[k]) : k \in placed}
  BY <1>3
<1>8. UNCHANGED <<loaded, cache, used, cut>>
  BY <1>3
<1> HIDE DEF kept, placed
<1>9. \A k \in placed : work[w].verdict[k] = {} => k \in kept
  BY <1>5
<1>10. QED
  BY <1>1, <1>3, <1>5, <1>6, <1>7, <1>8, <1>9, EndStep

LEMMA InsertBatchStep == ASSUME OInv, NEW w \in Workers, InsertBatch(w) PROVE OInv'
<1>1. Adding(work[w]) /\ work[w].pc = "batch" /\ work[w].pc \in Storing
  BY ByPc DEF InsertBatch, Storing
<1>2. Return(w) /\ UNCHANGED <<loaded, cache, used, cut>>
  BY DEF InsertBatch, Fail, history
<1> DEFINE kept == {k \in work[w].new : work[w].verdict[k] = {}}
<1>3. CASE UNCHANGED <<telemetry, embeddings>>
  BY <1>1, <1>2, <1>3, SearchStep DEF Return
<1>4. CASE /\ telemetry' = telemetry \cup {NewRow(work[w].docs[k], work[w].verdict[k]) : k \in work[w].new}
           /\ embeddings' = embeddings \cup {work[w].docs[k] : k \in kept}
  <2>1. kept \in SUBSET work[w].new /\ work[w].new \in SUBSET work[w].new
    OBVIOUS
  <2>2. work[w].pc # "relate" /\ (\A k \in kept : work[w].verdict[k] = {})
        /\ \A k \in work[w].new : work[w].verdict[k] = {} => k \in kept
    BY <1>1
  <2> HIDE DEF kept
  <2>3. QED
    BY <1>1, <1>2, <1>4, <2>1, <2>2, EndStep
<1>5. QED
  <2>1. Primaries(work[w].docs, work[w].new, work[w].verdict) = {work[w].docs[k] : k \in kept}
    BY DEF Primaries
  <2>2. \/ UNCHANGED <<telemetry, embeddings>>
        \/ /\ telemetry' = telemetry \cup {NewRow(work[w].docs[k], work[w].verdict[k]) : k \in work[w].new}
           /\ embeddings' = embeddings \cup Primaries(work[w].docs, work[w].new, work[w].verdict)
    BY DEF InsertBatch
  <2> HIDE DEF kept
  <2>3. QED
    BY <1>3, <1>4, <2>1, <2>2

-----------------------------------------------------------------------------
(* Deletions and restarts. *)

LEMMA DeleteBeginStep == ASSUME OInv, NEW w \in Workers, NEW id \in Ids, DeleteBegin(w, id) PROVE OInv'
<1> DEFINE contents == {r.content : r \in {q \in telemetry : q.id = id}}
           a == [pc |-> "unlink", id |-> id, contents |-> contents]
<1>1. /\ work' = [work EXCEPT ![w] = a] /\ work[w] = Idle /\ (Stored(id) \/ Spent(id))
      /\ UNCHANGED <<telemetry, embeddings, loaded, cache, used, cut>>
  BY DEF DeleteBegin, tables
<1>2. a.pc = "unlink" /\ a.id = id /\ a.contents = contents /\ Deleting(a)
  BY DEF Deleting
<1>3. \A r \in telemetry : r.id = id => r.content \in contents
  OBVIOUS
<1> HIDE DEF a, contents
<1>4. work'[w] = a /\ \A v \in Workers \ {w} : work'[v] = work[v]
  BY <1>1 DEF OInv, Typed
<1>5. \A v \in Workers : Adding(work'[v]) => v # w /\ Adding(work[v]) /\ work'[v] = work[v]
  BY <1>2, <1>4, Kinds
<1>6. Typed'
  BY <1>1, <1>2, <1>4 DEF OInv, Typed
<1>7. UsedInv'
  BY <1>1, <1>2, <1>4, <1>5 DEF OInv, UsedInv, Stored, Spent
<1>8. OwnIds'
  BY <1>5 DEF OInv, OwnIds
<1>9. NotYetStored'
  <2>1. \A v \in Workers : Adding(work[v]) /\ work[v].pc # "relate" =>
           \A i \in DOMAIN work[v].docs : id # work[v].docs[i].id
    <3>1. CASE Stored(id)
      BY <3>1 DEF OInv, NotYetStored, Stored
    <3>2. CASE Spent(id)
      BY <3>2 DEF Spent, Adding, AddFields
    <3>3. QED
      BY <1>1, <3>1, <3>2
  <2>2. QED
    BY <1>1, <1>2, <1>4, <1>5, <2>1 DEF OInv, NotYetStored
<1>10. ContentsKnown'
  BY <1>1, <1>2, <1>3, <1>4 DEF OInv, ContentsKnown
<1>11. JudgedInv'
  BY <1>1, <1>5 DEF OInv, JudgedInv, Entries
<1>12. PrimariesKept'
  <2>1. work[w].pc = "idle"
    BY <1>1, Kinds
  <2>2. Entries' = Entries
    BY <1>1 DEF Entries
  <2>3. QED
    BY <1>1, <1>2, <1>4, <2>1, <2>2, PrimariesStep
<1>13. QED
  BY <1>6, <1>7, <1>8, <1>9, <1>10, <1>11, <1>12 DEF OInv

\* A deletion that goes on, or ends; everything but PrimariesKept.
LEMMA DeletionStep ==
    ASSUME OInv, NEW w \in Workers, Deleting(work[w]),
           NEW a, work' = [work EXCEPT ![w] = a],
           a = Idle \/ (/\ Deleting(a) /\ a.id = work[w].id /\ a.contents = work[w].contents
                        /\ work[w].pc # "unlog"),
           telemetry' \subseteq telemetry,
           a.pc = "unlog" => \A r \in telemetry' : r.id # work[w].id,
           embeddings' \subseteq embeddings,
           UNCHANGED <<loaded, cache, used, cut>>
    PROVE  Typed' /\ UsedInv' /\ OwnIds' /\ NotYetStored' /\ ContentsKnown' /\ JudgedInv'
<1>1. work'[w] = a /\ \A v \in Workers \ {w} : work'[v] = work[v]
  BY DEF OInv, Typed
<1>2. \A v \in Workers : Adding(work'[v]) => v # w /\ Adding(work[v]) /\ work'[v] = work[v]
  BY <1>1, Kinds
<1>3. \A v \in Workers : Deleting(work'[v]) =>
         /\ Deleting(work[v]) /\ work'[v].id = work[v].id /\ work'[v].contents = work[v].contents
         /\ work[v].pc = "unlog" => work'[v].pc = "unlog"
  BY <1>1, Kinds
<1>4. Typed'
  BY <1>1 DEF OInv, Typed
<1>5. UsedInv'
  BY <1>2, <1>3 DEF OInv, UsedInv
<1>6. OwnIds'
  BY <1>2 DEF OInv, OwnIds
<1>7. NotYetStored'
  BY <1>2, <1>3 DEF OInv, NotYetStored
<1>8. ContentsKnown'
  BY <1>3 DEF OInv, ContentsKnown
<1>9. JudgedInv'
  <2>1. Entries' \subseteq Entries /\ embeddings' \subseteq Entries'
    BY DEF OInv, JudgedInv, Entries
  <2>2. Apart(Entries)'
    BY <2>1 DEF OInv, JudgedInv, Apart
  <2>3. QED
    BY <1>2, <2>1, <2>2 DEF OInv, JudgedInv
<1>10. QED
  BY <1>4, <1>5, <1>6, <1>7, <1>8, <1>9

LEMMA DeleteLinksStep == ASSUME OInv, NEW w \in Workers, DeleteLinks(w) PROVE OInv'
<1>1. Deleting(work[w]) /\ work[w].pc = "unlink"
  BY ByPc DEF DeleteLinks
<1> DEFINE a == [work[w] EXCEPT !.pc = "unembed"]
<1>2. /\ work' = [work EXCEPT ![w] = a]
      /\ UNCHANGED <<telemetry, embeddings, loaded, cache, used, cut>>
  BY DEF DeleteLinks, history
<1>3. a.pc = "unembed" /\ a.id = work[w].id /\ a.contents = work[w].contents /\ Deleting(a)
  BY <1>1 DEF Deleting
<1> HIDE DEF a
<1>4. Typed' /\ UsedInv' /\ OwnIds' /\ NotYetStored' /\ ContentsKnown' /\ JudgedInv'
  BY <1>1, <1>2, <1>3, DeletionStep
<1>5. PrimariesKept'
  <2>1. work'[w].pc = "unembed" /\ \A v \in Workers \ {w} : work'[v] = work[v]
    BY <1>2, <1>3 DEF OInv, Typed
  <2>2. Entries' = Entries
    BY <1>2 DEF Entries
  <2>3. QED
    BY <1>1, <1>2, <2>1, <2>2, PrimariesStep
<1>6. QED
  BY <1>4, <1>5 DEF OInv

LEMMA DeleteEmbeddingStep == ASSUME OInv, NEW w \in Workers, DeleteEmbedding(w) PROVE OInv'
<1>1. Deleting(work[w]) /\ work[w].pc = "unembed"
  BY ByPc DEF DeleteEmbedding
<1> DEFINE a == [work[w] EXCEPT !.pc = "remove"]
<1>2. /\ work' = [work EXCEPT ![w] = a]
      /\ embeddings' = {e \in embeddings : e.id # work[w].id}
      /\ UNCHANGED <<telemetry, loaded, cache, used, cut>>
  BY DEF DeleteEmbedding, history
<1>3. a.pc = "remove" /\ a.id = work[w].id /\ a.contents = work[w].contents /\ Deleting(a)
  BY <1>1 DEF Deleting
<1> HIDE DEF a
<1>4. Typed' /\ UsedInv' /\ OwnIds' /\ NotYetStored' /\ ContentsKnown' /\ JudgedInv'
  <2>1. embeddings' \subseteq embeddings /\ a.pc # "unlog" /\ work[w].pc # "unlog"
        /\ telemetry' \subseteq telemetry
    BY <1>1, <1>2, <1>3
  <2>2. QED
    BY <1>1, <1>2, <1>3, <2>1, DeletionStep
<1>5. work'[w] = a /\ \A v \in Workers \ {w} : work'[v] = work[v]
  BY <1>2 DEF OInv, Typed
<1>6. PrimariesKept'
  <2> SUFFICES ASSUME NEW r \in telemetry, r.primary, ~Excused(r)'
               PROVE  /\ DocOf(r) \in Entries'
                      /\ \/ DocOf(r) \in embeddings'
                         \/ \E v \in Workers : /\ Adding(work'[v]) /\ work'[v].pc = "relate"
                                               /\ work'[v].docs[1] = DocOf(r)
                                               /\ work'[v].verdict[1] = {}
    BY <1>2 DEF PrimariesKept, DocOf
  <2>1. r.id # work[w].id /\ ~Excused(r)
    BY <1>1, <1>2, <1>3, <1>5 DEF Excused, Going
  <2>2. DocOf(r).id # work[w].id
    BY <2>1 DEF DocOf
  <2>3. DocOf(r) \in Entries
    BY <2>1 DEF OInv, PrimariesKept
  <2>4. DocOf(r) \in Entries'
    BY <1>2, <2>2, <2>3 DEF Entries
  <2>5. CASE DocOf(r) \in embeddings
    BY <1>2, <2>2, <2>4, <2>5
  <2>6. CASE DocOf(r) \notin embeddings
    <3>1. PICK v \in Workers : /\ Adding(work[v]) /\ work[v].pc = "relate"
                               /\ work[v].docs[1] = DocOf(r) /\ work[v].verdict[1] = {}
      BY <2>1, <2>6 DEF OInv, PrimariesKept
    <3>2. work'[v] = work[v]
      BY <1>1, <1>5, <3>1
    <3>3. QED
      BY <2>4, <3>1, <3>2
  <2>7. QED
    BY <2>5, <2>6
<1>7. QED
  BY <1>4, <1>6 DEF OInv

LEMMA DeleteRowStep == ASSUME OInv, NEW w \in Workers, DeleteRow(w) PROVE OInv'
<1>1. Deleting(work[w]) /\ work[w].pc = "remove"
  BY ByPc DEF DeleteRow
<1> DEFINE a == [work[w] EXCEPT !.pc = "unlog"]
<1>2. /\ work' = [work EXCEPT ![w] = a]
      /\ telemetry' = {r \in telemetry : r.id # work[w].id}
      /\ UNCHANGED <<embeddings, loaded, cache, used, cut>>
  BY DEF DeleteRow, history
<1>3. a.pc = "unlog" /\ a.id = work[w].id /\ a.contents = work[w].contents /\ Deleting(a)
  BY <1>1 DEF Deleting
<1> HIDE DEF a
<1>4. Typed' /\ UsedInv' /\ OwnIds' /\ NotYetStored' /\ ContentsKnown' /\ JudgedInv'
  <2>1. /\ telemetry' \subseteq telemetry /\ embeddings' \subseteq embeddings
        /\ work[w].pc # "unlog" /\ \A r \in telemetry' : r.id # work[w].id
    BY <1>1, <1>2
  <2>2. QED
    BY <1>1, <1>2, <1>3, <2>1, DeletionStep
<1>5. work'[w] = a /\ \A v \in Workers \ {w} : work'[v] = work[v]
  BY <1>2 DEF OInv, Typed
<1>6. PrimariesKept'
  <2> SUFFICES ASSUME NEW r \in telemetry', r.primary, ~Excused(r)'
               PROVE  /\ DocOf(r) \in Entries'
                      /\ \/ DocOf(r) \in embeddings'
                         \/ \E v \in Workers : /\ Adding(work'[v]) /\ work'[v].pc = "relate"
                                               /\ work'[v].docs[1] = DocOf(r)
                                               /\ work'[v].verdict[1] = {}
    BY DEF PrimariesKept, DocOf
  <2>1. r \in telemetry /\ r.id # work[w].id
    BY <1>2
  <2>2. ~Excused(r)
    BY <1>2, <1>5, <2>1 DEF Excused, Going
  <2>3. Entries' = Entries
    BY <1>2 DEF Entries
  <2>4. ASSUME NEW v \in Workers, work[v].pc = "relate" PROVE work'[v] = work[v]
    BY <1>1, <1>5, <2>4
  <2>5. QED
    BY <1>2, <2>1, <2>2, <2>3, <2>4 DEF OInv, PrimariesKept
<1>7. QED
  BY <1>4, <1>6 DEF OInv

LEMMA DeleteLogStep == ASSUME OInv, NEW w \in Workers, DeleteLog(w) PROVE OInv'
<1>1. Deleting(work[w]) /\ work[w].pc = "unlog"
  BY ByPc DEF DeleteLog
<1>2. /\ work' = [work EXCEPT ![w] = Idle]
      /\ UNCHANGED <<telemetry, embeddings, loaded, cache, used, cut>>
  BY DEF DeleteLog, Return, history
<1>3. Typed' /\ UsedInv' /\ OwnIds' /\ NotYetStored' /\ ContentsKnown' /\ JudgedInv'
  <2>1. telemetry' \subseteq telemetry /\ embeddings' \subseteq embeddings /\ Idle.pc # "unlog"
    BY <1>2, Kinds
  <2>2. QED
    BY <1>1, <1>2, <2>1, DeletionStep
<1>4. PrimariesKept'
  <2>1. work'[w].pc = "idle" /\ \A v \in Workers \ {w} : work'[v] = work[v]
    BY <1>2, Kinds DEF OInv, Typed
  <2>2. Entries' = Entries
    BY <1>2 DEF Entries
  <2>3. QED
    BY <1>1, <1>2, <2>1, <2>2, PrimariesStep
<1>5. QED
  BY <1>3, <1>4 DEF OInv

LEMMA ReopenStep == ASSUME OInv, Reopen PROVE OInv'
<1>1. /\ loaded' = FALSE /\ cache' = {} /\ work' = [v \in Workers |-> Idle]
      /\ cut' = cut \cup {d.content : d \in UNION {AtWork(v) : v \in Workers}}
      /\ UNCHANGED <<telemetry, embeddings, used>>
  BY DEF Reopen, tables
<1>2. \A v \in Workers : work'[v] = Idle
  BY <1>1
<1>3. Entries' = embeddings /\ embeddings \subseteq Entries
  BY <1>1 DEF OInv, JudgedInv, Entries
<1>4. Typed'
  BY <1>1, <1>2 DEF OInv, Typed
<1>5. UsedInv'
  BY <1>1, <1>2, Kinds DEF OInv, UsedInv
<1>6. OwnIds' /\ NotYetStored' /\ ContentsKnown'
  BY <1>2, Kinds DEF OwnIds, NotYetStored, ContentsKnown
<1>7. JudgedInv'
  <2>1. Apart(Entries)'
    BY <1>3 DEF OInv, JudgedInv, Apart
  <2>2. QED
    BY <1>1, <1>2, <1>3, <2>1, Kinds DEF JudgedInv
<1>8. PrimariesKept'
  <2> SUFFICES ASSUME NEW r \in telemetry, r.primary, r.content \notin cut'
               PROVE  DocOf(r) \in embeddings
    BY <1>1, <1>3 DEF PrimariesKept, Excused, DocOf
  <2>1. \A v \in Workers : \A d \in AtWork(v) : d.content # r.content
    BY <1>1
  <2>2. ~Excused(r)
    <3> SUFFICES ASSUME NEW v \in Workers, work[v].pc = "remove", work[v].id = r.id
                 PROVE  FALSE
      BY <1>1 DEF Excused, Going
    <3>1. Deleting(work[v]) /\ work[v] # Idle
      BY ByPc, Kinds
    <3>2. r.content \in work[v].contents
      BY <3>1 DEF OInv, ContentsKnown
    <3>3. "docs" \notin DOMAIN work[v]
      BY <3>1 DEF Deleting
    <3>4. [id |-> work[v].id, content |-> r.content] \in AtWork(v)
      BY <3>1, <3>2, <3>3 DEF AtWork
    <3>5. QED
      BY <2>1, <3>4
  <2>3. ASSUME NEW v \in Workers, Adding(work[v]), work[v].pc = "relate",
               work[v].docs[1] = DocOf(r)
        PROVE  FALSE
    <3>1. work[v] # Idle /\ "docs" \in DOMAIN work[v] /\ 1 \in DOMAIN work[v].docs
      BY <2>3, Kinds DEF Adding, AddFields
    <3>2. DocOf(r) \in AtWork(v)
      BY <2>3, <3>1 DEF AtWork
    <3>3. DocOf(r).content = r.content
      BY DEF DocOf
    <3>4. QED
      BY <2>1, <3>2, <3>3
  <2>4. QED
    BY <2>2, <2>3 DEF OInv, PrimariesKept
<1>9. QED
  BY <1>4, <1>5, <1>6, <1>7, <1>8 DEF OInv

-----------------------------------------------------------------------------
LEMMA AddStep ==
    ASSUME OInv, CallerIds = {}, NEW w \in Workers, NEW d \in Doc, AddBegin(w, <<d>>, "add")
    PROVE  OInv'
<1>1. DOMAIN <<d>> = {1} /\ \A i \in DOMAIN <<d>> : <<d>>[i] \in Doc
  OBVIOUS
<1>2. DOMAIN <<d>> \subseteq Nat \ {0}
  BY <1>1
<1>3. QED
  BY <1>1, <1>2, AddBeginStep

LEMMA BatchStep ==
    ASSUME OInv, CallerIds = {}, NEW w \in Workers, NEW docs \in Batches, AddBegin(w, docs, "batch")
    PROVE  OInv'
<1>1. PICK n \in 2..MaxBatch : docs \in [1..n -> Doc]
  BY DEF Batches
<1>2. DOMAIN docs \subseteq Nat \ {0} /\ \A i \in DOMAIN docs : docs[i] \in Doc
  BY <1>1
<1>3. QED
  BY <1>2, AddBeginStep

LEMMA NextInv == ASSUME OInv, CallerIds = {}, [Next]_vars PROVE OInv'
<1>1. CASE UNCHANGED vars
  <2>1. UNCHANGED <<telemetry, embeddings, loaded, cache, work, used, cut>>
    BY <1>1 DEF vars, tables, history
  <2>2. Entries' = Entries
    BY <2>1 DEF Entries
  <2>3. Typed'
    BY <2>1 DEF OInv, Typed
  <2>4. UsedInv'
    BY <2>1 DEF OInv, UsedInv
  <2>5. OwnIds'
    BY <2>1 DEF OInv, OwnIds
  <2>6. NotYetStored'
    BY <2>1 DEF OInv, NotYetStored
  <2>7. ContentsKnown'
    BY <2>1 DEF OInv, ContentsKnown
  <2>8. JudgedInv'
    BY <2>1, <2>2 DEF OInv, JudgedInv
  <2>9. PrimariesKept'
    <3>1. \A r : Excused(r)' <=> Excused(r)
      BY <2>1 DEF Excused, Going
    <3>2. QED
      BY <2>1, <2>2, <3>1 DEF OInv, PrimariesKept
  <2>10. QED
    BY <2>3, <2>4, <2>5, <2>6, <2>7, <2>8, <2>9 DEF OInv
<1>2. CASE Reopen
  BY <1>2, ReopenStep
<1>3. ASSUME NEW w \in Workers,
             \/ \E d \in Doc : AddBegin(w, <<d>>, "add")
             \/ \E docs \in Batches : AddBegin(w, docs, "batch")
      PROVE  OInv'
  BY <1>3, AddStep, BatchStep
<1>4. ASSUME NEW w \in Workers,
             \/ Select(w) \/ ReadLog(w) \/ WriteLog(w) \/ ReturnDuplicates(w) \/ Classify(w)
             \/ InsertRow(w) \/ Relate(w) \/ InsertBatch(w)
      PROVE  OInv'
  BY <1>4, SelectStep, ReadLogStep, WriteLogStep, ReturnStep, ClassifyStep, InsertRowStep,
     RelateStep, InsertBatchStep
<1>5. ASSUME NEW w \in Workers,
             \/ \E id \in Ids : DeleteBegin(w, id)
             \/ DeleteLinks(w) \/ DeleteEmbedding(w) \/ DeleteRow(w) \/ DeleteLog(w)
      PROVE  OInv'
  BY <1>5, DeleteBeginStep, DeleteLinksStep, DeleteEmbeddingStep, DeleteRowStep, DeleteLogStep
<1>6. QED
  BY <1>1, <1>2, <1>3, <1>4, <1>5 DEF Next

\* However many threads add and delete at once, whatever is similar to what,
\* and through restarts: no two stored primaries are similar (the lock around
\* classify, observability.rs), as long as ids are those of generate_v7_at.
\* A record whose id a caller has supplied before may find the embedding of
\* its predecessor under it, and then stores none of its own.
THEOREM PrimariesDiffer == ASSUME CallerIds = {} PROVE Spec => []NoSimilarPrimaries
<1>1. Init => OInv
  BY InitInv
<1>2. OInv /\ [Next]_vars => OInv'
  BY NextInv
<1>3. OInv => NoSimilarPrimaries
  BY Implied
<1>4. QED
  BY <1>1, <1>2, <1>3, PTL DEF Spec

-----------------------------------------------------------------------------
(* What is stored once and what is logged, for any ids.                    *)

Less == {p \in Nat \X Nat : p[1] < p[2]}

LEMMA Least ==
    ASSUME NEW S, S \subseteq Nat, S # {}
    PROVE  \E i \in S : \A j \in S : i <= j
<1>1. IsWellFoundedOn(Less, Nat)
  BY NatLessThanWellFounded DEF OpToRel, Less
<1>2. PICK i \in S : \A j \in S : <<j, i>> \notin Less
  BY <1>1, WFMin
<1>3. \A j \in S : j \in Nat /\ i \in Nat /\ ~(j < i)
  BY <1>2 DEF Less
<1>4. QED
  BY <1>3

\* A deletion that found no row finds none later.
Void ==
    \A v, w \in Workers : {"id", "contents"} \subseteq DOMAIN work[w] /\ work[w].contents = {} =>
        /\ work[w].id \in used \ CallerIds
        /\ "docs" \in DOMAIN work[v] =>
              \A i \in DOMAIN work[v].docs : work[v].docs[i].id # work[w].id

\* No record is linked before its own add links it.
Unlinked ==
    /\ \A l \in links : l[2] \in used
    /\ \A w \in Workers : "docs" \in DOMAIN work[w] =>
          \A l \in links : \A i \in DOMAIN work[w].docs : l[2] # work[w].docs[i].id

\* A call that goes on keeps what it is about.
LEMMA WorkGoesOn ==
    ASSUME work = [v \in Workers |-> work[v]], NEW w \in Workers,
           \/ Select(w) \/ ReadLog(w) \/ WriteLog(w) \/ ReturnDuplicates(w) \/ Classify(w)
           \/ InsertRow(w) \/ Relate(w) \/ InsertBatch(w)
           \/ DeleteLinks(w) \/ DeleteEmbedding(w) \/ DeleteRow(w) \/ DeleteLog(w)
    PROVE  /\ used' = used
           /\ \A v \in Workers \ {w} : work'[v] = work[v]
           /\ \/ work'[w] = Idle
              \/ /\ DOMAIN work'[w] = DOMAIN work[w]
                 /\ \A f \in {"docs", "id", "contents"} \cap DOMAIN work[w] : work'[w][f] = work[w][f]
<1>1. used' = used
  BY DEF Select, ReadLog, WriteLog, ReturnDuplicates, Classify, InsertRow, Relate, InsertBatch,
         DeleteLinks, DeleteEmbedding, DeleteRow, DeleteLog
<1>2. CASE Return(w)
  BY <1>1, <1>2 DEF Return
<1>3. CASE Select(w)
  <2>1. PICK p, q, n : work' = [work EXCEPT ![w].pc = p, ![w].queue = q, ![w].new = n]
    BY <1>3 DEF Select
  <2>2. QED
    BY <1>1, <2>1
<1>4. CASE ReadLog(w)
  <2>1. PICK p, q : work' = [work EXCEPT ![w].pc = p, ![w].seen = q]
    BY <1>4 DEF ReadLog
  <2>2. QED
    BY <1>1, <2>1
<1>5. CASE WriteLog(w) /\ ~Return(w)
  <2>1. PICK p, q : work' = [work EXCEPT ![w].pc = p, ![w].queue = q]
    BY <1>5 DEF WriteLog, Fail
  <2>2. QED
    BY <1>1, <2>1
<1>6. CASE Classify(w)
  <2>1. PICK p, q : work' = [work EXCEPT ![w].pc = p, ![w].verdict = q]
    BY <1>6 DEF Classify
  <2>2. QED
    BY <1>1, <2>1
<1>7. CASE /\ InsertRow(w) \/ DeleteLinks(w) \/ DeleteEmbedding(w) \/ DeleteRow(w)
           /\ ~Return(w)
  <2>1. PICK p : work' = [work EXCEPT ![w].pc = p]
    BY <1>7 DEF InsertRow, Fail, DeleteLinks, DeleteEmbedding, DeleteRow
  <2>2. QED
    BY <1>1, <2>1
<1>8. ReturnDuplicates(w) \/ Relate(w) \/ InsertBatch(w) \/ DeleteLog(w) => Return(w)
  BY DEF ReturnDuplicates, Relate, InsertBatch, DeleteLog, Fail
<1>9. QED
  BY <1>2, <1>3, <1>4, <1>5, <1>6, <1>7, <1>8

LEMMA NextVoid ==
    ASSUME work = [v \in Workers |-> work[v]], Void, [Next]_vars
    PROVE  Void'
<1>1. CASE UNCHANGED vars
  BY <1>1 DEF vars, Void
<1>2. CASE Reopen
  <2>1. \A v \in Workers : work'[v] = Idle
    BY <1>2 DEF Reopen
  <2>2. QED
    BY <2>1 DEF Void, Idle
<1>3. ASSUME NEW w \in Workers, NEW docs, NEW kind, AddBegin(w, docs, kind)
      PROVE  Void'
  <2>1. /\ \A v \in Workers \ {w} : work'[v] = work[v]
        /\ work'[w].docs = docs /\ "contents" \notin DOMAIN work'[w]
        /\ used \subseteq used'
        /\ \A i \in DOMAIN docs : docs[i].id \notin used \ CallerIds
    BY <1>3 DEF AddBegin
  <2>2. QED
    BY <2>1 DEF Void
<1>4. ASSUME NEW w \in Workers, NEW id \in Ids, DeleteBegin(w, id)
      PROVE  Void'
  <2> DEFINE contents == {r.content : r \in {q \in telemetry : q.id = id}}
  <2>1. /\ \A v \in Workers \ {w} : work'[v] = work[v]
        /\ work'[w].id = id /\ work'[w].contents = contents /\ "docs" \notin DOMAIN work'[w]
        /\ used' = used
    BY <1>4 DEF DeleteBegin
  <2>2. contents = {} => Spent(id)
    BY <1>4 DEF DeleteBegin, Stored
  <2> HIDE DEF contents
  <2>3. QED
    BY <2>1, <2>2 DEF Void, Spent
<1>5. ASSUME NEW w \in Workers,
             \/ Select(w) \/ ReadLog(w) \/ WriteLog(w) \/ ReturnDuplicates(w) \/ Classify(w)
             \/ InsertRow(w) \/ Relate(w) \/ InsertBatch(w)
             \/ DeleteLinks(w) \/ DeleteEmbedding(w) \/ DeleteRow(w) \/ DeleteLog(w)
      PROVE  Void'
  <2>1. DOMAIN Idle = {"pc"}
    BY DEF Idle
  <2>2. \A v \in Workers :
           /\ "docs" \in DOMAIN work'[v] => "docs" \in DOMAIN work[v] /\ work'[v].docs = work[v].docs
           /\ {"id", "contents"} \subseteq DOMAIN work'[v] =>
                 /\ {"id", "contents"} \subseteq DOMAIN work[v]
                 /\ work'[v].id = work[v].id /\ work'[v].contents = work[v].contents
    BY <1>5, <2>1, WorkGoesOn
  <2>3. used' = used
    BY <1>5, WorkGoesOn
  <2>4. QED
    BY <2>2, <2>3 DEF Void
<1>6. QED
  BY <1>1, <1>2, <1>3, <1>4, <1>5 DEF Next

LEMMA NextUnlinked ==
    ASSUME OInv, Unlinked, CallerIds = {}, [Next]_vars
    PROVE  Unlinked'
<1>1. CASE UNCHANGED vars
  BY <1>1 DEF vars, tables, Unlinked
<1>2. CASE Reopen
  <2>1. \A v \in Workers : work'[v] = Idle
    BY <1>2 DEF Reopen
  <2>2. QED
    BY <1>2, <2>1 DEF Reopen, tables, Unlinked, Idle
<1>3. ASSUME NEW w \in Workers, NEW docs, NEW kind, AddBegin(w, docs, kind)
      PROVE  Unlinked'
  <2>1. /\ \A v \in Workers \ {w} : work'[v] = work[v]
        /\ work'[w].docs = docs /\ links' = links /\ used \subseteq used'
        /\ \A i \in DOMAIN docs : docs[i].id \notin used
    BY <1>3 DEF AddBegin, tables, OInv, Typed
  <2>2. QED
    BY <2>1 DEF Unlinked
<1>4. ASSUME NEW w \in Workers, NEW id \in Ids, DeleteBegin(w, id)
      PROVE  Unlinked'
  <2>1. /\ \A v \in Workers \ {w} : work'[v] = work[v]
        /\ "docs" \notin DOMAIN work'[w] /\ used' = used /\ links' = links
    BY <1>4 DEF DeleteBegin, tables, OInv, Typed
  <2>2. QED
    BY <2>1 DEF Unlinked
<1>5. ASSUME NEW w \in Workers,
             \/ Select(w) \/ ReadLog(w) \/ WriteLog(w) \/ ReturnDuplicates(w) \/ Classify(w)
             \/ InsertRow(w) \/ Relate(w) \/ InsertBatch(w)
             \/ DeleteLinks(w) \/ DeleteEmbedding(w) \/ DeleteRow(w) \/ DeleteLog(w)
      PROVE  Unlinked'
  <2>1. DOMAIN Idle = {"pc"} /\ work = [v \in Workers |-> work[v]]
    BY DEF Idle, OInv, Typed
  <2>2. \A v \in Workers : "docs" \in DOMAIN work'[v] =>
           "docs" \in DOMAIN work[v] /\ work'[v].docs = work[v].docs
    BY <1>5, <2>1, WorkGoesOn
  <2>3. used' = used /\ \A v \in Workers \ {w} : work'[v] = work[v]
    BY <1>5, <2>1, WorkGoesOn
  <2>4. CASE links' \subseteq links
    BY <2>2, <2>3, <2>4 DEF Unlinked
  <2>5. CASE Relate(w) \/ InsertBatch(w)
    <3>1. Adding(work[w]) /\ work'[w] = Idle
      BY <2>1, <2>5, ByPc DEF Relate, InsertBatch, Storing, Return, Fail
    <3>2. work[w].pc = "relate" => 1 \in DOMAIN work[w].docs
      BY <3>1 DEF Adding
    <3>3. \A l \in links' : l \in links \/ \E k \in DOMAIN work[w].docs : l[2] = work[w].docs[k].id
      <4>1. CASE Relate(w)
        BY <3>2, <4>1 DEF Relate
      <4>2. CASE InsertBatch(w)
        BY <3>1, <4>2 DEF InsertBatch, Adding
      <4>3. QED
        BY <2>5, <4>1, <4>2
    <3>4. \A v \in Workers : "docs" \in DOMAIN work'[v] => v # w /\ Adding(work[v]) /\ work'[v] = work[v]
      BY <2>1, <2>2, <2>3, <3>1 DEF OInv, Typed, Deleting
    <3>5. \A k \in DOMAIN work[w].docs : work[w].docs[k].id \in used
      BY <3>1 DEF OInv, UsedInv
    <3>6. \A v \in Workers \ {w} : Adding(work[v]) =>
             \A i \in DOMAIN work[v].docs, k \in DOMAIN work[w].docs : work[v].docs[i].id # work[w].docs[k].id
      BY <3>1 DEF OInv, OwnIds
    <3>7. QED
      BY <2>3, <3>3, <3>4, <3>5, <3>6 DEF Unlinked, Adding, AddFields
  <2>6. QED
    BY <1>5, <2>4, <2>5 DEF Select, ReadLog, WriteLog, ReturnDuplicates, Classify, InsertRow,
       DeleteLinks, DeleteEmbedding, DeleteRow, DeleteLog, tables
<1>6. QED
  BY <1>1, <1>2, <1>3, <1>4, <1>5 DEF Next

\* The shape of a running add, whoever chose its ids.
Call(a) ==
    /\ DOMAIN a = AddFields
    /\ a.pc \in Searching \cup Storing
    /\ \E n \in Nat : DOMAIN a.docs = 1..n
    /\ \A i \in DOMAIN a.docs : a.docs[i] \in Doc
    /\ a.queue \subseteq DOMAIN a.docs /\ a.new \subseteq DOMAIN a.docs
    /\ a.kind \in {"add", "batch"}
    /\ a.kind = "add" => DOMAIN a.docs = {1}
    /\ a.pc \in {"read log", "write log"} => a.queue # {}
    /\ a.pc = "return" => a.new = {}
    /\ a.pc \in {"classify"} \cup Storing => a.new # {}
    /\ a.pc \in {"add", "relate"} => a.kind = "add"

Shaped ==
    /\ telemetry \subseteq Row
    /\ log = [c \in Contents |-> log[c]]
    /\ work = [w \in Workers |-> work[w]]
    /\ \A w \in Workers : work[w] = Idle \/ Call(work[w]) \/ Deleting(work[w])

\* Whoever meets is in raced.
Meet ==
    \A v, w \in Workers : v # w => \A p \in AtWork(v), q \in AtWork(w) :
        p.id = q.id \/ p.content = q.content => p.content \in raced /\ q.content \in raced

RowsKnown ==
    \A w \in Workers : Deleting(work[w]) => \A r \in telemetry :
        r.id = work[w].id => r.content \in work[w].contents \cup raced

Choosing(a) == Call(a) /\ a.pc \notin {"select", "relate"}

\* What a call has found to be new still is, and what it has found to be a
\* duplicate still has its row.
NewInv ==
    \A w \in Workers : Choosing(work[w]) =>
        /\ \A j, k \in work[w].new : work[w].docs[j].content = work[w].docs[k].content => j = k
        /\ \A k \in work[w].new : \/ work[w].docs[k].content \in raced
                                  \/ \A r \in telemetry : r.content # work[w].docs[k].content
        /\ \A i \in DOMAIN work[w].docs :
              \/ work[w].docs[i].content \in raced
              \/ \E k \in work[w].new : work[w].docs[k].content = work[w].docs[i].content
              \/ \E r \in telemetry : r.content = work[w].docs[i].content

\* A content that may have timestamps: its row is there, or will be, or the
\* timestamps are about to be deleted.
Kept(c) ==
    \/ \E r \in telemetry : r.content = c
    \/ \E w \in Workers : Choosing(work[w]) /\ \E k \in work[w].new : work[w].docs[k].content = c
    \/ \E w \in Workers : Deleting(work[w]) /\ work[w].pc = "unlog" /\ c \in work[w].contents

LogInv == \A c \in Contents \ (raced \cup cut \cup failed) : log[c] > 0 => Kept(c)

LInv == Shaped /\ Meet /\ RowsKnown /\ NewInv /\ LogInv /\ StoredOnce

-----------------------------------------------------------------------------
LEMMA CallKinds ==
    /\ ~Call(Idle) /\ ~Deleting(Idle)
    /\ \A a : ~(Call(a) /\ Deleting(a))
BY DEF Call, Deleting, Idle, AddFields

LEMMA AtWorkOf ==
    ASSUME NEW w \in Workers
    PROVE  /\ work[w] = Idle => AtWork(w) = {}
           /\ Call(work[w]) => AtWork(w) = {work[w].docs[i] : i \in DOMAIN work[w].docs}
           /\ Deleting(work[w]) => AtWork(w) = {[id |-> work[w].id, content |-> c] : c \in work[w].contents}
<1>1. Call(work[w]) => work[w] # Idle /\ "docs" \in DOMAIN work[w]
  BY CallKinds DEF Call, AddFields
<1>2. Deleting(work[w]) => work[w] # Idle /\ "docs" \notin DOMAIN work[w]
  BY CallKinds DEF Deleting
<1>3. QED
  BY <1>1, <1>2 DEF AtWork

LEMMA AtWorkOfNext ==
    ASSUME NEW w \in Workers
    PROVE  /\ work'[w] = Idle => AtWork(w)' = {}
           /\ Call(work'[w]) => AtWork(w)' = {work'[w].docs[i] : i \in DOMAIN work'[w].docs}
           /\ Deleting(work'[w]) => AtWork(w)' = {[id |-> work'[w].id, content |-> c] : c \in work'[w].contents}
<1>1. Call(work'[w]) => work'[w] # Idle /\ "docs" \in DOMAIN work'[w]
  BY CallKinds DEF Call, AddFields
<1>2. Deleting(work'[w]) => work'[w] # Idle /\ "docs" \notin DOMAIN work'[w]
  BY CallKinds DEF Deleting
<1>3. QED
  BY <1>1, <1>2 DEF AtWork

LEMMA ByPcAny ==
    ASSUME Shaped, NEW w \in Workers
    PROVE  /\ work[w].pc \in Searching \cup Storing => Call(work[w])
           /\ work[w].pc \in {"unlink", "unembed", "remove", "unlog"} => Deleting(work[w])
<1>1. work[w].pc = "idle" \/ Call(work[w]) \/ Deleting(work[w])
  BY Kinds DEF Shaped
<1>2. Call(work[w]) => work[w].pc \in Searching \cup Storing
  BY DEF Call
<1>3. Deleting(work[w]) => work[w].pc \in {"unlink", "unembed", "remove", "unlog"}
  BY DEF Deleting
<1>4. QED
  BY <1>1, <1>2, <1>3 DEF Searching, Storing

LEMMA LInitInv == Init => LInv
BY Kinds, CallKinds DEF Init, LInv, Shaped, Meet, RowsKnown, NewInv, Choosing, LogInv, StoredOnce, AtWork

LEMMA LImplied == LInv => StoredOnce /\ LoggedIsStored
<1> SUFFICES ASSUME LInv, Quiet, NEW c \in Contents \ (raced \cup cut \cup failed), log[c] > 0
             PROVE  \E r \in telemetry : r.content = c
  BY DEF LInv, LoggedIsStored
<1>1. Kept(c)
  BY DEF LInv, LogInv
<1>2. \A w \in Workers : ~Call(work[w]) /\ ~Deleting(work[w])
  BY CallKinds DEF Quiet
<1>3. QED
  BY <1>1, <1>2 DEF Kept, Choosing

\* Nobody's work grows.
LEMMA MeetStep ==
    ASSUME LInv, raced \subseteq raced', \A v \in Workers : AtWork(v)' \subseteq AtWork(v)
    PROVE  Meet'
BY DEF LInv, Meet

\* A call goes on with the documents it found to be new.
LEMMA CallGoesOn ==
    ASSUME LInv, NEW w \in Workers, Choosing(work[w]),
           NEW a, work' = [work EXCEPT ![w] = a], Choosing(a),
           a.docs = work[w].docs, a.new = work[w].new,
           UNCHANGED <<telemetry, raced, cut, failed>>,
           log' = [c \in Contents |-> log'[c]],
           \A c \in Contents : log'[c] > 0 =>
              log[c] > 0 \/ \E i \in DOMAIN work[w].docs : work[w].docs[i].content = c
    PROVE  LInv'
<1>1. work'[w] = a /\ \A v \in Workers \ {w} : work'[v] = work[v]
  BY DEF LInv, Shaped
<1>2. Shaped'
  BY <1>1 DEF LInv, Shaped, Choosing
<1>3. Meet'
  <2>1. \A v \in Workers \ {w} : AtWork(v)' = AtWork(v)
    BY <1>1 DEF AtWork
  <2>2. AtWork(w)' = AtWork(w)
    <3>1. Call(work[w]) /\ Call(work'[w]) /\ work'[w].docs = work[w].docs
      BY <1>1 DEF Choosing
    <3>2. AtWork(w) = {work[w].docs[i] : i \in DOMAIN work[w].docs}
      BY <3>1, AtWorkOf
    <3>3. AtWork(w)' = {work'[w].docs[i] : i \in DOMAIN work'[w].docs}
      BY <3>1, AtWorkOfNext
    <3>4. QED
      BY <3>1, <3>2, <3>3
  <2>3. QED
    BY <2>1, <2>2, MeetStep
<1>4. \A v \in Workers : Deleting(work'[v]) => v # w /\ Deleting(work[v]) /\ work'[v] = work[v]
  BY <1>1, CallKinds DEF Choosing
<1>5. RowsKnown'
  BY <1>4 DEF LInv, RowsKnown
<1>6. NewInv'
  BY <1>1 DEF LInv, NewInv
<1>7. LogInv'
  <2> SUFFICES ASSUME NEW c \in Contents \ (raced \cup cut \cup failed), log'[c] > 0
               PROVE  Kept(c)'
    BY DEF LogInv
  <2>1. Kept(c) => Kept(c)'
    <3>1. \A v \in Workers : Choosing(work[v]) => Choosing(work'[v]) /\ work'[v].docs = work[v].docs
                                                  /\ work'[v].new = work[v].new
      BY <1>1
    <3>2. \A v \in Workers : Deleting(work[v]) => work'[v] = work[v]
      BY <1>1, CallKinds DEF Choosing
    <3>3. QED
      BY <3>1, <3>2 DEF Kept
  <2>2. CASE log[c] > 0
    BY <2>1, <2>2 DEF LInv, LogInv
  <2>3. CASE \E i \in DOMAIN work[w].docs : work[w].docs[i].content = c
    BY <2>1, <2>3 DEF LInv, NewInv, Kept
  <2>4. QED
    BY <2>2, <2>3
<1>8. StoredOnce'
  BY DEF LInv, StoredOnce
<1>9. QED
  BY <1>2, <1>3, <1>5, <1>6, <1>7, <1>8 DEF LInv

\* A call that stores rows, if any, and ends or has only its row to relate.
LEMMA CallStores ==
    ASSUME LInv, Void, NEW w \in Workers, Call(work[w]), work[w].pc # "select",
           NEW a, work' = [work EXCEPT ![w] = a],
           a = Idle \/ (Call(a) /\ a.pc = "relate" /\ a.docs = work[w].docs),
           NEW placed \in SUBSET work[w].new,
           telemetry' = telemetry \cup {NewRow(work[w].docs[k], work[w].verdict[k]) : k \in placed},
           placed = {} \/ work[w].pc # "relate",
           UNCHANGED <<log, raced, cut>>, failed \subseteq failed',
           \A k \in work[w].new : work[w].pc = "relate" \/ k \in placed \/ work[w].docs[k].content \in failed'
    PROVE  LInv'
<1> DEFINE docs == work[w].docs
           Placed(k) == NewRow(docs[k], work[w].verdict[k])
<1>1. work'[w] = a /\ \A v \in Workers \ {w} : work'[v] = work[v]
  BY DEF LInv, Shaped
<1>2. \A k \in work[w].new : k \in DOMAIN docs /\ docs[k] \in Doc
  BY DEF Call
<1>3. \A k \in placed : Placed(k) \in Row /\ Placed(k).id = docs[k].id /\ Placed(k).content = docs[k].content
  BY <1>2, NewRowTyped
<1>4. telemetry' = telemetry \cup {Placed(k) : k \in placed}
  OBVIOUS
<1> HIDE DEF Placed
<1>5. Shaped'
  BY <1>1, <1>3, <1>4 DEF LInv, Shaped
<1>6. Meet'
  <2>1. \A v \in Workers \ {w} : AtWork(v)' = AtWork(v)
    BY <1>1 DEF AtWork
  <2>2. AtWork(w)' \subseteq AtWork(w)
    BY <1>1, AtWorkOf, AtWorkOfNext
  <2>3. QED
    BY <2>1, <2>2, MeetStep
<1>7. \A v \in Workers : Deleting(work'[v]) => v # w /\ Deleting(work[v]) /\ work'[v] = work[v]
  BY <1>1, CallKinds
<1>8. \A v \in Workers : Choosing(work'[v]) => v # w /\ Choosing(work[v]) /\ work'[v] = work[v]
  BY <1>1, CallKinds DEF Choosing
<1>9. \A k \in placed : docs[k] \in AtWork(w)
  BY <1>2, AtWorkOf
<1>10. RowsKnown'
  <2> SUFFICES ASSUME NEW v \in Workers, v # w, Deleting(work[v]), NEW r \in telemetry', r.id = work[v].id
               PROVE  r.content \in work[v].contents \cup raced
    BY <1>7 DEF RowsKnown
  <2>1. CASE r \in telemetry
    BY <2>1 DEF LInv, RowsKnown
  <2>2. CASE r \notin telemetry
    <3>1. PICK k \in placed : r = Placed(k)
      BY <1>4, <2>2
    <3>2. PICK c \in work[v].contents : TRUE
      <4>1. {"id", "contents"} \subseteq DOMAIN work[v] /\ "docs" \in DOMAIN work[w]
        BY DEF Deleting, Call, AddFields
      <4>2. work[v].contents # {}
        BY <1>2, <1>3, <3>1, <4>1 DEF Void
      <4>3. QED
        BY <4>2
    <3>3. [id |-> work[v].id, content |-> c] \in AtWork(v)
      BY <3>2, AtWorkOf
    <3>4. docs[k].content \in raced
      BY <1>3, <1>9, <3>1, <3>3 DEF LInv, Meet
    <3>5. QED
      BY <1>3, <3>1, <3>4
  <2>3. QED
    BY <2>1, <2>2
<1>11. \A v \in Workers \ {w} : Call(work[v]) => \A i \in DOMAIN work[v].docs, k \in placed :
          work[v].docs[i].content = docs[k].content => docs[k].content \in raced
  <2> SUFFICES ASSUME NEW v \in Workers \ {w}, Call(work[v]), NEW i \in DOMAIN work[v].docs,
                      NEW k \in placed, work[v].docs[i].content = docs[k].content
               PROVE  docs[k].content \in raced
    OBVIOUS
  <2>1. work[v].docs[i] \in AtWork(v)
    BY AtWorkOf
  <2>2. QED
    BY <1>9, <2>1 DEF LInv, Meet
<1>12. NewInv'
  <2> SUFFICES ASSUME NEW v \in Workers \ {w}, Choosing(work[v]),
                      NEW k \in work[v].new, work[v].docs[k].content \notin raced,
                      NEW r \in telemetry'
               PROVE  r.content # work[v].docs[k].content
    BY <1>4, <1>8 DEF LInv, NewInv
  <2>1. CASE r \in telemetry
    BY <2>1 DEF LInv, NewInv
  <2>2. CASE r \notin telemetry
    <3>1. k \in DOMAIN work[v].docs /\ Call(work[v])
      BY DEF Choosing, Call
    <3>2. QED
      BY <1>3, <1>4, <1>11, <2>2, <3>1
  <2>3. QED
    BY <2>1, <2>2
<1>13. LogInv'
  <2> SUFFICES ASSUME NEW c \in Contents \ (raced \cup cut \cup failed'), log[c] > 0
               PROVE  Kept(c)'
    BY DEF LogInv
  <2>1. Kept(c)
    BY DEF LInv, LogInv
  <2>2. CASE \E r \in telemetry : r.content = c
    BY <1>4, <2>2 DEF Kept
  <2>3. ASSUME NEW v \in Workers, Choosing(work[v]), NEW k \in work[v].new, work[v].docs[k].content = c
        PROVE  Kept(c)'
    <3>1. CASE v = w
      <4>1. k \in placed
        BY <2>3, <3>1 DEF Choosing
      <4>2. Placed(k) \in telemetry' /\ Placed(k).content = c
        BY <1>3, <1>4, <2>3, <3>1, <4>1
      <4>3. QED
        BY <4>2 DEF Kept
    <3>2. CASE v # w
      BY <1>1, <2>3, <3>2 DEF Kept
    <3>3. QED
      BY <3>1, <3>2
  <2>4. ASSUME NEW v \in Workers, Deleting(work[v]), work[v].pc = "unlog", c \in work[v].contents
        PROVE  Kept(c)'
    <3>1. work'[v] = work[v]
      BY <1>1, <2>4, CallKinds
    <3>2. QED
      BY <2>4, <3>1 DEF Kept
  <2>5. QED
    BY <2>1, <2>2, <2>3, <2>4 DEF Kept
<1>14. StoredOnce'
  <2>1. placed # {} => Choosing(work[w])
    BY DEF Choosing
  <2>2. ASSUME NEW k \in placed, NEW r \in telemetry, r.content = docs[k].content
        PROVE  r.content \in raced
    BY <2>1, <2>2 DEF LInv, NewInv
  <2>3. ASSUME NEW j \in placed, NEW k \in placed, docs[j].content = docs[k].content
        PROVE  j = k
    BY <2>1, <2>3 DEF LInv, NewInv
  <2> SUFFICES ASSUME NEW r \in telemetry', NEW s \in telemetry', r.content = s.content
               PROVE  r = s \/ r.content \in raced
    BY DEF StoredOnce
  <2>4. CASE r \in telemetry /\ s \in telemetry
    BY <2>4 DEF LInv, StoredOnce
  <2>5. CASE r \in telemetry /\ s \notin telemetry
    BY <1>3, <1>4, <2>2, <2>5
  <2>6. CASE r \notin telemetry /\ s \in telemetry
    BY <1>3, <1>4, <2>2, <2>6
  <2>7. CASE r \notin telemetry /\ s \notin telemetry
    BY <1>3, <1>4, <2>3, <2>7
  <2>8. QED
    BY <2>4, <2>5, <2>6, <2>7
<1>15. QED
  BY <1>5, <1>6, <1>10, <1>12, <1>13, <1>14 DEF LInv

-----------------------------------------------------------------------------
LEMMA RacesMeet ==
    ASSUME NEW docs, NEW p \in docs, NEW v \in Workers, NEW q \in AtWork(v),
           p.id = q.id \/ p.content = q.content
    PROVE  p.content \in Races(docs) /\ q.content \in Races(docs)
<1> DEFINE met == {x \in docs \X UNION {AtWork(u) : u \in Workers} :
                      x[1].id = x[2].id \/ x[1].content = x[2].content}
<1>1. <<p, q>> \in met
  OBVIOUS
<1>2. Races(docs) = {x[1].content : x \in met} \cup {x[2].content : x \in met}
  BY DEF Races
<1> HIDE DEF met
<1>3. <<p, q>>[1] = p /\ <<p, q>>[2] = q
  OBVIOUS
<1>4. QED
  BY <1>1, <1>2, <1>3

\* A call begins.
LEMMA BeginsMeet ==
    ASSUME LInv, NEW w \in Workers, work[w] = Idle, NEW docs, AtWork(w)' = docs,
           \A v \in Workers \ {w} : work'[v] = work[v],
           raced' = raced \cup Races(docs)
    PROVE  Meet'
<1>1. \A v \in Workers \ {w} : AtWork(v)' = AtWork(v)
  BY DEF AtWork
<1>2. ASSUME NEW v \in Workers \ {w}, NEW p \in docs, NEW q \in AtWork(v),
             p.id = q.id \/ p.content = q.content
      PROVE  p.content \in raced' /\ q.content \in raced'
  BY <1>2, RacesMeet
<1>3. \A u, v \in Workers \ {w} : u # v => \A p \in AtWork(u), q \in AtWork(v) :
         p.id = q.id \/ p.content = q.content => p.content \in raced' /\ q.content \in raced'
  BY DEF LInv, Meet
<1>4. QED
  BY <1>1, <1>2, <1>3 DEF Meet

\* Nothing but raced changes for the calls at work.
LEMMA OthersKeep ==
    ASSUME LInv, NEW w \in Workers, ~Choosing(work[w]), ~Choosing(work'[w]),
           ~Deleting(work[w]) \/ work[w].pc # "unlog",
           \A v \in Workers \ {w} : work'[v] = work[v],
           UNCHANGED <<telemetry, log, cut>>, raced \subseteq raced', failed \subseteq failed'
    PROVE  NewInv' /\ LogInv' /\ StoredOnce'
<1>1. \A v \in Workers : Choosing(work'[v]) => v # w /\ Choosing(work[v]) /\ work'[v] = work[v]
  OBVIOUS
<1>2. NewInv'
  BY <1>1 DEF LInv, NewInv
<1>3. \A v \in Workers : Choosing(work[v]) => work'[v] = work[v]
  OBVIOUS
<1>4. \A v \in Workers : Deleting(work[v]) /\ work[v].pc = "unlog" => work'[v] = work[v]
  OBVIOUS
<1>5. LogInv'
  BY <1>3, <1>4 DEF LInv, LogInv, Kept
<1>6. StoredOnce'
  BY DEF LInv, StoredOnce
<1>7. QED
  BY <1>2, <1>5, <1>6

LEMMA LAddBegin ==
    ASSUME LInv, NEW w \in Workers, NEW docs, NEW kind \in {"add", "batch"},
           \E n \in Nat : DOMAIN docs = 1..n, \A i \in DOMAIN docs : docs[i] \in Doc,
           kind = "add" => DOMAIN docs = {1},
           AddBegin(w, docs, kind)
    PROVE  LInv'
<1> DEFINE a == [pc |-> "select", kind |-> kind, docs |-> docs, queue |-> {},
                 new |-> {}, seen |-> 0, verdict |-> <<>>]
<1>1. /\ work' = [work EXCEPT ![w] = a] /\ work[w] = Idle
      /\ raced' = raced \cup Races({docs[i] : i \in DOMAIN docs})
      /\ UNCHANGED <<telemetry, log, cut, failed>>
  BY DEF AddBegin, tables
<1>2. a.pc = "select" /\ a.docs = docs /\ Call(a) /\ ~Choosing(a)
  BY DEF Call, Choosing, AddFields, Searching, Storing
<1> HIDE DEF a
<1>3. work'[w] = a /\ \A v \in Workers \ {w} : work'[v] = work[v]
  BY <1>1 DEF LInv, Shaped
<1>4. Shaped'
  BY <1>1, <1>2, <1>3 DEF LInv, Shaped
<1>5. AtWork(w)' = {docs[i] : i \in DOMAIN docs}
  BY <1>2, <1>3, AtWorkOfNext
<1>6. Meet'
  BY <1>1, <1>3, <1>5, BeginsMeet
<1>7. RowsKnown'
  <2>1. \A v \in Workers : Deleting(work'[v]) => Deleting(work[v]) /\ work'[v] = work[v]
    BY <1>2, <1>3, CallKinds
  <2>2. QED
    BY <1>1, <2>1 DEF LInv, RowsKnown
<1>8. NewInv' /\ LogInv' /\ StoredOnce'
  BY <1>1, <1>2, <1>3, CallKinds, OthersKeep DEF Choosing
<1>9. QED
  BY <1>4, <1>6, <1>7, <1>8 DEF LInv

LEMMA LSelect == ASSUME LInv, NEW w \in Workers, Select(w) PROVE LInv'
<1>1. Call(work[w]) /\ work[w].pc = "select"
  BY ByPcAny DEF LInv, Select, Searching
<1> DEFINE docs == work[w].docs
           new == NewAt(docs)
           dups == DOMAIN docs \ new
           a == [[[work[w] EXCEPT !.pc = AfterLog(dups, new)] EXCEPT !.queue = dups] EXCEPT !.new = new]
<1>2. work' = [work EXCEPT ![w] = a] /\ UNCHANGED <<telemetry, log, raced, cut, failed>>
  BY DEF Select, tables, history
<1>3. /\ new \subseteq DOMAIN docs
      /\ \A k \in new : \A r \in telemetry : r.content # docs[k].content
  BY DEF NewAt
<1>4. DOMAIN docs \subseteq Nat \ {0} /\ (\A k \in DOMAIN docs : 1..(k - 1) \subseteq DOMAIN docs) /\ (\A i \in DOMAIN docs : docs[i] \in Doc)
  BY <1>1 DEF Call
<1>5. \A j, k \in new : docs[j].content = docs[k].content => j = k
  <2> SUFFICES ASSUME NEW j \in new, NEW k \in new, j < k, docs[j].content = docs[k].content
               PROVE  FALSE
    BY <1>3, <1>4
  <2>1. j \in 1..(k - 1)
    BY <1>3, <1>4
  <2>2. QED
    BY <2>1 DEF NewAt
<1>6. ASSUME NEW i \in DOMAIN docs, \A r \in telemetry : r.content # docs[i].content
      PROVE  \E k \in new : docs[k].content = docs[i].content
  <2> DEFINE same == {j \in DOMAIN docs : docs[j].content = docs[i].content}
  <2>1. same \subseteq Nat /\ i \in same
    BY <1>4
  <2>2. \A j : j \in same <=> j \in DOMAIN docs /\ docs[j].content = docs[i].content
    OBVIOUS
  <2> HIDE DEF same
  <2>3. PICK k \in same : \A j \in same : k <= j
    BY <2>1, Least
  <2>4. k \in DOMAIN docs /\ docs[k].content = docs[i].content
    BY <2>2
  <2> HIDE DEF docs
  <2>5. \A j \in 1..(k - 1) : docs[j].content # docs[k].content
    <3> SUFFICES ASSUME NEW j \in 1..(k - 1), docs[j].content = docs[k].content PROVE FALSE
      OBVIOUS
    <3>1. j \notin same
      BY <2>1, <2>3
    <3>2. j \in DOMAIN docs
      BY <1>4, <2>4
    <3>3. QED
      BY <2>2, <2>4, <3>1, <3>2
  <2>6. QED
    BY <1>6, <2>4, <2>5 DEF NewAt
<1> HIDE DEF new, dups
<1>7. /\ AfterLog(dups, new) \in Searching \ {"select"}
      /\ AfterLog(dups, new) = "read log" => dups # {}
      /\ AfterLog(dups, new) = "return" => new = {}
      /\ AfterLog(dups, new) = "classify" => new # {}
      /\ AfterLog(dups, new) \in {"read log", "classify", "return"}
  BY DEF AfterLog, Searching
<1>8. a.pc = AfterLog(dups, new) /\ a.docs = docs /\ a.new = new /\ a.queue = dups
      /\ a.kind = work[w].kind /\ DOMAIN a = DOMAIN work[w]
  BY <1>1 DEF Call, AddFields
<1> HIDE DEF a
<1>9. Call(a) /\ Choosing(a)
  BY <1>1, <1>3, <1>7, <1>8 DEF Call, Choosing, Storing, dups
<1>10. work'[w] = a /\ \A v \in Workers \ {w} : work'[v] = work[v]
  BY <1>2 DEF LInv, Shaped
<1>11. Shaped'
  BY <1>2, <1>9, <1>10 DEF LInv, Shaped
<1>12. Meet'
  <2>1. \A v \in Workers \ {w} : AtWork(v)' = AtWork(v)
    BY <1>10 DEF AtWork
  <2>2. AtWork(w) = {work[w].docs[i] : i \in DOMAIN work[w].docs}
    BY <1>1, AtWorkOf
  <2>3. AtWork(w)' = {work'[w].docs[i] : i \in DOMAIN work'[w].docs}
    BY <1>9, <1>10, AtWorkOfNext
  <2>4. AtWork(w)' = AtWork(w)
    BY <1>8, <1>10, <2>2, <2>3
  <2>5. QED
    BY <1>2, <2>1, <2>4, MeetStep
<1>13. RowsKnown'
  <2>1. \A v \in Workers : Deleting(work'[v]) => Deleting(work[v]) /\ work'[v] = work[v]
    BY <1>9, <1>10, CallKinds
  <2>2. QED
    BY <1>2, <2>1 DEF LInv, RowsKnown
<1>14. NewInv'
  <2>1. \A v \in Workers \ {w} : Choosing(work'[v]) => Choosing(work[v]) /\ work'[v] = work[v]
    BY <1>10
  <2>2. QED
    BY <1>2, <1>3, <1>5, <1>6, <1>8, <1>10, <2>1 DEF LInv, NewInv
<1>15. LogInv'
  <2>1. \A v \in Workers : Choosing(work[v]) => work'[v] = work[v]
    BY <1>1, <1>10 DEF Choosing
  <2>2. \A v \in Workers : Deleting(work[v]) => work'[v] = work[v]
    BY <1>1, <1>10, CallKinds
  <2>3. QED
    BY <1>2, <2>1, <2>2 DEF LInv, LogInv, Kept
<1>16. StoredOnce'
  BY <1>2 DEF LInv, StoredOnce
<1>17. QED
  BY <1>11, <1>12, <1>13, <1>14, <1>15, <1>16 DEF LInv

LEMMA LReadLog == ASSUME LInv, NEW w \in Workers, ReadLog(w) PROVE LInv'
<1>1. Choosing(work[w]) /\ Call(work[w]) /\ work[w].pc = "read log"
  BY ByPcAny DEF LInv, ReadLog, Searching, Choosing
<1> DEFINE a == [[work[w] EXCEPT !.pc = "write log"]
                  EXCEPT !.seen = log[work[w].docs[NextDuplicate(w)].content]]
<1>2. work' = [work EXCEPT ![w] = a] /\ UNCHANGED <<telemetry, log, raced, cut, failed>>
  BY DEF ReadLog, tables, history
<1>3. a.pc = "write log" /\ a.docs = work[w].docs /\ a.new = work[w].new /\ a.kind = work[w].kind
      /\ a.queue = work[w].queue /\ DOMAIN a = DOMAIN work[w]
  BY <1>1 DEF Call, AddFields
<1> HIDE DEF a
<1>4. Choosing(a)
  BY <1>1, <1>3 DEF Call, Choosing, Storing, Searching
<1>5. log' = [c \in Contents |-> log'[c]]
  BY <1>2 DEF LInv, Shaped
<1>6. QED
  BY <1>1, <1>2, <1>3, <1>4, <1>5, CallGoesOn

LEMMA LWriteLog == ASSUME LInv, Void, NEW w \in Workers, WriteLog(w) PROVE LInv'
<1>1. Choosing(work[w]) /\ Call(work[w]) /\ work[w].pc = "write log"
  BY ByPcAny DEF LInv, WriteLog, Searching, Choosing
<1>2. UNCHANGED telemetry
  BY DEF WriteLog
<1> DEFINE c == work[w].docs[NextDuplicate(w)].content
           rest == work[w].queue \ {NextDuplicate(w)}
<1>3. CASE Fail(w) /\ UNCHANGED log
  <2> DEFINE placed == {k \in work[w].new : FALSE}
  <2>1. /\ work' = [work EXCEPT ![w] = Idle] /\ UNCHANGED <<raced, cut>>
        /\ failed' = failed \cup {d.content : d \in AtWork(w)}
    BY <1>3 DEF Fail, Return
  <2>2. \A k \in work[w].new : work[w].docs[k].content \in failed'
    BY <1>1, <2>1, AtWorkOf DEF Call
  <2>3. telemetry' = telemetry \cup {NewRow(work[w].docs[k], work[w].verdict[k]) : k \in placed}
    BY <1>2
  <2>4. placed \in SUBSET work[w].new /\ placed = {} /\ failed \subseteq failed'
    BY <2>1
  <2> HIDE DEF placed
  <2>5. QED
    BY <1>1, <1>3, <2>1, <2>2, <2>3, <2>4, CallStores
<1>4. CASE /\ log' = [log EXCEPT ![c] = IF work[w].seen > 0 /\ @ = 0 THEN 0
                                        ELSE IF work[w].seen < MaxLog THEN work[w].seen + 1 ELSE MaxLog]
           /\ work' = [work EXCEPT ![w].pc = AfterLog(rest, work[w].new), ![w].queue = rest]
           /\ UNCHANGED history
  <2> DEFINE a == [[work[w] EXCEPT !.pc = AfterLog(rest, work[w].new)] EXCEPT !.queue = rest]
  <2>1. work' = [work EXCEPT ![w] = a] /\ UNCHANGED <<raced, cut, failed>>
    BY <1>4 DEF history
  <2>2. NextDuplicate(w) \in work[w].queue
    <3> PICK n \in Nat : DOMAIN work[w].docs = 1..n
      BY <1>1 DEF Call
    <3>0. work[w].queue # {} /\ work[w].queue \subseteq DOMAIN work[w].docs
      BY <1>1 DEF Call
    <3>1. work[w].queue # {} /\ work[w].queue \subseteq Nat
      BY <3>0
    <3>2. \E i \in work[w].queue : \A j \in work[w].queue : i <= j
      BY <3>1, Least
    <3>3. QED
      BY <3>2 DEF NextDuplicate
  <2>3. /\ AfterLog(rest, work[w].new) \in Searching \ {"select"}
        /\ AfterLog(rest, work[w].new) = "read log" => rest # {}
        /\ AfterLog(rest, work[w].new) = "return" => work[w].new = {}
        /\ AfterLog(rest, work[w].new) = "classify" => work[w].new # {}
        /\ AfterLog(rest, work[w].new) \in {"read log", "classify", "return"}
    BY DEF AfterLog, Searching
  <2>4. rest \subseteq work[w].queue
    OBVIOUS
  <2> HIDE DEF rest
  <2>5. a.pc = AfterLog(rest, work[w].new) /\ a.docs = work[w].docs /\ a.new = work[w].new
        /\ a.queue = rest /\ a.kind = work[w].kind /\ DOMAIN a = DOMAIN work[w]
    BY <1>1 DEF Call, AddFields
  <2> HIDE DEF a
  <2>6. Choosing(a)
    BY <1>1, <2>3, <2>4, <2>5 DEF Call, Choosing, Storing
  <2>7. /\ log' = [x \in Contents |-> log'[x]]
        /\ \A x \in Contents : log'[x] > 0 => log[x] > 0 \/ x = c
    <3> HIDE DEF c
    <3>1. \A x \in Contents : x # c => log'[x] = log[x]
      BY <1>4 DEF LInv, Shaped
    <3>2. QED
      BY <1>4, <3>1 DEF LInv, Shaped
  <2>8. \E i \in DOMAIN work[w].docs : work[w].docs[i].content = c
    BY <1>1, <2>2 DEF Call
  <2> HIDE DEF c
  <2>9. QED
    BY <1>1, <1>2, <2>1, <2>5, <2>6, <2>7, <2>8, CallGoesOn
<1>5. QED
  BY <1>3, <1>4 DEF WriteLog

LEMMA LReturn == ASSUME LInv, Void, NEW w \in Workers, ReturnDuplicates(w) PROVE LInv'
<1>1. Call(work[w]) /\ work[w].pc = "return" /\ work[w].new = {}
  BY ByPcAny DEF LInv, ReturnDuplicates, Searching, Call
<1>2. work' = [work EXCEPT ![w] = Idle] /\ UNCHANGED <<telemetry, log, raced, cut, failed>>
  BY DEF ReturnDuplicates, Return, tables, history
<1> DEFINE placed == {k \in work[w].new : FALSE}
<1>3. placed \in SUBSET work[w].new /\ placed = {} /\ failed \subseteq failed'
      /\ telemetry' = telemetry \cup {NewRow(work[w].docs[k], work[w].verdict[k]) : k \in placed}
  BY <1>2
<1> HIDE DEF placed
<1>4. QED
  BY <1>1, <1>2, <1>3, CallStores

LEMMA LClassify == ASSUME LInv, NEW w \in Workers, Classify(w) PROVE LInv'
<1>1. Choosing(work[w]) /\ Call(work[w]) /\ work[w].pc = "classify"
  BY ByPcAny DEF LInv, Classify, Searching, Choosing
<1>2. PICK v \in Verdicts(work[w].docs, work[w].new, Entries) :
         work' = [work EXCEPT ![w].pc = work[w].kind, ![w].verdict = v]
  BY DEF Classify
<1>3. UNCHANGED <<telemetry, log, raced, cut, failed>>
  BY DEF Classify, tables, history
<1> DEFINE a == [[work[w] EXCEPT !.pc = work[w].kind] EXCEPT !.verdict = v]
<1>4. work' = [work EXCEPT ![w] = a]
  BY <1>2
<1>5. a.pc = work[w].kind /\ a.docs = work[w].docs /\ a.new = work[w].new /\ a.kind = work[w].kind
      /\ a.queue = work[w].queue /\ DOMAIN a = DOMAIN work[w]
  BY <1>1 DEF Call, AddFields
<1> HIDE DEF a
<1>6. Choosing(a)
  BY <1>1, <1>5 DEF Call, Choosing, Storing
<1>7. log' = [c \in Contents |-> log'[c]]
  BY <1>3 DEF LInv, Shaped
<1>8. QED
  BY <1>1, <1>3, <1>4, <1>5, <1>6, <1>7, CallGoesOn

LEMMA LInsertRow == ASSUME LInv, Void, NEW w \in Workers, InsertRow(w) PROVE LInv'
<1>1. Call(work[w]) /\ work[w].pc = "add"
  BY ByPcAny DEF LInv, InsertRow, Storing
<1>2. UNCHANGED <<log, raced, cut>>
  BY DEF InsertRow, Fail, history
<1>3. DOMAIN work[w].docs = {1} /\ work[w].new = {1}
  BY <1>1 DEF Call, Storing
<1>4. CASE Fail(w) /\ telemetry' = telemetry
  <2> DEFINE placed == {k \in work[w].new : FALSE}
  <2>1. work' = [work EXCEPT ![w] = Idle] /\ failed' = failed \cup {d.content : d \in AtWork(w)}
    BY <1>4 DEF Fail, Return
  <2>2. \A k \in work[w].new : work[w].docs[k].content \in failed'
    BY <1>1, <1>3, <2>1, AtWorkOf
  <2>3. telemetry' = telemetry \cup {NewRow(work[w].docs[k], work[w].verdict[k]) : k \in placed}
    BY <1>4
  <2>4. placed \in SUBSET work[w].new /\ placed = {} /\ failed \subseteq failed'
    BY <2>1
  <2> HIDE DEF placed
  <2>5. QED
    BY <1>1, <1>2, <2>1, <2>2, <2>3, <2>4, CallStores
<1>5. CASE /\ telemetry' = telemetry \cup {NewRow(work[w].docs[1], work[w].verdict[1])}
           /\ work' = [work EXCEPT ![w].pc = "relate"] /\ UNCHANGED failed
  <2> DEFINE a == [work[w] EXCEPT !.pc = "relate"]
  <2>1. work' = [work EXCEPT ![w] = a]
    BY <1>5
  <2>2. a.pc = "relate" /\ a.docs = work[w].docs /\ a.new = work[w].new /\ a.kind = work[w].kind
        /\ a.queue = work[w].queue /\ DOMAIN a = DOMAIN work[w]
    BY <1>1 DEF Call, AddFields
  <2> HIDE DEF a
  <2>3. Call(a)
    BY <1>1, <2>2 DEF Call, Storing
  <2>4. telemetry' = telemetry \cup {NewRow(work[w].docs[k], work[w].verdict[k]) : k \in work[w].new}
    BY <1>3, <1>5
  <2>5. work[w].new \in SUBSET work[w].new /\ failed \subseteq failed'
    BY <1>5
  <2>6. QED
    BY <1>1, <1>2, <2>1, <2>2, <2>3, <2>4, <2>5, CallStores
<1>6. QED
  BY <1>4, <1>5 DEF InsertRow, history

LEMMA LRelate == ASSUME LInv, Void, NEW w \in Workers, Relate(w) PROVE LInv'
<1>1. Call(work[w]) /\ work[w].pc = "relate"
  BY ByPcAny DEF LInv, Relate, Storing
<1>2. /\ work' = [work EXCEPT ![w] = Idle] /\ failed \subseteq failed'
      /\ UNCHANGED <<telemetry, log, raced, cut>>
  BY DEF Relate, Fail, Return, history
<1> DEFINE placed == {k \in work[w].new : FALSE}
<1>3. placed \in SUBSET work[w].new /\ placed = {} /\ failed \subseteq failed'
      /\ telemetry' = telemetry \cup {NewRow(work[w].docs[k], work[w].verdict[k]) : k \in placed}
  BY <1>2
<1> HIDE DEF placed
<1>4. QED
  BY <1>1, <1>2, <1>3, CallStores

LEMMA LInsertBatch == ASSUME LInv, Void, NEW w \in Workers, InsertBatch(w) PROVE LInv'
<1>1. Call(work[w]) /\ work[w].pc = "batch"
  BY ByPcAny DEF LInv, InsertBatch, Storing
<1>2. UNCHANGED <<log, raced, cut>>
  BY DEF InsertBatch, Fail, history
<1>3. CASE Fail(w) /\ telemetry' = telemetry
  <2> DEFINE placed == {k \in work[w].new : FALSE}
  <2>1. work' = [work EXCEPT ![w] = Idle] /\ failed' = failed \cup {d.content : d \in AtWork(w)}
    BY <1>3 DEF Fail, Return
  <2>2. \A k \in work[w].new : work[w].docs[k].content \in failed'
    BY <1>1, <2>1, AtWorkOf DEF Call
  <2>3. telemetry' = telemetry \cup {NewRow(work[w].docs[k], work[w].verdict[k]) : k \in placed}
    BY <1>3
  <2>4. placed \in SUBSET work[w].new /\ placed = {} /\ failed \subseteq failed'
    BY <2>1
  <2> HIDE DEF placed
  <2>5. QED
    BY <1>1, <1>2, <2>1, <2>2, <2>3, <2>4, CallStores
<1>4. CASE /\ telemetry' = telemetry \cup {NewRow(work[w].docs[k], work[w].verdict[k]) : k \in work[w].new}
           /\ Return(w) /\ UNCHANGED failed
  <2>1. work' = [work EXCEPT ![w] = Idle] /\ work[w].new \in SUBSET work[w].new /\ failed \subseteq failed'
    BY <1>4 DEF Return
  <2>2. QED
    BY <1>1, <1>2, <1>4, <2>1, CallStores
<1>5. QED
  BY <1>3, <1>4 DEF InsertBatch, history

LEMMA LDeleteBegin == ASSUME LInv, NEW w \in Workers, NEW id \in Ids, DeleteBegin(w, id) PROVE LInv'
<1> DEFINE contents == {r.content : r \in {q \in telemetry : q.id = id}}
           a == [pc |-> "unlink", id |-> id, contents |-> contents]
<1>1. /\ work' = [work EXCEPT ![w] = a] /\ work[w] = Idle
      /\ raced' = raced \cup Races({[id |-> id, content |-> c] : c \in contents})
      /\ UNCHANGED <<telemetry, log, cut, failed>>
  BY DEF DeleteBegin, tables
<1>3. a.pc = "unlink" /\ a.id = id /\ a.contents = contents /\ Deleting(a)
  BY DEF Deleting
<1>4. \A r \in telemetry : r.id = id => r.content \in contents
  OBVIOUS
<1> HIDE DEF a, contents
<1>5. work'[w] = a /\ \A v \in Workers \ {w} : work'[v] = work[v]
  BY <1>1 DEF LInv, Shaped
<1>6. Shaped'
  BY <1>1, <1>3, <1>5 DEF LInv, Shaped
<1>7. AtWork(w)' = {[id |-> id, content |-> c] : c \in contents}
  <2>1. AtWork(w)' = {[id |-> work'[w].id, content |-> c] : c \in work'[w].contents}
    BY <1>3, <1>5, AtWorkOfNext
  <2>2. QED
    BY <1>3, <1>5, <2>1
<1>8. Meet'
  BY <1>1, <1>5, <1>7, BeginsMeet
<1>9. RowsKnown'
  BY <1>1, <1>3, <1>4, <1>5 DEF LInv, RowsKnown
<1>10. NewInv' /\ LogInv' /\ StoredOnce'
  <2>1. ~Choosing(work[w]) /\ ~Deleting(work[w]) /\ ~Choosing(work'[w])
    BY <1>1, <1>3, <1>5, CallKinds DEF Choosing
  <2>2. QED
    BY <1>1, <1>5, <2>1, OthersKeep
<1>11. QED
  BY <1>6, <1>8, <1>9, <1>10 DEF LInv

\* A deletion goes on, and may remove its rows.
LEMMA DeletionGoesOn ==
    ASSUME LInv, NEW w \in Workers, Deleting(work[w]), work[w].pc # "unlog",
           NEW a, work' = [work EXCEPT ![w] = a],
           Deleting(a), a.id = work[w].id, a.contents = work[w].contents,
           telemetry' \subseteq telemetry,
           \A r \in telemetry \ telemetry' : r.id = work[w].id /\ a.pc = "unlog",
           UNCHANGED <<log, raced, cut, failed>>
    PROVE  LInv'
<1>1. work'[w] = a /\ \A v \in Workers \ {w} : work'[v] = work[v]
  BY DEF LInv, Shaped
<1>2. Shaped'
  BY <1>1 DEF LInv, Shaped
<1>3. AtWork(w) = {[id |-> work[w].id, content |-> c] : c \in work[w].contents}
  BY AtWorkOf
<1>4. Meet'
  <2>1. \A v \in Workers \ {w} : AtWork(v)' = AtWork(v)
    BY <1>1 DEF AtWork
  <2>2. AtWork(w)' = {[id |-> work'[w].id, content |-> c] : c \in work'[w].contents}
    BY <1>1, AtWorkOfNext
  <2>3. AtWork(w)' = AtWork(w)
    BY <1>1, <1>3, <2>2
  <2>4. QED
    BY <2>1, <2>3, MeetStep
<1>5. RowsKnown'
  <2>1. \A v \in Workers : Deleting(work'[v]) => Deleting(work[v]) /\ work'[v].id = work[v].id
                                                /\ work'[v].contents = work[v].contents
    BY <1>1
  <2>2. QED
    BY <2>1 DEF LInv, RowsKnown
<1>6. \A v \in Workers : Choosing(work'[v]) => v # w /\ Choosing(work[v]) /\ work'[v] = work[v]
  BY <1>1, CallKinds DEF Choosing
<1>7. NewInv'
  <2> SUFFICES ASSUME NEW v \in Workers \ {w}, Choosing(work[v]), NEW i \in DOMAIN work[v].docs,
                      NEW r \in telemetry \ telemetry', r.content = work[v].docs[i].content
               PROVE  r.content \in raced
    BY <1>6 DEF LInv, NewInv
  <2>1. CASE r.content \in work[w].contents
    <3>1. [id |-> work[w].id, content |-> r.content] \in AtWork(w) /\ work[v].docs[i] \in AtWork(v)
      BY <1>3, <2>1, AtWorkOf DEF Choosing
    <3>2. QED
      BY <3>1 DEF LInv, Meet
  <2>2. QED
    BY <2>1 DEF LInv, RowsKnown
<1>8. LogInv'
  <2> SUFFICES ASSUME NEW c \in Contents \ (raced \cup cut \cup failed), log[c] > 0
               PROVE  Kept(c)'
    BY DEF LogInv
  <2>1. Kept(c)
    BY DEF LInv, LogInv
  <2>2. ASSUME NEW r \in telemetry, r.content = c
        PROVE  Kept(c)'
    <3>1. CASE r \in telemetry'
      BY <2>2, <3>1 DEF Kept
    <3>2. CASE r \notin telemetry'
      <4>1. c \in work[w].contents /\ a.pc = "unlog"
        BY <2>2, <3>2 DEF LInv, RowsKnown
      <4>2. QED
        BY <1>1, <4>1 DEF Kept
    <3>3. QED
      BY <3>1, <3>2
  <2>3. ASSUME NEW v \in Workers, Choosing(work[v]), NEW k \in work[v].new, work[v].docs[k].content = c
        PROVE  Kept(c)'
    <3>1. work'[v] = work[v]
      BY <1>1, <2>3, CallKinds DEF Choosing
    <3>2. QED
      BY <2>3, <3>1 DEF Kept
  <2>4. ASSUME NEW v \in Workers, Deleting(work[v]), work[v].pc = "unlog", c \in work[v].contents
        PROVE  Kept(c)'
    <3>1. work'[v] = work[v]
      BY <1>1, <2>4
    <3>2. QED
      BY <2>4, <3>1 DEF Kept
  <2>5. QED
    BY <2>1, <2>2, <2>3, <2>4 DEF Kept
<1>9. StoredOnce'
  BY DEF LInv, StoredOnce
<1>10. QED
  BY <1>2, <1>4, <1>5, <1>7, <1>8, <1>9 DEF LInv

LEMMA LDeletion ==
    ASSUME LInv, NEW w \in Workers, DeleteLinks(w) \/ DeleteEmbedding(w) \/ DeleteRow(w)
    PROVE  LInv'
<1>1. Deleting(work[w]) /\ work[w].pc \in {"unlink", "unembed", "remove"}
  BY ByPcAny DEF LInv, DeleteLinks, DeleteEmbedding, DeleteRow
<1>2. PICK p \in {"unembed", "remove", "unlog"} :
         /\ work' = [work EXCEPT ![w].pc = p]
         /\ telemetry' \subseteq telemetry
         /\ \A r \in telemetry \ telemetry' : r.id = work[w].id /\ p = "unlog"
  BY DEF DeleteLinks, DeleteEmbedding, DeleteRow
<1>3. UNCHANGED <<log, raced, cut, failed>>
  BY DEF DeleteLinks, DeleteEmbedding, DeleteRow, history
<1> DEFINE a == [work[w] EXCEPT !.pc = p]
<1>4. work' = [work EXCEPT ![w] = a]
  BY <1>2
<1>5. a.pc = p /\ a.id = work[w].id /\ a.contents = work[w].contents /\ Deleting(a)
  BY <1>1 DEF Deleting
<1> HIDE DEF a
<1>6. QED
  BY <1>1, <1>2, <1>3, <1>4, <1>5, DeletionGoesOn

LEMMA LDeleteLog == ASSUME LInv, NEW w \in Workers, DeleteLog(w) PROVE LInv'
<1>1. Deleting(work[w]) /\ work[w].pc = "unlog"
  BY ByPcAny DEF LInv, DeleteLog
<1>2. /\ work' = [work EXCEPT ![w] = Idle]
      /\ log' = [c \in Contents |-> IF c \in work[w].contents THEN 0 ELSE log[c]]
      /\ UNCHANGED <<telemetry, raced, cut, failed>>
  BY DEF DeleteLog, Return, history
<1>3. work'[w] = Idle /\ \A v \in Workers \ {w} : work'[v] = work[v]
  BY <1>2 DEF LInv, Shaped
<1>4. Shaped'
  BY <1>2, <1>3 DEF LInv, Shaped
<1>5. Meet'
  <2>1. \A v \in Workers \ {w} : AtWork(v)' = AtWork(v)
    BY <1>3 DEF AtWork
  <2>2. AtWork(w)' = {}
    BY <1>3, AtWorkOfNext
  <2>3. QED
    BY <1>2, <2>1, <2>2, MeetStep
<1>6. RowsKnown'
  BY <1>2, <1>3, CallKinds DEF LInv, RowsKnown
<1>7. NewInv'
  BY <1>2, <1>3, CallKinds DEF LInv, NewInv, Choosing
<1>8. LogInv'
  <2> SUFFICES ASSUME NEW c \in Contents \ (raced \cup cut \cup failed), log'[c] > 0
               PROVE  Kept(c)'
    BY <1>2 DEF LogInv
  <2>1. c \notin work[w].contents /\ log[c] > 0
    BY <1>2
  <2>2. Kept(c)
    BY <2>1 DEF LInv, LogInv
  <2>3. \A v \in Workers : Choosing(work[v]) => work'[v] = work[v]
    BY <1>1, <1>3, CallKinds DEF Choosing
  <2>4. \A v \in Workers \ {w} : Deleting(work[v]) => work'[v] = work[v]
    BY <1>3
  <2>5. QED
    BY <1>2, <2>1, <2>2, <2>3, <2>4 DEF Kept
<1>9. StoredOnce'
  BY <1>2 DEF LInv, StoredOnce
<1>10. QED
  BY <1>4, <1>5, <1>6, <1>7, <1>8, <1>9 DEF LInv

LEMMA LReopen == ASSUME LInv, Reopen PROVE LInv'
<1>1. /\ work' = [v \in Workers |-> Idle]
      /\ cut' = cut \cup {d.content : d \in UNION {AtWork(v) : v \in Workers}}
      /\ UNCHANGED <<telemetry, log, raced, failed>>
  BY DEF Reopen, tables
<1>2. \A v \in Workers : work'[v] = Idle
  BY <1>1
<1>3. Shaped'
  BY <1>1, <1>2 DEF LInv, Shaped
<1>4. Meet'
  BY <1>2, AtWorkOfNext DEF Meet
<1>5. RowsKnown' /\ NewInv'
  BY <1>2, CallKinds DEF RowsKnown, NewInv, Choosing
<1>6. LogInv'
  <2> SUFFICES ASSUME NEW c \in Contents \ (raced \cup cut' \cup failed), log[c] > 0
               PROVE  \E r \in telemetry : r.content = c
    BY <1>1 DEF LogInv, Kept
  <2>1. Kept(c)
    BY <1>1 DEF LInv, LogInv
  <2>2. \A v \in Workers : \A d \in AtWork(v) : d.content # c
    BY <1>1
  <2>3. ASSUME NEW v \in Workers, Choosing(work[v]), NEW k \in work[v].new, work[v].docs[k].content = c
        PROVE  FALSE
    <3>1. Call(work[v]) /\ k \in DOMAIN work[v].docs
      BY <2>3 DEF Choosing, Call
    <3>2. work[v].docs[k] \in AtWork(v)
      BY <3>1, AtWorkOf
    <3>3. QED
      BY <2>2, <2>3, <3>2
  <2>4. ASSUME NEW v \in Workers, Deleting(work[v]), c \in work[v].contents
        PROVE  FALSE
    <3>1. [id |-> work[v].id, content |-> c] \in AtWork(v)
      BY <2>4, AtWorkOf
    <3>2. QED
      BY <2>2, <3>1
  <2>5. QED
    BY <2>1, <2>3, <2>4 DEF Kept
<1>7. StoredOnce'
  BY <1>1 DEF LInv, StoredOnce
<1>8. QED
  BY <1>3, <1>4, <1>5, <1>6, <1>7 DEF LInv

LEMMA LNextInv == LInv /\ Void /\ [Next]_vars => LInv' /\ Void'
<1> SUFFICES ASSUME LInv, Void, [Next]_vars PROVE LInv'
  BY NextVoid DEF LInv, Shaped
<1>1. CASE UNCHANGED vars
  <2>1. UNCHANGED <<telemetry, log, work, raced, cut, failed>>
    BY <1>1 DEF vars, tables, history
  <2>2. \A v \in Workers : AtWork(v)' = AtWork(v)
    BY <2>1 DEF AtWork
  <2>3. Meet'
    BY <2>1, <2>2, MeetStep
  <2>4. Shaped' /\ RowsKnown' /\ NewInv'
    BY <2>1 DEF LInv, Shaped, RowsKnown, NewInv
  <2>5. LogInv'
    BY <2>1 DEF LInv, LogInv, Kept
  <2>6. StoredOnce'
    BY <2>1 DEF LInv, StoredOnce
  <2>7. QED
    BY <2>3, <2>4, <2>5, <2>6 DEF LInv
<1>2. CASE Reopen
  BY <1>2, LReopen
<1>3. ASSUME NEW w \in Workers, NEW d \in Doc, AddBegin(w, <<d>>, "add")
      PROVE  LInv'
  <2>1. DOMAIN <<d>> = {1} /\ \A i \in DOMAIN <<d>> : <<d>>[i] \in Doc
    OBVIOUS
  <2>2. DOMAIN <<d>> = 1..1 /\ 1 \in Nat
    BY <2>1
  <2>3. QED
    BY <1>3, <2>1, <2>2, LAddBegin
<1>4. ASSUME NEW w \in Workers, NEW docs \in Batches, AddBegin(w, docs, "batch")
      PROVE  LInv'
  <2>1. PICK n \in 2..MaxBatch : docs \in [1..n -> Doc]
    BY DEF Batches
  <2>2. DOMAIN docs = 1..n /\ n \in Nat /\ \A i \in DOMAIN docs : docs[i] \in Doc
    BY <2>1
  <2>3. QED
    BY <1>4, <2>2, LAddBegin
<1>5. ASSUME NEW w \in Workers,
             \/ Select(w) \/ ReadLog(w) \/ WriteLog(w) \/ ReturnDuplicates(w) \/ Classify(w)
             \/ InsertRow(w) \/ Relate(w) \/ InsertBatch(w)
      PROVE  LInv'
  BY <1>5, LSelect, LReadLog, LWriteLog, LReturn, LClassify, LInsertRow, LRelate, LInsertBatch
<1>6. ASSUME NEW w \in Workers,
             \/ \E id \in Ids : DeleteBegin(w, id)
             \/ DeleteLinks(w) \/ DeleteEmbedding(w) \/ DeleteRow(w) \/ DeleteLog(w)
      PROVE  LInv'
  BY <1>6, LDeleteBegin, LDeletion, LDeleteLog
<1>7. QED
  BY <1>1, <1>2, <1>3, <1>4, <1>5, <1>6 DEF Next

LEMMA LSpecInv == Spec => []LInv
<1>1. Init => LInv /\ Void
  BY LInitInv DEF Init, Void, Idle
<1>2. QED
  BY <1>1, LNextInv, PTL DEF Spec

\* Whoever chooses the ids, a (key, data) pair is stored a second time only if
\* two calls about it were running at once (observability.rs: a SELECT, then
\* an INSERT).
THEOREM PairsStoredOnce == Spec => []StoredOnce
BY LSpecInv, LImplied, PTL

\* Timestamps of duplicates are about rows that exist, for batches of any
\* length and any ids, but for races, a crash and adds that failed.
THEOREM LogsAreAboutRows == Spec => []LoggedIsStored
BY LSpecInv, LImplied, PTL

-----------------------------------------------------------------------------
(* Every record stays within reach of a search.                            *)

Gone == deleted \cup cut

Dying(id) == \E w \in Workers : Deleting(work[w]) /\ work[w].id = id

Pending(a, e) ==
    /\ Adding(a) /\ a.pc \in {"add", "batch"}
    /\ \E k \in a.new : a.verdict[k] = {} /\ a.docs[k] = e

\* Some primary row is this entry's, or will be.
Backed(e) ==
    \/ \E p \in telemetry : p.primary /\ DocOf(p) = e
    \/ \E w \in Workers : Pending(work[w], e)

Relating(r, v) ==
    \E w \in Workers : /\ Adding(work[w]) /\ work[w].pc = "relate"
                       /\ work[w].docs[1] = DocOf(r) /\ work[w].verdict[1] = v

Linked(e, r) == <<e.id, r.id>> \in links \/ Relating(r, {e.id})

Attached(e, r) ==
    /\ <<e.content, r.content>> \in Similar
    /\ e.content \in Gone \/ (Backed(e) /\ Linked(e, r))

Excepted(r) == Dying(r.id) \/ r.content \in cut

Findable(r) ==
    IF r.primary THEN DocOf(r) \in embeddings \/ Relating(r, {})
    ELSE \E e \in Doc : Attached(e, r)

DeletedKnown ==
    \A w \in Workers : Deleting(work[w]) =>
        /\ work[w].contents \subseteq deleted
        /\ work[w].pc = "unlog" => \A r \in telemetry : r.id # work[w].id

\* The cache, which a deletion is not told of, names nothing but primaries,
\* stored or to be, and what is gone.
CacheBacked == \A e \in cache \cup embeddings : e.content \in Gone \/ Backed(e)

\* What a secondary is about to be linked to is in the cache.
VerdictOf(a) ==
    \A k \in a.new : a.verdict[k] = {} \/
        \E e \in cache : a.verdict[k] = {e.id} /\ <<e.content, a.docs[k].content>> \in Similar

VerdictInv == \A w \in Workers : Adding(work[w]) /\ work[w].pc \in Storing => VerdictOf(work[w])

RowsFindable == \A r \in telemetry : Excepted(r) \/ Findable(r)

RInv == OInv /\ DeletedKnown /\ CacheBacked /\ VerdictInv /\ RowsFindable

-----------------------------------------------------------------------------
LEMMA RInitInv == Init => RInv
<1> SUFFICES ASSUME Init PROVE RInv
  OBVIOUS
<1>1. OInv
  BY InitInv
<1>2. DeletedKnown /\ CacheBacked /\ VerdictInv /\ RowsFindable
  BY Kinds DEF Init, DeletedKnown, CacheBacked, VerdictInv, RowsFindable
<1>3. QED
  BY <1>1, <1>2 DEF RInv

LEMMA RImplied == RInv => RecordsAreReachable
<1> SUFFICES ASSUME RInv, Quiet, NEW r \in telemetry, r.content \notin cut
             PROVE  IF r.primary THEN [id |-> r.id, content |-> r.content] \in embeddings
                    ELSE \/ \E p \in telemetry : p.primary /\ <<p.id, r.id>> \in links
                         \/ \E c \in deleted \cup cut : <<c, r.content>> \in Similar
  BY DEF RecordsAreReachable
<1>1. \A w \in Workers : ~Adding(work[w]) /\ ~Deleting(work[w])
  BY Kinds DEF Quiet
<1>2. Findable(r)
  BY <1>1 DEF RInv, RowsFindable, Excepted, Dying
<1>3. \A v : ~Relating(r, v)
  BY <1>1 DEF Relating
<1>4. CASE r.primary
  BY <1>2, <1>3, <1>4 DEF Findable, DocOf
<1>5. CASE ~r.primary
  <2>1. PICK e \in Doc : Attached(e, r)
    BY <1>2, <1>5 DEF Findable
  <2>2. CASE e.content \in Gone
    BY <1>5, <2>1, <2>2 DEF Attached, Gone
  <2>3. CASE Backed(e) /\ <<e.id, r.id>> \in links
    <3>1. PICK p \in telemetry : p.primary /\ DocOf(p) = e
      BY <1>1, <2>3 DEF Backed, Pending
    <3>2. p.id = e.id
      BY <3>1 DEF DocOf
    <3>3. QED
      BY <1>5, <2>3, <3>1, <3>2
  <2>4. QED
    BY <1>3, <2>1, <2>2, <2>3 DEF Attached, Linked
<1>6. QED
  BY <1>4, <1>5

\* What a step must keep of what relates rows to each other.
LEMMA RowsStay ==
    ASSUME RowsFindable, cut \subseteq cut', deleted \subseteq deleted',
           \A e \in Doc : Backed(e) => Backed(e)' \/ e.content \in Gone',
           \A r \in telemetry \cap telemetry' : Excepted(r) => Excepted(r)',
           \A r \in telemetry \cap telemetry' :
              DocOf(r) \in embeddings \/ Relating(r, {}) =>
                 Excepted(r)' \/ DocOf(r) \in embeddings' \/ Relating(r, {})',
           \A r \in telemetry \cap telemetry', e \in Doc :
              Backed(e) /\ Linked(e, r) => Excepted(r)' \/ Linked(e, r)' \/ e.content \in Gone',
           \A r \in telemetry' \ telemetry : Findable(r)'
    PROVE  RowsFindable'
<1> SUFFICES ASSUME NEW r \in telemetry \cap telemetry', ~Excepted(r)'
             PROVE  Findable(r)'
  BY DEF RowsFindable
<1>1. Findable(r)
  BY DEF RowsFindable
<1>2. CASE r.primary
  BY <1>1, <1>2 DEF Findable, DocOf
<1>3. CASE ~r.primary
  <2>1. PICK e \in Doc : Attached(e, r)
    BY <1>1, <1>3 DEF Findable
  <2>2. e.content \in Gone => e.content \in Gone'
    BY DEF Gone
  <2>3. Attached(e, r)'
    BY <2>1, <2>2 DEF Attached
  <2>4. QED
    BY <1>3, <2>3 DEF Findable
<1>4. QED
  BY <1>2, <1>3

\* A call that is about to store nothing yet, and is not deleting.
LEMMA RSearchStep ==
    ASSUME RInv, OInv', NEW w \in Workers,
           work[w] = Idle \/ (Adding(work[w]) /\ work[w].pc \in Searching),
           \A v \in Workers \ {w} : work'[v] = work[v],
           UNCHANGED <<telemetry, embeddings, links, cut>>, deleted \subseteq deleted',
           loaded => cache \subseteq cache',
           \A e \in cache' : e \in cache \cup embeddings \/ Backed(e)',
           Deleting(work'[w]) => work'[w].contents \subseteq deleted' /\ work'[w].pc # "unlog",
           Adding(work'[w]) /\ work'[w].pc \in Storing => VerdictOf(work[w])'
    PROVE  RInv'
<1>1. ~Deleting(work[w]) /\ ~(Adding(work[w]) /\ work[w].pc \in Storing)
  BY Kinds DEF Searching, Storing
<1>2. DeletedKnown'
  BY DEF RInv, DeletedKnown
<1>3. Gone \subseteq Gone'
  BY DEF Gone
<1>4. \A e : Backed(e) => Backed(e)'
  <2>1. \A e : ~Pending(work[w], e)
    BY <1>1 DEF Pending, Storing
  <2>2. QED
    BY <2>1 DEF Backed, DocOf
<1>5. CacheBacked'
  BY <1>3, <1>4 DEF RInv, CacheBacked
<1>6. VerdictInv'
  <2>1. ASSUME NEW v \in Workers \ {w}, Adding(work[v]), work[v].pc \in Storing
        PROVE  VerdictOf(work[v])'
    <3>1. cache \subseteq cache' /\ work'[v] = work[v]
      BY <2>1 DEF RInv, OInv, JudgedInv
    <3>2. VerdictOf(work[v])
      BY <2>1 DEF RInv, VerdictInv
    <3>3. QED
      BY <3>1, <3>2 DEF VerdictOf
  <2>2. QED
    BY <2>1 DEF VerdictInv
<1>7. RowsFindable'
  <2>1. \A r : Excepted(r) => Excepted(r)'
    BY <1>1 DEF Excepted, Dying
  <2>2. \A r, v : Relating(r, v) => Relating(r, v)'
    BY <1>1 DEF Relating, Storing, DocOf
  <2>3. \A e, r : Linked(e, r) => Linked(e, r)'
    BY <2>2 DEF Linked
  <2>4. QED
    BY <1>4, <2>1, <2>2, <2>3, RowsStay DEF RInv
<1>8. QED
  BY <1>2, <1>5, <1>6, <1>7 DEF RInv

\* A call that stores rows, embeddings and links, and ends or has its row to
\* relate.
LEMMA RStoreStep ==
    ASSUME RInv, OInv', NEW w \in Workers, Adding(work[w]), work[w].pc \in Storing,
           NEW a, work' = [work EXCEPT ![w] = a],
           \/ a = Idle
           \/ /\ work[w].pc = "add" /\ Adding(a) /\ a.pc = "relate"
              /\ a.docs = work[w].docs /\ a.new = work[w].new /\ a.verdict = work[w].verdict,
           UNCHANGED <<cache, deleted, cut>>,
           NEW kept \in SUBSET work[w].new, NEW placed \in SUBSET work[w].new,
           placed = IF work[w].pc = "relate" THEN {} ELSE work[w].new,
           \A k \in kept : work[w].verdict[k] = {},
           embeddings' = embeddings \cup {work[w].docs[k] : k \in kept},
           telemetry' = telemetry \cup {NewRow(work[w].docs[k], work[w].verdict[k]) : k \in placed},
           links \subseteq links',
           a = Idle => \A k \in work[w].new :
              /\ work[w].verdict[k] = {} => k \in kept
              /\ \A id \in work[w].verdict[k] : <<id, work[w].docs[k].id>> \in links'
    PROVE  RInv'
<1> DEFINE docs == work[w].docs
           verdict == work[w].verdict
           Placed(k) == NewRow(docs[k], verdict[k])
<1>1. work'[w] = a /\ \A v \in Workers \ {w} : work'[v] = work[v]
  BY DEF RInv, OInv, Typed
<1>2. \A k \in work[w].new : k \in DOMAIN docs /\ docs[k] \in Doc
  BY DEF Adding
<1>3. \A k \in work[w].new : /\ Placed(k) \in Row /\ Placed(k).id = docs[k].id
                             /\ Placed(k).content = docs[k].content
                             /\ Placed(k).primary <=> verdict[k] = {}
                             /\ DocOf(Placed(k)) = docs[k]
  BY <1>2, NewRowTyped
<1>4. telemetry' = telemetry \cup {Placed(k) : k \in placed}
  OBVIOUS
<1>5. work[w].pc \in {"add", "relate"} => work[w].new = {1}
  BY DEF Adding, Storing
<1> HIDE DEF Placed
<1>6. \A v \in Workers : Deleting(work'[v]) <=> (v # w /\ Deleting(work[v]))
  BY <1>1, Kinds
<1>7. DeletedKnown'
  <2>1. ASSUME NEW v \in Workers, v # w, Deleting(work[v]), NEW k \in placed
        PROVE  Placed(k).id # work[v].id
    <3>1. work[w].pc # "relate" /\ k \in DOMAIN docs
      BY <1>2
    <3>2. QED
      BY <1>3, <2>1, <3>1 DEF RInv, OInv, NotYetStored
  <2>2. QED
    BY <1>1, <1>4, <1>6, <2>1 DEF RInv, DeletedKnown
<1>8. \A e : Backed(e) => Backed(e)'
  <2>1. ASSUME NEW e, Pending(work[w], e)
        PROVE  Backed(e)'
    <3>1. PICK k \in work[w].new : verdict[k] = {} /\ docs[k] = e
      BY <2>1 DEF Pending
    <3>2. k \in placed
      BY <2>1 DEF Pending
    <3>3. Placed(k) \in telemetry' /\ Placed(k).primary /\ DocOf(Placed(k)) = e
      BY <1>3, <1>4, <3>1, <3>2
    <3>4. QED
      BY <3>3 DEF Backed, DocOf
  <2>2. ASSUME NEW e, NEW v \in Workers, v # w, Pending(work[v], e)
        PROVE  Backed(e)'
    BY <1>1, <2>2 DEF Backed
  <2>3. ASSUME NEW e, NEW p \in telemetry, p.primary, DocOf(p) = e
        PROVE  Backed(e)'
    BY <1>4, <2>3 DEF Backed, DocOf
  <2>4. QED
    BY <2>1, <2>2, <2>3 DEF Backed
<1>9. Gone' = Gone
  BY DEF Gone
<1>10. CacheBacked'
  <2>1. \A k \in kept : docs[k] \in cache
    BY DEF RInv, OInv, JudgedInv
  <2>2. QED
    BY <1>8, <1>9, <2>1 DEF RInv, CacheBacked
<1>11. VerdictInv'
  <2>1. VerdictOf(work[w])
    BY DEF RInv, VerdictInv
  <2>2. a # Idle => VerdictOf(a)'
    BY <2>1 DEF VerdictOf
  <2>3. \A v \in Workers \ {w} : VerdictOf(work[v]) => VerdictOf(work[v])'
    BY <1>1 DEF VerdictOf
  <2>4. ASSUME NEW v \in Workers, Adding(work'[v]), work'[v].pc \in Storing
        PROVE  VerdictOf(work[v])'
    <3>1. CASE v = w
      <4>1. work'[v] = a /\ a # Idle
        BY <1>1, <2>4, <3>1, Kinds
      <4>2. QED
        BY <2>2, <4>1 DEF VerdictOf
    <3>2. CASE v # w
      BY <1>1, <2>3, <2>4, <3>2 DEF RInv, VerdictInv
    <3>3. QED
      BY <3>1, <3>2
  <2>5. QED
    BY <2>4 DEF VerdictInv
<1>12. ASSUME NEW r, Excepted(r) PROVE Excepted(r)'
  <2>1. CASE r.content \in cut
    BY <2>1 DEF Excepted
  <2>2. ASSUME NEW v \in Workers, Deleting(work[v]), work[v].id = r.id
        PROVE  Excepted(r)'
    BY <1>1, <1>6, <2>2, Kinds DEF Excepted, Dying
  <2>3. QED
    BY <1>12, <2>1, <2>2 DEF Excepted, Dying
<1>13. ASSUME NEW r, NEW v, Relating(r, v), ~Relating(r, v)'
       PROVE  /\ a = Idle /\ docs[1] = DocOf(r) /\ verdict[1] = v /\ 1 \in work[w].new
              /\ r.id = docs[1].id
  <2>1. PICK u \in Workers : /\ Adding(work[u]) /\ work[u].pc = "relate"
                             /\ work[u].docs[1] = DocOf(r) /\ work[u].verdict[1] = v
    BY <1>13 DEF Relating
  <2>2. u = w
    BY <1>1, <1>13, <2>1 DEF Relating, DocOf
  <2>3. QED
    BY <1>5, <2>1, <2>2 DEF DocOf
<1>14. \A r : DocOf(r) \in embeddings \/ Relating(r, {}) =>
                 DocOf(r) \in embeddings' \/ Relating(r, {})'
  BY <1>13
<1>15. \A e, r : Linked(e, r) => Linked(e, r)'
  <2> SUFFICES ASSUME NEW e, NEW r, Relating(r, {e.id}), ~Relating(r, {e.id})'
               PROVE  <<e.id, r.id>> \in links'
    BY DEF Linked
  <2>1. a = Idle /\ verdict[1] = {e.id} /\ 1 \in work[w].new /\ r.id = docs[1].id
    BY <1>13
  <2>2. QED
    BY <2>1
<1>16. ASSUME NEW r \in telemetry' \ telemetry
       PROVE  Findable(r)'
  <2>1. PICK k \in placed : r = Placed(k)
    BY <1>4
  <2>0. k \in work[w].new
    OBVIOUS
  <2>2. r.id = docs[k].id /\ r.content = docs[k].content /\ (r.primary <=> verdict[k] = {})
        /\ DocOf(r) = docs[k]
    BY <1>3, <2>0, <2>1
  <2>3. ASSUME a # Idle, NEW x, x = verdict[k] PROVE Relating(r, x)'
    <3>1. k = 1
      BY <1>5, <2>3
    <3>2. QED
      BY <1>1, <2>2, <2>3, <3>1 DEF Relating, DocOf
  <2>4. CASE r.primary
    <3>1. DocOf(r) \in embeddings' \/ Relating(r, {})'
      BY <2>0, <2>2, <2>3, <2>4
    <3>2. QED
      BY <2>4, <3>1 DEF Findable, DocOf
  <2>5. CASE ~r.primary
    <3>1. PICK e \in cache : verdict[k] = {e.id} /\ <<e.content, docs[k].content>> \in Similar
      BY <2>2, <2>5 DEF RInv, VerdictInv, VerdictOf
    <3>2. e \in Doc
      BY DEF RInv, OInv, Typed
    <3>3. e.content \in Gone' \/ Backed(e)'
      BY <1>8, <1>9 DEF RInv, CacheBacked
    <3>4. Linked(e, r)'
      <4>1. CASE a = Idle
        BY <2>0, <2>2, <3>1, <4>1 DEF Linked
      <4>2. CASE a # Idle
        BY <2>2, <2>3, <3>1, <4>2 DEF Linked
      <4>3. QED
        BY <4>1, <4>2
    <3>5. Attached(e, r)'
      BY <2>2, <3>1, <3>3, <3>4 DEF Attached
    <3>6. QED
      BY <2>5, <3>2, <3>5 DEF Findable
  <2>6. QED
    BY <2>4, <2>5
<1>17. RowsFindable'
  BY <1>8, <1>12, <1>14, <1>15, <1>16, RowsStay DEF RInv
<1>18. QED
  BY <1>7, <1>10, <1>11, <1>17 DEF RInv

\* A deletion that goes on, or ends when its rows are gone.
LEMMA RDeleteStep ==
    ASSUME RInv, OInv', NEW w \in Workers, Deleting(work[w]),
           NEW a, work' = [work EXCEPT ![w] = a],
           \/ a = Idle /\ work[w].pc = "unlog"
           \/ Deleting(a) /\ a.id = work[w].id /\ a.contents = work[w].contents,
           telemetry' \subseteq telemetry, embeddings' \subseteq embeddings,
           links' \subseteq links,
           \A r \in telemetry \ telemetry' : r.id = work[w].id,
           a.pc = "unlog" => \A r \in telemetry' : r.id # work[w].id,
           \A e \in embeddings \ embeddings' : e.id = work[w].id,
           \A l \in links \ links' : l[1] = work[w].id \/ l[2] = work[w].id,
           UNCHANGED <<cache, deleted, cut>>
    PROVE  RInv'
<1> DEFINE id == work[w].id
<1>1. work'[w] = a /\ \A v \in Workers \ {w} : work'[v] = work[v]
  BY DEF RInv, OInv, Typed
<1>2. \A r \in telemetry : r.id = id => /\ r.content \in deleted
                                        /\ work[w].pc # "unlog" /\ Deleting(a) /\ Dying(id)'
  BY <1>1 DEF RInv, DeletedKnown, OInv, ContentsKnown, Dying
<1>3. \A v \in Workers : Adding(work'[v]) <=> (v # w /\ Adding(work[v]))
  BY <1>1, Kinds
<1>4. DeletedKnown'
  BY <1>1, Kinds DEF RInv, DeletedKnown
<1>5. Gone' = Gone /\ deleted \subseteq Gone
  BY DEF Gone
<1>6. \A v \in Workers : \A e : Pending(work[v], e) => e.id # id /\ v # w /\ work'[v] = work[v]
  <2> SUFFICES ASSUME NEW v \in Workers, NEW e, Pending(work[v], e)
               PROVE  e.id # id /\ v # w
    BY <1>1
  <2>1. PICK k \in work[v].new : work[v].docs[k] = e
    BY DEF Pending
  <2>2. Adding(work[v]) /\ k \in DOMAIN work[v].docs /\ work[v].pc # "relate"
    BY DEF Pending, Adding
  <2>3. QED
    BY <2>1, <2>2, Kinds DEF RInv, OInv, NotYetStored
<1>7. \A e : Backed(e) => Backed(e)' \/ e.content \in Gone'
  <2>1. ASSUME NEW e, NEW p \in telemetry, p.primary, DocOf(p) = e
        PROVE  Backed(e)' \/ e.content \in Gone'
    <3>1. CASE p \in telemetry'
      BY <2>1, <3>1 DEF Backed, DocOf
    <3>2. CASE p \notin telemetry'
      BY <1>2, <1>5, <2>1, <3>2 DEF DocOf
    <3>3. QED
      BY <3>1, <3>2
  <2>2. ASSUME NEW e, NEW v \in Workers, Pending(work[v], e)
        PROVE  Backed(e)'
    BY <1>6, <2>2 DEF Backed
  <2>3. QED
    BY <2>1, <2>2 DEF Backed
<1>8. CacheBacked'
  BY <1>5, <1>7 DEF RInv, CacheBacked
<1>9. VerdictInv'
  <2> SUFFICES ASSUME NEW v \in Workers, Adding(work'[v]), work'[v].pc \in Storing
               PROVE  VerdictOf(work[v])'
    BY DEF VerdictInv
  <2>1. work'[v] = work[v] /\ VerdictOf(work[v])
    BY <1>1, <1>3 DEF RInv, VerdictInv
  <2>2. QED
    BY <2>1 DEF VerdictOf
<1>10. ASSUME NEW r \in telemetry, Excepted(r)
       PROVE  Excepted(r)'
  <2>1. CASE r.content \in cut
    BY <2>1 DEF Excepted
  <2>2. ASSUME NEW v \in Workers, Deleting(work[v]), work[v].id = r.id
        PROVE  Excepted(r)'
    <3>1. CASE v = w
      BY <1>2, <2>2, <3>1 DEF Excepted
    <3>2. CASE v # w
      BY <1>1, <2>2, <3>2 DEF Excepted, Dying
    <3>3. QED
      BY <3>1, <3>2
  <2>3. QED
    BY <1>10, <2>1, <2>2 DEF Excepted, Dying
<1>11. \A r \in telemetry : r.id = id => Excepted(r)'
  BY <1>2 DEF Excepted
<1>12. \A r, v : Relating(r, v) => Relating(r, v)'
  BY <1>1, <1>3, Kinds DEF Relating, DocOf
<1>13. \A r \in telemetry : DocOf(r) \in embeddings \/ Relating(r, {}) =>
                 Excepted(r)' \/ DocOf(r) \in embeddings' \/ Relating(r, {})'
  <2>1. \A r : DocOf(r).id = r.id
    BY DEF DocOf
  <2>2. QED
    BY <1>11, <1>12, <2>1
<1>14. ASSUME NEW r \in telemetry, NEW e \in Doc, Backed(e), Linked(e, r)
       PROVE  Excepted(r)' \/ Linked(e, r)' \/ e.content \in Gone'
  <2>1. CASE Relating(r, {e.id})
    BY <1>12, <2>1 DEF Linked
  <2>2. CASE <<e.id, r.id>> \in links' \/ r.id = id
    BY <1>11, <2>2 DEF Linked
  <2>3. CASE e.id = id
    <3>1. PICK p \in telemetry : DocOf(p) = e
      BY <1>6, <1>14, <2>3 DEF Backed
    <3>2. p.id = e.id /\ p.content = e.content
      BY <3>1 DEF DocOf
    <3>3. QED
      BY <1>2, <1>5, <2>3, <3>2
  <2>4. QED
    BY <1>14, <2>1, <2>2, <2>3 DEF Linked
<1>15. RowsFindable'
  BY <1>7, <1>10, <1>13, <1>14, RowsStay DEF RInv
<1>16. QED
  BY <1>4, <1>8, <1>9, <1>15 DEF RInv

-----------------------------------------------------------------------------
LEMMA RSearching ==
    ASSUME RInv, OInv', NEW w \in Workers,
           Select(w) \/ ReadLog(w) \/ WriteLog(w) \/ ReturnDuplicates(w)
    PROVE  RInv'
<1>1. Adding(work[w]) /\ work[w].pc \in Searching
  BY ByPc DEF Select, ReadLog, WriteLog, ReturnDuplicates, Searching, RInv
<1>2. "pc" \in DOMAIN work[w] /\ "queue" \in DOMAIN work[w] /\ work = [v \in Workers |-> work[v]]
  BY <1>1 DEF Adding, AddFields, RInv, OInv, Typed
<1>3. \A queue, new : AfterLog(queue, new) \in Searching
  BY DEF AfterLog, Searching
<1>4. /\ \A v \in Workers \ {w} : work'[v] = work[v]
      /\ work'[w].pc \in Searching \cup {"idle"}
  <2>1. CASE Select(w)
    <3> DEFINE docs == work[w].docs
               pc == AfterLog(DOMAIN docs \ NewAt(docs), NewAt(docs))
               a == [[[work[w] EXCEPT !.pc = pc] EXCEPT !.queue = DOMAIN docs \ NewAt(docs)]
                       EXCEPT !.new = NewAt(docs)]
    <3>1. work' = [work EXCEPT ![w] = a]
      BY <2>1 DEF Select
    <3>2. pc \in Searching
      BY <1>3
    <3> HIDE DEF pc
    <3>3. a.pc = pc
      BY <1>2
    <3> HIDE DEF a
    <3>4. QED
      BY <1>2, <3>1, <3>2, <3>3
  <2>2. CASE ReadLog(w)
    <3> DEFINE a == [[work[w] EXCEPT !.pc = "write log"]
                       EXCEPT !.seen = log[work[w].docs[NextDuplicate(w)].content]]
    <3>1. work' = [work EXCEPT ![w] = a]
      BY <2>2 DEF ReadLog
    <3>2. a.pc = "write log"
      BY <1>2
    <3> HIDE DEF a
    <3>3. QED
      BY <1>2, <3>1, <3>2 DEF Searching
  <2>3. CASE Return(w)
    BY <1>2, <2>3, Kinds DEF Return
  <2>4. CASE WriteLog(w) /\ ~Return(w)
    <3> DEFINE rest == work[w].queue \ {NextDuplicate(w)}
               pc == AfterLog(rest, work[w].new)
               a == [[work[w] EXCEPT !.pc = pc] EXCEPT !.queue = rest]
    <3>1. work' = [work EXCEPT ![w] = a]
      BY <2>4 DEF WriteLog, Fail
    <3>2. pc \in Searching
      BY <1>3
    <3> HIDE DEF pc, rest
    <3>3. a.pc = pc
      BY <1>2
    <3> HIDE DEF a
    <3>4. QED
      BY <1>2, <3>1, <3>2, <3>3
  <2>5. QED
    BY <2>1, <2>2, <2>3, <2>4 DEF ReturnDuplicates
<1>5. ~Deleting(work'[w]) /\ work'[w].pc \notin Storing
  BY <1>4 DEF Deleting, Searching, Storing
<1>6. UNCHANGED <<telemetry, embeddings, links, cache, cut, deleted>>
  BY DEF Select, ReadLog, WriteLog, Fail, ReturnDuplicates, tables, history
<1>7. QED
  BY <1>1, <1>4, <1>5, <1>6, RSearchStep

LEMMA RAddBegin ==
    ASSUME RInv, OInv', NEW w \in Workers, NEW docs, NEW kind, AddBegin(w, docs, kind)
    PROVE  RInv'
<1> DEFINE a == [pc |-> "select", kind |-> kind, docs |-> docs, queue |-> {},
                 new |-> {}, seen |-> 0, verdict |-> <<>>]
<1>1. /\ work' = [work EXCEPT ![w] = a] /\ work[w] = Idle
      /\ UNCHANGED <<telemetry, embeddings, links, cache, cut, deleted>>
  BY DEF AddBegin, tables
<1>2. ~Deleting(a) /\ a.pc \notin Storing
  BY DEF Deleting, Storing
<1> HIDE DEF a
<1>3. work'[w] = a /\ \A v \in Workers \ {w} : work'[v] = work[v]
  BY <1>1 DEF RInv, OInv, Typed
<1>4. QED
  BY <1>1, <1>2, <1>3, RSearchStep

LEMMA RDeleteBegin ==
    ASSUME RInv, OInv', NEW w \in Workers, NEW id \in Ids, DeleteBegin(w, id)
    PROVE  RInv'
<1> DEFINE contents == {r.content : r \in {q \in telemetry : q.id = id}}
           a == [pc |-> "unlink", id |-> id, contents |-> contents]
<1>1. /\ work' = [work EXCEPT ![w] = a] /\ work[w] = Idle /\ deleted' = deleted \cup contents
      /\ UNCHANGED <<telemetry, embeddings, links, cache, cut>>
  BY DEF DeleteBegin, tables
<1>2. a.pc = "unlink" /\ a.contents = contents /\ ~Adding(a)
  BY DEF Adding, AddFields
<1> HIDE DEF a, contents
<1>3. work'[w] = a /\ \A v \in Workers \ {w} : work'[v] = work[v]
  BY <1>1 DEF RInv, OInv, Typed
<1>4. QED
  BY <1>1, <1>2, <1>3, RSearchStep

LEMMA RClassify == ASSUME RInv, OInv', NEW w \in Workers, Classify(w) PROVE RInv'
<1>1. Adding(work[w]) /\ work[w].pc = "classify" /\ work[w].pc \in Searching
  BY ByPc DEF Classify, Searching, RInv
<1> DEFINE docs == work[w].docs
           new == work[w].new
<1>2. PICK v \in Verdicts(docs, new, Entries) :
         /\ cache' = Entries \cup Primaries(docs, new, v)
         /\ work' = [work EXCEPT ![w].pc = work[w].kind, ![w].verdict = v]
  BY DEF Classify
<1>3. UNCHANGED <<telemetry, embeddings, links, cut, deleted>>
  BY DEF Classify, tables, history
<1> DEFINE a == [[work[w] EXCEPT !.pc = work[w].kind] EXCEPT !.verdict = v]
<1>4. work' = [work EXCEPT ![w] = a]
  BY <1>2
<1>5. a.pc = work[w].kind /\ a.docs = docs /\ a.new = new /\ a.verdict = v
      /\ work[w].kind \in {"add", "batch"}
  BY <1>1 DEF Adding, AddFields
<1> HIDE DEF a
<1>6. work'[w] = a /\ \A u \in Workers \ {w} : work'[u] = work[u]
  BY <1>4 DEF RInv, OInv, Typed
<1>7. Adding(work'[w]) /\ ~Deleting(work'[w])
  BY <1>5, <1>6, Kinds DEF OInv, Typed, Deleting
<1>8. ASSUME NEW e \in cache' PROVE e \in cache \cup embeddings \/ Backed(e)'
  <2>1. CASE e \in Entries
    BY <2>1 DEF Entries
  <2>2. CASE e \in Primaries(docs, new, v)
    <3>1. PICK k \in new : v[k] = {} /\ docs[k] = e
      BY <2>2 DEF Primaries
    <3>2. Pending(work[w], e)'
      BY <1>5, <1>6, <1>7, <3>1 DEF Pending
    <3>3. QED
      BY <3>2 DEF Backed
  <2>3. QED
    BY <1>2, <2>1, <2>2
<1>9. ASSUME NEW k \in new, v[k] # {}
      PROVE  \E e \in cache' : v[k] = {e.id} /\ <<e.content, docs[k].content>> \in Similar
  <2> DEFINE judged == Entries \cup {docs[j] : j \in {i \in new : i < k /\ v[i] = {}}}
  <2>1. v[k] \in Nearest /\ v[k] \subseteq Near(docs[k].content, judged)
    BY DEF Verdicts
  <2>2. PICK id \in Ids : v[k] = {id}
    BY <1>9, <2>1 DEF Nearest
  <2>3. judged \subseteq cache'
    BY <1>2 DEF Primaries
  <2> HIDE DEF judged
  <2>4. PICK e \in judged : e.id = id /\ <<docs[k].content, e.content>> \in Similar
    BY <2>1, <2>2 DEF Near
  <2>5. <<e.content, docs[k].content>> \in Similar
    BY <2>4, ObservabilityAssumption
  <2>6. QED
    BY <2>2, <2>3, <2>4, <2>5
<1>10. VerdictOf(work[w])'
  BY <1>5, <1>6, <1>9 DEF VerdictOf
<1>11. loaded => cache \subseteq cache'
  BY <1>2 DEF Entries
<1>12. QED
  BY <1>1, <1>3, <1>6, <1>7, <1>8, <1>10, <1>11, RSearchStep

LEMMA RInsertRow == ASSUME RInv, OInv', NEW w \in Workers, InsertRow(w) PROVE RInv'
<1>1. Adding(work[w]) /\ work[w].pc = "add" /\ work[w].pc \in Storing
  BY ByPc DEF InsertRow, Storing, RInv
<1>2. DOMAIN work[w].docs = {1} /\ work[w].new = {1}
  BY <1>1 DEF Adding, Storing
<1>3. ~Stored(work[w].docs[1].id)
  BY <1>1, <1>2 DEF RInv, OInv, NotYetStored, Stored
<1> DEFINE a == [work[w] EXCEPT !.pc = "relate"]
           kept == {k \in work[w].new : FALSE}
           placed == work[w].new
<1>4. /\ telemetry' = telemetry \cup {NewRow(work[w].docs[1], work[w].verdict[1])}
      /\ work' = [work EXCEPT ![w] = a] /\ UNCHANGED <<embeddings, links, cache, cut, deleted>>
  BY <1>3 DEF InsertRow, history
<1>5. a.pc = "relate" /\ a.docs = work[w].docs /\ a.new = work[w].new /\ a.kind = work[w].kind
      /\ a.verdict = work[w].verdict /\ DOMAIN a = DOMAIN work[w]
  BY <1>1 DEF Adding, AddFields
<1> HIDE DEF a
<1>6. Adding(a)
  BY <1>1, <1>5 DEF Adding, Storing
<1>7. telemetry' = telemetry \cup {NewRow(work[w].docs[k], work[w].verdict[k]) : k \in placed}
  BY <1>2, <1>4
<1>8. kept \in SUBSET work[w].new /\ kept = {} /\ placed \in SUBSET work[w].new
      /\ embeddings' = embeddings \cup {work[w].docs[k] : k \in kept}
      /\ placed = IF work[w].pc = "relate" THEN {} ELSE work[w].new
  BY <1>1, <1>4
<1>9. a # Idle
  BY <1>6, Kinds
<1> HIDE DEF kept, placed
<1>10. UNCHANGED <<cache, deleted, cut>> /\ links \subseteq links' /\ \A k \in kept : work[w].verdict[k] = {}
  BY <1>4, <1>8
<1>11. /\ work[w].pc = "add" /\ Adding(a) /\ a.pc = "relate"
       /\ a.docs = work[w].docs /\ a.new = work[w].new /\ a.verdict = work[w].verdict
  BY <1>1, <1>5, <1>6
<1>12. work' = [work EXCEPT ![w] = a]
  BY <1>4
<1>13. /\ kept \in SUBSET work[w].new /\ placed \in SUBSET work[w].new
       /\ placed = IF work[w].pc = "relate" THEN {} ELSE work[w].new
       /\ embeddings' = embeddings \cup {work[w].docs[k] : k \in kept}
  BY <1>8
<1>14. a = Idle => \A k \in work[w].new :
          /\ work[w].verdict[k] = {} => k \in kept
          /\ \A id \in work[w].verdict[k] : <<id, work[w].docs[k].id>> \in links'
  BY <1>9
<1>15. QED
  BY <1>1, <1>7, <1>10, <1>11, <1>12, <1>13, <1>14, RStoreStep

LEMMA RRelate == ASSUME RInv, OInv', NEW w \in Workers, Relate(w) PROVE RInv'
<1>1. Adding(work[w]) /\ work[w].pc = "relate" /\ work[w].pc \in Storing
  BY ByPc DEF Relate, Storing, RInv
<1>2. DOMAIN work[w].docs = {1} /\ work[w].new = {1}
  BY <1>1 DEF Adding, Storing
<1>3. \A e \in embeddings : e.id # work[w].docs[1].id
  BY <1>1, <1>2 DEF RInv, OInv, NotYetStored
<1> DEFINE kept == {k \in work[w].new : work[w].verdict[k] = {}}
           placed == {k \in work[w].new : FALSE}
<1>4. /\ kept \in SUBSET work[w].new /\ placed \in SUBSET work[w].new
      /\ placed = IF work[w].pc = "relate" THEN {} ELSE work[w].new
      /\ \A k \in work[w].new : k \in kept <=> work[w].verdict[k] = {}
  BY <1>1
<1>5. /\ work' = [work EXCEPT ![w] = Idle] /\ UNCHANGED <<telemetry, cache, deleted, cut>>
  BY DEF Relate, Fail, Return, history
<1>6. embeddings' = embeddings \cup {work[w].docs[k] : k \in kept}
  BY <1>2, <1>3 DEF Relate
<1>7. telemetry' = telemetry \cup {NewRow(work[w].docs[k], work[w].verdict[k]) : k \in placed}
  BY <1>1, <1>5
<1>8. links \subseteq links'
      /\ \A k \in work[w].new : \A id \in work[w].verdict[k] : <<id, work[w].docs[k].id>> \in links'
  BY <1>2 DEF Relate
<1> HIDE DEF kept, placed
<1>9. \A k \in kept : work[w].verdict[k] = {}
  BY <1>4
<1>10. \A k \in work[w].new :
          /\ work[w].verdict[k] = {} => k \in kept
          /\ \A id \in work[w].verdict[k] : <<id, work[w].docs[k].id>> \in links'
  BY <1>4, <1>8
<1>11. UNCHANGED <<cache, deleted, cut>> /\ links \subseteq links'
  BY <1>5, <1>8
<1>12. kept \in SUBSET work[w].new /\ placed \in SUBSET work[w].new
       /\ placed = IF work[w].pc = "relate" THEN {} ELSE work[w].new
  BY <1>4
<1>13. work' = [work EXCEPT ![w] = Idle]
  BY <1>5
<1>14. QED
  BY <1>1, <1>6, <1>7, <1>9, <1>10, <1>11, <1>12, <1>13, RStoreStep

LEMMA RInsertBatch == ASSUME RInv, Unlinked, OInv', NEW w \in Workers, InsertBatch(w) PROVE RInv'
<1>1. Adding(work[w]) /\ work[w].pc = "batch" /\ work[w].pc \in Storing
  BY ByPc DEF InsertBatch, Storing, RInv
<1> DEFINE docs == work[w].docs
           new == work[w].new
           v == work[w].verdict
           prim == Primaries(docs, new, v)
           kept == {k \in new : v[k] = {}}
<1>2. new \subseteq DOMAIN docs
  BY <1>1 DEF Adding
<1>3. \A k \in new : ~Stored(docs[k].id)
  BY <1>1, <1>2 DEF RInv, OInv, NotYetStored, Stored
<1>4. \A j, k \in new : docs[j].id = docs[k].id => j = k
  BY <1>1, <1>2 DEF Adding
<1>5. \A d \in prim : \A e \in embeddings : e.id # d.id
  BY <1>1, <1>2 DEF RInv, OInv, NotYetStored, Primaries
<1>12. \A k \in new : \A p \in v[k] : <<p, docs[k].id>> \notin links
  <2>1. "docs" \in DOMAIN work[w]
    BY <1>1 DEF Adding, AddFields
  <2>2. \A l \in links : \A k \in new : l[2] # docs[k].id
    BY <1>2, <2>1 DEF Unlinked
  <2>3. QED
    BY <2>2
<1>6. /\ telemetry' = telemetry \cup {NewRow(docs[k], v[k]) : k \in new}
      /\ embeddings' = embeddings \cup prim
      /\ links' = links \cup (UNION {v[k] \X {docs[k].id} : k \in new})
      /\ work' = [work EXCEPT ![w] = Idle] /\ UNCHANGED <<cache, deleted, cut>>
  BY <1>3, <1>4, <1>5, <1>12 DEF InsertBatch, Return, history
<1>7. prim = {docs[k] : k \in kept}
  BY DEF Primaries
<1>8. links \subseteq links' /\ \A k \in new : \A id \in v[k] : <<id, docs[k].id>> \in links'
  BY <1>6
<1>9. /\ kept \in SUBSET new /\ new \in SUBSET new /\ \A k \in new : k \in kept <=> v[k] = {}
      /\ new = IF work[w].pc = "relate" THEN {} ELSE new
  BY <1>1
<1> HIDE DEF kept, prim
<1>10. embeddings' = embeddings \cup {docs[k] : k \in kept} /\ \A k \in kept : v[k] = {}
  BY <1>6, <1>7, <1>9
<1>11. QED
  BY <1>1, <1>6, <1>8, <1>9, <1>10, RStoreStep

LEMMA RDeletion ==
    ASSUME RInv, OInv', NEW w \in Workers,
           DeleteLinks(w) \/ DeleteEmbedding(w) \/ DeleteRow(w)
    PROVE  RInv'
<1>1. Deleting(work[w]) /\ work[w].pc \in {"unlink", "unembed", "remove"}
  BY ByPc DEF DeleteLinks, DeleteEmbedding, DeleteRow, RInv
<1>2. PICK p \in {"unembed", "remove", "unlog"} :
         /\ work' = [work EXCEPT ![w].pc = p]
         /\ p = "unlog" => \A r \in telemetry' : r.id # work[w].id
  BY DEF DeleteLinks, DeleteEmbedding, DeleteRow
<1>3. /\ telemetry' \subseteq telemetry /\ \A r \in telemetry \ telemetry' : r.id = work[w].id
      /\ embeddings' \subseteq embeddings /\ \A e \in embeddings \ embeddings' : e.id = work[w].id
      /\ links' \subseteq links
      /\ \A l \in links \ links' : l[1] = work[w].id \/ l[2] = work[w].id
  BY DEF DeleteLinks, DeleteEmbedding, DeleteRow
<1>4. UNCHANGED <<cache, deleted, cut>>
  BY DEF DeleteLinks, DeleteEmbedding, DeleteRow, history
<1> DEFINE a == [work[w] EXCEPT !.pc = p]
<1>5. work' = [work EXCEPT ![w] = a]
  BY <1>2
<1>6. a.pc = p /\ a.id = work[w].id /\ a.contents = work[w].contents /\ Deleting(a)
  BY <1>1 DEF Deleting
<1> HIDE DEF a
<1>7. a.pc = "unlog" => \A r \in telemetry' : r.id # work[w].id
  BY <1>2, <1>6
<1>8. QED
  BY <1>1, <1>3, <1>4, <1>5, <1>6, <1>7, RDeleteStep

LEMMA RDeleteLog == ASSUME RInv, OInv', NEW w \in Workers, DeleteLog(w) PROVE RInv'
<1>1. Deleting(work[w]) /\ work[w].pc = "unlog"
  BY ByPc DEF DeleteLog, RInv
<1>2. /\ work' = [work EXCEPT ![w] = Idle]
      /\ UNCHANGED <<telemetry, embeddings, links, cache, deleted, cut>>
  BY DEF DeleteLog, Return, history
<1>3. Idle.pc # "unlog"
  BY Kinds
<1>4. QED
  BY <1>1, <1>2, <1>3, RDeleteStep

LEMMA RReopen == ASSUME RInv, OInv', Reopen PROVE RInv'
<1>1. /\ cache' = {} /\ work' = [v \in Workers |-> Idle]
      /\ cut' = cut \cup {d.content : d \in UNION {AtWork(v) : v \in Workers}}
      /\ UNCHANGED <<telemetry, embeddings, links, deleted>>
  BY DEF Reopen, tables
<1>2. \A v \in Workers : work'[v] = Idle
  BY <1>1
<1>3. ASSUME NEW v \in Workers, Adding(work[v]), NEW i \in DOMAIN work[v].docs
      PROVE  work[v].docs[i].content \in cut'
  <2>1. work[v] # Idle /\ "docs" \in DOMAIN work[v]
    BY <1>3, Kinds DEF Adding, AddFields
  <2>2. work[v].docs[i] \in AtWork(v)
    BY <2>1 DEF AtWork
  <2>3. QED
    BY <1>1, <2>2
<1>4. ASSUME NEW v \in Workers, Deleting(work[v]), NEW r \in telemetry, r.id = work[v].id
      PROVE  r.content \in cut'
  <2>1. work[v] # Idle /\ "docs" \notin DOMAIN work[v]
    BY <1>4, Kinds DEF Deleting
  <2>2. r.content \in work[v].contents
    BY <1>4 DEF RInv, OInv, ContentsKnown, DeletedKnown
  <2>3. [id |-> work[v].id, content |-> r.content] \in AtWork(v)
    BY <2>1, <2>2 DEF AtWork
  <2>4. QED
    BY <1>1, <2>3
<1>5. cut \subseteq cut' /\ Gone \subseteq Gone' /\ cut' \subseteq Gone'
  BY <1>1 DEF Gone
<1>6. DeletedKnown' /\ VerdictInv'
  BY <1>2, Kinds DEF DeletedKnown, VerdictInv
<1>7. ASSUME NEW e, Backed(e) PROVE Backed(e)' \/ e.content \in Gone'
  <2>1. ASSUME NEW v \in Workers, Pending(work[v], e)
        PROVE  e.content \in cut'
    <3>1. PICK k \in work[v].new : work[v].docs[k] = e
      BY <2>1 DEF Pending
    <3>2. Adding(work[v]) /\ k \in DOMAIN work[v].docs
      BY <2>1 DEF Pending, Adding
    <3>3. QED
      BY <1>3, <3>1, <3>2
  <2>2. QED
    BY <1>1, <1>5, <1>7, <2>1 DEF Backed, DocOf
<1>8. CacheBacked'
  BY <1>1, <1>5, <1>7 DEF RInv, CacheBacked
<1>9. ASSUME NEW r, NEW v, Relating(r, v) PROVE Excepted(r)'
  <2>1. PICK u \in Workers : Adding(work[u]) /\ work[u].pc = "relate" /\ work[u].docs[1] = DocOf(r)
    BY <1>9 DEF Relating
  <2>2. 1 \in DOMAIN work[u].docs
    BY <2>1 DEF Adding
  <2>3. DocOf(r).content \in cut'
    BY <1>3, <2>1, <2>2
  <2>4. QED
    BY <2>3 DEF Excepted, DocOf
<1>10. ASSUME NEW r \in telemetry, Excepted(r) PROVE Excepted(r)'
  <2>1. r.content \in cut'
    BY <1>4, <1>5, <1>10 DEF Excepted, Dying
  <2>2. QED
    BY <2>1 DEF Excepted
<1>11. RowsFindable'
  <2>1. \A e, r : Linked(e, r) => Excepted(r)' \/ Linked(e, r)'
    BY <1>1, <1>9 DEF Linked
  <2>2. \A r : DocOf(r) \in embeddings \/ Relating(r, {}) => Excepted(r)' \/ DocOf(r) \in embeddings'
    BY <1>1, <1>9
  <2>3. QED
    BY <1>1, <1>5, <1>7, <1>10, <2>1, <2>2, RowsStay DEF RInv
<1>12. QED
  BY <1>6, <1>8, <1>11 DEF RInv

LEMMA RNextInv == ASSUME RInv, Unlinked, CallerIds = {}, [Next]_vars PROVE RInv'
<1>1. OInv'
  BY NextInv DEF RInv
<1>2. CASE UNCHANGED vars
  <2>1. UNCHANGED <<telemetry, embeddings, links, cache, work, deleted, cut>>
    BY <1>2 DEF vars, tables, history
  <2>2. DeletedKnown'
    BY <2>1 DEF RInv, DeletedKnown
  <2>3. \A e : Backed(e) <=> Backed(e)'
    BY <2>1 DEF Backed, DocOf
  <2>4. Gone' = Gone
    BY <2>1 DEF Gone
  <2>5. CacheBacked'
    BY <2>1, <2>3, <2>4 DEF RInv, CacheBacked
  <2>6. VerdictInv'
    BY <2>1 DEF RInv, VerdictInv, VerdictOf
  <2>7. ASSUME NEW r, Excepted(r) PROVE Excepted(r)'
    BY <2>1, <2>7 DEF Excepted, Dying
  <2>8. \A r, v : Relating(r, v) <=> Relating(r, v)'
    BY <2>1 DEF Relating, DocOf
  <2>9. \A e, r : Linked(e, r) <=> Linked(e, r)'
    BY <2>1, <2>8 DEF Linked
  <2>10. RowsFindable'
    BY <2>1, <2>3, <2>4, <2>7, <2>8, <2>9, RowsStay DEF RInv
  <2>11. QED
    BY <1>1, <2>2, <2>5, <2>6, <2>10 DEF RInv
<1>3. CASE Reopen
  BY <1>1, <1>3, RReopen
<1>4. ASSUME NEW w \in Workers,
             \/ \E d \in Doc : AddBegin(w, <<d>>, "add")
             \/ \E docs \in Batches : AddBegin(w, docs, "batch")
      PROVE  RInv'
  BY <1>1, <1>4, RAddBegin
<1>5. ASSUME NEW w \in Workers,
             \/ Select(w) \/ ReadLog(w) \/ WriteLog(w) \/ ReturnDuplicates(w) \/ Classify(w)
             \/ InsertRow(w) \/ Relate(w) \/ InsertBatch(w)
      PROVE  RInv'
  BY <1>1, <1>5, RSearching, RClassify, RInsertRow, RRelate, RInsertBatch
<1>6. ASSUME NEW w \in Workers,
             \/ \E id \in Ids : DeleteBegin(w, id)
             \/ DeleteLinks(w) \/ DeleteEmbedding(w) \/ DeleteRow(w) \/ DeleteLog(w)
      PROVE  RInv'
  BY <1>1, <1>6, RDeleteBegin, RDeletion, RDeleteLog
<1>7. QED
  BY <1>2, <1>3, <1>4, <1>5, <1>6 DEF Next

\* Through races, deletions the cache is not told of and a crash, a record
\* stays primary with its embedding stored, or linked to a primary that is,
\* unless the crash met it or the primary it is like was deleted: nothing is
\* orphaned by what the cache remembers wrongly (classify and relate,
\* observability.rs), with ids of generate_v7_at.
THEOREM RecordsStayReachable == ASSUME CallerIds = {} PROVE Spec => []RecordsAreReachable
<1>1. Init => RInv /\ Unlinked
  BY RInitInv DEF Init, Unlinked, Idle
<1>2. RInv /\ Unlinked /\ [Next]_vars => RInv' /\ Unlinked'
  BY RNextInv, NextUnlinked DEF RInv
<1>3. RInv => RecordsAreReachable
  BY RImplied
<1>4. QED
  BY <1>1, <1>2, <1>3, PTL DEF Spec
=============================================================================
