-------------------------- MODULE TemplatesProofs --------------------------
(***************************************************************************)
(* A parsed line keeps its cluster, a cluster is mapped to the document    *)
(* that holds its template, and what is reported stays among the recent    *)
(* templates, for any lines, threads, widths and windows.                  *)
(***************************************************************************)
EXTENDS Templates, FiniteSetTheorems, SequenceTheorems, WellFoundedInduction, TLAPS

Token == {Wild} \cup UNION {ToSet(line) : line \in Lines}

Line == Seq(Token) \ {<<>>}

ClusterRecord == [template : Line, leaf : Token]

-----------------------------------------------------------------------------
(* Sequences, and the greatest of finitely many numbers. *)

LEMMA AppendFacts ==
    ASSUME NEW S, NEW s \in Seq(S), NEW x
    PROVE  /\ Len(Append(s, x)) = Len(s) + 1
           /\ DOMAIN Append(s, x) = DOMAIN s \cup {Len(s) + 1}
           /\ \A i \in DOMAIN s : Append(s, x)[i] = s[i]
           /\ Append(s, x)[Len(s) + 1] = x
           /\ Len(s) + 1 \notin DOMAIN s
           /\ x \in S => Append(s, x) \in Seq(S)
           /\ ToSet(Append(s, x)) = ToSet(s) \cup {x}
<1>1. DOMAIN s = 1..Len(s) /\ Len(s) \in Nat
  OBVIOUS
<1>2. /\ Len(Append(s, x)) = Len(s) + 1
      /\ DOMAIN Append(s, x) = 1..(Len(s) + 1)
      /\ \A i \in 1..Len(s) : Append(s, x)[i] = s[i]
      /\ Append(s, x)[Len(s) + 1] = x
      /\ x \in S => Append(s, x) \in Seq(S)
  BY <1>1
<1>3. 1..(Len(s) + 1) = 1..Len(s) \cup {Len(s) + 1} /\ Len(s) + 1 \notin 1..Len(s)
  BY <1>1
<1>4. ToSet(Append(s, x)) = ToSet(s) \cup {x}
  BY <1>1, <1>2, <1>3 DEF ToSet
<1>5. QED
  BY <1>1, <1>2, <1>3, <1>4

LEMMA SeqFacts ==
    ASSUME NEW S, NEW s \in Seq(S)
    PROVE  /\ Len(s) \in Nat /\ DOMAIN s = 1..Len(s)
           /\ \A i \in DOMAIN s : s[i] \in S
           /\ \A x \in ToSet(s) : x \in S
           /\ s # <<>> => 1 \in DOMAIN s /\ Head(s) = s[1] /\ Head(s) \in S /\ Tail(s) \in Seq(S)
           /\ s # <<>> => Head(s) \in ToSet(s) /\ ToSet(Tail(s)) \subseteq ToSet(s)
<1>1. Len(s) \in Nat /\ DOMAIN s = 1..Len(s) /\ \A i \in DOMAIN s : s[i] \in S
  OBVIOUS
<1>2. \A x \in ToSet(s) : x \in S
  BY <1>1 DEF ToSet
<1>3. ASSUME s # <<>>
      PROVE  /\ 1 \in DOMAIN s /\ Head(s) = s[1] /\ Head(s) \in S /\ Tail(s) \in Seq(S)
             /\ Head(s) \in ToSet(s) /\ ToSet(Tail(s)) \subseteq ToSet(s)
  <2>1. Len(s) \in Nat \ {0} /\ 1 \in DOMAIN s
    BY <1>1, <1>3, EmptySeq
  <2>2. Head(s) = s[1]
    BY <2>1
  <2>3. /\ Tail(s) \in Seq(S) /\ Len(Tail(s)) = Len(s) - 1
        /\ \A i \in 1..Len(Tail(s)) : Tail(s)[i] = s[i + 1]
    BY <1>3, HeadTailProperties
  <2>4. ASSUME NEW i \in DOMAIN Tail(s)
        PROVE  Tail(s)[i] \in ToSet(s)
    <3>1. i \in 1..(Len(s) - 1)
      BY <2>3, <2>4
    <3>2. i + 1 \in DOMAIN s /\ Tail(s)[i] = s[i + 1]
      BY <3>1, <1>1, <2>3
    <3>3. QED
      BY <3>2 DEF ToSet
  <2>5. ToSet(Tail(s)) \subseteq ToSet(s)
    BY <2>4 DEF ToSet
  <2>6. QED
    BY <2>1, <2>2, <2>3, <2>5, <1>1 DEF ToSet
<1>4. QED
  BY <1>1, <1>2, <1>3

Less == {p \in Nat \X Nat : p[1] < p[2]}

LEMMA Least ==
    ASSUME NEW S, S \subseteq Nat, S # {}
    PROVE  \E i \in S : \A j \in S : i <= j
<1>1. IsWellFoundedOn(Less, Nat)
  BY NatLessThanWellFounded DEF OpToRel, Less
<1>2. PICK i \in S : \A j \in S : <<j, i>> \notin Less
  BY <1>1, WFMin
<1>3. \A j \in S : j \in Nat /\ i \in Nat /\ ~(j < i)
  BY <1>2 DEF Less
<1>4. QED
  BY <1>3

LEMMA Greatest ==
    ASSUME NEW n \in Nat, NEW S, S \subseteq 0..n, S # {}
    PROVE  \E i \in S : \A j \in S : j <= i
<1> DEFINE T == {n - i : i \in S}
<1>0. \A i \in S : i \in 0..n /\ n - i \in Nat
  OBVIOUS
<1>1. T \subseteq Nat /\ T # {}
  BY <1>0
<1>2. PICK t \in T : \A u \in T : t <= u
  BY <1>1, Least
<1>3. PICK i \in S : t = n - i
  OBVIOUS
<1>4. ASSUME NEW j \in S
      PROVE  j <= i
  <2>1. n - j \in T /\ i \in 0..n /\ j \in 0..n
    BY <1>4
  <2>2. n - i <= n - j
    BY <2>1, <1>2, <1>3
  <2>3. QED
    BY <2>1, <2>2
<1>5. QED
  BY <1>4

LEMMA UpTo ==
    ASSUME NEW n \in Nat
    PROVE  IsFiniteSet(1..n) /\ Cardinality(1..n) = n
<1>1. 1 \in Int /\ n \in Int
  OBVIOUS
<1>2. /\ IsFiniteSet(1..n)
      /\ Cardinality(1..n) = IF 1 > n THEN 0 ELSE n - 1 + 1
  BY <1>1, FS_Interval
<1>3. QED
  BY <1>2

-----------------------------------------------------------------------------
(* Similarity. *)

LEMMA EqualBounds ==
    ASSUME NEW template, NEW line \in Line
    PROVE  /\ Equal(template, line) \in 0..Len(line)
           /\ template = line => Equal(template, line) = Len(line)
<1> DEFINE E == {i \in DOMAIN line : template[i] = line[i]}
<1>1. DOMAIN line = 1..Len(line) /\ Len(line) \in Nat
  BY DEF Line
<1>2. IsFiniteSet(DOMAIN line) /\ Cardinality(DOMAIN line) = Len(line)
  BY <1>1, UpTo
<1>3. E \in SUBSET DOMAIN line
  OBVIOUS
<1>4. IsFiniteSet(E) /\ Cardinality(E) <= Len(line) /\ Cardinality(E) \in Nat
  BY <1>2, <1>3, FS_Subset, FS_CardinalityType
<1>5. template = line => E = DOMAIN line
  OBVIOUS
<1>6. QED
  BY <1>1, <1>2, <1>4, <1>5 DEF Equal

\* What agrees with one line in a template, and with another in a second one.
LEMMA EqualGrows ==
    ASSUME NEW template, NEW line \in Line, NEW other, NEW known \in Line,
           Len(known) = Len(line),
           \A i \in DOMAIN line : template[i] = line[i] => other[i] = known[i]
    PROVE  Equal(template, line) <= Equal(other, known)
<1> DEFINE E == {i \in DOMAIN line : template[i] = line[i]}
           F == {i \in DOMAIN known : other[i] = known[i]}
<1>1. DOMAIN line = 1..Len(line) /\ DOMAIN known = DOMAIN line /\ Len(line) \in Nat
  BY DEF Line
<1>2. E \in SUBSET F /\ F \in SUBSET DOMAIN line
  BY <1>1
<1>3. IsFiniteSet(F)
  BY <1>1, <1>2, UpTo, FS_Subset
<1>4. Cardinality(E) <= Cardinality(F)
  BY <1>2, <1>3, FS_Subset
<1>5. QED
  BY <1>4 DEF Equal

LEMMA GeneralisedCovers ==
    ASSUME NEW template \in Line, NEW line \in Line, Len(template) = Len(line)
    PROVE  /\ Generalised(template, line) \in Line
           /\ Len(Generalised(template, line)) = Len(line)
           /\ Covers(Generalised(template, line), line)
           /\ \A known \in Seq(Token) :
                 Covers(template, known) => Covers(Generalised(template, line), known)
<1> DEFINE G == Generalised(template, line)
<1>1. DOMAIN template = 1..Len(line) /\ DOMAIN line = 1..Len(line) /\ Len(line) \in Nat
  BY DEF Line
<1>2. Len(line) # 0
  BY EmptySeq DEF Line
<1>3. /\ G = [i \in 1..Len(line) |-> IF template[i] = line[i] THEN line[i] ELSE Wild]
  BY <1>1 DEF Generalised
<1>4. \A i \in 1..Len(line) : G[i] \in Token
  BY <1>1, <1>3 DEF Line, Token
<1>5. G \in [1..Len(line) -> Token]
  BY <1>3, <1>4
<1>6. G \in Seq(Token) /\ Len(G) = Len(line)
  BY <1>1, <1>5
<1>7. G \in Line
  BY <1>2, <1>6, <1>1, EmptySeq DEF Line
<1>8. Covers(G, line)
  BY <1>1, <1>3, <1>6 DEF Covers
<1>9. ASSUME NEW known \in Seq(Token), Covers(template, known)
      PROVE  Covers(G, known)
  <2>1. Len(known) = Len(line) /\ DOMAIN known = 1..Len(line)
    BY <1>9, <1>1 DEF Covers, Line
  <2>2. ASSUME NEW i \in DOMAIN known
        PROVE  G[i] \in {Wild, known[i]}
    <3>1. template[i] \in {Wild, known[i]}
      BY <1>9 DEF Covers
    <3>2. G[i] = IF template[i] = line[i] THEN line[i] ELSE Wild
      BY <1>3, <2>1
    <3>3. QED
      BY <3>1, <3>2
  <2>3. QED
    BY <2>1, <2>2, <1>6 DEF Covers
<1>10. QED
  BY <1>6, <1>7, <1>8, <1>9

\* A line without masked tokens that joins a cluster leaves the others of the
\* cluster similar enough to it.
LEMMA GeneralisedIsSimilar ==
    ASSUME NEW template \in Line, NEW line \in Line, Len(template) = Len(line),
           Wild \notin ToSet(line),
           NEW known \in Line, known = line \/ Covers(template, known)
    PROVE  Equal(template, line) <= Equal(Generalised(template, line), known)
<1>1. DOMAIN template = 1..Len(line) /\ DOMAIN line = 1..Len(line)
  BY DEF Line
<1>2. Len(known) = Len(line) /\ DOMAIN known = 1..Len(line)
  BY <1>1 DEF Line, Covers
<1>3. ASSUME NEW i \in DOMAIN line, template[i] = line[i]
      PROVE  Generalised(template, line)[i] = known[i]
  <2>1. Generalised(template, line)[i] = line[i]
    BY <1>1, <1>3 DEF Generalised
  <2>2. line[i] # Wild
    BY DEF ToSet
  <2>3. CASE known = line
    BY <2>1, <2>3
  <2>4. CASE Covers(template, known)
    <3>1. template[i] \in {Wild, known[i]}
      BY <1>1, <1>2, <2>4 DEF Covers
    <3>2. QED
      BY <2>1, <2>2, <3>1, <1>3
  <2>5. QED
    BY <2>3, <2>4
<1>4. QED
  BY <1>2, <1>3, EqualGrows

-----------------------------------------------------------------------------
(* The tree.  Its operators, of any clusters. *)

ChildrenOf(tree, n) == {c.leaf : c \in {d \in ToSet(tree) : Len(d.template) = n}}

LeafIn(tree, line) ==
    LET children == ChildrenOf(tree, Len(line))
    IN  IF line[1] \in children \/ Cardinality(children) < MaxChildren
        THEN line[1] ELSE Wild

LEMMA TreeIs ==
    ASSUME NEW line
    PROVE  /\ Leaf(line) = LeafIn(clusters, line)
           /\ Leaf(line)' = LeafIn(clusters', line)
<1>1. Leaf(line) = LeafIn(clusters, line)
  BY DEF Leaf, LeafIn, Children, ChildrenOf
<1>2. Leaf(line)' = LeafIn(clusters', line)
  BY DEF Leaf, LeafIn, Children, ChildrenOf
<1>3. QED
  BY <1>1, <1>2

LEMMA FiniteChildren ==
    ASSUME NEW tree \in Seq(ClusterRecord), NEW n
    PROVE  IsFiniteSet(ChildrenOf(tree, n)) /\ Cardinality(ChildrenOf(tree, n)) \in Nat
<1> DEFINE D == {i \in DOMAIN tree : Len(tree[i].template) = n}
           f == [i \in D |-> tree[i].leaf]
<1>1. IsFiniteSet(D)
  <2>1. DOMAIN tree = 1..Len(tree) /\ Len(tree) \in Nat
    OBVIOUS
  <2>2. D \in SUBSET (1..Len(tree))
    BY <2>1
  <2>3. QED
    BY <2>1, <2>2, UpTo, FS_Subset
<1>2. f \in Surjection(D, ChildrenOf(tree, n))
  BY DEF Surjection, ChildrenOf, ToSet
<1>3. QED
  BY <1>1, <1>2, FS_Surjection, FS_CardinalityType

\* A new cluster adds its leaf.
LEMMA ChildrenGrow ==
    ASSUME NEW tree \in Seq(ClusterRecord), NEW c \in ClusterRecord, NEW n
    PROVE  ChildrenOf(Append(tree, c), n) =
              IF Len(c.template) = n THEN ChildrenOf(tree, n) \cup {c.leaf}
              ELSE ChildrenOf(tree, n)
<1>1. ToSet(Append(tree, c)) = ToSet(tree) \cup {c}
  BY AppendFacts
<1>2. QED
  BY <1>1 DEF ChildrenOf

\* A line whose leaf is there goes to it however the tree grows: it has the
\* place of its first token, or the bucket of a full node.
LEMMA LeafStays ==
    ASSUME NEW tree \in Seq(ClusterRecord), NEW line \in Line, NEW known,
           NEW c \in ClusterRecord, c.template = line, c.leaf = LeafIn(tree, line),
           LeafIn(tree, known) \in ChildrenOf(tree, Len(known))
    PROVE  LeafIn(Append(tree, c), known) = LeafIn(tree, known)
<1> DEFINE C == ChildrenOf(tree, Len(known))
           D == ChildrenOf(Append(tree, c), Len(known))
<1>1. D = IF Len(line) = Len(known) THEN C \cup {c.leaf} ELSE C
  BY ChildrenGrow
<1>2. CASE known[1] \in C
  BY <1>1, <1>2 DEF LeafIn
<1>3. CASE known[1] \notin C
  <2>1. Wild \in C /\ ~(Cardinality(C) < MaxChildren) /\ LeafIn(tree, known) = Wild
    BY <1>3 DEF LeafIn
  <2>2. Len(line) = Len(known) => c.leaf \in C
    BY <2>1 DEF LeafIn
  <2>3. D = C
    BY <1>1, <2>2
  <2>4. QED
    BY <2>1, <2>3, <1>3 DEF LeafIn
<1>4. QED
  BY <1>2, <1>3

\* So does the line of the new cluster.
LEMMA LeafIsFound ==
    ASSUME TemplatesAssumption,
           NEW tree \in Seq(ClusterRecord), NEW line \in Line,
           NEW c \in ClusterRecord, c.template = line, c.leaf = LeafIn(tree, line)
    PROVE  LeafIn(Append(tree, c), line) = LeafIn(tree, line)
<1> DEFINE C == ChildrenOf(tree, Len(line))
           D == ChildrenOf(Append(tree, c), Len(line))
<1>1. D = C \cup {c.leaf}
  BY ChildrenGrow
<1>2. CASE line[1] \in C \/ Cardinality(C) < MaxChildren
  <2>1. LeafIn(tree, line) = line[1]
    BY <1>2 DEF LeafIn
  <2>2. line[1] \in D
    BY <2>1, <1>1
  <2>3. QED
    BY <2>1, <2>2 DEF LeafIn
<1>3. CASE ~(line[1] \in C \/ Cardinality(C) < MaxChildren)
  <2>1. LeafIn(tree, line) = Wild
    BY <1>3 DEF LeafIn
  <2>2. IsFiniteSet(C) /\ Cardinality(C) \in Nat /\ MaxChildren \in Nat
    BY FiniteChildren DEF TemplatesAssumption
  <2>3. Cardinality(D) >= Cardinality(C) /\ Cardinality(D) \in Nat
    <3>1. Cardinality(C \cup {c.leaf}) = IF c.leaf \in C THEN Cardinality(C) ELSE Cardinality(C) + 1
      BY <2>2, FS_AddElement
    <3>2. QED
      BY <1>1, <2>2, <3>1
  <2>4. ~(Cardinality(D) < MaxChildren)
    BY <1>3, <2>2, <2>3
  <2>5. line[1] \in D => line[1] = Wild
    BY <1>1, <1>3, <2>1
  <2>6. QED
    BY <2>1, <2>4, <2>5 DEF LeafIn
<1>4. QED
  BY <1>2, <1>3

\* A cluster that changes its template but not its length stays in place.
LEMMA ChildrenStay ==
    ASSUME NEW tree \in Seq(ClusterRecord), NEW k \in DOMAIN tree, NEW template \in Line,
           Len(template) = Len(tree[k].template), NEW n
    PROVE  ChildrenOf([tree EXCEPT ![k].template = template], n) = ChildrenOf(tree, n)
<1> DEFINE next == [tree EXCEPT ![k].template = template]
<1>1. DOMAIN next = DOMAIN tree
  OBVIOUS
<1>2. \A i \in DOMAIN tree :
         next[i].leaf = tree[i].leaf /\ Len(next[i].template) = Len(tree[i].template)
  <2>1. \A i \in DOMAIN tree : tree[i] \in ClusterRecord
    BY SeqFacts
  <2>2. \A i \in DOMAIN tree :
           next[i] = IF i = k THEN [tree[k] EXCEPT !.template = template] ELSE tree[i]
    OBVIOUS
  <2>3. QED
    BY <2>1, <2>2 DEF ClusterRecord
<1> HIDE DEF next
<1>3. ASSUME NEW x
      PROVE  x \in ChildrenOf(next, n) <=> x \in ChildrenOf(tree, n)
  <2>1. x \in ChildrenOf(next, n)
           <=> \E i \in DOMAIN next : Len(next[i].template) = n /\ x = next[i].leaf
    BY DEF ChildrenOf, ToSet
  <2>2. x \in ChildrenOf(tree, n)
           <=> \E i \in DOMAIN tree : Len(tree[i].template) = n /\ x = tree[i].leaf
    BY DEF ChildrenOf, ToSet
  <2>3. QED
    BY <1>1, <1>2, <2>1, <2>2
<1>4. ChildrenOf(next, n) = ChildrenOf(tree, n)
  BY <1>3
<1>5. QED
  BY <1>4 DEF next

-----------------------------------------------------------------------------
(* The best match is one. *)

LEMMA BestMatches ==
    ASSUME clusters \in Seq(ClusterRecord), NEW line \in Line, Matches(line) # {}
    PROVE  Best(line) \in Matches(line)
<1> DEFINE M == Matches(line)
           E(k) == Equal(clusters[k].template, line)
           V == {E(k) : k \in M}
<1>1. \A k \in M : E(k) \in 0..Len(line)
  BY EqualBounds
<1>2. Len(line) \in Nat
  BY DEF Line
<1>3. V # {} /\ V \subseteq 0..Len(line)
  BY <1>1
<1>4. PICK e \in V : \A f \in V : f <= e
  BY <1>2, <1>3, Greatest
<1> DEFINE S == {k \in M : E(k) = e}
<1>5. S # {} /\ S \subseteq 0..Len(clusters) /\ Len(clusters) \in Nat
  BY DEF Matches
<1>6. PICK k \in S : \A j \in S : j <= k
  <2> HIDE DEF S
  <2> QED
    BY <1>5, Greatest
<1>7. ASSUME NEW j \in M
      PROVE  E(k) > E(j) \/ (E(k) = E(j) /\ k >= j)
  <2>1. E(j) <= e /\ E(j) \in Nat /\ e \in Nat /\ E(k) = e
    BY <1>1, <1>2, <1>3, <1>4
  <2>2. E(j) = e => j <= k
    BY <1>6
  <2>3. k \in Nat /\ j \in Nat
    BY <1>5, <1>7 DEF Matches
  <2>4. QED
    BY <2>1, <2>2, <2>3
<1>8. k \in Matches(line)
  OBVIOUS
<1>9. QED
  BY <1>7, <1>8 DEF Best

-----------------------------------------------------------------------------
(* What the state can be. *)

Document == [line : Lines, ts : Nat]

TemplateRecord == [name : Line, ts : Nat, deleted : BOOLEAN]

Call ==
    [pc : {"parse", "map", "observe", "store"}, kind : {"add", "batch"},
     docs : Seq(Document), todo : Seq(Document),
     new : Seq(Nat \X Nat), seen : SUBSET (Nat \X Document)]

\* The mappings a thread has to make, and the clusters its call has matched.
New(w) == IF work[w] = Idle THEN {} ELSE ToSet(work[w].new)
Seen(w) == IF work[w] = Idle THEN {} ELSE work[w].seen

CallOK(w) ==
    /\ work[w].pc = "parse" => work[w].todo # <<>>
    /\ work[w].pc \in {"observe", "store"} => work[w].new = <<>>
    /\ \A d \in ToSet(work[w].docs) : d.ts <= now

TypeOK ==
    /\ clusters \in Seq(ClusterRecord)
    /\ \A k \in DOMAIN map : map[k] \in DOMAIN templates
    /\ seeds \in Seq(DOMAIN templates)
    /\ templates \in Seq(TemplateRecord)
    /\ work \in [Workers -> {Idle} \cup Call]
    /\ now \in Nat
    /\ reported \subseteq Document
    /\ parsed \subseteq Lines \cap Line

\* The parser is seeded before anybody uses it.
SeedInv ==
    seeds # <<>> =>
        /\ \A w \in Workers : work[w] = Idle
        /\ parsed = {}
        /\ DOMAIN map = DOMAIN clusters
        /\ map \in Seq(DOMAIN templates)

WorkInv ==
    \A w \in Workers : work[w] # Idle =>
        /\ CallOK(w)
        /\ \A m \in New(w) : m[2] \in DOMAIN templates

StateInv == TypeOK /\ SeedInv /\ WorkInv

\* The mapping that a thread will leave for a cluster.
WillMap(w, k) ==
    \E m \in New(w) :
        /\ m[1] = k /\ templates[m[2]].name = clusters[k].template
        /\ \A n \in New(w) : n[1] = k => n[2] <= m[2]

IsMapped(k) == k \in DOMAIN map /\ templates[map[k]].name = clusters[k].template

\* A cluster is mapped to the document of its template, or the only thread
\* that has a mapping for it will see to that.
MapInv ==
    \A k \in DOMAIN clusters \ troubled :
        \/ IsMapped(k) /\ \A w \in Workers : k \notin Pending(w)
        \/ \E w \in Workers :
              WillMap(w, k) /\ \A v \in Workers \ {w} : k \notin Pending(v)

\* Whoever has matched a line has it covered, by the cluster, and by the
\* document of the cluster unless its mapping is still to be made.
SeenInv ==
    \A w \in Workers : \A m \in Seen(w) :
        /\ m[1] \in DOMAIN clusters
        /\ Covers(clusters[m[1]].template, m[2].line)
        /\ m[1] \notin troubled =>
              \/ m[1] \in Pending(w)
              \/ m[1] \in DOMAIN map /\ Covers(templates[map[m[1]]].name, m[2].line)

\* What is reported has a document, observed not before it and in its shard.
IsObserved(d, id) ==
    \/ templates[id].deleted
    \/ \E o \in observations :
          o.id = id /\ o.at \in Nat /\ o.at >= d.ts /\ o.shard = Shard(d.ts)

ReportedInv ==
    \A d \in reported : \E id \in DOMAIN templates :
        Covers(templates[id].name, d.line) /\ IsObserved(d, id)

Knows(k, line) ==
    /\ Len(clusters[k].template) = Len(line)
    /\ clusters[k].leaf = Leaf(line)
    /\ Covers(clusters[k].template, line)
    /\ 2 * Equal(clusters[k].template, line) >= Len(line)

KnownInv ==
    (\A line \in parsed : Wild \notin ToSet(line)) =>
        \A line \in parsed : \E k \in DOMAIN clusters : Knows(k, line)

IInv == StateInv /\ MapInv /\ SeenInv /\ ReportedInv /\ KnownInv

-----------------------------------------------------------------------------
(* A line is parsed. *)

LEMMA LinesAreLines ==
    ASSUME TemplatesAssumption
    PROVE  /\ \A line \in Lines : line \in Seq(Token) /\ (line # <<>> => line \in Line)
           /\ \A d \in Document : d.line \in Lines /\ d.line \in Seq(Token) /\ d.ts \in Nat
<1>1. ASSUME NEW line \in Lines
      PROVE  line \in Seq(Token)
  <2>1. line \in Seq(ToSet(line)) /\ ToSet(line) \subseteq Token
    BY DEF TemplatesAssumption, Token
  <2>2. QED
    BY <2>1, SeqMonotonic
<1>2. QED
  BY <1>1 DEF Line, Document

\* The cluster of a line, and the template it gets.
Chosen(line, k, template) ==
    \/ Matches(line) = {} /\ k = Len(clusters) + 1 /\ template = line
    \/ k \in Matches(line) /\ template = Generalised(clusters[k].template, line)

LEMMA CallOf ==
    ASSUME StateInv, NEW w \in Workers, work[w].pc # "idle"
    PROVE  work[w] \in Call /\ work[w] # Idle /\ CallOK(w)
<1>1. work[w] \in {Idle} \cup Call
  BY DEF StateInv, TypeOK
<1>2. work[w] # Idle
  BY DEF Idle
<1>3. QED
  BY <1>1, <1>2 DEF StateInv, WorkInv

LEMMA ParseChooses ==
    ASSUME TemplatesAssumption, StateInv, NEW w \in Workers, Parse(w)
    PROVE  /\ work[w] \in Call /\ work[w] # Idle /\ CallOK(w)
           /\ work[w].todo # <<>> /\ Head(work[w].todo) \in Document
           /\ Head(work[w].todo).line \in Line
           /\ \E k, template, outcome :
                 /\ Chosen(Head(work[w].todo).line, k, template)
                 /\ ParseAs(w, k, template, outcome)
           /\ UNCHANGED <<poisoned, map, seeds, now, calls, reported, lost>>
<1> DEFINE line == Head(work[w].todo).line
<1>1. work[w].pc = "parse" /\ line # <<>>
  BY DEF Parse
<1>2. work[w] \in Call /\ work[w] # Idle /\ CallOK(w) /\ work[w].todo # <<>>
  BY <1>1, CallOf DEF CallOK
<1>3. Head(work[w].todo) \in Document
  BY <1>2, SeqFacts DEF Call
<1>4. line \in Line
  BY <1>1, <1>3, LinesAreLines
<1>5. clusters \in Seq(ClusterRecord)
  BY DEF StateInv, TypeOK
<1>6. PICK outcome :
        IF Matches(line) = {}
        THEN ParseAs(w, Len(clusters) + 1, line, outcome)
        ELSE ParseAs(w, Best(line), Generalised(clusters[Best(line)].template, line), outcome)
  BY DEF Parse
<1>7. CASE Matches(line) = {}
  BY <1>1, <1>2, <1>3, <1>4, <1>6, <1>7 DEF Chosen, Parse
<1>8. CASE Matches(line) # {}
  <2>1. Best(line) \in Matches(line)
    BY <1>4, <1>5, <1>8, BestMatches
  <2>2. Chosen(line, Best(line), Generalised(clusters[Best(line)].template, line))
    BY <2>1 DEF Chosen
  <2>3. QED
    BY <1>1, <1>2, <1>3, <1>4, <1>6, <1>8, <2>2 DEF Parse
<1>9. QED
  BY <1>7, <1>8

LEMMA LeafType ==
    ASSUME NEW tree, NEW line \in Line
    PROVE  LeafIn(tree, line) \in Token
<1>1. line[1] \in Token
  BY SeqFacts DEF Line
<1>2. QED
  BY <1>1 DEF LeafIn, Token

\* What becomes of the clusters: one is added for the line, or one of its leaf
\* is generalised.
Added(line, k) ==
    /\ k \notin DOMAIN clusters /\ k = Len(clusters) + 1
    /\ clusters' = Append(clusters, Cluster(line))
    /\ Cluster(line) \in ClusterRecord

Widened(line, k, template) ==
    /\ k \in DOMAIN clusters /\ k \in Matches(line)
    /\ template = Generalised(clusters[k].template, line)
    /\ clusters' = [clusters EXCEPT ![k].template = template]
    /\ clusters'[k].leaf = clusters[k].leaf

Learned(line, k, template) ==
    /\ DOMAIN clusters' = DOMAIN clusters \cup {k}
    /\ clusters'[k].template = template /\ Covers(template, line)
    /\ \A j \in DOMAIN clusters \ {k} : clusters'[j] = clusters[j]
    /\ \A j \in DOMAIN clusters : \A known \in Seq(Token) :
          Covers(clusters[j].template, known) => Covers(clusters'[j].template, known)

LEMMA ParseClusters ==
    ASSUME TemplatesAssumption, StateInv, NEW w \in Workers, NEW k, NEW template, NEW outcome,
           NEW line \in Line, Chosen(line, k, template), ParseAs(w, k, template, outcome)
    PROVE  /\ clusters' \in Seq(ClusterRecord)
           /\ k \in Nat /\ template \in Line /\ Len(template) = Len(line)
           /\ Learned(line, k, template)
           /\ Added(line, k) \/ Widened(line, k, template)
<1>1. clusters \in Seq(ClusterRecord) /\ DOMAIN clusters = 1..Len(clusters) /\ Len(clusters) \in Nat
  BY DEF StateInv, TypeOK
<1>2. clusters' = IF k \in DOMAIN clusters
                  THEN [clusters EXCEPT ![k].template = template]
                  ELSE Append(clusters, Cluster(template))
  BY DEF ParseAs
<1>3. CASE Matches(line) = {} /\ k = Len(clusters) + 1 /\ template = line
  <2>1. k \notin DOMAIN clusters /\ k \in Nat
    BY <1>1, <1>3
  <2>2. Cluster(line) \in ClusterRecord
    BY LeafType, TreeIs DEF Cluster, ClusterRecord
  <2>3. clusters' = Append(clusters, Cluster(line))
    BY <1>2, <1>3, <2>1
  <2>4. /\ DOMAIN clusters' = DOMAIN clusters \cup {k}
        /\ \A j \in DOMAIN clusters : clusters'[j] = clusters[j]
        /\ clusters'[k] = Cluster(line)
        /\ clusters' \in Seq(ClusterRecord)
    BY <1>1, <1>3, <2>2, <2>3, AppendFacts
  <2>5. Covers(line, line)
    BY DEF Covers
  <2>6. clusters'[k].template = template
    BY <2>4, <1>3 DEF Cluster
  <2>7. QED
    BY <1>3, <2>1, <2>2, <2>3, <2>4, <2>5, <2>6 DEF Learned, Added
<1>4. CASE k \in Matches(line) /\ template = Generalised(clusters[k].template, line)
  <2>1. k \in DOMAIN clusters /\ k \in Nat /\ Len(clusters[k].template) = Len(line)
    BY <1>1, <1>4 DEF Matches
  <2>2. \A j \in DOMAIN clusters : clusters[j] \in ClusterRecord
    BY <1>1
  <2>3. clusters[k].template \in Line
    BY <2>1, <2>2 DEF ClusterRecord
  <2>4. /\ template \in Line /\ Len(template) = Len(line) /\ Covers(template, line)
        /\ \A known \in Seq(Token) :
              Covers(clusters[k].template, known) => Covers(template, known)
    BY <1>4, <2>1, <2>3, GeneralisedCovers
  <2>5. clusters' = [clusters EXCEPT ![k].template = template]
    BY <1>2, <2>1
  <2>6. /\ DOMAIN clusters' = DOMAIN clusters
        /\ \A j \in DOMAIN clusters \ {k} : clusters'[j] = clusters[j]
        /\ clusters'[k] = [clusters[k] EXCEPT !.template = template]
    BY <2>1, <2>5
  <2>7. clusters'[k] \in ClusterRecord /\ clusters'[k].template = template
        /\ clusters'[k].leaf = clusters[k].leaf
    BY <2>1, <2>2, <2>4, <2>6 DEF ClusterRecord
  <2>8. clusters' \in Seq(ClusterRecord)
    <3>1. \A j \in 1..Len(clusters) : clusters'[j] \in ClusterRecord
      BY <1>1, <2>2, <2>6, <2>7
    <3>2. clusters' \in [1..Len(clusters) -> ClusterRecord]
      BY <3>1, <2>5, <1>1
    <3>3. QED
      BY <3>2, <1>1
  <2>9. Learned(line, k, template)
    BY <2>1, <2>4, <2>6, <2>7 DEF Learned
  <2>10. Widened(line, k, template)
    BY <1>4, <2>1, <2>5, <2>7 DEF Widened
  <2>11. QED
    BY <2>1, <2>4, <2>8, <2>9, <2>10
<1>5. QED
  BY <1>3, <1>4 DEF Chosen

\* What becomes of the call, the documents and the history.  A mapping is made
\* of what is stored; a cluster that is not troubled is stored by nobody else,
\* and its mapping is made unless its template is as it was.
Record(w, k, template) == /\ New(w)' = New(w) \cup {<<k, Len(templates) + 1>>}
                          /\ Len(templates) + 1 \in DOMAIN templates'
                          /\ templates'[Len(templates) + 1].name = template

LEMMA ParseCall ==
    ASSUME StateInv, NEW w \in Workers, NEW k \in Nat, NEW template \in Line, NEW outcome,
           ParseAs(w, k, template, outcome),
           work[w] \in Call, work[w] # Idle, work[w].todo # <<>>,
           Head(work[w].todo) \in Document
    PROVE  /\ work'[w] \in Call /\ work'[w] # Idle
           /\ work'[w].pc = "parse" => work'[w].todo # <<>>
           /\ work'[w].pc \in {"observe", "store"} => work'[w].new = <<>>
           /\ work'[w].docs = work[w].docs
           /\ work' \in [Workers -> {Idle} \cup Call]
           /\ \A v \in Workers \ {w} : work'[v] = work[v]
           /\ templates' \in Seq(TemplateRecord)
           /\ \A i \in DOMAIN templates : i \in DOMAIN templates' /\ templates'[i] = templates[i]
           /\ New(w)' = New(w) \/ Record(w, k, template)
           /\ Seen(w)' \in {Seen(w), Seen(w) \cup {<<k, Head(work[w].todo)>>}}
           /\ troubled' \in {troubled, troubled \cup {k}}
           /\ k \notin troubled' =>
                 /\ \A v \in Workers \ {w} : k \notin Pending(v)
                 /\ \/ Record(w, k, template)
                    \/ New(w)' = New(w) /\ k \in DOMAIN clusters /\ template = clusters[k].template
           /\ observations \subseteq observations'
           /\ parsed' = parsed \cup {Head(work[w].todo).line}
<1> DEFINE d == Head(work[w].todo)
           store == IF k \in DOMAIN clusters THEN clusters[k].template # template ELSE TRUE
           id == Len(templates) + 1
           ok == outcome = "stored"
           new == IF store /\ ok THEN Append(work[w].new, <<k, id>>) ELSE work[w].new
           seen == IF ok THEN work[w].seen \cup {<<k, d>>} ELSE work[w].seen
           call == [work[w] EXCEPT !.todo = Tail(@), !.new = new, !.seen = seen]
           pc == AfterParse(call)
<1>1. /\ templates' = IF store /\ outcome # "failed"
                      THEN Append(templates, [name |-> template, ts |-> d.ts, deleted |-> FALSE])
                      ELSE templates
      /\ observations' = IF store /\ ok
                         THEN observations \cup {[id |-> id, at |-> d.ts, shard |-> Shard(d.ts)]}
                         ELSE observations
      /\ work' = [work EXCEPT ![w] = [call EXCEPT !.pc = pc]]
      /\ troubled' = IF ok /\ \A v \in Workers \ {w} : k \notin Pending(v)
                     THEN troubled ELSE troubled \cup {k}
      /\ parsed' = parsed \cup {d.line}
  BY DEF ParseAs
<1>2. /\ templates \in Seq(TemplateRecord) /\ Len(templates) \in Nat
      /\ work \in [Workers -> {Idle} \cup Call]
      /\ DOMAIN templates = 1..Len(templates)
  BY DEF StateInv, TypeOK
<1>3. [name |-> template, ts |-> d.ts, deleted |-> FALSE] \in TemplateRecord
  BY DEF TemplateRecord, Document
<1>4. /\ templates' \in Seq(TemplateRecord)
      /\ \A i \in DOMAIN templates : i \in DOMAIN templates' /\ templates'[i] = templates[i]
      /\ store /\ ok => id \in DOMAIN templates' /\ templates'[id].name = template
  BY <1>1, <1>2, <1>3, AppendFacts
<1>5. /\ work[w].new \in Seq(Nat \X Nat) /\ work[w].seen \in SUBSET (Nat \X Document)
      /\ work[w].todo \in Seq(Document) /\ Tail(work[w].todo) \in Seq(Document)
  <2>1. /\ work[w].new \in Seq(Nat \X Nat) /\ work[w].seen \in SUBSET (Nat \X Document)
        /\ work[w].todo \in Seq(Document)
    BY DEF Call
  <2>2. QED
    BY <2>1, SeqFacts
<1>6. /\ new \in Seq(Nat \X Nat) /\ seen \in SUBSET (Nat \X Document)
      /\ ToSet(new) = IF store /\ ok THEN ToSet(work[w].new) \cup {<<k, id>>}
                      ELSE ToSet(work[w].new)
  <2>1. <<k, id>> \in Nat \X Nat /\ <<k, d>> \in Nat \X Document
    BY <1>2
  <2>2. /\ Append(work[w].new, <<k, id>>) \in Seq(Nat \X Nat)
        /\ ToSet(Append(work[w].new, <<k, id>>)) = ToSet(work[w].new) \cup {<<k, id>>}
    BY <1>5, <2>1, AppendFacts
  <2>3. seen \in SUBSET (Nat \X Document)
    BY <1>5, <2>1
  <2>4. QED
    BY <1>5, <2>2, <2>3
<1> HIDE DEF new, seen, store, ok, id, d
<1>7. /\ call.todo = Tail(work[w].todo) /\ call.new = new /\ call.seen = seen
      /\ call.kind = work[w].kind /\ call.docs = work[w].docs
      /\ call \in Call /\ work[w].kind \in {"add", "batch"}
  BY <1>5, <1>6 DEF Call
<1>8. /\ pc \in {"parse", "map", "observe", "store"}
      /\ pc = "parse" => call.todo # <<>>
      /\ pc \in {"observe", "store"} => call.new = <<>>
  BY <1>7 DEF AfterParse
<1> HIDE DEF call, pc
<1>9. /\ [call EXCEPT !.pc = pc] \in Call
      /\ [call EXCEPT !.pc = pc].pc = pc
      /\ [call EXCEPT !.pc = pc].todo = call.todo
      /\ [call EXCEPT !.pc = pc].new = call.new
      /\ [call EXCEPT !.pc = pc].seen = call.seen
      /\ [call EXCEPT !.pc = pc].docs = call.docs
  BY <1>7, <1>8 DEF Call
<1>10. /\ work'[w] = [call EXCEPT !.pc = pc]
       /\ \A v \in Workers \ {w} : work'[v] = work[v]
       /\ work' \in [Workers -> {Idle} \cup Call]
  BY <1>1, <1>2, <1>9
<1>11. work'[w] # Idle
  BY <1>8, <1>9, <1>10 DEF Idle
<1>12. /\ New(w)' = IF store /\ ok THEN New(w) \cup {<<k, id>>} ELSE New(w)
       /\ Seen(w)' = IF ok THEN Seen(w) \cup {<<k, d>>} ELSE Seen(w)
  BY <1>6, <1>7, <1>9, <1>10, <1>11 DEF New, Seen, seen
<1>13. store /\ ok => Record(w, k, template)
  BY <1>4, <1>12 DEF Record, id
<1>14. ~store => k \in DOMAIN clusters /\ template = clusters[k].template
  BY DEF store
<1>15. observations \subseteq observations'
  BY <1>1 DEF store, ok
<1>16. /\ troubled' \in {troubled, troubled \cup {k}}
       /\ parsed' = parsed \cup {d.line}
  BY <1>1 DEF d
<1>17. k \notin troubled' => ok /\ \A v \in Workers \ {w} : k \notin Pending(v)
  BY <1>1 DEF ok
<1>18. /\ New(w)' = New(w) \/ Record(w, k, template)
       /\ Seen(w)' \in {Seen(w), Seen(w) \cup {<<k, d>>}}
       /\ k \notin troubled' =>
             /\ \A v \in Workers \ {w} : k \notin Pending(v)
             /\ \/ Record(w, k, template)
                \/ New(w)' = New(w) /\ k \in DOMAIN clusters /\ template = clusters[k].template
  BY <1>12, <1>13, <1>14, <1>17
<1>19. QED
  BY <1>4, <1>7, <1>8, <1>9, <1>10, <1>11, <1>15, <1>16, <1>18 DEF d

-----------------------------------------------------------------------------
(* The shape of the state is kept. *)

LEMMA PendingIs ==
    ASSUME NEW w
    PROVE  /\ Pending(w) = {m[1] : m \in New(w)}
           /\ Pending(w)' = {m[1] : m \in New(w)'}
<1>1. Pending(w) = {m[1] : m \in New(w)}
  <2>1. CASE work[w] = Idle
    BY <2>1 DEF Pending, New
  <2>2. CASE work[w] # Idle
    BY <2>2 DEF Pending, New
  <2>3. QED
    BY <2>1, <2>2
<1>2. Pending(w)' = {m[1] : m \in New(w)'}
  <2>1. CASE work'[w] = Idle
    BY <2>1 DEF Pending, New, Idle
  <2>2. CASE work'[w] # Idle
    BY <2>2 DEF Pending, New, Idle
  <2>3. QED
    BY <2>1, <2>2
<1>3. QED
  BY <1>1, <1>2

LEMMA Same ==
    ASSUME NEW v, work'[v] = work[v]
    PROVE  New(v)' = New(v) /\ Seen(v)' = Seen(v) /\ Pending(v)' = Pending(v)
BY DEF New, Seen, Pending, Idle

LEMMA Nothing ==
    ASSUME NEW v, work'[v] = Idle
    PROVE  New(v)' = {} /\ Seen(v)' = {} /\ Pending(v)' = {}
BY DEF New, Seen, Pending, Idle

\* A call that does not move is as it was, while time may pass and documents
\* be added.
LEMMA CallStays ==
    ASSUME StateInv, NEW v \in Workers, work'[v] = work[v], work[v] # Idle,
           now' \in Nat, now' >= now,
           \A i \in DOMAIN templates : i \in DOMAIN templates'
    PROVE  CallOK(v)' /\ \A m \in New(v)' : m[2] \in DOMAIN templates'
<1>1. CallOK(v) /\ \A m \in New(v) : m[2] \in DOMAIN templates
  BY DEF StateInv, WorkInv
<1>2. \A m \in New(v)' : m[2] \in DOMAIN templates'
  BY <1>1, Same
<1>3. work[v] \in Call
  BY DEF StateInv, TypeOK
<1>4. \A d \in ToSet(work[v].docs) : d.ts \in Nat /\ d.ts <= now
  <2>1. work[v].docs \in Seq(Document)
    BY <1>3 DEF Call
  <2>2. \A d \in ToSet(work[v].docs) : d \in Document
    BY <2>1, SeqFacts
  <2>3. QED
    BY <1>1, <2>2 DEF CallOK, Document
<1>5. \A d \in ToSet(work[v].docs) : d.ts <= now'
  BY <1>4 DEF StateInv, TypeOK
<1>6. QED
  BY <1>1, <1>2, <1>5 DEF CallOK

LEMMA OthersStay ==
    ASSUME StateInv, NEW w, \A v \in Workers \ {w} : work'[v] = work[v],
           now' \in Nat, now' >= now,
           \A i \in DOMAIN templates : i \in DOMAIN templates'
    PROVE  \A v \in Workers \ {w} : work'[v] # Idle =>
              CallOK(v)' /\ \A m \in New(v)' : m[2] \in DOMAIN templates'
BY CallStays

LEMMA BeginState ==
    ASSUME TemplatesAssumption, StateInv, NEW w \in Workers, Ready(w),
           NEW docs, NEW kind \in {"add", "batch"}, docs # <<>>,
           docs \in Seq(Docs), Begin(w, docs, kind)
    PROVE  StateInv' /\ New(w) = {} /\ New(w)' = {} /\ Seen(w)' = {}
<1>1. /\ work[w] = Idle /\ seeds = <<>> /\ work \in [Workers -> {Idle} \cup Call] /\ now \in Nat
  BY DEF Ready, StateInv, TypeOK
<1> DEFINE call == [pc   |-> IF poisoned THEN "store" ELSE "parse",
                    kind |-> kind, docs |-> docs, todo |-> docs,
                    new |-> <<>>, seen |-> {}]
<1>2. /\ work' = [work EXCEPT ![w] = call]
      /\ UNCHANGED <<clusters, map, seeds, templates, observations, now, reported, parsed>>
  BY DEF Begin, tables, history
<1>3. \A d \in Docs : d \in Document /\ d.ts <= now
  BY <1>1 DEF Docs, Document
<1>4. docs \in Seq(Document)
  BY <1>3, SeqMonotonic
<1>5. call \in Call
  BY <1>4 DEF Call
<1>6. work'[w] = call /\ work'[w] # Idle
      /\ (\A v \in Workers \ {w} : work'[v] = work[v])
      /\ work' \in [Workers -> {Idle} \cup Call]
  BY <1>1, <1>2, <1>5 DEF Idle
<1>7. New(w) = {} /\ New(w)' = {} /\ Seen(w)' = {}
  BY <1>1, <1>6 DEF New, Seen, ToSet
<1>8. CallOK(w)'
  <2>1. \A d \in ToSet(docs) : d.ts <= now
    BY <1>3, SeqFacts
  <2>2. QED
    BY <1>2, <1>6, <2>1 DEF CallOK
<1>9. WorkInv'
  BY <1>1, <1>2, <1>6, <1>7, <1>8, OthersStay DEF WorkInv
<1>10. TypeOK'
  BY <1>2, <1>6 DEF StateInv, TypeOK
<1>11. SeedInv'
  BY <1>1, <1>2 DEF SeedInv
<1>12. QED
  BY <1>7, <1>9, <1>10, <1>11 DEF StateInv

LEMMA BeginOf ==
    ASSUME TemplatesAssumption, StateInv, NEW w \in Workers, Add(w) \/ AddBatch(w)
    PROVE  /\ Ready(w)
           /\ \E docs, kind : /\ kind \in {"add", "batch"} /\ docs # <<>>
                              /\ docs \in Seq(Docs) /\ Begin(w, docs, kind)
<1>1. CASE Add(w)
  <2>1. PICK d \in Docs : Begin(w, <<d>>, "add")
    BY <1>1 DEF Add
  <2>2. <<d>> \in Seq(Docs) /\ <<d>> # <<>>
    OBVIOUS
  <2>3. QED
    BY <1>1, <2>1, <2>2 DEF Add
<1>2. CASE AddBatch(w)
  <2>1. PICK docs \in Batches : Begin(w, docs, "batch")
    BY <1>2 DEF AddBatch
  <2>2. PICK n \in 2..MaxBatch : docs \in [1..n -> Docs]
    BY DEF Batches
  <2>3. n \in Nat /\ n # 0
    BY DEF TemplatesAssumption
  <2>4. docs \in Seq(Docs) /\ Len(docs) = n
    BY <2>2, <2>3
  <2>5. docs # <<>>
    BY <2>3, <2>4
  <2>6. QED
    BY <1>2, <2>1, <2>4, <2>5 DEF AddBatch
<1>3. QED
  BY <1>1, <1>2

LEMMA ParseState ==
    ASSUME TemplatesAssumption, StateInv, NEW w \in Workers, Parse(w)
    PROVE  StateInv'
<1> DEFINE d == Head(work[w].todo)
<1>1. /\ work[w] \in Call /\ work[w] # Idle /\ CallOK(w)
      /\ work[w].todo # <<>> /\ d \in Document /\ d.line \in Line
      /\ UNCHANGED <<map, seeds, now, reported>>
  BY ParseChooses
<1>2. PICK k, template, outcome : Chosen(d.line, k, template) /\ ParseAs(w, k, template, outcome)
  BY ParseChooses
<1>3. clusters' \in Seq(ClusterRecord) /\ k \in Nat /\ template \in Line
  BY <1>1, <1>2, ParseClusters
<1>4. /\ work'[w] \in Call /\ work'[w] # Idle
      /\ work'[w].pc = "parse" => work'[w].todo # <<>>
      /\ work'[w].pc \in {"observe", "store"} => work'[w].new = <<>>
      /\ work'[w].docs = work[w].docs
      /\ work' \in [Workers -> {Idle} \cup Call]
      /\ \A v \in Workers \ {w} : work'[v] = work[v]
      /\ templates' \in Seq(TemplateRecord)
      /\ \A i \in DOMAIN templates : i \in DOMAIN templates' /\ templates'[i] = templates[i]
      /\ New(w)' = New(w) \/ Record(w, k, template)
      /\ parsed' = parsed \cup {d.line}
  BY <1>1, <1>2, <1>3, ParseCall
<1>5. seeds = <<>>
  BY <1>1 DEF StateInv, SeedInv
<1>6. /\ \A j \in DOMAIN map : map[j] \in DOMAIN templates
      /\ seeds \in Seq(DOMAIN templates) /\ now \in Nat /\ reported \subseteq Document
      /\ parsed \subseteq Lines \cap Line
      /\ \A m \in New(w) : m[2] \in DOMAIN templates
  BY <1>1 DEF StateInv, TypeOK, WorkInv
<1>7. d.line \in Lines \cap Line
  BY <1>1, LinesAreLines
<1>8. <<>> \in Seq(DOMAIN templates')
  BY EmptySeq
<1>9. TypeOK'
  BY <1>1, <1>3, <1>4, <1>5, <1>6, <1>7, <1>8 DEF TypeOK
<1>10. SeedInv'
  BY <1>1, <1>5 DEF SeedInv
<1>11. CallOK(w)'
  BY <1>1, <1>4 DEF CallOK
<1>12. \A m \in New(w)' : m[2] \in DOMAIN templates'
  BY <1>4, <1>6 DEF Record
<1>13. \A v \in Workers \ {w} : work'[v] # Idle =>
          CallOK(v)' /\ \A m \in New(v)' : m[2] \in DOMAIN templates'
  <2>1. now' \in Nat /\ now' >= now
    BY <1>1, <1>6
  <2>2. \A i \in DOMAIN templates : i \in DOMAIN templates'
    BY <1>4
  <2>3. \A v \in Workers \ {w} : work'[v] = work[v]
    BY <1>4
  <2>4. QED
    BY <2>1, <2>2, <2>3, OthersStay
<1>14. WorkInv'
  BY <1>11, <1>12, <1>13 DEF WorkInv
<1>15. QED
  BY <1>9, <1>10, <1>14 DEF StateInv

\* A thread leaves its call.
LEMMA LeaveState ==
    ASSUME StateInv, NEW w \in Workers, Return(w), work[w] # Idle,
           clusters' = clusters, map' = map, seeds' = seeds, templates' = templates,
           now' = now, parsed' = parsed, reported' \subseteq Document
    PROVE  /\ StateInv'
           /\ New(w)' = {} /\ Seen(w)' = {}
           /\ \A v \in Workers \ {w} : work'[v] = work[v]
<1>1. work \in [Workers -> {Idle} \cup Call] /\ seeds = <<>> /\ now \in Nat
  BY DEF StateInv, TypeOK, SeedInv
<1>2. work' = [work EXCEPT ![w] = Idle]
  BY DEF Return
<1>3. /\ work'[w] = Idle /\ \A v \in Workers \ {w} : work'[v] = work[v]
      /\ work' \in [Workers -> {Idle} \cup Call]
  BY <1>1, <1>2
<1>4. TypeOK'
  BY <1>3 DEF StateInv, TypeOK
<1>5. SeedInv'
  BY <1>1 DEF SeedInv
<1>6. WorkInv'
  <2>1. now' \in Nat /\ now' >= now
    BY <1>1
  <2>2. QED
    BY <1>3, <2>1, OthersStay DEF WorkInv
<1>7. QED
  BY <1>3, <1>4, <1>5, <1>6, Nothing DEF StateInv

\* A thread goes on to another part of its call.
LEMMA GoOn ==
    ASSUME StateInv, NEW w \in Workers, work[w] \in Call, CallOK(w),
           NEW new, new \in {work[w].new, <<>>},
           NEW pc \in {"observe", "store"}, pc \in {"observe", "store"} => new = <<>>,
           work' = [work EXCEPT ![w] = [work[w] EXCEPT !.new = new, !.pc = pc]],
           clusters' = clusters, seeds' = <<>>, templates' = templates,
           \A k \in DOMAIN map' : map'[k] \in DOMAIN templates,
           now' = now, parsed' = parsed, reported' \subseteq Document
    PROVE  /\ StateInv'
           /\ New(w)' = {} /\ Seen(w)' = Seen(w)
           /\ \A v \in Workers \ {w} : work'[v] = work[v]
<1>1. work \in [Workers -> {Idle} \cup Call] /\ now \in Nat
  BY DEF StateInv, TypeOK
<1>2. work[w] # Idle
  BY DEF Call, Idle
<1> DEFINE call == [work[w] EXCEPT !.new = new, !.pc = pc]
<1>3. /\ call \in Call /\ call # Idle
      /\ call.new = <<>> /\ call.pc = pc
      /\ call.docs = work[w].docs /\ call.seen = work[w].seen
  <2>1. new \in Seq(Nat \X Nat)
    BY EmptySeq
  <2>2. QED
    BY <2>1 DEF Call, Idle
<1> HIDE DEF call
<1>4. /\ work'[w] = call /\ \A v \in Workers \ {w} : work'[v] = work[v]
      /\ work' \in [Workers -> {Idle} \cup Call]
  BY <1>1, <1>3 DEF call
<1>5. New(w)' = {} /\ Seen(w)' = Seen(w)
  BY <1>2, <1>3, <1>4 DEF New, Seen, ToSet
<1>6. TypeOK'
  <2>1. <<>> \in Seq(DOMAIN templates)
    BY EmptySeq
  <2>2. QED
    BY <1>4, <2>1 DEF StateInv, TypeOK
<1>7. SeedInv'
  BY DEF SeedInv
<1>8. WorkInv'
  <2>1. now' \in Nat /\ now' >= now
    BY <1>1
  <2>2. CallOK(w)'
    BY <1>3, <1>4 DEF CallOK
  <2>3. \A v \in Workers \ {w} : work'[v] # Idle =>
          CallOK(v)' /\ \A m \in New(v)' : m[2] \in DOMAIN templates'
    BY <1>4, <2>1, OthersStay
  <2>4. QED
    BY <1>5, <2>2, <2>3 DEF WorkInv
<1>9. QED
  BY <1>4, <1>5, <1>6, <1>7, <1>8 DEF StateInv

LEMMA PanicState ==
    ASSUME StateInv, NEW w \in Workers, Panic(w)
    PROVE  /\ StateInv'
           /\ New(w)' = {} /\ Seen(w)' = {}
           /\ \A v \in Workers \ {w} : work'[v] = work[v]
<1>1. work[w] # Idle /\ Return(w)
  BY DEF Panic, Idle
<1>2. /\ clusters' = clusters /\ map' = map /\ seeds' = seeds /\ templates' = templates
      /\ now' = now /\ parsed' = parsed /\ reported' \subseteq Document
  BY DEF Panic, tables, bounded, StateInv, TypeOK
<1>3. QED
  BY <1>1, <1>2, LeaveState

\* Mapped, of a set of mappings.
Ids(new, k) == {m[2] : m \in {n \in new : n[1] = k}}

MappedBy(new) ==
    [k \in DOMAIN map \cup {m[1] : m \in new} |->
        IF Ids(new, k) = {} THEN map[k]
        ELSE CHOOSE i \in Ids(new, k) : \A j \in Ids(new, k) : j <= i]

\* What the mappings of a call make of the map.
LEMMA MappedFacts ==
    ASSUME StateInv, NEW w \in Workers, work[w] # Idle
    PROVE  LET next == Mapped(work[w].new)
           IN  /\ DOMAIN next = DOMAIN map \cup Pending(w)
               /\ \A k \in DOMAIN map \ Pending(w) : next[k] = map[k]
               /\ \A m \in New(w) :
                     (\A n \in New(w) : n[1] = m[1] => n[2] <= m[2]) => next[m[1]] = m[2]
               /\ \A k \in DOMAIN next : next[k] \in DOMAIN templates
<1> DEFINE next == Mapped(work[w].new)
           ids(k) == Ids(New(w), k)
<1>1. /\ New(w) = ToSet(work[w].new)
      /\ \A m \in New(w) : m[2] \in DOMAIN templates
      /\ DOMAIN templates = 1..Len(templates) /\ Len(templates) \in Nat
      /\ \A k \in DOMAIN map : map[k] \in DOMAIN templates
  BY DEF New, StateInv, TypeOK, WorkInv
<1>2. Pending(w) = {m[1] : m \in New(w)}
  BY PendingIs
<1>3. next = MappedBy(New(w))
  <2>1. Mapped(work[w].new) = MappedBy(ToSet(work[w].new))
    BY DEF Mapped, MappedBy, Ids
  <2>2. QED
    BY <2>1, <1>1
<1>4. /\ DOMAIN next = DOMAIN map \cup Pending(w)
      /\ \A k \in DOMAIN map \cup Pending(w) :
            next[k] = IF ids(k) = {} THEN map[k]
                      ELSE CHOOSE i \in ids(k) : \A j \in ids(k) : j <= i
  BY <1>2, <1>3 DEF MappedBy
<1>5. /\ \A k : ids(k) \subseteq 0..Len(templates) /\ ids(k) \subseteq DOMAIN templates
      /\ \A k : k \notin Pending(w) => ids(k) = {}
      /\ \A k : \A i \in ids(k) : \E m \in New(w) : m[1] = k /\ m[2] = i
      /\ \A m \in New(w) : m[2] \in ids(m[1]) /\ m[1] \in Pending(w)
  BY <1>1, <1>2 DEF Ids
<1> HIDE DEF ids, next
<1>6. \A k \in DOMAIN map \ Pending(w) : next[k] = map[k]
  BY <1>4, <1>5
<1>7. ASSUME NEW m \in New(w), \A n \in New(w) : n[1] = m[1] => n[2] <= m[2]
      PROVE  next[m[1]] = m[2]
  <2>1. m[2] \in ids(m[1]) /\ \A j \in ids(m[1]) : j <= m[2]
    BY <1>5, <1>7
  <2>2. \A i \in ids(m[1]) : i \in Nat
    BY <1>5
  <2>3. \A i \in ids(m[1]) : (\A j \in ids(m[1]) : j <= i) => i = m[2]
    BY <2>1, <2>2
  <2>4. m[1] \in Pending(w) /\ ids(m[1]) # {}
    BY <2>1, <1>5
  <2>5. next[m[1]] = CHOOSE i \in ids(m[1]) : \A j \in ids(m[1]) : j <= i
    BY <2>4, <1>4
  <2>6. QED
    BY <2>1, <2>3, <2>5
<1>8. ASSUME NEW k \in DOMAIN next
      PROVE  next[k] \in DOMAIN templates
  <2>1. CASE ids(k) = {}
    <3>1. k \in DOMAIN map /\ next[k] = map[k]
      <4>1. k \notin Pending(w)
        BY <1>2, <1>5, <2>1
      <4>2. QED
        BY <4>1, <1>4, <1>6
    <3>2. QED
      BY <3>1, <1>1
  <2>2. CASE ids(k) # {}
    <3>1. \E i \in ids(k) : \A j \in ids(k) : j <= i
      BY <2>2, <1>5, <1>1, Greatest
    <3>2. next[k] \in ids(k)
      BY <2>2, <3>1, <1>4
    <3>3. QED
      BY <3>2, <1>5
  <2>3. QED
    BY <2>1, <2>2
<1>9. QED
  BY <1>4, <1>6, <1>7, <1>8 DEF next

LEMMA InsertState ==
    ASSUME StateInv, NEW w \in Workers, InsertMappings(w)
    PROVE  /\ StateInv' /\ work[w] # Idle
           /\ New(w)' = {} /\ Seen(w)' = Seen(w)
           /\ \A v \in Workers \ {w} : work'[v] = work[v]
<1>1. work[w].pc # "idle"
  BY DEF InsertMappings
<1>2. work[w] \in Call /\ work[w] # Idle /\ CallOK(w)
  BY <1>1, CallOf
<1>3. \A k \in DOMAIN map' : map'[k] \in DOMAIN templates
  BY <1>2, MappedFacts DEF InsertMappings
<1>4. seeds = <<>>
  BY <1>2 DEF StateInv, SeedInv
<1> DEFINE pc == IF work[w].kind = "add" THEN "observe" ELSE "store"
<1>5. /\ work' = [work EXCEPT ![w] = [work[w] EXCEPT !.new = <<>>, !.pc = pc]]
      /\ pc \in {"observe", "store"}
  <2>1. w \in DOMAIN work
    BY DEF StateInv, TypeOK
  <2>2. work' = [work EXCEPT ![w].new = <<>>, ![w].pc = pc]
    BY DEF InsertMappings
  <2>3. QED
    BY <2>1, <2>2
<1>6. /\ clusters' = clusters /\ seeds' = <<>> /\ templates' = templates
      /\ now' = now /\ parsed' = parsed /\ reported' \subseteq Document
  BY <1>4 DEF InsertMappings, tables, bounded, history, StateInv, TypeOK
<1> HIDE DEF pc
<1>7. QED
  BY <1>2, <1>3, <1>5, <1>6, GoOn

LEMMA PartState ==
    ASSUME StateInv, NEW w \in Workers, Observe(w) \/ Store(w)
    PROVE  /\ StateInv' /\ work[w] \in Call /\ CallOK(w)
           /\ New(w) = {} /\ New(w)' = {} /\ Seen(w)' \in {Seen(w), {}}
           /\ \A v \in Workers \ {w} : work'[v] = work[v]
           /\ UNCHANGED <<clusters, map, templates, now, parsed, troubled>>
<1>1. work[w].pc \in {"observe", "store"}
  BY DEF Observe, Store
<1>2. work[w] \in Call /\ work[w] # Idle /\ CallOK(w) /\ work[w].new = <<>>
  BY <1>1, CallOf DEF CallOK
<1>3. New(w) = {}
  BY <1>2 DEF New, ToSet
<1>4. /\ seeds = <<>> /\ work \in [Workers -> {Idle} \cup Call]
      /\ \A k \in DOMAIN map : map[k] \in DOMAIN templates
      /\ reported \subseteq Document
  BY <1>2 DEF StateInv, SeedInv, TypeOK
<1>5. reported' \subseteq Document
  <2>1. CASE Observe(w)
    <3>1. \A d \in ToSet(work[w].docs) : d \in Document
      BY <1>2, SeqFacts DEF Call
    <3>2. reported' \subseteq reported \cup ToSet(work[w].docs)
      BY <2>1 DEF Observe
    <3>3. QED
      BY <3>1, <3>2, <1>4
  <2>2. CASE Store(w)
    BY <2>2, <1>4 DEF Store, history
  <2>3. QED
    BY <2>1, <2>2
<1>6. /\ clusters' = clusters /\ map' = map /\ seeds' = <<>> /\ templates' = templates
      /\ now' = now /\ parsed' = parsed /\ troubled' = troubled
  BY <1>4 DEF Observe, Store, parser, tables, bounded, history
<1>7. \/ Return(w)
      \/ \E pc \in {"observe", "store"} : work' = [work EXCEPT ![w].pc = pc]
  <2>1. CASE Observe(w)
    BY <2>1 DEF Observe
  <2>2. CASE Store(w)
    BY <2>2 DEF Store
  <2>3. QED
    BY <2>1, <2>2
<1>8. CASE Return(w)
  BY <1>2, <1>3, <1>4, <1>5, <1>6, <1>8, LeaveState
<1>9. ASSUME NEW pc \in {"observe", "store"}, work' = [work EXCEPT ![w].pc = pc]
      PROVE  /\ StateInv'
             /\ New(w)' = {} /\ Seen(w)' = Seen(w)
             /\ \A v \in Workers \ {w} : work'[v] = work[v]
  <2>1. [work[w] EXCEPT !.new = <<>>, !.pc = pc] = [work[w] EXCEPT !.pc = pc]
    BY <1>2 DEF Call
  <2>2. work' = [work EXCEPT ![w] = [work[w] EXCEPT !.new = <<>>, !.pc = pc]]
    BY <1>4, <1>9, <2>1
  <2>3. QED
    BY <1>2, <1>4, <1>5, <1>6, <2>2, GoOn
<1>10. QED
  BY <1>2, <1>3, <1>6, <1>7, <1>8, <1>9

-----------------------------------------------------------------------------
(* What most steps do to the templates: they stay, or go. *)

Kept ==
    \A i \in DOMAIN templates :
        /\ i \in DOMAIN templates'
        /\ templates'[i].name = templates[i].name
        /\ templates[i].deleted => templates'[i].deleted

LEMMA MapStays ==
    ASSUME StateInv, MapInv, Kept,
           clusters' = clusters, map' = map, troubled \subseteq troubled',
           \A v \in Workers :
              \/ New(v)' = New(v)
              \/ New(v)' = {} /\ Pending(v) \subseteq troubled'
    PROVE  MapInv'
<1> SUFFICES ASSUME NEW k \in DOMAIN clusters \ troubled'
             PROVE  \/ IsMapped(k)' /\ \A w \in Workers : k \notin Pending(w)'
                    \/ \E w \in Workers :
                          WillMap(w, k)' /\ \A v \in Workers \ {w} : k \notin Pending(v)'
  BY DEF MapInv
<1>1. \A v : /\ Pending(v) = {m[1] : m \in New(v)}
             /\ Pending(v)' = {m[1] : m \in New(v)'}
  BY PendingIs
<1>2. \A v \in Workers : k \notin Pending(v) => k \notin Pending(v)'
  BY <1>1
<1>3. CASE IsMapped(k) /\ \A w \in Workers : k \notin Pending(w)
  <2>1. IsMapped(k)'
    BY <1>3 DEF IsMapped, Kept, StateInv, TypeOK
  <2>2. QED
    BY <2>1, <1>2, <1>3
<1>4. ASSUME NEW w \in Workers, WillMap(w, k), \A v \in Workers \ {w} : k \notin Pending(v)
      PROVE  WillMap(w, k)'
  <2>1. PICK m \in New(w) :
           /\ m[1] = k /\ templates[m[2]].name = clusters[k].template
           /\ \A n \in New(w) : n[1] = k => n[2] <= m[2]
    BY <1>4 DEF WillMap
  <2>2. k \in Pending(w)
    BY <1>1, <2>1
  <2>3. New(w)' = New(w)
    BY <2>2
  <2>4. work[w] # Idle
    BY DEF New
  <2>5. m[2] \in DOMAIN templates
    BY <2>4 DEF StateInv, WorkInv
  <2>6. templates'[m[2]].name = clusters'[k].template
    BY <2>1, <2>5 DEF Kept
  <2>7. QED
    BY <2>1, <2>3, <2>6 DEF WillMap
<1>5. QED
  BY <1>2, <1>3, <1>4 DEF MapInv

LEMMA SeenStays ==
    ASSUME StateInv, SeenInv, Kept,
           clusters' = clusters, map' = map, troubled \subseteq troubled',
           \A v \in Workers :
              \/ Seen(v)' = Seen(v) /\ New(v)' = New(v)
              \/ Seen(v)' = {}
    PROVE  SeenInv'
<1> SUFFICES ASSUME NEW w \in Workers, NEW m \in Seen(w)'
             PROVE  /\ m[1] \in DOMAIN clusters'
                    /\ Covers(clusters'[m[1]].template, m[2].line)
                    /\ m[1] \notin troubled' =>
                          \/ m[1] \in Pending(w)'
                          \/ /\ m[1] \in DOMAIN map'
                             /\ Covers(templates'[map'[m[1]]].name, m[2].line)
  BY DEF SeenInv
<1>1. m \in Seen(w) /\ Pending(w)' = Pending(w)
  BY PendingIs
<1>2. /\ m[1] \in DOMAIN clusters
      /\ Covers(clusters[m[1]].template, m[2].line)
      /\ m[1] \notin troubled =>
            \/ m[1] \in Pending(w)
            \/ m[1] \in DOMAIN map /\ Covers(templates[map[m[1]]].name, m[2].line)
  BY <1>1 DEF SeenInv
<1>3. m[1] \in DOMAIN map => templates'[map[m[1]]].name = templates[map[m[1]]].name
  BY DEF Kept, StateInv, TypeOK
<1>4. QED
  BY <1>1, <1>2, <1>3

LEMMA ReportsStay ==
    ASSUME ReportedInv, Kept, observations \subseteq observations', reported' = reported
    PROVE  ReportedInv'
<1> SUFFICES ASSUME NEW d \in reported
             PROVE  \E id \in DOMAIN templates' :
                       Covers(templates'[id].name, d.line) /\ IsObserved(d, id)'
  BY DEF ReportedInv
<1>1. PICK id \in DOMAIN templates : Covers(templates[id].name, d.line) /\ IsObserved(d, id)
  BY DEF ReportedInv
<1>2. id \in DOMAIN templates' /\ Covers(templates'[id].name, d.line)
  BY <1>1 DEF Kept
<1>3. IsObserved(d, id)'
  BY <1>1 DEF Kept, IsObserved, Shard
<1>4. QED
  BY <1>2, <1>3

LEMMA KnownStays ==
    ASSUME KnownInv, clusters' = clusters, parsed' = parsed
    PROVE  KnownInv'
BY DEF KnownInv, Knows, Leaf, Children

-----------------------------------------------------------------------------
(* The steps that leave clusters, map and mappings alone. *)

LEMMA SameTemplates ==
    ASSUME templates' = templates
    PROVE  Kept
BY DEF Kept

LEMMA BeginStep ==
    ASSUME TemplatesAssumption, IInv, NEW w \in Workers, Add(w) \/ AddBatch(w)
    PROVE  IInv'
<1> USE DEF IInv
<1>1. PICK docs, kind : /\ Ready(w) /\ kind \in {"add", "batch"} /\ docs # <<>>
                        /\ docs \in Seq(Docs) /\ Begin(w, docs, kind)
  BY BeginOf
<1>2. StateInv' /\ New(w) = {} /\ New(w)' = {} /\ Seen(w)' = {}
  BY <1>1, BeginState
<1>3. /\ UNCHANGED <<clusters, map, templates, observations, troubled, reported, parsed>>
      /\ \A v \in Workers \ {w} : work'[v] = work[v]
  BY <1>1 DEF Begin, tables, history, StateInv, TypeOK
<1>4. \A v \in Workers \ {w} : New(v)' = New(v) /\ Seen(v)' = Seen(v)
  BY <1>3, Same
<1>5. Kept
  BY <1>3, SameTemplates
<1>6. MapInv'
  BY <1>2, <1>3, <1>4, <1>5, MapStays
<1>7. SeenInv'
  BY <1>2, <1>3, <1>4, <1>5, SeenStays
<1>8. ReportedInv' /\ KnownInv'
  BY <1>3, <1>5, ReportsStay, KnownStays
<1>9. QED
  BY <1>2, <1>6, <1>7, <1>8

LEMMA PanicStep ==
    ASSUME IInv, NEW w \in Workers, Panic(w)
    PROVE  IInv'
<1> USE DEF IInv
<1>1. /\ StateInv' /\ New(w)' = {} /\ Seen(w)' = {}
      /\ \A v \in Workers \ {w} : work'[v] = work[v]
  BY PanicState
<1>2. /\ UNCHANGED <<clusters, map, templates, observations, reported, parsed>>
      /\ troubled' = troubled \cup Pending(w)
  BY DEF Panic, tables
<1>3. \A v \in Workers \ {w} : New(v)' = New(v) /\ Seen(v)' = Seen(v)
  BY <1>1, Same
<1>4. Kept
  BY <1>2, SameTemplates
<1>5. MapInv'
  BY <1>1, <1>2, <1>3, <1>4, MapStays
<1>6. SeenInv'
  BY <1>1, <1>2, <1>3, <1>4, SeenStays
<1>7. ReportedInv' /\ KnownInv'
  BY <1>2, <1>4, ReportsStay, KnownStays
<1>8. QED
  BY <1>1, <1>5, <1>6, <1>7

LEMMA StoreStep ==
    ASSUME IInv, NEW w \in Workers, Store(w)
    PROVE  IInv'
<1> USE DEF IInv
<1>1. /\ StateInv' /\ New(w) = {} /\ New(w)' = {} /\ Seen(w)' \in {Seen(w), {}}
      /\ \A v \in Workers \ {w} : work'[v] = work[v]
      /\ UNCHANGED <<clusters, map, templates, now, parsed, troubled>>
  BY PartState
<1>2. UNCHANGED <<observations, reported>>
  BY DEF Store, tables, history
<1>3. \A v \in Workers \ {w} : New(v)' = New(v) /\ Seen(v)' = Seen(v)
  BY <1>1, Same
<1>4. Kept
  BY <1>1, SameTemplates
<1>5. MapInv'
  BY <1>1, <1>3, <1>4, MapStays
<1>6. SeenInv'
  BY <1>1, <1>3, <1>4, SeenStays
<1>7. ReportedInv' /\ KnownInv'
  BY <1>1, <1>2, <1>4, ReportsStay, KnownStays
<1>8. QED
  BY <1>1, <1>5, <1>6, <1>7

LEMMA ShardType ==
    ASSUME TemplatesAssumption, NEW ts \in Nat
    PROVE  /\ Shard(ts) \in Int /\ Shard(ts) + Width > ts
           /\ Min({Shard(ts)}) = Shard(ts)
<1>1. Width \in Nat /\ Width > 0
  BY DEF TemplatesAssumption
<1>2. ts % Width \in 0..(Width - 1)
  BY <1>1
<1>3. Shard(ts) \in Int /\ Shard(ts) + Width > ts
  BY <1>1, <1>2 DEF Shard
<1>4. Min({Shard(ts)}) = Shard(ts)
  BY <1>3 DEF Min
<1>5. QED
  BY <1>3, <1>4

\* What an observation reports has a document by the map, which it names.
LEMMA ObserveReports ==
    ASSUME TemplatesAssumption, IInv, NEW w \in Workers, Observe(w)
    PROVE  ReportedInv'
<1>1. /\ work[w] \in Call /\ CallOK(w) /\ New(w) = {}
      /\ UNCHANGED <<clusters, map, templates, now, parsed, troubled>>
  BY PartState DEF IInv
<1>2. Kept
  BY <1>1, SameTemplates
<1>3. /\ observations' = observations \cup
            {[id |-> id, at |-> now, shard |-> FirstShard(work[w].docs)] : id \in Observed(w)}
      /\ reported' = reported \cup
            {d \in ToSet(work[w].docs) :
               /\ \A e \in ToSet(work[w].docs) : Shard(e.ts) = Shard(d.ts)
               /\ \E m \in work[w].seen : m[2] = d /\ m[1] \notin troubled}
  BY DEF Observe
<1>4. ASSUME NEW d \in reported
      PROVE  \E id \in DOMAIN templates' :
                Covers(templates'[id].name, d.line) /\ IsObserved(d, id)'
  <2>1. PICK id \in DOMAIN templates : Covers(templates[id].name, d.line) /\ IsObserved(d, id)
    BY DEF IInv, ReportedInv
  <2>2. IsObserved(d, id)'
    BY <1>1, <1>3, <2>1 DEF IsObserved, Shard
  <2>3. QED
    BY <1>1, <2>1, <2>2
<1>5. ASSUME NEW d \in ToSet(work[w].docs),
             \A e \in ToSet(work[w].docs) : Shard(e.ts) = Shard(d.ts),
             NEW m \in work[w].seen, m[2] = d, m[1] \notin troubled
      PROVE  \E id \in DOMAIN templates' :
                Covers(templates'[id].name, d.line) /\ IsObserved(d, id)'
  <2>1. m \in Seen(w) /\ Pending(w) = {}
    BY <1>1, PendingIs DEF Seen, Call, Idle
  <2>2. m[1] \in DOMAIN map /\ Covers(templates[map[m[1]]].name, d.line)
    BY <1>5, <2>1 DEF IInv, SeenInv
  <2>3. map[m[1]] \in DOMAIN templates /\ map[m[1]] \in Observed(w)
    BY <2>2 DEF IInv, StateInv, TypeOK, Observed
  <2>4. d \in Document /\ d.ts \in Nat /\ now \in Nat /\ d.ts <= now
    <3>1. d \in Document
      BY <1>1, SeqFacts DEF Call
    <3>2. QED
      BY <1>1, <3>1 DEF Document, CallOK, IInv, StateInv, TypeOK
  <2>5. FirstShard(work[w].docs) = Shard(d.ts)
    <3>1. {Shard(e.ts) : e \in ToSet(work[w].docs)} = {Shard(d.ts)}
      BY <1>5
    <3>2. QED
      BY <3>1, <2>4, ShardType DEF FirstShard
  <2>6. [id |-> map[m[1]], at |-> now, shard |-> Shard(d.ts)] \in observations'
    BY <1>3, <2>3, <2>5
  <2>7. PICK id \in DOMAIN templates : id = map[m[1]]
    BY <2>3
  <2>8. PICK o \in observations' : o.id = id /\ o.at = now /\ o.shard = Shard(d.ts)
    BY <2>6, <2>7
  <2>9. IsObserved(d, id)'
    BY <2>4, <2>8 DEF IsObserved, Shard
  <2>10. QED
    BY <1>1, <2>2, <2>7, <2>9
<1>6. QED
  BY <1>3, <1>4, <1>5 DEF ReportedInv

LEMMA ObserveStep ==
    ASSUME TemplatesAssumption, IInv, NEW w \in Workers, Observe(w)
    PROVE  IInv'
<1> USE DEF IInv
<1>1. /\ StateInv' /\ New(w) = {} /\ New(w)' = {} /\ Seen(w)' \in {Seen(w), {}}
      /\ \A v \in Workers \ {w} : work'[v] = work[v]
      /\ UNCHANGED <<clusters, map, templates, now, parsed, troubled>>
  BY PartState
<1>2. \A v \in Workers \ {w} : New(v)' = New(v) /\ Seen(v)' = Seen(v)
  BY <1>1, Same
<1>3. Kept
  BY <1>1, SameTemplates
<1>4. MapInv'
  BY <1>1, <1>2, <1>3, MapStays
<1>5. SeenInv'
  BY <1>1, <1>2, <1>3, SeenStays
<1>6. KnownInv'
  BY <1>1, KnownStays
<1>7. QED
  BY <1>1, <1>4, <1>5, <1>6, ObserveReports

\* Time passes, or a document goes.
LEMMA QuietStep ==
    ASSUME IInv, Kept, DOMAIN templates' = DOMAIN templates,
           templates' \in Seq(TemplateRecord), now' \in Nat, now' >= now,
           UNCHANGED <<parser, work, history>>
    PROVE  StateInv' /\ MapInv' /\ SeenInv' /\ KnownInv'
<1> USE DEF IInv
<1>1. UNCHANGED <<clusters, map, seeds, work, troubled, reported, parsed>>
  BY DEF parser, history
<1>2. TypeOK' /\ SeedInv'
  BY <1>1 DEF StateInv, TypeOK, SeedInv
<1>3. \A v \in Workers : New(v)' = New(v) /\ Seen(v)' = Seen(v)
  BY <1>1, Same
<1>4. WorkInv'
  BY <1>1, CallStays DEF WorkInv
<1>5. MapInv'
  BY <1>1, <1>3, MapStays
<1>6. SeenInv'
  BY <1>1, <1>3, SeenStays
<1>7. KnownInv'
  BY <1>1, KnownStays
<1>8. QED
  BY <1>2, <1>4, <1>5, <1>6, <1>7 DEF StateInv

LEMMA TickStep ==
    ASSUME IInv, Tick
    PROVE  IInv'
<1>1. /\ UNCHANGED <<parser, work, history, templates, observations, reported>>
      /\ now' = now + 1
  BY DEF Tick, tables, history
<1>2. now \in Nat /\ templates \in Seq(TemplateRecord)
  BY DEF IInv, StateInv, TypeOK
<1>3. Kept /\ now' \in Nat /\ now' >= now
  BY <1>1, <1>2, SameTemplates
<1>4. StateInv' /\ MapInv' /\ SeenInv' /\ KnownInv'
  BY <1>1, <1>2, <1>3, QuietStep
<1>5. ReportedInv'
  BY <1>1, <1>3, ReportsStay DEF IInv
<1>6. QED
  BY <1>4, <1>5 DEF IInv

LEMMA DeleteStep ==
    ASSUME IInv, NEW id \in DOMAIN templates, Delete(id)
    PROVE  IInv'
<1>1. /\ UNCHANGED <<parser, work, history, now, reported>>
      /\ templates' = [templates EXCEPT ![id].deleted = TRUE]
      /\ observations' = {o \in observations : o.id # id \/ o.shard # Shard(templates[id].ts)}
  BY DEF Delete, history
<1>2. now \in Nat /\ templates \in Seq(TemplateRecord)
  BY DEF IInv, StateInv, TypeOK
<1>3. \A i \in DOMAIN templates : templates[i] \in TemplateRecord
  BY <1>2
<1>4. /\ DOMAIN templates' = DOMAIN templates
      /\ \A i \in DOMAIN templates \ {id} : templates'[i] = templates[i]
      /\ templates'[id] = [templates[id] EXCEPT !.deleted = TRUE]
  BY <1>1
<1>5. /\ templates'[id] \in TemplateRecord /\ templates'[id].deleted
      /\ templates'[id].name = templates[id].name
  BY <1>3, <1>4 DEF TemplateRecord
<1>6. Kept
  BY <1>4, <1>5 DEF Kept
<1>7. templates' \in Seq(TemplateRecord)
  <2>1. id \in 1..Len(templates) /\ templates'[id] \in TemplateRecord
    BY <1>2, <1>5
  <2>2. templates' = [templates EXCEPT ![id] = templates'[id]]
    BY <1>1, <1>4
  <2>3. QED
    BY <1>2, <2>1, <2>2, ExceptSeq
<1>8. StateInv' /\ MapInv' /\ SeenInv' /\ KnownInv'
  <2>1. now' \in Nat /\ now' >= now
    BY <1>1, <1>2
  <2>2. QED
    BY <1>1, <1>4, <1>6, <1>7, <2>1, QuietStep
<1>9. ReportedInv'
  <2> SUFFICES ASSUME NEW d \in reported
               PROVE  \E i \in DOMAIN templates' :
                         Covers(templates'[i].name, d.line) /\ IsObserved(d, i)'
    BY <1>1 DEF ReportedInv
  <2>1. PICK i \in DOMAIN templates : Covers(templates[i].name, d.line) /\ IsObserved(d, i)
    BY DEF IInv, ReportedInv
  <2>2. CASE i = id
    BY <1>4, <1>5, <2>1, <2>2 DEF IsObserved
  <2>3. CASE i # id
    <3>1. IsObserved(d, i)'
      BY <1>1, <1>4, <2>1, <2>3 DEF IsObserved, Shard
    <3>2. QED
      BY <1>4, <2>1, <2>3, <3>1
  <2>4. QED
    BY <2>2, <2>3
<1>10. QED
  BY <1>8, <1>9 DEF IInv

-----------------------------------------------------------------------------
(* Mappings are made. *)

LEMMA InsertStep ==
    ASSUME TemplatesAssumption, IInv, NEW w \in Workers, InsertMappings(w)
    PROVE  IInv'
<1> USE DEF IInv
<1>1. /\ StateInv' /\ work[w] # Idle
      /\ New(w)' = {} /\ Seen(w)' = Seen(w)
      /\ \A v \in Workers \ {w} : work'[v] = work[v]
  BY InsertState
<1>2. /\ map' = Mapped(work[w].new)
      /\ UNCHANGED <<clusters, templates, observations, troubled, reported, parsed>>
  BY DEF InsertMappings, tables, history
<1>3. \A v \in Workers \ {w} : New(v)' = New(v) /\ Seen(v)' = Seen(v) /\ Pending(v)' = Pending(v)
  BY <1>1, Same
<1>4. Pending(w)' = {} /\ Pending(w) = {m[1] : m \in New(w)}
  BY <1>1, PendingIs
<1>5. /\ DOMAIN map' = DOMAIN map \cup Pending(w)
      /\ \A k \in DOMAIN map \ Pending(w) : map'[k] = map[k]
      /\ \A m \in New(w) :
            (\A n \in New(w) : n[1] = m[1] => n[2] <= m[2]) => map'[m[1]] = m[2]
  BY <1>1, <1>2, MappedFacts
\* What w had to map of the clusters nobody disturbed is mapped now.
<1>6. ASSUME NEW k \in DOMAIN clusters \ troubled, k \in Pending(w)
      PROVE  /\ k \in DOMAIN map' /\ templates[map'[k]].name = clusters[k].template
             /\ \A v \in Workers \ {w} : k \notin Pending(v)
  <2>1. WillMap(w, k) /\ \A v \in Workers \ {w} : k \notin Pending(v)
    BY <1>6 DEF MapInv
  <2>2. PICK m \in New(w) :
           /\ m[1] = k /\ templates[m[2]].name = clusters[k].template
           /\ \A n \in New(w) : n[1] = k => n[2] <= m[2]
    BY <2>1 DEF WillMap
  <2>3. map'[k] = m[2]
    BY <2>2, <1>5
  <2>4. QED
    BY <2>1, <2>2, <2>3, <1>5, <1>6
<1>7. MapInv'
  <2> SUFFICES ASSUME NEW k \in DOMAIN clusters \ troubled
               PROVE  \/ IsMapped(k)' /\ \A v \in Workers : k \notin Pending(v)'
                      \/ \E u \in Workers :
                            WillMap(u, k)' /\ \A v \in Workers \ {u} : k \notin Pending(v)'
    BY <1>2 DEF MapInv
  <2>1. CASE k \in Pending(w)
    <3>1. IsMapped(k)'
      BY <1>2, <1>6, <2>1 DEF IsMapped
    <3>2. QED
      BY <1>3, <1>4, <1>6, <2>1, <3>1
  <2>2. CASE k \notin Pending(w) /\ IsMapped(k) /\ \A v \in Workers : k \notin Pending(v)
    <3>1. IsMapped(k)'
      BY <1>2, <1>5, <2>2 DEF IsMapped
    <3>2. QED
      BY <1>3, <1>4, <2>2, <3>1
  <2>3. ASSUME k \notin Pending(w), NEW u \in Workers, WillMap(u, k),
               \A v \in Workers \ {u} : k \notin Pending(v)
        PROVE  WillMap(u, k)' /\ \A v \in Workers \ {u} : k \notin Pending(v)'
    <3>1. u # w
      BY <2>3, <1>4 DEF WillMap
    <3>2. WillMap(u, k)'
      BY <1>2, <1>3, <2>3, <3>1 DEF WillMap
    <3>3. QED
      BY <1>3, <1>4, <2>3, <3>2
  <2>4. QED
    BY <2>1, <2>2, <2>3 DEF MapInv
<1>8. SeenInv'
  <2> SUFFICES ASSUME NEW v \in Workers, NEW m \in Seen(v)'
               PROVE  /\ m[1] \in DOMAIN clusters'
                      /\ Covers(clusters'[m[1]].template, m[2].line)
                      /\ m[1] \notin troubled' =>
                            \/ m[1] \in Pending(v)'
                            \/ /\ m[1] \in DOMAIN map'
                               /\ Covers(templates'[map'[m[1]]].name, m[2].line)
    BY DEF SeenInv
  <2>1. m \in Seen(v)
    BY <1>1, <1>3
  <2>2. /\ m[1] \in DOMAIN clusters
        /\ Covers(clusters[m[1]].template, m[2].line)
        /\ m[1] \notin troubled =>
              \/ m[1] \in Pending(v)
              \/ m[1] \in DOMAIN map /\ Covers(templates[map[m[1]]].name, m[2].line)
    BY <2>1 DEF SeenInv
  <2>3. CASE m[1] \in troubled
    BY <1>2, <2>2, <2>3
  <2>4. CASE m[1] \notin troubled /\ m[1] \in Pending(w)
    <3>1. m[1] \in DOMAIN map' /\ templates[map'[m[1]]].name = clusters[m[1]].template
      BY <1>6, <2>2, <2>4
    <3>2. QED
      BY <1>2, <2>2, <3>1
  <2>5. CASE m[1] \notin troubled /\ m[1] \notin Pending(w)
    <3>1. CASE m[1] \in Pending(v)
      BY <1>2, <1>3, <2>2, <2>5, <3>1
    <3>2. CASE m[1] \in DOMAIN map /\ Covers(templates[map[m[1]]].name, m[2].line)
      BY <1>2, <1>5, <2>2, <2>5, <3>2
    <3>3. QED
      BY <2>2, <2>5, <3>1, <3>2
  <2>6. QED
    BY <2>3, <2>4, <2>5
<1>9. ReportedInv' /\ KnownInv'
  BY <1>2, SameTemplates, ReportsStay, KnownStays
<1>10. QED
  BY <1>1, <1>7, <1>8, <1>9

-----------------------------------------------------------------------------
(* A line is learned. *)

LEMMA ParseMap ==
    ASSUME TemplatesAssumption, IInv, NEW w \in Workers, Parse(w)
    PROVE  MapInv' /\ SeenInv'
<1> USE DEF IInv
<1> DEFINE d == Head(work[w].todo)
           id == Len(templates) + 1
<1>1. /\ work[w] \in Call /\ work[w] # Idle /\ CallOK(w)
      /\ work[w].todo # <<>> /\ d \in Document /\ d.line \in Line
      /\ UNCHANGED <<map, seeds, now, reported>>
  BY ParseChooses
<1>2. PICK k, template, outcome : Chosen(d.line, k, template) /\ ParseAs(w, k, template, outcome)
  BY ParseChooses
<1> HIDE DEF d, id
<1>learned. k \in Nat /\ template \in Line /\ Learned(d.line, k, template)
  BY <1>1, <1>2, ParseClusters
<1>3. /\ k \in Nat /\ template \in Line /\ Covers(template, d.line)
      /\ DOMAIN clusters' = DOMAIN clusters \cup {k}
      /\ clusters'[k].template = template
      /\ \A j \in DOMAIN clusters \ {k} : clusters'[j] = clusters[j]
      /\ \A j \in DOMAIN clusters : \A known \in Seq(Token) :
            Covers(clusters[j].template, known) => Covers(clusters'[j].template, known)
  BY <1>learned DEF Learned
<1>4. /\ \A v \in Workers \ {w} : work'[v] = work[v]
      /\ \A i \in DOMAIN templates : i \in DOMAIN templates' /\ templates'[i] = templates[i]
      /\ New(w)' = New(w) \/ Record(w, k, template)
      /\ Seen(w)' \in {Seen(w), Seen(w) \cup {<<k, d>>}}
      /\ troubled' \in {troubled, troubled \cup {k}}
      /\ k \notin troubled' =>
            /\ \A v \in Workers \ {w} : k \notin Pending(v)
            /\ \/ Record(w, k, template)
               \/ New(w)' = New(w) /\ k \in DOMAIN clusters /\ template = clusters[k].template
  BY <1>1, <1>2, <1>3, ParseCall DEF d
<1>5. \A v \in Workers \ {w} : New(v)' = New(v) /\ Seen(v)' = Seen(v) /\ Pending(v)' = Pending(v)
  BY <1>4, Same
<1>6. /\ DOMAIN templates = 1..Len(templates) /\ Len(templates) \in Nat
      /\ \A v \in Workers : \A m \in New(v) : m[2] \in DOMAIN templates
      /\ \A j \in DOMAIN map : map[j] \in DOMAIN templates
  BY DEF StateInv, TypeOK, WorkInv, New
<1>7. /\ Pending(w) = {m[1] : m \in New(w)}
      /\ Pending(w)' = {m[1] : m \in New(w)'}
  BY PendingIs
<1>8. Pending(w) \subseteq Pending(w)' /\ Pending(w)' \subseteq Pending(w) \cup {k}
  BY <1>4, <1>7 DEF Record
\* The cluster of the line.
<1>9. ASSUME k \notin troubled'
      PROVE  \/ IsMapped(k)' /\ \A v \in Workers : k \notin Pending(v)'
             \/ WillMap(w, k)' /\ \A v \in Workers \ {w} : k \notin Pending(v)'
  <2>1. \A v \in Workers \ {w} : k \notin Pending(v)'
    BY <1>4, <1>5, <1>9
  <2>2. CASE Record(w, k, template)
    <3>1. <<k, Len(templates) + 1>> \in New(w)'
      BY <2>2 DEF Record
    <3>2. \A n \in New(w)' : n[2] <= Len(templates) + 1
      BY <2>2, <1>6 DEF Record
    <3>3. templates'[Len(templates) + 1].name = clusters'[k].template
      BY <2>2, <1>3 DEF Record
    <3>4. WillMap(w, k)'
      <4>1. \E m \in New(w)' :
               /\ m[1] = k /\ templates'[m[2]].name = clusters'[k].template
               /\ \A n \in New(w)' : n[1] = k => n[2] <= m[2]
        BY <3>1, <3>2, <3>3
      <4>2. QED
        BY <4>1 DEF WillMap
    <3>5. QED
      BY <2>1, <3>4
  <2>3. CASE New(w)' = New(w) /\ k \in DOMAIN clusters /\ template = clusters[k].template
    <3>1. k \notin troubled
      BY <1>4, <1>9
    <3>2. clusters'[k].template = clusters[k].template
      BY <1>3, <2>3
    <3>3. CASE IsMapped(k) /\ \A v \in Workers : k \notin Pending(v)
      <4>1. IsMapped(k)'
        BY <1>1, <1>4, <1>6, <3>2, <3>3 DEF IsMapped
      <4>2. k \notin Pending(w)'
        BY <1>7, <2>3, <3>3
      <4>3. QED
        BY <2>1, <4>1, <4>2
    <3>4. ASSUME NEW u \in Workers, WillMap(u, k)
          PROVE  WillMap(w, k)'
      <4>1. PICK m \in New(u) :
               /\ m[1] = k /\ templates[m[2]].name = clusters[k].template
               /\ \A n \in New(u) : n[1] = k => n[2] <= m[2]
        BY <3>4 DEF WillMap
      <4>2. k \in Pending(u)
        BY <4>1, PendingIs
      <4>3. u = w
        BY <4>2, <1>4, <1>9
      <4>4. templates'[m[2]].name = clusters'[k].template
        BY <1>4, <1>6, <3>2, <4>1
      <4>5. QED
        BY <2>3, <4>1, <4>3, <4>4 DEF WillMap
    <3>5. QED
      BY <2>1, <2>3, <3>1, <3>3, <3>4 DEF MapInv
  <2>4. QED
    BY <1>4, <1>9, <2>2, <2>3
\* The others.
<1>10. ASSUME NEW j \in DOMAIN clusters \ troubled, j # k
       PROVE  \/ IsMapped(j)' /\ \A v \in Workers : j \notin Pending(v)'
              \/ \E u \in Workers :
                    WillMap(u, j)' /\ \A v \in Workers \ {u} : j \notin Pending(v)'
  <2>1. clusters'[j] = clusters[j]
    BY <1>3, <1>10
  <2>2. \A v \in Workers : j \notin Pending(v) => j \notin Pending(v)'
    BY <1>5, <1>8, <1>10
  <2>3. CASE IsMapped(j) /\ \A v \in Workers : j \notin Pending(v)
    <3>1. IsMapped(j)'
      BY <1>1, <1>4, <1>6, <2>1, <2>3 DEF IsMapped
    <3>2. QED
      BY <2>2, <2>3, <3>1
  <2>4. ASSUME NEW u \in Workers, WillMap(u, j)
        PROVE  WillMap(u, j)'
    <3>1. PICK m \in New(u) :
             /\ m[1] = j /\ templates[m[2]].name = clusters[j].template
             /\ \A n \in New(u) : n[1] = j => n[2] <= m[2]
      BY <2>4 DEF WillMap
    <3>2. m \in New(u)' /\ \A n \in New(u)' : n[1] = j => n \in New(u)
      BY <1>4, <1>5, <1>10, <3>1 DEF Record
    <3>3. templates'[m[2]].name = clusters'[j].template
      BY <1>4, <1>6, <2>1, <3>1
    <3>4. QED
      BY <3>1, <3>2, <3>3 DEF WillMap
  <2>5. QED
    BY <1>10, <2>2, <2>3, <2>4 DEF MapInv
<1>11. MapInv'
  <2> SUFFICES ASSUME NEW j \in DOMAIN clusters' \ troubled'
               PROVE  \/ IsMapped(j)' /\ \A v \in Workers : j \notin Pending(v)'
                      \/ \E u \in Workers :
                            WillMap(u, j)' /\ \A v \in Workers \ {u} : j \notin Pending(v)'
    BY DEF MapInv
  <2>1. CASE j = k
    BY <1>9, <2>1
  <2>2. CASE j # k
    BY <1>3, <1>4, <1>10, <2>2
  <2>3. QED
    BY <2>1, <2>2
<1>12. SeenInv'
  <2> SUFFICES ASSUME NEW v \in Workers, NEW m \in Seen(v)'
               PROVE  /\ m[1] \in DOMAIN clusters'
                      /\ Covers(clusters'[m[1]].template, m[2].line)
                      /\ m[1] \notin troubled' =>
                            \/ m[1] \in Pending(v)'
                            \/ /\ m[1] \in DOMAIN map'
                               /\ Covers(templates'[map'[m[1]]].name, m[2].line)
    BY DEF SeenInv
  <2>1. CASE m \in Seen(v)
    <3>1. /\ m[1] \in DOMAIN clusters
          /\ Covers(clusters[m[1]].template, m[2].line)
          /\ m[1] \notin troubled =>
                \/ m[1] \in Pending(v)
                \/ m[1] \in DOMAIN map /\ Covers(templates[map[m[1]]].name, m[2].line)
      BY <2>1 DEF SeenInv
    <3>2. m[2] \in Document
      BY <2>1 DEF Seen, StateInv, TypeOK, Call
    <3>3. Covers(clusters'[m[1]].template, m[2].line)
      BY <1>3, <3>1, <3>2, LinesAreLines
    <3>4. Pending(v) \subseteq Pending(v)'
      BY <1>5, <1>8
    <3>5. m[1] \in DOMAIN map =>
             m[1] \in DOMAIN map' /\ templates'[map'[m[1]]] = templates[map[m[1]]]
      BY <1>1, <1>4, <1>6
    <3>6. m[1] \notin troubled' => m[1] \notin troubled
      BY <1>4
    <3>7. QED
      BY <1>3, <3>1, <3>3, <3>4, <3>5, <3>6
  <2>2. CASE v = w /\ m = <<k, d>>
    <3>1. m[1] \in DOMAIN clusters' /\ Covers(clusters'[m[1]].template, m[2].line)
      BY <1>3, <2>2
    <3>2. ASSUME k \notin troubled'
          PROVE  \/ k \in Pending(w)'
                 \/ k \in DOMAIN map' /\ Covers(templates'[map'[k]].name, d.line)
      <4>1. CASE WillMap(w, k)'
        <5>1. PICK m1 \in New(w)' : m1[1] = k
          BY <4>1 DEF WillMap
        <5>2. QED
          BY <1>7, <5>1
      <4>2. CASE IsMapped(k)'
        BY <1>3, <4>2 DEF IsMapped
      <4>3. QED
        BY <1>9, <3>2, <4>1, <4>2
    <3>3. QED
      BY <2>2, <3>1, <3>2
  <2>3. QED
    BY <1>4, <1>5, <2>1, <2>2
<1>13. QED
  BY <1>11, <1>12

LEMMA ParseKnown ==
    ASSUME TemplatesAssumption, IInv, NEW w \in Workers, Parse(w)
    PROVE  KnownInv'
<1> USE DEF IInv
<1> DEFINE line == Head(work[w].todo).line
<1>1. work[w] \in Call /\ work[w] # Idle /\ work[w].todo # <<>>
      /\ Head(work[w].todo) \in Document /\ line \in Line
  BY ParseChooses
<1>2. PICK k, template, outcome : Chosen(line, k, template) /\ ParseAs(w, k, template, outcome)
  BY ParseChooses
<1>3. parsed' = parsed \cup {line}
  BY <1>2 DEF ParseAs
<1> HIDE DEF line
<1>4. clusters \in Seq(ClusterRecord) /\ parsed \subseteq Line
  BY DEF StateInv, TypeOK
<1>learned. /\ template \in Line /\ Len(template) = Len(line) /\ Learned(line, k, template)
            /\ Added(line, k) \/ Widened(line, k, template)
  BY <1>1, <1>2, ParseClusters
<1>5. /\ DOMAIN clusters' = DOMAIN clusters \cup {k}
      /\ clusters'[k].template = template
      /\ \A j \in DOMAIN clusters \ {k} : clusters'[j] = clusters[j]
      /\ \A j \in DOMAIN clusters : \A known \in Seq(Token) :
            Covers(clusters[j].template, known) => Covers(clusters'[j].template, known)
  BY <1>learned DEF Learned
<1>6. \A known \in Line : /\ Leaf(known) = LeafIn(clusters, known)
                          /\ Leaf(known)' = LeafIn(clusters', known)
  BY TreeIs
<1> SUFFICES ASSUME \A l \in parsed' : Wild \notin ToSet(l), NEW known \in parsed'
             PROVE  \E j \in DOMAIN clusters' : Knows(j, known)'
  BY DEF KnownInv
<1>7. known \in Line /\ Wild \notin ToSet(line)
  BY <1>1, <1>3, <1>4
<1>8. known \in parsed => \E j \in DOMAIN clusters : Knows(j, known)
  BY <1>3 DEF KnownInv
<1>9. CASE Widened(line, k, template)
  <2>widened. /\ k \in DOMAIN clusters /\ k \in Matches(line)
        /\ template = Generalised(clusters[k].template, line)
        /\ clusters' = [clusters EXCEPT ![k].template = template]
        /\ clusters'[k].leaf = clusters[k].leaf
    BY <1>9 DEF Widened
  <2>1. clusters[k] \in ClusterRecord /\ clusters[k].template \in Line
        /\ Len(clusters[k].template) = Len(line)
        /\ clusters[k].leaf = Leaf(line)
        /\ 2 * Equal(clusters[k].template, line) >= Len(line)
    <3>1. clusters[k] \in ClusterRecord
      BY <1>4, <2>widened
    <3>2. QED
      BY <3>1, <2>widened DEF ClusterRecord, Matches
  <2>2. \A l \in Line : LeafIn(clusters', l) = LeafIn(clusters, l)
    <3>1. Len(template) = Len(clusters[k].template)
      BY <1>learned, <2>1
    <3>2. \A n : ChildrenOf([clusters EXCEPT ![k].template = template], n) = ChildrenOf(clusters, n)
      BY <1>4, <1>learned, <2>widened, <3>1, ChildrenStay
    <3>3. \A n : ChildrenOf(clusters', n) = ChildrenOf(clusters, n)
      BY <2>widened, <3>2
    <3>4. QED
      BY <3>3 DEF LeafIn
  <2>3. \A l \in Line : Leaf(l)' = Leaf(l)
    BY <1>6, <2>2
  <2>covers. Covers(template, line)
    BY <1>learned DEF Learned
  \* Who is known by the cluster of the line still is, and so is the line.
  <2>4. ASSUME NEW l \in Line, Len(l) = Len(line), clusters[k].leaf = Leaf(l),
               l = line \/ Covers(clusters[k].template, l)
        PROVE  Knows(k, l)'
    <3>1. Covers(template, l)
      <4>1. l \in Seq(Token)
        BY DEF Line
      <4>2. QED
        BY <1>5, <2>widened, <2>4, <4>1, <2>covers
    <3>2. Equal(clusters[k].template, line) <= Equal(template, l)
      BY <1>1, <1>7, <2>widened, <2>1, <2>4, GeneralisedIsSimilar
    <3>3. /\ Equal(clusters[k].template, line) \in Nat /\ Equal(template, l) \in Nat
          /\ Len(line) \in Nat
      BY <1>1, EqualBounds DEF Line
    <3>4. 2 * Equal(template, l) >= Len(l)
      BY <2>1, <2>4, <3>2, <3>3
    <3>5. /\ Len(clusters'[k].template) = Len(l)
          /\ clusters'[k].leaf = Leaf(l)'
          /\ Covers(clusters'[k].template, l)
          /\ 2 * Equal(clusters'[k].template, l) >= Len(l)
      BY <1>5, <1>learned, <2>widened, <2>3, <2>4, <3>1, <3>4
    <3>6. QED
      BY <3>5 DEF Knows, Equal, Covers
  <2>5. CASE known = line
    BY <1>7, <1>5, <2>1, <2>4, <2>5
  <2>6. CASE known \in parsed
    <3>1. PICK j \in DOMAIN clusters : Knows(j, known)
      BY <1>8, <2>6
    <3>2. CASE j = k
      <4>1. Len(known) = Len(line) /\ clusters[k].leaf = Leaf(known)
            /\ Covers(clusters[k].template, known)
        BY <2>1, <3>1, <3>2 DEF Knows
      <4>2. Knows(k, known)'
        BY <1>7, <2>4, <4>1
      <4>3. QED
        BY <4>2, <1>5
    <3>3. CASE j # k
      <4>1. clusters'[j] = clusters[j] /\ Leaf(known)' = Leaf(known)
        BY <1>5, <1>7, <2>3, <3>3
      <4>2. Knows(j, known)'
        BY <3>1, <4>1 DEF Knows, Equal, Covers
      <4>3. QED
        BY <4>2, <1>5
    <3>4. QED
      BY <3>2, <3>3
  <2>7. QED
    BY <1>3, <2>5, <2>6
<1>10. CASE Added(line, k)
  <2> DEFINE c == Cluster(line)
  <2>1. /\ clusters' = Append(clusters, c) /\ c \in ClusterRecord
        /\ c.template = line /\ c.leaf = LeafIn(clusters, line)
        /\ clusters'[k] = c
    <3>1. clusters' = Append(clusters, c) /\ c \in ClusterRecord /\ k = Len(clusters) + 1
      BY <1>10 DEF Added
    <3>2. clusters'[k] = c
      BY <3>1, <1>4, AppendFacts
    <3>3. QED
      BY <1>1, <1>6, <3>1, <3>2 DEF Cluster
  <2> HIDE DEF c
  <2>2. CASE known = line
    <3>1. LeafIn(clusters', line) = LeafIn(clusters, line)
      BY <1>1, <1>4, <2>1, LeafIsFound
    <3>2. Equal(line, line) = Len(line) /\ Len(line) \in Nat
      BY <1>1, EqualBounds DEF Line
    <3>3. Covers(line, line)
      BY DEF Covers
    <3>4. PICK l \in Line : l = line
      BY <1>1
    <3>5. clusters'[k].template = l /\ clusters'[k].leaf = Leaf(l)'
      BY <1>6, <2>1, <3>1, <3>4
    <3>6. Covers(l, l) /\ 2 * Equal(l, l) >= Len(l)
      BY <3>2, <3>3, <3>4
    <3>7. Knows(k, l)'
      BY <3>5, <3>6 DEF Knows, Equal, Covers
    <3>8. QED
      BY <1>5, <2>2, <3>4, <3>7
  <2>3. CASE known \in parsed
    <3>1. PICK j \in DOMAIN clusters : Knows(j, known)
      BY <1>8, <2>3
    <3>2. clusters[j] = clusters'[j] /\ j \in DOMAIN clusters'
      BY <1>5, <1>10 DEF Added
    <3>3. Leaf(known) \in ChildrenOf(clusters, Len(known))
      BY <3>1 DEF Knows, ChildrenOf, ToSet
    <3>4. Leaf(known)' = Leaf(known)
      BY <1>1, <1>4, <1>6, <1>7, <2>1, <3>3, LeafStays
    <3>5. Knows(j, known)'
      BY <3>1, <3>2, <3>4 DEF Knows, Equal, Covers
    <3>6. QED
      BY <3>2, <3>5
  <2>4. QED
    BY <1>3, <2>2, <2>3
<1>11. QED
  BY <1>learned, <1>9, <1>10

LEMMA ParseStep ==
    ASSUME TemplatesAssumption, IInv, NEW w \in Workers, Parse(w)
    PROVE  IInv'
<1>1. StateInv' /\ MapInv' /\ SeenInv' /\ KnownInv'
  BY ParseState, ParseMap, ParseKnown DEF IInv
<1>2. ReportedInv'
  <2> DEFINE d == Head(work[w].todo)
  <2>1. /\ work[w] \in Call /\ work[w] # Idle
        /\ work[w].todo # <<>> /\ d \in Document /\ d.line \in Line
        /\ reported' = reported
    BY ParseChooses DEF IInv
  <2>2. PICK k, template, outcome : Chosen(d.line, k, template) /\ ParseAs(w, k, template, outcome)
    BY ParseChooses DEF IInv
  <2>3. k \in Nat /\ template \in Line
    <3>1. StateInv
      BY DEF IInv
    <3> HIDE DEF d
    <3>2. QED
      BY <2>1, <2>2, <3>1, ParseClusters
  <2>4. /\ \A i \in DOMAIN templates : i \in DOMAIN templates' /\ templates'[i] = templates[i]
        /\ observations \subseteq observations'
    BY <2>1, <2>2, <2>3, ParseCall DEF IInv
  <2>5. Kept
    BY <2>4 DEF Kept
  <2>6. QED
    BY <2>1, <2>4, <2>5, ReportsStay DEF IInv
<1>3. QED
  BY <1>1, <1>2 DEF IInv

-----------------------------------------------------------------------------
(* The process starts. *)

LEMMA RestartStep ==
    ASSUME IInv, Restart
    PROVE  IInv'
<1>1. /\ clusters' = <<>> /\ map' = <<>> /\ seeds' \in Listings
      /\ work' = [w \in Workers |-> Idle] /\ parsed' = {}
      /\ UNCHANGED <<templates, observations, now, reported>>
  BY DEF Restart, tables
<1>2. templates \in Seq(TemplateRecord) /\ now \in Nat /\ reported \subseteq Document
  BY DEF IInv, StateInv, TypeOK
<1>3. seeds' \in Seq(DOMAIN templates)
  <2> DEFINE ids == {i \in DOMAIN templates :
                       ~templates[i].deleted /\ Overlaps(Shard(templates[i].ts), LoadWindow)}
  <2>1. seeds' \in [1..Cardinality(ids) -> ids]
    BY <1>1 DEF Listings, Bijection, Injection
  <2>2. ids \in SUBSET (1..Len(templates)) /\ Len(templates) \in Nat
    BY <1>2
  <2>3. Cardinality(ids) \in Nat
    BY <2>2, UpTo, FS_Subset, FS_CardinalityType
  <2>4. ids \subseteq DOMAIN templates
    OBVIOUS
  <2> HIDE DEF ids
  <2>5. QED
    BY <2>1, <2>3, <2>4
<1>4. DOMAIN <<>> = {}
  BY EmptySeq
<1>5. TypeOK'
  BY <1>1, <1>2, <1>3, <1>4, EmptySeq DEF TypeOK
<1>6. \A w \in Workers : work'[w] = Idle /\ New(w)' = {} /\ Seen(w)' = {}
  BY <1>1, Nothing
<1>7. SeedInv'
  BY <1>1, <1>6, EmptySeq DEF SeedInv
<1>8. WorkInv'
  BY <1>6 DEF WorkInv, Idle
<1>9. MapInv'
  BY <1>1, <1>4 DEF MapInv
<1>10. SeenInv'
  BY <1>6 DEF SeenInv
<1>11. ReportedInv'
  BY <1>1, SameTemplates, ReportsStay DEF IInv
<1>12. KnownInv'
  BY <1>1 DEF KnownInv
<1>13. QED
  BY <1>5, <1>7, <1>8, <1>9, <1>10, <1>11, <1>12 DEF IInv, StateInv

LEMMA SeedStep ==
    ASSUME IInv, Seed
    PROVE  IInv'
<1> DEFINE id == Head(seeds)
           c == Cluster(templates[id].name)
<1>1. /\ seeds # <<>> /\ seeds' = Tail(seeds)
      /\ clusters' = Append(clusters, c) /\ map' = Append(map, id)
      /\ UNCHANGED <<templates, observations, work, now, reported, parsed, troubled>>
  BY DEF Seed, tables, bounded, history
<1>2. /\ \A w \in Workers : work[w] = Idle
      /\ parsed = {} /\ DOMAIN map = DOMAIN clusters /\ map \in Seq(DOMAIN templates)
      /\ clusters \in Seq(ClusterRecord) /\ templates \in Seq(TemplateRecord)
      /\ seeds \in Seq(DOMAIN templates)
  BY <1>1 DEF IInv, StateInv, TypeOK, SeedInv
<1>3. id \in DOMAIN templates /\ Tail(seeds) \in Seq(DOMAIN templates)
  BY <1>1, <1>2, SeqFacts
<1>4. templates[id].name \in Line
  <2>1. templates[id] \in TemplateRecord
    BY <1>2, <1>3
  <2>2. QED
    BY <2>1 DEF TemplateRecord
<1>5. c \in ClusterRecord /\ c.template = templates[id].name
  BY <1>4, LeafType, TreeIs DEF Cluster, ClusterRecord
<1> HIDE DEF id, c
<1>6. Len(map) = Len(clusters)
  <2>1. 1..Len(map) = 1..Len(clusters) /\ Len(map) \in Nat /\ Len(clusters) \in Nat
    BY <1>2
  <2>2. QED
    BY <2>1
<1>7. /\ clusters' \in Seq(ClusterRecord)
      /\ DOMAIN clusters' = DOMAIN clusters \cup {Len(clusters) + 1}
      /\ \A k \in DOMAIN clusters : clusters'[k] = clusters[k]
      /\ clusters'[Len(clusters) + 1] = c
  BY <1>1, <1>2, <1>5, AppendFacts
<1>8. /\ map' \in Seq(DOMAIN templates)
      /\ DOMAIN map' = DOMAIN clusters \cup {Len(clusters) + 1}
      /\ \A k \in DOMAIN clusters : map'[k] = map[k]
      /\ map'[Len(clusters) + 1] = id
  BY <1>1, <1>2, <1>3, <1>6, AppendFacts
<1>9. \A k \in DOMAIN map' : map'[k] \in DOMAIN templates'
  BY <1>1, <1>8, SeqFacts
<1>10. TypeOK'
  BY <1>1, <1>3, <1>7, <1>9 DEF TypeOK, IInv, StateInv
<1>11. SeedInv'
  BY <1>1, <1>2, <1>7, <1>8 DEF SeedInv
<1>12. \A w \in Workers : work'[w] = Idle /\ New(w)' = {} /\ Seen(w)' = {} /\ Pending(w)' = {}
  BY <1>1, <1>2, Nothing
<1>13. WorkInv'
  BY <1>12 DEF WorkInv, Idle
<1>14. SeenInv'
  BY <1>12 DEF SeenInv
<1>15. MapInv'
  <2> SUFFICES ASSUME NEW k \in DOMAIN clusters' \ troubled'
               PROVE  IsMapped(k)'
    BY <1>12 DEF MapInv
  <2>1. CASE k = Len(clusters) + 1
    BY <1>1, <1>5, <1>7, <1>8, <2>1 DEF IsMapped
  <2>2. CASE k \in DOMAIN clusters
    <3>1. \A w \in Workers : ~WillMap(w, k)
      BY <1>2 DEF WillMap, New
    <3>2. IsMapped(k)
      BY <1>1, <2>2, <3>1 DEF IInv, MapInv
    <3>3. QED
      BY <1>1, <1>2, <1>7, <1>8, <2>2, <3>2 DEF IsMapped
  <2>3. QED
    BY <1>7, <2>1, <2>2
<1>16. ReportedInv'
  BY <1>1, SameTemplates, ReportsStay DEF IInv
<1>17. KnownInv'
  BY <1>1, <1>2 DEF KnownInv
<1>18. QED
  BY <1>10, <1>11, <1>13, <1>14, <1>15, <1>16, <1>17 DEF IInv, StateInv

LEMMA InitInv == Init => IInv
<1> SUFFICES ASSUME Init PROVE IInv
  OBVIOUS
<1> USE DEF Init
<1>1. DOMAIN <<>> = {}
  BY EmptySeq
<1>2. TypeOK /\ SeedInv
  BY <1>1, EmptySeq DEF TypeOK, SeedInv
<1>3. \A w \in Workers : work[w] = Idle /\ Seen(w) = {}
  BY DEF Seen
<1>4. WorkInv /\ SeenInv
  BY <1>3 DEF WorkInv, SeenInv, Idle
<1>5. MapInv
  BY <1>1 DEF MapInv
<1>6. ReportedInv /\ KnownInv
  BY DEF ReportedInv, KnownInv
<1>7. QED
  BY <1>2, <1>4, <1>5, <1>6 DEF IInv, StateInv

LEMMA StutterStep ==
    ASSUME IInv, UNCHANGED vars
    PROVE  IInv'
<1>1. UNCHANGED <<parser, work, history, templates, observations, now, reported>>
  BY DEF vars, tables, bounded, history
<1>2. now \in Nat /\ templates \in Seq(TemplateRecord)
  BY DEF IInv, StateInv, TypeOK
<1>3. Kept /\ now' \in Nat /\ now' >= now
  BY <1>1, <1>2, SameTemplates
<1>4. StateInv' /\ MapInv' /\ SeenInv' /\ KnownInv'
  BY <1>1, <1>2, <1>3, QuietStep
<1>5. ReportedInv'
  BY <1>1, <1>3, ReportsStay DEF IInv
<1>6. QED
  BY <1>4, <1>5 DEF IInv

LEMMA NextInv ==
    ASSUME TemplatesAssumption, IInv, [Next]_vars
    PROVE  IInv'
<1>1. CASE Next
  <2>1. ASSUME NEW w \in Workers,
               \/ Add(w) \/ AddBatch(w)
               \/ Parse(w) \/ Panic(w) \/ InsertMappings(w) \/ Observe(w) \/ Store(w)
        PROVE  IInv'
    BY <2>1, BeginStep, ParseStep, PanicStep, InsertStep, ObserveStep, StoreStep
  <2>2. ASSUME NEW id \in DOMAIN templates, Delete(id)
        PROVE  IInv'
    BY <2>2, DeleteStep
  <2>3. CASE Tick \/ Restart \/ Seed
    BY <2>3, TickStep, RestartStep, SeedStep
  <2>4. QED
    BY <1>1, <2>1, <2>2, <2>3 DEF Next
<1>2. CASE UNCHANGED vars
  BY <1>2, StutterStep
<1>3. QED
  BY <1>1, <1>2

LEMMA TemplatesInv == Spec => []IInv
<1>1. Init => IInv
  BY InitInv
<1>2. IInv /\ [Next]_vars => IInv'
  BY NextInv, TemplatesAssumption
<1>3. QED
  BY <1>1, <1>2, PTL DEF Spec

-----------------------------------------------------------------------------
(* The properties. *)

\* A line that was parsed keeps its cluster, however the templates are
\* generalised and the tree fills, as long as no line has masked tokens: it goes
\* to the leaf of its cluster and is similar enough to it.
THEOREM LinesKeepTheirClusters == Spec => []ParsedAreKnown
<1>1. IInv => ParsedAreKnown
  <2> SUFFICES ASSUME IInv, \A line \in parsed : Wild \notin ToSet(line),
                      NEW line \in parsed
               PROVE  Matches(line) # {}
    BY DEF ParsedAreKnown
  <2>1. PICK k \in DOMAIN clusters : Knows(k, line)
    BY DEF IInv, KnownInv
  <2>2. k \in Matches(line)
    BY <2>1 DEF Knows, Matches
  <2>3. QED
    BY <2>2
<1>2. QED
  BY <1>1, TemplatesInv, PTL

\* When nobody is at work the map names, for every cluster that was not
\* disturbed, the document that holds its template.
THEOREM MapNamesTemplates == Spec => []MapIsCurrent
<1>1. IInv => MapIsCurrent
  <2> SUFFICES ASSUME IInv, Quiet, NEW k \in DOMAIN clusters \ troubled
               PROVE  k \in DOMAIN map /\ templates[map[k]].name = clusters[k].template
    BY DEF MapIsCurrent
  <2>1. \A w \in Workers : ~WillMap(w, k)
    BY DEF Quiet, WillMap, New
  <2>2. IsMapped(k)
    BY <2>1 DEF IInv, MapInv
  <2>3. QED
    BY <2>2 DEF IsMapped
<1>2. QED
  BY <1>1, TemplatesInv, PTL

\* A line that was reported has its template among the recent ones for as long
\* as its document is in the window, unless the template was deleted.
THEOREM LinesStayReported == Spec => []LinesAreReported
<1>1. TemplatesAssumption /\ IInv => LinesAreReported
  <2> SUFFICES ASSUME TemplatesAssumption, IInv, NEW d \in reported, d.ts + Lookback >= now
               PROVE  \E id \in DOMAIN templates :
                         /\ Covers(templates[id].name, d.line)
                         /\ id \in Recent \/ templates[id].deleted
    BY DEF LinesAreReported
  <2>1. PICK id \in DOMAIN templates : Covers(templates[id].name, d.line) /\ IsObserved(d, id)
    BY DEF IInv, ReportedInv
  <2>2. d.ts \in Nat /\ now \in Nat /\ Lookback \in Nat /\ Width \in Nat
    BY DEF IInv, StateInv, TypeOK, Document, TemplatesAssumption
  <2>3. ASSUME ~templates[id].deleted
        PROVE  id \in Recent
    <3>1. PICK o \in observations :
             o.id = id /\ o.at \in Nat /\ o.at >= d.ts /\ o.shard = Shard(d.ts)
      BY <2>1, <2>3 DEF IsObserved
    <3>2. Shard(d.ts) \in Int /\ Shard(d.ts) + Width > d.ts
      BY <2>2, ShardType
    <3>3. o.at + Lookback >= now /\ Overlaps(o.shard, Lookback)
      BY <2>2, <3>1, <3>2 DEF Overlaps
    <3>4. QED
      BY <2>3, <3>1, <3>3 DEF Recent
  <2>4. QED
    BY <2>1, <2>3
<1>2. QED
  BY <1>1, TemplatesInv, TemplatesAssumption, PTL

=============================================================================
