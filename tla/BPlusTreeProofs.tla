---------------------------- MODULE BPlusTreeProofs -------------------------
(***************************************************************************)
(* Proofs about the back end's B+ tree, for every order M and all records: *)
(* what a tree is besides ordered and linked (Shape), that each of the     *)
(* steps of insert keeps it or leaves it overfull at one node (Nearly),    *)
(* what lookup finds before and after, from the root and from the address  *)
(* of a leaf that was split since.                                         *)
(***************************************************************************)
EXTENDS BPlusTree, FiniteSetTheorems, WellFoundedInduction, TLAPS

(* A set of naturals has a smallest one: the form in which a statement     *)
(* about all of them is proved here, by its smallest counterexample.       *)
LEMMA SmallestNumber ==
  ASSUME NEW C, C \subseteq Nat, C # {}
  PROVE  \E m \in C : \A k \in C : m <= k
<1> DEFINE R == OpToRel(<, Nat)
<1>1. PICK m \in C : \A k \in C : ~(<<k, m>> \in R)
  BY NatLessThanWellFounded, WFMin
<1>2. \A k \in C : ~(k < m) BY <1>1 DEF OpToRel
<1>q. QED BY <1>2

-----------------------------------------------------------------------------
(* The vectors of a node *)

(* insert(begin() + i - 1, e) moves what is behind one place on. *)
Enlarged(r, s, i, e) ==
    /\ Len(r) = Len(s) + 1 /\ r[i] = e
    /\ \A j \in 1..Len(s) : (j < i => r[j] = s[j]) /\ (j >= i => r[j + 1] = s[j])

LEMMA InsertAtIs ==
  ASSUME NEW S, NEW s \in Seq(S), NEW i \in 1..(Len(s) + 1), NEW e \in S
  PROVE  InsertAt(s, i, e) \in Seq(S) /\ Enlarged(InsertAt(s, i, e), s, i, e)
<1> DEFINE x == SubSeq(s, 1, i - 1)
           z == SubSeq(s, i, Len(s))
           y == x \o <<e>>
           r == y \o z
<1>1. x \in Seq(S) /\ Len(x) = i - 1 /\ \A j \in 1..(i - 1) : x[j] = s[j] OBVIOUS
<1>2. z \in Seq(S) /\ Len(z) = Len(s) - i + 1 /\ \A j \in 1..(Len(s) - i + 1) : z[j] = s[i + j - 1]
  OBVIOUS
<1> HIDE DEF x, z
<1>3. y \in Seq(S) /\ Len(y) = i /\ y[i] = e /\ \A j \in 1..(i - 1) : y[j] = s[j] BY <1>1
<1> HIDE DEF y
<1>4. r \in Seq(S) /\ Len(r) = Len(s) + 1 BY <1>2, <1>3
<1>5. ASSUME NEW j \in 1..Len(s), j < i PROVE r[j] = s[j] BY <1>5, <1>2, <1>3
<1>6. ASSUME NEW j \in 1..Len(s), j >= i PROVE r[j + 1] = s[j]
  <2>1. r[j + 1] = z[j + 1 - i]
    <3>1. j + 1 \in (Len(y) + 1)..(Len(y) + Len(z)) BY <1>6, <1>2, <1>3
    <3>2. y \in Seq(S) /\ z \in Seq(S) /\ Len(y) = i BY <1>2, <1>3
    <3>q. QED BY <3>1, <3>2
  <2>2. j + 1 - i \in 1..(Len(s) - i + 1) /\ i + (j + 1 - i) - 1 = j BY <1>6
  <2> HIDE DEF r
  <2>q. QED BY <2>1, <2>2, <1>2
<1>7. r[i] = e BY <1>2, <1>3
<1>q. QED BY <1>4, <1>5, <1>6, <1>7 DEF InsertAt, Enlarged, x, y, z

LEMMA CutIs ==
  ASSUME NEW S, NEW s \in Seq(S), NEW m \in 1..(Len(s) + 1), NEW n \in Nat, m <= n + 1, n <= Len(s)
  PROVE  /\ SubSeq(s, m, n) \in Seq(S) /\ Len(SubSeq(s, m, n)) = n - m + 1
         /\ \A i \in 1..(n - m + 1) : SubSeq(s, m, n)[i] = s[m + i - 1]
OBVIOUS

LEMMA AppendIs ==
  ASSUME NEW S, NEW s \in Seq(S), NEW e \in S
  PROVE  /\ Append(s, e) \in Seq(S) /\ Len(Append(s, e)) = Len(s) + 1
         /\ \A i \in 1..Len(s) : Append(s, e)[i] = s[i]
         /\ Append(s, e)[Len(s) + 1] = e
OBVIOUS

Sorted(s) == \A i, j \in 1..Len(s) : i <= j => s[i] <= s[j]

(* p is the first place of a sorted vector whose key is not below k. *)
FirstNotBelow(s, k, p) ==
    /\ p \in 1..(Len(s) + 1)
    /\ \A i \in 1..Len(s) : (i < p => s[i] < k) /\ (p <= i => k <= s[i])

LEMMA FirstNotBelowOnce ==
  ASSUME NEW s \in Seq(Int), NEW k \in Int, NEW p, NEW q, FirstNotBelow(s, k, p), FirstNotBelow(s, k, q)
  PROVE  p = q
<1>1. p \in 1..(Len(s) + 1) /\ q \in 1..(Len(s) + 1) BY DEF FirstNotBelow
<1>2. CASE p < q
  <2>1. p \in 1..Len(s) BY <1>1, <1>2
  <2>q. QED BY <1>1, <1>2, <2>1 DEF FirstNotBelow
<1>3. CASE q < p
  <2>1. q \in 1..Len(s) BY <1>1, <1>3
  <2>q. QED BY <1>1, <1>3, <2>1 DEF FirstNotBelow
<1>q. QED BY <1>1, <1>2, <1>3

(* std::lower_bound finds it. *)
LEMMA LowerBoundIs ==
  ASSUME NEW s \in Seq(Int), Sorted(s), NEW k \in Int
  PROVE  FirstNotBelow(s, k, lower_bound(s, k))
<1> DEFINE C == {p \in 1..(Len(s) + 1) : p = Len(s) + 1 \/ k <= s[p]}
<1>0. Len(s) \in Nat OBVIOUS
<1>1. C \subseteq Nat /\ Len(s) + 1 \in C BY <1>0
<1>2. PICK p \in C : \A q \in C : p <= q
  <2> HIDE DEF C
  <2>q. QED BY <1>1, SmallestNumber
<1>3. p \in 1..(Len(s) + 1) OBVIOUS
<1>4. ASSUME NEW i \in 1..Len(s), i < p PROVE s[i] < k
  <2>1. s[i] \in Int OBVIOUS
  <2>2. i \notin C BY <1>2, <1>4
  <2>q. QED BY <2>1, <2>2, <1>0
<1>5. ASSUME NEW i \in 1..Len(s), p <= i PROVE k <= s[i]
  <2>1. p \in 1..Len(s) /\ k <= s[p] BY <1>3, <1>5
  <2>2. s[p] <= s[i] BY <2>1, <1>5 DEF Sorted
  <2>q. QED BY <2>1, <2>2
<1>6. {i \in DOMAIN s : s[i] < k} = 1..(p - 1)
  <2>1. ASSUME NEW i \in DOMAIN s, s[i] < k PROVE i \in 1..(p - 1)
    <3>1. i \in 1..Len(s) /\ s[i] \in Int OBVIOUS
    <3>2. ~(p <= i) BY <1>5, <2>1, <3>1
    <3>q. QED BY <3>1, <3>2, <1>3
  <2>2. ASSUME NEW i \in 1..(p - 1) PROVE i \in DOMAIN s /\ s[i] < k
    <3>1. i \in 1..Len(s) /\ i < p BY <1>3
    <3>q. QED BY <3>1, <1>4
  <2>q. QED BY <2>1, <2>2
<1>7. Cardinality(1..(p - 1)) = p - 1
  <2>1. 1 \in Int /\ p - 1 \in Int /\ p >= 1 BY <1>3
  <2>2. Cardinality(1..(p - 1)) = IF 1 > p - 1 THEN 0 ELSE (p - 1) - 1 + 1 BY <2>1, FS_Interval
  <2>q. QED BY <2>1, <2>2
<1>8. lower_bound(s, k) = p
  <2>1. lower_bound(s, k) = 1 + Cardinality(1..(p - 1)) BY <1>6, Zenon DEF lower_bound
  <2>q. QED BY <2>1, <1>7, <1>3
<1>q. QED BY <1>3, <1>4, <1>5, <1>8 DEF FirstNotBelow
-----------------------------------------------------------------------------
(* The shape of a tree *)

(* What a node of a tree with records of V is, *)
Nodes(V) == [isLeaf : BOOLEAN, parent : Nat, key : Seq(Int), val : Seq(V), child : Seq(Nat)]
Trees(V) == [node : Seq(Nodes(V)), root : Nat, depth : Nat]
Half == M \div 2

(* and the bounds that the separators on the way to it set to its keys: it  *)
(* is searched for the keys above the low bound, up to the high one.        *)
NoBound == CHOOSE b : b \notin Int
Bounds == Int \cup {NoBound}
Over(b, k) == b = NoBound \/ b < k
Least(b, k) == b = NoBound \/ b <= k
UpTo(b, k) == b = NoBound \/ k <= b
Between(k, l, u) == Over(l, k) /\ UpTo(u, k)

(* Keys may equal the low bound if equal keys were split, but not the key   *)
(* behind the middle: so the place of a split in the parent is found.       *)
KeysOK(c, l, u) ==
    /\ Sorted(c.key)
    /\ \A i \in 1..Len(c.key) : Least(l, c.key[i]) /\ UpTo(u, c.key[i])
    /\ l # NoBound /\ Len(c.key) > Half => l < c.key[Half + 1]

(* A leaf keeps the key that became its high bound. *)
LeafOK(c, u) ==
    /\ Len(c.val) = Len(c.key) /\ c.child = <<>>
    /\ u # NoBound => c.key # <<>> /\ c.key[Len(c.key)] = u

(* g gives every node its level above the leaves and its bounds. *)
ChildOK(t, g, a, i) ==
    LET c == t.node[a]
        b == c.child[i]
    IN  /\ b \in DOMAIN t.node /\ b # t.root /\ t.node[b].parent = a
        /\ g.lev[b] + 1 = g.lev[a]
        /\ g.lo[b] = IF i = 1 THEN g.lo[a] ELSE c.key[i - 1]
        /\ g.hi[b] = IF i = Len(c.child) THEN g.hi[a] ELSE c.key[i]

(* Above the leaves, a node half of whose keys equal its low bound gets no  *)
(* more of them.                                                            *)
RunOK(t, g, a) ==
    LET c == t.node[a]
    IN  g.lev[a] = 1 /\ g.lo[a] # NoBound /\ Len(c.key) >= Half /\ c.key[Half] = g.lo[a] =>
          \A i \in 1..Len(c.child) :
            LET b == c.child[i]
            IN  g.lo[b] = g.lo[a] /\ g.hi[b] # g.lo[a] /\ Len(t.node[b].key) >= Half =>
                  g.lo[a] < t.node[b].key[Half]

InnerOK(t, g, a) ==
    LET c == t.node[a]
    IN  /\ Len(c.child) = Len(c.key) + 1
        /\ \A i \in 1..Len(c.child) : ChildOK(t, g, a, i)
        /\ \A i, j \in 1..Len(c.child) : c.child[i] = c.child[j] => i = j
        /\ RunOK(t, g, a)

(* Every node but the root is a child of its parent. *)
ParentOK(t, a) ==
    LET p == t.node[a].parent
    IN  a # t.root => /\ t.node[a].key # <<>>
                      /\ p \in DOMAIN t.node /\ ~t.node[p].isLeaf
                      /\ \E i \in 1..Len(t.node[p].child) : t.node[p].child[i] = a

NodeOK(t, g, a) ==
    LET c == t.node[a]
    IN  /\ c.isLeaf <=> g.lev[a] = 0
        /\ KeysOK(c, g.lo[a], g.hi[a])
        /\ ParentOK(t, a)
        /\ c.isLeaf => LeafOK(c, g.hi[a])
        /\ ~c.isLeaf => InnerOK(t, g, a)

(* A leaf with a low bound has one to its left that is searched for it. *)
LeftOK(t, g, a) ==
    t.node[a].isLeaf /\ g.lo[a] # NoBound =>
        \E b \in DOMAIN t.node : t.node[b].isLeaf /\ g.hi[b] = g.lo[a] /\ Over(g.lo[b], g.hi[b])

GhostOK(t, g) ==
    /\ g.lev \in [DOMAIN t.node -> Nat] /\ \A a \in DOMAIN t.node : g.lev[a] < t.depth
    /\ g.lo \in [DOMAIN t.node -> Bounds] /\ g.hi \in [DOMAIN t.node -> Bounds]

RootOK(t, g) ==
    /\ t.root \in DOMAIN t.node /\ t.node[t.root].parent = NULL
    /\ g.lev[t.root] + 1 = t.depth /\ g.lo[t.root] = NoBound /\ g.hi[t.root] = NoBound

(* Only the node f, if any, is full. *)
Shape(t, g, V, f) ==
    /\ t \in Trees(V) /\ GhostOK(t, g) /\ RootOK(t, g)
    /\ \A a \in DOMAIN t.node : /\ NodeOK(t, g, a) /\ LeftOK(t, g, a)
                                /\ IF a = f THEN Len(t.node[a].key) <= M ELSE Len(t.node[a].key) < M

LEMMA BoundCases ==
  /\ NoBound \notin Int
  /\ \A b \in Bounds : b = NoBound \/ b \in Int
BY NoSetContainsEverything DEF NoBound, Bounds

LEMMA MIs == Half \in Nat /\ Half >= 2 /\ M = 2 * Half /\ M \in Nat
BY TreeAssumption DEF Half

(* Facts about numbers, for places in a sequence and its extension. *)
LEMMA SeqElements == ASSUME NEW S, NEW s \in Seq(S) PROVE \A j \in 1..Len(s) : s[j] \in S
OBVIOUS

LEMMA NotTheLast == ASSUME NEW n \in Nat, NEW i \in 1..(n + 1), i # n + 1 PROVE i \in 1..n /\ i # n + 2
OBVIOUS

LEMMA OneFurther == ASSUME NEW n \in Nat, NEW j \in 1..n PROVE j \in 1..(n + 1) /\ j + 1 \in 1..(n + 1)
OBVIOUS

LEMMA NodeFields ==
  ASSUME NEW V, NEW t \in Trees(V), NEW a \in DOMAIN t.node
  PROVE  /\ t.node \in Seq(Nodes(V)) /\ DOMAIN t.node = 1..Len(t.node) /\ Len(t.node) \in Nat
         /\ t.node[a] \in Nodes(V) /\ t.node[a].isLeaf \in BOOLEAN /\ t.node[a].parent \in Nat
         /\ t.node[a].key \in Seq(Int) /\ t.node[a].val \in Seq(V) /\ t.node[a].child \in Seq(Nat)
         /\ t.root \in Nat /\ t.depth \in Nat
         /\ Len(t.node[a].key) \in Nat /\ Len(t.node[a].child) \in Nat
         /\ DOMAIN t.node[a].key = 1..Len(t.node[a].key)
<1>1. t.node \in Seq(Nodes(V)) /\ t.root \in Nat /\ t.depth \in Nat BY DEF Trees
<1>2. DOMAIN t.node = 1..Len(t.node) /\ Len(t.node) \in Nat BY <1>1
<1>3. t.node[a] \in Nodes(V) BY <1>1, <1>2
<1>4. /\ t.node[a].isLeaf \in BOOLEAN /\ t.node[a].parent \in Nat
      /\ t.node[a].key \in Seq(Int) /\ t.node[a].val \in Seq(V) /\ t.node[a].child \in Seq(Nat)
  BY <1>3 DEF Nodes
<1>q. QED BY <1>1, <1>2, <1>3, <1>4

(* The child a search for k goes on with, between the bounds of a node, is  *)
(* the only one between whose bounds k lies.                                *)
Chosen(t, g, a, k, p) ==
    LET ch == t.node[a].child
    IN  /\ p \in 1..Len(ch) /\ ch[p] \in DOMAIN t.node
        /\ Between(k, g.lo[ch[p]], g.hi[ch[p]])
        /\ g.lev[ch[p]] + 1 = g.lev[a]
        /\ \A i \in 1..Len(ch) : Between(k, g.lo[ch[i]], g.hi[ch[i]]) => i = p

LEMMA ChildFor ==
  ASSUME NEW V, NEW t, NEW g, NEW f, Shape(t, g, V, f), NEW a \in DOMAIN t.node, ~t.node[a].isLeaf,
         NEW k \in Int, Between(k, g.lo[a], g.hi[a])
  PROVE  Chosen(t, g, a, k, lower_bound(t.node[a].key, k))
<1> DEFINE c == t.node[a]
           p == lower_bound(c.key, k)
           b == c.child[p]
<1>1. t \in Trees(V) /\ NodeOK(t, g, a) /\ GhostOK(t, g) BY DEF Shape
<1>2. c.key \in Seq(Int) /\ Len(c.key) \in Nat /\ g.lo[a] \in Bounds /\ g.hi[a] \in Bounds
  BY <1>1, NodeFields DEF GhostOK
<1>3. Sorted(c.key) /\ InnerOK(t, g, a) BY <1>1 DEF NodeOK, KeysOK
<1>4. FirstNotBelow(c.key, k, p) BY <1>2, <1>3, LowerBoundIs
<1>5. Len(c.child) = Len(c.key) + 1 /\ \A i \in 1..Len(c.child) : ChildOK(t, g, a, i) BY <1>3 DEF InnerOK
<1>6. p \in 1..Len(c.child) BY <1>4, <1>5 DEF FirstNotBelow
<1> HIDE DEF p
<1>7. ASSUME NEW i \in 1..Len(c.child)
      PROVE  /\ c.child[i] \in DOMAIN t.node
             /\ g.lev[c.child[i]] + 1 = g.lev[a]
             /\ g.lo[c.child[i]] = IF i = 1 THEN g.lo[a] ELSE c.key[i - 1]
             /\ g.hi[c.child[i]] = IF i = Len(c.child) THEN g.hi[a] ELSE c.key[i]
  BY <1>5 DEF ChildOK
<1>8. \A i \in 1..Len(c.key) : c.key[i] \in Int BY <1>2
<1>9. Between(k, g.lo[b], g.hi[b])
  <2>1. Over(g.lo[b], k)
    <3>1. CASE p = 1 BY <3>1, <1>6, <1>7 DEF Between
    <3>2. CASE p # 1
      <4>1. p - 1 \in 1..Len(c.key) /\ p - 1 < p BY <3>2, <1>5, <1>6, <1>2
      <4>q. QED BY <4>1, <3>2, <1>4, <1>6, <1>7 DEF FirstNotBelow, Over
    <3>q. QED BY <3>1, <3>2
  <2>2. UpTo(g.hi[b], k)
    <3>1. CASE p = Len(c.child) BY <3>1, <1>6, <1>7 DEF Between
    <3>2. CASE p # Len(c.child)
      <4>1. p \in 1..Len(c.key) BY <3>2, <1>5, <1>6, <1>2
      <4>q. QED BY SMTT(30), <4>1, <3>2, <1>4, <1>6, <1>7 DEF FirstNotBelow, UpTo
    <3>q. QED BY <3>1, <3>2
  <2>q. QED BY <2>1, <2>2 DEF Between
<1>10. ASSUME NEW i \in 1..Len(c.child), Between(k, g.lo[c.child[i]], g.hi[c.child[i]]) PROVE i = p
  <2>1. CASE i < p
    <3>1. i \in 1..Len(c.key) /\ i # Len(c.child) BY <2>1, <1>5, <1>6, <1>2
    <3>2. g.hi[c.child[i]] = c.key[i] /\ c.key[i] \in Int BY <3>1, <1>7, <1>8
    <3>3. c.key[i] < k BY <3>1, <2>1, <1>4 DEF FirstNotBelow
    <3>4. k <= c.key[i] BY <3>2, <1>10, BoundCases DEF Between, UpTo
    <3>q. QED BY <3>2, <3>3, <3>4
  <2>2. CASE i > p
    <3>1. i - 1 \in 1..Len(c.key) /\ i # 1 /\ p <= i - 1 BY <2>2, <1>5, <1>6, <1>2
    <3>2. g.lo[c.child[i]] = c.key[i - 1] /\ c.key[i - 1] \in Int BY <3>1, <1>7, <1>8
    <3>3. k <= c.key[i - 1] BY <3>1, <1>4 DEF FirstNotBelow
    <3>4. c.key[i - 1] < k BY <3>2, <1>10, BoundCases DEF Between, Over
    <3>q. QED BY <3>2, <3>3, <3>4
  <2>q. QED BY <2>1, <2>2, <1>6
<1>q. QED BY <1>6, <1>7, <1>9, <1>10 DEF p, Chosen

(* What lies between the bounds of a child lies between those of its parent. *)
LEMMA BetweenUp ==
  ASSUME NEW V, NEW t, NEW g, NEW f, Shape(t, g, V, f), NEW q \in DOMAIN t.node, ~t.node[q].isLeaf,
         NEW i \in 1..Len(t.node[q].child), NEW k \in Int,
         Between(k, g.lo[t.node[q].child[i]], g.hi[t.node[q].child[i]])
  PROVE  Between(k, g.lo[q], g.hi[q])
<1> DEFINE a == t.node[q].child[i]
<1>0. t \in Trees(V) /\ GhostOK(t, g) /\ NodeOK(t, g, q) BY DEF Shape
<1>i. InnerOK(t, g, q) BY <1>0 DEF NodeOK
<1>1. /\ g.lo[a] = IF i = 1 THEN g.lo[q] ELSE t.node[q].key[i - 1]
      /\ g.hi[a] = IF i = Len(t.node[q].child) THEN g.hi[q] ELSE t.node[q].key[i]
  BY <1>i DEF InnerOK, ChildOK
<1>2. /\ Len(t.node[q].child) = Len(t.node[q].key) + 1
      /\ \A j \in 1..Len(t.node[q].key) : Least(g.lo[q], t.node[q].key[j]) /\ UpTo(g.hi[q], t.node[q].key[j])
  BY <1>0, <1>i DEF NodeOK, KeysOK, InnerOK
<1>3. t.node[q].key \in Seq(Int) /\ Len(t.node[q].key) \in Nat BY <1>0, NodeFields
<1>4. g.lo[q] \in Bounds /\ g.hi[q] \in Bounds BY <1>0 DEF GhostOK
<1>b. Between(k, g.lo[a], g.hi[a]) OBVIOUS
<1> HIDE DEF a
<1>5. Over(g.lo[q], k)
  <2>1. CASE i = 1 BY <2>1, <1>1, <1>b DEF Between
  <2>2. CASE i # 1
    <3>1. i - 1 \in 1..Len(t.node[q].key) BY <2>2, <1>2, <1>3
    <3>2. t.node[q].key[i - 1] \in Int /\ Least(g.lo[q], t.node[q].key[i - 1]) BY <3>1, <1>2, <1>3
    <3>3. t.node[q].key[i - 1] < k BY <3>2, <2>2, <1>1, <1>b, BoundCases DEF Between, Over
    <3>q. QED BY <3>2, <3>3, <1>4, BoundCases DEF Least, Over
  <2>q. QED BY <2>1, <2>2
<1>6. UpTo(g.hi[q], k)
  <2>1. CASE i = Len(t.node[q].child) BY <2>1, <1>1, <1>b DEF Between
  <2>2. CASE i # Len(t.node[q].child)
    <3>1. i \in 1..Len(t.node[q].key) BY <2>2, <1>2, <1>3
    <3>2. t.node[q].key[i] \in Int /\ UpTo(g.hi[q], t.node[q].key[i]) BY <3>1, <1>2, <1>3
    <3>3. k <= t.node[q].key[i] BY <3>2, <2>2, <1>1, <1>b, BoundCases DEF Between, UpTo
    <3>q. QED BY <3>2, <3>3, <1>4, BoundCases DEF UpTo
  <2>q. QED BY <2>1, <2>2
<1>q. QED BY <1>5, <1>6 DEF Between

(* One turn of the loop of a lookup. *)
Down(t, k, b) == IF t.node[b].isLeaf THEN b ELSE t.node[b].child[lower_bound(t.node[b].key, k)]
Walk(w, t, k, a, m) == w = [n \in 0..m |-> IF n = 0 THEN a ELSE Down(t, k, w[n - 1])]

LEMMA WalkExists == ASSUME NEW t, NEW k, NEW a, NEW m \in Nat PROVE \E w : Walk(w, t, k, a, m)
<1> DEFINE C == {n \in Nat : ~ \E w : Walk(w, t, k, a, n)}
<1>1. ASSUME C # {} PROVE FALSE
  <2>0. C \subseteq Nat OBVIOUS
  <2>1. PICK n \in C : \A j \in C : n <= j
    <3> HIDE DEF C
    <3>q. QED BY <1>1, <2>0, SmallestNumber
  <2>2. CASE n = 0
    <3> DEFINE w == [i \in 0..0 |-> a]
    <3>1. Walk(w, t, k, a, 0) BY DEF Walk
    <3>q. QED BY <3>1, <2>1, <2>2
  <2>3. CASE n # 0
    <3>1. n - 1 \in Nat /\ n - 1 \notin C BY <2>1, <2>3
    <3>2. PICK v : Walk(v, t, k, a, n - 1) BY <3>1
    <3> DEFINE w == [i \in 0..n |-> IF i = 0 THEN a ELSE Down(t, k, v[i - 1])]
    <3>3. \A i \in 0..(n - 1) : w[i] = v[i]
      <4>1. \A i \in 0..(n - 1) : v[i] = IF i = 0 THEN a ELSE Down(t, k, v[i - 1]) BY <3>2 DEF Walk
      <4>2. \A i \in 0..(n - 1) : i \in 0..n BY <2>1
      <4>q. QED BY <4>1, <4>2
    <3>4. \A i \in 0..n : i # 0 => i - 1 \in 0..(n - 1) BY <2>1
    <3>5. \A i \in 0..n : i # 0 => w[i - 1] = v[i - 1] BY <3>3, <3>4
    <3>6. w = [i \in 0..n |-> IF i = 0 THEN a ELSE Down(t, k, w[i - 1])] BY <3>5, Zenon
    <3>q. QED BY <3>6, <2>1 DEF Walk
  <2>q. QED BY <2>2, <2>3
<1>q. QED BY <1>1

LEMMA DescendWalks ==
  ASSUME NEW t, NEW k, NEW a, t.depth \in Nat
  PROVE  \E w : Walk(w, t, k, a, t.depth) /\ Descend(t, a, k) = w[t.depth]
<1> DEFINE w == CHOOSE w : Walk(w, t, k, a, t.depth)
<1>1. Walk(w, t, k, a, t.depth) BY WalkExists
<1>2. Descend(t, a, k) = w[t.depth] BY Zenon DEF Descend, Walk, Down
<1> HIDE DEF w
<1>q. QED BY <1>1, <1>2

(* A search that starts at a leaf ends there, *)
LEMMA LeafStays ==
  ASSUME NEW t, NEW k, NEW a, t.depth \in Nat, t.node[a].isLeaf
  PROVE  Descend(t, a, k) = a
<1>1. PICK w : Walk(w, t, k, a, t.depth) /\ Descend(t, a, k) = w[t.depth] BY DescendWalks
<1> DEFINE C == {n \in 0..t.depth : w[n] # a}
<1>2. ASSUME C # {} PROVE FALSE
  <2>0. C \subseteq Nat OBVIOUS
  <2>1. PICK n \in C : \A j \in C : n <= j
    <3> HIDE DEF C
    <3>q. QED BY <1>2, <2>0, SmallestNumber
  <2>2. w[n] = IF n = 0 THEN a ELSE Down(t, k, w[n - 1]) BY <1>1 DEF Walk
  <2>3. n # 0 BY <2>2
  <2>4. n - 1 \in 0..t.depth /\ ~(n <= n - 1) BY <2>3
  <2>5. w[n - 1] = a BY <2>4, <2>1
  <2>q. QED BY <2>2, <2>3, <2>5 DEF Down
<1>q. QED BY <1>1, <1>2

(* and one that starts at the root passes the nodes between whose bounds   *)
(* the key lies, one on every level.                                        *)
LEMMA RootWalk ==
  ASSUME NEW V, NEW t, NEW g, NEW f, Shape(t, g, V, f), NEW k \in Int,
         NEW w, Walk(w, t, k, t.root, t.depth)
  PROVE  \A n \in 0..(t.depth - 1) :
            /\ w[n] \in DOMAIN t.node /\ g.lev[w[n]] + n + 1 = t.depth
            /\ Between(k, g.lo[w[n]], g.hi[w[n]])
            /\ \A a \in DOMAIN t.node : g.lev[a] + n + 1 = t.depth /\ Between(k, g.lo[a], g.hi[a]) => a = w[n]
<1> DEFINE Good(n) == /\ w[n] \in DOMAIN t.node /\ g.lev[w[n]] + n + 1 = t.depth
                      /\ Between(k, g.lo[w[n]], g.hi[w[n]])
                      /\ \A a \in DOMAIN t.node : g.lev[a] + n + 1 = t.depth /\ Between(k, g.lo[a], g.hi[a]) => a = w[n]
           C == {n \in 0..(t.depth - 1) : ~Good(n)}
<1>0. t \in Trees(V) /\ GhostOK(t, g) /\ RootOK(t, g) /\ \A a \in DOMAIN t.node : NodeOK(t, g, a) BY DEF Shape
<1>1. t.depth \in Nat /\ t.root \in DOMAIN t.node BY <1>0 DEF Trees, RootOK
<1>2. \A a \in DOMAIN t.node : g.lev[a] \in Nat /\ g.lev[a] < t.depth BY <1>0 DEF GhostOK
<1>up. ASSUME NEW a \in DOMAIN t.node, a # t.root
       PROVE  /\ t.node[a].parent \in DOMAIN t.node /\ ~t.node[t.node[a].parent].isLeaf
              /\ \E i \in 1..Len(t.node[t.node[a].parent].child) :
                   t.node[t.node[a].parent].child[i] = a /\ ChildOK(t, g, t.node[a].parent, i)
  <2>1. ParentOK(t, a) BY <1>0 DEF NodeOK
  <2>2. t.node[a].parent \in DOMAIN t.node /\ ~t.node[t.node[a].parent].isLeaf BY <2>1, <1>up DEF ParentOK
  <2>3. InnerOK(t, g, t.node[a].parent) BY <2>2, <1>0 DEF NodeOK
  <2>4. PICK i \in 1..Len(t.node[t.node[a].parent].child) : t.node[t.node[a].parent].child[i] = a
    BY <2>1, <1>up DEF ParentOK
  <2>q. QED BY <2>2, <2>3, <2>4 DEF InnerOK
<1>3. Good(0) \/ t.depth = 0
  <2>1. w[0] = t.root BY <1>1 DEF Walk
  <2>2. g.lev[t.root] + 1 = t.depth /\ Between(k, g.lo[t.root], g.hi[t.root])
    BY <1>0 DEF RootOK, Between, Over, UpTo
  <2>3. ASSUME NEW a \in DOMAIN t.node, g.lev[a] + 1 = t.depth, a # t.root PROVE FALSE
    <3>1. PICK i \in 1..Len(t.node[t.node[a].parent].child) :
             t.node[t.node[a].parent].child[i] = a /\ ChildOK(t, g, t.node[a].parent, i) BY <2>3, <1>up
    <3>2. g.lev[a] + 1 = g.lev[t.node[a].parent] BY <3>1 DEF ChildOK
    <3>3. t.node[a].parent \in DOMAIN t.node BY <2>3, <1>up
    <3>q. QED BY <3>2, <3>3, <2>3, <1>1, <1>2
  <2>4. \A a \in DOMAIN t.node : g.lev[a] + 0 + 1 = t.depth => a = t.root
    <3>1. \A a \in DOMAIN t.node : g.lev[a] + 0 = g.lev[a] BY <1>2
    <3>q. QED BY <3>1, <2>3
  <2>5. g.lev[t.root] + 0 + 1 = t.depth BY <2>2, <1>1, <1>2
  <2>q. QED BY <2>1, <2>2, <2>4, <2>5, <1>1
<1>4. ASSUME NEW n \in 0..(t.depth - 1), n # 0, Good(n - 1) PROVE Good(n)
  <2> DEFINE b == w[n - 1]
  <2>1. b \in DOMAIN t.node /\ g.lev[b] + (n - 1) + 1 = t.depth /\ Between(k, g.lo[b], g.hi[b]) BY <1>4
  <2>2. g.lev[b] \in Nat /\ g.lev[b] # 0 /\ g.lev[b] + n = t.depth BY <2>1, <1>1, <1>2, <1>4
  <2>3. ~t.node[b].isLeaf BY <2>1, <2>2, <1>0 DEF NodeOK
  <2> DEFINE p == lower_bound(t.node[b].key, k)
             ch == t.node[b].child
  <2>4. /\ p \in 1..Len(ch) /\ ch[p] \in DOMAIN t.node
        /\ Between(k, g.lo[ch[p]], g.hi[ch[p]]) /\ g.lev[ch[p]] + 1 = g.lev[b]
        /\ \A i \in 1..Len(ch) : Between(k, g.lo[ch[i]], g.hi[ch[i]]) => i = p
    <3>1. b \in DOMAIN t.node /\ ~t.node[b].isLeaf /\ Between(k, g.lo[b], g.hi[b]) BY <2>1, <2>3
    <3> HIDE DEF b
    <3>2. Chosen(t, g, b, k, lower_bound(t.node[b].key, k)) BY <3>1, ChildFor
    <3>q. QED BY <3>2 DEF Chosen
  <2>5. w[n] = ch[p]
    <3>1. n \in 0..t.depth BY <1>1
    <3>2. w[n] = Down(t, k, b) BY <3>1, <1>4 DEF Walk
    <3>q. QED BY <3>2, <2>3 DEF Down
  <2> HIDE DEF b, p
  <2>6. ASSUME NEW a \in DOMAIN t.node, g.lev[a] + n + 1 = t.depth, Between(k, g.lo[a], g.hi[a])
        PROVE  a = w[n]
    <3>1. a # t.root
      <4>1. g.lev[t.root] + 1 = t.depth BY <1>0 DEF RootOK
      <4>q. QED BY <4>1, <2>6, <1>1, <1>2, <1>4
    <3> DEFINE q == t.node[a].parent
    <3>2. PICK i \in 1..Len(t.node[q].child) : t.node[q].child[i] = a /\ ChildOK(t, g, q, i) BY <3>1, <1>up
    <3>3. q \in DOMAIN t.node /\ ~t.node[q].isLeaf BY <3>1, <1>up
    <3> HIDE DEF q
    <3>4. NodeOK(t, g, q) /\ InnerOK(t, g, q) BY <3>3, <1>0 DEF NodeOK
    <3>5. g.lev[q] + (n - 1) + 1 = t.depth
      <4>1. g.lev[a] + 1 = g.lev[q] BY <3>2 DEF ChildOK
      <4>q. QED BY SMTT(30), <4>1, <3>3, <2>6, <1>1, <1>2, <1>4
    <3>6. Between(k, g.lo[q], g.hi[q])
      <4>1. Between(k, g.lo[t.node[q].child[i]], g.hi[t.node[q].child[i]]) BY <3>2, <2>6
      <4>q. QED BY <4>1, <3>2, <3>3, BetweenUp
    <3>7. q = b BY <3>3, <3>5, <3>6, <1>4 DEF b
    <3>8. i = p
      <4>1. i \in 1..Len(ch) /\ ch[i] = a BY <3>2, <3>7
      <4>q. QED BY <4>1, <2>4, <2>6
    <3>q. QED BY <3>2, <3>7, <3>8, <2>5
  <2>7. g.lev[ch[p]] + n + 1 = t.depth
    <3>1. g.lev[ch[p]] \in Nat /\ g.lev[ch[p]] + 1 = g.lev[b] BY <2>4, <1>2
    <3> HIDE DEF ch
    <3>q. QED BY <3>1, <2>2, <1>1, <1>4
  <2>q. QED BY <2>4, <2>5, <2>6, <2>7
<1>5. ASSUME C # {} PROVE FALSE
  <2>0. C \subseteq Nat BY <1>1
  <2>1. PICK n \in C : \A j \in C : n <= j
    <3> HIDE DEF C
    <3>q. QED BY <1>5, <2>0, SmallestNumber
  <2> HIDE DEF Good
  <2>2. n \in 0..(t.depth - 1) /\ ~Good(n) BY <2>1
  <2>3. n # 0 BY <2>2, <1>3, <1>1
  <2>4. n - 1 \in 0..(t.depth - 1) /\ ~(n <= n - 1) BY <2>2, <2>3, <1>1
  <2>5. Good(n - 1) BY <2>1, <2>4
  <2>q. QED BY <2>2, <2>3, <2>5, <1>4
<1>q. QED BY <1>5

(* So a search from the root ends in the one leaf between whose bounds the *)
(* key lies.                                                                *)
LEMMA LeafForIs ==
  ASSUME NEW V, NEW t, NEW g, NEW f, Shape(t, g, V, f), NEW k \in Int
  PROVE  /\ LeafFor(t, k, NULL) \in DOMAIN t.node /\ t.node[LeafFor(t, k, NULL)].isLeaf
         /\ Between(k, g.lo[LeafFor(t, k, NULL)], g.hi[LeafFor(t, k, NULL)])
         /\ \A a \in DOMAIN t.node : t.node[a].isLeaf /\ Between(k, g.lo[a], g.hi[a]) => a = LeafFor(t, k, NULL)
<1>1. t.depth \in Nat /\ GhostOK(t, g) /\ RootOK(t, g) /\ \A a \in DOMAIN t.node : NodeOK(t, g, a)
  BY DEF Shape, Trees
<1>2. t.depth # 0 /\ t.depth - 1 \in 0..(t.depth - 1)
  <2>1. t.root \in DOMAIN t.node /\ g.lev[t.root] + 1 = t.depth BY <1>1 DEF RootOK
  <2>2. g.lev[t.root] \in Nat BY <2>1, <1>1 DEF GhostOK
  <2>q. QED BY <2>1, <2>2, <1>1
<1>3. PICK w : Walk(w, t, k, t.root, t.depth) /\ Descend(t, t.root, k) = w[t.depth] BY <1>1, DescendWalks
<1>4. LeafFor(t, k, NULL) = w[t.depth] BY <1>3 DEF LeafFor
<1> DEFINE n == t.depth - 1
<1>5. /\ w[n] \in DOMAIN t.node /\ g.lev[w[n]] + n + 1 = t.depth
      /\ Between(k, g.lo[w[n]], g.hi[w[n]])
      /\ \A a \in DOMAIN t.node : g.lev[a] + n + 1 = t.depth /\ Between(k, g.lo[a], g.hi[a]) => a = w[n]
  BY <1>2, <1>3, RootWalk
<1>6. \A a \in DOMAIN t.node : g.lev[a] \in Nat BY <1>1 DEF GhostOK
<1>7. g.lev[w[n]] = 0 BY <1>5, <1>6, <1>1
<1>8. t.node[w[n]].isLeaf BY <1>7, <1>5, <1>1 DEF NodeOK
<1>9. w[t.depth] = w[n]
  <2>1. w[t.depth] = Down(t, k, w[t.depth - 1]) BY <1>1, <1>2, <1>3 DEF Walk
  <2>q. QED BY <2>1, <1>8 DEF Down
<1>10. \A a \in DOMAIN t.node : t.node[a].isLeaf => g.lev[a] + n + 1 = t.depth
  <2>1. \A a \in DOMAIN t.node : t.node[a].isLeaf => g.lev[a] = 0 BY <1>1 DEF NodeOK
  <2>q. QED BY <2>1, <1>1
<1>q. QED BY <1>4, <1>5, <1>8, <1>9, <1>10

-----------------------------------------------------------------------------
(* What a tree of this shape holds *)

(* A key that is stored is in the leaf where a search for it ends, although *)
(* equal keys may lie in leaves behind it.                                  *)
LEMMA StoredFound ==
  ASSUME NEW V, NEW t, NEW g, NEW f, Shape(t, g, V, f), NEW k \in StoredKeys(t)
  PROVE  k \in Int /\ k \in Range(t.node[LeafFor(t, k, NULL)].key)
<1>0. t \in Trees(V) /\ GhostOK(t, g) /\ \A a \in DOMAIN t.node : NodeOK(t, g, a) /\ LeftOK(t, g, a) BY DEF Shape
<1>1. PICK b \in DOMAIN t.node : t.node[b].isLeaf /\ k \in Range(t.node[b].key) BY DEF StoredKeys, Leaves
<1>2. t.node[b].key \in Seq(Int) /\ DOMAIN t.node[b].key = 1..Len(t.node[b].key) BY <1>0, <1>1, NodeFields
<1>3. PICK j \in 1..Len(t.node[b].key) : t.node[b].key[j] = k BY <1>1, <1>2 DEF Range
<1>4. k \in Int BY <1>2, <1>3
<1>5. Least(g.lo[b], k) /\ UpTo(g.hi[b], k) BY <1>0, <1>3 DEF NodeOK, KeysOK
<1>6. g.lo[b] \in Bounds BY <1>0 DEF GhostOK
<1>7. CASE Over(g.lo[b], k)
  <2>1. b = LeafFor(t, k, NULL) BY <1>1, <1>4, <1>5, <1>7, LeafForIs DEF Between
  <2>q. QED BY <2>1, <1>1, <1>4
<1>8. CASE ~Over(g.lo[b], k)
  <2>1. g.lo[b] # NoBound /\ g.lo[b] = k BY <1>4, <1>5, <1>6, <1>8, BoundCases DEF Over, Least
  <2>2. PICK c \in DOMAIN t.node : t.node[c].isLeaf /\ g.hi[c] = k /\ Over(g.lo[c], k)
    BY <2>1, <1>0, <1>1 DEF LeftOK
  <2>3. c = LeafFor(t, k, NULL)
    <3>1. Between(k, g.lo[c], g.hi[c]) BY <2>2, <1>4 DEF Between, UpTo
    <3>q. QED BY <3>1, <2>2, <1>4, LeafForIs
  <2>4. t.node[c].key # <<>> /\ t.node[c].key[Len(t.node[c].key)] = k
    <3>1. k # NoBound BY <1>4, BoundCases
    <3>2. LeafOK(t.node[c], g.hi[c]) BY <2>2, <1>0 DEF NodeOK
    <3>q. QED BY <3>1, <3>2, <2>2 DEF LeafOK
  <2>5. Len(t.node[c].key) \in DOMAIN t.node[c].key
    <3>1. t.node[c].key \in Seq(Int) BY <1>0, NodeFields
    <3> DEFINE s == t.node[c].key
    <3>2. s \in Seq(Int) /\ s # <<>> BY <3>1, <2>4
    <3> HIDE DEF s
    <3>3. Len(s) \in DOMAIN s BY <3>2
    <3>q. QED BY <3>3 DEF s
  <2>q. QED BY <2>3, <2>4, <2>5, <1>4 DEF Range
<1>q. QED BY <1>7, <1>8

(* The place of a lookup in its leaf. *)
LEMMA LookupIs ==
  ASSUME NEW V, NEW t, NEW g, NEW f, Shape(t, g, V, f), NEW k \in Int, NEW a \in DOMAIN t.node,
         t.node[a].isLeaf, NEW p, FirstNotBelow(t.node[a].key, k, p), NEW from, LeafFor(t, k, from) = a
  PROVE  lookup(t, k, from) = IF p > Len(t.node[a].key) THEN Empty ELSE t.node[a].val[p]
<1>1. t.node[a].key \in Seq(Int) /\ Sorted(t.node[a].key)
  <2>1. t \in Trees(V) /\ NodeOK(t, g, a) BY DEF Shape
  <2>q. QED BY <2>1, NodeFields DEF NodeOK, KeysOK
<1>2. lower_bound(t.node[a].key, k) = p BY <1>1, LowerBoundIs, FirstNotBelowOnce
<1>q. QED BY <1>2 DEF lookup

(* A lookup that starts at the leaf of another time finds what a lookup    *)
(* from the root does, or runs off the leaf.                                *)
LEMMA StaleLookup ==
  ASSUME NEW V, NEW t, NEW g, NEW f, Shape(t, g, V, f), NEW k \in Int, NEW a \in DOMAIN t.node,
         t.node[a].isLeaf, Over(g.lo[a], k)
  PROVE  lookup(t, k, a) \in {Empty, lookup(t, k, NULL)}
<1>0. t \in Trees(V) /\ GhostOK(t, g) /\ NodeOK(t, g, a) BY DEF Shape
<1>1. t.node[a].key \in Seq(Int) /\ Len(t.node[a].key) \in Nat /\ Sorted(t.node[a].key) /\ g.hi[a] \in Bounds
  BY <1>0, NodeFields DEF NodeOK, KeysOK, GhostOK
<1>2. LeafFor(t, k, a) = a
  <2>1. t.depth \in Nat /\ a # NULL BY <1>0, NodeFields DEF NULL
  <2>q. QED BY <2>1, LeafStays DEF LeafFor
<1> DEFINE p == lower_bound(t.node[a].key, k)
<1>3. FirstNotBelow(t.node[a].key, k, p) BY <1>1, LowerBoundIs
<1> HIDE DEF p
<1>4. lookup(t, k, a) = IF p > Len(t.node[a].key) THEN Empty ELSE t.node[a].val[p] BY <1>2 DEF lookup, p
<1>5. CASE UpTo(g.hi[a], k)
  <2>1. a = LeafFor(t, k, NULL) BY <1>5, LeafForIs DEF Between
  <2>2. lookup(t, k, NULL) = lookup(t, k, a) BY <2>1, <1>2 DEF lookup
  <2>q. QED BY <2>2
<1>6. CASE ~UpTo(g.hi[a], k)
  <2>1. g.hi[a] \in Int /\ g.hi[a] < k /\ g.hi[a] # NoBound BY <1>1, <1>6, BoundCases DEF UpTo
  <2>2. ASSUME p \in 1..Len(t.node[a].key) PROVE FALSE
    <3>1. k <= t.node[a].key[p] BY <2>2, <1>3 DEF FirstNotBelow
    <3>2. UpTo(g.hi[a], t.node[a].key[p]) BY <2>2, <1>0 DEF NodeOK, KeysOK
    <3>3. t.node[a].key[p] \in Int BY <2>2, <1>1
    <3>q. QED BY <3>1, <3>2, <3>3, <2>1 DEF UpTo
  <2>3. p > Len(t.node[a].key)
    <3>1. p \in 1..(Len(t.node[a].key) + 1) BY <1>3 DEF FirstNotBelow
    <3>q. QED BY <3>1, <2>2, <1>1
  <2>q. QED BY <2>3, <1>4
<1>q. QED BY <1>5, <1>6

(* Up the parent pointers from a. *)
Climb(u, t, a, m) == u = [n \in 0..m |-> IF n = 0 THEN a ELSE t.node[u[n - 1]].parent]

LEMMA ClimbExists == ASSUME NEW t, NEW a, NEW m \in Nat PROVE \E u : Climb(u, t, a, m)
<1> DEFINE C == {n \in Nat : ~ \E u : Climb(u, t, a, n)}
<1>1. ASSUME C # {} PROVE FALSE
  <2>0. C \subseteq Nat OBVIOUS
  <2>1. PICK n \in C : \A j \in C : n <= j
    <3> HIDE DEF C
    <3>q. QED BY <1>1, <2>0, SmallestNumber
  <2>2. CASE n = 0
    <3> DEFINE u == [i \in 0..0 |-> a]
    <3>1. Climb(u, t, a, 0) BY DEF Climb
    <3>q. QED BY <3>1, <2>1, <2>2
  <2>3. CASE n # 0
    <3>1. n - 1 \in Nat /\ n - 1 \notin C BY <2>1, <2>3
    <3>2. PICK v : Climb(v, t, a, n - 1) BY <3>1
    <3> DEFINE u == [i \in 0..n |-> IF i = 0 THEN a ELSE t.node[v[i - 1]].parent]
    <3>3. \A i \in 0..(n - 1) : u[i] = v[i]
      <4>1. \A i \in 0..(n - 1) : v[i] = IF i = 0 THEN a ELSE t.node[v[i - 1]].parent BY <3>2 DEF Climb
      <4>2. \A i \in 0..(n - 1) : i \in 0..n BY <2>1
      <4>q. QED BY <4>1, <4>2
    <3>4. \A i \in 0..n : i # 0 => i - 1 \in 0..(n - 1) BY <2>1
    <3>5. \A i \in 0..n : i # 0 => u[i - 1] = v[i - 1] BY <3>3, <3>4
    <3>6. u = [i \in 0..n |-> IF i = 0 THEN a ELSE t.node[u[i - 1]].parent] BY <3>5, Zenon
    <3>q. QED BY <3>6, <2>1 DEF Climb
  <2>q. QED BY <2>2, <2>3
<1>q. QED BY <1>1

(* Leaves are all as many steps below the root. *)
LEMMA HeightIs ==
  ASSUME NEW V, NEW t, NEW g, NEW f, Shape(t, g, V, f), NEW a \in Leaves(t)
  PROVE  Height(t, a) = t.depth - 1
<1>0. t \in Trees(V) /\ GhostOK(t, g) /\ RootOK(t, g) /\ \A b \in DOMAIN t.node : NodeOK(t, g, b) BY DEF Shape
<1>1. t.depth \in Nat /\ a \in DOMAIN t.node /\ t.node[a].isLeaf BY <1>0 DEF Trees, Leaves
<1> DEFINE u == CHOOSE u : Climb(u, t, a, t.depth)
           d == t.depth - 1
<1>2. Climb(u, t, a, t.depth) BY <1>1, ClimbExists
<1>3. Height(t, a) = CHOOSE n \in 0..t.depth : u[n] = t.root BY Zenon DEF Height, Climb
<1> HIDE DEF u
<1>4. \A b \in DOMAIN t.node : g.lev[b] \in Nat /\ g.lev[b] < t.depth BY <1>0 DEF GhostOK
<1>5. g.lev[a] = 0 /\ d \in Nat BY <1>0, <1>1, <1>4 DEF NodeOK
<1>r. t.root \in DOMAIN t.node /\ g.lev[t.root] = d
  <2>1. t.root \in DOMAIN t.node /\ g.lev[t.root] + 1 = t.depth BY <1>0 DEF RootOK
  <2>q. QED BY <2>1, <1>4, <1>1
<1> HIDE DEF d
<1>d. t.depth = d + 1 BY <1>1 DEF d
<1> DEFINE Good(n) == u[n] \in DOMAIN t.node /\ g.lev[u[n]] = n
           C == {n \in 0..d : ~Good(n)}
<1>6. Good(0) BY <1>1, <1>2, <1>5 DEF Climb
<1>7. ASSUME NEW n \in 1..d, Good(n - 1) PROVE Good(n)
  <2> DEFINE b == u[n - 1]
  <2>1. b \in DOMAIN t.node /\ g.lev[b] = n - 1 /\ b # t.root BY <1>7, <1>5, <1>r
  <2>2. u[n] = t.node[b].parent
    <3>1. n \in 0..t.depth /\ n # 0 BY <1>7, <1>5, <1>d
    <3>2. u = [k \in 0..t.depth |-> IF k = 0 THEN a ELSE t.node[u[k - 1]].parent] BY <1>2 DEF Climb
    <3>3. u[n] = IF n = 0 THEN a ELSE t.node[u[n - 1]].parent BY <3>1, <3>2
    <3>q. QED BY <3>1, <3>3
  <2> HIDE DEF b
  <2>3. ParentOK(t, b) BY <2>1, <1>0 DEF NodeOK
  <2> DEFINE q == t.node[b].parent
  <2>4. q \in DOMAIN t.node /\ ~t.node[q].isLeaf /\ \E i \in 1..Len(t.node[q].child) : t.node[q].child[i] = b
    BY <2>1, <2>3 DEF ParentOK
  <2> HIDE DEF q
  <2>5. PICK i \in 1..Len(t.node[q].child) : t.node[q].child[i] = b BY <2>4
  <2>6. ChildOK(t, g, q, i) BY <2>4, <1>0 DEF NodeOK, InnerOK
  <2>7. g.lev[b] + 1 = g.lev[q] BY <2>5, <2>6 DEF ChildOK
  <2>8. g.lev[q] = n BY <2>7, <2>1, <1>5
  <2>q. QED BY <2>2, <2>4, <2>8 DEF q
<1>8. ASSUME C # {} PROVE FALSE
  <2>0. C \subseteq Nat OBVIOUS
  <2>1. PICK n \in C : \A j \in C : n <= j
    <3> HIDE DEF C
    <3>q. QED BY <1>8, <2>0, SmallestNumber
  <2> HIDE DEF Good
  <2>2. n \in 0..d /\ ~Good(n) BY <2>1
  <2>3. n \in 1..d BY <2>2, <1>6, <1>5
  <2>4. n - 1 \in 0..d /\ ~(n <= n - 1) BY <2>3, <1>5
  <2>5. Good(n - 1) BY <2>1, <2>4
  <2>q. QED BY <2>2, <2>3, <2>5, <1>7
<1>9. \A n \in 0..d : u[n] \in DOMAIN t.node /\ g.lev[u[n]] = n BY <1>8
<1>10. \A b \in DOMAIN t.node : g.lev[b] = d => b = t.root
  <2> SUFFICES ASSUME NEW b \in DOMAIN t.node, g.lev[b] = d, b # t.root PROVE FALSE OBVIOUS
  <2>3. ParentOK(t, b) BY <1>0 DEF NodeOK
  <2> DEFINE q == t.node[b].parent
  <2>4. q \in DOMAIN t.node /\ ~t.node[q].isLeaf /\ \E i \in 1..Len(t.node[q].child) : t.node[q].child[i] = b
    BY <2>3 DEF ParentOK
  <2> HIDE DEF q
  <2>5. PICK i \in 1..Len(t.node[q].child) : t.node[q].child[i] = b BY <2>4
  <2>6. ChildOK(t, g, q, i) BY <2>4, <1>0 DEF NodeOK, InnerOK
  <2>7. g.lev[b] + 1 = g.lev[q] BY <2>5, <2>6 DEF ChildOK
  <2>q. QED BY <2>7, <2>4, <1>4, <1>5, <1>d
<1>11. u[d] = t.root BY <1>9, <1>10, <1>5
<1>12. \A n \in 0..t.depth : u[n] = t.root => n = d
  <2>1. ASSUME NEW n \in 0..t.depth, u[n] = t.root PROVE n = d
    <3>1. CASE n \in 0..d BY <3>1, <2>1, <1>9, <1>r
    <3>2. CASE n = t.depth
      <4>1. t.depth - 1 = d /\ t.depth # 0 /\ t.depth \in 0..t.depth BY <1>5, <1>d
      <4>2. u[t.depth] = t.node[u[d]].parent BY <4>1, <1>2 DEF Climb
      <4>3. u[t.depth] = NULL BY <4>2, <1>11, <1>0 DEF RootOK
      <4>4. t.root # NULL BY <1>0, <1>r, NodeFields DEF NULL
      <4>q. QED BY <4>3, <4>4, <3>2, <2>1
    <3>q. QED BY <3>1, <3>2, <1>5, <1>d
  <2>q. QED BY <2>1
<1>13. d \in 0..t.depth BY <1>5, <1>d
<1>14. (CHOOSE n \in 0..t.depth : u[n] = t.root) = d BY <1>11, <1>12, <1>13
<1>q. QED BY <1>3, <1>14 DEF d

(* No node is full: the tree is well formed. *)
LEMMA ShapeWellFormed ==
  ASSUME NEW V, NEW t, NEW g, Shape(t, g, V, 0)
  PROVE  WellFormed(t)
<1>0. t \in Trees(V) /\ GhostOK(t, g) /\ RootOK(t, g)
      /\ \A a \in DOMAIN t.node : NodeOK(t, g, a) /\ IF a = 0 THEN Len(t.node[a].key) <= M ELSE Len(t.node[a].key) < M
  BY DEF Shape
<1>1. \A a \in Leaves(t) : Height(t, a) = t.depth - 1 BY HeightIs
<1>2. t.node[t.root].parent = NULL BY <1>0 DEF RootOK
<1> DEFINE Fine(a) ==
      LET cur == t.node[a] IN
         /\ Len(cur.key) < M
         /\ \A i \in 1..Len(cur.key) - 1 : cur.key[i] <= cur.key[i + 1]
         /\ cur.isLeaf => Len(cur.val) = Len(cur.key) /\ cur.child = <<>>
         /\ ~cur.isLeaf =>
              /\ Len(cur.child) = Len(cur.key) + 1
              /\ \A i \in DOMAIN cur.child :
                   LET ch == t.node[cur.child[i]] IN
                   /\ ch.parent = a
                   /\ i > 1 => cur.key[i - 1] <= Head(ch.key)
                   /\ i <= Len(cur.key) => Last(ch.key) <= cur.key[i]
<1>3. ASSUME NEW a \in DOMAIN t.node PROVE Fine(a)
  <2> DEFINE c == t.node[a]
  <2>1. /\ c.key \in Seq(Int) /\ Len(c.key) \in Nat /\ c.child \in Seq(Nat)
        /\ DOMAIN t.node = 1..Len(t.node) /\ Len(t.node) \in Nat BY <1>0, NodeFields
  <2>2. NodeOK(t, g, a) /\ Sorted(c.key) BY <1>0 DEF NodeOK, KeysOK
  <2>3. Len(c.key) < M
    <3>1. a # 0 BY <2>1
    <3>q. QED BY <3>1, <1>0
  <2>4. \A i \in 1..Len(c.key) - 1 : c.key[i] <= c.key[i + 1]
    <3>1. \A i \in 1..Len(c.key) - 1 : i \in 1..Len(c.key) /\ i + 1 \in 1..Len(c.key) /\ i <= i + 1 BY <2>1
    <3>q. QED BY <3>1, <2>2 DEF Sorted
  <2>5. c.isLeaf => Len(c.val) = Len(c.key) /\ c.child = <<>> BY <2>2 DEF NodeOK, LeafOK
  <2>6. ASSUME ~c.isLeaf
        PROVE  /\ Len(c.child) = Len(c.key) + 1
               /\ \A i \in DOMAIN c.child :
                   LET ch == t.node[c.child[i]] IN
                   /\ ch.parent = a
                   /\ i > 1 => c.key[i - 1] <= Head(ch.key)
                   /\ i <= Len(c.key) => Last(ch.key) <= c.key[i]
    <3>1. InnerOK(t, g, a) BY <2>2, <2>6 DEF NodeOK
    <3>2. Len(c.child) = Len(c.key) + 1 BY <3>1 DEF InnerOK
    <3>3. ASSUME NEW i \in DOMAIN c.child
          PROVE  LET ch == t.node[c.child[i]] IN
                   /\ ch.parent = a
                   /\ i > 1 => c.key[i - 1] <= Head(ch.key)
                   /\ i <= Len(c.key) => Last(ch.key) <= c.key[i]
      <4> DEFINE b == c.child[i]
                 s == t.node[b].key
      <4>1. i \in 1..Len(c.child) BY <2>1
      <4>2. ChildOK(t, g, a, i) BY <3>1, <4>1 DEF InnerOK
      <4>3. /\ b \in DOMAIN t.node /\ b # t.root /\ t.node[b].parent = a
            /\ g.lo[b] = IF i = 1 THEN g.lo[a] ELSE c.key[i - 1]
            /\ g.hi[b] = IF i = Len(c.child) THEN g.hi[a] ELSE c.key[i]
        BY <4>2 DEF ChildOK
      <4> HIDE DEF b, c
      <4>4. s \in Seq(Int) /\ NodeOK(t, g, b) BY <4>3, <1>0, NodeFields
      <4>5. s # <<>> /\ \A j \in 1..Len(s) : Least(g.lo[b], s[j]) /\ UpTo(g.hi[b], s[j])
        BY <4>3, <4>4 DEF NodeOK, KeysOK, ParentOK
      <4> HIDE DEF s
      <4>6. 1 \in 1..Len(s) /\ Len(s) \in 1..Len(s) /\ Head(s) = s[1] /\ s[1] \in Int /\ s[Len(s)] \in Int
        BY <4>4, <4>5
      <4>7. Last(s) = s[Len(s)] BY DEF Last
      <4>8. i > 1 => c.key[i - 1] <= Head(s)
        <5>1. ASSUME i > 1 PROVE c.key[i - 1] <= Head(s)
          <6>1. g.lo[b] = c.key[i - 1] /\ c.key[i - 1] \in Int BY SMTT(30), <5>1, <4>1, <4>3, <3>2, <2>1
          <6>q. QED BY <6>1, <4>5, <4>6, BoundCases DEF Least
        <5>q. QED BY <5>1
      <4>9. i <= Len(c.key) => Last(s) <= c.key[i]
        <5>1. ASSUME i <= Len(c.key) PROVE Last(s) <= c.key[i]
          <6>1. g.hi[b] = c.key[i] /\ c.key[i] \in Int BY SMTT(30), <5>1, <4>1, <4>3, <3>2, <2>1
          <6>q. QED BY <6>1, <4>5, <4>6, <4>7, BoundCases DEF UpTo
        <5>q. QED BY <5>1
      <4>q. QED BY <4>3, <4>8, <4>9 DEF s, b
    <3>q. QED BY <3>2, <3>3
  <2>q. QED BY <2>3, <2>4, <2>5, <2>6
<1>q. QED BY <1>1, <1>2, <1>3, Zenon DEF WellFormed

-----------------------------------------------------------------------------
(* The split of a full node *)

(* The place of the separator among the keys of a full node c, *)
Middle(c) == IF c.isLeaf THEN Half ELSE Half + 1

(* and u, the tree t with its node a, the i-th child of its parent, split:  *)
(* the keys behind the separator move to a new node, which enters the       *)
(* parent behind a.                                                         *)
Cut(t, u, a, i) ==
    LET c == t.node[a]
        n == Len(t.node) + 1
        p == c.parent
        m == Middle(c)
    IN  /\ Len(u.node) = n /\ u.root = t.root /\ u.depth = t.depth
        /\ u.node[n] = [c EXCEPT !.key = SubSeq(c.key, m + 1, M),
                                 !.val = IF c.isLeaf THEN SubSeq(c.val, m + 1, M) ELSE c.val,
                                 !.child = IF c.isLeaf THEN c.child ELSE SubSeq(c.child, m + 1, M + 1)]
        /\ u.node[a] = [c EXCEPT !.key = SubSeq(c.key, 1, Half),
                                 !.val = IF c.isLeaf THEN SubSeq(c.val, 1, Half) ELSE c.val,
                                 !.child = IF c.isLeaf THEN c.child ELSE SubSeq(c.child, 1, Half + 1)]
        /\ u.node[p] = [t.node[p] EXCEPT !.key = InsertAt(t.node[p].key, i, c.key[m]),
                                         !.child = InsertAt(t.node[p].child, i + 1, n)]
        /\ \A b \in DOMAIN t.node : b # a /\ b # p =>
              u.node[b] = IF b \in Range(u.node[n].child) THEN [t.node[b] EXCEPT !.parent = n] ELSE t.node[b]

(* The bounds after it. *)
GhostCut(t, g, a) ==
    LET n == Len(t.node) + 1
        sep == t.node[a].key[Middle(t.node[a])]
    IN  [lev |-> [b \in 1..n |-> IF b = n THEN g.lev[a] ELSE g.lev[b]],
         lo  |-> [b \in 1..n |-> IF b = n THEN sep ELSE g.lo[b]],
         hi  |-> [b \in 1..n |-> IF b = n THEN g.hi[a] ELSE IF b = a THEN sep ELSE g.hi[b]]]

Splits(t, g, V, a, i, u) ==
    /\ Shape(t, g, V, a) /\ a \in DOMAIN t.node /\ a # t.root /\ Len(t.node[a].key) = M
    /\ i \in 1..Len(t.node[t.node[a].parent].child) /\ t.node[t.node[a].parent].child[i] = a
    /\ u \in Trees(V) /\ Cut(t, u, a, i)

(* The nodes around the split, *)
LEMMA CutPlaces ==
  ASSUME NEW V, NEW t, NEW g, NEW a, NEW i, NEW u, Splits(t, g, V, a, i, u),
         NEW p, p = t.node[a].parent, NEW n, n = Len(t.node) + 1
  PROVE  /\ p \in DOMAIN t.node /\ p # a /\ ~t.node[p].isLeaf /\ a \in DOMAIN t.node
         /\ n \in Nat /\ n \notin DOMAIN t.node /\ n # 0 /\ DOMAIN t.node = 1..(n - 1)
         /\ DOMAIN u.node = 1..n /\ DOMAIN u.node = DOMAIN t.node \cup {n}
         /\ g.lev[a] \in Nat /\ g.lev[p] \in Nat /\ g.lev[p] = g.lev[a] + 1
         /\ ChildOK(t, g, p, i) /\ InnerOK(t, g, p) /\ NodeOK(t, g, p) /\ NodeOK(t, g, a)
         /\ t.node[p].key \in Seq(Int) /\ t.node[p].child \in Seq(Nat) /\ Len(t.node[p].key) \in Nat
         /\ i \in Nat /\ i \in 1..(Len(t.node[p].key) + 1) /\ Len(t.node[p].child) = Len(t.node[p].key) + 1
<1>1. /\ t \in Trees(V) /\ u \in Trees(V) /\ GhostOK(t, g) /\ \A b \in DOMAIN t.node : NodeOK(t, g, b)
      /\ a \in DOMAIN t.node /\ a # t.root BY DEF Splits, Shape
<1>2. ParentOK(t, a) BY <1>1 DEF NodeOK
<1>3. p \in DOMAIN t.node /\ ~t.node[p].isLeaf BY <1>1, <1>2 DEF ParentOK
<1>4. NodeOK(t, g, p) /\ InnerOK(t, g, p) /\ NodeOK(t, g, a) BY <1>1, <1>3 DEF NodeOK
<1>5. i \in 1..Len(t.node[p].child) /\ t.node[p].child[i] = a BY DEF Splits
<1>6. ChildOK(t, g, p, i) /\ Len(t.node[p].child) = Len(t.node[p].key) + 1 BY <1>4, <1>5 DEF InnerOK
<1>7. g.lev[a] \in Nat /\ g.lev[p] \in Nat /\ g.lev[p] = g.lev[a] + 1
  <2>1. g.lev[a] \in Nat /\ g.lev[p] \in Nat BY <1>1, <1>3 DEF GhostOK
  <2>2. g.lev[a] + 1 = g.lev[p] BY <1>5, <1>6 DEF ChildOK
  <2>q. QED BY <2>1, <2>2
<1>8. p # a BY <1>7
<1>9. t.node[p].key \in Seq(Int) /\ t.node[p].child \in Seq(Nat) /\ Len(t.node[p].key) \in Nat
  BY <1>1, <1>3, NodeFields
<1>10. DOMAIN t.node = 1..Len(t.node) /\ Len(t.node) \in Nat BY <1>1, NodeFields
<1>11. DOMAIN u.node = 1..n
  <2>1. u.node \in Seq(Nodes(V)) /\ Len(u.node) = n BY <1>1 DEF Trees, Splits, Cut
  <2>q. QED BY <2>1
<1>12. n - 1 = Len(t.node) /\ n \in Nat /\ n # 0 BY <1>10
<1>13. DOMAIN t.node = 1..(n - 1) BY <1>10, <1>12
<1>14. n \notin DOMAIN t.node /\ DOMAIN u.node = DOMAIN t.node \cup {n} BY <1>11, <1>12, <1>13
<1>15. i \in Nat /\ i \in 1..(Len(t.node[p].key) + 1) BY <1>5, <1>6
<1>q. QED BY <1>1, <1>3, <1>4, <1>6, <1>7, <1>8, <1>9, <1>11, <1>12, <1>13, <1>14, <1>15

(* the full node and its separator, *)
LEMMA CutMiddle ==
  ASSUME NEW V, NEW t, NEW g, NEW a, NEW i, NEW u, Splits(t, g, V, a, i, u),
         NEW c, c = t.node[a], NEW m, m = Middle(c)
  PROVE  /\ c.key \in Seq(Int) /\ Len(c.key) = M /\ c.child \in Seq(Nat) /\ c.val \in Seq(V)
         /\ m \in Nat /\ m = (IF c.isLeaf THEN Half ELSE Half + 1) /\ m \in 1..(M - 1)
         /\ c.key[m] \in Int /\ Least(g.lo[a], c.key[m]) /\ UpTo(g.hi[a], c.key[m])
         /\ Over(g.lo[a], c.key[Half + 1]) /\ c.key[Half + 1] \in Int
         /\ ~c.isLeaf => Over(g.lo[a], c.key[m])
         /\ g.lo[a] \in Bounds /\ g.hi[a] \in Bounds
         /\ c.isLeaf \in BOOLEAN /\ (c.isLeaf <=> g.lev[a] = 0)
         /\ c.isLeaf => Len(c.val) = M /\ c.child = <<>>
         /\ ~c.isLeaf => Len(c.child) = M + 1
<1>1. /\ t \in Trees(V) /\ GhostOK(t, g) /\ NodeOK(t, g, a) /\ a \in DOMAIN t.node /\ Len(c.key) = M
  BY DEF Splits, Shape
<1>2. /\ c.key \in Seq(Int) /\ c.child \in Seq(Nat) /\ c.val \in Seq(V) /\ c.isLeaf \in BOOLEAN
      /\ g.lo[a] \in Bounds /\ g.hi[a] \in Bounds
  BY <1>1, NodeFields DEF GhostOK
<1>3. m \in Nat /\ m = (IF c.isLeaf THEN Half ELSE Half + 1) /\ m \in 1..(M - 1) BY MIs DEF Middle
<1>4. KeysOK(c, g.lo[a], g.hi[a]) BY <1>1 DEF NodeOK
<1>5. c.key[m] \in Int /\ m \in 1..Len(c.key) /\ c.key[Half + 1] \in Int /\ Half + 1 \in 1..Len(c.key)
  <2>1. m \in 1..M /\ Half + 1 \in 1..M BY <1>3, MIs
  <2>q. QED BY <2>1, <1>1, <1>2
<1>6. Least(g.lo[a], c.key[m]) /\ UpTo(g.hi[a], c.key[m]) BY <1>4, <1>5 DEF KeysOK
<1>7. Over(g.lo[a], c.key[Half + 1])
  <2>1. Len(c.key) > Half BY <1>1, MIs
  <2>q. QED BY <2>1, <1>4 DEF KeysOK, Over
<1>8. c.isLeaf => Len(c.val) = M /\ c.child = <<>> BY <1>1 DEF NodeOK, LeafOK
<1>9. ~c.isLeaf => Len(c.child) = M + 1 BY <1>1 DEF NodeOK, InnerOK
<1>10. c.isLeaf <=> g.lev[a] = 0 BY <1>1 DEF NodeOK
<1>q. QED BY <1>1, <1>2, <1>3, <1>5, <1>6, <1>7, <1>8, <1>9, <1>10

(* its two parts: what they are cut from, *)
LEMMA CutFields ==
  ASSUME NEW V, NEW t, NEW g, NEW a, NEW i, NEW u, Splits(t, g, V, a, i, u),
         NEW c, c = t.node[a], NEW m, m = Middle(c), NEW n, n = Len(t.node) + 1
  PROVE  /\ u.node[n].isLeaf = c.isLeaf /\ u.node[n].parent = c.parent
         /\ u.node[n].key = SubSeq(c.key, m + 1, M)
         /\ u.node[a].isLeaf = c.isLeaf /\ u.node[a].parent = c.parent
         /\ u.node[a].key = SubSeq(c.key, 1, Half)
         /\ c.isLeaf => /\ u.node[a].val = SubSeq(c.val, 1, Half) /\ u.node[n].val = SubSeq(c.val, m + 1, M)
                        /\ u.node[a].child = c.child /\ u.node[n].child = c.child
         /\ ~c.isLeaf => /\ u.node[a].child = SubSeq(c.child, 1, Half + 1)
                         /\ u.node[n].child = SubSeq(c.child, m + 1, M + 1)
<1>2. c \in Nodes(V)
  <2>1. t \in Trees(V) /\ a \in DOMAIN t.node BY DEF Splits, Shape
  <2>q. QED BY <2>1, NodeFields
<1>3. /\ u.node[n] = [c EXCEPT !.key = SubSeq(c.key, m + 1, M),
                                 !.val = IF c.isLeaf THEN SubSeq(c.val, m + 1, M) ELSE c.val,
                                 !.child = IF c.isLeaf THEN c.child ELSE SubSeq(c.child, m + 1, M + 1)]
      /\ u.node[a] = [c EXCEPT !.key = SubSeq(c.key, 1, Half),
                                 !.val = IF c.isLeaf THEN SubSeq(c.val, 1, Half) ELSE c.val,
                                 !.child = IF c.isLeaf THEN c.child ELSE SubSeq(c.child, 1, Half + 1)]
  BY DEF Splits, Cut
<1>q. QED BY <1>2, <1>3 DEF Nodes

(* their keys, *)
LEMMA CutKeys ==
  ASSUME NEW V, NEW t, NEW g, NEW a, NEW i, NEW u, Splits(t, g, V, a, i, u),
         NEW c, c = t.node[a], NEW m, m = Middle(c), NEW n, n = Len(t.node) + 1
  PROVE  /\ u.node[a].key \in Seq(Int) /\ Len(u.node[a].key) = Half
         /\ \A j \in 1..Half : u.node[a].key[j] = c.key[j]
         /\ u.node[n].key \in Seq(Int) /\ Len(u.node[n].key) = M - m
         /\ \A j \in 1..(M - m) : u.node[n].key[j] = c.key[m + j]
<1>1. /\ c.key \in Seq(Int) /\ Len(c.key) = M /\ c.child \in Seq(Nat) /\ c.val \in Seq(V)
      /\ m \in Nat /\ m = (IF c.isLeaf THEN Half ELSE Half + 1) /\ m \in 1..(M - 1)
      /\ c.isLeaf => Len(c.val) = M /\ c.child = <<>>
      /\ ~c.isLeaf => Len(c.child) = M + 1
  <2>1. c.key \in Seq(Int) /\ Len(c.key) = M /\ c.child \in Seq(Nat) /\ c.val \in Seq(V) BY CutMiddle
  <2>2. m \in Nat /\ m = (IF c.isLeaf THEN Half ELSE Half + 1) /\ m \in 1..(M - 1) BY CutMiddle
  <2>3. c.isLeaf => Len(c.val) = M /\ c.child = <<>> BY CutMiddle
  <2>4. ~c.isLeaf => Len(c.child) = M + 1 BY CutMiddle
  <2>q. QED BY <2>1, <2>2, <2>3, <2>4, Zenon
<1>4. u.node[n].key = SubSeq(c.key, m + 1, M) /\ u.node[a].key = SubSeq(c.key, 1, Half) BY CutFields
<1>5. Half \in Nat /\ Half >= 2 /\ M = 2 * Half /\ M \in Nat BY MIs
<1>6. /\ 1 \in 1..(M + 1) /\ Half <= M /\ 1 <= Half + 1 /\ Half - 1 + 1 = Half
      /\ m + 1 \in 1..(M + 1) /\ m + 1 <= M + 1 /\ M - (m + 1) + 1 = M - m BY <1>1, <1>5
<1> DEFINE x == SubSeq(c.key, m + 1, M)
           y == SubSeq(c.key, 1, Half)
<1>7. x \in Seq(Int) /\ Len(x) = M - m /\ \A j \in 1..(M - m) : x[j] = c.key[(m + 1) + j - 1]
  BY <1>1, <1>5, <1>6, CutIs
<1>8. y \in Seq(Int) /\ Len(y) = Half /\ \A j \in 1..Half : y[j] = c.key[1 + j - 1]
  BY SMTT(30), <1>1, <1>5, <1>6, CutIs
<1>p. /\ \A j \in 1..(M - m) : (m + 1) + j - 1 = m + j
      /\ \A j \in 1..(M + 1 - m) : (m + 1) + j - 1 = m + j
      /\ \A j \in 1..(Half + 1) : 1 + j - 1 = j
      /\ \A j \in 1..Half : 1 + j - 1 = j
  BY <1>1, <1>5
<1> HIDE DEF x, y
<1>10. \A j \in 1..(M - m) : x[j] = c.key[m + j] BY <1>7, <1>p
<1>11. \A j \in 1..Half : y[j] = c.key[j] BY <1>8, <1>p
<1>14. u.node[a].key = y /\ u.node[n].key = x BY <1>4 DEF x, y
<1>15. /\ u.node[a].key \in Seq(Int) /\ Len(u.node[a].key) = Half
       /\ \A j \in 1..Half : u.node[a].key[j] = c.key[j]
  BY <1>8, <1>11, <1>14
<1>16. /\ u.node[n].key \in Seq(Int) /\ Len(u.node[n].key) = M - m
       /\ \A j \in 1..(M - m) : u.node[n].key[j] = c.key[m + j]
  BY <1>7, <1>10, <1>14
<1>q. QED BY <1>15, <1>16

(* the records of a leaf *)
LEMMA CutRecords ==
  ASSUME NEW V, NEW t, NEW g, NEW a, NEW i, NEW u, Splits(t, g, V, a, i, u),
         NEW c, c = t.node[a], NEW m, m = Middle(c), NEW n, n = Len(t.node) + 1, c.isLeaf
  PROVE  /\ Len(u.node[a].val) = Half /\ Len(u.node[n].val) = Half
         /\ u.node[a].child = <<>> /\ u.node[n].child = <<>>
         /\ \A j \in 1..Half : u.node[a].val[j] = c.val[j] /\ u.node[n].val[j] = c.val[m + j]
<1>a1. /\ c.key \in Seq(Int) /\ Len(c.key) = M /\ c.child \in Seq(Nat) /\ c.val \in Seq(V)
       /\ m \in Nat /\ m = (IF c.isLeaf THEN Half ELSE Half + 1) /\ m \in 1..(M - 1)
       /\ c.isLeaf => Len(c.val) = M /\ c.child = <<>>
       /\ ~c.isLeaf => Len(c.child) = M + 1
  <2>1. c.key \in Seq(Int) /\ Len(c.key) = M /\ c.child \in Seq(Nat) /\ c.val \in Seq(V) BY CutMiddle
  <2>2. m \in Nat /\ m = (IF c.isLeaf THEN Half ELSE Half + 1) /\ m \in 1..(M - 1) BY CutMiddle
  <2>3. c.isLeaf => Len(c.val) = M /\ c.child = <<>> BY CutMiddle
  <2>4. ~c.isLeaf => Len(c.child) = M + 1 BY CutMiddle
  <2>q. QED BY <2>1, <2>2, <2>3, <2>4, Zenon
<1>a4. /\ u.node[a].val = SubSeq(c.val, 1, Half) /\ u.node[n].val = SubSeq(c.val, m + 1, M)
       /\ u.node[a].child = c.child /\ u.node[n].child = c.child BY CutFields
<1>a5. Half \in Nat /\ Half >= 2 /\ M = 2 * Half /\ M \in Nat BY MIs
<1>a6. /\ 1 \in 1..(M + 1) /\ Half <= M /\ 1 <= Half + 1 /\ Half - 1 + 1 = Half
       /\ m + 1 \in 1..(M + 1) /\ m + 1 <= M + 1 /\ M - (m + 1) + 1 = M - m BY <1>a1, <1>a5
<1>ap. /\ \A j \in 1..(M - m) : (m + 1) + j - 1 = m + j
       /\ \A j \in 1..(M + 1 - m) : (m + 1) + j - 1 = m + j
       /\ \A j \in 1..(Half + 1) : 1 + j - 1 = j
       /\ \A j \in 1..Half : 1 + j - 1 = j
  BY <1>a1, <1>a5
<1> DEFINE v == SubSeq(c.val, m + 1, M)
             w == SubSeq(c.val, 1, Half)
<1>1. Len(c.val) = M /\ c.child = <<>> /\ m = Half BY <1>a1
<1>2. Len(v) = M - m /\ \A j \in 1..(M - m) : v[j] = c.val[(m + 1) + j - 1]
    BY <1>1, <1>a1, <1>a5, <1>a6, CutIs
<1>3. Len(w) = Half /\ \A j \in 1..Half : w[j] = c.val[1 + j - 1]
    BY <1>1, <1>a1, <1>a5, <1>a6, CutIs
<1>4. M - m = Half BY <1>1, <1>a5
<1>6. u.node[a].val = w /\ u.node[n].val = v BY <1>a4
<1> HIDE DEF v, w
<1>5. \A j \in 1..Half : v[j] = c.val[m + j] /\ w[j] = c.val[j] BY <1>2, <1>3, <1>4, <1>ap
<1>q. QED BY <1>1, <1>2, <1>3, <1>4, <1>5, <1>6, <1>a4

(* and the children of an inner node. *)
LEMMA CutChildren ==
  ASSUME NEW V, NEW t, NEW g, NEW a, NEW i, NEW u, Splits(t, g, V, a, i, u),
         NEW c, c = t.node[a], NEW m, m = Middle(c), NEW n, n = Len(t.node) + 1, ~c.isLeaf
  PROVE  /\ Len(u.node[a].child) = Half + 1 /\ Len(u.node[n].child) = M + 1 - m
         /\ \A j \in 1..(Half + 1) : u.node[a].child[j] = c.child[j]
         /\ \A j \in 1..(M + 1 - m) : u.node[n].child[j] = c.child[m + j]
<1>a1. /\ c.key \in Seq(Int) /\ Len(c.key) = M /\ c.child \in Seq(Nat) /\ c.val \in Seq(V)
       /\ m \in Nat /\ m = (IF c.isLeaf THEN Half ELSE Half + 1) /\ m \in 1..(M - 1)
       /\ c.isLeaf => Len(c.val) = M /\ c.child = <<>>
       /\ ~c.isLeaf => Len(c.child) = M + 1
  <2>1. c.key \in Seq(Int) /\ Len(c.key) = M /\ c.child \in Seq(Nat) /\ c.val \in Seq(V) BY CutMiddle
  <2>2. m \in Nat /\ m = (IF c.isLeaf THEN Half ELSE Half + 1) /\ m \in 1..(M - 1) BY CutMiddle
  <2>3. c.isLeaf => Len(c.val) = M /\ c.child = <<>> BY CutMiddle
  <2>4. ~c.isLeaf => Len(c.child) = M + 1 BY CutMiddle
  <2>q. QED BY <2>1, <2>2, <2>3, <2>4, Zenon
<1>a4. u.node[a].child = SubSeq(c.child, 1, Half + 1) /\ u.node[n].child = SubSeq(c.child, m + 1, M + 1)
  BY CutFields
<1>a5. Half \in Nat /\ Half >= 2 /\ M = 2 * Half /\ M \in Nat BY MIs
<1>a6. /\ 1 \in 1..(M + 1) /\ Half <= M /\ 1 <= Half + 1 /\ Half - 1 + 1 = Half
       /\ m + 1 \in 1..(M + 1) /\ m + 1 <= M + 1 /\ M - (m + 1) + 1 = M - m BY <1>a1, <1>a5
<1>ap. /\ \A j \in 1..(M - m) : (m + 1) + j - 1 = m + j
       /\ \A j \in 1..(M + 1 - m) : (m + 1) + j - 1 = m + j
       /\ \A j \in 1..(Half + 1) : 1 + j - 1 = j
       /\ \A j \in 1..Half : 1 + j - 1 = j
  BY <1>a1, <1>a5
<1> DEFINE v == SubSeq(c.child, m + 1, M + 1)
             w == SubSeq(c.child, 1, Half + 1)
<1>1. Len(c.child) = M + 1 BY <1>a1
<1>2. /\ m + 1 \in 1..(M + 1 + 1) /\ m + 1 <= M + 1 + 1 /\ M + 1 \in Nat /\ (M + 1) - (m + 1) + 1 = M + 1 - m
        /\ 1 \in 1..(M + 1 + 1) /\ 1 <= Half + 1 + 1 /\ Half + 1 \in Nat /\ Half + 1 <= M + 1 /\ Half + 1 - 1 + 1 = Half + 1
    BY <1>a1, <1>a5
<1>3. Len(v) = M + 1 - m /\ \A j \in 1..(M + 1 - m) : v[j] = c.child[(m + 1) + j - 1]
    <2>1. /\ c.child \in Seq(Nat) /\ m + 1 \in 1..(Len(c.child) + 1) /\ M + 1 \in Nat
          /\ m + 1 <= (M + 1) + 1 /\ M + 1 <= Len(c.child) BY <1>1, <1>2, <1>a1
    <2>2. Len(v) = (M + 1) - (m + 1) + 1 /\ \A j \in 1..((M + 1) - (m + 1) + 1) : v[j] = c.child[(m + 1) + j - 1]
      BY ONLY <2>1, CutIs
    <2> HIDE DEF v
    <2>q. QED BY <2>2, <1>2
<1>4. Len(w) = Half + 1 /\ \A j \in 1..(Half + 1) : w[j] = c.child[1 + j - 1]
    <2>1. /\ c.child \in Seq(Nat) /\ 1 \in 1..(Len(c.child) + 1) /\ Half + 1 \in Nat
          /\ 1 <= (Half + 1) + 1 /\ Half + 1 <= Len(c.child) BY <1>1, <1>2, <1>a1
    <2>2. Len(w) = (Half + 1) - 1 + 1 /\ \A j \in 1..((Half + 1) - 1 + 1) : w[j] = c.child[1 + j - 1]
      BY ONLY <2>1, CutIs
    <2> HIDE DEF w
    <2>q. QED BY <2>2, <1>2
<1>6. u.node[a].child = w /\ u.node[n].child = v BY <1>a4
<1> HIDE DEF v, w
<1>5. (\A j \in 1..(M + 1 - m) : v[j] = c.child[m + j]) /\ (\A j \in 1..(Half + 1) : w[j] = c.child[j])
    BY <1>3, <1>4, <1>ap
<1>q. QED BY <1>3, <1>4, <1>5, <1>6

(* The parent takes the separator and the new node in, *)
Grown(t, u, p, i, s, n) ==
    /\ ~u.node[p].isLeaf /\ u.node[p].parent = t.node[p].parent
    /\ u.node[p].key \in Seq(Int) /\ Len(u.node[p].child) = Len(u.node[p].key) + 1
    /\ Enlarged(u.node[p].key, t.node[p].key, i, s)
    /\ Enlarged(u.node[p].child, t.node[p].child, i + 1, n)

LEMMA CutParent ==
  ASSUME NEW V, NEW t, NEW g, NEW a, NEW i, NEW u, Splits(t, g, V, a, i, u),
         NEW p, p = t.node[a].parent, NEW n, n = Len(t.node) + 1,
         NEW s, s = t.node[a].key[Middle(t.node[a])]
  PROVE  Grown(t, u, p, i, s, n)
<1> DEFINE K == t.node[p].key
           C == t.node[p].child
<1>1. /\ p \in DOMAIN t.node /\ ~t.node[p].isLeaf /\ n \in Nat
      /\ K \in Seq(Int) /\ C \in Seq(Nat) /\ Len(K) \in Nat
      /\ i \in Nat /\ i \in 1..(Len(K) + 1) /\ Len(C) = Len(K) + 1
  <2>1. p \in DOMAIN t.node /\ ~t.node[p].isLeaf /\ n \in Nat BY CutPlaces
  <2>2. K \in Seq(Int) /\ C \in Seq(Nat) /\ Len(K) \in Nat BY CutPlaces
  <2>3a. i \in Nat BY CutPlaces
  <2>3b. i \in 1..(Len(t.node[p].key) + 1) BY CutPlaces
  <2>3c. InnerOK(t, g, p) BY CutPlaces
  <2>4. i \in Nat /\ i \in 1..(Len(K) + 1) /\ Len(C) = Len(K) + 1 BY <2>3a, <2>3b, <2>3c, Zenon DEF InnerOK
  <2>q. QED BY <2>1, <2>2, <2>4, Zenon
<1>2. s \in Int BY CutMiddle
<1>3. t.node[p] \in Nodes(V)
  <2>1. t \in Trees(V) BY DEF Splits, Shape
  <2>q. QED BY <2>1, <1>1, NodeFields
<1> DEFINE x == InsertAt(K, i, s)
           y == InsertAt(C, i + 1, n)
<1>4. u.node[p] = [t.node[p] EXCEPT !.key = x, !.child = y] BY DEF Splits, Cut
<1>5. x \in Seq(Int) /\ Enlarged(x, K, i, s)
  <2> HIDE DEF K
  <2>q. QED BY <1>1, <1>2, InsertAtIs
<1>6. Enlarged(y, C, i + 1, n)
  <2> HIDE DEF K, C
  <2>1. C \in Seq(Nat) /\ i + 1 \in 1..(Len(C) + 1) /\ n \in Nat BY <1>1
  <2>q. QED BY <2>1, InsertAtIs
<1>7. ~u.node[p].isLeaf /\ u.node[p].parent = t.node[p].parent /\ u.node[p].key = x /\ u.node[p].child = y
  <2> HIDE DEF x, y
  <2>q. QED BY <1>1, <1>3, <1>4 DEF Nodes
<1>8. Len(y) = Len(x) + 1
  <2> HIDE DEF x, y, K, C
  <2>q. QED BY <1>1, <1>5, <1>6 DEF Enlarged
<1> HIDE DEF x, y
<1>q. QED BY <1>5, <1>6, <1>7, <1>8 DEF Grown

(* the children moved to the new node get it as their parent, *)
Shifts(t, u, a, n) ==
    /\ ~t.node[a].isLeaf => \A j \in (Half + 2)..(M + 1) : t.node[a].child[j] \in Range(u.node[n].child)
    /\ \A b \in Range(u.node[n].child) :
         ~t.node[a].isLeaf /\ \E j \in (Half + 2)..(M + 1) : t.node[a].child[j] = b

LEMMA CutMoved ==
  ASSUME NEW V, NEW t, NEW g, NEW a, NEW i, NEW u, Splits(t, g, V, a, i, u),
         NEW n, n = Len(t.node) + 1
  PROVE  Shifts(t, u, a, n)
<1> DEFINE c == t.node[a]
           m == Middle(c)
           r == u.node[n].child
<1>h. Half \in Nat /\ M \in Nat /\ Half >= 2 /\ M = 2 * Half BY MIs
<1>n. r \in Seq(Nat)
  <2>1. n \in DOMAIN u.node BY CutPlaces
  <2>2. u \in Trees(V) BY DEF Splits
  <2>q. QED BY <2>1, <2>2, NodeFields
<1>1. CASE c.isLeaf
  <2>1. u.node[n].child = <<>> BY <1>1, CutRecords
  <2>2. Range(u.node[n].child) = {} BY <2>1 DEF Range
  <2>q. QED BY <2>2, <1>1 DEF Shifts
<1>2. CASE ~c.isLeaf
  <2>1. m = Half + 1 BY <1>2 DEF Middle
  <2>2. Len(r) = M + 1 - m BY <1>2, CutChildren
  <2>3. \A j \in 1..(M + 1 - m) : r[j] = c.child[m + j] BY <1>2, CutChildren
  <2> HIDE DEF r, m, c
  <2>4. DOMAIN r = 1..(M + 1 - m) BY <1>n, <2>2
  <2>5. ASSUME NEW b \in Range(r) PROVE \E j \in (Half + 2)..(M + 1) : c.child[j] = b
    <3>1. PICK j \in 1..(M + 1 - m) : r[j] = b BY <2>4 DEF Range
    <3>2. m + j \in (Half + 2)..(M + 1) BY <2>1, <1>h
    <3>q. QED BY <3>1, <3>2, <2>3
  <2>6. ASSUME NEW j \in (Half + 2)..(M + 1) PROVE c.child[j] \in Range(r)
    <3>1. j - m \in 1..(M + 1 - m) /\ m + (j - m) = j BY <2>1, <1>h
    <3>2. r[j - m] = c.child[j] BY <3>1, <2>3
    <3>q. QED BY <3>1, <3>2, <2>4 DEF Range
  <2>q. QED BY <2>5, <2>6, <1>2 DEF r, c, Shifts
<1>q. QED BY <1>1, <1>2

(* and every other node stays as it is. *)
Kept(t, u, a, b) ==
    /\ u.node[b].isLeaf = t.node[b].isLeaf
    /\ b # a => u.node[b].val = t.node[b].val
    /\ b # a /\ b # t.node[a].parent => u.node[b].key = t.node[b].key /\ u.node[b].child = t.node[b].child

LEMMA CutOther ==
  ASSUME NEW V, NEW t, NEW g, NEW a, NEW i, NEW u, Splits(t, g, V, a, i, u),
         NEW n, n = Len(t.node) + 1, NEW b \in DOMAIN t.node
  PROVE  /\ b \in Range(u.node[n].child) => u.node[b].parent = n /\ g.lev[b] + 1 = g.lev[a] /\ b # a /\ t.node[b].parent = a
                                            /\ b # t.node[a].parent
         /\ b \notin Range(u.node[n].child) => u.node[b].parent = t.node[b].parent
         /\ Kept(t, u, a, b)
<1> DEFINE p == t.node[a].parent
           Moved == b \in Range(u.node[n].child)
<1>1. t \in Trees(V) /\ a \in DOMAIN t.node BY DEF Splits, Shape
<1>2. t.node[b] \in Nodes(V) BY <1>1, NodeFields
<1>3. p # a /\ g.lev[a] \in Nat /\ g.lev[p] = g.lev[a] + 1 /\ NodeOK(t, g, a) /\ p \in DOMAIN t.node BY CutPlaces
<1>4. Moved => /\ g.lev[b] + 1 = g.lev[a] /\ t.node[b].parent = a
  <2>1. ASSUME Moved PROVE g.lev[b] + 1 = g.lev[a] /\ t.node[b].parent = a
    <3>0. Shifts(t, u, a, n) BY CutMoved
    <3>1. ~t.node[a].isLeaf BY <2>1, <3>0 DEF Shifts
    <3>2. PICK j \in (Half + 2)..(M + 1) : t.node[a].child[j] = b BY <2>1, <3>0 DEF Shifts
    <3>3. Len(t.node[a].child) = M + 1 BY <3>1, CutMiddle
    <3>4. j \in 1..Len(t.node[a].child) BY <3>3, MIs
    <3>5. ChildOK(t, g, a, j) BY <3>1, <3>4, <1>3 DEF NodeOK, InnerOK
    <3>q. QED BY <3>2, <3>5 DEF ChildOK
  <2>q. QED BY <2>1
<1>l. g.lev[b] \in Nat
  <2>1. GhostOK(t, g) BY DEF Splits, Shape
  <2>q. QED BY <2>1 DEF GhostOK
<1>5. Moved => b # a /\ b # p BY <1>3, <1>4, <1>l
<1>6. CASE b = a
  <2>1. u.node[a].isLeaf = t.node[a].isLeaf /\ u.node[a].parent = t.node[a].parent BY CutFields
  <2>q. QED BY <2>1, <1>5, <1>6 DEF Kept
<1>7. CASE b = p
  <2>1. u.node[p] = [t.node[p] EXCEPT !.key = InsertAt(t.node[p].key, i, t.node[a].key[Middle(t.node[a])]),
                                      !.child = InsertAt(t.node[p].child, i + 1, n)]
    BY DEF Splits, Cut
  <2>2. u.node[b].isLeaf = t.node[b].isLeaf /\ u.node[b].val = t.node[b].val /\ u.node[b].parent = t.node[b].parent
    BY <2>1, <1>2, <1>7 DEF Nodes
  <2>q. QED BY <2>2, <1>5, <1>7 DEF Kept
<1>8. CASE b # a /\ b # p
  <2>1. u.node[b] = IF Moved THEN [t.node[b] EXCEPT !.parent = n] ELSE t.node[b]
    BY <1>8 DEF Splits, Cut
  <2> HIDE DEF Moved
  <2>2. /\ Moved => u.node[b].parent = n
        /\ ~Moved => u.node[b].parent = t.node[b].parent
        /\ u.node[b].isLeaf = t.node[b].isLeaf /\ u.node[b].val = t.node[b].val
        /\ u.node[b].key = t.node[b].key /\ u.node[b].child = t.node[b].child
    BY <2>1, <1>2 DEF Nodes
  <2>q. QED BY <2>2, <1>4, <1>8 DEF Moved, Kept
<1>q. QED BY <1>6, <1>7, <1>8

(* Levels and bounds after the split. *)
LEMMA CutGhost ==
  ASSUME NEW V, NEW t, NEW g, NEW a, NEW i, NEW u, Splits(t, g, V, a, i, u),
         NEW n, n = Len(t.node) + 1, NEW s, s = t.node[a].key[Middle(t.node[a])],
         NEW h, h = GhostCut(t, g, a)
  PROVE  /\ h.lev[n] = g.lev[a] /\ h.lo[n] = s /\ h.hi[n] = g.hi[a] /\ h.hi[a] = s
         /\ \A b \in DOMAIN t.node : h.lev[b] = g.lev[b] /\ h.lo[b] = g.lo[b] /\ (b # a => h.hi[b] = g.hi[b])
         /\ GhostOK(u, h)
<1>1. /\ n \in Nat /\ n \notin DOMAIN t.node /\ n # 0 /\ DOMAIN u.node = 1..n /\ DOMAIN u.node = DOMAIN t.node \cup {n}
      /\ a \in DOMAIN t.node
  BY CutPlaces
<1>2. /\ h.lev = [b \in 1..n |-> IF b = n THEN g.lev[a] ELSE g.lev[b]]
      /\ h.lo = [b \in 1..n |-> IF b = n THEN s ELSE g.lo[b]]
      /\ h.hi = [b \in 1..n |-> IF b = n THEN g.hi[a] ELSE IF b = a THEN s ELSE g.hi[b]]
  BY DEF GhostCut
<1>3. h.lev[n] = g.lev[a] /\ h.lo[n] = s /\ h.hi[n] = g.hi[a]
  <2>1. n \in 1..n BY <1>1
  <2>q. QED BY <2>1, <1>2
<1>4. \A b \in DOMAIN t.node : h.lev[b] = g.lev[b] /\ h.lo[b] = g.lo[b] /\ (b # a => h.hi[b] = g.hi[b])
  <2>1. \A b \in DOMAIN t.node : b \in 1..n /\ b # n BY <1>1
  <2>q. QED BY <2>1, <1>2
<1>5. h.hi[a] = s
  <2>1. a \in 1..n /\ a # n BY <1>1
  <2>q. QED BY <2>1, <1>2
<1>6. GhostOK(t, g) /\ u.depth = t.depth BY DEF Splits, Shape, Cut
<1>7. s \in Bounds
  <2>1. s \in Int BY CutMiddle
  <2>q. QED BY <2>1 DEF Bounds
<1>8. \A b \in 1..n : h.lev[b] \in Nat /\ h.lev[b] < u.depth /\ h.lo[b] \in Bounds /\ h.hi[b] \in Bounds
  <2>1. ASSUME NEW b \in DOMAIN t.node PROVE g.lev[b] \in Nat /\ g.lev[b] < t.depth /\ g.lo[b] \in Bounds /\ g.hi[b] \in Bounds
    BY <1>6 DEF GhostOK
  <2>q. QED BY <2>1, <1>1, <1>3, <1>4, <1>5, <1>6, <1>7
<1>9. h.lev \in [1..n -> Nat] /\ h.lo \in [1..n -> Bounds] /\ h.hi \in [1..n -> Bounds] BY <1>2, <1>8
<1>10. GhostOK(u, h) BY <1>1, <1>8, <1>9 DEF GhostOK
<1>q. QED BY <1>3, <1>4, <1>5, <1>10

(* Every node but the root is a child of its parent still. *)
LEMMA CutParentOK ==
  ASSUME NEW V, NEW t, NEW g, NEW a, NEW i, NEW u, Splits(t, g, V, a, i, u), NEW b \in DOMAIN u.node
  PROVE  ParentOK(u, b)
<1> DEFINE p == t.node[a].parent
           n == Len(t.node) + 1
           c == t.node[a]
<1>1. /\ n \in Nat /\ n \notin DOMAIN t.node /\ n # 0 /\ DOMAIN u.node = 1..n /\ DOMAIN u.node = DOMAIN t.node \cup {n}
      /\ p \in DOMAIN t.node /\ p # a /\ ~t.node[p].isLeaf /\ a \in DOMAIN t.node
  BY CutPlaces
<1>2. PICK s : s = t.node[a].key[Middle(t.node[a])] OBVIOUS
<1>3. Grown(t, u, p, i, s, n) BY <1>2, CutParent
<1>4. i \in 1..Len(t.node[p].child) /\ t.node[p].child[i] = a /\ u.root = t.root /\ t \in Trees(V)
      /\ \A d \in DOMAIN t.node : ParentOK(t, d) /\ NodeOK(t, g, d)
  BY DEF Splits, Shape, Cut, NodeOK
<1>h. Half \in Nat /\ M \in Nat /\ Half >= 2 /\ M = 2 * Half BY MIs
<1>5. Len(u.node[a].key) = Half /\ u.node[a].parent = p BY CutKeys, CutFields
<1>6. Len(u.node[n].key) >= 1 /\ u.node[n].parent = p
  <2>1. u.node[n].parent = p BY CutFields
  <2>2. Len(u.node[n].key) = M - Middle(c) BY CutKeys
  <2>3. Middle(c) \in 1..(M - 1) BY CutMiddle
  <2>q. QED BY <2>1, <2>2, <2>3, <1>h
<1>7. u.node[p].child[i] = a /\ i \in 1..Len(u.node[p].child)
      /\ u.node[p].child[i + 1] = n /\ i + 1 \in 1..Len(u.node[p].child)
  <2>1. Len(t.node[p].child) \in Nat BY <1>1, <1>4, NodeFields
  <2>2. i < i + 1 BY <1>4
  <2>3. Enlarged(u.node[p].child, t.node[p].child, i + 1, n) BY <1>3 DEF Grown
  <2>4. u.node[p].child[i] = a BY <2>2, <2>3, <1>4 DEF Enlarged
  <2>5. Len(u.node[p].child) = Len(t.node[p].child) + 1 /\ u.node[p].child[i + 1] = n BY <2>3 DEF Enlarged
  <2>6. i \in 1..Len(t.node[p].child) BY <1>4
  <2>q. QED BY SMTT(30), <2>1, <2>4, <2>5, <2>6
<1>8. CASE b = a
  <2>1. u.node[a].key # <<>> BY <1>5, <1>h
  <2>q. QED BY <2>1, <1>1, <1>3, <1>5, <1>7, <1>8 DEF ParentOK, Grown
<1>9. CASE b = n
  <2>1. u.node[n].key # <<>> BY <1>6
  <2>q. QED BY <2>1, <1>1, <1>3, <1>6, <1>7, <1>9 DEF ParentOK, Grown
<1>10. CASE b # a /\ b # n
  <2> DEFINE Moved == b \in Range(u.node[n].child)
  <2>1. b \in DOMAIN t.node BY <1>1, <1>10
  <2>2. Moved => u.node[b].parent = n BY <2>1, CutOther
  <2>3. ~Moved => u.node[b].parent = t.node[b].parent BY <2>1, CutOther
  <2>4. Shifts(t, u, a, n) BY CutMoved
  <2>5. b # t.root => u.node[b].key # <<>>
    <3>1. CASE b = p
      <4>1. Len(u.node[p].key) = Len(t.node[p].key) + 1 BY <1>3 DEF Grown, Enlarged
      <4>2. Len(t.node[p].key) \in Nat BY <1>1, <1>4, NodeFields
      <4>3. Len(u.node[p].key) # 0 BY <4>1, <4>2
      <4>q. QED BY <4>3, <3>1
    <3>2. CASE b # p
      <4>1. u.node[b].key = t.node[b].key BY <2>1, <3>2, <1>10, CutOther DEF Kept
      <4>q. QED BY <4>1, <2>1, <1>4 DEF ParentOK
    <3>q. QED BY <3>1, <3>2
  <2>6. CASE Moved
    <3>1. b \in Range(u.node[n].child) /\ ~c.isLeaf BY <2>4, <2>6 DEF Shifts
    <3>2. u.node[n].isLeaf = c.isLeaf BY CutFields
    <3>3. \E j \in 1..Len(u.node[n].child) : u.node[n].child[j] = b
      <4>1. u \in Trees(V) BY DEF Splits
      <4>2. u.node[n].child \in Seq(Nat) BY <4>1, <1>1, NodeFields
      <4>q. QED BY <4>2, <3>1 DEF Range
    <3>4. n \in DOMAIN u.node BY <1>1
    <3> HIDE DEF n, p, c
    <3>q. QED BY <3>1, <3>2, <3>3, <3>4, <2>2, <2>5, <2>6, <1>4 DEF ParentOK
  <2>7. CASE ~Moved
    <3> DEFINE q == t.node[b].parent
    <3>1. ASSUME b # t.root
          PROVE  q \in DOMAIN t.node /\ ~t.node[q].isLeaf /\ \E j \in 1..Len(t.node[q].child) : t.node[q].child[j] = b
      BY <3>1, <2>1, <1>4 DEF ParentOK
    <3>2. ASSUME b # t.root
          PROVE  ~u.node[q].isLeaf /\ \E j \in 1..Len(u.node[q].child) : u.node[q].child[j] = b
      <4>1. q \in DOMAIN t.node /\ ~t.node[q].isLeaf BY <3>1, <3>2
      <4>2. u.node[q].isLeaf = t.node[q].isLeaf BY <4>1, CutOther DEF Kept
      <4>3. PICK j \in 1..Len(t.node[q].child) : t.node[q].child[j] = b BY <3>1, <3>2
      <4>4. CASE q = p
        <5>1. Len(t.node[p].child) \in Nat BY <1>1, <1>4, NodeFields
        <5>2. Enlarged(u.node[p].child, t.node[p].child, i + 1, n) BY <1>3 DEF Grown
        <5>3. \E k \in 1..Len(u.node[p].child) : u.node[p].child[k] = b
          <6>1. CASE j < i + 1
            <7>1. j \in 1..Len(u.node[p].child)
              <8>1. Len(u.node[p].child) = Len(t.node[p].child) + 1 BY <5>2 DEF Enlarged
              <8>2. j \in 1..Len(t.node[p].child) BY <4>3, <4>4
              <8>q. QED BY <8>1, <8>2, <5>1, OneFurther
            <7>2. u.node[p].child[j] = b BY <5>2, <4>3, <4>4, <6>1 DEF Enlarged
            <7>q. QED BY <7>1, <7>2
          <6>2. CASE j >= i + 1
            <7>1. j + 1 \in 1..Len(u.node[p].child)
              <8>1. Len(u.node[p].child) = Len(t.node[p].child) + 1 BY <5>2 DEF Enlarged
              <8>2. j \in 1..Len(t.node[p].child) BY <4>3, <4>4
              <8>q. QED BY <8>1, <8>2, <5>1, OneFurther
            <7>2. u.node[p].child[j + 1] = b BY <5>2, <4>3, <4>4, <6>2 DEF Enlarged
            <7>q. QED BY <7>1, <7>2
          <6>q. QED BY <6>1, <6>2, <1>4, <4>3
        <5>q. QED BY <5>3, <4>1, <4>2, <4>4
      <4>5. CASE q = a
        <5>1. ~c.isLeaf BY <4>1, <4>5
        <5>2. Len(c.child) = M + 1 BY <5>1, CutMiddle
        <5>3. j \in 1..(Half + 1)
          <6>1. j \notin (Half + 2)..(M + 1) BY <2>4, <2>7, <4>3, <4>5, <5>1 DEF Shifts
          <6>2. j \in 1..(M + 1) BY <4>3, <4>5, <5>2
          <6>q. QED BY <6>1, <6>2, <1>h
        <5>4. Len(u.node[a].child) = Half + 1 BY <5>1, CutChildren
        <5>5. \A k \in 1..(Half + 1) : u.node[a].child[k] = c.child[k] BY <5>1, CutChildren
        <5>q. QED BY <5>3, <5>4, <5>5, <4>1, <4>2, <4>3, <4>5
      <4>6. CASE q # p /\ q # a
        <5>1. u.node[q].child = t.node[q].child BY <4>1, <4>6, CutOther DEF Kept
        <5>q. QED BY <5>1, <4>1, <4>2, <4>3
      <4>q. QED BY <4>4, <4>5, <4>6
    <3>q. QED BY <3>1, <3>2, <2>3, <2>5, <2>7, <1>1, <1>4 DEF ParentOK
  <2>q. QED BY <2>6, <2>7
<1>q. QED BY <1>8, <1>9, <1>10

(* A leaf keeps the key that became its high bound. *)
LEMMA CutLeafOK ==
  ASSUME NEW V, NEW t, NEW g, NEW a, NEW i, NEW u, Splits(t, g, V, a, i, u), NEW b \in DOMAIN u.node,
         u.node[b].isLeaf, NEW h, h = GhostCut(t, g, a)
  PROVE  LeafOK(u.node[b], h.hi[b])
<1> DEFINE p == t.node[a].parent
           n == Len(t.node) + 1
           c == t.node[a]
<1>1. /\ n \in Nat /\ n \notin DOMAIN t.node /\ DOMAIN u.node = DOMAIN t.node \cup {n}
      /\ p \in DOMAIN t.node /\ p # a /\ ~t.node[p].isLeaf /\ a \in DOMAIN t.node
  BY CutPlaces
<1>2. PICK s : s = t.node[a].key[Middle(t.node[a])] OBVIOUS
<1>h. Half \in Nat /\ M \in Nat /\ Half >= 2 /\ M = 2 * Half BY MIs
<1>3. \A d \in DOMAIN t.node : t.node[d].isLeaf => LeafOK(t.node[d], g.hi[d])
  BY DEF Splits, Shape, NodeOK
<1>4. CASE b = a
  <2>1. c.isLeaf
    <3>1. u.node[a].isLeaf = c.isLeaf BY CutFields
    <3>q. QED BY <3>1, <1>4
  <2>2. h.hi[a] = s BY <1>2, CutGhost
  <2>3. Middle(c) = Half BY <2>1 DEF Middle
  <2>4. Len(u.node[a].key) = Half BY CutKeys
  <2>5. \A j \in 1..Half : u.node[a].key[j] = c.key[j] BY CutKeys
  <2>6. u.node[a].key[Half] = s BY <2>3, <2>5, <1>2, <1>h
  <2>7. u.node[a].key # <<>> BY <2>4, <1>h
  <2>8. Len(u.node[a].val) = Half /\ u.node[a].child = <<>> BY <2>1, CutRecords
  <2>q. QED BY <2>2, <2>4, <2>6, <2>7, <2>8, <1>4 DEF LeafOK
<1>5. CASE b = n
  <2>1. c.isLeaf
    <3>1. u.node[n].isLeaf = c.isLeaf BY CutFields
    <3>q. QED BY <3>1, <1>5
  <2>2. h.hi[n] = g.hi[a] BY CutGhost
  <2>3. Middle(c) = Half BY <2>1 DEF Middle
  <2>4. Len(u.node[n].key) = M - Middle(c) BY CutKeys
  <2>5. \A j \in 1..(M - Middle(c)) : u.node[n].key[j] = c.key[Middle(c) + j] BY CutKeys
  <2>6. u.node[n].key[Half] = c.key[M] /\ Len(u.node[n].key) = Half
    <3>1. Half \in 1..(M - Middle(c)) /\ Middle(c) + Half = M /\ M - Middle(c) = Half BY <2>3, <1>h
    <3>q. QED BY <3>1, <2>4, <2>5
  <2>7. u.node[n].key # <<>> BY <2>6, <1>h
  <2>8. Len(u.node[n].val) = Half /\ u.node[n].child = <<>> BY <2>1, CutRecords
  <2>9. Len(c.key) = M BY CutMiddle
  <2>10. g.hi[a] # NoBound => c.key[M] = g.hi[a] BY <2>1, <2>9, <1>1, <1>3 DEF LeafOK
  <2>q. QED BY <2>2, <2>6, <2>7, <2>8, <2>10, <1>5 DEF LeafOK
<1>6. CASE b # a /\ b # n
  <2>1. b \in DOMAIN t.node BY <1>1, <1>6
  <2>0. Kept(t, u, a, b) BY <2>1, CutOther
  <2>2. u.node[b].isLeaf = t.node[b].isLeaf BY <2>0 DEF Kept
  <2>3. b # p BY <2>2, <1>1
  <2>4. u.node[b].key = t.node[b].key /\ u.node[b].child = t.node[b].child BY <2>0, <2>3, <1>6 DEF Kept
  <2>5. u.node[b].val = t.node[b].val BY <2>0, <1>6 DEF Kept
  <2>6. h.hi[b] = g.hi[b] BY <2>1, <1>6, CutGhost
  <2>q. QED BY <2>1, <2>2, <2>4, <2>5, <2>6, <1>3 DEF LeafOK
<1>q. QED BY <1>4, <1>5, <1>6

(* The keys of the parent stay in order and between its bounds. *)
AtPlace(r, s, i, e, j) ==
    /\ j < i => j \in 1..Len(s) /\ r[j] = s[j]
    /\ j = i => r[j] = e
    /\ j > i => j - 1 \in 1..Len(s) /\ j - 1 >= i /\ r[j] = s[j - 1]

LEMMA InsertedAt ==
  ASSUME NEW r, NEW s, NEW i, NEW e, Len(s) \in Nat, i \in 1..(Len(s) + 1), Enlarged(r, s, i, e),
         NEW j \in 1..(Len(s) + 1)
  PROVE  AtPlace(r, s, i, e, j)
<1>1. ASSUME j < i PROVE j \in 1..Len(s) /\ r[j] = s[j]
  <2>1. j \in 1..Len(s) BY <1>1
  <2>q. QED BY <2>1, <1>1 DEF Enlarged
<1>2. ASSUME j > i PROVE j - 1 \in 1..Len(s) /\ j - 1 >= i /\ r[j] = s[j - 1]
  <2>1. j - 1 \in 1..Len(s) /\ j - 1 >= i /\ (j - 1) + 1 = j BY <1>2
  <2>2. r[(j - 1) + 1] = s[j - 1] BY <2>1 DEF Enlarged
  <2>q. QED BY <2>1, <2>2
<1>3. r[i] = e BY DEF Enlarged
<1>q. QED BY <1>1, <1>2, <1>3 DEF AtPlace

LEMMA SortedInserted ==
  ASSUME NEW s \in Seq(Int), Sorted(s), NEW e \in Int, NEW i \in 1..(Len(s) + 1), NEW r \in Seq(Int), Enlarged(r, s, i, e),
         \A j \in 1..Len(s) : (j < i => s[j] <= e) /\ (j >= i => e <= s[j])
  PROVE  Sorted(r)
<1>0. Len(s) \in Nat /\ Len(r) = Len(s) + 1 /\ (\A j \in 1..Len(s) : s[j] \in Int) BY DEF Enlarged
<1>1. ASSUME NEW j \in 1..Len(r), NEW k \in 1..Len(r), j <= k PROVE r[j] <= r[k]
  <2>0. j \in 1..(Len(s) + 1) /\ k \in 1..(Len(s) + 1) BY <1>0
  <2>a. AtPlace(r, s, i, e, j) /\ AtPlace(r, s, i, e, k) BY <2>0, <1>0, InsertedAt
  <2>1. /\ j < i => j \in 1..Len(s) /\ r[j] = s[j]
        /\ j = i => r[j] = e
        /\ j > i => j - 1 \in 1..Len(s) /\ j - 1 >= i /\ r[j] = s[j - 1]
    BY <2>a DEF AtPlace
  <2>2. /\ k < i => k \in 1..Len(s) /\ r[k] = s[k]
        /\ k = i => r[k] = e
        /\ k > i => k - 1 \in 1..Len(s) /\ k - 1 >= i /\ r[k] = s[k - 1]
    BY <2>a DEF AtPlace
  <2>3. CASE k < i
    <3>1. j < i BY <2>3, <1>1
    <3>q. QED BY <3>1, <2>1, <2>2, <2>3, <1>1 DEF Sorted
  <2>4. CASE k = i
    <3>1. CASE j < i BY <3>1, <2>1, <2>2, <2>4
    <3>2. CASE j = i BY <3>2, <2>1, <2>2, <2>4
    <3>q. QED BY <3>1, <3>2, <2>4, <1>1
  <2>5. CASE k > i
    <3>1. CASE j < i
      <4>1. s[j] <= e /\ e <= s[k - 1] /\ s[j] \in Int /\ s[k - 1] \in Int BY <3>1, <2>1, <2>2, <2>5, <1>0
      <4>q. QED BY SMTT(30), <4>1, <3>1, <2>1, <2>2, <2>5
    <3>2. CASE j = i BY <3>2, <2>1, <2>2, <2>5
    <3>3. CASE j > i
      <4>1. j - 1 <= k - 1 BY <1>1
      <4>q. QED BY <4>1, <3>3, <2>1, <2>2, <2>5 DEF Sorted
    <3>q. QED BY <3>1, <3>2, <3>3
  <2>q. QED BY <2>3, <2>4, <2>5
<1>q. QED BY <1>1 DEF Sorted

(* The separator and its neighbours in the parent. *)
LEMMA CutNeighbours ==
  ASSUME NEW V, NEW t, NEW g, NEW a, NEW i, NEW u, Splits(t, g, V, a, i, u),
         NEW p, p = t.node[a].parent, NEW s, s = t.node[a].key[Middle(t.node[a])],
         NEW K, K = t.node[p].key
  PROVE  /\ g.lo[a] = (IF i = 1 THEN g.lo[p] ELSE K[i - 1])
         /\ g.hi[a] = (IF i = Len(K) + 1 THEN g.hi[p] ELSE K[i])
         /\ \A j \in 1..Len(K) : (j < i => K[j] <= s) /\ (j >= i => s <= K[j])
         /\ Least(g.lo[p], s) /\ UpTo(g.hi[p], s)
<1>1. p \in DOMAIN t.node /\ ChildOK(t, g, p, i) /\ InnerOK(t, g, p) /\ NodeOK(t, g, p) BY CutPlaces
<1>2. t.node[p].child[i] = a /\ i \in 1..Len(t.node[p].child) /\ t \in Trees(V) /\ GhostOK(t, g)
  BY DEF Splits, Shape
<1>3. K \in Seq(Int) /\ Len(K) \in Nat /\ Sorted(K) /\ Len(t.node[p].child) = Len(K) + 1
      /\ \A j \in 1..Len(K) : Least(g.lo[p], K[j]) /\ UpTo(g.hi[p], K[j])
  BY <1>1, <1>2, NodeFields DEF NodeOK, KeysOK, InnerOK
<1>4. /\ g.lo[a] = (IF i = 1 THEN g.lo[p] ELSE K[i - 1])
      /\ g.hi[a] = (IF i = Len(K) + 1 THEN g.hi[p] ELSE K[i])
  BY <1>1, <1>2, <1>3 DEF ChildOK
<1>5. s \in Int /\ Least(g.lo[a], s) /\ UpTo(g.hi[a], s) BY CutMiddle
<1>6. g.lo[p] \in Bounds /\ g.hi[p] \in Bounds BY <1>1, <1>2 DEF GhostOK
<1>7. \A j \in 1..Len(K) : K[j] \in Int
  <2>1. K \in Seq(Int) BY <1>3
  <2>q. QED BY <2>1, SeqElements
<1>l. Len(K) \in Nat BY <1>3
<1>i. i \in 1..(Len(K) + 1) BY <1>2, <1>3
<1>8. ASSUME i # 1 PROVE i - 1 \in 1..Len(K) /\ K[i - 1] <= s /\ K[i - 1] \in Int
  <2>1. i - 1 \in 1..Len(K) BY <1>8, <1>3, <1>i
  <2>2. K[i - 1] \in Int /\ g.lo[a] = K[i - 1] BY <2>1, <1>7, <1>8, <1>4
  <2>3. K[i - 1] # NoBound BY <2>2, BoundCases
  <2>q. QED BY <2>1, <2>2, <2>3, <1>5 DEF Least
<1>9. ASSUME i # Len(K) + 1 PROVE i \in 1..Len(K) /\ s <= K[i] /\ K[i] \in Int
  <2>1. i \in 1..Len(K) BY <1>9, <1>l, <1>i, NotTheLast
  <2>2. K[i] \in Int /\ g.hi[a] = K[i] BY <2>1, <1>7, <1>9, <1>4
  <2>3. K[i] # NoBound BY <2>2, BoundCases
  <2>q. QED BY <2>1, <2>2, <2>3, <1>5 DEF UpTo
<1>10. ASSUME NEW j \in 1..Len(K), j < i PROVE K[j] <= s
  <2>1. i # 1 /\ j <= i - 1 BY <1>10, <1>i, <1>3
  <2>2. K[j] <= K[i - 1] BY <2>1, <1>8, <1>3 DEF Sorted
  <2>q. QED BY SMTT(30), <2>1, <2>2, <1>5, <1>7, <1>8
<1>11. ASSUME NEW j \in 1..Len(K), j >= i PROVE s <= K[j]
  <2>1. i # Len(K) + 1 BY <1>11, <1>i, <1>3
  <2>2. K[i] <= K[j] BY <2>1, <1>9, <1>11, <1>3 DEF Sorted
  <2>q. QED BY SMTT(30), <2>1, <2>2, <1>5, <1>7, <1>9
<1>12. Least(g.lo[p], s)
  <2>1. CASE i = 1 BY <2>1, <1>4, <1>5
  <2>2. CASE i # 1
    <3>1. Least(g.lo[p], K[i - 1]) BY <2>2, <1>8, <1>3
    <3>q. QED BY <3>1, <2>2, <1>8, <1>5, <1>6, BoundCases DEF Least
  <2>q. QED BY <2>1, <2>2
<1>13. UpTo(g.hi[p], s)
  <2>1. CASE i = Len(K) + 1 BY <2>1, <1>4, <1>5
  <2>2. CASE i # Len(K) + 1
    <3>1. UpTo(g.hi[p], K[i]) BY <2>2, <1>9, <1>3
    <3>q. QED BY <3>1, <2>2, <1>9, <1>5, <1>6, BoundCases DEF UpTo
  <2>q. QED BY <2>1, <2>2
<1>q. QED BY <1>4, <1>10, <1>11, <1>12, <1>13

(* The key behind its middle exceeds its low bound. *)
LEMMA CutParentRun ==
  ASSUME NEW V, NEW t, NEW g, NEW a, NEW i, NEW u, Splits(t, g, V, a, i, u),
         NEW p, p = t.node[a].parent, g.lo[p] # NoBound, Len(u.node[p].key) > Half
  PROVE  g.lo[p] < u.node[p].key[Half + 1]
<1> DEFINE K == t.node[p].key
           W == u.node[p].key
           c == t.node[a]
           s == c.key[Middle(c)]
           l == g.lo[p]
<1>1. p \in DOMAIN t.node /\ NodeOK(t, g, p) /\ InnerOK(t, g, p) BY CutPlaces
<1>2. i \in 1..(Len(t.node[p].key) + 1) BY SMTT(30), CutPlaces
<1>3. t \in Trees(V) /\ GhostOK(t, g) /\ a \in DOMAIN t.node /\ t.node[p].child[i] = a BY DEF Splits, Shape
<1>4. K \in Seq(Int) /\ Len(K) \in Nat /\ Sorted(K) /\ KeysOK(t.node[p], l, g.hi[p])
  BY <1>1, <1>3, NodeFields DEF NodeOK, KeysOK
<1>5. Grown(t, u, p, i, s, Len(t.node) + 1) BY CutParent
<1>6. Enlarged(W, K, i, s) BY <1>5 DEF Grown
<1>7. /\ g.lo[a] = (IF i = 1 THEN g.lo[p] ELSE t.node[p].key[i - 1])
      /\ g.hi[a] = (IF i = Len(t.node[p].key) + 1 THEN g.hi[p] ELSE t.node[p].key[i])
  BY CutNeighbours
<1>8. \A j \in 1..Len(K) : (j < i => K[j] <= s) /\ (j >= i => s <= K[j]) BY CutNeighbours
<1>9. s \in Int /\ Least(g.lo[a], s) /\ Over(g.lo[a], c.key[Half + 1]) /\ c.key[Half + 1] \in Int
      /\ UpTo(g.hi[a], s)
  BY CutMiddle
<1>10. g.lo[a] \in Bounds /\ g.hi[a] \in Bounds BY CutMiddle
<1>11. l \in Int BY <1>1, <1>3, BoundCases DEF GhostOK
<1>h. Half \in Nat /\ M \in Nat /\ Half >= 2 /\ M = 2 * Half BY MIs
<1>12. \A j \in 1..Len(K) : K[j] \in Int /\ l <= K[j]
  <2>1. K \in Seq(Int) BY <1>4
  <2>2. \A j \in 1..Len(K) : K[j] \in Int BY <2>1, SeqElements
  <2>3. \A j \in 1..Len(K) : Least(l, K[j]) BY <1>4 DEF KeysOK
  <2>4. l # NoBound BY <1>11, BoundCases
  <2>5. ASSUME NEW j \in 1..Len(K) PROVE K[j] \in Int /\ l <= K[j]
    <3>1. Least(l, K[j]) /\ K[j] \in Int BY <2>2, <2>3
    <3>q. QED BY <3>1, <2>4 DEF Least
  <2>q. QED BY <2>5
<1>13. g.lo[a] \in Int /\ l <= g.lo[a] /\ g.lo[a] # NoBound /\ g.lo[a] < c.key[Half + 1] /\ l < c.key[Half + 1]
  <2>1. g.lo[a] \in Int /\ l <= g.lo[a]
    <3>1. CASE i = 1 BY <3>1, <1>7, <1>11
    <3>2. CASE i # 1
      <4>1. i - 1 \in 1..Len(K) BY <3>2, <1>2, <1>4
      <4>q. QED BY <4>1, <3>2, <1>7, <1>12
    <3>q. QED BY <3>1, <3>2
  <2>2. g.lo[a] # NoBound BY <2>1, BoundCases
  <2>3. g.lo[a] < c.key[Half + 1] BY <2>2, <1>9 DEF Over
  <2> HIDE DEF l, c
  <2>q. QED BY <2>1, <2>2, <2>3, <1>9, <1>11
<1>14. UpTo(g.hi[a], c.key[Half + 1])
  <2>1. KeysOK(c, g.lo[a], g.hi[a]) /\ Len(c.key) = M BY CutPlaces, CutMiddle DEF NodeOK
  <2>2. Half + 1 \in 1..Len(c.key) BY <2>1, <1>h
  <2>q. QED BY <2>1, <2>2 DEF KeysOK
<1>15. Len(W) = Len(K) + 1 /\ Len(K) >= Half /\ Half + 1 \in 1..(Len(K) + 1)
  <2>1. Len(W) = Len(K) + 1 BY <1>6 DEF Enlarged
  <2>2. Len(W) > Half OBVIOUS
  <2>q. QED BY <2>1, <2>2, <1>4, <1>h
<1>16. /\ Half + 1 < i => Half + 1 \in 1..Len(K) /\ W[Half + 1] = K[Half + 1]
       /\ Half + 1 = i => W[Half + 1] = s
       /\ Half + 1 > i => Half \in 1..Len(K) /\ Half >= i /\ W[Half + 1] = K[Half]
  <2>1. Half + 1 - 1 = Half BY <1>h
  <2> HIDE DEF K, W, s
  <2>a. PICK j : j = Half + 1 OBVIOUS
  <2>b. AtPlace(W, K, i, s, j) BY <2>a, <1>2, <1>4, <1>6, <1>15, InsertedAt DEF K
  <2>2. /\ j < i => j \in 1..Len(K) /\ W[j] = K[j]
        /\ j = i => W[j] = s
        /\ j > i => j - 1 \in 1..Len(K) /\ j - 1 >= i /\ W[j] = K[j - 1]
    BY <2>b DEF AtPlace
  <2>3. j - 1 = Half BY <2>a, <1>h
  <2>q. QED BY <2>a, <2>2, <2>3
<1> HIDE DEF W
<1>17. CASE Half + 1 < i
  <2>1. Len(K) > Half BY <1>17, <1>2, <1>4, <1>h
  <2>2. l < K[Half + 1] BY <2>1, <1>4 DEF KeysOK
  <2>q. QED BY <2>2, <1>16, <1>17 DEF W
<1>18. CASE Half + 1 > i
  <2>1. i \in 1..Len(K) /\ Half \in 1..Len(K) /\ i <= Half
    <3>1. Half \in 1..Len(K) /\ Half >= i BY <1>16, <1>18
    <3>2. i \in Nat /\ i >= 1 /\ Len(K) \in Nat BY <1>2, <1>4
    <3>3. \A k, x \in Nat : x >= 1 /\ Half \in 1..k /\ Half >= x => x \in 1..k /\ x <= Half BY <1>h
    <3>q. QED BY <3>1, <3>2, <3>3
  <2>2. g.hi[a] = K[i] /\ K[i] \in Int
    <3>1. i # Len(K) + 1 BY <2>1, <1>4
    <3>q. QED BY <3>1, <2>1, <1>7, <1>12
  <2>3. K[i] # NoBound BY <2>2, BoundCases
  <2>4. c.key[Half + 1] <= K[i] BY <2>2, <2>3, <1>14 DEF UpTo
  <2>5. K[i] <= K[Half] /\ K[Half] \in Int BY <2>1, <1>4, <1>12 DEF Sorted
  <2>6. l < K[Half]
    <3> HIDE DEF l, c, K
    <3>q. QED BY <2>2, <2>4, <2>5, <1>9, <1>11, <1>13
  <2>q. QED BY <2>6, <1>16, <1>18 DEF W
<1>19. CASE Half + 1 = i
  <2>1. i # 1 /\ i - 1 = Half /\ Half \in 1..Len(K) BY <1>19, <1>h, <1>15
  <2>2. g.lo[a] = K[Half] /\ K[Half] \in Int /\ l <= K[Half] BY <2>1, <1>7, <1>12
  <2>3. K[Half] <= s BY <2>1, <1>8, <1>19, <1>h
  <2>4. CASE l < K[Half]
    <3>1. l < s
      <4> HIDE DEF l, s, K
      <4>q. QED BY <2>2, <2>3, <2>4, <1>9, <1>11
    <3>q. QED BY <3>1, <1>16, <1>19 DEF W
  <2>5. CASE ~(l < K[Half])
    <3>0. K[Half] = l
      <4> HIDE DEF l, K
      <4>q. QED BY <2>2, <2>5, <1>11
    <3>1. CASE ~c.isLeaf
      <4>1. Over(g.lo[a], s) BY <3>1, CutMiddle
      <4>2. l < s BY <4>1, <3>0, <2>2, <1>13 DEF Over
      <4>q. QED BY <4>2, <1>16, <1>19 DEF W
    <3>2. CASE c.isLeaf
      <4>1. g.lev[a] = 0 BY <3>2, CutMiddle
      <4>2. g.lev[p] = 1
        <5>1. g.lev[p] = g.lev[a] + 1 BY CutPlaces
        <5>q. QED BY <5>1, <4>1
      <4>3. Len(c.key) = M BY CutMiddle
      <4>4. g.hi[a] # l
        <5>1. CASE g.hi[a] = NoBound BY <5>1, <1>11, BoundCases
        <5>2. CASE g.hi[a] # NoBound
          <6>1. c.key[Half + 1] <= g.hi[a] BY <5>2, <1>14 DEF UpTo
          <6> HIDE DEF l, c
          <6>q. QED BY <6>1, <1>9, <1>11, <1>13
        <5>q. QED BY <5>1, <5>2
      <4>5. RunOK(t, g, p) /\ Len(t.node[p].child) = Len(K) + 1 BY <1>1 DEF InnerOK
      <4>6. i \in 1..Len(t.node[p].child) BY <4>5, <1>2
      <4>7. Len(t.node[a].key) >= Half BY <4>3, <1>h
      <4>8. g.lo[p] < t.node[a].key[Half]
        <5>1. g.lev[p] = 1 /\ g.lo[p] # NoBound /\ Len(t.node[p].key) >= Half /\ t.node[p].key[Half] = g.lo[p]
          BY <4>2, <3>0, <1>15
        <5>2. g.lo[a] = g.lo[p] BY <2>2, <3>0
        <5>q. QED BY <5>1, <5>2, <4>4, <4>5, <4>6, <4>7, <1>3 DEF RunOK
      <4>9. Middle(c) = Half BY <3>2 DEF Middle
      <4>10. l < s BY <4>8, <4>9
      <4>q. QED BY <4>10, <1>16, <1>19 DEF W
    <3>q. QED BY <3>1, <3>2
  <2>q. QED BY <2>4, <2>5
<1>q. QED BY <1>17, <1>18, <1>19, <1>2, <1>h DEF W

LEMMA CutKeysOK ==
  ASSUME NEW V, NEW t, NEW g, NEW a, NEW i, NEW u, Splits(t, g, V, a, i, u), NEW b \in DOMAIN u.node,
         NEW h, h = GhostCut(t, g, a)
  PROVE  KeysOK(u.node[b], h.lo[b], h.hi[b])
<1> DEFINE p == t.node[a].parent
           n == Len(t.node) + 1
           c == t.node[a]
           m == Middle(c)
           s == c.key[m]
<1>1. /\ n \in Nat /\ n \notin DOMAIN t.node /\ DOMAIN u.node = DOMAIN t.node \cup {n}
      /\ p \in DOMAIN t.node /\ p # a /\ a \in DOMAIN t.node
  BY CutPlaces
<1>h. Half \in Nat /\ M \in Nat /\ Half >= 2 /\ M = 2 * Half BY MIs
<1>m. m \in 1..(M - 1) /\ m >= Half
  <2>1. m = (IF c.isLeaf THEN Half ELSE Half + 1) BY DEF Middle
  <2>q. QED BY <2>1, <1>h
<1>2. KeysOK(c, g.lo[a], g.hi[a]) BY CutPlaces DEF NodeOK
<1>3. c.key \in Seq(Int) /\ Len(c.key) = M BY CutMiddle
<1>4. s \in Int BY CutMiddle
<1>5. Sorted(c.key) /\ \A j \in 1..M : c.key[j] \in Int /\ Least(g.lo[a], c.key[j]) /\ UpTo(g.hi[a], c.key[j])
  BY <1>2, <1>3 DEF KeysOK
<1>6. s # NoBound BY <1>4, BoundCases
<1>7. CASE b = a
  <2>1. h.lo[a] = g.lo[a] /\ h.hi[a] = s BY <1>1, CutGhost
  <2>2. Len(u.node[a].key) = Half BY CutKeys
  <2>3. \A j \in 1..Half : u.node[a].key[j] = c.key[j] BY CutKeys
  <2>j. \A j \in 1..Half : j \in 1..M /\ j <= m /\ m \in 1..M BY <1>h, <1>m
  <2> HIDE DEF s, m
  <2>4. Sorted(u.node[a].key) BY <2>2, <2>3, <2>j, <1>3, <1>5 DEF Sorted
  <2>5. \A j \in 1..Half : Least(g.lo[a], u.node[a].key[j]) BY <2>3, <2>j, <1>5
  <2>6. \A j \in 1..Half : UpTo(s, u.node[a].key[j])
    <3>1. \A j \in 1..Half : c.key[j] <= s BY <2>j, <1>3, <1>5 DEF Sorted, s
    <3>q. QED BY <3>1, <2>3 DEF UpTo
  <2>7. ~(Len(u.node[a].key) > Half) BY <2>2, <1>h
  <2>q. QED BY <2>1, <2>2, <2>4, <2>5, <2>6, <2>7, <1>7 DEF KeysOK
<1>8. CASE b = n
  <2>1. h.lo[n] = s /\ h.hi[n] = g.hi[a] BY CutGhost
  <2>2. Len(u.node[n].key) = M - m BY CutKeys
  <2>3. \A j \in 1..(M - m) : u.node[n].key[j] = c.key[m + j] BY CutKeys
  <2>j. \A j \in 1..(M - m) : m + j \in 1..M /\ m <= m + j /\ m \in 1..M BY <1>h, <1>m
  <2>k. \A j, k \in 1..(M - m) : j <= k => m + j <= m + k BY <1>h, <1>m
  <2>4. ~(Len(u.node[n].key) > Half) BY <2>2, <1>h, <1>m
  <2> HIDE DEF s, m, n
  <2>5. Sorted(u.node[n].key) BY <2>2, <2>3, <2>j, <2>k, <1>3, <1>5 DEF Sorted
  <2>6. \A j \in 1..(M - m) : UpTo(g.hi[a], u.node[n].key[j]) BY <2>3, <2>j, <1>5
  <2>7. \A j \in 1..(M - m) : Least(s, u.node[n].key[j])
    <3>1. \A j \in 1..(M - m) : s <= c.key[m + j] BY <2>j, <1>3, <1>5 DEF Sorted, s
    <3>q. QED BY <3>1, <2>3 DEF Least
  <2>q. QED BY <2>1, <2>2, <2>4, <2>5, <2>6, <2>7, <1>8 DEF KeysOK
<1>9. CASE b = p
  <2>1. h.lo[p] = g.lo[p] /\ h.hi[p] = g.hi[p] BY <1>1, CutGhost
  <2>2. Grown(t, u, p, i, s, n) BY CutParent
  <2>3. u.node[p].key \in Seq(Int) /\ Enlarged(u.node[p].key, t.node[p].key, i, s) BY <2>2 DEF Grown
  <2> DEFINE K == t.node[p].key
             W == u.node[p].key
  <2>4. i \in 1..(Len(K) + 1) BY SMTT(30), CutPlaces
  <2>5. K \in Seq(Int) /\ Len(K) \in Nat BY CutPlaces
  <2>6. KeysOK(t.node[p], g.lo[p], g.hi[p]) BY CutPlaces DEF NodeOK
  <2>7. \A j \in 1..Len(K) : (j < i => K[j] <= s) /\ (j >= i => s <= K[j]) BY CutNeighbours
  <2>8. Least(g.lo[p], s) /\ UpTo(g.hi[p], s) BY CutNeighbours
  <2>9. Sorted(W)
    <3>1. Sorted(K) BY <2>6 DEF KeysOK
    <3> HIDE DEF K, W, s
    <3>q. QED BY <3>1, <2>3, <2>4, <2>5, <2>7, <1>4, SortedInserted DEF K, W
  <2>10. \A j \in 1..Len(W) : Least(g.lo[p], W[j]) /\ UpTo(g.hi[p], W[j])
    <3>1. Len(W) = Len(K) + 1 BY <2>3 DEF Enlarged
    <3>2. \A j \in 1..Len(K) : Least(g.lo[p], K[j]) /\ UpTo(g.hi[p], K[j]) BY <2>6 DEF KeysOK
    <3> SUFFICES ASSUME NEW j \in 1..Len(W) PROVE Least(g.lo[p], W[j]) /\ UpTo(g.hi[p], W[j]) OBVIOUS
    <3>3. j \in 1..(Len(K) + 1) BY <3>1
    <3>4. Enlarged(W, K, i, s) BY <2>3
    <3> HIDE DEF K, W, s
    <3>a. AtPlace(W, K, i, s, j) BY <3>3, <3>4, <2>4, <2>5, InsertedAt
    <3>5. /\ j < i => j \in 1..Len(K) /\ W[j] = K[j]
          /\ j = i => W[j] = s
          /\ j > i => j - 1 \in 1..Len(K) /\ j - 1 >= i /\ W[j] = K[j - 1]
      BY <3>a DEF AtPlace
    <3>6. j < i \/ j = i \/ j > i BY <3>3, <2>4, <2>5
    <3>q. QED BY <3>2, <3>5, <3>6, <2>8
  <2>11. g.lo[p] # NoBound /\ Len(W) > Half => g.lo[p] < W[Half + 1] BY CutParentRun
  <2>q. QED BY <2>1, <2>9, <2>10, <2>11, <1>9 DEF KeysOK
<1>10. CASE b # a /\ b # n /\ b # p
  <2>1. b \in DOMAIN t.node BY <1>1, <1>10
  <2>2. Kept(t, u, a, b) BY <2>1, CutOther
  <2>3. u.node[b].key = t.node[b].key BY <2>2, <1>10 DEF Kept
  <2>4. h.lo[b] = g.lo[b] /\ h.hi[b] = g.hi[b] BY <2>1, <1>10, CutGhost
  <2>5. KeysOK(t.node[b], g.lo[b], g.hi[b]) BY <2>1 DEF Splits, Shape, NodeOK
  <2>q. QED BY <2>3, <2>4, <2>5 DEF KeysOK
<1>q. QED BY <1>7, <1>8, <1>9, <1>10

(* The children of the parent. *)
LEMMA InsertedOnce ==
  ASSUME NEW r, NEW s, NEW i, NEW e, Len(s) \in Nat, i \in 1..(Len(s) + 1), Enlarged(r, s, i, e),
         \A j, k \in 1..Len(s) : s[j] = s[k] => j = k, \A j \in 1..Len(s) : s[j] # e
  PROVE  \A j, k \in 1..Len(r) : r[j] = r[k] => j = k
<1>1. SUFFICES ASSUME NEW j \in 1..Len(r), NEW k \in 1..Len(r), r[j] = r[k] PROVE j = k OBVIOUS
<1>2. Len(r) = Len(s) + 1 BY DEF Enlarged
<1>3. j \in 1..(Len(s) + 1) /\ k \in 1..(Len(s) + 1) BY <1>2
<1>4. AtPlace(r, s, i, e, j) /\ AtPlace(r, s, i, e, k) BY <1>3, InsertedAt
<1>5. CASE j < i
  <2>1. j \in 1..Len(s) /\ r[j] = s[j] BY <1>4, <1>5 DEF AtPlace
  <2>2. CASE k < i BY <2>1, <2>2, <1>1, <1>4 DEF AtPlace
  <2>3. CASE k = i BY <2>1, <2>3, <1>1, <1>4 DEF AtPlace
  <2>4. CASE k > i
    <3>1. k - 1 \in 1..Len(s) /\ k - 1 >= i /\ r[k] = s[k - 1] BY <2>4, <1>4 DEF AtPlace
    <3>2. j = k - 1 BY <2>1, <3>1, <1>1
    <3>q. QED BY <3>1, <3>2, <1>5, <1>3
  <2>q. QED BY <2>2, <2>3, <2>4, <1>3
<1>6. CASE j = i
  <2>1. r[j] = e BY <1>4, <1>6 DEF AtPlace
  <2>2. CASE k < i BY <2>1, <2>2, <1>1, <1>4 DEF AtPlace
  <2>3. CASE k > i BY <2>1, <2>3, <1>1, <1>4 DEF AtPlace
  <2>q. QED BY <2>2, <2>3, <1>3, <1>6
<1>7. CASE j > i
  <2>1. j - 1 \in 1..Len(s) /\ j - 1 >= i /\ r[j] = s[j - 1] BY <1>4, <1>7 DEF AtPlace
  <2>2. CASE k < i
    <3>1. k \in 1..Len(s) /\ r[k] = s[k] BY <2>2, <1>4 DEF AtPlace
    <3>2. k = j - 1 BY <2>1, <3>1, <1>1
    <3>q. QED BY <2>1, <3>2, <2>2, <1>3
  <2>3. CASE k = i BY <2>1, <2>3, <1>1, <1>4 DEF AtPlace
  <2>4. CASE k > i
    <3>1. k - 1 \in 1..Len(s) /\ r[k] = s[k - 1] BY <2>4, <1>4 DEF AtPlace
    <3>2. k - 1 = j - 1 BY <2>1, <3>1, <1>1
    <3>q. QED BY <3>2, <1>3
  <2>q. QED BY <2>2, <2>3, <2>4, <1>3
<1>q. QED BY <1>5, <1>6, <1>7, <1>3

(* A child of another node than a and its parent keeps its place. *)
Stays(t, g, u, h, q, b) ==
    /\ b \in DOMAIN t.node /\ b \in DOMAIN u.node /\ b # u.root /\ u.node[b].parent = q
    /\ h.lev[b] + 1 = h.lev[q] /\ h.lo[b] = g.lo[b] /\ h.hi[b] = g.hi[b]

LEMMA CutChildKept ==
  ASSUME NEW V, NEW t, NEW g, NEW a, NEW i, NEW u, Splits(t, g, V, a, i, u),
         NEW h, h = GhostCut(t, g, a), NEW q \in DOMAIN t.node, NEW j, ChildOK(t, g, q, j),
         NEW b, b = t.node[q].child[j], b # a, b \notin Range(u.node[Len(t.node) + 1].child)
  PROVE  Stays(t, g, u, h, q, b)
<1> DEFINE n == Len(t.node) + 1
<1>1. b \in DOMAIN t.node /\ b # t.root /\ t.node[b].parent = q /\ g.lev[b] + 1 = g.lev[q] BY DEF ChildOK
<1>2. u.root = t.root BY DEF Splits, Cut
<1>3. b \in DOMAIN u.node
  <2>1. DOMAIN u.node = DOMAIN t.node \cup {n} BY CutPlaces
  <2>q. QED BY <2>1, <1>1
<1>4. u.node[b].parent = q BY <1>1, CutOther
<1>5. h.lev[b] = g.lev[b] /\ h.lo[b] = g.lo[b] /\ h.hi[b] = g.hi[b] BY <1>1, CutGhost
<1>6. h.lev[q] = g.lev[q] BY CutGhost
<1>q. QED BY <1>1, <1>2, <1>3, <1>4, <1>5, <1>6 DEF Stays

LEMMA CutParentChild ==
  ASSUME NEW V, NEW t, NEW g, NEW a, NEW i, NEW u, Splits(t, g, V, a, i, u),
         NEW h, h = GhostCut(t, g, a), NEW p, p = t.node[a].parent, NEW j \in 1..Len(u.node[p].child)
  PROVE  ChildOK(u, h, p, j)
<1> DEFINE K == t.node[p].key
           C == t.node[p].child
           W == u.node[p].key
           X == u.node[p].child
           n == Len(t.node) + 1
           c == t.node[a]
           s == c.key[Middle(c)]
           b == X[j]
<1>1. /\ n \in Nat /\ n \notin DOMAIN t.node /\ DOMAIN u.node = DOMAIN t.node \cup {n}
      /\ p \in DOMAIN t.node /\ p # a /\ a \in DOMAIN t.node /\ InnerOK(t, g, p)
  BY CutPlaces
<1>2. i \in 1..(Len(K) + 1) /\ Len(C) = Len(K) + 1
  <2>1. i \in 1..(Len(t.node[p].key) + 1) BY SMTT(30), CutPlaces
  <2>q. QED BY <2>1, <1>1 DEF InnerOK
<1>3. Len(K) \in Nat BY CutPlaces
<1>4. Grown(t, u, p, i, s, n) BY CutParent
<1>5. Enlarged(W, K, i, s) /\ Enlarged(X, C, i + 1, n) /\ Len(W) = Len(K) + 1 /\ Len(X) = Len(K) + 2
  <2>1. Enlarged(W, K, i, s) /\ Enlarged(X, C, i + 1, n) /\ Len(X) = Len(W) + 1 BY <1>4 DEF Grown
  <2>2. Len(W) = Len(K) + 1 BY <2>1 DEF Enlarged
  <2>3. Len(X) = (Len(K) + 1) + 1 BY <2>1, <2>2
  <2>4. \A k \in Nat : (k + 1) + 1 = k + 2 OBVIOUS
  <2>5. Len(X) = Len(K) + 2 BY <2>3, <2>4, <1>3
  <2>q. QED BY <2>1, <2>2, <2>5
<1>6. /\ g.lo[a] = (IF i = 1 THEN g.lo[p] ELSE t.node[p].key[i - 1])
      /\ g.hi[a] = (IF i = Len(t.node[p].key) + 1 THEN g.hi[p] ELSE t.node[p].key[i])
  BY CutNeighbours
<1>7. /\ C[i] = a /\ u.root = t.root /\ t.root \in DOMAIN t.node /\ a # t.root BY DEF Splits, Cut, Shape, RootOK
<1>8. \A k, l \in 1..Len(C) : C[k] = C[l] => k = l BY <1>1 DEF InnerOK
<1>9. h.lo[n] = s /\ h.hi[n] = g.hi[a] /\ h.hi[a] = s /\ h.lev[n] = g.lev[a] BY CutGhost
<1>10. h.lo[p] = g.lo[p] /\ h.hi[p] = g.hi[p] /\ h.lo[a] = g.lo[a] /\ h.lev[a] = g.lev[a] /\ h.lev[p] = g.lev[p]
  BY <1>1, CutGhost
<1>11. g.lev[a] + 1 = g.lev[p]
  <2>1. g.lev[p] = g.lev[a] + 1 BY CutPlaces
  <2>q. QED BY <2>1
<1>12. ASSUME NEW k \in 1..Len(C), k # i
       PROVE  /\ C[k] \in DOMAIN u.node /\ C[k] # u.root /\ u.node[C[k]].parent = p
              /\ h.lev[C[k]] + 1 = h.lev[p]
              /\ h.lo[C[k]] = (IF k = 1 THEN g.lo[p] ELSE K[k - 1])
              /\ h.hi[C[k]] = (IF k = Len(C) THEN g.hi[p] ELSE K[k])
  <2>0. PICK d : d = C[k] OBVIOUS
  <2>1. ChildOK(t, g, p, k) BY <1>1, <1>12 DEF InnerOK
  <2>2. d # a BY <2>0, <1>7, <1>8, <1>12, <1>2
  <2>3. d \notin Range(u.node[n].child)
    <3>1. d \in DOMAIN t.node /\ t.node[d].parent = p BY <2>0, <2>1 DEF ChildOK
    <3>2. d \in Range(u.node[n].child) => t.node[d].parent = a BY <3>1, CutOther
    <3>q. QED BY <3>1, <3>2, <1>1
  <2>4. /\ d \in DOMAIN u.node /\ d # u.root /\ u.node[d].parent = p
        /\ h.lev[d] + 1 = h.lev[p] /\ h.lo[d] = g.lo[d] /\ h.hi[d] = g.hi[d]
    <3>1. Stays(t, g, u, h, p, d) BY <1>1, <2>0, <2>1, <2>2, <2>3, CutChildKept
    <3>q. QED BY <3>1 DEF Stays
  <2>5. /\ g.lo[d] = (IF k = 1 THEN g.lo[p] ELSE K[k - 1])
        /\ g.hi[d] = (IF k = Len(C) THEN g.hi[p] ELSE K[k])
    BY <2>0, <2>1 DEF ChildOK
  <2>q. QED BY <2>0, <2>4, <2>5
<1>13. \A k \in 1..Len(K) : (k < i => W[k] = K[k]) /\ (k >= i => W[k + 1] = K[k]) BY <1>5 DEF Enlarged
<1>14. W[i] = s BY <1>5 DEF Enlarged
<1>15. j \in 1..(Len(K) + 2) BY <1>5
<1>16. AtPlace(X, C, i + 1, n, j)
  <2>1. PICK q : q = i + 1 OBVIOUS
  <2> HIDE DEF X, C, n, K
  <2>2. Len(C) \in Nat /\ q \in 1..(Len(C) + 1) /\ j \in 1..(Len(C) + 1) BY <2>1, <1>2, <1>3, <1>15
  <2>3. Enlarged(X, C, q, n) BY <2>1, <1>5
  <2>q. QED BY <2>1, <2>2, <2>3, InsertedAt
<1>17. CASE j < i
  <2>1. j \in 1..Len(C) /\ b = C[j] /\ j # i
    <3>1. j < i + 1 BY <1>17, <1>2, <1>15
    <3>q. QED BY <3>1, <1>16, <1>17, <1>2 DEF AtPlace
  <2>2. j # Len(C) /\ j # Len(X) /\ W[j] = K[j]
    <3> HIDE DEF X, W, K, C
    <3>1. j \in 1..Len(K) BY <1>17, <1>2, <1>3, <1>15
    <3>q. QED BY <3>1, <1>17, <1>2, <1>3, <1>5, <1>13
  <2>3. j # 1 => W[j - 1] = K[j - 1]
    <3>1. j # 1 => j - 1 \in 1..Len(K) /\ j - 1 < i BY <1>17, <1>2, <1>3, <1>15
    <3>q. QED BY <3>1, <1>13
  <2> HIDE DEF b, X, W, K, C
  <2>4. /\ b \in DOMAIN u.node /\ b # u.root /\ u.node[b].parent = p
        /\ h.lev[b] + 1 = h.lev[p]
        /\ h.lo[b] = (IF j = 1 THEN g.lo[p] ELSE K[j - 1])
        /\ h.hi[b] = (IF j = Len(C) THEN g.hi[p] ELSE K[j])
    BY <2>1, <1>12
  <2>5. h.lo[b] = (IF j = 1 THEN h.lo[p] ELSE W[j - 1]) BY <2>3, <2>4, <1>10
  <2>6. h.hi[b] = (IF j = Len(X) THEN h.hi[p] ELSE W[j]) BY <2>2, <2>4
  <2>q. QED BY <2>4, <2>5, <2>6 DEF ChildOK, b, X, W
<1>18. CASE j = i
  <2>1. b = a
    <3>1. j < i + 1 BY <1>18, <1>2
    <3>q. QED BY <3>1, <1>16, <1>18, <1>7 DEF AtPlace
  <2>2. u.node[a].parent = p BY CutFields
  <2>3. i # Len(X)
    <3>1. \A k \in Nat : \A x \in 1..(k + 1) : x # k + 2 OBVIOUS
    <3>2. i # Len(K) + 2 BY <3>1, <1>2, <1>3
    <3>q. QED BY <3>2, <1>5
  <2>4. i # 1 => W[i - 1] = K[i - 1]
    <3>1. i # 1 => i - 1 \in 1..Len(K) /\ i - 1 < i BY <1>2, <1>3
    <3>q. QED BY <3>1, <1>13
  <2>5. a \in DOMAIN u.node BY <1>1
  <2>6. h.lo[a] = (IF i = 1 THEN h.lo[p] ELSE W[i - 1]) BY <2>4, <1>6, <1>10
  <2>7. h.hi[a] = W[i] BY <1>9, <1>14
  <2>8. h.lev[a] + 1 = h.lev[p] BY <1>10, <1>11
  <2> HIDE DEF b, X, W, K, C, s
  <2>q. QED BY <2>1, <2>2, <2>3, <2>5, <2>6, <2>7, <2>8, <1>7, <1>18 DEF ChildOK, b, X, W
<1>19. CASE j = i + 1
  <2>1. b = n BY <1>16, <1>19 DEF AtPlace
  <2>2. u.node[n].parent = p BY CutFields
  <2>3. n # u.root /\ n \in DOMAIN u.node BY <1>1, <1>7
  <2>4. j # 1 /\ j - 1 = i BY <1>19, <1>2
  <2>5. h.lo[n] = W[j - 1] BY <2>4, <1>9, <1>14
  <2>6. h.hi[n] = (IF j = Len(X) THEN h.hi[p] ELSE W[j])
    <3>1. CASE i = Len(K) + 1
      <4>1. j = Len(X)
        <5>1. \A k \in Nat : \A x : x = k + 2 => (k + 1) + 1 = x OBVIOUS
        <5>2. (Len(K) + 1) + 1 = Len(X) BY <5>1, <1>3, <1>5
        <5>3. j = (Len(K) + 1) + 1 BY <3>1, <1>19
        <5>q. QED BY <5>2, <5>3
      <4>q. QED BY <4>1, <3>1, <1>6, <1>9, <1>10
    <3>2. CASE i # Len(K) + 1
      <4> HIDE DEF X, W, K, C
      <4>1. i \in 1..Len(K) /\ j # Len(X) BY <3>2, <1>19, <1>2, <1>3, <1>5
      <4>2. W[j] = K[i] BY <4>1, <1>13, <1>19
      <4>3. h.hi[n] = K[i] BY <3>2, <1>6, <1>9 DEF K
      <4>q. QED BY <4>1, <4>2, <4>3
    <3>q. QED BY <3>1, <3>2
  <2>7. h.lev[n] + 1 = h.lev[p] BY <1>9, <1>10, <1>11
  <2> HIDE DEF b, X, W, K, C, s, n
  <2>q. QED BY <2>1, <2>2, <2>3, <2>4, <2>5, <2>6, <2>7 DEF ChildOK, b, X, W
<1>20. CASE j > i + 1
  <2>1. j - 1 \in 1..Len(C) /\ b = C[j - 1] /\ j - 1 >= i + 1 BY <1>16, <1>20 DEF AtPlace
  <2>2. j - 1 # i /\ j - 1 # 1 /\ j # 1 BY <2>1, <1>2
  <2>3. W[j - 1] = K[j - 2]
    <3>1. j - 2 \in 1..Len(K) /\ j - 2 >= i /\ (j - 2) + 1 = j - 1 BY <1>20, <1>2, <1>3, <1>15
    <3>2. W[(j - 2) + 1] = K[j - 2] BY <3>1, <1>13
    <3>q. QED BY <3>1, <3>2
  <2>4. (j - 1) - 1 = j - 2 BY <1>15, <1>3
  <2>5. /\ b \in DOMAIN u.node /\ b # u.root /\ u.node[b].parent = p
        /\ h.lev[b] + 1 = h.lev[p]
        /\ h.lo[b] = W[j - 1]
        /\ h.hi[b] = (IF j - 1 = Len(C) THEN g.hi[p] ELSE K[j - 1])
    <3> HIDE DEF b, X, W, K, C
    <3>1. PICK k : k = j - 1 OBVIOUS
    <3>2. k \in 1..Len(C) /\ k # i /\ b = C[k] /\ k # 1 /\ W[k] = K[k - 1] BY <3>1, <2>1, <2>2, <2>3, <2>4
    <3>3. /\ b \in DOMAIN u.node /\ b # u.root /\ u.node[b].parent = p
          /\ h.lev[b] + 1 = h.lev[p]
          /\ h.lo[b] = W[k]
          /\ h.hi[b] = (IF k = Len(C) THEN g.hi[p] ELSE K[k])
      BY <3>2, <1>12
    <3>q. QED BY <3>1, <3>3
  <2>6. h.hi[b] = (IF j = Len(X) THEN h.hi[p] ELSE W[j])
    <3>1. CASE j = Len(X)
      <4>1. j - 1 = Len(C)
        <5>1. \A k \in Nat : (k + 2) - 1 = k + 1 OBVIOUS
        <5>2. j = Len(K) + 2 BY <3>1, <1>5
        <5>3. (Len(K) + 2) - 1 = Len(K) + 1 BY <5>1, <1>3
        <5>q. QED BY <5>2, <5>3, <1>2
      <4>q. QED BY <4>1, <3>1, <2>5, <1>10
    <3>2. CASE j # Len(X)
      <4> HIDE DEF X, W, K, C, b
      <4>1. j - 1 \in 1..Len(K) /\ j - 1 # Len(C) /\ j - 1 >= i /\ (j - 1) + 1 = j BY <3>2, <1>20, <1>2, <1>3, <1>5, <1>15
      <4>2. W[(j - 1) + 1] = K[j - 1] BY <4>1, <1>13
      <4>3. W[j] = K[j - 1] BY <4>1, <4>2
      <4>q. QED BY <4>1, <4>3, <3>2, <2>5
    <3>q. QED BY <3>1, <3>2
  <2> HIDE DEF b, X, W, K, C
  <2>q. QED BY <2>2, <2>5, <2>6 DEF ChildOK, b, X, W
<1>q. QED BY <1>17, <1>18, <1>19, <1>20, <1>2, <1>15, <1>3

(* Equal keys never fill both sides of the parent's middle. *)
LEMMA CutParentRunOK ==
  ASSUME NEW V, NEW t, NEW g, NEW a, NEW i, NEW u, Splits(t, g, V, a, i, u),
         NEW h, h = GhostCut(t, g, a), NEW p, p = t.node[a].parent
  PROVE  RunOK(u, h, p)
<1> DEFINE K == t.node[p].key
           C == t.node[p].child
           W == u.node[p].key
           X == u.node[p].child
           n == Len(t.node) + 1
           c == t.node[a]
           m == Middle(c)
           s == c.key[m]
           l == g.lo[p]
<1>1. /\ n \in Nat /\ n \notin DOMAIN t.node /\ DOMAIN u.node = DOMAIN t.node \cup {n}
      /\ p \in DOMAIN t.node /\ p # a /\ a \in DOMAIN t.node /\ InnerOK(t, g, p) /\ NodeOK(t, g, p)
  BY CutPlaces
<1>2. i \in 1..(Len(K) + 1) /\ Len(C) = Len(K) + 1
  <2>1. i \in 1..(Len(t.node[p].key) + 1) BY CutPlaces
  <2>q. QED BY <2>1, <1>1 DEF InnerOK
<1>3. Len(K) \in Nat /\ K \in Seq(Int) BY CutPlaces
<1>10. h.lo[p] = l /\ h.lev[p] = g.lev[p] /\ h.lo[a] = g.lo[a] BY <1>1, CutGhost
<1>9. h.lo[n] = s /\ h.hi[a] = s BY CutGhost
<1>g. \A d \in DOMAIN t.node : h.lev[d] = g.lev[d] /\ h.lo[d] = g.lo[d] /\ (d # a => h.hi[d] = g.hi[d]) BY CutGhost
<1>4. Grown(t, u, p, i, s, n) BY CutParent
<1>5. Enlarged(W, K, i, s) /\ Enlarged(X, C, i + 1, n) BY <1>4 DEF Grown
<1>6. /\ g.lo[a] = (IF i = 1 THEN g.lo[p] ELSE t.node[p].key[i - 1])
      /\ g.hi[a] = (IF i = Len(t.node[p].key) + 1 THEN g.hi[p] ELSE t.node[p].key[i])
  BY CutNeighbours
<1>7. C[i] = a /\ t \in Trees(V) /\ GhostOK(t, g) BY DEF Splits, Shape
<1>8. \A k, o \in 1..Len(C) : C[k] = C[o] => k = o BY <1>1 DEF InnerOK
<1>h. Half \in Nat /\ M \in Nat /\ Half >= 2 /\ M = 2 * Half BY MIs
<1>15. KeysOK(t.node[p], g.lo[p], g.hi[p]) /\ Sorted(K) BY <1>1 DEF NodeOK, KeysOK
<1>17. s \in Int /\ Least(g.lo[a], s) /\ Over(g.lo[a], c.key[Half + 1]) /\ c.key[Half + 1] \in Int BY CutMiddle
<1>18. c.key \in Seq(Int) /\ Len(c.key) = M BY CutMiddle
<1>19. KeysOK(c, g.lo[a], g.hi[a]) BY CutPlaces DEF NodeOK
<1>20. UpTo(g.hi[a], c.key[Half + 1])
  <2>1. Half + 1 \in 1..Len(c.key) BY <1>18, <1>h
  <2>q. QED BY <2>1, <1>19 DEF KeysOK
<1>z. SUFFICES ASSUME g.lev[p] = 1, l # NoBound, Len(W) >= Half, W[Half] = l,
                    NEW j \in 1..Len(X), h.lo[X[j]] = l, h.hi[X[j]] # l, Len(u.node[X[j]].key) >= Half
             PROVE  l < u.node[X[j]].key[Half]
  BY <1>10 DEF RunOK
<1>11. g.lev[a] = 0
  <2>1. g.lev[p] = g.lev[a] + 1 /\ g.lev[a] \in Nat BY CutPlaces
  <2>2. \A k \in Nat : 1 = k + 1 => k = 0 OBVIOUS
  <2>3. 1 = g.lev[a] + 1 BY <2>1, <1>z
  <2>q. QED BY <2>1, <2>2, <2>3
<1>12. c.isLeaf
  <2>1. c.isLeaf <=> g.lev[a] = 0 BY CutMiddle
  <2>q. QED BY <2>1, <1>11
<1>13. m = Half BY <1>12 DEF Middle
<1>14. l \in Int BY <1>z, <1>1, <1>7, BoundCases DEF GhostOK
<1>16. \A k \in 1..Len(K) : K[k] \in Int /\ l <= K[k]
  <2>1. K \in Seq(Int) BY <1>3
  <2>2. \A k \in 1..Len(K) : K[k] \in Int BY <2>1, SeqElements
  <2>3. \A k \in 1..Len(K) : Least(l, K[k]) BY <1>15 DEF KeysOK
  <2>4. l # NoBound BY <1>14, BoundCases
  <2>5. ASSUME NEW k \in 1..Len(K) PROVE K[k] \in Int /\ l <= K[k]
    <3>1. Least(l, K[k]) /\ K[k] \in Int BY <2>2, <2>3
    <3>q. QED BY <3>1, <2>4 DEF Least
  <2>q. QED BY <2>5
<1>21. g.lo[a] \in Int /\ l <= g.lo[a] /\ g.lo[a] < c.key[Half + 1] /\ g.lo[a] <= s
  <2>1. g.lo[a] \in Int /\ l <= g.lo[a]
    <3>1. CASE i = 1 BY <3>1, <1>6, <1>14
    <3>2. CASE i # 1
      <4> HIDE DEF K, C
      <4>1. i - 1 \in 1..Len(K) BY <3>2, <1>2, <1>3
      <4>q. QED BY <4>1, <3>2, <1>6, <1>16 DEF K
    <3>q. QED BY <3>1, <3>2
  <2>2. g.lo[a] # NoBound BY <2>1, BoundCases
  <2>q. QED BY <2>1, <2>2, <1>17 DEF Over, Least
<1>22. l < c.key[Half + 1]
  <2> HIDE DEF l, c
  <2>q. QED BY <1>14, <1>17, <1>21
<1>23. g.hi[a] # NoBound => c.key[Half + 1] <= g.hi[a] BY <1>20 DEF UpTo
<1>24. g.hi[a] # l
  <2>1. CASE g.hi[a] = NoBound BY <2>1, <1>z
  <2>2. CASE g.hi[a] # NoBound
    <3> HIDE DEF l, c
    <3>q. QED BY <2>2, <1>14, <1>17, <1>22, <1>23
  <2>q. QED BY <2>1, <2>2
<1>25. Len(W) = Len(K) + 1 BY <1>5 DEF Enlarged
<1>26. Half \in 1..(Len(K) + 1)
  <2>1. Half <= Len(K) + 1 /\ Len(K) + 1 \in Nat
    <3>1. Len(K) \in Nat BY <1>3
    <3>2. \A k \in Nat : k + 1 \in Nat OBVIOUS
    <3>3. Len(K) + 1 \in Nat BY <3>1, <3>2
    <3>4. Half <= Len(W)
      <4>1. Len(W) >= Half BY <1>z
      <4>2. \A x : x >= Half => Half <= x OBVIOUS
      <4>q. QED BY <4>1, <4>2
    <3>q. QED BY <3>3, <3>4, <1>25
  <2>2. \A k \in Nat : Half <= k => Half \in 1..k BY <1>h
  <2>q. QED BY <2>1, <2>2
<1>27. AtPlace(W, K, i, s, Half) BY <1>2, <1>3, <1>5, <1>26, InsertedAt
<1>28. Len(X) = Len(C) + 1 BY <1>5 DEF Enlarged
<1>j. j \in 1..(Len(C) + 1) BY <1>z, <1>28
<1>29. AtPlace(X, C, i + 1, n, j)
  <2>1. PICK q : q = i + 1 OBVIOUS
  <2> HIDE DEF X, C, n, K
  <2>2. Len(C) \in Nat /\ q \in 1..(Len(C) + 1) /\ j \in 1..(Len(C) + 1) BY <2>1, <1>2, <1>3, <1>j
  <2>3. Enlarged(X, C, q, n) BY <2>1, <1>5
  <2>q. QED BY <2>1, <2>2, <2>3, InsertedAt
<1> DEFINE b == X[j]
<1>b. h.lo[b] = l /\ h.hi[b] # l /\ Len(u.node[b].key) >= Half /\ W[Half] = l /\ g.lev[p] = 1 /\ l # NoBound BY <1>z
(* The old children but a, *)
<1>30. ASSUME NEW k \in 1..Len(C), b = C[k], b # a PROVE l < u.node[b].key[Half]
  <2>1. ChildOK(t, g, p, k) BY <1>1 DEF InnerOK
  <2>2. /\ b \in DOMAIN t.node /\ g.lev[b] + 1 = g.lev[p]
        /\ g.lo[b] = (IF k = 1 THEN l ELSE K[k - 1])
        /\ g.hi[b] = (IF k = Len(C) THEN g.hi[p] ELSE K[k])
    BY <2>1, <1>30 DEF ChildOK
  <2>3. b # p
    <3>1. g.lev[b] \in Nat BY <2>2, <1>7 DEF GhostOK
    <3>2. g.lev[b] + 1 = g.lev[p] BY <2>2
    <3> HIDE DEF b
    <3>q. QED BY <3>1, <3>2
  <2>4. u.node[b].key = t.node[b].key
    <3>1. Kept(t, u, a, b) BY ZenonT(30), <2>2, CutOther
    <3>q. QED BY <3>1, <2>3, <1>30 DEF Kept
  <2>5. h.lo[b] = g.lo[b] /\ h.hi[b] = g.hi[b] BY <2>2, <1>30, <1>g
  <2>6. CASE Len(K) >= Half /\ K[Half] = l
    <3>1. RunOK(t, g, p) BY <1>1 DEF InnerOK
    <3>2. g.lo[b] = l /\ g.hi[b] # l /\ Len(t.node[b].key) >= Half BY <2>4, <2>5, <1>b
    <3>3. g.lev[p] = 1 /\ l # NoBound BY <1>b
    <3>q. QED BY <3>1, <3>2, <3>3, <2>4, <2>6, <1>30 DEF RunOK
  <2>7. CASE ~(Len(K) >= Half /\ K[Half] = l)
    <3> HIDE DEF K, C, W, X, s, l, b, c
    <3>1. ~(Half < i)
      <4>1. Half < i => Half \in 1..Len(K) /\ W[Half] = K[Half] BY <1>27 DEF AtPlace
      <4>q. QED BY <4>1, <2>7, <1>3, <1>b
    <3>2. ~(Half > i)
      <4> SUFFICES ASSUME Half > i PROVE FALSE OBVIOUS
      <4>1. Half - 1 \in 1..Len(K) /\ Half - 1 >= i /\ W[Half] = K[Half - 1] BY <1>27 DEF AtPlace
      <4>2. i \in 1..Len(K) /\ i # Len(K) + 1 BY <4>1, <1>2, <1>3, <1>h
      <4>3. K[i] <= K[Half - 1] BY <4>1, <4>2, <1>15 DEF Sorted
      <4>4. g.hi[a] = K[i] BY <4>2, <1>6 DEF K
      <4>5. K[i] \in Int /\ l <= K[i] BY <4>2, <1>16
      <4>6. K[Half - 1] = l BY <4>1, <1>b
      <4>7. K[i] = l BY <4>3, <4>5, <4>6, <1>14
      <4>q. QED BY <4>4, <4>7, <1>24
    <3>3. Half = i BY <3>1, <3>2, <1>2, <1>3, <1>h
    <3>4. s = l BY <3>3, <1>27, <1>b DEF AtPlace
    <3>5. \A o \in 1..Len(K) : (o < i => K[o] <= s) /\ (o >= i => s <= K[o])
      <4>1. \A o \in 1..Len(t.node[p].key) : (o < i => t.node[p].key[o] <= t.node[a].key[Middle(t.node[a])])
                /\ (o >= i => t.node[a].key[Middle(t.node[a])] <= t.node[p].key[o]) BY CutNeighbours
      <4>q. QED BY <4>1, Zenon DEF K, s, c, m
    <3>6. k # i BY <1>7, <1>30
    <3>7. CASE k < i
      <4>1. k \in 1..Len(K) /\ k # Len(C) BY <3>7, <1>2, <1>3
      <4>2. K[k] <= s /\ l <= K[k] /\ K[k] \in Int BY <4>1, <3>5, <3>7, <1>16
      <4>3. K[k] = l BY <4>2, <3>4, <1>14
      <4>4. g.hi[b] = l BY <4>1, <4>3, <2>2
      <4>q. QED BY <4>4, <2>5, <1>b
    <3>8. CASE k > i
      <4>1. k - 1 \in 1..Len(K) /\ i <= k - 1 /\ k # 1 /\ i \in 1..Len(K) /\ i # Len(K) + 1 BY <3>8, <1>2, <1>3
      <4>2. g.lo[b] = K[k - 1] BY <4>1, <2>2
      <4>3. K[i] <= K[k - 1] /\ K[i] \in Int /\ K[k - 1] \in Int BY <4>1, <1>15, <1>16 DEF Sorted
      <4>4. g.hi[a] = K[i] /\ K[i] # NoBound BY <4>1, <4>3, <1>6, BoundCases DEF K
      <4>5. c.key[Half + 1] <= K[i] BY <4>4, <1>23
      <4>6. l < K[k - 1] BY <4>3, <4>5, <1>14, <1>17, <1>22
      <4>7. K[k - 1] = l BY <4>2, <2>5, <1>b
      <4>q. QED BY <4>6, <4>7, <1>14
    <3>q. QED BY <3>6, <3>7, <3>8, <1>2, <1>3
  <2>q. QED BY <2>6, <2>7
(* a, *)
<1>31. ASSUME b = a PROVE l < u.node[a].key[Half]
  <2>1. \A k \in 1..Half : u.node[a].key[k] = c.key[k] BY CutKeys
  <2>2. u.node[a].key[Half] = s BY <2>1, <1>13, <1>h
  <2>3. g.lo[a] = l /\ s # l BY <1>9, <1>10, <1>31, <1>b
  <2>4. l <= s BY <2>3, <1>21
  <2> HIDE DEF l, s
  <2>q. QED BY <2>2, <2>3, <2>4, <1>14, <1>17
(* and the new one. *)
<1>32. ASSUME b = n PROVE l < u.node[n].key[Half]
  <2>1. \A k \in 1..(M - m) : u.node[n].key[k] = c.key[m + k] BY CutKeys
  <2>2. Half \in 1..(M - m) /\ m + Half = M BY <1>13, <1>h
  <2>3. u.node[n].key[Half] = c.key[M] BY <2>1, <2>2
  <2>4. c.key[Half + 1] <= c.key[M]
    <3>1. Half + 1 \in 1..Len(c.key) /\ M \in 1..Len(c.key) /\ Half + 1 <= M BY <1>18, <1>h
    <3>q. QED BY <3>1, <1>19 DEF KeysOK, Sorted
  <2>5. c.key[M] \in Int BY <1>18, <1>h
  <2> HIDE DEF l, c
  <2>q. QED BY <2>3, <2>4, <2>5, <1>14, <1>17, <1>22
<1>c. \A k \in 1..Len(C) : b = C[k] => l < u.node[b].key[Half] BY <1>30, <1>31
<1>33. CASE j = i + 1
  <2>1. b = n BY <1>29, <1>33 DEF AtPlace
  <2>q. QED BY <2>1, <1>32
<1>34. CASE j # i + 1
  <2>1. \E k \in 1..Len(C) : b = C[k]
    <3>1. CASE j < i + 1 BY <3>1, <1>29 DEF AtPlace
    <3>2. CASE j > i + 1 BY <3>2, <1>29 DEF AtPlace
    <3>3. j \in Int /\ i \in Int BY <1>2, <1>j
    <3>q. QED BY <3>1, <3>2, <3>3, <1>34
  <2>q. QED BY <2>1, <1>c
<1>q. QED BY <1>33, <1>34

LEMMA CutParentInner ==
  ASSUME NEW V, NEW t, NEW g, NEW a, NEW i, NEW u, Splits(t, g, V, a, i, u),
         NEW h, h = GhostCut(t, g, a), NEW p, p = t.node[a].parent
  PROVE  InnerOK(u, h, p)
<1> DEFINE n == Len(t.node) + 1
           c == t.node[a]
           s == c.key[Middle(c)]
           C == t.node[p].child
           X == u.node[p].child
<1>1. Grown(t, u, p, i, s, n) BY CutParent
<1>2. Len(X) = Len(u.node[p].key) + 1 /\ Enlarged(X, C, i + 1, n) BY <1>1 DEF Grown
<1>3. InnerOK(t, g, p) /\ n \notin DOMAIN t.node BY CutPlaces
<1>4. Len(t.node[p].key) \in Nat /\ i \in 1..(Len(t.node[p].key) + 1) BY SMTT(30), CutPlaces
<1>5. Len(C) = Len(t.node[p].key) + 1 /\ (\A j, k \in 1..Len(C) : C[j] = C[k] => j = k)
      /\ \A j \in 1..Len(C) : C[j] # n
  BY ZenonT(30), <1>3 DEF InnerOK, ChildOK
<1>6. \A j, k \in 1..Len(X) : X[j] = X[k] => j = k
  <2>1. PICK q : q = i + 1 OBVIOUS
  <2> HIDE DEF X, C, n
  <2>2. Len(C) \in Nat /\ q \in 1..(Len(C) + 1) /\ Enlarged(X, C, q, n) BY <2>1, <1>2, <1>4, <1>5
  <2>q. QED BY <2>2, <1>5, InsertedOnce
<1>7. \A j \in 1..Len(X) : ChildOK(u, h, p, j) BY CutParentChild
<1>8. RunOK(u, h, p) BY CutParentRunOK
<1>q. QED BY <1>2, <1>6, <1>7, <1>8 DEF InnerOK

(* The children of the halves of an inner node, *)
LEMMA CutOldInner ==
  ASSUME NEW V, NEW t, NEW g, NEW a, NEW i, NEW u, Splits(t, g, V, a, i, u),
         NEW h, h = GhostCut(t, g, a), ~t.node[a].isLeaf
  PROVE  InnerOK(u, h, a)
<1> DEFINE n == Len(t.node) + 1
           c == t.node[a]
           p == c.parent
           s == c.key[Middle(c)]
<1>1. a \in DOMAIN t.node /\ InnerOK(t, g, a) /\ g.lev[a] \in Nat /\ g.lev[p] = g.lev[a] + 1
  BY CutPlaces DEF NodeOK
<1>h. Half \in Nat /\ M \in Nat /\ Half >= 2 /\ M = 2 * Half BY MIs
<1>2. Len(c.key) = M BY CutMiddle
<1>3. Len(c.child) = M + 1 BY CutMiddle
<1>4. s = c.key[Half + 1] BY DEF Middle
<1>5. Len(u.node[a].key) = Half BY CutKeys
<1>6. \A j \in 1..Half : u.node[a].key[j] = c.key[j] BY CutKeys
<1>7. Len(u.node[a].child) = Half + 1 BY CutChildren
<1>8. \A j \in 1..(Half + 1) : u.node[a].child[j] = c.child[j] BY CutChildren
<1>9. h.lo[a] = g.lo[a] /\ h.lev[a] = g.lev[a] /\ h.hi[a] = s BY <1>1, CutGhost
<1>10. Shifts(t, u, a, n) BY CutMoved
<1>11. \A j, k \in 1..Len(c.child) : c.child[j] = c.child[k] => j = k BY <1>1 DEF InnerOK
<1>12. ASSUME NEW j \in 1..(Half + 1), NEW b, b = c.child[j]
       PROVE  /\ Stays(t, g, u, h, a, b) /\ u.node[b].key = t.node[b].key
              /\ g.lo[b] = (IF j = 1 THEN g.lo[a] ELSE c.key[j - 1])
              /\ g.hi[b] = c.key[j] /\ j \in 1..Len(c.child)
  <2>1. j \in 1..Len(c.child) /\ j # Len(c.child) BY <1>3, <1>h
  <2>2. ChildOK(t, g, a, j) BY <2>1, <1>1 DEF InnerOK
  <2>3. b \in DOMAIN t.node /\ g.lev[b] + 1 = g.lev[a] /\ t.node[b].parent = a
        /\ g.lo[b] = (IF j = 1 THEN g.lo[a] ELSE c.key[j - 1]) /\ g.hi[b] = c.key[j]
    BY <2>1, <2>2, <1>12 DEF ChildOK
  <2>4. g.lev[b] \in Nat
    <3>1. GhostOK(t, g) BY DEF Splits, Shape
    <3>q. QED BY <3>1, <2>3 DEF GhostOK
  <2>5. b # a /\ b # p BY <2>3, <2>4, <1>1
  <2>6. b \notin Range(u.node[n].child)
    <3>1. ASSUME b \in Range(u.node[n].child) PROVE FALSE
      <4>1. PICK k \in (Half + 2)..(M + 1) : c.child[k] = b BY <3>1, <1>10 DEF Shifts
      <4>2. k \in 1..Len(c.child) /\ k # j BY <1>3, <1>h
      <4>q. QED BY <4>1, <4>2, <2>1, <1>11, <1>12
    <3>q. QED BY <3>1
  <2>7. Stays(t, g, u, h, a, b) BY <1>1, <1>12, <2>2, <2>5, <2>6, CutChildKept
  <2>8. u.node[b].key = t.node[b].key
    <3>1. Kept(t, u, a, b) BY <2>3, CutOther
    <3>q. QED BY <3>1, <2>5 DEF Kept
  <2>q. QED BY <2>1, <2>3, <2>7, <2>8
<1>13. ASSUME NEW j \in 1..(Half + 1) PROVE ChildOK(u, h, a, j)
  <2>1. PICK b : b = c.child[j] OBVIOUS
  <2>2. /\ Stays(t, g, u, h, a, b)
        /\ g.lo[b] = (IF j = 1 THEN g.lo[a] ELSE c.key[j - 1])
        /\ g.hi[b] = c.key[j]
    BY <2>1, <1>12
  <2>3. u.node[a].child[j] = b BY <2>1, <1>8
  <2>4. g.lo[b] = (IF j = 1 THEN h.lo[a] ELSE u.node[a].key[j - 1])
    <3>1. j # 1 => j - 1 \in 1..Half BY <1>h
    <3>q. QED BY <3>1, <2>2, <1>6, <1>9
  <2>5. g.hi[b] = (IF j = Half + 1 THEN h.hi[a] ELSE u.node[a].key[j])
    <3>1. j # Half + 1 => j \in 1..Half BY <1>h
    <3>q. QED BY <3>1, <2>2, <1>4, <1>6, <1>9
  <2>q. QED BY <2>2, <2>3, <2>4, <2>5, <1>7 DEF ChildOK, Stays
<1>14. \A j, k \in 1..(Half + 1) : u.node[a].child[j] = u.node[a].child[k] => j = k
  <2>1. \A j \in 1..(Half + 1) : j \in 1..Len(c.child) BY <1>3, <1>h
  <2>q. QED BY <2>1, <1>8, <1>11
<1>15. RunOK(u, h, a)
  <2> SUFFICES ASSUME g.lev[a] = 1, g.lo[a] # NoBound, u.node[a].key[Half] = g.lo[a],
                      NEW j \in 1..(Half + 1), NEW b, b = u.node[a].child[j],
                      h.lo[b] = g.lo[a], h.hi[b] # g.lo[a], Len(u.node[b].key) >= Half
               PROVE  g.lo[a] < u.node[b].key[Half]
    BY <1>7, <1>9 DEF RunOK
  <2>1. b = c.child[j] BY <1>8
  <2>2. Stays(t, g, u, h, a, b) /\ u.node[b].key = t.node[b].key /\ j \in 1..Len(c.child) BY <2>1, <1>12
  <2>3. g.lo[b] = g.lo[a] /\ g.hi[b] # g.lo[a] /\ Len(t.node[b].key) >= Half BY <2>2 DEF Stays
  <2>4. c.key[Half] = g.lo[a] /\ Len(c.key) >= Half BY <1>2, <1>6, <1>h
  <2>5. RunOK(t, g, a) BY <1>1 DEF InnerOK
  <2>q. QED BY <2>1, <2>2, <2>3, <2>4, <2>5 DEF RunOK
<1>q. QED BY <1>5, <1>7, <1>13, <1>14, <1>15 DEF InnerOK

LEMMA CutNewInner ==
  ASSUME NEW V, NEW t, NEW g, NEW a, NEW i, NEW u, Splits(t, g, V, a, i, u),
         NEW h, h = GhostCut(t, g, a), ~t.node[a].isLeaf, NEW n, n = Len(t.node) + 1
  PROVE  InnerOK(u, h, n)
<1> DEFINE c == t.node[a]
           m == Middle(c)
           s == c.key[m]
<1>1. a \in DOMAIN t.node /\ InnerOK(t, g, a) BY CutPlaces DEF NodeOK
<1>d. DOMAIN u.node = DOMAIN t.node \cup {n} BY CutPlaces
<1>h. Half \in Nat /\ M \in Nat /\ Half >= 2 /\ M = 2 * Half BY MIs
<1>2. m = Half + 1 /\ M - m = Half - 1 /\ M + 1 - m = Half
  <2>1. m = Half + 1 BY DEF Middle
  <2>q. QED BY <2>1, <1>h
<1>3. Len(c.child) = M + 1 BY CutMiddle
<1>5. Len(u.node[n].key) = Half - 1
  <2>1. Len(u.node[n].key) = M - m BY CutKeys
  <2>q. QED BY <2>1, <1>2
<1>6. \A j \in 1..(Half - 1) : u.node[n].key[j] = c.key[m + j]
  <2>1. \A j \in 1..(M - m) : u.node[n].key[j] = c.key[m + j] BY CutKeys
  <2>q. QED BY <2>1, <1>2
<1>7. Len(u.node[n].child) = Half
  <2>1. Len(u.node[n].child) = M + 1 - m BY CutChildren
  <2>q. QED BY <2>1, <1>2
<1>8. \A j \in 1..Half : u.node[n].child[j] = c.child[m + j]
  <2>1. \A j \in 1..(M + 1 - m) : u.node[n].child[j] = c.child[m + j] BY CutChildren
  <2>q. QED BY <2>1, <1>2
<1>9. h.lo[n] = s /\ h.lev[n] = g.lev[a] /\ h.hi[n] = g.hi[a] BY CutGhost
<1>10. Shifts(t, u, a, n) BY CutMoved
<1>11. \A j, k \in 1..Len(c.child) : c.child[j] = c.child[k] => j = k BY <1>1 DEF InnerOK
<1>l. GhostOK(t, g) BY DEF Splits, Shape
<1>r. u.root = t.root BY DEF Splits, Cut
<1> HIDE DEF c, m, s
<1>j. \A j \in 1..Half : m + j \in 1..Len(c.child) /\ m + j \in (Half + 2)..(M + 1) BY <1>2, <1>3, <1>h
<1>13. ASSUME NEW j \in 1..Half PROVE ChildOK(u, h, n, j)
  <2>1. PICK k : k = m + j OBVIOUS
  <2>2. k \in 1..Len(c.child) /\ k \in (Half + 2)..(M + 1) BY <2>1, <1>j
  <2>3. PICK b : b = c.child[k] OBVIOUS
  <2>4. ChildOK(t, g, a, k) BY <2>2, <1>1 DEF InnerOK, c
  <2>5. /\ b \in DOMAIN t.node /\ b # t.root /\ g.lev[b] + 1 = g.lev[a]
        /\ g.lo[b] = (IF k = 1 THEN g.lo[a] ELSE c.key[k - 1])
        /\ g.hi[b] = (IF k = Len(c.child) THEN g.hi[a] ELSE c.key[k])
    BY <2>3, <2>4 DEF ChildOK, c
  <2>6. b \in Range(u.node[n].child) BY <2>2, <2>3, <1>10 DEF Shifts, c
  <2>7. u.node[b].parent = n /\ b # a BY <2>5, <2>6, CutOther
  <2>8. h.lev[b] = g.lev[b] /\ h.lo[b] = g.lo[b] /\ h.hi[b] = g.hi[b] BY <2>5, <2>7, CutGhost
  <2>9. u.node[n].child[j] = b BY <2>1, <2>3, <1>8
  <2>10. g.lo[b] = (IF j = 1 THEN h.lo[n] ELSE u.node[n].key[j - 1])
    <3>1. k # 1 BY <2>2, <1>h
    <3>2. CASE j = 1
      <4>1. k - 1 = m BY <3>2, <2>1, <1>2, <1>h
      <4>q. QED BY <4>1, <3>1, <3>2, <2>5, <1>9 DEF s
    <3>3. CASE j # 1
      <4>1. j - 1 \in 1..(Half - 1) /\ m + (j - 1) = k - 1 BY <3>3, <2>1, <1>2, <1>h
      <4>2. u.node[n].key[j - 1] = c.key[m + (j - 1)] BY <4>1, <1>6
      <4>q. QED BY <4>1, <4>2, <3>1, <3>3, <2>5
    <3>q. QED BY <3>2, <3>3
  <2>11. g.hi[b] = (IF j = Half THEN h.hi[n] ELSE u.node[n].key[j])
    <3>2. CASE j = Half
      <4>1. k = Len(c.child) BY <3>2, <2>1, <1>2, <1>3, <1>h
      <4>q. QED BY <4>1, <3>2, <2>5, <1>9
    <3>3. CASE j # Half
      <4>1. j \in 1..(Half - 1) /\ k # Len(c.child) BY <3>3, <2>1, <1>2, <1>3, <1>h
      <4>q. QED BY <4>1, <3>3, <2>1, <2>5, <1>6
    <3>q. QED BY <3>2, <3>3
  <2>q. QED BY <2>5, <2>7, <2>8, <2>9, <2>10, <2>11, <1>7, <1>9, <1>d, <1>r DEF ChildOK
<1>14. \A j, k \in 1..Half : u.node[n].child[j] = u.node[n].child[k] => j = k
  <2> SUFFICES ASSUME NEW j \in 1..Half, NEW k \in 1..Half, u.node[n].child[j] = u.node[n].child[k] PROVE j = k
    OBVIOUS
  <2>1. c.child[m + j] = c.child[m + k] BY <1>8
  <2>2. m + j = m + k BY <2>1, <1>j, <1>11
  <2>q. QED BY <2>2, <1>2, <1>h
<1>15. RunOK(u, h, n)
  <2>1. ~(Len(u.node[n].key) >= Half) BY <1>5, <1>h
  <2>q. QED BY <2>1 DEF RunOK
<1>16. Len(u.node[n].child) = Len(u.node[n].key) + 1 BY <1>5, <1>7, <1>h
<1>q. QED BY <1>7, <1>13, <1>14, <1>15, <1>16 DEF InnerOK

(* and of the nodes around. *)
LEMMA CutOtherInner ==
  ASSUME NEW V, NEW t, NEW g, NEW a, NEW i, NEW u, Splits(t, g, V, a, i, u),
         NEW h, h = GhostCut(t, g, a), NEW q \in DOMAIN t.node, q # a, q # t.node[a].parent, ~t.node[q].isLeaf
  PROVE  InnerOK(u, h, q)
<1> DEFINE n == Len(t.node) + 1
           c == t.node[q]
           p == t.node[a].parent
<1>1. InnerOK(t, g, q) /\ GhostOK(t, g) BY DEF Splits, Shape, NodeOK
<1>2. u.node[q].key = c.key /\ u.node[q].child = c.child
  <2>1. Kept(t, u, a, q) BY CutOther
  <2>q. QED BY <2>1 DEF Kept
<1>3. h.lo[q] = g.lo[q] /\ h.hi[q] = g.hi[q] /\ h.lev[q] = g.lev[q] BY CutGhost
<1>4. ASSUME NEW j \in 1..Len(c.child), NEW b, b = c.child[j]
      PROVE  /\ Stays(t, g, u, h, q, b) /\ b # a
             /\ g.lo[b] = (IF j = 1 THEN g.lo[q] ELSE c.key[j - 1])
             /\ g.hi[b] = (IF j = Len(c.child) THEN g.hi[q] ELSE c.key[j])
             /\ g.lev[b] + 1 = g.lev[q]
  <2>1. ChildOK(t, g, q, j) BY <1>1 DEF InnerOK
  <2>2. /\ b \in DOMAIN t.node /\ t.node[b].parent = q
        /\ g.lo[b] = (IF j = 1 THEN g.lo[q] ELSE c.key[j - 1])
        /\ g.hi[b] = (IF j = Len(c.child) THEN g.hi[q] ELSE c.key[j])
        /\ g.lev[b] + 1 = g.lev[q]
    BY <2>1, <1>4 DEF ChildOK
  <2>3. b # a BY <2>2
  <2>4. b \notin Range(u.node[n].child)
    <3>1. b \in Range(u.node[n].child) => t.node[b].parent = a BY <2>2, CutOther
    <3>q. QED BY <3>1, <2>2
  <2>5. Stays(t, g, u, h, q, b) BY <1>4, <2>1, <2>3, <2>4, CutChildKept
  <2>q. QED BY <2>2, <2>3, <2>5
<1>5. ASSUME NEW j \in 1..Len(c.child) PROVE ChildOK(u, h, q, j)
  <2>1. PICK b : b = c.child[j] OBVIOUS
  <2>2. /\ Stays(t, g, u, h, q, b)
        /\ g.lo[b] = (IF j = 1 THEN g.lo[q] ELSE c.key[j - 1])
        /\ g.hi[b] = (IF j = Len(c.child) THEN g.hi[q] ELSE c.key[j])
    BY <2>1, <1>4
  <2>q. QED BY <2>1, <2>2, <1>2, <1>3 DEF ChildOK, Stays
<1>6. RunOK(u, h, q)
  <2> SUFFICES ASSUME g.lev[q] = 1, g.lo[q] # NoBound, Len(c.key) >= Half, c.key[Half] = g.lo[q],
                      NEW j \in 1..Len(c.child), NEW b, b = c.child[j],
                      h.lo[b] = g.lo[q], h.hi[b] # g.lo[q], Len(u.node[b].key) >= Half
               PROVE  g.lo[q] < u.node[b].key[Half]
    BY <1>2, <1>3 DEF RunOK
  <2>1. Stays(t, g, u, h, q, b) /\ b # a /\ g.lev[b] + 1 = g.lev[q] BY <1>4
  <2>2. b \in DOMAIN t.node /\ h.lo[b] = g.lo[b] /\ h.hi[b] = g.hi[b] BY <2>1 DEF Stays
  <2>3. b # p
    <3>1. g.lev[p] = g.lev[a] + 1 /\ g.lev[a] \in Nat BY SMTT(30), CutPlaces
    <3>2. g.lev[b] \in Nat BY <2>2, <1>1 DEF GhostOK
    <3>q. QED BY SMTT(30), <3>1, <3>2, <2>1
  <2>4. u.node[b].key = t.node[b].key
    <3>1. Kept(t, u, a, b) BY <2>2, CutOther
    <3>q. QED BY <3>1, <2>1, <2>3 DEF Kept
  <2>5. RunOK(t, g, q) BY <1>1 DEF InnerOK
  <2>q. QED BY <2>2, <2>4, <2>5 DEF RunOK
<1>7. Len(c.child) = Len(c.key) + 1 /\ \A j, k \in 1..Len(c.child) : c.child[j] = c.child[k] => j = k
  BY <1>1 DEF InnerOK
<1>q. QED BY <1>2, <1>5, <1>6, <1>7 DEF InnerOK

(* A leaf to the left of every leaf with a low bound. *)
LEMMA CutLeftOK ==
  ASSUME NEW V, NEW t, NEW g, NEW a, NEW i, NEW u, Splits(t, g, V, a, i, u),
         NEW h, h = GhostCut(t, g, a), NEW b \in DOMAIN u.node
  PROVE  LeftOK(u, h, b)
<1> DEFINE n == Len(t.node) + 1
           c == t.node[a]
           s == c.key[Middle(c)]
           Left(d, k) == d \in DOMAIN u.node /\ u.node[d].isLeaf /\ h.hi[d] = k /\ Over(h.lo[d], k)
<1>1. /\ n \notin DOMAIN t.node /\ DOMAIN u.node = DOMAIN t.node \cup {n} /\ a \in DOMAIN t.node
  BY CutPlaces
<1>2. \A d \in DOMAIN t.node : LeftOK(t, g, d) BY DEF Splits, Shape
<1>g. \A d \in DOMAIN t.node : h.lo[d] = g.lo[d] /\ (d # a => h.hi[d] = g.hi[d]) BY CutGhost
<1>3. h.lo[n] = s /\ h.hi[n] = g.hi[a] /\ h.hi[a] = s BY CutGhost
<1>4. s \in Int /\ Least(g.lo[a], s) /\ UpTo(g.hi[a], s) /\ Over(g.lo[a], c.key[Half + 1]) /\ c.key[Half + 1] \in Int
  BY CutMiddle
<1>5. g.lo[a] \in Bounds /\ g.hi[a] \in Bounds BY CutMiddle
<1>6. \A d \in DOMAIN t.node : u.node[d].isLeaf = t.node[d].isLeaf
  <2>1. \A d \in DOMAIN t.node : Kept(t, u, a, d) BY CutOther
  <2>q. QED BY <2>1 DEF Kept
<1>7. u.node[n].isLeaf = c.isLeaf BY CutFields
<1>8. UpTo(g.hi[a], c.key[Half + 1])
  <2>1. KeysOK(c, g.lo[a], g.hi[a]) BY CutPlaces DEF NodeOK
  <2>2. Len(c.key) = M BY CutMiddle
  <2>3. Half + 1 \in 1..Len(c.key) BY <2>2, MIs
  <2>q. QED BY <2>1, <2>3 DEF KeysOK
<1> DEFINE x == c.key[Half + 1]
<1>9. x \in Int /\ Over(g.lo[a], x) /\ UpTo(g.hi[a], x) BY <1>4, <1>8
<1> HIDE DEF s, c, x, n
<1>10. ASSUME NEW k, k # NoBound, NEW d \in DOMAIN t.node, t.node[d].isLeaf, g.hi[d] = k, Over(g.lo[d], k)
       PROVE  \E e : Left(e, k)
  <2>1. CASE d # a
    <3>1. Left(d, k) BY <1>1, <1>6, <1>10, <1>g, <2>1
    <3>q. QED BY <3>1
  <2>2. CASE d = a
    <3>1. g.hi[a] = k /\ k \in Int /\ s <= k BY <2>2, <1>4, <1>5, <1>10, BoundCases DEF UpTo
    <3>2. c.isLeaf BY <2>2, <1>10 DEF c
    <3>3. CASE s = k
      <4>1. Left(a, k) BY <2>2, <3>2, <3>3, <1>1, <1>3, <1>6, <1>10, <1>g
      <4>q. QED BY <4>1
    <3>4. CASE s # k
      <4>1. Over(s, k) BY <3>1, <3>4, <1>4 DEF Over
      <4>2. Left(n, k) BY <3>1, <3>2, <4>1, <1>1, <1>3, <1>7
      <4>q. QED BY <4>2
    <3>q. QED BY <3>3, <3>4
  <2>q. QED BY <2>1, <2>2
<1>11. ASSUME u.node[b].isLeaf, h.lo[b] # NoBound PROVE \E e : Left(e, h.lo[b])
  <2>1. CASE b # n
    <3>1. b \in DOMAIN t.node BY <2>1, <1>1
    <3>2. t.node[b].isLeaf /\ g.lo[b] = h.lo[b] BY <3>1, <1>6, <1>11, <1>g
    <3>3. PICK d \in DOMAIN t.node : t.node[d].isLeaf /\ g.hi[d] = g.lo[b] /\ Over(g.lo[d], g.hi[d])
      BY <3>1, <3>2, <1>2, <1>11 DEF LeftOK
    <3>q. QED BY <3>2, <3>3, <1>10, <1>11
  <2>2. CASE b = n
    <3>1. c.isLeaf /\ h.lo[b] = s BY <2>2, <1>3, <1>7, <1>11
    <3>2. CASE Over(g.lo[a], s)
      <4>1. Left(a, s) BY <3>1, <3>2, <1>1, <1>3, <1>6, <1>g DEF c
      <4>q. QED BY <4>1, <3>1
    <3>3. CASE ~Over(g.lo[a], s)
      <4>1. g.lo[a] = s /\ g.lo[a] # NoBound BY <3>3, <1>4, <1>5, BoundCases DEF Over, Least
      <4>2. PICK d \in DOMAIN t.node : t.node[d].isLeaf /\ g.hi[d] = g.lo[a] /\ Over(g.lo[d], g.hi[d])
        BY <4>1, <3>1, <1>1, <1>2 DEF LeftOK, c
      <4>3. s # NoBound BY <4>1
      <4>q. QED BY <4>1, <4>2, <4>3, <3>1, <1>10
    <3>q. QED BY <3>2, <3>3
  <2>q. QED BY <2>1, <2>2
<1>q. QED BY <1>11 DEF LeftOK

(* The split of a full node keeps the shape; its parent may be full now. *)
LEMMA CutShape ==
  ASSUME NEW V, NEW t, NEW g, NEW a, NEW i, NEW u, Splits(t, g, V, a, i, u)
  PROVE  Shape(u, GhostCut(t, g, a), V, t.node[a].parent)
<1> DEFINE n == Len(t.node) + 1
           c == t.node[a]
           p == c.parent
<1>h. PICK h : h = GhostCut(t, g, a) OBVIOUS
<1>1. /\ n \notin DOMAIN t.node /\ DOMAIN u.node = DOMAIN t.node \cup {n} /\ a \in DOMAIN t.node
      /\ p \in DOMAIN t.node /\ p # a /\ ~t.node[p].isLeaf
  BY CutPlaces
<1>2. u \in Trees(V) /\ t \in Trees(V) BY DEF Splits, Shape
<1>3. GhostOK(u, h) BY <1>h, CutGhost
<1>g. \A d \in DOMAIN t.node : h.lev[d] = g.lev[d] /\ h.lo[d] = g.lo[d] /\ (d # a => h.hi[d] = g.hi[d])
  BY <1>h, CutGhost
<1>n. h.lev[n] = g.lev[a] BY <1>h, CutGhost
<1>4. RootOK(u, h)
  <2>1. /\ u.root = t.root /\ u.depth = t.depth /\ t.root \in DOMAIN t.node /\ t.node[t.root].parent = NULL
        /\ g.lev[t.root] + 1 = t.depth /\ g.lo[t.root] = NoBound /\ g.hi[t.root] = NoBound /\ a # t.root
    BY DEF Splits, Cut, Shape, RootOK
  <2>2. u.node[t.root].parent = t.node[t.root].parent
    <3>1. t.root \in Range(u.node[n].child) => t.node[t.root].parent = a BY <2>1, CutOther
    <3>2. t.root \notin Range(u.node[n].child) => u.node[t.root].parent = t.node[t.root].parent BY <2>1, CutOther
    <3>3. a # NULL BY <1>1, <1>2, NodeFields DEF NULL
    <3>q. QED BY <3>1, <3>2, <3>3, <2>1
  <2>q. QED BY <2>1, <2>2, <1>1, <1>g DEF RootOK
<1>5. \A d \in DOMAIN t.node : u.node[d].isLeaf = t.node[d].isLeaf
  <2>1. \A d \in DOMAIN t.node : Kept(t, u, a, d) BY CutOther
  <2>q. QED BY <2>1 DEF Kept
<1>6. u.node[n].isLeaf = c.isLeaf BY CutFields
<1>7. \A d \in DOMAIN t.node : NodeOK(t, g, d) BY DEF Splits, Shape
<1> HIDE DEF n
<1>8. ASSUME NEW b \in DOMAIN u.node PROVE NodeOK(u, h, b)
  <2>1. u.node[b].isLeaf <=> h.lev[b] = 0
    <3>1. CASE b = n BY <3>1, <1>1, <1>6, <1>7, <1>n DEF NodeOK
    <3>2. CASE b # n
      <4>1. b \in DOMAIN t.node BY <3>2, <1>1
      <4>2. t.node[b].isLeaf <=> g.lev[b] = 0 BY <4>1, <1>7 DEF NodeOK
      <4>q. QED BY <4>1, <4>2, <1>5, <1>g
    <3>q. QED BY <3>1, <3>2
  <2>2. KeysOK(u.node[b], h.lo[b], h.hi[b]) BY <1>h, CutKeysOK
  <2>3. ParentOK(u, b) BY CutParentOK
  <2>4. ASSUME u.node[b].isLeaf PROVE LeafOK(u.node[b], h.hi[b]) BY <2>4, <1>h, CutLeafOK
  <2>5. ASSUME ~u.node[b].isLeaf PROVE InnerOK(u, h, b)
    <3>1. CASE b = n
      <4>1. ~t.node[a].isLeaf BY <3>1, <2>5, <1>6
      <4>q. QED BY <3>1, <4>1, <1>h, CutNewInner DEF n
    <3>2. CASE b = a
      <4>1. ~t.node[a].isLeaf BY <3>2, <2>5, <1>1, <1>5
      <4>q. QED BY <3>2, <4>1, <1>h, CutOldInner
    <3>3. CASE b = p BY <3>3, <1>h, CutParentInner
    <3>4. CASE b # n /\ b # a /\ b # p
      <4>1. b \in DOMAIN t.node BY <3>4, <1>1
      <4>2. ~t.node[b].isLeaf BY <4>1, <2>5, <1>5
      <4>q. QED BY <3>4, <4>1, <4>2, <1>h, CutOtherInner
    <3>q. QED BY <3>1, <3>2, <3>3, <3>4
  <2>q. QED BY <2>1, <2>2, <2>3, <2>4, <2>5 DEF NodeOK
<1>9. \A b \in DOMAIN u.node : LeftOK(u, h, b) BY <1>h, CutLeftOK
<1>10. ASSUME NEW b \in DOMAIN u.node
       PROVE  IF b = p THEN Len(u.node[b].key) <= M ELSE Len(u.node[b].key) < M
  <2>h. Half \in Nat /\ M \in Nat /\ Half >= 2 /\ M = 2 * Half BY MIs
  <2>1. CASE b = n
    <3>1. Len(u.node[n].key) = M - Middle(c) BY CutKeys DEF n
    <3>2. Middle(c) \in 1..(M - 1) BY CutMiddle
    <3>q. QED BY <2>1, <3>1, <3>2, <2>h
  <2>2. CASE b = a
    <3>1. Len(u.node[a].key) = Half BY CutKeys
    <3>q. QED BY <2>2, <3>1, <2>h
  <2>3. CASE b = p
    <3>1. Len(t.node[p].key) < M BY <1>1 DEF Splits, Shape
    <3>2. Len(t.node[p].key) \in Nat BY <1>1, <1>2, NodeFields
    <3>3. Enlarged(u.node[p].key, t.node[p].key, i, c.key[Middle(c)]) BY CutParent DEF Grown
    <3>4. Len(u.node[p].key) = Len(t.node[p].key) + 1 BY <3>3 DEF Enlarged
    <3>q. QED BY <2>3, <3>1, <3>2, <3>4, <2>h
  <2>4. CASE b # n /\ b # a /\ b # p
    <3>1. b \in DOMAIN t.node BY <2>4, <1>1
    <3>2. Kept(t, u, a, b) BY <3>1, CutOther
    <3>3. u.node[b].key = t.node[b].key BY <3>2, <2>4 DEF Kept
    <3>4. Len(t.node[b].key) < M BY <3>1, <2>4 DEF Splits, Shape
    <3>q. QED BY <3>3, <3>4, <2>4
  <2>q. QED BY <2>1, <2>2, <2>3, <2>4
<1>11. Shape(u, h, V, p) BY <1>2, <1>3, <1>4, <1>8, <1>9, <1>10 DEF Shape
<1>q. QED BY <1>11, <1>h


(* Both parts of a split find the place of the node in its parent. *)
LEMMA PlaceOf ==
  ASSUME NEW V, NEW t, NEW g, NEW a, Shape(t, g, V, a), a \in DOMAIN t.node, a # t.root,
         Len(t.node[a].key) = M, NEW p, p = t.node[a].parent, NEW i, i = lower_bound(t.node[p].key, t.node[a].key[Half + 1])
  PROVE  /\ p \in DOMAIN t.node /\ ~t.node[p].isLeaf /\ i \in 1..Len(t.node[p].child) /\ t.node[p].child[i] = a
         /\ Len(t.node[p].child) = Len(t.node[p].key) + 1 /\ g.lev[a] + 1 = g.lev[p]
<1> DEFINE c == t.node[a]
           k == c.key[Half + 1]
<1>1. t \in Trees(V) /\ GhostOK(t, g) /\ \A b \in DOMAIN t.node : NodeOK(t, g, b) BY DEF Shape
<1>2. /\ p \in DOMAIN t.node /\ ~t.node[p].isLeaf /\ \E j \in 1..Len(t.node[p].child) : t.node[p].child[j] = a
  BY <1>1 DEF NodeOK, ParentOK
<1>3. PICK j \in 1..Len(t.node[p].child) : t.node[p].child[j] = a BY <1>2
<1>4. InnerOK(t, g, p) BY <1>1, <1>2 DEF NodeOK
<1>c. ChildOK(t, g, p, j) BY <1>3, <1>4 DEF InnerOK
<1>5. Len(t.node[p].child) = Len(t.node[p].key) + 1 /\ g.lev[a] + 1 = g.lev[p] BY <1>3, <1>4, <1>c DEF InnerOK, ChildOK
<1>6. c.key \in Seq(Int) /\ KeysOK(c, g.lo[a], g.hi[a]) BY <1>1, NodeFields DEF NodeOK
<1>7. Half + 1 \in 1..Len(c.key) /\ Len(c.key) > Half BY MIs
<1>8. k \in Int /\ Over(g.lo[a], k) /\ UpTo(g.hi[a], k) BY <1>6, <1>7 DEF KeysOK, Over
<1> HIDE DEF k
<1>9. Between(k, g.lo[a], g.hi[a]) BY <1>8 DEF Between
<1>10. Between(k, g.lo[p], g.hi[p])
  <2>1. /\ Shape(t, g, V, a) /\ p \in DOMAIN t.node /\ ~t.node[p].isLeaf /\ j \in 1..Len(t.node[p].child) /\ k \in Int
        /\ Between(k, g.lo[t.node[p].child[j]], g.hi[t.node[p].child[j]])
    BY <1>2, <1>3, <1>8, <1>9
  <2>q. QED BY <2>1, BetweenUp
<1>11. j = lower_bound(t.node[p].key, k)
  <2>1. Chosen(t, g, p, k, lower_bound(t.node[p].key, k)) BY <1>2, <1>8, <1>10, ChildFor
  <2>q. QED BY <2>1, <1>3, <1>9 DEF Chosen
<1>q. QED BY <1>2, <1>3, <1>5, <1>11 DEF k

(* The parent is a node again, *)
LEMMA AdoptIs ==
  ASSUME NEW V, NEW c \in Nodes(V), NEW k \in Int, NEW e \in Int, NEW n \in Nat,
         NEW i, i = lower_bound(c.key, k), i \in 1..(Len(c.key) + 1), Len(c.child) = Len(c.key) + 1
  PROVE  /\ Adopt(c, k, e, n) \in Nodes(V)
         /\ Adopt(c, k, e, n) = [c EXCEPT !.key = InsertAt(c.key, i, e), !.child = InsertAt(c.child, i + 1, n)]
<1>1. Adopt(c, k, e, n) = [c EXCEPT !.key = InsertAt(c.key, i, e), !.child = InsertAt(c.child, i + 1, n)]
  BY DEF Adopt
<1>2. c.key \in Seq(Int) /\ c.child \in Seq(Nat) BY DEF Nodes
<1>3. InsertAt(c.key, i, e) \in Seq(Int) BY <1>2, InsertAtIs
<1>4. InsertAt(c.child, i + 1, n) \in Seq(Nat)
  <2>1. PICK q : q = i + 1 OBVIOUS
  <2>0. PICK s : s = c.child OBVIOUS
  <2>l. Len(c.key) \in Nat BY <1>2
  <2>2. s \in Seq(Nat) /\ q \in 1..(Len(s) + 1) BY <2>0, <2>1, <2>l, <1>2
  <2>3. InsertAt(s, q, n) \in Seq(Nat) BY <2>2, InsertAtIs
  <2>q. QED BY <2>0, <2>1, <2>3
<1> DEFINE x == InsertAt(c.key, i, e)
           z == InsertAt(c.child, i + 1, n)
<1>5. x \in Seq(Int) /\ z \in Seq(Nat) BY <1>3, <1>4
<1> HIDE DEF x, z
<1>6. [c EXCEPT !.key = x, !.child = z] \in Nodes(V) BY <1>5 DEF Nodes
<1>q. QED BY <1>1, <1>6 DEF x, z

(* and both kinds of split cut the node at its middle. *)
LEMMA SplitLeafIs ==
  ASSUME NEW V, NEW t, NEW g, NEW a, Shape(t, g, V, a), a \in DOMAIN t.node, a # t.root,
         Len(t.node[a].key) = M, t.node[a].isLeaf
  PROVE  \E i : Splits(t, g, V, a, i, SplitLeaf(t, a))
<1> DEFINE c == t.node[a]
           p == c.parent
           n == Len(t.node) + 1
           k == c.key[Half + 1]
           e == c.key[Half]
           i == lower_bound(t.node[p].key, k)
           new == [c EXCEPT !.key = SubSeq(c.key, Half + 1, M), !.val = SubSeq(c.val, Half + 1, M)]
           old == [c EXCEPT !.key = SubSeq(c.key, 1, Half), !.val = SubSeq(c.val, 1, Half)]
           par == Adopt(t.node[p], k, e, n)
           F == [t.node EXCEPT ![a] = old, ![p] = par]
           u == SplitLeaf(t, a)
<1>1. t \in Trees(V) /\ t.node \in Seq(Nodes(V)) /\ c \in Nodes(V) /\ n \in Nat /\ Len(t.node) \in Nat
      /\ DOMAIN t.node = 1..Len(t.node) /\ NodeOK(t, g, a)
  BY NodeFields DEF Shape
<1>2. /\ p \in DOMAIN t.node /\ ~t.node[p].isLeaf /\ i \in 1..Len(t.node[p].child) /\ t.node[p].child[i] = a
      /\ Len(t.node[p].child) = Len(t.node[p].key) + 1
  BY PlaceOf
<1>3. p # a BY <1>2
<1>h. Half \in Nat /\ M \in Nat /\ Half >= 2 /\ M = 2 * Half BY MIs
<1>4. c.key \in Seq(Int) /\ c.val \in Seq(V) /\ c.child \in Seq(Nat) /\ Len(c.key) = M BY <1>1 DEF Nodes
<1>5. Len(c.val) = M /\ c.child = <<>> BY <1>1, <1>4 DEF NodeOK, LeafOK
<1>6. k \in Int /\ e \in Int
  <2>1. \A q \in 1..Len(c.key) : c.key[q] \in Int BY <1>4
  <2>2. Half \in 1..Len(c.key) /\ Half + 1 \in 1..Len(c.key) BY <1>4, <1>h
  <2>q. QED BY <2>1, <2>2
<1>7. /\ SubSeq(c.key, Half + 1, M) \in Seq(Int) /\ SubSeq(c.key, 1, Half) \in Seq(Int)
      /\ SubSeq(c.val, Half + 1, M) \in Seq(V) /\ SubSeq(c.val, 1, Half) \in Seq(V)
  <2>1. /\ Half + 1 \in 1..(M + 1) /\ Half + 1 <= M + 1 /\ M <= M /\ 1 \in 1..(M + 1) /\ 1 <= Half + 1 /\ Half <= M
    BY <1>h
  <2>2. SubSeq(c.key, Half + 1, M) \in Seq(Int) BY <2>1, <1>4, <1>h, CutIs
  <2>3. SubSeq(c.key, 1, Half) \in Seq(Int) BY <2>1, <1>4, <1>h, CutIs
  <2>4. SubSeq(c.val, Half + 1, M) \in Seq(V) BY <2>1, <1>4, <1>5, <1>h, CutIs
  <2>5. SubSeq(c.val, 1, Half) \in Seq(V) BY <2>1, <1>4, <1>5, <1>h, CutIs
  <2>q. QED BY <2>2, <2>3, <2>4, <2>5
<1>8. new \in Nodes(V) /\ old \in Nodes(V)
  <2> DEFINE x1 == SubSeq(c.key, Half + 1, M)
             x2 == SubSeq(c.val, Half + 1, M)
             y1 == SubSeq(c.key, 1, Half)
             y2 == SubSeq(c.val, 1, Half)
  <2>1. x1 \in Seq(Int) /\ x2 \in Seq(V) /\ y1 \in Seq(Int) /\ y2 \in Seq(V) BY <1>7
  <2> HIDE DEF x1, x2, y1, y2
  <2>2. [c EXCEPT !.key = x1, !.val = x2] \in Nodes(V) /\ [c EXCEPT !.key = y1, !.val = y2] \in Nodes(V)
    BY <1>1, <2>1 DEF Nodes
  <2>q. QED BY <2>2 DEF x1, x2, y1, y2
<1>9. /\ par \in Nodes(V)
      /\ par = [t.node[p] EXCEPT !.key = InsertAt(t.node[p].key, i, e), !.child = InsertAt(t.node[p].child, i + 1, n)]
  <2>1. t.node[p] \in Nodes(V) BY <1>1, <1>2
  <2>2. i \in 1..(Len(t.node[p].key) + 1) BY <1>2
  <2> DEFINE d == t.node[p]
  <2>3. d \in Nodes(V) /\ k \in Int /\ e \in Int /\ n \in Nat /\ i = lower_bound(d.key, k)
        /\ i \in 1..(Len(d.key) + 1) /\ Len(d.child) = Len(d.key) + 1 BY <2>1, <2>2, <1>1, <1>2, <1>6
  <2> HIDE DEF k, e, n, d, i
  <2>4. Adopt(d, k, e, n) \in Nodes(V) BY <2>3, AdoptIs
  <2>5. Adopt(d, k, e, n) = [d EXCEPT !.key = InsertAt(d.key, i, e), !.child = InsertAt(d.child, i + 1, n)]
    BY <2>3 DEF Adopt
  <2>q. QED BY <2>4, <2>5 DEF d
<1>10. new.key[1] = k /\ Last(old.key) = e
  <2>1. new.key = SubSeq(c.key, Half + 1, M) /\ old.key = SubSeq(c.key, 1, Half) BY <1>1 DEF Nodes
  <2>2. /\ Half + 1 \in 1..(M + 1) /\ Half + 1 <= M + 1 /\ M <= M /\ 1 \in 1..(M + 1) /\ 1 <= Half + 1 /\ Half <= M
        /\ Half - 1 + 1 = Half /\ 1 + Half - 1 = Half /\ 1 \in 1..(M - (Half + 1) + 1) /\ Half + 1 + 1 - 1 = Half + 1
        /\ Half \in 1..(Half - 1 + 1)
    BY <1>h
  <2>3. SubSeq(c.key, Half + 1, M)[1] = c.key[Half + 1 + 1 - 1] BY <2>2, <1>4, <1>h, CutIs
  <2>4. Len(SubSeq(c.key, 1, Half)) = Half /\ SubSeq(c.key, 1, Half)[Half] = c.key[1 + Half - 1]
    BY <2>2, <1>4, <1>h, CutIs
  <2>q. QED BY <2>1, <2>2, <2>3, <2>4 DEF Last
<1>11. u = [t EXCEPT !.node = Append(F, new)]
  <2> DEFINE new0 == [c EXCEPT !.key = SubSeq(c.key, Half + 1, Len(c.key)), !.val = SubSeq(c.val, Half + 1, Len(c.val))]
             left == [t.node EXCEPT ![a] = old, ![p] = Adopt(t.node[p], new0.key[1], Last(old.key), n)]
  <2>1. Half = M \div 2 BY DEF Half
  <2>2. u = [t EXCEPT !.node = Append(left, new0)] BY <2>1, <1>3 DEF SplitLeaf
  <2>3. new0 = new BY <1>4, <1>5
  <2>5. Last(old.key) = e /\ new.key[1] = k BY <1>10
  <2>7. Adopt(t.node[p], new0.key[1], Last(old.key), n) = par
    <3> HIDE DEF new0, new, old, e, k
    <3>q. QED BY <2>3, <2>5
  <2> HIDE DEF new0, new, par, u, n, old
  <2>q. QED BY <2>2, <2>3, <2>7
<1> HIDE DEF u, par, new, old
<1>12. F \in Seq(Nodes(V)) /\ Len(F) = Len(t.node)
       /\ F[a] = old /\ F[p] = par /\ \A b \in DOMAIN t.node : b # a /\ b # p => F[b] = t.node[b]
  <2> HIDE DEF p
  <2>q. QED BY <1>1, <1>2, <1>3, <1>8, <1>9
<1> HIDE DEF F
<1>13. /\ Append(F, new) \in Seq(Nodes(V)) /\ Len(Append(F, new)) = n /\ Append(F, new)[n] = new
       /\ \A b \in DOMAIN t.node : Append(F, new)[b] = F[b]
  BY SMTT(30), <1>1, <1>8, <1>12, AppendIs
<1>14. u.node = Append(F, new) /\ u.root = t.root /\ u.depth = t.depth /\ u \in Trees(V)
  <2> DEFINE G == Append(F, new)
  <2>1. G \in Seq(Nodes(V)) /\ u = [t EXCEPT !.node = G] BY <1>11, <1>13
  <2> HIDE DEF G
  <2>q. QED BY <2>1, <1>1 DEF Trees, G
<1>15. new.child = <<>> BY <1>1, <1>5 DEF new, Nodes
<1>16. Middle(c) = Half BY DEF Middle
<1>17. Cut(t, u, a, i)
  <2>1. Len(u.node) = n /\ u.node[n] = new /\ u.node[a] = old /\ u.node[p] = par
        /\ \A b \in DOMAIN t.node : b # a /\ b # p => u.node[b] = t.node[b]
    BY <1>2, <1>12, <1>13, <1>14
  <2>2. Range(new.child) = {} BY <1>15 DEF Range
  <2>3. new = [c EXCEPT !.key = SubSeq(c.key, Half + 1, M),
                                 !.val = IF c.isLeaf THEN SubSeq(c.val, Half + 1, M) ELSE c.val,
                                 !.child = IF c.isLeaf THEN c.child ELSE SubSeq(c.child, Half + 1, M + 1)]
    BY <1>1 DEF new, Nodes
  <2>4. old = [c EXCEPT !.key = SubSeq(c.key, 1, Half),
                                 !.val = IF c.isLeaf THEN SubSeq(c.val, 1, Half) ELSE c.val,
                                 !.child = IF c.isLeaf THEN c.child ELSE SubSeq(c.child, 1, Half + 1)]
    BY <1>1 DEF old, Nodes
  <2> HIDE DEF n, p, i, c
  <2>q. QED BY <2>1, <2>2, <2>3, <2>4, <1>9, <1>14, <1>16 DEF Cut, n, p, e, c
<1>q. QED BY <1>1, <1>2, <1>4, <1>14, <1>17 DEF Splits, u

LEMMA SplitInnerIs ==
  ASSUME NEW V, NEW t, NEW g, NEW a, Shape(t, g, V, a), a \in DOMAIN t.node, a # t.root,
         Len(t.node[a].key) = M, ~t.node[a].isLeaf
  PROVE  \E i : Splits(t, g, V, a, i, SplitInner(t, a))
<1> DEFINE c == t.node[a]
           p == c.parent
           n == Len(t.node) + 1
           k == c.key[Half + 1]
           i == lower_bound(t.node[p].key, k)
           new == [c EXCEPT !.key = SubSeq(c.key, Half + 1 + 1, M), !.child = SubSeq(c.child, Half + 1 + 1, M + 1)]
           old == [c EXCEPT !.key = SubSeq(c.key, 1, Half), !.child = SubSeq(c.child, 1, Half + 1)]
           par == Adopt(t.node[p], k, k, n)
           F == [t.node EXCEPT ![a] = old, ![p] = par]
           H == [b \in DOMAIN F |-> IF b \in Range(new.child) THEN [F[b] EXCEPT !.parent = n] ELSE F[b]]
           u == SplitInner(t, a)
<1>1. t \in Trees(V) /\ t.node \in Seq(Nodes(V)) /\ c \in Nodes(V) /\ n \in Nat /\ Len(t.node) \in Nat
      /\ DOMAIN t.node = 1..Len(t.node) /\ NodeOK(t, g, a) /\ GhostOK(t, g)
  BY NodeFields DEF Shape
<1>2. /\ p \in DOMAIN t.node /\ ~t.node[p].isLeaf /\ i \in 1..Len(t.node[p].child) /\ t.node[p].child[i] = a
      /\ Len(t.node[p].child) = Len(t.node[p].key) + 1 /\ g.lev[a] + 1 = g.lev[p]
  BY PlaceOf
<1>l. g.lev[a] \in Nat /\ g.lev[p] \in Nat BY <1>1, <1>2 DEF GhostOK
<1>3. p # a BY <1>2, <1>l
<1>h. Half \in Nat /\ M \in Nat /\ Half >= 2 /\ M = 2 * Half BY MIs
<1>4. c.key \in Seq(Int) /\ c.val \in Seq(V) /\ c.child \in Seq(Nat) /\ Len(c.key) = M BY <1>1 DEF Nodes
<1>i. InnerOK(t, g, a) BY <1>1 DEF NodeOK
<1>5. Len(c.child) = M + 1 BY <1>4, <1>i DEF InnerOK
<1>6. k \in Int BY <1>4, <1>h
<1>7. /\ SubSeq(c.key, Half + 1 + 1, M) \in Seq(Int) /\ SubSeq(c.key, 1, Half) \in Seq(Int)
      /\ SubSeq(c.child, Half + 1 + 1, M + 1) \in Seq(Nat) /\ SubSeq(c.child, 1, Half + 1) \in Seq(Nat)
  <2> DEFINE x == Half + 1 + 1
             y == M + 1
             z == Half + 1
  <2>1. /\ x \in 1..(M + 1) /\ x \in 1..(y + 1) /\ x <= M + 1 /\ x <= y + 1 /\ M <= M /\ y <= y
        /\ 1 \in 1..(M + 1) /\ 1 \in 1..(y + 1) /\ 1 <= Half + 1 /\ 1 <= z + 1 /\ Half <= M /\ z <= y
        /\ x \in Nat /\ y \in Nat /\ z \in Nat
    BY <1>h
  <2>l. Len(c.child) = y /\ Len(c.key) = M BY <1>4, <1>5
  <2> HIDE DEF x, y, z, c
  <2>2. SubSeq(c.key, x, M) \in Seq(Int) BY <2>1, <2>l, <1>4, <1>h, CutIs
  <2>3. SubSeq(c.key, 1, Half) \in Seq(Int) BY <2>1, <2>l, <1>4, <1>h, CutIs
  <2>4. SubSeq(c.child, x, y) \in Seq(Nat) BY <2>1, <2>l, <1>4, CutIs
  <2>5. SubSeq(c.child, 1, z) \in Seq(Nat) BY <2>1, <2>l, <1>4, CutIs
  <2>q. QED BY <2>2, <2>3, <2>4, <2>5, Zenon DEF x, y, z
<1>8. new \in Nodes(V) /\ old \in Nodes(V) /\ new.child = SubSeq(c.child, Half + 1 + 1, M + 1)
      /\ new.isLeaf = c.isLeaf
  <2> DEFINE x1 == SubSeq(c.key, Half + 1 + 1, M)
             x2 == SubSeq(c.child, Half + 1 + 1, M + 1)
             y1 == SubSeq(c.key, 1, Half)
             y2 == SubSeq(c.child, 1, Half + 1)
  <2>1. x1 \in Seq(Int) /\ x2 \in Seq(Nat) /\ y1 \in Seq(Int) /\ y2 \in Seq(Nat) BY <1>7
  <2> HIDE DEF x1, x2, y1, y2
  <2>2. [c EXCEPT !.key = x1, !.child = x2] \in Nodes(V) /\ [c EXCEPT !.key = y1, !.child = y2] \in Nodes(V)
        /\ [c EXCEPT !.key = x1, !.child = x2].child = x2 /\ [c EXCEPT !.key = x1, !.child = x2].isLeaf = c.isLeaf
    BY <1>1, <2>1 DEF Nodes
  <2>q. QED BY <2>2 DEF x1, x2, y1, y2
<1>9. /\ par \in Nodes(V)
      /\ par = [t.node[p] EXCEPT !.key = InsertAt(t.node[p].key, i, k), !.child = InsertAt(t.node[p].child, i + 1, n)]
  <2>1. t.node[p] \in Nodes(V) BY <1>1, <1>2
  <2>2. i \in 1..(Len(t.node[p].key) + 1) BY <1>2
  <2> DEFINE d == t.node[p]
  <2>3. d \in Nodes(V) /\ k \in Int /\ n \in Nat /\ i = lower_bound(d.key, k)
        /\ i \in 1..(Len(d.key) + 1) /\ Len(d.child) = Len(d.key) + 1 BY <2>1, <2>2, <1>1, <1>2, <1>6
  <2> HIDE DEF k, n, d, i
  <2>4. Adopt(d, k, k, n) \in Nodes(V) BY <2>3, AdoptIs
  <2>5. Adopt(d, k, k, n) = [d EXCEPT !.key = InsertAt(d.key, i, k), !.child = InsertAt(d.child, i + 1, n)]
    BY <2>3 DEF Adopt
  <2>q. QED BY <2>4, <2>5 DEF d
<1>11. u = [t EXCEPT !.node = Append(H, new)]
  <2> DEFINE hh == Half + 1
             new0 == [c EXCEPT !.key = SubSeq(c.key, hh + 1, Len(c.key)), !.child = SubSeq(c.child, hh + 1, Len(c.child))]
             old0 == [c EXCEPT !.key = SubSeq(c.key, 1, hh - 1), !.child = SubSeq(c.child, 1, hh)]
             left == [t.node EXCEPT ![a] = old0, ![p] = Adopt(t.node[p], c.key[hh], c.key[hh], n)]
             H0 == [b \in DOMAIN left |-> IF b \in Range(new0.child) THEN [left[b] EXCEPT !.parent = n] ELSE left[b]]
  <2>1. hh = M \div 2 + 1 BY DEF Half
  <2>2. u = [t EXCEPT !.node = Append(H0, new0)]
    <3> HIDE DEF hh
    <3>q. QED BY <2>1, <1>3 DEF SplitInner
  <2>3. new0 = new BY <1>4, <1>5
  <2>4. hh - 1 = Half BY <1>h
  <2>5. old0 = old BY <2>4
  <2>6. left = F BY <2>5
  <2>7. H0 = H BY <2>3, <2>6
  <2> HIDE DEF new0, new, H0, H, u, n
  <2>q. QED BY <2>2, <2>3, <2>7
<1> HIDE DEF u, par, new, old
<1>12. F \in Seq(Nodes(V)) /\ Len(F) = Len(t.node)
       /\ F[a] = old /\ F[p] = par /\ \A b \in DOMAIN t.node : b # a /\ b # p => F[b] = t.node[b]
  <2> HIDE DEF p
  <2>q. QED BY <1>1, <1>2, <1>3, <1>8, <1>9
<1> HIDE DEF F
<1>d. DOMAIN F = DOMAIN t.node BY <1>1, <1>12
<1>13. H \in Seq(Nodes(V)) /\ Len(H) = Len(t.node)
  <2>1. \A b \in DOMAIN t.node : F[b] \in Nodes(V) BY <1>12, <1>d
  <2>2. \A b \in DOMAIN t.node : [F[b] EXCEPT !.parent = n] \in Nodes(V)
    <3> HIDE DEF n
    <3>q. QED BY <2>1, <1>1 DEF Nodes
  <2>3. \A b \in DOMAIN t.node : H[b] \in Nodes(V) BY <2>1, <2>2, <1>d
  <2>4. H \in [1..Len(t.node) -> Nodes(V)]
    <3>1. DOMAIN H = 1..Len(t.node) /\ H = [b \in DOMAIN H |-> H[b]] BY <1>1, <1>d
    <3> HIDE DEF H
    <3>q. QED BY <3>1, <2>3, <1>1
  <2> HIDE DEF H
  <2>q. QED BY <2>4, <1>1
<1>14. \A b \in DOMAIN t.node : H[b] = IF b \in Range(new.child) THEN [F[b] EXCEPT !.parent = n] ELSE F[b]
  BY <1>d
<1>r. a \notin Range(new.child) /\ p \notin Range(new.child)
  <2>1. ASSUME NEW b \in Range(new.child) PROVE g.lev[b] + 1 = g.lev[a] /\ g.lev[b] \in Nat
    <3>x. PICK x : x = Half + 1 + 1 OBVIOUS
    <3>y. PICK y : y = M + 1 OBVIOUS
    <3>0. x \in 1..(Len(c.child) + 1) /\ y \in Nat /\ x <= y + 1 /\ y <= Len(c.child) /\ x \in Nat /\ x >= 1
      BY <3>x, <3>y, <1>5, <1>h
    <3>1. new.child = SubSeq(c.child, x, y) BY <3>x, <3>y, <1>8
    <3>c. c.child \in Seq(Nat) BY <1>4
    <3>2. Len(SubSeq(c.child, x, y)) = y - x + 1 /\ \A j \in 1..(y - x + 1) : SubSeq(c.child, x, y)[j] = c.child[x + j - 1]
      <4> HIDE DEF c
      <4>q. QED BY <3>0, <3>c, CutIs
    <3>3. DOMAIN new.child = 1..(y - x + 1)
      <4>1. new.child \in Seq(Nat) BY <1>8 DEF Nodes
      <4>q. QED BY <4>1, <3>1, <3>2
    <3>4. PICK j \in 1..(y - x + 1) : b = new.child[j] BY <3>3 DEF Range
    <3>5. b = c.child[x + j - 1] BY <3>1, <3>2, <3>4
    <3>6. x + j - 1 \in 1..Len(c.child)
      <4>1. x \in Nat /\ y \in Nat /\ x >= 1 /\ y = Len(c.child) BY <3>0, <3>y, <1>5
      <4> HIDE DEF c
      <4>q. QED BY <4>1
    <3>7. ChildOK(t, g, a, x + j - 1) BY <3>6, <1>i DEF InnerOK
    <3>8. b \in DOMAIN t.node /\ g.lev[b] + 1 = g.lev[a] BY <3>5, <3>7 DEF ChildOK
    <3>q. QED BY <3>8, <1>1 DEF GhostOK
  <2>2. a \notin Range(new.child) BY <2>1
  <2>3. p \notin Range(new.child)
    <3>1. ~(g.lev[p] + 1 = g.lev[a]) BY <1>2, <1>l
    <3>q. QED BY <2>1, <3>1
  <2>q. QED BY <2>2, <2>3
<1>15. /\ H[a] = old /\ H[p] = par
       /\ \A b \in DOMAIN t.node : b # a /\ b # p =>
            H[b] = IF b \in Range(new.child) THEN [t.node[b] EXCEPT !.parent = n] ELSE t.node[b]
  <2> HIDE DEF H
  <2>q. QED BY <1>2, <1>12, <1>14, <1>r
<1> HIDE DEF H
<1>16. /\ Append(H, new) \in Seq(Nodes(V)) /\ Len(Append(H, new)) = n /\ Append(H, new)[n] = new
       /\ \A b \in DOMAIN t.node : Append(H, new)[b] = H[b]
  BY SMTT(30), <1>1, <1>8, <1>13, AppendIs
<1>17. u.node = Append(H, new) /\ u.root = t.root /\ u.depth = t.depth /\ u \in Trees(V)
  <2> DEFINE G == Append(H, new)
  <2>1. G \in Seq(Nodes(V)) /\ u = [t EXCEPT !.node = G] BY <1>11, <1>16
  <2> HIDE DEF G
  <2>q. QED BY <2>1, <1>1 DEF Trees, G
<1>18. Middle(c) = Half + 1 BY DEF Middle
<1>19. Cut(t, u, a, i)
  <2>1. Len(u.node) = n /\ u.node[n] = new /\ u.node[a] = old /\ u.node[p] = par
        /\ \A b \in DOMAIN t.node : b # a /\ b # p =>
            u.node[b] = IF b \in Range(new.child) THEN [t.node[b] EXCEPT !.parent = n] ELSE t.node[b]
    BY <1>2, <1>15, <1>16, <1>17
  <2>3. new = [c EXCEPT !.key = SubSeq(c.key, Half + 1 + 1, M),
                                 !.val = IF c.isLeaf THEN SubSeq(c.val, Half + 1 + 1, M) ELSE c.val,
                                 !.child = IF c.isLeaf THEN c.child ELSE SubSeq(c.child, Half + 1 + 1, M + 1)]
    BY <1>1 DEF new, Nodes
  <2>4. old = [c EXCEPT !.key = SubSeq(c.key, 1, Half),
                                 !.val = IF c.isLeaf THEN SubSeq(c.val, 1, Half) ELSE c.val,
                                 !.child = IF c.isLeaf THEN c.child ELSE SubSeq(c.child, 1, Half + 1)]
    BY <1>1 DEF old, Nodes
  <2> HIDE DEF n, p, i, c
  <2>q. QED BY <2>1, <2>3, <2>4, <1>9, <1>17, <1>18 DEF Cut, n, p, k, c
<1>q. QED BY <1>1, <1>2, <1>4, <1>17, <1>19 DEF Splits, u

-----------------------------------------------------------------------------
(* A new root *)

GhostGrow(t, g) ==
    LET r == Len(t.node) + 1
    IN  [lev |-> [b \in 1..r |-> IF b = r THEN t.depth ELSE g.lev[b]],
         lo  |-> [b \in 1..r |-> IF b = r THEN NoBound ELSE g.lo[b]],
         hi  |-> [b \in 1..r |-> IF b = r THEN NoBound ELSE g.hi[b]]]

(* u is t with a root above its root: the old one gets a parent. *)
Rooted(t, u) ==
    LET r == Len(t.node) + 1
    IN  /\ Len(u.node) = r /\ DOMAIN u.node = DOMAIN t.node \cup {r} /\ r \notin DOMAIN t.node
        /\ u.root = r /\ u.depth = t.depth + 1
        /\ ~u.node[r].isLeaf /\ u.node[r].parent = NULL /\ u.node[r].key = <<>> /\ u.node[r].child = <<t.root>>
        /\ u.node[t.root].parent = r
        /\ \A b \in DOMAIN t.node :
             /\ u.node[b].isLeaf = t.node[b].isLeaf /\ u.node[b].key = t.node[b].key
             /\ u.node[b].val = t.node[b].val /\ u.node[b].child = t.node[b].child
             /\ b # t.root => u.node[b].parent = t.node[b].parent

(* The new root as the code makes it. *)
LEMMA RootIs ==
  ASSUME NEW c \in Seq(Nat), NEW V
  PROVE  LET x == [Node EXCEPT !.isLeaf = FALSE, !.child = c]
         IN  x \in Nodes(V) /\ ~x.isLeaf /\ x.parent = NULL /\ x.key = <<>> /\ x.val = <<>> /\ x.child = c
<1> DEFINE y == [Node EXCEPT !.isLeaf = FALSE]
           x == [y EXCEPT !.child = c]
<1>1. <<>> \in Seq(Int) /\ <<>> \in Seq(V) /\ <<>> \in Seq(Nat) /\ NULL \in Nat BY DEF NULL
<1>2. Node \in Nodes(V) BY <1>1 DEF Nodes, Node
<1>3. Node.parent = NULL /\ Node.key = <<>> /\ Node.val = <<>> BY DEF Node
<1>4. y \in Nodes(V) /\ y.isLeaf = FALSE /\ y.parent = NULL /\ y.key = <<>> /\ y.val = <<>>
  BY <1>2, <1>3 DEF Nodes
<1>5. x = [Node EXCEPT !.isLeaf = FALSE, !.child = c] BY Zenon
<1> HIDE DEF y
<1>6. x \in Nodes(V) /\ x.isLeaf = FALSE /\ x.parent = NULL /\ x.key = <<>> /\ x.val = <<>> /\ x.child = c
  BY <1>4 DEF Nodes
<1>q. QED BY <1>5, <1>6

LEMMA GrowIs ==
  ASSUME NEW V, NEW t \in Trees(V), t.root \in DOMAIN t.node
  PROVE  GrowRoot(t) \in Trees(V) /\ Rooted(t, GrowRoot(t))
<1> DEFINE r == Len(t.node) + 1
           new == [Node EXCEPT !.isLeaf = FALSE, !.child = <<t.root>>]
           old == [t.node[t.root] EXCEPT !.parent = r]
           F == [t.node EXCEPT ![t.root] = old]
           u == GrowRoot(t)
<1>1. /\ t.node \in Seq(Nodes(V)) /\ DOMAIN t.node = 1..Len(t.node) /\ Len(t.node) \in Nat /\ r \in Nat
      /\ t.node[t.root] \in Nodes(V) /\ t.root \in Nat /\ t.depth \in Nat
  BY NodeFields
<1>2. new \in Nodes(V) /\ ~new.isLeaf /\ new.parent = NULL /\ new.key = <<>> /\ new.child = <<t.root>>
  <2>1. <<t.root>> \in Seq(Nat) BY <1>1
  <2>q. QED BY <2>1, RootIs
<1>3. /\ old \in Nodes(V) /\ old.isLeaf = t.node[t.root].isLeaf /\ old.key = t.node[t.root].key
      /\ old.val = t.node[t.root].val /\ old.child = t.node[t.root].child /\ old.parent = r
  <2> HIDE DEF r
  <2>q. QED BY <1>1 DEF Nodes
<1>4. u = [node |-> Append(F, new), root |-> r, depth |-> t.depth + 1]
  <2>1. [t.node EXCEPT ![t.root].parent = r] = F OBVIOUS
  <2>q. QED BY <2>1, Zenon DEF GrowRoot
<1> HIDE DEF old, new
<1>5. F \in Seq(Nodes(V)) /\ Len(F) = Len(t.node) /\ F[t.root] = old /\ \A b \in DOMAIN t.node : b # t.root => F[b] = t.node[b]
  BY <1>1, <1>3
<1> HIDE DEF F
<1>6. /\ Append(F, new) \in Seq(Nodes(V)) /\ Len(Append(F, new)) = r /\ Append(F, new)[r] = new
      /\ \A b \in DOMAIN t.node : Append(F, new)[b] = F[b]
  BY <1>1, <1>2, <1>5, AppendIs
<1> DEFINE G == Append(F, new)
<1>7. u \in Trees(V) /\ u.node = G /\ u.root = r /\ u.depth = t.depth + 1
  <2>1. G \in Seq(Nodes(V)) /\ r \in Nat /\ t.depth + 1 \in Nat BY <1>1, <1>6
  <2>2. u = [node |-> G, root |-> r, depth |-> t.depth + 1] BY <1>4
  <2> HIDE DEF G, u, r
  <2>q. QED BY <2>1, <2>2 DEF Trees
<1>8. DOMAIN u.node = DOMAIN t.node \cup {r} /\ r \notin DOMAIN t.node
  <2>1. DOMAIN u.node = 1..r BY <1>6, <1>7
  <2>q. QED BY <2>1, <1>1
<1>9. u.node[r] = new /\ u.node[t.root] = old /\ Len(u.node) = r
      /\ \A b \in DOMAIN t.node : b # t.root => u.node[b] = t.node[b]
  BY <1>5, <1>6, <1>7
<1>10. ~u.node[r].isLeaf /\ u.node[r].parent = NULL /\ u.node[r].key = <<>> /\ u.node[r].child = <<t.root>>
  <2> HIDE DEF u, r
  <2>q. QED BY <1>2, <1>9
<1>11. \A b \in DOMAIN t.node :
             /\ u.node[b].isLeaf = t.node[b].isLeaf /\ u.node[b].key = t.node[b].key
             /\ u.node[b].val = t.node[b].val /\ u.node[b].child = t.node[b].child
             /\ b # t.root => u.node[b].parent = t.node[b].parent
  <2> HIDE DEF u, r
  <2>q. QED BY <1>3, <1>9
<1>12. u.node[t.root].parent = r
  <2> HIDE DEF u, r
  <2>q. QED BY <1>3, <1>9
<1> HIDE DEF u
<1>q. QED BY <1>7, <1>8, <1>9, <1>10, <1>11, <1>12 DEF Rooted, u

LEMMA GrowShape ==
  ASSUME NEW V, NEW t, NEW g, NEW f, Shape(t, g, V, f), f \in DOMAIN t.node, t.node[t.root].key # <<>>,
         NEW u \in Trees(V), Rooted(t, u)
  PROVE  Shape(u, GhostGrow(t, g), V, f)
<1> DEFINE r == Len(t.node) + 1
<1>h. PICK h : h = GhostGrow(t, g) OBVIOUS
<1>1. /\ t \in Trees(V) /\ GhostOK(t, g) /\ RootOK(t, g)
      /\ \A a \in DOMAIN t.node : /\ NodeOK(t, g, a) /\ LeftOK(t, g, a)
                                  /\ IF a = f THEN Len(t.node[a].key) <= M ELSE Len(t.node[a].key) < M
  BY DEF Shape
<1>2. /\ DOMAIN t.node = 1..Len(t.node) /\ Len(t.node) \in Nat /\ r \in Nat /\ t.depth \in Nat /\ t.root \in DOMAIN t.node
      /\ t.root \in Nat
  BY <1>1, NodeFields DEF RootOK
<1>3. /\ Len(u.node) = r /\ DOMAIN u.node = DOMAIN t.node \cup {r} /\ r \notin DOMAIN t.node
      /\ u.root = r /\ u.depth = t.depth + 1
      /\ ~u.node[r].isLeaf /\ u.node[r].parent = NULL /\ u.node[r].key = <<>> /\ u.node[r].child = <<t.root>>
      /\ u.node[t.root].parent = r
  BY DEF Rooted
<1>4. \A b \in DOMAIN t.node :
             /\ u.node[b].isLeaf = t.node[b].isLeaf /\ u.node[b].key = t.node[b].key
             /\ u.node[b].val = t.node[b].val /\ u.node[b].child = t.node[b].child
             /\ b # t.root => u.node[b].parent = t.node[b].parent
  BY DEF Rooted
<1>5. /\ h.lev = [b \in 1..r |-> IF b = r THEN t.depth ELSE g.lev[b]]
      /\ h.lo = [b \in 1..r |-> IF b = r THEN NoBound ELSE g.lo[b]]
      /\ h.hi = [b \in 1..r |-> IF b = r THEN NoBound ELSE g.hi[b]]
  BY <1>h DEF GhostGrow
<1>d. DOMAIN u.node = 1..r BY <1>2, <1>3
<1> HIDE DEF r
<1>6. h.lev[r] = t.depth /\ h.lo[r] = NoBound /\ h.hi[r] = NoBound
  <2>1. r \in 1..r BY <1>3, <1>d
  <2>q. QED BY <2>1, <1>5
<1>7. \A b \in DOMAIN t.node : h.lev[b] = g.lev[b] /\ h.lo[b] = g.lo[b] /\ h.hi[b] = g.hi[b]
  <2>1. \A b \in DOMAIN t.node : b \in 1..r /\ b # r BY <1>3, <1>d
  <2>q. QED BY <2>1, <1>5
<1>8. GhostOK(u, h)
  <2>1. \A b \in DOMAIN t.node : g.lev[b] \in Nat /\ g.lev[b] < t.depth /\ g.lo[b] \in Bounds /\ g.hi[b] \in Bounds
    BY <1>1 DEF GhostOK
  <2>2. \A b \in DOMAIN u.node : h.lev[b] \in Nat /\ h.lev[b] < u.depth /\ h.lo[b] \in Bounds /\ h.hi[b] \in Bounds
    <3>1. ASSUME NEW b \in DOMAIN t.node
          PROVE  h.lev[b] \in Nat /\ h.lev[b] < u.depth /\ h.lo[b] \in Bounds /\ h.hi[b] \in Bounds
      BY SMTT(30), <2>1, <1>2, <1>3, <1>7
    <3>2. h.lev[r] \in Nat /\ h.lev[r] < u.depth /\ h.lo[r] \in Bounds /\ h.hi[r] \in Bounds
      BY <1>2, <1>3, <1>6 DEF Bounds
    <3>q. QED BY <3>1, <3>2, <1>3
  <2>3. h.lev \in [1..r -> Nat] /\ h.lo \in [1..r -> Bounds] /\ h.hi \in [1..r -> Bounds] BY <1>5, <1>d, <2>2
  <2>q. QED BY <2>2, <2>3, <1>d DEF GhostOK
<1>9. RootOK(u, h) BY <1>2, <1>3, <1>6 DEF RootOK
<1>10. t.depth # 0 /\ g.lev[t.root] + 1 = t.depth /\ g.lo[t.root] = NoBound /\ g.hi[t.root] = NoBound
  <2>1. g.lev[t.root] + 1 = t.depth /\ g.lo[t.root] = NoBound /\ g.hi[t.root] = NoBound BY <1>1 DEF RootOK
  <2>2. g.lev[t.root] \in Nat BY <1>1, <1>2 DEF GhostOK
  <2>q. QED BY <2>1, <2>2
<1>11. NodeOK(u, h, r)
  <2>1. ~u.node[r].isLeaf /\ h.lev[r] # 0 BY <1>3, <1>6, <1>10
  <2>2. KeysOK(u.node[r], h.lo[r], h.hi[r])
    <3>1. u.node[r].key = <<>> /\ Len(<<>>) = 0 BY <1>3
    <3>q. QED BY <3>1, <1>6 DEF KeysOK, Sorted
  <2>3. ParentOK(u, r) BY <1>3 DEF ParentOK
  <2>4. InnerOK(u, h, r)
    <3>1. Len(u.node[r].child) = 1 /\ Len(u.node[r].key) = 0 /\ u.node[r].child[1] = t.root BY <1>3
    <3>2. ChildOK(u, h, r, 1) BY <3>1, <1>2, <1>3, <1>6, <1>7, <1>10 DEF ChildOK
    <3>3. RunOK(u, h, r) BY <1>6 DEF RunOK
    <3>4. \A i \in 1..1 : i = 1 OBVIOUS
    <3>q. QED BY <3>1, <3>2, <3>3, <3>4 DEF InnerOK
  <2>q. QED BY <2>1, <2>2, <2>3, <2>4 DEF NodeOK
<1>12. ASSUME NEW b \in DOMAIN t.node PROVE NodeOK(u, h, b)
  <2>1. NodeOK(t, g, b) BY <1>1
  <2>2. /\ u.node[b].isLeaf = t.node[b].isLeaf /\ u.node[b].key = t.node[b].key
        /\ u.node[b].val = t.node[b].val /\ u.node[b].child = t.node[b].child
        /\ h.lev[b] = g.lev[b] /\ h.lo[b] = g.lo[b] /\ h.hi[b] = g.hi[b]
    BY <1>4, <1>7
  <2>3. (u.node[b].isLeaf <=> h.lev[b] = 0) /\ KeysOK(u.node[b], h.lo[b], h.hi[b]) BY <2>1, <2>2 DEF NodeOK, KeysOK
  <2>4. u.node[b].isLeaf => LeafOK(u.node[b], h.hi[b]) BY <2>1, <2>2 DEF NodeOK, LeafOK
  <2>5. ParentOK(u, b)
    <3>1. CASE b = t.root
      <4>1. u.node[b].parent = r /\ u.node[b].key # <<>> BY <3>1, <2>2, <1>3
      <4>2. u.node[r].child[1] = b /\ 1 \in 1..Len(u.node[r].child) BY <3>1, <1>3
      <4>q. QED BY <4>1, <4>2, <1>3 DEF ParentOK
    <3>2. CASE b # t.root
      <4>1. ParentOK(t, b) BY <2>1 DEF NodeOK
      <4> DEFINE q == t.node[b].parent
      <4>2. /\ t.node[b].key # <<>> /\ q \in DOMAIN t.node /\ ~t.node[q].isLeaf
            /\ \E i \in 1..Len(t.node[q].child) : t.node[q].child[i] = b
        BY <4>1, <3>2 DEF ParentOK
      <4>3. u.node[q].isLeaf = t.node[q].isLeaf /\ u.node[q].child = t.node[q].child /\ q \in DOMAIN u.node BY <4>2, <1>3, <1>4
      <4>4. u.node[b].parent = q BY <3>2, <1>4
      <4> HIDE DEF q
      <4>q. QED BY <4>2, <4>3, <4>4, <2>2 DEF ParentOK
    <3>q. QED BY <3>1, <3>2
  <2>6. ASSUME ~t.node[b].isLeaf PROVE InnerOK(u, h, b)
    <3>1. InnerOK(t, g, b) BY <2>1, <2>6 DEF NodeOK
    <3>2. ASSUME NEW i \in 1..Len(t.node[b].child) PROVE ChildOK(u, h, b, i) /\ t.node[b].child[i] \in DOMAIN t.node
      <4>1. ChildOK(t, g, b, i) BY <3>1 DEF InnerOK
      <4>2. PICK d : d = t.node[b].child[i] OBVIOUS
      <4>3. d \in DOMAIN t.node /\ d # t.root /\ t.node[d].parent = b BY <4>1, <4>2 DEF ChildOK
      <4>4. d \in DOMAIN u.node /\ d # u.root /\ u.node[d].parent = b BY <4>3, <1>3, <1>4
      <4>5. h.lev[d] = g.lev[d] /\ h.lo[d] = g.lo[d] /\ h.hi[d] = g.hi[d] BY <4>3, <1>7
      <4>6. ChildOK(u, h, b, i) BY <4>1, <4>2, <4>4, <4>5, <2>2 DEF ChildOK
      <4>q. QED BY <4>2, <4>3, <4>6
    <3>3. RunOK(u, h, b)
      <4>1. RunOK(t, g, b) BY <3>1 DEF InnerOK
      <4>2. ASSUME NEW i \in 1..Len(t.node[b].child), NEW d, d = t.node[b].child[i]
            PROVE  h.lo[d] = g.lo[d] /\ h.hi[d] = g.hi[d] /\ u.node[d].key = t.node[d].key
        BY <3>2, <4>2, <1>4, <1>7
      <4>3. SUFFICES ASSUME h.lev[b] = 1, h.lo[b] # NoBound, Len(u.node[b].key) >= Half, u.node[b].key[Half] = h.lo[b],
                            NEW i \in 1..Len(u.node[b].child), NEW d, d = u.node[b].child[i],
                            h.lo[d] = h.lo[b], h.hi[d] # h.lo[b], Len(u.node[d].key) >= Half
                     PROVE  h.lo[b] < u.node[d].key[Half]
        BY DEF RunOK
      <4>4. i \in 1..Len(t.node[b].child) /\ d = t.node[b].child[i] BY <4>3, <2>2
      <4>5. h.lo[d] = g.lo[d] /\ h.hi[d] = g.hi[d] /\ u.node[d].key = t.node[d].key BY <4>2, <4>4
      <4>6. g.lo[b] < t.node[d].key[Half] BY <4>1, <4>3, <4>4, <4>5, <2>2 DEF RunOK
      <4>q. QED BY <4>5, <4>6, <2>2
    <3>q. QED BY <3>1, <3>2, <3>3, <2>2 DEF InnerOK
  <2>q. QED BY <2>2, <2>3, <2>4, <2>5, <2>6 DEF NodeOK
<1>13. ASSUME NEW b \in DOMAIN u.node PROVE LeftOK(u, h, b)
  <2> SUFFICES ASSUME u.node[b].isLeaf, h.lo[b] # NoBound
               PROVE  \E d \in DOMAIN u.node : u.node[d].isLeaf /\ h.hi[d] = h.lo[b] /\ Over(h.lo[d], h.hi[d])
    BY DEF LeftOK
  <2>1. b \in DOMAIN t.node BY <1>3
  <2>2. t.node[b].isLeaf /\ h.lo[b] = g.lo[b] BY <2>1, <1>4, <1>7
  <2>3. PICK d \in DOMAIN t.node : t.node[d].isLeaf /\ g.hi[d] = g.lo[b] /\ Over(g.lo[d], g.hi[d])
    BY <2>1, <2>2, <1>1 DEF LeftOK
  <2>4. d \in DOMAIN u.node /\ u.node[d].isLeaf /\ h.hi[d] = g.hi[d] /\ h.lo[d] = g.lo[d] BY <2>3, <1>3, <1>4, <1>7
  <2>q. QED BY <2>2, <2>3, <2>4
<1>14. \A b \in DOMAIN u.node : IF b = f THEN Len(u.node[b].key) <= M ELSE Len(u.node[b].key) < M
  <2>1. Len(u.node[r].key) = 0 /\ r # f BY <1>3
  <2>2. 0 < M BY TreeAssumption
  <2>q. QED BY <2>1, <2>2, <1>1, <1>3, <1>4
<1>q. QED BY <1>h, <1>3, <1>8, <1>9, <1>11, <1>12, <1>13, <1>14 DEF Shape

-----------------------------------------------------------------------------
(* What splits leave alone *)

(* The tree u holds what t holds, and its leaves are leaves still, searched *)
(* from the same low bounds on.                                             *)
Follows(t, g, u, h) ==
    /\ DOMAIN t.node \subseteq DOMAIN u.node
    /\ StoredKeys(u) = StoredKeys(t)
    /\ \A k \in Int : lookup(u, k, NULL) = lookup(t, k, NULL)
    /\ \A b \in DOMAIN t.node : t.node[b].isLeaf => u.node[b].isLeaf /\ h.lo[b] = g.lo[b]

LEMMA FollowsSelf == ASSUME NEW t, NEW g PROVE Follows(t, g, t, g)
BY DEF Follows

LEMMA FollowsOn ==
  ASSUME NEW t, NEW g, NEW u, NEW h, NEW w, NEW e, Follows(t, g, u, h), Follows(u, h, w, e)
  PROVE  Follows(t, g, w, e)
<1>1. DOMAIN t.node \subseteq DOMAIN u.node /\ DOMAIN u.node \subseteq DOMAIN w.node BY DEF Follows
<1>2. DOMAIN t.node \subseteq DOMAIN w.node BY <1>1
<1>3. StoredKeys(w) = StoredKeys(t) BY DEF Follows
<1>4. \A k \in Int : lookup(w, k, NULL) = lookup(t, k, NULL) BY DEF Follows
<1>5. ASSUME NEW b \in DOMAIN t.node, t.node[b].isLeaf PROVE w.node[b].isLeaf /\ e.lo[b] = g.lo[b]
  <2>1. b \in DOMAIN u.node /\ u.node[b].isLeaf /\ h.lo[b] = g.lo[b] BY <1>5, <1>1 DEF Follows
  <2>q. QED BY <2>1 DEF Follows
<1>q. QED BY <1>2, <1>3, <1>4, <1>5 DEF Follows

(* A lookup from the root reads the leaf that the descent ends at. *)
LEMMA LookupAt ==
  ASSUME NEW V, NEW t, NEW g, NEW e, Shape(t, g, V, e), NEW k \in Int, NEW a \in DOMAIN t.node,
         t.node[a].isLeaf, a = LeafFor(t, k, NULL), NEW p, FirstNotBelow(t.node[a].key, k, p)
  PROVE  lookup(t, k, NULL) = IF p > Len(t.node[a].key) THEN Empty ELSE t.node[a].val[p]
<1>1. t.node[a].key \in Seq(Int) /\ Sorted(t.node[a].key)
  <2>1. t \in Trees(V) /\ NodeOK(t, g, a) BY DEF Shape
  <2>q. QED BY <2>1, NodeFields DEF NodeOK, KeysOK
<1>2. lower_bound(t.node[a].key, k) = p BY <1>1, LowerBoundIs, FirstNotBelowOnce
<1>q. QED BY <1>2 DEF lookup

(* The leaf b of u answers k as the leaf a of t does. *)
SameAnswer(t, a, u, b, k) ==
    \E p, q : /\ FirstNotBelow(t.node[a].key, k, p) /\ FirstNotBelow(u.node[b].key, k, q)
              /\ (p > Len(t.node[a].key)) <=> (q > Len(u.node[b].key))
              /\ ~(p > Len(t.node[a].key)) => t.node[a].val[p] = u.node[b].val[q]

LEMMA SameLookup ==
  ASSUME NEW V, NEW t, NEW g, NEW e, Shape(t, g, V, e), NEW u, NEW h, NEW f, Shape(u, h, V, f),
         NEW k \in Int, NEW a, a = LeafFor(t, k, NULL), NEW b \in DOMAIN u.node, u.node[b].isLeaf,
         Between(k, h.lo[b], h.hi[b]), SameAnswer(t, a, u, b, k)
  PROVE  lookup(u, k, NULL) = lookup(t, k, NULL)
<1>1. a \in DOMAIN t.node /\ t.node[a].isLeaf BY LeafForIs
<1>2. LeafFor(u, k, NULL) = b
  <2>1. b \in DOMAIN u.node /\ u.node[b].isLeaf /\ Between(k, h.lo[b], h.hi[b]) /\ k \in Int /\ Shape(u, h, V, f) OBVIOUS
  <2>q. QED BY <2>1, LeafForIs
<1>3. PICK p, q : /\ FirstNotBelow(t.node[a].key, k, p) /\ FirstNotBelow(u.node[b].key, k, q)
                  /\ (p > Len(t.node[a].key)) <=> (q > Len(u.node[b].key))
                  /\ ~(p > Len(t.node[a].key)) => t.node[a].val[p] = u.node[b].val[q]
  BY DEF SameAnswer
<1>4. lookup(t, k, NULL) = IF p > Len(t.node[a].key) THEN Empty ELSE t.node[a].val[p]
  <2>1. /\ a \in DOMAIN t.node /\ t.node[a].isLeaf /\ k \in Int /\ Shape(t, g, V, e)
        /\ FirstNotBelow(t.node[a].key, k, p)
    BY <1>1, <1>3
  <2>q. QED BY <2>1, LookupAt
<1>5. lookup(u, k, NULL) = IF q > Len(u.node[b].key) THEN Empty ELSE u.node[b].val[q]
  <2>1. b \in DOMAIN u.node /\ u.node[b].isLeaf /\ k \in Int /\ Shape(u, h, V, f) /\ FirstNotBelow(u.node[b].key, k, q)
    BY <1>3
  <2>q. QED BY <2>1, <1>2, LookupIs
<1>q. QED BY <1>3, <1>4, <1>5

LEMMA SameAnswerSelf ==
  ASSUME NEW V, NEW t, NEW g, NEW e, Shape(t, g, V, e), NEW a \in DOMAIN t.node, NEW k \in Int,
         NEW u, NEW b, u.node[b].key = t.node[a].key, u.node[b].val = t.node[a].val
  PROVE  SameAnswer(t, a, u, b, k)
<1>1. t.node[a].key \in Seq(Int) /\ Sorted(t.node[a].key)
  <2>1. t \in Trees(V) /\ NodeOK(t, g, a) BY DEF Shape
  <2>q. QED BY <2>1, NodeFields DEF NodeOK, KeysOK
<1>2. PICK p : FirstNotBelow(t.node[a].key, k, p) BY <1>1, LowerBoundIs
<1>q. QED BY <1>2 DEF SameAnswer

LEMMA GrowFollows ==
  ASSUME NEW V, NEW t, NEW g, NEW f, Shape(t, g, V, f), NEW u, NEW h, h = GhostGrow(t, g), Shape(u, h, V, f), Rooted(t, u)
  PROVE  Follows(t, g, u, h)
<1> DEFINE r == Len(t.node) + 1
<1>1. t \in Trees(V) /\ t.root \in DOMAIN t.node BY DEF Shape, RootOK
<1>2. /\ DOMAIN u.node = DOMAIN t.node \cup {r} /\ r \notin DOMAIN t.node /\ ~u.node[r].isLeaf
      /\ \A b \in DOMAIN t.node : u.node[b].isLeaf = t.node[b].isLeaf /\ u.node[b].key = t.node[b].key
                                  /\ u.node[b].val = t.node[b].val
  BY DEF Rooted
<1>3. \A b \in DOMAIN t.node : h.lo[b] = g.lo[b] /\ h.hi[b] = g.hi[b]
  <2>1. DOMAIN t.node = 1..Len(t.node) /\ Len(t.node) \in Nat BY <1>1, NodeFields
  <2>2. \A b \in DOMAIN t.node : b \in 1..(Len(t.node) + 1) /\ b # Len(t.node) + 1 BY <2>1
  <2>q. QED BY <2>2 DEF GhostGrow
<1> HIDE DEF r
<1>4. ASSUME NEW k \in Int PROVE lookup(u, k, NULL) = lookup(t, k, NULL)
  <2>1. PICK a : a = LeafFor(t, k, NULL) OBVIOUS
  <2>2. a \in DOMAIN t.node /\ t.node[a].isLeaf /\ Between(k, g.lo[a], g.hi[a]) BY <2>1, LeafForIs
  <2>3. a \in DOMAIN u.node /\ u.node[a].isLeaf /\ Between(k, h.lo[a], h.hi[a]) BY <2>2, <1>2, <1>3
  <2>4. SameAnswer(t, a, u, a, k) BY <2>2, <1>2, SameAnswerSelf
  <2>q. QED BY <2>1, <2>3, <2>4, SameLookup
<1>5. Leaves(u) = Leaves(t) BY <1>2 DEF Leaves
<1>6. StoredKeys(u) = StoredKeys(t)
  <2>1. \A b \in Leaves(t) : u.node[b].key = t.node[b].key BY <1>2 DEF Leaves
  <2>q. QED BY <2>1, <1>5 DEF StoredKeys
<1>q. QED BY <1>2, <1>3, <1>4, <1>6 DEF Follows

(* A key k of a leaf that was split is found in the half it belongs to. *)
LEMMA CutAnswer ==
  ASSUME NEW V, NEW t, NEW g, NEW a, NEW i, NEW u, Splits(t, g, V, a, i, u), t.node[a].isLeaf,
         NEW n, n = Len(t.node) + 1, NEW k \in Int
  PROVE  IF k <= t.node[a].key[Half] THEN SameAnswer(t, a, u, a, k) ELSE SameAnswer(t, a, u, n, k)
<1>1. PICK c : c = t.node[a] OBVIOUS
<1>2. Half \in Nat /\ Half >= 2 /\ M = 2 * Half /\ M \in Nat BY MIs
<1>3. c.key \in Seq(Int) /\ Len(c.key) = M /\ Middle(c) = Half
  <2>1. Middle(c) = Half BY <1>1 DEF Middle
  <2>q. QED BY <2>1, <1>1, CutMiddle
<1>4. /\ u.node[a].key \in Seq(Int) /\ Len(u.node[a].key) = Half
      /\ \A j \in 1..Half : u.node[a].key[j] = c.key[j]
      /\ u.node[n].key \in Seq(Int) /\ Len(u.node[n].key) = M - Half
      /\ \A j \in 1..(M - Half) : u.node[n].key[j] = c.key[Half + j]
  <2>1. PICK m : m = Middle(c) OBVIOUS
  <2>2. m = Half BY <2>1, <1>3
  <2>3. /\ u.node[a].key \in Seq(Int) /\ Len(u.node[a].key) = Half
        /\ \A j \in 1..Half : u.node[a].key[j] = c.key[j]
        /\ u.node[n].key \in Seq(Int) /\ Len(u.node[n].key) = M - m
        /\ \A j \in 1..(M - m) : u.node[n].key[j] = c.key[m + j]
    <3>1. Splits(t, g, V, a, i, u) /\ c = t.node[a] /\ m = Middle(c) /\ n = Len(t.node) + 1 BY <2>1, <1>1
    <3>2. /\ u.node[a].key \in Seq(Int) /\ Len(u.node[a].key) = Half
          /\ \A j \in 1..Half : u.node[a].key[j] = c.key[j]
      BY <3>1, CutKeys
    <3>3. /\ u.node[n].key \in Seq(Int) /\ Len(u.node[n].key) = M - m
          /\ \A j \in 1..(M - m) : u.node[n].key[j] = c.key[m + j]
      BY <3>1, CutKeys
    <3>q. QED BY <3>2, <3>3
  <2>q. QED BY <2>2, <2>3
<1>5. \A j \in 1..Half : u.node[a].val[j] = c.val[j] /\ u.node[n].val[j] = c.val[Half + j]
  BY <1>1, <1>3, CutRecords
<1>6. Sorted(c.key)
  <2>1. Shape(t, g, V, a) /\ a \in DOMAIN t.node BY DEF Splits
  <2>q. QED BY <2>1, <1>1 DEF Shape, NodeOK, KeysOK
<1>7. PICK p : FirstNotBelow(c.key, k, p) BY <1>3, <1>6, LowerBoundIs
<1>8. /\ p \in 1..(M + 1)
      /\ \A j \in 1..M : (j < p => c.key[j] < k) /\ (p <= j => k <= c.key[j])
  BY <1>3, <1>7 DEF FirstNotBelow
<1>9. c.key[Half] \in Int /\ Half \in 1..M BY <1>2, <1>3
<1>10. CASE k <= c.key[Half]
  <2>1. p <= Half BY <1>8, <1>9, <1>10, <1>2
  <2>2. FirstNotBelow(u.node[a].key, k, p)
    <3>1. p \in 1..(Half + 1) /\ \A j \in 1..Half : j \in 1..M BY <2>1, <1>2, <1>8
    <3>q. QED BY <3>1, <1>4, <1>8 DEF FirstNotBelow
  <2>3. ~(p > Len(c.key)) /\ ~(p > Len(u.node[a].key)) /\ c.val[p] = u.node[a].val[p]
    BY <2>1, <1>2, <1>3, <1>4, <1>5, <1>8
  <2>4. SameAnswer(t, a, u, a, k) BY <2>2, <2>3, <1>1, <1>7 DEF SameAnswer
  <2>q. QED BY <2>4, <1>10, <1>1
<1>11. CASE ~(k <= c.key[Half])
  <2>1. p > Half BY <1>8, <1>9, <1>11, <1>2
  <2>2. PICK q : q = p - Half OBVIOUS
  <2>3. q \in 1..(Half + 1) /\ p = Half + q BY <2>1, <2>2, <1>8, <1>2
  <2>4. FirstNotBelow(u.node[n].key, k, q)
    <3>1. \A j \in 1..Half : Half + j \in 1..M /\ (j < q => Half + j < p) /\ (q <= j => p <= Half + j)
      BY <2>3, <1>2
    <3>2. \A j \in 1..Half : u.node[n].key[j] = c.key[Half + j] BY <1>4, <1>2
    <3>3. \A j \in 1..Half : (j < q => u.node[n].key[j] < k) /\ (q <= j => k <= u.node[n].key[j])
      BY <3>1, <3>2, <1>8
    <3>4. Len(u.node[n].key) = Half BY <1>4, <1>2
    <3>q. QED BY <3>3, <3>4, <2>3 DEF FirstNotBelow
  <2>5. (p > Len(c.key)) <=> (q > Len(u.node[n].key)) BY <2>3, <1>2, <1>3, <1>4
  <2>6. ~(p > Len(c.key)) => c.val[p] = u.node[n].val[q]
    <3>1. ~(p > Len(c.key)) => q \in 1..Half BY <2>3, <1>2, <1>3
    <3>q. QED BY <3>1, <2>3, <1>5
  <2>7. SameAnswer(t, a, u, n, k) BY <2>4, <2>5, <2>6, <1>1, <1>7 DEF SameAnswer
  <2>q. QED BY <2>7, <1>11, <1>1
<1>q. QED BY <1>10, <1>11

LEMMA CutStored ==
  ASSUME NEW V, NEW t, NEW g, NEW a, NEW i, NEW u, Splits(t, g, V, a, i, u)
  PROVE  StoredKeys(u) = StoredKeys(t)
<1>1. PICK n : n = Len(t.node) + 1 OBVIOUS
<1>2. PICK c : c = t.node[a] OBVIOUS
<1>3. PICK p : p = c.parent OBVIOUS
<1>4. DOMAIN u.node = DOMAIN t.node \cup {n} /\ n \notin DOMAIN t.node /\ a \in DOMAIN t.node /\ ~t.node[p].isLeaf
  BY <1>1, <1>2, <1>3, CutPlaces
<1>5. u.node[n].isLeaf = c.isLeaf /\ u.node[a].isLeaf = c.isLeaf
  <2>1. PICK m : m = Middle(c) OBVIOUS
  <2>q. QED BY <2>1, <1>1, <1>2, CutFields
<1>6. \A b \in DOMAIN t.node : Kept(t, u, a, b) BY <1>1, CutOther
<1>7. \A b \in DOMAIN t.node : u.node[b].isLeaf = t.node[b].isLeaf BY <1>6 DEF Kept
<1>8. \A b \in DOMAIN t.node : t.node[b].isLeaf /\ b # a => u.node[b].key = t.node[b].key BY <1>2, <1>3, <1>4, <1>6 DEF Kept
<1>9. CASE ~c.isLeaf
  <2>1. Leaves(u) = Leaves(t) BY <1>4, <1>5, <1>7, <1>9 DEF Leaves
  <2>2. \A b \in Leaves(t) : u.node[b].key = t.node[b].key BY <1>2, <1>8, <1>9 DEF Leaves
  <2>q. QED BY <2>1, <2>2 DEF StoredKeys
<1>10. CASE c.isLeaf
  <2>1. Leaves(u) = Leaves(t) \cup {n} /\ a \in Leaves(t) /\ n \notin Leaves(t)
    BY <1>2, <1>4, <1>5, <1>7, <1>10 DEF Leaves
  <2>2. \A b \in Leaves(t) : b # a => u.node[b].key = t.node[b].key BY <1>8 DEF Leaves
  <2>3. Range(c.key) = Range(u.node[a].key) \cup Range(u.node[n].key)
    <3>1. Half \in Nat /\ Half >= 2 /\ M = 2 * Half BY MIs
    <3>2. c.key \in Seq(Int) /\ Len(c.key) = M /\ Middle(c) = Half
      <4>1. Middle(c) = Half BY <1>10 DEF Middle
      <4>q. QED BY <4>1, <1>2, CutMiddle
    <3>3. /\ u.node[a].key \in Seq(Int) /\ Len(u.node[a].key) = Half
          /\ \A j \in 1..Half : u.node[a].key[j] = c.key[j]
          /\ u.node[n].key \in Seq(Int) /\ Len(u.node[n].key) = M - Half
          /\ \A j \in 1..(M - Half) : u.node[n].key[j] = c.key[Half + j]
      <4>1. PICK m : m = Middle(c) OBVIOUS
      <4>2. m = Half BY <4>1, <3>2
      <4>3. /\ u.node[a].key \in Seq(Int) /\ Len(u.node[a].key) = Half
            /\ \A j \in 1..Half : u.node[a].key[j] = c.key[j]
            /\ u.node[n].key \in Seq(Int) /\ Len(u.node[n].key) = M - m
            /\ \A j \in 1..(M - m) : u.node[n].key[j] = c.key[m + j]
        <5>1. Splits(t, g, V, a, i, u) /\ c = t.node[a] /\ m = Middle(c) /\ n = Len(t.node) + 1 BY <4>1, <1>1, <1>2
        <5>2. /\ u.node[a].key \in Seq(Int) /\ Len(u.node[a].key) = Half
              /\ \A j \in 1..Half : u.node[a].key[j] = c.key[j]
          BY <5>1, CutKeys
        <5>3. /\ u.node[n].key \in Seq(Int) /\ Len(u.node[n].key) = M - m
              /\ \A j \in 1..(M - m) : u.node[n].key[j] = c.key[m + j]
          BY <5>1, CutKeys
        <5>q. QED BY <5>2, <5>3
      <4>q. QED BY <4>2, <4>3
    <3>4. DOMAIN c.key = 1..M /\ DOMAIN u.node[a].key = 1..Half /\ DOMAIN u.node[n].key = 1..Half
      <4>1. M - Half = Half BY <3>1
      <4>2. \A r \in Seq(Int) : DOMAIN r = 1..Len(r) OBVIOUS
      <4>3. u.node[n].key \in Seq(Int) /\ Len(u.node[n].key) = Half BY <4>1, <3>3
      <4>q. QED BY <4>2, <4>3, <3>2, <3>3
    <3>5. \A j \in 1..M : j \in 1..Half \/ \E x \in 1..Half : j = Half + x
      <4>1. \A j \in 1..M : j \notin 1..Half => j - Half \in 1..Half /\ j = Half + (j - Half) BY <3>1
      <4>q. QED BY <4>1
    <3>6. \A j \in 1..Half : j \in 1..M /\ Half + j \in 1..M /\ j \in 1..(M - Half) BY <3>1
    <3>7. ASSUME NEW x \in Range(c.key) PROVE x \in Range(u.node[a].key) \cup Range(u.node[n].key)
      <4>1. PICK j \in 1..M : x = c.key[j] BY <3>4 DEF Range
      <4>2. CASE j \in 1..Half BY <4>1, <4>2, <3>3, <3>4 DEF Range
      <4>3. CASE j \notin 1..Half
        <5>1. PICK y \in 1..Half : j = Half + y BY <4>3, <3>5
        <5>2. u.node[n].key[y] = x BY <5>1, <4>1, <3>3, <3>6
        <5>q. QED BY <5>2, <3>4 DEF Range
      <4>q. QED BY <4>2, <4>3
    <3>8. ASSUME NEW x \in Range(u.node[a].key) PROVE x \in Range(c.key)
      <4>1. PICK j \in 1..Half : x = u.node[a].key[j] BY <3>4 DEF Range
      <4>2. x = c.key[j] /\ j \in DOMAIN c.key BY <4>1, <3>3, <3>4, <3>6
      <4>q. QED BY <4>2 DEF Range
    <3>9. ASSUME NEW x \in Range(u.node[n].key) PROVE x \in Range(c.key)
      <4>1. PICK j \in 1..Half : x = u.node[n].key[j] BY <3>4 DEF Range
      <4>2. x = c.key[Half + j] BY <4>1, <3>3, <3>6
      <4>3. Half + j \in DOMAIN c.key BY <3>4, <3>6
      <4>q. QED BY <4>2, <4>3 DEF Range
    <3>q. QED BY <3>7, <3>8, <3>9
  <2>4. ASSUME NEW x \in StoredKeys(u) PROVE x \in StoredKeys(t)
    <3>1. PICK b \in Leaves(u) : x \in Range(u.node[b].key) BY DEF StoredKeys
    <3>2. CASE b \in {a, n}
      <4>1. x \in Range(t.node[a].key) BY <3>1, <3>2, <2>3, <1>2
      <4>q. QED BY <4>1, <2>1 DEF StoredKeys
    <3>3. CASE b \notin {a, n}
      <4>1. b \in Leaves(t) /\ u.node[b].key = t.node[b].key BY <3>3, <2>1, <2>2
      <4>q. QED BY <4>1, <3>1 DEF StoredKeys
    <3>q. QED BY <3>2, <3>3
  <2>5. ASSUME NEW x \in StoredKeys(t) PROVE x \in StoredKeys(u)
    <3>1. PICK b \in Leaves(t) : x \in Range(t.node[b].key) BY DEF StoredKeys
    <3>2. CASE b = a
      <4>1. x \in Range(u.node[a].key) \/ x \in Range(u.node[n].key) BY <3>1, <3>2, <2>3, <1>2
      <4>2. a \in Leaves(u) /\ n \in Leaves(u) BY <2>1
      <4>q. QED BY <4>1, <4>2 DEF StoredKeys
    <3>3. CASE b # a
      <4>1. b \in Leaves(u) /\ u.node[b].key = t.node[b].key BY <3>3, <2>1, <2>2
      <4>q. QED BY <4>1, <3>1 DEF StoredKeys
    <3>q. QED BY <3>2, <3>3
  <2>q. QED BY <2>4, <2>5
<1>q. QED BY <1>9, <1>10

LEMMA CutFollows ==
  ASSUME NEW V, NEW t, NEW g, NEW a, NEW i, NEW u, Splits(t, g, V, a, i, u), NEW h, h = GhostCut(t, g, a)
  PROVE  Follows(t, g, u, h)
<1>1. PICK n : n = Len(t.node) + 1 OBVIOUS
<1>2. PICK c : c = t.node[a] OBVIOUS
<1>3. PICK p : p = c.parent OBVIOUS
<1>4. Shape(t, g, V, a) /\ Shape(u, h, V, p) BY <1>2, <1>3, CutShape DEF Splits
<1>5. DOMAIN u.node = DOMAIN t.node \cup {n} /\ n \notin DOMAIN t.node /\ a \in DOMAIN t.node /\ ~t.node[p].isLeaf
  BY <1>1, <1>2, <1>3, CutPlaces
<1>6. u.node[n].isLeaf = c.isLeaf /\ u.node[a].isLeaf = c.isLeaf
  <2>1. PICK m : m = Middle(c) OBVIOUS
  <2>q. QED BY <2>1, <1>1, <1>2, CutFields
<1>7. \A b \in DOMAIN t.node : Kept(t, u, a, b) BY <1>1, CutOther
<1>8. \A b \in DOMAIN t.node : u.node[b].isLeaf = t.node[b].isLeaf BY <1>7 DEF Kept
<1>9. \A b \in DOMAIN t.node : t.node[b].isLeaf /\ b # a => u.node[b].key = t.node[b].key /\ u.node[b].val = t.node[b].val
  BY <1>2, <1>3, <1>5, <1>7 DEF Kept
<1>10. PICK s : s = c.key[Middle(c)] OBVIOUS
<1>11. h.lo[n] = s /\ h.hi[n] = g.hi[a] /\ h.hi[a] = s /\ \A b \in DOMAIN t.node : h.lo[b] = g.lo[b] /\ (b # a => h.hi[b] = g.hi[b])
  BY <1>1, <1>2, <1>10, CutGhost
<1>12. ASSUME NEW k \in Int PROVE lookup(u, k, NULL) = lookup(t, k, NULL)
  <2>1. PICK l : l = LeafFor(t, k, NULL) OBVIOUS
  <2>2. l \in DOMAIN t.node /\ t.node[l].isLeaf /\ Between(k, g.lo[l], g.hi[l]) BY <2>1, <1>4, LeafForIs
  <2>3. CASE l # a
    <3>1. l \in DOMAIN u.node /\ u.node[l].isLeaf /\ Between(k, h.lo[l], h.hi[l]) BY <2>2, <2>3, <1>5, <1>8, <1>11
    <3>2. SameAnswer(t, l, u, l, k) BY <2>2, <2>3, <1>4, <1>9, SameAnswerSelf
    <3>q. QED BY <2>1, <3>1, <3>2, <1>4, SameLookup
  <2>4. CASE l = a
    <3>1. c.isLeaf /\ s = c.key[Half] BY <2>2, <2>4, <1>2, <1>10 DEF Middle
    <3>2. s \in Int /\ s # NoBound
      <4>1. PICK m : m = Middle(c) OBVIOUS
      <4>2. c.key[m] \in Int BY <4>1, <1>2, CutMiddle
      <4>q. QED BY <4>1, <4>2, <1>10, BoundCases
    <3>3. IF k <= s THEN SameAnswer(t, a, u, a, k) ELSE SameAnswer(t, a, u, n, k)
      BY <3>1, <1>1, <1>2, CutAnswer
    <3>4. CASE k <= s
      <4>1. Between(k, h.lo[a], h.hi[a]) BY <2>2, <2>4, <3>2, <3>4, <1>5, <1>11 DEF Between, UpTo
      <4>2. a \in DOMAIN u.node /\ u.node[a].isLeaf BY <3>1, <1>5, <1>6
      <4>3. SameAnswer(t, a, u, a, k) BY <3>3, <3>4
      <4>4. a = LeafFor(t, k, NULL) BY <2>1, <2>4
      <4> HIDE <2>4
      <4>q. QED BY <4>1, <4>2, <4>3, <4>4, <1>4, SameLookup
    <3>5. CASE ~(k <= s)
      <4>1. Between(k, h.lo[n], h.hi[n]) BY <2>2, <2>4, <3>2, <3>5, <1>11 DEF Between, Over
      <4>2. n \in DOMAIN u.node /\ u.node[n].isLeaf BY <3>1, <1>5, <1>6
      <4>3. SameAnswer(t, a, u, n, k) BY <3>3, <3>5
      <4>4. a = LeafFor(t, k, NULL) BY <2>1, <2>4
      <4> HIDE <2>4
      <4>q. QED BY <4>1, <4>2, <4>3, <4>4, <1>4, SameLookup
    <3>q. QED BY <3>4, <3>5
  <2>q. QED BY <2>3, <2>4
<1>13. StoredKeys(u) = StoredKeys(t) BY CutStored
<1>14. DOMAIN t.node \subseteq DOMAIN u.node BY <1>5
<1>15. \A b \in DOMAIN t.node : t.node[b].isLeaf => u.node[b].isLeaf /\ h.lo[b] = g.lo[b] BY <1>8, <1>11
<1>q. QED BY <1>12, <1>13, <1>14, <1>15 DEF Follows

-----------------------------------------------------------------------------
(* overflow *)

(* One activation: u is t with a full node a split. *)
Cleft(t, g, V, a, u, h) ==
    LET p == u.node[a].parent
    IN  /\ Shape(u, h, V, p) /\ Follows(t, g, u, h) /\ p \in DOMAIN u.node
        /\ Len(u.node) > Len(t.node)
        /\ IF a = t.root THEN Len(u.node[p].key) < M
           ELSE h.lev[p] = g.lev[a] + 1 /\ u.depth = t.depth

(* The new tree is what the old one becomes under a node that is no root, *)
LEMMA CleftCut ==
  ASSUME NEW V, NEW t, NEW g, NEW a, NEW i, NEW u, Splits(t, g, V, a, i, u)
  PROVE  /\ Cleft(t, g, V, a, u, GhostCut(t, g, a)) /\ u.node[a].parent = t.node[a].parent
         /\ Len(u.node[t.node[a].parent].key) = Len(t.node[t.node[a].parent].key) + 1
<1>1. PICK n : n = Len(t.node) + 1 OBVIOUS
<1>2. PICK p : p = t.node[a].parent OBVIOUS
<1>3. PICK h : h = GhostCut(t, g, a) OBVIOUS
<1>4. Shape(u, h, V, p) /\ Follows(t, g, u, h) BY <1>2, <1>3, CutShape, CutFollows
<1>5. p \in DOMAIN t.node /\ a \in DOMAIN t.node /\ g.lev[p] = g.lev[a] + 1 /\ DOMAIN u.node = DOMAIN t.node \cup {n}
  BY <1>1, <1>2, CutPlaces
<1>6. u.node[a].parent = p
  <2>1. PICK c : c = t.node[a] OBVIOUS
  <2>2. PICK m : m = Middle(c) OBVIOUS
  <2>q. QED BY <2>1, <2>2, <1>1, <1>2, CutFields
<1>7. h.lev[p] = g.lev[a] + 1
  <2>1. PICK s : s = t.node[a].key[Middle(t.node[a])] OBVIOUS
  <2>2. \A b \in DOMAIN t.node : h.lev[b] = g.lev[b] BY <2>1, <1>1, <1>3, CutGhost
  <2>q. QED BY <2>2, <1>5
<1>8. Len(u.node) = n /\ u.depth = t.depth /\ a # t.root BY <1>1 DEF Splits, Cut
<1>9. Len(t.node) \in Nat
  <2>1. t \in Trees(V) BY DEF Splits, Shape
  <2>q. QED BY <2>1, <1>5, NodeFields
<1>10. Len(u.node) > Len(t.node) BY <1>1, <1>8, <1>9
<1>11. Len(u.node[p].key) = Len(t.node[p].key) + 1
  <2>1. PICK s : s = t.node[a].key[Middle(t.node[a])] OBVIOUS
  <2>2. Grown(t, u, p, i, s, n) BY <2>1, <1>1, <1>2, CutParent
  <2>q. QED BY <2>2 DEF Grown, Enlarged
<1>12. Cleft(t, g, V, a, u, h) BY <1>4, <1>5, <1>6, <1>7, <1>8, <1>10 DEF Cleft
<1>q. QED BY <1>2, <1>3, <1>6, <1>11, <1>12

(* which a root gets by a new root. *)
LEMMA SplitIs ==
  ASSUME NEW V, NEW t, NEW g, NEW a, Shape(t, g, V, a), a \in DOMAIN t.node, Len(t.node[a].key) = M
  PROVE  \E h : Cleft(t, g, V, a, Split(t, a), h)
<1>cut. ASSUME NEW w, NEW e, Shape(w, e, V, a), a \in DOMAIN w.node, Len(w.node[a].key) = M, a # w.root,
               NEW u, u = IF w.node[a].isLeaf THEN SplitLeaf(w, a) ELSE SplitInner(w, a)
        PROVE  \E i : Splits(w, e, V, a, i, u)
  <2>1. CASE w.node[a].isLeaf BY <2>1, <1>cut, SplitLeafIs
  <2>2. CASE ~w.node[a].isLeaf BY <2>2, <1>cut, SplitInnerIs
  <2>q. QED BY <2>1, <2>2
<1>u. PICK u : u = Split(t, a) OBVIOUS
<1>1. CASE a # t.root
  <2>1. u = IF t.node[a].isLeaf THEN SplitLeaf(t, a) ELSE SplitInner(t, a) BY <1>1, <1>u DEF Split
  <2>2. PICK i : Splits(t, g, V, a, i, u) BY <2>1, <1>1, <1>cut
  <2>q. QED BY <2>2, <1>u, CleftCut
<1>2. CASE a = t.root
  <2>0. PICK w : w = GrowRoot(t) OBVIOUS
  <2>e. PICK e : e = GhostGrow(t, g) OBVIOUS
  <2>1. t \in Trees(V) /\ M \in Nat /\ M >= 4 BY TreeAssumption DEF Shape
  <2>2. w \in Trees(V) /\ Rooted(t, w) BY <2>0, <2>1, <1>2, GrowIs
  <2>3. t.node[t.root].key # <<>>
    <3>1. Len(<<>>) = 0 OBVIOUS
    <3>q. QED BY <3>1, <2>1, <1>2
  <2>4. Shape(w, e, V, a) BY <2>2, <2>3, <2>e, <1>2, GrowShape
  <2>5. Follows(t, g, w, e) BY <2>2, <2>4, <2>e, GrowFollows
  <2>6. PICK r : r = Len(t.node) + 1 OBVIOUS
  <2>7. /\ Len(w.node) = r /\ DOMAIN w.node = DOMAIN t.node \cup {r} /\ r \notin DOMAIN t.node
        /\ w.root = r /\ w.node[r].key = <<>> /\ w.node[t.root].parent = r /\ w.node[a].key = t.node[a].key
    BY <2>2, <2>6, <1>2 DEF Rooted
  <2>8. a \in DOMAIN w.node /\ Len(w.node[a].key) = M /\ a # w.root BY <2>7, <1>2
  <2>9. u = IF w.node[a].isLeaf THEN SplitLeaf(w, a) ELSE SplitInner(w, a) BY <1>2, <1>u, <2>0 DEF Split
  <2>10. PICK i : Splits(w, e, V, a, i, u) BY <2>4, <2>8, <2>9, <1>cut
  <2>11. PICK h : h = GhostCut(w, e, a) OBVIOUS
  <2>12. Cleft(w, e, V, a, u, h) /\ u.node[a].parent = r /\ Len(u.node[r].key) = Len(w.node[r].key) + 1
    <3>1. w.node[a].parent = r BY <2>7, <1>2
    <3>2. /\ Cleft(w, e, V, a, u, GhostCut(w, e, a)) /\ u.node[a].parent = w.node[a].parent
          /\ Len(u.node[w.node[a].parent].key) = Len(w.node[w.node[a].parent].key) + 1
      BY <2>10, CleftCut
    <3>q. QED BY <3>1, <3>2, <2>11
  <2>13. Shape(u, h, V, r) /\ Follows(w, e, u, h) /\ r \in DOMAIN u.node /\ Len(u.node) > Len(w.node)
    BY <2>12 DEF Cleft
  <2>14. Follows(t, g, u, h) BY <2>5, <2>13, FollowsOn
  <2>15. Len(u.node[r].key) < M
    <3>1. Len(w.node[r].key) = 0 BY <2>7
    <3>q. QED BY <3>1, <2>12, <2>1
  <2>16. Len(u.node) > Len(t.node)
    <3>1. Len(t.node) \in Nat BY <2>1, NodeFields
    <3>2. u \in Trees(V) BY <2>13 DEF Shape
    <3>3. Len(u.node) \in Nat BY <3>2, <2>13, NodeFields
    <3>q. QED BY <3>1, <3>3, <2>6, <2>7, <2>13
  <2>17. Cleft(t, g, V, a, u, h) BY <2>12, <2>13, <2>14, <2>15, <2>16, <1>2 DEF Cleft
  <2>q. QED BY <2>17, <1>u
<1>q. QED BY <1>1, <1>2

(* The calls overflow makes of itself. *)
Again(call) ==
    LET u == call[1]
        b == call[2]
    IN  IF Len(u.node[b].key) >= M THEN LET s == Split(u, b) IN <<s, s.node[b].parent>> ELSE <<u, b>>
Calls(r, t, a, m) == r = [n \in 0..m |-> IF n = 0 THEN <<t, a>> ELSE Again(r[n - 1])]

LEMMA CallsExist == ASSUME NEW t, NEW a, NEW m \in Nat PROVE \E r : Calls(r, t, a, m)
<1> DEFINE C == {n \in Nat : ~ \E r : Calls(r, t, a, n)}
<1>1. ASSUME C # {} PROVE FALSE
  <2>0. C \subseteq Nat OBVIOUS
  <2>1. PICK n \in C : \A j \in C : n <= j
    <3> HIDE DEF C
    <3>q. QED BY <1>1, <2>0, SmallestNumber
  <2>2. CASE n = 0
    <3> DEFINE r == [i \in 0..0 |-> <<t, a>>]
    <3>1. Calls(r, t, a, 0) BY DEF Calls
    <3>q. QED BY <3>1, <2>1, <2>2
  <2>3. CASE n # 0
    <3>1. n - 1 \in Nat /\ n - 1 \notin C BY <2>1, <2>3
    <3>2. PICK v : Calls(v, t, a, n - 1) BY <3>1
    <3> DEFINE r == [i \in 0..n |-> IF i = 0 THEN <<t, a>> ELSE Again(v[i - 1])]
    <3>3. \A i \in 0..(n - 1) : r[i] = v[i]
      <4>1. \A i \in 0..(n - 1) : v[i] = IF i = 0 THEN <<t, a>> ELSE Again(v[i - 1]) BY <3>2 DEF Calls
      <4>2. \A i \in 0..(n - 1) : i \in 0..n BY <2>1
      <4>q. QED BY <4>1, <4>2
    <3>4. \A i \in 0..n : i # 0 => i - 1 \in 0..(n - 1) BY <2>1
    <3>5. \A i \in 0..n : i # 0 => r[i - 1] = v[i - 1] BY <3>3, <3>4
    <3>6. r = [i \in 0..n |-> IF i = 0 THEN <<t, a>> ELSE Again(r[i - 1])] BY <3>5, Zenon
    <3>q. QED BY <3>6, <2>1 DEF Calls
  <2>q. QED BY <2>2, <2>3
<1>q. QED BY <1>1

LEMMA OverflowCalls ==
  ASSUME NEW t, NEW a, t.depth \in Nat
  PROVE  \E r : Calls(r, t, a, t.depth + 1) /\ overflow(t, a) = r[t.depth + 1][1]
<1> DEFINE r == CHOOSE r : Calls(r, t, a, t.depth + 1)
<1>1. PICK m : m = t.depth + 1 OBVIOUS
<1>2. m \in Nat BY <1>1
<1>3. \E r0 : Calls(r0, t, a, m) BY <1>2, CallsExist
<1>4. Calls(r, t, a, t.depth + 1) BY <1>1, <1>3
<1>5. overflow(t, a) = r[t.depth + 1][1] BY Zenon DEF overflow, Calls, Again
<1> HIDE DEF r
<1>q. QED BY <1>4, <1>5

(* After n calls only the node b may be full, which is n levels above the  *)
(* leaves then and no root was split.                                       *)
Nearly(t, g, V, u, b, n) ==
    \E h : /\ Shape(u, h, V, b) /\ Follows(t, g, u, h) /\ b \in DOMAIN u.node
           /\ u = t \/ Len(u.node) > Len(t.node)
           /\ Len(u.node[b].key) >= M => h.lev[b] = n /\ u.depth = t.depth

LEMMA NearlyOn ==
  ASSUME NEW V, NEW t, NEW g, Len(t.node) \in Nat, NEW u, NEW b, NEW n \in Nat, Nearly(t, g, V, u, b, n)
  PROVE  \E w, c : Again(<<u, b>>) = <<w, c>> /\ Nearly(t, g, V, w, c, n + 1)
<1>1. PICK h : /\ Shape(u, h, V, b) /\ Follows(t, g, u, h) /\ b \in DOMAIN u.node
               /\ u = t \/ Len(u.node) > Len(t.node)
               /\ Len(u.node[b].key) >= M => h.lev[b] = n /\ u.depth = t.depth
  BY DEF Nearly
<1>2. u \in Trees(V) /\ Len(u.node[b].key) <= M /\ M \in Nat BY <1>1, TreeAssumption DEF Shape
<1>3. Len(u.node[b].key) \in Nat /\ Len(u.node) \in Nat BY <1>1, <1>2, NodeFields
<1>m. PICK m : m = n + 1 OBVIOUS
<1>4. CASE Len(u.node[b].key) >= M
  <2>1. PICK w : w = Split(u, b) OBVIOUS
  <2>2. PICK c : c = w.node[b].parent OBVIOUS
  <2>3. Len(u.node[b].key) = M BY <1>2, <1>3, <1>4
  <2>4. PICK e : Cleft(u, h, V, b, w, e) BY <2>1, <2>3, <1>1, SplitIs
  <2>5. /\ Shape(w, e, V, c) /\ Follows(u, h, w, e) /\ c \in DOMAIN w.node /\ Len(w.node) > Len(u.node)
        /\ IF b = u.root THEN Len(w.node[c].key) < M ELSE e.lev[c] = h.lev[b] + 1 /\ w.depth = u.depth
    BY <2>2, <2>4 DEF Cleft
  <2>6. Follows(t, g, w, e) BY <1>1, <2>5, FollowsOn
  <2>7. w \in Trees(V) BY <2>5 DEF Shape
  <2>8. Len(w.node[c].key) \in Nat /\ Len(w.node) \in Nat BY <2>5, <2>7, NodeFields
  <2>9. Len(w.node) > Len(t.node) BY <2>5, <2>8, <1>1, <1>3
  <2>10. Len(w.node[c].key) >= M => e.lev[c] = m /\ w.depth = t.depth BY <2>5, <2>8, <1>1, <1>2, <1>4, <1>m
  <2>11. Nearly(t, g, V, w, c, m) BY <2>5, <2>6, <2>9, <2>10 DEF Nearly
  <2>12. Again(<<u, b>>) = <<w, c>> BY <1>4, <2>1, <2>2 DEF Again
  <2>q. QED BY <2>11, <2>12, <1>m
<1>5. CASE ~(Len(u.node[b].key) >= M)
  <2>1. Nearly(t, g, V, u, b, m) BY <1>1, <1>5 DEF Nearly
  <2>2. Again(<<u, b>>) = <<u, b>> BY <1>5 DEF Again
  <2>q. QED BY <2>1, <2>2, <1>m
<1>q. QED BY <1>4, <1>5

(* The tree after overflow has no full node and holds what it held before. *)
Settled(t, g, V, u) ==
    \E h : Shape(u, h, V, 0) /\ Follows(t, g, u, h) /\ (u = t \/ Len(u.node) > Len(t.node))

LEMMA OverflowIs ==
  ASSUME NEW V, NEW t, NEW g, NEW a, Shape(t, g, V, a), a \in DOMAIN t.node, t.node[a].isLeaf
  PROVE  Settled(t, g, V, overflow(t, a))
<1>1. t \in Trees(V) /\ g.lev[a] = 0 BY DEF Shape, NodeOK
<1>2. Len(t.node) \in Nat /\ t.depth \in Nat BY <1>1, NodeFields
<1>m. PICK m : m = t.depth + 1 OBVIOUS
<1>3. PICK r : Calls(r, t, a, m) /\ overflow(t, a) = r[m][1] BY <1>2, <1>m, OverflowCalls
<1>4. m \in Nat /\ m > t.depth BY <1>2, <1>m
<1>5. \A n \in 0..m : r[n] = IF n = 0 THEN <<t, a>> ELSE Again(r[n - 1]) BY <1>3 DEF Calls
<1> DEFINE Good(n) == \E u, b : r[n] = <<u, b>> /\ Nearly(t, g, V, u, b, n)
           C == {n \in 0..m : ~Good(n)}
<1>6. Good(0)
  <2>1. Nearly(t, g, V, t, a, 0) BY <1>1, FollowsSelf DEF Nearly
  <2>2. r[0] = <<t, a>> BY <1>4, <1>5
  <2>q. QED BY <2>1, <2>2
<1>7. ASSUME NEW n \in 0..m, NEW l \in Nat, n = l + 1, Good(l) PROVE Good(n)
  <2>1. PICK u, b : r[l] = <<u, b>> /\ Nearly(t, g, V, u, b, l) BY <1>7
  <2>2. PICK w, c : Again(<<u, b>>) = <<w, c>> /\ Nearly(t, g, V, w, c, l + 1) BY <2>1, <1>2, NearlyOn
  <2>3. n # 0 /\ n - 1 = l BY <1>7
  <2>4. r[n] = <<w, c>> BY <2>1, <2>2, <2>3, <1>5
  <2>q. QED BY <2>2, <2>4, <1>7
<1>8. ASSUME C # {} PROVE FALSE
  <2>0. C \subseteq Nat OBVIOUS
  <2>1. PICK n \in C : \A j \in C : n <= j
    <3> HIDE DEF C
    <3>q. QED BY <1>8, <2>0, SmallestNumber
  <2> HIDE DEF Good
  <2>2. n \in 0..m /\ ~Good(n) /\ n # 0 BY <2>1, <1>6
  <2>3. PICK l : l = n - 1 OBVIOUS
  <2>4. l \in Nat /\ n = l + 1 /\ l \in 0..m /\ ~(n <= l) BY <2>2, <2>3, <1>4
  <2>5. Good(l) BY <2>1, <2>4
  <2>q. QED BY <2>2, <2>4, <2>5, <1>7
<1>9. Good(m)
  <2>1. m \in 0..m BY <1>4
  <2> HIDE DEF Good
  <2>q. QED BY <2>1, <1>8
<1>10. PICK u, b : r[m] = <<u, b>> /\ Nearly(t, g, V, u, b, m) BY <1>9
<1>11. overflow(t, a) = u BY <1>3, <1>10
<1>12. PICK h : /\ Shape(u, h, V, b) /\ Follows(t, g, u, h) /\ b \in DOMAIN u.node
                /\ u = t \/ Len(u.node) > Len(t.node)
                /\ Len(u.node[b].key) >= M => h.lev[b] = m /\ u.depth = t.depth
  BY <1>10 DEF Nearly
<1>13. ~(Len(u.node[b].key) >= M)
  <2>1. h.lev[b] \in Nat /\ h.lev[b] < u.depth BY <1>12 DEF Shape, GhostOK
  <2>q. QED BY <2>1, <1>2, <1>4, <1>12
<1>14. Shape(u, h, V, 0)
  <2>1. u \in Trees(V) /\ M \in Nat BY <1>12, TreeAssumption DEF Shape
  <2>2. Len(u.node[b].key) < M
    <3>1. Len(u.node[b].key) \in Nat BY <2>1, <1>12, NodeFields
    <3>q. QED BY <3>1, <2>1, <1>13
  <2>3. 0 \notin DOMAIN u.node
    <3>1. DOMAIN u.node = 1..Len(u.node) BY <2>1, <1>12, NodeFields
    <3>q. QED BY <3>1
  <2>4. \A c \in DOMAIN u.node : c # 0 /\ Len(u.node[c].key) < M BY <2>2, <2>3, <1>12 DEF Shape
  <2>q. QED BY <2>4, <1>12 DEF Shape
<1>q. QED BY <1>11, <1>12, <1>14 DEF Settled

-----------------------------------------------------------------------------
(* insert *)

(* u is t with record v under key k in its leaf a, at the place p. *)
Lodged(t, u, V, a, p, k, v) ==
    /\ u \in Trees(V) /\ DOMAIN u.node = DOMAIN t.node /\ Len(u.node) = Len(t.node)
    /\ u.root = t.root /\ u.depth = t.depth
    /\ \A b \in DOMAIN t.node : /\ u.node[b].isLeaf = t.node[b].isLeaf /\ u.node[b].parent = t.node[b].parent
                                /\ u.node[b].child = t.node[b].child
                                /\ b # a => u.node[b].key = t.node[b].key /\ u.node[b].val = t.node[b].val
    /\ Enlarged(u.node[a].key, t.node[a].key, p, k) /\ Enlarged(u.node[a].val, t.node[a].val, p, v)
    /\ FirstNotBelow(t.node[a].key, k, p)

LEMMA PlacedIs ==
  ASSUME NEW V, NEW t \in Trees(V), NEW a \in DOMAIN t.node, Sorted(t.node[a].key), Len(t.node[a].val) = Len(t.node[a].key),
         NEW k \in Int, NEW v \in V, NEW p, p = lower_bound(t.node[a].key, k),
         NEW leaf, leaf = t.node[a]
  PROVE  Lodged(t, [t EXCEPT !.node[a] = [leaf EXCEPT !.key = InsertAt(@, p, k), !.val = InsertAt(@, p, v)]], V, a, p, k, v)
<1>1. /\ t.node \in Seq(Nodes(V)) /\ leaf \in Nodes(V) /\ leaf.key \in Seq(Int) /\ leaf.val \in Seq(V)
      /\ Len(leaf.key) \in Nat /\ t.root \in Nat /\ t.depth \in Nat /\ DOMAIN t.node = 1..Len(t.node) /\ Len(t.node) \in Nat
  BY NodeFields
<1>2. FirstNotBelow(leaf.key, k, p) BY <1>1, LowerBoundIs
<1>3. p \in 1..(Len(leaf.key) + 1) /\ p \in 1..(Len(leaf.val) + 1) BY <1>2 DEF FirstNotBelow
<1> DEFINE x == InsertAt(leaf.key, p, k)
           y == InsertAt(leaf.val, p, v)
           new == [leaf EXCEPT !.key = x, !.val = y]
           F == [t.node EXCEPT ![a] = new]
           u == [t EXCEPT !.node = F]
<1>4. x \in Seq(Int) /\ Enlarged(x, leaf.key, p, k) BY <1>1, <1>3, InsertAtIs
<1>5. y \in Seq(V) /\ Enlarged(y, leaf.val, p, v) BY <1>1, <1>3, InsertAtIs
<1>6. [t EXCEPT !.node[a] = [leaf EXCEPT !.key = InsertAt(@, p, k), !.val = InsertAt(@, p, v)]] = u
  BY Zenon
<1> HIDE DEF x, y
<1>7. /\ new \in Nodes(V) /\ new.isLeaf = leaf.isLeaf /\ new.parent = leaf.parent /\ new.child = leaf.child
      /\ new.key = x /\ new.val = y
  BY <1>1, <1>4, <1>5 DEF Nodes
<1> HIDE DEF new
<1>8. F \in Seq(Nodes(V)) /\ Len(F) = Len(t.node) /\ F[a] = new /\ DOMAIN F = DOMAIN t.node /\ \A b \in DOMAIN t.node : b # a => F[b] = t.node[b]
  BY <1>1, <1>7
<1> HIDE DEF F
<1>9. u \in Trees(V) /\ u.node = F /\ u.root = t.root /\ u.depth = t.depth
  BY <1>1, <1>8 DEF Trees
<1> HIDE DEF u
<1>10. \A b \in DOMAIN t.node : /\ u.node[b].isLeaf = t.node[b].isLeaf /\ u.node[b].parent = t.node[b].parent
                                /\ u.node[b].child = t.node[b].child
                                /\ b # a => u.node[b].key = t.node[b].key /\ u.node[b].val = t.node[b].val
  BY <1>7, <1>8, <1>9
<1>11. Enlarged(u.node[a].key, t.node[a].key, p, k) /\ Enlarged(u.node[a].val, t.node[a].val, p, v)
  BY <1>4, <1>5, <1>7, <1>8, <1>9
<1>12. Lodged(t, u, V, a, p, k, v) BY <1>2, <1>8, <1>9, <1>10, <1>11 DEF Lodged
<1>q. QED BY <1>6, <1>12

(* A new key is above the low bound of its leaf, and so are the keys that   *)
(* it moves on.                                                             *)
LEMMA PlacedOver ==
  ASSUME NEW s \in Seq(Int), NEW l \in Int, NEW k \in Int, l < k, NEW p, FirstNotBelow(s, k, p),
         NEW r, Enlarged(r, s, p, k), NEW q \in Nat \ {0}, q <= Len(r), q - 1 <= Len(s), q <= Len(s) => l < s[q]
  PROVE  l < r[q]
<1>1. /\ Len(s) \in Nat /\ p \in 1..(Len(s) + 1) /\ Len(r) = Len(s) + 1
      /\ \A j \in 1..Len(s) : p <= j => k <= s[j]
  BY DEF FirstNotBelow, Enlarged
<1>2. q \in 1..(Len(s) + 1) BY <1>1
<1>3. AtPlace(r, s, p, k, q) BY <1>1, <1>2, InsertedAt
<1>4. CASE q < p BY <1>2, <1>3, <1>4, <1>1 DEF AtPlace
<1>5. CASE q = p BY <1>3, <1>5 DEF AtPlace
<1>6. CASE q > p
  <2>1. q - 1 \in 1..Len(s) /\ p <= q - 1 /\ r[q] = s[q - 1] BY <1>3, <1>6, <1>1, <1>2 DEF AtPlace
  <2>2. k <= s[q - 1] /\ s[q - 1] \in Int BY <2>1, <1>1
  <2>q. QED BY <2>1, <2>2
<1>q. QED BY <1>1, <1>2, <1>4, <1>5, <1>6

LEMMA PlacedLeaf ==
  ASSUME NEW V, NEW t, NEW g, Shape(t, g, V, 0), NEW k \in Int, NEW v \in V, NEW a, a = LeafFor(t, k, NULL),
         NEW p, NEW u, Lodged(t, u, V, a, p, k, v)
  PROVE  /\ KeysOK(u.node[a], g.lo[a], g.hi[a]) /\ LeafOK(u.node[a], g.hi[a])
         /\ u.node[a].key # <<>> /\ Len(u.node[a].key) <= M /\ a \in DOMAIN t.node /\ t.node[a].isLeaf
<1>1. a \in DOMAIN t.node /\ t.node[a].isLeaf /\ Between(k, g.lo[a], g.hi[a]) BY LeafForIs
<1> DEFINE s == t.node[a].key
           r == u.node[a].key
<1>2. /\ t \in Trees(V) /\ u \in Trees(V) /\ a \in DOMAIN u.node /\ NodeOK(t, g, a) /\ g.lo[a] \in Bounds /\ g.hi[a] \in Bounds
      /\ Len(s) < M /\ a # 0
  <2>1. t \in Trees(V) /\ u \in Trees(V) /\ a \in DOMAIN u.node /\ NodeOK(t, g, a) /\ GhostOK(t, g)
    BY <1>1 DEF Shape, Lodged
  <2>2. a # 0
    <3>1. DOMAIN t.node = 1..Len(t.node) BY <1>1, <2>1, NodeFields
    <3>q. QED BY <3>1, <1>1
  <2>3. Len(s) < M BY <1>1, <2>2 DEF Shape
  <2>q. QED BY <2>1, <2>2, <2>3, <1>1 DEF GhostOK
<1>3. s \in Seq(Int) /\ r \in Seq(Int) /\ Len(s) \in Nat BY <1>1, <1>2, NodeFields
<1>4. /\ Sorted(s) /\ \A i \in 1..Len(s) : Least(g.lo[a], s[i]) /\ UpTo(g.hi[a], s[i])
      /\ g.lo[a] # NoBound /\ Len(s) > Half => g.lo[a] < s[Half + 1]
      /\ Len(t.node[a].val) = Len(s) /\ t.node[a].child = <<>>
      /\ g.hi[a] # NoBound => s # <<>> /\ s[Len(s)] = g.hi[a]
  BY <1>1, <1>2 DEF NodeOK, KeysOK, LeafOK
<1>5. Enlarged(r, s, p, k) /\ Enlarged(u.node[a].val, t.node[a].val, p, v) /\ FirstNotBelow(s, k, p)
      /\ u.node[a].child = t.node[a].child
  BY <1>1 DEF Lodged
<1> HIDE DEF r, s
<1>6. p \in 1..(Len(s) + 1) /\ \A i \in 1..Len(s) : (i < p => s[i] < k) /\ (p <= i => k <= s[i])
  BY <1>5 DEF FirstNotBelow
<1>7. Len(r) = Len(s) + 1 /\ r[p] = k /\ \A j \in 1..Len(s) : (j < p => r[j] = s[j]) /\ (j >= p => r[j + 1] = s[j])
  BY <1>5 DEF Enlarged
<1>8. \A j \in 1..(Len(s) + 1) : AtPlace(r, s, p, k, j) BY <1>3, <1>5, <1>6, InsertedAt
<1>9. Sorted(r)
  <2>1. \A j \in 1..Len(s) : (j < p => s[j] <= k) /\ (j >= p => k <= s[j])
    <3>1. \A j \in 1..Len(s) : s[j] \in Int BY <1>3
    <3>q. QED BY <3>1, <1>6
  <2>q. QED BY <2>1, <1>3, <1>4, <1>5, <1>6, SortedInserted
<1>10. ASSUME NEW j \in 1..Len(r) PROVE Least(g.lo[a], r[j]) /\ UpTo(g.hi[a], r[j])
  <2>1. AtPlace(r, s, p, k, j) BY <1>7, <1>8
  <2>2. CASE j < p BY <2>1, <2>2, <1>4 DEF AtPlace
  <2>3. CASE j = p
    <3>1. r[j] = k BY <2>1, <2>3 DEF AtPlace
    <3>q. QED BY <3>1, <1>1, <1>2, BoundCases DEF Between, Over, Least
  <2>4. CASE j > p BY <2>1, <2>4, <1>4 DEF AtPlace
  <2>q. QED BY <2>2, <2>3, <2>4, <1>6, <1>7
<1>11. ASSUME g.lo[a] # NoBound, Len(r) > Half PROVE g.lo[a] < r[Half + 1]
  <2>1. PICK q : q = Half + 1 OBVIOUS
  <2>2. Half \in Nat BY MIs
  <2>3. q \in Nat \ {0} /\ q <= Len(r) /\ q - 1 <= Len(s) /\ (q <= Len(s) => g.lo[a] < s[q])
    BY <2>1, <2>2, <1>3, <1>4, <1>7, <1>11
  <2>4. PICK l : l = g.lo[a] OBVIOUS
  <2>5. l \in Int /\ l < k BY <2>4, <1>1, <1>2, <1>11, BoundCases DEF Between, Over
  <2>6. l < r[q] BY <2>3, <2>4, <2>5, <1>3, <1>5, PlacedOver
  <2>q. QED BY <2>1, <2>4, <2>6
<1>12. KeysOK(u.node[a], g.lo[a], g.hi[a]) BY <1>9, <1>10, <1>11 DEF KeysOK, r
<1>13. r # <<>>
  <2>1. Len(r) # 0 /\ Len(<<>>) = 0 BY <1>3, <1>7
  <2>q. QED BY <2>1
<1>14. ASSUME g.hi[a] # NoBound PROVE r[Len(r)] = g.hi[a]
  <2>1. s # <<>> /\ s[Len(s)] = g.hi[a] BY <1>4, <1>14
  <2>2. Len(s) \in 1..Len(s) BY <2>1, <1>3
  <2>3. k <= s[Len(s)] BY <2>1, <1>1, <1>2, <1>14, BoundCases DEF Between, UpTo
  <2>4. s[Len(s)] \in Int BY <2>2, <1>3
  <2>5. p <= Len(s) BY <2>2, <2>3, <2>4, <1>3, <1>6
  <2>6. r[Len(s) + 1] = s[Len(s)] BY <2>2, <2>5, <1>7
  <2>q. QED BY <2>1, <2>6, <1>7
<1>15. Len(u.node[a].val) = Len(r) BY <1>4, <1>5, <1>7 DEF Enlarged
<1>16. LeafOK(u.node[a], g.hi[a]) BY <1>4, <1>5, <1>13, <1>14, <1>15 DEF LeafOK, r
<1>17. Len(r) <= M
  <2>1. M \in Nat BY MIs
  <2>q. QED BY <2>1, <1>2, <1>3, <1>7
<1>q. QED BY <1>1, <1>12, <1>13, <1>16, <1>17 DEF r

LEMMA PlacedShape ==
  ASSUME NEW V, NEW t, NEW g, Shape(t, g, V, 0), NEW k \in Int, NEW v \in V, NEW a, a = LeafFor(t, k, NULL),
         NEW p, NEW u, Lodged(t, u, V, a, p, k, v)
  PROVE  Shape(u, g, V, a)
<1>1. /\ KeysOK(u.node[a], g.lo[a], g.hi[a]) /\ LeafOK(u.node[a], g.hi[a])
      /\ u.node[a].key # <<>> /\ Len(u.node[a].key) <= M /\ a \in DOMAIN t.node /\ t.node[a].isLeaf
  BY PlacedLeaf
<1>b. Between(k, g.lo[a], g.hi[a]) BY LeafForIs
<1>2. /\ u \in Trees(V) /\ DOMAIN u.node = DOMAIN t.node /\ Len(u.node) = Len(t.node)
      /\ u.root = t.root /\ u.depth = t.depth
      /\ \A b \in DOMAIN t.node : /\ u.node[b].isLeaf = t.node[b].isLeaf /\ u.node[b].parent = t.node[b].parent
                                  /\ u.node[b].child = t.node[b].child
                                  /\ b # a => u.node[b].key = t.node[b].key /\ u.node[b].val = t.node[b].val
      /\ Enlarged(u.node[a].key, t.node[a].key, p, k) /\ FirstNotBelow(t.node[a].key, k, p)
  BY DEF Lodged
<1>3. /\ t \in Trees(V) /\ GhostOK(t, g) /\ RootOK(t, g)
      /\ \A b \in DOMAIN t.node : /\ NodeOK(t, g, b) /\ LeftOK(t, g, b) /\ (b # 0 => Len(t.node[b].key) < M)
  BY DEF Shape
<1>4. GhostOK(u, g) BY <1>2, <1>3 DEF GhostOK
<1>5. RootOK(u, g)
  <2>1. t.root \in DOMAIN t.node BY <1>3 DEF RootOK
  <2>q. QED BY <2>1, <1>2, <1>3 DEF RootOK
<1>6. ASSUME NEW b \in DOMAIN t.node PROVE NodeOK(u, g, b) /\ LeftOK(u, g, b)
  <2>1. NodeOK(t, g, b) /\ LeftOK(t, g, b) BY <1>3
  <2>2. u.node[b].isLeaf = t.node[b].isLeaf /\ u.node[b].parent = t.node[b].parent /\ u.node[b].child = t.node[b].child BY <1>2
  <2>3. KeysOK(u.node[b], g.lo[b], g.hi[b])
    <3>1. CASE b = a BY <3>1, <1>1
    <3>2. CASE b # a
      <4>1. u.node[b].key = t.node[b].key BY <3>2, <1>2
      <4>q. QED BY <4>1, <2>1 DEF NodeOK, KeysOK
    <3>q. QED BY <3>1, <3>2
  <2>4. u.node[b].isLeaf => LeafOK(u.node[b], g.hi[b])
    <3>1. CASE b = a BY <3>1, <1>1
    <3>2. CASE b # a
      <4>1. u.node[b].key = t.node[b].key /\ u.node[b].val = t.node[b].val BY <3>2, <1>2
      <4>q. QED BY <4>1, <2>1, <2>2 DEF NodeOK, LeafOK
    <3>q. QED BY <3>1, <3>2
  <2>5. ParentOK(u, b)
    <3>1. ParentOK(t, b) BY <2>1 DEF NodeOK
    <3> SUFFICES ASSUME b # t.root
                 PROVE  LET q == u.node[b].parent
                        IN  /\ u.node[b].key # <<>>
                            /\ q \in DOMAIN u.node /\ ~u.node[q].isLeaf
                            /\ \E i \in 1..Len(u.node[q].child) : u.node[q].child[i] = b
      BY <1>2 DEF ParentOK
    <3>2. PICK q : q = t.node[b].parent OBVIOUS
    <3>3. t.node[b].key # <<>> /\ q \in DOMAIN t.node /\ ~t.node[q].isLeaf /\ \E i \in 1..Len(t.node[q].child) : t.node[q].child[i] = b
      BY <3>1, <3>2 DEF ParentOK
    <3>4. u.node[b].key # <<>>
      <4>1. CASE b = a BY <4>1, <1>1
      <4>2. CASE b # a BY <4>2, <3>3, <1>2
      <4>q. QED BY <4>1, <4>2
    <3>5. q \in DOMAIN u.node /\ u.node[q].isLeaf = t.node[q].isLeaf /\ u.node[q].child = t.node[q].child BY <3>3, <1>2
    <3>q. QED BY <3>2, <3>3, <3>4, <3>5, <2>2
  <2>6. ASSUME ~t.node[b].isLeaf PROVE InnerOK(u, g, b)
    <3>1. InnerOK(t, g, b) BY <2>1, <2>6 DEF NodeOK
    <3>2. b # a /\ u.node[b].key = t.node[b].key BY <2>6, <1>1, <1>2
    <3>3. ASSUME NEW i \in 1..Len(t.node[b].child) PROVE ChildOK(u, g, b, i) /\ t.node[b].child[i] \in DOMAIN t.node
      <4>1. ChildOK(t, g, b, i) BY <3>1 DEF InnerOK
      <4>2. PICK d : d = t.node[b].child[i] OBVIOUS
      <4>3. d \in DOMAIN t.node BY <4>1, <4>2 DEF ChildOK
      <4>4. d \in DOMAIN u.node /\ u.node[d].parent = t.node[d].parent BY <4>3, <1>2
      <4>q. QED BY <4>1, <4>2, <4>3, <4>4, <3>2, <2>2, <1>2 DEF ChildOK
    <3>4. RunOK(u, g, b)
      <4>1. RunOK(t, g, b) BY <3>1 DEF InnerOK
      <4> SUFFICES ASSUME g.lev[b] = 1, g.lo[b] # NoBound, Len(t.node[b].key) >= Half, t.node[b].key[Half] = g.lo[b],
                          NEW i \in 1..Len(t.node[b].child), NEW d, d = t.node[b].child[i],
                          g.lo[d] = g.lo[b], g.hi[d] # g.lo[b], Len(u.node[d].key) >= Half
                   PROVE  g.lo[b] < u.node[d].key[Half]
        BY <3>2, <2>2 DEF RunOK
      <4>2. Len(t.node[d].key) >= Half => g.lo[b] < t.node[d].key[Half] BY <4>1 DEF RunOK
      <4>3. CASE d # a
        <5>1. u.node[d].key = t.node[d].key BY <4>3, <3>3, <1>2
        <5>q. QED BY <5>1, <4>2
      <4>4. CASE d = a
        <5>1. Half \in Nat \ {0} BY MIs
        <5>2. t.node[a].key \in Seq(Int) /\ Len(t.node[a].key) \in Nat BY <1>1, <1>3, NodeFields
        <5>3. PICK l : l = g.lo[b] OBVIOUS
        <5>4. l \in Int /\ l < k
          <6>1. g.lo[a] \in Bounds BY <1>1, <1>3 DEF GhostOK
          <6>2. g.lo[a] = l /\ l # NoBound BY <4>4, <5>3
          <6>q. QED BY <6>1, <6>2, <1>b, BoundCases DEF Between, Over
        <5>5. Len(u.node[a].key) = Len(t.node[a].key) + 1 BY <1>2 DEF Enlarged
        <5>6. Half <= Len(u.node[a].key) /\ Half - 1 <= Len(t.node[a].key) /\ (Half <= Len(t.node[a].key) => l < t.node[a].key[Half])
          BY <5>1, <5>2, <5>3, <5>5, <4>2, <4>4
        <5>7. PICK s : s = t.node[a].key OBVIOUS
        <5>8. PICK r : r = u.node[a].key OBVIOUS
        <5>9. PICK q : q = Half OBVIOUS
        <5>10. s \in Seq(Int) /\ FirstNotBelow(s, k, p) /\ Enlarged(r, s, p, k) /\ q \in Nat \ {0} /\ q <= Len(r) /\ q - 1 <= Len(s)
               /\ (q <= Len(s) => l < s[q])
          BY <5>1, <5>2, <5>6, <5>7, <5>8, <5>9, <1>2
        <5>11. l < r[q] BY <5>4, <5>10, PlacedOver
        <5>q. QED BY <5>3, <5>8, <5>9, <5>11, <4>4
      <4>q. QED BY <4>3, <4>4
    <3>q. QED BY <3>1, <3>2, <3>3, <3>4, <2>2 DEF InnerOK
  <2>7. NodeOK(u, g, b) BY <2>1, <2>2, <2>3, <2>4, <2>5, <2>6 DEF NodeOK
  <2>8. LeftOK(u, g, b)
    <3>1. \A d \in DOMAIN t.node : d \in DOMAIN u.node /\ u.node[d].isLeaf = t.node[d].isLeaf BY <1>2
    <3>q. QED BY <3>1, <2>1, <2>2 DEF LeftOK
  <2>q. QED BY <2>7, <2>8
<1>7. \A b \in DOMAIN t.node : IF b = a THEN Len(u.node[b].key) <= M ELSE Len(u.node[b].key) < M
  <2>1. DOMAIN t.node = 1..Len(t.node) BY <1>1, <1>3, NodeFields
  <2>2. \A b \in DOMAIN t.node : b # 0 BY <2>1
  <2>q. QED BY <2>2, <1>1, <1>2, <1>3
<1>q. QED BY <1>2, <1>4, <1>5, <1>6, <1>7 DEF Shape

(* u holds record v under key k, and under other keys what t holds. *)
Takes(t, u, k, v) ==
    /\ StoredKeys(u) = StoredKeys(t) \cup {k}
    /\ lookup(u, k, NULL) = v
    /\ \A j \in StoredKeys(t) : j # k => lookup(u, j, NULL) = lookup(t, j, NULL)

LEMMA InsertedRange ==
  ASSUME NEW S, NEW s \in Seq(S), NEW r \in Seq(S), NEW p \in 1..(Len(s) + 1), NEW k, Enlarged(r, s, p, k)
  PROVE  Range(r) = Range(s) \cup {k}
<1>1. Len(r) = Len(s) + 1 /\ Len(s) \in Nat /\ r[p] = k /\ DOMAIN r = 1..Len(r) /\ DOMAIN s = 1..Len(s)
      /\ \A j \in 1..Len(s) : (j < p => r[j] = s[j]) /\ (j >= p => r[j + 1] = s[j])
  BY DEF Enlarged
<1>2. ASSUME NEW x \in Range(r) PROVE x \in Range(s) \cup {k}
  <2>1. PICK j \in 1..(Len(s) + 1) : r[j] = x BY <1>1 DEF Range
  <2>2. AtPlace(r, s, p, k, j) BY <1>1, <2>1, InsertedAt
  <2>3. CASE j < p BY <2>1, <2>2, <2>3, <1>1 DEF AtPlace, Range
  <2>4. CASE j = p BY <2>1, <2>2, <2>4 DEF AtPlace
  <2>5. CASE j > p BY <2>1, <2>2, <2>5, <1>1 DEF AtPlace, Range
  <2>q. QED BY <2>3, <2>4, <2>5
<1>3. ASSUME NEW x \in Range(s) PROVE x \in Range(r)
  <2>1. PICK j \in 1..Len(s) : s[j] = x BY <1>1 DEF Range
  <2>2. j \in DOMAIN r /\ j + 1 \in DOMAIN r BY <1>1
  <2>3. CASE j < p BY <2>1, <2>2, <2>3, <1>1 DEF Range
  <2>4. CASE j >= p BY <2>1, <2>2, <2>4, <1>1 DEF Range
  <2>q. QED BY <2>3, <2>4
<1>4. k \in Range(r) BY <1>1 DEF Range
<1>q. QED BY <1>2, <1>3, <1>4

(* A key of a sorted vector is what is found where a search for it stops. *)
LEMMA FoundAt ==
  ASSUME NEW s \in Seq(Int), Sorted(s), NEW j \in Range(s), NEW q, FirstNotBelow(s, j, q)
  PROVE  q \in 1..Len(s) /\ s[q] = j
<1>1. Len(s) \in Nat /\ DOMAIN s = 1..Len(s) OBVIOUS
<1>2. PICK i \in 1..Len(s) : s[i] = j BY <1>1 DEF Range
<1>3. q \in 1..(Len(s) + 1) /\ \A n \in 1..Len(s) : (n < q => s[n] < j) /\ (q <= n => j <= s[n])
  BY DEF FirstNotBelow
<1>4. j \in Int /\ q <= i BY <1>1, <1>2, <1>3
<1>5. q \in 1..Len(s) BY <1>1, <1>2, <1>3, <1>4
<1>6. s[q] <= j /\ j <= s[q] /\ s[q] \in Int BY <1>2, <1>3, <1>4, <1>5 DEF Sorted
<1>q. QED BY <1>4, <1>5, <1>6

(* Another key of the leaf has its place behind the new key or keeps it. *)
LEMMA PlacedAnswer ==
  ASSUME NEW V, NEW t, NEW g, Shape(t, g, V, 0), NEW a \in DOMAIN t.node, t.node[a].isLeaf, NEW k \in Int, NEW v,
         NEW p, NEW u, Lodged(t, u, V, a, p, k, v), NEW j \in Int, j # k, j \in Range(t.node[a].key)
  PROVE  SameAnswer(t, a, u, a, j)
<1> DEFINE s == t.node[a].key
           r == u.node[a].key
           w == t.node[a].val
           x == u.node[a].val
<1>1. t \in Trees(V) /\ NodeOK(t, g, a) BY DEF Shape
<1>2. s \in Seq(Int) /\ Sorted(s) /\ Len(s) \in Nat /\ Len(w) = Len(s) BY <1>1, NodeFields DEF NodeOK, KeysOK, LeafOK
<1>3. Enlarged(r, s, p, k) /\ Enlarged(x, w, p, v) /\ FirstNotBelow(s, k, p) BY DEF Lodged
<1>4. PICK q : FirstNotBelow(s, j, q) BY <1>2, LowerBoundIs
<1>5. q \in 1..Len(s) /\ s[q] = j BY <1>2, <1>4, FoundAt
<1> HIDE DEF s, r, w, x
<1>6. p \in 1..(Len(s) + 1) /\ \A n \in 1..Len(s) : (n < p => s[n] < k) /\ (p <= n => k <= s[n])
  BY <1>3 DEF FirstNotBelow
<1>7. \A n \in 1..Len(s) : (n < q => s[n] < j) /\ (q <= n => j <= s[n]) BY <1>4 DEF FirstNotBelow
<1>8. Len(r) = Len(s) + 1 /\ \A n \in 1..Len(s) : (n < p => x[n] = w[n]) /\ (n >= p => x[n + 1] = w[n])
  BY <1>2, <1>3 DEF Enlarged
<1>9. \A n \in 1..(Len(s) + 1) : AtPlace(r, s, p, k, n) BY <1>2, <1>3, <1>6, InsertedAt
<1>10. \A n \in 1..Len(s) : s[n] \in Int BY <1>2
<1>11. CASE q < p
  <2>1. j < k BY <1>5, <1>6, <1>11
  <2>2. ASSUME NEW n \in 1..Len(r) PROVE (n < q => r[n] < j) /\ (q <= n => j <= r[n])
    <3>1. AtPlace(r, s, p, k, n) BY <1>8, <1>9
    <3>2. CASE n < p
      <4>1. n \in 1..Len(s) /\ r[n] = s[n] BY <3>1, <3>2 DEF AtPlace
      <4>q. QED BY <4>1, <1>7
    <3>3. CASE n = p
      <4>1. r[n] = k /\ ~(n < q) BY <3>1, <3>3, <1>5, <1>6, <1>11 DEF AtPlace
      <4>q. QED BY <4>1, <2>1
    <3>4. CASE n > p
      <4>1. n - 1 \in 1..Len(s) /\ r[n] = s[n - 1] /\ n - 1 >= p BY <3>1, <3>4 DEF AtPlace
      <4>2. q <= n - 1 /\ ~(n < q) BY <4>1, <1>5, <1>6, <1>11
      <4>q. QED BY <4>1, <4>2, <1>7
    <3>q. QED BY <3>2, <3>3, <3>4, <1>6, <1>8
  <2>3. FirstNotBelow(r, j, q)
    <3>1. q \in 1..(Len(r) + 1) BY <1>2, <1>5, <1>8
    <3>q. QED BY <3>1, <2>2 DEF FirstNotBelow
  <2>4. ~(q > Len(s)) /\ ~(q > Len(r)) /\ x[q] = w[q] BY <1>2, <1>5, <1>8, <1>11
  <2>q. QED BY <2>3, <2>4, <1>4 DEF SameAnswer, s, r, w, x
<1>12. CASE ~(q < p)
  <2>0. PICK y : y = q + 1 OBVIOUS
  <2>1. k < j BY <1>5, <1>6, <1>10, <1>12
  <2>2. ASSUME NEW n \in 1..Len(r) PROVE (n < y => r[n] < j) /\ (y <= n => j <= r[n])
    <3>1. AtPlace(r, s, p, k, n) BY <1>8, <1>9
    <3>2. CASE n < p
      <4>1. n \in 1..Len(s) /\ r[n] = s[n] /\ n < q BY <3>1, <3>2, <1>5, <1>6, <1>12 DEF AtPlace
      <4>q. QED BY <4>1, <1>5, <1>7, <2>0
    <3>3. CASE n = p
      <4>1. r[n] = k /\ n < y BY <3>1, <3>3, <1>5, <1>6, <1>12, <2>0 DEF AtPlace
      <4>q. QED BY <4>1, <2>0, <2>1, <1>5
    <3>4. CASE n > p
      <4>1. n - 1 \in 1..Len(s) /\ r[n] = s[n - 1] BY <3>1, <3>4 DEF AtPlace
      <4>2. (n < y => n - 1 < q) /\ (y <= n => q <= n - 1) BY <4>1, <1>5, <2>0
      <4>q. QED BY <4>1, <4>2, <1>7
    <3>q. QED BY <3>2, <3>3, <3>4, <1>6, <1>8
  <2>3. FirstNotBelow(r, j, y)
    <3>1. y \in 1..(Len(r) + 1) BY <1>2, <1>5, <1>8, <2>0
    <3>q. QED BY <3>1, <2>2 DEF FirstNotBelow
  <2>4. ~(q > Len(s)) /\ ~(y > Len(r)) /\ x[y] = w[q] BY <1>2, <1>5, <1>6, <1>8, <1>12, <2>0
  <2>q. QED BY <2>3, <2>4, <1>4 DEF SameAnswer, s, r, w, x
<1>q. QED BY <1>11, <1>12

(* A leaf is found in u as in t. *)
LEMMA PlacedLeafFor ==
  ASSUME NEW V, NEW t, NEW g, Shape(t, g, V, 0), NEW k, NEW v, NEW a, NEW p, NEW u, Lodged(t, u, V, a, p, k, v),
         Shape(u, g, V, a), NEW j \in Int
  PROVE  LeafFor(u, j, NULL) = LeafFor(t, j, NULL)
<1>1. PICK l : l = LeafFor(t, j, NULL) OBVIOUS
<1>2. l \in DOMAIN t.node /\ t.node[l].isLeaf /\ Between(j, g.lo[l], g.hi[l]) BY <1>1, LeafForIs
<1>3. l \in DOMAIN u.node /\ u.node[l].isLeaf BY <1>2 DEF Lodged
<1>4. l = LeafFor(u, j, NULL) BY <1>2, <1>3, LeafForIs
<1>q. QED BY <1>1, <1>4

LEMMA PlacedTakes ==
  ASSUME NEW V, NEW t, NEW g, Shape(t, g, V, 0), NEW k \in Int, NEW v \in V, NEW a, a = LeafFor(t, k, NULL),
         NEW p, NEW u, Lodged(t, u, V, a, p, k, v), Shape(u, g, V, a)
  PROVE  Takes(t, u, k, v)
<1>1. a \in DOMAIN t.node /\ t.node[a].isLeaf /\ Between(k, g.lo[a], g.hi[a]) BY LeafForIs
<1>2. /\ u \in Trees(V) /\ DOMAIN u.node = DOMAIN t.node
      /\ \A b \in DOMAIN t.node : /\ u.node[b].isLeaf = t.node[b].isLeaf
                                  /\ b # a => u.node[b].key = t.node[b].key /\ u.node[b].val = t.node[b].val
      /\ Enlarged(u.node[a].key, t.node[a].key, p, k) /\ Enlarged(u.node[a].val, t.node[a].val, p, v)
      /\ FirstNotBelow(t.node[a].key, k, p)
  BY DEF Lodged
<1>3. t \in Trees(V) BY DEF Shape
<1>4. /\ t.node[a].key \in Seq(Int) /\ Len(t.node[a].key) \in Nat /\ u.node[a].key \in Seq(Int)
      /\ p \in 1..(Len(t.node[a].key) + 1) /\ p \in Nat
  <2>1. t.node[a].key \in Seq(Int) /\ Len(t.node[a].key) \in Nat /\ u.node[a].key \in Seq(Int) BY <1>1, <1>2, <1>3, NodeFields
  <2>2. p \in 1..(Len(t.node[a].key) + 1) BY <1>2 DEF FirstNotBelow
  <2>q. QED BY <2>1, <2>2
<1>5. StoredKeys(u) = StoredKeys(t) \cup {k}
  <2>1. Leaves(u) = Leaves(t) /\ a \in Leaves(t) BY <1>1, <1>2 DEF Leaves
  <2>2. Range(u.node[a].key) = Range(t.node[a].key) \cup {k} BY <1>2, <1>4, InsertedRange
  <2>3. \A b \in Leaves(t) : b # a => u.node[b].key = t.node[b].key BY <1>2 DEF Leaves
  <2>4. ASSUME NEW x \in StoredKeys(u) PROVE x \in StoredKeys(t) \cup {k}
    <3>1. PICK b \in Leaves(t) : x \in Range(u.node[b].key) BY <2>1 DEF StoredKeys
    <3>2. CASE b = a BY <3>1, <3>2, <2>2 DEF StoredKeys
    <3>3. CASE b # a BY <3>1, <3>3, <2>3 DEF StoredKeys
    <3>q. QED BY <3>2, <3>3
  <2>5. ASSUME NEW x \in StoredKeys(t) PROVE x \in StoredKeys(u)
    <3>1. PICK b \in Leaves(t) : x \in Range(t.node[b].key) BY DEF StoredKeys
    <3>2. x \in Range(u.node[b].key)
      <4>1. CASE b = a BY <4>1, <3>1, <2>2
      <4>2. CASE b # a BY <4>2, <3>1, <2>3
      <4>q. QED BY <4>1, <4>2
    <3>q. QED BY <3>2, <2>1 DEF StoredKeys
  <2>6. k \in StoredKeys(u) BY <2>1, <2>2 DEF StoredKeys
  <2>q. QED BY <2>4, <2>5, <2>6
<1>6. lookup(u, k, NULL) = v
  <2>1. LeafFor(u, k, NULL) = a BY PlacedLeafFor
  <2>2. a \in DOMAIN u.node /\ u.node[a].isLeaf BY <1>1, <1>2
  <2> DEFINE s == t.node[a].key
             r == u.node[a].key
  <2>3. FirstNotBelow(r, k, p)
    <3>1. Len(r) = Len(s) + 1 /\ r[p] = k /\ \A j \in 1..Len(s) : (j < p => s[j] < k) /\ (p <= j => k <= s[j])
      BY <1>2 DEF Enlarged, FirstNotBelow
    <3>2. Enlarged(r, s, p, k) /\ Len(s) \in Nat /\ p \in 1..(Len(s) + 1) BY <1>2, <1>4
    <3> HIDE DEF r, s
    <3>3. \A n \in 1..(Len(s) + 1) : AtPlace(r, s, p, k, n) BY <3>2, InsertedAt
    <3>4. ASSUME NEW n \in 1..Len(r) PROVE (n < p => r[n] < k) /\ (p <= n => k <= r[n])
      <4>1. AtPlace(r, s, p, k, n) BY <3>1, <3>3
      <4>2. CASE n < p BY <4>1, <4>2, <3>1 DEF AtPlace
      <4>3. CASE n = p BY <4>1, <4>3, <3>1, <3>2 DEF AtPlace
      <4>4. CASE n > p BY <4>1, <4>4, <3>1, <3>2 DEF AtPlace
      <4>q. QED BY <4>2, <4>3, <4>4, <3>1, <3>2
    <3>5. p \in 1..(Len(r) + 1) BY <3>1, <3>2
    <3>q. QED BY <3>4, <3>5 DEF FirstNotBelow
  <2>4. ~(p > Len(u.node[a].key)) BY <1>2, <1>4 DEF Enlarged
  <2>5. lookup(u, k, NULL) = IF p > Len(u.node[a].key) THEN Empty ELSE u.node[a].val[p] BY <2>1, <2>2, <2>3, LookupIs
  <2>q. QED BY <2>4, <2>5, <1>2 DEF Enlarged
<1>7. ASSUME NEW j \in StoredKeys(t), j # k PROVE lookup(u, j, NULL) = lookup(t, j, NULL)
  <2>1. PICK l : l = LeafFor(t, j, NULL) OBVIOUS
  <2>2. j \in Int /\ j \in Range(t.node[l].key) BY <2>1, StoredFound
  <2>3. l \in DOMAIN t.node /\ t.node[l].isLeaf /\ Between(j, g.lo[l], g.hi[l]) BY <2>1, <2>2, LeafForIs
  <2>4. l \in DOMAIN u.node /\ u.node[l].isLeaf BY <2>3, <1>2
  <2>5. SameAnswer(t, l, u, l, j)
    <3>1. CASE l = a BY <3>1, <2>2, <2>3, <1>7, PlacedAnswer
    <3>2. CASE l # a
      <4>1. u.node[l].key = t.node[l].key /\ u.node[l].val = t.node[l].val BY <3>2, <2>3, <1>2
      <4>q. QED BY <4>1, <2>2, <2>3, SameAnswerSelf
    <3>q. QED BY <3>1, <3>2
  <2>q. QED BY <2>1, <2>2, <2>3, <2>4, <2>5, SameLookup
<1>q. QED BY <1>5, <1>6, <1>7 DEF Takes

(* insert keeps the shape and the leaves there are, and a tree that got no  *)
(* new node is searched as before.                                          *)
Grew(t, g, V, u, k, v) ==
    \E h : /\ Shape(u, h, V, 0) /\ Takes(t, u, k, v)
           /\ DOMAIN t.node \subseteq DOMAIN u.node /\ Len(u.node) >= Len(t.node)
           /\ \A b \in DOMAIN t.node : t.node[b].isLeaf => u.node[b].isLeaf /\ h.lo[b] = g.lo[b]
           /\ Len(u.node) = Len(t.node) => \A j \in Int : LeafFor(u, j, NULL) = LeafFor(t, j, NULL)

LEMMA InsertIs ==
  ASSUME NEW V, NEW t, NEW g, Shape(t, g, V, 0), NEW k \in Int, NEW v \in V
  PROVE  Grew(t, g, V, insert(t, k, v), k, v)
<1>1. PICK a : a = LeafFor(t, k, NULL) OBVIOUS
<1>2. PICK leaf : leaf = t.node[a] OBVIOUS
<1>3. PICK p : p = lower_bound(leaf.key, k) OBVIOUS
<1>4. PICK w : w = [t EXCEPT !.node[a] = [leaf EXCEPT !.key = InsertAt(@, p, k), !.val = InsertAt(@, p, v)]] OBVIOUS
<1>5. insert(t, k, v) = overflow(w, a)
  <2>1. a = Descend(t, t.root, k) BY <1>1 DEF LeafFor
  <2>q. QED BY <2>1, <1>2, <1>3, <1>4, Zenon DEF insert
<1>6. a \in DOMAIN t.node /\ t.node[a].isLeaf BY <1>1, LeafForIs
<1>7. t \in Trees(V) /\ Sorted(t.node[a].key) /\ Len(t.node[a].val) = Len(t.node[a].key)
  <2>1. t \in Trees(V) /\ NodeOK(t, g, a) BY <1>6 DEF Shape
  <2>q. QED BY <2>1, <1>6 DEF NodeOK, KeysOK, LeafOK
<1>8. Lodged(t, w, V, a, p, k, v) BY <1>2, <1>3, <1>4, <1>6, <1>7, PlacedIs
<1>9. Shape(w, g, V, a) BY <1>1, <1>8, PlacedShape
<1>10. Takes(t, w, k, v) BY <1>1, <1>8, <1>9, PlacedTakes
<1>11. /\ DOMAIN w.node = DOMAIN t.node /\ Len(w.node) = Len(t.node)
       /\ \A b \in DOMAIN t.node : w.node[b].isLeaf = t.node[b].isLeaf
  BY <1>8 DEF Lodged
<1>12. PICK u : u = overflow(w, a) OBVIOUS
<1>13. Settled(w, g, V, u) BY <1>6, <1>9, <1>11, <1>12, OverflowIs
<1>14. PICK h : Shape(u, h, V, 0) /\ Follows(w, g, u, h) /\ (u = w \/ Len(u.node) > Len(w.node)) BY <1>13 DEF Settled
<1>15. /\ DOMAIN w.node \subseteq DOMAIN u.node /\ StoredKeys(u) = StoredKeys(w)
       /\ \A j \in Int : lookup(u, j, NULL) = lookup(w, j, NULL)
       /\ \A b \in DOMAIN w.node : w.node[b].isLeaf => u.node[b].isLeaf /\ h.lo[b] = g.lo[b]
  BY <1>14 DEF Follows
<1>16. StoredKeys(t) \subseteq Int BY StoredFound
<1>17. Takes(t, u, k, v) BY <1>10, <1>15, <1>16 DEF Takes
<1>18. Len(t.node) \in Nat /\ Len(u.node) \in Nat
  <2>1. u \in Trees(V) /\ a \in DOMAIN u.node BY <1>6, <1>11, <1>14, <1>15 DEF Shape
  <2>q. QED BY <2>1, <1>6, <1>7, NodeFields
<1>19. Len(u.node) >= Len(t.node) BY <1>11, <1>14, <1>18
<1>20. ASSUME Len(u.node) = Len(t.node), NEW j \in Int PROVE LeafFor(u, j, NULL) = LeafFor(t, j, NULL)
  <2>1. u = w BY <1>11, <1>14, <1>18, <1>20
  <2>q. QED BY <2>1, <1>8, <1>9, PlacedLeafFor
<1>21. Grew(t, g, V, u, k, v) BY <1>11, <1>14, <1>15, <1>17, <1>19, <1>20 DEF Grew
<1>q. QED BY <1>5, <1>12, <1>21

(* The tree before the first insert is one leaf. *)
LEMMA NewTreeIs ==
  ASSUME NEW V
  PROVE  (\E g : Shape(NewTree, g, V, 0)) /\ StoredKeys(NewTree) = {}
<1> DEFINE t == NewTree
           g == [lev |-> [a \in {1} |-> 0], lo |-> [a \in {1} |-> NoBound], hi |-> [a \in {1} |-> NoBound]]
<1>1. /\ t.node = <<Node>> /\ t.root = 1 /\ t.depth = 1 /\ t = [node |-> <<Node>>, root |-> 1, depth |-> 1] BY DEF NewTree
<1>2. Node \in Nodes(V) /\ Node.isLeaf /\ Node.parent = NULL /\ Node.key = <<>> /\ Node.val = <<>> /\ Node.child = <<>>
  <2>1. <<>> \in Seq(Int) /\ <<>> \in Seq(V) /\ <<>> \in Seq(Nat) /\ NULL \in Nat BY DEF NULL
  <2>q. QED BY <2>1 DEF Nodes, Node
<1>3. DOMAIN t.node = {1} /\ t.node[1] = Node /\ <<Node>> \in Seq(Nodes(V)) BY <1>1, <1>2
<1>4. t \in Trees(V) BY <1>1, <1>3 DEF Trees
<1>5. g.lev[1] = 0 /\ g.lo[1] = NoBound /\ g.hi[1] = NoBound OBVIOUS
<1>6. GhostOK(t, g)
  <2>1. g.lev \in [{1} -> Nat] /\ g.lo \in [{1} -> Bounds] /\ g.hi \in [{1} -> Bounds] BY DEF Bounds
  <2>2. \A a \in DOMAIN t.node : g.lev[a] < t.depth BY <1>1, <1>3, <1>5
  <2>q. QED BY <2>1, <2>2, <1>3 DEF GhostOK
<1>7. RootOK(t, g) BY <1>1, <1>2, <1>3, <1>5 DEF RootOK
<1> HIDE DEF t, g
<1>l. Len(<<>>) = 0 OBVIOUS
<1>8. NodeOK(t, g, 1) /\ LeftOK(t, g, 1)
  <2>1. KeysOK(Node, NoBound, NoBound) BY <1>2, <1>l DEF KeysOK, Sorted
  <2>2. ParentOK(t, 1) BY <1>1 DEF ParentOK
  <2>3. LeafOK(Node, NoBound) BY <1>2, <1>l DEF LeafOK
  <2>4. LeftOK(t, g, 1) BY <1>5 DEF LeftOK
  <2>q. QED BY <2>1, <2>2, <2>3, <2>4, <1>2, <1>3, <1>5 DEF NodeOK
<1>9. Len(t.node[1].key) < M BY <1>2, <1>3, <1>l, TreeAssumption
<1>10. Shape(t, g, V, 0) BY <1>3, <1>4, <1>6, <1>7, <1>8, <1>9 DEF Shape
<1>11. StoredKeys(t) = {}
  <2>1. \A a \in Leaves(t) : Range(t.node[a].key) = {}
    <3>1. \A a \in Leaves(t) : t.node[a].key = <<>> BY <1>2, <1>3 DEF Leaves
    <3>2. Range(<<>>) = {} BY DEF Range
    <3>q. QED BY <3>1, <3>2
  <2>q. QED BY <2>1 DEF StoredKeys
<1>q. QED BY <1>10, <1>11 DEF t

(* Inserts one by one. *)
Inserts(r, s, m) == r = [n \in 0..m |-> IF n = 0 THEN NewTree ELSE insert(r[n - 1], s[n][1], s[n][2])]

LEMMA InsertsExist == ASSUME NEW s, NEW m \in Nat PROVE \E r : Inserts(r, s, m)
<1> DEFINE C == {n \in Nat : ~ \E r : Inserts(r, s, n)}
<1>1. ASSUME C # {} PROVE FALSE
  <2>0. C \subseteq Nat OBVIOUS
  <2>1. PICK n \in C : \A j \in C : n <= j
    <3> HIDE DEF C
    <3>q. QED BY <1>1, <2>0, SmallestNumber
  <2>2. CASE n = 0
    <3> DEFINE r == [i \in 0..0 |-> NewTree]
    <3>1. Inserts(r, s, 0) BY DEF Inserts
    <3>q. QED BY <3>1, <2>1, <2>2
  <2>3. CASE n # 0
    <3>1. n - 1 \in Nat /\ n - 1 \notin C BY <2>1, <2>3
    <3>2. PICK v : Inserts(v, s, n - 1) BY <3>1
    <3> DEFINE r == [i \in 0..n |-> IF i = 0 THEN NewTree ELSE insert(v[i - 1], s[i][1], s[i][2])]
    <3>3. \A i \in 0..(n - 1) : r[i] = v[i]
      <4>1. \A i \in 0..(n - 1) : v[i] = IF i = 0 THEN NewTree ELSE insert(v[i - 1], s[i][1], s[i][2]) BY <3>2 DEF Inserts
      <4>2. \A i \in 0..(n - 1) : i \in 0..n BY <2>1
      <4>q. QED BY <4>1, <4>2
    <3>4. \A i \in 0..n : i # 0 => i - 1 \in 0..(n - 1) BY <2>1
    <3>5. \A i \in 0..n : i # 0 => r[i - 1] = v[i - 1] BY <3>3, <3>4
    <3>6. r = [i \in 0..n |-> IF i = 0 THEN NewTree ELSE insert(r[i - 1], s[i][1], s[i][2])] BY <3>5, Zenon
    <3>q. QED BY <3>6, <2>1 DEF Inserts
  <2>q. QED BY <2>2, <2>3
<1>q. QED BY <1>1

(* The tree t has no full node and holds under its keys what w says. *)
Filled(t, V, keys, w) ==
    /\ \E g : Shape(t, g, V, 0)
    /\ StoredKeys(t) = keys
    /\ \A k \in keys : lookup(t, k, NULL) = w[k]

LEMMA FilledOn ==
  ASSUME NEW V, NEW t, NEW keys, NEW w, Filled(t, V, keys, w), NEW k \in Int, NEW v \in V, v = w[k]
  PROVE  Filled(insert(t, k, v), V, keys \cup {k}, w)
<1>1. PICK g : Shape(t, g, V, 0) BY DEF Filled
<1>2. PICK u : u = insert(t, k, v) OBVIOUS
<1>3. Grew(t, g, V, u, k, v) BY <1>1, <1>2, InsertIs
<1>4. PICK h : Shape(u, h, V, 0) /\ Takes(t, u, k, v) BY <1>3 DEF Grew
<1>5. StoredKeys(t) = keys /\ \A j \in keys : lookup(t, j, NULL) = w[j] BY DEF Filled
<1>6. /\ StoredKeys(u) = StoredKeys(t) \cup {k} /\ lookup(u, k, NULL) = v
      /\ \A j \in StoredKeys(t) : j # k => lookup(u, j, NULL) = lookup(t, j, NULL)
  BY <1>4 DEF Takes
<1>7. \A j \in keys \cup {k} : lookup(u, j, NULL) = w[j] BY <1>5, <1>6
<1>8. Filled(u, V, keys \cup {k}, w) BY <1>4, <1>5, <1>6, <1>7 DEF Filled
<1>q. QED BY <1>2, <1>8

LEMMA InsertAllIs ==
  ASSUME NEW V, NEW s, Len(s) \in Nat, NEW w,
         \A i \in 1..Len(s) : s[i][1] \in Int /\ s[i][2] \in V /\ s[i][2] = w[s[i][1]]
  PROVE  Filled(InsertAll(s), V, {s[i][1] : i \in 1..Len(s)}, w)
<1>m. PICK m : m = Len(s) OBVIOUS
<1> DEFINE r == CHOOSE r : Inserts(r, s, Len(s))
           keys(n) == {s[i][1] : i \in 1..n}
           Good(n) == Filled(r[n], V, keys(n), w)
           C == {n \in 0..m : ~Good(n)}
<1>1. Inserts(r, s, Len(s)) BY InsertsExist
<1>2. InsertAll(s) = r[Len(s)] BY Zenon DEF InsertAll, Inserts
<1> HIDE DEF r
<1>3. m \in Nat /\ Inserts(r, s, m) BY <1>1, <1>m
<1>4. \A n \in 0..m : r[n] = IF n = 0 THEN NewTree ELSE insert(r[n - 1], s[n][1], s[n][2]) BY <1>3 DEF Inserts
<1>5. Good(0)
  <2>1. r[0] = NewTree BY <1>3, <1>4
  <2>2. keys(0) = {} OBVIOUS
  <2>3. (\E g : Shape(NewTree, g, V, 0)) /\ StoredKeys(NewTree) = {} BY NewTreeIs
  <2>q. QED BY <2>1, <2>2, <2>3 DEF Filled
<1>6. ASSUME NEW n \in 0..m, NEW l \in Nat, n = l + 1, Good(l) PROVE Good(n)
  <2>1. n \in 1..m /\ n # 0 /\ n - 1 = l BY <1>6, <1>3
  <2>2. r[n] = insert(r[l], s[n][1], s[n][2]) BY <2>1, <1>4
  <2>3. s[n][1] \in Int /\ s[n][2] \in V /\ s[n][2] = w[s[n][1]] BY <2>1, <1>m
  <2>4. Filled(r[l], V, keys(l), w) BY <1>6
  <2>5. keys(n) = keys(l) \cup {s[n][1]}
    <3>1. \A i \in 1..n : i \in 1..l \/ i = n BY <1>6
    <3>2. \A i \in 1..l : i \in 1..n BY <1>6
    <3>3. n \in 1..n BY <2>1
    <3>q. QED BY <3>1, <3>2, <3>3
  <2> HIDE DEF keys
  <2>6. PICK k : k = s[n][1] OBVIOUS
  <2>7. PICK v : v = s[n][2] OBVIOUS
  <2>8. Filled(insert(r[l], k, v), V, keys(l) \cup {k}, w) BY <2>3, <2>4, <2>6, <2>7, FilledOn
  <2>q. QED BY <2>2, <2>5, <2>6, <2>7, <2>8
<1>7. ASSUME C # {} PROVE FALSE
  <2>0. C \subseteq Nat OBVIOUS
  <2>1. PICK n \in C : \A j \in C : n <= j
    <3> HIDE DEF C
    <3>q. QED BY <1>7, <2>0, SmallestNumber
  <2> HIDE DEF Good
  <2>2. n \in 0..m /\ ~Good(n) /\ n # 0 BY <2>1, <1>5
  <2>3. PICK l : l = n - 1 OBVIOUS
  <2>4. l \in Nat /\ n = l + 1 /\ l \in 0..m /\ ~(n <= l) BY <2>2, <2>3, <1>3
  <2>5. Good(l) BY <2>1, <2>4
  <2>q. QED BY <2>2, <2>4, <2>5, <1>6
<1>8. Good(m)
  <2>1. m \in 0..m BY <1>3
  <2> HIDE DEF Good
  <2>q. QED BY <2>1, <1>7
<1>q. QED BY <1>2, <1>8, <1>m
=============================================================================
