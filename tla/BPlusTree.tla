---------------------------- MODULE BPlusTree ----------------------------
(***************************************************************************)
(* The B+ tree the LRUIndex back end keeps its records in                  *)
(* (testbed/LRUIndex/Server/lib/b_plus_tree.h).  A node is a record, a     *)
(* node's address its position in the sequence of nodes ever allocated     *)
(* (nodes are never freed), and NULL is 0.  A lookup may start at any      *)
(* address: the switch caches the leaf an earlier lookup ended in.         *)
(* access_count only feeds load2switch, whose one call is commented out.   *)
(***************************************************************************)
EXTENDS Integers, Sequences, SequencesExt, FiniteSets

CONSTANTS
    Key,        \* the key indices, ordered as the program's strings are
    Empty,      \* VAL_TYPE(), the record of a lookup that runs off a leaf
    M           \* the template parameter: a node is split at M keys

ASSUME TreeAssumption ==
    /\ Key \subseteq Int
    /\ M \in Nat /\ M >= 4 /\ M % 2 = 0    \* the code uses 16

NULL == 0

\* class Node, as its member initialisers leave it.
Node == [isLeaf |-> TRUE, parent |-> NULL, key |-> <<>>, val |-> <<>>, child |-> <<>>]

\* The members of BPlusTree before the first insert.
NewTree == [node |-> <<Node>>, root |-> 1, depth |-> 1]

\* std::lower_bound on a sorted vector: the first position not below k.
lower_bound(s, k) == 1 + Cardinality({i \in DOMAIN s : s[i] < k})

\* The loop of insert and lookup: from node a down to the leaf for k.
Descend(t, a, k) ==
    LET walk[n \in 0..t.depth] ==
          IF n = 0 THEN a
          ELSE LET b == walk[n - 1]
                   cur == t.node[b]
               IN  IF cur.isLeaf THEN b
                   ELSE cur.child[lower_bound(cur.key, k)]
    IN  walk[t.depth]

\* The leaf a lookup that starts at address a (or at the root) ends in.
LeafFor(t, k, a) == Descend(t, IF a = NULL THEN t.root ELSE a, k)

\* lookup: the record at the first key of the leaf that is not below k,
\* whether or not it is k.
lookup(t, k, a) ==
    LET leaf == t.node[LeafFor(t, k, a)]
        p == lower_bound(leaf.key, k)
    IN  IF p > Len(leaf.key) THEN Empty ELSE leaf.val[p]

----------------------------------------------------------------------------
\* overflow at the root: a new root with the old one as its only child.
GrowRoot(t) ==
    LET r == Len(t.node) + 1
    IN  [node |-> Append([t.node EXCEPT ![t.root].parent = r],
                         [Node EXCEPT !.isLeaf = FALSE, !.child = <<t.root>>]),
         root |-> r, depth |-> t.depth + 1]

\* The parent's part of a split of its child: separator sep and node n enter
\* at the position of at.
Adopt(node, at, sep, n) ==
    LET p == lower_bound(node.key, at)
    IN  [node EXCEPT !.key = InsertAt(@, p, sep), !.child = InsertAt(@, p + 1, n)]

\* A plausible slip: the lower part moves and the upper part stays.
SplitLeaf_low(t, a) ==
    LET h   == M \div 2
        n   == Len(t.node) + 1
        cur == t.node[a]
        new == [cur EXCEPT !.key = SubSeq(@, 1, h), !.val = SubSeq(@, 1, h)]
        old == [cur EXCEPT !.key = SubSeq(@, h + 1, Len(@)), !.val = SubSeq(@, h + 1, Len(@))]
    IN  [t EXCEPT !.node = Append([@ EXCEPT ![a] = old,
              ![cur.parent] = [Adopt(@, old.key[1], Last(new.key), n)
                EXCEPT !.child = LET i == CHOOSE i \in DOMAIN @ : @[i] = a
                                 IN [@ EXCEPT ![i] = n, ![i + 1] = a]]], new)]

\* Split of a full leaf: its upper part moves to a new node, and its last
\* remaining key becomes the separator.
SplitLeaf(t, a) ==
    LET h   == M \div 2
        n   == Len(t.node) + 1
        cur == t.node[a]
        new == [cur EXCEPT !.key = SubSeq(@, h + 1, Len(@)), !.val = SubSeq(@, h + 1, Len(@))]
        old == [cur EXCEPT !.key = SubSeq(@, 1, h), !.val = SubSeq(@, 1, h)]
        left == [t.node EXCEPT ![a] = old, ![cur.parent] = Adopt(@, new.key[1], Last(old.key), n)]
    IN  [t EXCEPT !.node = Append(left, new)]

\* A plausible slip: the moved children keep their old parent pointer.
SplitInner_orphans(t, a) ==
    LET h   == M \div 2 + 1
        n   == Len(t.node) + 1
        cur == t.node[a]
        up  == cur.key[h]
        new == [cur EXCEPT !.key = SubSeq(@, h + 1, Len(@)), !.child = SubSeq(@, h + 1, Len(@))]
        old == [cur EXCEPT !.key = SubSeq(@, 1, h - 1), !.child = SubSeq(@, 1, h)]
    IN  [t EXCEPT !.node = Append([@ EXCEPT ![a] = old,
              ![cur.parent] = Adopt(@, up, up, n)], new)]

\* Split of a full inner node: its middle key moves up, and the children right
\* of that key move to a new node.
SplitInner(t, a) ==
    LET h   == M \div 2 + 1
        n   == Len(t.node) + 1
        cur == t.node[a]
        up  == cur.key[h]
        new == [cur EXCEPT !.key = SubSeq(@, h + 1, Len(@)), !.child = SubSeq(@, h + 1, Len(@))]
        old == [cur EXCEPT !.key = SubSeq(@, 1, h - 1), !.child = SubSeq(@, 1, h)]
        left == [t.node EXCEPT ![a] = old, ![cur.parent] = Adopt(@, up, up, n)]
    IN  [t EXCEPT !.node = Append([b \in DOMAIN left |->
              IF b \in Range(new.child) THEN [left[b] EXCEPT !.parent = n] ELSE left[b]], new)]

\* One activation of overflow on a full node.
Split(t, a) ==
    LET t1 == IF a = t.root THEN GrowRoot(t) ELSE t
    IN  IF t1.node[a].isLeaf THEN SplitLeaf(t1, a) ELSE SplitInner(t1, a)

\* overflow: split the node and go on with its parent while nodes are full.
overflow(t, a) ==
    LET run[n \in 0..t.depth + 1] ==
          IF n = 0 THEN <<t, a>>
          ELSE LET call == run[n - 1]
                   u == call[1]
                   b == call[2]
               IN  IF Len(u.node[b].key) >= M
                   THEN LET s == Split(u, b) IN <<s, s.node[b].parent>>
                   ELSE <<u, b>>
    IN  run[t.depth + 1][1]

\* insert: in front of an equal key, if there is one.
insert(t, k, v) ==
    LET a    == Descend(t, t.root, k)
        leaf == t.node[a]
        p    == lower_bound(leaf.key, k)
    IN  overflow([t EXCEPT !.node[a] = [leaf EXCEPT !.key = InsertAt(@, p, k),
                                                    !.val = InsertAt(@, p, v)]], a)

\* The tree after the inserts of the pairs <<k, v>> of s, one by one.
InsertAll(s) ==
    LET after[n \in 0..Len(s)] ==
          IF n = 0 THEN NewTree ELSE insert(after[n - 1], s[n][1], s[n][2])
    IN  after[Len(s)]
----------------------------------------------------------------------------
Leaves(t) == {a \in DOMAIN t.node : t.node[a].isLeaf}
StoredKeys(t) == UNION {Range(t.node[a].key) : a \in Leaves(t)}

\* The number of parent pointers from a node to the root.
Height(t, a) ==
    LET up[n \in 0..t.depth] == IF n = 0 THEN a ELSE t.node[up[n - 1]].parent
    IN  CHOOSE n \in 0..t.depth : up[n] = t.root

\* The tree is well formed: leaves on one level, sorted nodes that are never
\* left full, children and parent pointers that agree, and separators that
\* bound the keys of the nodes next to them (equal keys may lie on both sides).
WellFormed(t) ==
    /\ t.node[t.root].parent = NULL
    /\ \A a \in Leaves(t) : Height(t, a) = t.depth - 1
    /\ \A a \in DOMAIN t.node :
         LET cur == t.node[a] IN
         /\ Len(cur.key) < M
         /\ \A i \in 1..Len(cur.key) - 1 : cur.key[i] <= cur.key[i + 1]
         /\ cur.isLeaf => Len(cur.val) = Len(cur.key) /\ cur.child = <<>>
         /\ ~cur.isLeaf =>
              /\ Len(cur.child) = Len(cur.key) + 1
              /\ \A i \in DOMAIN cur.child :
                   LET ch == t.node[cur.child[i]] IN
                   /\ ch.parent = a
                   /\ i > 1 => cur.key[i - 1] <= Head(ch.key)
                   /\ i <= Len(cur.key) => Last(ch.key) <= cur.key[i]
=============================================================================
