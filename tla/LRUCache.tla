------------------------------ MODULE LRUCache ------------------------------
(***************************************************************************)
(* What lru_table.p4 promises: every bucket is a list of three entries in  *)
(* order of recency, an entry travels together with its value, and the     *)
(* list knows nothing of a DFA.  A query moves the entry it hits to the    *)
(* front or pushes a placeholder in front, dropping the last entry.        *)
(***************************************************************************)
EXTENDS Naturals

CONSTANTS Key, Bucket, key_hash, TableEntry(_),
          Query, QueryBack, Client, Server

VARIABLES lru,   \* lru[b]: the entries of bucket b, most recent first
          out    \* the packet the last step sent

cacheVars == <<lru, out>>

Rank == 1..3
Entry == [key : Key, value : Key]

Init ==
  /\ lru = [b \in Bucket |-> [r \in Rank |-> [key |-> 0, value |-> 0]]]
  /\ out = [to |-> Server, type |-> Query, key |-> 0, value |-> 0]

(* The entry e in front, the entries before rank n one rank further back,   *)
(* the entry at rank n gone.                                                *)
PushFront(list, e, n) ==
  [r \in Rank |-> IF r = 1 THEN e ELSE IF r <= n THEN list[r - 1] ELSE list[r]]

(* n is the most recent rank of key k in a list. *)
FirstAt(list, k, n) ==
  list[n].key = k /\ \A r \in Rank : r < n => list[r].key # k

Holds(list, k) == \E r \in Rank : list[r].key = k

Hit(k) ==
  LET b == key_hash[k]
  IN \E n \in Rank :
       /\ FirstAt(lru[b], k, n)
       /\ lru' = [lru EXCEPT ![b] = PushFront(@, @[n], n)]
       /\ out' = IF lru[b][n].value # 0
                 THEN [to |-> Client, type |-> QueryBack, key |-> k,
                       value |-> lru[b][n].value]
                 ELSE [to |-> Server, type |-> Query, key |-> k, value |-> 0]

Miss(k) ==
  LET b == key_hash[k]
  IN /\ ~Holds(lru[b], k)
     /\ lru' = [lru EXCEPT ![b] = PushFront(@, [key |-> k, value |-> 0], 3)]
     /\ out' = [to |-> Server, type |-> Query, key |-> k, value |-> 0]

(* An answer of the server fills the entry of its key, if there is one. *)
Fill(k) ==
  LET b == key_hash[k]
      answer == [to |-> Client, type |-> QueryBack, key |-> k, value |-> TableEntry(k)]
  IN \/ \E n \in Rank :
          /\ FirstAt(lru[b], k, n)
          /\ lru' = [lru EXCEPT ![b][n].value = TableEntry(k)]
          /\ out' = answer
     \/ /\ ~Holds(lru[b], k)
        /\ out' = answer
        /\ UNCHANGED lru

Next ==
  \/ \E k \in Key : Hit(k) \/ Miss(k)
  \/ \E k \in Key : Fill(k)

Spec == Init /\ [][Next]_cacheVars
=============================================================================
