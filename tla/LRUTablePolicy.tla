--------------------------- MODULE LRUTablePolicy ---------------------------
(***************************************************************************)
(* The replacement policy of lru_table.p4.  The history variable records   *)
(* which keys were queried since a key was; the switch does not see it.    *)
(***************************************************************************)
EXTENDS LRUTableSwitch, FiniteSets

VARIABLE since   \* since[j]: the other keys of j's bucket queried since j last was;
                 \* its domain: the keys queried so far

policyVars == <<key, reg_dfa, value, out, since>>

PolicyInit == Init /\ since = [j \in {} |-> {}]

RecordedQuery(k) ==
  /\ HandleQuery(k)
  /\ since' = [j \in DOMAIN since \cup {k} |->
                 IF j = k THEN {}
                 ELSE since[j] \cup {i \in {k} : key_hash[i] = key_hash[j]}]

RecordedQueryBack(k) ==
  /\ HandleQueryBack(k, TableEntry(k))
  /\ UNCHANGED since

PolicyNext ==
  \/ \E k \in Key : RecordedQuery(k)
  \/ \E k \in Key : RecordedQueryBack(k)

PolicySpec == PolicyInit /\ [][PolicyNext]_policyVars

-----------------------------------------------------------------------------
Cached(k) == \E p \in Position : key[key_hash[k]][p] = k

(* Replacement is exactly least-recently-used in every bucket: a key that   *)
(* has been queried is cached if and only if fewer than three other keys    *)
(* of its bucket have been queried since.  Answers of the server, late or   *)
(* repeated, do not disturb the order.                                      *)
ExactLRU == \A j \in DOMAIN since : Cached(j) <=> Cardinality(since[j]) < 3
=============================================================================
