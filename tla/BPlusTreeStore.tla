---------------------------- MODULE BPlusTreeStore -------------------------
(***************************************************************************)
(* The back end's B+ tree under the inserts and queries it serves, and the *)
(* leaf addresses that answers carry to the switch.                        *)
(***************************************************************************)
EXTENDS BPlusTree

CONSTANTS Val,          \* the records stored under keys
          Loads,        \* the key sequences one of which is loaded beforehand
          LoadVal,      \* the record they are loaded with
          MaxInserts,   \* bound on the inserts of a behaviour
          MaxCached     \* bound on the remembered lookup results

ASSUME StoreAssumption ==
    /\ Empty \notin Val /\ LoadVal \in Val
    /\ \A keys \in Loads : keys \in Seq(Int)

VARIABLES tree,     \* the server's b_plus_tree
          store,    \* the record last inserted under each key
          cached,   \* <<k, a>>: a lookup of k once ended in leaf a
          inserts   \* number of inserts so far

vars == <<tree, store, cached, inserts>>

Loaded(keys) == InsertAll([i \in DOMAIN keys |-> <<keys[i], LoadVal>>])

TreeInit ==
    /\ \E keys \in Loads :
         /\ tree = Loaded(keys)
         /\ store = [k \in Range(keys) |-> LoadVal]
    /\ cached = {}
    /\ inserts = 0

Insert(k, v) ==
    /\ inserts < MaxInserts
    /\ tree' = insert(tree, k, v)
    /\ store' = [j \in DOMAIN store \cup {k} |-> IF j = k THEN v ELSE store[j]]
    /\ inserts' = inserts + 1
    /\ UNCHANGED cached

\* A lookup of a stored key, whose leaf address the switch may keep.
Lookup(k) ==
    /\ k \in StoredKeys(tree)
    /\ Cardinality(cached) < MaxCached
    /\ cached' = cached \cup {<<k, LeafFor(tree, k, NULL)>>}
    /\ UNCHANGED <<tree, store, inserts>>

TreeNext == \E k \in Key : Lookup(k) \/ \E v \in Val : Insert(k, v)

TreeSpec == TreeInit /\ [][TreeNext]_vars

----------------------------------------------------------------------------
\* After any inserts the tree is well formed: overflow repairs every level.
TreeWellFormed == WellFormed(tree)

\* A cached leaf address may be stale, because the leaf has been split since,
\* but a lookup that starts there finds the current record or none: never the
\* record of another key.
StaleLeafFindsOwnOrNothing ==
    \A c \in cached : lookup(tree, c[1], c[2]) \in {Empty, lookup(tree, c[1], NULL)}

\* A lookup from the root finds the record inserted last, through any splits
\* and with any number of earlier records under the same key.
LookupFindsLatest ==
    /\ StoredKeys(tree) = DOMAIN store
    /\ \A k \in DOMAIN store : lookup(tree, k, NULL) = store[k]

\* The tree is ordered, balanced and linked after every insert with its splits,
\* and a search from the root finds the latest record of a key.
TreeRight == TreeWellFormed /\ LookupFindsLatest
=============================================================================
