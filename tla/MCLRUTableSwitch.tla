-------------------------- MODULE MCLRUTableSwitch --------------------------
(***************************************************************************)
(* The switch of lru_table.p4 on a small instance, and its implementation  *)
(* of LRUCache.  One bucket takes four nonzero keys, one more than it can  *)
(* hold, and key 0.                                                        *)
(***************************************************************************)
EXTENDS LRUTablePolicy

MCKey    == 0..4
MCBucket == {"b1"}
MCHash   == [k \in MCKey |-> "b1"]
=============================================================================
