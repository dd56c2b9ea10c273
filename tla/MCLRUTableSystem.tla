-------------------------- MODULE MCLRUTableSystem --------------------------
(* One bucket, four nonzero keys for its three entries. *)
EXTENDS LRUTableSystem

MCKey    == 0..4
MCBucket == {"b1"}
MCHash   == [k \in MCKey |-> "b1"]
MCPreloaded == [k \in MCKey |-> (k + 1) % 5]
=============================================================================
