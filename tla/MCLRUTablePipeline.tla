------------------------- MODULE MCLRUTablePipeline -------------------------
(* One bucket; key 0 is the fourth key, so three entries are one too few. *)
EXTENDS LRUTablePipeline

MCKey    == 0..3
MCBucket == {"b1"}
MCHash   == [k \in MCKey |-> "b1"]

(* The state three queries with their answers, of keys 1, 2 and 3, lead to  *)
(* once they have drained: the bucket is full.                              *)
Full ==
  /\ key     = << [b \in Bucket |-> 3], [b \in Bucket |-> 2], [b \in Bucket |-> 1] >>
  /\ reg_dfa = [b \in Bucket |-> 0]
  /\ value   = << [b \in Bucket |-> 1], [b \in Bucket |-> 3], [b \in Bucket |-> 2] >>
  /\ out     = [to |-> Client, type |-> QueryBack, key |-> 3, value |-> 3]
  /\ pipe    = [i \in Stage |-> Bubble]
  /\ packets = 0

MCSpec == (Init \/ Full) /\ [][Next]_vars
=============================================================================
