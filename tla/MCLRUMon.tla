------------------------------- MODULE MCLRUMon ------------------------------
(***************************************************************************)
(* LRUMon: the filter of the first ingress control and the LRU unit behind *)
(* it.  The unit takes any packet the filter might let through, so the two *)
(* run one at a time: `part' tells which.                                  *)
(*                                                                         *)
(* Filter: three flows over two cells: f1 and f2 collide in layer 1, f2    *)
(* and f3 in layer 2.  Counters wrap at 8, the threshold is 2, stamps wrap *)
(* at 2.  Unit: one bucket, four flows with fingerprints of their own and  *)
(* one flow whose fingerprint is 0; flows stand for their fingerprints.    *)
(***************************************************************************)
EXTENDS LRUMonFilter, LRUMonCache, TLC

CONSTANTS Parts,      \* the parts to run
          f0, f1, f2, f3, f4

VARIABLE part

MonInit == part \in Parts /\ FilterInit /\ CacheInit

MonNext ==
  \/ part = "filter" /\ FilterNext /\ UNCHANGED <<part, cacheVars>>
  \/ part = "unit" /\ CacheNext /\ UNCHANGED <<part, filterVars>>

MonSpec == MonInit /\ [][MonNext]_<<part, filterVars, cacheVars>>

MCFilterFlow == {"f1", "f2", "f3"}
MCHash1 == [f \in MCFilterFlow |-> IF f = "f3" THEN "c2" ELSE "c1"]
MCHash2 == [f \in MCFilterFlow |-> IF f = "f1" THEN "c1" ELSE "c2"]

MCFlow   == {f0, f1, f2, f3, f4}
MCFpHash == [f \in MCFlow |-> f]
MCBucketHash == [f \in MCFlow |-> "b1"]
NonzeroFlows == Permutations({f1, f2, f3, f4})
=============================================================================
