---------------------------- MODULE MCExperiment ----------------------------
(***************************************************************************)
(* Three fingerprints, 0 among them, in buckets of two entries.            *)
(***************************************************************************)
EXTENDS Experiment
MCHash       == [seed \in 0..2 |-> [fp \in Fp |-> fp + seed * (fp \div 2)]]
MCThreshold  == [i \in 0..2 |-> IF i = 0 THEN 2 ELSE IF i = 1 THEN 5 ELSE 15]
MCLen        == [i \in 0..2 |-> IF i = 0 THEN 2 ELSE 1]
MCGeometry   == {<<2, 1, 2>>, <<4, 1, 2>>, <<2, 2, 1>>, <<4, 2, 2>>}
MCMaxPackets == <<5, 5, 4, 4, 4, 4>>
=============================================================================
