---------------------------- MODULE P4LRUProofs -----------------------------
(***************************************************************************)
(* Facts about the DFA of the P4LRU unit, for every DFA state: it stays in *)
(* its six states, it assigns three different value registers to the three *)
(* key positions, and its transitions permute this assignment exactly as   *)
(* the key registers are shifted.                                          *)
(***************************************************************************)
EXTENDS P4LRU, TLAPS

(* The two xors of dfa_salu_2 on the states they are applied to. *)
LEMMA DfaSwap ==
  /\ dfa_salu_2(0) = 3 /\ dfa_salu_2(1) = 2 /\ dfa_salu_2(2) = 1
  /\ dfa_salu_2(3) = 0 /\ dfa_salu_2(4) = 5 /\ dfa_salu_2(5) = 4
BY DEF dfa_salu_2, XorOne, XorThree

(* No transition leaves the six states. *)
LEMMA DfaClosed ==
  ASSUME NEW s \in DfaState, NEW t \in 1..4
  PROVE  DfaNext(t, s) \in DfaState
<1>1. CASE t = 1 BY <1>1 DEF DfaNext, dfa_salu_1, DfaState
<1>2. CASE t = 2
  <2>1. DfaNext(t, s) = dfa_salu_2(s) BY <1>2 DEF DfaNext
  <2>2. s \in {0, 1, 2, 3, 4, 5} BY DEF DfaState
  <2>q. QED BY <2>1, <2>2, DfaSwap DEF DfaState
<1>3. CASE t \in {3, 4} BY <1>3 DEF DfaNext, dfa_salu_3, DfaState
<1>q. QED BY <1>1, <1>2, <1>3

(* A query and an answer agree on the value register of the front key. *)
LEMMA QuerySlotIsFront ==
  ASSUME NEW s \in DfaState
  PROVE  QuerySlot(s) = ReplaceSlot(1, s)
<1>1. s \in {0, 1, 2, 3, 4, 5} BY DEF DfaState
<1>q. QED BY <1>1 DEF QuerySlot, ReplaceSlot

(* Different key positions have different value registers. *)
LEMMA SlotInjective ==
  ASSUME NEW s \in DfaState, NEW p \in Position, NEW q \in Position, p # q
  PROVE  ReplaceSlot(p, s) # ReplaceSlot(q, s)
<1>1. s \in {0, 1, 2, 3, 4, 5} BY DEF DfaState
<1>2. p \in {1, 2, 3} /\ q \in {1, 2, 3} BY DEF Position
<1>q. QED BY <1>1, <1>2 DEF ReplaceSlot

LEMMA SlotType ==
  ASSUME NEW s, NEW p
  PROVE  ReplaceSlot(p, s) \in Slot
BY DEF ReplaceSlot, Slot

(* The position whose value register moves to position p when the keys up   *)
(* to position t are shifted and the last of them goes to the front.        *)
Origin(t, p) == IF p = 1 THEN IF t = 4 THEN 3 ELSE t
                ELSE IF p <= t THEN p - 1 ELSE p

(* The DFA transition permutes the value registers like InsertKey permutes  *)
(* the keys.                                                                *)
LEMMA DfaPermutes ==
  ASSUME NEW s \in DfaState, NEW t \in 1..4, NEW p \in Position
  PROVE  ReplaceSlot(p, DfaNext(t, s)) = ReplaceSlot(Origin(t, p), s)
<1>1. s \in {0, 1, 2, 3, 4, 5} BY DEF DfaState
<1>2. p \in {1, 2, 3} BY DEF Position
<1>3. CASE t = 1 BY <1>2, <1>3 DEF DfaNext, dfa_salu_1, Origin
<1>4. CASE t = 2
  <2>1. DfaNext(t, s) = dfa_salu_2(s) BY <1>4 DEF DfaNext
  <2>q. QED BY <2>1, <1>1, <1>2, <1>4, DfaSwap DEF ReplaceSlot, Origin
<1>5. CASE t \in {3, 4}
  <2>1. DfaNext(t, s) = dfa_salu_3(s) BY <1>5 DEF DfaNext
  <2>2. /\ dfa_salu_3(0) = 4 /\ dfa_salu_3(1) = 5 /\ dfa_salu_3(2) = 0
        /\ dfa_salu_3(3) = 1 /\ dfa_salu_3(4) = 2 /\ dfa_salu_3(5) = 3
    BY DEF dfa_salu_3
  <2>q. QED BY <2>1, <2>2, <1>1, <1>2, <1>5 DEF ReplaceSlot, Origin
<1>q. QED BY <1>3, <1>4, <1>5

LEMMA TsmType ==
  ASSUME NEW ks, NEW k
  PROVE  Tsm(ks, k) \in 1..4
BY DEF Tsm

(* What dfa_tsm says about the key registers. *)
LEMMA TsmMeaning ==
  ASSUME NEW ks, NEW k
  PROVE  /\ Tsm(ks, k) # 4 => ks[Tsm(ks, k)] = k
         /\ \A p \in Position : p < Tsm(ks, k) => ks[p] # k
         /\ Tsm(ks, k) = 4 => \A p \in Position : ks[p] # k
BY DEF Tsm, Position

(* The key an insertion leaves in a position. *)
LEMMA InsertKeyAt ==
  ASSUME NEW ks, NEW k, NEW p \in Position
  PROVE  InsertKey(ks, k)[p] = IF p = 1 THEN k ELSE ks[Origin(Tsm(ks, k), p)]
BY TsmType DEF InsertKey, Position, Origin

LEMMA OriginType ==
  ASSUME NEW t \in 1..4, NEW p \in Position
  PROVE  /\ Origin(t, p) \in Position
         /\ p # 1 => Origin(t, p) # (IF t = 4 THEN 3 ELSE t)
BY DEF Origin, Position

LEMMA OriginInjective ==
  ASSUME NEW t \in 1..4, NEW p \in Position, NEW q \in Position, p # q
  PROVE  Origin(t, p) # Origin(t, q)
BY DEF Origin, Position

(* The inserted key is in front. *)
LEMMA InsertedFirst ==
  ASSUME NEW ks, NEW k
  PROVE  Tsm(InsertKey(ks, k), k) = 1
BY DEF Tsm, InsertKey, Position

LEMMA InsertedKeys ==
  ASSUME NEW ks, NEW k
  PROVE  LET new == InsertKey(ks, k)
             t == Tsm(ks, k)
         IN  /\ new[1] = k
             /\ new[2] = IF t >= 2 THEN ks[1] ELSE ks[2]
             /\ new[3] = IF t >= 3 THEN ks[2] ELSE ks[3]
BY TsmType DEF InsertKey, Position

(* The register of a key, from the comparisons of dfa_tsm. *)
LEMMA TsmCases ==
  ASSUME NEW ks, NEW k
  PROVE  /\ Tsm(ks, k) = 1 <=> ks[1] = k
         /\ Tsm(ks, k) = 2 <=> ks[1] # k /\ ks[2] = k
         /\ Tsm(ks, k) = 3 <=> ks[1] # k /\ ks[2] # k /\ ks[3] = k
         /\ Tsm(ks, k) = 4 <=> ks[1] # k /\ ks[2] # k /\ ks[3] # k
BY DEF Tsm
=============================================================================
