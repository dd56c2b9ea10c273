--------------------------- MODULE LRUIndexProofs ---------------------------
(***************************************************************************)
(* Proofs about the two cache levels of lru_index.p4 and the leaf addresses *)
(* they cache, for any number of client threads and requests, every set of *)
(* keys, hash and fingerprint, every order of the back end's tree, and     *)
(* whatever the links lose.                                                *)
(***************************************************************************)
EXTENDS LRUIndexSystem, P4LRUProofs, BPlusTreeProofs

Number == Range(fp) \cup {Cleared}      \* what a key register may hold

(* Packets under way carry a key and the number of one. *)
Places == {"idle", "client", "ingress1", "ingress2", "server", "lost"}
Types  == {Read, ReadBack, Insert, InsertBack}

PacketOK(p) ==
    /\ DOMAIN p = DOMAIN Idle
    /\ p.at \in Places /\ p.type \in Types
    /\ p.position \in 0..2
    /\ p.bkey \in Number
    /\ p.at \in {"ingress1", "ingress2", "server"} => p.key \in Key

PacketsOK == DOMAIN pkt = Thread /\ \A t \in Thread : PacketOK(pkt[t])

RegistersOK == /\ key \in [Level -> [Bucket -> [Position -> Number]]]
               /\ reg_dfa \in [Level -> [Bucket -> DfaState]]

Holds(ks, f) == \E p \in Position : ks[p] = f
Distinct(ks) == \A p, q \in Position : ks[p] = ks[q] /\ p # q => ks[p] = Cleared
Single(ks, f) == \A p, q \in Position : ks[p] = f /\ ks[q] = f => p = q

(* What the only packet that concerns fingerprint f knows of the levels     *)
(* ks and ls of its bucket: a read or its answer names the level that holds *)
(* f, unless level 2 lost it, and what level 1 pushed out is on no level    *)
(* while it travels to level 2.                                             *)
Knows(p, ks, ls, f) ==
    /\ p.type = Read /\ p.at = "ingress1" => p.position = 0
    /\ p.type = Read /\ p.at = "ingress2" =>
         p.bkey = f /\ p.position = IF Holds(ks, f) THEN 1 ELSE 0
    /\ (p.type = Read /\ p.at = "server") \/ (p.type = ReadBack /\ p.at = "ingress1") =>
         (p.position = 1 <=> Holds(ks, f)) /\ (Holds(ls, f) => p.position = 2)
    /\ p.type = ReadBack /\ p.at = "ingress2" =>
         /\ p.position = 0 /\ p.bkey = f => ~Holds(ks, f) /\ ~Holds(ls, f)
         /\ p.position = 2 => p.bkey = f /\ ~Holds(ks, f)

(* The entry of a fingerprint that packets have only concerned one by one.  *)
Once(ks, ls, f) == Single(ls, f) /\ ~(Holds(ks, f) /\ Holds(ls, f))
EntryRight(b, f) ==
    /\ Once(key[1][b], key[2][b], f)
    /\ \A t \in Thread : Concerns(pkt[t], b, f) => Knows(pkt[t], key[1][b], key[2][b], f)

Mark == Range(fp) \ {Cleared}

LevelsInv ==
    /\ PacketsOK /\ RegistersOK
    /\ LevelOneDistinct
    /\ Contended(pkt) \subseteq raced
    /\ \A b \in Bucket, f \in Mark : <<b, f>> \notin raced => EntryRight(b, f)
-----------------------------------------------------------------------------
(* Registers *)
LEMMA HoldsCases ==
  ASSUME NEW ks, NEW f
  PROVE  Holds(ks, f) <=> ks[1] = f \/ ks[2] = f \/ ks[3] = f
BY DEF Holds, Position

LEMMA DistinctCases ==
  ASSUME NEW ks
  PROVE  Distinct(ks) <=> /\ ks[1] = ks[2] => ks[1] = Cleared
                          /\ ks[1] = ks[3] => ks[1] = Cleared
                          /\ ks[2] = ks[3] => ks[2] = Cleared
BY DEF Distinct, Position

LEMMA MatchHolds ==
  ASSUME NEW ks, NEW f
  PROVE  Match(ks, f) = 0 <=> ~Holds(ks, f)
<1>1. CASE Holds(ks, f)
  <2>1. \E p \in Position : ks[p] = f /\ \A q \in Position : q > p => ks[q] # f
    <3>1. CASE ks[3] = f BY <3>1 DEF Position
    <3>2. CASE ks[3] # f /\ ks[2] = f BY <3>2 DEF Position
    <3>3. CASE ks[3] # f /\ ks[2] # f /\ ks[1] = f BY <3>3 DEF Position
    <3>q. QED BY <1>1, <3>1, <3>2, <3>3, HoldsCases
  <2>2. Match(ks, f) \in Position BY <2>1 DEF Match
  <2>q. QED BY <1>1, <2>2 DEF Position
<1>2. CASE ~Holds(ks, f) BY <1>2 DEF Match, Holds
<1>q. QED BY <1>1, <1>2

(* The key of a hit is moved, the one of a miss pushes out the last. *)
LEMMA InsertHit ==
  ASSUME NEW ks, NEW k, Holds(ks, k)
  PROVE  Tsm(ks, k) # 4 /\ \A x : Holds(InsertKey(ks, k), x) <=> Holds(ks, x)
<1> DEFINE new == InsertKey(ks, k)
<1>1. Tsm(ks, k) \in 1..4 /\ Tsm(ks, k) # 4 BY TsmType, TsmCases, HoldsCases
<1>2. /\ new[1] = k
      /\ new[2] = IF Tsm(ks, k) >= 2 THEN ks[1] ELSE ks[2]
      /\ new[3] = IF Tsm(ks, k) >= 3 THEN ks[2] ELSE ks[3]
  BY InsertedKeys
<1>3. ks[Tsm(ks, k)] = k BY <1>1, TsmMeaning
<1> SUFFICES ASSUME NEW x PROVE Holds(new, x) <=> Holds(ks, x) BY <1>1
<1> HIDE DEF new
<1>4. CASE Tsm(ks, k) = 1 BY <1>2, <1>3, <1>4, HoldsCases
<1>5. CASE Tsm(ks, k) = 2 BY <1>2, <1>3, <1>5, HoldsCases
<1>6. CASE Tsm(ks, k) = 3 BY <1>2, <1>3, <1>6, HoldsCases
<1>q. QED BY <1>1, <1>4, <1>5, <1>6

LEMMA InsertMiss ==
  ASSUME NEW ks, NEW k, ~Holds(ks, k)
  PROVE  /\ Tsm(ks, k) = 4
         /\ \A x : Holds(InsertKey(ks, k), x) <=> x = k \/ x = ks[1] \/ x = ks[2]
<1>1. Tsm(ks, k) = 4 BY TsmCases, HoldsCases
<1> DEFINE new == InsertKey(ks, k)
<1>2. new[1] = k /\ new[2] = ks[1] /\ new[3] = ks[2] BY <1>1, InsertedKeys
<1>3. \A x : Holds(new, x) <=> new[1] = x \/ new[2] = x \/ new[3] = x BY HoldsCases
<1>q. QED BY <1>1, <1>2, <1>3

LEMMA InsertDistinct ==
  ASSUME NEW ks, NEW k, Distinct(ks)
  PROVE  Distinct(InsertKey(ks, k))
<1> DEFINE new == InsertKey(ks, k)
           t == Tsm(ks, k)
<1>1. /\ new[1] = k
      /\ new[2] = IF t >= 2 THEN ks[1] ELSE ks[2]
      /\ new[3] = IF t >= 3 THEN ks[2] ELSE ks[3]
  BY InsertedKeys
<1>2. t \in 1..4 BY TsmType
<1>3. /\ t = 1 <=> ks[1] = k
      /\ t = 2 <=> ks[1] # k /\ ks[2] = k
      /\ t = 3 <=> ks[1] # k /\ ks[2] # k /\ ks[3] = k
      /\ t = 4 <=> ks[1] # k /\ ks[2] # k /\ ks[3] # k
  BY TsmCases
<1>4. /\ ks[1] = ks[2] => ks[1] = Cleared
      /\ ks[1] = ks[3] => ks[1] = Cleared
      /\ ks[2] = ks[3] => ks[2] = Cleared
  BY DistinctCases
<1> SUFFICES Distinct(new) OBVIOUS
<1> HIDE DEF new, t
<1>5. /\ new[1] = new[2] => new[1] = Cleared
      /\ new[1] = new[3] => new[1] = Cleared
      /\ new[2] = new[3] => new[2] = Cleared
  BY <1>1, <1>2, <1>3, <1>4
<1>q. QED BY <1>5, DistinctCases

LEMMA InsertSingle ==
  ASSUME NEW ks, NEW k, NEW x, Single(ks, x)
  PROVE  Single(InsertKey(ks, k), x)
<1> DEFINE new == InsertKey(ks, k)
           t == Tsm(ks, k)
<1>1. /\ new[1] = k
      /\ new[2] = IF t >= 2 THEN ks[1] ELSE ks[2]
      /\ new[3] = IF t >= 3 THEN ks[2] ELSE ks[3]
  BY InsertedKeys
<1>2. t \in 1..4 BY TsmType
<1>3. /\ t = 1 <=> ks[1] = k
      /\ t = 2 <=> ks[1] # k /\ ks[2] = k
      /\ t = 3 <=> ks[1] # k /\ ks[2] # k /\ ks[3] = k
  BY TsmCases
<1>4. ~(ks[1] = x /\ ks[2] = x) /\ ~(ks[1] = x /\ ks[3] = x) /\ ~(ks[2] = x /\ ks[3] = x)
  BY DEF Single, Position
<1> SUFFICES Single(new, x) OBVIOUS
<1> HIDE DEF new, t
<1>5. ~(new[1] = x /\ new[2] = x) /\ ~(new[1] = x /\ new[3] = x) /\ ~(new[2] = x /\ new[3] = x)
  BY <1>1, <1>2, <1>3, <1>4
<1>q. QED BY <1>5 DEF Single, Position

LEMMA InsertType ==
  ASSUME NEW ks \in [Position -> Number], NEW k \in Number
  PROVE  InsertKey(ks, k) \in [Position -> Number]
BY TsmType DEF InsertKey, Position

-----------------------------------------------------------------------------
(* Packets *)
LEMMA FieldsOf ==
  DOMAIN Idle = {"at", "type", "key", "position", "addr", "bkey", "baddr", "val", "truth"}
BY DEF Idle

LEMMA PacketMoves ==
  ASSUME NEW p, PacketOK(p), NEW at
  PROVE  LET q == [p EXCEPT !.at = at]
         IN  /\ DOMAIN q = DOMAIN Idle /\ q.at = at /\ q.type = p.type /\ q.key = p.key
             /\ q.position = p.position /\ q.bkey = p.bkey
BY FieldsOf DEF PacketOK
LEMMA KeyType ==
  ASSUME NEW k \in Key
  PROVE  index[k] \in Bucket /\ fp[k] \in Number
BY IndexAssumption DEF Bucket, Number, Range

-----------------------------------------------------------------------------
LEMMA NotConcerned ==
  ASSUME NEW p, NEW b, NEW f,
         p.at \notin {"ingress1", "ingress2", "server"} \/ p.type \notin {Read, ReadBack}
  PROVE  ~Concerns(p, b, f)
BY DEF Concerns

LEMMA LevelsInit == IndexInit => LevelsInv
<1> SUFFICES ASSUME IndexInit PROVE LevelsInv OBVIOUS
<1>1. PacketsOK
  <2>1. PacketOK(Idle)
    BY DEF PacketOK, Idle, Places, Types, InsertBack, Number, Cleared
  <2>q. QED BY <2>1 DEF IndexInit, PacketsOK
<1>2. RegistersOK BY DEF IndexInit, RegistersOK, Number, DfaState
<1>3. \A l \in Level, b \in Bucket, p \in Position : key[l][b][p] = Cleared BY DEF IndexInit
<1>4. 1 \in Level /\ 2 \in Level BY DEF Level
<1>5. LevelOneDistinct BY <1>3, <1>4 DEF LevelOneDistinct
<1>6. \A t \in Thread : pkt[t].at = "idle" BY DEF IndexInit, Idle
<1>7. \A t \in Thread : \A b, f : ~Concerns(pkt[t], b, f) BY <1>6, NotConcerned
<1>8. Contended(pkt) = {} BY <1>7 DEF Contended
<1>9. ASSUME NEW b \in Bucket, NEW f \in Mark PROVE EntryRight(b, f)
  <2>1. \A l \in Level, p \in Position : key[l][b][p] # f BY <1>3 DEF Mark
  <2>2. Once(key[1][b], key[2][b], f) BY <2>1, <1>4 DEF Once, Single, Holds
  <2>q. QED BY <2>2, <1>7 DEF EntryRight
<1>q. QED BY <1>1, <1>2, <1>5, <1>8, <1>9 DEF LevelsInv

(* What a packet knows stays true while another one leaves level 1 as it is *)
(* and at most takes the fingerprint from level 2.                          *)
Calm(ks, ls, ks1, ls1, f) == (Holds(ks1, f) <=> Holds(ks, f)) /\ (Holds(ls1, f) => Holds(ls, f))

LEMMA KnowsStill ==
  ASSUME NEW p, NEW ks, NEW ls, NEW ks1, NEW ls1, NEW f,
         Knows(p, ks, ls, f), Calm(ks, ls, ks1, ls1, f)
  PROVE  Knows(p, ks1, ls1, f)
BY DEF Knows, Calm

(* What a step that turns packet p into q and the levels ks and ls of       *)
(* bucket b into ks1 and ls1 has to do for the entry of f.                  *)
StepRight(p, q, b, f, ks, ls, ks1, ls1) ==
    /\ Once(ks1, ls1, f)
    /\ Concerns(p, b, f) \/ Concerns(q, b, f) \/ Calm(ks, ls, ks1, ls1, f)
    /\ Concerns(q, b, f) => Knows(q, ks1, ls1, f)

LEMMA StepKeeps ==
  ASSUME LevelsInv, NEW t \in Thread, NEW q, pkt' = [pkt EXCEPT ![t] = q], PacketOK(q),
         raced' = raced \cup Contended(pkt'), RegistersOK', LevelOneDistinct',
         \A b \in Bucket, f \in Mark :
            EntryRight(b, f) => StepRight(pkt[t], q, b, f, key[1][b], key[2][b], key'[1][b], key'[2][b])
  PROVE  LevelsInv'
<1>1. DOMAIN pkt' = Thread /\ pkt'[t] = q /\ \A u \in Thread \ {t} : pkt'[u] = pkt[u]
  BY DEF LevelsInv, PacketsOK
<1>2. PacketsOK' BY <1>1 DEF LevelsInv, PacketsOK
<1>3. ASSUME NEW b \in Bucket, NEW f \in Mark, <<b, f>> \notin raced'
      PROVE  EntryRight(b, f)'
  <2>1. <<b, f>> \notin raced /\ <<b, f>> \notin Contended(pkt') /\ <<b, f>> \notin Contended(pkt)
    BY <1>3 DEF LevelsInv
  <2>2. <<b, f>> \in Bucket \X Range(fp) BY DEF Mark
  <2>3. /\ \A u \in Thread \ {t} : ~(Concerns(pkt[u], b, f) /\ Concerns(pkt[t], b, f))
        /\ \A u \in Thread \ {t} : ~(Concerns(pkt'[u], b, f) /\ Concerns(pkt'[t], b, f))
    BY <2>1, <2>2 DEF Contended
  <2>4. EntryRight(b, f) BY <2>1 DEF LevelsInv
  <2> DEFINE K1 == key[1][b]
             K2 == key[2][b]
             L1 == key'[1][b]
             L2 == key'[2][b]
  <2>5. StepRight(pkt[t], q, b, f, K1, K2, L1, L2) BY <2>4
  <2>6. \A u \in Thread : Concerns(pkt[u], b, f) => Knows(pkt[u], K1, K2, f) BY <2>4 DEF EntryRight
  <2> SUFFICES Once(L1, L2, f) /\ \A u \in Thread : Concerns(pkt'[u], b, f) => Knows(pkt'[u], L1, L2, f)
    BY DEF EntryRight, Concerns, Knows, Once, Single, Holds
  <2> HIDE DEF K1, K2, L1, L2
  <2>7. ASSUME NEW u \in Thread, Concerns(pkt'[u], b, f) PROVE Knows(pkt'[u], L1, L2, f)
    <3>1. CASE u = t BY <1>1, <2>5, <2>7, <3>1 DEF StepRight
    <3>2. CASE u # t
      <4>1. pkt'[u] = pkt[u] /\ u \in Thread \ {t} BY <1>1, <3>2
      <4>2. ~Concerns(pkt[t], b, f) /\ ~Concerns(q, b, f) BY <1>1, <2>3, <2>7, <4>1
      <4>3. Calm(K1, K2, L1, L2, f) BY <2>5, <4>2 DEF StepRight
      <4>4. Knows(pkt[u], K1, K2, f) BY <2>6, <2>7, <4>1
      <4>5. Knows(pkt[u], L1, L2, f) BY <4>3, <4>4, KnowsStill
      <4>q. QED BY <4>1, <4>5
    <3>q. QED BY <3>1, <3>2
  <2>q. QED BY <2>5, <2>7 DEF StepRight
<1>4. Contended(pkt)' \subseteq raced' BY DEF Contended, Concerns
<1>q. QED BY <1>2, <1>3, <1>4 DEF LevelsInv

(* A step that leaves the registers alone. *)
LEMMA ForwardKeeps ==
  ASSUME LevelsInv, NEW t \in Thread, NEW q, pkt' = [pkt EXCEPT ![t] = q], PacketOK(q),
         raced' = raced \cup Contended(pkt'), UNCHANGED registers,
         \A b \in Bucket, f \in Mark :
            EntryRight(b, f) /\ Concerns(q, b, f) => Knows(q, key[1][b], key[2][b], f)
  PROVE  LevelsInv'
<1>1. key' = key /\ reg_dfa' = reg_dfa BY DEF registers
<1>2. RegistersOK' /\ LevelOneDistinct' BY <1>1 DEF LevelsInv, RegistersOK, LevelOneDistinct
<1>3. ASSUME NEW b \in Bucket, NEW f \in Mark, EntryRight(b, f)
      PROVE  StepRight(pkt[t], q, b, f, key[1][b], key[2][b], key[1][b], key[2][b])
  BY <1>3 DEF StepRight, EntryRight, Calm
<1>q. QED BY <1>1, <1>2, <1>3, StepKeeps

(* A packet that concerns no entry knows enough. *)
LEMMA SilentKeeps ==
  ASSUME LevelsInv, NEW t \in Thread, NEW q, pkt' = [pkt EXCEPT ![t] = q], PacketOK(q),
         raced' = raced \cup Contended(pkt'), UNCHANGED registers,
         q.at \notin {"ingress1", "ingress2", "server"} \/ q.type \notin {Read, ReadBack}
  PROVE  LevelsInv'
<1>1. \A b, f : ~Concerns(q, b, f) BY NotConcerned
<1>q. QED BY <1>1, ForwardKeeps

LEMMA StartKeeps ==
  ASSUME LevelsInv, NEW t \in Thread, NEW type \in {Read, Insert}, NEW k \in Key,
         Request(t, type, k), UNCHANGED registers, raced' = raced \cup Contended(pkt')
  PROVE  LevelsInv'
<1> DEFINE q == [Idle EXCEPT !.at = "ingress1", !.type = type, !.key = k]
<1>1. /\ DOMAIN q = DOMAIN Idle /\ q.at = "ingress1" /\ q.type = type /\ q.key = k
      /\ q.position = 0 /\ q.bkey = 0
  BY DEF Idle
<1>2. pkt' = [pkt EXCEPT ![t] = q] BY DEF Request
<1> HIDE DEF q
<1>3. PacketOK(q) BY <1>1 DEF PacketOK, Places, Types, Number, Cleared
<1>4. type # ReadBack BY DEF Read, Insert, ReadBack
<1>5. \A ks, ls, f : Knows(q, ks, ls, f) BY <1>1, <1>4 DEF Knows
<1>q. QED BY <1>2, <1>3, <1>5, ForwardKeeps

LEMMA LoseKeeps ==
  ASSUME LevelsInv, NEW t \in Thread, Lose(t), raced' = raced \cup Contended(pkt') PROVE LevelsInv'
<1> DEFINE q == [Idle EXCEPT !.at = "lost"]
<1>1. DOMAIN q = DOMAIN Idle /\ q.at = "lost" /\ q.type = InsertBack /\ q.position = 0 /\ q.bkey = 0
  BY DEF Idle
<1>2. pkt' = [pkt EXCEPT ![t] = q] /\ UNCHANGED registers BY DEF Lose
<1> HIDE DEF q
<1>3. PacketOK(q) BY <1>1 DEF PacketOK, Places, Types, Number, Cleared
<1>q. QED BY <1>1, <1>2, <1>3, SilentKeeps

LEMMA HandleInsertKeeps ==
  ASSUME LevelsInv, NEW t \in Thread, HandleInsert(t), raced' = raced \cup Contended(pkt')
  PROVE  LevelsInv'
<1> DEFINE p == pkt[t]
           q == [p EXCEPT !.at = "ingress1", !.type = InsertBack]
<1>1. PacketOK(p) /\ p.at = "server" BY DEF LevelsInv, PacketsOK, HandleInsert
<1>2. /\ DOMAIN q = DOMAIN Idle /\ q.at = "ingress1" /\ q.type = InsertBack /\ q.key = p.key
      /\ q.position = p.position /\ q.bkey = p.bkey
  BY <1>1, FieldsOf DEF PacketOK
<1>3. pkt' = [pkt EXCEPT ![t] = q] /\ UNCHANGED registers BY DEF HandleInsert
<1> HIDE DEF q
<1>4. PacketOK(q) BY <1>1, <1>2 DEF PacketOK, Places, Types
<1>5. q.type \notin {Read, ReadBack} BY <1>2 DEF Read, ReadBack, InsertBack
<1>q. QED BY <1>3, <1>4, <1>5, SilentKeeps

LEMMA HandleQueryKeeps ==
  ASSUME LevelsInv, NEW t \in Thread, HandleQuery(t), raced' = raced \cup Contended(pkt')
  PROVE  LevelsInv'
<1> DEFINE p == pkt[t]
           q == [p EXCEPT !.at = "ingress1", !.type = ReadBack,
                          !.addr = LeafFor(tree, p.key, p.addr),
                          !.val = lookup(tree, p.key, p.addr), !.truth = lookup(tree, p.key, NULL)]
<1>1. PacketOK(p) /\ p.at = "server" /\ p.type = Read BY DEF LevelsInv, PacketsOK, HandleQuery
<1>2. /\ DOMAIN q = DOMAIN Idle /\ q.at = "ingress1" /\ q.type = ReadBack /\ q.key = p.key
      /\ q.position = p.position /\ q.bkey = p.bkey
  BY <1>1, FieldsOf DEF PacketOK
<1>3. pkt' = [pkt EXCEPT ![t] = q] /\ UNCHANGED registers BY DEF HandleQuery
<1> HIDE DEF q
<1>4. PacketOK(q) BY <1>1, <1>2 DEF PacketOK, Places, Types
<1>5. ASSUME NEW b \in Bucket, NEW f \in Mark, EntryRight(b, f), Concerns(q, b, f)
      PROVE  Knows(q, key[1][b], key[2][b], f)
  <2>1. Concerns(p, b, f) BY <1>1, <1>2, <1>5 DEF Concerns, Read, ReadBack
  <2>2. Knows(p, key[1][b], key[2][b], f) BY <2>1, <1>5 DEF EntryRight
  <2>q. QED BY <1>1, <1>2, <2>2 DEF Knows, Read, ReadBack
<1>q. QED BY <1>3, <1>4, <1>5, ForwardKeeps
-----------------------------------------------------------------------------
(* The pipes.  Level l writes one bucket of its own registers. *)
LEMMA RegistersWritten ==
  ASSUME RegistersOK, NEW l \in Level, NEW b \in Bucket,
         NEW ks \in [Position -> Number], NEW s \in DfaState,
         key' = [key EXCEPT ![l][b] = ks], reg_dfa' = [reg_dfa EXCEPT ![l][b] = s]
  PROVE  /\ RegistersOK' /\ key'[l][b] = ks
         /\ \A m \in Level, c \in Bucket : m # l \/ c # b => key'[m][c] = key[m][c]
<1>1. key' \in [Level -> [Bucket -> [Position -> Number]]] BY DEF RegistersOK
<1>2. reg_dfa' \in [Level -> [Bucket -> DfaState]] BY DEF RegistersOK
<1>3. /\ key'[l][b] = ks
      /\ \A m \in Level, c \in Bucket : m # l \/ c # b => key'[m][c] = key[m][c]
  BY DEF RegistersOK
<1>q. QED BY <1>1, <1>2, <1>3 DEF RegistersOK

LEMMA LevelOneIs == LevelOneDistinct <=> \A b \in Bucket : Distinct(key[1][b])
BY DEF LevelOneDistinct, Distinct

(* The packet as it enters Ingress1, the bridge header filled in. *)
Entering(p) == [p EXCEPT !.bkey = fp[p.key], !.baddr = p.addr]

LEMMA EnteringFields ==
  ASSUME NEW p, PacketOK(p), p.at = "ingress1"
  PROVE  LET e == Entering(p)
         IN  /\ PacketOK(e) /\ e.at = "ingress1" /\ e.type = p.type /\ e.key = p.key
             /\ e.position = p.position /\ e.bkey = fp[p.key]
<1> DEFINE e == Entering(p)
<1>1. /\ DOMAIN e = DOMAIN Idle /\ e.at = "ingress1" /\ e.type = p.type /\ e.key = p.key
      /\ e.position = p.position /\ e.bkey = fp[p.key]
  BY FieldsOf DEF PacketOK, Entering
<1>2. p.key \in Key BY DEF PacketOK
<1> HIDE DEF e
<1>3. PacketOK(e) BY <1>1, <1>2, KeyType DEF PacketOK
<1>q. QED BY <1>1, <1>3 DEF e

(* A lookaside tells whether the level holds the key, and where it stays. *)
LEMMA LookasideFields ==
  ASSUME NEW l \in Level, NEW p, PacketOK(p), NEW next \in Places, p.key \in Key
  PROVE  LET q == Lookaside(l, p, next)
         IN  /\ PacketOK(q) /\ q.at = next /\ q.type = p.type /\ q.key = p.key /\ q.bkey = p.bkey
             /\ q.position = IF Holds(key[l][index[p.key]], p.bkey) THEN l ELSE p.position
<1> DEFINE m == Match(key[l][index[p.key]], p.bkey)
           q == Lookaside(l, p, next)
<1>1. m = 0 <=> ~Holds(key[l][index[p.key]], p.bkey) BY MatchHolds
<1>2. CASE m = 0
  <2>1. q = [p EXCEPT !.at = next] BY <1>2 DEF Lookaside
  <2>2. /\ DOMAIN q = DOMAIN Idle /\ q.at = next /\ q.type = p.type /\ q.key = p.key
        /\ q.position = p.position /\ q.bkey = p.bkey
    BY <2>1, PacketMoves
  <2> HIDE DEF q, m
  <2>3. PacketOK(q) BY <2>2 DEF PacketOK
  <2>q. QED BY <1>1, <1>2, <2>2, <2>3 DEF q
<1>3. CASE m # 0
  <2> DEFINE a == addr[l][index[p.key]][ReplaceSlot(m, reg_dfa[l][index[p.key]])]
  <2>1. q = [p EXCEPT !.at = next, !.position = l, !.addr = a] BY <1>3 DEF Lookaside
  <2> HIDE DEF a, q, m
  <2>2. /\ DOMAIN q = DOMAIN Idle /\ q.at = next /\ q.type = p.type /\ q.key = p.key
        /\ q.position = l /\ q.bkey = p.bkey
    BY <2>1, FieldsOf DEF PacketOK
  <2>3. PacketOK(q) BY <2>2 DEF PacketOK, Level
  <2>q. QED BY <1>1, <1>3, <2>2, <2>3 DEF q
<1>q. QED BY <1>2, <1>3

(* The packet of an update goes on with the bridge key of the registers. *)
LEMMA UpdateFields ==
  ASSUME LevelsInv, NEW t \in Thread, NEW l \in Level, NEW p, PacketOK(p), p.key \in Key, NEW r,
         NEW next \in Places, r.keys \in [Position -> Number], r.sta \in DfaState, r.bkey \in Number,
         Update(l, t, p, r, next)
  PROVE  /\ RegistersOK' /\ key'[l][index[p.key]] = r.keys
         /\ \A m \in Level, c \in Bucket : m # l \/ c # index[p.key] => key'[m][c] = key[m][c]
         /\ \E q : /\ pkt' = [pkt EXCEPT ![t] = q] /\ PacketOK(q) /\ q.at = next /\ q.type = p.type
                  /\ q.key = p.key /\ q.position = p.position /\ q.bkey = r.bkey
<1>1. index[p.key] \in Bucket BY KeyType
<1>2. /\ key' = [key EXCEPT ![l][index[p.key]] = r.keys]
      /\ reg_dfa' = [reg_dfa EXCEPT ![l][index[p.key]] = r.sta]
  BY DEF Update
<1>3. /\ RegistersOK' /\ key'[l][index[p.key]] = r.keys
      /\ \A m \in Level, c \in Bucket : m # l \/ c # index[p.key] => key'[m][c] = key[m][c]
  <2> DEFINE b == index[p.key]
             ks == r.keys
             s == r.sta
  <2>1. RegistersOK /\ b \in Bucket /\ ks \in [Position -> Number] /\ s \in DfaState
    BY <1>1 DEF LevelsInv
  <2>2. key' = [key EXCEPT ![l][b] = ks] /\ reg_dfa' = [reg_dfa EXCEPT ![l][b] = s] BY <1>2
  <2> HIDE DEF b, ks, s
  <2>3. /\ RegistersOK' /\ key'[l][b] = ks
        /\ \A m \in Level, c \in Bucket : m # l \/ c # b => key'[m][c] = key[m][c]
    BY <2>1, <2>2, RegistersWritten
  <2>q. QED BY <2>3 DEF b, ks
<1> DEFINE q == [p EXCEPT !.at = next, !.bkey = r.bkey, !.baddr = r.baddr]
<1>4. pkt' = [pkt EXCEPT ![t] = q] BY DEF Update
<1>5. /\ DOMAIN q = DOMAIN Idle /\ q.at = next /\ q.type = p.type /\ q.key = p.key
      /\ q.position = p.position /\ q.bkey = r.bkey
  BY FieldsOf DEF PacketOK
<1> HIDE DEF q
<1>6. PacketOK(q) BY <1>5 DEF PacketOK
<1>q. QED BY <1>3, <1>4, <1>5, <1>6

(* What the two modes do to the registers of a bucket. *)
LEMMA InsertModeFields ==
  ASSUME RegistersOK, NEW l \in Level, NEW p, p.key \in Key, p.bkey \in Number
  PROVE  LET r == InsertMode(l, p)
             ks == key[l][index[p.key]]
         IN  /\ r.keys = InsertKey(ks, p.bkey) /\ r.keys \in [Position -> Number]
             /\ r.sta \in DfaState /\ r.bkey \in Number
             /\ r.bkey = IF Holds(ks, p.bkey) THEN p.bkey ELSE ks[3]
<1> DEFINE b == index[p.key]
           ks == key[l][b]
           r == InsertMode(l, p)
           tsm == Tsm(ks, p.bkey)
<1>1. b \in Bucket BY KeyType
<1>2. ks \in [Position -> Number] /\ reg_dfa[l][b] \in DfaState BY <1>1 DEF RegistersOK
<1>3. tsm \in 1..4 BY TsmType
<1>4. r.keys = InsertKey(ks, p.bkey) BY DEF InsertMode
<1>5. r.sta = DfaNext(tsm, reg_dfa[l][b]) BY DEF InsertMode
<1>6. r.bkey = IF tsm >= 3 THEN ks[3] ELSE p.bkey BY DEF InsertMode
<1> HIDE DEF r
<1>7. r.sta \in DfaState BY <1>2, <1>3, <1>5, DfaClosed
<1>8. r.keys \in [Position -> Number] BY <1>2, <1>4, InsertType
<1>9. r.bkey \in Number BY <1>2, <1>6 DEF Position
<1>10. r.bkey = IF Holds(ks, p.bkey) THEN p.bkey ELSE ks[3]
  <2>1. ~Holds(ks, p.bkey) => tsm = 4 BY InsertMiss
  <2>2. Holds(ks, p.bkey) => tsm # 4 BY InsertHit
  <2>3. tsm = 3 => ks[3] = p.bkey BY TsmCases
  <2> HIDE DEF tsm
  <2>q. QED BY <1>3, <1>6, <2>1, <2>2, <2>3
<1>q. QED BY <1>4, <1>7, <1>8, <1>9, <1>10 DEF r

LEMMA ReplaceModeFields ==
  ASSUME RegistersOK, NEW l \in Level, NEW p, p.key \in Key, p.bkey \in Number
  PROVE  LET r == ReplaceMode(l, p)
             ks == key[l][index[p.key]]
         IN  /\ r.keys = [ks EXCEPT ![3] = p.bkey] /\ r.keys \in [Position -> Number]
             /\ r.sta \in DfaState /\ r.bkey = p.bkey
<1> DEFINE b == index[p.key]
           ks == key[l][b]
           r == ReplaceMode(l, p)
<1>1. b \in Bucket BY KeyType
<1>2. ks \in [Position -> Number] /\ reg_dfa[l][b] \in DfaState BY <1>1 DEF RegistersOK
<1>3. r.keys = [ks EXCEPT ![3] = p.bkey] BY DEF ReplaceMode
<1>4. r.sta = reg_dfa[l][b] /\ r.bkey = p.bkey BY DEF ReplaceMode
<1> HIDE DEF r
<1>5. r.keys \in [Position -> Number] BY <1>2, <1>3
<1>q. QED BY <1>2, <1>3, <1>4, <1>5 DEF r
(* Level 1 takes the key of an answer in front; what it pushes out is on    *)
(* no level until it reaches level 2.                                       *)
LEMMA InsertedRight ==
  ASSUME NEW ks, NEW ls, NEW g, NEW f, f # Cleared, Distinct(ks), Once(ks, ls, f)
  PROVE  LET new == InsertKey(ks, g)
             out == IF Holds(ks, g) THEN g ELSE ks[3]
         IN  IF f = g THEN Holds(new, f)
             ELSE /\ Holds(new, f) => Holds(ks, f)
                  /\ out # f => (Holds(new, f) <=> Holds(ks, f))
                  /\ out = f => Holds(ks, f) /\ ~Holds(new, f)
<1> DEFINE new == InsertKey(ks, g)
<1>1. CASE Holds(ks, g)
  <2>1. \A x : Holds(new, x) <=> Holds(ks, x) BY <1>1, InsertHit
  <2>q. QED BY <1>1, <2>1
<1>2. CASE ~Holds(ks, g)
  <2>1. \A x : Holds(new, x) <=> x = g \/ x = ks[1] \/ x = ks[2] BY <1>2, InsertMiss
  <2>2. ks[3] = Cleared \/ (ks[3] # ks[1] /\ ks[3] # ks[2]) BY DistinctCases
  <2>3. Holds(ks, f) <=> ks[1] = f \/ ks[2] = f \/ ks[3] = f BY HoldsCases
  <2> HIDE DEF new
  <2>4. (LET out == ks[3]
         IN  IF f = g THEN Holds(new, f)
             ELSE /\ Holds(new, f) => Holds(ks, f)
                  /\ out # f => (Holds(new, f) <=> Holds(ks, f))
                  /\ out = f => Holds(ks, f) /\ ~Holds(new, f))
    BY <2>1, <2>2, <2>3
  <2>q. QED BY <1>2, <2>4 DEF new
<1>q. QED BY <1>1, <1>2

LEMMA LevelOneInserts ==
  ASSUME LevelsInv, NEW t \in Thread, NEW e, PacketOK(e), e.key \in Key,
         pkt[t].at = "ingress1", pkt[t].type = ReadBack, pkt[t].key = e.key,
         pkt[t].position = e.position,
         e.type = ReadBack, e.bkey = fp[e.key], e.position <= 1,
         raced' = raced \cup Contended(pkt'),
         Update(1, t, e, InsertMode(1, e), "ingress2")
  PROVE  LevelsInv'
<1> DEFINE c == index[e.key]
           g == e.bkey
           r == InsertMode(1, e)
           p == pkt[t]
<1>1. c \in Bucket /\ g \in Number /\ 1 \in Level /\ 2 \in Level /\ "ingress2" \in Places
  BY KeyType DEF PacketOK, Level, Places
<1>2. /\ r.keys = InsertKey(key[1][c], g) /\ r.keys \in [Position -> Number]
      /\ r.sta \in DfaState /\ r.bkey \in Number
      /\ r.bkey = IF Holds(key[1][c], g) THEN g ELSE key[1][c][3]
  BY <1>1, InsertModeFields DEF LevelsInv
<1>3. Update(1, t, e, r, "ingress2") OBVIOUS
<1> HIDE DEF r
<1>4. /\ RegistersOK' /\ key'[1][c] = r.keys
      /\ \A m \in Level, b \in Bucket : m # 1 \/ b # c => key'[m][b] = key[m][b]
      /\ \E q : /\ pkt' = [pkt EXCEPT ![t] = q] /\ PacketOK(q) /\ q.at = "ingress2" /\ q.type = e.type
               /\ q.key = e.key /\ q.position = e.position /\ q.bkey = r.bkey
  BY <1>1, <1>2, <1>3, UpdateFields
<1>5. PICK q : /\ pkt' = [pkt EXCEPT ![t] = q] /\ PacketOK(q) /\ q.at = "ingress2" /\ q.type = ReadBack
               /\ q.key = e.key /\ q.position = e.position /\ q.bkey = r.bkey
  BY <1>4
<1>6. \A b \in Bucket : Distinct(key[1][b]) BY LevelOneIs DEF LevelsInv
<1>7. LevelOneDistinct'
  <2>1. \A b \in Bucket : Distinct(key'[1][b]) BY <1>1, <1>2, <1>4, <1>6, InsertDistinct
  <2>q. QED BY <2>1 DEF LevelOneDistinct, Distinct
<1>8. ASSUME NEW b \in Bucket, NEW f \in Mark, EntryRight(b, f)
      PROVE  StepRight(p, q, b, f, key[1][b], key[2][b], key'[1][b], key'[2][b])
  <2>1. f # Cleared BY DEF Mark
  <2>2. Once(key[1][b], key[2][b], f) BY <1>8 DEF EntryRight
  <2>3. Concerns(p, b, f) => Knows(p, key[1][b], key[2][b], f) BY <1>8 DEF EntryRight
  <2>4. key'[2][b] = key[2][b] BY <1>1, <1>4
  <2>5. Concerns(p, b, f) <=> b = c /\ f = g BY DEF Concerns, Read, ReadBack
  <2>6. Concerns(q, b, f) <=> b = c /\ (f = g \/ r.bkey = f) BY <1>5 DEF Concerns, Read, ReadBack
  <2>7. CASE b # c
    <3>1. key'[1][b] = key[1][b] BY <1>1, <1>4, <2>7
    <3>q. QED BY <2>2, <2>4, <2>6, <2>7, <3>1 DEF StepRight, Calm
  <2>8. CASE b = c
    <3> DEFINE K1 == key[1][b]
               K2 == key[2][b]
               L1 == key'[1][b]
    <3>1. L1 = InsertKey(K1, g) /\ r.bkey = IF Holds(K1, g) THEN g ELSE K1[3] BY <1>2, <1>4, <2>8
    <3>2. Distinct(K1) /\ Once(K1, K2, f) BY <1>6, <2>2
    <3> SUFFICES StepRight(p, q, b, f, K1, K2, L1, K2) BY <2>4
    <3>3. Concerns(p, b, f) => Knows(p, K1, K2, f) BY <2>3
    <3> HIDE DEF K1, K2, L1, c, g, p
    <3>4. IF f = g THEN Holds(L1, f)
          ELSE /\ Holds(L1, f) => Holds(K1, f)
               /\ r.bkey # f => (Holds(L1, f) <=> Holds(K1, f))
               /\ r.bkey = f => Holds(K1, f) /\ ~Holds(L1, f)
      BY <2>1, <3>1, <3>2, InsertedRight
    <3>5. e.position \in {0, 1} BY DEF PacketOK
    <3>6. CASE f = g
      <4>1. Knows(p, K1, K2, f) BY <2>5, <2>8, <3>3, <3>6
      <4>2. (e.position = 1 <=> Holds(K1, f)) /\ ~Holds(K2, f)
        BY <4>1, <3>5 DEF Knows, p
      <4>3. Once(L1, K2, f) BY <4>2, <3>2 DEF Once
      <4>4. ASSUME e.position = 0 PROVE r.bkey # f
        <5>1. ~Holds(K1, f) BY <4>2, <4>4
        <5>2. r.bkey = K1[3] /\ K1[3] # f BY <5>1, <3>1, <3>6, HoldsCases
        <5>q. QED BY <5>2
      <4>5. Knows(q, L1, K2, f) BY <1>5, <3>5, <4>4 DEF Knows, Read, ReadBack
      <4>q. QED BY <2>5, <2>8, <3>6, <4>3, <4>5 DEF StepRight
    <3>7. CASE f # g
      <4>1. Once(L1, K2, f) BY <3>2, <3>4, <3>7 DEF Once
      <4>2. CASE r.bkey # f BY <2>6, <3>4, <3>7, <4>1, <4>2 DEF StepRight, Calm
      <4>3. CASE r.bkey = f
        <5>1. ~Holds(L1, f) /\ ~Holds(K2, f) BY <3>2, <3>4, <3>7, <4>3 DEF Once
        <5>2. Knows(q, L1, K2, f) BY <1>5, <3>5, <5>1 DEF Knows, Read, ReadBack
        <5>q. QED BY <2>6, <2>8, <4>1, <4>3, <5>2 DEF StepRight
      <4>q. QED BY <4>2, <4>3
    <3>q. QED BY <3>6, <3>7
  <2>q. QED BY <2>7, <2>8
<1>9. pkt' = [pkt EXCEPT ![t] = q] /\ PacketOK(q) BY <1>5
<1>q. QED BY <1>4, <1>7, <1>8, <1>9, StepKeeps

LEMMA IngressOneKeeps ==
  ASSUME LevelsInv, NEW t \in Thread, Ingress1(t), raced' = raced \cup Contended(pkt')
  PROVE  LevelsInv'
<1> DEFINE p == pkt[t]
           e == Entering(p)
<1>1. PacketOK(p) /\ p.at = "ingress1" /\ p.key \in Key
  BY DEF LevelsInv, PacketsOK, PacketOK, Ingress1
<1>2. /\ PacketOK(e) /\ e.at = "ingress1" /\ e.type = p.type /\ e.key = p.key
      /\ e.position = p.position /\ e.bkey = fp[p.key]
  BY <1>1, EnteringFields
<1>5. \/ e.type = Read /\ e.position = 0 /\ Forward(t, Lookaside(1, e, "ingress2"))
      \/ e.type = ReadBack /\ e.position <= 1 /\ Update(1, t, e, InsertMode(1, e), "ingress2")
      \/ /\ ~(e.type = Read /\ e.position = 0) /\ ~(e.type = ReadBack /\ e.position <= 1)
         /\ Forward(t, [e EXCEPT !.at = "ingress2"])
  BY DEF Ingress1, Entering
<1> HIDE DEF e
<1>6. "ingress2" \in Places /\ 1 \in Level BY DEF Places, Level
<1>7. CASE e.type = Read /\ e.position = 0 /\ Forward(t, Lookaside(1, e, "ingress2"))
  <2> DEFINE q == Lookaside(1, e, "ingress2")
  <2>1. /\ PacketOK(q) /\ q.at = "ingress2" /\ q.type = e.type /\ q.key = e.key /\ q.bkey = e.bkey
        /\ q.position = IF Holds(key[1][index[e.key]], e.bkey) THEN 1 ELSE e.position
    BY <1>1, <1>2, <1>6, LookasideFields
  <2>2. pkt' = [pkt EXCEPT ![t] = q] /\ UNCHANGED registers BY <1>7 DEF Forward
  <2> HIDE DEF q
  <2>3. ASSUME NEW b \in Bucket, NEW f \in Mark, Concerns(q, b, f)
        PROVE  Knows(q, key[1][b], key[2][b], f)
    <3>1. b = index[e.key] /\ f = e.bkey
      BY <1>2, <1>7, <2>1, <2>3 DEF Concerns, Read, ReadBack
    <3>q. QED BY <3>1, <2>1, <1>7 DEF Knows, Read, ReadBack
  <2>q. QED BY <2>1, <2>2, <2>3, ForwardKeeps
<1>8. CASE e.type = ReadBack /\ e.position <= 1 /\ Update(1, t, e, InsertMode(1, e), "ingress2")
  BY <1>1, <1>2, <1>8, LevelOneInserts
<1>9. CASE /\ ~(e.type = Read /\ e.position = 0) /\ ~(e.type = ReadBack /\ e.position <= 1)
           /\ Forward(t, [e EXCEPT !.at = "ingress2"])
  <2> DEFINE q == [e EXCEPT !.at = "ingress2"]
  <2>1. /\ DOMAIN q = DOMAIN Idle /\ q.at = "ingress2" /\ q.type = e.type /\ q.key = e.key
        /\ q.position = e.position /\ q.bkey = e.bkey
    BY <1>2, PacketMoves
  <2>2. pkt' = [pkt EXCEPT ![t] = q] /\ UNCHANGED registers BY <1>9 DEF Forward
  <2> HIDE DEF q
  <2>3. PacketOK(q) BY <1>1, <1>2, <2>1, <1>6 DEF PacketOK
  <2>4. e.position \in 0..2 BY <1>2 DEF PacketOK
  <2>5. ASSUME NEW b \in Bucket, NEW f \in Mark, EntryRight(b, f), Concerns(q, b, f)
        PROVE  Knows(q, key[1][b], key[2][b], f)
    <3>1. b = index[p.key] /\ f = fp[p.key] /\ p.type \in {Read, ReadBack}
      BY <1>2, <2>1, <2>5 DEF Concerns, Read, ReadBack
    <3>2. Concerns(p, b, f) BY <1>1, <3>1 DEF Concerns
    <3>3. Knows(p, key[1][b], key[2][b], f) BY <2>5, <3>2 DEF EntryRight
    <3> DEFINE K1 == key[1][b]
               K2 == key[2][b]
    <3> HIDE DEF K1, K2, p
    <3>4. Knows(p, K1, K2, f) BY <3>3 DEF K1, K2
    <3>5. Knows(q, K1, K2, f)
      BY <3>1, <3>4, <2>1, <2>4, <1>1, <1>2, <1>9 DEF Knows, Read, ReadBack
    <3>q. QED BY <3>5 DEF K1, K2
  <2>q. QED BY <2>2, <2>3, <2>5, ForwardKeeps
<1>q. QED BY <1>5, <1>7, <1>8, <1>9
(* Level 2 changes its own registers only; a request is over when it leaves *)
(* that level, so what it knows matters no more.                            *)
LEMMA LevelTwoWrites ==
  ASSUME LevelsInv, NEW t \in Thread, NEW p, p = pkt[t], PacketOK(p), p.key \in Key, NEW r,
         r.keys \in [Position -> Number], r.sta \in DfaState, r.bkey \in Number,
         raced' = raced \cup Contended(pkt'), Update(2, t, p, r, "client"),
         \A f \in Mark : EntryRight(index[p.key], f) =>
            /\ Once(key[1][index[p.key]], r.keys, f)
            /\ \/ Concerns(p, index[p.key], f)
               \/ Holds(r.keys, f) => Holds(key[2][index[p.key]], f)
  PROVE  LevelsInv'
<1> DEFINE c == index[p.key]
<1>1. c \in Bucket /\ 1 \in Level /\ 2 \in Level /\ "client" \in Places BY KeyType DEF Level, Places
<1>2. /\ RegistersOK' /\ key'[2][c] = r.keys
      /\ \A m \in Level, b \in Bucket : m # 2 \/ b # c => key'[m][b] = key[m][b]
      /\ \E q : /\ pkt' = [pkt EXCEPT ![t] = q] /\ PacketOK(q) /\ q.at = "client" /\ q.type = p.type
               /\ q.key = p.key /\ q.position = p.position /\ q.bkey = r.bkey
  BY <1>1, UpdateFields
<1>3. PICK q : pkt' = [pkt EXCEPT ![t] = q] /\ PacketOK(q) /\ q.at = "client" BY <1>2
<1>4. \A b, f : ~Concerns(q, b, f) BY <1>3, NotConcerned
<1>5. \A b \in Bucket : key'[1][b] = key[1][b] BY <1>1, <1>2
<1>6. LevelOneDistinct' BY <1>5 DEF LevelsInv, LevelOneDistinct
<1>7. ASSUME NEW b \in Bucket, NEW f \in Mark, EntryRight(b, f)
      PROVE  StepRight(pkt[t], q, b, f, key[1][b], key[2][b], key'[1][b], key'[2][b])
  <2>1. CASE b = c
    <3>1. key'[1][b] = key[1][b] /\ key'[2][b] = r.keys BY <1>2, <1>5, <2>1
    <3>2. /\ Once(key[1][b], r.keys, f)
          /\ Concerns(p, b, f) \/ (Holds(r.keys, f) => Holds(key[2][b], f))
      BY <1>7, <2>1
    <3>q. QED BY <1>4, <3>1, <3>2 DEF StepRight, Calm
  <2>2. CASE b # c
    <3>1. key'[1][b] = key[1][b] /\ key'[2][b] = key[2][b] BY <1>1, <1>2, <2>2
    <3>q. QED BY <1>4, <1>7, <3>1 DEF StepRight, Calm, EntryRight
  <2>q. QED BY <2>1, <2>2
<1>q. QED BY <1>2, <1>3, <1>6, <1>7, StepKeeps

LEMMA LevelTwoInserts ==
  ASSUME LevelsInv, NEW t \in Thread, Ingress2(t), pkt[t].type = ReadBack, pkt[t].position = 2,
         raced' = raced \cup Contended(pkt')
  PROVE  LevelsInv'
<1> DEFINE p == pkt[t]
           r == InsertMode(2, p)
           c == index[p.key]
<1>1. PacketOK(p) /\ p.at = "ingress2" /\ p.key \in Key /\ p.bkey \in Number
  BY DEF LevelsInv, PacketsOK, PacketOK, Ingress2
<1>2. Update(2, t, p, r, "client") BY DEF Ingress2, Read, ReadBack, Insert
<1>3. /\ r.keys = InsertKey(key[2][c], p.bkey) /\ r.keys \in [Position -> Number]
      /\ r.sta \in DfaState /\ r.bkey \in Number
  BY <1>1, InsertModeFields DEF LevelsInv, Level
<1> HIDE DEF r
<1>4. ASSUME NEW f \in Mark, EntryRight(c, f)
      PROVE  /\ Once(key[1][c], r.keys, f)
             /\ Concerns(p, c, f) \/ (Holds(r.keys, f) => Holds(key[2][c], f))
  <2> DEFINE K1 == key[1][c]
             K2 == key[2][c]
  <2>1. Once(K1, K2, f) BY <1>4 DEF EntryRight
  <2>2. Concerns(p, c, f) => Knows(p, K1, K2, f) BY <1>4 DEF EntryRight
  <2>3. p.bkey = f => Concerns(p, c, f) BY <1>1 DEF Concerns
  <2>4. r.keys = InsertKey(K2, p.bkey) BY <1>3
  <2>5. p.type = ReadBack /\ p.at = "ingress2" /\ p.position = 2 BY <1>1
  <2> HIDE DEF K1, K2, c, p
  <2>6. Single(r.keys, f) BY <2>1, <2>4, InsertSingle DEF Once
  <2>7. ASSUME p.bkey # f PROVE Holds(r.keys, f) => Holds(K2, f)
    <3>1. CASE Holds(K2, p.bkey) BY <2>4, <3>1, InsertHit
    <3>2. CASE ~Holds(K2, p.bkey)
      <4>1. Holds(r.keys, f) <=> f = p.bkey \/ f = K2[1] \/ f = K2[2] BY <2>4, <3>2, InsertMiss
      <4>2. Holds(K2, f) <=> K2[1] = f \/ K2[2] = f \/ K2[3] = f BY HoldsCases
      <4>q. QED BY <2>7, <4>1, <4>2
    <3>q. QED BY <3>1, <3>2
  <2>8. ASSUME p.bkey = f PROVE ~Holds(K1, f)
    <3>1. Knows(p, K1, K2, f) BY <2>2, <2>3, <2>8
    <3>q. QED BY <3>1, <2>5 DEF Knows
  <2>9. Once(K1, r.keys, f) BY <2>1, <2>6, <2>7, <2>8 DEF Once
  <2>10. Concerns(p, c, f) \/ (Holds(r.keys, f) => Holds(K2, f)) BY <2>3, <2>7
  <2>q. QED BY <2>9, <2>10 DEF K1, K2
<1>q. QED BY <1>1, <1>2, <1>3, <1>4, LevelTwoWrites

LEMMA LevelTwoReplaces ==
  ASSUME LevelsInv, NEW t \in Thread, Ingress2(t), pkt[t].type = ReadBack, pkt[t].position = 0,
         raced' = raced \cup Contended(pkt')
  PROVE  LevelsInv'
<1> DEFINE p == pkt[t]
           r == ReplaceMode(2, p)
           c == index[p.key]
<1>1. PacketOK(p) /\ p.at = "ingress2" /\ p.key \in Key /\ p.bkey \in Number
  BY DEF LevelsInv, PacketsOK, PacketOK, Ingress2
<1>2. Update(2, t, p, r, "client") BY DEF Ingress2, Read, ReadBack, Insert
<1>3. /\ r.keys = [key[2][c] EXCEPT ![3] = p.bkey] /\ r.keys \in [Position -> Number]
      /\ r.sta \in DfaState /\ r.bkey \in Number
  BY <1>1, ReplaceModeFields DEF LevelsInv, Level
<1> HIDE DEF r
<1>4. key[2][c] \in [Position -> Number] BY <1>1, KeyType DEF LevelsInv, RegistersOK, Level
<1>5. r.keys[1] = key[2][c][1] /\ r.keys[2] = key[2][c][2] /\ r.keys[3] = p.bkey
  BY <1>3, <1>4 DEF Position
<1>6. ASSUME NEW f \in Mark, EntryRight(c, f)
      PROVE  /\ Once(key[1][c], r.keys, f)
             /\ Concerns(p, c, f) \/ (Holds(r.keys, f) => Holds(key[2][c], f))
  <2> DEFINE K1 == key[1][c]
             K2 == key[2][c]
  <2>1. Once(K1, K2, f) BY <1>6 DEF EntryRight
  <2>2. Concerns(p, c, f) => Knows(p, K1, K2, f) BY <1>6 DEF EntryRight
  <2>3. p.bkey = f => Concerns(p, c, f) BY <1>1 DEF Concerns
  <2>4. r.keys[1] = K2[1] /\ r.keys[2] = K2[2] /\ r.keys[3] = p.bkey BY <1>5
  <2>5. p.type = ReadBack /\ p.at = "ingress2" /\ p.position = 0 BY <1>1
  <2> HIDE DEF K1, K2, c, p
  <2>6. Holds(r.keys, f) <=> K2[1] = f \/ K2[2] = f \/ p.bkey = f BY <2>4, HoldsCases
  <2>7. Holds(K2, f) <=> K2[1] = f \/ K2[2] = f \/ K2[3] = f BY HoldsCases
  <2>8. ASSUME p.bkey = f PROVE ~Holds(K1, f) /\ ~Holds(K2, f)
    <3>1. Knows(p, K1, K2, f) BY <2>2, <2>3, <2>8
    <3>q. QED BY <3>1, <2>5, <2>8 DEF Knows
  <2>9. Single(K2, f) /\ (p.bkey = f => ~Holds(K2, f)) BY <2>1, <2>8 DEF Once
  <2>10. ~(K2[1] = f /\ K2[2] = f) BY <2>9 DEF Single, Position
  <2>11. Single(r.keys, f) BY <2>4, <2>7, <2>9, <2>10 DEF Single, Position
  <2>12. Once(K1, r.keys, f) BY <2>1, <2>6, <2>7, <2>8, <2>11 DEF Once
  <2>13. Concerns(p, c, f) \/ (Holds(r.keys, f) => Holds(K2, f)) BY <2>3, <2>6, <2>7
  <2>q. QED BY <2>12, <2>13 DEF K1, K2
<1>q. QED BY <1>1, <1>2, <1>3, <1>6, LevelTwoWrites

LEMMA IngressTwoKeeps ==
  ASSUME LevelsInv, NEW t \in Thread, Ingress2(t), raced' = raced \cup Contended(pkt')
  PROVE  LevelsInv'
<1> DEFINE p == pkt[t]
           next == IF p.type \in {Read, Insert} THEN "server" ELSE "client"
<1>1. PacketOK(p) /\ p.at = "ingress2" /\ p.key \in Key
  BY DEF LevelsInv, PacketsOK, PacketOK, Ingress2
<1>2. ASSUME NEW b \in Bucket, NEW f \in Mark, EntryRight(b, f), Concerns(p, b, f)
      PROVE  Knows(p, key[1][b], key[2][b], f) /\ ~(Holds(key[1][b], f) /\ Holds(key[2][b], f))
  BY <1>2 DEF EntryRight, Once
<1>3. p.position \in 0..2 BY <1>1 DEF PacketOK
<1>4. next \in Places /\ 2 \in Level BY DEF Places, Level
<1>5. CASE p.type = Read /\ p.position = 0
  <2> DEFINE q == Lookaside(2, p, next)
  <2>1. pkt' = [pkt EXCEPT ![t] = q] /\ UNCHANGED registers
    BY <1>5 DEF Ingress2, Forward, Read, ReadBack, Insert
  <2>2. /\ PacketOK(q) /\ q.at = next /\ q.type = p.type /\ q.key = p.key /\ q.bkey = p.bkey
        /\ q.position = IF Holds(key[2][index[p.key]], p.bkey) THEN 2 ELSE p.position
    BY <1>1, <1>4, LookasideFields
  <2>3. next = "server" BY <1>5
  <2> HIDE DEF q, next
  <2>4. ASSUME NEW b \in Bucket, NEW f \in Mark, EntryRight(b, f), Concerns(q, b, f)
        PROVE  Knows(q, key[1][b], key[2][b], f)
    <3>1. b = index[p.key] /\ f = fp[p.key]
      BY <1>5, <2>2, <2>4 DEF Concerns, Read, ReadBack
    <3>2. Concerns(p, b, f) BY <1>1, <1>5, <3>1 DEF Concerns
    <3>3. Knows(p, key[1][b], key[2][b], f) BY <1>2, <2>4, <3>2
    <3>4. p.bkey = f /\ ~Holds(key[1][b], f)
      BY <3>3, <1>1, <1>5 DEF Knows
    <3>5. q.position = IF Holds(key[2][b], f) THEN 2 ELSE 0 BY <2>2, <3>1, <3>4, <1>5
    <3>q. QED BY <2>2, <2>3, <3>4, <3>5, <1>5 DEF Knows, Read, ReadBack
  <2>q. QED BY <2>1, <2>2, <2>4, ForwardKeeps
<1>6. CASE p.type = ReadBack /\ p.position = 0 BY <1>6, LevelTwoReplaces
<1>7. CASE p.type = ReadBack /\ p.position = 2 BY <1>7, LevelTwoInserts
<1>8. CASE /\ ~(p.type = Read /\ p.position = 0) /\ ~(p.type = ReadBack /\ p.position = 0)
           /\ ~(p.type = ReadBack /\ p.position = 2)
  <2> DEFINE q == [p EXCEPT !.at = next]
  <2>1. pkt' = [pkt EXCEPT ![t] = q] /\ UNCHANGED registers BY <1>8 DEF Ingress2, Forward
  <2>2. /\ DOMAIN q = DOMAIN Idle /\ q.at = next /\ q.type = p.type /\ q.key = p.key
        /\ q.position = p.position /\ q.bkey = p.bkey
    BY <1>1, PacketMoves
  <2>3. next = IF p.type \in {Read, Insert} THEN "server" ELSE "client" OBVIOUS
  <2> HIDE DEF q, next
  <2>4. PacketOK(q) BY <1>1, <1>4, <2>2 DEF PacketOK
  <2>5. ASSUME NEW b \in Bucket, NEW f \in Mark, EntryRight(b, f), Concerns(q, b, f)
        PROVE  Knows(q, key[1][b], key[2][b], f)
    <3>1. q.type = Read /\ q.at = "server"
      BY <2>2, <2>3, <2>5 DEF Concerns, Read, ReadBack, Insert
    <3>2. p.type = Read /\ b = index[p.key] /\ f = fp[p.key]
      BY <2>2, <2>5, <3>1 DEF Concerns, Read, ReadBack
    <3>3. Concerns(p, b, f) BY <1>1, <3>2 DEF Concerns
    <3>4. Knows(p, key[1][b], key[2][b], f) /\ ~(Holds(key[1][b], f) /\ Holds(key[2][b], f))
      BY <1>2, <2>5, <3>3
    <3> DEFINE K1 == key[1][b]
               K2 == key[2][b]
    <3>5. Knows(p, K1, K2, f) /\ ~(Holds(K1, f) /\ Holds(K2, f)) BY <3>4
    <3> HIDE DEF K1, K2, p
    <3>6. p.position = 1 /\ Holds(K1, f) BY <3>5, <3>2, <1>1, <1>8 DEF Knows
    <3>7. Knows(q, K1, K2, f) BY <2>2, <3>1, <3>5, <3>6 DEF Knows, Read, ReadBack
    <3>q. QED BY <3>7 DEF K1, K2
  <2>q. QED BY <2>1, <2>4, <2>5, ForwardKeeps
<1>q. QED BY <1>5, <1>6, <1>7, <1>8

-----------------------------------------------------------------------------
LEMMA LevelsInductive == LevelsInv /\ [IndexNext]_vars => LevelsInv'
<1> SUFFICES ASSUME LevelsInv, [IndexNext]_vars PROVE LevelsInv' OBVIOUS
<1>1. CASE UNCHANGED vars
  <2>1. UNCHANGED <<key, reg_dfa, pkt, raced>> BY <1>1 DEF vars, registers
  <2>2. UNCHANGED <<PacketsOK, RegistersOK, LevelOneDistinct, Contended(pkt)>>
    BY <2>1 DEF PacketsOK, RegistersOK, LevelOneDistinct, Contended, Concerns
  <2>3. \A b, f : EntryRight(b, f)' <=> EntryRight(b, f)
    BY <2>1 DEF EntryRight, Once, Single, Holds, Concerns, Knows
  <2>q. QED BY <2>1, <2>2, <2>3 DEF LevelsInv
<1>2. CASE IndexNext
  <2>1. raced' = raced \cup Contended(pkt') BY <1>2 DEF IndexNext
  <2>2. ASSUME NEW t \in Thread, Start(t) PROVE LevelsInv'
    <3>1. ASSUME NEW k \in ReadKeys, ReadStart(t, k) PROVE LevelsInv'
      <4>1. k \in Key BY IndexAssumption
      <4>q. QED BY <2>1, <3>1, <4>1, StartKeeps DEF ReadStart
    <3>2. ASSUME NEW k \in Inserted, InsertStart(t, k) PROVE LevelsInv'
      <4>1. k \in Key BY IndexAssumption
      <4>q. QED BY <2>1, <3>2, <4>1, StartKeeps DEF InsertStart
    <3>q. QED BY <2>2, <3>1, <3>2 DEF Start
  <2>3. ASSUME NEW t \in Thread, Move(t) PROVE LevelsInv'
    BY <2>1, <2>3, IngressOneKeeps, IngressTwoKeeps, HandleQueryKeeps, HandleInsertKeeps DEF Move
  <2>4. ASSUME NEW t \in Thread, Lose(t) PROVE LevelsInv' BY <2>1, <2>4, LoseKeeps
  <2>q. QED BY <1>2, <2>2, <2>3, <2>4 DEF IndexNext
<1>q. QED BY <1>1, <1>2

LEMMA LevelsInvCached == LevelsInv => CachedOnce
<1> SUFFICES ASSUME LevelsInv PROVE CachedOnce OBVIOUS
<1>1. IndexTypeOK BY DEF LevelsInv, PacketsOK, RegistersOK, IndexTypeOK, Number
<1>2. LevelOneDistinct BY DEF LevelsInv
<1>3. LevelsDisjoint
  <2> SUFFICES ASSUME NEW l \in Level, NEW m \in Level, NEW b \in Bucket,
                      NEW p \in Position, NEW q \in Position,
                      key[l][b][p] = key[m][b][q], <<l, p>> # <<m, q>>,
                      key[l][b][p] # Cleared, <<b, key[l][b][p]>> \notin raced
               PROVE  FALSE
    BY DEF LevelsDisjoint
  <2>1. PICK f : f = key[l][b][p] OBVIOUS
  <2>2. f \in Mark BY <2>1 DEF LevelsInv, RegistersOK, Number, Mark
  <2>3. EntryRight(b, f) BY <2>1, <2>2 DEF LevelsInv
  <2>4. Once(key[1][b], key[2][b], f) BY <2>3 DEF EntryRight
  <2>5. Distinct(key[1][b]) BY LevelOneIs DEF LevelsInv
  <2>6. l \in {1, 2} /\ m \in {1, 2} BY DEF Level
  <2>7. CASE l = m
    <3>1. p # q BY <2>7
    <3>q. QED BY <2>1, <2>4, <2>5, <2>6, <2>7, <3>1 DEF Distinct, Once, Single
  <2>8. CASE l # m BY <2>1, <2>4, <2>6, <2>8 DEF Once, Holds
  <2>q. QED BY <2>7, <2>8
<1>q. QED BY <1>1, <1>2, <1>3 DEF CachedOnce

(* Level 1 never holds a key twice, and the two levels together hold a key  *)
(* once unless two packets concerned it at a time: a demoted key reaches    *)
(* level 2 only after it has left level 1, and an answer finds its key      *)
(* where the query found it.                                                *)
THEOREM LevelsHoldOnce == IndexSpec => []CachedOnce
<1>q. QED BY LevelsInit, LevelsInductive, LevelsInvCached, PTL DEF IndexSpec

-----------------------------------------------------------------------------
(* Leaf addresses *)

(* Two keys of one bucket have different fingerprints.  The switch compares *)
(* nothing else, so without this it would lead one key to the leaf of       *)
(* another.                                                                 *)
FingerprintsDiffer == \A j, k \in Key : index[j] = index[k] /\ fp[j] = fp[k] => j = k

Whole(t) == Len(t.node) = Len(LoadedTree.node)
Addresses(t) == DOMAIN t.node \cup {NULL}

(* An address that leads a search for k, if it is one, in tree t: to a leaf *)
(* that k is not above of, and as long as no leaf was split, to the leaf    *)
(* that a search from the root ends in.                                     *)
Leads(t, g, k, a) ==
    a # NULL => /\ a \in DOMAIN t.node /\ t.node[a].isLeaf /\ Over(g.lo[a], k)
                /\ Whole(t) => a = LeafFor(t, k, NULL)

(* A fingerprint and an address in bucket b that belong together. *)
Belongs(t, g, b, f, a) == \A k \in Key : index[k] = b /\ fp[k] = f => Leads(t, g, k, a)

PairsRight(t, g) ==
    /\ addr \in [Level -> [Bucket -> [Slot -> Addresses(t)]]]
    /\ \A l \in Level, b \in Bucket, p \in Position : Belongs(t, g, b, key[l][b][p], AddrAt(l, b, p))

(* What a packet under way says of the leaf of its key, what it takes from  *)
(* one level to the other, and the record of an answer.                     *)
PathRight(t, g, p) ==
    /\ p.addr \in Addresses(t) /\ p.baddr \in Addresses(t)
    /\ p.type = Read /\ p.at \in {"ingress1", "ingress2", "server"} => Leads(t, g, p.key, p.addr)
    /\ p.type = Read /\ p.at = "ingress2" => p.bkey = fp[p.key]
    /\ p.type = ReadBack /\ p.at = "ingress1" => Leads(t, g, p.key, p.addr)
    /\ p.type = ReadBack /\ p.at = "ingress2" => Belongs(t, g, index[p.key], p.bkey, p.baddr)
    /\ p.type = ReadBack => p.val \in {p.truth, Empty} /\ (Whole(t) => p.val = p.truth)

AddressesRight(t, g) == PairsRight(t, g) /\ \A u \in Thread : PathRight(t, g, pkt[u])

LeavesInv ==
    /\ LevelsInv
    /\ \E g : /\ Shape(tree, g, Key, 0) /\ Len(tree.node) >= Len(LoadedTree.node)
              /\ AddressesRight(tree, g)

-----------------------------------------------------------------------------
(* A key's address of its own belongs to its fingerprint. *)
LEMMA OwnBelongs ==
  ASSUME FingerprintsDiffer, NEW t, NEW g, NEW k \in Key, NEW a, Leads(t, g, k, a)
  PROVE  Belongs(t, g, index[k], fp[k], a)
BY DEF FingerprintsDiffer, Belongs

(* The tree grew: leaves are leaves still, and found where they were if     *)
(* none was split.                                                          *)
Later(t, g, u, h) ==
    /\ Len(t.node) \in Nat /\ Len(u.node) \in Nat /\ DOMAIN t.node \subseteq DOMAIN u.node
    /\ Len(t.node) >= Len(LoadedTree.node) /\ Len(u.node) >= Len(t.node)
    /\ \A b \in DOMAIN t.node : t.node[b].isLeaf => u.node[b].isLeaf /\ h.lo[b] = g.lo[b]
    /\ Len(u.node) = Len(t.node) => \A j \in Int : LeafFor(u, j, NULL) = LeafFor(t, j, NULL)

LEMMA WholeBefore ==
  ASSUME NEW t, NEW g, NEW u, NEW h, Later(t, g, u, h), Len(LoadedTree.node) \in Nat, Whole(u)
  PROVE  Whole(t) /\ Len(u.node) = Len(t.node)
<1>1. PICK x : x = Len(t.node) OBVIOUS
<1>2. PICK y : y = Len(u.node) OBVIOUS
<1>3. PICK z : z = Len(LoadedTree.node) OBVIOUS
<1>4. x \in Nat /\ y \in Nat /\ z \in Nat /\ x >= z /\ y >= x /\ y = z
  BY <1>1, <1>2, <1>3 DEF Later, Whole
<1>5. x = z /\ y = x BY <1>4
<1>q. QED BY <1>1, <1>2, <1>3, <1>5 DEF Whole

LEMMA LeadsLater ==
  ASSUME NEW t, NEW g, NEW u, NEW h, Later(t, g, u, h), Len(LoadedTree.node) \in Nat,
         NEW k \in Int, NEW a, Leads(t, g, k, a)
  PROVE  Leads(u, h, k, a)
<1> SUFFICES ASSUME a # NULL PROVE /\ a \in DOMAIN u.node /\ u.node[a].isLeaf /\ Over(h.lo[a], k)
                                   /\ Whole(u) => a = LeafFor(u, k, NULL)
  BY DEF Leads
<1>1. a \in DOMAIN t.node /\ t.node[a].isLeaf /\ Over(g.lo[a], k) /\ (Whole(t) => a = LeafFor(t, k, NULL))
  BY DEF Leads
<1>2. a \in DOMAIN u.node /\ u.node[a].isLeaf /\ h.lo[a] = g.lo[a] BY <1>1 DEF Later
<1>3. Whole(u) => a = LeafFor(u, k, NULL)
  <2> SUFFICES ASSUME Whole(u) PROVE a = LeafFor(u, k, NULL) OBVIOUS
  <2>1. Whole(t) /\ Len(u.node) = Len(t.node) BY WholeBefore
  <2>2. LeafFor(u, k, NULL) = LeafFor(t, k, NULL) BY <2>1 DEF Later
  <2>q. QED BY <2>1, <2>2, <1>1
<1>4. Over(h.lo[a], k) BY <1>1, <1>2
<1>q. QED BY <1>2, <1>3, <1>4

LEMMA BelongsLater ==
  ASSUME NEW t, NEW g, NEW u, NEW h, Later(t, g, u, h), Len(LoadedTree.node) \in Nat,
         NEW b, NEW f, NEW a, Belongs(t, g, b, f, a)
  PROVE  Belongs(u, h, b, f, a)
<1> SUFFICES ASSUME NEW k \in Key, index[k] = b, fp[k] = f PROVE Leads(u, h, k, a) BY DEF Belongs
<1>1. k \in Int BY TreeAssumption
<1>2. Leads(t, g, k, a) BY DEF Belongs
<1>q. QED BY <1>1, <1>2, LeadsLater

LEMMA PathLater ==
  ASSUME NEW t, NEW g, NEW u, NEW h, Later(t, g, u, h), Len(LoadedTree.node) \in Nat,
         NEW p, PacketOK(p), PathRight(t, g, p)
  PROVE  PathRight(u, h, p)
<1>1. Addresses(t) \subseteq Addresses(u) BY DEF Later, Addresses
<1>2. p.addr \in Addresses(u) /\ p.baddr \in Addresses(u) BY <1>1 DEF PathRight
<1>3. p.at \in {"ingress1", "ingress2", "server"} => p.key \in Int BY TreeAssumption DEF PacketOK
<1>4. p.type = Read /\ p.at \in {"ingress1", "ingress2", "server"} => Leads(u, h, p.key, p.addr)
  BY <1>3, LeadsLater DEF PathRight
<1>5. p.type = ReadBack /\ p.at = "ingress1" => Leads(u, h, p.key, p.addr) BY <1>3, LeadsLater DEF PathRight
<1>6. p.type = ReadBack /\ p.at = "ingress2" => Belongs(u, h, index[p.key], p.bkey, p.baddr)
  BY BelongsLater DEF PathRight
<1>7. Whole(u) => Whole(t) BY WholeBefore
<1>q. QED BY <1>2, <1>4, <1>5, <1>6, <1>7 DEF PathRight

(* What a search finds from an address that leads it. *)
LEMMA LeadsSearch ==
  ASSUME NEW t, NEW g, Shape(t, g, Key, 0), NEW k \in Int, NEW a, Leads(t, g, k, a)
  PROVE  /\ Leads(t, g, k, LeafFor(t, k, a)) /\ LeafFor(t, k, a) \in DOMAIN t.node
         /\ lookup(t, k, a) \in {Empty, lookup(t, k, NULL)}
         /\ Whole(t) => lookup(t, k, a) = lookup(t, k, NULL)
<1>1. CASE a = NULL
  <2>1. PICK c : c = LeafFor(t, k, a) OBVIOUS
  <2>2. c = LeafFor(t, k, NULL) BY <2>1, <1>1
  <2>3. c \in DOMAIN t.node /\ t.node[c].isLeaf /\ Between(k, g.lo[c], g.hi[c]) BY <2>2, LeafForIs
  <2>4. Leads(t, g, k, c) BY <2>2, <2>3 DEF Leads, Between
  <2>5. lookup(t, k, a) = lookup(t, k, NULL) BY <1>1
  <2>q. QED BY <2>1, <2>3, <2>4, <2>5
<1>2. CASE a # NULL
  <2>1. a \in DOMAIN t.node /\ t.node[a].isLeaf /\ Over(g.lo[a], k) /\ (Whole(t) => a = LeafFor(t, k, NULL))
    BY <1>2 DEF Leads
  <2>2. t \in Trees(Key) BY DEF Shape
  <2>3. t.depth \in Nat BY <2>2 DEF Trees
  <2>4. LeafFor(t, k, a) = a BY <2>1, <2>3, <1>2, LeafStays DEF LeafFor
  <2>5. lookup(t, k, a) \in {Empty, lookup(t, k, NULL)} BY <2>1, StaleLookup
  <2>6. Whole(t) => LeafFor(t, k, a) = LeafFor(t, k, NULL) BY <2>1, <2>4
  <2>7. Whole(t) => lookup(t, k, a) = lookup(t, k, NULL) BY <2>6 DEF lookup
  <2>q. QED BY <2>1, <2>4, <2>5, <2>7
<1>q. QED BY <1>1, <1>2

-----------------------------------------------------------------------------
(* The registers.  The pairs of one bucket: *)
BucketRight(t, g, b, ks, s, as) ==
    /\ ks \in [Position -> Number] /\ s \in DfaState /\ as \in [Slot -> Addresses(t)]
    /\ \A p \in Position : Belongs(t, g, b, ks[p], as[ReplaceSlot(p, s)])

LEMMA BucketIs ==
  ASSUME RegistersOK, NEW t, NEW g, PairsRight(t, g), NEW l \in Level, NEW b \in Bucket
  PROVE  BucketRight(t, g, b, key[l][b], reg_dfa[l][b], addr[l][b])
<1>1. key[l][b] \in [Position -> Number] /\ reg_dfa[l][b] \in DfaState BY DEF RegistersOK
<1>2. addr[l][b] \in [Slot -> Addresses(t)] BY DEF PairsRight
<1>3. \A p \in Position : Belongs(t, g, b, key[l][b][p], addr[l][b][ReplaceSlot(p, reg_dfa[l][b])])
  BY DEF PairsRight, AddrAt
<1>q. QED BY <1>1, <1>2, <1>3 DEF BucketRight

(* A hit gives the address that belongs to the fingerprint. *)
LEMMA MatchBelongs ==
  ASSUME NEW t, NEW g, NEW b, NEW ks, NEW s, NEW as, BucketRight(t, g, b, ks, s, as),
         NEW f, Match(ks, f) # 0
  PROVE  /\ Belongs(t, g, b, f, as[ReplaceSlot(Match(ks, f), s)])
         /\ as[ReplaceSlot(Match(ks, f), s)] \in Addresses(t)
<1>1. \E p \in Position : ks[p] = f BY DEF Match
<1>2. \E p \in Position : ks[p] = f /\ \A q \in Position : q > p => ks[q] # f
  <2>1. CASE ks[3] = f BY <2>1 DEF Position
  <2>2. CASE ks[3] # f /\ ks[2] = f BY <2>2 DEF Position
  <2>3. CASE ks[3] # f /\ ks[2] # f /\ ks[1] = f BY <2>3 DEF Position
  <2>q. QED BY <1>1, <2>1, <2>2, <2>3 DEF Position
<1>3. PICK m : m = Match(ks, f) OBVIOUS
<1>4. m \in Position /\ ks[m] = f BY <1>1, <1>2, <1>3 DEF Match
<1>5. Belongs(t, g, b, ks[m], as[ReplaceSlot(m, s)]) BY <1>4 DEF BucketRight
<1>6. as[ReplaceSlot(m, s)] \in Addresses(t) BY SlotType DEF BucketRight
<1>q. QED BY <1>3, <1>4, <1>5, <1>6

(* Insert mode: a new pair in front, the others move with their addresses,  *)
(* and what is pushed out is a pair.                                        *)
LEMMA PairInserted ==
  ASSUME NEW t, NEW g, NEW b, NEW ks, NEW s, NEW as, BucketRight(t, g, b, ks, s, as),
         NEW f \in Number, NEW a \in Addresses(t), Belongs(t, g, b, f, a)
  PROVE  LET n == Tsm(ks, f)
             r == DfaNext(n, s)
             out == as[QuerySlot(r)]
         IN  /\ BucketRight(t, g, b, InsertKey(ks, f), r, [as EXCEPT ![QuerySlot(r)] = a])
             /\ out \in Addresses(t) /\ Belongs(t, g, b, IF n >= 3 THEN ks[3] ELSE f, out)
<1>1. PICK n : n = Tsm(ks, f) OBVIOUS
<1>2. n \in 1..4 BY <1>1, TsmType
<1>3. PICK r : r = DfaNext(n, s) OBVIOUS
<1>4. s \in DfaState /\ ks \in [Position -> Number] /\ as \in [Slot -> Addresses(t)] BY DEF BucketRight
<1>5. r \in DfaState BY <1>2, <1>3, <1>4, DfaClosed
<1>6. PICK x : x = QuerySlot(r) OBVIOUS
<1>7. x = ReplaceSlot(1, r) /\ x \in Slot BY <1>5, <1>6, QuerySlotIsFront, SlotType
<1>8. \A p \in Position : ReplaceSlot(p, r) = ReplaceSlot(Origin(n, p), s) /\ Origin(n, p) \in Position
  BY <1>2, <1>3, <1>4, DfaPermutes, OriginType
<1>9. PICK new : new = [as EXCEPT ![x] = a] OBVIOUS
<1>10. new \in [Slot -> Addresses(t)] /\ new[x] = a /\ \A y \in Slot : y # x => new[y] = as[y]
  BY <1>4, <1>7, <1>9
<1>11. InsertKey(ks, f) \in [Position -> Number] BY <1>4, InsertType
<1>12. ASSUME NEW p \in Position PROVE Belongs(t, g, b, InsertKey(ks, f)[p], new[ReplaceSlot(p, r)])
  <2>1. InsertKey(ks, f)[p] = IF p = 1 THEN f ELSE ks[Origin(n, p)] BY <1>1, InsertKeyAt
  <2>2. CASE p = 1 BY <2>1, <2>2, <1>7, <1>10
  <2>3. CASE p # 1
    <3>1. 1 \in Position BY DEF Position
    <3>2. ReplaceSlot(p, r) # x /\ ReplaceSlot(p, r) \in Slot
      <4>1. ReplaceSlot(p, r) # ReplaceSlot(1, r) BY <2>3, <3>1, <1>5, SlotInjective
      <4>q. QED BY <4>1, <1>7, SlotType
    <3>3. new[ReplaceSlot(p, r)] = as[ReplaceSlot(Origin(n, p), s)] BY <3>2, <1>8, <1>10
    <3>4. Belongs(t, g, b, ks[Origin(n, p)], as[ReplaceSlot(Origin(n, p), s)]) BY <1>8 DEF BucketRight
    <3>q. QED BY <2>1, <2>3, <3>3, <3>4
  <2>q. QED BY <2>2, <2>3
<1>13. as[x] \in Addresses(t) BY <1>4, <1>7
<1>14. Belongs(t, g, b, IF n >= 3 THEN ks[3] ELSE f, as[x])
  <2>1. 1 \in Position /\ Origin(n, 1) = IF n = 4 THEN 3 ELSE n BY DEF Position, Origin
  <2>2. x = ReplaceSlot(Origin(n, 1), s) BY <2>1, <1>7, <1>8
  <2>3. Belongs(t, g, b, ks[Origin(n, 1)], as[x]) BY <2>1, <2>2, <1>8 DEF BucketRight
  <2>4. ks[Origin(n, 1)] = IF n >= 3 THEN ks[3] ELSE f
    <3>1. n # 4 => ks[n] = f BY <1>1, TsmMeaning
    <3>q. QED BY <3>1, <2>1, <1>2
  <2>q. QED BY <2>3, <2>4
<1>15. BucketRight(t, g, b, InsertKey(ks, f), r, new) BY <1>5, <1>10, <1>11, <1>12 DEF BucketRight
<1>q. QED BY <1>1, <1>3, <1>6, <1>9, <1>13, <1>14, <1>15

(* Replace mode: the pair of position 3 is another one. *)
LEMMA PairReplaced ==
  ASSUME NEW t, NEW g, NEW b, NEW ks, NEW s, NEW as, BucketRight(t, g, b, ks, s, as),
         NEW f \in Number, NEW a \in Addresses(t), Belongs(t, g, b, f, a)
  PROVE  BucketRight(t, g, b, [ks EXCEPT ![3] = f], s, [as EXCEPT ![ReplaceSlot(3, s)] = a])
<1>1. PICK x : x = ReplaceSlot(3, s) OBVIOUS
<1>2. s \in DfaState /\ ks \in [Position -> Number] /\ as \in [Slot -> Addresses(t)] BY DEF BucketRight
<1>3. PICK kn : kn = [ks EXCEPT ![3] = f] OBVIOUS
<1>4. PICK an : an = [as EXCEPT ![x] = a] OBVIOUS
<1>5. x \in Slot /\ 3 \in Position BY <1>1, SlotType DEF Position
<1>6. kn \in [Position -> Number] /\ kn[3] = f /\ \A p \in Position : p # 3 => kn[p] = ks[p] BY <1>2, <1>3, <1>5
<1>7. an \in [Slot -> Addresses(t)] /\ an[x] = a /\ \A y \in Slot : y # x => an[y] = as[y] BY <1>2, <1>4, <1>5
<1>8. ASSUME NEW p \in Position PROVE Belongs(t, g, b, kn[p], an[ReplaceSlot(p, s)])
  <2>1. CASE p = 3 BY <2>1, <1>1, <1>6, <1>7
  <2>2. CASE p # 3
    <3>1. ReplaceSlot(p, s) # x /\ ReplaceSlot(p, s) \in Slot
      <4>1. ReplaceSlot(p, s) # ReplaceSlot(3, s) BY <2>2, <1>2, <1>5, SlotInjective
      <4>q. QED BY <4>1, <1>1, SlotType
    <3>2. kn[p] = ks[p] /\ an[ReplaceSlot(p, s)] = as[ReplaceSlot(p, s)] BY <2>2, <3>1, <1>6, <1>7
    <3>3. Belongs(t, g, b, ks[p], as[ReplaceSlot(p, s)]) BY DEF BucketRight
    <3>q. QED BY <3>2, <3>3
  <2>q. QED BY <2>1, <2>2
<1>9. BucketRight(t, g, b, kn, s, an) BY <1>2, <1>6, <1>7, <1>8 DEF BucketRight
<1>q. QED BY <1>1, <1>3, <1>4, <1>9

(* One bucket is written. *)
LEMMA PairsWritten ==
  ASSUME RegistersOK, NEW t, NEW g, PairsRight(t, g), NEW l \in Level, NEW b \in Bucket,
         NEW ks, NEW s, NEW as, BucketRight(t, g, b, ks, s, as),
         key' = [key EXCEPT ![l][b] = ks], reg_dfa' = [reg_dfa EXCEPT ![l][b] = s],
         addr' = [addr EXCEPT ![l][b] = as]
  PROVE  PairsRight(t, g)'
<1>1. ks \in [Position -> Number] /\ s \in DfaState /\ as \in [Slot -> Addresses(t)] BY DEF BucketRight
<1>2. addr \in [Level -> [Bucket -> [Slot -> Addresses(t)]]] BY DEF PairsRight
<1>3. addr' \in [Level -> [Bucket -> [Slot -> Addresses(t)]]] BY <1>1, <1>2
<1>4. /\ key'[l][b] = ks /\ reg_dfa'[l][b] = s /\ addr'[l][b] = as
      /\ \A m \in Level, c \in Bucket : m # l \/ c # b =>
           key'[m][c] = key[m][c] /\ reg_dfa'[m][c] = reg_dfa[m][c] /\ addr'[m][c] = addr[m][c]
  BY <1>2 DEF RegistersOK
<1>5. ASSUME NEW m \in Level, NEW c \in Bucket
      PROVE BucketRight(t, g, c, key'[m][c], reg_dfa'[m][c], addr'[m][c])
  <2>1. BucketRight(t, g, c, key[m][c], reg_dfa[m][c], addr[m][c]) BY BucketIs
  <2>2. CASE m # l \/ c # b BY <2>1, <2>2, <1>4
  <2>3. CASE m = l /\ c = b BY <2>3, <1>4
  <2>q. QED BY <2>2, <2>3
<1>6. \A m \in Level, c \in Bucket, p \in Position :
        Belongs(t, g, c, key'[m][c][p], addr'[m][c][ReplaceSlot(p, reg_dfa'[m][c])])
  BY <1>5 DEF BucketRight
<1>q. QED BY <1>3, <1>6 DEF PairsRight, AddrAt

-----------------------------------------------------------------------------
(* The steps of packets *)
LEMMA PathsMoved ==
  ASSUME PacketsOK, NEW t, NEW g, \A u \in Thread : PathRight(t, g, pkt[u]),
         NEW th \in Thread, NEW q, pkt' = [pkt EXCEPT ![th] = q], PathRight(t, g, q)
  PROVE  \A u \in Thread : PathRight(t, g, pkt'[u])
<1>1. pkt'[th] = q /\ \A u \in Thread \ {th} : pkt'[u] = pkt[u] BY DEF PacketsOK
<1>2. ASSUME NEW u \in Thread PROVE PathRight(t, g, pkt'[u])
  <2>1. CASE u = th BY <2>1, <1>1
  <2>2. CASE u # th BY <2>2, <1>1
  <2>q. QED BY <2>1, <2>2
<1>q. QED BY <1>2

LEMMA ForwardRight ==
  ASSUME PacketsOK, NEW t, NEW g, AddressesRight(t, g), NEW th \in Thread, NEW q,
         pkt' = [pkt EXCEPT ![th] = q], UNCHANGED registers, PathRight(t, g, q)
  PROVE  AddressesRight(t, g)'
<1>1. \A u \in Thread : PathRight(t, g, pkt'[u]) BY PathsMoved DEF AddressesRight
<1>2. key' = key /\ reg_dfa' = reg_dfa /\ addr' = addr BY DEF registers
<1>3. PairsRight(t, g)' BY <1>2 DEF AddressesRight, PairsRight, AddrAt
<1>q. QED BY <1>1, <1>3 DEF AddressesRight

LEMMA UpdateRight ==
  ASSUME PacketsOK, RegistersOK, NEW t, NEW g, AddressesRight(t, g), NEW th \in Thread, NEW l \in Level,
         NEW p, p.key \in Key, NEW r, NEW next, Update(l, th, p, r, next),
         BucketRight(t, g, index[p.key], r.keys, r.sta, r.addrs),
         PathRight(t, g, [p EXCEPT !.at = next, !.bkey = r.bkey, !.baddr = r.baddr])
  PROVE  AddressesRight(t, g)'
<1>1. PICK q : q = [p EXCEPT !.at = next, !.bkey = r.bkey, !.baddr = r.baddr] OBVIOUS
<1>2. pkt' = [pkt EXCEPT ![th] = q] BY <1>1 DEF Update
<1>3. \A u \in Thread : PathRight(t, g, pkt'[u]) BY <1>1, <1>2, PathsMoved DEF AddressesRight
<1>4. PICK b : b = index[p.key] OBVIOUS
<1>5. b \in Bucket BY <1>4, KeyType
<1>6. PICK ks : ks = r.keys OBVIOUS
<1>7. PICK s : s = r.sta OBVIOUS
<1>8. PICK as : as = r.addrs OBVIOUS
<1>9. key' = [key EXCEPT ![l][b] = ks] /\ reg_dfa' = [reg_dfa EXCEPT ![l][b] = s] /\ addr' = [addr EXCEPT ![l][b] = as]
  BY <1>4, <1>6, <1>7, <1>8 DEF Update
<1>10. BucketRight(t, g, b, ks, s, as) BY <1>4, <1>6, <1>7, <1>8
<1>11. PairsRight(t, g) BY DEF AddressesRight
<1>12. PairsRight(t, g)' BY <1>5, <1>9, <1>10, <1>11, PairsWritten
<1>q. QED BY <1>3, <1>12 DEF AddressesRight

LEMMA StartRight ==
  ASSUME PacketsOK, NEW t, NEW g, AddressesRight(t, g), NEW th \in Thread, NEW type \in {Read, Insert},
         NEW k \in Key, Request(th, type, k), UNCHANGED registers
  PROVE  AddressesRight(t, g)'
<1>1. PICK q : q = [Idle EXCEPT !.at = "ingress1", !.type = type, !.key = k] OBVIOUS
<1>2. pkt' = [pkt EXCEPT ![th] = q] BY <1>1 DEF Request
<1>3. q.addr = NULL /\ q.baddr = NULL /\ q.at = "ingress1" /\ q.type = type BY <1>1 DEF Idle
<1>4. PathRight(t, g, q) BY <1>3 DEF PathRight, Leads, Addresses, Read, ReadBack, Insert
<1>q. QED BY <1>2, <1>4, ForwardRight

LEMMA LoseRight ==
  ASSUME PacketsOK, NEW t, NEW g, AddressesRight(t, g), NEW th \in Thread, Lose(th)
  PROVE  AddressesRight(t, g)'
<1>1. PICK q : q = [Idle EXCEPT !.at = "lost"] OBVIOUS
<1>2. pkt' = [pkt EXCEPT ![th] = q] /\ UNCHANGED registers BY <1>1 DEF Lose
<1>3. q.addr = NULL /\ q.baddr = NULL /\ q.at = "lost" /\ q.type = InsertBack BY <1>1 DEF Idle
<1>4. PathRight(t, g, q) BY <1>3 DEF PathRight, Addresses, Read, ReadBack, InsertBack
<1>q. QED BY <1>2, <1>4, ForwardRight

(* The answer of an insert says nothing of leaves. *)
LEMMA InsertBackRight ==
  ASSUME NEW t, NEW g, NEW p, PacketOK(p), PathRight(t, g, p)
  PROVE  PathRight(t, g, [p EXCEPT !.at = "ingress1", !.type = InsertBack])
<1>1. PICK q : q = [p EXCEPT !.at = "ingress1", !.type = InsertBack] OBVIOUS
<1>2. q.addr = p.addr /\ q.baddr = p.baddr /\ q.type = InsertBack BY <1>1, FieldsOf DEF PacketOK
<1>3. PathRight(t, g, q) BY <1>2 DEF PathRight, Read, ReadBack, InsertBack
<1>q. QED BY <1>1, <1>3

LEMMA QueryRight ==
  ASSUME PacketsOK,
         NEW g, Shape(tree, g, Key, 0), AddressesRight(tree, g), NEW th \in Thread, HandleQuery(th)
  PROVE  PathRight(tree, g, pkt'[th]) /\ UNCHANGED <<tree, registers>>
         /\ \E q : pkt' = [pkt EXCEPT ![th] = q] /\ PathRight(tree, g, q)
<1>1. PICK p : p = pkt[th] OBVIOUS
<1>2. PICK k : k = p.key OBVIOUS
<1>3. PICK a : a = p.addr OBVIOUS
<1>4. PICK c : c = LeafFor(tree, k, a) OBVIOUS
<1>5. PICK x : x = lookup(tree, k, a) OBVIOUS
<1>6. PICK y : y = lookup(tree, k, NULL) OBVIOUS
<1>7. PICK q : q = [p EXCEPT !.at = "ingress1", !.type = ReadBack, !.addr = c, !.val = x, !.truth = y] OBVIOUS
<1>8. PacketOK(p) /\ PathRight(tree, g, p) /\ p.at = "server" /\ p.type = Read
  BY <1>1 DEF PacketsOK, AddressesRight, HandleQuery
<1>9. /\ q.at = "ingress1" /\ q.type = ReadBack /\ q.key = k /\ q.addr = c /\ q.baddr = p.baddr
      /\ q.val = x /\ q.truth = y
  BY <1>2, <1>7, <1>8, FieldsOf DEF PacketOK
<1>10. k \in Int /\ Leads(tree, g, k, a) BY <1>2, <1>3, <1>8, TreeAssumption DEF PacketOK, PathRight
<1>11. /\ Leads(tree, g, k, c) /\ c \in DOMAIN tree.node
       /\ x \in {Empty, y} /\ (Whole(tree) => x = y)
  BY <1>4, <1>5, <1>6, <1>10, LeadsSearch
<1>12. PathRight(tree, g, q) BY <1>8, <1>9, <1>11 DEF PathRight, Addresses, Read, ReadBack
<1>13. pkt' = [pkt EXCEPT ![th] = q] /\ UNCHANGED <<tree, registers>>
  BY <1>1, <1>2, <1>3, <1>4, <1>5, <1>6, <1>7 DEF HandleQuery
<1>14. pkt'[th] = q BY <1>13 DEF PacketsOK
<1>q. QED BY <1>12, <1>13, <1>14

LEMMA LookasideRight ==
  ASSUME RegistersOK, NEW t, NEW g, PairsRight(t, g), NEW l \in Level, NEW p, PacketOK(p), p.key \in Key,
         p.type = Read, p.bkey = fp[p.key], p.addr \in Addresses(t), p.baddr \in Addresses(t),
         Leads(t, g, p.key, p.addr), NEW next
  PROVE  PathRight(t, g, Lookaside(l, p, next))
<1>1. PICK b : b = index[p.key] OBVIOUS
<1>2. PICK m : m = Match(key[l][b], p.bkey) OBVIOUS
<1>3. PICK q : q = Lookaside(l, p, next) OBVIOUS
<1>4. b \in Bucket BY <1>1, KeyType
<1>5. CASE m = 0
  <2>1. q = [p EXCEPT !.at = next] BY <1>1, <1>2, <1>3, <1>5 DEF Lookaside
  <2>2. q.type = Read /\ q.key = p.key /\ q.addr = p.addr /\ q.baddr = p.baddr /\ q.bkey = p.bkey
    BY <2>1, FieldsOf DEF PacketOK
  <2>3. PathRight(t, g, q) BY <2>2 DEF PathRight, Read, ReadBack
  <2>q. QED BY <1>3, <2>3
<1>6. CASE m # 0
  <2>1. PICK a : a = addr[l][b][ReplaceSlot(m, reg_dfa[l][b])] OBVIOUS
  <2>2. q = [p EXCEPT !.at = next, !.position = l, !.addr = a] BY <1>1, <1>2, <1>3, <1>6, <2>1 DEF Lookaside
  <2>3. q.type = Read /\ q.key = p.key /\ q.addr = a /\ q.baddr = p.baddr /\ q.bkey = p.bkey
    BY <2>2, FieldsOf DEF PacketOK
  <2>4. BucketRight(t, g, b, key[l][b], reg_dfa[l][b], addr[l][b]) BY <1>4, BucketIs
  <2>5. Belongs(t, g, b, p.bkey, a) /\ a \in Addresses(t) BY <2>1, <2>4, <1>2, <1>6, MatchBelongs
  <2>6. Leads(t, g, p.key, a) BY <2>5, <1>1 DEF Belongs
  <2>7. PathRight(t, g, q) BY <2>3, <2>5, <2>6 DEF PathRight, Read, ReadBack
  <2>q. QED BY <1>3, <2>7
<1>q. QED BY <1>5, <1>6

(* An answer writes its pair into a level, or the one level 1 pushed out. *)
LEMMA InsertModeRight ==
  ASSUME RegistersOK, NEW t, NEW g, PairsRight(t, g), NEW l \in Level, NEW p, p.key \in Key, p.bkey \in Number,
         p.baddr \in Addresses(t), Belongs(t, g, index[p.key], p.bkey, p.baddr)
  PROVE  LET r == InsertMode(l, p)
         IN  /\ BucketRight(t, g, index[p.key], r.keys, r.sta, r.addrs)
             /\ r.baddr \in Addresses(t) /\ Belongs(t, g, index[p.key], r.bkey, r.baddr)
<1>1. PICK b : b = index[p.key] OBVIOUS
<1>2. PICK r : r = InsertMode(l, p) OBVIOUS
<1>3. PICK f : f = p.bkey OBVIOUS
<1>4. PICK a : a = p.baddr OBVIOUS
<1>5. PICK n : n = Tsm(key[l][b], f) OBVIOUS
<1>6. PICK s : s = DfaNext(n, reg_dfa[l][b]) OBVIOUS
<1>7. b \in Bucket BY <1>1, KeyType
<1>8. BucketRight(t, g, b, key[l][b], reg_dfa[l][b], addr[l][b]) BY <1>7, BucketIs
<1>9. f \in Number /\ a \in Addresses(t) /\ Belongs(t, g, b, f, a) BY <1>1, <1>3, <1>4
<1>10. /\ BucketRight(t, g, b, InsertKey(key[l][b], f), s, [addr[l][b] EXCEPT ![QuerySlot(s)] = a])
       /\ addr[l][b][QuerySlot(s)] \in Addresses(t)
       /\ Belongs(t, g, b, IF n >= 3 THEN key[l][b][3] ELSE f, addr[l][b][QuerySlot(s)])
  BY <1>5, <1>6, <1>8, <1>9, PairInserted
<1>11. /\ r.keys = InsertKey(key[l][b], f) /\ r.sta = s
       /\ r.addrs = [addr[l][b] EXCEPT ![QuerySlot(s)] = a]
       /\ r.bkey = (IF n >= 3 THEN key[l][b][3] ELSE f) /\ r.baddr = addr[l][b][QuerySlot(s)]
  BY <1>1, <1>2, <1>3, <1>4, <1>5, <1>6 DEF InsertMode
<1>q. QED BY <1>1, <1>2, <1>10, <1>11

LEMMA ReplaceModeRight ==
  ASSUME RegistersOK, NEW t, NEW g, PairsRight(t, g), NEW l \in Level, NEW p, p.key \in Key, p.bkey \in Number,
         p.baddr \in Addresses(t), Belongs(t, g, index[p.key], p.bkey, p.baddr)
  PROVE  LET r == ReplaceMode(l, p)
         IN  /\ BucketRight(t, g, index[p.key], r.keys, r.sta, r.addrs)
             /\ r.baddr = p.baddr /\ r.bkey = p.bkey
<1>1. PICK b : b = index[p.key] OBVIOUS
<1>2. PICK r : r = ReplaceMode(l, p) OBVIOUS
<1>3. PICK f : f = p.bkey OBVIOUS
<1>4. PICK a : a = p.baddr OBVIOUS
<1>5. PICK s : s = reg_dfa[l][b] OBVIOUS
<1>6. b \in Bucket BY <1>1, KeyType
<1>7. BucketRight(t, g, b, key[l][b], s, addr[l][b]) BY <1>5, <1>6, BucketIs
<1>8. f \in Number /\ a \in Addresses(t) /\ Belongs(t, g, b, f, a) BY <1>1, <1>3, <1>4
<1>9. BucketRight(t, g, b, [key[l][b] EXCEPT ![3] = f], s, [addr[l][b] EXCEPT ![ReplaceSlot(3, s)] = a])
  BY <1>7, <1>8, PairReplaced
<1>10. /\ r.keys = [key[l][b] EXCEPT ![3] = f] /\ r.sta = s
       /\ r.addrs = [addr[l][b] EXCEPT ![ReplaceSlot(3, s)] = a] /\ r.bkey = f /\ r.baddr = a
  BY <1>1, <1>2, <1>3, <1>4, <1>5 DEF ReplaceMode
<1>q. QED BY <1>1, <1>2, <1>3, <1>4, <1>9, <1>10

LEMMA AnswerRight ==
  ASSUME NEW t, NEW g, NEW p, PacketOK(p), p.type = ReadBack, p.addr \in Addresses(t),
         p.val \in {p.truth, Empty}, Whole(t) => p.val = p.truth,
         NEW next \in {"ingress2", "client"}, NEW f, NEW a \in Addresses(t), Belongs(t, g, index[p.key], f, a)
  PROVE  PathRight(t, g, [p EXCEPT !.at = next, !.bkey = f, !.baddr = a])
<1>1. PICK q : q = [p EXCEPT !.at = next, !.bkey = f, !.baddr = a] OBVIOUS
<1>2. /\ q.at = next /\ q.type = ReadBack /\ q.key = p.key /\ q.addr = p.addr /\ q.bkey = f /\ q.baddr = a
      /\ q.val = p.val /\ q.truth = p.truth
  BY <1>1, FieldsOf DEF PacketOK
<1>3. PathRight(t, g, q) BY <1>2 DEF PathRight, Read, ReadBack
<1>q. QED BY <1>1, <1>3

LEMMA EnteringRight ==
  ASSUME FingerprintsDiffer, NEW t, NEW g, NEW p, PacketOK(p), p.at = "ingress1", PathRight(t, g, p)
  PROVE  LET e == Entering(p)
         IN  /\ e.addr = p.addr /\ e.baddr = p.addr /\ e.val = p.val /\ e.truth = p.truth
             /\ e.addr \in Addresses(t) /\ e.baddr \in Addresses(t)
             /\ e.type = Read => Leads(t, g, e.key, e.addr) /\ e.bkey = fp[e.key]
             /\ e.type = ReadBack => /\ Belongs(t, g, index[e.key], e.bkey, e.baddr)
                                     /\ e.val \in {e.truth, Empty} /\ (Whole(t) => e.val = e.truth)
<1>1. PICK e : e = Entering(p) OBVIOUS
<1>2. /\ e.at = "ingress1" /\ e.type = p.type /\ e.key = p.key /\ e.addr = p.addr /\ e.bkey = fp[p.key]
      /\ e.baddr = p.addr /\ e.val = p.val /\ e.truth = p.truth
  BY <1>1, FieldsOf DEF PacketOK, Entering
<1>3. p.key \in Key BY DEF PacketOK
<1>4. p.addr \in Addresses(t) BY DEF PathRight
<1>5. p.type = Read => Leads(t, g, p.key, p.addr) BY DEF PathRight
<1>6. p.type = ReadBack => /\ Leads(t, g, p.key, p.addr)
                           /\ p.val \in {p.truth, Empty} /\ (Whole(t) => p.val = p.truth)
  BY DEF PathRight
<1>7. p.type = ReadBack => Belongs(t, g, index[p.key], fp[p.key], p.addr) BY <1>3, <1>6, OwnBelongs
<1>q. QED BY <1>1, <1>2, <1>4, <1>5, <1>6, <1>7

LEMMA IngressOneRight ==
  ASSUME FingerprintsDiffer, LevelsInv, NEW t, NEW g, AddressesRight(t, g), NEW th \in Thread, Ingress1(th)
  PROVE  AddressesRight(t, g)'
<1>1. PICK p : p = pkt[th] OBVIOUS
<1>2. PICK e : e = Entering(p) OBVIOUS
<1>3. PacketOK(p) /\ PathRight(t, g, p) /\ p.at = "ingress1" /\ PacketsOK /\ RegistersOK /\ PairsRight(t, g)
  BY <1>1 DEF LevelsInv, PacketsOK, AddressesRight, Ingress1
<1>4. PacketOK(e) /\ e.at = "ingress1" /\ e.key \in Key /\ e.bkey \in Number
  <2>1. PacketOK(e) /\ e.at = "ingress1" BY <1>2, <1>3, EnteringFields
  <2>q. QED BY <2>1 DEF PacketOK
<1>5. /\ e.addr \in Addresses(t) /\ e.baddr \in Addresses(t)
      /\ e.type = Read => Leads(t, g, e.key, e.addr) /\ e.bkey = fp[e.key]
      /\ e.type = ReadBack => /\ Belongs(t, g, index[e.key], e.bkey, e.baddr)
                              /\ e.val \in {e.truth, Empty} /\ (Whole(t) => e.val = e.truth)
  BY <1>2, <1>3, EnteringRight
<1>6. \/ e.type = Read /\ e.position = 0 /\ Forward(th, Lookaside(1, e, "ingress2"))
      \/ e.type = ReadBack /\ e.position <= 1 /\ Update(1, th, e, InsertMode(1, e), "ingress2")
      \/ /\ ~(e.type = Read /\ e.position = 0) /\ ~(e.type = ReadBack /\ e.position <= 1)
         /\ Forward(th, [e EXCEPT !.at = "ingress2"])
  BY <1>1, <1>2 DEF Ingress1, Entering
<1>7. 1 \in Level BY DEF Level
<1>8. CASE e.type = Read /\ Forward(th, Lookaside(1, e, "ingress2"))
  <2>1. PathRight(t, g, Lookaside(1, e, "ingress2")) BY <1>3, <1>4, <1>5, <1>7, <1>8, LookasideRight
  <2>q. QED BY <2>1, <1>3, <1>8, ForwardRight DEF Forward
<1>9. CASE e.type = ReadBack /\ Update(1, th, e, InsertMode(1, e), "ingress2")
  <2>1. PICK r : r = InsertMode(1, e) OBVIOUS
  <2>2. /\ BucketRight(t, g, index[e.key], r.keys, r.sta, r.addrs)
        /\ r.baddr \in Addresses(t) /\ Belongs(t, g, index[e.key], r.bkey, r.baddr)
    BY <2>1, <1>3, <1>4, <1>5, <1>7, <1>9, InsertModeRight
  <2>4. PathRight(t, g, [e EXCEPT !.at = "ingress2", !.bkey = r.bkey, !.baddr = r.baddr])
    BY <2>2, <1>4, <1>5, <1>9, AnswerRight
  <2>5. Update(1, th, e, r, "ingress2") BY <2>1, <1>9
  <2>q. QED BY <2>2, <2>4, <2>5, <1>3, <1>4, <1>7, UpdateRight
<1>10. CASE Forward(th, [e EXCEPT !.at = "ingress2"])
  <2>1. PICK q : q = [e EXCEPT !.at = "ingress2"] OBVIOUS
  <2>2. /\ q.at = "ingress2" /\ q.type = e.type /\ q.key = e.key /\ q.addr = e.addr /\ q.bkey = e.bkey
        /\ q.baddr = e.baddr /\ q.val = e.val /\ q.truth = e.truth
    BY <2>1, <1>4, FieldsOf DEF PacketOK
  <2>3. PathRight(t, g, q) BY <2>2, <1>5 DEF PathRight
  <2>q. QED BY <2>1, <2>3, <1>3, <1>10, ForwardRight DEF Forward
<1>q. QED BY <1>6, <1>8, <1>9, <1>10

LEMMA IngressTwoRight ==
  ASSUME LevelsInv, NEW t, NEW g, AddressesRight(t, g), NEW th \in Thread, Ingress2(th)
  PROVE  AddressesRight(t, g)'
<1>1. PICK p : p = pkt[th] OBVIOUS
<1>2. PICK next : next = IF p.type \in {Read, Insert} THEN "server" ELSE "client" OBVIOUS
<1>3. /\ PacketOK(p) /\ PathRight(t, g, p) /\ p.at = "ingress2" /\ PacketsOK /\ RegistersOK /\ PairsRight(t, g)
      /\ p.key \in Key /\ p.bkey \in Number
  BY <1>1 DEF LevelsInv, PacketsOK, PacketOK, AddressesRight, Ingress2
<1>4. \/ p.type = Read /\ Forward(th, Lookaside(2, p, next))
      \/ p.type = ReadBack /\ Update(2, th, p, ReplaceMode(2, p), next)
      \/ p.type = ReadBack /\ Update(2, th, p, InsertMode(2, p), next)
      \/ Forward(th, [p EXCEPT !.at = next])
  BY <1>1, <1>2 DEF Ingress2
<1>5. 2 \in Level BY DEF Level
<1>6. CASE p.type = Read /\ Forward(th, Lookaside(2, p, next))
  <2>1. p.addr \in Addresses(t) /\ p.baddr \in Addresses(t) /\ Leads(t, g, p.key, p.addr) /\ p.bkey = fp[p.key]
    BY <1>3, <1>6 DEF PathRight
  <2>2. PathRight(t, g, Lookaside(2, p, next)) BY <2>1, <1>3, <1>5, <1>6, LookasideRight
  <2>q. QED BY <2>2, <1>3, <1>6, ForwardRight DEF Forward
<1>7. p.type = ReadBack => /\ next = "client" /\ p.addr \in Addresses(t) /\ p.baddr \in Addresses(t)
                           /\ p.val \in {p.truth, Empty} /\ (Whole(t) => p.val = p.truth)
                           /\ Belongs(t, g, index[p.key], p.bkey, p.baddr)
  BY <1>2, <1>3 DEF PathRight, Read, ReadBack, Insert
<1>8. CASE p.type = ReadBack /\ Update(2, th, p, ReplaceMode(2, p), next)
  <2>1. PICK r : r = ReplaceMode(2, p) OBVIOUS
  <2>2. BucketRight(t, g, index[p.key], r.keys, r.sta, r.addrs) /\ r.baddr = p.baddr /\ r.bkey = p.bkey
    BY <2>1, <1>3, <1>5, <1>7, <1>8, ReplaceModeRight
  <2>3. PathRight(t, g, [p EXCEPT !.at = next, !.bkey = r.bkey, !.baddr = r.baddr])
    BY <2>2, <1>3, <1>7, <1>8, AnswerRight
  <2>4. Update(2, th, p, r, next) BY <2>1, <1>8
  <2>q. QED BY <2>2, <2>3, <2>4, <1>3, <1>5, UpdateRight
<1>9. CASE p.type = ReadBack /\ Update(2, th, p, InsertMode(2, p), next)
  <2>1. PICK r : r = InsertMode(2, p) OBVIOUS
  <2>2. /\ BucketRight(t, g, index[p.key], r.keys, r.sta, r.addrs)
        /\ r.baddr \in Addresses(t) /\ Belongs(t, g, index[p.key], r.bkey, r.baddr)
    BY <2>1, <1>3, <1>5, <1>7, <1>9, InsertModeRight
  <2>3. PathRight(t, g, [p EXCEPT !.at = next, !.bkey = r.bkey, !.baddr = r.baddr])
    BY <2>2, <1>3, <1>7, <1>9, AnswerRight
  <2>4. Update(2, th, p, r, next) BY <2>1, <1>9
  <2>q. QED BY <2>2, <2>3, <2>4, <1>3, <1>5, UpdateRight
<1>10. CASE Forward(th, [p EXCEPT !.at = next])
  <2>1. PICK q : q = [p EXCEPT !.at = next] OBVIOUS
  <2>2. /\ q.at = next /\ q.type = p.type /\ q.key = p.key /\ q.addr = p.addr /\ q.bkey = p.bkey
        /\ q.baddr = p.baddr /\ q.val = p.val /\ q.truth = p.truth
    BY <2>1, <1>3, FieldsOf DEF PacketOK
  <2>3. next # "ingress1" /\ next # "ingress2" BY <1>2
  <2>4. PathRight(t, g, q) BY <2>2, <2>3, <1>3 DEF PathRight
  <2>q. QED BY <2>1, <2>4, <1>3, <1>10, ForwardRight DEF Forward
<1>q. QED BY <1>4, <1>6, <1>8, <1>9, <1>10

-----------------------------------------------------------------------------
(* The back end's tree *)
LEMMA LoadedShape == (\E g : Shape(LoadedTree, g, Key, 0)) /\ Len(LoadedTree.node) \in Nat
<1> DEFINE s == [i \in DOMAIN Loaded |-> <<Loaded[i], RecordOf(Loaded[i])>>]
           w == [k \in Int |-> k]
<1>1. Loaded \in Seq(Key) /\ Key \subseteq Int BY IndexAssumption, TreeAssumption
<1>2. /\ Len(s) = Len(Loaded) /\ Len(s) \in Nat
      /\ \A i \in 1..Len(s) : s[i][1] = Loaded[i] /\ s[i][2] = Loaded[i] /\ Loaded[i] \in Key
  BY <1>1 DEF RecordOf
<1>3. \A i \in 1..Len(s) : s[i][1] \in Int /\ s[i][2] \in Key /\ s[i][2] = w[s[i][1]]
  BY <1>1, <1>2
<1>4. LoadedTree = InsertAll(s) BY DEF LoadedTree
<1> HIDE DEF s, w
<1>5. Filled(InsertAll(s), Key, {s[i][1] : i \in 1..Len(s)}, w) BY <1>2, <1>3, InsertAllIs
<1>6. PICK g : Shape(LoadedTree, g, Key, 0) BY <1>4, <1>5 DEF Filled
<1>7. LoadedTree \in Trees(Key) BY <1>6 DEF Shape
<1>8. Len(LoadedTree.node) \in Nat BY <1>7 DEF Trees
<1>q. QED BY <1>6, <1>8

LEMMA InsertLater ==
  ASSUME NEW t, NEW g, Shape(t, g, Key, 0), NEW k \in Key, Len(t.node) >= Len(LoadedTree.node)
  PROVE  \E h : Shape(insert(t, k, k), h, Key, 0) /\ Later(t, g, insert(t, k, k), h)
<1>1. k \in Int BY TreeAssumption
<1>2. PICK u : u = insert(t, k, k) OBVIOUS
<1>3. Grew(t, g, Key, u, k, k) BY <1>1, <1>2, InsertIs
<1>4. PICK h : /\ Shape(u, h, Key, 0)
               /\ DOMAIN t.node \subseteq DOMAIN u.node /\ Len(u.node) >= Len(t.node)
               /\ \A b \in DOMAIN t.node : t.node[b].isLeaf => u.node[b].isLeaf /\ h.lo[b] = g.lo[b]
               /\ Len(u.node) = Len(t.node) => \A j \in Int : LeafFor(u, j, NULL) = LeafFor(t, j, NULL)
  BY <1>3 DEF Grew
<1>5. t \in Trees(Key) /\ u \in Trees(Key) BY <1>4 DEF Shape
<1>6. Len(t.node) \in Nat /\ Len(u.node) \in Nat BY <1>5 DEF Trees
<1>7. Later(t, g, u, h) BY <1>4, <1>6 DEF Later
<1>q. QED BY <1>2, <1>4, <1>7

LEMMA PairsLater ==
  ASSUME NEW t, NEW g, NEW u, NEW h, Later(t, g, u, h), PairsRight(t, g), UNCHANGED registers
  PROVE  PairsRight(u, h)'
<1>1. key' = key /\ reg_dfa' = reg_dfa /\ addr' = addr BY DEF registers
<1>2. addr \in [Level -> [Bucket -> [Slot -> Addresses(u)]]]
  <2>1. Addresses(t) \subseteq Addresses(u) BY DEF Later, Addresses
  <2>2. addr \in [Level -> [Bucket -> [Slot -> Addresses(t)]]] BY DEF PairsRight
  <2>q. QED BY <2>1, <2>2
<1>3. \A l \in Level, b \in Bucket, p \in Position : Belongs(u, h, b, key[l][b][p], AddrAt(l, b, p))
  BY BelongsLater, LoadedShape DEF PairsRight
<1>q. QED BY <1>1, <1>2, <1>3 DEF PairsRight, AddrAt

LEMMA InsertRight ==
  ASSUME LevelsInv, NEW g, Shape(tree, g, Key, 0), Len(tree.node) >= Len(LoadedTree.node),
         AddressesRight(tree, g), NEW th \in Thread, HandleInsert(th)
  PROVE  \E h : Shape(tree', h, Key, 0) /\ Len(tree'.node) >= Len(LoadedTree.node) /\ AddressesRight(tree, h)'
<1>1. PICK p : p = pkt[th] OBVIOUS
<1>2. PICK t : t = tree OBVIOUS
<1>3. PICK u : u = tree' OBVIOUS
<1>4. PICK k : k = p.key OBVIOUS
<1>5. PacketOK(p) /\ k \in Key /\ PacketsOK
  BY <1>1, <1>4 DEF LevelsInv, PacketsOK, PacketOK, HandleInsert
<1>6. u = insert(t, k, k) BY <1>1, <1>2, <1>3, <1>4 DEF HandleInsert, RecordOf
<1>7. PICK h : Shape(u, h, Key, 0) /\ Later(t, g, u, h) BY <1>2, <1>5, <1>6, InsertLater
<1>8. Len(u.node) >= Len(LoadedTree.node)
  <2>1. PICK x : x = Len(t.node) OBVIOUS
  <2>2. PICK y : y = Len(u.node) OBVIOUS
  <2>3. PICK z : z = Len(LoadedTree.node) OBVIOUS
  <2>4. x \in Nat /\ y \in Nat /\ z \in Nat /\ x >= z /\ y >= x BY <2>1, <2>2, <2>3, <1>7, LoadedShape DEF Later
  <2>5. y >= z BY <2>4
  <2>q. QED BY <2>2, <2>3, <2>5
<1>9. PICK q : q = [p EXCEPT !.at = "ingress1", !.type = InsertBack] OBVIOUS
<1>10. pkt' = [pkt EXCEPT ![th] = q] /\ UNCHANGED registers BY <1>1, <1>9 DEF HandleInsert
<1>11. \A v \in Thread : PathRight(u, h, pkt[v])
  <2> SUFFICES ASSUME NEW v \in Thread PROVE PathRight(u, h, pkt[v]) OBVIOUS
  <2>1. PICK r : r = pkt[v] OBVIOUS
  <2>2. PacketOK(r) /\ PathRight(t, g, r) BY <2>1, <1>2, <1>5 DEF PacketsOK, AddressesRight
  <2>3. PathRight(u, h, r) BY <2>2, <1>7, LoadedShape, PathLater
  <2>q. QED BY <2>1, <2>3
<1>12. PathRight(u, h, q)
  <2>1. PathRight(u, h, p) BY <1>1, <1>11
  <2>q. QED BY <2>1, <1>5, <1>9, InsertBackRight
<1>13. \A v \in Thread : PathRight(u, h, pkt'[v]) BY <1>5, <1>10, <1>11, <1>12, PathsMoved
<1>14. PairsRight(u, h)'
  <2>1. PairsRight(t, g) BY <1>2 DEF AddressesRight
  <2>q. QED BY <2>1, <1>7, <1>10, PairsLater
<1>15. AddressesRight(u, h)' BY <1>13, <1>14 DEF AddressesRight
<1>16. AddressesRight(tree, h)' BY <1>3, <1>15
<1>q. QED BY <1>3, <1>7, <1>8, <1>16

-----------------------------------------------------------------------------
LEMMA LeavesInit == IndexInit => LeavesInv
<1> SUFFICES ASSUME IndexInit PROVE LeavesInv OBVIOUS
<1>1. PICK g : Shape(LoadedTree, g, Key, 0) BY LoadedShape
<1>2. tree = LoadedTree BY DEF IndexInit
<1>3. PICK t : t = tree OBVIOUS
<1>4. addr \in [Level -> [Bucket -> [Slot -> Addresses(t)]]] BY DEF IndexInit, Addresses
<1>5. \A l \in Level, b \in Bucket, s \in Slot : addr[l][b][s] = NULL BY DEF IndexInit
<1>6. \A l \in Level, b \in Bucket, p \in Position : AddrAt(l, b, p) = NULL BY <1>5, SlotType DEF AddrAt
<1>7. PairsRight(t, g) BY <1>4, <1>6 DEF PairsRight, Belongs, Leads
<1>8. PathRight(t, g, Idle) BY DEF PathRight, Addresses, Idle, Read, ReadBack, InsertBack
<1>9. \A u \in Thread : PathRight(t, g, pkt[u]) BY <1>8 DEF IndexInit
<1>10. AddressesRight(tree, g) BY <1>3, <1>7, <1>9 DEF AddressesRight
<1>11. LevelsInv BY LevelsInit
<1>12. Len(tree.node) >= Len(LoadedTree.node) BY <1>2, LoadedShape
<1>q. QED BY <1>1, <1>2, <1>10, <1>11, <1>12 DEF LeavesInv

LEMMA LeavesInductive ==
  ASSUME FingerprintsDiffer
  PROVE  LeavesInv /\ [IndexNext]_vars => LeavesInv'
<1> SUFFICES ASSUME LeavesInv, [IndexNext]_vars PROVE LeavesInv' OBVIOUS
<1>1. LevelsInv /\ LevelsInv' BY LevelsInductive DEF LeavesInv
<1>2. PICK g : Shape(tree, g, Key, 0) /\ Len(tree.node) >= Len(LoadedTree.node) /\ AddressesRight(tree, g)
  BY DEF LeavesInv
<1>3. PacketsOK BY <1>1 DEF LevelsInv
<1>4. PICK t : t = tree OBVIOUS
<1>5. ASSUME tree' = tree, AddressesRight(t, g)' PROVE LeavesInv'
  <2>1. AddressesRight(tree, g)' BY <1>4, <1>5
  <2>q. QED BY <2>1, <1>1, <1>2, <1>5 DEF LeavesInv
<1>6. AddressesRight(t, g) BY <1>2, <1>4
<1>7. CASE UNCHANGED vars
  <2>1. AddressesRight(t, g)' BY <1>6, <1>7 DEF vars, AddressesRight, PairsRight, AddrAt
  <2>q. QED BY <2>1, <1>5, <1>7 DEF vars
<1>8. ASSUME NEW th \in Thread, Start(th) PROVE LeavesInv'
  <2>1. PICK type \in {Read, Insert}, k \in Key : Request(th, type, k) /\ UNCHANGED registers /\ tree' = tree
    BY <1>8, IndexAssumption DEF Start, ReadStart, InsertStart
  <2>2. AddressesRight(t, g)' BY <2>1, <1>3, <1>6, StartRight
  <2>q. QED BY <2>1, <2>2, <1>5
<1>9. ASSUME NEW th \in Thread, Lose(th) PROVE LeavesInv'
  <2>1. AddressesRight(t, g)' BY <1>3, <1>6, <1>9, LoseRight
  <2>q. QED BY <2>1, <1>5, <1>9 DEF Lose
<1>10. ASSUME NEW th \in Thread, Ingress1(th) PROVE LeavesInv'
  <2>1. AddressesRight(t, g)' BY <1>1, <1>6, <1>10, IngressOneRight
  <2>q. QED BY <2>1, <1>5, <1>10 DEF Ingress1
<1>11. ASSUME NEW th \in Thread, Ingress2(th) PROVE LeavesInv'
  <2>1. AddressesRight(t, g)' BY <1>1, <1>6, <1>11, IngressTwoRight
  <2>q. QED BY <2>1, <1>5, <1>11 DEF Ingress2
<1>12. ASSUME NEW th \in Thread, HandleQuery(th) PROVE LeavesInv'
  <2>1. UNCHANGED <<tree, registers>> /\ \E q : pkt' = [pkt EXCEPT ![th] = q] /\ PathRight(tree, g, q)
    BY <1>2, <1>3, <1>12, QueryRight
  <2>2. PICK q : pkt' = [pkt EXCEPT ![th] = q] /\ PathRight(t, g, q) BY <2>1, <1>4
  <2>3. AddressesRight(t, g)' BY <2>1, <2>2, <1>3, <1>6, ForwardRight
  <2>q. QED BY <2>1, <2>3, <1>5
<1>13. ASSUME NEW th \in Thread, HandleInsert(th) PROVE LeavesInv'
  <2>1. PICK h : Shape(tree', h, Key, 0) /\ Len(tree'.node) >= Len(LoadedTree.node) /\ AddressesRight(tree, h)'
    BY <1>1, <1>2, <1>13, InsertRight
  <2>q. QED BY <2>1, <1>1 DEF LeavesInv
<1>q. QED BY <1>7, <1>8, <1>9, <1>10, <1>11, <1>12, <1>13 DEF IndexNext, Move

LEMMA LeavesInvCached == LeavesInv => CachedLeavesRight
<1> SUFFICES ASSUME LeavesInv PROVE CachedLeavesRight OBVIOUS
<1>1. PICK g : PairsRight(tree, g) BY DEF LeavesInv, AddressesRight
<1>2. addr \in [Level -> [Bucket -> [Slot -> DOMAIN tree.node \cup {NULL}]]] BY <1>1 DEF PairsRight, Addresses
<1>3. ASSUME Unsplit, NEW l \in Level, NEW b \in Bucket, NEW p \in Position, NEW k \in Key,
             index[k] = b, key[l][b][p] = fp[k], AddrAt(l, b, p) # NULL
      PROVE  AddrAt(l, b, p) = LeafFor(tree, k, NULL)
  <2>1. Whole(tree) BY <1>3 DEF Unsplit, Whole
  <2>2. Belongs(tree, g, b, fp[k], AddrAt(l, b, p)) BY <1>1, <1>3 DEF PairsRight
  <2>3. Leads(tree, g, k, AddrAt(l, b, p)) BY <2>2, <1>3 DEF Belongs
  <2>q. QED BY <2>1, <2>3, <1>3 DEF Leads
<1>q. QED BY <1>2, <1>3 DEF CachedLeavesRight

LEMMA LeavesInvReads == LeavesInv => ReadsFaithful
<1> SUFFICES ASSUME LeavesInv, NEW u \in Thread, pkt[u].type = ReadBack
             PROVE  pkt[u].val \in {pkt[u].truth, Empty} /\ (Unsplit => pkt[u].val = pkt[u].truth)
  BY DEF ReadsFaithful, ReadsCorrectUntilSplit, ReadsCorrect, ReadsOwnOrNothing
<1>1. PICK g : PathRight(tree, g, pkt[u]) BY DEF LeavesInv, AddressesRight
<1>q. QED BY <1>1 DEF PathRight, Unsplit, Whole

(* However packets of different threads overtake each other or get lost,    *)
(* and whatever is demoted from level 1 to level 2: no address comes apart  *)
(* from the key it was cached for, as long as keys of a bucket differ in    *)
(* their fingerprints; it is the leaf of that key until a leaf is split.    *)
THEOREM LeavesCachedRight == FingerprintsDiffer => (IndexSpec => []CachedLeavesRight)
<1> SUFFICES ASSUME FingerprintsDiffer PROVE IndexSpec => []CachedLeavesRight OBVIOUS
<1>1. LeavesInv /\ [IndexNext]_vars => LeavesInv' BY LeavesInductive
<1>q. QED BY <1>1, LeavesInit, LeavesInvCached, PTL DEF IndexSpec

(* A read returns the latest record until a leaf is split, and from then on *)
(* its own record or nothing, through any cached address.                   *)
THEOREM ReadsAreFaithful == FingerprintsDiffer => (IndexSpec => []ReadsFaithful)
<1> SUFFICES ASSUME FingerprintsDiffer PROVE IndexSpec => []ReadsFaithful OBVIOUS
<1>1. LeavesInv /\ [IndexNext]_vars => LeavesInv' BY LeavesInductive
<1>q. QED BY <1>1, LeavesInit, LeavesInvReads, PTL DEF IndexSpec
=============================================================================
