----------------------- MODULE LRUTablePipelineProofs -----------------------
(***************************************************************************)
(* The staged pipeline implements the atomic switch, for every set of      *)
(* keys and buckets, every hash function and any number of packets.        *)
(*                                                                         *)
(* The switch's state is that of the registers when the packets inside     *)
(* have left.  A packet that enters behind them finds, at each stage, the  *)
(* registers as those packets leave them: Behind compares the pipeline     *)
(* without it, m, with the pipeline with it, n, while it goes through the  *)
(* stages.                                                                 *)
(***************************************************************************)
EXTENDS LRUTablePipeline, P4LRUProofs

Phvs == [type : {Query, QueryBack, NoType}, key : Key, value : Key, evt : Key,
         dfa_tsm : 0..4, dfa_sta : DfaState, cached : Key]

Typed(m) ==
  /\ \A p \in Position : m.key[p] \in [Bucket -> Key]
  /\ m.reg_dfa \in [Bucket -> DfaState]
  /\ \A s \in Slot : m.value[s] \in [Bucket -> Key]
  /\ \A i \in Stage : m.pipe[i] \in Phvs

C(m) == Clock(m, Bubble)

-----------------------------------------------------------------------------
(* One tick, field by field *)
LEMMA ClockFields ==
  ASSUME NEW m, NEW in
  PROVE  LET c == Clock(m, in)
         IN  /\ \A p \in Position : c.key[p] = KeyReg(m, p)
             /\ c.reg_dfa = DfaReg(m)
             /\ \A s \in Slot : c.value[s] = ValueReg(m, s)
             /\ c.out = Emitted(m)
             /\ c.pipe[1] = in
             /\ \A p \in Position : c.pipe[p + 1] = KeyPhv(m, p)
             /\ c.pipe[5] = DfaPhv(m)
             /\ c.pipe[6] = ValuePhv(m, 5)
BY DEF Clock, Position, Slot

LEMMA BubbleType == Bubble \in Phvs /\ Bubble.type = NoType
BY KeyAssumption DEF Bubble, Phv, Phvs, DfaState, Cleared

LEMMA InputType ==
  ASSUME NEW in \in Input
  PROVE  /\ in \in Phvs /\ in.type \in {Query, QueryBack}
         /\ in.dfa_tsm = 0 /\ in.cached = 0 /\ key_hash[in.key] \in Bucket
         /\ in.type = Query => in.value = 0
         /\ in.type = QueryBack => in.value = in.key
BY KeyAssumption, HashAssumption
   DEF Input, Phv, Phvs, DfaState, Cleared, Query, QueryBack, NoType

(* The types *)
LEMMA KeyStageType ==
  ASSUME NEW m, Typed(m), NEW p \in Position
  PROVE  KeyReg(m, p) \in [Bucket -> Key] /\ KeyPhv(m, p) \in Phvs
<1> DEFINE h == m.pipe[p]
<1>1. h \in Phvs /\ m.key[p] \in [Bucket -> Key] BY DEF Typed, Stage, Position
<1>2. h.key \in Key /\ h.evt \in Key BY <1>1 DEF Phvs
<1>3. Index(h) \in Bucket BY <1>2, HashAssumption DEF Index
<1>4. KeyReg(m, p) \in [Bucket -> Key] BY <1>1, <1>2, <1>3 DEF KeyReg
<1>5. KeyPhv(m, p) \in Phvs
  <2>1. m.key[p][Index(h)] \in Key BY <1>1, <1>3
  <2> DEFINE found == IF m.key[p][Index(h)] = h.key THEN p ELSE IF p = 3 THEN 4 ELSE 0
  <2>2. found \in 0..4 BY DEF Position
  <2>3. KeyPhv(m, p) = IF h.type # NoType /\ h.dfa_tsm = 0
                       THEN [h EXCEPT !.evt = m.key[p][Index(h)], !.dfa_tsm = found] ELSE h
    BY DEF KeyPhv
  <2> HIDE DEF found, h
  <2>q. QED BY <1>1, <2>1, <2>2, <2>3 DEF Phvs
<1>q. QED BY <1>4, <1>5

LEMMA DfaStageType ==
  ASSUME NEW m, Typed(m), m.pipe[4].type = Query => m.pipe[4].dfa_tsm # 0
  PROVE  DfaReg(m) \in [Bucket -> DfaState] /\ DfaPhv(m) \in Phvs
<1> DEFINE h == m.pipe[4]
<1>1. h \in Phvs /\ m.reg_dfa \in [Bucket -> DfaState] BY DEF Typed, Stage
<1>2. Index(h) \in Bucket BY <1>1, HashAssumption DEF Index, Phvs
<1>3. h.type = Query => DfaNext(h.dfa_tsm, m.reg_dfa[Index(h)]) \in DfaState
  BY <1>1, <1>2, DfaClosed DEF Phvs
<1>4. DfaReg(m) \in [Bucket -> DfaState] BY <1>1, <1>2, <1>3 DEF DfaReg
<1>5. DfaReg(m)[Index(h)] \in DfaState BY <1>2, <1>4
<1>q. QED BY <1>1, <1>4, <1>5 DEF DfaPhv, Phvs

LEMMA ValueStageType ==
  ASSUME NEW m, Typed(m), NEW s \in Slot, NEW i \in {5, 6}
  PROVE  ValueReg(m, s) \in [Bucket -> Key] /\ ValuePhv(m, i) \in Phvs
<1>1. m.value[s] \in [Bucket -> Key] BY DEF Typed
<1>2. ValueStage[s] \in Stage BY DEF ValueStage, Stage, Slot
<1>3. m.pipe[ValueStage[s]] \in Phvs /\ m.pipe[i] \in Phvs BY <1>2 DEF Typed, Stage
<1>4. Index(m.pipe[i]) \in Bucket BY <1>3, HashAssumption DEF Index, Phvs
<1>5. ValueReg(m, s) \in [Bucket -> Key]
  BY <1>1, <1>3, KeyAssumption DEF ValueReg, Phvs, Cleared
<1>6. ValuePhv(m, i) \in Phvs
  <2> DEFINE slot == QuerySlot(m.pipe[i].dfa_sta)
  <2>1. slot \in Slot BY DEF QuerySlot, Slot
  <2>2. m.value[slot][Index(m.pipe[i])] \in Key BY <1>4, <2>1 DEF Typed
  <2>q. QED BY <1>3, <2>2 DEF ValuePhv, Phvs
<1>q. QED BY <1>5, <1>6

(* A query that has passed the key stages has found its key or missed it.   *)
Resolved(m) == m.pipe[4].type # NoType => m.pipe[4].dfa_tsm # 0

LEMMA ClockType ==
  ASSUME NEW m, Typed(m), Resolved(m), NEW in \in Phvs
  PROVE  Typed(Clock(m, in)) /\ Resolved(Clock(m, in))
<1> DEFINE c == Clock(m, in)
<1> HIDE DEF c
<1>1. \A p \in Position : c.key[p] \in [Bucket -> Key] BY ClockFields, KeyStageType DEF c
<1>2. m.pipe[4].type = Query => m.pipe[4].dfa_tsm # 0 BY DEF Resolved, Query, NoType
<1>3. c.reg_dfa \in [Bucket -> DfaState] /\ c.pipe[5] \in Phvs
  BY <1>2, ClockFields, DfaStageType DEF c
<1>4. \A s \in Slot : c.value[s] \in [Bucket -> Key] BY ClockFields, ValueStageType DEF c
<1>5. c.pipe[6] \in Phvs
  <2>1. 1 \in Slot BY DEF Slot
  <2>q. QED BY <2>1, ClockFields, ValueStageType DEF c
<1>6. /\ c.pipe[1] \in Phvs
      /\ c.pipe[2] \in Phvs /\ c.pipe[3] \in Phvs /\ c.pipe[4] = KeyPhv(m, 3) /\ c.pipe[4] \in Phvs
  <2>1. c.pipe[1] \in Phvs BY ClockFields DEF c
  <2>2. \A p \in Position : c.pipe[p + 1] = KeyPhv(m, p) /\ KeyPhv(m, p) \in Phvs
    BY ClockFields, KeyStageType DEF c
  <2>3. 1 \in Position /\ 2 \in Position /\ 3 \in Position BY DEF Position
  <2>4. 1 + 1 = 2 /\ 2 + 1 = 3 /\ 3 + 1 = 4 OBVIOUS
  <2>q. QED BY <2>1, <2>2, <2>3, <2>4
<1>7. Resolved(c)
  <2>1. m.pipe[3] \in Phvs BY DEF Typed, Stage
  <2>q. QED BY <1>6, <2>1 DEF Resolved, KeyPhv, Phvs
<1>8. \A i \in Stage : i = 1 \/ i = 2 \/ i = 3 \/ i = 4 \/ i = 5 \/ i = 6 BY DEF Stage
<1>9. Typed(c) BY <1>1, <1>3, <1>4, <1>5, <1>6, <1>8 DEF Typed
<1>q. QED BY <1>7, <1>9 DEF c
-----------------------------------------------------------------------------
(* A stage that holds the same packet and the same register does the same;  *)
(* a stage without a packet does nothing.                                   *)
Empty(m, i) == m.pipe[i].type = NoType

LEMMA SameKeyStage ==
  ASSUME NEW m, NEW n, NEW p, n.pipe[p] = m.pipe[p], n.key[p] = m.key[p]
  PROVE  KeyReg(n, p) = KeyReg(m, p) /\ KeyPhv(n, p) = KeyPhv(m, p)
BY DEF KeyReg, KeyPhv

LEMMA EmptyKeyStage ==
  ASSUME NEW m, NEW p, Empty(m, p)
  PROVE  KeyReg(m, p) = m.key[p] /\ KeyPhv(m, p) = m.pipe[p]
BY DEF Empty, KeyReg, KeyPhv, Query, NoType

LEMMA SameDfaStage ==
  ASSUME NEW m, NEW n, n.pipe[4] = m.pipe[4], n.reg_dfa = m.reg_dfa
  PROVE  DfaReg(n) = DfaReg(m) /\ DfaPhv(n) = DfaPhv(m)
BY DEF DfaReg, DfaPhv

LEMMA EmptyDfaStage ==
  ASSUME NEW m, Empty(m, 4)
  PROVE  DfaReg(m) = m.reg_dfa /\ DfaPhv(m) = m.pipe[4]
BY DEF Empty, DfaReg, DfaPhv, Query, NoType

LEMMA SameValueStage ==
  ASSUME NEW m, NEW n, NEW i, n.pipe[i] = m.pipe[i],
         \A s \in Slot : ValueStage[s] = i => n.value[s] = m.value[s]
  PROVE  /\ \A s \in Slot : ValueStage[s] = i => ValueReg(n, s) = ValueReg(m, s)
         /\ ValuePhv(n, i) = ValuePhv(m, i)
<1>1. QuerySlot(m.pipe[i].dfa_sta) \in Slot BY DEF QuerySlot, Slot
<1>2. ValuePhv(n, i) = ValuePhv(m, i) BY <1>1 DEF ValuePhv
<1>3. \A s \in Slot : ValueStage[s] = i => ValueReg(n, s) = ValueReg(m, s) BY DEF ValueReg
<1>q. QED BY <1>2, <1>3

LEMMA EmptyValueStage ==
  ASSUME NEW m, NEW i, Empty(m, i)
  PROVE  /\ \A s \in Slot : ValueStage[s] = i => ValueReg(m, s) = m.value[s]
         /\ ValuePhv(m, i) = m.pipe[i]
<1>1. m.pipe[i].type # Query /\ m.pipe[i].type # QueryBack BY DEF Empty, Query, QueryBack, NoType
<1>q. QED BY <1>1 DEF ValueReg, ValuePhv

-----------------------------------------------------------------------------
(* The registers of the stages up to j are settled: nothing more is to come *)
(* for them.                                                                *)
Vacant(m, j) == \A i \in 1..j : Empty(m, i)
Settled(m, F, j) ==
  /\ \A p \in Position : p <= j => m.key[p] = F.key[p]
  /\ 4 <= j => m.reg_dfa = F.reg_dfa
  /\ \A s \in Slot : ValueStage[s] <= j => m.value[s] = F.value[s]
  /\ 6 <= j => m.out = F.out

LEMMA Settles ==
  ASSUME NEW m, NEW j \in 0..6, Vacant(m, j)
  PROVE  /\ j < 6 => Vacant(C(m), j + 1)
         /\ j = 6 => Vacant(C(m), 6)
         /\ Settled(C(m), m, j)
<1> DEFINE c == C(m)
<1>1. /\ \A p \in Position : c.key[p] = KeyReg(m, p)
      /\ c.reg_dfa = DfaReg(m)
      /\ \A s \in Slot : c.value[s] = ValueReg(m, s)
      /\ c.out = Emitted(m)
      /\ c.pipe[1] = Bubble
      /\ \A p \in Position : c.pipe[p + 1] = KeyPhv(m, p)
      /\ c.pipe[5] = DfaPhv(m)
      /\ c.pipe[6] = ValuePhv(m, 5)
  BY ClockFields DEF C
<1> HIDE DEF c
<1>2. Empty(c, 1) BY <1>1, BubbleType DEF Empty
<1>3. \A p \in Position : p <= j => c.key[p] = m.key[p] /\ Empty(c, p + 1)
  <2> SUFFICES ASSUME NEW p \in Position, p <= j PROVE c.key[p] = m.key[p] /\ Empty(c, p + 1)
    OBVIOUS
  <2>1. Empty(m, p) BY DEF Vacant, Position
  <2>q. QED BY <1>1, <2>1, EmptyKeyStage DEF Empty
<1>4. 4 <= j => c.reg_dfa = m.reg_dfa /\ Empty(c, 5)
  <2>1. 4 <= j => Empty(m, 4) BY DEF Vacant
  <2>q. QED BY <1>1, <2>1, EmptyDfaStage DEF Empty
<1>5. \A s \in Slot : ValueStage[s] <= j => c.value[s] = m.value[s]
  <2> SUFFICES ASSUME NEW s \in Slot, ValueStage[s] <= j PROVE c.value[s] = m.value[s]
    OBVIOUS
  <2>1. ValueStage[s] \in 1..j BY DEF ValueStage, Slot
  <2>2. Empty(m, ValueStage[s]) BY <2>1 DEF Vacant
  <2>q. QED BY <1>1, <2>2, EmptyValueStage
<1>6. 5 <= j => Empty(c, 6)
  <2>1. 5 <= j => Empty(m, 5) BY DEF Vacant
  <2>q. QED BY <1>1, <2>1, EmptyValueStage DEF Empty
<1>7. 6 <= j => c.out = m.out
  <2>1. 6 <= j => Empty(m, 6) BY DEF Vacant
  <2>2. 6 <= j => ValuePhv(m, 6) = m.pipe[6] BY <2>1, EmptyValueStage
  <2>q. QED BY <1>1, <2>1, <2>2 DEF Emitted, Empty, Query, QueryBack, NoType
<1>8. Settled(c, m, j) BY <1>3, <1>4, <1>5, <1>7 DEF Settled
<1>9. \A i \in 1..6 : i <= j + 1 => Empty(c, i)
  <2> SUFFICES ASSUME NEW i \in 1..6, i <= j + 1 PROVE Empty(c, i)
    OBVIOUS
  <2>1. CASE i = 1 BY <1>2, <2>1
  <2>2. CASE i \in 2..4
    <3>1. i - 1 \in Position /\ i - 1 <= j /\ (i - 1) + 1 = i BY <2>2 DEF Position
    <3>q. QED BY <1>3, <3>1
  <2>3. CASE i = 5 BY <1>4, <2>3
  <2>4. CASE i = 6 BY <1>6, <2>4
  <2>q. QED BY <2>1, <2>2, <2>3, <2>4
<1>10. j < 6 => Vacant(c, j + 1) BY <1>9 DEF Vacant
<1>11. j = 6 => Vacant(c, 6) BY <1>9 DEF Vacant
<1>q. QED BY <1>8, <1>10, <1>11 DEF c

-----------------------------------------------------------------------------
(* The packet in, which enters behind packets that leave the registers F:   *)
(* what it carries in front of stage j and what it writes.                  *)
Home(in) == key_hash[in.key]
Column(F, b) == [p \in 1..3 |-> F.key[p][b]]
Found(F, in) == Tsm(Column(F, Home(in)), in.key)
State(F, in) == LET sta == F.reg_dfa[Home(in)]
                IN  IF in.type = Query THEN DfaNext(Found(F, in), sta) ELSE sta
NewKey(F, in, p) == IF in.type = Query THEN InsertKey(Column(F, Home(in)), in.key)[p]
                    ELSE F.key[p][Home(in)]
NewValue(F, in, s) ==
  IF in.type = Query /\ Found(F, in) = 4 /\ s = QuerySlot(State(F, in)) THEN 0
  ELSE IF in.type = QueryBack /\ Found(F, in) # 4 /\ s = ReplaceSlot(Found(F, in), State(F, in))
  THEN in.value
  ELSE F.value[s][Home(in)]
Read(F, in, j) ==
  LET slot == QuerySlot(State(F, in))
  IN  IF in.type = Query /\ Found(F, in) # 4 /\ ValueStage[slot] < j THEN F.value[slot][Home(in)]
      ELSE 0

Carried(h, F, in, j) ==
  /\ h \in Phvs
  /\ h.type = in.type /\ h.key = in.key /\ h.value = in.value
  /\ h.dfa_tsm = IF j <= 3 /\ Found(F, in) >= j THEN 0 ELSE Found(F, in)
  /\ (j \in 2..3 /\ Found(F, in) >= j) => h.evt = Column(F, Home(in))[j - 1]
  /\ j >= 5 => h.dfa_sta = State(F, in)
  /\ h.cached = Read(F, in, j)

LEMMA EntersCarried ==
  ASSUME NEW F, NEW in \in Input
  PROVE  Carried(in, F, in, 1)
<1>1. Found(F, in) \in 1..4 BY TsmType DEF Found
<1>2. ValueStage[QuerySlot(State(F, in))] \in {5, 6} BY DEF QuerySlot, ValueStage
<1>3. Read(F, in, 1) = 0 BY <1>2 DEF Read
<1>q. QED BY <1>1, <1>3, InputType DEF Carried

(* A key stage *)
LEMMA CarriedThroughKey ==
  ASSUME NEW F, Typed(F), NEW in \in Input, NEW n, NEW p \in Position,
         Carried(n.pipe[p], F, in, p), n.key[p] = F.key[p]
  PROVE  /\ KeyReg(n, p) = [F.key[p] EXCEPT ![Home(in)] = NewKey(F, in, p)]
         /\ Carried(KeyPhv(n, p), F, in, p + 1)
<1> DEFINE h == n.pipe[p]
           b == Home(in)
           ks == Column(F, b)
           t == Found(F, in)
<1>1. h \in Phvs /\ h.type = in.type /\ h.key = in.key /\ h.value = in.value
  BY DEF Carried
<1>2. b \in Bucket /\ Index(h) = b /\ h.type # NoType
  BY <1>1, InputType DEF Home, Index, Query, QueryBack, NoType
<1>3. t \in 1..4 /\ t = Tsm(ks, in.key) BY TsmType DEF Found
<1>4. F.key[p] \in [Bucket -> Key] /\ ks[p] = F.key[p][b] BY DEF Typed, Column, Position
<1>5. h.dfa_tsm = IF t >= p THEN 0 ELSE t BY DEF Carried, Position
<1>6. p \in {2, 3} /\ t >= p => h.evt = ks[p - 1] BY DEF Carried
<1>7. t >= p => (ks[p] = in.key <=> t = p) /\ (p = 3 /\ ks[p] # in.key => t = 4)
  BY <1>3, TsmCases DEF Position
<1>8. Read(F, in, p + 1) = 0 /\ h.cached = 0
  <2>1. ValueStage[QuerySlot(State(F, in))] \in {5, 6} BY DEF QuerySlot, ValueStage
  <2>2. Read(F, in, p) = 0 /\ Read(F, in, p + 1) = 0 BY <2>1 DEF Read, Position
  <2>q. QED BY <2>2 DEF Carried
<1>9. InsertKey(ks, in.key)[p] = IF p = 1 THEN in.key ELSE IF p <= t THEN ks[p - 1] ELSE ks[p]
  BY <1>3 DEF InsertKey
<1> HIDE DEF h, b, ks, t
<1>10. CASE t >= p
  <2>1. h.dfa_tsm = 0 BY <1>5, <1>10
  <2>2. KeyReg(n, p) = IF in.type = Query
                       THEN [F.key[p] EXCEPT ![b] = IF p = 1 THEN in.key ELSE h.evt]
                       ELSE F.key[p]
    BY <1>1, <1>2, <2>1 DEF KeyReg, h
  <2>3. in.type = Query => NewKey(F, in, p) = IF p = 1 THEN in.key ELSE h.evt
    BY <1>6, <1>9, <1>10, <1>3 DEF NewKey, Position, b, ks
  <2>4. in.type # Query => NewKey(F, in, p) = F.key[p][b] BY DEF NewKey, b
  <2>5. KeyReg(n, p) = [F.key[p] EXCEPT ![b] = NewKey(F, in, p)]
    BY <2>2, <2>3, <2>4, <1>2, <1>4
  <2> DEFINE tsm == IF ks[p] = in.key THEN p ELSE IF p = 3 THEN 4 ELSE 0
  <2>6. KeyPhv(n, p) = [h EXCEPT !.evt = ks[p], !.dfa_tsm = tsm]
    BY <1>1, <1>2, <1>4, <2>1 DEF KeyPhv, h
  <2>7. tsm = IF p + 1 <= 3 /\ t >= p + 1 THEN 0 ELSE t
    BY <1>3, <1>7, <1>10 DEF Position
  <2>8. tsm \in 0..4 /\ ks[p] \in Key BY <1>4, <1>2 DEF Position
  <2> HIDE DEF tsm
  <2> DEFINE k == KeyPhv(n, p)
  <2>9. /\ k \in Phvs /\ k.type = h.type /\ k.key = h.key /\ k.value = h.value
        /\ k.evt = ks[p] /\ k.dfa_tsm = tsm /\ k.cached = h.cached
    BY <2>6, <2>8, <1>1 DEF Phvs
  <2> HIDE DEF k
  <2>10. (p + 1) - 1 = p BY DEF Position
  <2>11. ~(p + 1 >= 5) BY DEF Position
  <2>12. Carried(k, F, in, p + 1)
    BY <2>7, <2>9, <2>10, <2>11, <1>1, <1>8 DEF Carried, ks, b, t
  <2>q. QED BY <2>5, <2>12 DEF b, k
<1>11. CASE t < p
  <2>1. h.dfa_tsm = t /\ t # 0 BY <1>3, <1>5, <1>11 DEF Position
  <2>2. KeyReg(n, p) = F.key[p] BY <2>1 DEF KeyReg, h
  <2>3. KeyPhv(n, p) = h BY <2>1 DEF KeyPhv, h
  <2>4. NewKey(F, in, p) = F.key[p][b]
    BY <1>3, <1>4, <1>9, <1>11 DEF NewKey, b, ks, Position
  <2>5. KeyReg(n, p) = [F.key[p] EXCEPT ![b] = NewKey(F, in, p)]
    BY <2>2, <2>4, <1>2, <1>4
  <2>6. Carried(h, F, in, p + 1)
    <3>1. ~(t >= p + 1) /\ ~(p + 1 >= 5) BY <1>3, <1>11 DEF Position
    <3>q. QED BY <3>1, <2>1, <1>1, <1>8 DEF Carried, t
  <2>q. QED BY <2>3, <2>5, <2>6 DEF b
<1>q. QED BY <1>3, <1>10, <1>11 DEF Position

(* The stage of the DFA *)
LEMMA CarriedThroughDfa ==
  ASSUME NEW F, Typed(F), NEW in \in Input, NEW n,
         Carried(n.pipe[4], F, in, 4), n.reg_dfa = F.reg_dfa
  PROVE  /\ DfaReg(n) = [F.reg_dfa EXCEPT ![Home(in)] = State(F, in)]
         /\ Carried(DfaPhv(n), F, in, 5)
<1> DEFINE h == n.pipe[4]
           b == Home(in)
           t == Found(F, in)
<1>1. /\ h \in Phvs /\ h.type = in.type /\ h.key = in.key /\ h.value = in.value
      /\ h.dfa_tsm = t /\ h.cached = Read(F, in, 4)
  BY DEF Carried
<1>2. b \in Bucket /\ Index(h) = b /\ h.type # NoType
  BY <1>1, InputType DEF Home, Index, Query, QueryBack, NoType
<1>3. t \in 1..4 BY TsmType DEF Found
<1>4. F.reg_dfa \in [Bucket -> DfaState] BY DEF Typed
<1>5. State(F, in) = (IF in.type = Query THEN DfaNext(t, F.reg_dfa[b]) ELSE F.reg_dfa[b])
  BY DEF State
<1>6. State(F, in) \in DfaState BY <1>2, <1>3, <1>4, <1>5, DfaClosed
<1>7. DfaReg(n) = [F.reg_dfa EXCEPT ![b] = State(F, in)]
  BY <1>1, <1>2, <1>4, <1>5 DEF DfaReg
<1>8. Read(F, in, 5) = Read(F, in, 4)
  <2>1. ValueStage[QuerySlot(State(F, in))] \in {5, 6} BY DEF QuerySlot, ValueStage
  <2>q. QED BY <2>1 DEF Read
<1>9. DfaPhv(n) = [h EXCEPT !.dfa_sta = State(F, in)]
  BY <1>1, <1>2, <1>4, <1>7 DEF DfaPhv
<1> DEFINE k == DfaPhv(n)
<1>10. /\ k \in Phvs /\ k.type = h.type /\ k.key = h.key /\ k.value = h.value
       /\ k.dfa_sta = State(F, in) /\ k.dfa_tsm = h.dfa_tsm /\ k.cached = h.cached
  BY <1>1, <1>6, <1>9 DEF Phvs
<1> HIDE DEF k
<1>11. Carried(k, F, in, 5) BY <1>1, <1>8, <1>10 DEF Carried
<1>q. QED BY <1>7, <1>11 DEF k

(* A stage of values *)
LEMMA CarriedThroughValue ==
  ASSUME NEW F, Typed(F), NEW in \in Input, NEW n, NEW i \in {5, 6},
         Carried(n.pipe[i], F, in, i),
         \A s \in Slot : ValueStage[s] = i => n.value[s] = F.value[s]
  PROVE  /\ \A s \in Slot : ValueStage[s] = i =>
               ValueReg(n, s) = [F.value[s] EXCEPT ![Home(in)] = NewValue(F, in, s)]
         /\ Carried(ValuePhv(n, i), F, in, i + 1)
<1> DEFINE h == n.pipe[i]
           b == Home(in)
           t == Found(F, in)
           sta == State(F, in)
           slot == QuerySlot(sta)
<1>1. /\ h \in Phvs /\ h.type = in.type /\ h.key = in.key /\ h.value = in.value
      /\ h.dfa_tsm = t /\ h.dfa_sta = sta /\ h.cached = Read(F, in, i)
  BY DEF Carried
<1>2. b \in Bucket /\ Index(h) = b BY <1>1, InputType DEF Home, Index
<1>3. slot \in Slot /\ ValueStage[slot] \in {5, 6} BY DEF QuerySlot, Slot, ValueStage
<1>4. ASSUME NEW s \in Slot, ValueStage[s] = i
      PROVE  ValueReg(n, s) = [F.value[s] EXCEPT ![b] = NewValue(F, in, s)]
  <2>1. F.value[s] \in [Bucket -> Key] /\ n.value[s] = F.value[s] BY <1>4 DEF Typed
  <2>2. CASE in.type = Query /\ t = 4 /\ s = slot
    <3>1. ValueReg(n, s) = [n.value[s] EXCEPT ![b] = 0]
      BY <1>1, <1>2, <1>4, <2>2 DEF ValueReg
    <3>q. QED BY <3>1, <2>1, <2>2 DEF NewValue
  <2>3. CASE in.type = QueryBack /\ t # 4 /\ s = ReplaceSlot(t, sta)
    <3>1. ValueReg(n, s) = [n.value[s] EXCEPT ![b] = in.value]
      BY <1>1, <1>2, <1>4, <2>3 DEF ValueReg, Query, QueryBack
    <3>q. QED BY <3>1, <2>1, <2>3 DEF NewValue, Query, QueryBack
  <2>4. CASE /\ ~(in.type = Query /\ t = 4 /\ s = slot)
             /\ ~(in.type = QueryBack /\ t # 4 /\ s = ReplaceSlot(t, sta))
    <3>1. ValueReg(n, s) = n.value[s] BY <1>1, <1>4, <2>4 DEF ValueReg
    <3>2. NewValue(F, in, s) = F.value[s][b] BY <2>4 DEF NewValue
    <3>q. QED BY <3>1, <3>2, <2>1, <1>2
  <2>q. QED BY <2>2, <2>3, <2>4
<1>5. CASE in.type = Query /\ t # 4 /\ ValueStage[slot] = i
  <2>1. ValuePhv(n, i) = [h EXCEPT !.cached = F.value[slot][b]]
    BY <1>1, <1>2, <1>3, <1>5 DEF ValuePhv
  <2>2. F.value[slot][b] \in Key BY <1>2, <1>3 DEF Typed
  <2>3. Read(F, in, i + 1) = F.value[slot][b] BY <1>5 DEF Read
  <2> DEFINE k == ValuePhv(n, i)
  <2>4. /\ k \in Phvs /\ k.type = h.type /\ k.key = h.key /\ k.value = h.value
        /\ k.dfa_sta = h.dfa_sta /\ k.dfa_tsm = h.dfa_tsm /\ k.cached = F.value[slot][b]
    BY <1>1, <2>1, <2>2 DEF Phvs
  <2> HIDE DEF k
  <2>5. Carried(k, F, in, i + 1) BY <1>1, <2>3, <2>4 DEF Carried
  <2>q. QED BY <1>4, <2>5 DEF k
<1>6. CASE ~(in.type = Query /\ t # 4 /\ ValueStage[slot] = i)
  <2>1. ValuePhv(n, i) = h BY <1>1, <1>6 DEF ValuePhv
  <2>2. Read(F, in, i + 1) = Read(F, in, i) BY <1>3, <1>6 DEF Read
  <2>3. Carried(h, F, in, i + 1) BY <1>1, <2>2 DEF Carried
  <2>q. QED BY <1>4, <2>1, <2>3
<1>q. QED BY <1>5, <1>6

-----------------------------------------------------------------------------
(* The pipeline n has the packet in front of stage j, the pipeline m has    *)
(* not; the registers m leads to are those of F.                            *)
Behind(m, n, F, in, j) ==
  /\ \A i \in Stage : i # j => n.pipe[i] = m.pipe[i]
  /\ j <= 6 => Carried(n.pipe[j], F, in, j)
  /\ \A p \in Position :
        n.key[p] = IF p < j THEN [F.key[p] EXCEPT ![Home(in)] = NewKey(F, in, p)] ELSE m.key[p]
  /\ n.reg_dfa = IF 4 < j THEN [F.reg_dfa EXCEPT ![Home(in)] = State(F, in)] ELSE m.reg_dfa
  /\ \A s \in Slot :
        n.value[s] = IF ValueStage[s] < j THEN [F.value[s] EXCEPT ![Home(in)] = NewValue(F, in, s)]
                     ELSE m.value[s]

LEMMA StaysBehind ==
  ASSUME NEW F, Typed(F), NEW in \in Input, NEW m, NEW n, NEW j \in 1..6,
         Vacant(m, j), Settled(m, F, j), Behind(m, n, F, in, j)
  PROVE  Behind(C(m), C(n), F, in, j + 1)
<1> DEFINE c == C(m)
           d == C(n)
<1>1. /\ \A p \in Position : c.key[p] = KeyReg(m, p) /\ c.pipe[p + 1] = KeyPhv(m, p)
      /\ c.reg_dfa = DfaReg(m) /\ c.pipe[1] = Bubble /\ c.pipe[5] = DfaPhv(m)
      /\ c.pipe[6] = ValuePhv(m, 5)
      /\ \A s \in Slot : c.value[s] = ValueReg(m, s)
  BY ClockFields DEF C
<1>2. /\ \A p \in Position : d.key[p] = KeyReg(n, p) /\ d.pipe[p + 1] = KeyPhv(n, p)
      /\ d.reg_dfa = DfaReg(n) /\ d.pipe[1] = Bubble /\ d.pipe[5] = DfaPhv(n)
      /\ d.pipe[6] = ValuePhv(n, 5)
      /\ \A s \in Slot : d.value[s] = ValueReg(n, s)
  BY ClockFields DEF C
<1> HIDE DEF c, d
<1>3. \A i \in Stage : i < j => Empty(m, i) /\ n.pipe[i] = m.pipe[i] /\ Empty(n, i)
  BY DEF Vacant, Behind, Stage, Empty
<1>4. ASSUME NEW p \in Position
      PROVE  /\ d.key[p] = IF p < j + 1 THEN [F.key[p] EXCEPT ![Home(in)] = NewKey(F, in, p)]
                           ELSE c.key[p]
             /\ p # j => d.pipe[p + 1] = c.pipe[p + 1]
             /\ p = j => Carried(d.pipe[p + 1], F, in, p + 1)
  <2>1. p \in Stage BY DEF Position, Stage
  <2>2. CASE p < j
    <3>1. n.key[p] = [F.key[p] EXCEPT ![Home(in)] = NewKey(F, in, p)] BY <2>2 DEF Behind
    <3>2. d.key[p] = n.key[p] /\ d.pipe[p + 1] = n.pipe[p] BY <1>2, <1>3, <2>1, <2>2, EmptyKeyStage
    <3>3. c.pipe[p + 1] = m.pipe[p] BY <1>1, <1>3, <2>1, <2>2, EmptyKeyStage
    <3>q. QED BY <1>3, <2>1, <2>2, <3>1, <3>2, <3>3 DEF Position
  <2>3. CASE p = j
    <3>1. n.key[p] = F.key[p] BY <2>3 DEF Behind, Settled, Position
    <3>2. Carried(n.pipe[p], F, in, p) BY <2>3 DEF Behind, Position
    <3>q. QED BY <1>2, <2>3, <3>1, <3>2, CarriedThroughKey DEF Position
  <2>4. CASE p > j
    <3>1. n.key[p] = m.key[p] /\ n.pipe[p] = m.pipe[p] BY <2>1, <2>4 DEF Behind, Position
    <3>2. KeyReg(n, p) = KeyReg(m, p) /\ KeyPhv(n, p) = KeyPhv(m, p) BY <3>1, SameKeyStage
    <3>3. ~(p < j + 1) /\ p # j BY <2>4 DEF Position
    <3>q. QED BY <1>1, <1>2, <3>2, <3>3
  <2>q. QED BY <2>2, <2>3, <2>4 DEF Position
<1>5. /\ d.reg_dfa = IF 4 < j + 1 THEN [F.reg_dfa EXCEPT ![Home(in)] = State(F, in)] ELSE c.reg_dfa
      /\ 4 # j => d.pipe[5] = c.pipe[5]
      /\ 4 = j => Carried(d.pipe[5], F, in, 5)
  <2>1. CASE 4 < j
    <3>1. n.reg_dfa = [F.reg_dfa EXCEPT ![Home(in)] = State(F, in)] BY <2>1 DEF Behind
    <3>2. Empty(m, 4) /\ Empty(n, 4) /\ n.pipe[4] = m.pipe[4] BY <1>3, <2>1 DEF Stage
    <3>q. QED BY <1>1, <1>2, <2>1, <3>1, <3>2, EmptyDfaStage
  <2>2. CASE 4 = j
    <3>1. n.reg_dfa = F.reg_dfa BY <2>2 DEF Behind, Settled
    <3>2. Carried(n.pipe[4], F, in, 4) BY <2>2 DEF Behind
    <3>q. QED BY <1>2, <2>2, <3>1, <3>2, CarriedThroughDfa
  <2>3. CASE 4 > j
    <3>1. n.reg_dfa = m.reg_dfa /\ n.pipe[4] = m.pipe[4] BY <2>3 DEF Behind, Stage
    <3>q. QED BY <1>1, <1>2, <2>3, <3>1, SameDfaStage
  <2>q. QED BY <2>1, <2>2, <2>3
<1>6. ASSUME NEW s \in Slot
      PROVE  d.value[s] = IF ValueStage[s] < j + 1
                          THEN [F.value[s] EXCEPT ![Home(in)] = NewValue(F, in, s)] ELSE c.value[s]
  <2> DEFINE i == ValueStage[s]
  <2>1. i \in {5, 6} /\ i \in Stage BY DEF ValueStage, Slot, Stage
  <2>2. CASE i < j
    <3>1. n.value[s] = [F.value[s] EXCEPT ![Home(in)] = NewValue(F, in, s)] BY <2>2 DEF Behind
    <3>2. Empty(n, i) BY <1>3, <2>1, <2>2
    <3>3. d.value[s] = n.value[s] BY <1>2, <3>2, EmptyValueStage
    <3>q. QED BY <2>1, <2>2, <3>1, <3>3
  <2>3. CASE i = j
    <3>1. \A r \in Slot : ValueStage[r] = j => n.value[r] = F.value[r]
      BY DEF Behind, Settled, ValueStage, Slot
    <3>2. Carried(n.pipe[j], F, in, j) BY DEF Behind
    <3>3. ValueReg(n, s) = [F.value[s] EXCEPT ![Home(in)] = NewValue(F, in, s)]
      BY <2>1, <2>3, <3>1, <3>2, CarriedThroughValue
    <3>q. QED BY <1>2, <2>1, <2>3, <3>3
  <2>4. CASE i > j
    <3>1. n.pipe[i] = m.pipe[i] BY <2>1, <2>4 DEF Behind
    <3>0. ~(i < j) BY <2>1, <2>4
    <3>2. \A r \in Slot : ValueStage[r] = i => n.value[r] = m.value[r]
      BY <3>0, Zenon DEF Behind
    <3>3. ValueReg(n, s) = ValueReg(m, s) BY <3>1, <3>2, SameValueStage
    <3>4. ~(i < j + 1) BY <2>1, <2>4
    <3>q. QED BY <1>1, <1>2, <3>3, <3>4
  <2>q. QED BY <2>1, <2>2, <2>3, <2>4
<1>7. /\ 5 # j => d.pipe[6] = c.pipe[6]
      /\ 5 = j => Carried(d.pipe[6], F, in, 6)
  <2>1. CASE 5 < j
    <3>1. Empty(m, 5) /\ Empty(n, 5) /\ n.pipe[5] = m.pipe[5] BY <1>3, <2>1 DEF Stage
    <3>q. QED BY <1>1, <1>2, <2>1, <3>1, EmptyValueStage
  <2>2. CASE 5 = j
    <3>1. \A r \in Slot : ValueStage[r] = 5 => n.value[r] = F.value[r]
      BY <2>2 DEF Behind, Settled, ValueStage, Slot
    <3>2. Carried(n.pipe[5], F, in, 5) BY <2>2 DEF Behind
    <3>3. Carried(ValuePhv(n, 5), F, in, 5 + 1) BY <3>1, <3>2, CarriedThroughValue
    <3>q. QED BY <1>2, <2>2, <3>3
  <2>3. CASE 5 > j
    <3>1. n.pipe[5] = m.pipe[5] BY <2>3 DEF Behind, Stage
    <3>0. ~(5 < j) BY <2>3
    <3>2. \A r \in Slot : ValueStage[r] = 5 => n.value[r] = m.value[r]
      BY <3>0, Zenon DEF Behind
    <3>3. ValuePhv(n, 5) = ValuePhv(m, 5) BY <3>1, <3>2, SameValueStage
    <3>q. QED BY <1>1, <1>2, <2>3, <3>3
  <2>q. QED BY <2>1, <2>2, <2>3
<1>8. ASSUME NEW i \in Stage, i # j + 1 PROVE d.pipe[i] = c.pipe[i]
  <2>1. CASE i = 1 BY <1>1, <1>2, <2>1
  <2>2. CASE i \in 2..4
    <3>1. i - 1 \in Position /\ (i - 1) + 1 = i /\ i - 1 # j BY <1>8, <2>2 DEF Position
    <3>q. QED BY <1>4, <3>1
  <2>3. CASE i = 5 BY <1>5, <1>8, <2>3
  <2>4. CASE i = 6 BY <1>7, <1>8, <2>4
  <2>q. QED BY <2>1, <2>2, <2>3, <2>4 DEF Stage
<1>9. j + 1 <= 6 => Carried(d.pipe[j + 1], F, in, j + 1)
  <2>1. CASE j \in 1..3 BY <1>4, <2>1 DEF Position
  <2>2. CASE j = 4 BY <1>5, <2>2
  <2>3. CASE j = 5 BY <1>7, <2>3
  <2>q. QED BY <2>1, <2>2, <2>3
<1>q. QED BY <1>4, <1>5, <1>6, <1>8, <1>9 DEF Behind, c, d

-----------------------------------------------------------------------------
(* Six ticks without new packets empty the pipeline. *)
Flush(m) == C(C(C(C(C(C(m))))))

LEMMA SixTicks ==
  ASSUME NEW m
  PROVE  (CHOOSE x \in After(After(After(After(After(After({m})))))) : TRUE) = Flush(m)
<1>1. \A l : After({l}) = {C(l)} BY DEF After, C
<1>2. After(After(After(After(After(After({m})))))) = {Flush(m)} BY <1>1 DEF Flush
<1>q. QED BY <1>2

LEMMA FlushedIs == Flushed = Flush(Machine)
BY SixTicks DEF Flushed

LEMMA FlushedNext == Flushed' = Flush(Machine')
<1>1. Flushed' = CHOOSE x \in After(After(After(After(After(After({Machine'})))))) : TRUE
  BY DEF Flushed, After, Clock, KeyReg, KeyPhv, DfaReg, DfaPhv, ValueReg, ValuePhv, Emitted
<1>q. QED BY <1>1, SixTicks

LEMMA FlushType ==
  ASSUME NEW m, Typed(m), Resolved(m)
  PROVE  Typed(Flush(m))
<1>1. \A l : Typed(l) /\ Resolved(l) => Typed(C(l)) /\ Resolved(C(l))
  BY ClockType, BubbleType DEF C
<1>q. QED BY <1>1 DEF Flush

LEMMA SettledChain ==
  ASSUME NEW l, NEW m, NEW F, NEW i \in 0..6, NEW j \in 0..i, Settled(l, F, i), Settled(l, m, j)
  PROVE  Settled(m, F, j)
<1>1. \A p \in Position : p <= j => p <= i BY DEF Position
<1>2. \A s \in Slot : ValueStage[s] <= j => ValueStage[s] <= i BY DEF ValueStage, Slot
<1>q. QED BY <1>1, <1>2 DEF Settled

(* What is settled on the way out. *)
LEMMA FlushSettles ==
  ASSUME NEW m
  PROVE  LET m1 == C(m)
             m2 == C(m1)
             m3 == C(m2)
             m4 == C(m3)
             m5 == C(m4)
             F  == Flush(m)
         IN  /\ Vacant(m1, 1) /\ Settled(m1, F, 1)
             /\ Vacant(m2, 2) /\ Settled(m2, F, 2)
             /\ Vacant(m3, 3) /\ Settled(m3, F, 3)
             /\ Vacant(m4, 4) /\ Settled(m4, F, 4)
             /\ Vacant(m5, 5) /\ Settled(m5, F, 5)
             /\ Vacant(F, 6) /\ Settled(F, F, 6)
<1> DEFINE m1 == C(m)
           m2 == C(m1)
           m3 == C(m2)
           m4 == C(m3)
           m5 == C(m4)
           F  == C(m5)
<1>0. F = Flush(m) BY DEF Flush
<1>1. m1 = C(m) /\ m2 = C(m1) /\ m3 = C(m2) /\ m4 = C(m3) /\ m5 = C(m4) /\ F = C(m5)
  OBVIOUS
<1> HIDE DEF m1, m2, m3, m4, m5, F
<1>2. Vacant(m, 0) BY DEF Vacant
<1>3. Vacant(m1, 1) BY <1>1, <1>2, Settles
<1>4. Vacant(m2, 2) /\ Settled(m2, m1, 1) BY <1>1, <1>3, Settles
<1>5. Vacant(m3, 3) /\ Settled(m3, m2, 2) BY <1>1, <1>4, Settles
<1>6. Vacant(m4, 4) /\ Settled(m4, m3, 3) BY <1>1, <1>5, Settles
<1>7. Vacant(m5, 5) /\ Settled(m5, m4, 4) BY <1>1, <1>6, Settles
<1>8. Vacant(F, 6) /\ Settled(F, m5, 5) BY <1>1, <1>7, Settles
<1>9. Settled(F, F, 6) BY DEF Settled
<1>10. Settled(m5, F, 5) BY <1>8, <1>9, SettledChain
<1>11. Settled(m4, F, 4) BY <1>7, <1>10, SettledChain
<1>12. Settled(m3, F, 3) BY <1>6, <1>11, SettledChain
<1>13. Settled(m2, F, 2) BY <1>5, <1>12, SettledChain
<1>14. Settled(m1, F, 1) BY <1>4, <1>13, SettledChain
<1>q. QED BY <1>0, <1>3, <1>4, <1>5, <1>6, <1>7, <1>8, <1>9, <1>10, <1>11, <1>12, <1>13, <1>14
  DEF m1, m2, m3, m4, m5

(* The registers and the output that a reader of the switch sees. *)
SameSwitch(G, F) ==
  /\ \A p \in Position : G.key[p] = F.key[p]
  /\ G.reg_dfa = F.reg_dfa
  /\ \A s \in Slot : G.value[s] = F.value[s]
  /\ G.out = F.out

LEMMA SettledSame ==
  ASSUME NEW G, NEW F, Settled(G, F, 6)
  PROVE  SameSwitch(G, F)
<1>1. \A p \in Position : p <= 6 BY DEF Position
<1>2. \A s \in Slot : ValueStage[s] <= 6 BY DEF ValueStage, Slot
<1>q. QED BY <1>1, <1>2 DEF Settled, SameSwitch

(* One tick more without a new packet changes nothing. *)
LEMMA DrainKeeps ==
  ASSUME NEW m
  PROVE  SameSwitch(Flush(C(m)), Flush(m))
<1>1. Flush(C(m)) = C(Flush(m)) BY DEF Flush
<1>2. Vacant(Flush(m), 6) BY FlushSettles
<1>3. Settled(C(Flush(m)), Flush(m), 6) BY <1>2, Settles
<1>q. QED BY <1>1, <1>3, SettledSame

(* What a packet leaves behind, and what is sent: all the registers of its  *)
(* bucket as the packets before it left them.                               *)
Answered(in, cached) ==
  IF in.type = Query
  THEN IF cached # 0 THEN [to |-> Client, type |-> QueryBack, key |-> in.key, value |-> cached]
       ELSE [to |-> Server, type |-> Query, key |-> in.key, value |-> in.value]
  ELSE [to |-> Client, type |-> QueryBack, key |-> in.key, value |-> in.value]

Processed(G, F, in) ==
  /\ \A p \in Position : G.key[p] = [F.key[p] EXCEPT ![Home(in)] = NewKey(F, in, p)]
  /\ G.reg_dfa = [F.reg_dfa EXCEPT ![Home(in)] = State(F, in)]
  /\ \A s \in Slot : G.value[s] = [F.value[s] EXCEPT ![Home(in)] = NewValue(F, in, s)]
  /\ G.out = Answered(in, Read(F, in, 7))

LEMMA EnterProcesses ==
  ASSUME NEW m, Typed(m), Resolved(m), NEW in \in Input
  PROVE  Processed(Flush(Clock(m, in)), Flush(m), in)
<1> DEFINE m1 == C(m)
           m2 == C(m1)
           m3 == C(m2)
           m4 == C(m3)
           m5 == C(m4)
           F  == Flush(m)
           n1 == Clock(m, in)
           n2 == C(n1)
           n3 == C(n2)
           n4 == C(n3)
           n5 == C(n4)
           n6 == C(n5)
           G  == Flush(n1)
<1>1. F = C(m5) /\ G = C(n6) BY DEF Flush
<1>2. /\ m2 = C(m1) /\ m3 = C(m2) /\ m4 = C(m3) /\ m5 = C(m4)
      /\ n2 = C(n1) /\ n3 = C(n2) /\ n4 = C(n3) /\ n5 = C(n4) /\ n6 = C(n5)
  OBVIOUS
<1>3. Typed(F) BY FlushType
<1>4. /\ Vacant(m1, 1) /\ Settled(m1, F, 1) /\ Vacant(m2, 2) /\ Settled(m2, F, 2)
      /\ Vacant(m3, 3) /\ Settled(m3, F, 3) /\ Vacant(m4, 4) /\ Settled(m4, F, 4)
      /\ Vacant(m5, 5) /\ Settled(m5, F, 5) /\ Vacant(F, 6) /\ Settled(F, F, 6)
  BY FlushSettles
<1>5. Behind(m1, n1, F, in, 1)
  <2> DEFINE a == C(m)
             b == Clock(m, in)
  <2>1. /\ \A p \in Position : a.key[p] = KeyReg(m, p) /\ a.pipe[p + 1] = KeyPhv(m, p)
        /\ a.reg_dfa = DfaReg(m) /\ a.pipe[5] = DfaPhv(m) /\ a.pipe[6] = ValuePhv(m, 5)
        /\ \A s \in Slot : a.value[s] = ValueReg(m, s)
    BY ClockFields DEF C
  <2>2. /\ \A p \in Position : b.key[p] = KeyReg(m, p) /\ b.pipe[p + 1] = KeyPhv(m, p)
        /\ b.reg_dfa = DfaReg(m) /\ b.pipe[5] = DfaPhv(m) /\ b.pipe[6] = ValuePhv(m, 5)
        /\ \A s \in Slot : b.value[s] = ValueReg(m, s)
        /\ b.pipe[1] = in
    BY ClockFields
  <2>3. Carried(in, F, in, 1) BY EntersCarried
  <2> HIDE DEF a, b, F
  <2>4. \A i \in Stage : i # 1 => b.pipe[i] = a.pipe[i]
    <3> SUFFICES ASSUME NEW i \in Stage, i # 1 PROVE b.pipe[i] = a.pipe[i]
      OBVIOUS
    <3>1. CASE i \in 2..4
      <4>1. i - 1 \in Position /\ (i - 1) + 1 = i BY <3>1 DEF Position
      <4>q. QED BY <2>1, <2>2, <4>1
    <3>2. CASE i \in {5, 6} BY <2>1, <2>2, <3>2
    <3>q. QED BY <3>1, <3>2 DEF Stage
  <2>5. \A p \in Position : ~(p < 1) BY DEF Position
  <2>6. \A s \in Slot : ~(ValueStage[s] < 1) BY DEF ValueStage, Slot
  <2>7. Behind(a, b, F, in, 1) BY <2>1, <2>2, <2>3, <2>4, <2>5, <2>6 DEF Behind
  <2>q. QED BY <2>7 DEF a, b
<1> HIDE DEF m1, m2, m3, m4, m5, F, n1, n2, n3, n4, n5, n6, G
<1>6. Behind(m2, n2, F, in, 2) BY <1>2, <1>3, <1>4, <1>5, StaysBehind
<1>7. Behind(m3, n3, F, in, 3) BY <1>2, <1>3, <1>4, <1>6, StaysBehind
<1>8. Behind(m4, n4, F, in, 4) BY <1>2, <1>3, <1>4, <1>7, StaysBehind
<1>9. Behind(m5, n5, F, in, 5) BY <1>2, <1>3, <1>4, <1>8, StaysBehind
<1>10. Behind(F, n6, F, in, 6) BY <1>1, <1>2, <1>3, <1>4, <1>9, StaysBehind
<1>11. Behind(C(F), G, F, in, 7) BY <1>1, <1>3, <1>4, <1>10, StaysBehind
<1>12. /\ \A p \in Position : G.key[p] = [F.key[p] EXCEPT ![Home(in)] = NewKey(F, in, p)]
       /\ G.reg_dfa = [F.reg_dfa EXCEPT ![Home(in)] = State(F, in)]
       /\ \A s \in Slot : G.value[s] = [F.value[s] EXCEPT ![Home(in)] = NewValue(F, in, s)]
  <2>1. \A p \in Position : p < 7 BY DEF Position
  <2>2. \A s \in Slot : ValueStage[s] < 7 BY DEF ValueStage, Slot
  <2>q. QED BY <1>11, <2>1, <2>2 DEF Behind
<1>13. G.out = Answered(in, Read(F, in, 7))
  <2>1. Carried(n6.pipe[6], F, in, 6) BY <1>10 DEF Behind
  <2>0. ~(6 < 6) OBVIOUS
  <2>2. \A s \in Slot : ValueStage[s] = 6 => n6.value[s] = F.value[s]
    BY <1>10, <2>0, Zenon DEF Behind
  <2>3. Carried(ValuePhv(n6, 6), F, in, 6 + 1) BY <1>3, <2>1, <2>2, CarriedThroughValue
  <2> DEFINE h == ValuePhv(n6, 6)
  <2>4. h.type = in.type /\ h.key = in.key /\ h.value = in.value /\ h.cached = Read(F, in, 7)
    BY <2>3 DEF Carried
  <2>5. G.out = Emitted(n6) BY <1>1, ClockFields DEF C
  <2>6. in.type \in {Query, QueryBack} BY InputType
  <2> HIDE DEF h
  <2>7. Emitted(n6) = Answered(in, h.cached)
    BY <2>4, <2>6 DEF Emitted, Answered, h, Query, QueryBack
  <2>q. QED BY <2>4, <2>5, <2>7
<1>q. QED BY <1>12, <1>13 DEF Processed, F, G, n1

-----------------------------------------------------------------------------
(* The registers hold keys, and packets their fields, at every stage.       *)
PipeInv == Typed(Machine) /\ Resolved(Machine)

LEMMA PipeInvInit == Init => PipeInv
<1> SUFFICES ASSUME Init PROVE PipeInv
  OBVIOUS
<1>1. Cleared \in Key /\ 0 \in DfaState BY KeyAssumption DEF DfaState
<1>2. Typed(Machine)
  BY <1>1, BubbleType DEF Init, Typed, Machine, Position, Slot
<1>3. Resolved(Machine) BY BubbleType DEF Init, Resolved, Machine, Stage
<1>q. QED BY <1>2, <1>3 DEF PipeInv

LEMMA TickIs ==
  ASSUME NEW in, Tick(in)
  PROVE  Machine' = Clock(Machine, in)
BY DEF Tick, Machine, Clock

LEMMA PipeInvInductive == PipeInv /\ [Next]_vars => PipeInv'
<1> SUFFICES ASSUME PipeInv, [Next]_vars PROVE PipeInv'
  OBVIOUS
<1>1. ASSUME NEW in \in Phvs, Tick(in) PROVE PipeInv'
  <2>1. Typed(Clock(Machine, in)) /\ Resolved(Clock(Machine, in)) BY ClockType DEF PipeInv
  <2>2. Machine' = Clock(Machine, in) BY <1>1, TickIs
  <2>q. QED BY <2>1, <2>2 DEF PipeInv, Typed, Resolved
<1>2. ASSUME NEW in \in Input, Enter(in) PROVE PipeInv' BY <1>1, <1>2, InputType DEF Enter
<1>3. CASE Drain BY <1>1, <1>3, BubbleType DEF Drain
<1>4. CASE UNCHANGED vars BY <1>4 DEF vars, PipeInv, Machine, Typed, Resolved
<1>q. QED BY <1>2, <1>3, <1>4 DEF Next

(* The registers of the switch, bucket by bucket. *)
LEMMA TransposeAt ==
  ASSUME NEW F, NEW b \in Bucket
  PROVE  Transpose(F.key)[b] = Column(F, b)
BY DEF Transpose, Column

(* The query of key k as the switch processes it in one step. *)
QueryStep(G, F, k) ==
  LET b      == key_hash[k]
      keys   == Transpose(F.key)
      vals   == Transpose(F.value)
      tsm    == Tsm(keys[b], k)
      sta    == DfaNext(tsm, F.reg_dfa[b])
      slot   == QuerySlot(sta)
      cached == IF tsm = 4 THEN 0 ELSE vals[b][slot]
  IN  /\ Transpose(G.key) = [keys EXCEPT ![b] = InsertKey(@, k)]
      /\ G.reg_dfa = [F.reg_dfa EXCEPT ![b] = sta]
      /\ Transpose(G.value) = IF tsm = 4 THEN [vals EXCEPT ![b][slot] = 0] ELSE vals
      /\ G.out = IF cached # 0
                 THEN [to |-> Client, type |-> QueryBack, key |-> k, value |-> cached]
                 ELSE [to |-> Server, type |-> Query, key |-> k, value |-> Cleared]

(* A query that entered behind the others is a query of the switch,         *)
LEMMA ProcessedQuery ==
  ASSUME NEW G, NEW F, Typed(F), NEW in \in Input, in.type = Query, Processed(G, F, in)
  PROVE  QueryStep(G, F, in.key)
<1> DEFINE k      == in.key
           b      == key_hash[k]
           keys   == Transpose(F.key)
           vals   == Transpose(F.value)
           tsm    == Tsm(keys[b], k)
           sta    == DfaNext(tsm, F.reg_dfa[b])
           slot   == QuerySlot(sta)
           cached == IF tsm = 4 THEN 0 ELSE vals[b][slot]
<1>1. b \in Bucket /\ b = Home(in) /\ in.value = 0 BY InputType DEF Home
<1>2. keys[b] = Column(F, b) BY <1>1, TransposeAt
<1>3. tsm = Found(F, in) /\ sta = State(F, in) BY <1>1, <1>2 DEF Found, State
<1>4. slot \in Slot /\ slot \in 1..3 BY DEF QuerySlot, Slot
<1>5. \A p \in 1..3 : F.key[p] \in [Bucket -> Key] /\ F.value[p] \in [Bucket -> Key]
  BY DEF Typed, Position, Slot
<1>6. Transpose(G.key) = [keys EXCEPT ![b] = InsertKey(@, k)]
  <2>1. \A p \in 1..3 : G.key[p] = [F.key[p] EXCEPT ![b] = InsertKey(Column(F, b), k)[p]]
    BY <1>1 DEF Processed, NewKey, Position
  <2>2. InsertKey(Column(F, b), k) = [p \in 1..3 |-> InsertKey(Column(F, b), k)[p]]
    BY DEF InsertKey, Position
  <2>3. Transpose(G.key)[b] = InsertKey(Column(F, b), k)
    BY <1>1, <1>5, <2>1, <2>2 DEF Transpose
  <2>4. \A c \in Bucket \ {b} : Transpose(G.key)[c] = keys[c]
    BY <1>1, <1>5, <2>1 DEF Transpose
  <2>5. Transpose(G.key) = [c \in Bucket |-> Transpose(G.key)[c]] /\ keys = [c \in Bucket |-> keys[c]]
    BY DEF Transpose
  <2> HIDE DEF keys
  <2>q. QED BY <1>1, <1>2, <2>3, <2>4, <2>5
<1>7. G.reg_dfa = [F.reg_dfa EXCEPT ![b] = sta] BY <1>1, <1>3 DEF Processed
<1>8. Transpose(G.value) = IF tsm = 4 THEN [vals EXCEPT ![b][slot] = 0] ELSE vals
  <2>1. \A s \in 1..3 : G.value[s] = [F.value[s] EXCEPT ![b] = IF tsm = 4 /\ s = slot THEN 0
                                                               ELSE F.value[s][b]]
    <3>1. in.type # QueryBack BY DEF Query, QueryBack
    <3>2. \A s \in 1..3 : NewValue(F, in, s) = IF tsm = 4 /\ s = slot THEN 0 ELSE F.value[s][b]
      BY <1>1, <1>3, <3>1 DEF NewValue
    <3> HIDE DEF tsm, slot, b
    <3>q. QED BY <1>1, <3>2 DEF Processed, Slot
  <2>2. vals = [c \in Bucket |-> [s \in 1..3 |-> F.value[s][c]]] BY DEF Transpose
  <2>3. Transpose(G.value) = [c \in Bucket |-> [s \in 1..3 |-> G.value[s][c]]] BY DEF Transpose
  <2> HIDE DEF tsm, slot, b, vals
  <2>4. \A c \in Bucket, s \in 1..3 :
           G.value[s][c] = IF c = b /\ tsm = 4 /\ s = slot THEN 0 ELSE F.value[s][c]
    BY <1>1, <1>5, <2>1
  <2>5. CASE tsm # 4 BY <2>2, <2>3, <2>4, <2>5
  <2>6. CASE tsm = 4
    <3> DEFINE new == [vals EXCEPT ![b][slot] = 0]
    <3>1. new = [c \in Bucket |-> [s \in 1..3 |-> IF c = b /\ s = slot THEN 0 ELSE F.value[s][c]]]
      BY <1>1, <1>4, <2>2
    <3>q. QED BY <2>3, <2>4, <2>6, <3>1
  <2>q. QED BY <2>5, <2>6
<1>9. cached = Read(F, in, 7)
  <2>1. ValueStage[slot] < 7 BY <1>4 DEF ValueStage
  <2>2. vals[b][slot] = F.value[slot][b] BY <1>1, <1>4 DEF Transpose
  <2> HIDE DEF vals, b
  <2>q. QED BY <1>1, <1>3, <2>1, <2>2 DEF Read
<1>10. G.out = IF cached # 0
               THEN [to |-> Client, type |-> QueryBack, key |-> k, value |-> cached]
               ELSE [to |-> Server, type |-> Query, key |-> k, value |-> Cleared]
  <2> HIDE DEF cached
  <2>q. QED BY <1>1, <1>9 DEF Processed, Answered, Cleared
<1>q. QED BY <1>6, <1>7, <1>8, <1>10 DEF QueryStep

(* and an answer is an answer. *)
LEMMA ProcessedBack ==
  ASSUME NEW G, NEW F, Typed(F), NEW in \in Input, in.type = QueryBack, Processed(G, F, in)
  PROVE  LET k    == in.key
             b    == key_hash[k]
             vals == Transpose(F.value)
             tsm  == Tsm(Transpose(F.key)[b], k)
         IN  /\ Transpose(G.value) =
                  IF tsm = 4 THEN vals ELSE [vals EXCEPT ![b][ReplaceSlot(tsm, F.reg_dfa[b])] = k]
             /\ G.out = [to |-> Client, type |-> QueryBack, key |-> k, value |-> k]
             /\ Transpose(G.key) = Transpose(F.key) /\ G.reg_dfa = F.reg_dfa
<1> DEFINE k    == in.key
           b    == key_hash[k]
           vals == Transpose(F.value)
           tsm  == Tsm(Transpose(F.key)[b], k)
           slot == ReplaceSlot(tsm, F.reg_dfa[b])
<1>0. in.type # Query BY DEF Query, QueryBack
<1>1. b \in Bucket /\ b = Home(in) /\ in.value = k BY InputType DEF Home
<1>2. tsm = Found(F, in) /\ F.reg_dfa[b] = State(F, in)
  BY <1>0, <1>1, TransposeAt DEF Found, State
<1>3. slot \in 1..3 BY SlotType DEF Slot
<1>4. \A p \in 1..3 : F.key[p] \in [Bucket -> Key] /\ F.value[p] \in [Bucket -> Key]
  BY DEF Typed, Position, Slot
<1>5. F.reg_dfa \in [Bucket -> DfaState] BY DEF Typed
<1>6. G.reg_dfa = F.reg_dfa BY <1>1, <1>2, <1>5 DEF Processed
<1>7. Transpose(G.key) = Transpose(F.key)
  <2>1. \A p \in 1..3 : G.key[p] = F.key[p] BY <1>0, <1>1, <1>4 DEF Processed, NewKey, Position
  <2>q. QED BY <2>1 DEF Transpose
<1>8. Transpose(G.value) = IF tsm = 4 THEN vals ELSE [vals EXCEPT ![b][slot] = k]
  <2>1. \A s \in 1..3 : G.value[s] = [F.value[s] EXCEPT ![b] = IF tsm # 4 /\ s = slot THEN k
                                                               ELSE F.value[s][b]]
    <3>2. \A s \in 1..3 : NewValue(F, in, s) = IF tsm # 4 /\ s = slot THEN k ELSE F.value[s][b]
      BY <1>0, <1>1, <1>2 DEF NewValue
    <3> HIDE DEF tsm, slot, b
    <3>q. QED BY <1>1, <3>2 DEF Processed, Slot
  <2>2. vals = [c \in Bucket |-> [s \in 1..3 |-> F.value[s][c]]] BY DEF Transpose
  <2>3. Transpose(G.value) = [c \in Bucket |-> [s \in 1..3 |-> G.value[s][c]]] BY DEF Transpose
  <2> HIDE DEF tsm, slot, b, vals
  <2>4. \A c \in Bucket, s \in 1..3 :
           G.value[s][c] = IF c = b /\ tsm # 4 /\ s = slot THEN k ELSE F.value[s][c]
    BY <1>1, <1>4, <2>1
  <2>5. CASE tsm = 4 BY <2>2, <2>3, <2>4, <2>5
  <2>6. CASE tsm # 4
    <3> DEFINE new == [vals EXCEPT ![b][slot] = k]
    <3>1. new = [c \in Bucket |-> [s \in 1..3 |-> IF c = b /\ s = slot THEN k ELSE F.value[s][c]]]
      BY <1>1, <1>3, <2>2
    <3>q. QED BY <2>3, <2>4, <2>6, <3>1
  <2>q. QED BY <2>5, <2>6
<1>9. G.out = [to |-> Client, type |-> QueryBack, key |-> k, value |-> k]
  BY <1>0, <1>1 DEF Processed, Answered
<1>q. QED BY <1>6, <1>7, <1>8, <1>9

(* What is the same for a reader of the switch is the same state of it.     *)
LEMMA SameState ==
  ASSUME NEW G, NEW F, SameSwitch(G, F)
  PROVE  /\ Transpose(G.key) = Transpose(F.key) /\ G.reg_dfa = F.reg_dfa
         /\ Transpose(G.value) = Transpose(F.value) /\ G.out = F.out
BY DEF SameSwitch, Transpose, Position, Slot

(* The switch of LRUTableSwitch runs the same P4LRU unit. *)
LEMMA SameUnit ==
  /\ \A ks, k : Atomic!Tsm(ks, k) = Tsm(ks, k)
  /\ \A ks, k : Atomic!InsertKey(ks, k) = InsertKey(ks, k)
  /\ \A t, sta : Atomic!DfaNext(t, sta) = DfaNext(t, sta)
  /\ \A sta : Atomic!QuerySlot(sta) = QuerySlot(sta)
  /\ \A t, sta : Atomic!ReplaceSlot(t, sta) = ReplaceSlot(t, sta)
  /\ Atomic!Cleared = Cleared /\ Atomic!Query = Query /\ Atomic!QueryBack = QueryBack
  /\ Atomic!Client = Client /\ Atomic!Server = Server
  /\ Atomic!Position = Position /\ Atomic!Slot = Slot
<1>1. \A ks, k : Atomic!Tsm(ks, k) = Tsm(ks, k) BY DEF Atomic!Tsm, Tsm
<1>2. Atomic!Position = Position BY DEF Atomic!Position, Position
<1>3. \A ks, k : Atomic!InsertKey(ks, k) = InsertKey(ks, k)
  BY <1>1, <1>2 DEF Atomic!InsertKey, InsertKey
<1>4. \A t, sta : Atomic!DfaNext(t, sta) = DfaNext(t, sta)
  BY DEF Atomic!DfaNext, DfaNext, Atomic!dfa_salu_1, dfa_salu_1, Atomic!dfa_salu_2, dfa_salu_2,
         Atomic!dfa_salu_3, dfa_salu_3, Atomic!XorOne, XorOne, Atomic!XorThree, XorThree
<1>5. \A sta : Atomic!QuerySlot(sta) = QuerySlot(sta) BY DEF Atomic!QuerySlot, QuerySlot
<1>6. \A t, sta : Atomic!ReplaceSlot(t, sta) = ReplaceSlot(t, sta)
  BY DEF Atomic!ReplaceSlot, ReplaceSlot
<1>7. /\ Atomic!Cleared = Cleared /\ Atomic!Query = Query /\ Atomic!QueryBack = QueryBack
      /\ Atomic!Client = Client /\ Atomic!Server = Server /\ Atomic!Slot = Slot
  BY DEF Atomic!Cleared, Cleared, Atomic!Query, Query, Atomic!QueryBack, QueryBack,
         Atomic!Client, Client, Atomic!Server, Server, Atomic!Slot, Slot
<1>q. QED BY <1>1, <1>2, <1>3, <1>4, <1>5, <1>6, <1>7

LEMMA PipelineStep == PipeInv /\ [Next]_vars => [Atomic!Next]_(Atomic!switchVars)
<1> SUFFICES ASSUME PipeInv, [Next]_vars PROVE [Atomic!Next]_(Atomic!switchVars)
  OBVIOUS
<1> DEFINE F == Flushed
           G == Flushed'
<1>0. F = Flush(Machine) /\ Typed(F) BY FlushedIs, FlushType DEF PipeInv
<1>1. G = Flush(Machine') BY FlushedNext
<1>6. /\ Transpose(Flushed.key)' = Transpose(G.key) /\ (Flushed.reg_dfa)' = G.reg_dfa
      /\ Transpose(Flushed.value)' = Transpose(G.value) /\ (Flushed.out)' = G.out
      /\ F = Flushed
  BY DEF Transpose
<1> HIDE DEF F, G
<1>2. ASSUME SameSwitch(G, F) PROVE UNCHANGED Atomic!switchVars
  BY <1>2, SameState DEF Atomic!switchVars, F, G, Transpose
<1>3. ASSUME NEW in \in Input, Enter(in) PROVE Atomic!Next
  <2>1. Machine' = Clock(Machine, in) BY <1>3, TickIs DEF Enter
  <2>2. Processed(G, F, in) BY <1>0, <1>1, <2>1, EnterProcesses DEF PipeInv
  <2>3. in.key \in Key /\ in.type \in {Query, QueryBack} BY InputType DEF Phvs
  <2>4. CASE in.type = Query
    <3>1. QueryStep(G, F, in.key) BY <1>0, <2>2, <2>4, ProcessedQuery
    <3>2. Atomic!HandleQuery(in.key)
      BY <1>6, <3>1, SameUnit DEF QueryStep, Atomic!HandleQuery
    <3>q. QED BY <2>3, <3>2 DEF Atomic!Next
  <2>5. CASE in.type = QueryBack
    <3> DEFINE k    == in.key
               b    == key_hash[k]
               vals == Transpose(F.value)
               tsm  == Tsm(Transpose(F.key)[b], k)
    <3>1. /\ Transpose(G.value) =
               IF tsm = 4 THEN vals ELSE [vals EXCEPT ![b][ReplaceSlot(tsm, F.reg_dfa[b])] = k]
          /\ G.out = [to |-> Client, type |-> QueryBack, key |-> k, value |-> k]
          /\ Transpose(G.key) = Transpose(F.key) /\ G.reg_dfa = F.reg_dfa
      BY <1>0, <2>2, <2>5, ProcessedBack
    <3>2. Atomic!HandleQueryBack(k, k)
      BY <1>6, <3>1, SameUnit DEF Atomic!HandleQueryBack
    <3>q. QED BY <2>3, <3>2 DEF Atomic!Next, Atomic!TableEntry
  <2>q. QED BY <2>3, <2>4, <2>5
<1>4. CASE Drain
  <2>1. Machine' = C(Machine) BY <1>4, TickIs DEF Drain, C
  <2>2. SameSwitch(G, F) BY <1>0, <1>1, <2>1, DrainKeeps
  <2>q. QED BY <1>2, <2>2
<1>5. CASE UNCHANGED vars
  <2>1. Machine' = Machine BY <1>5 DEF vars, Machine
  <2>2. SameSwitch(G, F) BY <1>0, <1>1, <2>1 DEF SameSwitch
  <2>q. QED BY <1>2, <2>2
<1>q. QED BY <1>3, <1>4, <1>5 DEF Next

(* lru_table.p4 in the hardware, where up to six packets are between its    *)
(* stages at the same time and none sees all registers at one instant,      *)
(* processes them one after the other, in the order in which they came.     *)
THEOREM PipelineAtomic == Spec => ImplementsAtomicSwitch
<1>q. QED BY PipeInvInit, PipeInvInductive, PipelineStep, PTL DEF Spec, ImplementsAtomicSwitch

(* From cleared registers the pipeline is the switch of LRUTableSwitch, so  *)
(* that everything proved of the switch holds of the hardware.              *)
THEOREM PipelineImplementsSwitch == Spec => Atomic!Spec
<1>1. Init => Atomic!Init
  <2> SUFFICES ASSUME Init PROVE Atomic!Init
    OBVIOUS
  <2> DEFINE m == Machine
             F == Flushed
  <2>1. Vacant(m, 6) BY BubbleType DEF Init, Vacant, Empty, Machine, Stage
  <2>2. F = Flush(m) BY FlushedIs
  <2>3. \A l, n : Vacant(l, 6) /\ Settled(l, n, 6) => Vacant(C(l), 6) /\ Settled(C(l), n, 6)
    <3> SUFFICES ASSUME NEW l, NEW n, Vacant(l, 6), Settled(l, n, 6)
                 PROVE  Vacant(C(l), 6) /\ Settled(C(l), n, 6)
      OBVIOUS
    <3>1. Vacant(C(l), 6) /\ Settled(C(l), l, 6) BY Settles
    <3>q. QED BY <3>1 DEF Settled
  <2>4. Settled(m, m, 6) BY DEF Settled
  <2> HIDE DEF m
  <2>5. Settled(Flush(m), m, 6) BY <2>1, <2>3, <2>4 DEF Flush
  <2>6. SameSwitch(F, m) BY <2>2, <2>5, SettledSame
  <2>7. /\ Transpose(F.key) = Transpose(key) /\ F.reg_dfa = reg_dfa
        /\ Transpose(F.value) = Transpose(value) /\ F.out = out
    BY <2>6, SameState DEF m, Machine
  <2> HIDE DEF F
  <2>8. Transpose(F.key) = [b \in Bucket |-> [p \in Atomic!Position |-> Atomic!Cleared]]
    BY <2>7, SameUnit DEF Init, Transpose, Position
  <2>9. Transpose(F.value) = [b \in Bucket |-> [s \in Atomic!Slot |-> Atomic!Cleared]]
    BY <2>7, SameUnit DEF Init, Transpose, Slot
  <2>10. F.out = Atomic!NoPacket BY <2>7, SameUnit DEF Init, Atomic!NoPacket, Cleared
  <2>11. F.reg_dfa = [b \in Bucket |-> 0] BY <2>7 DEF Init
  <2>q. QED BY <2>8, <2>9, <2>10, <2>11 DEF F, Atomic!Init
<1>q. QED BY <1>1, PipeInvInit, PipeInvInductive, PipelineStep, PTL DEF Spec, Atomic!Spec
=============================================================================
