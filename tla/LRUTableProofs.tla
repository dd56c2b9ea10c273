--------------------------- MODULE LRUTableProofs ---------------------------
(***************************************************************************)
(* Proofs about the switch of lru_table.p4, its replacement policy and the *)
(* LRUTable testbed, for every set of keys and buckets, every hash, every  *)
(* length of the trace, and any number of restarts of the sender and of    *)
(* lost packets.                                                           *)
(***************************************************************************)
EXTENDS LRUTableSystem, LRUTablePolicy, P4LRUProofs, FiniteSetTheorems

(* Type correctness: no register leaves its range; in particular reg_dfa,   *)
(* which the stateful ALUs change by xor, addition and subtraction on 8     *)
(* bits, never leaves 0..5.                                                 *)
LEMMA TypeInductive == TypeOK /\ [Next]_switchVars => TypeOK'
<1> USE KeyAssumption, HashAssumption
<1> SUFFICES ASSUME TypeOK, [Next]_switchVars PROVE TypeOK'
  OBVIOUS
<1>1. ASSUME NEW k \in Key, HandleQuery(k) PROVE TypeOK'
  <2> DEFINE b == key_hash[k]
             t == Tsm(key[b], k)
             sta == DfaNext(t, reg_dfa[b])
             slot == QuerySlot(sta)
  <2>1. b \in Bucket OBVIOUS
  <2>2. t \in 1..4 BY TsmType
  <2>3. sta \in DfaState BY <2>1, <2>2, DfaClosed DEF TypeOK
  <2>4. slot \in Slot BY DEF QuerySlot, Slot
  <2>5. InsertKey(key[b], k) \in [Position -> Key]
    BY <2>1, <2>2 DEF InsertKey, TypeOK, Position
  <2>6. key' \in [Bucket -> [Position -> Key]]
    BY <1>1, <2>1, <2>5 DEF HandleQuery, TypeOK
  <2>7. reg_dfa' \in [Bucket -> DfaState]
    BY <1>1, <2>1, <2>3 DEF HandleQuery, TypeOK
  <2>8. value' \in [Bucket -> [Slot -> Key]]
    BY <1>1, <2>1, <2>4 DEF HandleQuery, TypeOK, Cleared
  <2>9. out' \in Packet
    <3>1. value[b][slot] \in Key BY <2>1, <2>4 DEF TypeOK
    <3>q. QED BY <1>1, <3>1 DEF HandleQuery, Packet, Cleared
  <2>q. QED BY <2>6, <2>7, <2>8, <2>9 DEF TypeOK
<1>2. ASSUME NEW k \in Key, HandleQueryBack(k, TableEntry(k)) PROVE TypeOK'
  <2>1. key_hash[k] \in Bucket /\ TableEntry(k) \in Key BY DEF TableEntry
  <2>2. value' \in [Bucket -> [Slot -> Key]]
    BY <1>2, <2>1, SlotType DEF HandleQueryBack, TypeOK
  <2>3. out' \in Packet BY <1>2, <2>1 DEF HandleQueryBack, Packet
  <2>q. QED BY <1>2, <2>2, <2>3 DEF HandleQueryBack, TypeOK
<1>3. CASE UNCHANGED switchVars BY <1>3 DEF switchVars, TypeOK
<1>q. QED BY <1>1, <1>2, <1>3 DEF Next

LEMMA TypeInit == Init => TypeOK
BY KeyAssumption DEF Init, TypeOK, NoPacket, Packet, DfaState, Cleared

(* No register of lru_table.p4 leaves its range; the DFA stays within its   *)
(* six states, on which everything below depends.                           *)
THEOREM TypeCorrect == Spec => []TypeOK
<1>q. QED BY TypeInit, TypeInductive, PTL DEF Spec

-----------------------------------------------------------------------------
(* What a query does to the cache as a reader sees it: the value at each    *)
(* position follows its key, the front of a miss is a placeholder, and the  *)
(* switch answers with exactly the value cached for the key.                *)
LEMMA QueryEffect ==
  ASSUME TypeOK, NEW k \in Key, HandleQuery(k)
  PROVE  LET b == key_hash[k]
             t == Tsm(key[b], k)
         IN /\ \A p \in Position :
                 ValueAt(b, p)' = IF t = 4 /\ p = 1 THEN 0
                                  ELSE ValueAt(b, Origin(t, p))
            /\ \A c \in Bucket \ {b}, p \in Position :
                 ValueAt(c, p)' = ValueAt(c, p) /\ key'[c] = key[c]
            /\ key'[b] = InsertKey(key[b], k)
            /\ out' = IF t # 4 /\ ValueAt(b, t) # 0
                      THEN [to |-> Client, type |-> QueryBack, key |-> k,
                            value |-> ValueAt(b, t)]
                      ELSE [to |-> Server, type |-> Query, key |-> k, value |-> 0]
<1> USE HashAssumption
<1> DEFINE b == key_hash[k]
           t == Tsm(key[b], k)
           sta == DfaNext(t, reg_dfa[b])
           slot == QuerySlot(sta)
<1>1. b \in Bucket /\ t \in 1..4 BY TsmType
<1>2. reg_dfa[b] \in DfaState /\ sta \in DfaState BY <1>1, DfaClosed DEF TypeOK
<1>3. reg_dfa'[b] = sta BY <1>1 DEF HandleQuery, TypeOK
<1>4. slot = ReplaceSlot(1, sta) BY <1>2, QuerySlotIsFront
<1>5. \A p \in Position : ReplaceSlot(p, sta) = ReplaceSlot(Origin(t, p), reg_dfa[b])
  BY <1>1, <1>2, DfaPermutes
<1>6. slot = ReplaceSlot(IF t = 4 THEN 3 ELSE t, reg_dfa[b])
  BY <1>4, <1>5 DEF Origin, Position
<1>7. slot \in Slot BY DEF QuerySlot, Slot
<1>8. ASSUME NEW p \in Position
      PROVE  ValueAt(b, p)' = IF t = 4 /\ p = 1 THEN 0 ELSE ValueAt(b, Origin(t, p))
  <2>1. ValueAt(b, p)' = value'[b][ReplaceSlot(p, sta)] BY <1>3 DEF ValueAt
  <2>2. CASE t # 4
    <3>1. value' = value BY <2>2 DEF HandleQuery
    <3>q. QED BY <2>1, <2>2, <3>1, <1>5 DEF ValueAt
  <2>3. CASE t = 4
    <3>1. value' = [value EXCEPT ![b][slot] = 0] BY <2>3 DEF HandleQuery
    <3>2. CASE p = 1 BY <3>1, <3>2, <2>1, <2>3, <1>1, <1>4, <1>7 DEF TypeOK
    <3>3. CASE p # 1
      <4>1. ReplaceSlot(p, sta) # slot
        BY <3>3, <1>2, <1>4, SlotInjective DEF Position
      <4>2. value'[b][ReplaceSlot(p, sta)] = value[b][ReplaceSlot(p, sta)]
        BY <3>1, <4>1, <1>1, SlotType DEF TypeOK
      <4>q. QED BY <2>1, <3>3, <4>2, <1>5 DEF ValueAt
    <3>q. QED BY <3>2, <3>3
  <2>q. QED BY <2>2, <2>3
<1>9. ASSUME NEW c \in Bucket \ {b}, NEW p \in Position
      PROVE  ValueAt(c, p)' = ValueAt(c, p) /\ key'[c] = key[c]
  <2>1. key'[c] = key[c] /\ reg_dfa'[c] = reg_dfa[c] /\ value'[c] = value[c]
    BY <1>1 DEF HandleQuery, TypeOK
  <2>q. QED BY <2>1 DEF ValueAt
<1>10. key'[b] = InsertKey(key[b], k) BY <1>1 DEF HandleQuery, TypeOK
<1>11. out' = IF t # 4 /\ ValueAt(b, t) # 0
              THEN [to |-> Client, type |-> QueryBack, key |-> k, value |-> ValueAt(b, t)]
              ELSE [to |-> Server, type |-> Query, key |-> k, value |-> 0]
  BY <1>6 DEF HandleQuery, ValueAt, Cleared
<1>q. QED BY <1>8, <1>9, <1>10, <1>11

(* What an answer does: it fills the entry of its own key and no other. *)
LEMMA BackEffect ==
  ASSUME TypeOK, NEW k \in Key, NEW v \in Key, HandleQueryBack(k, v)
  PROVE  LET b == key_hash[k]
             t == Tsm(key[b], k)
         IN \A c \in Bucket, p \in Position :
              ValueAt(c, p)' = IF c = b /\ p = t THEN v ELSE ValueAt(c, p)
<1> USE HashAssumption
<1> DEFINE b == key_hash[k]
           t == Tsm(key[b], k)
<1>1. b \in Bucket /\ t \in 1..4 BY TsmType
<1>2. key' = key /\ reg_dfa' = reg_dfa BY DEF HandleQueryBack
<1>3. SUFFICES ASSUME NEW c \in Bucket, NEW p \in Position
               PROVE  ValueAt(c, p)' = IF c = b /\ p = t THEN v ELSE ValueAt(c, p)
  OBVIOUS
<1>4. ValueAt(c, p)' = value'[c][ReplaceSlot(p, reg_dfa[c])] BY <1>2 DEF ValueAt
<1>5. CASE t = 4 BY <1>4, <1>5 DEF HandleQueryBack, ValueAt, Position
<1>6. CASE t # 4
  <2>1. value' = [value EXCEPT ![b][ReplaceSlot(t, reg_dfa[b])] = v]
    BY <1>6 DEF HandleQueryBack
  <2>2. CASE c # b BY <2>1, <2>2, <1>1, <1>4 DEF TypeOK, ValueAt
  <2>3. CASE c = b /\ p = t BY <2>1, <2>3, <1>1, <1>4, SlotType DEF TypeOK
  <2>4. CASE c = b /\ p # t
    <3>1. t \in Position /\ reg_dfa[b] \in DfaState
      BY <1>1, <1>6 DEF Position, TypeOK
    <3>2. ReplaceSlot(p, reg_dfa[b]) # ReplaceSlot(t, reg_dfa[b])
      BY <2>4, <3>1, SlotInjective
    <3>q. QED BY <2>1, <2>4, <3>2, <1>1, <1>4, SlotType DEF TypeOK, ValueAt
  <2>q. QED BY <2>2, <2>3, <2>4
<1>q. QED BY <1>5, <1>6

-----------------------------------------------------------------------------
(* The inductive invariant: the three safety properties need each other's   *)
(* types and nothing else.                                                  *)
Inv == TypeOK /\ CachedValuesCorrect /\ KeysDistinct /\ AnswerCorrect

LEMMA InvInit == Init => Inv
<1> SUFFICES ASSUME Init PROVE Inv OBVIOUS
<1>1. TypeOK BY TypeInit
<1>2. CachedValuesCorrect
  BY SlotType DEF Init, CachedValuesCorrect, ValueAt, Cleared
<1>3. KeysDistinct BY DEF Init, KeysDistinct
<1>4. AnswerCorrect BY DEF Init, AnswerCorrect, NoPacket, Client, Server
<1>q. QED BY <1>1, <1>2, <1>3, <1>4 DEF Inv

LEMMA QueryKeepsInv ==
  ASSUME Inv, NEW k \in Key, HandleQuery(k)
  PROVE  CachedValuesCorrect' /\ KeysDistinct' /\ AnswerCorrect'
<1> USE HashAssumption
<1> DEFINE b == key_hash[k]
           t == Tsm(key[b], k)
<1>1. b \in Bucket /\ t \in 1..4 BY TsmType
<1>2. TypeOK BY DEF Inv
<1>3. \A p \in Position :
        key'[b][p] = IF p = 1 THEN k ELSE key[b][Origin(t, p)]
  BY <1>2, QueryEffect, InsertKeyAt
<1>4. t # 4 => key[b][t] = k BY TsmMeaning
<1>5. t = 4 => \A p \in Position : key[b][p] # k BY TsmMeaning
<1>6. ASSUME NEW c \in Bucket, NEW p \in Position
      PROVE  ValueAt(c, p)' \in {0, TableEntry(key'[c][p])}
  <2>1. CASE c # b
    BY <2>1, <1>2, QueryEffect DEF Inv, CachedValuesCorrect
  <2>2. CASE c = b /\ p = 1
    <3>1. ValueAt(b, 1)' = IF t = 4 THEN 0 ELSE ValueAt(b, t)
      BY <2>2, <1>2, QueryEffect DEF Origin
    <3>2. t # 4 => ValueAt(b, t) \in {0, TableEntry(k)}
      BY <1>1, <1>4 DEF Inv, CachedValuesCorrect, Position
    <3>q. QED BY <2>2, <3>1, <3>2, <1>3
  <2>3. CASE c = b /\ p # 1
    <3>1. Origin(t, p) \in Position BY <1>1, OriginType
    <3>2. ValueAt(b, p)' = ValueAt(b, Origin(t, p)) BY <2>3, <1>2, QueryEffect
    <3>q. QED BY <2>3, <3>1, <3>2, <1>1, <1>3 DEF Inv, CachedValuesCorrect
  <2>q. QED BY <2>1, <2>2, <2>3
<1>7. ASSUME NEW c \in Bucket, NEW p \in Position, NEW q \in Position,
             p # q, key'[c][p] = key'[c][q]
      PROVE  key'[c][p] = Cleared
  <2>1. CASE c # b BY <2>1, <1>2, <1>7, QueryEffect DEF Inv, KeysDistinct
  <2>2. CASE c = b /\ p # 1 /\ q # 1
    <3>1. Origin(t, p) \in Position /\ Origin(t, q) \in Position
      BY <1>1, OriginType
    <3>2. Origin(t, p) # Origin(t, q) BY <1>1, <1>7, OriginInjective
    <3>3. key[b][Origin(t, p)] = key[b][Origin(t, q)] BY <2>2, <1>3, <1>7
    <3>q. QED BY <2>2, <3>1, <3>2, <3>3, <1>1, <1>3 DEF Inv, KeysDistinct
  <2>3. ASSUME NEW r \in Position, r # 1, k = key[b][Origin(t, r)]
        PROVE  k = Cleared
    <3>1. Origin(t, r) \in Position BY <1>1, OriginType
    <3>2. t # 4 BY <2>3, <3>1, <1>5
    <3>3. t \in Position /\ Origin(t, r) # t
      BY <2>3, <3>2, <1>1, OriginType DEF Position
    <3>q. QED BY <2>3, <3>1, <3>2, <3>3, <1>1, <1>4 DEF Inv, KeysDistinct
  <2>4. CASE c = b /\ (p = 1 \/ q = 1) BY <2>3, <2>4, <1>3, <1>7
  <2>q. QED BY <2>1, <2>2, <2>4
<1>8. AnswerCorrect'
  <2>1. t # 4 => ValueAt(b, t) \in {0, TableEntry(k)}
    BY <1>1, <1>4 DEF Inv, CachedValuesCorrect, Position
  <2>q. QED BY <2>1, <1>2, QueryEffect DEF AnswerCorrect, Client, Server
<1>q. QED BY <1>6, <1>7, <1>8 DEF CachedValuesCorrect, KeysDistinct

LEMMA BackKeepsInv ==
  ASSUME Inv, NEW k \in Key, HandleQueryBack(k, TableEntry(k))
  PROVE  CachedValuesCorrect' /\ KeysDistinct' /\ AnswerCorrect'
<1> USE HashAssumption
<1> DEFINE b == key_hash[k]
           t == Tsm(key[b], k)
<1>1. key' = key BY DEF HandleQueryBack
<1>2. TableEntry(k) \in Key BY DEF TableEntry
<1>3. ASSUME NEW c \in Bucket, NEW p \in Position
      PROVE  ValueAt(c, p)' \in {0, TableEntry(key'[c][p])}
  <2>1. ValueAt(c, p)' = IF c = b /\ p = t THEN TableEntry(k) ELSE ValueAt(c, p)
    BY <1>2, BackEffect DEF Inv
  <2>2. c = b /\ p = t => key[c][p] = k BY TsmMeaning DEF Position
  <2>q. QED BY <2>1, <2>2, <1>1 DEF Inv, CachedValuesCorrect
<1>4. KeysDistinct' BY <1>1 DEF Inv, KeysDistinct
<1>5. AnswerCorrect' BY DEF HandleQueryBack, AnswerCorrect
<1>q. QED BY <1>3, <1>4, <1>5 DEF CachedValuesCorrect

LEMMA InvInductive == Inv /\ [Next]_switchVars => Inv'
<1> SUFFICES ASSUME Inv, [Next]_switchVars PROVE Inv' OBVIOUS
<1>1. TypeOK' BY TypeInductive DEF Inv
<1>2. CASE UNCHANGED switchVars
  BY <1>2, <1>1 DEF switchVars, Inv, CachedValuesCorrect, KeysDistinct,
                    AnswerCorrect, ValueAt
<1>3. CASE \E k \in Key : HandleQuery(k) BY <1>3, <1>1, QueryKeepsInv DEF Inv
<1>4. CASE \E k \in Key : HandleQueryBack(k, TableEntry(k))
  BY <1>4, <1>1, BackKeepsInv DEF Inv
<1>q. QED BY <1>2, <1>3, <1>4 DEF Next

LEMMA InvHolds == Spec => []Inv
BY InvInit, InvInductive, PTL DEF Spec

(* Every cached value is the server's entry for its own key, or not yet     *)
(* fetched, however queries, evictions and late answers interleave: the     *)
(* DFA never assigns a value register to another key's position.            *)
THEOREM SwitchSafe == Spec => []CachedValuesCorrect
<1>1. Inv => CachedValuesCorrect BY DEF Inv
<1>q. QED BY InvHolds, <1>1, PTL

(* No key but the cleared one lies in two registers of a bucket, although   *)
(* insert_key_1..3 never compare the keys they push.                        *)
THEOREM KeysStayDistinct == Spec => []KeysDistinct
<1>1. Inv => KeysDistinct BY DEF Inv
<1>q. QED BY InvHolds, <1>1, PTL

(* Every answer the switch gives the client is the server's entry for the   *)
(* key asked for, from the cache or forwarded.                              *)
THEOREM AnswersCorrect == Spec => []AnswerCorrect
<1>1. Inv => AnswerCorrect BY DEF Inv
<1>q. QED BY InvHolds, <1>1, PTL

-----------------------------------------------------------------------------
(* The recency list the registers stand for, the refinement mapping. *)
List == [b \in Bucket |->
           [p \in Position |-> [key |-> key[b][p], value |-> ValueAt(b, p)]]]

(* A list of the cache holds k exactly when a key register does, first at   *)
(* the position meta.dfa_tsm names.                                         *)
LEMMA ListHolds ==
  ASSUME NEW k \in Key
  PROVE  LET b == key_hash[k]
             t == Tsm(key[b], k)
         IN /\ t # 4 => t \in Position /\ Cache!FirstAt(List[b], k, t)
            /\ t = 4 => ~Cache!Holds(List[b], k)
<1> USE HashAssumption
<1> DEFINE b == key_hash[k]
           t == Tsm(key[b], k)
<1>1. b \in Bucket OBVIOUS
<1>2. \A p \in Position : List[b][p].key = key[b][p] BY <1>1 DEF List
<1>3. CASE t # 4
  <2>1. t \in Position /\ key[b][t] = k /\ \A p \in Position : p < t => key[b][p] # k
    BY <1>3 DEF Tsm, Position
  <2>q. QED BY <1>2, <1>3, <2>1 DEF Cache!FirstAt, Cache!Rank, Position
<1>4. CASE t = 4
  BY <1>2, <1>4, TsmMeaning DEF Cache!Holds, Cache!Rank, Position
<1>q. QED BY <1>3, <1>4

LEMMA QueryImplements ==
  ASSUME TypeOK, NEW k \in Key, HandleQuery(k)
  PROVE  Cache!Hit(k) \/ Cache!Miss(k)
<1> USE HashAssumption
<1> DEFINE b == key_hash[k]
           t == Tsm(key[b], k)
           e == IF t = 4 THEN [key |-> k, value |-> 0] ELSE List[b][t]
           n == IF t = 4 THEN 3 ELSE t
<1>1. b \in Bucket /\ t \in 1..4 /\ n \in Position BY TsmType DEF Position
<1>2. \A p \in Position :
        key'[b][p] = IF p = 1 THEN k ELSE key[b][Origin(t, p)]
  BY QueryEffect, InsertKeyAt
<1>3. \A p \in Position : /\ List[b][p].key = key[b][p]
                          /\ List[b][p].value = ValueAt(b, p)
                          /\ List[b][p] = [key |-> key[b][p], value |-> ValueAt(b, p)]
  BY <1>1 DEF List
<1>4. t # 4 => key[b][t] = k BY TsmMeaning
<1>5. \A p \in Position : List'[b][p] = [key |-> key'[b][p], value |-> ValueAt(b, p)']
  BY <1>1 DEF List
<1>6. \A p \in Position : List'[b][p] = Cache!PushFront(List[b], e, n)[p]
  <2> SUFFICES ASSUME NEW p \in Position
               PROVE  List'[b][p] = Cache!PushFront(List[b], e, n)[p]
    OBVIOUS
  <2>1. CASE p = 1
    <3>1. Cache!PushFront(List[b], e, n)[p] = e
      BY <2>1 DEF Cache!PushFront, Cache!Rank
    <3>2. ValueAt(b, p)' = IF t = 4 THEN 0 ELSE ValueAt(b, t)
      BY <2>1, QueryEffect DEF Origin
    <3>3. t # 4 => List[b][t] = [key |-> k, value |-> ValueAt(b, t)]
      BY <1>1, <1>3, <1>4 DEF Position
    <3>q. QED BY <2>1, <3>1, <3>2, <3>3, <1>2, <1>5
  <2>2. CASE p # 1
    <3>1. Origin(t, p) \in Position BY <1>1, OriginType
    <3>2. Cache!PushFront(List[b], e, n)[p] = List[b][Origin(t, p)]
      BY <2>2, <1>1 DEF Cache!PushFront, Cache!Rank, Position, Origin
    <3>3. ValueAt(b, p)' = ValueAt(b, Origin(t, p)) BY <2>2, QueryEffect
    <3>4. key'[b][p] = key[b][Origin(t, p)] BY <2>2, <1>2
    <3>5. List[b][Origin(t, p)] = [key |-> key[b][Origin(t, p)],
                                   value |-> ValueAt(b, Origin(t, p))]
      BY <3>1, <1>3
    <3>6. List'[b][p] = [key |-> key'[b][p], value |-> ValueAt(b, p)'] BY <1>5
    <3>q. QED BY <3>2, <3>3, <3>4, <3>5, <3>6
  <2>q. QED BY <2>1, <2>2
<1>7. \A c \in Bucket \ {b} : List'[c] = List[c] BY QueryEffect DEF List
<1>8. List' = [List EXCEPT ![b] = Cache!PushFront(@, e, n)]
  <2>1. List'[b] = Cache!PushFront(List[b], e, n)
    BY <1>1, <1>6 DEF List, Cache!PushFront, Cache!Rank, Position
  <2>q. QED BY <2>1, <1>7, <1>1 DEF List
<1>9. CASE t = 4
  <2>1. ~Cache!Holds(List[b], k) BY <1>9, ListHolds
  <2>2. out' = [to |-> Server, type |-> Query, key |-> k, value |-> 0]
    BY <1>9, QueryEffect
  <2>q. QED BY <2>1, <2>2, <1>8, <1>9 DEF Cache!Miss, List
<1>10. CASE t # 4
  <2>1. t \in Cache!Rank /\ Cache!FirstAt(List[b], k, t)
    BY <1>10, ListHolds DEF Cache!Rank, Position
  <2>2. out' = IF List[b][t].value # 0
               THEN [to |-> Client, type |-> QueryBack, key |-> k,
                     value |-> List[b][t].value]
               ELSE [to |-> Server, type |-> Query, key |-> k, value |-> 0]
    BY <1>10, <1>1, <1>3, QueryEffect DEF Position
  <2>q. QED BY <2>1, <2>2, <1>8, <1>10 DEF Cache!Hit, List
<1>q. QED BY <1>9, <1>10

LEMMA BackImplements ==
  ASSUME TypeOK, NEW k \in Key, HandleQueryBack(k, TableEntry(k))
  PROVE  Cache!Fill(k)
<1> USE HashAssumption
<1> DEFINE b == key_hash[k]
           t == Tsm(key[b], k)
           v == TableEntry(k)
<1>1. b \in Bucket /\ t \in 1..4 BY TsmType
<1>2. v \in Key BY DEF TableEntry
<1>3. key' = key BY DEF HandleQueryBack
<1>4. \A c \in Bucket, p \in Position :
        ValueAt(c, p)' = IF c = b /\ p = t THEN v ELSE ValueAt(c, p)
  BY <1>2, BackEffect
<1>5. out' = [to |-> Client, type |-> QueryBack, key |-> k, value |-> v]
  BY DEF HandleQueryBack
<1>6. CASE t = 4
  <2>1. ~Cache!Holds(List[b], k) BY <1>6, ListHolds
  <2>2. List' = List BY <1>3, <1>4, <1>6 DEF List, Position
  <2>q. QED BY <2>1, <2>2, <1>5 DEF Cache!Fill, List
<1>7. CASE t # 4
  <2>1. t \in Position /\ t \in Cache!Rank /\ Cache!FirstAt(List[b], k, t)
    BY <1>7, ListHolds DEF Cache!Rank, Position
  <2>2. List' = [List EXCEPT ![b][t].value = v]
    BY <2>1, <1>1, <1>3, <1>4 DEF List
  <2>q. QED BY <2>1, <2>2, <1>5 DEF Cache!Fill, List
<1>q. QED BY <1>6, <1>7

(* lru_table.p4 implements the recency list: whatever the keys, the buckets *)
(* and the hash, moving the keys through the key registers while only the   *)
(* DFA state moves the values is a list of entries kept in recency order.   *)
THEOREM SwitchRefines == Spec => ImplementsLRUCache
<1>1. Init => Cache!Init
  BY SlotType DEF Init, Cache!Init, Cache!Rank, Position, ValueAt, NoPacket, Cleared
<1>2. TypeOK /\ [Next]_switchVars => [Cache!Next]_(Cache!cacheVars)
  <2> SUFFICES ASSUME TypeOK, [Next]_switchVars
               PROVE  [Cache!Next]_(Cache!cacheVars)
    OBVIOUS
  <2>1. CASE UNCHANGED switchVars
    BY <2>1 DEF switchVars, Cache!cacheVars, ValueAt
  <2>2. CASE \E k \in Key : HandleQuery(k)
    BY <2>2, QueryImplements DEF Cache!Next
  <2>3. CASE \E k \in Key : HandleQueryBack(k, TableEntry(k))
    BY <2>3, BackImplements DEF Cache!Next
  <2>q. QED BY <2>1, <2>2, <2>3 DEF Next
<1>q. QED BY <1>1, <1>2, TypeCorrect, PTL DEF Spec, ImplementsLRUCache, Cache!Spec

-----------------------------------------------------------------------------
(* The replacement policy: the least recently used of the three entries of  *)
(* a bucket makes room, whatever the order of queries and answers.          *)

(* The keys in the registers in front of position n, and whether they are   *)
(* different keys.                                                          *)
Before(ks, n) == {ks[q] : q \in 1..n - 1}
DistinctBefore(ks, n) == \A q, r \in 1..n - 1 : q # r => ks[q] # ks[r]

(* The registers keep the order of the last queries: the keys queried since *)
(* a cached key are exactly the ones in front of it, and all three of the   *)
(* registers have been queried since a key that is not cached.              *)
RecencyOf(ks, S, j) ==
  LET n == Tsm(ks, j)
  IN  /\ IsFiniteSet(S)
      /\ Before(ks, n) \subseteq S
      /\ n # 4 => S = Before(ks, n)
      /\ DistinctBefore(ks, n)

Recency ==
  /\ DOMAIN since \subseteq Key
  /\ \A j \in DOMAIN since : RecencyOf(key[key_hash[j]], since[j], j)

-----------------------------------------------------------------------------
(* It pushes the keys that were before its old place back by one. *)
LEMMA InsertedPush ==
  ASSUME NEW ks, NEW k, NEW j, j # k
  PROVE  Tsm(InsertKey(ks, k), j) = IF Tsm(ks, j) < Tsm(ks, k) THEN Tsm(ks, j) + 1 ELSE Tsm(ks, j)
<1> DEFINE new == InsertKey(ks, k)
           t == Tsm(ks, k)
           n == Tsm(ks, j)
           m == Tsm(new, j)
<1> SUFFICES m = IF n < t THEN n + 1 ELSE n OBVIOUS
<1>1. /\ new[1] = k
      /\ new[2] = IF t >= 2 THEN ks[1] ELSE ks[2]
      /\ new[3] = IF t >= 3 THEN ks[2] ELSE ks[3]
  BY InsertedKeys
<1>2. t \in 1..4 /\ n \in 1..4 /\ m \in 1..4 BY TsmType
<1>3. /\ t = 1 <=> ks[1] = k
      /\ t = 2 <=> ks[1] # k /\ ks[2] = k
      /\ t = 3 <=> ks[1] # k /\ ks[2] # k /\ ks[3] = k
      /\ t = 4 <=> ks[1] # k /\ ks[2] # k /\ ks[3] # k
  BY TsmCases
<1>4. /\ n = 1 <=> ks[1] = j
      /\ n = 2 <=> ks[1] # j /\ ks[2] = j
      /\ n = 3 <=> ks[1] # j /\ ks[2] # j /\ ks[3] = j
      /\ n = 4 <=> ks[1] # j /\ ks[2] # j /\ ks[3] # j
  BY TsmCases
<1>5. /\ m = 1 <=> new[1] = j
      /\ m = 2 <=> new[1] # j /\ new[2] = j
      /\ m = 3 <=> new[1] # j /\ new[2] # j /\ new[3] = j
      /\ m = 4 <=> new[1] # j /\ new[2] # j /\ new[3] # j
  BY TsmCases
<1> HIDE DEF new, t, n, m
<1>6. CASE t = 1 BY <1>1, <1>2, <1>3, <1>4, <1>5, <1>6
<1>7. CASE t = 2 BY <1>1, <1>2, <1>3, <1>4, <1>5, <1>7
<1>8. CASE t = 3 BY <1>1, <1>2, <1>3, <1>4, <1>5, <1>8
<1>9. CASE t = 4 BY <1>1, <1>2, <1>3, <1>4, <1>5, <1>9
<1>q. QED BY <1>2, <1>6, <1>7, <1>8, <1>9

(* The keys in front of a position, one by one. *)
LEMMA BeforeCases ==
  ASSUME NEW ks
  PROVE  /\ Before(ks, 1) = {} /\ Before(ks, 2) = {ks[1]}
         /\ Before(ks, 3) = {ks[1], ks[2]} /\ Before(ks, 4) = {ks[1], ks[2], ks[3]}
         /\ DistinctBefore(ks, 1) /\ DistinctBefore(ks, 2)
         /\ DistinctBefore(ks, 3) <=> ks[1] # ks[2]
         /\ DistinctBefore(ks, 4) <=> ks[1] # ks[2] /\ ks[1] # ks[3] /\ ks[2] # ks[3]
<1>1. 1..0 = {} /\ 1..1 = {1} /\ 1..2 = {1, 2} /\ 1..3 = {1, 2, 3} OBVIOUS
<1>2. 1 - 1 = 0 /\ 2 - 1 = 1 /\ 3 - 1 = 2 /\ 4 - 1 = 3 OBVIOUS
<1>3. Before(ks, 1) = {} /\ Before(ks, 2) = {ks[1]} BY <1>1, <1>2 DEF Before
<1>4. Before(ks, 3) = {ks[1], ks[2]} BY <1>1, <1>2 DEF Before
<1>5. Before(ks, 4) = {ks[1], ks[2], ks[3]} BY <1>1, <1>2 DEF Before
<1>6. DistinctBefore(ks, 1) /\ DistinctBefore(ks, 2) BY <1>1, <1>2 DEF DistinctBefore
<1>7. DistinctBefore(ks, 3) <=> ks[1] # ks[2] BY <1>1, <1>2 DEF DistinctBefore
<1>8. DistinctBefore(ks, 4) <=> ks[1] # ks[2] /\ ks[1] # ks[3] /\ ks[2] # ks[3]
  BY <1>1, <1>2 DEF DistinctBefore
<1>q. QED BY <1>3, <1>4, <1>5, <1>6, <1>7, <1>8
-----------------------------------------------------------------------------
(* The key of a query is in front, with no key queried since. *)
LEMMA RecencyOfFirst ==
  ASSUME NEW ks, NEW k
  PROVE  RecencyOf(InsertKey(ks, k), {}, k)
BY InsertedFirst, BeforeCases, FS_EmptySet DEF RecencyOf

(* A query keeps the order of every other key of the bucket. *)
LEMMA RecencyOfOther ==
  ASSUME NEW ks, NEW k, NEW j, j # k, NEW S, RecencyOf(ks, S, j)
  PROVE  RecencyOf(InsertKey(ks, k), S \cup {k}, j)
<1> DEFINE new == InsertKey(ks, k)
           t == Tsm(ks, k)
           n == Tsm(ks, j)
           m == Tsm(new, j)
<1>1. /\ new[1] = k
      /\ new[2] = IF t >= 2 THEN ks[1] ELSE ks[2]
      /\ new[3] = IF t >= 3 THEN ks[2] ELSE ks[3]
  BY InsertedKeys
<1>2. m = IF n < t THEN n + 1 ELSE n BY InsertedPush
<1>3. t \in 1..4 /\ n \in 1..4 BY TsmType
<1>4. /\ t = 1 <=> ks[1] = k
      /\ t = 2 <=> ks[1] # k /\ ks[2] = k
      /\ t = 3 <=> ks[1] # k /\ ks[2] # k /\ ks[3] = k
      /\ t = 4 <=> ks[1] # k /\ ks[2] # k /\ ks[3] # k
  BY TsmCases
<1>5. t = n => t = 4
  <2>1. /\ n = 1 => ks[1] = j
        /\ n = 2 => ks[2] = j
        /\ n = 3 => ks[3] = j
    BY TsmCases
  <2> HIDE DEF t, n
  <2>q. QED BY <1>3, <1>4, <2>1
<1>6. Before(ks, n) \subseteq S /\ (n # 4 => S = Before(ks, n)) /\ DistinctBefore(ks, n) /\ IsFiniteSet(S)
  BY DEF RecencyOf
<1> HIDE DEF new, t, n, m
<1>7. /\ Before(new, m) \subseteq S \cup {k}
      /\ m # 4 => S \cup {k} = Before(new, m)
      /\ DistinctBefore(new, m)
  <2>1. CASE n = 1 BY <2>1, <1>1, <1>2, <1>3, <1>4, <1>5, <1>6, BeforeCases
  <2>2. CASE n = 2 BY <2>2, <1>1, <1>2, <1>3, <1>4, <1>5, <1>6, BeforeCases
  <2>3. CASE n = 3
    <3>1. CASE t = 4 BY <2>3, <3>1, <1>1, <1>2, <1>4, <1>6, BeforeCases
    <3>2. CASE t = 1 BY <2>3, <3>2, <1>1, <1>2, <1>4, <1>6, BeforeCases
    <3>3. CASE t = 2 BY <2>3, <3>3, <1>1, <1>2, <1>4, <1>6, BeforeCases
    <3>q. QED BY <2>3, <3>1, <3>2, <3>3, <1>3, <1>5
  <2>4. CASE n = 4
    <3>1. m = 4 BY <2>4, <1>2, <1>3
    <3>2. {ks[1], ks[2], ks[3]} \subseteq S /\ ks[1] # ks[2] /\ ks[1] # ks[3] /\ ks[2] # ks[3]
      BY <2>4, <1>6, BeforeCases
    <3>3. /\ {new[1], new[2], new[3]} \subseteq S \cup {k}
          /\ new[1] # new[2] /\ new[1] # new[3] /\ new[2] # new[3]
      BY <3>2, <1>1, <1>3, <1>4
    <3>q. QED BY <3>1, <3>3, BeforeCases
  <2>q. QED BY <2>1, <2>2, <2>3, <2>4, <1>3
<1>8. IsFiniteSet(S \cup {k}) BY <1>6, FS_AddElement
<1>q. QED BY <1>7, <1>8 DEF RecencyOf, new, m

LEMMA CountDistinct ==
  ASSUME NEW a, NEW b, a # b
  PROVE  /\ Cardinality({a, b}) = 2
         /\ \A c : a # c /\ b # c => Cardinality({a, b, c}) = 3
<1> DEFINE A == {a}
           B == A \cup {b}
<1>1. IsFiniteSet(A) /\ Cardinality(A) = 1 BY FS_Singleton
<1>2. b \notin A /\ B = {a, b} /\ \A c : B \cup {c} = {a, b, c} OBVIOUS
<1> HIDE DEF A
<1>3. IsFiniteSet(B) /\ Cardinality(B) = 2 BY <1>1, <1>2, FS_AddElement
<1> HIDE DEF B
<1>4. \A c : c \notin B => Cardinality(B \cup {c}) = 3 BY <1>3, FS_AddElement
<1>q. QED BY <1>2, <1>3, <1>4

(* The number of keys queried since tells whether the key is in a register. *)
LEMMA RecencyCounts ==
  ASSUME NEW ks, NEW j, NEW S, RecencyOf(ks, S, j)
  PROVE  (\E p \in Position : ks[p] = j) <=> Cardinality(S) < 3
<1> DEFINE n == Tsm(ks, j)
<1>1. n \in 1..4 BY TsmType
<1>2. (\E p \in Position : ks[p] = j) <=> n # 4
  BY TsmCases, TsmType DEF Position
<1>3. /\ IsFiniteSet(S) /\ Before(ks, n) \subseteq S
      /\ n # 4 => S = Before(ks, n)
      /\ DistinctBefore(ks, n)
  BY DEF RecencyOf
<1> HIDE DEF n
<1>4. CASE n = 1
  <2>1. S = {} BY <1>3, <1>4, BeforeCases
  <2>q. QED BY <2>1, <1>2, <1>4, FS_EmptySet
<1>5. CASE n = 2
  <2>1. S = {ks[1]} BY <1>3, <1>5, BeforeCases
  <2>q. QED BY <2>1, <1>2, <1>5, FS_Singleton
<1>6. CASE n = 3
  <2>1. S = {ks[1], ks[2]} /\ ks[1] # ks[2] BY <1>3, <1>6, BeforeCases
  <2>2. Cardinality(S) = 2 BY <2>1, CountDistinct
  <2>q. QED BY <2>2, <1>2, <1>6
<1>7. CASE n = 4
  <2> DEFINE T == {ks[1], ks[2], ks[3]}
  <2>1. T \in SUBSET S /\ Cardinality(T) = 3
    <3>1. T \subseteq S BY <1>3, <1>7, BeforeCases
    <3>2. ks[1] # ks[2] /\ ks[1] # ks[3] /\ ks[2] # ks[3] BY <1>3, <1>7, BeforeCases
    <3>3. \A c : ks[1] # c /\ ks[2] # c => Cardinality({ks[1], ks[2], c}) = 3 BY <3>2, CountDistinct
    <3>q. QED BY <3>1, <3>2, <3>3
  <2>2. Cardinality(S) \in Nat /\ Cardinality(T) <= Cardinality(S)
    BY <2>1, <1>3, FS_Subset, FS_CardinalityType
  <2>q. QED BY <2>1, <2>2, <1>2, <1>7
<1>q. QED BY <1>1, <1>4, <1>5, <1>6, <1>7

-----------------------------------------------------------------------------
LEMMA PolicyStepsAreSteps == [PolicyNext]_policyVars => [Next]_switchVars
BY DEF PolicyNext, RecordedQuery, RecordedQueryBack, policyVars, Next, switchVars

LEMMA PolicyTyped == PolicySpec => []TypeOK
<1>1. PolicyInit => Init BY DEF PolicyInit
<1>q. QED BY <1>1, PolicyStepsAreSteps, TypeCorrect, PTL DEF PolicySpec, Spec

LEMMA RecencyInit == PolicyInit => Recency
BY DEF PolicyInit, Recency

LEMMA RecencyInductive == TypeOK /\ Recency /\ [PolicyNext]_policyVars => Recency'
<1> USE HashAssumption
<1> SUFFICES ASSUME TypeOK, Recency, [PolicyNext]_policyVars PROVE Recency' OBVIOUS
<1>1. CASE UNCHANGED policyVars BY <1>1 DEF policyVars, Recency
<1>2. ASSUME NEW k \in Key, RecordedQueryBack(k) PROVE Recency'
  BY <1>2 DEF RecordedQueryBack, HandleQueryBack, Recency
<1>3. ASSUME NEW k \in Key, RecordedQuery(k) PROVE Recency'
  <2> DEFINE b == key_hash[k]
  <2>1. b \in Bucket /\ key \in [Bucket -> [Position -> Key]] BY DEF TypeOK
  <2>2. key' = [key EXCEPT ![b] = InsertKey(key[b], k)] BY <1>3 DEF RecordedQuery, HandleQuery
  <2>3. since' = [j \in DOMAIN since \cup {k} |->
                   IF j = k THEN {}
                   ELSE since[j] \cup {i \in {k} : key_hash[i] = key_hash[j]}]
    BY <1>3 DEF RecordedQuery
  <2>4. DOMAIN since' \subseteq Key BY <2>3 DEF Recency
  <2>5. ASSUME NEW j \in DOMAIN since' PROVE RecencyOf(key'[key_hash[j]], since'[j], j)
    <3>1. CASE j = k
      <4>1. key'[key_hash[j]] = InsertKey(key[b], k) /\ since'[j] = {} BY <3>1, <2>1, <2>2, <2>3
      <4>q. QED BY <3>1, <4>1, RecencyOfFirst
    <3>2. CASE j # k
      <4>1. j \in DOMAIN since /\ j \in Key /\ RecencyOf(key[key_hash[j]], since[j], j)
        BY <2>3, <2>5, <3>2 DEF Recency
      <4>2. CASE key_hash[j] = b
        <5>1. key'[key_hash[j]] = InsertKey(key[b], k) /\ since'[j] = since[j] \cup {k}
          BY <4>1, <4>2, <3>2, <2>1, <2>2, <2>3
        <5>q. QED BY <5>1, <4>1, <4>2, <3>2, RecencyOfOther
      <4>3. CASE key_hash[j] # b
        <5>1. key'[key_hash[j]] = key[key_hash[j]] /\ since'[j] = since[j]
          BY <4>1, <4>3, <3>2, <2>1, <2>2, <2>3
        <5>q. QED BY <5>1, <4>1
      <4>q. QED BY <4>2, <4>3
    <3>q. QED BY <3>1, <3>2
  <2>q. QED BY <2>4, <2>5 DEF Recency
<1>q. QED BY <1>1, <1>2, <1>3 DEF PolicyNext

(* Replacement is exactly least-recently-used: whatever keys collide in a   *)
(* bucket, a queried key is in a register of its bucket if and only if      *)
(* fewer than three other keys of the bucket were queried since.            *)
THEOREM ReplacesLeastRecent == PolicySpec => []ExactLRU
<1>1. Recency => ExactLRU BY RecencyCounts DEF Recency, ExactLRU, Cached
<1>q. QED BY <1>1, RecencyInit, RecencyInductive, PolicyTyped, PTL DEF PolicySpec

-----------------------------------------------------------------------------
(***************************************************************************)
(* The testbed: the sender, the receiver and the cables between them.      *)
(***************************************************************************)
(* The packets on a cable, without their order. *)
Packets(link) == {link[i] : i \in DOMAIN link}

(* What the operations on a cable do to the packets on it. *)
LEMMA TakePacket ==
  ASSUME NEW s \in Seq(Message), s # <<>>
  PROVE  /\ Head(s) \in Message /\ Head(s) \in Packets(s)
         /\ Tail(s) \in Seq(Message)
         /\ Len(Tail(s)) = Len(s) - 1
         /\ Packets(s) = Packets(Tail(s)) \cup {Head(s)}
<1>1. Len(s) \in Nat \ {0} /\ DOMAIN s = 1..Len(s) OBVIOUS
<1>2. Head(s) = s[1] /\ s[1] \in Message BY <1>1
<1>3. /\ Tail(s) \in Seq(Message) /\ Len(Tail(s)) = Len(s) - 1
      /\ \A i \in 1..(Len(s) - 1) : Tail(s)[i] = s[i + 1]
  BY <1>1
<1>4. DOMAIN Tail(s) = 1..(Len(s) - 1) BY <1>3
<1>5. Packets(Tail(s)) \subseteq Packets(s) BY <1>1, <1>3, <1>4 DEF Packets
<1>6. ASSUME NEW i \in DOMAIN s PROVE s[i] \in Packets(Tail(s)) \cup {s[1]}
  <2>1. CASE i = 1 BY <2>1
  <2>2. CASE i # 1
    <3>1. i - 1 \in 1..(Len(s) - 1) /\ s[i] = Tail(s)[i - 1] BY <1>1, <1>3, <2>2
    <3>q. QED BY <3>1, <1>4 DEF Packets
  <2>q. QED BY <2>1, <2>2
<1>q. QED BY <1>1, <1>2, <1>3, <1>5, <1>6 DEF Packets

LEMMA PutPacket ==
  ASSUME NEW s \in Seq(Message), NEW m \in Message
  PROVE  /\ Append(s, m) \in Seq(Message)
         /\ Len(Append(s, m)) = Len(s) + 1
         /\ Packets(Append(s, m)) = Packets(s) \cup {m}
<1>1. Len(s) \in Nat /\ DOMAIN s = 1..Len(s) OBVIOUS
<1>2. /\ Append(s, m) \in Seq(Message) /\ Len(Append(s, m)) = Len(s) + 1
      /\ DOMAIN Append(s, m) = 1..(Len(s) + 1)
      /\ \A i \in 1..Len(s) : Append(s, m)[i] = s[i]
      /\ Append(s, m)[Len(s) + 1] = m
  BY <1>1
<1>3. Packets(Append(s, m)) \subseteq Packets(s) \cup {m}
  <2> SUFFICES ASSUME NEW i \in 1..(Len(s) + 1)
               PROVE  Append(s, m)[i] \in Packets(s) \cup {m}
    BY <1>2 DEF Packets
  <2>1. CASE i = Len(s) + 1 BY <2>1, <1>2
  <2>2. CASE i # Len(s) + 1
    <3>1. i \in 1..Len(s) BY <2>2, <1>1
    <3>q. QED BY <3>1, <1>1, <1>2 DEF Packets
  <2>q. QED BY <2>1, <2>2
<1>4. Packets(s) \subseteq Packets(Append(s, m)) BY <1>1, <1>2 DEF Packets
<1>5. m \in Packets(Append(s, m)) BY <1>1, <1>2 DEF Packets
<1>q. QED BY <1>2, <1>3, <1>4, <1>5

LEMMA Behind ==
  ASSUME NEW S, NEW s \in Seq(S), NEW n \in 0..Len(s)
  PROVE  /\ SubSeq(s, n + 1, Len(s)) \in Seq(S)
         /\ Len(SubSeq(s, n + 1, Len(s))) = Len(s) - n
         /\ \A i \in 1 .. Len(s) - n : SubSeq(s, n + 1, Len(s))[i] = s[i + n]
OBVIOUS

LEMMA DropPackets ==
  ASSUME NEW s \in Seq(Message), NEW n \in 0..Len(s)
  PROVE  /\ SubSeq(s, n + 1, Len(s)) \in Seq(Message)
         /\ Len(SubSeq(s, n + 1, Len(s))) = Len(s) - n
         /\ Packets(SubSeq(s, n + 1, Len(s))) \subseteq Packets(s)
<1> DEFINE t == SubSeq(s, n + 1, Len(s))
<1>1. Len(s) \in Nat /\ DOMAIN s = 1..Len(s) OBVIOUS
<1>2. /\ t \in Seq(Message) /\ Len(t) = Len(s) - n
      /\ \A i \in 1 .. Len(s) - n : t[i] = s[i + n]
  BY Behind
<1> HIDE DEF t
<1>3. ASSUME NEW i \in 1 .. Len(s) - n PROVE t[i] \in Packets(s)
  <2>1. i + n \in DOMAIN s /\ t[i] = s[i + n] BY <1>1, <1>2
  <2>q. QED BY <2>1 DEF Packets
<1>4. Packets(t) \subseteq Packets(s) BY <1>2, <1>3 DEF Packets
<1>q. QED BY <1>2, <1>4 DEF t

LEMMA NoPackets ==
  /\ Packets(<<>>) = {} /\ <<>> \in Seq(Message) /\ Len(<<>>) = 0
  /\ \A s \in Seq(Message) : Len(s) \in Nat /\ (Len(s) = 0 <=> s = <<>>)
BY DEF Packets

LEMMA KeysOfPackets ==
  ASSUME NEW s \in Seq(Message)
  PROVE  Keys(s) = {m.key : m \in Packets(s)}
BY DEF Keys, Packets

-----------------------------------------------------------------------------
(* The inductive invariant.  A key is cached in its own bucket; a packet    *)
(* that carries a value carries the server's entry for its key; and until   *)
(* the sender is restarted, at most one packet is under way, which is the   *)
(* query it waits for or the answer to that query.                          *)
KeysAtHome ==
  \A b \in Bucket, p \in Position :
     key[b][p] # Cleared => key_hash[key[b][p]] = b

PacketsRight ==
  /\ \A m \in Packets(toServer) : m.type = Query
  /\ \A m \in Packets(fromServer) : m.value = TableEntry(m.key)
  /\ \A m \in Packets(down) : m.type = QueryBack /\ m.value = TableEntry(m.key)

UnderWay == Len(up) + Len(toServer) + Len(fromServer) + Len(down)
InTransit == Packets(up) \cup Packets(toServer) \cup Packets(fromServer) \cup Packets(down)

OneUnderWay ==
  restarts = 0 => /\ UnderWay <= (IF sender.waiting THEN 1 ELSE 0)
                  /\ \A m \in InTransit : m.key = sender.key

(* Every placeholder waits for a packet that is still under way. *)
Fetched ==
  \A b \in Bucket, p \in Position :
     /\ key[b][p] \notin lost \cup {Cleared}
     /\ ValueAt(b, p) = 0
     => \E m \in Packets(toServer) \cup Packets(fromServer) : m.key = key[b][p]

(* The sender waits for something that is still under way. *)
NotStuck == sender.waiting /\ lost = {} => UnderWay # 0

SystemInv ==
  /\ SystemTypeOK /\ Inv /\ KeysAtHome
  /\ PacketsRight /\ OneUnderWay /\ Fetched /\ NotStuck

LEMMA SystemInvInit == SystemInit => SystemInv
<1> SUFFICES ASSUME SystemInit PROVE SystemInv OBVIOUS
<1> USE DEF SystemInit
<1>1. Inv BY InvInit
<1>2. SystemTypeOK
  <2>1. TypeOK BY <1>1 DEF Inv
  <2>q. QED
    BY <2>1, NoPackets, KeyAssumption, PreloadedAssumption, BoundsAssumption
       DEF SystemTypeOK, Idle
<1>3. KeysAtHome BY DEF Init, KeysAtHome
<1>4. PacketsRight BY NoPackets DEF PacketsRight
<1>5. OneUnderWay BY NoPackets DEF OneUnderWay, UnderWay, InTransit, Idle
<1>6. Fetched BY DEF Init, Fetched
<1>7. NotStuck BY DEF NotStuck, Idle
<1>q. QED BY <1>1, <1>2, <1>3, <1>4, <1>5, <1>6, <1>7 DEF SystemInv

(* Whatever the testbed does, the switch takes one of its own steps: the    *)
(* answers it is handed are the ones of the server's table.                 *)
LEMMA SwitchSteps == SystemInv /\ [SystemNext]_vars => [Next]_switchVars
<1> SUFFICES ASSUME SystemInv, [SystemNext]_vars PROVE [Next]_switchVars
  OBVIOUS
<1> USE DEF SystemInv
<1>1. CASE SwitchFromClient
  <2>1. Head(up).key \in Key
    BY <1>1, TakePacket DEF SwitchFromClient, SystemTypeOK, Message
  <2>q. QED BY <1>1, <2>1 DEF SwitchFromClient, Next
<1>2. CASE SwitchFromServer
  <2>1. /\ Head(fromServer).key \in Key
        /\ Head(fromServer).value = TableEntry(Head(fromServer).key)
    BY <1>2, TakePacket DEF SwitchFromServer, SystemTypeOK, Message, PacketsRight
  <2>q. QED BY <1>2, <2>1 DEF SwitchFromServer, Next
<1>3. CASE ~(SwitchFromClient \/ SwitchFromServer)
  <2>1. UNCHANGED switchVars
    BY <1>3 DEF SystemNext, vars, switchVars, SendQuery, ReceiveAnswer,
                RestartSender, ServeQuery, LosePacket
  <2>q. QED BY <2>1
<1>q. QED BY <1>1, <1>2, <1>3

(* A key stays in its own bucket: an insertion only moves the keys of the   *)
(* bucket its key hashes to.                                                *)
LEMMA HomeKept == Inv /\ KeysAtHome /\ [Next]_switchVars => KeysAtHome'
<1> USE HashAssumption
<1> SUFFICES ASSUME Inv, KeysAtHome, [Next]_switchVars,
                    NEW c \in Bucket, NEW p \in Position, key'[c][p] # Cleared
             PROVE  key_hash[key'[c][p]] = c
  BY DEF KeysAtHome
<1>1. ASSUME NEW k \in Key, HandleQuery(k) PROVE key_hash[key'[c][p]] = c
  <2> DEFINE b == key_hash[k]
             t == Tsm(key[b], k)
  <2>1. b \in Bucket /\ t \in 1..4 BY TsmType
  <2>2. CASE c # b BY <1>1, <2>2, QueryEffect DEF Inv, KeysAtHome
  <2>3. CASE c = b
    <3>1. key'[b][p] = IF p = 1 THEN k ELSE key[b][Origin(t, p)]
      BY <1>1, QueryEffect, InsertKeyAt DEF Inv
    <3>2. Origin(t, p) \in Position BY <2>1, OriginType
    <3>q. QED BY <2>1, <2>3, <3>1, <3>2 DEF KeysAtHome
  <2>q. QED BY <2>2, <2>3
<1>2. CASE UNCHANGED key BY <1>2 DEF KeysAtHome
<1>q. QED BY <1>1, <1>2 DEF Next, HandleQueryBack, switchVars

(* A placeholder after a query was one before it, or its query has just     *)
(* been forwarded to the server.                                            *)
LEMMA QueryPlaceholders ==
  ASSUME Inv, NEW k \in Key, HandleQuery(k),
         NEW c \in Bucket, NEW p \in Position, ValueAt(c, p)' = 0
  PROVE  \/ key'[c][p] = k /\ out'.to = Server
         \/ \E q \in Position : key[c][q] = key'[c][p] /\ ValueAt(c, q) = 0
<1> USE HashAssumption DEF Inv
<1> DEFINE b == key_hash[k]
           t == Tsm(key[b], k)
<1>1. b \in Bucket /\ t \in 1..4 BY TsmType
<1>2. key'[b][p] = IF p = 1 THEN k ELSE key[b][Origin(t, p)]
  BY QueryEffect, InsertKeyAt
<1>3. CASE c # b BY <1>3, QueryEffect
<1>4. CASE c = b /\ p = 1
  <2>1. t # 4 => ValueAt(b, t) = 0 BY <1>4, QueryEffect DEF Origin
  <2>q. QED BY <1>2, <1>4, <2>1, QueryEffect
<1>5. CASE c = b /\ p # 1
  <2>1. Origin(t, p) \in Position BY <1>1, OriginType
  <2>2. ValueAt(b, Origin(t, p)) = 0 BY <1>5, QueryEffect
  <2>q. QED BY <1>2, <1>5, <2>1, <2>2
<1>q. QED BY <1>3, <1>4, <1>5

(* A placeholder after the answer for key k was one before it and is of     *)
(* another key: k is cached in one position at most and that one is filled. *)
LEMMA BackPlaceholders ==
  ASSUME Inv, KeysAtHome, NEW k \in Key, HandleQueryBack(k, TableEntry(k)),
         NEW c \in Bucket, NEW p \in Position,
         ValueAt(c, p)' = 0, key[c][p] # Cleared
  PROVE  key[c][p] # k /\ ValueAt(c, p) = 0
<1> USE HashAssumption DEF Inv
<1> DEFINE b == key_hash[k]
           t == Tsm(key[b], k)
<1>1. b \in Bucket /\ t \in 1..4 /\ TableEntry(k) \in Key BY TsmType DEF TableEntry
<1>2. ValueAt(c, p)' = IF c = b /\ p = t THEN TableEntry(k) ELSE ValueAt(c, p)
  BY <1>1, BackEffect
<1>3. ASSUME key[c][p] = k PROVE FALSE
  <2>1. c = b BY <1>3 DEF KeysAtHome
  <2>2. t # 4 /\ key[b][t] = k BY <1>3, <2>1, TsmMeaning
  <2>3. p = t
    BY <1>1, <1>3, <2>1, <2>2 DEF KeysDistinct, Position
  <2>q. QED BY <1>2, <1>3, <2>1, <2>3 DEF TableEntry, Cleared
<1>4. ~(c = b /\ p = t) BY <1>3, TsmMeaning DEF Position
<1>q. QED BY <1>2, <1>3, <1>4

-----------------------------------------------------------------------------
(* The parts of the invariant that the cables and hosts share. *)
CablesInv ==
  SystemTypeOK /\ PacketsRight /\ OneUnderWay /\ Fetched /\ NotStuck

LEMMA SendKeeps ==
  ASSUME SystemInv, Inv', NEW k \in Key, SendQuery(k)
  PROVE  CablesInv'
<1> DEFINE m == [type |-> Query, key |-> k, value |-> Cleared]
<1> USE DEF SystemInv, SendQuery
<1>1. m \in Message BY KeyAssumption DEF Message
<1>2. /\ up \in Seq(Message) /\ up' = Append(up, m)
      /\ Packets(up') = Packets(up) \cup {m} /\ Len(up') = Len(up) + 1
      /\ up' \in Seq(Message)
  BY <1>1, PutPacket DEF SystemTypeOK
<1>3. Len(up) \in Nat /\ Len(toServer) \in Nat /\ Len(fromServer) \in Nat /\ Len(down) \in Nat
  BY NoPackets DEF SystemTypeOK
<1>4. SystemTypeOK'
  BY <1>2, BoundsAssumption DEF SystemTypeOK, Inv
<1>5. PacketsRight' BY DEF PacketsRight
<1>6. OneUnderWay'
  <2> SUFFICES ASSUME restarts = 0
               PROVE  UnderWay' <= 1 /\ \A n \in InTransit' : n.key = k
    BY DEF OneUnderWay
  <2>1. UnderWay <= 0 BY DEF OneUnderWay
  <2>2. up = <<>> /\ toServer = <<>> /\ fromServer = <<>> /\ down = <<>>
    BY <2>1, <1>3, NoPackets DEF UnderWay, SystemTypeOK
  <2>3. InTransit' = {m} BY <2>2, <1>2, NoPackets DEF InTransit
  <2>q. QED BY <2>1, <2>3, <1>2, <1>3 DEF UnderWay
<1>7. Fetched' BY DEF Fetched, switchVars, ValueAt
<1>8. NotStuck' BY <1>2, <1>3 DEF NotStuck, UnderWay
<1>q. QED BY <1>4, <1>5, <1>6, <1>7, <1>8 DEF CablesInv

LEMMA ReceiveKeeps ==
  ASSUME SystemInv, Inv', ReceiveAnswer
  PROVE  CablesInv'
<1> USE DEF SystemInv, ReceiveAnswer
<1>1. /\ down \in Seq(Message) /\ down' \in Seq(Message)
      /\ Packets(down') \subseteq Packets(down) /\ Len(down') = Len(down) - 1
  BY TakePacket DEF SystemTypeOK
<1>3. Len(up) \in Nat /\ Len(toServer) \in Nat /\ Len(fromServer) \in Nat /\ Len(down) \in Nat
  BY NoPackets DEF SystemTypeOK
<1>4. SystemTypeOK'
  BY <1>1, KeyAssumption DEF SystemTypeOK, Inv, Idle
<1>5. PacketsRight' BY <1>1 DEF PacketsRight
<1>6. OneUnderWay'
  <2> SUFFICES ASSUME restarts = 0
               PROVE  UnderWay' <= 0 /\ InTransit' = {}
    BY DEF OneUnderWay, Idle
  <2>1. UnderWay <= 1 /\ UnderWay' = UnderWay - 1
    BY <1>1, <1>3 DEF OneUnderWay, UnderWay
  <2>2. up' = <<>> /\ toServer' = <<>> /\ fromServer' = <<>> /\ down' = <<>>
    BY <2>1, <1>1, <1>3, NoPackets DEF UnderWay, SystemTypeOK
  <2>3. InTransit' = {} BY <2>2, NoPackets DEF InTransit
  <2>4. UnderWay' = 0
    <3> HIDE DEF ReceiveAnswer, SystemInv
    <3>1. Len(up') = 0 /\ Len(toServer') = 0 /\ Len(fromServer') = 0 /\ Len(down') = 0
      BY <2>2, NoPackets
    <3>q. QED BY <3>1 DEF UnderWay
  <2>q. QED BY <2>3, <2>4
<1>7. Fetched' BY DEF Fetched, switchVars, ValueAt
<1>8. NotStuck' BY DEF NotStuck, Idle
<1>q. QED BY <1>4, <1>5, <1>6, <1>7, <1>8 DEF CablesInv

LEMMA RestartKeeps ==
  ASSUME SystemInv, Inv', RestartSender
  PROVE  CablesInv'
<1> USE DEF SystemInv, RestartSender
<1>1. /\ down' \in Seq(Message) /\ Packets(down') \subseteq Packets(down)
  BY DropPackets DEF SystemTypeOK
<1>4. SystemTypeOK'
  BY <1>1, KeyAssumption, BoundsAssumption DEF SystemTypeOK, Inv, Idle
<1>5. PacketsRight' BY <1>1 DEF PacketsRight
<1>6. OneUnderWay' BY DEF OneUnderWay, SystemTypeOK
<1>7. Fetched' BY DEF Fetched, switchVars, ValueAt
<1>8. NotStuck' BY DEF NotStuck, Idle
<1>q. QED BY <1>4, <1>5, <1>6, <1>7, <1>8 DEF CablesInv

LEMMA ServeKeeps ==
  ASSUME SystemInv, Inv', ServeQuery
  PROVE  CablesInv'
<1> USE DEF SystemInv, ServeQuery
<1> DEFINE k == Head(toServer).key
           m == [type |-> QueryBack, key |-> k, value |-> TableEntry(k)]
<1>1. /\ toServer \in Seq(Message) /\ fromServer \in Seq(Message)
      /\ toServer' \in Seq(Message) /\ Len(toServer') = Len(toServer) - 1
      /\ Packets(toServer) = Packets(toServer') \cup {Head(toServer)}
      /\ Head(toServer) \in Message
  BY TakePacket DEF SystemTypeOK
<1>2. k \in Key /\ m \in Message BY <1>1 DEF Message, TableEntry
<1>a. table' = [table EXCEPT ![k] = TableEntry(k)] /\ table \in [Key -> Key]
  BY DEF SystemTypeOK
<1>b. table'[k] = TableEntry(k) /\ table' \in [Key -> Key]
  BY <1>a, <1>2 DEF TableEntry
<1>3. /\ fromServer' = Append(fromServer, m)
      /\ fromServer' \in Seq(Message) /\ Len(fromServer') = Len(fromServer) + 1
      /\ Packets(fromServer') = Packets(fromServer) \cup {m}
  BY <1>b, <1>1, <1>2, PutPacket
<1>c. Len(up) \in Nat /\ Len(toServer) \in Nat /\ Len(fromServer) \in Nat /\ Len(down) \in Nat
  BY NoPackets DEF SystemTypeOK
<1>d. UnderWay' = UnderWay BY <1>1, <1>3, <1>c DEF UnderWay
<1>4. SystemTypeOK' BY <1>b, <1>1, <1>3 DEF SystemTypeOK, Inv
<1>5. PacketsRight' BY <1>1, <1>3 DEF PacketsRight
<1>6. OneUnderWay' BY <1>1, <1>3, <1>d DEF OneUnderWay, InTransit
<1>7. Fetched' BY <1>1, <1>3 DEF Fetched, switchVars, ValueAt
<1>8. NotStuck' BY <1>d DEF NotStuck
<1>q. QED BY <1>4, <1>5, <1>6, <1>7, <1>8 DEF CablesInv

(* A packet of a switch step is what the switch sends for it, and a query   *)
(* that is not answered from the cache is forwarded.                        *)
LEMMA Delivered ==
  ASSUME SystemInv, Inv', Deliver(out')
  PROVE  \E m \in Message :
           /\ m.key = out'.key /\ m.type = out'.type /\ m.value = out'.value
           /\ \/ /\ out'.to = Client
                 /\ m.value = TableEntry(m.key)
                 /\ toServer' = toServer /\ down' = Append(down, m)
                 /\ down' \in Seq(Message) /\ Len(down') = Len(down) + 1
                 /\ Packets(down') = Packets(down) \cup {m}
              \/ /\ out'.to = Server
                 /\ down' = down /\ toServer' = Append(toServer, m)
                 /\ toServer' \in Seq(Message) /\ Len(toServer') = Len(toServer) + 1
                 /\ Packets(toServer') = Packets(toServer) \cup {m}
<1> DEFINE m == [type |-> out'.type, key |-> out'.key, value |-> out'.value]
<1>1. out' \in Packet /\ AnswerCorrect' BY DEF Inv, TypeOK
<1>2. m \in Message BY <1>1 DEF Packet, Message
<1>3. down \in Seq(Message) /\ toServer \in Seq(Message)
  BY DEF SystemInv, SystemTypeOK
<1>4. CASE out'.to = Client
  <2>1. toServer' = toServer /\ down' = Append(down, m) BY <1>4 DEF Deliver
  <2>2. m.value = TableEntry(m.key) BY <1>1, <1>4 DEF AnswerCorrect
  <2>q. QED BY <1>2, <1>3, <1>4, <2>1, <2>2, PutPacket
<1>5. CASE out'.to = Server
  <2>1. down' = down /\ toServer' = Append(toServer, m)
    BY <1>5 DEF Deliver, Client, Server
  <2>q. QED BY <1>2, <1>3, <1>5, <2>1, PutPacket
<1>q. QED BY <1>1, <1>4, <1>5 DEF Packet

LEMMA ClientPacketKeeps ==
  ASSUME SystemInv, Inv', SwitchFromClient
  PROVE  CablesInv'
<1> USE DEF SystemInv, SwitchFromClient
<1> DEFINE k == Head(up).key
<1>1. /\ up \in Seq(Message) /\ up' \in Seq(Message) /\ Len(up') = Len(up) - 1
      /\ Packets(up) = Packets(up') \cup {Head(up)} /\ Head(up) \in Message
  BY TakePacket DEF SystemTypeOK
<1>2. k \in Key /\ HandleQuery(k) BY <1>1 DEF Message
<1>3. /\ out'.key = k
      /\ out'.type = IF out'.to = Client THEN QueryBack ELSE Query
  BY <1>2, QueryEffect DEF Inv, Client, Server
<1>4. PICK m \in Message :
        /\ m.key = k
        /\ \/ /\ out'.to = Client
              /\ m.type = QueryBack /\ m.value = TableEntry(m.key)
              /\ toServer' = toServer
              /\ down' \in Seq(Message) /\ Len(down') = Len(down) + 1
              /\ Packets(down') = Packets(down) \cup {m}
           \/ /\ out'.to = Server
              /\ m.type = Query
              /\ down' = down
              /\ toServer' \in Seq(Message) /\ Len(toServer') = Len(toServer) + 1
              /\ Packets(toServer') = Packets(toServer) \cup {m}
  BY <1>3, Delivered DEF Client, Server
<1>5. Len(up) \in Nat /\ Len(toServer) \in Nat /\ Len(fromServer) \in Nat /\ Len(down) \in Nat
  BY NoPackets DEF SystemTypeOK
<1>6. UnderWay' = UnderWay
  <2>1. fromServer' = fromServer OBVIOUS
  <2> HIDE DEF SwitchFromClient, SystemInv
  <2>q. QED BY <1>1, <1>4, <1>5, <2>1 DEF UnderWay
<1>7. SystemTypeOK' BY <1>1, <1>4 DEF SystemTypeOK, Inv, hostVars
<1>8. PacketsRight' BY <1>4 DEF PacketsRight
<1>9. OneUnderWay'
  <2>1. \A n \in InTransit' : n \in InTransit \/ n.key = k BY <1>1, <1>4 DEF InTransit
  <2>2. Head(up) \in InTransit BY <1>1 DEF InTransit
  <2>q. QED BY <1>6, <2>1, <2>2 DEF OneUnderWay, hostVars
<1>10. Fetched'
  <2> SUFFICES ASSUME NEW c \in Bucket, NEW p \in Position,
                      key'[c][p] \notin lost \cup {Cleared}, ValueAt(c, p)' = 0
               PROVE  \E n \in Packets(toServer') \cup Packets(fromServer') :
                         n.key = key'[c][p]
    BY DEF Fetched
  <2>1. CASE key'[c][p] = k /\ out'.to = Server BY <2>1, <1>4 DEF Client, Server
  <2>2. CASE \E q \in Position : key[c][q] = key'[c][p] /\ ValueAt(c, q) = 0
    BY <2>2, <1>4 DEF Fetched
  <2>q. QED BY <1>2, <2>1, <2>2, QueryPlaceholders
<1>11. NotStuck' BY <1>6 DEF NotStuck, hostVars
<1>q. QED BY <1>7, <1>8, <1>9, <1>10, <1>11 DEF CablesInv

LEMMA ServerPacketKeeps ==
  ASSUME SystemInv, Inv', SwitchFromServer
  PROVE  CablesInv'
<1> USE DEF SystemInv, SwitchFromServer
<1> DEFINE k == Head(fromServer).key
<1>1. /\ fromServer \in Seq(Message) /\ fromServer' \in Seq(Message)
      /\ Len(fromServer') = Len(fromServer) - 1
      /\ Packets(fromServer) = Packets(fromServer') \cup {Head(fromServer)}
      /\ Head(fromServer) \in Message
  BY TakePacket DEF SystemTypeOK
<1>2. k \in Key /\ HandleQueryBack(k, TableEntry(k))
  BY <1>1 DEF Message, PacketsRight
<1>3. out' = [to |-> Client, type |-> QueryBack, key |-> k, value |-> TableEntry(k)]
  BY <1>2 DEF HandleQueryBack
<1>4. PICK m \in Message :
        /\ m.key = k /\ m.type = QueryBack /\ m.value = TableEntry(m.key)
        /\ toServer' = toServer
        /\ down' \in Seq(Message) /\ Len(down') = Len(down) + 1
        /\ Packets(down') = Packets(down) \cup {m}
  BY <1>3, Delivered DEF Client, Server
<1>5. Len(up) \in Nat /\ Len(toServer) \in Nat /\ Len(fromServer) \in Nat /\ Len(down) \in Nat
  BY NoPackets DEF SystemTypeOK
<1>6. UnderWay' = UnderWay
  <2>1. up' = up OBVIOUS
  <2> HIDE DEF SwitchFromServer, SystemInv
  <2>q. QED BY <1>1, <1>4, <1>5, <2>1 DEF UnderWay
<1>7. SystemTypeOK' BY <1>1, <1>4 DEF SystemTypeOK, Inv, hostVars
<1>8. PacketsRight' BY <1>1, <1>4 DEF PacketsRight
<1>9. OneUnderWay'
  <2>1. \A n \in InTransit' : n \in InTransit \/ n.key = k BY <1>1, <1>4 DEF InTransit
  <2>2. Head(fromServer) \in InTransit BY <1>1 DEF InTransit
  <2>q. QED BY <1>6, <2>1, <2>2 DEF OneUnderWay, hostVars
<1>10. Fetched'
  <2> SUFFICES ASSUME NEW c \in Bucket, NEW p \in Position,
                      key'[c][p] \notin lost \cup {Cleared}, ValueAt(c, p)' = 0
               PROVE  \E n \in Packets(toServer') \cup Packets(fromServer') :
                         n.key = key'[c][p]
    BY DEF Fetched
  <2>1. key' = key BY <1>2 DEF HandleQueryBack
  <2>2. key[c][p] # k /\ ValueAt(c, p) = 0 BY <1>2, <2>1, BackPlaceholders
  <2>3. PICK n \in Packets(toServer) \cup Packets(fromServer) : n.key = key[c][p]
    BY <2>1, <2>2 DEF Fetched
  <2>q. QED BY <1>1, <1>4, <2>1, <2>2, <2>3
<1>11. NotStuck' BY <1>6 DEF NotStuck, hostVars
<1>q. QED BY <1>7, <1>8, <1>9, <1>10, <1>11 DEF CablesInv

LEMMA LoseKeeps ==
  ASSUME SystemInv, Inv', LosePacket
  PROVE  CablesInv'
<1> USE DEF SystemInv
<1>1. Len(up) \in Nat /\ Len(toServer) \in Nat /\ Len(fromServer) \in Nat /\ Len(down) \in Nat
  BY NoPackets DEF SystemTypeOK
<1>2. /\ {up', toServer', fromServer', down'} \subseteq Seq(Message)
      /\ Packets(up') \subseteq Packets(up)
      /\ Packets(down') \subseteq Packets(down)
      /\ \A n \in Packets(toServer) : n \in Packets(toServer') \/ n.key \in lost'
      /\ \A n \in Packets(fromServer) : n \in Packets(fromServer') \/ n.key \in lost'
      /\ Packets(toServer') \subseteq Packets(toServer)
      /\ Packets(fromServer') \subseteq Packets(fromServer)
      /\ UnderWay' = UnderWay - 1
      /\ lost \subseteq lost' /\ lost' \subseteq Key /\ lost' # {}
      /\ UNCHANGED <<switchVars, hostVars>>
  <2> DEFINE Lost(link) == /\ link \in Seq(Message) /\ link # <<>>
                           /\ lost' = lost \cup {Head(link).key}
  <2>1. {up, toServer, fromServer, down} \subseteq Seq(Message) /\ lost \subseteq Key
    BY DEF SystemTypeOK
  <2>2. CASE Lose(up) /\ up' = Tail(up)
               /\ UNCHANGED <<switchVars, hostVars, toServer, fromServer, down>>
    <3>1. /\ up' \in Seq(Message) /\ Len(up') = Len(up) - 1
          /\ Packets(up) = Packets(up') \cup {Head(up)} /\ Head(up) \in Message
      BY <2>1, <2>2, TakePacket DEF Lose
    <3>2. UnderWay' = UnderWay - 1 BY <1>1, <2>2, <3>1 DEF UnderWay
    <3>q. QED BY <2>1, <2>2, <3>1, <3>2 DEF Lose, Message
  <2>3. CASE Lose(toServer) /\ toServer' = Tail(toServer)
               /\ UNCHANGED <<switchVars, hostVars, up, fromServer, down>>
    <3>1. /\ toServer' \in Seq(Message) /\ Len(toServer') = Len(toServer) - 1
          /\ Packets(toServer) = Packets(toServer') \cup {Head(toServer)}
          /\ Head(toServer) \in Message
      BY <2>1, <2>3, TakePacket DEF Lose
    <3>2. UnderWay' = UnderWay - 1 BY <1>1, <2>3, <3>1 DEF UnderWay
    <3>q. QED BY <2>1, <2>3, <3>1, <3>2 DEF Lose, Message
  <2>4. CASE Lose(fromServer) /\ fromServer' = Tail(fromServer)
               /\ UNCHANGED <<switchVars, hostVars, up, toServer, down>>
    <3>1. /\ fromServer' \in Seq(Message) /\ Len(fromServer') = Len(fromServer) - 1
          /\ Packets(fromServer) = Packets(fromServer') \cup {Head(fromServer)}
          /\ Head(fromServer) \in Message
      BY <2>1, <2>4, TakePacket DEF Lose
    <3>2. UnderWay' = UnderWay - 1 BY <1>1, <2>4, <3>1 DEF UnderWay
    <3>q. QED BY <2>1, <2>4, <3>1, <3>2 DEF Lose, Message
  <2>5. CASE Lose(down) /\ down' = Tail(down)
               /\ UNCHANGED <<switchVars, hostVars, up, toServer, fromServer>>
    <3>1. /\ down' \in Seq(Message) /\ Len(down') = Len(down) - 1
          /\ Packets(down) = Packets(down') \cup {Head(down)} /\ Head(down) \in Message
      BY <2>1, <2>5, TakePacket DEF Lose
    <3>2. UnderWay' = UnderWay - 1 BY <1>1, <2>5, <3>1 DEF UnderWay
    <3>q. QED BY <2>1, <2>5, <3>1, <3>2 DEF Lose, Message
  <2>q. QED BY <2>2, <2>3, <2>4, <2>5 DEF LosePacket
<1>3. SystemTypeOK' BY <1>2 DEF SystemTypeOK, Inv, hostVars
<1>4. PacketsRight' BY <1>2 DEF PacketsRight
<1>5. OneUnderWay' BY <1>1, <1>2 DEF OneUnderWay, InTransit, UnderWay, hostVars
<1>6. Fetched' BY <1>2 DEF Fetched, switchVars, ValueAt
<1>7. NotStuck' BY <1>2 DEF NotStuck
<1>q. QED BY <1>3, <1>4, <1>5, <1>6, <1>7 DEF CablesInv

LEMMA SystemInvInductive == SystemInv /\ [SystemNext]_vars => SystemInv'
<1> SUFFICES ASSUME SystemInv, [SystemNext]_vars PROVE SystemInv' OBVIOUS
<1>1. [Next]_switchVars BY SwitchSteps
<1>2. Inv' BY <1>1, InvInductive DEF SystemInv
<1>3. KeysAtHome' BY <1>1, HomeKept DEF SystemInv
<1>4. CablesInv'
  <2>1. ASSUME NEW k \in Key, SendQuery(k) PROVE CablesInv'
    BY <2>1, <1>2, SendKeeps
  <2>2. CASE ReceiveAnswer BY <2>2, <1>2, ReceiveKeeps
  <2>3. CASE RestartSender BY <2>3, <1>2, RestartKeeps
  <2>4. CASE SwitchFromClient BY <2>4, <1>2, ClientPacketKeeps
  <2>5. CASE SwitchFromServer BY <2>5, <1>2, ServerPacketKeeps
  <2>6. CASE ServeQuery BY <2>6, <1>2, ServeKeeps
  <2>7. CASE LosePacket BY <2>7, <1>2, LoseKeeps
  <2>8. CASE UNCHANGED vars
    BY <2>8, <1>2 DEF vars, SystemInv, CablesInv, SystemTypeOK, Inv, PacketsRight,
                      OneUnderWay, UnderWay, InTransit, Fetched, NotStuck, ValueAt
  <2>q. QED BY <2>1, <2>2, <2>3, <2>4, <2>5, <2>6, <2>7, <2>8 DEF SystemNext
<1>q. QED BY <1>2, <1>3, <1>4 DEF SystemInv, CablesInv

LEMMA SystemInvHolds == SystemSpec => []SystemInv
BY SystemInvInit, SystemInvInductive, PTL DEF SystemSpec

-----------------------------------------------------------------------------
(* What the cables and the hosts hold stays well formed: the server is      *)
(* handed queries only, as recver.cc asserts, and the sender answers only,  *)
(* each with the server's entry for its own key, whatever evictions,        *)
(* restarts and losses lie between a query and its answer.                  *)
THEOREM CablesSound == SystemSpec => []LinksSound
<1>1. SystemInv => LinksSound
  <2> SUFFICES ASSUME SystemInv PROVE LinksSound OBVIOUS
  <2>1. LinksWellFormed
    BY DEF SystemInv, PacketsRight, LinksWellFormed, Packets
  <2>q. QED BY <2>1 DEF SystemInv, LinksSound
<1>q. QED BY <1>1, SystemInvHolds, PTL

(* A sender that was never restarted takes the answer to its own query,     *)
(* although it compares no key: nothing else is under way.                  *)
THEOREM SenderGetsItsAnswer == SystemSpec => []AnswerIsForQuery
<1>1. SystemInv => AnswerIsForQuery
  <2> SUFFICES ASSUME SystemInv, restarts = 0, NEW i \in DOMAIN down
               PROVE  sender.waiting /\ down[i].key = sender.key
    BY DEF AnswerIsForQuery
  <2>1. down[i] \in InTransit BY DEF InTransit, Packets
  <2>2. Len(up) \in Nat /\ Len(toServer) \in Nat /\ Len(fromServer) \in Nat
    BY NoPackets DEF SystemInv, SystemTypeOK
  <2>3. Len(down) \in Nat \ {0} BY DEF SystemInv, SystemTypeOK
  <2>4. UnderWay \in Nat \ {0} BY <2>2, <2>3 DEF UnderWay
  <2>5. sender.waiting BY <2>4 DEF SystemInv, OneUnderWay
  <2>q. QED BY <2>1, <2>5 DEF SystemInv, OneUnderWay
<1>q. QED BY <1>1, SystemInvHolds, PTL

(* A placeholder is always being fetched: between switch and server there   *)
(* is a packet of its key, unless a packet of that key was lost.            *)
THEOREM PlaceholdersFetched == SystemSpec => []PlaceholderIsPending
<1>1. SystemInv => PlaceholderIsPending
  <2> SUFFICES ASSUME SystemInv PROVE PlaceholderIsPending OBVIOUS
  <2>1. /\ Keys(toServer) = {m.key : m \in Packets(toServer)}
        /\ Keys(fromServer) = {m.key : m \in Packets(fromServer)}
    BY KeysOfPackets DEF SystemInv, SystemTypeOK
  <2>q. QED BY <2>1 DEF SystemInv, Fetched, PlaceholderIsPending
<1>q. QED BY <1>1, SystemInvHolds, PTL

(* The sender has no timeout and does not need one unless a packet is lost: *)
(* while it polls, its query or its answer is under way.                    *)
THEOREM SenderStuckOnlyByLoss == SystemSpec => []StuckOnlyByLoss
<1>1. SystemInv => StuckOnlyByLoss
  <2> SUFFICES ASSUME SystemInv, InFlight = <<>>, sender.waiting
               PROVE  lost # {}
    BY DEF StuckOnlyByLoss
  <2>1. {up, toServer, fromServer, down} \subseteq Seq(Message)
    BY DEF SystemInv, SystemTypeOK
  <2>2. Len(up) = 0 /\ Len(toServer) = 0 /\ Len(fromServer) = 0 /\ Len(down) = 0
    <3>1. Len(up) + Len(toServer) + Len(fromServer) + Len(down) = Len(InFlight)
      BY <2>1 DEF InFlight
    <3>q. QED BY <3>1, <2>1, NoPackets
  <2>q. QED BY <2>2 DEF SystemInv, NotStuck, UnderWay
<1>q. QED BY <1>1, SystemInvHolds, PTL

(* The testbed drives the switch only through its own steps, so everything  *)
(* proved of the switch alone holds of the whole testbed.                   *)
THEOREM SystemImplementsSwitch == SystemSpec => Spec
<1>1. SystemInit => Init BY DEF SystemInit
<1>q. QED BY <1>1, SwitchSteps, SystemInvHolds, PTL DEF SystemSpec, Spec
=============================================================================
