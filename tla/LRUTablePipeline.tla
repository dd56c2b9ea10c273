-------------------------- MODULE LRUTablePipeline --------------------------
(***************************************************************************)
(* lru_table.p4 as the hardware runs it: every register array lives in one *)
(* match-action stage, a packet touches the stages in order, and all       *)
(* stages work at the same time, each on another packet.  No packet sees   *)
(* all registers at one instant.                                           *)
(*                                                                         *)
(* pipe[i] is the packet about to execute stage i; stages 1, 2, 3 hold     *)
(* key_1, key_2, key_3 (hardware stages 1, 3, 5), stage 4 holds reg_dfa    *)
(* (hardware stage 7), stage 5 holds value_1 and value_2, stage 6 value_3  *)
(* (hardware stages 9 and 10).  The stages between them hold no register.  *)
(***************************************************************************)
EXTENDS P4LRU

CONSTANTS Key, Bucket, key_hash, MaxPackets

ASSUME KeyAssumption  == Key \subseteq Nat /\ Cleared \in Key
ASSUME HashAssumption == key_hash \in [Key -> Bucket]
ASSUME MaxPacketsAssumption == MaxPackets \in Nat

VARIABLES key,       \* key[p][b]: register key_p at index b
          reg_dfa,   \* reg_dfa[b]
          value,     \* value[s][b]: register value_s at index b
          out,       \* the packet that left the pipeline last
          pipe,      \* pipe[i]: the packet about to execute stage i
          packets    \* packets that have entered

vars == <<key, reg_dfa, value, out, pipe, packets>>

Query     == "0x0527"
QueryBack == "0x0529"
NoType    == "none"
Client    == "client"
Server    == "server"

Stage == 1..6
ValueStage == <<5, 5, 6>>   \* the stages of value_1, value_2, value_3

(* The packet header vector: the record header and the metadata.            *)
(* dfa_tsm is 0 until a key stage has found the key or stage 3 missed it;   *)
(* evt is what the last key stage read (meta.key_1..3), cached is           *)
(* meta.value.                                                              *)
Phv(type, k, v) ==
  [type |-> type, key |-> k, value |-> v, evt |-> 0, dfa_tsm |-> 0, dfa_sta |-> 0,
   cached |-> 0]
Bubble == Phv(NoType, 0, 0)

Input == {Phv(Query, k, 0) : k \in Key} \cup {Phv(QueryBack, k, k) : k \in Key}

Init ==
  /\ key     = [p \in Position |-> [b \in Bucket |-> Cleared]]
  /\ reg_dfa = [b \in Bucket |-> 0]
  /\ value   = [s \in Slot |-> [b \in Bucket |-> Cleared]]
  /\ out     = [to |-> Server, type |-> Query, key |-> 0, value |-> 0]
  /\ pipe    = [i \in Stage |-> Bubble]
  /\ packets = 0

-----------------------------------------------------------------------------
(* One clock tick on a machine state m = [key, reg_dfa, value, out, pipe].  *)
Index(h) == key_hash[h.key]

(* Key stage p: a query pushes, an answer only reads; a packet that found   *)
(* its key in an earlier stage passes by.                                   *)
KeyReg(m, p) ==
  LET h == m.pipe[p]
  IN IF h.type = Query /\ h.dfa_tsm = 0
     THEN [m.key[p] EXCEPT ![Index(h)] = IF p = 1 THEN h.key ELSE h.evt]
     ELSE m.key[p]

KeyPhv(m, p) ==
  LET h   == m.pipe[p]
      old == m.key[p][Index(h)]
  IN IF h.type # NoType /\ h.dfa_tsm = 0
     THEN [h EXCEPT !.evt = old,
                    !.dfa_tsm = IF old = h.key THEN p ELSE IF p = 3 THEN 4 ELSE 0]
     ELSE h

DfaReg(m) ==
  LET h == m.pipe[4]
  IN IF h.type = Query
     THEN [m.reg_dfa EXCEPT ![Index(h)] = DfaNext(h.dfa_tsm, @)]
     ELSE m.reg_dfa

DfaPhv(m) ==
  LET h == m.pipe[4]
  IN IF h.type = NoType THEN h ELSE [h EXCEPT !.dfa_sta = DfaReg(m)[Index(h)]]

(* Faulty variant of ValueReg: uses the DFA state of the moment, which a    *)
(* following packet may have changed, and not the one the packet carries.   *)
ValueReg_stale(m, s) ==
  LET h   == m.pipe[ValueStage[s]]
      sta == m.reg_dfa[Index(h)]
  IN CASE h.type = Query /\ h.dfa_tsm = 4 /\ s = QuerySlot(sta) ->
            [m.value[s] EXCEPT ![Index(h)] = 0]
       [] h.type = QueryBack /\ h.dfa_tsm # 4 /\ s = ReplaceSlot(h.dfa_tsm, sta) ->
            [m.value[s] EXCEPT ![Index(h)] = h.value]
       [] OTHER -> m.value[s]

(* Register value_s: a query that missed clears its entry, an answer fills  *)
(* the entry of its key.                                                    *)
ValueReg(m, s) ==
  LET h == m.pipe[ValueStage[s]]
  IN CASE h.type = Query /\ h.dfa_tsm = 4 /\ s = QuerySlot(h.dfa_sta) ->
            [m.value[s] EXCEPT ![Index(h)] = 0]
       [] /\ h.type = QueryBack /\ h.dfa_tsm # 4
          /\ s = ReplaceSlot(h.dfa_tsm, h.dfa_sta) ->
            [m.value[s] EXCEPT ![Index(h)] = h.value]
       [] OTHER -> m.value[s]

(* A query reads its entry; after a miss it reads 0. *)
ValuePhv(m, i) ==
  LET h    == m.pipe[i]
      slot == QuerySlot(h.dfa_sta)
  IN IF h.type = Query /\ h.dfa_tsm # 4 /\ ValueStage[slot] = i
     THEN [h EXCEPT !.cached = m.value[slot][Index(h)]]
     ELSE h

(* What leaves the last stage: meta.value decides between send_back and     *)
(* the port send_table chose.                                               *)
Emitted(m) ==
  LET h == ValuePhv(m, 6)
  IN CASE h.type = Query /\ h.cached # 0 ->
            [to |-> Client, type |-> QueryBack, key |-> h.key, value |-> h.cached]
       [] h.type = Query /\ h.cached = 0 ->
            [to |-> Server, type |-> Query, key |-> h.key, value |-> h.value]
       [] h.type = QueryBack ->
            [to |-> Client, type |-> QueryBack, key |-> h.key, value |-> h.value]
       [] OTHER -> m.out

Clock(m, in) ==
  [key     |-> <<KeyReg(m, 1), KeyReg(m, 2), KeyReg(m, 3)>>,
   reg_dfa |-> DfaReg(m),
   value   |-> <<ValueReg(m, 1), ValueReg(m, 2), ValueReg(m, 3)>>,
   out     |-> Emitted(m),
   pipe    |-> <<in, KeyPhv(m, 1), KeyPhv(m, 2), KeyPhv(m, 3), DfaPhv(m),
                 ValuePhv(m, 5)>>]

Machine == [key |-> key, reg_dfa |-> reg_dfa, value |-> value, out |-> out, pipe |-> pipe]

Tick(in) ==
  LET m == Clock(Machine, in)
  IN /\ key' = m.key /\ reg_dfa' = m.reg_dfa /\ value' = m.value
     /\ out' = m.out /\ pipe' = m.pipe

Enter(in) == packets < MaxPackets /\ packets' = packets + 1 /\ Tick(in)
Drain     == pipe # [i \in Stage |-> Bubble] /\ Tick(Bubble) /\ UNCHANGED packets

Next == (\E in \in Input : Enter(in)) \/ Drain

Spec == Init /\ [][Next]_vars

-----------------------------------------------------------------------------
(* The registers of bucket b across the stages. *)
Transpose(arrays) == [b \in Bucket |-> [i \in 1..3 |-> arrays[i][b]]]

(* The machine after the packets now inside have left it: six ticks on. *)
After(machines) == {Clock(m, Bubble) : m \in machines}
Flushed == CHOOSE m \in After(After(After(After(After(After({Machine})))))) : TRUE

Atomic == INSTANCE LRUTableSwitch
            WITH key <- Transpose(Flushed.key), reg_dfa <- Flushed.reg_dfa,
                 value <- Transpose(Flushed.value), out <- Flushed.out

(* Packets inside the pipeline do not interfere: whatever overlaps, the     *)
(* registers and the packets sent are those of packets processed one after  *)
(* the other, in the order in which they entered.                           *)
ImplementsAtomicSwitch == [][Atomic!Next]_(Atomic!switchVars)
=============================================================================
