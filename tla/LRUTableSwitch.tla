--------------------------- MODULE LRUTableSwitch ---------------------------
(***************************************************************************)
(* The ingress control of lru_table.p4: one P4LRU unit per bucket caching  *)
(* the address table of the server.  Every packet is processed by one      *)
(* atomic step; LRUTablePipeline shows that the staged hardware pipeline   *)
(* implements this.                                                        *)
(***************************************************************************)
EXTENDS P4LRU

CONSTANTS Key,       \* the 32-bit keys in use; 0 is one of them
          Bucket,    \* the register indices
          key_hash   \* the CRC32 bucket of a key

ASSUME KeyAssumption  == Key \subseteq Nat /\ Cleared \in Key
ASSUME HashAssumption == key_hash \in [Key -> Bucket]

VARIABLES key,       \* key[b][p]: register key_p at index b
          reg_dfa,   \* reg_dfa[b]
          value,     \* value[b][s]: register value_s at index b
          out        \* the packet the last step sent

switchVars == <<key, reg_dfa, value, out>>

Query     == "0x0527"
QueryBack == "0x0529"
Client    == "client"   \* port 128
Server    == "server"   \* port 144

(* The address-table entry of a key: recver.cc stores and returns the key. *)
TableEntry(k) == k

Packet == [to : {Client, Server}, type : {Query, QueryBack}, key : Key, value : Key]
NoPacket == [to |-> Server, type |-> Query, key |-> Cleared, value |-> Cleared]

TypeOK ==
  /\ key     \in [Bucket -> [Position -> Key]]
  /\ reg_dfa \in [Bucket -> DfaState]
  /\ value   \in [Bucket -> [Slot -> Key]]
  /\ out     \in Packet

(* set_lru_table.py clears every register before traffic starts. *)
Init ==
  /\ key     = [b \in Bucket |-> [p \in Position |-> Cleared]]
  /\ reg_dfa = [b \in Bucket |-> 0]
  /\ value   = [b \in Bucket |-> [s \in Slot |-> Cleared]]
  /\ out     = NoPacket

(* A query of key k from the client's port.  The key is moved to or         *)
(* inserted at the front; a hit on a filled entry is answered from the      *)
(* cache, anything else is forwarded unchanged to the server.  The value    *)
(* field of a query is a destination address nobody reads: left at 0.       *)
HandleQuery(k) ==
  LET b      == key_hash[k]
      tsm    == Tsm(key[b], k)
      sta    == DfaNext(tsm, reg_dfa[b])
      slot   == QuerySlot(sta)
      cached == IF tsm = 4 THEN 0 ELSE value[b][slot]
  IN /\ key'     = [key EXCEPT ![b] = InsertKey(@, k)]
     /\ reg_dfa' = [reg_dfa EXCEPT ![b] = sta]
     /\ value'   = IF tsm = 4 THEN [value EXCEPT ![b][slot] = 0] ELSE value
     /\ out'     = IF cached # 0
                   THEN [to |-> Client, type |-> QueryBack, key |-> k, value |-> cached]
                   ELSE [to |-> Server, type |-> Query, key |-> k, value |-> Cleared]

(* Faulty variant of HandleQueryBack: only the front entry is filled. *)
HandleQueryBack_front(k, v) ==
  LET b == key_hash[k]
  IN /\ value' = IF key[b][1] # k THEN value
                 ELSE [value EXCEPT ![b][ReplaceSlot(1, reg_dfa[b])] = v]
     /\ out'   = [to |-> Client, type |-> QueryBack, key |-> k, value |-> v]
     /\ UNCHANGED <<key, reg_dfa>>

(* The server's answer v for key k: fills the entry of k if k is still      *)
(* cached, and goes on to the client.  Recency does not change.             *)
HandleQueryBack(k, v) ==
  LET b   == key_hash[k]
      tsm == Tsm(key[b], k)
  IN /\ value' = IF tsm = 4 THEN value
                 ELSE [value EXCEPT ![b][ReplaceSlot(tsm, reg_dfa[b])] = v]
     /\ out'   = [to |-> Client, type |-> QueryBack, key |-> k, value |-> v]
     /\ UNCHANGED <<key, reg_dfa>>

(* The switch alone, with any number of queries outstanding: any key may be *)
(* queried and any answer of the server may arrive at any time.             *)
Next ==
  \/ \E k \in Key : HandleQuery(k)
  \/ \E k \in Key : HandleQueryBack(k, TableEntry(k))

Spec == Init /\ [][Next]_switchVars

-----------------------------------------------------------------------------
(* The value register of the key in position p of bucket b. *)
ValueAt(b, p) == value[b][ReplaceSlot(p, reg_dfa[b])]

(* Every cached entry is its own key's: the value the DFA assigns to a key  *)
(* position is 0 (not yet answered) or the server's entry for exactly that  *)
(* key, however queries, evictions and late answers interleave.             *)
CachedValuesCorrect ==
  \A b \in Bucket, p \in Position : ValueAt(b, p) \in {0, TableEntry(key[b][p])}

(* No key other than the cleared value occupies two positions of a bucket,  *)
(* so a bucket never wastes an entry on a duplicate.                        *)
KeysDistinct ==
  \A b \in Bucket, p, q \in Position :
     p # q /\ key[b][p] = key[b][q] => key[b][p] = Cleared

(* An answer sent to the client carries the server's entry for its key. *)
AnswerCorrect == out.to = Client => out.value = TableEntry(out.key)

(* An entry of the abstract list: the key of position p with the value      *)
(* register the DFA assigns to position p.                                  *)
Cache == INSTANCE LRUCache
           WITH lru <- [b \in Bucket |->
                          [p \in Position |-> [key |-> key[b][p], value |-> ValueAt(b, p)]]]

(* The registers and the DFA implement the recency list: every packet has   *)
(* the effect and the output of the list's operation, and the DFA carries   *)
(* each value along with its key.                                           *)
ImplementsLRUCache == Cache!Spec
=============================================================================
