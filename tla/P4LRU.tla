------------------------------- MODULE P4LRU -------------------------------
(***************************************************************************)
(* The three-entry LRU unit every switch program of the repository is      *)
(* built from, for one bucket.  The keys lie in the registers key_1,       *)
(* key_2, key_3 in order of recency.  The values never move: a DFA state   *)
(* in 0..5 encodes which value register belongs to which key position.     *)
(*                                                                         *)
(* The operators are the stateful-ALU programs of lru_table.p4 and the     *)
(* selections of its control flow; lru_mon.p4 and lru_index.p4 contain     *)
(* the same DFA programs.                                                  *)
(***************************************************************************)
EXTENDS Naturals

(* Register contents after set_lru_table.py clears a register.  A key       *)
(* register holding 0 is indistinguishable from one holding the key 0.      *)
Cleared == 0

Position == 1..3      \* key_1, key_2, key_3, most recently used first
Slot     == 1..3      \* value_1, value_2, value_3
DfaState == 0..5      \* the values of reg_dfa the DFA can reach

(* Bitwise xor with 1 and with 3 on naturals. *)
XorOne(n)   == IF n % 2 = 0 THEN n + 1 ELSE n - 1
XorThree(n) == 4 * (n \div 4) + (3 - (n % 4))

(* The reg_dfa programs: dfa_salu_1 only reads the state. *)
dfa_salu_1(s) == s
dfa_salu_2_faulty(s) == XorOne(s)                             \* no case split
dfa_salu_3_faulty(s) == IF s <= 2 THEN s + 4 ELSE s - 2       \* off by one
dfa_salu_2(s) == IF s >= 4 THEN XorOne(s) ELSE XorThree(s)
dfa_salu_3(s) == IF s <= 1 THEN s + 4 ELSE s - 2

(* meta.dfa_tsm: the first position that holds key k, 4 on a miss. *)
Tsm(keys, k) ==
  CASE keys[1] = k -> 1
    [] keys[1] # k /\ keys[2] = k -> 2
    [] keys[1] # k /\ keys[2] # k /\ keys[3] = k -> 3
    [] OTHER -> 4

(* Faulty variants of InsertKey: every register is pushed, also behind the  *)
(* one that held k; a hit leaves the order alone (first in, first out).     *)
InsertKey_all(keys, k) == [p \in Position |-> IF p = 1 THEN k ELSE keys[p - 1]]
InsertKey_fifo(keys, k) == IF Tsm(keys, k) = 4 THEN InsertKey_all(keys, k) ELSE keys

(* insert_key_1..3: k goes to key_1 and what each register held is pushed   *)
(* to the next one, until the register that held k has been overwritten.    *)
InsertKey(keys, k) ==
  [p \in Position |-> IF p = 1 THEN k
                      ELSE IF p <= Tsm(keys, k) THEN keys[p - 1]
                      ELSE keys[p]]

(* The DFA transition a query selects by meta.dfa_tsm. *)
DfaNext(tsm, s) ==
  CASE tsm = 1 -> dfa_salu_1(s)
    [] tsm = 2 -> dfa_salu_2(s)
    [] OTHER   -> dfa_salu_3(s)

(* Faulty variant of QuerySlot: two states swapped. *)
QuerySlot_swapped(sta) ==
  CASE sta \in {4, 0} -> 1
    [] sta \in {5, 1} -> 2
    [] OTHER          -> 3

(* The value register a query uses: the one of the key now in key_1. *)
QuerySlot(sta) ==
  CASE sta \in {4, 1} -> 1
    [] sta \in {5, 0} -> 2
    [] OTHER          -> 3

(* The value register of key position tsm in DFA state sta, as the chain    *)
(* of conditions of the query-back branch selects it.                       *)
ReplaceSlot(tsm, sta) ==
  CASE <<tsm, sta>> \in {<<1, 4>>, <<1, 1>>, <<2, 2>>, <<2, 5>>, <<3, 0>>, <<3, 3>>} -> 1
    [] <<tsm, sta>> \in {<<1, 5>>, <<1, 0>>, <<2, 4>>, <<2, 3>>, <<3, 2>>, <<3, 1>>} -> 2
    [] OTHER -> 3
=============================================================================
