---------------------------- MODULE LRUMonFilter ----------------------------
(***************************************************************************)
(* The first ingress control of lru_mon.p4: a filter that lets a packet    *)
(* into the LRU unit once its flow has sent enough bytes in the current    *)
(* time window.  Two layers count bytes per hash cell; each cell carries   *)
(* the stamp of the window it counts for and starts over when the stamp    *)
(* has changed.  A layer is one array here: the program splits it over two *)
(* registers by the top bit of the hash.                                   *)
(*                                                                         *)
(* Counters and stamps are 16 bits wide in the program.                    *)
(***************************************************************************)
EXTENDS Integers

CONSTANTS FilterFlow,      \* five-tuples
          Cell,            \* filter cells of a layer
          filter_hash_1,   \* cell of a flow in layer 1
          filter_hash_2,   \* cell of a flow in layer 2
          FilterLen,       \* packet lengths (submit_record.counter)
          FilterMod,       \* 2^16: counters wrap
          StampMod,        \* 2^16: window stamps wrap
          threshold,       \* counter_threshold, 300 in set_lru_mon.py
          MaxWindow,       \* bound on the number of windows
          MaxBytes         \* bound on the bytes a cell sees in a window

ASSUME FilterHashAssumption ==
  filter_hash_1 \in [FilterFlow -> Cell] /\ filter_hash_2 \in [FilterFlow -> Cell]
ASSUME FilterNumbers ==
  /\ FilterLen \subseteq Nat
  /\ FilterMod \in Nat \ {0} /\ FilterMod % 2 = 0
  /\ StampMod \in Nat \ {0}
  /\ threshold \in 0..(FilterMod - 1)
  /\ MaxWindow \in Nat /\ MaxBytes \in Nat

VARIABLES window,     \* time in windows of 2^24 ns
          stamp_1,    \* filter_timestamp_buckets_0x
          stamp_2,    \* filter_timestamp_buckets_1x
          count_1,    \* filter_counter_buckets_0x
          count_2,    \* filter_counter_buckets_1x
          seen_1,     \* history: bytes of this window in a cell of layer 1
          seen_2,     \* history: bytes of this window in a cell of layer 2
          verdict     \* what the last packet met

filterRegs == <<stamp_1, stamp_2, count_1, count_2>>
filterVars == <<window, stamp_1, stamp_2, count_1, count_2, seen_1, seen_2, verdict>>

Counter == 0..(FilterMod - 1)
Stamp   == 0..(StampMod - 1)

(* counter_1/2: meta.filter_counter_1/2; checked: the one compared with the *)
(* threshold; seen_1/2: the bytes its two cells had seen in this window.    *)
Verdict == [counter_1 : Counter, counter_2 : Counter, checked : Counter,
            seen_1 : Nat, seen_2 : Nat, window : Nat, drop : BOOLEAN]

FilterTypeOK ==
  /\ window \in 0..MaxWindow
  /\ stamp_1 \in [Cell -> Stamp] /\ stamp_2 \in [Cell -> Stamp]
  /\ count_1 \in [Cell -> Counter] /\ count_2 \in [Cell -> Counter]
  /\ seen_1 \in [Cell -> Nat] /\ seen_2 \in [Cell -> Nat]
  /\ verdict \in Verdict

FilterInit ==
  /\ window = 0
  /\ stamp_1 = [c \in Cell |-> 0] /\ stamp_2 = [c \in Cell |-> 0]
  /\ count_1 = [c \in Cell |-> 0] /\ count_2 = [c \in Cell |-> 0]
  /\ seen_1 = [c \in Cell |-> 0] /\ seen_2 = [c \in Cell |-> 0]
  /\ verdict = [counter_1 |-> 0, counter_2 |-> 0, checked |-> 0,
                seen_1 |-> 0, seen_2 |-> 0, window |-> 0, drop |-> 0 < threshold]

(* ingress_mac_tstamp[39:24] *)
Timestamp == window % StampMod

(* A faulty variant: a cell does not start over in a new window.            *)
CounterRead_old(stamp, count) == count

(* What a counter cell reports: its bytes before this packet, 0 if its      *)
(* stamp belongs to another window.                                         *)
CounterRead(stamp, count) == IF stamp = Timestamp THEN count ELSE 0

(* What the cell holds afterwards. *)
CounterWrite(stamp, count, len) == (CounterRead(stamp, count) + len) % FilterMod

(* find_min_counter: the sign bit of the 16-bit difference decides which    *)
(* of the two counters is compared with the threshold.                      *)
FindMin(counter_1, counter_2) ==
  IF (counter_1 - counter_2) % FilterMod >= FilterMod \div 2
  THEN counter_1 ELSE counter_2

FilterPacket(f, len) ==
  LET c1        == filter_hash_1[f]
      c2        == filter_hash_2[f]
      counter_1 == CounterRead(stamp_1[c1], count_1[c1])
      counter_2 == CounterRead(stamp_2[c2], count_2[c2])
      checked   == FindMin(counter_1, counter_2)
  IN /\ seen_1[c1] + len <= MaxBytes /\ seen_2[c2] + len <= MaxBytes
     /\ stamp_1' = [stamp_1 EXCEPT ![c1] = Timestamp]
     /\ stamp_2' = [stamp_2 EXCEPT ![c2] = Timestamp]
     /\ count_1' = [count_1 EXCEPT ![c1] = CounterWrite(stamp_1[c1], @, len)]
     /\ count_2' = [count_2 EXCEPT ![c2] = CounterWrite(stamp_2[c2], @, len)]
     /\ seen_1'  = [seen_1 EXCEPT ![c1] = @ + len]
     /\ seen_2'  = [seen_2 EXCEPT ![c2] = @ + len]
     /\ verdict' = [counter_1 |-> counter_1, counter_2 |-> counter_2,
                    checked |-> checked, seen_1 |-> seen_1[c1], seen_2 |-> seen_2[c2],
                    window |-> window, drop |-> checked < threshold]
     /\ UNCHANGED window

NextWindow ==
  /\ window < MaxWindow
  /\ window' = window + 1
  /\ seen_1' = [c \in Cell |-> 0]
  /\ seen_2' = [c \in Cell |-> 0]
  /\ UNCHANGED <<filterRegs, verdict>>

FilterNext ==
  \/ \E f \in FilterFlow, len \in FilterLen : FilterPacket(f, len)
  \/ NextWindow

FilterSpec == FilterInit /\ [][FilterNext]_filterVars

-----------------------------------------------------------------------------
(* While a packet's two cells have seen less than half the counter range in *)
(* this window, and the window stamps have not wrapped, a packet is let     *)
(* through exactly if both of its cells had already seen the threshold in   *)
(* this very window: nothing older is counted and no heavy flow is dropped. *)
FilterExact ==
  /\ verdict.seen_1 < FilterMod \div 2
  /\ verdict.seen_2 < FilterMod \div 2
  /\ verdict.window < StampMod
  => (~verdict.drop <=> verdict.seen_1 >= threshold /\ verdict.seen_2 >= threshold)

(* "find min counter", lru_mon.p4:646: the counter compared with the        *)
(* threshold is the smaller of the two.                                     *)
ChecksMinimum ==
  verdict.checked <= verdict.counter_1 /\ verdict.checked <= verdict.counter_2

\* The filter as specified, with its registers in range.
FilterRight == FilterTypeOK /\ FilterExact
=============================================================================
