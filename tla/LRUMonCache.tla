---------------------------- MODULE LRUMonCache -----------------------------
(***************************************************************************)
(* The second half of LRUMon: packets that passed the filter enter the LRU *)
(* unit in the egress control of the loopback port (Egress2), come back    *)
(* through the second ingress control (Ingress2), and every eviction       *)
(* leaves for the server as a submit record.  The unit maps flow           *)
(* fingerprints to byte counters; a fingerprint register holding 0 counts  *)
(* as empty.                                                               *)
(***************************************************************************)
EXTENDS P4LRU, Sequences, FiniteSetsExt

CONSTANTS Flow,              \* five-tuples
          fp_hash,           \* fingerprint of a flow
          ZeroFp,            \* the fingerprint 0
          Bucket,
          lru_bucket_hash,   \* bucket of a flow
          PktLen,            \* packet lengths
          CounterMod,        \* 2^32: byte counters wrap
          MaxPackets,        \* bound on the packets of a behaviour
          MaxLost            \* bound on the submit records lost

Fp == {fp_hash[f] : f \in Flow} \cup {ZeroFp}

ASSUME LRUHashAssumption == lru_bucket_hash \in [Flow -> Bucket]
ASSUME LRUBuckets == IsFiniteSet(Bucket)      \* a register array
(* A packet has the length its IP header had in the trace: never 0. *)
ASSUME LRUNumbers ==
  /\ PktLen \subseteq Nat \ {0} /\ CounterMod \in Nat \ {0}
  /\ MaxPackets \in Nat /\ MaxLost \in Nat

VARIABLES fp,         \* fp[b][p]: register fp_p at index b
          reg_dfa,    \* reg_dfa[b]
          counter,    \* counter[b][s]: register counter_s at index b
          loopback,   \* records between Egress2 and Ingress2
          toServer,   \* submit records on the way to the server
          nb_recv,    \* recver.cc: records received
          nb_byte,    \* recver.cc: bytes received
          entered,    \* history: bytes per fingerprint that entered the unit
          reported,   \* history: bytes per fingerprint the server received
          lost,       \* history: bytes per fingerprint lost with a record
          nb_lost,    \* history: records lost
          announced,  \* history: fingerprints named by a submit record
          packets     \* history: packets processed

cacheRegs == <<fp, reg_dfa, counter>>
cacheVars == <<fp, reg_dfa, counter, loopback, toServer, nb_recv, nb_byte,
               entered, reported, lost, nb_lost, announced, packets>>

Record == [old_fp : Fp, old_counter : 0..(CounterMod - 1), new_fp : Fp,
           lru_is_replace : BOOLEAN]

CacheTypeOK ==
  /\ fp \in [Bucket -> [Position -> Fp]]
  /\ reg_dfa \in [Bucket -> DfaState]
  /\ counter \in [Bucket -> [Slot -> 0..(CounterMod - 1)]]
  /\ loopback \in Seq(Record) /\ toServer \in Seq(Record)
  /\ nb_recv \in Nat /\ nb_byte \in Nat
  /\ {entered, reported, lost} \subseteq [Fp -> Nat]
  /\ nb_lost \in 0..MaxLost /\ announced \subseteq Fp /\ packets \in 0..MaxPackets

CacheInit ==
  /\ fp = [b \in Bucket |-> [p \in Position |-> ZeroFp]]
  /\ reg_dfa = [b \in Bucket |-> 0]
  /\ counter = [b \in Bucket |-> [s \in Slot |-> 0]]
  /\ loopback = <<>> /\ toServer = <<>>
  /\ nb_recv = 0 /\ nb_byte = 0
  /\ entered = [i \in Fp |-> 0] /\ reported = [i \in Fp |-> 0]
  /\ lost = [i \in Fp |-> 0] /\ nb_lost = 0 /\ announced = {} /\ packets = 0

(* Faulty variants: the counter of an evicted fingerprint is not reset; an  *)
(* eviction of a single byte is not reported.                               *)
CounterAfter_kept(tsm, count, len) == (count + len) % CounterMod
IsReplace_large(old_fp, old_counter) == old_fp # ZeroFp /\ old_counter > 1

(* The counter of the front fingerprint: added to on a hit, replaced on a   *)
(* miss.                                                                    *)
CounterAfter(tsm, count, len) ==
  IF tsm = 4 THEN len % CounterMod ELSE (count + len) % CounterMod

(* lru_is_replace: set if something with bytes was evicted. *)
IsReplace(old_fp, old_counter) == old_fp # ZeroFp /\ old_counter # 0

(* Egress2: the fingerprint moves to the front; on a hit its counter grows, *)
(* on a miss the counter of the evicted fingerprint is handed out and       *)
(* replaced.                                                                *)
Egress2(f, len) ==
  LET b           == lru_bucket_hash[f]
      i           == fp_hash[f]
      tsm         == Tsm(fp[b], i)
      sta         == DfaNext(tsm, reg_dfa[b])
      slot        == QuerySlot(sta)
      old_fp      == IF tsm = 4 THEN fp[b][3] ELSE ZeroFp
      old_counter == IF tsm = 4 THEN counter[b][slot] ELSE 0
  IN /\ packets < MaxPackets
     /\ fp'       = [fp EXCEPT ![b] = InsertKey(@, i)]
     /\ reg_dfa'  = [reg_dfa EXCEPT ![b] = sta]
     /\ counter'  = [counter EXCEPT ![b][slot] = CounterAfter(tsm, @, len)]
     /\ loopback' = Append(loopback,
                      [old_fp |-> old_fp, old_counter |-> old_counter, new_fp |-> i,
                       lru_is_replace |-> IsReplace(old_fp, old_counter)])
     /\ entered'  = [entered EXCEPT ![i] = @ + len]
     /\ packets'  = packets + 1
     /\ UNCHANGED <<toServer, nb_recv, nb_byte, reported, lost, nb_lost, announced>>

(* Ingress2: a replacement leaves for the server, anything else is dropped. *)
Ingress2 ==
  /\ loopback # <<>>
  /\ loopback' = Tail(loopback)
  /\ IF Head(loopback).lru_is_replace
     THEN /\ toServer'  = Append(toServer, Head(loopback))
          /\ announced' = announced \cup {Head(loopback).new_fp}
     ELSE UNCHANGED <<toServer, announced>>
  /\ UNCHANGED <<cacheRegs, nb_recv, nb_byte, entered, reported, lost, nb_lost, packets>>

(* recv_caida_pkt of the server. *)
ReceiveSubmit ==
  /\ toServer # <<>>
  /\ LET r == Head(toServer)
     IN /\ nb_byte'  = nb_byte + r.old_counter
        /\ reported' = [reported EXCEPT ![r.old_fp] = @ + r.old_counter]
  /\ nb_recv'  = nb_recv + 1
  /\ toServer' = Tail(toServer)
  /\ UNCHANGED <<cacheRegs, loopback, entered, lost, nb_lost, announced, packets>>

(* The network between switch and server may drop a submit record. *)
LoseSubmit ==
  /\ toServer # <<>>
  /\ nb_lost < MaxLost
  /\ lost' = [lost EXCEPT ![Head(toServer).old_fp] = @ + Head(toServer).old_counter]
  /\ nb_lost' = nb_lost + 1
  /\ toServer' = Tail(toServer)
  /\ UNCHANGED <<cacheRegs, loopback, nb_recv, nb_byte, entered, reported, announced, packets>>

CacheNext ==
  \/ \E f \in Flow, len \in PktLen : Egress2(f, len)
  \/ Ingress2
  \/ ReceiveSubmit
  \/ LoseSubmit

CacheSpec == CacheInit /\ [][CacheNext]_cacheVars

-----------------------------------------------------------------------------
(* The bytes of fingerprint i in the registers and in records under way. *)
CachedBytes(i) ==
  MapThenSumSet(LAMBDA bp : counter[bp[1]][ReplaceSlot(bp[2], reg_dfa[bp[1]])],
                {bp \in Bucket \X Position : fp[bp[1]][bp[2]] = i})

BytesIn(link, i) ==
  MapThenSumSet(LAMBDA n : link[n].old_counter, {n \in DOMAIN link : link[n].old_fp = i})

(* No byte of a flow is lost or counted for another flow: for every nonzero *)
(* fingerprint, what entered the unit is what is still cached, under way,   *)
(* received or lost with a record, modulo the width of the counters.        *)
BytesConserved ==
  \A i \in Fp \ {ZeroFp} :
     entered[i] % CounterMod =
       (CachedBytes(i) + BytesIn(loopback, i) + BytesIn(toServer, i)
          + reported[i] + lost[i]) % CounterMod

(* The server never receives more than what entered, per fingerprint. *)
NothingInvented == \A i \in Fp : reported[i] + lost[i] <= entered[i]

(* The fingerprints named by replacements that have not reached Ingress2. *)
Announcing(link) == {link[n].new_fp : n \in {m \in DOMAIN link : link[m].lru_is_replace}}

(* The server learns a five-tuple from the submit record of the packet that *)
(* brought its fingerprint in.  Only flows that entered while a register    *)
(* was still empty stay unannounced: at most three per bucket, as long as   *)
(* no flow has the fingerprint 0 and no counter wraps.                      *)
FlowsAnnounced ==
  entered[ZeroFp] = 0 /\ (\A i \in Fp : entered[i] < CounterMod)
  => LET known == announced \cup Announcing(loopback)
     IN Cardinality({i \in Fp : entered[i] > 0 /\ i \notin known})
          <= 3 * Cardinality(Bucket)

\* Every byte that passed the filter is cached, on its way or counted by the
\* receiver, once and for its own flow; registers and records are well formed.
ReportsExact == CacheTypeOK /\ BytesConserved /\ NothingInvented
=============================================================================
