------------------------------- MODULE SimMon -------------------------------
(***************************************************************************)
(* The simulated LRUMon of CPU_simulate: the LRU cache between two tower   *)
(* sketches of test_app3 (lru.cpp, sketch.h) and the four caches behind    *)
(* the byte filter of app6.cpp.  A flow is named by its fingerprint.       *)
(***************************************************************************)
EXTENDS SimIndex, FiniteSetsExt

CONSTANTS NSLOT,       \* entries of a bucket of lru.cpp
          App6K,       \* entries of a bucket of APP6_LRU
          NBUCK,       \* buckets of lru.cpp
          threshold,   \* threshold[i]: the largest value of tower row i
          len,         \* len[i]: counters of tower row i
          Word,        \* 2^32: the counters of a sketch wrap
          filter_ts_interval

Row == DOMAIN threshold

ASSUME MonAssumption ==
    /\ Row = 0..2 /\ threshold \in [Row -> Nat] /\ len \in [Row -> Nat \ {0}]
    /\ {NSLOT, App6K, NBUCK, Word} \subseteq Nat \ {0} /\ filter_ts_interval \in Nat

-----------------------------------------------------------------------------
(* TowerSketch *)

TowerClear == [i \in Row |-> [p \in 0..len[i] - 1 |-> 0]]

TowerPos(i, fp) == hash[i][fp] % len[i]

\* A saturated counter is not increased; the others may pass their limit, once.
TowerInsert_stop(nt, fp, size) ==
    [i \in Row |-> [nt[i] EXCEPT ![TowerPos(i, fp)] =
                      IF @ + size < threshold[i] THEN @ + size ELSE @]]

TowerInsert(nt, fp, size) ==
    [i \in Row |-> [nt[i] EXCEPT ![TowerPos(i, fp)] =
                      IF @ < threshold[i] THEN (@ + size) % Word ELSE @]]

\* The least unsaturated counter, UINT32_MAX if all are saturated.
TowerQuery(nt, fp) ==
    LET live == {i \in Row : nt[i][TowerPos(i, fp)] < threshold[i]}
    IN  Min({nt[i][TowerPos(i, fp)] : i \in live} \cup {Word - 1})

-----------------------------------------------------------------------------
(* LRU: byte counters, most recent first; what is evicted goes to the CPU *)

LRUInit == [nt |-> [b \in 0..NBUCK - 1 |-> <<>>], in_cpu |-> <<>>, nhit |-> 0]

NoVictim == [fp |-> 0, cnt |-> 0]

\* The state and the victim of LRU::insert.
LRUInsert(s, fp, size) ==
    LET pos    == hash[0][fp] % NBUCK
        bucket == s.nt[pos]
        i      == Find(bucket, fp)
        new    == <<[fp |-> fp, cnt |-> size + (IF i = 0 THEN 0 ELSE bucket[i].cnt)]>>
        full   == Len(bucket) = NSLOT
    IN  IF i # 0
        THEN [s |-> [s EXCEPT !.nt[pos] = new \o RemoveAt(@, i), !.nhit = @ + 1],
              victim |-> NoVictim]
        ELSE [s |-> [s EXCEPT !.nt[pos] = new \o (IF full THEN Front(@) ELSE @)],
              victim |-> IF full THEN Last(bucket) ELSE NoVictim]

send_to_cpu_last(s, fp, size) == [s EXCEPT !.in_cpu = (fp :> size) @@ @]

send_to_cpu(s, fp, size) ==
    [s EXCEPT !.in_cpu =
       (fp :> size + (IF fp \in DOMAIN @ THEN @[fp] ELSE 0)) @@ @]

LRUQuery(s, fp) ==
    LET bucket == s.nt[hash[0][fp] % NBUCK]
        i      == Find(bucket, fp)
    IN  (IF i = 0 THEN 0 ELSE bucket[i].cnt) +
        (IF fp \in DOMAIN s.in_cpu THEN s.in_cpu[fp] ELSE 0)

App3Init == [front |-> TowerClear, end |-> TowerClear, lru |-> LRUInit, curwin |-> 0]

App3Type(s) ==
    /\ \A sketch \in {s.front, s.end}, i \in Row : sketch[i] \in [0..len[i] - 1 -> 0..Word - 1]
    /\ \A b \in DOMAIN s.lru.nt :
         s.lru.nt[b] \in Seq([fp : Fp, cnt : Nat]) /\ Len(s.lru.nt[b]) <= NSLOT
    /\ s.lru.in_cpu \in [DOMAIN s.lru.in_cpu -> Nat] /\ s.curwin \in Nat

\* One packet of test_app3: a new window clears the sketches; a flow above the
\* limit enters the LRU cache, and a victim the second sketch lets through goes
\* to the CPU.
App3Packet(sim, fp, size, win, limit) ==
    LET s      == IF win > sim.curwin
                  THEN [sim EXCEPT !.front = TowerClear, !.end = TowerClear, !.curwin = win]
                  ELSE sim
        front  == TowerInsert(s.front, fp, size)
        in     == LRUInsert(s.lru, fp, size)
        v      == in.victim
        end    == TowerInsert(s.end, v.fp, v.cnt)
        passed == [s EXCEPT !.front = front]
    IN  IF TowerQuery(front, fp) <= limit THEN passed
        ELSE IF v.cnt = 0 THEN [passed EXCEPT !.lru = in.s]
        ELSE [passed EXCEPT !.end = end,
                            !.lru = IF TowerQuery(end, v.fp) > 0
                                    THEN send_to_cpu(in.s, v.fp, v.cnt) ELSE in.s]

-----------------------------------------------------------------------------
(* app6.cpp: the filter every namespace repeats *)

App6Counts == [n_items |-> 0, n_miss |-> 0, total_packet |-> 0, dis_packet |-> 0]

Filtered(limit, nt, nfilter) ==
    [threshold |-> limit, nt |-> nt,
     filter_1 |-> [i \in 0..nfilter - 1 |-> [timestamp |-> 0, counter |-> 0]]] @@ App6Counts

FilteredType(s, Slot) ==
    /\ s.nt \in [DOMAIN s.nt -> Slot] /\ s.n_miss <= s.n_items
    /\ s.filter_1 \in [DOMAIN s.filter_1 -> [timestamp : Nat, counter : Nat]]
    /\ s.n_items + s.dis_packet <= s.total_packet

App6LruType(s) ==
    /\ FilteredType(s, Seq([fp : Fp, counter : Nat]))
    /\ \A b \in DOMAIN s.nt : Len(s.nt[b]) <= App6K
App6ElasticType(s) == FilteredType(s, [fp : Fp, vote_p : Nat, vote_n : Nat])
App6CocoType(s)    == FilteredType(s, [fp : Fp, freq : Nat, counter : Nat])
App6TsType(s)      == FilteredType(s, [fp : Fp, timestamp : Nat, counter : Nat])

\* The filter cell after a packet; a packet in the window adds one, not its size.
FilterCell(c, size, now) ==
    IF now - c.timestamp <= filter_ts_interval
    THEN [c EXCEPT !.counter = @ + 1]
    ELSE [timestamp |-> now, counter |-> size]

\* A packet goes on to the cache if its window is open and has reached the threshold.
Passes(s, c, size, now) ==
    now - c.timestamp <= filter_ts_interval /\ c.counter + size >= s.threshold

FilterIndex(s, fp) == hash[1][fp] % Cardinality(DOMAIN s.filter_1)

\* The filter in front of Cache, the update of a packet that passes.
FilterThen(s, fp, size, now, Cache(_)) ==
    LET i == FilterIndex(s, fp)
        c == s.filter_1[i]
        r == [s EXCEPT !.total_packet = @ + 1, !.filter_1[i] = FilterCell(c, size, now)]
    IN  CASE Passes(s, c, size, now) -> Cache([r EXCEPT !.n_items = @ + 1])
          [] now - c.timestamp > filter_ts_interval -> r
          [] OTHER -> [r EXCEPT !.dis_packet = @ + 1]

App6LruInit(n, nfilter, limit) == Filtered(limit, [b \in 0..n - 1 |-> <<>>], nfilter)

\* The bucket's entry moves to the front with one more packet, or a new entry does.
App6LruCache(s, fp) ==
    LET pos  == hash[0][fp] % Cardinality(DOMAIN s.nt)
        j    == Find(s.nt[pos], fp)
        rest == IF j # 0 THEN RemoveAt(s.nt[pos], j)
                ELSE IF Len(s.nt[pos]) = App6K THEN Front(s.nt[pos]) ELSE s.nt[pos]
        cnt  == 1 + (IF j = 0 THEN 0 ELSE s.nt[pos][j].counter)
    IN  [s EXCEPT !.nt[pos] = <<[fp |-> fp, counter |-> cnt]>> \o rest,
                  !.n_miss  = IF j = 0 THEN @ + 1 ELSE @]

App6LruInsert(s, fp, size, now) ==
    LET Cache(r) == App6LruCache(r, fp) IN FilterThen(s, fp, size, now, Cache)

App6ElasticInit(n, nfilter, limit) ==
    Filtered(limit, [b \in 0..n - 1 |-> [fp |-> 0, vote_p |-> 0, vote_n |-> 0]], nfilter)

App6ElasticCache(s, fp) ==
    LET pos  == hash[0][fp] % Cardinality(DOMAIN s.nt)
        slot == s.nt[pos]
        n    == slot.vote_n + 1
        put(against) == [fp |-> fp, vote_p |-> 1, vote_n |-> against]
        miss == [s EXCEPT !.n_miss = @ + 1]
    IN  CASE slot.fp = fp -> [s EXCEPT !.nt[pos].vote_p = @ + 1]
          [] slot.fp # fp /\ (slot.fp = 0 \/ slot.vote_p = 0) -> [miss EXCEPT !.nt[pos] = put(0)]
          [] OTHER -> [miss EXCEPT !.nt[pos] = IF n \div @.vote_p >= replace_threshold
                                               THEN put(1) ELSE [@ EXCEPT !.vote_n = n]]

App6ElasticInsert(s, fp, size, now) ==
    LET Cache(r) == App6ElasticCache(r, fp) IN FilterThen(s, fp, size, now, Cache)

App6CocoInit(n, nfilter, limit) ==
    Filtered(limit, [b \in 0..n - 1 |-> [fp |-> 0, freq |-> 0, counter |-> 0]], nfilter)

App6CocoCache(s, fp, zero) ==
    LET pos  == hash[0][fp] % Cardinality(DOMAIN s.nt)
        slot == [s.nt[pos] EXCEPT !.freq = @ + 1]
        new  == CASE slot.fp = fp -> [slot EXCEPT !.counter = @ + 1]
                  [] slot.fp # fp /\ (fp \in zero \/ slot.freq = 1) ->
                       [slot EXCEPT !.fp = fp, !.counter = 1]
                  [] OTHER -> slot
    IN  [s EXCEPT !.nt[pos] = new, !.n_miss = IF slot.fp = fp THEN @ ELSE @ + 1]

App6CocoInsert(s, fp, size, now, zero) ==
    LET Cache(r) == App6CocoCache(r, fp, zero) IN FilterThen(s, fp, size, now, Cache)

App6TsInit(n, nfilter, limit) ==
    Filtered(limit, [b \in 0..n - 1 |-> [fp |-> 0, timestamp |-> 0, counter |-> 0]], nfilter)

App6TsCache(s, fp, now) ==
    LET pos  == hash[0][fp] % Cardinality(DOMAIN s.nt)
        slot == s.nt[pos]
        new  == CASE slot.fp = fp -> [slot EXCEPT !.counter = @ + 1, !.timestamp = now]
                  [] slot.fp # fp /\ now - slot.timestamp >= replace_interval ->
                       [fp |-> fp, timestamp |-> now, counter |-> 1]
                  [] OTHER -> slot
    IN  [s EXCEPT !.nt[pos] = new, !.n_miss = IF slot.fp = fp THEN @ ELSE @ + 1]

App6TsInsert(s, fp, size, now) ==
    LET Cache(r) == App6TsCache(r, fp, now) IN FilterThen(s, fp, size, now, Cache)
=============================================================================
