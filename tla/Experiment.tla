----------------------------- MODULE Experiment -----------------------------
(***************************************************************************)
(* experiment.cpp: every test initialises its simulators, feeds all of     *)
(* them the packets of the trace, and starts over with other parameters.   *)
(* The trace is arbitrary, with time stamps that do not decrease.          *)
(***************************************************************************)
EXTENDS SimMon

CONSTANTS Test,        \* the tests to run, a subset of 1..6
          Delay,       \* values of DeltaT
          Geometry,    \* <<TOTAL_BUCKET, NSTAGE, K>> to run with
          Step,        \* advances of the time stamp
          Size,        \* packet sizes
          Limit,       \* values of APP6's threshold
          WINDOW_LEN, THRESHOLD,   \* test_app3
          MaxPackets   \* MaxPackets[t]: packets of a trace of test t

ASSUME ExperimentAssumption ==
    /\ Test \subseteq 1..6 /\ Delay \cup Step \subseteq Nat /\ Size \subseteq Nat \ {0}
    /\ \A g \in Geometry : g[2] * g[3] > 0 /\ g[1] >= g[2] * g[3]

VARIABLES test, sims, now, packets,
          first,    \* history: the time of a fingerprint's first packet
          tied,     \* history: two packets had one time stamp
          window,   \* history: bytes per fingerprint in the current window
          entered   \* history: packets (test 6) or bytes (test 3) let through

vars == <<test, sims, now, packets, first, tied, window, entered>>

OneStage == {g \in Geometry : g[2] = 1}
Zero == [fp \in Fp |-> 0]

InitApp1(g, dT) == [lru |-> App1Init(g[1], g[3], dT), ideal |-> App1IdealInit(g[1], dT)]
InitApp2(g, dT) == [lru |-> App2Init(g[1], g[2], g[3], dT), ideal |-> App2IdealInit(g[1], dT)]
InitApp4(g, dT) ==
    [lru  |-> App4LruInit(g[1], g[3], dT), elastic |-> App4ElasticInit(1, dT),
     coco |-> App4CocoInit(1, dT), ts |-> App4TsInit(1, dT)]
InitApp5(g, dT) ==
    [lru  |-> App5LruInit(g[1], g[2], g[3], dT), elastic |-> App5ElasticInit(1, dT),
     coco |-> App5CocoInit(1, dT), ts |-> App5TsInit(1, dT)]
InitApp6(limit) ==
    [lru  |-> App6LruInit(1, 2, limit), elastic |-> App6ElasticInit(1, 2, limit),
     coco |-> App6CocoInit(1, 2, limit), ts |-> App6TsInit(1, 2, limit)]

\* The second loop of test_app4.
ReinitApp4(g) ==
    [lru  |-> App4LruReinit(g[1], g[3]), elastic |-> App4ElasticReinit(sims.elastic, 1),
     coco |-> App4CocoReinit(sims.coco, 1), ts |-> App4TsReinit(sims.ts, 1)]

\* The simulators at the start of a loop iteration of test t.
Started(t) ==
    CASE t = 1 -> {InitApp1(g, dT) : g \in OneStage, dT \in Delay}
      [] t = 2 -> {InitApp2(g, dT) : g \in Geometry, dT \in Delay}
      [] t = 3 -> {App3Init}
      [] t = 4 -> {InitApp4(g, dT) : g \in OneStage, dT \in Delay}
      [] t = 5 -> {InitApp5(g, dT) : g \in Geometry, dT \in Delay}
      [] t = 6 -> {InitApp6(limit) : limit \in Limit}

ExperimentInit ==
    /\ test \in Test /\ sims \in Started(test)
    /\ now = 0 /\ packets = 0 /\ tied = FALSE
    /\ first = <<>> /\ window = Zero /\ entered = Zero

-----------------------------------------------------------------------------
\* The next packet of the trace, at the new time stamp now'.
Packet(t, fp) ==
    /\ test = t /\ packets < MaxPackets[t]
    /\ packets' = packets + 1
    /\ \E d \in Step : now' = now + d
    /\ tied'  = (tied \/ (packets > 0 /\ now' = now))
    /\ first' = IF fp \in DOMAIN first THEN first ELSE first @@ (fp :> now')
    /\ UNCHANGED test

test_app1(fp) ==
    /\ Packet(1, fp)
    /\ sims' = [ideal |-> App1IdealInsert(sims.ideal, fp, now'),
                lru   |-> App1Insert(sims.lru, fp, now')]
    /\ UNCHANGED <<window, entered>>

test_app2(fp) ==
    /\ Packet(2, fp)
    /\ sims' = [ideal |-> App2IdealInsert(sims.ideal, fp, now'),
                lru   |-> App2Insert(sims.lru, fp, now')]
    /\ UNCHANGED <<window, entered>>

test_app3(fp, size) ==
    /\ Packet(3, fp)
    /\ LET win == now' \div WINDOW_LEN
           old == IF win > sims.curwin THEN Zero ELSE window
       IN  /\ sims'   = App3Packet(sims, fp, size, win, THRESHOLD)
           /\ window' = [old EXCEPT ![fp] = @ + size]
    /\ entered' = IF TowerQuery(sims'.front, fp) > THRESHOLD
                  THEN [entered EXCEPT ![fp] = @ + size] ELSE entered

test_app4(fp, zero) ==
    /\ Packet(4, fp)
    /\ sims' = [lru     |-> App4LruInsert(sims.lru, fp, now'),
                elastic |-> App4ElasticInsert(sims.elastic, fp, now'),
                coco    |-> App4CocoInsert(sims.coco, fp, now', zero),
                ts      |-> App4TsInsert(sims.ts, fp, now')]
    /\ UNCHANGED <<window, entered>>

test_app5(fp, zero) ==
    /\ Packet(5, fp)
    /\ sims' = [lru     |-> App5LruInsert(sims.lru, fp, now'),
                elastic |-> App5ElasticInsert(sims.elastic, fp, now'),
                coco    |-> App5CocoInsert(sims.coco, fp, now', zero),
                ts      |-> App5TsInsert(sims.ts, fp, now')]
    /\ UNCHANGED <<window, entered>>

\* window counts the bytes of a filter cell, under its least fingerprint.
test_app6(fp, size, zero) ==
    /\ Packet(6, fp)
    /\ sims' = [lru     |-> App6LruInsert(sims.lru, fp, size, now'),
                elastic |-> App6ElasticInsert(sims.elastic, fp, size, now'),
                coco    |-> App6CocoInsert(sims.coco, fp, size, now', zero),
                ts      |-> App6TsInsert(sims.ts, fp, size, now')]
    /\ LET cell   == sims.lru.filter_1[FilterIndex(sims.lru, fp)]
           opened == now' - cell.timestamp > filter_ts_interval
       IN  window' = [f \in Fp |->
                        CASE FilterIndex(sims.lru, f) # FilterIndex(sims.lru, fp) -> window[f]
                          [] OTHER -> IF opened THEN size ELSE window[f] + size]
    /\ entered' = IF sims'.lru.n_items > sims.lru.n_items
                  THEN [entered EXCEPT ![fp] = @ + 1] ELSE entered

\* The trace has ended: the results are printed and the next iteration begins.
NextIteration ==
    /\ packets = MaxPackets[test]
    /\ sims' \in Started(test) \cup
                 (IF test = 4 THEN {ReinitApp4(g) : g \in OneStage} ELSE {})
    /\ now' = 0 /\ packets' = 0 /\ tied' = FALSE
    /\ first' = <<>> /\ window' = Zero /\ entered' = Zero
    /\ UNCHANGED test

ExperimentNext ==
    \/ \E fp \in Fp : test_app1(fp) \/ test_app2(fp)
    \/ \E fp \in Fp, size \in Size : test_app3(fp, size)
    \/ \E fp \in Fp, zero \in {{}} \cup {{f} : f \in Fp} :
         test_app4(fp, zero) \/ test_app5(fp, zero)
    \/ \E fp \in Fp, size \in Size, zero \in {{}, Fp} : test_app6(fp, size, zero)
    \/ NextIteration

ExperimentSpec == ExperimentInit /\ [][ExperimentNext]_vars

-----------------------------------------------------------------------------
\* The simulators' records have the types their structs and globals declare,
\* no bucket holds more than its ways, and hits and misses add up.
SimTypeOK ==
    CASE test = 1 -> App1Type(sims.lru) /\ App1IdealType(sims.ideal)
      [] test = 2 -> App2Type(sims.lru) /\ App2IdealType(sims.ideal)
      [] test = 3 -> App3Type(sims)
      [] test = 4 -> /\ App4LruType(sims.lru) /\ App4ElasticType(sims.elastic)
                     /\ App4CocoType(sims.coco) /\ App4TsType(sims.ts)
      [] test = 5 -> /\ App5LruType(sims.lru) /\ App5ElasticType(sims.elastic)
                     /\ App5CocoType(sims.coco) /\ App5TsType(sims.ts)
      [] test = 6 -> /\ App6LruType(sims.lru) /\ App6ElasticType(sims.elastic)
                     /\ App6CocoType(sims.coco) /\ App6TsType(sims.ts)

\* No assert of app1, app2, app4 and app5 fails and no division is by zero, for
\* every trace, also with equal time stamps and the fingerprint 0.
AssertionsHold == test \in {1, 2, 4, 5} => \A name \in DOMAIN sims : sims[name].ok

\* The bookkeeping beside the cache names exactly its entries: ts_order ranks
\* them and dup_cntr counts them, through cascades that copy a fingerprint to
\* several stages.
OrderMatchesSlots ==
    /\ test \in {1, 4} =>
         LET nt == sims.lru.nt
             slots == {p \in (DOMAIN nt) \X (1..sims.lru.K) : p[2] <= Len(nt[p[1]])}
             at(p) == nt[p[1]][p[2]]
         IN  /\ sims.lru.ts_order = {<<at(p).fp, at(p).timestamp>> : p \in slots}
             /\ \A fp \in Fp :
                  CopiesIn(fp, sims.lru.dup_cntr) = Cardinality({p \in slots : at(p).fp = fp})
    /\ test \in {2, 5} =>
         LET nt == sims.lru.nt
             slots == {p \in (DOMAIN nt) \X (0..sims.lru.LEN - 1) \X (1..sims.lru.K) :
                         p[3] <= Len(nt[p[1]][p[2]])}
             at(p) == nt[p[1]][p[2]][p[3]]
         IN  /\ sims.lru.ts_order = {at(p) : p \in slots}
             /\ \A e \in sims.lru.ts_order :
                  CopiesIn(e, sims.lru.dup_cntr) = Cardinality({p \in slots : at(p) = e})

\* An entry that waits for its answer has one on the way, so no placeholder is
\* stuck, however often the entry was evicted and installed again meanwhile.
PlaceholdersPending ==
    test \in {1, 4} =>
      \A name \in DOMAIN sims \ {"ideal"} :
        LET s       == sims[name]
            entries == IF name = "lru" THEN UNION {ToSet(s.nt[b]) : b \in DOMAIN s.nt}
                       ELSE {s.nt[b] : b \in DOMAIN s.nt}
        IN  \A e \in entries : e.fp # 0 /\ ~e.valid =>
              \E p \in ToSet(s.pending_queue) : p.fp = e.fp

\* Nothing is served before its answer can be back: a fingerprint is valid
\* (test_app4) or cached at all (test_app5) only if its first packet is more
\* than DeltaT ago.
NothingEarly ==
    LET back(s, fp) == fp \in DOMAIN first /\ now - first[fp] > s.DeltaT
        slots(s)    == {s.nt[b] : b \in DOMAIN s.nt}
    IN  /\ test \in {1, 4} =>
             \A b \in DOMAIN sims.lru.nt : \A e \in ToSet(sims.lru.nt[b]) :
               e.valid => back(sims.lru, e.fp)
        /\ test = 4 => \A s \in {sims.elastic, sims.coco, sims.ts} :
             \A e \in slots(s) : e.valid /\ e.fp # 0 => back(s, e.fp)
        /\ test \in {2, 5} => \A e \in sims.lru.ts_order : back(sims.lru, e[1])
        /\ test = 5 => \A s \in {sims.elastic, sims.coco, sims.ts} :
             \A e \in slots(s) : e.fp # 0 => back(s, e.fp)

\* With one bucket for everything and distinct time stamps, the bucketed
\* simulators are the ideal ones: same entries, same validity, same counts.
IdealAgrees ==
    /\ test = 1 /\ sims.lru.NBUCKET = 1 /\ sims.ideal.NBUCKET = sims.lru.K /\ ~tied =>
         /\ {<<e.timestamp, e.fp, e.valid>> : e \in ToSet(sims.lru.nt[0])}
              = {<<a[1], a[2], sims.ideal.nt[a]>> : a \in DOMAIN sims.ideal.nt}
         /\ sims.lru.n_hit = sims.ideal.n_hit /\ sims.lru.n_pholder = sims.ideal.n_pholder
    /\ test = 2 /\ sims.lru.NSTAGE = 1 /\ sims.lru.LEN = 1 /\ sims.ideal.NBUCKET = sims.lru.K
         /\ ~tied =>
         /\ {<<e[2], e[1]>> : e \in ToSet(sims.lru.nt[0][0])} = sims.ideal.nt
         /\ sims.lru.n_miss = sims.ideal.n_miss

\* What LRU::query reports for a flow, from the cache and from the CPU, is the
\* number of bytes that passed the first sketch, whatever was evicted.
BytesReported == test = 3 => \A fp \in Fp : LRUQuery(sims.lru, fp) = entered[fp]

\* The tower sketch never underestimates a flow's bytes in the window, although
\* its small counters saturate, as long as the window is below 2^32 bytes.
TowerOverestimates ==
    test = 3 /\ SumFunction(window) < Word =>
      \A fp \in Fp : TowerQuery(sims.front, fp) >= window[fp]

\* A filter cell never holds more than the bytes of its window, so no packet
\* passes before the threshold is reached.
FilterUndercounts ==
    test = 6 => \A name \in DOMAIN sims, fp \in Fp :
      sims[name].filter_1[FilterIndex(sims[name], fp)].counter <= window[fp]

\* No cache counts a packet for another flow: an entry never shows more than
\* the packets of its own flow that passed the filter.
CountsOwn ==
    test = 6 =>
      /\ \A b \in DOMAIN sims.lru.nt : \A e \in ToSet(sims.lru.nt[b]) :
           e.counter <= entered[e.fp]
      /\ \A s \in {sims.coco, sims.ts} : \A b \in DOMAIN s.nt :
           s.nt[b].counter <= entered[s.nt[b].fp]

\* The bookkeeping of the simulators: types, assertions and divisions, and the
\* ranks and counts kept beside the caches.
BookkeepingSound == SimTypeOK /\ AssertionsHold /\ OrderMatchesSlots

\* Answers arrive DeltaT after their query: none is used earlier, none is
\* waited for in vain.
AnswersTimely == PlaceholdersPending /\ NothingEarly

\* The counters of the sketches, filters and caches err on the safe side only.
CountersBounded == TowerOverestimates /\ FilterUndercounts /\ CountsOwn
=============================================================================
