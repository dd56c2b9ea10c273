------------------------------ MODULE SimIndex ------------------------------
(***************************************************************************)
(* The simulated LRUIndex caches of CPU_simulate: APP2 and its ideal       *)
(* (app2.cpp, app2-ideal.cpp) and the four caches of app5.cpp.  A query    *)
(* only looks the key up; DeltaT later its answer comes back and updates   *)
(* the cache, at the stage where the query found the key (-1 if nowhere).  *)
(***************************************************************************)
EXTENDS SimCache, Integers

\* The cache is a series of stages, each with its own hash function.
App2Init(total, nstage, k, delta) ==
    LET LEN == total \div (k * nstage)
    IN  [DeltaT |-> delta, K |-> k, NSTAGE |-> nstage, LEN |-> LEN,
         nt |-> [i \in 0..nstage - 1 |-> [b \in 0..LEN - 1 |-> <<>>]],
         pending_queue |-> <<>>, ts_order |-> {}, dup_cntr |-> EmptyBag,
         n_items |-> 0, n_miss |-> 0, ok |-> TRUE]

App2Type(s) ==
    /\ s.nt \in [0..s.NSTAGE - 1 -> [0..s.LEN - 1 -> Seq(Fp \X Nat)]]
    /\ \A i \in DOMAIN s.nt : \A b \in DOMAIN s.nt[i] : Len(s.nt[i][b]) <= s.K
    /\ s.pending_queue \in Seq([fp : Fp, stage : -1..s.NSTAGE - 1, timestamp : Nat])
    /\ s.ts_order \subseteq Fp \X Nat /\ BagToSet(s.dup_cntr) \subseteq Fp \X Nat
    /\ s.n_miss <= s.n_items

Pos(s, stage, fp) == hash[stage][fp] % s.LEN

\* One more, and one fewer, entry e in the cache.
Enter(s, e) == [s EXCEPT !.dup_cntr = BagAdd(@, e), !.ts_order = @ \cup {e}]

Leave(s, e) ==
    [s EXCEPT !.dup_cntr = BagRemove(@, e),
              !.ts_order = IF CopiesIn(e, s.dup_cntr) = 1 THEN @ \ {e} ELSE @,
              !.ok       = @ /\ BagIn(e, s.dup_cntr)
                             /\ (CopiesIn(e, s.dup_cntr) = 1 => e \in s.ts_order)]

\* e goes to the front of its bucket, and an older entry of its fingerprint goes.
PushFront(s, stage, e) ==
    LET pos == Pos(s, stage, e[1])
        i   == SelectInSeq(s.nt[stage][pos], LAMBDA x : x[1] = e[1])
        r   == Enter(s, e)
    IN  IF i = 0 THEN [r EXCEPT !.nt[stage][pos] = <<e>> \o @]
        ELSE [Leave(r, s.nt[stage][pos][i]) EXCEPT !.nt[stage][pos] = <<e>> \o RemoveAt(@, i)]

Cascade_silent(s, e) ==
    LET pos    == Pos(s, 1, e[1])
        bucket == s.nt[1][pos]
    IN  IF s.NSTAGE = 1 THEN s
        ELSE [s EXCEPT !.nt[1][pos] = IF Len(@) < s.K THEN Append(@, e) ELSE ReplaceAt(@, s.K, e)]

\* Entry e, pushed out of stage 0, takes the last place of its bucket at the
\* next stage, and whatever was there goes on; what leaves the last stage is lost.
Cascade(s, e) ==
    LET step(c, i) ==
          LET pos    == Pos(s, i, c.e[1])
              bucket == c.s.nt[i][pos]
          IN  IF c.done THEN c
              ELSE IF Len(bucket) < s.K
              THEN [c EXCEPT !.s.nt[i][pos] = Append(@, c.e), !.done = TRUE]
              ELSE [c EXCEPT !.s.nt[i][pos] = ReplaceAt(@, s.K, c.e), !.e = bucket[s.K]]
        end == FoldLeft(step, [s |-> s, e |-> e, done |-> FALSE],
                        [i \in 1..s.NSTAGE - 1 |-> i])
    IN  IF end.done THEN end.s ELSE Leave(end.s, end.e)

App2Answer(s, p) ==
    LET e     == <<p.fp, p.timestamp>>
        stage == IF p.stage = -1 THEN 0 ELSE p.stage
        pos   == Pos(s, stage, p.fp)
        r     == PushFront(s, stage, e)
        full  == Len(r.nt[stage][pos]) > s.K
        last  == Last(r.nt[stage][pos])
        cut   == [r EXCEPT !.nt[stage][pos] = Front(@)]
    IN  CASE ~full -> r
          [] full /\ p.stage = -1 -> Cascade(cut, last)
          [] full /\ p.stage # -1 -> Leave(cut, last)

\* The first stage that holds fp, -1 if none does.
StageOf(s, fp) ==
    LET at == {i \in 0..s.NSTAGE - 1 :
                 \E j \in DOMAIN s.nt[i][Pos(s, i, fp)] : s.nt[i][Pos(s, i, fp)][j][1] = fp}
    IN  IF at = {} THEN -1 ELSE Min(at)

App2Insert(sim, fp, now) ==
    LET fits  == Cardinality(sim.ts_order) <= sim.K * sim.NSTAGE * sim.LEN
        s     == Drain([sim EXCEPT !.ok = @ /\ fits], now, App2Answer)
        stage == StageOf(s, fp)
    IN  [s EXCEPT !.pending_queue = Append(@, [fp |-> fp, stage |-> stage, timestamp |-> now]),
                  !.n_items = @ + 1,
                  !.n_miss  = IF stage = -1 THEN @ + 1 ELSE @]

-----------------------------------------------------------------------------
(* APP2IDEAL: entries ordered by time stamp, at most NBUCKET of them *)

App2IdealInit(total, delta) ==
    [DeltaT |-> delta, NBUCKET |-> total, timer |-> <<>>, nt |-> {},
     pending_queue |-> <<>>, n_items |-> 0, n_miss |-> 0, ok |-> TRUE]

App2IdealType(s) ==
    /\ Cardinality(s.nt) <= s.NBUCKET
    /\ s.nt = {<<s.timer[fp], fp>> : fp \in DOMAIN s.timer}
    /\ s.pending_queue \in Seq(PendingItem) /\ s.n_miss <= s.n_items

App2IdealAnswer(s, p) ==
    LET at  == <<s.timer[p.fp], p.fp>>
        old == IF p.fp \in DOMAIN s.timer THEN {at} ELSE {}
        nt  == (s.nt \ old) \cup {<<p.timestamp, p.fp>>}
        out == CHOOSE a \in nt : \A b \in nt : Earlier(a, b)
        r   == [s EXCEPT !.timer = (p.fp :> p.timestamp) @@ @, !.nt = nt,
                         !.ok = @ /\ old \subseteq s.nt]
    IN  IF Cardinality(nt) <= s.NBUCKET THEN r
        ELSE [r EXCEPT !.timer = Without(@, out[2]), !.nt = nt \ {out}]

App2IdealInsert(sim, fp, now) ==
    LET s == Drain(sim, now, App2IdealAnswer)
    IN  [Pend(s, fp, now) EXCEPT !.n_items = @ + 1,
                                 !.n_miss  = IF fp \in DOMAIN s.timer THEN @ ELSE @ + 1]

-----------------------------------------------------------------------------
(* app5.cpp *)

App5LruInit(total, nstage, k, delta) == App2Init(total, nstage, k, delta)
App5LruInsert(sim, fp, now)          == App2Insert(sim, fp, now)

App5ElasticInit(n, delta) == OneEntry(n, delta, [fp |-> 0, vote_p |-> 0, vote_n |-> 0])
App5CocoInit(n, delta)    == OneEntry(n, delta, [fp |-> 0, freq |-> 0])
App5TsInit(n, delta)      == OneEntry(n, delta, [fp |-> 0, timestamp |-> 0])

App5LruType(s)     == App2Type(s)
App5ElasticType(s) == OneEntryType(s, [fp : Fp, vote_p : Nat, vote_n : Nat])
App5CocoType(s)    == OneEntryType(s, [fp : Fp, freq : Nat])
App5TsType(s)      == OneEntryType(s, [fp : Fp, timestamp : {0}])

App5ElasticAnswer(s, p) ==
    LET pos  == hash[0][p.fp] % s.NBUCKET
        slot == s.nt[pos]
        put(against) == [s EXCEPT !.nt[pos] = [fp |-> p.fp, vote_p |-> 1, vote_n |-> against]]
    IN  CASE slot.fp = 0 /\ slot.vote_p = 0 -> put(0)
          [] slot.fp = p.fp /\ ~(slot.fp = 0 /\ slot.vote_p = 0) -> s
          [] slot.fp # p.fp /\ slot.fp # 0 /\ slot.vote_p = 0 -> [s EXCEPT !.ok = FALSE]
          [] OTHER -> IF slot.vote_n \div slot.vote_p >= replace_threshold THEN put(1) ELSE s

App5ElasticInsert(sim, fp, now) ==
    LET s   == Drain(sim, now, App5ElasticAnswer)
        pos == hash[0][fp] % s.NBUCKET
    IN  Pend(IF s.nt[pos].fp = fp THEN Hit([s EXCEPT !.nt[pos].vote_p = @ + 1])
                                  ELSE Miss([s EXCEPT !.nt[pos].vote_n = @ + 1]), fp, now)

\* rand() % freq with a slot no packet has counted in divides by zero.
App5CocoAnswer(s, p, zero) ==
    LET pos  == hash[0][p.fp] % s.NBUCKET
        slot == s.nt[pos]
    IN  CASE slot.fp = p.fp -> s
          [] slot.fp # p.fp /\ slot.freq = 0 -> [s EXCEPT !.ok = FALSE]
          [] OTHER -> IF p.fp \in zero \/ slot.freq = 1 THEN [s EXCEPT !.nt[pos].fp = p.fp] ELSE s

\* zero: the fingerprints whose answers draw 0; only the last one to do so shows.
App5CocoInsert(sim, fp, now, zero) ==
    LET Answer(r, p) == App5CocoAnswer(r, p, zero)
        d   == Drain(sim, now, Answer)
        pos == hash[0][fp] % d.NBUCKET
        s   == [d EXCEPT !.nt[pos].freq = @ + 1]
    IN  Pend(IF s.nt[pos].fp = fp THEN Hit(s) ELSE Miss(s), fp, now)

\* The time stamp of an entry is never set: every age is since time 0.
App5TsAnswer(s, p) ==
    LET pos == hash[0][p.fp] % s.NBUCKET
    IN  IF s.nt[pos].fp # p.fp /\ p.timestamp - s.nt[pos].timestamp >= replace_interval
        THEN [s EXCEPT !.nt[pos].fp = p.fp] ELSE s

App5TsInsert(sim, fp, now) ==
    LET s   == Drain(sim, now, App5TsAnswer)
        pos == hash[0][fp] % s.NBUCKET
    IN  Pend(IF s.nt[pos].fp = fp THEN Hit(s) ELSE Miss(s), fp, now)
=============================================================================
