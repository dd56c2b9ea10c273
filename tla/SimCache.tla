------------------------------ MODULE SimCache ------------------------------
(***************************************************************************)
(* The simulated LRUTable caches of CPU_simulate: APP1 and its ideal       *)
(* (app1.cpp, app1-ideal.cpp) and the four caches of app4.cpp.  A miss     *)
(* installs a placeholder at once and pends for DeltaT; the packet that    *)
(* finds it overdue makes the entry valid.  Every simulator is a record of *)
(* its namespace's variables, and insert a function on that record.        *)
(* Statistics that are only printed (perc) are left out; ok is FALSE once  *)
(* an assert has failed or a division was by zero.                         *)
(***************************************************************************)
EXTENDS Naturals, Sequences, SequencesExt, BagsExt

CONSTANTS Fp,                  \* fingerprints; 0 marks an empty one-entry slot
          hash,                \* hash[seed][fp]
          DefaultDelay,        \* the DeltaT that init(int) of APP4_LRU sets
          replace_threshold,   \* ELASTIC: votes against per vote for
          replace_interval     \* TS: age from which an entry is replaced

ASSUME SimAssumption ==
    /\ Fp \subseteq Nat /\ 0 \in Fp
    /\ \A seed \in DOMAIN hash : hash[seed] \in [Fp -> Nat]
    /\ DefaultDelay \in Nat /\ replace_threshold \in Nat \ {0} /\ replace_interval \in Nat

\* The pending items an insert at time now takes: the front of the queue as
\* long as it is older than DeltaT.
Overdue(s, now) ==
    LET late(n) == \A i \in 1..n : now - s.pending_queue[i].timestamp > s.DeltaT
    IN  SubSeq(s.pending_queue, 1, Max({n \in 0..Len(s.pending_queue) : late(n)}))

\* Applies Answer to every overdue item in turn and pops it.
Drain(s, now, Answer(_, _)) ==
    LET due == Overdue(s, now)
    IN  [FoldLeft(Answer, s, due)
           EXCEPT !.pending_queue = SubSeq(@, Len(due) + 1, Len(@))]

PendingItem == [fp : Fp, timestamp : Nat]

Pend(s, fp, now) ==
    [s EXCEPT !.pending_queue = Append(@, [fp |-> fp, timestamp |-> now])]

Counts == [n_items |-> 0, n_miss |-> 0, n_hit |-> 0, n_pholder |-> 0]

Hit(s)         == [s EXCEPT !.n_items = @ + 1, !.n_hit = @ + 1]
Placeholder(s) == [s EXCEPT !.n_items = @ + 1, !.n_miss = @ + 1, !.n_pholder = @ + 1]
Miss(s)        == [s EXCEPT !.n_items = @ + 1, !.n_miss = @ + 1]

-----------------------------------------------------------------------------
(* APP1: buckets of K entries, most recent first *)

App1Init(total, k, delta) ==
    [DeltaT |-> delta, K |-> k, NBUCKET |-> total \div k,
     nt |-> [b \in 0..(total \div k) - 1 |-> <<>>], pending_queue |-> <<>>,
     ts_order |-> {}, dup_cntr |-> EmptyBag, ok |-> TRUE] @@ Counts

App1Type(s) ==
    /\ s.nt \in [0..s.NBUCKET - 1 ->
                  Seq([fp : Fp, valid : BOOLEAN, timestamp : Nat])]
    /\ \A b \in DOMAIN s.nt : Len(s.nt[b]) <= s.K
    /\ s.pending_queue \in Seq(PendingItem)
    /\ s.ts_order \subseteq Fp \X Nat /\ BagToSet(s.dup_cntr) \subseteq Fp
    /\ s.n_hit + s.n_miss = s.n_items /\ s.n_pholder <= s.n_miss

\* The first entry of the bucket with this fingerprint, 0 if there is none.
Find(entries, fp) == SelectInSeq(entries, LAMBDA e : e.fp = fp)

App1Answer(s, p) ==
    LET pos == hash[0][p.fp] % s.NBUCKET
        i   == Find(s.nt[pos], p.fp)
    IN  IF i = 0 THEN s ELSE [s EXCEPT !.nt[pos][i].valid = TRUE]

App1Refresh_inplace(s, cur, i, fp, now) ==
    LET old == s.nt[cur][i]
        r   == [s EXCEPT !.nt[cur][i].timestamp = now,
                         !.ts_order = (@ \ {<<fp, old.timestamp>>}) \cup {<<fp, now>>}]
    IN  IF old.valid THEN Hit(r) ELSE Placeholder(r)

\* The entry moves to the front with the new time stamp.
App1Refresh(s, cur, i, fp, now) ==
    LET old == s.nt[cur][i]
        r   == [s EXCEPT
                  !.nt[cur]   = <<[old EXCEPT !.timestamp = now]>> \o RemoveAt(@, i),
                  !.ts_order  = (@ \ {<<fp, old.timestamp>>}) \cup {<<fp, now>>},
                  !.ok        = @ /\ <<fp, old.timestamp>> \in s.ts_order]
    IN  IF old.valid THEN Hit(r) ELSE Placeholder(r)

\* The last entry of an overfull bucket goes.
App1Evict(s, cur) ==
    LET victim == Last(s.nt[cur])
        at     == <<victim.fp, victim.timestamp>>
    IN  [s EXCEPT !.nt[cur]   = Front(@),
                  !.dup_cntr  = BagRemove(@, victim.fp),
                  !.ts_order  = IF CopiesIn(victim.fp, s.dup_cntr) = 1 THEN @ \ {at} ELSE @,
                  !.ok        = @ /\ at \in s.ts_order /\ BagIn(victim.fp, s.dup_cntr)]

App1Install(s, cur, fp, now) ==
    LET r == [Pend(Miss(s), fp, now) EXCEPT
                !.nt[cur]   = <<[fp |-> fp, valid |-> FALSE, timestamp |-> now]>> \o @,
                !.ts_order  = @ \cup {<<fp, now>>},
                !.dup_cntr  = BagAdd(@, fp)]
    IN  IF Len(r.nt[cur]) > r.K THEN App1Evict(r, cur) ELSE r

App1Insert(sim, fp, now) ==
    LET d   == Drain(sim, now, App1Answer)
        s   == [d EXCEPT !.ok = @ /\ Cardinality(d.ts_order) <= d.K * d.NBUCKET]
        cur == hash[0][fp] % s.NBUCKET
        i   == Find(s.nt[cur], fp)
    IN  IF i # 0 THEN App1Refresh(s, cur, i, fp, now) ELSE App1Install(s, cur, fp, now)

-----------------------------------------------------------------------------
(* APP1IDEAL: one ordered map over all entries; timer is its inverse *)

App1IdealInit(total, delta) ==
    [DeltaT |-> delta, NBUCKET |-> total, timer |-> <<>>, nt |-> <<>>,
     pending_queue |-> <<>>, ok |-> TRUE] @@ Counts

App1IdealType(s) ==
    /\ Cardinality(DOMAIN s.nt) <= s.NBUCKET
    /\ DOMAIN s.nt = {<<s.timer[fp], fp>> : fp \in DOMAIN s.timer}
    /\ s.nt \in [DOMAIN s.nt -> BOOLEAN] /\ s.pending_queue \in Seq(PendingItem)
    /\ s.n_hit + s.n_miss = s.n_items /\ s.n_pholder <= s.n_miss

App1IdealAnswer(s, p) ==
    IF p.fp \notin DOMAIN s.timer THEN s
    ELSE LET at == <<s.timer[p.fp], p.fp>>
         IN  IF at \in DOMAIN s.nt THEN [s EXCEPT !.nt[at] = TRUE]
                                   ELSE [s EXCEPT !.ok = FALSE]

Earlier(a, b) == a[1] < b[1] \/ (a[1] = b[1] /\ a[2] <= b[2])
Without(f, x) == RestrictDomain(f, LAMBDA y : y # x)

App1IdealInsert(sim, fp, now) ==
    LET s   == Drain(sim, now, App1IdealAnswer)
        at  == <<s.timer[fp], fp>>
        new == <<now, fp>>
        hit == [s EXCEPT !.timer = (fp :> now) @@ @,
                         !.nt    = (new :> s.nt[at]) @@ Without(@, at),
                         !.ok    = @ /\ at \in DOMAIN s.nt]
        put == [Pend(Miss(s), fp, now) EXCEPT !.timer = (fp :> now) @@ @,
                                              !.nt    = (new :> FALSE) @@ @]
        out == CHOOSE a \in DOMAIN put.nt : \A b \in DOMAIN put.nt : Earlier(a, b)
    IN  IF fp \in DOMAIN s.timer
        THEN IF s.nt[at] THEN Hit(hit) ELSE Placeholder(hit)
        ELSE IF Cardinality(DOMAIN put.nt) <= put.NBUCKET THEN put
             ELSE [put EXCEPT !.timer = Without(@, out[2]), !.nt = Without(@, out)]

-----------------------------------------------------------------------------
(* app4.cpp: APP4_LRU repeats APP1; the others keep one entry per bucket,  *)
(* in memory fresh from the kernel, hence zero.                            *)

App4LruInit(total, k, delta)  == App1Init(total, k, delta)
App4LruInsert(sim, fp, now)   == App1Insert(sim, fp, now)

OneEntry(n, delta, slot) ==
    [DeltaT |-> delta, NBUCKET |-> n, nt |-> [b \in 0..n - 1 |-> slot],
     pending_queue |-> <<>>, ok |-> TRUE] @@ Counts

App4ElasticInit(n, delta) ==
    OneEntry(n, delta, [fp |-> 0, valid |-> FALSE, vote_p |-> 0, vote_n |-> 0])
App4CocoInit(n, delta) == OneEntry(n, delta, [fp |-> 0, valid |-> FALSE, freq |-> 0])
App4TsInit(n, delta)   == OneEntry(n, delta, [fp |-> 0, valid |-> FALSE, timestamp |-> 0])

\* init(int), of the second loop of test_app4, sets DeltaT in APP4_LRU only.
App4LruReinit(total, k)  == App4LruInit(total, k, DefaultDelay)
App4ElasticReinit(s, n)  == App4ElasticInit(n, s.DeltaT)
App4CocoReinit(s, n)     == App4CocoInit(n, s.DeltaT)
App4TsReinit(s, n)       == App4TsInit(n, s.DeltaT)

\* A simulator with one entry per bucket.
OneEntryType(s, Slot) ==
    /\ s.nt \in [0..s.NBUCKET - 1 -> Slot] /\ s.pending_queue \in Seq(PendingItem)
    /\ s.n_hit + s.n_miss = s.n_items /\ s.n_pholder <= s.n_miss

App4LruType(s)     == App1Type(s)
App4ElasticType(s) ==
    OneEntryType(s, [fp : Fp, valid : BOOLEAN, vote_p : Nat, vote_n : Nat])
App4CocoType(s)    == OneEntryType(s, [fp : Fp, valid : BOOLEAN, freq : Nat])
App4TsType(s)      == OneEntryType(s, [fp : Fp, valid : BOOLEAN, timestamp : Nat])

App4Answer(s, p) ==
    LET pos == hash[0][p.fp] % s.NBUCKET
    IN  IF s.nt[pos].fp = p.fp THEN [s EXCEPT !.nt[pos].valid = TRUE] ELSE s

\* A cached fingerprint: a hit if its answer is back, else a placeholder hit.
App4Found(s, pos) == IF s.nt[pos].valid THEN Hit(s) ELSE Placeholder(s)

App4ElasticInsert(sim, fp, now) ==
    LET s    == Drain(sim, now, App4Answer)
        pos  == hash[0][fp] % s.NBUCKET
        slot == s.nt[pos]
        n    == slot.vote_n + 1
        put(r, against) == [r EXCEPT !.nt[pos] =
                              [fp |-> fp, valid |-> FALSE, vote_p |-> 1, vote_n |-> against]]
    IN  CASE slot.fp = 0 -> Pend(Miss(put(s, 0)), fp, now)
          [] slot.fp = fp /\ fp # 0 -> App4Found([s EXCEPT !.nt[pos].vote_p = @ + 1], pos)
          [] slot.fp \notin {0, fp} /\ slot.vote_p = 0 -> [s EXCEPT !.ok = FALSE]
          [] OTHER -> Pend(Miss(IF n \div slot.vote_p >= replace_threshold
                                THEN put(s, 1)
                                ELSE [s EXCEPT !.nt[pos].vote_n = n]), fp, now)

\* zero: the fingerprints whose packet draws rand() % freq = 0, certain if freq is 1.
App4CocoInsert(sim, fp, now, zero) ==
    LET d    == Drain(sim, now, App4Answer)
        pos  == hash[0][fp] % d.NBUCKET
        s    == [d EXCEPT !.nt[pos].freq = @ + 1]
        slot == s.nt[pos]
        put  == [s EXCEPT !.nt[pos].fp = fp, !.nt[pos].valid = FALSE]
    IN  CASE slot.fp = 0 -> Pend(Miss(put), fp, now)
          [] slot.fp = fp /\ fp # 0 -> App4Found(s, pos)
          [] OTHER -> Pend(Miss(IF fp \in zero \/ slot.freq = 1 THEN put ELSE s), fp, now)

App4TsInsert_quiet(sim, fp, now) ==
    LET s    == Drain(sim, now, App4Answer)
        pos  == hash[0][fp] % s.NBUCKET
        slot == s.nt[pos]
        put  == [s EXCEPT !.nt[pos] = [fp |-> fp, valid |-> FALSE, timestamp |-> now]]
    IN  CASE slot.fp = 0 -> Pend(Miss(put), fp, now)
          [] slot.fp = fp /\ fp # 0 -> App4Found(s, pos)
          [] OTHER -> Miss(IF now - slot.timestamp >= replace_interval THEN put ELSE s)

App4TsInsert(sim, fp, now) ==
    LET s    == Drain(sim, now, App4Answer)
        pos  == hash[0][fp] % s.NBUCKET
        slot == s.nt[pos]
        put  == [s EXCEPT !.nt[pos] = [fp |-> fp, valid |-> FALSE, timestamp |-> now]]
    IN  CASE slot.fp = 0 -> Pend(Miss(put), fp, now)
          [] slot.fp = fp /\ fp # 0 -> App4Found(s, pos)
          [] OTHER -> Pend(Miss(IF now - slot.timestamp >= replace_interval THEN put
                                ELSE [s EXCEPT !.nt[pos].timestamp = now]), fp, now)
=============================================================================
