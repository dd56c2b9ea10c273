-------------------------- MODULE LRUIndexSystem --------------------------
(***************************************************************************)
(* LRUIndex: client threads (b_plus_tree_db.cc) read and insert records of *)
(* a back end (backend.cc) whose B+ tree is reached through a switch       *)
(* (lru_index.p4) that caches the leaf address of recently read keys in    *)
(* two levels of three-entry LRU units, one per pipe.  Every packet passes *)
(* Ingress1 and then, over a loopback port, Ingress2.                      *)
(*                                                                         *)
(* A thread waits for its answer before it goes on, so at most one packet  *)
(* per thread is under way: pkt[t].  Packets of different threads may      *)
(* overtake each other.                                                    *)
(***************************************************************************)
EXTENDS P4LRU, BPlusTree

CONSTANTS
    Thread,     \* the client's threads
    Loaded,     \* the keys the loading phase inserts, in order
    ReadKeys,   \* the keys threads may read
    Inserted,   \* the keys threads may insert later
    index,      \* the bucket of a key (index_hash, on both levels)
    fp,         \* the 32 bits of a key the registers hold (key_hash)
    MaxRequests,\* bound on the requests of a behaviour
    Lossy       \* may a transmit burst fail or the network drop a packet

ASSUME IndexAssumption ==
    /\ Loaded \in Seq(Key) /\ ReadKeys \cup Inserted \subseteq Key
    /\ Empty \notin Key
    /\ fp \in [Key -> Nat]
    /\ DOMAIN index = Key
    /\ Lossy \in BOOLEAN

VARIABLES
    key,        \* [level][bucket]: key_1..key_3
    reg_dfa,    \* [level][bucket]
    addr,       \* [level][bucket]: addr_1..addr_3
    tree,       \* the back end's B+ tree
    pkt,        \* [thread]: its request or answer, and where it is
    requests,   \* number of requests so far
    raced       \* the cache entries two packets have concerned at a time

registers == <<key, reg_dfa, addr>>
vars == <<key, reg_dfa, addr, tree, pkt, requests, raced>>

Level == 1..2
Bucket == Range(index)
Read == "0x0527"        \* message types
ReadBack == "0x0529"
Insert == "0x0526"
InsertBack == "0x0528"

\* The client returns to its caller when it has the answer of its own queue.
Idle == [at |-> "idle", type |-> InsertBack, key |-> 0, position |-> 0, addr |-> NULL,
         bkey |-> 0, baddr |-> NULL, val |-> Empty, truth |-> Empty]

\* The record loaded or inserted under a key stands for the key.
RecordOf(k) == k

LoadedTree == InsertAll([i \in DOMAIN Loaded |-> <<Loaded[i], RecordOf(Loaded[i])>>])

IndexInit ==
    /\ key     = [l \in Level |-> [b \in Bucket |-> [p \in Position |-> Cleared]]]
    /\ reg_dfa = [l \in Level |-> [b \in Bucket |-> 0]]
    /\ addr    = [l \in Level |-> [b \in Bucket |-> [s \in Slot |-> NULL]]]
    /\ tree    = LoadedTree
    /\ pkt     = [t \in Thread |-> Idle]
    /\ requests = 0
    /\ raced = {}

Request(t, type, k) ==
    /\ pkt[t].at \in {"idle", "client"}
    /\ requests < MaxRequests
    /\ requests' = requests + 1
    /\ pkt' = [pkt EXCEPT ![t] = [Idle EXCEPT !.at = "ingress1", !.type = type, !.key = k]]

\* BPlusTreeDB::Read sends its query.
ReadStart(t, k) ==
    /\ Request(t, Read, k)
    /\ UNCHANGED <<registers, tree>>

\* BPlusTreeDB::Insert sends the record.
InsertStart(t, k) ==
    /\ Request(t, Insert, k)
    /\ UNCHANGED <<registers, tree>>

----------------------------------------------------------------------------
\* The last key register of a bucket that holds f; 0 if none does.
Match(keys, f) == IF \E p \in Position : keys[p] = f
                  THEN CHOOSE p \in Position : keys[p] = f /\ \A q \in Position : q > p => keys[q] # f
                  ELSE 0

\* A slip: the DFA is not consulted for the address register of the match.
Lookaside_plain(l, p, next) ==
    LET b == index[p.key]
        m == Match(key[l][b], p.bkey)
    IN  IF m = 0 THEN [p EXCEPT !.at = next]
        ELSE [p EXCEPT !.at = next, !.position = l, !.addr = addr[l][b][m]]

\* A query at level l that no level has answered yet: on a hit it carries the
\* cached leaf address on.  Registers do not change.
Lookaside(l, p, next) ==
    LET b == index[p.key]
        m == Match(key[l][b], p.bkey)
    IN  IF m = 0 THEN [p EXCEPT !.at = next]
        ELSE [p EXCEPT !.at = next, !.position = l,
                       !.addr = addr[l][b][ReplaceSlot(m, reg_dfa[l][b])]]

\* A slip: the key pushed out is not taken over into the bridge header.
InsertMode_self(l, p) ==
    LET b    == index[p.key]
        tsm  == Tsm(key[l][b], p.bkey)
        sta  == DfaNext(tsm, reg_dfa[l][b])
        slot == QuerySlot(sta)
    IN  [keys  |-> InsertKey(key[l][b], p.bkey),
         sta   |-> sta,
         addrs |-> [addr[l][b] EXCEPT ![slot] = p.baddr],
         bkey  |-> p.bkey,
         baddr |-> addr[l][b][slot]]

\* A slip: the address register is chosen before the DFA takes its step.
InsertMode_early(l, p) ==
    LET b    == index[p.key]
        tsm  == Tsm(key[l][b], p.bkey)
        slot == QuerySlot(reg_dfa[l][b])
    IN  [keys  |-> InsertKey(key[l][b], p.bkey),
         sta   |-> DfaNext(tsm, reg_dfa[l][b]),
         addrs |-> [addr[l][b] EXCEPT ![slot] = p.baddr],
         bkey  |-> IF tsm >= 3 THEN key[l][b][3] ELSE p.bkey,
         baddr |-> addr[l][b][slot]]

\* Insert mode of level l: the bridge key moves to the front with the bridge
\* address; the key pushed out of key_3, if any, and the address it had
\* travel on in the bridge header.
InsertMode(l, p) ==
    LET b    == index[p.key]
        tsm  == Tsm(key[l][b], p.bkey)
        sta  == DfaNext(tsm, reg_dfa[l][b])
        slot == QuerySlot(sta)
    IN  [keys  |-> InsertKey(key[l][b], p.bkey),
         sta   |-> sta,
         addrs |-> [addr[l][b] EXCEPT ![slot] = p.baddr],
         bkey  |-> IF tsm >= 3 THEN key[l][b][3] ELSE p.bkey,
         baddr |-> addr[l][b][slot]]

\* Replace mode of level 2: the victim of level 1 takes the place of the least
\* recently used entry, whose recency it keeps.
ReplaceMode(l, p) ==
    LET b == index[p.key]
    IN  [keys  |-> [key[l][b] EXCEPT ![3] = p.bkey],
         sta   |-> reg_dfa[l][b],
         addrs |-> [addr[l][b] EXCEPT ![ReplaceSlot(3, reg_dfa[l][b])] = p.baddr],
         bkey  |-> p.bkey, baddr |-> p.baddr]

\* The packet of t updates the registers of level l and goes on to next.
Update(l, t, p, r, next) ==
    LET b == index[p.key]
    IN  /\ key'     = [key EXCEPT ![l][b] = r.keys]
        /\ reg_dfa' = [reg_dfa EXCEPT ![l][b] = r.sta]
        /\ addr'    = [addr EXCEPT ![l][b] = r.addrs]
        /\ pkt'     = [pkt EXCEPT ![t] = [p EXCEPT !.at = next, !.bkey = r.bkey, !.baddr = r.baddr]]

Forward(t, p) == pkt' = [pkt EXCEPT ![t] = p] /\ UNCHANGED registers

\* Ingress1 and the way over the loopback port.
Ingress1(t) ==
    /\ pkt[t].at = "ingress1"
    /\ LET p == [pkt[t] EXCEPT !.bkey = fp[pkt[t].key], !.baddr = pkt[t].addr]
        IN  CASE p.type = Read /\ p.position = 0 ->
                   Forward(t, Lookaside(1, p, "ingress2"))
             [] p.type = ReadBack /\ p.position <= 1 ->
                   Update(1, t, p, InsertMode(1, p), "ingress2")
             [] OTHER -> Forward(t, [p EXCEPT !.at = "ingress2"])
    /\ UNCHANGED <<tree, requests>>

\* Ingress2, on to the back end or to the thread's queue.
Ingress2(t) ==
    LET p    == pkt[t]
        next == IF p.type \in {Read, Insert} THEN "server" ELSE "client"
    IN  /\ p.at = "ingress2"
        /\ CASE p.type = Read /\ p.position = 0 ->
                   Forward(t, Lookaside(2, p, next))
             [] p.type = ReadBack /\ p.position = 0 ->
                   Update(2, t, p, ReplaceMode(2, p), next)
             [] p.type = ReadBack /\ p.position = 2 ->
                   Update(2, t, p, InsertMode(2, p), next)
             [] OTHER -> Forward(t, [p EXCEPT !.at = next])
        /\ UNCHANGED <<tree, requests>>

----------------------------------------------------------------------------
\* handle_query: the search starts at the address the packet carries, and the
\* answer names the leaf it ended in.  truth is basic_values of the disabled
\* correctness check.
HandleQuery(t) ==
    LET p == pkt[t]
    IN  /\ p.at = "server" /\ p.type = Read
        /\ pkt' = [pkt EXCEPT ![t] = [p EXCEPT !.at = "ingress1", !.type = ReadBack,
                     !.addr = LeafFor(tree, p.key, p.addr),
                     !.val = lookup(tree, p.key, p.addr), !.truth = lookup(tree, p.key, NULL)]]
        /\ UNCHANGED <<registers, tree, requests>>

\* handle_insert
HandleInsert(t) ==
    LET p == pkt[t]
    IN  /\ p.at = "server" /\ p.type = Insert
        /\ tree' = insert(tree, p.key, RecordOf(p.key))
        /\ pkt' = [pkt EXCEPT ![t] = [p EXCEPT !.at = "ingress1", !.type = InsertBack]]
        /\ UNCHANGED <<registers, requests>>

\* send_pkt frees a packet the transmit burst did not take, and the network
\* may drop one: its thread polls for the answer for ever.
Lose(t) ==
    /\ Lossy
    /\ pkt[t].at \in {"ingress1", "ingress2", "server"}
    /\ pkt' = [pkt EXCEPT ![t] = [Idle EXCEPT !.at = "lost"]]
    /\ UNCHANGED <<registers, tree, requests>>

Start(t) == \/ \E k \in ReadKeys : ReadStart(t, k)
            \/ \E k \in Inserted : InsertStart(t, k)
Move(t) == Ingress1(t) \/ Ingress2(t) \/ HandleQuery(t) \/ HandleInsert(t)

\* A packet concerns the entry of fingerprint f in bucket b when it is a read of
\* such a key or its answer, or carries f pushed out of level 1 to level 2.
Concerns(p, b, f) ==
    /\ p.at \in {"ingress1", "ingress2", "server"} /\ p.type \in {Read, ReadBack}
    /\ index[p.key] = b
    /\ fp[p.key] = f \/ (p.type = ReadBack /\ p.at = "ingress2" /\ p.bkey = f)

Contended(packets) ==
    {e \in Bucket \X Range(fp) : \E t, u \in Thread :
        t # u /\ Concerns(packets[t], e[1], e[2]) /\ Concerns(packets[u], e[1], e[2])}

\* raced only remembers: no step depends on it.
IndexNext == /\ \E t \in Thread : Start(t) \/ Move(t) \/ Lose(t)
             /\ raced' = raced \cup Contended(pkt')

IndexSpec == IndexInit /\ [][IndexNext]_vars

----------------------------------------------------------------------------
\* The address register that belongs to key position p.
AddrAt(l, b, p) == addr[l][b][ReplaceSlot(p, reg_dfa[l][b])]

\* Type invariant: also, a register never holds a fingerprint of no key.
IndexTypeOK ==
    /\ key \in [Level -> [Bucket -> [Position -> Range(fp) \cup {Cleared}]]]
    /\ reg_dfa \in [Level -> [Bucket -> DfaState]]
    /\ DOMAIN pkt = Thread

\* What a read returns is what a search from the root would have found when
\* the back end served it: the disabled check of handle_query.
ReadsCorrect == \A t \in Thread : pkt[t].type = ReadBack => pkt[t].val = pkt[t].truth

\* No leaf has been split since the loading phase.
Unsplit == Len(tree.node) = Len(LoadedTree.node)

\* Reads are correct as long as no leaf is split, also where overlapping misses
\* of one key put it into both levels.
ReadsCorrectUntilSplit == Unsplit => ReadsCorrect

\* With records inserted and leaves split meanwhile, a read finds its own
\* record or nothing, never the record of another key.
ReadsOwnOrNothing ==
    \A t \in Thread : pkt[t].type = ReadBack => pkt[t].val \in {pkt[t].truth, Empty}

\* Every cached address is one of a node and, as long as no leaf is split, the
\* leaf of the key it is cached for, on both levels.
CachedLeavesRight ==
    /\ addr \in [Level -> [Bucket -> [Slot -> DOMAIN tree.node \cup {NULL}]]]
    /\ Unsplit =>
         \A l \in Level, b \in Bucket, p \in Position, k \in Key :
            /\ index[k] = b
            /\ key[l][b][p] = fp[k]
            /\ AddrAt(l, b, p) # NULL
            => AddrAt(l, b, p) = LeafFor(tree, k, NULL)

\* A fingerprint is on both levels, or twice on level 2, only after two packets
\* concerned its entry at a time: two reads of it, or a read of it and a packet
\* that carried it from level 1 to level 2.
LevelsDisjoint ==
    \A l, m \in Level, b \in Bucket, p, q \in Position :
        key[l][b][p] = key[m][b][q] /\ <<l, p>> # <<m, q>>
        => key[l][b][p] = Cleared \/ <<b, key[l][b][p]>> \in raced

\* Level 1 holds no key twice even when misses overlap.
LevelOneDistinct ==
    \A b \in Bucket, p, q \in Position :
        key[1][b][p] = key[1][b][q] /\ p # q => key[1][b][p] = Cleared

\* What the two levels hold: fingerprints of keys, none twice on level 1, and
\* none twice at all unless two packets concerned it at a time.
CachedOnce == IndexTypeOK /\ LevelOneDistinct /\ LevelsDisjoint

\* What a read returns: the latest record until a leaf is split, and then its
\* own record or nothing.
ReadsFaithful == ReadsCorrectUntilSplit /\ ReadsOwnOrNothing
=============================================================================
