# P4LRU: a TLA+ model of the switch programs and their hosts

P4LRU caches entries in the data plane of a programmable switch and replaces
them in LRU order. The difficulty is the hardware: a packet visits the stages of
the pipeline once, every register lives in one stage and is touched once. The
repository's answer is a unit of three key registers, which are shifted, three
value registers, which never move, and a six-state DFA that remembers which
value belongs to which key. Three applications use it: LRUTable (an address
table), LRUMon (a flow monitor) and LRUIndex (a B+ tree index).

All paths below are relative to `src/`.

## 1. Inventory

| Part | State | Operations | Talks to |
|---|---|---|---|
| LRUTable switch, `testbed/LRUTable/P4/lru_table.p4` | `key_1..3`, `reg_dfa`, `value_1..3` per bucket | query (0x0527), query back (0x0529) | sender on port 128, server on port 144 |
| LRUTable hosts, `testbed/LRUTable/Server/{sender,recver}.cc` | the query waited for; the address table | send and poll; SIGINT; serve | the switch, through the DPDK driver |
| DPDK driver, `testbed/driver/driver.cc` | `recv_queue` | `send_pkt` (drops silently), `recv_pkt` (polls without timeout) | the NIC |
| LRUMon filter, `Ingress1` of `testbed/LRUMon/P4/lru_mon.p4` | window stamps and byte counters of two layers | one packet | drops, or sends to the loopback port |
| LRUMon unit, `Egress2` and `Ingress2` of the same program | `fp_1..3`, `reg_dfa`, `counter_1..3`; records in the loopback | one packet; submit or drop | the server |
| LRUMon hosts, `testbed/LRUMon/Server` | record and byte counts | replay a trace; count | the switch |
| LRUIndex switch, `testbed/LRUIndex/P4/lru_index.p4` | two P4LRU levels of leaf addresses, one per pipe | read, answer to a read, insert | the client's threads and the back end |
| LRUIndex back end, `testbed/LRUIndex/Server/{backend,lib/b_plus_tree.h}` | B+ tree | insert; query by key or from a cached leaf | the switch |
| LRUIndex front end, `.../db/b_plus_tree_db.cc`, `.../driver` | queue, port and rule of each thread | register, send, receive, load the switch | the YCSB client, the switch |
| YCSB client, `.../ycsbc.cc`, `.../core` | workload, generators, clients | load phase, transactions | any database below |
| Tables in memory, `.../db/hashtable_db.cc`, `.../lib/{*hashtable,string}.h` | records, fields, values and copies of keys on the heap | Read, Scan, Update, Insert, Delete from several threads | the client |
| Redis binding, `.../db/redis_db.cc`, `.../redis/redis_client.h` | one connection | Read, Update, Insert, Delete; commands optionally followed by WAIT | hiredis |
| hiredis, `.../redis/hiredis` | strings, reader, dictionaries, contexts | formatting, parsing, callbacks, connecting | event libraries, sockets |
| CPU simulation, `CPU_simulate/src` | fifteen simulated caches, sketches | one packet; the loops of six tests | FarmHash |
| FarmHash, `CPU_simulate/src/farm.cpp` | none | hash functions | none |
| Baselines: `baseline_*.p4`, `naive_*.p4`; tools and plots | hash tables; none | as above; file conversion | as above |

The behaviours that are hard to test here: sequences of hits and misses that
drive the DFA through all its states; packets overlapping in the pipeline or
overtaking each other between client threads; answers that come back after their
key moved or was evicted, or after the leaf they name was split; lost packets and
restarted senders under a client without timeout; counters and stamps that wrap;
callbacks that end the connection they are called from; replies cut anywhere;
threads that share tables, counters and queues. `PROJECT.json` lists each of
them at its line under `hazards`.

What makes the parts correct:

* P4LRU unit: the value found for a key is that key's; replacement is exactly LRU.
* LRUTable: every answer is the server's entry; the sender waits forever only if
  a packet was lost; no entry stays without value unless a packet was lost.
* LRUMon filter: a packet passes exactly if its flow's cells reached the
  threshold in this window. Unit: every byte is reported once, for its flow.
* LRUIndex: a cached address leads to its key; a read returns the latest record.
* Front end: an answer reaches the thread that asked, with what was sent.
* YCSB: every record is loaded once, and the transactions use loaded records.
* Tables in memory: operations on different keys do not disturb each other.
* hiredis: a reply reaches the command it answers, once, however it travelled.
* Simulation: the placeholders, ranks and counts kept beside a cache match it.

## 2. Modules

| Module | Models |
|---|---|
| `P4LRU` | the unit as operators: the DFA's stateful-ALU programs, `Tsm` (`meta.dfa_tsm`), `InsertKey`, `QuerySlot`, `ReplaceSlot` |
| `LRUTableSwitch` | `Ingress1` of `lru_table.p4`, one atomic action per packet type |
| `LRUCache` | abstract specification: a list of entries in recency order per bucket |
| `LRUTablePolicy` | the switch with a history variable: which keys of its bucket were queried since each key was |
| `LRUTablePipeline` | the same program stage by stage, six register stages, several packets inside |
| `LRUTableSystem` | sender, switch and server over FIFO links, with loss and restarts |
| `LRUMonFilter`, `LRUMonCache` | `Ingress1` of `lru_mon.p4`; `Egress2`, the loopback, `Ingress2` and the receiver |
| `BPlusTree`, `BPlusTreeStore` | the tree of `b_plus_tree.h` as operators on an array of nodes; the tree under inserts and queries, with the addresses its answers gave away |
| `LRUIndexSystem` | client threads, both pipes of `lru_index.p4` and the back end with its tree |
| `FrontEnd` | `b_plus_tree_db.cc` over `driver.cc` and `flow_blocks.cc`: rings, registration, rules, message bytes |
| `YCSB` | `ycsbc.cc`, `core/`: command line, workload, generators, both phases |
| `HashtableDB` | `hashtable_db.cc` over the three tables of `lib/`, one step per table operation |
| `Sds`, `SdsStrings` | `sds.c` as operators on header and buffer; sequences of its operations |
| `RedisReader`, `RedisFormat`, `RedisDict` | `read.c`; the formatters of `hiredis.c`; `dict.c` |
| `RedisAdapters`, `RedisAsync` | the event-library adapters; `async.c` with user, server and event loop |
| `RedisConnection` | `net.c` and the connecting half of `hiredis.c`, one step per system call |
| `RedisClient` | `redis_db.cc`, `redis_client.h` and blocking `hiredis.c` over partial reads and writes |
| `SimCache`, `SimIndex`, `SimMon`, `Experiment` | the simulators of `app1`/`app4`, `app2`/`app5`, `lru`/`sketch.h`/`app6`; the six tests that drive them |
| `FarmHash` | which bytes every hash function reads |
| `P4LRUProofs` | lemmas about the unit, for the next four |
| `LRUTableProofs` | LRUTable: the switch, its policy, the testbed |
| `LRUTablePipelineProofs` | the pipeline refines the atomic switch |
| `LRUMonProofs` | LRUMon: the filter, the unit, the sums of bytes; the bytes FarmHash reads |
| `LRUIndexProofs` | LRUIndex: the two levels, the addresses in them, the reads |
| `BPlusTreeProofs` | lemmas about the tree of the back end: shape, search, splits |
| `ServerProofs` | the tables in memory, the front end, the tree under inserts and queries |
| `RedisProofs` | hiredis: sockets, replies, the events of the asynchronous client |
| `MC*` | instances for TLC |

`LRUTablePolicy` and `LRUTableSystem` extend `LRUTableSwitch`, which, like
`LRUTablePipeline`, `LRUMonCache` and `LRUIndexSystem`, extends `P4LRU`.
`LRUTableSwitch` instantiates `LRUCache`; `LRUTablePipeline` instantiates
`LRUTableSwitch`. `LRUIndexSystem` composes `P4LRU` and `BPlusTree`; `RedisReader`
and `RedisFormat` build on `Sds`. `MCLRUMon`, `MCHiredis` and `MCServer` put
several components that share no state into one instance: the variable `part`
says which one a behaviour runs, the constant `Parts` which ones are checked.

### Correspondence with the code

*Registers.* `key[b][p]`, `reg_dfa[b]`, `value[b][s]` are `key_p`, `reg_dfa` and
`value_s` at index `b`. `set_lru_table.py` clears them before traffic starts:
`Init`. A cleared register holds 0, which is also a possible key and value; the
instances include the key 0. The metadata fields the P4 program reads before
writing them (`dfa_tsm`, `old_fp`, `lru_is_replace`) are zeroed by the parser of
the target. Hashes are arbitrary functions (constants).

*LRUTable.* `HandleQuery` is the 0x0527 branch: shift the keys, move the DFA,
read or clear the front value, answer or forward. `HandleQueryBack` is the
0x0529 branch. The server's entry of a key is `TableEntry(k) = k`, because
`recver.cc` stores the key itself (`table[tab_key] = tab_key`); the random
entries of its `main` are `Preloaded` and are overwritten before they are
answered. The destination address a query carries in its value field is read by
nobody and is 0 in the model.

*Pipeline.* A stage is where a register array lives. In one tick every stage
handles the packet in front of it and all packets advance. The refinement
mapping completes the packets inside: the registers are those after six more
ticks. `dfa_table_1` is annotated `@stage(5)` and the other tables of `reg_dfa`
`@stage(7)`; a register array can only be in one stage, the model uses one.

*LRUTable system.* `SendQuery` and `ReceiveAnswer` are the two halves of
`send_caida_pkt`: `recv_pkt` returns the first packet of any key. SIGINT may come
at any time; the packets the old process had received are lost (any prefix of
`down`), those on the wire are not. Links keep order; `LosePacket` is a packet
the NIC refused (`send_pkt` frees it) or the network dropped.

*LRUMon.* Each filter layer is one array of cells; the program splits it over two
registers by the top bit of the hash. Time is the number of the window; stamps
and counters wrap at `StampMod` and `FilterMod` (2^16), the unit's `counter` at
`CounterMod` (2^32). The loopback port is the FIFO between `Egress2` and
`Ingress2`. The commented-out buffer pool is not live code and is not modelled.

*LRUIndex.* `key[l]`, `reg_dfa[l]` and `addr[l]` exist once per level. A packet is
one record `pkt[t]` per thread, because a thread waits for its answer; `Move` takes
it to the next place (first pipe, loopback, second pipe, back end), so packets of
different threads overtake each other everywhere. `raced` remembers which entries
two packets concerned at a time; no step depends on it. `Lookaside` is a read that
only looks, `InsertMode` what an answer does to level 1, `ReplaceMode` what it hands
down to level 2. A tree is an array of nodes, an address its index.

*Front end.* An integer in memory is the sequence of its bytes. The text of a key is
the prefix and the decimal digits of its 64-bit number, which the header carries in
two halves. Queue and port numbers come from `map[id] = map.size()`, whose order of
evaluation the language leaves to the compiler before C++17: `compiled` chooses.
`std::thread::id` may be reused after `join`, which is what the second phase depends
on.

*YCSB.* Random numbers are any number the generator can give; proportions are in
per cent and added exactly. The properties of a file are a function, the command
line a sequence of tokens, parsed as `ParseCommandLine` does. `InitEnds`
says how `Init` ends, in its order: an assertion of the generator of the field
lengths, an exception for a missing count, an assertion of the key or the scan
chooser, or the load. With no positive proportion the first transaction aborts.
`ReadResult` is what each database makes of a list of field names.

*Tables in memory.* What is freed is never reused, so that a later use shows as
`misuse`; `raced` records which kinds of operation overlapped on one key. The
copies of the texts are counted: one more for every insertion of a key or a field,
also for one that finds it there and is ignored, one less for a removal of a key,
none less for a record that is taken apart. `tbb_rand` frees the text (`FreeText`)
before it erases the entry (`RemoveKey`), under the shared lock, and meanwhile
another thread may compare its key with it (`CompareFreedText`).

*hiredis.* Characters are names of the classes the code distinguishes (`"cr"`,
`"nul"`, `"bs"`). `Sds` keeps length, room, allocation and buffer. The reader has
its task stack, position and buffer, and receives the bytes of a stream in every
cut. In `RedisAsync` a handler runs until it calls the user, who may then issue
commands, disconnect or free; `pc` and `return` say where it continues. In
`RedisConnection` a step is one system call, which may fail, while another
thread opens and closes descriptors. In `RedisClient` the wire carries half
commands and half replies.

*Simulation.* A simulator is the record of its namespace's variables, `insert` a
function on it. `ok` turns false when an assertion fails or a division is by
zero. Traces are arbitrary, with time stamps that may be equal.

*FarmHash.* For every namespace, build and length, the set of offsets read: the
control of the functions without their arithmetic.

Definitions that are a mapped name followed by an underscore and a word
(`SplitLeaf_low`, `InsertKey_fifo`, ...) and listed under `mutants` in
`PROJECT.json` are faulty variants which show that the properties can fail; no
specification uses them.

## 3. Runs

| Run | Instance, and why it is enough |
|---|---|
| `table_switch` | one bucket, keys 0..4: more keys than entries, so every DFA state, hit position and eviction occurs, and an answer may find its key at any position or gone. Buckets do not interact, and the proofs cover the general case. |
| `table_system` | 4 queries of 5 keys, 2 restarts, packets of one key lost: a full bucket and an eviction while answers are under way, several queries under way after restarts |
| `table_pipeline` | 3 packets of 4 keys, from the cleared and from a full bucket: a packet can only meet those ahead of it in the six stages, and any three of them overlap in every distance |
| `mon` | filter: 3 flows colliding in 2x2 cells, counters modulo 8, stamps modulo 2, 3 windows, so both wrap. Unit: 4 flows and one with fingerprint 0 in one bucket, counters modulo 4, 6 packets, 1 record lost |
| `mon_find_min` | the filter of `mon` (expected to be violated) |
| `index` | two threads, 5 loaded keys in two leaves of a tree of order 4, 6 requests, one insert that splits a leaf, packets lost: overlapping misses of one key, demotion to level 2, reads through an address older than the split; the threads are symmetric |
| `index_stale` | the same (expected to be violated) |
| `sim` | fingerprints 0, 1, 2 in buckets of one or two entries and one or two stages, traces of 4 or 5 packets with ties, delays 0 and 1: every replacement rule replaces, every placeholder is answered before, after and never |
| `hiredis` | strings of up to 3 bytes of every character class; 3 reply streams nested to the limit and past it, fed up to 4 bytes at a time, buffers dropped at 5; commands of 4 pieces; 5 dictionary keys that collide, two growths; 8 adapters, 3 pipelined commands on one and every kind on the others; 3 descriptors, 2 addresses, 3 retries; 4 operations of RedisDB |
| `server` | the tree from 4 loads one split short of a new root, 4 inserts; 2 threads, 2 keys, 2 fields, 3 operations in the tables; 19 command lines, with each way `Init` can end and each database; 2 front-end threads with 2 operations per phase, keys of 1 and 20 digits; every input length to 600 |
| `async_assert` | the asynchronous client on one adapter (expected to be violated) |
| `ycsb_reads` | the workloads of `server` (expected to be violated) |

Deadlock is not an error in the runs with `CHECK_DEADLOCK FALSE`: the trace ends,
a thread polls forever for a lost packet, the program has exited, or a bound of
the instance is reached. `table_switch` and `sim` check it.

### What they show

LRUTable

* `CachedValuesCorrect`, `KeysDistinct`, `AnswerCorrect`, `ImplementsLRUCache`: the
  unmoved values stay with the moving keys, and the bucket is a recency list.
* `ExactLRU`: a queried key is cached iff fewer than three other keys of its
  bucket were queried since; answers do not disturb the order.
* `ImplementsAtomicSwitch`: overlapping packets act as if one came after the other.
* `LinksSound`: the links carry only what the code puts there, with right values.
* `AnswerIsForQuery`: although the sender does not look at the key of an answer,
  the answer is its own as long as it was never restarted. After a restart it may
  take an answer to the old run's query; the property says so by its premise, and
  does not cover that case.
* `PlaceholderIsPending`, `StuckOnlyByLoss`, `QueryAnswered`: an entry without value
  is being fetched and a waiting sender is answered, unless a packet was lost.

LRUMon

* `FilterRight` is limited to cells below half the counter range, and to the time
  before the stamps wrap: beyond either the program miscounts.
* `ReportsExact`: every byte is in a register, in a record or counted, modulo the
  counter width. The fingerprint 0, which the program takes for an empty
  register, is excluded.
* `FlowsAnnounced`: flows that enter while registers are empty are not named to
  the server: at most three per bucket. Packets have a length above 0 (it is the
  length field of the IP header), or a register in use would look empty.

LRUIndex and its hosts

* `CachedOnce`, `CachedLeavesRight`: no level holds a key twice, and a key is on
  both levels only if two packets concerned it at a time: two reads of it, or a
  read of it and a packet that carried it from level 1 to level 2. The latter needs
  no second request for the key. Thread 1 hits it on level 1, the answer for
  another key demotes it, and the answer to thread 1 inserts it in level 1 again.
  Keys and addresses stay together, and every cached address is that of a node.
* `ReadsFaithful`: until a leaf is split a read returns the latest record;
  afterwards its own record or none, never another key's.
* `TreeRight`, `StaleLeafFindsOwnOrNothing`: the tree is well formed, finds the
  latest record, and a leaf once named still has the key's records or none.
* `AnswersReachAsker`: each answer reaches the thread that asked. A thread of the
  second phase that did not inherit an id ends the process; the property names it
  as the only case.
* `ExtractedAsInjected`: each side understands what the other sent, the number of
  the key and the 48 bits of the address included, for messages that fit the
  buffer of 1472 bytes.
* `WorkloadSound`: see section 1; stated for records that divide among the
  threads (the remainder is never loaded) and keys that start at 0. A workload
  ends by an assertion before the first insertion, or before the first
  transaction if every proportion is 0, never inside a phase.
* `MemorySafe`, `DisjointKeysSequential`: no data race in a container; a freed
  table, value or text of a key is used only when an Update overlaps a Read or
  Scan of one key, or a Delete any other operation of it. Two Deletes are safe
  except in `tbb_rand`. Without overlap on a key the tables do what they do
  sequentially, and each key in the table of records has one copy of its text.

hiredis and the Redis binding

* `StringsRight`, `CommandsRight`, `DictRight`, `ChunkingInvisible`: the data
  structures, the formatters and the parser against reference definitions.
* `CallbacksOrderly`: for a user that awaits the answer to an unsubscription and
  does not monitor, every callback runs exactly once and no assertion fails.
* `InterestKept`: a connection that has to go on is watched. Excepted: one-shot
  libraries when the first event finds the connection still in progress.
* `SocketsAccounted`: the context owns exactly the descriptor it names. Excepted:
  the retry of a busy port, which leaks one, and a reconnect that fails before it
  has a socket, after which a foreign number may be closed.
* `RepliesMatched`, `ErrorIsFinal`: nothing is under way between two operations,
  an answered Read is current, and a failed connection gives no more answers.
  That a failed Read returns kOK with nothing found is outside both.

Simulation

* `BookkeepingSound`, `AnswersTimely`, `BytesReported`, `CountersBounded`: types,
  assertions and ranks; no answer early and none awaited in vain; bytes are
  conserved across cache and CPU; sketches err in one direction only.
* `IdealAgrees`: with one bucket and distinct time stamps the bucketed caches are
  the ideal ones.

FarmHash: `ReadsExactlyTheInput`: every function reads all bytes of its input and
none outside.

### Disagreements found

* `ChecksMinimum` (`mon_find_min`): with counters that differ by at least half the
  range the larger one is compared with the threshold, while the comment at
  `lru_mon.p4:646` says `find min counter`.
* `ReadsCorrect` (`index_stale`): after a split moved a key to a new leaf, a read
  through the cached address finds nothing, and its answer caches the same leaf
  again; the disabled check in `backend.cc` calls this an error.
* `MustBeSubscribed` (`async_assert`): subscribe, unsubscribe and subscribe issued
  without waiting end in the assertion of `async.c:463`.
* `ReadsOneField` (`ycsb_reads`): with `readallfields=false` a transaction asks for
  `fieldfieldN`, which no record has. The tables in memory return nothing, redis an
  empty value; `b_plus_tree_db.cc` ignores the names and returns every field.

### Fairness

`LRUTableSystem` assumes weak fairness of the switch's and the hosts' receive
steps. The switch forwards every packet at line rate, and both hosts poll in a
loop without other work. Nothing is assumed of sending, losing or restarting. No
other specification states fairness: the other parts are checked for safety.

## 4. Proofs

The theorems hold for every value of the constants that satisfies the ASSUMEs of
the modules: any keys that include the cleared one, any number of buckets, flows,
threads, fields, queries, restarts and losses, any hash functions, any width of
the counters and stamps, any order of the tree. The ASSUMEs say no more than the
code: registers are numbers, a hash names a bucket, a packet is longer than 0
bytes, a message fits its buffer, the adapters are among the eight of hiredis.

| Theorem | States | Module |
|---|---|---|
| `TypeCorrect` | `TypeOK` | `LRUTableProofs` |
| `SwitchSafe`, `KeysStayDistinct`, `AnswersCorrect` | `CachedValuesCorrect`, `KeysDistinct`, `AnswerCorrect` | `LRUTableProofs` |
| `SwitchRefines` | `ImplementsLRUCache` | `LRUTableProofs` |
| `ReplacesLeastRecent` | `ExactLRU` | `LRUTableProofs` |
| `CablesSound`, `SenderGetsItsAnswer`, `PlaceholdersFetched`, `SenderStuckOnlyByLoss` | `LinksSound`, `AnswerIsForQuery`, `PlaceholderIsPending`, `StuckOnlyByLoss` | `LRUTableProofs` |
| `SystemImplementsSwitch` | `SystemSpec => Spec` | `LRUTableProofs` |
| `PipelineAtomic`, `PipelineImplementsSwitch` | `ImplementsAtomicSwitch`; the pipeline's `Spec` implements the switch's | `LRUTablePipelineProofs` |
| `FilterCorrect` | `FilterRight` | `LRUMonProofs` |
| `UnitTypeCorrect`, `FlowsLearnt` | the unit's `CacheTypeOK`; `FlowsAnnounced` | `LRUMonProofs` |
| `BytesAddUp` | `ReportsExact` | `LRUMonProofs` |
| `LevelsHoldOnce` | `CachedOnce` | `LRUIndexProofs` |
| `LeavesCachedRight`, `ReadsAreFaithful` | `CachedLeavesRight`, `ReadsFaithful` | `LRUIndexProofs` |
| `TreeStaysRight`, `StaleLeafIsSafe` | `TreeRight`, `StaleLeafFindsOwnOrNothing` | `ServerProofs` |
| `MemoryUsedSafely`, `DisjointKeysAlone` | `MemorySafe`, `DisjointKeysSequential` | `ServerProofs` |
| `AnswersFound`, `MessagesUnderstood` | `AnswersReachAsker`, `ExtractedAsInjected` | `ServerProofs` |
| `SocketsKept` | `SocketsAccounted` | `RedisProofs` |
| `RepliesInStep`, `NoAnswerAfterError` | `RepliesMatched`, `ErrorIsFinal` | `RedisProofs` |
| `InterestStays` | `InterestKept` | `RedisProofs` |
| `FarmReadsAll` | `ReadsExactlyTheInput` | `LRUMonProofs` |

Each invariant is proved from an inductive one, which TLC checked first on the
instance of the run (or a larger one). What these add, and why:

* *The unit* (`P4LRUProofs`). Queries and answers agree on the front value
  (`QuerySlotIsFront`), positions have different value registers
  (`SlotInjective`), and each DFA transition permutes them as the shift permutes
  the keys (`DfaPermutes`, by cases over the six states). `InsertedFirst`,
  `InsertedKeys` and `OriginInjective` say the same of the keys alone, without
  the values; the other modules use them.
* *The switch.* `Inv` is `TypeOK` with the three invariants. The type is needed
  because the argument about the DFA holds for its six states only; a wrong answer
  is excluded by the values of the state before it. `QueryEffect` and `BackEffect`
  say what a packet does to the pairs of key and value, and `SwitchRefines`
  uses them step by step: a query is `Hit` or `Miss` of the list, an answer `Fill`.
* *The policy.* `Recency`: the key in register `p` has been queried after exactly
  those in the registers before it, `since` of a cached key is the set of keys in
  front of it, and a key that has left has three or more in its set. Cardinalities
  enter only in the last step (`RecencyCounts`).
* *The testbed.* `SystemInv` adds to the switch's `Inv` that a key lies in its own
  bucket, that every packet is one the code sends, that a sender which never
  restarted has one packet under way, that a placeholder has one of its key
  unless one was lost, and the same for a waiting sender. `SystemImplementsSwitch`
  carries everything proved of the switch over to the testbed.
* *The pipeline.* The registers of the atomic switch are those after the packets
  inside have been completed, in the order they entered. Once the stages up to one
  are vacant, their registers have the values they will end with (`Settled`). A
  packet in front of a stage has changed the registers before it as the atomic
  switch does, and left the others (`Behind`). So a tick without arrival changes
  nothing that the mapping sees, and an arrival is one step of the switch.
* *The filter.* A cell stamped with the current window counts the bytes it saw in
  it, as long as they fit; any other has seen none. `FindMinIsMin` shows that the
  subtraction finds the smaller counter below half the range, which is what
  `ChecksMinimum` says without that limit and what is false.
* *The unit of LRUMon.* Empty registers are the last ones, a register in use has a
  counter above 0 and at most the bytes its flow brought, and there are at most
  as many unannounced flows as registers in use.
* *The bytes.* `BytesInv`: for each flow, what its registers, its records in the
  loopback and the totals hold is what it brought (`Balanced`), modulo the width of
  the counters. The sums range over finite sets of buckets and positions; that a
  sum changes by what one summand changes by is proved by induction on the set.
* *LRUIndex, the levels.* `Knows`: what a packet says of a key that no other packet
  concerns is true. The position field names the level, a key pushed out of
  level 1 is on neither level while it travels, and a read that missed finds the
  key nowhere. `EntryRight` says of such a key that it is on one level at most;
  `raced` collects the others.
* *LRUIndex, the addresses.* Each level keeps key and address together through the
  DFA (`Belongs`), and every address, cached or under way, is that of a leaf whose
  lower bound is not above the key (`Leads`); as long as no leaf was split, it is
  the leaf a search from the root ends in. These two theorems have the hypothesis
  `FingerprintsDiffer`: two keys in one bucket never share their fingerprint. The
  switch compares fingerprints only, so without it a key would be given another
  key's address.
* *The B+ tree.* `Shape` adds to the nodes a ghost of levels and bounds: which keys
  a node may hold, with the key that became its upper bound kept in a split leaf.
  An insert leaves one node too full on the way up (`Nearly`), and each call of
  the recursion moves it one level up. A leaf that was named for a key either
  still has its record, or the key went to a leaf on the right, and then it has
  no record of that key.
* *The tables' memory.* `HashInv`: locks held at the same time are compatible, which
  excludes the races; every overlap in progress is in `raced`; a table has one
  key, and a value is in one field of one table or with the thread that made it.
  While no dangerous overlap is recorded (`Calm`), nobody else reaches a table
  being deleted, everything that can be reached is live, and the pointers a reader
  took are still in the table; and a key whose text has been freed is looked for by
  nobody, or by a Delete that the lock of the whole table keeps out (`TextHeld`).
* *The tables, alone.* `SequentialInv`: `SoFar` says what a thread that is alone at
  its key has done to the record up to now, `RecordsKept` that all other records
  are what the operations left, `Accounted` that each live value is in reach or in
  the hands of its thread, `FieldsNamed` that a value is in the field it was made
  for, `TextsInv` how many copies of the texts there are.
* *The front end.* `FrontInv`: different threads have different ids, so the maps
  from ids to queues and ports are injective whichever order the compiler chose;
  the rule of an id leads to its queue; a waiting thread's request or answer exists
  exactly once; the queue of a newcomer in the second phase was never set up. For
  the messages, each extraction undoes its injection; for a list of values
  the loops of both sides run towards each other, and the first pair on which they
  disagreed would be preceded by one they agree on (`ReadsPairs`).
* *Sockets.* `ConnInv`: at every step of a call, as long as neither excepted path
  was taken, the context owns exactly its descriptor once `socket` has returned
  and none before; a resting context owns one exactly if its descriptor says so.
* *Replies.* `ClientInv`: the halves of requests and replies under way are at most
  twice the replies awaited (`Budget`), which leaves none between operations;
  those of a Read carry the current record; without error a failed operation
  leaves nothing behind.
* *The asynchronous client.* `InterestInv`: for libraries that remember flags, the
  flags are what they watch; while a handler runs, what it has still to do will
  ask for the events that are missing (`ReadReady`, `WriteReady`). Most steps leave
  all of this alone and are treated by one lemma.
* *FarmHash.* The set each function reads is an interval: fetches at both ends that
  overlap or touch (`Nested`), rounds over blocks of one size (`Chunks64` and the
  like), the last block once more (`Ends64`), the tail of the 128 bit functions,
  which may begin before the blocks end (`CityTailIs`). `EntriesExact` follows the
  dispatch of each build.

What the proofs changed in the model: `redisGetReplyFromReader` had a `CASE` whose
conditions overlap and now decides in the order of the code; the assumptions on
packet lengths, on the domains of the hashes, on the loads of the tree, on the
messages and on the adapters were missing; `ExactLRU` was stated over the order of
last queries and is now over the keys queried since; the bytes of a flow are a sum
over a set; the loops over values and over loads are recursive functions.

Only model-checked:

* fairness: `QueryAnswered`. Liveness and ENABLED are out of the prover's reach.
* recursive operators, which the prover does not accept in a module it proves
  about: `StringsRight`, `CommandsRight`, `ChunkingInvisible` and `DictRight`
  (`Sds`, `RedisFormat`, `RedisReader`, `RedisDict`); `IdealAgrees` and the other
  properties of `Experiment` (folds over traces).
* `WorkloadSound`, about the command lines of the instance, which take each branch
  of `Init` and of the parser.
* not proved: `CallbacksOrderly`, whose invariant relates the queues of callbacks to
  what the server has still to answer through every callback that re-enters.

Induction is available for a fact about one definition (the first number for which
it fails has a predecessor for which it holds), and is used so for sums, loops and
descents; the library's induction theorems, which take an operator, are not.

## 5. Not modelled

* The baseline and naive P4 programs, comparison points of the evaluation. Their
  replacement rules appear where the CPU simulation has them.
* The data-set tools, the plots and everything that is only printed.
* Ethernet, IP and UDP headers other than ports; CPU affinity; the byte layout of
  LRUTable and LRUMon messages.
* FarmHash's arithmetic and its self test; hash functions are arbitrary.
* The shapes of the YCSB distributions and rounding of `double`.
* `BPlusTree::load2switch` and `print_info`, which no live call reaches; a Scan by
  field names; CMSketch, which no test uses.
* hiredis on Windows, `redisSetTimeout`, and an event library that calls the write
  handler after the read handler freed the context (libuv and glib do not look).
* Undefined behaviour after which nothing can be said: two threads in one
  `redisContext`, map lookups without the driver's lock, messages that do not fit
  their buffer of 1472 bytes (an assumption of `FrontEnd`), registers indexed past
  their end (`lru_mon.p4` indexes 1024 entries with 11 bits).

## 6. Plan

1. `CallbacksOrderly` of `RedisAsync`, for any adapter: the queues of callbacks
   against the answers under way.
2. `WorkloadSound` of `YCSB`, for every command line and any number of threads.
