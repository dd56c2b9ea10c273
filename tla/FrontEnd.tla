------------------------------- MODULE FrontEnd ------------------------------
(***************************************************************************)
(* The YCSB front end of LRUIndex (db/b_plus_tree_db) over the DPDK driver *)
(* (driver/driver.cc): the port and its queues, the registration of each   *)
(* client thread for a queue and a UDP port, the flow rules that steer an  *)
(* answer to the queue its thread polls, and the bytes of the messages     *)
(* exchanged with the back end.                                            *)
(*                                                                         *)
(* ycsbc.cc runs nb_threads threads that load the table and, when all have *)
(* been joined, as many that run transactions.  The driver's maps are keyed*)
(* by std::thread::id, which the system may reuse once a thread is joined. *)
(* An integer in memory is the sequence of its bytes, least significant    *)
(* first (the hosts are x86), so that htonl reverses it.                   *)
(***************************************************************************)
EXTENDS Integers, Sequences, SequencesExt, FiniteSets

CONSTANTS nb_threads,   \* the client threads of each phase
          OpsPerThread, \* total_ops / num_threads, in either phase
          Inserted,     \* the requests of the loading threads
          Queried,      \* the requests of the transaction threads
          Answered      \* what the back end's tree answers to a query

ASSUME FrontEndAssumption == nb_threads \in 1..16 /\ OpsPerThread \in Nat

Octet == 0..255
Room == 1472                      \* msg: the buffer of every message

VARIABLES compiled,      \* how the compiler orders `map[id] = map.size()'
          stage,      \* where ycsbc's main is
          worker,     \* the client threads of the present phase
          driver,     \* dpdk_driver and BPlusTreeDB: maps, rings, rules
          net,        \* the packets on their way to the back end
          rx,         \* the receive queues of the front end's port
          received,   \* what recv_pkt and extract_* last produced (history)
          newcomer    \* a transaction thread got a new thread id (history)

frontVars == <<compiled, stage, worker, driver, net, rx, received, newcomer>>

Workers == 1..nb_threads
Main == 0
Server == -1

-----------------------------------------------------------------------------
\* The messages.  The bytes in memory of an unsigned integer of four bytes.
Weight == <<1, 256, 65536, 16777216>>
unsigned(v) == [i \in 1..4 |-> (v \div Weight[i]) % 256]
htonl(b) == Reverse(b)
Value(b) == b[1] + 256 * b[2] + 65536 * b[3] + 16777216 * b[4]

\* "usertable" and "user": the 13 bytes before the digits of a key.
KeyPrefix == <<117, 115, 101, 114, 116, 97, 98, 108, 101, 117, 115, 101, 114>>

\* An int64_t or uint64_t is its eight bytes.
Zero8 == [i \in 1..8 |-> 0]
Digit(n, d) ==      \* 10 * n + d
    FoldLeft(LAMBDA r, b : LET x == 10 * b + r.carry
                           IN  [carry |-> x \div 256, bytes |-> Append(r.bytes, x % 256)],
             [carry |-> d, bytes |-> <<>>], n).bytes

\* uint64_t parsed from the digits behind the prefix.
remove_key_index_prefix(key) ==
    FoldLeft(LAMBDA n, d : Digit(n, d - 48), Zero8, SubSeq(key, 14, Len(key)))

inject_msg_type(type) == htonl(unsigned(type))

inject_fbt_hdr_swapped(key, idx, flag) ==
    htonl(SubSeq(key, 1, 4)) \o htonl(SubSeq(key, 5, 8))
      \o <<idx[6], idx[5], idx[4], idx[3], idx[2], idx[1]>> \o <<flag>>

\* key: 8 bytes, of which the two halves are sent in network order;
\* idx: 8 bytes, of which the low six are sent, most significant first.
inject_fbt_hdr(key, idx, flag) ==
    htonl(SubSeq(key, 5, 8)) \o htonl(SubSeq(key, 1, 4))
      \o <<idx[6], idx[5], idx[4], idx[3], idx[2], idx[1]>> \o <<flag>>

inject_key_index(key) == unsigned(Len(key)) \o key

inject_values(values) ==
    LET n == Len(values)
        from[i \in 1..(n + 1)] ==      \* the pairs from the i-th on
            IF i > n THEN <<>>
            ELSE inject_key_index(values[i][1]) \o inject_key_index(values[i][2]) \o from[i + 1]
    IN  unsigned(n) \o from[1]

\* An extraction returns what it read and the bytes left behind it.
extract_msg_type(msg) ==
    [got |-> Value(htonl(SubSeq(msg, 1, 4))), rest |-> SubSeq(msg, 5, Len(msg))]

extract_fbt_hdr(msg) ==
    [got |-> [fbt_key |-> htonl(SubSeq(msg, 5, 8)) \o htonl(SubSeq(msg, 1, 4)),
              idx |-> [i \in 1..8 |-> IF i <= 6 THEN msg[15 - i] ELSE 0], flag |-> msg[15]],
     rest |-> SubSeq(msg, 16, Len(msg))]

extract_key_index(msg) ==
    LET n == Value(SubSeq(msg, 1, 4))
    IN  [got |-> SubSeq(msg, 5, 4 + n), rest |-> SubSeq(msg, 5 + n, Len(msg))]

extract_values(msg) ==
    LET n == Value(SubSeq(msg, 1, 4))
        read[i \in 0..n] ==
            IF i = 0 THEN [got |-> <<>>, rest |-> SubSeq(msg, 5, Len(msg))]
            ELSE LET k == extract_key_index(read[i - 1].rest)
                     v == extract_key_index(k.rest)
                 IN  [got |-> Append(read[i - 1].got, <<k.got, v.got>>), rest |-> v.rest]
    IN  read[n]

InsertMessage(r) ==
    inject_msg_type(1318) \o inject_key_index(r.key) \o inject_values(r.values)

QueryMessage(r) ==
    inject_msg_type(1319)
      \o inject_fbt_hdr(remove_key_index_prefix(r.key), Zero8, 0)
      \o inject_key_index(r.key)

\* What the back end makes of a request's bytes.
handle_insert(msg) ==
    LET k == extract_key_index(msg) IN [key |-> k.got, values |-> extract_values(k.rest).got]

handle_query(msg) ==
    LET hdr == extract_fbt_hdr(msg)
    IN  [key |-> extract_key_index(hdr.rest).got, fbt_key |-> hdr.got.fbt_key]

AnswerMessage(key, a) ==
    inject_msg_type(1321)
      \o inject_fbt_hdr(remove_key_index_prefix(key), a.idx, a.flag)
      \o inject_values(a.values)

\* What that message stands for.
Answer(r, a) == [fbt_key |-> r.fbt_key, idx |-> a.idx, flag |-> a.flag, values |-> a.values]

IsString(s) == s \in Seq(Octet) /\ Len(s) <= Room
IsValues(v) ==
    /\ v \in Seq(Seq(Octet) \X Seq(Octet)) /\ Len(v) <= Room
    /\ \A i \in DOMAIN v : IsString(v[i][1]) /\ IsString(v[i][2])

\* Nothing in the code checks that a message fits its buffer; what happens to
\* one that does not is beyond this model.  The text of a key is its number in
\* decimal digits behind the prefix; an address has 48 bits.
ASSUME MessageAssumption ==
    /\ \A r \in Inserted : /\ DOMAIN r = {"key", "values"} /\ IsString(r.key) /\ IsValues(r.values)
                           /\ Len(InsertMessage(r)) <= Room
    /\ \A r \in Queried : /\ DOMAIN r = {"key", "fbt_key"} /\ IsString(r.key) /\ r.fbt_key \in [1..8 -> Octet]
                          /\ remove_key_index_prefix(r.key) = r.fbt_key
                          /\ Len(QueryMessage(r)) <= Room
    /\ \A a \in Answered :
         /\ DOMAIN a = {"idx", "flag", "values"} /\ a.flag \in Octet /\ IsValues(a.values)
         /\ a.idx \in [1..8 -> Octet] /\ a.idx[7] = 0 /\ a.idx[8] = 0
         /\ \A r \in Queried : Len(AnswerMessage(r.key, a)) <= Room

-----------------------------------------------------------------------------
\* The statement `map[id] = map.size()' leaves it to the compiler whether the
\* size is read before or after the entry is made (-std=c++11).
Enter(map, id, sizeFirst) ==
    [i \in DOMAIN map \cup {id} |->
        IF i = id THEN Cardinality(DOMAIN map \cup IF sizeFirst THEN {} ELSE {id}) ELSE map[i]]

register_queue_id_again(map, id, sizeFirst) == Enter(map, id, sizeFirst)

register_queue_id(map, id, sizeFirst) ==
    IF id \in DOMAIN map THEN map ELSE Enter(map, id, sizeFirst)

register_dest_port(map, id, sizeFirst) ==
    IF id \in DOMAIN map THEN map ELSE Enter(map, id, sizeFirst)

\* A UDP rule sends what comes for a port to a queue; the driver of the card
\* refuses one for a queue that was not set up.
generate_udp_flow(d, queue, port) ==
    IF queue \in d.rings
    THEN [p \in DOMAIN d.rules \cup {port} |-> IF p = port THEN queue ELSE d.rules[p]]
    ELSE <<>>

\* Without the rule the process exits.
flow_init(d, queue, port) ==
    \/ /\ generate_udp_flow(d, queue, port) # <<>>
       /\ driver' = [d EXCEPT !.rules = generate_udp_flow(d, queue, port)]
       /\ UNCHANGED stage
    \/ /\ driver' = d
       /\ stage' = "exited"

FrontEndInit ==
    /\ compiled \in [queue : BOOLEAN, port : BOOLEAN]
    /\ stage = "start"
    /\ worker = [w \in Workers |-> [at |-> "none"]]
    /\ driver = [queue |-> <<>>, port |-> <<>>, rings |-> {}, rules |-> <<>>, init_count |-> 0]
    /\ net = {}
    /\ rx = <<>>
    /\ received = [to |-> Main, by |-> Main, means |-> <<>>, got |-> <<>>]
    /\ newcomer = FALSE

\* The rings the port comes up with: one pair per queue, or none when the
\* device refuses a step of its configuration.
port_init(queues) == {queues, {}}

\* BPlusTreeDB's constructor: dpdk_driver::init makes a pool for every queue
\* and brings up the port, or the process exits.
driver_init ==
    /\ stage = "start"
    /\ \E rings \in port_init(0..(nb_threads - 1)) :
         /\ stage' = IF rings = {} THEN "exited" ELSE "load"
         /\ driver' = [driver EXCEPT !.rings = rings]
         /\ rx' = [q \in rings |-> <<>>]
    /\ UNCHANGED <<compiled, worker, net, received, newcomer>>

\* The thread ids in use, and those of the joined threads.
LiveIds == {worker[w].id : w \in {v \in Workers : worker[v].at # "none"}}
JoinedIds == Workers

\* main creates the threads of a phase; a thread of the second one gets the
\* id of a joined thread or a new one.
CreateThread(w) ==
    /\ stage \in {"load", "run"}
    /\ worker[w].at = "none"
    /\ \A v \in Workers : v < w => worker[v].at # "none"
    /\ \E id \in (IF stage = "load" THEN {w} ELSE JoinedIds \cup {nb_threads + w}) :
         /\ id \notin LiveIds
         /\ worker' = [worker EXCEPT ![w] = [at |-> "created", id |-> id, ops |-> 0]]
         /\ newcomer' = (newcomer \/ (stage = "run" /\ id \notin JoinedIds))
    /\ UNCHANGED <<compiled, stage, driver, net, rx, received>>

\* BPlusTreeDB::Init, under the lock.
DbInit(w) ==
    LET id    == worker[w].id
        count == driver.init_count + 1
        d     == [driver EXCEPT !.init_count = count,
                                !.queue = register_queue_id(@, id, compiled.queue),
                                !.port = register_dest_port(@, id, compiled.port)]
    IN  /\ stage \in {"load", "run"}
        /\ worker[w].at = "created"
        /\ IF count <= Cardinality(driver.rings)
           THEN flow_init(d, d.queue[id], d.port[id])
           ELSE driver' = d /\ UNCHANGED stage
        /\ worker' = [worker EXCEPT ![w].at = "idle"]
        /\ UNCHANGED <<compiled, net, rx, received, newcomer>>

\* The first half of BPlusTreeDB::Insert and ::Read: get_queue_id and
\* get_dest_port find the thread's entries; send_pkt takes a buffer from the
\* queue's pool, and without such a pool the process is lost.
SendRequest(w, r) ==
    /\ stage \in {"load", "run"}
    /\ worker[w].at = "idle"
    /\ worker[w].ops < OpsPerThread
    /\ IF driver.queue[worker[w].id] \in driver.rings
       THEN /\ net' = net \cup
                 {[port |-> driver.port[worker[w].id], by |-> w, means |-> r,
                   msg |-> IF stage = "load" THEN InsertMessage(r) ELSE QueryMessage(r)]}
            /\ worker' = [worker EXCEPT ![w].at = "waiting", ![w].ops = @ + 1]
            /\ UNCHANGED stage
       ELSE stage' = "crashed" /\ UNCHANGED <<worker, net>>
    /\ UNCHANGED <<compiled, driver, rx, received, newcomer>>

\* The packet that answers p comes back with p's port: to the queue of the
\* rule for it, to any queue when there is none.
Deliver(p, msg, means) ==
    /\ \E q \in IF p.port \in DOMAIN driver.rules THEN {driver.rules[p.port]} ELSE driver.rings :
         rx' = [rx EXCEPT ![q] = Append(@, [by |-> p.by, msg |-> msg, means |-> means])]
    /\ net' = net \ {p}

\* The back end's loop: the type selects the handler.  (Another type than the
\* three would only be reported; no front end sends one.)
BackEnd(p) ==
    LET type == extract_msg_type(p.msg)
    IN  /\ p \in net
        /\ \/ /\ type.got = 1318
              /\ received' = [to |-> Server, by |-> Server, means |-> p.means,
                              got |-> handle_insert(type.rest)]
              /\ Deliver(p, inject_msg_type(1320), [type |-> 1320])
           \/ /\ type.got = 1319
              /\ received' = [to |-> Server, by |-> Server, means |-> p.means,
                              got |-> handle_query(type.rest)]
              /\ \E a \in Answered :
                   Deliver(p, AnswerMessage(received'.got.key, a), Answer(p.means, a))
           \/ /\ type.got = 1536
              /\ Deliver(p, inject_msg_type(1537), [type |-> 1537])
              /\ UNCHANGED received
        /\ UNCHANGED <<compiled, stage, worker, driver, newcomer>>

\* send_pkt drops a packet that finds the ring full, on either side; to the
\* front end a lost request and a lost answer look alike.
DropPacket(p) ==
    /\ p \in net
    /\ net' = net \ {p}
    /\ UNCHANGED <<compiled, stage, worker, driver, rx, received, newcomer>>

\* What the second half of Insert and of Read makes of an answer.
ReadAnswer(type) ==
    IF stage = "load" THEN [type |-> type.got]
    ELSE LET hdr == extract_fbt_hdr(type.rest)
         IN  [fbt_key |-> hdr.got.fbt_key, idx |-> hdr.got.idx, flag |-> hdr.got.flag,
              values |-> extract_values(hdr.rest).got]

\* recv_pkt polls the thread's queue until a packet comes; the type of the
\* message is asserted.
RecvAnswer(w) ==
    LET q    == driver.queue[worker[w].id]
        p    == Head(rx[q])
        type == extract_msg_type(p.msg)
    IN  /\ stage \in {"load", "run"}
        /\ worker[w].at = "waiting"
        /\ rx[q] # <<>>
        /\ rx' = [rx EXCEPT ![q] = Tail(@)]
        /\ IF type.got = (IF stage = "load" THEN 1320 ELSE 1321)
           THEN /\ received' = [to |-> w, by |-> p.by, means |-> p.means, got |-> ReadAnswer(type)]
                /\ worker' = [worker EXCEPT ![w].at = "idle"]
                /\ UNCHANGED stage
           ELSE stage' = "aborted" /\ UNCHANGED <<received, worker>>
        /\ UNCHANGED <<compiled, driver, net, newcomer>>

\* All threads of the phase have returned and main has joined them.
JoinAll ==
    /\ stage \in {"load", "run"}
    /\ \A w \in Workers : worker[w].at = "idle" /\ worker[w].ops = OpsPerThread
    /\ stage' = IF stage = "load" THEN "run" ELSE "switch"
    /\ worker' = [w \in Workers |-> [at |-> "none"]]
    /\ UNCHANGED <<compiled, driver, net, rx, received, newcomer>>

\* BPlusTreeDB::Load2Switch, by main, on queue 0 and port 0.
Load2SwitchSend ==
    /\ stage = "switch"
    /\ stage' = "switching"
    /\ net' = net \cup {[port |-> 0, by |-> Main, means |-> [type |-> 1536],
                         msg |-> inject_msg_type(1536)]}
    /\ UNCHANGED <<compiled, worker, driver, rx, received, newcomer>>

Load2SwitchRecv ==
    LET type == extract_msg_type(Head(rx[0]).msg)
    IN  /\ stage = "switching"
        /\ rx[0] # <<>>
        /\ rx' = [rx EXCEPT ![0] = Tail(@)]
        /\ stage' = IF type.got = 1537 THEN "done" ELSE "aborted"
        /\ received' = [to |-> Main, by |-> Head(rx[0]).by, means |-> Head(rx[0]).means,
                        got |-> [type |-> type.got]]
        /\ UNCHANGED <<compiled, worker, driver, net, newcomer>>

FrontEndNext ==
    \/ driver_init
    \/ \E w \in Workers : CreateThread(w) \/ DbInit(w) \/ RecvAnswer(w)
    \/ \E w \in Workers : \E r \in IF stage = "load" THEN Inserted ELSE Queried : SendRequest(w, r)
    \/ \E p \in net : BackEnd(p) \/ DropPacket(p)
    \/ JoinAll
    \/ Load2SwitchSend
    \/ Load2SwitchRecv

FrontEndSpec == FrontEndInit /\ [][FrontEndNext]_frontVars

-----------------------------------------------------------------------------
\* An answer is received by the thread that asked, whatever the compiler's
\* order and the reuse of thread ids, so the assertions on the type of an
\* answer hold: registration gives every thread a queue of its own and the
\* rule made in the loading phase still leads to it in the second.
AnswersOwn ==
    /\ received.to = received.by
    /\ stage # "aborted"

\* The process is lost in send_pkt, for want of a pool, only when a thread of
\* the transaction phase has an id no loading thread had: a thread that
\* inherits an id finds its queue set up.
CrashNeedsNewcomer == stage = "crashed" => newcomer

\* Each side extracts from a message what the other injected, as long as it
\* fits the buffer: the text of a key and all 64 bits of its number (which only
\* the switch and the DEBUG output look at), values of any number and length,
\* the 48 bits of the index and the flag.
ExtractedAsInjected ==
    \A f \in DOMAIN received.got : received.got[f] = received.means[f]

\* Answers reach the thread that asked, and a thread is lost only for want of a
\* queue that its phase never set up.
AnswersReachAsker == AnswersOwn /\ CrashNeedsNewcomer
=============================================================================
