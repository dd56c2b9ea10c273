----------------------------- MODULE RedisClient -----------------------------
(***************************************************************************)
(* redis/redis_client.h and db/redis_db: the blocking use of hiredis, one  *)
(* thread that appends commands to the output buffer and waits for their   *)
(* replies.  A command and a reply are two bytes each, so a read or a      *)
(* write may carry half of one; a system call may be interrupted, fail, or *)
(* find the connection closed.  The server holds one record, is external,  *)
(* may refuse a command, answer nonsense, or go away.                      *)
(***************************************************************************)
EXTENDS Integers, Sequences

CONSTANTS Values,          \* what a record may hold; 0 is "no such record"
          MaxOperations    \* most operations of a run

ASSUME ClientAssumption == 0 \notin Values /\ MaxOperations \in Nat

VARIABLES client,   \* the thread: place, operation, replies it still wants
          context,  \* its redisContext: obuf, the reader's bytes, err
          wire,     \* the two directions of the connection, and whether it is up
          store,    \* the server's record
          done      \* operations begun, and the outcome of the last one

clientVars == <<client, context, wire, store, done>>

Bytes(m) == <<<<m, 1>>, <<m, 2>>>>
Whole(s) == Len(s) >= 2 /\ s[1][2] = 1
Nonsense == [type |-> "nonsense"]
Dead == {"exited", "crashed", "aborted"}

(***************************************************************************)
(* The buffers of the context                                              *)
(***************************************************************************)
__redisAppendCommand(c, m) == [c EXCEPT !.obuf = @ \o Bytes(m)]

\* A value with a '%' is not a format; the error stays in the context.
redisAppendCommand(c, m, plain) == IF plain THEN __redisAppendCommand(c, m) ELSE [c EXCEPT !.err = "OTHER"]

\* Out of the reader: <<what, context>>, where what is "reply", "none" or "error".
redisGetReplyFromReader(c) ==
    IF c.reader # <<>> /\ c.reader[1][1] = Nonsense THEN <<"error", [c EXCEPT !.err = "PROTOCOL"]>>
    ELSE IF Whole(c.reader) THEN <<"reply", [c EXCEPT !.reader = SubSeq(@, 3, Len(@))]>>
    ELSE <<"none", c>>

(***************************************************************************)
(* What an operation does with a reply, or without one                     *)
(***************************************************************************)
ClientAt(place) == client' = [client EXCEPT !.at = place]
Outcome(o) == done' = [done EXCEPT !.outcome = o]

\* RedisDB::Read takes no reply for an answer; RedisClient::Command frees the
\* reply pointer, which nothing has set, or which is freed already, and exits.
Failed ==
    IF client.op.type = "read"
    THEN ClientAt("idle") /\ Outcome([result |-> "kOK", value |-> 0, answered |-> FALSE])
    ELSE (ClientAt("exited") \/ ClientAt("crashed")) /\ UNCHANGED done

ReadReply(r) ==
    IF r.type = "array" THEN ClientAt("idle") /\ Outcome([result |-> "kOK", value |-> r.value, answered |-> TRUE])
    ELSE ClientAt("aborted") /\ UNCHANGED done      \* assert(reply->type == REDIS_REPLY_ARRAY)

CommandReply_once(r) == ClientAt("idle") /\ Outcome([result |-> "kOK", value |-> 0, answered |-> FALSE])
CommandReply(r) ==
    IF client.wants > 1
    THEN client' = [client EXCEPT !.at = "get", !.wants = @ - 1] /\ UNCHANGED done
    ELSE ClientAt("idle") /\ Outcome([result |-> "kOK", value |-> 0, answered |-> FALSE])

Deliver(r) == IF client.op.type = "read" THEN ReadReply(r) ELSE CommandReply(r)

(***************************************************************************)
(* redisGetReply                                                           *)
(***************************************************************************)
TakeReply(c, otherwise) ==
    LET got == redisGetReplyFromReader(c)
    IN  /\ context' = got[2]
        /\ CASE got[1] = "error" -> Failed
             [] got[1] = "reply" -> Deliver(c.reader[1][1])
             [] OTHER -> ClientAt(otherwise) /\ UNCHANGED done

redisGetReply == client.at = "get" /\ TakeReply(context, "write") /\ UNCHANGED <<wire, store>>

IoError == context' = [context EXCEPT !.err = "IO"] /\ Failed

redisBufferWrite_blind ==
    /\ client.at = "write" /\ UNCHANGED <<store, done>>
    /\ IF context.obuf = <<>> THEN ClientAt("read") /\ UNCHANGED <<context, wire>>
       ELSE /\ wire' = IF wire.up THEN [wire EXCEPT !.out = @ \o context.obuf] ELSE wire
            /\ context' = [context EXCEPT !.obuf = <<>>] /\ UNCHANGED client

redisBufferWrite ==
    /\ client.at = "write" /\ UNCHANGED store
    /\ \/ context.err # "none" /\ Failed /\ UNCHANGED <<context, wire>>
       \/ context.err = "none" /\ context.obuf = <<>> /\ ClientAt("read") /\ UNCHANGED <<context, wire, done>>
       \/ /\ context.err = "none" /\ context.obuf # <<>>
          /\ \/ UNCHANGED <<client, context, wire, done>>      \* EINTR
             \/ IoError /\ UNCHANGED wire
             \/ \E n \in 1..Len(context.obuf) :
                   /\ wire' = IF wire.up THEN [wire EXCEPT !.out = @ \o SubSeq(context.obuf, 1, n)] ELSE wire
                   /\ context' = [context EXCEPT !.obuf = SubSeq(@, n + 1, Len(@))]
                   /\ UNCHANGED <<client, done>>

redisBufferRead ==
    /\ client.at = "read" /\ UNCHANGED store
    /\ \/ UNCHANGED <<client, context, wire, done>>      \* EINTR
       \/ IoError /\ UNCHANGED wire      \* also a receive timeout
       \/ /\ wire.in = <<>> /\ ~wire.up
          /\ context' = [context EXCEPT !.err = "EOF"] /\ Failed /\ UNCHANGED wire
       \/ \E n \in 1..Len(wire.in) :
             /\ wire' = [wire EXCEPT !.in = SubSeq(@, n + 1, Len(@))]
             /\ TakeReply([context EXCEPT !.reader = @ \o SubSeq(wire.in, 1, n)], "read")

(***************************************************************************)
(* The operations of RedisDB.  Insert is Update, Scan throws.              *)
(***************************************************************************)
Begin(op, wants, c) ==
    /\ client.at = "idle" /\ done.begun < MaxOperations
    /\ client' = [client EXCEPT !.at = "get", !.op = op, !.wants = wants]
    /\ context' = c /\ done' = [done EXCEPT !.begun = @ + 1]
    /\ UNCHANGED <<wire, store>>

Read == LET m == [type |-> "read"] IN Begin(m, 1, __redisAppendCommand(context, m))      \* HMGET or HGETALL

ClientCommand(m, plain) ==
    LET c == redisAppendCommand(context, m, plain)
        wait == [type |-> "wait"]
    IN  Begin(m, IF client.slaves THEN 2 ELSE 1, IF client.slaves THEN redisAppendCommand(c, wait, TRUE) ELSE c)

Update == \E v \in Values, plain \in BOOLEAN : ClientCommand([type |-> "hmset", value |-> v], plain)
RedisDelete == ClientCommand([type |-> "del", value |-> 0], TRUE)

\* The constructor connects (RedisConnection) and exits if it cannot.
Construct == /\ client.at = "start"
             /\ ClientAt("idle") \/ ClientAt("exited")
             /\ UNCHANGED <<context, wire, store, done>>

(***************************************************************************)
(* The server                                                              *)
(***************************************************************************)
ReplyTo(m) == CASE m.type = "read" -> [type |-> "array", value |-> store]
                [] m.type = "wait" -> [type |-> "integer"]
                [] OTHER -> [type |-> "status"]

Server ==
    /\ wire.up /\ Whole(wire.out)
    /\ LET m == wire.out[1][1]
       IN  \E refused \in BOOLEAN, r \in {ReplyTo(m), Nonsense, [type |-> "error"]} :
              /\ (r.type = "error") = refused
              /\ store' = IF ~refused /\ m.type \in {"hmset", "del"} THEN m.value ELSE store
              /\ wire' = [wire EXCEPT !.out = SubSeq(@, 3, Len(@)), !.in = @ \o Bytes(r)]
    /\ UNCHANGED <<client, context, done>>

ServerHangsUp == /\ wire.up /\ wire' = [wire EXCEPT !.up = FALSE, !.out = <<>>]
                 /\ UNCHANGED <<client, context, store, done>>

ClientInit ==
    /\ client \in {[at |-> "start", slaves |-> s, op |-> [type |-> "none"], wants |-> 0] : s \in BOOLEAN}
    /\ context = [obuf |-> <<>>, reader |-> <<>>, err |-> "none"]
    /\ wire = [out |-> <<>>, in |-> <<>>, up |-> TRUE]
    /\ store = 0
    /\ done = [begun |-> 0, outcome |-> [result |-> "none", value |-> 0, answered |-> FALSE]]

ClientNext == \/ Construct \/ Read \/ Update \/ RedisDelete
              \/ redisGetReply \/ redisBufferWrite \/ redisBufferRead
              \/ Server \/ ServerHangsUp

ClientSpec == ClientInit /\ [][ClientNext]_clientVars

------------------------------------------------------------------------------
\* Requests and replies stay in step (redis_client.h 52-69, hiredis.c 870-898):
\* between two operations of a connection without an error nothing is under
\* way, neither half a command nor a reply that a later operation would take
\* for its own, however the bytes were split.
InStep ==
    (client.at = "idle" /\ context.err = "none") =>
        context.obuf = <<>> /\ context.reader = <<>> /\ wire.out = <<>> /\ wire.in = <<>>

\* A Read that got an answer returns the record as it is, with this thread's
\* earlier updates in it.  (A Read without one also returns kOK.)
ReadIsCurrent == (client.at = "idle" /\ done.outcome.answered) => done.outcome.value = store

\* An error is final: once the context has one, no operation gets an answer
\* again, even if the reply arrives later, and no further byte is sent.
ErrorIsFinal ==
    [][context.err # "none" =>
          /\ context'.err # "none" /\ wire'.out \in {wire.out, SubSeq(wire.out, 3, Len(wire.out)), <<>>}
          /\ done'.outcome # done.outcome => ~done'.outcome.answered]_clientVars

\* RedisDB takes every reply for the command it answers, and reads what was
\* written last.
RepliesMatched == InStep /\ ReadIsCurrent
==============================================================================
