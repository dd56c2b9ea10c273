---------------------------- MODULE RedisReader ----------------------------
(***************************************************************************)
(* hiredis/read.c: the reply parser, with the reply objects of hiredis.c.  *)
(* The bytes of a stream of replies arrive in pieces of any size; the      *)
(* reader parses what it has and resumes where it stopped.  A reply under  *)
(* construction is a function from the position of an object (the indices  *)
(* of the arrays it is in) to the object.                                  *)
(***************************************************************************)
EXTENDS Sds, Functions

CONSTANTS Streams,    \* sequences of replies the server may send
          MaxChunk,   \* most bytes that one feed brings
          MaxDepth,   \* 8 in the code: the deepest index of the task stack
          DiscardAt,  \* 1024 in the code: consumed bytes are dropped from here on
          MaxBuf      \* REDIS_READER_MAX_BUF

ASSUME ReaderAssumption == MaxDepth \in Nat /\ DiscardAt \in Nat \ {0} /\ MaxBuf \in Nat

VARIABLES stream,   \* what the server sends, as replies
          fed,      \* the number of its bytes that were fed
          reader,   \* the redisReader
          emitted,  \* the replies that were handed out
          drained   \* the last call of redisReaderGetReply found no reply

readerVars == <<stream, fed, reader, emitted, drained>>

(***************************************************************************)
(* The protocol: what the server puts on the wire.                         *)
(***************************************************************************)
Status(s) == [type |-> "status", str |-> s]
Error(s) == [type |-> "error", str |-> s]
Bulk(s) == [type |-> "string", str |-> s]
IntReply(v) == [type |-> "integer", value |-> v]
Nil == [type |-> "nil"]
NilArray == [type |-> "nilarray"]
Array(e) == [type |-> "array", elements |-> e]
Garbage == [type |-> "garbage"]       \* a byte that begins no reply

CRLF == <<"cr", "nl">>
RECURSIVE Encode(_)
Encode(reply) ==
    CASE reply.type = "status" -> <<"+">> \o reply.str \o CRLF
      [] reply.type = "error" -> <<"-">> \o reply.str \o CRLF
      [] reply.type = "integer" -> <<":">> \o sdsll2str(reply.value) \o CRLF
      [] reply.type = "string" -> <<"$">> \o sdsull2str(Len(reply.str)) \o CRLF \o reply.str \o CRLF
      [] reply.type = "nil" -> <<"$", "-", "1">> \o CRLF
      [] reply.type = "nilarray" -> <<"*", "-", "1">> \o CRLF
      [] reply.type = "array" ->
           <<"*">> \o sdsull2str(Len(reply.elements)) \o CRLF
             \o FlattenSeq([i \in 1 .. Len(reply.elements) |-> Encode(reply.elements[i])])
      [] OTHER -> <<"x">>
Wire(replies) == FlattenSeq([i \in 1 .. Len(replies) |-> Encode(replies[i])])

(***************************************************************************)
(* Reply objects                                                           *)
(***************************************************************************)
createReplyObject(type) == [type |-> type, value |-> 0, str |-> <<>>, elements |-> 0]
createStringObject(task, str) == [createReplyObject(task.type) EXCEPT !.str = str]
createArrayObject(task, elements) == [createReplyObject("array") EXCEPT !.elements = elements]
createIntegerObject(task, value) == [createReplyObject("integer") EXCEPT !.value = value]
createNilObject(task) == createReplyObject("nil")
NoReply == {}       \* r->reply == NULL
freeReplyObject(reply) == NoReply

\* The objects a reply of the server consists of, by position.
RECURSIVE Objects(_, _)
Objects(reply, at) ==
    LET root == CASE reply.type = "array" -> createArrayObject(reply, Len(reply.elements))
                  [] reply.type = "integer" -> createIntegerObject(reply, reply.value)
                  [] reply.type \in {"nil", "nilarray"} -> createNilObject(reply)
                  [] OTHER -> createStringObject(reply, reply.str)
        parts == IF reply.type # "array" THEN {}
                 ELSE UNION {Objects(reply.elements[i], Append(at, i - 1)) : i \in 1 .. Len(reply.elements)}
    IN  {<<at, root>>} \cup parts

(***************************************************************************)
(* The reader.  rstack[1] is the root task; ridx is the index of the task  *)
(* in hand, -1 when the stack is empty; mem is the number of objects that  *)
(* can still be allocated.                                                 *)
(***************************************************************************)
Task(idx) == [type |-> "unset", elements |-> -1, idx |-> idx]
redisReaderCreate ==
    [buf |-> sdsempty, pos |-> 0, len |-> 0, ridx |-> -1, rstack |-> <<>>, reply |-> NoReply, err |-> "none", mem |-> 0]
Cur(r) == r.rstack[r.ridx + 1]
Position(r) == [i \in 1 .. r.ridx |-> r.rstack[i + 1].idx]

__redisReaderSetError(r, type) ==
    [r EXCEPT !.reply = freeReplyObject(@), !.buf = sdsempty, !.pos = 0, !.len = 0, !.ridx = -1, !.rstack = <<>>, !.err = type]
__redisReaderSetErrorProtocolByte(r) == __redisReaderSetError(r, "protocol")
__redisReaderSetErrorOOM(r) == __redisReaderSetError(r, "oom")

Result(r, ok) == [r |-> r, ok |-> ok]

Rest(r) == SubSeq(r.buf.buf, r.pos + 1, r.len)
CanRead(r, bytes) == r.len - r.pos >= bytes
readBytes(r, bytes) == [r EXCEPT !.pos = @ + bytes]

\* The offset of the first \r\n in s, -1 if there is none.
NotFound == -1
seekNewline_cr(s) ==
    LET ends == {i \in 1 .. Len(s) : s[i] = "cr"}
    IN  IF ends = {} THEN NotFound ELSE (CHOOSE i \in ends : \A j \in ends : i <= j) - 1
seekNewline(s) ==
    LET ends == {i \in 1 .. Len(s) - 1 : s[i] = "cr" /\ s[i + 1] = "nl"}
    IN  IF ends = {} THEN NotFound ELSE (CHOOSE i \in ends : \A j \in ends : i <= j) - 1

DigitValue(c) == IF is_hex_digit(c) THEN (CHOOSE d \in 0 .. 9 : DigitChar(d) = c) ELSE -1
\* The value of the digits before the \r, -1 if there is any other byte.
readLongLong(s) ==
    LET signed == s # <<>> /\ s[1] \in {"-", "+"}
        digits == IF signed THEN Tail(s) ELSE s
    IN  IF \E i \in DOMAIN digits : DigitValue(digits[i]) = -1 THEN -1
        ELSE (IF signed /\ s[1] = "-" THEN -1 ELSE 1)
               * FoldLeft(LAMBDA v, c : 10 * v + DigitValue(c), 0, digits)

\* The line at pos, when it is complete, and the reader behind it.
HasLine(r) == seekNewline(Rest(r)) # NotFound
Line(r) == SubSeq(Rest(r), 1, seekNewline(Rest(r)))
readLine(r) == [r EXCEPT !.pos = @ + seekNewline(Rest(r)) + 2]

\* Leaves every array whose last element is done.
RECURSIVE moveToNextTask(_)
moveToNextTask(r) ==
    IF r.ridx <= 0 THEN [r EXCEPT !.ridx = -1, !.rstack = <<>>]
    ELSE IF Cur(r).idx = r.rstack[r.ridx].elements - 1
         THEN moveToNextTask([r EXCEPT !.ridx = @ - 1, !.rstack = Front(@)])
         ELSE [r EXCEPT !.rstack[r.ridx + 1] = Task(@.idx + 1)]

\* The object is linked to its parent, or is the reply, and the reader goes
\* on; without memory for it the reader fails.
AttachReply(r, obj) == [r EXCEPT !.reply = @ \cup {<<Position(r), obj>>}, !.mem = @ - 1]
Done(r, obj) == IF r.mem = 0 THEN Result(__redisReaderSetErrorOOM(r), FALSE)
                ELSE Result(moveToNextTask(AttachReply(r, obj)), TRUE)

processLineItem(r) ==
    LET obj == IF Cur(r).type = "integer" THEN createIntegerObject(Cur(r), readLongLong(Line(r)))
               ELSE createStringObject(Cur(r), Line(r))
    IN  IF HasLine(r) THEN Done(readLine(r), obj) ELSE Result(r, FALSE)

processBulkItem(r) ==
    LET len == readLongLong(Line(r))
        behind == readLine(r).pos
        end == IF len < 0 THEN behind ELSE behind + len + 2
        obj == IF len < 0 THEN createNilObject(Cur(r))
               ELSE createStringObject(Cur(r), SubSeq(r.buf.buf, behind + 1, behind + len))
    IN  IF HasLine(r) /\ end <= r.len THEN Done([r EXCEPT !.pos = end], obj) ELSE Result(r, FALSE)

Descend(r, elements) ==
    [r EXCEPT !.rstack = Append([@ EXCEPT ![r.ridx + 1].elements = elements], Task(0)), !.ridx = @ + 1]
processMultiBulkItem(r) ==
    LET elements == readLongLong(Line(r))
        obj == IF elements = -1 THEN createNilObject(Cur(r)) ELSE createArrayObject(Cur(r), elements)
    IN  IF r.ridx = MaxDepth THEN Result(__redisReaderSetError(r, "protocol"), FALSE)
        ELSE IF ~HasLine(r) THEN Result(r, FALSE)
        ELSE IF elements > 0 /\ r.mem > 0 THEN Result(Descend(AttachReply(readLine(r), obj), elements), TRUE)
        ELSE Done(readLine(r), obj)

TypeOf(c) == CASE c = "-" -> "error" [] c = "+" -> "status" [] c = ":" -> "integer" [] c = "$" -> "string"
               [] c = "*" -> "array" [] OTHER -> "unknown"
processTyped(r) == CASE Cur(r).type \in {"error", "status", "integer"} -> processLineItem(r)
                     [] Cur(r).type = "string" -> processBulkItem(r)
                     [] Cur(r).type = "array" -> processMultiBulkItem(r)
processItem(r) ==
    LET type == TypeOf(r.buf.buf[r.pos + 1])
        unset == Cur(r).type = "unset"
    IN  IF unset /\ ~CanRead(r, 1) THEN Result(r, FALSE)
        ELSE IF unset /\ type = "unknown" THEN Result(__redisReaderSetErrorProtocolByte(r), FALSE)
        ELSE processTyped(IF unset THEN [readBytes(r, 1) EXCEPT !.rstack[r.ridx + 1].type = type] ELSE r)

RECURSIVE ProcessItems(_)
ProcessItems(r) ==
    LET Continue(step) == IF step.ok THEN ProcessItems(step.r) ELSE step.r
    IN  IF r.ridx < 0 THEN r ELSE Continue(processItem(r))

redisReaderFeed(r, bytes) ==
    LET large == r.len = 0 /\ MaxBuf # 0 /\ sdsavail(r.buf) > MaxBuf
        s == sdscatlen(IF large THEN sdsempty ELSE r.buf, bytes)
    IN  IF r.err # "none" \/ bytes = <<>> THEN r
        ELSE [r EXCEPT !.buf = s, !.len = sdslen(s), !.pos = IF large THEN 0 ELSE @]

Discard(r) == LET s == sdsrange(r.buf, r.pos, -1)
              IN  IF r.pos >= DiscardAt THEN [r EXCEPT !.buf = s, !.pos = 0, !.len = sdslen(s)] ELSE r
HandOut(r) == IF r.err # "none" \/ r.ridx # -1 THEN [r |-> r, reply |-> NoReply]
              ELSE [r |-> [r EXCEPT !.reply = NoReply], reply |-> r.reply]
\* The reader after the call and the reply, NoReply if there is none yet.
redisReaderGetReply(r) ==
    LET started == IF r.ridx = -1 THEN [r EXCEPT !.rstack = <<Task(-1)>>, !.ridx = 0] ELSE r
    IN  IF r.err # "none" \/ r.len = 0 THEN [r |-> r, reply |-> NoReply]
        ELSE HandOut(Discard(ProcessItems(started)))

redisReaderFree(r) == [redisReaderCreate EXCEPT !.reply = freeReplyObject(r.reply)]

(***************************************************************************)
(* A connection that reads a stream                                        *)
(***************************************************************************)
ReaderInit ==
    /\ stream \in Streams
    /\ fed = 0
    /\ reader = redisReaderCreate
    /\ emitted = <<>>
    /\ drained = TRUE

Unlimited == 100     \* more objects than any stream holds
FeedBytes ==
    \E n \in 1 .. MaxChunk :
      /\ fed + n <= Len(Wire(stream))
      /\ reader' = redisReaderFeed(reader, SubSeq(Wire(stream), fed + 1, fed + n))
      /\ fed' = fed + n
      /\ drained' = (reader.err # "none")
      /\ UNCHANGED <<stream, emitted>>

\* The server sends nothing and the buffer holds no reply, or there is one;
\* the allocator may fail after any number of objects.
GetReply ==
    \E mem \in {0, 1, Unlimited} :
      LET got == redisReaderGetReply([reader EXCEPT !.mem = mem])
      IN  /\ reader' = [got.r EXCEPT !.mem = 0]
          /\ emitted' = IF got.reply = NoReply THEN emitted ELSE Append(emitted, got.reply)
          /\ drained' = (got.reply = NoReply)
          /\ UNCHANGED <<stream, fed>>

\* The connection is closed, with a reply half read or not, and opened again.
Reopen ==
    /\ reader' = redisReaderFree(reader)
    /\ fed' = 0 /\ emitted' = <<>> /\ drained' = TRUE
    /\ UNCHANGED stream

ReaderNext == FeedBytes \/ GetReply \/ Reopen

ReaderSpec == ReaderInit /\ [][ReaderNext]_readerVars

RECURSIVE Deepest(_)
Deepest(reply) ==   \* how deep its arrays are nested, -1 if there is none
    IF reply.type \notin {"array", "nilarray"} THEN -1
    ELSE IF reply.type = "nilarray" \/ reply.elements = <<>> THEN 0
    ELSE LET below == {Deepest(reply.elements[i]) : i \in DOMAIN reply.elements}
         IN  1 + (CHOOSE d \in below \cup {-1} : \A e \in below : e <= d)
Readable(reply) == reply.type # "garbage" /\ Deepest(reply) < MaxDepth
\* The replies of the stream that can be read: those before the first one
\* that is malformed or nested too deep.
Good == SelectInSeq(stream, LAMBDA reply : ~Readable(reply))
Expected == [i \in 1 .. (IF Good = 0 THEN Len(stream) ELSE Good - 1) |-> Objects(stream[i], <<>>)]

\* How the bytes are cut into reads makes no difference: the replies handed
\* out are the server's, in order and complete, with every element in its
\* place; once every byte is in and a call returned no reply, none is missing,
\* and the reader has failed exactly if the stream is malformed or memory ran
\* out (hiredis.c redisGetReply and async.c redisProcessCallbacks rely on it).
ChunkingInvisible ==
    /\ emitted # <<>> => IsPrefix(emitted, Expected)
    /\ drained /\ fed > 0 /\ fed = Len(Wire(stream)) /\ reader.err # "oom" =>
          /\ emitted = Expected
          /\ (reader.err = "protocol") <=> (Good # 0)
=============================================================================
