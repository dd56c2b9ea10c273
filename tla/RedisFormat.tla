---------------------------- MODULE RedisFormat ----------------------------
(***************************************************************************)
(* hiredis.c: formatting of commands.  A format is a sequence of pieces: a *)
(* blank, a literal byte, or a conversion with its argument.  The command  *)
(* is the bytes written; the length is computed before they are.           *)
(***************************************************************************)
EXTENDS RedisReader

CONSTANTS Pieces,     \* pieces a format is put together of
          MaxPieces   \* longest format

VARIABLE format

(***************************************************************************)
(* Pieces: what a conversion appends to the argument in hand.              *)
(***************************************************************************)
Blank == [kind |-> "blank", text |-> <<>>]
Byte(c) == [kind |-> "byte", text |-> <<c>>]             \* also a last %
CStr(t) == [kind |-> "s", text |-> CString(t)]           \* %s
Binary(t) == [kind |-> "b", text |-> t]                  \* %b
Percent == [kind |-> "percent", text |-> <<"%">>]        \* %%
Decimal(v) == [kind |-> "int", text |-> sdsll2str(v)]    \* %d, %ld, %hhx ...
\* A conversion of fourteen bytes or more is not converted: its bytes behind
\* the second are taken literally.
TooLong(rest) == [kind |-> "long", text |-> rest]
Invalid == [kind |-> "invalid", text |-> <<>>]

\* The length of v in digits, four digits at a time.
RECURSIVE countDigits(_)
countDigits(v) ==
    CASE v < 10 -> 1
      [] v \in 10 .. 99 -> 2
      [] v \in 100 .. 999 -> 3
      [] v \in 1000 .. 9999 -> 4
      [] OTHER -> 4 + countDigits(v \div 10000)
bulklen(len) == 1 + countDigits(len) + 2 + len + 2

(***************************************************************************)
(* redisvFormatCommand: the loop over the format, and the command.         *)
(***************************************************************************)
CatTo(arg, piece) ==
    CASE piece.kind \in {"s", "b"} -> IF piece.text # <<>> THEN sdscatlen(arg, piece.text) ELSE arg
      [] piece.kind = "percent" -> sdscat(arg, piece.text)
      [] piece.kind = "int" -> sdscatvprintf(arg, piece.text)
      [] OTHER -> sdscatlen(arg, piece.text)
PushArg(f) == [f EXCEPT !.argv = Append(@, f.curarg), !.totlen = @ + bulklen(sdslen(f.curarg)),
                        !.curarg = sdsempty, !.touched = FALSE]
FormatPiece_merge(f, piece) ==
    CASE f.err # 0 -> f
      [] piece.kind = "blank" -> IF sdslen(f.curarg) > 0 THEN PushArg(f) ELSE f
      [] piece.kind = "invalid" -> [f EXCEPT !.err = -2]
      [] OTHER -> [f EXCEPT !.curarg = CatTo(@, piece), !.touched = TRUE]
FormatPiece(f, piece) ==
    CASE f.err # 0 -> f
      [] piece.kind = "blank" -> IF f.touched THEN PushArg(f) ELSE f
      [] piece.kind = "invalid" -> [f EXCEPT !.err = -2]
      [] OTHER -> [f EXCEPT !.curarg = CatTo(@, piece), !.touched = TRUE]

Header(argc) == <<"*">> \o sdsll2str(argc) \o CRLF
BulkBytes(t) == <<"$">> \o sdsull2str(Len(t)) \o CRLF \o t \o CRLF
CommandBytes(argv) == Header(Len(argv)) \o FlattenSeq([j \in 1 .. Len(argv) |-> BulkBytes(argv[j])])
SdsText(s) == SubSeq(s.buf, 1, s.len)

redisvFormatCommand(pieces) ==
    LET start == [argv |-> <<>>, curarg |-> sdsempty, touched |-> FALSE, totlen |-> 0, err |-> 0]
        f == FoldLeft(FormatPiece, start, pieces)
        last == IF f.touched THEN PushArg(f) ELSE f
    IN  IF f.err # 0 THEN [len |-> f.err, cmd |-> <<>>]
        ELSE [len |-> last.totlen + 1 + countDigits(Len(last.argv)) + 2,
              cmd |-> CommandBytes([j \in 1 .. Len(last.argv) |-> SdsText(last.argv[j])])]
\* Every error becomes -1.
redisFormatCommand(pieces) ==
    LET f == redisvFormatCommand(pieces) IN IF f.len < 0 THEN [f EXCEPT !.len = -1] ELSE f

TotalLength(argv) == FoldLeft(LAMBDA n, t : n + bulklen(Len(t)), 1 + countDigits(Len(argv)) + 2, argv)
redisFormatSdsCommandArgv(argv) ==
    LET room == sdsMakeRoomFor(sdsempty, TotalLength(argv))
        lit(s) == [i \in 1 .. Len(s) |-> Literal(s[i])]
        OneArg(cmd, t) == sdscatlen(sdscatlen(sdscatfmt(cmd, <<Literal("$"), Integer(Len(t))>> \o lit(CRLF)), t), CRLF)
        cmd == FoldLeft(OneArg, sdscatfmt(room, <<Literal("*"), Integer(Len(argv))>> \o lit(CRLF)), argv)
    IN  [len |-> TotalLength(argv), cmd |-> SdsText(cmd), room |-> room.alloc, alloc |-> cmd.alloc]
redisFormatCommandArgv(argv) == [len |-> TotalLength(argv), cmd |-> CommandBytes(argv)]

\* async.c: the argument at or behind offset p, and the offset behind it.
nextArgument(cmd, p) ==
    LET marks == {i \in p + 1 .. Len(cmd) : cmd[i] = "$"}
        at == CHOOSE i \in marks : \A j \in marks : i <= j
        line == SubSeq(cmd, at + 1, Len(cmd))
        eol == seekNewline(line)
        len == readLongLong(SubSeq(line, 1, eol))
        str == at + eol + 2
    IN  IF marks = {} THEN [found |-> FALSE, str |-> <<>>, next |-> p]
        ELSE [found |-> TRUE, str |-> SubSeq(cmd, str + 1, str + len), next |-> str + len + 2]
RECURSIVE ArgumentsFrom(_, _)
ArgumentsFrom(cmd, p) ==
    LET arg == nextArgument(cmd, p)
    IN  IF arg.found THEN <<arg.str>> \o ArgumentsFrom(cmd, arg.next) ELSE <<>>

(***************************************************************************)
(* Every format, piece by piece                                            *)
(***************************************************************************)
FormatInit == format = <<>>
AddPiece == /\ Len(format) < MaxPieces
            /\ \E piece \in Pieces : format' = Append(format, piece)
FormatNext == AddPiece
FormatSpec == FormatInit /\ [][FormatNext]_format

\* The arguments of a format, by its documentation: separated by blanks of
\* the format (never by blanks of an interpolated value), empty if all of
\* their conversions are.
Breaks == {i \in 1 .. Len(format) : format[i].kind = "blank"}
ArgumentRuns == {<<i, j>> \in (1 .. Len(format)) \X (1 .. Len(format)) :
             /\ i <= j /\ Breaks \cap (i .. j) = {}
             /\ i = 1 \/ i - 1 \in Breaks
             /\ j = Len(format) \/ j + 1 \in Breaks}
Argument(w) == FlattenSeq([k \in 1 .. w[2] - w[1] + 1 |-> format[w[1] + k - 1].text])
Arguments ==
    LET order == SetToSortSeq(ArgumentRuns, LAMBDA v, w : v[1] < w[1])
    IN  [k \in 1 .. Len(order) |-> Argument(order[k])]

\* A formatted command has the length that was computed for it ("assert(pos
\* == totlen)", hiredis.c:412), and the server reads back from it an array of
\* exactly the arguments of the format; a format with an invalid conversion
\* gives -1 and no command.
CommandReadsBack ==
    LET f == redisFormatCommand(format)
        fed_ == redisReaderFeed(redisReaderCreate, f.cmd)
        got == redisReaderGetReply([fed_ EXCEPT !.mem = Unlimited])
        args == Array([k \in 1 .. Len(Arguments) |-> Bulk(Arguments[k])])
    IN  IF \E i \in DOMAIN format : format[i].kind = "invalid" THEN f = [len |-> -1, cmd |-> <<>>]
        ELSE f.len = Len(f.cmd) /\ got.reply = Objects(args, <<>>)

\* The three ways to format an argument vector write the same bytes, the sds
\* one without growing its buffer ("We already know how much storage we
\* need", hiredis.c:501), and the asynchronous client finds the same
\* arguments in them, dollar signs and line ends inside arguments included.
FormattersAgree ==
    LET argv == Arguments
        sds == redisFormatSdsCommandArgv(argv)
        cmd == redisFormatCommandArgv(argv)
    IN  /\ sds.cmd = cmd.cmd /\ sds.len = cmd.len /\ cmd.len = Len(cmd.cmd)
        /\ sds.alloc = sds.room
        /\ ArgumentsFrom(cmd.cmd, 0) = argv

\* A command reaches the server as its caller wrote it, whichever function of
\* hiredis.c formats it.
CommandsRight == CommandReadsBack /\ FormattersAgree
=============================================================================
