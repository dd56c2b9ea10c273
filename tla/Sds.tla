-------------------------------- MODULE Sds --------------------------------
(***************************************************************************)
(* hiredis/sds.c: dynamic strings with a header.  A string is a record of  *)
(* the header (len, free), the bytes that were allocated for buf, and the  *)
(* bytes of buf up to and including the terminator (what lies behind it is *)
(* not looked at).  Bytes are named: "nul", "sp" (blank), "nl", "cr", "dq" *)
(* and "sq" (quotes), "bs" (backslash); letters, digits and signs stand    *)
(* for themselves.                                                         *)
(***************************************************************************)
EXTENDS Integers, Sequences, SequencesExt

CONSTANTS SDS_MAX_PREALLOC,  \* 1 MB in the code
          PrintfBuffer       \* first buffer of sdscatvprintf, 16 in the code

ASSUME SdsAssumption == SDS_MAX_PREALLOC \in Nat \ {0} /\ PrintfBuffer \in Nat \ {0, 1}

sdslen(s) == s.len
sdsavail(s) == s.free
sdsAllocSize(s) == s.len + s.free + 1     \* without the header

\* memcpy of t to buf + at.  A write past the allocation is recorded.
Write(s, at, t) ==
    [s EXCEPT !.buf = SubSeq(@, 1, at) \o t \o SubSeq(@, at + Len(t) + 1, Len(@)),
              !.alloc = IF at + Len(t) > @ THEN -1 ELSE @]

\* What is left of buf behind the terminator at len is forgotten.
Sealed(s) == [s EXCEPT !.buf = SubSeq(@, 1, s.len + 1)]
Terminate(s, len) == Write(s, len, <<"nul">>)

sdsnewlen(init) == [len |-> Len(init), free |-> 0, alloc |-> Len(init) + 1, buf |-> Append(init, "nul")]
sdsempty == sdsnewlen(<<>>)
\* strlen: a C string ends at its first zero byte.
CString(t) == LET z == {i \in 1 .. Len(t) : t[i] = "nul"}
              IN  IF z = {} THEN t ELSE SubSeq(t, 1, (CHOOSE i \in z : \A j \in z : i <= j) - 1)
sdsnew(init) == sdsnewlen(CString(init))
sdsdup(s) == sdsnewlen(SubSeq(s.buf, 1, s.len))

sdsupdatelen(s) ==
    LET reallen == Len(CString(s.buf)) IN Sealed([s EXCEPT !.free = @ + (s.len - reallen), !.len = reallen])
sdsclear(s) == Sealed(Terminate([s EXCEPT !.free = @ + s.len, !.len = 0], 0))

sdsMakeRoomFor_tight(s, addlen) ==
    IF sdsavail(s) >= addlen THEN s ELSE [s EXCEPT !.free = s.len + addlen, !.alloc = s.len + addlen + 1]
sdsMakeRoomFor(s, addlen) ==
    LET need == s.len + addlen
        newlen == IF need < SDS_MAX_PREALLOC THEN need * 2 ELSE need + SDS_MAX_PREALLOC
    IN  IF sdsavail(s) >= addlen THEN s
        ELSE [s EXCEPT !.free = newlen - s.len, !.alloc = newlen + 1]

sdsRemoveFreeSpace(s) == [s EXCEPT !.alloc = s.len + 1, !.free = 0]

\* The bytes t were written behind the string; incr may be negative.
sdsIncrLen(s, incr) == Sealed(Terminate([s EXCEPT !.len = @ + incr, !.free = @ - incr], s.len + incr))

sdsgrowzero(s, len) ==
    LET r == sdsMakeRoomFor(s, len - s.len)
        zeros == [i \in 1 .. len - s.len + 1 |-> "nul"]
    IN  IF len <= s.len THEN s
        ELSE [Write(r, s.len, zeros) EXCEPT !.len = len, !.free = (r.len + r.free) - len]

sdscatlen(s, t) ==
    LET r == sdsMakeRoomFor(s, Len(t))
    IN  [Write(r, s.len, Append(t, "nul")) EXCEPT !.len = s.len + Len(t), !.free = r.free - Len(t)]
sdscat(s, t) == sdscatlen(s, CString(t))
sdscatsds(s, t) == sdscatlen(s, SubSeq(t.buf, 1, t.len))

sdscpylen(s, t) ==
    LET r == IF s.free + s.len < Len(t) THEN sdsMakeRoomFor(s, Len(t) - s.len) ELSE s
    IN  Sealed([Write(r, 0, Append(t, "nul")) EXCEPT !.len = Len(t), !.free = (r.free + r.len) - Len(t)])
sdscpy(s, t) == sdscpylen(s, CString(t))

\* strchr(cset, c) also finds the terminator of cset.
InSet(cset, c) == c \in cset \cup {"nul"}
sdstrim(s, cset) ==
    LET keep == {i \in 1 .. s.len : ~InSet(cset, s.buf[i])}
        sp == IF keep = {} THEN s.len + 1 ELSE CHOOSE i \in keep : \A j \in keep : i <= j
        ep == IF keep = {} THEN (IF s.len = 0 THEN 0 ELSE 1) ELSE CHOOSE i \in keep : \A j \in keep : i >= j
        len == IF sp > ep THEN 0 ELSE ep - sp + 1
    IN  Sealed([Terminate(Write(s, 0, SubSeq(s.buf, sp, sp + len - 1)), len)
                  EXCEPT !.free = @ + (s.len - len), !.len = len])

\* start and end count from the end when negative, and are cut to the string.
FromEnd(i, len) == IF i < 0 THEN (IF len + i < 0 THEN 0 ELSE len + i) ELSE i
sdsrange(s, start, end) ==
    LET first == FromEnd(start, s.len)
        last == FromEnd(end, s.len)
        cut == IF last >= s.len THEN s.len - 1 ELSE last
        newlen == IF first > last \/ first >= s.len THEN 0 ELSE cut - first + 1
    IN  IF s.len = 0 THEN s
        ELSE Sealed([Terminate(Write(s, 0, SubSeq(s.buf, first + 1, first + newlen)), newlen)
                       EXCEPT !.free = @ + (s.len - newlen), !.len = newlen])

Lower(c) == CASE c = "X" -> "x" [] c = "N" -> "n" [] OTHER -> c
Upper(c) == CASE c = "x" -> "X" [] c = "n" -> "N" [] OTHER -> c
OverText(s, F) == [s EXCEPT !.buf = [i \in 1 .. Len(@) |-> IF i <= s.len THEN F[@[i]] ELSE @[i]]]
Letters == {"nul", "sp", "nl", "cr", "r", "dq", "sq", "bs", "n", "N", "x", "X", "0", "1", "2", "3", "4", "5", "6", "7", "8", "9", "-"}
sdstolower(s) == OverText(s, [c \in Letters |-> Lower(c)])
sdstoupper(s) == OverText(s, [c \in Letters |-> Upper(c)])
sdsmapchars(s, from, to) ==
    OverText(s, [c \in Letters |-> IF \E i \in 1 .. Len(from) : from[i] = c
                                   THEN to[CHOOSE i \in 1 .. Len(from) : from[i] = c /\ \A j \in 1 .. i - 1 : from[j] # c]
                                   ELSE c])

\* Equal strings compare as 0, whatever bytes they hold.
sdscmpEqual(s, t) == s.len = t.len /\ SubSeq(s.buf, 1, s.len) = SubSeq(t.buf, 1, t.len)

(***************************************************************************)
(* Numbers                                                                 *)
(***************************************************************************)
DigitChar(d) == <<"0", "1", "2", "3", "4", "5", "6", "7", "8", "9">>[d + 1]
\* The digits are produced from the last to the first, and reversed.
RECURSIVE ReverseDigits(_)
ReverseDigits(v) == <<DigitChar(v % 10)>> \o (IF v \div 10 = 0 THEN <<>> ELSE ReverseDigits(v \div 10))
sdsull2str(v) == Reverse(ReverseDigits(v))
sdsll2str(value) == IF value < 0 THEN Reverse(Append(ReverseDigits(-value), "-")) ELSE sdsull2str(value)
sdsfromlonglong(value) == sdsnewlen(sdsll2str(value))

(***************************************************************************)
(* Formatting: a format is a sequence of pieces, of a literal byte, a      *)
(* string argument or an integer argument.                                 *)
(***************************************************************************)
Piece(w) == [kind |-> "string", arg |-> w]
Literal(c) == [kind |-> "byte", arg |-> <<c>>]
Integer(v) == [kind |-> "int", arg |-> sdsll2str(v)]
\* Room for one byte first, for the whole piece when it is longer; the
\* terminator is written after the last piece.
CatPiece(s, piece) ==
    LET one == IF s.free = 0 THEN sdsMakeRoomFor(s, 1) ELSE s
        r == IF one.free < Len(piece.arg) THEN sdsMakeRoomFor(one, Len(piece.arg)) ELSE one
    IN  [Write(r, s.len, piece.arg) EXCEPT !.len = @ + Len(piece.arg), !.free = @ - Len(piece.arg)]
sdscatfmt(s, fmt) == LET r == FoldLeft(CatPiece, s, fmt) IN Sealed(Terminate(r, r.len))

\* The buffer doubles until vsnprintf leaves its last byte but one alone.
RECURSIVE Printed(_, _)
Printed(buflen, t) ==
    IF buflen - 1 <= Len(t) /\ t[buflen - 1] # "nul" THEN Printed(2 * buflen, t)
    ELSE SubSeq(t, 1, IF buflen - 1 <= Len(t) THEN buflen - 1 ELSE Len(t))
sdscatvprintf(s, t) == sdscat(s, Printed(PrintfBuffer, t))
sdscatprintf(s, t) == sdscatvprintf(s, t)

(***************************************************************************)
(* Splitting and joining                                                   *)
(***************************************************************************)
\* Scans from j for the separator; the element in hand begins at start.
RECURSIVE SplitFrom(_, _, _, _)
SplitFrom(s, sep, j, start) ==
    IF j >= Len(s) - (Len(sep) - 1) THEN <<SubSeq(s, start + 1, Len(s))>>
    ELSE IF SubSeq(s, j + 1, j + Len(sep)) = sep
         THEN <<SubSeq(s, start + 1, j)>> \o SplitFrom(s, sep, j + Len(sep), j + Len(sep))
         ELSE SplitFrom(s, sep, j + 1, start)
sdssplitlen(s, sep) == IF s = <<>> THEN <<>> ELSE SplitFrom(s, sep, 0, 0)

JoinPiece(sep, argv, j) == CString(argv[j]) \o (IF j # Len(argv) THEN sep ELSE <<>>)
sdsjoin(argv, sep) ==
    FoldLeft(LAMBDA s, t : sdscatlen(s, t), sdsempty, [j \in 1 .. Len(argv) |-> JoinPiece(sep, argv, j)])
sdsjoinsds(argv, sep) ==
    FoldLeft(LAMBDA s, t : sdscatlen(s, t), sdsempty,
             [j \in 1 .. Len(argv) |-> argv[j] \o (IF j # Len(argv) THEN sep ELSE <<>>)])

\* One byte as sdscatrepr quotes it; "nul" is the byte that is not printable.
ReprByte(c) ==
    CASE c \in {"bs", "dq"} -> <<"bs", c>>
      [] c = "nl" -> <<"bs", "n">>
      [] c = "cr" -> <<"bs", "r">>
      [] c = "nul" -> <<"bs", "x", "0", "0">>
      [] OTHER -> <<c>>
sdscatrepr(s, p) ==
    sdscatlen(FoldLeft(LAMBDA r, c : sdscatlen(r, ReprByte(c)), sdscatlen(s, <<"dq">>), p), <<"dq">>)

is_hex_digit(c) == c \in {"0", "1", "2", "3", "4", "5", "6", "7", "8", "9"}
isspace(c) == c \in {"sp", "nl", "cr"}
At(line, p) == IF p <= Len(line) THEN line[p] ELSE "nul"
\* The escapes the model's bytes distinguish; \x00 is the only hex escape
\* that names one of them.
Unescape(c) == CASE c = "n" -> "nl" [] c = "r" -> "cr" [] OTHER -> c
\* Reads one token from p on: mode is "plain", "inq" or "insq".  The result
\* holds the token and where it ended, or says that the quotes do not match.
Unbalanced == [ok |-> FALSE, token |-> <<>>, next |-> 0]
RECURSIVE Token(_, _, _, _)
Token(line, p, mode, cur) ==
    LET c == At(line, p)
        d == At(line, p + 1)
        close == IF d # "nul" /\ ~isspace(d) THEN Unbalanced ELSE [ok |-> TRUE, token |-> cur, next |-> p + 1]
    IN  CASE mode = "inq" /\ c = "bs" /\ d = "x" /\ is_hex_digit(At(line, p + 2)) /\ is_hex_digit(At(line, p + 3)) ->
               Token(line, p + 4, mode, Append(cur, "nul"))
          [] mode = "inq" /\ c = "bs" /\ d # "nul" /\ ~(d = "x" /\ is_hex_digit(At(line, p + 2)) /\ is_hex_digit(At(line, p + 3))) ->
               Token(line, p + 2, mode, Append(cur, Unescape(d)))
          [] mode = "insq" /\ c = "bs" /\ d = "sq" -> Token(line, p + 2, mode, Append(cur, "sq"))
          [] (mode = "inq" /\ c = "dq") \/ (mode = "insq" /\ c = "sq") -> close
          [] mode # "plain" /\ c = "nul" -> Unbalanced
          [] mode = "plain" /\ (isspace(c) \/ c = "nul") ->
               [ok |-> TRUE, token |-> cur, next |-> IF c = "nul" THEN p ELSE p + 1]
          [] mode = "plain" /\ c = "dq" -> Token(line, p + 1, "inq", cur)
          [] mode = "plain" /\ c = "sq" -> Token(line, p + 1, "insq", cur)
          [] OTHER -> Token(line, p + 1, mode, Append(cur, c))

RECURSIVE ArgsFrom(_, _, _)
ArgsFrom(line, p, vector) ==
    IF isspace(At(line, p)) THEN ArgsFrom(line, p + 1, vector)
    ELSE IF At(line, p) = "nul" THEN [ok |-> TRUE, vector |-> vector]
    ELSE LET t == Token(line, p, "plain", <<>>)
         IN  IF t.ok THEN ArgsFrom(line, t.next, Append(vector, t.token)) ELSE [ok |-> FALSE, vector |-> <<>>]
sdssplitargs(line) == ArgsFrom(CString(line), 1, <<>>)
=============================================================================
