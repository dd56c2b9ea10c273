----------------------------- MODULE SdsStrings -----------------------------
(***************************************************************************)
(* One dynamic string under any sequence of the operations of sds.c.  Next *)
(* to the string the model keeps its text: the sequence of bytes that the  *)
(* documentation of each function promises.                                *)
(***************************************************************************)
EXTENDS Sds

CONSTANTS Words,    \* byte sequences that are appended and assigned
          Numbers,  \* integers that are formatted
          MaxText   \* longest text that is operated on

VARIABLES str, text

sdsVars == <<str, text>>

SdsInit == str = sdsempty /\ text = <<>>

Becomes(s, t) == str' = s /\ text' = t
Fits(t) == Len(t) <= MaxText
Core(t, cset) ==
    LET keep == {i \in 1 .. Len(t) : t[i] \notin cset \cup {"nul"}}
    IN  IF keep = {} THEN <<>>
        ELSE SubSeq(t, CHOOSE i \in keep : \A j \in keep : i <= j, CHOOSE i \in keep : \A j \in keep : i >= j)

New == \E w \in Words : Becomes(sdsnewlen(w), w) \/ Becomes(sdsnew(w), CString(w))
Duplicate == Becomes(sdsdup(str), text)
Clear == Becomes(sdsclear(str), <<>>)
UpdateLen == Becomes(sdsupdatelen(str), CString(text))
MakeRoom == \E n \in 1 .. MaxText : Becomes(sdsMakeRoomFor(str, n), text)
RemoveFreeSpace == Becomes(sdsRemoveFreeSpace(str), text)
AppendInPlace == \E w \in Words : Fits(text \o w)
                   /\ Becomes(sdsIncrLen(Write(sdsMakeRoomFor(str, Len(w)), str.len, w), Len(w)), text \o w)
TrimRight == text # <<>> /\ Becomes(sdsIncrLen(str, -1), Front(text))
GrowZero == \E n \in 0 .. MaxText :
              Becomes(sdsgrowzero(str, n), text \o [i \in 1 .. n - Len(text) |-> "nul"])
Cat == \E w \in Words : Fits(text \o w)
         /\ \/ Becomes(sdscatlen(str, w), text \o w)
            \/ Becomes(sdscat(str, w), text \o CString(w))
            \/ Becomes(sdscatprintf(str, w), text \o CString(w))
            \/ Becomes(sdscatsds(str, sdsnewlen(w)), text \o w)
Copy == \E w \in Words : Becomes(sdscpylen(str, w), w) \/ Becomes(sdscpy(str, w), CString(w))
CatFormat == \E w \in Words, v \in Numbers :
               LET t == text \o w \o <<"sp">> \o sdsll2str(v)
               IN  Fits(t) /\ Becomes(sdscatfmt(str, <<Piece(w), Literal("sp"), Integer(v)>>), t)
Trim == Becomes(sdstrim(str, {"sp", "nl"}), Core(text, {"sp", "nl"}))
Substring == \E i, j \in -MaxText .. MaxText :
           Becomes(sdsrange(str, i, j),
                   LET last == FromEnd(j, Len(text))
                   IN  SubSeq(text, FromEnd(i, Len(text)) + 1, IF last < Len(text) THEN last + 1 ELSE Len(text)))
ChangeCase == \/ Becomes(sdstolower(str), [i \in DOMAIN text |-> Lower(text[i])])
              \/ Becomes(sdstoupper(str), [i \in DOMAIN text |-> Upper(text[i])])
MapChars == Becomes(sdsmapchars(str, <<"bs", "sp">>, <<"x", "0">>),
                    [i \in DOMAIN text |-> CASE text[i] = "bs" -> "x" [] text[i] = "sp" -> "0" [] OTHER -> text[i]])

SdsNext ==
    \/ New \/ Duplicate \/ Clear \/ UpdateLen \/ MakeRoom \/ RemoveFreeSpace \/ AppendInPlace \/ TrimRight
    \/ GrowZero \/ Cat \/ Copy \/ CatFormat \/ Trim \/ Substring \/ ChangeCase \/ MapChars

SdsSpec == SdsInit /\ [][SdsNext]_sdsVars

\* Whatever the sequence of operations, the header accounts for every byte of
\* the allocation, nothing was written past it, and the terminator follows
\* the text ("all the sds strings are, always" null-termined, sds.c:43).
SdsSound ==
    /\ str.len >= 0 /\ str.free >= 0
    /\ str.alloc = sdsAllocSize(str)
    /\ Len(str.buf) = str.len + 1 /\ str.buf[str.len + 1] = "nul"

\* The string holds the bytes the operations that built it promise.
SdsContent == SubSeq(str.buf, 1, str.len) = text

\* Splitting at a separator and joining with it gives the text back, and no
\* piece holds the separator: none is missed, at either end or in a run.
SplitJoins ==
    \A sep \in {<<"sp">>, <<"x", "0">>, <<"sp", "sp">>} :
      LET tokens == sdssplitlen(text, sep)
      IN  /\ sdscmpEqual(sdsjoinsds(tokens, sep), sdsnewlen(text))
          /\ \A i \in DOMAIN tokens : \A j \in 0 .. Len(tokens[i]) - Len(sep) :
                SubSeq(tokens[i], j + 1, j + Len(sep)) # sep

\* sdssplitargs reads back as one argument what sdscatrepr quotes, with
\* quotes, backslashes and unprintable bytes anywhere (sds.c:807, "able to
\* convert back a string into a quoted string in the same format").
ReprRoundTrip ==
    LET quoted == sdscatrepr(sdsempty, text)
    IN  sdssplitargs(SubSeq(quoted.buf, 1, quoted.len)) = [ok |-> TRUE, vector |-> <<text>>]

\* sds.c as a whole: under every sequence of its operations the header, the
\* terminator and the text are right, and splitting, joining, quoting and
\* parsing are each other's inverses.
StringsRight == SdsSound /\ SdsContent /\ SplitJoins /\ ReprRoundTrip
=============================================================================
