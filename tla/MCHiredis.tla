------------------------------ MODULE MCHiredis ------------------------------
(***************************************************************************)
(* The redis client of the YCSB server, from its strings up to RedisDB.    *)
(* The parts run one at a time, each from its own initial states: `part'   *)
(* tells which.  Between them they share no state, only operators (the     *)
(* reader and the formatter build on the strings).                         *)
(***************************************************************************)
EXTENDS SdsStrings, RedisFormat, RedisDict, RedisAsync, RedisConnection, RedisClient

CONSTANT Parts      \* the parts to run

VARIABLE part

First(S) == CHOOSE x \in S : TRUE

HiredisInit ==
    /\ part \in Parts
    /\ SdsInit /\ FormatInit /\ DictInit /\ ConnInit
    /\ ReaderInit /\ (part # "reader" => stream = First(Streams))
    /\ AsyncInit /\ (part # "async" => adapter = First(Adapters))
    /\ ClientInit /\ (part # "client" => ~client.slaves)

HiredisNext ==
    /\ UNCHANGED part
    /\ \/ /\ part = "sds" /\ SdsNext
          /\ UNCHANGED <<readerVars, format, dictVars, asyncVars, connVars, clientVars>>
       \/ /\ part = "reader" /\ ReaderNext
          /\ UNCHANGED <<sdsVars, format, dictVars, asyncVars, connVars, clientVars>>
       \/ /\ part = "format" /\ FormatNext
          /\ UNCHANGED <<sdsVars, readerVars, dictVars, asyncVars, connVars, clientVars>>
       \/ /\ part = "dict" /\ DictNext
          /\ UNCHANGED <<sdsVars, readerVars, format, asyncVars, connVars, clientVars>>
       \/ /\ part = "async" /\ AsyncNext
          /\ UNCHANGED <<sdsVars, readerVars, format, dictVars, connVars, clientVars>>
       \/ /\ part = "connection" /\ ConnNext
          /\ UNCHANGED <<sdsVars, readerVars, format, dictVars, asyncVars, clientVars>>
       \/ /\ part = "client" /\ ClientNext
          /\ UNCHANGED <<sdsVars, readerVars, format, dictVars, asyncVars, connVars>>

HiredisSpec == HiredisInit /\ [][HiredisNext]_<<part, sdsVars, readerVars, format, dictVars, asyncVars, connVars, clientVars>>

-----------------------------------------------------------------------------
\* Bytes of every class the string functions treat differently.
MCWords == {<<"nul">>, <<"sp">>, <<"bs">>, <<"dq">>, <<"x", "0">>, <<"nl">>, <<"n", "sq">>}
MCNumbers == {0, 9, -10, 999, 9999, 10000}

\* Replies of every type, nested down to the depth limit and beyond it, with
\* line ends inside a bulk string and a byte that is no reply type.
MCStreams ==
    { <<Status(<<"n">>), Array(<<IntReply(-10), Array(<<Bulk(<<"cr", "nl">>), NilArray>>), Nil>>), Error(<<"cr">>)>>,
      <<Array(<<Array(<<Array(<<NilArray>>)>>)>>)>>,
      <<Array(<<>>), Bulk(<<>>), Garbage, IntReply(3)>> }

MCPieces ==
    { Blank, Byte("x"), CStr(<<"$", "nul", "x">>), Binary(<<"sp", "$", "cr", "nl", "nul">>), CStr(<<>>),
      Percent, Decimal(-10), TooLong(<<"0", "0">>), Invalid, Binary([i \in 1..10 |-> "x"]) }

\* k1 and k4 share a bucket of both sizes, k2 joins them in the first.
MCHashKey == [k \in {"k1", "k2", "k3", "k4", "k5"} |->
                CASE k = "k1" -> 0 [] k = "k2" -> 2 [] k = "k3" -> 5 [] k = "k4" -> 6 [] OTHER -> 1]

\* The adapters differ in how they deliver events; one carries the longer runs,
\* the others every kind of command.
MCCommandKinds ==
    [a \in AdapterNames |->
       {"get", "subscribe", "unsubscribe"} \cup
       IF a = "ae" THEN {} ELSE {"psubscribe", "punsubscribe", "monitor"}]
MCMaxCommands == [a \in AdapterNames |-> IF a = "ae" THEN 3 ELSE 1]
MCMaxMessages == [a \in AdapterNames |-> IF a = "ae" THEN 0 ELSE 1]
=============================================================================
