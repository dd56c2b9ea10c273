-------------------------------- MODULE YCSB --------------------------------
(***************************************************************************)
(* The benchmark that drives the databases: ycsbc.cc, core/client.h, the   *)
(* core workload and its generators.  Threads share one workload: a load   *)
(* phase inserts the records, and when every thread has ended a second     *)
(* phase runs transactions.  A random number is any number it can be; a    *)
(* proportion is in per cent.  The database is the set of records stored,  *)
(* with the fields of each; its own threads are HashtableDB's matter.      *)
(***************************************************************************)
EXTENDS Integers, Sequences, FiniteSets, TLC

CONSTANTS CommandLines,  \* the argument lists of ycsbc, without the program's name
          Files,         \* the property files by name: functions from names to values
          BatchLimit     \* a bound on how often NextTransactionKey draws again

ASSUME YCSBAssumption == BatchLimit \in Nat

VARIABLES workload,  \* the CoreWorkload after Init
          phase,     \* "load", "run", "done", "aborted" by an assertion, "terminated" by an
                     \* exception, or "exited" before anything began
          keys,      \* key_generator_
          client,    \* the clients
          stored,    \* what the database was given (BasicDB only prints it): the fields of each key
          inserted,  \* how often each key was inserted
          oks        \* operations of the phase that returned kOK

ycsbVars == <<workload, phase, keys, client, stored, inserted, oks>>

(***************************************************************************)
(* Properties                                                              *)
(***************************************************************************)
Options == [threads |-> "threadcount", db |-> "dbname", host |-> "host", port |-> "port", slaves |-> "slaves"]

\* Properties::Load and SetProperty: what comes later replaces what was there.
Load(props, file) == Files[file] @@ props

\* Pairs of an option and its argument; anything else is the usage message.
ParseCommandLine(args) ==
    LET n == Len(args)
        parse[i \in 0..n] ==
            IF i = 0 THEN [ok |-> n > 0, props |-> << >>]
            ELSE IF i % 2 = 1 THEN [parse[i - 1] EXCEPT !.ok = @ /\ i < n /\ args[i] \in DOMAIN Options \cup {"P"}]
            ELSE IF ~parse[i - 1].ok THEN parse[i - 1]
            ELSE IF args[i - 1] = "P" THEN [parse[i - 1] EXCEPT !.props = Load(@, args[i])]
            ELSE [parse[i - 1] EXCEPT !.props = (Options[args[i - 1]] :> args[i]) @@ @]
    IN  parse[n]

\* props[...] is at(): a name that is missing throws, an unknown database is NULL.
CreateDB(props) ==
    LET needs == CASE props.dbname = "redis" -> {"port", "slaves", "host"}
                   [] props.dbname = "b_plus_tree" -> {"threadcount"}
                   [] OTHER -> {}
    IN  IF "dbname" \notin DOMAIN props THEN "throws"
        ELSE IF props.dbname \notin {"basic", "lock_stl", "redis", "tbb_rand", "tbb_scan", "b_plus_tree"} THEN "NULL"
        ELSE IF needs \subseteq DOMAIN props THEN props.dbname ELSE "throws"
Tables == {"lock_stl", "tbb_rand", "tbb_scan"}      \* HashtableDB: only these report a missing record

GetProperty(props, name, default) == IF name \in DOMAIN props THEN props[name] ELSE default

Defaults ==
    [fieldcount |-> 10, fieldlength |-> 100, field_len_dist |-> "constant", readallfields |-> TRUE,
     writeallfields |-> FALSE, readproportion |-> 95, updateproportion |-> 5, insertproportion |-> 0,
     scanproportion |-> 0, readmodifywriteproportion |-> 0, requestdistribution |-> "uniform",
     maxscanlength |-> 1000, scanlengthdistribution |-> "uniform", insertstart |-> 0, threadcount |-> 1]

(***************************************************************************)
(* Generators: what the next number may be                                 *)
(***************************************************************************)
CounterNext(n) == n + 1
CounterLast(n) == n - 1
UniformNext(min, max) == min..max
ConstNext(n) == {n}

\* The two most frequent values are 0 and 1, whatever the least value is.
ZipfianNext(min, num) == {0, 1} \cup min..(min + num - 1)
ZipfianAsserts(num) == num >= 2

\* FNVHash64 spreads the values; it may hit any number below num_items_.
ScrambledZipfianNext(min, num) == min..(min + num - 1)

SkewedLatestNext(last) == {last - z : z \in ZipfianNext(0, last)}

\* The first value whose share covers the draw, of the shares with a positive
\* proportion in the order they were added; {} is assert(false).
DiscreteNext(values, draw) ==
    LET before[i \in 0..Cardinality(DOMAIN values)] == IF i = 0 THEN 0 ELSE before[i - 1] + values[i][2]
    IN  {values[i][1] : i \in {j \in DOMAIN values : before[j - 1] <= draw /\ draw < before[j]}}

(***************************************************************************)
(* CoreWorkload                                                            *)
(***************************************************************************)
\* op_chooser_ holds the positive ones; the others take no share of the draw.
Proportions(p) ==
    <<<<"READ", GetProperty(p, "readproportion", Defaults.readproportion)>>,
      <<"UPDATE", GetProperty(p, "updateproportion", Defaults.updateproportion)>>,
      <<"INSERT", GetProperty(p, "insertproportion", Defaults.insertproportion)>>,
      <<"SCAN", GetProperty(p, "scanproportion", Defaults.scanproportion)>>,
      <<"READMODIFYWRITE", GetProperty(p, "readmodifywriteproportion", Defaults.readmodifywriteproportion)>>>>

Total(values) == values[1][2] + values[2][2] + values[3][2] + values[4][2] + values[5][2]

GetFieldLenGenerator(p) ==
    LET len == GetProperty(p, "fieldlength", Defaults.fieldlength)
        dist == GetProperty(p, "field_len_dist", Defaults.field_len_dist)
    IN  CASE dist = "constant" -> [values |-> ConstNext(len), fine |-> TRUE]
          [] dist = "uniform" -> [values |-> UniformNext(1, len), fine |-> TRUE]
          [] dist = "zipfian" -> [values |-> ZipfianNext(1, len), fine |-> ZipfianAsserts(len)]

Distribution(p) == GetProperty(p, "requestdistribution", Defaults.requestdistribution)

\* A chooser: its values, and whether its construction survives.
KeyChooser(p) ==
    LET n == p.recordcount
        more == (p.operationcount * GetProperty(p, "insertproportion", 0) * 2) \div 100      \* the fudge factor
    IN  CASE Distribution(p) = "uniform" -> [values |-> UniformNext(0, n - 1), fine |-> TRUE]
          [] Distribution(p) = "zipfian" -> [values |-> ScrambledZipfianNext(0, n + more), fine |-> ZipfianAsserts(n + more)]
          [] Distribution(p) = "latest" -> [values |-> SkewedLatestNext(CounterLast(n)), fine |-> ZipfianAsserts(CounterLast(n))]

ScanChooser(p) ==
    LET max == GetProperty(p, "maxscanlength", Defaults.maxscanlength)
    IN  IF GetProperty(p, "scanlengthdistribution", "uniform") = "uniform"
        THEN [values |-> UniformNext(1, max), fine |-> TRUE]
        ELSE [values |-> ZipfianNext(1, max), fine |-> ZipfianAsserts(max)]

CoreWorkloadInit(p) ==
    [db |-> CreateDB(p), records |-> p.recordcount, limited |-> "operationcount" \in DOMAIN p,
     operations |-> GetProperty(p, "operationcount", 0), threads |-> GetProperty(p, "threadcount", Defaults.threadcount),
     start |-> GetProperty(p, "insertstart", Defaults.insertstart),
     fields |-> GetProperty(p, "fieldcount", Defaults.fieldcount), lengths |-> GetFieldLenGenerator(p).values,
     ops |-> Proportions(p), choose |-> KeyChooser(p), scan |-> ScanChooser(p),
     readAll |-> GetProperty(p, "readallfields", Defaults.readallfields),
     writeAll |-> GetProperty(p, "writeallfields", Defaults.writeallfields)]

\* How Init ends, in its order: an assertion of a generator that is too small, an
\* exception for a count that it needs and nobody gave, or the load.
InitEnds(p) ==
    IF ~GetFieldLenGenerator(p).fine THEN "aborted"
    ELSE IF "recordcount" \notin DOMAIN p \/ (Distribution(p) = "zipfian" /\ "operationcount" \notin DOMAIN p) THEN "terminated"
    ELSE IF KeyChooser(p).fine /\ ScanChooser(p).fine THEN "load" ELSE "aborted"

\* A name is "field" so many times, then a number.
NextFieldName(w) == {<<1, i>> : i \in UniformNext(0, w.fields - 1)}
BuildValues(w) == {<<1, i>> : i \in 0..(w.fields - 1)}
BuildUpdate(w) == {{f} : f \in NextFieldName(w)}
Written(w) == IF w.writeAll THEN {BuildValues(w)} ELSE BuildUpdate(w)
Prefixed(f) == <<f[1] + 1, f[2]>>      \* "field" + NextFieldName()
ReadFields(w) == IF w.readAll THEN {{}} ELSE {{Prefixed(f)} : f \in NextFieldName(w)}

(***************************************************************************)
(* Client                                                                  *)
(***************************************************************************)
Clients == 1..workload.threads
Resting == [at |-> "idle", left |-> 0, op |-> "none", key |-> 0, draws |-> 0, fields |-> {}, found |-> {}, len |-> 0]
Start(w, total) == [t \in 1..w.threads |-> [Resting EXCEPT !.left = total \div w.threads]]
Here(t, place) == client[t].at = place
Move(t, w) == client' = [client EXCEPT ![t] = w]
Returns(t, ok) == /\ Move(t, [Resting EXCEPT !.left = client[t].left - 1])
                  /\ oks' = IF ok THEN oks + 1 ELSE oks

\* DoInsert and TransactionInsert: the key is drawn, then the record inserted.
NextSequenceKey(t) == /\ keys' = CounterNext(keys)
                      /\ Move(t, [client[t] EXCEPT !.at = "insert", !.op = "INSERT", !.key = keys])

DoInsert(t) ==
    /\ phase = "load" /\ Here(t, "idle") /\ client[t].left > 0
    /\ NextSequenceKey(t) /\ UNCHANGED <<workload, phase, stored, inserted, oks>>

Present(k) == k \in DOMAIN stored
Put(k, names) == [j \in DOMAIN stored \cup {k} |-> (IF Present(j) THEN stored[j] ELSE {}) \cup (IF j = k THEN names ELSE {})]
Counted(k) == [j \in DOMAIN inserted \cup {k} |-> (IF j \in DOMAIN inserted THEN inserted[j] ELSE 0) + (IF j = k THEN 1 ELSE 0)]

DbInsert(t) ==
    /\ Here(t, "insert")
    /\ LET k == client[t].key
       IN  /\ stored' = Put(k, BuildValues(workload)) /\ inserted' = Counted(k)
           /\ Returns(t, workload.db \in Tables => ~Present(k))
    /\ UNCHANGED <<workload, phase, keys>>

\* DoTransaction: the operation.  Without a positive proportion the chooser has
\* nothing to return for any draw.
NextOperation(t) ==
    /\ phase = "run" /\ Here(t, "idle") /\ client[t].left > 0
    /\ \E draw \in {0} \cup 0..(Total(workload.ops) - 1) :
          LET chosen == DiscreteNext(workload.ops, draw)
          IN  \/ chosen = {} /\ phase' = "aborted" /\ UNCHANGED <<keys, client>>
              \/ chosen = {"INSERT"} /\ NextSequenceKey(t) /\ UNCHANGED phase
              \/ /\ chosen \notin {{}, {"INSERT"}}
                 /\ Move(t, [client[t] EXCEPT !.at = "key", !.op = CHOOSE o \in chosen : TRUE])
                 /\ UNCHANGED <<phase, keys>>
    /\ UNCHANGED <<workload, stored, inserted, oks>>

\* Keys that are out of reach are drawn again; insert_key_sequence_ is set once,
\* to the number of records.
NextTransactionKey_any(t) ==
    /\ Here(t, "key")
    /\ \E k \in workload.choose.values : Move(t, [client[t] EXCEPT !.at = "call", !.key = k, !.draws = 0])
    /\ UNCHANGED <<workload, phase, keys, stored, inserted, oks>>

NextTransactionKey(t) ==
    /\ Here(t, "key")
    /\ \E k \in workload.choose.values :
          IF k > CounterLast(workload.records)
          THEN client[t].draws < BatchLimit /\ Move(t, [client[t] EXCEPT !.draws = @ + 1])
          ELSE Move(t, [client[t] EXCEPT !.at = "call", !.key = k, !.draws = 0])
    /\ UNCHANGED <<workload, phase, keys, stored, inserted, oks>>

\* A Read of named fields: the tables return those of them that the record has,
\* redis every one, an empty value for a missing one, and the B+ tree all fields
\* of the record.  The first database returns nothing.
ReadResult(k, names) ==
    LET record == IF Present(k) THEN stored[k] ELSE {}
    IN  CASE workload.db = "basic" -> {}
          [] workload.db \in Tables -> IF workload.readAll THEN record ELSE record \cap names
          [] workload.db = "redis" -> IF workload.readAll THEN record ELSE names
          [] workload.db = "b_plus_tree" -> record

Read(t, back) ==
    \E names \in ReadFields(workload) :
        Move(t, [client[t] EXCEPT !.at = back, !.fields = names, !.found = ReadResult(client[t].key, names)])

TransactionRead(t) ==
    /\ Here(t, "call") /\ client[t].op \in {"READ", "READMODIFYWRITE"}
    /\ Read(t, IF client[t].op = "READ" THEN "reply" ELSE "update")
    /\ UNCHANGED <<workload, phase, keys, stored, inserted, oks>>

ReadReturns(t) ==
    /\ Here(t, "reply") /\ Returns(t, workload.db \in Tables => Present(client[t].key))
    /\ UNCHANGED <<workload, phase, keys, stored, inserted>>

\* RedisDB does not implement Scan, BPlusTreeDB neither Scan nor Update: the
\* exception ends the program when main asks for the thread's result.
Throws(t) ==
    /\ \/ Here(t, "call") /\ client[t].op = "SCAN" /\ workload.db \in {"redis", "b_plus_tree"}
       \/ (Here(t, "update") \/ (Here(t, "call") /\ client[t].op = "UPDATE")) /\ workload.db = "b_plus_tree"
    /\ phase' = "terminated" /\ UNCHANGED <<workload, keys, client, stored, inserted, oks>>

TransactionScan(t) ==
    /\ Here(t, "call") /\ client[t].op = "SCAN" /\ workload.db \notin {"redis", "b_plus_tree"}
    /\ \E n \in workload.scan.values : Move(t, [client[t] EXCEPT !.at = "scan", !.len = n])
    /\ UNCHANGED <<workload, phase, keys, stored, inserted, oks>>

ScanReturns(t) == Here(t, "scan") /\ Returns(t, TRUE) /\ UNCHANGED <<workload, phase, keys, stored, inserted>>

\* TransactionUpdate, and the second half of TransactionReadModifyWrite.
TransactionUpdate(t) ==
    /\ (Here(t, "update") \/ (Here(t, "call") /\ client[t].op = "UPDATE")) /\ workload.db # "b_plus_tree"
    /\ \E names \in Written(workload) : stored' = Put(client[t].key, names)
    /\ Returns(t, TRUE) /\ UNCHANGED <<workload, phase, keys, inserted>>

(***************************************************************************)
(* main                                                                    *)
(***************************************************************************)
AllReturned == \A t \in Clients : client[t].left = 0 /\ Here(t, "idle")

\* props[...] throws when nobody has said how many transactions there are.
StartTransactions ==
    /\ phase = "load" /\ AllReturned
    /\ IF workload.limited
       THEN phase' = "run" /\ oks' = 0 /\ client' = Start(workload, workload.operations)
       ELSE phase' = "terminated" /\ UNCHANGED <<oks, client>>
    /\ UNCHANGED <<workload, keys, stored, inserted>>

Finish == /\ phase = "run" /\ AllReturned /\ phase' = "done"
          /\ UNCHANGED <<workload, keys, client, stored, inserted, oks>>

Unstarted(why) == /\ workload = [db |-> "none", threads |-> 0, records |-> 0, operations |-> 0, start |-> 0]
                  /\ phase = why /\ keys = 0 /\ client = << >>

Started(p) == /\ workload = CoreWorkloadInit(p)
              /\ phase = "load"
              /\ keys = workload.start
              /\ client = Start(workload, workload.records)

YCSBInit ==
    /\ \E args \in CommandLines :
          LET line == ParseCommandLine(args)
          IN  \/ ~line.ok /\ Unstarted("exited")
              \/ line.ok /\ CreateDB(line.props) = "NULL" /\ Unstarted("exited")
              \/ line.ok /\ CreateDB(line.props) = "throws" /\ Unstarted("terminated")
              \/ /\ line.ok /\ CreateDB(line.props) \notin {"NULL", "throws"}
                 /\ IF InitEnds(line.props) = "load" THEN Started(line.props) ELSE Unstarted(InitEnds(line.props))
    /\ stored = << >> /\ inserted = << >> /\ oks = 0

YCSBNext ==
    \/ StartTransactions \/ Finish
    \/ /\ phase \in {"load", "run"}
       /\ \E t \in Clients :
             \/ DoInsert(t) \/ DbInsert(t) \/ NextOperation(t) \/ NextTransactionKey(t)
             \/ TransactionRead(t) \/ ReadReturns(t) \/ TransactionScan(t) \/ ScanReturns(t) \/ TransactionUpdate(t)
             \/ Throws(t)

YCSBSpec == YCSBInit /\ [][YCSBNext]_ycsbVars

------------------------------------------------------------------------------
LoadedKeys ==
    IF workload.threads = 0 THEN {} ELSE
    workload.start..(workload.start + workload.threads * (workload.records \div workload.threads) - 1)

\* However the threads interleave, no key is handed out twice, and the second
\* phase begins when exactly the loaded records are there, each complete:
\* recordcount less what does not divide among the threads (ycsbc.cc 63).  At the
\* end no key that was handed out is missing.
EachKeyOnce ==
    /\ \A k \in DOMAIN inserted : inserted[k] = 1
    /\ phase = "run" => /\ LoadedKeys \subseteq DOMAIN inserted
                        /\ \A k \in LoadedKeys : BuildValues(workload) \subseteq stored[k]
    /\ (phase = "load" /\ AllReturned) => DOMAIN inserted = LoadedKeys /\ oks = Cardinality(LoadedKeys)
    /\ phase = "done" => DOMAIN inserted = workload.start..CounterLast(keys)

Picked == {t \in Clients : client[t].at \in {"call", "reply", "scan", "update"}}

\* The comment in core_workload.cc 146: "If the generator picks a key that is not
\* inserted yet, we just ignore it and pick another key."  It holds where the
\* records divide among the threads and the keys start at 0, in every
\* distribution, although the chooser ranges over more keys than were loaded.
PicksLoaded ==
    (workload.start = 0 /\ Cardinality(LoadedKeys) = workload.records) =>
        \A t \in Picked : client[t].key \in DOMAIN inserted

\* core_workload.h 59: readallfields decides "whether to read one field (false)
\* or all fields (true) of a record", for the records that are there and the
\* tables, which look the names up.
ReadsOneField ==
    \A t \in Clients : (/\ Here(t, "reply") /\ workload.db \in Tables /\ ~workload.readAll
                        /\ client[t].key \in LoadedKeys \cap DOMAIN inserted)
        => Cardinality(client[t].found) = 1

\* The assertions of the generators (zipfian_generator.h 29, 93 and
\* discrete_generator.h 60) end the program before the first insertion, or before
\* the first transaction where every proportion is 0, never in the middle of a
\* phase: the records are all there or none is.
AbortsBetweenPhases ==
    phase = "aborted" => \/ DOMAIN inserted = {}
                         \/ /\ Total(workload.ops) = 0 /\ oks = 0 /\ DOMAIN inserted = LoadedKeys
                            /\ \A t \in Clients : Here(t, "idle")

\* The two phases of ycsbc.cc fit together: every record is loaded once, the
\* transactions use loaded records, and no generator fails half way.
WorkloadSound == EachKeyOnce /\ PicksLoaded /\ AbortsBetweenPhases
==============================================================================
