----------------------------- MODULE HashtableDB -----------------------------
(***************************************************************************)
(* db/hashtable_db.cc over the three concurrent string tables of lib/: a   *)
(* table of records, each a heap-allocated table from field to a heap-     *)
(* allocated string.  One operation of a table is atomic under its lock;   *)
(* an operation of the database is several of them, and follows pointers   *)
(* between them.  What is freed is not reused, so that a later use shows.  *)
(* YCSB's load phase, transactions and any caller of DB run these from     *)
(* several threads.                                                        *)
(***************************************************************************)
EXTENDS Integers, Sequences, FiniteSets

CONSTANTS Threads, Keys, Fields,
          MaxOperations,   \* operations of a run
          ScanLength       \* records a Scan asks for

ASSUME HashtableAssumption == MaxOperations \in Nat /\ ScanLength \in Nat \ {0} /\ Fields # {}

VARIABLES impl,      \* the table in use
          keyTable,  \* key_table_: the record of each key, Nil if there is none
          tables,    \* every FieldHashtable ever allocated
          strings,   \* every value ever allocated
          keyTexts,  \* [key]: live copies of the key as a text in the table of records
          fieldTexts,\* [key][field]: live copies of the field's name in the record's tables
          thread,    \* where each thread is
          content,   \* what the operations completed so far should have left
          raced,     \* the pairs of operations that overlapped on one key
          misuse,    \* some thread has used a freed object
          begun      \* operations begun

texts == <<keyTexts, fieldTexts>>
hashVars == <<impl, keyTable, tables, strings, texts, thread, content, raced, misuse, begun>>

Nil == 0
kinds == {"Read", "Scan", "Update", "Insert", "Delete"}
Idle == [at |-> "idle", op |-> "none", key |-> Nil, in |-> FALSE, n |-> 0, all |-> FALSE, table |-> Nil, todo |-> {},
         found |-> {}, string |-> Nil, result |-> [f \in Fields |-> 0], fresh |-> FALSE, right |-> TRUE]
Absent == [here |-> FALSE, texts |-> [f \in Fields |-> 0]]

(***************************************************************************)
(* The locks.  LockStl takes its mutex for everything; the two TBB tables  *)
(* have a reader-writer lock, and the first also locks the element that an *)
(* accessor holds.                                                         *)
(***************************************************************************)
LockStlHashtable == [Get |-> "write", Insert |-> "write", Update |-> "write", Remove |-> "write", Entries |-> "write"]
TbbRandHashtable == [Get |-> "read", Insert |-> "read", Update |-> "read", Remove |-> "read", Entries |-> "write"]
TbbScanHashtable_shared == [Get |-> "read", Insert |-> "read", Update |-> "read", Remove |-> "write", Entries |-> "read"]
TbbScanHashtable == [Get |-> "read", Insert |-> "read", Update |-> "write", Remove |-> "write", Entries |-> "read"]

Implementations == {"lock_stl", "tbb_rand", "tbb_scan"}
LockMode(op) == CASE impl = "lock_stl" -> LockStlHashtable[op]
                  [] impl = "tbb_rand" -> TbbRandHashtable[op]
                  [] impl = "tbb_scan" -> TbbScanHashtable[op]

\* The table operation a thread is about to do, and on which table and key.
TableOp(w) == CASE w.at = "erase" -> "Remove"
                [] w.at = "lookup" -> (CASE w.op = "Delete" -> "Remove" [] w.op = "Scan" -> "Entries" [] OTHER -> "Get")
                [] w.at \in {"attach", "insert"} -> "Insert"
                [] w.at = "get" -> "Get"
                [] w.at = "replace" -> "Update"
                [] w.at \in {"entries", "dismantle"} -> "Entries"
                [] OTHER -> "none"
OnKeys(w) == w.at \in {"lookup", "erase", "attach"}
Field(w) == CHOOSE f \in w.todo : TRUE      \* the fields come in a fixed order
Place(w) == IF OnKeys(w) THEN <<"keys", Nil>> ELSE <<"table", w.table>>
Element(w) == IF OnKeys(w) THEN w.key ELSE Field(w)

Compatible(w, v) ==
    \/ Place(w) # Place(v)
    \/ /\ LockMode(TableOp(w)) = "read" /\ LockMode(TableOp(v)) = "read"
       /\ (impl = "tbb_rand" /\ {TableOp(w), TableOp(v)} \subseteq {"Get", "Update", "Remove"})
              => Element(w) # Element(v)

Inside == {t \in Threads : thread[t].in}

Lock(t) == /\ thread[t].at # "idle" /\ ~thread[t].in /\ TableOp(thread[t]) # "none"
           /\ \A u \in Inside : Compatible(thread[t], thread[u])
           /\ thread' = [thread EXCEPT ![t].in = TRUE]
           /\ UNCHANGED <<impl, keyTable, tables, strings, texts, content, raced, misuse, begun>>

(***************************************************************************)
(* The tables                                                              *)
(***************************************************************************)
Get(m, k) == m[k]
TableInsert(m, k, v) == IF m[k] = Nil THEN [m EXCEPT ![k] = v] ELSE m
Replace(m, k, v) == IF m[k] = Nil THEN m ELSE [m EXCEPT ![k] = v]      \* StlHashtable::Update
RemoveEntry(m, k) == [m EXCEPT ![k] = Nil]
\* The entries from k on, in the order of the hash: nothing if k is absent.
EntriesFrom(m, k, n) == IF m[k] = Nil THEN {{}}
                        ELSE {S \in SUBSET {j \in DOMAIN m : m[j] # Nil} : k \in S /\ Cardinality(S) <= n}

NewFieldHashtable == Append(tables, [live |-> TRUE, fields |-> [f \in Fields |-> Nil]])
CopyString(field, text) == Append(strings, [live |-> TRUE, field |-> field, text |-> text])
DeleteString_leak(ss, s) == ss
DeleteString(ss, s) == [ss EXCEPT ![s].live = FALSE]
TextFreed(k) == \E t \in Threads : thread[t].at = "erase" /\ thread[t].key = k
Used(table) == misuse' = (misuse \/ ~tables[table].live)

(***************************************************************************)
(* An operation begins and returns                                         *)
(***************************************************************************)
Overlaps(t, op, key) ==
    {{op, thread[u].op} : u \in {v \in Threads \ {t} : thread[v].at # "idle" /\ ("Scan" \in {op, thread[v].op} \/ thread[v].key = key)}}

Begin(t) ==
    /\ thread[t].at = "idle" /\ begun < MaxOperations
    /\ \E op \in kinds, key \in Keys, all \in BOOLEAN, todo \in {Fields, {CHOOSE f \in Fields : TRUE}} :
          /\ op # "Read" => ~all
          /\ op \in {"Read", "Scan", "Insert", "Delete"} => todo = Fields
          /\ thread' = [thread EXCEPT ![t] = [Idle EXCEPT !.at = "lookup", !.op = op, !.key = key, !.todo = todo,
                                                          !.all = all, !.n = begun + 1]]
          /\ raced' = raced \cup Overlaps(t, op, key)
    /\ begun' = begun + 1
    /\ UNCHANGED <<impl, keyTable, tables, strings, texts, content, misuse>>

\* What the operation should have done to the record, had it been alone.
Effect(w) ==
    LET old == content[w.key]
        now(f) == IF f \in w.found THEN w.n ELSE old.texts[f]      \* found: the fields it wrote
    IN  CASE w.op \in {"Update", "Insert"} -> [here |-> TRUE, texts |-> [f \in Fields |-> now(f)]]
          [] w.op = "Delete" -> Absent
          [] OTHER -> old

Return(t, w) == /\ thread' = [thread EXCEPT ![t] = [Idle EXCEPT !.right = (w.op = "Read" => w.result = content[w.key].texts)]]
                /\ content' = [content EXCEPT ![w.key] = Effect(w)]
Continue(t, w) == thread' = [thread EXCEPT ![t] = [w EXCEPT !.in = FALSE]] /\ UNCHANGED content

Next1(t, w, place) == IF w.todo = {} THEN Return(t, w) ELSE Continue(t, [w EXCEPT !.at = place])

(***************************************************************************)
(* The steps of the operations                                             *)
(***************************************************************************)
At(t, place) == thread[t].at = place /\ thread[t].in
Rest == UNCHANGED <<impl, raced, begun>>
NoText == UNCHANGED texts

GetTable(t) ==
    /\ At(t, "lookup") /\ thread[t].op \in {"Read", "Update", "Insert"} /\ Rest
    /\ LET w == [thread[t] EXCEPT !.table = Get(keyTable, thread[t].key)]
       IN  \/ /\ w.table # Nil
              /\ Continue(t, [w EXCEPT !.at = CASE w.op = "Read" -> IF w.all THEN "entries" ELSE "get"
                                                [] w.op = "Update" -> "copy" [] w.op = "Insert" -> "copy"])
              /\ UNCHANGED tables
           \/ w.table = Nil /\ w.op = "Read" /\ Return(t, w) /\ UNCHANGED tables      \* kErrorNoData
           \/ /\ w.table = Nil /\ w.op # "Read"
              /\ tables' = NewFieldHashtable
              /\ Continue(t, [w EXCEPT !.at = "attach", !.table = Len(tables) + 1, !.fresh = TRUE])
    /\ NoText /\ UNCHANGED <<keyTable, strings, misuse>>

\* Insert copies the text of the key first.  Its result is ignored: if the key
\* has come in, the new table and the copy are out of reach.
Attach(t) ==
    /\ At(t, "attach") /\ Rest
    /\ keyTexts' = [keyTexts EXCEPT ![thread[t].key] = @ + 1]
    /\ keyTable' = TableInsert(keyTable, thread[t].key, thread[t].table)
    /\ misuse' = (misuse \/ TextFreed(thread[t].key))
    /\ Continue(t, [thread[t] EXCEPT !.at = "copy"])
    /\ UNCHANGED <<tables, strings, fieldTexts>>

\* CopyString for the next field, then Update of the field if the record was there.
CopyValue(t) ==
    /\ thread[t].at = "copy"
    /\ strings' = CopyString(Field(thread[t]), thread[t].n)
    /\ Continue(t, [thread[t] EXCEPT !.string = Len(strings) + 1,
                        !.at = IF thread[t].op = "Update" /\ ~thread[t].fresh THEN "replace" ELSE "insert"])
    /\ Rest /\ NoText /\ UNCHANGED <<keyTable, tables, misuse>>

Done(w) == [w EXCEPT !.todo = @ \ {Field(w)}, !.found = @ \cup {Field(w)}]

\* A string another operation may still point at is freed here.
ReplaceField(t) ==
    /\ At(t, "replace") /\ Rest /\ Used(thread[t].table)
    /\ LET w == thread[t]
           fields == tables[w.table].fields
           old == Get(fields, Field(w))
       IN  /\ tables' = [tables EXCEPT ![w.table].fields = Replace(fields, Field(w), w.string)]
           /\ IF old = Nil THEN Continue(t, [w EXCEPT !.at = "insert"]) /\ UNCHANGED strings
              ELSE strings' = DeleteString(strings, old) /\ Next1(t, Done(w), "copy")
    /\ NoText /\ UNCHANGED keyTable

\* A field that is there already ends an Insert half way (kErrorConflict).  The
\* copy of the field's name, made before the lock is taken, is then out of reach.
InsertField(t) ==
    /\ At(t, "insert") /\ Rest /\ Used(thread[t].table)
    /\ LET w == thread[t]
           fields == tables[w.table].fields
       IN  /\ tables' = [tables EXCEPT ![w.table].fields = TableInsert(fields, Field(w), w.string)]
           /\ IF w.op = "Insert" /\ Get(fields, Field(w)) # Nil
              THEN strings' = DeleteString(strings, w.string) /\ Return(t, w)
              ELSE Next1(t, Done(w), "copy") /\ UNCHANGED strings
           /\ fieldTexts' = [fieldTexts EXCEPT ![w.key][Field(w)] = @ + 1]
    /\ UNCHANGED <<keyTable, keyTexts>>

\* Get returns a pointer; the pair is made from it after the lock is released.
GetField(t) ==
    /\ At(t, "get") /\ Rest /\ Used(thread[t].table)
    /\ LET w == thread[t]
           s == Get(tables[w.table].fields, Field(w))
       IN  IF s = Nil THEN Next1(t, Done(w), "get")
           ELSE Continue(t, [w EXCEPT !.at = "follow", !.string = s])
    /\ NoText /\ UNCHANGED <<keyTable, tables, strings>>

FollowString(t) ==
    /\ thread[t].at = "follow" /\ Rest
    /\ LET w == thread[t] IN
       /\ misuse' = (misuse \/ ~strings[w.string].live)
       /\ Next1(t, Done([w EXCEPT !.result[Field(w)] = strings[w.string].text]), "get")
    /\ NoText /\ UNCHANGED <<keyTable, tables, strings>>

\* All fields at once: pointers now, the strings later.
GetEntries(t) ==
    /\ At(t, "entries") /\ Rest /\ Used(thread[t].table)
    /\ LET fields == tables[thread[t].table].fields
       IN  Continue(t, [thread[t] EXCEPT !.at = "followall", !.found = {fields[f] : f \in Fields} \ {Nil}])
    /\ NoText /\ UNCHANGED <<keyTable, tables, strings>>

FollowAll(t) ==
    /\ thread[t].at = "followall" /\ Rest
    /\ LET w == thread[t]
           seen == [f \in Fields |-> IF \E s \in w.found : strings[s].field = f
                                    THEN strings[CHOOSE s \in w.found : strings[s].field = f].text ELSE 0]
       IN  /\ misuse' = (misuse \/ \E s \in w.found : ~strings[s].live)
           /\ IF w.op = "Read" THEN Return(t, [w EXCEPT !.result = seen])
              ELSE Continue(t, [w EXCEPT !.at = "scan", !.found = {}])
    /\ NoText /\ UNCHANGED <<keyTable, tables, strings>>

\* Scan: the tables of the records, then each of them as a Read.
ScanKeys(t) ==
    /\ At(t, "lookup") /\ thread[t].op = "Scan" /\ Rest
    /\ \E S \in EntriesFrom(keyTable, thread[t].key, ScanLength) :
          Continue(t, [thread[t] EXCEPT !.at = "scan", !.todo = {keyTable[k] : k \in S}])
    /\ NoText /\ UNCHANGED <<keyTable, tables, strings, misuse>>

ScanNext(t) ==
    /\ thread[t].at = "scan" /\ Rest
    /\ IF thread[t].todo = {} THEN Return(t, thread[t])
       ELSE \E b \in thread[t].todo : Continue(t, [thread[t] EXCEPT !.at = "entries", !.table = b, !.todo = @ \ {b}])
    /\ NoText /\ UNCHANGED <<keyTable, tables, strings, misuse>>

\* Remove frees the text of the key and then erases the entry.  The first TBB
\* table does so under a lock it shares with other operations.
FreeKeyText(k) == keyTexts' = [keyTexts EXCEPT ![k] = @ - 1]

FreeText(t) ==
    /\ At(t, "lookup") /\ thread[t].op = "Delete" /\ impl = "tbb_rand" /\ Rest
    /\ Get(keyTable, thread[t].key) # Nil
    /\ FreeKeyText(thread[t].key)
    /\ thread' = [thread EXCEPT ![t].at = "erase"]
    /\ UNCHANGED <<keyTable, tables, strings, fieldTexts, content, misuse>>

RemoveKey(t) ==
    /\ At(t, "lookup") \/ At(t, "erase")
    /\ Rest
    /\ LET w == [thread[t] EXCEPT !.table = Get(keyTable, thread[t].key)]
       IN  /\ w.op = "Delete"
           /\ \/ w.at = "erase" /\ NoText
              \/ w.at = "lookup" /\ w.table = Nil /\ NoText
              \/ /\ w.at = "lookup" /\ w.table # Nil /\ impl # "tbb_rand"
                 /\ FreeKeyText(w.key) /\ UNCHANGED fieldTexts
           /\ IF w.table = Nil THEN Return(t, w) ELSE Continue(t, [w EXCEPT !.at = "dismantle"])
    /\ keyTable' = RemoveEntry(keyTable, thread[t].key)
    /\ UNCHANGED <<tables, strings, misuse>>

\* A thread that looks for a key compares it with the text of the entry before
\* it waits for the entry to be released (String::operator==).
CompareFreedText(t) ==
    /\ OnKeys(thread[t]) /\ LockMode(TableOp(thread[t])) = "read" /\ Rest
    /\ \E u \in Threads \ {t} : thread[u].at = "erase" /\ thread[u].key = thread[t].key
    /\ misuse' = TRUE
    /\ NoText /\ UNCHANGED <<keyTable, tables, strings, thread, content>>

\* DeleteFieldHashtable: its entries, then delete of each string and of the table.
\* Nothing frees the copies the table made of the names of its fields.
Dismantle(t) ==
    /\ At(t, "dismantle") /\ Rest /\ Used(thread[t].table)
    /\ LET fields == tables[thread[t].table].fields
       IN  Continue(t, [thread[t] EXCEPT !.at = "delete", !.found = {fields[f] : f \in Fields} \ {Nil}])
    /\ NoText /\ UNCHANGED <<keyTable, tables, strings>>

DeleteFieldHashtable(t) ==
    /\ thread[t].at = "delete" /\ Rest
    /\ LET w == thread[t] IN
       /\ misuse' = (misuse \/ \E s \in w.found : ~strings[s].live)
       /\ strings' = [s \in DOMAIN strings |-> IF s \in w.found THEN [strings[s] EXCEPT !.live = FALSE] ELSE strings[s]]
       /\ tables' = [tables EXCEPT ![w.table].live = FALSE]
       /\ Return(t, w)
    /\ NoText /\ UNCHANGED keyTable

HashInit ==
    /\ impl \in Implementations
    /\ keyTable = [k \in Keys |-> Nil] /\ tables = <<>> /\ strings = <<>>
    /\ keyTexts = [k \in Keys |-> 0] /\ fieldTexts = [k \in Keys |-> [f \in Fields |-> 0]]
    /\ thread = [t \in Threads |-> Idle]
    /\ content = [k \in Keys |-> Absent] /\ raced = {} /\ misuse = FALSE /\ begun = 0

\* After a use of freed memory anything may happen: the model ends there.
HashNext ==
    ~misuse /\ \E t \in Threads :
        \/ Begin(t) \/ Lock(t)
        \/ GetTable(t) \/ Attach(t) \/ CopyValue(t) \/ ReplaceField(t) \/ InsertField(t)
        \/ GetField(t) \/ FollowString(t) \/ GetEntries(t) \/ FollowAll(t) \/ ScanKeys(t) \/ ScanNext(t)
        \/ FreeText(t) \/ RemoveKey(t) \/ CompareFreedText(t) \/ Dismantle(t) \/ DeleteFieldHashtable(t)

HashSpec == HashInit /\ [][HashNext]_hashVars

------------------------------------------------------------------------------
\* Pairs of table operations that the container underneath does not order: any
\* with a writer for std::unordered_map; Update and unsafe_erase with anything
\* for concurrent_unordered_map; iteration with a writer for concurrent_hash_map.
Unordered(a, b) ==
    LET writes == {"Insert", "Update", "Remove"} \cap {a, b}
    IN  CASE impl = "lock_stl" -> writes # {}
          [] impl = "tbb_scan" -> writes \cap {"Update", "Remove"} # {}
          [] impl = "tbb_rand" -> writes # {} /\ "Entries" \in {a, b}

\* The lock modes of the three tables suffice: no two threads are in a pair of
\* operations of one table that its container leaves unordered (a data race).
TablesRaceFree ==
    \A t, u \in Inside :
        (t # u /\ Place(thread[t]) = Place(thread[u])) => ~Unordered(TableOp(thread[t]), TableOp(thread[u]))

\* Pairs in which one operation frees what the other may still point at.  Two
\* Deletes do where the key's text is freed under a shared lock.
FreesUnder(pair) ==
    \/ "Update" \in pair /\ pair \cap {"Read", "Scan"} # {}
    \/ "Delete" \in pair /\ pair # {"Delete"}
    \/ pair = {"Delete"} /\ impl = "tbb_rand"

\* A freed table, value or key text is used only after an Update overlapped a
\* Read or a Scan of the same key, or a Delete another operation of it, a second
\* Delete in the first TBB table only: nothing else in hashtable_db.cc and the
\* tables hands out or compares a pointer that somebody frees.
UseAfterFreeNeedsRace == misuse => \E pair \in raced : FreesUnder(pair)

Quiet == \A t \in Threads : thread[t].at = "idle"
Stored(k) == IF keyTable[k] = Nil THEN Absent
             ELSE [here |-> TRUE, texts |-> [f \in Fields |-> LET s == tables[keyTable[k]].fields[f]
                                                              IN  IF s = Nil THEN 0 ELSE strings[s].text]]
Reachable == {tables[b].fields[f] : b \in {keyTable[k] : k \in Keys} \ {Nil}, f \in Fields} \ {Nil}

\* As long as operations overlap on different keys only, they do what they do
\* alone: every record holds what its Inserts, Updates and Deletes left, a Read
\* returns the record, no live value is out of reach, and none in reach is freed.
\* The table of records has one text for each of its keys, and the name of each
\* field of a record is live (those of deleted records are, too).
DisjointKeysSequential ==
    raced = {} =>
        /\ Quiet => \A k \in Keys : Stored(k) = content[k]
        /\ Quiet => {s \in DOMAIN strings : strings[s].live} = Reachable
        /\ Quiet => \A k \in Keys : /\ keyTexts[k] = IF content[k].here THEN 1 ELSE 0
                                    /\ \A f \in Fields : content[k].texts[f] # 0 => fieldTexts[k][f] > 0
        /\ \A t \in Threads : thread[t].right

\* Memory is used safely unless one of the overlaps named above happens: the
\* locks order what the containers do not, and nobody else frees a value, a table
\* or a key's text that is still pointed at.
MemorySafe == TablesRaceFree /\ UseAfterFreeNeedsRace
==============================================================================
