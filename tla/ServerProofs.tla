---------------------------- MODULE ServerProofs ----------------------------
(***************************************************************************)
(* Proofs about the host side of LRUIndex: the tables in memory behind     *)
(* hashtable_db, for any number of threads, keys, fields and operations    *)
(* and for all three tables of lib/; and the YCSB front end over the DPDK  *)
(* driver, for any number of client threads and operations and messages of *)
(* any content that fit their buffer; and the B+ tree of the back end, for *)
(* every order and load.                                                   *)
(***************************************************************************)
EXTENDS BPlusTreeStore, HashtableDB, FrontEnd, BPlusTreeProofs

(***************************************************************************)
(* The inductive invariant                                                 *)
(***************************************************************************)
Steps == [Read |-> {"lookup", "get", "follow", "entries", "followall"},
          Scan |-> {"lookup", "scan", "entries", "followall"},
          Update |-> {"lookup", "attach", "copy", "replace", "insert"},
          Insert |-> {"lookup", "attach", "copy", "insert"},
          Delete |-> {"lookup", "erase", "dismantle", "delete"}]
Places == {"idle", "lookup", "erase", "get", "follow", "entries", "followall", "scan", "attach", "copy",
           "replace", "insert", "dismantle", "delete"}
Names == Fields \cup Nat
Texts == [Fields -> Nat]

Works == [at : Places, op : kinds \cup {"none"}, key : Keys \cup {Nil}, in : BOOLEAN, n : Nat,
          all : BOOLEAN, table : Nat, todo : SUBSET Names, found : SUBSET Names, string : Nat,
          result : Texts, fresh : BOOLEAN, right : BOOLEAN]
TableObjects == [live : BOOLEAN, fields : Texts]
StringObjects == [live : BOOLEAN, field : Fields, text : Nat]

HashTypeOK ==
  /\ impl \in Implementations
  /\ keyTable \in [Keys -> Nat]
  /\ tables \in Seq(TableObjects)
  /\ strings \in Seq(StringObjects)
  /\ thread \in [Threads -> Works]
  /\ misuse \in BOOLEAN
  /\ begun \in Nat

(* Where a thread of each operation can be, and what its record names then, *)
(* in a heap of so many tables and strings.                                 *)
Active(w) == w.at # "idle"
Holds(w) == w.at \notin {"idle", "lookup", "erase", "scan"}
Writes(w) == w.at \in {"replace", "insert"}
Scans(w) == w.op = "Scan" /\ w.at \in {"scan", "entries", "followall"}
HasField(w) == w.at \in {"attach", "copy", "replace", "insert", "get", "follow"}
               \/ (w.at = "lookup" /\ w.op # "Scan")
Sane(w, nt, ns) ==
  /\ Active(w) => w.op \in kinds /\ w.key \in Keys /\ w.at \in Steps[w.op]
  /\ Holds(w) => w.table \in 1..nt
  /\ Writes(w) \/ w.at = "follow" => w.string \in 1..ns
  /\ w.at \in {"followall", "delete"} => w.found \subseteq 1..ns
  /\ (Active(w) /\ w.op # "Scan") => w.todo \subseteq Fields
  /\ HasField(w) => w.todo # {}
  /\ Scans(w) => w.todo \subseteq 1..nt

Tables == 1..Len(tables)
Strings == 1..Len(strings)
Slot(b, f) == tables[b].fields[f]
InRange ==
  /\ \A k \in Keys : keyTable[k] \in 0..Len(tables)
  /\ \A b \in Tables, f \in Fields : Slot(b, f) \in 0..Len(strings)
  /\ \A t \in Threads : Sane(thread[t], Len(tables), Len(strings))

(* The locks that are held go together.                                     *)
LocksHeld == \A t, u \in Threads : (thread[t].in /\ thread[u].in /\ t # u) => Compatible(thread[t], thread[u])

(* The overlaps in progress have been recorded.                             *)
Overlap(w, v) == Active(w) /\ Active(v) /\ ("Scan" \in {w.op, v.op} \/ w.key = v.key)
OverlapsRecorded ==
  \A t, u \in Threads : (t # u /\ Overlap(thread[t], thread[u])) => {thread[t].op, thread[u].op} \in raced

(* A table belongs to one key, in the table of records and in the threads.  *)
Owns(w) == Holds(w) /\ w.op # "Scan"
KeysApart ==
  /\ \A j, k \in Keys : (keyTable[j] = keyTable[k] /\ keyTable[k] # Nil) => j = k
  /\ \A t \in Threads, k \in Keys : (Owns(thread[t]) /\ keyTable[k] = thread[t].table) => k = thread[t].key
  /\ \A t, u \in Threads : (Owns(thread[t]) /\ Owns(thread[u]) /\ thread[t].table = thread[u].table)
                              => thread[t].key = thread[u].key

(* A string is in one field of one table, or still with the thread that     *)
(* made it.                                                                 *)
StringsApart ==
  /\ \A b, c \in Tables, f, g \in Fields :
        (Slot(b, f) = Slot(c, g) /\ Slot(b, f) # Nil) => (b = c /\ f = g)
  /\ \A t \in Threads, b \in Tables, f \in Fields : Writes(thread[t]) => Slot(b, f) # thread[t].string
  /\ \A t, u \in Threads : (Writes(thread[t]) /\ Writes(thread[u]) /\ thread[t].string = thread[u].string) => t = u

(* No recorded overlap frees what the other operation may point at.         *)
Calm == \A pair \in raced : ~FreesUnder(pair)

(* Then nobody else reaches a table that is being deleted,                  *)
Removes(w) == w.at \in {"dismantle", "delete"}
Detached ==
  /\ \A t \in Threads, k \in Keys : Removes(thread[t]) => keyTable[k] # thread[t].table
  /\ \A t, u \in Threads : (Removes(thread[t]) /\ Owns(thread[u]) /\ t # u) => thread[u].table # thread[t].table

(* what can be reached is live,                                             *)
LiveTable(b) == tables[b].live
LiveString(s) == strings[s].live
ThreadLive(w) ==
  /\ Holds(w) => LiveTable(w.table)
  /\ Scans(w) => \A b \in w.todo : LiveTable(b)
  /\ Writes(w) => LiveString(w.string)
AllLive ==
  /\ \A k \in Keys : keyTable[k] # Nil => LiveTable(keyTable[k])
  /\ \A b \in Tables, f \in Fields : (LiveTable(b) /\ Slot(b, f) # Nil) => LiveString(Slot(b, f))
  /\ \A t \in Threads : ThreadLive(thread[t])

(* and the pointers a reader or a deleter took are still in the table.      *)
Points(w) ==
  /\ w.at = "follow" => \E f \in Fields : Slot(w.table, f) = w.string
  /\ w.at \in {"followall", "delete"} => \A s \in w.found : \E f \in Fields : Slot(w.table, f) = s

Safe == ~misuse /\ Detached /\ AllLive /\ \A t \in Threads : Points(thread[t])
HeapSound == KeysApart /\ StringsApart /\ (Calm => Safe)
HashInv == HashTypeOK /\ InRange /\ LocksHeld /\ OverlapsRecorded /\ HeapSound

-----------------------------------------------------------------------------
(* The locks *)
LEMMA CompatibleSymmetric ==
  ASSUME NEW w, NEW v, Compatible(w, v) PROVE Compatible(v, w)
BY DEF Compatible

LEMMA CompatibleOrdered ==
  ASSUME NEW w, NEW v, Compatible(w, v), Place(w) = Place(v), impl \in Implementations
  PROVE  ~Unordered(TableOp(w), TableOp(v))
<1> DEFINE a == TableOp(w)
           b == TableOp(v)
<1>1. LockMode(a) = "read" /\ LockMode(b) = "read" BY DEF Compatible
<1> HIDE DEF a, b
<1>2. CASE impl = "lock_stl"
  <2>1. \A o \in {"Insert", "Update", "Remove"} : LockMode(o) = "write"
    BY <1>2 DEF LockMode, LockStlHashtable
  <2>q. QED BY <1>1, <1>2, <2>1 DEF Unordered
<1>3. CASE impl = "tbb_rand"
  <2>1. LockMode("Entries") = "write" BY <1>3 DEF LockMode, TbbRandHashtable
  <2>q. QED BY <1>1, <1>3, <2>1 DEF Unordered
<1>4. CASE impl = "tbb_scan"
  <2>1. \A o \in {"Update", "Remove"} : LockMode(o) = "write"
    BY <1>4 DEF LockMode, TbbScanHashtable
  <2>q. QED BY <1>1, <1>4, <2>1 DEF Unordered
<1>q. QED BY <1>2, <1>3, <1>4 DEF Implementations, a, b

LEMMA HeldOrdered ==
  ASSUME HashTypeOK, LocksHeld PROVE TablesRaceFree
<1> SUFFICES ASSUME NEW t \in Inside, NEW u \in Inside, t # u, Place(thread[t]) = Place(thread[u])
             PROVE  ~Unordered(TableOp(thread[t]), TableOp(thread[u]))
  BY DEF TablesRaceFree
<1>1. Compatible(thread[t], thread[u]) BY DEF LocksHeld, Inside
<1>q. QED BY <1>1, CompatibleOrdered DEF HashTypeOK

-----------------------------------------------------------------------------
(* A step of thread t gives it the record w and leaves the others theirs.   *)
Moves(t, w) == /\ thread' \in [Threads -> Works] /\ thread'[t] = w
               /\ \A u \in Threads : u # t => thread'[u] = thread[u]

LEMMA IdleType == Idle \in Works /\ Idle.at = "idle" /\ ~Idle.in
<1>1. [f \in Fields |-> 0] \in Texts BY DEF Texts
<1>q. QED BY <1>1 DEF Idle, Works, Places, Names, Nil, kinds

LEMMA ReturnMoves ==
  ASSUME thread \in [Threads -> Works], NEW t \in Threads, NEW w \in Works, Return(t, w)
  PROVE  \E v \in Works : Moves(t, v) /\ v.at = "idle" /\ ~v.in
<1> DEFINE r == (w.op = "Read" => w.result = content[w.key].texts)
           v == [Idle EXCEPT !.right = r]
<1>1. r \in BOOLEAN OBVIOUS
<1> HIDE DEF r
<1>2. v \in Works /\ v.at = "idle" /\ ~v.in BY <1>1, IdleType DEF Works
<1>3. thread' = [thread EXCEPT ![t] = v] BY DEF Return, r
<1> HIDE DEF v
<1>q. QED BY <1>2, <1>3 DEF Moves

LEMMA ContinueMoves ==
  ASSUME thread \in [Threads -> Works], NEW t \in Threads, NEW w \in Works, Continue(t, w)
  PROVE  \E v \in Works : /\ Moves(t, v) /\ v.at = w.at /\ ~v.in /\ v.op = w.op /\ v.key = w.key
                          /\ v.table = w.table /\ v.todo = w.todo /\ v.found = w.found /\ v.string = w.string
<1> DEFINE v == [w EXCEPT !.in = FALSE]
<1>1. /\ v \in Works /\ v.at = w.at /\ ~v.in /\ v.op = w.op /\ v.key = w.key
      /\ v.table = w.table /\ v.todo = w.todo /\ v.found = w.found /\ v.string = w.string
  BY DEF Works
<1>2. thread' = [thread EXCEPT ![t] = v] BY DEF Continue
<1> HIDE DEF v
<1>q. QED BY <1>1, <1>2 DEF Moves

(* What every step but Begin and Lock does about locks and overlaps.        *)
LEMMA LocksKept ==
  ASSUME LocksHeld, NEW t \in Threads, NEW w, Moves(t, w), ~w.in, impl' = impl
  PROVE  LocksHeld'
<1> SUFFICES ASSUME NEW u \in Threads, NEW v \in Threads, thread'[u].in, thread'[v].in, u # v
             PROVE  Compatible(thread[u], thread[v])'
  BY DEF LocksHeld
<1>1. u # t /\ v # t BY DEF Moves
<1>2. thread'[u] = thread[u] /\ thread'[v] = thread[v] BY <1>1 DEF Moves
<1>3. Compatible(thread[u], thread[v]) BY <1>2 DEF LocksHeld
<1>q. QED BY <1>2, <1>3 DEF Compatible, LockMode

LEMMA OverlapsKept ==
  ASSUME OverlapsRecorded, NEW t \in Threads, NEW w, Moves(t, w), raced' = raced,
         Active(w) => Active(thread[t]) /\ w.op = thread[t].op /\ w.key = thread[t].key
  PROVE  OverlapsRecorded'
<1> SUFFICES ASSUME NEW u \in Threads, NEW v \in Threads, u # v, Overlap(thread[u], thread[v])'
             PROVE  {thread'[u].op, thread'[v].op} \in raced
  BY DEF OverlapsRecorded
<1>1. \A x \in Threads : Active(thread'[x]) => /\ Active(thread[x]) /\ thread'[x].op = thread[x].op
                                               /\ thread'[x].key = thread[x].key
  BY DEF Moves
<1>2. Active(thread'[u]) /\ Active(thread'[v]) BY DEF Overlap
<1>3. Overlap(thread[u], thread[v]) BY <1>1, <1>2 DEF Overlap
<1>4. {thread[u].op, thread[v].op} \in raced BY <1>3 DEF OverlapsRecorded
<1>q. QED BY <1>1, <1>2, <1>4

(* A step that leaves the heap alone keeps it sound, if t takes a table     *)
(* only out of the table of records, and new pointers only from where they  *)
(* are live.                                                                *)
LEMMA HeapKept ==
  ASSUME HashTypeOK, InRange, HeapSound, NEW t \in Threads, NEW w \in Works, Moves(t, w),
         UNCHANGED <<keyTable, tables, strings>>,
         Calm' => Calm,
         Removes(w) => Owns(w),
         Owns(w) => \/ /\ Owns(thread[t]) /\ w.table = thread[t].table /\ w.key = thread[t].key
                       /\ Removes(w) => Removes(thread[t])
                    \/ w.key \in Keys /\ w.table = keyTable[w.key] /\ w.table # Nil /\ ~Removes(w),
         Writes(w) => Writes(thread[t]) /\ w.string = thread[t].string,
         Calm => ~misuse' /\ ThreadLive(w) /\ Points(w)
  PROVE  HeapSound'
<1> DEFINE v == thread[t]
<1>1. KeysApart'
  <2>1. \A j, k \in Keys : (keyTable'[j] = keyTable'[k] /\ keyTable'[k] # Nil) => j = k
    BY DEF HeapSound, KeysApart
  <2>2. ASSUME NEW u \in Threads, NEW k \in Keys, Owns(thread'[u]), keyTable[k] = thread'[u].table
        PROVE  k = thread'[u].key
    <3>1. CASE u # t BY <2>2, <3>1 DEF Moves, HeapSound, KeysApart
    <3>2. CASE u = t BY <2>2, <3>2 DEF Moves, HeapSound, KeysApart
    <3>q. QED BY <3>1, <3>2
  <2>3. ASSUME NEW u \in Threads, u # t, Owns(w), Owns(thread[u]), w.table = thread[u].table
        PROVE  w.key = thread[u].key
    BY <2>3 DEF HeapSound, KeysApart
  <2>4. ASSUME NEW u \in Threads, NEW x \in Threads, Owns(thread'[u]), Owns(thread'[x]),
               thread'[u].table = thread'[x].table
        PROVE  thread'[u].key = thread'[x].key
    <3>1. CASE u # t /\ x # t BY <2>4, <3>1 DEF Moves, HeapSound, KeysApart
    <3>2. CASE u = t /\ x # t BY <2>4, <3>2, <2>3 DEF Moves
    <3>3. CASE u # t /\ x = t BY <2>4, <3>3, <2>3 DEF Moves
    <3>4. CASE u = t /\ x = t BY <3>4
    <3>q. QED BY <3>1, <3>2, <3>3, <3>4
  <2>q. QED BY <2>1, <2>2, <2>4 DEF KeysApart
<1>2. StringsApart'
  <2>1. \A u \in Threads : Writes(thread'[u]) => Writes(thread[u]) /\ thread'[u].string = thread[u].string
    BY DEF Moves
  <2>q. QED BY <2>1 DEF HeapSound, StringsApart, Tables, Slot
<1>3. ASSUME Calm PROVE Safe'
  <2>1. Safe BY <1>3 DEF HeapSound
  <2>2. Detached'
    <3>1. ASSUME NEW u \in Threads, NEW k \in Keys, Removes(thread'[u]) PROVE keyTable'[k] # thread'[u].table
      <4>1. CASE u # t BY <2>1, <3>1, <4>1 DEF Moves, Safe, Detached
      <4>2. CASE u = t
        <5>1. Owns(w) /\ Removes(w) BY <3>1, <4>2 DEF Moves
        <5>q. QED BY <5>1, <2>1, <4>2 DEF Moves, Safe, Detached
      <4>q. QED BY <4>1, <4>2
    <3>2. ASSUME NEW u \in Threads, NEW x \in Threads, Removes(thread'[u]), Owns(thread'[x]), u # x
          PROVE  thread'[x].table # thread'[u].table
      <4>1. CASE u # t /\ x # t BY <2>1, <3>2, <4>1 DEF Moves, Safe, Detached
      <4>2. CASE u = t /\ x # t BY <2>1, <3>2, <4>2 DEF Moves, Safe, Detached
      <4>3. CASE u # t /\ x = t BY <2>1, <3>2, <4>3 DEF Moves, Safe, Detached
      <4>q. QED BY <3>2, <4>1, <4>2, <4>3
    <3>q. QED BY <3>1, <3>2 DEF Detached
  <2>3. AllLive'
    BY <1>3, <2>1 DEF Moves, Safe, AllLive, ThreadLive, LiveTable, LiveString, Slot, Tables
  <2>4. \A u \in Threads : Points(thread'[u])
    BY <1>3, <2>1 DEF Moves, Safe
  <2>q. QED BY <1>3, <2>2, <2>3, <2>4 DEF Safe, Points, Slot
<1>q. QED BY <1>1, <1>2, <1>3 DEF HeapSound

LEMMA SaneGrows ==
  ASSUME NEW w, NEW a \in Nat, NEW b \in Nat, NEW c \in Nat, NEW d \in Nat, Sane(w, a, b), a <= c, b <= d
  PROVE  Sane(w, c, d)
<1>1. 1..a \subseteq 1..c /\ 1..b \subseteq 1..d OBVIOUS
<1>q. QED BY <1>1 DEF Sane

(* What a step owes for the invariant.                                      *)
LEMMA StepKept ==
  ASSUME HashInv, NEW t \in Threads, NEW w \in Works, Moves(t, w), ~w.in, UNCHANGED <<impl, raced, begun>>,
         Active(w) => Active(thread[t]) /\ w.op = thread[t].op /\ w.key = thread[t].key,
         keyTable' \in [Keys -> Nat], tables' \in Seq(TableObjects), strings' \in Seq(StringObjects),
         misuse' \in BOOLEAN, Len(tables) <= Len(tables'), Len(strings) <= Len(strings'),
         \A k \in Keys : keyTable'[k] \in 0..Len(tables'),
         \A b \in 1..Len(tables'), f \in Fields : tables'[b].fields[f] \in 0..Len(strings'),
         Sane(w, Len(tables'), Len(strings')),
         HeapSound'
  PROVE  HashInv'
<1>1. HashTypeOK' BY DEF HashInv, HashTypeOK, Moves
<1>2. /\ Len(tables) \in Nat /\ Len(tables') \in Nat /\ Len(strings) \in Nat /\ Len(strings') \in Nat
  BY DEF HashInv, HashTypeOK
<1>3. ASSUME NEW u \in Threads PROVE Sane(thread'[u], Len(tables'), Len(strings'))
  <2>1. CASE u = t BY <2>1 DEF Moves
  <2>2. CASE u # t
    <3>1. Sane(thread[u], Len(tables), Len(strings)) /\ thread'[u] = thread[u]
      BY <2>2 DEF HashInv, InRange, Moves
    <3>q. QED BY <3>1, <1>2, SaneGrows
  <2>q. QED BY <2>1, <2>2
<1>4. InRange' BY <1>3 DEF InRange, Tables, Slot
<1>5. LocksHeld' BY LocksKept DEF HashInv
<1>6. OverlapsRecorded' BY OverlapsKept DEF HashInv
<1>q. QED BY <1>1, <1>4, <1>5, <1>6 DEF HashInv

LEMMA QuietKept ==
  ASSUME HashInv, NEW t \in Threads, NEW w \in Works, Moves(t, w), ~w.in,
         UNCHANGED <<impl, raced, begun, keyTable, tables, strings>>, misuse' \in BOOLEAN,
         Active(w) => Active(thread[t]) /\ w.op = thread[t].op /\ w.key = thread[t].key,
         Sane(w, Len(tables), Len(strings)),
         Removes(w) => Owns(w),
         Owns(w) => \/ /\ Owns(thread[t]) /\ w.table = thread[t].table /\ w.key = thread[t].key
                       /\ Removes(w) => Removes(thread[t])
                    \/ w.key \in Keys /\ w.table = keyTable[w.key] /\ w.table # Nil /\ ~Removes(w),
         Writes(w) => Writes(thread[t]) /\ w.string = thread[t].string,
         Calm => ~misuse' /\ ThreadLive(w) /\ Points(w)
  PROVE  HashInv'
<1>1. Calm' => Calm BY DEF Calm, FreesUnder
<1>2. HeapSound' BY <1>1, HeapKept DEF HashInv
<1>3. /\ Len(tables) \in Nat /\ Len(strings) \in Nat
      /\ keyTable' \in [Keys -> Nat] /\ tables' \in Seq(TableObjects) /\ strings' \in Seq(StringObjects)
  BY DEF HashInv, HashTypeOK
<1>4. /\ \A k \in Keys : keyTable'[k] \in 0..Len(tables')
      /\ \A b \in 1..Len(tables'), f \in Fields : tables'[b].fields[f] \in 0..Len(strings')
  BY DEF HashInv, InRange, Tables, Slot
<1>q. QED BY <1>2, <1>3, <1>4, StepKept

(* A thread that returns keeps the invariant.                               *)
LEMMA IdleKept ==
  ASSUME HashInv, NEW t \in Threads, NEW w \in Works, Return(t, w),
         UNCHANGED <<impl, raced, begun, keyTable, tables, strings>>, misuse' \in BOOLEAN,
         Calm => ~misuse'
  PROVE  HashInv'
<1>1. PICK v \in Works : Moves(t, v) /\ v.at = "idle" /\ ~v.in
  BY ReturnMoves DEF HashInv, HashTypeOK
<1>2. /\ ~Active(v) /\ ~Holds(v) /\ ~Writes(v) /\ ~Scans(v) /\ ~HasField(v) /\ ~Owns(v) /\ ~Removes(v)
      /\ v.at \notin {"follow", "followall", "delete"}
  BY <1>1 DEF Active, Holds, Writes, Scans, HasField, Owns, Removes
<1>3. Sane(v, Len(tables), Len(strings)) BY <1>2 DEF Sane
<1>4. ThreadLive(v) /\ Points(v) BY <1>2 DEF ThreadLive, Points
<1>q. QED BY <1>1, <1>2, <1>3, <1>4, QuietKept

(* A thread that continues with record c keeps it, too.                     *)
Alike(v, c) == /\ v.at = c.at /\ v.op = c.op /\ v.key = c.key /\ v.table = c.table
               /\ v.todo = c.todo /\ v.found = c.found /\ v.string = c.string

LEMMA AlikeSame ==
  ASSUME NEW v, NEW c, Alike(v, c), NEW a, NEW b
  PROVE  /\ Active(v) <=> Active(c)
         /\ Holds(v) <=> Holds(c)
         /\ Writes(v) <=> Writes(c)
         /\ Owns(v) <=> Owns(c)
         /\ Removes(v) <=> Removes(c)
         /\ Sane(c, a, b) => Sane(v, a, b)
         /\ ThreadLive(c) => ThreadLive(v)
         /\ Points(c) => Points(v)
<1>1. /\ Active(v) <=> Active(c)
      /\ Holds(v) <=> Holds(c)
      /\ Writes(v) <=> Writes(c)
      /\ Owns(v) <=> Owns(c)
      /\ Removes(v) <=> Removes(c)
      /\ Scans(v) <=> Scans(c)
      /\ HasField(v) <=> HasField(c)
  BY DEF Alike, Active, Holds, Writes, Owns, Removes, Scans, HasField
<1>2. Sane(c, a, b) => Sane(v, a, b) BY <1>1 DEF Alike, Sane
<1>3. ThreadLive(c) => ThreadLive(v) BY <1>1 DEF Alike, ThreadLive
<1>4. Points(c) => Points(v) BY <1>1 DEF Alike, Points
<1>q. QED BY <1>1, <1>2, <1>3, <1>4

LEMMA ContinueKept ==
  ASSUME HashInv, NEW t \in Threads, NEW c \in Works, Continue(t, c),
         UNCHANGED <<impl, raced, begun, keyTable, tables, strings>>, misuse' \in BOOLEAN,
         Active(c) => Active(thread[t]) /\ c.op = thread[t].op /\ c.key = thread[t].key,
         Sane(c, Len(tables), Len(strings)),
         Removes(c) => Owns(c),
         Owns(c) => \/ /\ Owns(thread[t]) /\ c.table = thread[t].table /\ c.key = thread[t].key
                       /\ Removes(c) => Removes(thread[t])
                    \/ c.key \in Keys /\ c.table = keyTable[c.key] /\ c.table # Nil /\ ~Removes(c),
         Writes(c) => Writes(thread[t]) /\ c.string = thread[t].string,
         Calm => ~misuse' /\ ThreadLive(c) /\ Points(c)
  PROVE  HashInv'
<1>1. PICK v \in Works : /\ Moves(t, v) /\ v.at = c.at /\ ~v.in /\ v.op = c.op /\ v.key = c.key
                         /\ v.table = c.table /\ v.todo = c.todo /\ v.found = c.found /\ v.string = c.string
  BY ContinueMoves DEF HashInv, HashTypeOK
<1>2. Alike(v, c) BY <1>1 DEF Alike
<1>3. /\ Active(v) <=> Active(c)
      /\ Holds(v) <=> Holds(c)
      /\ Writes(v) <=> Writes(c)
      /\ Owns(v) <=> Owns(c)
      /\ Removes(v) <=> Removes(c)
      /\ Sane(v, Len(tables), Len(strings))
      /\ ThreadLive(c) => ThreadLive(v)
      /\ Points(c) => Points(v)
  BY <1>2, AlikeSame
<1>4. Active(v) => Active(thread[t]) /\ v.op = thread[t].op /\ v.key = thread[t].key
  BY <1>1, <1>3
<1>5. Owns(v) => \/ /\ Owns(thread[t]) /\ v.table = thread[t].table /\ v.key = thread[t].key
                    /\ Removes(v) => Removes(thread[t])
                 \/ v.key \in Keys /\ v.table = keyTable[v.key] /\ v.table # Nil /\ ~Removes(v)
  BY <1>1, <1>3
<1>6. Writes(v) => Writes(thread[t]) /\ v.string = thread[t].string BY <1>1, <1>3
<1>7. Removes(v) => Owns(v) BY <1>3
<1>8. Calm => ~misuse' /\ ThreadLive(v) /\ Points(v) BY <1>3
<1>q. QED BY <1>1, <1>3, <1>4, <1>5, <1>6, <1>7, <1>8, QuietKept

(* What the invariant says of one thread.                                   *)
LEMMA ThreadFacts ==
  ASSUME HashInv, NEW t \in Threads
  PROVE  /\ thread[t] \in Works /\ Sane(thread[t], Len(tables), Len(strings))
         /\ Calm => ~misuse /\ ThreadLive(thread[t]) /\ Points(thread[t])
         /\ Len(tables) \in Nat /\ Len(strings) \in Nat
         /\ Active(thread[t]) => thread[t].op \in kinds /\ thread[t].key \in Keys
BY DEF HashInv, HashTypeOK, InRange, HeapSound, Safe, AllLive, Sane

LEMMA ObjectTypes ==
  ASSUME HashInv
  PROVE  /\ \A b \in 1..Len(tables) : tables[b] \in TableObjects
         /\ \A s \in 1..Len(strings) : strings[s] \in StringObjects /\ strings[s].text \in Nat
<1>1. tables \in Seq(TableObjects) /\ strings \in Seq(StringObjects) BY DEF HashInv, HashTypeOK
<1>2. \A s \in 1..Len(strings) : strings[s] \in StringObjects BY <1>1
<1>3. \A b \in 1..Len(tables) : tables[b] \in TableObjects BY <1>1
<1>q. QED BY <1>2, <1>3 DEF StringObjects

-----------------------------------------------------------------------------
(* The steps that leave the heap alone *)
LEMMA NextGetKept ==
  ASSUME HashInv, NEW t \in Threads, thread[t].op = "Read", thread[t].at \in {"get", "follow"},
         NEW d \in Works, d.op = thread[t].op, d.key = thread[t].key, d.table = thread[t].table,
         d.todo \subseteq thread[t].todo, Next1(t, d, "get"),
         UNCHANGED <<impl, raced, begun, keyTable, tables, strings>>, misuse' \in BOOLEAN,
         Calm => ~misuse'
  PROVE  HashInv'
<1> DEFINE w == thread[t]
<1>1. /\ w \in Works /\ Sane(w, Len(tables), Len(strings)) /\ Active(w) /\ w.op \in kinds /\ w.key \in Keys
      /\ Calm => ThreadLive(w)
  BY ThreadFacts DEF Active
<1>2. Holds(w) /\ Owns(w) /\ w.table \in 1..Len(tables) /\ w.todo \subseteq Fields
  BY <1>1 DEF Sane, Active, Holds, Owns
<1>3. CASE d.todo = {}
  BY <1>1, <1>3, IdleKept DEF Next1
<1>4. CASE d.todo # {}
  <2> DEFINE c == [d EXCEPT !.at = "get"]
  <2>1. c \in Works /\ c.at = "get" /\ c.op = d.op /\ c.key = d.key /\ c.table = d.table /\ c.todo = d.todo
    BY DEF Works, Places
  <2>2. Continue(t, c) BY <1>4 DEF Next1
  <2> HIDE DEF c
  <2>3. /\ c.op = w.op /\ c.key = w.key /\ c.table = w.table /\ c.todo \subseteq Fields /\ c.todo # {}
    BY <1>2, <1>4, <2>1
  <2>4. Sane(c, Len(tables), Len(strings)) /\ Owns(c) /\ ~Removes(c) /\ ~Writes(c) /\ Holds(c) /\ ~Scans(c) /\ Active(c)
    BY <1>1, <1>2, <2>1, <2>3 DEF Sane, Active, Holds, Owns, HasField, Steps, kinds, Scans, Writes, Removes
  <2>5. Calm => ~misuse' /\ ThreadLive(c) /\ Points(c)
    BY <1>1, <1>2, <2>1, <2>3, <2>4 DEF ThreadLive, Points
  <2>q. QED BY <1>1, <1>2, <2>1, <2>2, <2>3, <2>4, <2>5, ContinueKept
<1>q. QED BY <1>3, <1>4

LEMMA GetFieldKept ==
  ASSUME HashInv, NEW t \in Threads, GetField(t)
  PROVE  HashInv'
<1> DEFINE w == thread[t]
           s == tables[w.table].fields[Field(w)]
           d == Done(w)
<1>1. /\ w \in Works /\ Sane(w, Len(tables), Len(strings)) /\ w.at = "get"
      /\ Calm => ~misuse /\ ThreadLive(w) /\ Points(w)
      /\ UNCHANGED <<impl, raced, begun, keyTable, tables, strings>>
      /\ w.op \in kinds /\ w.key \in Keys
  BY ThreadFacts DEF GetField, At, Rest, Active
<1>2. w.op = "Read" /\ Holds(w) /\ Owns(w) /\ w.table \in 1..Len(tables) /\ w.todo \subseteq Fields /\ w.todo # {}
  BY <1>1 DEF Sane, Active, Holds, Owns, HasField, Steps, kinds
<1>3. Field(w) \in Fields BY <1>2 DEF Field
<1>4. misuse' \in BOOLEAN /\ (Calm => ~misuse')
  BY <1>1, <1>2 DEF GetField, Used, ThreadLive, LiveTable
<1>5. CASE s = Nil
  <2>1. Next1(t, d, "get") BY <1>5 DEF GetField, Get
  <2>2. /\ d \in Works /\ d.op = w.op /\ d.key = w.key /\ d.table = w.table /\ d.todo \subseteq w.todo
    BY <1>1, <1>3 DEF Done, Works, Names
  <2> HIDE DEF d
  <2>q. QED BY <1>1, <1>2, <1>4, <2>1, <2>2, NextGetKept
<1>6. CASE s # Nil
  <2> DEFINE c == [w EXCEPT !.at = "follow", !.string = s]
  <2>1. Continue(t, c) BY <1>6 DEF GetField, Get
  <2>2. s \in 1..Len(strings) /\ s \in Nat
    BY <1>2, <1>3, <1>6 DEF HashInv, InRange, Tables, Slot, Nil, HashTypeOK
  <2>3. /\ c \in Works /\ c.at = "follow" /\ c.op = w.op /\ c.key = w.key /\ c.table = w.table /\ c.todo = w.todo
        /\ c.string = s
    BY <1>1, <2>2 DEF Works, Places
  <2> HIDE DEF c, s
  <2>4. Sane(c, Len(tables), Len(strings)) /\ Owns(c) /\ ~Removes(c) /\ ~Writes(c) /\ Holds(c) /\ ~Scans(c) /\ Active(c)
    BY <1>1, <1>2, <2>2, <2>3 DEF Sane, Active, Holds, Owns, HasField, Steps, kinds, Scans, Writes, Removes
  <2>5. Active(w) BY <1>1 DEF Active
  <2>6. Points(c) BY <1>3, <2>3 DEF Points, s, Slot
  <2>7. Calm => ~misuse' /\ ThreadLive(c)
    BY <1>1, <1>2, <1>4, <2>3, <2>4 DEF ThreadLive
  <2>q. QED BY <1>1, <1>2, <1>4, <2>1, <2>3, <2>4, <2>5, <2>6, <2>7, ContinueKept
<1>q. QED BY <1>5, <1>6

(* A pointer that is still in a live table is live.                         *)
LEMMA PointerLive ==
  ASSUME HashInv, Calm, NEW t \in Threads, Holds(thread[t]), NEW s, s # Nil,
         \E f \in Fields : Slot(thread[t].table, f) = s
  PROVE  strings[s].live
<1>1. AllLive /\ ThreadLive(thread[t]) BY DEF HashInv, HeapSound, Safe, AllLive
<1>2. thread[t].table \in Tables BY DEF HashInv, InRange, Sane, Tables
<1>q. QED BY <1>1, <1>2 DEF AllLive, ThreadLive, LiveString

LEMMA FollowStringKept ==
  ASSUME HashInv, NEW t \in Threads, FollowString(t)
  PROVE  HashInv'
<1> DEFINE w == thread[t]
           r == [w EXCEPT !.result[Field(w)] = strings[w.string].text]
           d == Done(r)
<1>1. /\ w \in Works /\ Sane(w, Len(tables), Len(strings)) /\ w.at = "follow"
      /\ Calm => ~misuse /\ ThreadLive(w) /\ Points(w)
      /\ UNCHANGED <<impl, raced, begun, keyTable, tables, strings>>
      /\ w.op \in kinds /\ w.key \in Keys
  BY ThreadFacts DEF FollowString, Rest, Active
<1>2. w.op = "Read" /\ Holds(w) /\ w.todo \subseteq Fields /\ w.todo # {} /\ w.string \in 1..Len(strings)
  BY <1>1 DEF Sane, Active, Holds, HasField, Steps, kinds
<1>3. Field(w) \in Fields BY <1>2 DEF Field
<1>4. misuse' \in BOOLEAN /\ (Calm => ~misuse')
  <2>1. misuse' = (misuse \/ ~strings[w.string].live) BY DEF FollowString
  <2>2. Calm => strings[w.string].live
    <3>1. w.string # Nil BY <1>2 DEF Nil
    <3>2. Calm => \E f \in Fields : Slot(w.table, f) = w.string BY <1>1 DEF Points
    <3>q. QED BY <1>2, <3>1, <3>2, PointerLive
  <2>q. QED BY <1>1, <2>1, <2>2
<1>5. Next1(t, d, "get") BY DEF FollowString
<1>6. /\ r \in Works /\ r.op = w.op /\ r.key = w.key /\ r.table = w.table /\ r.todo = w.todo
  <2>1. strings[w.string].text \in Nat BY <1>2, ObjectTypes
  <2>q. QED BY <1>1, <1>3, <2>1 DEF Works, Texts
<1> HIDE DEF r
<1>7. Field(r) \in Fields /\ r.todo \subseteq Fields BY <1>2, <1>6 DEF Field
<1>8. d \in Works /\ d.op = w.op /\ d.key = w.key /\ d.table = w.table /\ d.todo \subseteq w.todo
  BY <1>6, <1>7 DEF Done, Works, Names
<1> HIDE DEF d
<1>q. QED BY <1>1, <1>2, <1>4, <1>5, <1>8, NextGetKept

LEMMA GetEntriesKept ==
  ASSUME HashInv, NEW t \in Threads, GetEntries(t)
  PROVE  HashInv'
<1> DEFINE w == thread[t]
           all == {tables[w.table].fields[f] : f \in Fields} \ {Nil}
           c == [w EXCEPT !.at = "followall", !.found = all]
<1>1. /\ w \in Works /\ Sane(w, Len(tables), Len(strings)) /\ w.at = "entries"
      /\ Calm => ~misuse /\ ThreadLive(w) /\ Points(w)
      /\ UNCHANGED <<impl, raced, begun, keyTable, tables, strings>>
      /\ w.op \in kinds /\ w.key \in Keys /\ Active(w)
  BY ThreadFacts DEF GetEntries, At, Rest, Active
<1>2. /\ w.op \in {"Read", "Scan"} /\ Holds(w) /\ w.table \in 1..Len(tables)
      /\ w.op = "Read" => w.todo \subseteq Fields
      /\ w.op = "Scan" => w.todo \subseteq 1..Len(tables)
  BY <1>1 DEF Sane, Active, Holds, Owns, HasField, Scans, Steps, kinds
<1>3. Continue(t, c) BY DEF GetEntries
<1>4. misuse' \in BOOLEAN /\ (Calm => ~misuse')
  BY <1>1, <1>2 DEF GetEntries, Used, ThreadLive, LiveTable
<1>5. all \subseteq 1..Len(strings) /\ \A s \in all : \E f \in Fields : Slot(w.table, f) = s
  BY <1>2 DEF HashInv, InRange, Tables, Slot, Nil, HashTypeOK
<1> HIDE DEF all
<1>6. /\ c \in Works /\ c.at = "followall" /\ c.op = w.op /\ c.key = w.key /\ c.table = w.table
      /\ c.todo = w.todo /\ c.found = all
  <2>1. all \in SUBSET Names BY <1>5 DEF Names
  <2>q. QED BY <1>1, <2>1 DEF Works, Places
<1> HIDE DEF c
<1>7. Sane(c, Len(tables), Len(strings)) /\ ~Removes(c) /\ ~Writes(c) /\ Holds(c) /\ Active(c)
  BY <1>1, <1>2, <1>5, <1>6 DEF Sane, Active, Holds, HasField, Steps, kinds, Scans, Writes, Removes
<1>8. Owns(c) => Owns(w) BY <1>2, <1>6 DEF Owns
<1>9. Calm => ThreadLive(c) /\ Points(c)
  BY <1>1, <1>2, <1>5, <1>6, <1>7 DEF ThreadLive, Points, Scans
<1>q. QED BY <1>1, <1>3, <1>4, <1>6, <1>7, <1>8, <1>9, ContinueKept

LEMMA FollowAllKept ==
  ASSUME HashInv, NEW t \in Threads, FollowAll(t)
  PROVE  HashInv'
<1> DEFINE w == thread[t]
           seen == [f \in Fields |-> IF \E s \in w.found : strings[s].field = f
                                    THEN strings[CHOOSE s \in w.found : strings[s].field = f].text ELSE 0]
           d == [w EXCEPT !.result = seen]
           c == [w EXCEPT !.at = "scan", !.found = {}]
<1>1. /\ w \in Works /\ Sane(w, Len(tables), Len(strings)) /\ w.at = "followall"
      /\ Calm => ~misuse /\ ThreadLive(w) /\ Points(w)
      /\ UNCHANGED <<impl, raced, begun, keyTable, tables, strings>>
      /\ w.op \in kinds /\ w.key \in Keys /\ Active(w)
  BY ThreadFacts DEF FollowAll, Rest, Active
<1>2. /\ w.op \in {"Read", "Scan"} /\ Holds(w) /\ w.found \subseteq 1..Len(strings)
      /\ w.op = "Scan" => w.todo \subseteq 1..Len(tables) /\ Scans(w)
  BY <1>1 DEF Sane, Active, Holds, Owns, Scans, Steps, kinds
<1>4. misuse' \in BOOLEAN /\ (Calm => ~misuse')
  <2>1. misuse' = (misuse \/ \E s \in w.found : ~strings[s].live) BY DEF FollowAll
  <2>2. ASSUME Calm, NEW s \in w.found PROVE strings[s].live
    <3>1. s # Nil BY <1>2 DEF Nil
    <3>2. \E f \in Fields : Slot(w.table, f) = s BY <1>1, <2>2 DEF Points
    <3>q. QED BY <1>2, <2>2, <3>1, <3>2, PointerLive
  <2>q. QED BY <1>1, <2>1, <2>2
<1>5. CASE w.op = "Read"
  <2>1. Return(t, d) BY <1>5 DEF FollowAll
  <2>2. seen \in Texts
    <3>1. \A s \in w.found : strings[s].text \in Nat BY <1>2, ObjectTypes
    <3>q. QED BY <3>1 DEF Texts
  <2> HIDE DEF seen
  <2>3. d \in Works BY <1>1, <2>2 DEF Works
  <2> HIDE DEF d
  <2>q. QED BY <1>1, <1>4, <2>1, <2>3, IdleKept
<1>6. CASE w.op = "Scan"
  <2>1. Continue(t, c) BY <1>6 DEF FollowAll
  <2>2. /\ c \in Works /\ c.at = "scan" /\ c.op = w.op /\ c.key = w.key /\ c.todo = w.todo
    BY <1>1 DEF Works, Places
  <2> HIDE DEF c
  <2>3. Sane(c, Len(tables), Len(strings)) /\ ~Owns(c) /\ ~Removes(c) /\ ~Writes(c) /\ ~Holds(c) /\ Active(c) /\ Scans(c)
    BY <1>1, <1>2, <1>6, <2>2 DEF Sane, Active, Holds, Owns, HasField, Steps, kinds, Scans, Writes, Removes
  <2>4. Calm => ThreadLive(c) /\ Points(c)
    BY <1>1, <1>2, <1>6, <2>2, <2>3 DEF ThreadLive, Points
  <2>q. QED BY <1>1, <1>4, <2>1, <2>2, <2>3, <2>4, ContinueKept
<1>q. QED BY <1>2, <1>5, <1>6

LEMMA ScanKeysKept ==
  ASSUME HashInv, NEW t \in Threads, ScanKeys(t)
  PROVE  HashInv'
<1> DEFINE w == thread[t]
<1>1. /\ w \in Works /\ w.at = "lookup" /\ w.op = "Scan" /\ w.key \in Keys /\ Active(w)
      /\ Calm => ~misuse
      /\ UNCHANGED <<impl, raced, begun, keyTable, tables, strings, misuse>>
  BY ThreadFacts DEF ScanKeys, At, Rest, Active
<1>2. PICK S \in EntriesFrom(keyTable, w.key, ScanLength) :
         Continue(t, [w EXCEPT !.at = "scan", !.todo = {keyTable[k] : k \in S}])
  BY DEF ScanKeys
<1> DEFINE found == {keyTable[k] : k \in S}
           c == [w EXCEPT !.at = "scan", !.todo = found]
<1>3. \A k \in S : k \in Keys /\ keyTable[k] # Nil
  BY <1>2 DEF EntriesFrom, HashInv, HashTypeOK
<1>4. found \subseteq 1..Len(tables) /\ found \in SUBSET Names /\ (Calm => \A b \in found : LiveTable(b))
  <2>1. \A k \in S : keyTable[k] \in 1..Len(tables) BY <1>3 DEF HashInv, InRange, Nil, HashTypeOK
  <2>2. Calm => \A k \in S : LiveTable(keyTable[k])
    BY <1>3 DEF HashInv, HeapSound, Safe, AllLive
  <2>q. QED BY <2>1, <2>2 DEF Names
<1>5. Continue(t, c) BY <1>2
<1> HIDE DEF found
<1>6. c \in Works /\ c.at = "scan" /\ c.op = "Scan" /\ c.key = w.key /\ c.todo = found
  BY <1>1, <1>4 DEF Works, Places
<1> HIDE DEF c
<1>7. Sane(c, Len(tables), Len(strings)) /\ ~Owns(c) /\ ~Removes(c) /\ ~Writes(c) /\ ~Holds(c) /\ Active(c) /\ Scans(c)
  BY <1>1, <1>4, <1>6 DEF Sane, Active, Holds, Owns, HasField, Steps, kinds, Scans, Writes, Removes
<1>8. Calm => ThreadLive(c) /\ Points(c)
  BY <1>4, <1>6, <1>7 DEF ThreadLive, Points
<1>9. misuse' \in BOOLEAN BY <1>1 DEF HashInv, HashTypeOK
<1>q. QED BY <1>1, <1>5, <1>6, <1>7, <1>8, <1>9, ContinueKept

LEMMA ScanNextKept ==
  ASSUME HashInv, NEW t \in Threads, ScanNext(t)
  PROVE  HashInv'
<1> DEFINE w == thread[t]
<1>1. /\ w \in Works /\ Sane(w, Len(tables), Len(strings)) /\ w.at = "scan" /\ w.key \in Keys /\ Active(w)
      /\ w.op \in kinds
      /\ Calm => ~misuse /\ ThreadLive(w)
      /\ UNCHANGED <<impl, raced, begun, keyTable, tables, strings, misuse>>
  BY ThreadFacts DEF ScanNext, Rest, Active
<1>2. w.op = "Scan" /\ w.todo \subseteq 1..Len(tables) /\ Scans(w)
  BY <1>1 DEF Sane, Active, Scans, Steps, kinds
<1>3. misuse' \in BOOLEAN /\ (Calm => ~misuse') BY <1>1 DEF HashInv, HashTypeOK
<1>4. CASE w.todo = {}
  BY <1>1, <1>3, <1>4, IdleKept DEF ScanNext
<1>5. CASE w.todo # {}
  <2>1. PICK b \in w.todo : Continue(t, [w EXCEPT !.at = "entries", !.table = b, !.todo = @ \ {b}])
    BY <1>5 DEF ScanNext
  <2> DEFINE c == [w EXCEPT !.at = "entries", !.table = b, !.todo = w.todo \ {b}]
  <2>2. Continue(t, c) BY <2>1
  <2>3. b \in Nat /\ b \in 1..Len(tables) /\ w.todo \ {b} \in SUBSET Names
    BY <1>2 DEF Names, HashInv, HashTypeOK
  <2>4. /\ c \in Works /\ c.at = "entries" /\ c.op = "Scan" /\ c.key = w.key /\ c.table = b
        /\ c.todo = w.todo \ {b}
    BY <1>1, <1>2, <2>3 DEF Works, Places
  <2> HIDE DEF c
  <2>5. Sane(c, Len(tables), Len(strings)) /\ ~Owns(c) /\ ~Removes(c) /\ ~Writes(c) /\ Holds(c) /\ Active(c) /\ Scans(c)
    BY <1>1, <1>2, <2>3, <2>4 DEF Sane, Active, Holds, Owns, HasField, Steps, kinds, Scans, Writes, Removes
  <2>6. Calm => ThreadLive(c) /\ Points(c)
    BY <1>1, <1>2, <2>4, <2>5 DEF ThreadLive, Points
  <2>q. QED BY <1>1, <1>2, <1>3, <2>2, <2>4, <2>5, <2>6, ContinueKept
<1>q. QED BY <1>4, <1>5

LEMMA DismantleKept ==
  ASSUME HashInv, NEW t \in Threads, Dismantle(t)
  PROVE  HashInv'
<1> DEFINE w == thread[t]
           all == {tables[w.table].fields[f] : f \in Fields} \ {Nil}
           c == [w EXCEPT !.at = "delete", !.found = all]
<1>1. /\ w \in Works /\ Sane(w, Len(tables), Len(strings)) /\ w.at = "dismantle"
      /\ Calm => ~misuse /\ ThreadLive(w) /\ Points(w)
      /\ UNCHANGED <<impl, raced, begun, keyTable, tables, strings>>
      /\ w.op \in kinds /\ w.key \in Keys /\ Active(w)
  BY ThreadFacts DEF Dismantle, At, Rest, Active
<1>2. w.op = "Delete" /\ Holds(w) /\ Owns(w) /\ Removes(w) /\ w.table \in 1..Len(tables) /\ w.todo \subseteq Fields
  BY <1>1 DEF Sane, Active, Holds, Owns, Removes, Steps, kinds
<1>3. Continue(t, c) BY DEF Dismantle
<1>4. misuse' \in BOOLEAN /\ (Calm => ~misuse')
  BY <1>1, <1>2 DEF Dismantle, Used, ThreadLive, LiveTable
<1>5. all \subseteq 1..Len(strings) /\ \A s \in all : \E f \in Fields : Slot(w.table, f) = s
  BY <1>2 DEF HashInv, InRange, Tables, Slot, Nil, HashTypeOK
<1> HIDE DEF all
<1>6. /\ c \in Works /\ c.at = "delete" /\ c.op = w.op /\ c.key = w.key /\ c.table = w.table
      /\ c.todo = w.todo /\ c.found = all
  <2>1. all \in SUBSET Names BY <1>5 DEF Names
  <2>q. QED BY <1>1, <2>1 DEF Works, Places
<1> HIDE DEF c
<1>7. Sane(c, Len(tables), Len(strings)) /\ Owns(c) /\ Removes(c) /\ ~Writes(c) /\ Holds(c) /\ Active(c) /\ ~Scans(c)
  BY <1>1, <1>2, <1>5, <1>6 DEF Sane, Active, Holds, Owns, HasField, Steps, kinds, Scans, Writes, Removes
<1>8. Calm => ThreadLive(c) /\ Points(c)
  BY <1>1, <1>2, <1>5, <1>6, <1>7 DEF ThreadLive, Points
<1>q. QED BY <1>1, <1>2, <1>3, <1>4, <1>6, <1>7, <1>8, ContinueKept

-----------------------------------------------------------------------------
(* An operation begins, or takes a lock *)
LEMMA BeginKept ==
  ASSUME HashInv, NEW t \in Threads, Begin(t)
  PROVE  HashInv'
<1>1. PICK op \in kinds, key \in Keys, all \in BOOLEAN, todo \in {Fields, {CHOOSE f \in Fields : TRUE}} :
         /\ op \in {"Read", "Scan", "Insert", "Delete"} => todo = Fields
         /\ thread' = [thread EXCEPT ![t] = [Idle EXCEPT !.at = "lookup", !.op = op, !.key = key, !.todo = todo,
                                                         !.all = all, !.n = begun + 1]]
         /\ raced' = raced \cup Overlaps(t, op, key)
  BY DEF Begin
<1> DEFINE v == [Idle EXCEPT !.at = "lookup", !.op = op, !.key = key, !.todo = todo, !.all = all, !.n = begun + 1]
<1>2. /\ thread[t].at = "idle" /\ begun' = begun + 1
      /\ UNCHANGED <<impl, keyTable, tables, strings, content, misuse>>
      /\ thread' = [thread EXCEPT ![t] = v] /\ thread \in [Threads -> Works] /\ begun \in Nat /\ misuse \in BOOLEAN
  BY <1>1 DEF Begin, HashInv, HashTypeOK
<1>3. todo \subseteq Fields /\ todo # {} /\ todo \in SUBSET Names BY HashtableAssumption DEF Names
<1>4. v \in Works /\ v.at = "lookup" /\ v.op = op /\ v.key = key /\ v.todo = todo /\ ~v.in
  <2> DEFINE m == begun + 1
  <2>1. m \in Nat BY <1>2
  <2> HIDE DEF m
  <2>2. v = [Idle EXCEPT !.at = "lookup", !.op = op, !.key = key, !.todo = todo, !.all = all, !.n = m]
    BY DEF m
  <2>3. Idle \in Works /\ ~Idle.in BY IdleType
  <2>4. op \in kinds \cup {"none"} /\ key \in Keys \cup {Nil} /\ all \in BOOLEAN /\ "lookup" \in Places
    BY DEF Places
  <2> HIDE DEF v
  <2>q. QED BY <1>3, <2>1, <2>2, <2>3, <2>4 DEF Works
<1> HIDE DEF v
<1>5. Moves(t, v) BY <1>2, <1>4 DEF Moves
<1>6. ~Owns(v) /\ ~Removes(v) /\ ~Writes(v) /\ ~Holds(v) /\ Active(v) /\ ~Scans(v)
  BY <1>4 DEF Owns, Removes, Writes, Holds, Active, Scans
<1>7. Sane(v, Len(tables), Len(strings)) BY <1>3, <1>4, <1>6 DEF Sane, Steps, kinds, HasField
<1>8. ThreadLive(v) /\ Points(v) BY <1>4, <1>6 DEF ThreadLive, Points
<1>9. Calm' => Calm BY <1>1, <1>2 DEF Calm, FreesUnder
<1>10. Calm => ~misuse' BY <1>2 DEF HashInv, HeapSound, Safe
<1>11. HashTypeOK' BY <1>2, <1>5 DEF HashInv, HashTypeOK, Moves
<1>12. InRange'
  <2>1. \A u \in Threads : Sane(thread'[u], Len(tables), Len(strings))
    BY <1>5, <1>7 DEF Moves, HashInv, InRange
  <2>q. QED BY <1>2, <2>1 DEF HashInv, InRange, Tables, Slot
<1>13. LocksHeld' BY <1>2, <1>4, <1>5, LocksKept DEF HashInv
<1>14. OverlapsRecorded'
  <2>1. ASSUME NEW u \in Threads, u # t, Overlap(v, thread[u]) PROVE {op, thread[u].op} \in raced'
    <3>1. u \in {x \in Threads \ {t} : thread[x].at # "idle" /\ ("Scan" \in {op, thread[x].op} \/ thread[x].key = key)}
      BY <2>1, <1>4 DEF Overlap, Active
    <3>2. {op, thread[u].op} \in Overlaps(t, op, key) BY <3>1 DEF Overlaps
    <3>q. QED BY <3>2, <1>1
  <2>2. ASSUME NEW u \in Threads, NEW x \in Threads, u # x, Overlap(thread'[u], thread'[x])
        PROVE  {thread'[u].op, thread'[x].op} \in raced'
    <3>1. CASE u # t /\ x # t
      <4>1. thread'[u] = thread[u] /\ thread'[x] = thread[x] BY <3>1, <1>5 DEF Moves
      <4>q. QED BY <4>1, <2>2, <1>1 DEF HashInv, OverlapsRecorded
    <3>2. CASE u = t
      <4>1. thread'[u] = v /\ thread'[x] = thread[x] BY <3>2, <2>2, <1>5 DEF Moves
      <4>q. QED BY <4>1, <3>2, <2>1, <2>2, <1>4
    <3>3. CASE x = t
      <4>1. thread'[x] = v /\ thread'[u] = thread[u] BY <3>3, <2>2, <1>5 DEF Moves
      <4>2. Overlap(v, thread[u]) BY <4>1, <2>2 DEF Overlap
      <4>3. {op, thread[u].op} \in raced' BY <4>2, <3>3, <2>1, <2>2
      <4>4. {op, thread[u].op} = {thread[u].op, op} OBVIOUS
      <4>q. QED BY <4>1, <4>3, <4>4, <1>4
    <3>q. QED BY <3>1, <3>2, <3>3
  <2>q. QED BY <2>2 DEF OverlapsRecorded, Overlap, Active
<1>15. HeapSound'
  BY <1>2, <1>4, <1>5, <1>6, <1>8, <1>9, <1>10, HeapKept DEF HashInv
<1>q. QED BY <1>11, <1>12, <1>13, <1>14, <1>15 DEF HashInv

LEMMA LockKept ==
  ASSUME HashInv, NEW t \in Threads, Lock(t)
  PROVE  HashInv'
<1> DEFINE w == thread[t]
           v == [w EXCEPT !.in = TRUE]
<1>1. /\ w \in Works /\ Sane(w, Len(tables), Len(strings)) /\ Active(w)
      /\ Calm => ~misuse /\ ThreadLive(w) /\ Points(w)
      /\ UNCHANGED <<impl, raced, begun, keyTable, tables, strings, misuse>>
      /\ thread' = [thread EXCEPT ![t] = v] /\ thread \in [Threads -> Works]
      /\ \A u \in Inside : Compatible(w, thread[u])
      /\ w.op \in kinds /\ w.key \in Keys
  BY ThreadFacts DEF Lock, Active, HashInv, HashTypeOK
<1>2. v \in Works /\ Alike(v, w) BY <1>1 DEF Works, Alike
<1>3. \A u : Compatible(v, u) <=> Compatible(w, u)
  BY <1>2 DEF Alike, Compatible, Place, Element, OnKeys, TableOp, Field
<1> HIDE DEF v
<1>4. Moves(t, v) BY <1>1, <1>2 DEF Moves
<1>5. /\ Active(v) <=> Active(w)
      /\ Writes(v) <=> Writes(w)
      /\ Owns(v) <=> Owns(w)
      /\ Removes(v) <=> Removes(w)
      /\ Sane(v, Len(tables), Len(strings))
      /\ ThreadLive(w) => ThreadLive(v)
      /\ Points(w) => Points(v)
  BY <1>1, <1>2, AlikeSame
<1>6. Removes(w) => Owns(w) BY <1>1 DEF Sane, Removes, Owns, Holds, Active, Steps, kinds
<1>7. HashTypeOK' BY <1>1, <1>4 DEF HashInv, HashTypeOK, Moves
<1>8. InRange'
  <2>1. \A u \in Threads : Sane(thread'[u], Len(tables), Len(strings))
    BY <1>4, <1>5 DEF Moves, HashInv, InRange
  <2>q. QED BY <1>1, <2>1 DEF HashInv, InRange, Tables, Slot
<1>9. LocksHeld'
  <2>1. ASSUME NEW u \in Threads, u # t, thread[u].in PROVE Compatible(v, thread[u]) /\ Compatible(thread[u], v)
    <3>1. Compatible(v, thread[u]) BY <1>1, <1>3, <2>1 DEF Inside
    <3>q. QED BY <3>1, CompatibleSymmetric
  <2>2. ASSUME NEW u \in Threads, NEW x \in Threads, u # x, thread'[u].in, thread'[x].in
        PROVE  Compatible(thread'[u], thread'[x])
    <3>1. CASE u # t /\ x # t
      <4>1. thread'[u] = thread[u] /\ thread'[x] = thread[x] BY <3>1, <1>4 DEF Moves
      <4>q. QED BY <4>1, <2>2 DEF HashInv, LocksHeld
    <3>2. CASE u = t
      <4>1. thread'[u] = v /\ thread'[x] = thread[x] BY <3>2, <2>2, <1>4 DEF Moves
      <4>q. QED BY <4>1, <3>2, <2>1, <2>2
    <3>3. CASE x = t
      <4>1. thread'[x] = v /\ thread'[u] = thread[u] BY <3>3, <2>2, <1>4 DEF Moves
      <4>q. QED BY <4>1, <3>3, <2>1, <2>2
    <3>q. QED BY <3>1, <3>2, <3>3
  <2>3. SUFFICES ASSUME NEW u \in Threads, NEW x \in Threads, u # x, thread'[u].in, thread'[x].in
                 PROVE  Compatible(thread[u], thread[x])'
    BY DEF LocksHeld
  <2>4. Compatible(thread'[u], thread'[x]) BY <2>2, <2>3
  <2>q. QED BY <2>4, <1>1 DEF Compatible, LockMode
<1>10. OverlapsRecorded' BY <1>1, <1>2, <1>4, OverlapsKept DEF HashInv, Alike
<1>11. HeapSound'
  <2>1. Calm' => Calm BY <1>1 DEF Calm, FreesUnder
  <2>2. Calm => ~misuse' /\ ThreadLive(v) /\ Points(v) BY <1>1, <1>5
  <2>3. v.table = w.table /\ v.key = w.key /\ v.string = w.string BY <1>2 DEF Alike
  <2>q. QED BY <1>1, <1>2, <1>4, <1>5, <1>6, <2>1, <2>2, <2>3, HeapKept DEF HashInv
<1>q. QED BY <1>7, <1>8, <1>9, <1>10, <1>11 DEF HashInv

-----------------------------------------------------------------------------
(* The steps that change the heap *)
LEMMA TableMade ==
  ASSUME HashInv, tables' = NewFieldHashtable
  PROVE  /\ tables' \in Seq(TableObjects) /\ Len(tables') = Len(tables) + 1
         /\ \A b \in Tables : tables'[b] = tables[b]
         /\ tables'[Len(tables) + 1].live
         /\ \A f \in Fields : tables'[Len(tables) + 1].fields[f] = Nil
<1> DEFINE fields == [f \in Fields |-> Nil]
           o == [live |-> TRUE, fields |-> fields]
<1>1. fields \in Texts BY DEF Texts, Nil
<1>2. \A f \in Fields : fields[f] = Nil OBVIOUS
<1> HIDE DEF fields
<1>3. o \in TableObjects /\ o.live /\ o.fields = fields BY <1>1 DEF TableObjects
<1>4. tables' = Append(tables, o) BY DEF NewFieldHashtable, fields
<1> HIDE DEF o
<1>5. tables \in Seq(TableObjects) BY DEF HashInv, HashTypeOK
<1>6. /\ tables' \in Seq(TableObjects) /\ Len(tables') = Len(tables) + 1
      /\ \A b \in 1..Len(tables) : tables'[b] = tables[b]
      /\ tables'[Len(tables) + 1] = o
  BY <1>3, <1>4, <1>5
<1>q. QED BY <1>2, <1>3, <1>6 DEF Tables

LEMMA FreshTableKept ==
  ASSUME HashInv, NEW t \in Threads, thread[t].at = "lookup", thread[t].op \in {"Update", "Insert"},
         tables' = NewFieldHashtable,
         Continue(t, [thread[t] EXCEPT !.table = Len(tables) + 1, !.at = "attach", !.fresh = TRUE]),
         UNCHANGED <<impl, raced, begun, keyTable, strings, misuse>>
  PROVE  HashInv'
<1> DEFINE w == thread[t]
           new == Len(tables) + 1
           c == [w EXCEPT !.table = new, !.at = "attach", !.fresh = TRUE]
<1>1. /\ w \in Works /\ Sane(w, Len(tables), Len(strings)) /\ Active(w) /\ w.op \in kinds /\ w.key \in Keys
      /\ Len(tables) \in Nat /\ Len(strings) \in Nat
  BY ThreadFacts DEF Active
<1>2. w.todo \subseteq Fields /\ w.todo # {} BY <1>1 DEF Sane, HasField, Active
<1>3. Continue(t, c) OBVIOUS
<1>4. new \in Nat /\ new \in 1..Len(tables') /\ new \notin 0..Len(tables) BY <1>1, TableMade
<1> HIDE DEF new
<1>5. /\ c \in Works /\ c.at = "attach" /\ c.op = w.op /\ c.key = w.key /\ c.table = new /\ c.todo = w.todo
  BY <1>1, <1>4 DEF Works, Places
<1> HIDE DEF c
<1>6. PICK v \in Works : /\ Moves(t, v) /\ v.at = c.at /\ ~v.in /\ v.op = c.op /\ v.key = c.key
                         /\ v.table = c.table /\ v.todo = c.todo /\ v.found = c.found /\ v.string = c.string
  BY <1>3, <1>5, ContinueMoves DEF HashInv, HashTypeOK
<1>7. Owns(v) /\ ~Removes(v) /\ ~Writes(v) /\ Holds(v) /\ ~Scans(v) /\ Active(v) /\ v.table = new
  BY <1>5, <1>6 DEF Owns, Removes, Writes, Holds, Scans, Active
<1>8. Sane(v, Len(tables'), Len(strings'))
  BY <1>1, <1>2, <1>4, <1>5, <1>6, <1>7 DEF Sane, Steps, kinds
<1>9. /\ tables' \in Seq(TableObjects) /\ Len(tables') = Len(tables) + 1
      /\ \A b \in Tables : tables'[b] = tables[b]
      /\ tables'[new].live /\ \A f \in Fields : tables'[new].fields[f] = Nil
      /\ \A b \in 1..Len(tables') : b \in Tables \/ b = new
  BY <1>1, TableMade DEF new, Tables
<1>10. /\ \A k \in Keys : keyTable[k] \in 0..Len(tables) /\ (keyTable[k] # Nil => keyTable[k] \in Tables)
       /\ \A b \in Tables, f \in Fields : Slot(b, f) \in 0..Len(strings)
       /\ \A u \in Threads : /\ Holds(thread[u]) => thread[u].table \in Tables
                             /\ Scans(thread[u]) => thread[u].todo \subseteq Tables
  BY <1>1 DEF HashInv, InRange, Sane, Tables, Nil
<1>11. new \notin Tables BY <1>1, <1>4 DEF Tables
<1>12. KeysApart'
  <2>1. \A u \in Threads : u # t => (Owns(thread[u]) => thread[u].table # new) BY <1>10, <1>11 DEF Owns
  <2>2. \A k \in Keys : keyTable[k] # new BY <1>4, <1>10
  <2>3. KeysApart BY DEF HashInv, HeapSound
  <2>q. QED BY <1>6, <1>7, <2>1, <2>2, <2>3 DEF KeysApart, Moves
<1>13. StringsApart'
  <2>1. \A b, d \in Tables', f, g \in Fields :
           (Slot(b, f)' = Slot(d, g)' /\ Slot(b, f)' # Nil) => (b = d /\ f = g)
    BY <1>9 DEF HashInv, HeapSound, StringsApart, Slot, Tables
  <2>2. ASSUME NEW u \in Threads, NEW b \in Tables', NEW f \in Fields, Writes(thread'[u])
        PROVE  Slot(b, f)' # thread'[u].string
    <3>1. u # t /\ thread'[u] = thread[u] BY <2>2, <1>6, <1>7 DEF Moves
    <3>2. CASE b \in Tables
      BY <2>2, <3>1, <3>2, <1>9 DEF HashInv, HeapSound, StringsApart, Slot
    <3>3. CASE b = new
      BY <2>2, <3>1, <3>3, <1>9 DEF HashInv, InRange, Sane, Slot, Nil
    <3>q. QED BY <1>9, <3>2, <3>3 DEF Tables
  <2>3. \A u, x \in Threads : (Writes(thread'[u]) /\ Writes(thread'[x]) /\ thread'[u].string = thread'[x].string) => u = x
    BY <1>6, <1>7 DEF Moves, HashInv, HeapSound, StringsApart
  <2>q. QED BY <2>1, <2>2, <2>3 DEF StringsApart
<1>14. ASSUME Calm' PROVE Safe'
  <2>1. Calm /\ Safe /\ ~misuse' BY <1>14 DEF Calm, FreesUnder, HashInv, HeapSound, Safe
  <2>2. \A u \in Threads : u # t => thread'[u] = thread[u] BY <1>6 DEF Moves
  <2>3. thread'[t] = v BY <1>6 DEF Moves
  <2>4. Detached'
    <3>1. \A u \in Threads, k \in Keys : Removes(thread'[u]) => keyTable'[k] # thread'[u].table
      BY <2>1, <2>2, <2>3, <1>7 DEF Safe, Detached
    <3>2. ASSUME NEW u \in Threads, NEW x \in Threads, Removes(thread'[u]), Owns(thread'[x]), u # x
          PROVE  thread'[x].table # thread'[u].table
      <4>1. u # t /\ Removes(thread[u]) BY <3>2, <2>2, <2>3, <1>7
      <4>2. Holds(thread[u]) BY <4>1 DEF Removes, Holds
      <4>3. CASE x # t BY <3>2, <4>1, <4>3, <2>1, <2>2 DEF Safe, Detached
      <4>4. CASE x = t BY <4>1, <4>2, <4>4, <2>2, <2>3, <1>7, <1>10, <1>11
      <4>q. QED BY <4>3, <4>4
    <3>q. QED BY <3>1, <3>2 DEF Detached
  <2>5. AllLive'
    <3>1. \A k \in Keys : keyTable[k] # Nil => tables'[keyTable[k]].live
      BY <2>1, <1>9, <1>10 DEF Safe, AllLive, LiveTable
    <3>2. \A b \in Tables', f \in Fields : (LiveTable(b)' /\ Slot(b, f)' # Nil) => LiveString(Slot(b, f))'
      BY <2>1, <1>9 DEF Safe, AllLive, LiveTable, LiveString, Slot, Tables
    <3>3. ASSUME NEW u \in Threads, u # t PROVE ThreadLive(thread[u])'
      <4>1. ThreadLive(thread[u]) BY <2>1 DEF Safe, AllLive
      <4>q. QED BY <3>3, <4>1, <2>2, <1>9, <1>10 DEF ThreadLive, LiveTable, LiveString
    <3>4. ThreadLive(thread[t])' BY <2>3, <1>7, <1>9 DEF ThreadLive, LiveTable
    <3>q. QED BY <3>1, <3>2, <3>3, <3>4 DEF AllLive, LiveTable
  <2>6. \A u \in Threads : Points(thread[u])'
    <3>1. ASSUME NEW u \in Threads, u # t PROVE Points(thread[u])'
      <4>1. Points(thread[u]) BY <2>1 DEF Safe
      <4>2. thread[u].at \in {"follow", "followall", "delete"} => thread[u].table \in Tables
        BY <1>10 DEF Holds
      <4>q. QED BY <4>1, <4>2, <3>1, <2>2, <1>9 DEF Points, Slot
    <3>2. Points(thread[t])' BY <1>5, <1>6, <2>3 DEF Points
    <3>q. QED BY <3>1, <3>2
  <2>q. QED BY <2>1, <2>4, <2>5, <2>6 DEF Safe
<1>15. HeapSound' BY <1>12, <1>13, <1>14 DEF HeapSound
<1>16. /\ \A k \in Keys : keyTable'[k] \in 0..Len(tables')
       /\ \A b \in 1..Len(tables'), f \in Fields : tables'[b].fields[f] \in 0..Len(strings')
  <2>1. 0..Len(tables) \subseteq 0..Len(tables') BY <1>1, <1>9
  <2>2. Nil \in 0..Len(strings) BY <1>1 DEF Nil
  <2>q. QED BY <1>9, <1>10, <2>1, <2>2 DEF Slot
<1>q. QED BY <1>1, <1>5, <1>6, <1>8, <1>9, <1>15, <1>16, StepKept DEF HashInv, HashTypeOK

LEMMA GetTableKept ==
  ASSUME HashInv, NEW t \in Threads, GetTable(t)
  PROVE  HashInv'
<1> DEFINE w == [thread[t] EXCEPT !.table = Get(keyTable, thread[t].key)]
           k == thread[t].key
           place == CASE w.op = "Read" -> IF w.all THEN "entries" ELSE "get"
                      [] w.op = "Update" -> "copy" [] w.op = "Insert" -> "copy"
           c == [w EXCEPT !.at = place]
<1>1. /\ thread[t] \in Works /\ Sane(thread[t], Len(tables), Len(strings)) /\ thread[t].at = "lookup"
      /\ thread[t].op \in {"Read", "Update", "Insert"} /\ Active(thread[t]) /\ k \in Keys
      /\ Calm => ~misuse
      /\ UNCHANGED <<impl, raced, begun, keyTable, strings, misuse>>
  BY ThreadFacts DEF GetTable, At, Rest, Active
<1>2. thread[t].todo \subseteq Fields /\ thread[t].todo # {} BY <1>1 DEF Sane, HasField, Active
<1>3. keyTable[k] \in Nat /\ keyTable[k] \in 0..Len(tables) /\ misuse \in BOOLEAN
  BY <1>1 DEF HashInv, HashTypeOK, InRange
<1>4. w \in Works /\ w.table = keyTable[k] /\ w.op = thread[t].op /\ w.key = k /\ w.todo = thread[t].todo
  BY <1>1, <1>3 DEF Works, Get
<1>5. CASE w.table # Nil /\ Continue(t, [w EXCEPT !.at = place]) /\ UNCHANGED tables
  <2>1. place \in {"entries", "get", "copy"} BY <1>1, <1>4
  <2>2. w.op = "Read" => place \in {"entries", "get"} BY <1>1, <1>4
  <2>3. w.op # "Read" => place = "copy" BY <1>1, <1>4
  <2> HIDE DEF place
  <2>4. place \in Places BY <2>1 DEF Places
  <2>5. Continue(t, c) BY <1>5
  <2> HIDE DEF w
  <2>6. /\ c \in Works /\ c.at = place /\ c.op = w.op /\ c.key = k /\ c.table = w.table /\ c.todo = w.todo
    BY <1>4, <2>4 DEF Works
  <2> HIDE DEF c
  <2>7. Owns(c) /\ ~Removes(c) /\ ~Writes(c) /\ Holds(c) /\ ~Scans(c) /\ Active(c)
    BY <2>1, <2>6, <1>1, <1>4 DEF Owns, Removes, Writes, Holds, Scans, Active
  <2>8. c.table \in 1..Len(tables) BY <1>3, <1>4, <1>5, <2>6 DEF Nil
  <2>9. Sane(c, Len(tables), Len(strings))
    BY <1>1, <1>2, <1>4, <2>1, <2>2, <2>3, <2>6, <2>7, <2>8 DEF Sane, Steps, kinds
  <2>10. Calm => ThreadLive(c) /\ Points(c)
    <3>1. Calm => LiveTable(keyTable[k]) BY <1>1, <1>4, <1>5 DEF HashInv, HeapSound, Safe, AllLive
    <3>q. QED BY <3>1, <1>4, <2>1, <2>6, <2>7 DEF ThreadLive, Points
  <2>q. QED BY <1>1, <1>3, <1>4, <1>5, <2>5, <2>6, <2>7, <2>9, <2>10, ContinueKept
<1>6. CASE w.op = "Read" /\ Return(t, w) /\ UNCHANGED tables
  BY <1>1, <1>3, <1>4, <1>6, IdleKept
<1>7. CASE /\ w.op # "Read" /\ tables' = NewFieldHashtable
           /\ Continue(t, [w EXCEPT !.at = "attach", !.table = Len(tables) + 1, !.fresh = TRUE])
  <2> DEFINE u == thread[t]
             new == Len(tables) + 1
  <2>1. [w EXCEPT !.at = "attach", !.table = new, !.fresh = TRUE]
          = [u EXCEPT !.table = new, !.at = "attach", !.fresh = TRUE]
    BY <1>1 DEF Works
  <2>2. Continue(t, [u EXCEPT !.table = new, !.at = "attach", !.fresh = TRUE])
    BY <1>7, <2>1
  <2>q. QED BY <1>1, <1>4, <1>7, <2>2, FreshTableKept
<1>q. QED BY <1>5, <1>6, <1>7 DEF GetTable

(* When the overlaps are calm, a key whose text has been freed is looked    *)
(* for by nobody, or by a Delete that waits for the whole table.            *)
LEMMA TextHeld ==
  ASSUME HashInv, Calm, NEW t \in Threads, NEW u \in Threads, u # t, Active(thread[t]),
         thread[u].at = "erase", thread[u].key = thread[t].key
  PROVE  thread[t].op = "Delete" /\ impl # "tbb_rand"
<1>1. Active(thread[u]) /\ thread[u].op = "Delete"
  <2>1. Active(thread[u]) BY DEF Active
  <2>2. Sane(thread[u], Len(tables), Len(strings)) BY ThreadFacts
  <2>q. QED BY <2>1, <2>2 DEF Sane, Steps, kinds
<1>2. Overlap(thread[t], thread[u]) BY <1>1 DEF Overlap
<1>3. {thread[t].op, "Delete"} \in raced BY <1>1, <1>2 DEF HashInv, OverlapsRecorded
<1>4. ~FreesUnder({thread[t].op, "Delete"}) BY <1>3 DEF Calm
<1>q. QED BY <1>4 DEF FreesUnder

LEMMA AttachKept ==
  ASSUME HashInv, NEW t \in Threads, Attach(t)
  PROVE  HashInv'
<1> DEFINE w == thread[t]
           k == w.key
           b == w.table
           c == [w EXCEPT !.at = "copy"]
<1>1. /\ w \in Works /\ Sane(w, Len(tables), Len(strings)) /\ w.at = "attach" /\ Active(w) /\ k \in Keys
      /\ w.op \in kinds
      /\ Calm => ~misuse /\ ThreadLive(w)
      /\ UNCHANGED <<impl, raced, begun, tables, strings>>
      /\ keyTable' = TableInsert(keyTable, k, b) /\ Continue(t, c)
      /\ misuse' = (misuse \/ TextFreed(k))
  BY ThreadFacts DEF Attach, At, Rest, Active
<1>2. /\ w.op \in {"Update", "Insert"} /\ Owns(w) /\ Holds(w) /\ b \in 1..Len(tables)
      /\ w.todo \subseteq Fields /\ w.todo # {}
  BY <1>1 DEF Sane, HasField, Active, Owns, Holds, Steps, kinds
<1>3. keyTable \in [Keys -> Nat] /\ misuse \in BOOLEAN /\ b \in Nat /\ b # Nil
  BY <1>1, <1>2 DEF HashInv, HashTypeOK, Works, Nil
<1>10. misuse' \in BOOLEAN /\ (Calm => ~misuse')
  <2>1. ASSUME Calm PROVE ~TextFreed(k)
    <3>1. SUFFICES ASSUME NEW u \in Threads, thread[u].at = "erase", thread[u].key = k PROVE FALSE
      BY DEF TextFreed
    <3>2. u # t BY <3>1, <1>1
    <3>3. w.op = "Delete" BY <2>1, <3>1, <3>2, <1>1, TextHeld
    <3>q. QED BY <3>3, <1>2
  <2>2. TextFreed(k) \in BOOLEAN BY DEF TextFreed
  <2>q. QED BY <2>1, <2>2, <1>1, <1>3
<1>4. /\ c \in Works /\ c.at = "copy" /\ c.op = w.op /\ c.key = k /\ c.table = b /\ c.todo = w.todo
  BY <1>1 DEF Works, Places
<1> HIDE DEF c
<1>5. Owns(c) /\ ~Removes(c) /\ ~Writes(c) /\ Holds(c) /\ ~Scans(c) /\ Active(c)
  BY <1>2, <1>4 DEF Owns, Removes, Writes, Holds, Scans, Active
<1>6. Sane(c, Len(tables), Len(strings)) BY <1>2, <1>4, <1>5, <1>1 DEF Sane, Steps, kinds
<1>7. Calm => ThreadLive(c) /\ Points(c) BY <1>1, <1>2, <1>4, <1>5 DEF ThreadLive, Points
<1>8. CASE keyTable[k] # Nil
  <2>1. UNCHANGED keyTable BY <1>1, <1>8 DEF TableInsert
  <2>q. QED BY <2>1, <1>1, <1>2, <1>4, <1>5, <1>6, <1>7, <1>10, ContinueKept
<1>9. CASE keyTable[k] = Nil
  <2>1. keyTable' \in [Keys -> Nat] /\ keyTable'[k] = b /\ \A j \in Keys : j # k => keyTable'[j] = keyTable[j]
    BY <1>1, <1>3, <1>9 DEF TableInsert
  <2>2. PICK v \in Works : /\ Moves(t, v) /\ v.at = c.at /\ ~v.in /\ v.op = c.op /\ v.key = c.key
                           /\ v.table = c.table /\ v.todo = c.todo /\ v.found = c.found /\ v.string = c.string
    BY <1>1, <1>4, ContinueMoves DEF HashInv, HashTypeOK
  <2>3. Alike(v, c) BY <2>2 DEF Alike
  <2>4. /\ Owns(v) /\ ~Removes(v) /\ ~Writes(v) /\ Active(v) /\ Sane(v, Len(tables), Len(strings))
        /\ Calm => ThreadLive(v) /\ Points(v)
        /\ v.table = b /\ v.key = k /\ v.op = w.op
    BY <2>2, <2>3, <1>4, <1>5, <1>6, <1>7, AlikeSame
  <2>5. thread'[t] = v /\ \A u \in Threads : u # t => thread'[u] = thread[u] BY <2>2 DEF Moves
  <2>6. KeysApart'
    <3>1. KeysApart BY DEF HashInv, HeapSound
    <3>2. \A j \in Keys : keyTable[j] = b => j = k BY <3>1, <1>2 DEF KeysApart
    <3>3. \A u \in Threads : (Owns(thread[u]) /\ thread[u].table = b) => thread[u].key = k
      BY <3>1, <1>2 DEF KeysApart
    <3>4. \A i, j \in Keys : (keyTable'[i] = keyTable'[j] /\ keyTable'[j] # Nil) => i = j
      BY <3>1, <3>2, <2>1 DEF KeysApart
    <3>5. \A u \in Threads, j \in Keys : (Owns(thread'[u]) /\ keyTable'[j] = thread'[u].table) => j = thread'[u].key
      BY <3>1, <3>2, <3>3, <2>1, <2>4, <2>5 DEF KeysApart
    <3>6. \A u, x \in Threads : (Owns(thread'[u]) /\ Owns(thread'[x]) /\ thread'[u].table = thread'[x].table)
                                   => thread'[u].key = thread'[x].key
      BY <3>1, <3>3, <2>4, <2>5 DEF KeysApart
    <3>q. QED BY <3>4, <3>5, <3>6 DEF KeysApart
  <2>7. StringsApart'
    BY <1>1, <2>4, <2>5 DEF HashInv, HeapSound, StringsApart, Tables, Slot
  <2>8. ASSUME Calm' PROVE Safe'
    <3>1. Calm /\ Safe /\ ~misuse' BY <2>8, <1>1, <1>10 DEF Calm, FreesUnder, HashInv, HeapSound, Safe
    <3>2. Detached'
      BY <3>1, <1>2, <2>1, <2>4, <2>5 DEF Safe, Detached
    <3>3. \A u \in Threads : ThreadLive(thread'[u]) /\ Points(thread'[u])
      BY <3>1, <2>4, <2>5 DEF Safe, AllLive
    <3>4. LiveTable(b) BY <3>1, <1>1, <1>2 DEF ThreadLive
    <3>5. AllLive'
      BY <3>1, <3>3, <3>4, <1>1, <2>1 DEF Safe, AllLive, ThreadLive, LiveTable, LiveString, Slot, Tables
    <3>6. \A u \in Threads : Points(thread[u])' BY <3>3, <1>1 DEF Points, Slot
    <3>q. QED BY <3>1, <3>2, <3>5, <3>6 DEF Safe
  <2>9. HeapSound' BY <2>6, <2>7, <2>8 DEF HeapSound
  <2>10. /\ \A j \in Keys : keyTable'[j] \in 0..Len(tables')
         /\ \A d \in 1..Len(tables'), f \in Fields : tables'[d].fields[f] \in 0..Len(strings')
    BY <1>1, <1>2, <2>1 DEF HashInv, InRange, Tables, Slot
  <2>11. /\ ~v.in /\ Len(tables) <= Len(tables') /\ Len(strings) <= Len(strings')
         /\ tables' \in Seq(TableObjects) /\ strings' \in Seq(StringObjects) /\ misuse' \in BOOLEAN
         /\ Sane(v, Len(tables'), Len(strings'))
    BY <1>1, <1>3, <1>10, <2>2, <2>4 DEF HashInv, HashTypeOK
  <2>q. QED BY <1>1, <2>1, <2>2, <2>4, <2>9, <2>10, <2>11, StepKept
<1>q. QED BY <1>8, <1>9

LEMMA CopyValueKept ==
  ASSUME HashInv, NEW t \in Threads, CopyValue(t)
  PROVE  HashInv'
<1> DEFINE w == thread[t]
           b == w.table
           new == Len(strings) + 1
           o == [live |-> TRUE, field |-> Field(w), text |-> w.n]
           place == IF w.op = "Update" /\ ~w.fresh THEN "replace" ELSE "insert"
           c == [w EXCEPT !.string = new, !.at = place]
<1>1. /\ w \in Works /\ Sane(w, Len(tables), Len(strings)) /\ w.at = "copy" /\ Active(w) /\ w.key \in Keys
      /\ w.op \in kinds /\ Len(strings) \in Nat
      /\ Calm => ~misuse /\ ThreadLive(w)
      /\ UNCHANGED <<impl, raced, begun, keyTable, tables, misuse>>
      /\ strings' = Append(strings, o) /\ Continue(t, c)
  BY ThreadFacts DEF CopyValue, CopyString, Rest, Active
<1>2. /\ w.op \in {"Update", "Insert"} /\ Owns(w) /\ Holds(w) /\ b \in 1..Len(tables)
      /\ w.todo \subseteq Fields /\ w.todo # {}
  BY <1>1 DEF Sane, HasField, Active, Owns, Holds, Steps, kinds
<1>3. Field(w) \in Fields /\ w.n \in Nat /\ misuse \in BOOLEAN /\ strings \in Seq(StringObjects)
  BY <1>1, <1>2 DEF Field, Works, HashInv, HashTypeOK
<1>4. place \in {"replace", "insert"} /\ (w.op = "Insert" => place = "insert") /\ place \in Places
  BY DEF Places
<1> HIDE DEF place
<1>5. o \in StringObjects /\ o.live BY <1>3 DEF StringObjects
<1> HIDE DEF o
<1>6. /\ strings' \in Seq(StringObjects) /\ Len(strings') = new /\ new \in Nat
      /\ \A s \in Strings : strings'[s] = strings[s]
      /\ strings'[new] = o /\ new \notin 0..Len(strings) /\ new \in 1..Len(strings')
      /\ Len(strings) <= Len(strings') /\ 0..Len(strings) \subseteq 0..Len(strings')
  BY <1>1, <1>3, <1>5 DEF Strings
<1> HIDE DEF new
<1>7. /\ c \in Works /\ c.at = place /\ c.op = w.op /\ c.key = w.key /\ c.table = b /\ c.todo = w.todo /\ c.string = new
  BY <1>1, <1>4, <1>6 DEF Works
<1> HIDE DEF c
<1>8. PICK v \in Works : /\ Moves(t, v) /\ v.at = c.at /\ ~v.in /\ v.op = c.op /\ v.key = c.key
                         /\ v.table = c.table /\ v.todo = c.todo /\ v.found = c.found /\ v.string = c.string
  BY <1>1, <1>7, ContinueMoves DEF HashInv, HashTypeOK
<1>9. /\ Owns(v) /\ ~Removes(v) /\ Writes(v) /\ Holds(v) /\ ~Scans(v) /\ Active(v)
      /\ v.table = b /\ v.key = w.key /\ v.string = new /\ v.op = w.op
      /\ v.at \notin {"follow", "followall", "delete"}
  BY <1>2, <1>4, <1>7, <1>8 DEF Owns, Removes, Writes, Holds, Scans, Active
<1>10. Sane(v, Len(tables'), Len(strings'))
  BY <1>1, <1>2, <1>4, <1>6, <1>7, <1>8, <1>9 DEF Sane, Steps, kinds
<1>11. thread'[t] = v /\ \A u \in Threads : u # t => thread'[u] = thread[u] BY <1>8 DEF Moves
<1>12. /\ \A d \in Tables, f \in Fields : Slot(d, f) \in 0..Len(strings) /\ (Slot(d, f) # Nil => Slot(d, f) \in Strings)
       /\ \A u \in Threads : Writes(thread[u]) => thread[u].string \in Strings
  BY <1>1 DEF HashInv, InRange, Sane, Strings, Nil
<1>13. new \notin Strings /\ \A d \in Tables, f \in Fields : Slot(d, f) # new
  BY <1>6, <1>12 DEF Strings
<1>14. KeysApart'
  BY <1>1, <1>2, <1>9, <1>11 DEF HashInv, HeapSound, KeysApart
<1>15. StringsApart'
  <2>1. StringsApart /\ Tables' = Tables BY <1>1 DEF HashInv, HeapSound, Tables
  <2>2. \A d \in Tables, f \in Fields : Slot(d, f)' = Slot(d, f) BY <1>1 DEF Slot
  <2>3. \A u \in Threads, d \in Tables, f \in Fields : Writes(thread'[u]) => Slot(d, f) # thread'[u].string
    BY <2>1, <1>9, <1>11, <1>13 DEF StringsApart
  <2>4. \A u, x \in Threads : (Writes(thread'[u]) /\ Writes(thread'[x]) /\ thread'[u].string = thread'[x].string) => u = x
    BY <2>1, <1>9, <1>11, <1>12, <1>13 DEF StringsApart
  <2>q. QED BY <2>1, <2>2, <2>3, <2>4 DEF StringsApart
<1>16. ASSUME Calm' PROVE Safe'
  <2>1. Calm /\ Safe /\ ~misuse' BY <1>16, <1>1 DEF Calm, FreesUnder, HashInv, HeapSound, Safe
  <2>2. Detached' BY <2>1, <1>1, <1>2, <1>9, <1>11 DEF Safe, Detached
  <2>3. ASSUME NEW u \in Threads, u # t PROVE ThreadLive(thread[u])'
    <3>1. ThreadLive(thread[u]) BY <2>1 DEF Safe, AllLive
    <3>q. QED BY <2>3, <3>1, <1>1, <1>6, <1>11, <1>12 DEF ThreadLive, LiveTable, LiveString
  <2>4. ThreadLive(thread[t])'
    <3>1. tables[b].live BY <2>1, <1>1, <1>2 DEF ThreadLive, LiveTable
    <3>2. strings'[new].live BY <1>5, <1>6
    <3>q. QED BY <3>1, <3>2, <1>1, <1>9, <1>11 DEF ThreadLive, LiveTable, LiveString
  <2>5. \A k \in Keys : keyTable[k] # Nil => tables'[keyTable[k]].live
    BY <2>1, <1>1 DEF Safe, AllLive, LiveTable
  <2>6. \A d \in Tables', f \in Fields : (LiveTable(d)' /\ Slot(d, f)' # Nil) => LiveString(Slot(d, f))'
    BY <2>1, <1>1, <1>6, <1>12 DEF Safe, AllLive, LiveTable, LiveString, Slot, Tables
  <2>7. AllLive' BY <2>3, <2>4, <2>5, <2>6, <1>1 DEF AllLive, LiveTable
  <2>8. \A u \in Threads : Points(thread[u])'
    BY <2>1, <1>1, <1>9, <1>11 DEF Safe, Points, Slot
  <2>q. QED BY <2>1, <2>2, <2>7, <2>8 DEF Safe
<1>17. HeapSound' BY <1>14, <1>15, <1>16 DEF HeapSound
<1>18. /\ \A k \in Keys : keyTable'[k] \in 0..Len(tables')
       /\ \A d \in 1..Len(tables'), f \in Fields : tables'[d].fields[f] \in 0..Len(strings')
       /\ keyTable' \in [Keys -> Nat] /\ tables' \in Seq(TableObjects) /\ Len(tables) <= Len(tables')
       /\ misuse' \in BOOLEAN
  BY <1>1, <1>3, <1>6, <1>12 DEF HashInv, HashTypeOK, InRange, Tables, Slot
<1>q. QED BY <1>1, <1>6, <1>8, <1>9, <1>10, <1>17, <1>18, StepKept

(* A thread that has returned holds nothing.                                *)
LEMMA IdleFacts ==
  ASSUME NEW v, v.at = "idle", NEW a, NEW b
  PROVE  /\ ~Active(v) /\ ~Holds(v) /\ ~Writes(v) /\ ~Scans(v) /\ ~HasField(v) /\ ~Owns(v) /\ ~Removes(v)
         /\ v.at \notin {"follow", "followall", "delete"}
         /\ Sane(v, a, b) /\ ThreadLive(v) /\ Points(v)
<1>1. /\ ~Active(v) /\ ~Holds(v) /\ ~Writes(v) /\ ~Scans(v) /\ ~HasField(v) /\ ~Owns(v) /\ ~Removes(v)
      /\ v.at \notin {"follow", "followall", "delete"}
  BY DEF Active, Holds, Writes, Scans, HasField, Owns, Removes
<1>q. QED BY <1>1 DEF Sane, ThreadLive, Points

LEMMA RemoveKeyKept ==
  ASSUME HashInv, NEW t \in Threads, RemoveKey(t)
  PROVE  HashInv'
<1> DEFINE w == [thread[t] EXCEPT !.table = Get(keyTable, thread[t].key)]
           k == thread[t].key
           b == keyTable[k]
           c == [w EXCEPT !.at = "dismantle"]
<1>1. /\ thread[t] \in Works /\ Sane(thread[t], Len(tables), Len(strings)) /\ thread[t].at \in {"lookup", "erase"}
      /\ thread[t].op = "Delete" /\ Active(thread[t]) /\ k \in Keys
      /\ Calm => ~misuse
      /\ UNCHANGED <<impl, raced, begun, tables, strings, misuse>>
      /\ keyTable' = RemoveEntry(keyTable, k)
      /\ IF w.table = Nil THEN Return(t, w) ELSE Continue(t, c)
  BY ThreadFacts DEF RemoveKey, At, Rest, Active
<1>2. thread[t].todo \subseteq Fields BY <1>1 DEF Sane, Active
<1>3. b \in Nat /\ b \in 0..Len(tables) /\ misuse \in BOOLEAN /\ keyTable \in [Keys -> Nat]
  BY <1>1 DEF HashInv, HashTypeOK, InRange
<1>4. w \in Works /\ w.table = b /\ w.op = "Delete" /\ w.key = k /\ w.todo = thread[t].todo
  BY <1>1, <1>3 DEF Works, Get
<1>5. keyTable' \in [Keys -> Nat] /\ keyTable'[k] = Nil /\ \A j \in Keys : j # k => keyTable'[j] = keyTable[j]
  BY <1>1, <1>3 DEF RemoveEntry, Nil
<1>6. CASE b = Nil
  <2>1. UNCHANGED keyTable BY <1>1, <1>3, <1>6 DEF RemoveEntry
  <2>q. QED BY <2>1, <1>1, <1>3, <1>4, <1>6, IdleKept
<1>7. CASE b # Nil
  <2>1. Continue(t, c) BY <1>1, <1>4, <1>7
  <2> HIDE DEF w
  <2>2. /\ c \in Works /\ c.at = "dismantle" /\ c.op = "Delete" /\ c.key = k /\ c.table = b /\ c.todo = thread[t].todo
    BY <1>4 DEF Works, Places
  <2> HIDE DEF c
  <2>3. PICK v \in Works : /\ Moves(t, v) /\ v.at = c.at /\ ~v.in /\ v.op = c.op /\ v.key = c.key
                           /\ v.table = c.table /\ v.todo = c.todo /\ v.found = c.found /\ v.string = c.string
    BY <2>1, <2>2, ContinueMoves DEF HashInv, HashTypeOK
  <2>4. /\ Owns(v) /\ Removes(v) /\ ~Writes(v) /\ Holds(v) /\ ~Scans(v) /\ Active(v)
        /\ v.table = b /\ v.key = k /\ v.op = "Delete"
        /\ v.at \notin {"follow", "followall", "delete"}
    BY <2>2, <2>3 DEF Owns, Removes, Writes, Holds, Scans, Active
  <2>5. b \in 1..Len(tables) BY <1>3, <1>7 DEF Nil
  <2>6. Sane(v, Len(tables'), Len(strings'))
    BY <1>1, <1>2, <2>2, <2>3, <2>4, <2>5 DEF Sane, Steps, kinds, HasField
  <2>7. thread'[t] = v /\ \A u \in Threads : u # t => thread'[u] = thread[u] BY <2>3 DEF Moves
  <2>8. \A j \in Keys : keyTable'[j] # b /\ (keyTable'[j] # Nil => keyTable'[j] = keyTable[j])
    BY <1>1, <1>5, <1>7 DEF HashInv, HeapSound, KeysApart
  <2>9. \A u \in Threads : (Owns(thread[u]) /\ thread[u].table = b) => thread[u].key = k
    BY <1>1 DEF HashInv, HeapSound, KeysApart
  <2>10. KeysApart'
    <3>1. KeysApart BY DEF HashInv, HeapSound
    <3>2. \A i, j \in Keys : (keyTable'[i] = keyTable'[j] /\ keyTable'[j] # Nil) => i = j
      BY <3>1, <2>8 DEF KeysApart
    <3>3. ASSUME NEW u \in Threads, NEW j \in Keys, Owns(thread'[u]), keyTable'[j] = thread'[u].table
          PROVE  j = thread'[u].key
      <4>1. u # t BY <3>3, <2>4, <2>7, <2>8
      <4>2. thread'[u].table # Nil
        BY <3>3, <4>1, <2>7 DEF HashInv, InRange, Sane, Owns, Nil
      <4>3. keyTable[j] = thread[u].table BY <3>3, <4>1, <4>2, <2>7, <2>8
      <4>q. QED BY <3>1, <3>3, <4>1, <4>3, <2>7 DEF KeysApart
    <3>4. \A u, x \in Threads : (Owns(thread'[u]) /\ Owns(thread'[x]) /\ thread'[u].table = thread'[x].table)
                                   => thread'[u].key = thread'[x].key
      BY <3>1, <2>9, <2>4, <2>7 DEF KeysApart
    <3>q. QED BY <3>2, <3>3, <3>4 DEF KeysApart
  <2>11. StringsApart'
    BY <1>1, <2>4, <2>7 DEF HashInv, HeapSound, StringsApart, Tables, Slot
  <2>12. ASSUME Calm' PROVE Safe'
    <3>1. Calm /\ Safe /\ ~misuse' BY <2>12, <1>1 DEF Calm, FreesUnder, HashInv, HeapSound, Safe
    <3>2. ASSUME NEW u \in Threads, u # t, Owns(thread[u]), thread[u].table = b PROVE FALSE
      <4>1. thread[u].key = k /\ Active(thread[u]) /\ thread[u].op \in kinds
        BY <3>2, <2>9, ThreadFacts DEF Owns, Holds, Active
      <4>2. {"Delete", thread[u].op} \in raced
        <5>1. Overlap(thread[t], thread[u]) BY <4>1, <1>1 DEF Overlap
        <5>q. QED BY <5>1, <3>2, <1>1 DEF HashInv, OverlapsRecorded
      <4>3. thread[u].op = "Delete"
        <5>1. ~FreesUnder({"Delete", thread[u].op}) BY <3>1, <4>2 DEF Calm
        <5>q. QED BY <5>1 DEF FreesUnder
      <4>4. Removes(thread[u])
        BY <3>2, <4>1, <4>3, ThreadFacts DEF Sane, Owns, Holds, Removes, Steps
      <4>q. QED BY <4>4, <3>1, <3>2, <1>1 DEF Safe, Detached
    <3>3. Detached'
      <4>1. \A u \in Threads, j \in Keys : Removes(thread'[u]) => keyTable'[j] # thread'[u].table
        <5>1. ASSUME NEW u \in Threads, NEW j \in Keys, Removes(thread'[u]), u # t
              PROVE  keyTable'[j] # thread'[u].table
          <6>1. thread'[u].table # Nil
            BY <5>1, <2>7 DEF HashInv, InRange, Sane, Removes, Holds, Nil
          <6>q. QED BY <5>1, <6>1, <3>1, <2>7, <2>8 DEF Safe, Detached
        <5>q. QED BY <5>1, <2>4, <2>7, <2>8
      <4>2. ASSUME NEW u \in Threads, NEW x \in Threads, Removes(thread'[u]), Owns(thread'[x]), u # x
            PROVE  thread'[x].table # thread'[u].table
        <5>1. CASE u # t /\ x # t BY <5>1, <4>2, <3>1, <2>7 DEF Safe, Detached
        <5>2. CASE u = t BY <5>2, <4>2, <3>2, <2>4, <2>7
        <5>3. CASE x = t BY <5>3, <4>2, <3>1, <2>4, <2>7, <1>1 DEF Safe, Detached
        <5>q. QED BY <5>1, <5>2, <5>3
      <4>q. QED BY <4>1, <4>2 DEF Detached
    <3>4. tables[b].live BY <3>1, <1>1, <1>7 DEF Safe, AllLive, LiveTable
    <3>5. AllLive'
      <4>1. \A j \in Keys : keyTable'[j] # Nil => LiveTable(keyTable[j])
        BY <3>1, <2>8 DEF Safe, AllLive
      <4>2. \A u \in Threads : ThreadLive(thread'[u])
        BY <3>1, <3>4, <2>4, <2>7 DEF Safe, AllLive, ThreadLive, LiveTable
      <4>q. QED BY <4>1, <4>2, <3>1, <2>8, <1>1 DEF Safe, AllLive, ThreadLive, LiveTable, LiveString, Slot, Tables
    <3>6. \A u \in Threads : Points(thread[u])'
      BY <3>1, <2>4, <2>7, <1>1 DEF Safe, Points, Slot
    <3>q. QED BY <3>1, <3>3, <3>5, <3>6 DEF Safe
  <2>13. HeapSound' BY <2>10, <2>11, <2>12 DEF HeapSound
  <2>14. /\ \A j \in Keys : keyTable'[j] \in 0..Len(tables')
         /\ \A d \in 1..Len(tables'), f \in Fields : tables'[d].fields[f] \in 0..Len(strings')
         /\ tables' \in Seq(TableObjects) /\ strings' \in Seq(StringObjects)
         /\ Len(tables) <= Len(tables') /\ Len(strings) <= Len(strings') /\ misuse' \in BOOLEAN
    <3>1. 0 \in 0..Len(tables) BY <2>5, ThreadFacts
    <3>2. \A j \in Keys : keyTable[j] \in 0..Len(tables) BY DEF HashInv, InRange
    <3>3. \A j \in Keys : keyTable'[j] \in 0..Len(tables') BY <3>1, <3>2, <1>1, <1>5 DEF Nil
    <3>4. Len(tables) \in Nat /\ Len(strings) \in Nat BY ThreadFacts
    <3>q. QED BY <3>3, <3>4, <1>1, <1>3 DEF HashInv, HashTypeOK, InRange, Tables, Slot
  <2>q. QED BY <1>1, <1>5, <2>3, <2>4, <2>6, <2>13, <2>14, StepKept
<1>q. QED BY <1>6, <1>7

(* The text of a key is freed before the entry: the entry is still there.   *)
LEMMA FreeTextKept ==
  ASSUME HashInv, NEW t \in Threads, FreeText(t)
  PROVE  HashInv'
<1> DEFINE w == thread[t]
           v == [w EXCEPT !.at = "erase"]
<1>1. /\ w \in Works /\ Sane(w, Len(tables), Len(strings)) /\ Active(w) /\ w.at = "lookup" /\ w.op = "Delete"
      /\ Calm => ~misuse
      /\ UNCHANGED <<impl, raced, begun, keyTable, tables, strings, misuse>>
      /\ thread' = [thread EXCEPT ![t] = v] /\ thread \in [Threads -> Works]
      /\ w.op \in kinds /\ w.key \in Keys
  BY ThreadFacts DEF FreeText, At, Rest, Active, HashInv, HashTypeOK
<1>2. v \in Works /\ v.at = "erase" /\ v.op = w.op /\ v.key = w.key /\ v.todo = w.todo
  BY <1>1 DEF Works, Places
<1>3. \A x : Compatible(v, x) <=> Compatible(w, x)
  <2>1. /\ OnKeys(v) /\ OnKeys(w) /\ TableOp(v) = "Remove" /\ TableOp(w) = "Remove" /\ v.key = w.key
    BY <1>1, <1>2 DEF OnKeys, TableOp
  <2>2. Place(v) = Place(w) /\ Element(v) = Element(w) BY <2>1 DEF Place, Element
  <2> HIDE DEF v, w
  <2>q. QED BY <2>1, <2>2 DEF Compatible
<1> HIDE DEF v
<1>4. Moves(t, v) BY <1>1, <1>2 DEF Moves
<1>5. ~Owns(v) /\ ~Removes(v) /\ ~Writes(v) /\ ~Holds(v) /\ Active(v) /\ ~Scans(v) /\ ~HasField(v)
  BY <1>2 DEF Owns, Removes, Writes, Holds, Active, Scans, HasField
<1>6. Sane(v, Len(tables), Len(strings)) BY <1>1, <1>2, <1>5 DEF Sane, Steps, kinds
<1>7. ThreadLive(v) /\ Points(v) BY <1>2, <1>5 DEF ThreadLive, Points
<1>8. HashTypeOK' BY <1>1, <1>4 DEF HashInv, HashTypeOK, Moves
<1>9. InRange'
  <2>1. \A u \in Threads : Sane(thread'[u], Len(tables), Len(strings))
    BY <1>4, <1>6 DEF Moves, HashInv, InRange
  <2>q. QED BY <1>1, <2>1 DEF HashInv, InRange, Tables, Slot
<1>10. LocksHeld'
  <2>1. ASSUME NEW u \in Threads, u # t, thread[u].in PROVE Compatible(v, thread[u]) /\ Compatible(thread[u], v)
    <3>1. w.in BY DEF FreeText, At
    <3>2. Compatible(w, thread[u]) BY <2>1, <3>1 DEF HashInv, LocksHeld
    <3>3. Compatible(v, thread[u]) BY <3>2, <1>3
    <3>q. QED BY <3>3, CompatibleSymmetric
  <2>2. ASSUME NEW u \in Threads, NEW x \in Threads, u # x, thread'[u].in, thread'[x].in
        PROVE  Compatible(thread'[u], thread'[x])
    <3>1. CASE u # t /\ x # t
      <4>1. thread'[u] = thread[u] /\ thread'[x] = thread[x] BY <3>1, <1>4 DEF Moves
      <4>q. QED BY <4>1, <2>2 DEF HashInv, LocksHeld
    <3>2. CASE u = t
      <4>1. thread'[u] = v /\ thread'[x] = thread[x] BY <3>2, <2>2, <1>4 DEF Moves
      <4>q. QED BY <4>1, <3>2, <2>1, <2>2
    <3>3. CASE x = t
      <4>1. thread'[x] = v /\ thread'[u] = thread[u] BY <3>3, <2>2, <1>4 DEF Moves
      <4>q. QED BY <4>1, <3>3, <2>1, <2>2
    <3>q. QED BY <3>1, <3>2, <3>3
  <2>3. SUFFICES ASSUME NEW u \in Threads, NEW x \in Threads, u # x, thread'[u].in, thread'[x].in
                 PROVE  Compatible(thread[u], thread[x])'
    BY DEF LocksHeld
  <2>4. Compatible(thread'[u], thread'[x]) BY <2>2, <2>3
  <2>q. QED BY <2>4, <1>1 DEF Compatible, LockMode
<1>11. OverlapsRecorded' BY <1>1, <1>2, <1>4, OverlapsKept DEF HashInv
<1>12. HeapSound'
  <2>1. Calm' => Calm BY <1>1 DEF Calm, FreesUnder
  <2>q. QED BY <1>1, <1>2, <1>4, <1>5, <1>7, <2>1, HeapKept DEF HashInv
<1>q. QED BY <1>8, <1>9, <1>10, <1>11, <1>12 DEF HashInv

(* Nobody compares a freed text when the overlaps are calm.                 *)
LEMMA CompareFreedTextKept ==
  ASSUME HashInv, NEW t \in Threads, CompareFreedText(t)
  PROVE  HashInv'
<1>1. /\ UNCHANGED <<impl, raced, begun, keyTable, tables, strings, thread>> /\ misuse' = TRUE
      /\ OnKeys(thread[t]) /\ LockMode(TableOp(thread[t])) = "read"
  BY DEF CompareFreedText, Rest
<1>2. PICK u \in Threads \ {t} : thread[u].at = "erase" /\ thread[u].key = thread[t].key
  BY DEF CompareFreedText
<1>3. ~Calm
  <2>1. SUFFICES ASSUME Calm PROVE FALSE OBVIOUS
  <2>2. Active(thread[t]) BY <1>1 DEF OnKeys, Active
  <2>3. thread[t].op = "Delete" /\ impl # "tbb_rand" BY <1>2, <2>1, <2>2, TextHeld
  <2>4. TableOp(thread[t]) = "Remove"
    <3>1. thread[t].at \in {"lookup", "erase"}
      <4>1. Sane(thread[t], Len(tables), Len(strings)) BY ThreadFacts
      <4>q. QED BY <1>1, <2>2, <2>3, <4>1 DEF Sane, Steps, OnKeys, kinds
    <3>q. QED BY <3>1, <2>3 DEF TableOp
  <2>5. impl \in {"lock_stl", "tbb_scan"} BY <2>3 DEF HashInv, HashTypeOK, Implementations
  <2>6. LockMode("Remove") = "write" BY <2>5 DEF LockMode, LockStlHashtable, TbbScanHashtable
  <2>q. QED BY <1>1, <2>4, <2>6
<1>4. HashTypeOK' BY <1>1 DEF HashInv, HashTypeOK
<1>5. InRange' BY <1>1 DEF HashInv, InRange, Tables, Slot
<1>6. LocksHeld' BY <1>1 DEF HashInv, LocksHeld, Compatible, LockMode
<1>7. OverlapsRecorded' BY <1>1 DEF HashInv, OverlapsRecorded
<1>8. KeysApart' /\ StringsApart' BY <1>1 DEF HashInv, HeapSound, KeysApart, StringsApart, Tables, Slot
<1>9. ~Calm' BY <1>1, <1>3 DEF Calm, FreesUnder
<1>q. QED BY <1>4, <1>5, <1>6, <1>7, <1>8, <1>9 DEF HashInv, HeapSound

LEMMA SlotWritten ==
  ASSUME HashInv, NEW b \in Tables, NEW f \in Fields, NEW s \in Nat,
         tables' = [tables EXCEPT ![b].fields = [tables[b].fields EXCEPT ![f] = s]]
  PROVE  /\ tables' \in Seq(TableObjects) /\ Len(tables') = Len(tables)
         /\ \A c \in Tables : tables'[c].live = tables[c].live
         /\ tables'[b].fields[f] = s
         /\ \A c \in Tables, g \in Fields : (c # b \/ g # f) => tables'[c].fields[g] = Slot(c, g)
<1> DEFINE fields == [tables[b].fields EXCEPT ![f] = s]
           o == [tables[b] EXCEPT !.fields = fields]
<1>1. tables[b] \in TableObjects /\ tables \in Seq(TableObjects) /\ b \in 1..Len(tables)
  BY ObjectTypes DEF Tables, HashInv, HashTypeOK
<1>2. tables[b].fields \in Texts BY <1>1 DEF TableObjects
<1>3. fields \in Texts /\ fields[f] = s /\ \A g \in Fields : g # f => fields[g] = tables[b].fields[g]
  BY <1>2 DEF Texts
<1> HIDE DEF fields
<1>4. o \in TableObjects /\ o.live = tables[b].live /\ o.fields = fields BY <1>1, <1>3 DEF TableObjects
<1>5. tables' = [tables EXCEPT ![b] = o] BY DEF fields
<1> HIDE DEF o
<1>6. /\ tables' \in Seq(TableObjects) /\ Len(tables') = Len(tables)
      /\ tables'[b] = o /\ \A c \in Tables : c # b => tables'[c] = tables[c]
  BY <1>1, <1>4, <1>5 DEF Tables
<1>7. \A c \in Tables : tables'[c].live = tables[c].live BY <1>4, <1>6
<1>8. ASSUME NEW c \in Tables, NEW g \in Fields, c # b \/ g # f PROVE tables'[c].fields[g] = tables[c].fields[g]
  <2>1. CASE c = b BY <2>1, <1>3, <1>4, <1>6, <1>8
  <2>2. CASE c # b BY <2>2, <1>6
  <2>q. QED BY <2>1, <2>2
<1>q. QED BY <1>3, <1>4, <1>6, <1>7, <1>8 DEF Slot

LEMMA SlotSame ==
  ASSUME HashInv, NEW b \in Tables,
         tables' = [tables EXCEPT ![b].fields = tables[b].fields]
  PROVE  tables' = tables
<1> DEFINE fields == tables[b].fields
           o == [tables[b] EXCEPT !.fields = fields]
<1>1. tables[b] \in TableObjects /\ tables \in Seq(TableObjects) /\ b \in 1..Len(tables)
  BY ObjectTypes DEF Tables, HashInv, HashTypeOK
<1>2. o = tables[b] BY <1>1 DEF TableObjects
<1>3. tables' = [tables EXCEPT ![b] = o] OBVIOUS
<1> HIDE DEF o
<1>q. QED BY <1>1, <1>2, <1>3

LEMMA StringFreed ==
  ASSUME HashInv, NEW s \in Strings, strings' = DeleteString(strings, s)
  PROVE  /\ strings' \in Seq(StringObjects) /\ Len(strings') = Len(strings)
         /\ \A x \in Strings : x # s => strings'[x].live = strings[x].live
<1> DEFINE o == [strings[s] EXCEPT !.live = FALSE]
<1>1. strings[s] \in StringObjects /\ strings \in Seq(StringObjects) /\ s \in 1..Len(strings)
  BY ObjectTypes DEF Strings, HashInv, HashTypeOK
<1>2. o \in StringObjects BY <1>1 DEF StringObjects
<1>3. strings' = [strings EXCEPT ![s] = o] BY DEF DeleteString
<1> HIDE DEF o
<1>q. QED BY <1>1, <1>2, <1>3 DEF Strings

(* Where a thread is after a step that ends with Next1.                     *)
LEMMA Next1Moves ==
  ASSUME HashInv, NEW t \in Threads, NEW d \in Works, Next1(t, d, "copy")
  PROVE  \E v \in Works : /\ Moves(t, v) /\ ~v.in
                          /\ \/ v.at = "idle"
                             \/ /\ v.at = "copy" /\ v.op = d.op /\ v.key = d.key /\ v.table = d.table
                                /\ v.todo = d.todo /\ d.todo # {}
<1>1. CASE d.todo = {} BY <1>1, ReturnMoves DEF Next1, HashInv, HashTypeOK
<1>2. CASE d.todo # {}
  <2> DEFINE c == [d EXCEPT !.at = "copy"]
  <2>1. c \in Works /\ c.at = "copy" /\ c.op = d.op /\ c.key = d.key /\ c.table = d.table /\ c.todo = d.todo
    BY DEF Works, Places
  <2>2. Continue(t, c) BY <1>2 DEF Next1
  <2> HIDE DEF c
  <2>q. QED BY <1>2, <2>1, <2>2, ContinueMoves DEF HashInv, HashTypeOK
<1>q. QED BY <1>1, <1>2

(* A thread that wrote a field of its table, and what it is then.           *)
LEMMA WroteFacts ==
  ASSUME HashInv, NEW t \in Threads, Writes(thread[t]),
         NEW v \in Works, v.at = "idle" \/ /\ v.at = "copy" /\ v.op = thread[t].op /\ v.key = thread[t].key
                                           /\ v.table = thread[t].table /\ v.todo # {}
                                           /\ v.todo \subseteq thread[t].todo
  PROVE  /\ Active(v) => v.op = thread[t].op /\ v.key = thread[t].key
         /\ Holds(v) => v.table = thread[t].table
         /\ ~Removes(v) /\ ~Writes(v) /\ ~Scans(v) /\ v.at \notin {"follow", "followall", "delete"}
         /\ Sane(v, Len(tables), Len(strings))
<1>1. CASE v.at = "idle" BY <1>1, IdleFacts
<1>2. CASE v.at # "idle"
  <2> DEFINE w == thread[t]
  <2>1. Sane(w, Len(tables), Len(strings)) /\ Active(w) /\ w.op \in kinds /\ w.key \in Keys
    BY ThreadFacts DEF Active, Writes
  <2>2. w.op \in {"Update", "Insert"} /\ w.table \in 1..Len(tables) /\ w.todo \subseteq Fields
    BY <2>1 DEF Sane, Active, Holds, Writes, Steps, kinds
  <2>q. QED BY <1>2, <2>1, <2>2 DEF Active, Holds, Removes, Writes, Scans, Sane, Steps, HasField, kinds
<1>q. QED BY <1>1, <1>2

(* A thread that deletes nothing and takes no table disturbs no deletion.   *)
LEMMA DetachedKept ==
  ASSUME Detached, NEW t \in Threads, NEW v, thread'[t] = v,
         \A u \in Threads : u # t => thread'[u] = thread[u], UNCHANGED keyTable, ~Removes(v),
         Owns(v) => Owns(thread[t]) /\ v.table = thread[t].table
  PROVE  Detached'
<1>1. ASSUME NEW u \in Threads, NEW k \in Keys, Removes(thread'[u]) PROVE keyTable'[k] # thread'[u].table
  <2>1. u # t /\ thread'[u] = thread[u] BY <1>1
  <2>q. QED BY <1>1, <2>1 DEF Detached
<1>2. ASSUME NEW u \in Threads, NEW x \in Threads, Removes(thread'[u]), Owns(thread'[x]), u # x
      PROVE  thread'[x].table # thread'[u].table
  <2>1. u # t /\ thread'[u] = thread[u] BY <1>2
  <2>2. Owns(thread[x]) /\ thread'[x].table = thread[x].table BY <1>2
  <2>q. QED BY <1>2, <2>1, <2>2 DEF Detached
<1>q. QED BY <1>1, <1>2 DEF Detached

(* What a write into a field does to the others: an Update that replaces a  *)
(* string is alone at its record when the overlaps are calm.                *)
LEMMA ReplaceAlone ==
  ASSUME HashInv, Calm, NEW t \in Threads, Writes(thread[t]), thread[t].op = "Update",
         NEW u \in Threads, thread[u].at \in {"follow", "followall", "delete"}
  PROVE  thread[u].table # thread[t].table
<1>1. Safe BY DEF HashInv, HeapSound
<1>2. u # t BY DEF Writes
<1>3. Active(thread[t]) /\ Active(thread[u]) /\ Owns(thread[t]) BY DEF Active, Writes, Owns, Holds
<1>4. thread[u].op \in {"Read", "Scan", "Delete"} BY <1>3, ThreadFacts DEF Sane, Active, Steps, kinds
<1>5. CASE thread[u].op = "Delete"
  <2>1. Removes(thread[u]) BY <1>3, <1>5, ThreadFacts DEF Sane, Active, Steps, Removes
  <2>q. QED BY <2>1, <1>1, <1>2, <1>3 DEF Safe, Detached
<1>6. CASE thread[u].op \in {"Read", "Scan"}
  <2>1. SUFFICES ASSUME thread[u].table = thread[t].table PROVE FALSE OBVIOUS
  <2>2. Overlap(thread[t], thread[u])
    <3>1. CASE thread[u].op = "Scan" BY <3>1, <1>3 DEF Overlap
    <3>2. CASE thread[u].op = "Read"
      <4>1. Owns(thread[u]) BY <3>2 DEF Owns, Holds
      <4>2. thread[t].key = thread[u].key BY <2>1, <4>1, <1>3 DEF HashInv, HeapSound, KeysApart
      <4>q. QED BY <4>2, <1>3 DEF Overlap
    <3>q. QED BY <3>1, <3>2, <1>6
  <2>3. {thread[t].op, thread[u].op} \in raced BY <2>2, <1>2 DEF HashInv, OverlapsRecorded
  <2>4. FreesUnder({thread[t].op, thread[u].op}) BY <1>6 DEF FreesUnder
  <2>q. QED BY <2>3, <2>4 DEF Calm
<1>q. QED BY <1>4, <1>5, <1>6

LEMMA WriteKept ==
  ASSUME HashInv, NEW t \in Threads, Writes(thread[t]), NEW f \in Fields, NEW v \in Works, Moves(t, v), ~v.in,
         v.at = "idle" \/ /\ v.at = "copy" /\ v.op = thread[t].op /\ v.key = thread[t].key
                          /\ v.table = thread[t].table /\ v.todo # {} /\ v.todo \subseteq thread[t].todo,
         tables' = [tables EXCEPT ![thread[t].table].fields =
                                     [tables[thread[t].table].fields EXCEPT ![f] = thread[t].string]],
         strings' \in Seq(StringObjects), Len(strings') = Len(strings),
         \A x \in Strings : x # Slot(thread[t].table, f) => strings'[x].live = strings[x].live,
         Slot(thread[t].table, f) = Nil \/ thread[t].op = "Update",
         UNCHANGED <<impl, raced, begun, keyTable>>, misuse' \in BOOLEAN, Calm => ~misuse'
  PROVE  HashInv'
<1> DEFINE w == thread[t]
           b == w.table
           s == w.string
           old == Slot(b, f)
<1>1. /\ Sane(w, Len(tables), Len(strings)) /\ Holds(w) /\ Owns(w) /\ Active(w) /\ b \in Tables /\ s \in Strings
      /\ Calm => ThreadLive(w)
  <2>1. Holds(w) /\ Owns(w) /\ Active(w)
    <3>1. Sane(w, Len(tables), Len(strings)) /\ Active(w) BY ThreadFacts DEF Active, Writes
    <3>q. QED BY <3>1 DEF Sane, Active, Holds, Owns, Writes, Steps, kinds
  <2>q. QED BY <2>1, ThreadFacts DEF Sane, Tables, Strings
<1>2. /\ tables' \in Seq(TableObjects) /\ Len(tables') = Len(tables)
      /\ \A c \in Tables : tables'[c].live = tables[c].live
      /\ tables'[b].fields[f] = s
      /\ \A c \in Tables, g \in Fields : (c # b \/ g # f) => tables'[c].fields[g] = Slot(c, g)
  <2>1. s \in Nat BY <1>1, ThreadFacts DEF Strings
  <2>q. QED BY <2>1, <1>1, SlotWritten
<1>3. /\ Active(v) => v.op = w.op /\ v.key = w.key
      /\ Holds(v) => v.table = b
      /\ Owns(v) => v.table = b /\ v.key = w.key
      /\ ~Removes(v) /\ ~Writes(v) /\ ~Scans(v) /\ v.at \notin {"follow", "followall", "delete"}
      /\ Sane(v, Len(tables), Len(strings))
  <2>1. /\ Active(v) => v.op = w.op /\ v.key = w.key
        /\ Holds(v) => v.table = b
        /\ ~Removes(v) /\ ~Writes(v) /\ ~Scans(v) /\ v.at \notin {"follow", "followall", "delete"}
        /\ Sane(v, Len(tables), Len(strings))
    BY WroteFacts
  <2>2. Owns(v) => Active(v) /\ Holds(v) BY DEF Owns, Holds, Active
  <2>q. QED BY <2>1, <2>2
<1>4. thread'[t] = v /\ \A u \in Threads : u # t => thread'[u] = thread[u] BY DEF Moves
<1>5. /\ \A c \in Tables, g \in Fields : (Slot(c, g) # s) /\ (Slot(c, g) # Nil => Slot(c, g) \in Strings)
      /\ \A u \in Threads : (u # t /\ Writes(thread[u])) => thread[u].string # s /\ thread[u].string \in Strings
      /\ \A u \in Threads : Holds(thread[u]) => thread[u].table \in Tables
      /\ \A k \in Keys : keyTable[k] # Nil => keyTable[k] \in Tables
      /\ s # Nil /\ old # s /\ Nil \notin Strings
  <2>1. /\ \A c \in Tables, g \in Fields : Slot(c, g) # s
        /\ \A u \in Threads : (u # t /\ Writes(thread[u])) => thread[u].string # s
    BY DEF HashInv, HeapSound, StringsApart
  <2>2. /\ \A c \in Tables, g \in Fields : Slot(c, g) # Nil => Slot(c, g) \in Strings
        /\ \A u \in Threads : Writes(thread[u]) => thread[u].string \in Strings
        /\ \A u \in Threads : Holds(thread[u]) => thread[u].table \in Tables
        /\ \A k \in Keys : keyTable[k] # Nil => keyTable[k] \in Tables
    BY ThreadFacts DEF HashInv, InRange, Sane, Strings, Tables, Nil
  <2>3. Nil \notin Strings BY DEF Nil, Strings
  <2>q. QED BY <2>1, <2>2, <2>3, <1>1
<1>6. KeysApart'
  BY <1>1, <1>3, <1>4 DEF HashInv, HeapSound, KeysApart
<1>7. StringsApart'
  <2>1. StringsApart /\ Tables' = Tables BY <1>2 DEF HashInv, HeapSound, Tables
  <2>2. \A c, d \in Tables, g, h \in Fields :
           (tables'[c].fields[g] = tables'[d].fields[h] /\ tables'[c].fields[g] # Nil) => (c = d /\ g = h)
    <3>1. \A c, d \in Tables, g, h \in Fields :
             (Slot(c, g) = Slot(d, h) /\ Slot(c, g) # Nil) => (c = d /\ g = h)
      BY <2>1 DEF StringsApart
    <3>2. \A c \in Tables, g \in Fields : (c = b /\ g = f) \/ (tables'[c].fields[g] = Slot(c, g) /\ Slot(c, g) # s)
      BY <1>2, <1>5
    <3>q. QED BY <3>1, <3>2, <1>2, SMTT(30)
  <2>3. ASSUME NEW u \in Threads, NEW c \in Tables, NEW g \in Fields, Writes(thread'[u])
        PROVE  tables'[c].fields[g] # thread'[u].string
    <3>1. u # t /\ thread'[u] = thread[u] BY <2>3, <1>3, <1>4
    <3>q. QED BY <3>1, <2>1, <2>3, <1>1, <1>2, <1>5 DEF StringsApart
  <2>4. \A u, x \in Threads : (Writes(thread'[u]) /\ Writes(thread'[x]) /\ thread'[u].string = thread'[x].string) => u = x
    BY <2>1, <1>3, <1>4 DEF StringsApart
  <2>q. QED BY <2>1, <2>2, <2>3, <2>4 DEF StringsApart, Slot
<1>8. ASSUME Calm' PROVE Safe'
  <2>1. Calm /\ Safe /\ ~misuse' BY <1>8 DEF Calm, FreesUnder, HashInv, HeapSound
  <2>2. Detached' BY <2>1, <1>1, <1>3, <1>4, DetachedKept DEF Safe
  <2>3. tables[b].live /\ strings[s].live BY <2>1, <1>1 DEF ThreadLive, LiveTable, LiveString
  <2>4. strings'[s].live BY <2>3, <1>1, <1>5
  <2>5. ASSUME NEW c \in Tables, NEW g \in Fields, tables[c].live, tables'[c].fields[g] # Nil
        PROVE  strings'[tables'[c].fields[g]].live
    <3>1. CASE c = b /\ g = f BY <3>1, <2>4, <1>2
    <3>2. CASE c # b \/ g # f
      <4>1. tables'[c].fields[g] = Slot(c, g) /\ Slot(c, g) # Nil /\ Slot(c, g) \in Strings
        BY <3>2, <2>5, <1>2, <1>5
      <4>2. strings[Slot(c, g)].live BY <4>1, <2>1, <2>5 DEF Safe, AllLive, LiveTable, LiveString
      <4>3. Slot(c, g) # old BY <4>1, <3>2, <1>1 DEF HashInv, HeapSound, StringsApart
      <4>q. QED BY <4>1, <4>2, <4>3
    <3>q. QED BY <3>1, <3>2
  <2>6. ASSUME NEW u \in Threads, u # t PROVE ThreadLive(thread[u])'
    <3>1. ThreadLive(thread[u]) BY <2>1 DEF Safe, AllLive
    <3>2. Scans(thread[u]) => thread[u].todo \subseteq Tables
      BY DEF HashInv, InRange, Sane, Tables
    <3>3. Writes(thread[u]) => thread[u].string # old
      BY <1>1 DEF HashInv, HeapSound, StringsApart
    <3>q. QED BY <2>6, <3>1, <3>2, <3>3, <1>2, <1>4, <1>5 DEF ThreadLive, LiveTable, LiveString
  <2>7. ThreadLive(thread[t])' BY <2>3, <1>1, <1>2, <1>3, <1>4 DEF ThreadLive, LiveTable
  <2>8. \A k \in Keys : keyTable[k] # Nil => tables'[keyTable[k]].live
    BY <2>1, <1>2, <1>5 DEF Safe, AllLive, LiveTable
  <2>9. AllLive'
    <3>1. \A u \in Threads : ThreadLive(thread[u])' BY <2>6, <2>7
    <3>2. \A c \in Tables', g \in Fields : (LiveTable(c)' /\ Slot(c, g)' # Nil) => LiveString(Slot(c, g))'
      BY <2>5, <1>2 DEF LiveTable, LiveString, Slot, Tables
    <3>q. QED BY <3>1, <3>2, <2>8 DEF AllLive, LiveTable
  <2>10. ASSUME NEW u \in Threads PROVE Points(thread[u])'
    <3>1. CASE u = t BY <3>1, <1>3, <1>4 DEF Points
    <3>2. CASE thread[u].at \notin {"follow", "followall", "delete"} /\ u # t BY <3>2, <1>4 DEF Points
    <3>3. CASE thread[u].at \in {"follow", "followall", "delete"} /\ u # t
      <4>1. Points(thread[u]) /\ thread[u].table \in Tables /\ thread'[u] = thread[u]
        BY <3>3, <2>1, <1>4, <1>5 DEF Safe, Holds
      <4>2. ASSUME NEW g \in Fields, Slot(thread[u].table, g) \in Strings
            PROVE  tables'[thread[u].table].fields[g] = Slot(thread[u].table, g)
        <5>1. CASE old = Nil BY <5>1, <4>1, <4>2, <1>2, <1>5
        <5>2. CASE w.op = "Update"
          <6>1. thread[u].table # b BY <5>2, <3>3, <2>1, ReplaceAlone
          <6>q. QED BY <6>1, <4>1, <1>2
        <5>q. QED BY <5>1, <5>2
      <4>3. /\ thread[u].at = "follow" => thread[u].string \in Strings
            /\ thread[u].at \in {"followall", "delete"} => thread[u].found \subseteq Strings
        BY DEF HashInv, InRange, Sane, Strings
      <4>4. ASSUME NEW x \in Strings, \E g \in Fields : Slot(thread[u].table, g) = x
            PROVE  \E g \in Fields : tables'[thread[u].table].fields[g] = x
        BY <4>2, <4>4
      <4> DEFINE r == thread[u]
      <4>5. r.at = "follow" => \E g \in Fields : tables'[r.table].fields[g] = r.string
        BY <4>1, <4>3, <4>4 DEF Points
      <4>6. r.at \in {"followall", "delete"} => \A x \in r.found : \E g \in Fields : tables'[r.table].fields[g] = x
        BY <4>1, <4>3, <4>4 DEF Points
      <4>7. thread'[u] = r BY <4>1
      <4> HIDE DEF r
      <4>q. QED BY <4>5, <4>6, <4>7 DEF Points, Slot
    <3>q. QED BY <3>1, <3>2, <3>3
  <2>q. QED BY <2>1, <2>2, <2>9, <2>10 DEF Safe
<1>9. HeapSound' BY <1>6, <1>7, <1>8 DEF HeapSound
<1>10. /\ \A k \in Keys : keyTable'[k] \in 0..Len(tables')
       /\ \A c \in 1..Len(tables'), g \in Fields : tables'[c].fields[g] \in 0..Len(strings')
       /\ keyTable' \in [Keys -> Nat]
  <2>1. s \in 0..Len(strings) BY <1>1, ThreadFacts DEF Strings
  <2>2. \A c \in Tables, g \in Fields : tables'[c].fields[g] \in 0..Len(strings)
    BY <2>1, <1>2 DEF HashInv, InRange
  <2>q. QED BY <2>2, <1>2 DEF HashInv, HashTypeOK, InRange, Tables
<1>11. Len(tables) \in Nat /\ Len(strings) \in Nat BY ThreadFacts
<1>12. /\ Len(tables) <= Len(tables') /\ Len(strings) <= Len(strings')
       /\ Sane(v, Len(tables'), Len(strings')) /\ (Active(v) => Active(thread[t]))
  BY <1>1, <1>2, <1>3, <1>11
<1>13. Active(v) => Active(thread[t]) /\ v.op = thread[t].op /\ v.key = thread[t].key BY <1>3, <1>12
<1>q. QED BY <1>2, <1>9, <1>10, <1>12, <1>13, StepKept

LEMMA ReplaceFieldKept ==
  ASSUME HashInv, NEW t \in Threads, ReplaceField(t)
  PROVE  HashInv'
<1> DEFINE w == thread[t]
           b == w.table
           f == Field(w)
           fields == tables[b].fields
           old == fields[f]
           d == Done(w)
           c == [w EXCEPT !.at = "insert"]
<1>1. /\ w \in Works /\ Sane(w, Len(tables), Len(strings)) /\ w.at = "replace" /\ Active(w) /\ Writes(w)
      /\ w.key \in Keys /\ w.op \in kinds
      /\ Calm => ~misuse /\ ThreadLive(w)
      /\ UNCHANGED <<impl, raced, begun, keyTable>>
      /\ misuse' = (misuse \/ ~tables[b].live)
      /\ tables' = [tables EXCEPT ![b].fields = Replace(fields, f, w.string)]
      /\ IF old = Nil THEN Continue(t, c) /\ UNCHANGED strings
         ELSE strings' = DeleteString(strings, old) /\ Next1(t, d, "copy")
  BY ThreadFacts DEF ReplaceField, At, Rest, Active, Used, Get, Writes
<1>2. /\ w.op = "Update" /\ Owns(w) /\ Holds(w) /\ b \in 1..Len(tables) /\ w.string \in 1..Len(strings)
      /\ w.todo \subseteq Fields /\ w.todo # {}
  BY <1>1 DEF Sane, HasField, Active, Owns, Holds, Steps, kinds
<1>3. f \in Fields BY <1>2 DEF Field
<1>4. misuse' \in BOOLEAN /\ (Calm => ~misuse')
  BY <1>1, <1>2 DEF ThreadLive, LiveTable
<1>5. CASE old = Nil
  <2>1. tables' = tables
    <3>1. tables' = [tables EXCEPT ![b].fields = tables[b].fields] BY <1>1, <1>5 DEF Replace
    <3>q. QED BY <3>1, <1>2, SlotSame DEF Tables
  <2>2. Continue(t, c) /\ UNCHANGED strings BY <1>1, <1>5
  <2>3. /\ c \in Works /\ c.at = "insert" /\ c.op = w.op /\ c.key = w.key /\ c.table = b /\ c.todo = w.todo
        /\ c.string = w.string
    BY <1>1 DEF Works, Places
  <2> HIDE DEF c
  <2>4. Owns(c) /\ ~Removes(c) /\ Writes(c) /\ Holds(c) /\ ~Scans(c) /\ Active(c)
    BY <1>2, <2>3 DEF Owns, Removes, Writes, Holds, Scans, Active
  <2>5. Sane(c, Len(tables), Len(strings)) BY <1>1, <1>2, <2>3, <2>4 DEF Sane, Steps, kinds
  <2>6. Calm => ~misuse' /\ ThreadLive(c) /\ Points(c)
    BY <1>1, <1>2, <1>4, <2>3, <2>4 DEF ThreadLive, Points
  <2>q. QED BY <1>1, <1>2, <1>4, <2>1, <2>2, <2>3, <2>4, <2>5, <2>6, ContinueKept
<1>6. CASE old # Nil
  <2>1. strings' = DeleteString(strings, old) /\ Next1(t, d, "copy") BY <1>1, <1>6
  <2>2. old \in Strings
    BY <1>2, <1>3, <1>6, ThreadFacts DEF HashInv, InRange, Tables, Strings, Slot, Nil
  <2>3. d \in Works /\ d.op = w.op /\ d.key = w.key /\ d.table = b /\ d.todo \subseteq w.todo
    BY <1>1, <1>3 DEF Done, Works, Names
  <2>4. /\ strings' \in Seq(StringObjects) /\ Len(strings') = Len(strings)
        /\ \A x \in Strings : x # old => strings'[x].live = strings[x].live
    BY <2>1, <2>2, StringFreed
  <2>5. PICK v \in Works : /\ Moves(t, v) /\ ~v.in
                           /\ \/ v.at = "idle"
                              \/ /\ v.at = "copy" /\ v.op = d.op /\ v.key = d.key /\ v.table = d.table
                                 /\ v.todo = d.todo /\ d.todo # {}
    BY <2>1, <2>3, Next1Moves
  <2>6. v.at = "idle" \/ /\ v.at = "copy" /\ v.op = w.op /\ v.key = w.key
                         /\ v.table = b /\ v.todo # {} /\ v.todo \subseteq w.todo
    BY <2>3, <2>5
  <2>7. tables' = [tables EXCEPT ![b].fields = [fields EXCEPT ![f] = w.string]] BY <1>1, <1>6 DEF Replace
  <2>8. old = Slot(b, f) BY DEF Slot
  <2>9. /\ \A x \in Strings : x # Slot(b, f) => strings'[x].live = strings[x].live
        /\ Slot(b, f) = Nil \/ w.op = "Update"
        /\ Moves(t, v) /\ ~v.in /\ Writes(w) /\ UNCHANGED <<impl, raced, begun, keyTable>>
    BY <1>1, <1>2, <2>4, <2>5, <2>8
  <2> HIDE DEF f, d, c, old
  <2>q. QED BY <1>3, <1>4, <2>4, <2>6, <2>7, <2>9, WriteKept
<1>q. QED BY <1>5, <1>6

(* An Insert that finds its field there frees the string it made.           *)
LEMMA ConflictKept ==
  ASSUME HashInv, NEW t \in Threads, Writes(thread[t]), Return(t, thread[t]),
         strings' = DeleteString(strings, thread[t].string),
         UNCHANGED <<impl, raced, begun, keyTable, tables>>, misuse' \in BOOLEAN, Calm => ~misuse'
  PROVE  HashInv'
<1> DEFINE w == thread[t]
           s == w.string
<1>1. w \in Works /\ s \in Strings /\ Len(tables) \in Nat /\ Len(strings) \in Nat
  BY ThreadFacts DEF Sane, Strings
<1>2. /\ strings' \in Seq(StringObjects) /\ Len(strings') = Len(strings)
      /\ \A x \in Strings : x # s => strings'[x].live = strings[x].live
  BY <1>1, StringFreed
<1>3. PICK v \in Works : Moves(t, v) /\ v.at = "idle" /\ ~v.in
  BY <1>1, ReturnMoves DEF HashInv, HashTypeOK
<1>4. /\ ~Active(v) /\ ~Owns(v) /\ ~Removes(v) /\ ~Writes(v) /\ Sane(v, Len(tables), Len(strings))
      /\ ~Holds(v) /\ ~Scans(v) /\ v.at \notin {"follow", "followall", "delete"}
  BY <1>3, IdleFacts
<1>5. thread'[t] = v /\ \A u \in Threads : u # t => thread'[u] = thread[u] BY <1>3 DEF Moves
<1>6. KeysApart' BY <1>4, <1>5 DEF HashInv, HeapSound, KeysApart
<1>7. StringsApart'
  BY <1>4, <1>5 DEF HashInv, HeapSound, StringsApart, Tables, Slot
<1>8. ASSUME Calm' PROVE Safe'
  <2>1. Calm /\ Safe /\ ~misuse' BY <1>8 DEF Calm, FreesUnder, HashInv, HeapSound
  <2>2. Detached' BY <2>1, <1>4, <1>5, DetachedKept DEF Safe
  <2>3. /\ \A b \in Tables, f \in Fields : Slot(b, f) # s /\ (Slot(b, f) # Nil => Slot(b, f) \in Strings)
        /\ \A u \in Threads : (u # t /\ Writes(thread[u])) => thread[u].string # s /\ thread[u].string \in Strings
    <3>1. /\ \A b \in Tables, f \in Fields : Slot(b, f) # s
          /\ \A u \in Threads : (u # t /\ Writes(thread[u])) => thread[u].string # s
      BY DEF HashInv, HeapSound, StringsApart
    <3>2. /\ \A b \in Tables, f \in Fields : Slot(b, f) # Nil => Slot(b, f) \in Strings
          /\ \A u \in Threads : Writes(thread[u]) => thread[u].string \in Strings
      BY <1>1 DEF HashInv, InRange, Sane, Strings, Tables, Nil
    <3>q. QED BY <3>1, <3>2
  <2>4. \A u \in Threads : ThreadLive(thread[u])'
    <3>1. ASSUME NEW u \in Threads, u # t PROVE ThreadLive(thread[u])'
      <4>1. ThreadLive(thread[u]) BY <2>1 DEF Safe, AllLive
      <4>q. QED BY <3>1, <4>1, <2>3, <1>2, <1>5 DEF ThreadLive, LiveTable, LiveString
    <3>2. ThreadLive(thread[t])' BY <1>4, <1>5 DEF ThreadLive
    <3>q. QED BY <3>1, <3>2
  <2>5. AllLive'
    <3>1. \A k \in Keys : (keyTable[k] # Nil => LiveTable(keyTable[k]))' BY <2>1 DEF Safe, AllLive, LiveTable
    <3>2. \A b \in Tables', f \in Fields : (LiveTable(b)' /\ Slot(b, f)' # Nil) => LiveString(Slot(b, f))'
      BY <2>1, <2>3, <1>2 DEF Safe, AllLive, LiveTable, LiveString, Slot, Tables
    <3>q. QED BY <2>4, <3>1, <3>2 DEF AllLive
  <2>6. \A u \in Threads : Points(thread[u])'
    BY <2>1, <1>4, <1>5 DEF Safe, Points, Slot
  <2>q. QED BY <2>1, <2>2, <2>5, <2>6 DEF Safe
<1>9. HeapSound' BY <1>6, <1>7, <1>8 DEF HeapSound
<1>10. /\ \A k \in Keys : keyTable'[k] \in 0..Len(tables')
       /\ \A b \in 1..Len(tables'), f \in Fields : tables'[b].fields[f] \in 0..Len(strings')
       /\ keyTable' \in [Keys -> Nat] /\ tables' \in Seq(TableObjects)
       /\ Len(tables) <= Len(tables') /\ Len(strings) <= Len(strings')
  BY <1>1, <1>2 DEF HashInv, HashTypeOK, InRange, Tables, Slot
<1>11. Sane(v, Len(tables'), Len(strings')) BY <1>2, <1>4
<1>q. QED BY <1>2, <1>3, <1>4, <1>9, <1>10, <1>11, StepKept

LEMMA InsertFieldKept ==
  ASSUME HashInv, NEW t \in Threads, InsertField(t)
  PROVE  HashInv'
<1> DEFINE w == thread[t]
           b == w.table
           f == Field(w)
           fields == tables[b].fields
           d == Done(w)
<1>1. /\ w \in Works /\ Sane(w, Len(tables), Len(strings)) /\ w.at = "insert" /\ Active(w) /\ Writes(w)
      /\ w.key \in Keys /\ w.op \in kinds
      /\ Calm => ~misuse /\ ThreadLive(w)
      /\ UNCHANGED <<impl, raced, begun, keyTable>>
      /\ misuse' = (misuse \/ ~tables[b].live)
      /\ tables' = [tables EXCEPT ![b].fields = TableInsert(fields, f, w.string)]
      /\ IF w.op = "Insert" /\ fields[f] # Nil
         THEN strings' = DeleteString(strings, w.string) /\ Return(t, w)
         ELSE Next1(t, d, "copy") /\ UNCHANGED strings
  BY ThreadFacts DEF InsertField, At, Rest, Active, Used, Get, Writes
<1>2. /\ w.op \in {"Update", "Insert"} /\ Owns(w) /\ Holds(w) /\ b \in 1..Len(tables) /\ b \in Tables
      /\ w.string \in 1..Len(strings) /\ w.todo \subseteq Fields /\ w.todo # {}
  BY <1>1 DEF Sane, HasField, Active, Owns, Holds, Steps, kinds, Tables
<1>3. f \in Fields /\ strings \in Seq(StringObjects) BY <1>2 DEF Field, HashInv, HashTypeOK
<1>4. misuse' \in BOOLEAN /\ (Calm => ~misuse')
  BY <1>1, <1>2 DEF ThreadLive, LiveTable
<1>5. d \in Works /\ d.op = w.op /\ d.key = w.key /\ d.table = b /\ d.todo \subseteq w.todo
  BY <1>1, <1>2, <1>3 DEF Done, Works, Names
<1>6. ASSUME fields[f] # Nil PROVE tables' = tables
  <2>1. tables' = [tables EXCEPT ![b].fields = tables[b].fields] BY <1>1, <1>6 DEF TableInsert
  <2>q. QED BY <2>1, <1>2, SlotSame
<1>7. CASE w.op = "Insert" /\ fields[f] # Nil
  BY <1>1, <1>4, <1>6, <1>7, ConflictKept
<1>8. CASE ~(w.op = "Insert" /\ fields[f] # Nil)
  <2>1. Next1(t, d, "copy") /\ UNCHANGED strings BY <1>1, <1>8
  <2> HIDE DEF d, f
  <2>2. PICK v \in Works : /\ Moves(t, v) /\ ~v.in
                           /\ \/ v.at = "idle"
                              \/ /\ v.at = "copy" /\ v.op = d.op /\ v.key = d.key /\ v.table = d.table
                                 /\ v.todo = d.todo /\ d.todo # {}
    BY <2>1, <1>5, Next1Moves
  <2>3. v.at = "idle" \/ /\ v.at = "copy" /\ v.op = w.op /\ v.key = w.key
                         /\ v.table = b /\ v.todo # {} /\ v.todo \subseteq w.todo
    BY <1>5, <2>2
  <2>4. CASE fields[f] = Nil
    <3>1. tables' = [tables EXCEPT ![b].fields = [fields EXCEPT ![f] = w.string]]
      BY <1>1, <2>4 DEF TableInsert, f
    <3>2. /\ strings' \in Seq(StringObjects) /\ Len(strings') = Len(strings)
          /\ \A x \in Strings : x # Slot(b, f) => strings'[x].live = strings[x].live
          /\ Slot(b, f) = Nil \/ w.op = "Update"
          /\ Moves(t, v) /\ ~v.in /\ Writes(w) /\ UNCHANGED <<impl, raced, begun, keyTable>>
      BY <1>1, <1>3, <2>1, <2>2, <2>4 DEF Slot
    <3>q. QED BY <1>3, <1>4, <2>3, <3>1, <3>2, WriteKept
  <2>5. CASE fields[f] # Nil
    <3>1. /\ Active(v) => v.op = w.op /\ v.key = w.key
          /\ Holds(v) => v.table = b
          /\ ~Removes(v) /\ ~Writes(v) /\ ~Scans(v) /\ v.at \notin {"follow", "followall", "delete"}
          /\ Sane(v, Len(tables), Len(strings))
      BY <1>1, <2>3, WroteFacts
    <3>2. Owns(v) => Owns(w) /\ v.table = b /\ v.key = w.key
      <4>1. Owns(v) => Holds(v) /\ Active(v) BY DEF Owns, Holds, Active
      <4>q. QED BY <4>1, <3>1, <1>2
    <3>3. Calm => ~misuse' /\ ThreadLive(v) /\ Points(v)
      BY <1>1, <1>2, <1>4, <3>1 DEF ThreadLive, Points
    <3>4. UNCHANGED <<impl, raced, begun, keyTable, tables, strings>>
      BY <1>1, <1>6, <2>1, <2>5
    <3>q. QED BY <1>1, <1>4, <2>2, <3>1, <3>2, <3>3, <3>4, QuietKept
  <2>q. QED BY <2>4, <2>5
<1>q. QED BY <1>7, <1>8

LEMMA DeleteFieldHashtableKept ==
  ASSUME HashInv, NEW t \in Threads, DeleteFieldHashtable(t)
  PROVE  HashInv'
<1> DEFINE w == thread[t]
           b == w.table
           o == [tables[b] EXCEPT !.live = FALSE]
<1>1. /\ w \in Works /\ Sane(w, Len(tables), Len(strings)) /\ w.at = "delete" /\ Active(w) /\ Removes(w)
      /\ w.key \in Keys /\ w.op \in kinds /\ Len(tables) \in Nat /\ Len(strings) \in Nat
      /\ Calm => ~misuse /\ ThreadLive(w) /\ Points(w)
      /\ UNCHANGED <<impl, raced, begun, keyTable>>
      /\ misuse' = (misuse \/ \E s \in w.found : ~strings[s].live)
      /\ strings' = [s \in DOMAIN strings |-> IF s \in w.found THEN [strings[s] EXCEPT !.live = FALSE] ELSE strings[s]]
      /\ tables' = [tables EXCEPT ![b].live = FALSE]
      /\ Return(t, w)
  BY ThreadFacts DEF DeleteFieldHashtable, Rest, Active, Removes
<1>2. w.op = "Delete" /\ Owns(w) /\ Holds(w) /\ b \in Tables /\ w.found \subseteq Strings
  <2>1. w.op = "Delete" BY <1>1 DEF Sane, Active, Steps, kinds
  <2>2. Owns(w) /\ Holds(w) BY <2>1, <1>1 DEF Owns, Holds
  <2>q. QED BY <2>1, <2>2, <1>1 DEF Sane, Tables, Strings
<1>3. /\ tables' \in Seq(TableObjects) /\ Len(tables') = Len(tables)
      /\ \A c \in Tables, f \in Fields : tables'[c].fields[f] = Slot(c, f)
      /\ \A c \in Tables : c # b => tables'[c].live = tables[c].live
      /\ ~tables'[b].live
  <2>1. tables[b] \in TableObjects /\ tables \in Seq(TableObjects) /\ b \in 1..Len(tables)
    BY <1>2, ObjectTypes DEF Tables, HashInv, HashTypeOK
  <2>2. o \in TableObjects /\ o.fields = tables[b].fields /\ ~o.live BY <2>1 DEF TableObjects
  <2>3. tables' = [tables EXCEPT ![b] = o] BY <1>1
  <2> HIDE DEF o
  <2>4. /\ tables' \in Seq(TableObjects) /\ Len(tables') = Len(tables)
        /\ tables'[b] = o /\ \A c \in Tables : c # b => tables'[c] = tables[c]
    BY <2>1, <2>2, <2>3 DEF Tables
  <2>q. QED BY <2>2, <2>4 DEF Slot
<1>4. /\ strings' \in Seq(StringObjects) /\ Len(strings') = Len(strings)
      /\ \A s \in Strings : s \notin w.found => strings'[s] = strings[s]
  <2>1. strings \in Seq(StringObjects) /\ DOMAIN strings = Strings BY DEF HashInv, HashTypeOK, Strings
  <2>2. \A s \in Strings : strings[s] \in StringObjects BY ObjectTypes DEF Strings
  <2>3. \A s \in Strings : [strings[s] EXCEPT !.live = FALSE] \in StringObjects BY <2>2 DEF StringObjects
  <2>4. \A s \in Strings : strings'[s] \in StringObjects BY <1>1, <2>1, <2>2, <2>3
  <2>5. strings' = [s \in 1..Len(strings) |-> strings'[s]] BY <1>1, <2>1 DEF Strings
  <2>6. strings' \in Seq(StringObjects) /\ Len(strings') = Len(strings) BY <1>1, <2>4, <2>5 DEF Strings
  <2>q. QED BY <1>1, <2>1, <2>6
<1>5. misuse' \in BOOLEAN /\ (Calm => ~misuse')
  <2>1. ASSUME Calm, NEW s \in w.found PROVE strings[s].live
    <3>1. s # Nil BY <1>2 DEF Nil, Strings
    <3>2. \E f \in Fields : Slot(b, f) = s BY <1>1, <2>1 DEF Points
    <3>q. QED BY <1>2, <2>1, <3>1, <3>2, PointerLive
  <2>q. QED BY <1>1, <2>1 DEF HashInv, HashTypeOK
<1>6. PICK v \in Works : Moves(t, v) /\ v.at = "idle" /\ ~v.in
  BY <1>1, ReturnMoves DEF HashInv, HashTypeOK
<1>7. /\ ~Active(v) /\ ~Owns(v) /\ ~Removes(v) /\ ~Writes(v) /\ Sane(v, Len(tables), Len(strings))
      /\ ~Holds(v) /\ ~Scans(v) /\ v.at \notin {"follow", "followall", "delete"}
  BY <1>6, IdleFacts
<1>8. thread'[t] = v /\ \A u \in Threads : u # t => thread'[u] = thread[u] BY <1>6 DEF Moves
<1>9. KeysApart' BY <1>1, <1>7, <1>8 DEF HashInv, HeapSound, KeysApart
<1>10. StringsApart'
  <2>1. StringsApart /\ Tables' = Tables BY <1>3 DEF HashInv, HeapSound, Tables
  <2>q. QED BY <2>1, <1>3, <1>7, <1>8 DEF StringsApart, Slot
<1>11. /\ \A k \in Keys : keyTable[k] # Nil => keyTable[k] \in Tables
       /\ \A c \in Tables, f \in Fields : Slot(c, f) # Nil => Slot(c, f) \in Strings
       /\ \A u \in Threads : /\ Holds(thread[u]) => thread[u].table \in Tables
                             /\ Writes(thread[u]) => thread[u].string \in Strings
                             /\ Scans(thread[u]) => thread[u].todo \subseteq Tables
  BY <1>1 DEF HashInv, InRange, Sane, Strings, Tables, Nil
<1>12. ASSUME Calm' PROVE Safe'
  <2>1. Calm /\ Safe /\ ~misuse' BY <1>12, <1>1, <1>5 DEF Calm, FreesUnder, HashInv, HeapSound
  <2>2. Detached' BY <2>1, <1>1, <1>7, <1>8, DetachedKept DEF Safe
  <2>3. \A s \in w.found : \E f \in Fields : Slot(b, f) = s BY <2>1, <1>1 DEF Points
  <2>4. ASSUME NEW u \in Threads, u # t, Active(thread[u]) PROVE thread[u].op # "Scan"
    <3>1. SUFFICES ASSUME thread[u].op = "Scan" PROVE FALSE OBVIOUS
    <3>2. Overlap(thread[t], thread[u]) BY <3>1, <2>4, <1>1 DEF Overlap
    <3>3. {"Delete", "Scan"} \in raced BY <3>1, <3>2, <2>4, <1>2 DEF HashInv, OverlapsRecorded
    <3>4. FreesUnder({"Delete", "Scan"}) BY DEF FreesUnder
    <3>q. QED BY <2>1, <3>3, <3>4 DEF Calm
  <2>5. ASSUME NEW u \in Threads, u # t PROVE ThreadLive(thread[u])'
    <3>1. ThreadLive(thread[u]) BY <2>1 DEF Safe, AllLive
    <3>2. Holds(thread[u]) => thread[u].table # b
      <4>1. Holds(thread[u]) => Active(thread[u]) BY DEF Holds, Active
      <4>2. Holds(thread[u]) => Owns(thread[u]) BY <4>1, <2>4, <2>5 DEF Owns
      <4>q. QED BY <4>2, <2>1, <2>5, <1>1 DEF Safe, Detached
    <3>3. ~Scans(thread[u])
      <4>1. Scans(thread[u]) => Active(thread[u]) BY DEF Scans, Active
      <4>q. QED BY <4>1, <2>4, <2>5 DEF Scans
    <3>4. Writes(thread[u]) => thread[u].string \notin w.found
      BY <2>3, <1>2 DEF HashInv, HeapSound, StringsApart
    <3>q. QED BY <2>5, <3>1, <3>2, <3>3, <3>4, <1>3, <1>4, <1>8, <1>11 DEF ThreadLive, LiveTable, LiveString
  <2>6. ThreadLive(thread[t])' BY <1>7, <1>8 DEF ThreadLive
  <2>7. \A k \in Keys : keyTable[k] # Nil => tables'[keyTable[k]].live
    <3>1. \A k \in Keys : keyTable[k] # b BY <2>1, <1>1 DEF Safe, Detached
    <3>q. QED BY <3>1, <2>1, <1>3, <1>11 DEF Safe, AllLive, LiveTable
  <2>8. ASSUME NEW c \in Tables, NEW f \in Fields, tables'[c].live, Slot(c, f) # Nil
        PROVE  strings'[Slot(c, f)].live
    <3>1. c # b /\ tables[c].live BY <2>8, <1>3
    <3>2. strings[Slot(c, f)].live BY <2>8, <3>1, <2>1 DEF Safe, AllLive, LiveTable, LiveString
    <3>3. Slot(c, f) \notin w.found BY <2>3, <2>8, <3>1, <1>2 DEF HashInv, HeapSound, StringsApart
    <3>q. QED BY <2>8, <3>2, <3>3, <1>4, <1>11
  <2>9. AllLive'
    <3>1. \A u \in Threads : ThreadLive(thread[u])' BY <2>5, <2>6
    <3>2. \A c \in Tables', f \in Fields : (LiveTable(c)' /\ Slot(c, f)' # Nil) => LiveString(Slot(c, f))'
      BY <2>8, <1>3 DEF LiveTable, LiveString, Slot, Tables
    <3>q. QED BY <3>1, <3>2, <2>7, <1>1 DEF AllLive, LiveTable
  <2>10. ASSUME NEW u \in Threads PROVE Points(thread[u])'
    <3>1. CASE u = t BY <3>1, <1>7, <1>8 DEF Points
    <3>2. CASE thread[u].at \notin {"follow", "followall", "delete"} /\ u # t BY <3>2, <1>8 DEF Points
    <3>3. CASE thread[u].at \in {"follow", "followall", "delete"} /\ u # t
      <4>1. Points(thread[u]) /\ thread[u].table \in Tables /\ thread'[u] = thread[u]
        BY <3>3, <2>1, <1>8, <1>11 DEF Safe, Holds
      <4>q. QED BY <4>1, <1>3 DEF Points, Slot
    <3>q. QED BY <3>1, <3>2, <3>3
  <2>q. QED BY <2>1, <2>2, <2>9, <2>10 DEF Safe
<1>13. HeapSound' BY <1>9, <1>10, <1>12 DEF HeapSound
<1>14. /\ \A k \in Keys : keyTable'[k] \in 0..Len(tables')
       /\ \A c \in 1..Len(tables'), f \in Fields : tables'[c].fields[f] \in 0..Len(strings')
       /\ keyTable' \in [Keys -> Nat]
       /\ Len(tables) <= Len(tables') /\ Len(strings) <= Len(strings')
  BY <1>1, <1>3, <1>4 DEF HashInv, HashTypeOK, InRange, Tables
<1>15. Sane(v, Len(tables'), Len(strings')) BY <1>3, <1>4, <1>7
<1>q. QED BY <1>1, <1>3, <1>4, <1>5, <1>6, <1>7, <1>13, <1>14, <1>15, StepKept

-----------------------------------------------------------------------------
(* The invariant *)
LEMMA HashInvInit == HashInit => HashInv
<1> SUFFICES ASSUME HashInit PROVE HashInv OBVIOUS
<1>1. thread \in [Threads -> Works] /\ \A t \in Threads : thread[t].at = "idle" /\ ~thread[t].in
  BY IdleType DEF HashInit
<1>2. HashTypeOK
  <2>1. /\ impl \in Implementations /\ keyTable = [k \in Keys |-> 0] /\ tables = <<>> /\ strings = <<>>
        /\ misuse = FALSE /\ begun = 0
    BY DEF HashInit, Nil
  <2>2. <<>> \in Seq(TableObjects) /\ <<>> \in Seq(StringObjects) OBVIOUS
  <2>3. keyTable \in [Keys -> Nat] BY <2>1
  <2>q. QED BY <1>1, <2>1, <2>2, <2>3 DEF HashTypeOK
<1>3. \A t \in Threads, a, b \in Nat : /\ ~Active(thread[t]) /\ ~Owns(thread[t]) /\ ~Removes(thread[t]) /\ ~Writes(thread[t])
                               /\ Sane(thread[t], a, b) /\ ThreadLive(thread[t]) /\ Points(thread[t])
  BY <1>1, IdleFacts
<1>4. InRange BY <1>3 DEF HashInit, InRange, Tables, Nil
<1>5. LocksHeld BY <1>1 DEF LocksHeld
<1>6. OverlapsRecorded BY <1>3 DEF OverlapsRecorded, Overlap
<1>7. HeapSound
  <2>1. KeysApart /\ StringsApart BY <1>3 DEF HashInit, KeysApart, StringsApart, Tables
  <2>2. Safe BY <1>3 DEF HashInit, Safe, Detached, AllLive, Tables
  <2>q. QED BY <2>1, <2>2 DEF HeapSound
<1>q. QED BY <1>2, <1>4, <1>5, <1>6, <1>7 DEF HashInv

LEMMA HashInvStep == HashInv /\ [HashNext]_hashVars => HashInv'
<1> SUFFICES ASSUME HashInv, [HashNext]_hashVars PROVE HashInv' OBVIOUS
<1>1. CASE HashNext
  <2>1. PICK t \in Threads :
        \/ Begin(t) \/ Lock(t)
        \/ GetTable(t) \/ Attach(t) \/ CopyValue(t) \/ ReplaceField(t) \/ InsertField(t)
        \/ GetField(t) \/ FollowString(t) \/ GetEntries(t) \/ FollowAll(t) \/ ScanKeys(t) \/ ScanNext(t)
        \/ FreeText(t) \/ RemoveKey(t) \/ CompareFreedText(t) \/ Dismantle(t) \/ DeleteFieldHashtable(t)
    BY <1>1 DEF HashNext
  <2>q. QED BY <2>1, BeginKept, LockKept, GetTableKept, AttachKept, CopyValueKept, ReplaceFieldKept,
               InsertFieldKept, GetFieldKept, FollowStringKept, GetEntriesKept, FollowAllKept,
               ScanKeysKept, ScanNextKept, FreeTextKept, RemoveKeyKept, CompareFreedTextKept, DismantleKept,
               DeleteFieldHashtableKept
<1>2. CASE UNCHANGED hashVars
  <2>1. UNCHANGED <<impl, keyTable, tables, strings, thread, raced, misuse, begun>> BY <1>2 DEF hashVars
  <2>2. HashTypeOK' /\ InRange' BY <2>1 DEF HashInv, HashTypeOK, InRange, Tables, Slot
  <2>3. LocksHeld' BY <2>1 DEF HashInv, LocksHeld, Compatible, LockMode
  <2>4. OverlapsRecorded' BY <2>1 DEF HashInv, OverlapsRecorded
  <2>5. KeysApart' /\ StringsApart' BY <2>1 DEF HashInv, HeapSound, KeysApart, StringsApart, Tables, Slot
  <2>6. (Calm => Safe)'
    <3>1. Detached => Detached' BY <2>1 DEF Detached
    <3>2. AllLive => AllLive' BY <2>1 DEF AllLive, Tables, Slot, LiveTable, LiveString, ThreadLive
    <3>3. (\A t \in Threads : Points(thread[t])) => (\A t \in Threads : Points(thread[t]))'
      BY <2>1 DEF Points, Slot
    <3>q. QED BY <3>1, <3>2, <3>3, <2>1 DEF HashInv, HeapSound, Calm, FreesUnder, Safe
  <2>q. QED BY <2>2, <2>3, <2>4, <2>5, <2>6 DEF HashInv, HeapSound
<1>q. QED BY <1>1, <1>2

(* For all three tables of lib/, and any number of threads and operations:  *)
(* no two threads are in a pair of table operations that the container      *)
(* leaves unordered, and a freed table, value or key text is used only      *)
(* after an Update overlapped a Read or a Scan, or a Delete another         *)
(* operation, of one key (a Scan overlaps every key).  Two Deletes of a key *)
(* are such an overlap in the first TBB table only.                         *)
THEOREM MemoryUsedSafely == HashSpec => []MemorySafe
<1>1. HashInv => MemorySafe
  <2> SUFFICES ASSUME HashInv PROVE MemorySafe OBVIOUS
  <2>1. TablesRaceFree BY HeldOrdered DEF HashInv
  <2>2. UseAfterFreeNeedsRace BY DEF HashInv, HeapSound, Safe, Calm, UseAfterFreeNeedsRace
  <2>q. QED BY <2>1, <2>2 DEF MemorySafe
<1>q. QED BY HashInvInit, HashInvStep, <1>1, PTL DEF HashSpec

-----------------------------------------------------------------------------
(* The tables used on different keys at a time                              *)
Contents == [here : BOOLEAN, texts : Texts]
Zeros == [f \in Fields |-> 0]
Text(s) == IF s = Nil THEN 0 ELSE strings[s].text

(* Thread w is past the lookup of an operation that changes the record k.   *)
Changes(w, k) == Active(w) /\ w.at \notin {"lookup", "erase"} /\ w.op \in {"Update", "Insert", "Delete"} /\ w.key = k

(* What a thread that is alone at its key has done.                         *)
ReadsSoFar(w) ==
  /\ w.at = "lookup" => w.todo = Fields
  /\ w.at # "lookup" => w.table = keyTable[w.key]
  /\ w.at \in {"lookup", "get", "follow"} =>
       \A f \in Fields : w.result[f] = IF f \in w.todo THEN 0 ELSE content[w.key].texts[f]
  /\ w.at = "follow" => w.string = Slot(w.table, Field(w)) /\ w.string # Nil
  /\ w.at = "followall" => w.found = {Slot(w.table, f) : f \in Fields} \ {Nil}
WritesSoFar(w) ==
  /\ w.at \in {"lookup", "attach"} => w.found = {}
  /\ w.at = "attach" => /\ keyTable[w.key] = Nil /\ content[w.key] = Absent /\ w.fresh
                        /\ \A f \in Fields : Slot(w.table, f) = Nil
  /\ w.at \in {"copy", "replace", "insert"} =>
       /\ keyTable[w.key] = w.table
       /\ w.found \cap w.todo = {}
       /\ \A f \in Fields : Text(Slot(w.table, f)) = IF f \in w.found THEN w.n ELSE content[w.key].texts[f]
       /\ w.fresh => \A f \in Fields \ w.found : Slot(w.table, f) = Nil
  /\ w.at = "lookup" => ~w.fresh
  /\ Writes(w) => strings[w.string].text = w.n /\ strings[w.string].field = Field(w)
  /\ w.at = "insert" /\ w.op = "Update" => Slot(w.table, Field(w)) = Nil
DeletesSoFar(w) ==
  /\ Removes(w) => keyTable[w.key] = Nil
  /\ w.at = "delete" => \A f \in Fields : Slot(w.table, f) # Nil => Slot(w.table, f) \in w.found
SoFar(w) ==
  /\ Active(w) /\ w.op = "Read" => ReadsSoFar(w)
  /\ Active(w) /\ w.op \in {"Update", "Insert"} => WritesSoFar(w)
  /\ Active(w) /\ w.op = "Delete" => DeletesSoFar(w)

(* A record nobody is changing holds what the operations on it left.        *)
RecordsKept == \A k \in Keys : (\A t \in Threads : ~Changes(thread[t], k)) => Stored(k) = content[k]
FieldsNamed == \A b \in Tables, f \in Fields : Slot(b, f) # Nil => strings[Slot(b, f)].field = f
(* A live string is in a record, or with the thread that brings or takes it. *)
Placed(s) ==
  \/ \E k \in Keys, f \in Fields : keyTable[k] # Nil /\ Slot(keyTable[k], f) = s
  \/ \E t \in Threads : Writes(thread[t]) /\ thread[t].string = s
  \/ \E t \in Threads, f \in Fields : Removes(thread[t]) /\ Slot(thread[t].table, f) = s
Accounted == \A s \in Strings : LiveString(s) => Placed(s)
Sequential ==
  /\ \A t \in Threads : thread[t].right
  /\ \A t \in Threads : SoFar(thread[t])
  /\ RecordsKept /\ FieldsNamed /\ Accounted
SequentialInv == content \in [Keys -> Contents] /\ (raced = {} => Sequential)

(* Threads that overlap on no key.                                          *)
LEMMA AloneApart ==
  ASSUME HashInv, raced = {}, NEW t \in Threads, NEW u \in Threads, u # t, Active(thread[t]), Active(thread[u])
  PROVE  thread[u].key # thread[t].key /\ thread[u].op # "Scan" /\ thread[t].op # "Scan"
BY DEF HashInv, OverlapsRecorded, Overlap

LEMMA AloneCalm == raced = {} => Calm
BY DEF Calm

(* Where a step leaves its thread.                                          *)
Same(v, c) == /\ v.at = c.at /\ v.op = c.op /\ v.key = c.key /\ v.n = c.n /\ v.all = c.all /\ v.table = c.table
              /\ v.todo = c.todo /\ v.found = c.found /\ v.string = c.string /\ v.result = c.result
              /\ v.fresh = c.fresh /\ v.right = c.right

LEMMA Returned ==
  ASSUME thread \in [Threads -> Works], NEW t \in Threads, NEW d, Return(t, d),
         d.op = "Read" => d.result = content[d.key].texts
  PROVE  /\ \A u \in Threads : u # t => thread'[u] = thread[u]
         /\ thread'[t].at = "idle" /\ thread'[t].right
         /\ content' = [content EXCEPT ![d.key] = Effect(d)]
<1> DEFINE r == (d.op = "Read" => d.result = content[d.key].texts)
           v == [Idle EXCEPT !.right = r]
<1>1. r = TRUE OBVIOUS
<1> HIDE DEF r
<1>2. v.at = "idle" /\ v.right BY <1>1 DEF Idle
<1>3. thread' = [thread EXCEPT ![t] = v] BY DEF Return, r
<1> HIDE DEF v
<1>q. QED BY <1>2, <1>3 DEF Return

LEMMA Continued ==
  ASSUME thread \in [Threads -> Works], NEW t \in Threads, NEW d \in Works, Continue(t, d)
  PROVE  /\ \A u \in Threads : u # t => thread'[u] = thread[u]
         /\ thread'[t] \in Works /\ Same(thread'[t], d) /\ content' = content
<1> DEFINE v == [d EXCEPT !.in = FALSE]
<1>1. v \in Works /\ Same(v, d) BY DEF Works, Same
<1>2. thread' = [thread EXCEPT ![t] = v] /\ content' = content BY DEF Continue
<1> HIDE DEF v
<1>q. QED BY <1>1, <1>2

(* A thread that is idle owes nothing.                                      *)
LEMMA IdleOwes ==
  ASSUME NEW v, v.at = "idle"
  PROVE  SoFar(v) /\ (\A k : ~Changes(v, k)) /\ ~Writes(v) /\ ~Removes(v)
BY DEF SoFar, Changes, Writes, Removes, Active

(* A step that leaves the heap and the contents alone.                      *)
LEMMA SoFarSame ==
  ASSUME UNCHANGED <<keyTable, tables, strings, content>>, NEW u \in Threads, thread'[u] = thread[u], SoFar(thread[u])
  PROVE  SoFar(thread[u])'
BY DEF SoFar, ReadsSoFar, WritesSoFar, DeletesSoFar, Slot, Text, Writes, Removes, Active, Field

LEMMA QuietSequential ==
  ASSUME Sequential, UNCHANGED <<keyTable, tables, strings, content>>, NEW t \in Threads,
         \A u \in Threads : u # t => thread'[u] = thread[u],
         \A k \in Keys : Changes(thread[t], k) => Changes(thread'[t], k) \/ Stored(k) = content[k],
         Writes(thread[t]) => Writes(thread'[t]) /\ thread'[t].string = thread[t].string,
         Removes(thread[t]) => Removes(thread'[t]) /\ thread'[t].table = thread[t].table,
         thread'[t].right, SoFar(thread[t])'
  PROVE  Sequential'
<1>1. \A u \in Threads : thread'[u].right BY DEF Sequential
<1>2. ASSUME NEW u \in Threads PROVE SoFar(thread[u])'
  <2>1. CASE u = t BY <2>1
  <2>2. CASE u # t BY <2>2, SoFarSame DEF Sequential
  <2>q. QED BY <2>1, <2>2
<1>3. RecordsKept'
  <2> SUFFICES ASSUME NEW k \in Keys, \A u \in Threads : ~Changes(thread'[u], k) PROVE Stored(k)' = content'[k]
    BY DEF RecordsKept, Changes, Active
  <2>1. Stored(k)' = Stored(k) BY DEF Stored
  <2>2. CASE Changes(thread[t], k) BY <2>1, <2>2
  <2>3. CASE ~Changes(thread[t], k)
    <3>1. \A u \in Threads : ~Changes(thread[u], k) BY <2>3
    <3>q. QED BY <2>1, <3>1 DEF Sequential, RecordsKept
  <2>q. QED BY <2>2, <2>3
<1>4. FieldsNamed' BY DEF Sequential, FieldsNamed, Tables, Slot
<1>5. Accounted'
  <2> SUFFICES ASSUME NEW s \in Strings, LiveString(s)
               PROVE  \/ \E k \in Keys, f \in Fields : keyTable[k] # Nil /\ Slot(keyTable[k], f) = s
                      \/ \E u \in Threads : Writes(thread'[u]) /\ thread'[u].string = s
                      \/ \E u \in Threads, f \in Fields : Removes(thread'[u]) /\ Slot(thread'[u].table, f) = s
    BY DEF Accounted, Placed, Strings, LiveString, Slot, Writes, Removes
  <2>1. \/ \E k \in Keys, f \in Fields : keyTable[k] # Nil /\ Slot(keyTable[k], f) = s
        \/ \E u \in Threads : Writes(thread[u]) /\ thread[u].string = s
        \/ \E u \in Threads, f \in Fields : Removes(thread[u]) /\ Slot(thread[u].table, f) = s
    BY DEF Sequential, Accounted, Placed
  <2>2. CASE \E u \in Threads : Writes(thread[u]) /\ thread[u].string = s BY <2>2
  <2>3. CASE \E u \in Threads, f \in Fields : Removes(thread[u]) /\ Slot(thread[u].table, f) = s BY <2>3
  <2>q. QED BY <2>1, <2>2, <2>3
<1>q. QED BY <1>1, <1>2, <1>3, <1>4, <1>5 DEF Sequential

(* What holds of a record that only t can be changing.                      *)
LEMMA RecordFacts ==
  ASSUME HashInv, raced = {}, Sequential, NEW t \in Threads, Active(thread[t]), ~Changes(thread[t], thread[t].key)
  PROVE  Stored(thread[t].key) = content[thread[t].key]
<1>1. thread[t].key \in Keys BY ThreadFacts
<1>2. \A u \in Threads : ~Changes(thread[u], thread[t].key) BY AloneApart DEF Changes
<1>q. QED BY <1>1, <1>2 DEF Sequential, RecordsKept

LEMMA StoredFacts ==
  ASSUME NEW k, Stored(k) = content[k]
  PROVE  /\ keyTable[k] = Nil => content[k] = Absent
         /\ keyTable[k] # Nil => content[k].here /\ \A f \in Fields : content[k].texts[f] = Text(Slot(keyTable[k], f))
BY DEF Stored, Text, Slot

(* What Sequential says of the thread that steps.                           *)
LEMMA SequentialFacts ==
  ASSUME HashInv, Sequential, NEW t \in Threads
  PROVE  /\ thread \in [Threads -> Works] /\ thread[t].right /\ SoFar(thread[t])
         /\ keyTable \in [Keys -> Nat]
BY DEF Sequential, HashInv, HashTypeOK

(* The steps of any operation.                                              *)
LEMMA BeginSequential ==
  ASSUME HashInv, Sequential, NEW t \in Threads, Begin(t)
  PROVE  Sequential'
<1>1. PICK op \in kinds, key \in Keys, all \in BOOLEAN, todo \in {Fields, {CHOOSE f \in Fields : TRUE}} :
        /\ op \in {"Read", "Scan", "Insert", "Delete"} => todo = Fields
        /\ thread' = [thread EXCEPT ![t] = [Idle EXCEPT !.at = "lookup", !.op = op, !.key = key, !.todo = todo,
                                                        !.all = all, !.n = begun + 1]]
  <2>1. PICK op \in kinds, key \in Keys, all \in BOOLEAN, todo \in {Fields, {CHOOSE f \in Fields : TRUE}} :
          /\ op # "Read" => ~all
          /\ op \in {"Read", "Scan", "Insert", "Delete"} => todo = Fields
          /\ thread' = [thread EXCEPT ![t] = [Idle EXCEPT !.at = "lookup", !.op = op, !.key = key, !.todo = todo,
                                                          !.all = all, !.n = begun + 1]]
          /\ raced' = raced \cup Overlaps(t, op, key)
    BY ZenonT(30) DEF Begin
  <2>q. QED BY <2>1
<1> DEFINE c == [Idle EXCEPT !.at = "lookup", !.op = op, !.key = key, !.todo = todo, !.all = all, !.n = begun + 1]
<1>2. /\ c.at = "lookup" /\ c.op = op /\ c.key = key /\ c.todo = todo /\ c.result = Zeros /\ c.found = {}
      /\ c.fresh = FALSE /\ c.right = TRUE
  BY DEF Idle, Zeros
<1> HIDE DEF c
<1>3. thread'[t] = c /\ (\A u \in Threads : u # t => thread'[u] = thread[u])
      /\ UNCHANGED <<keyTable, tables, strings, content>> /\ thread[t].at = "idle"
  BY <1>1, SequentialFacts DEF Begin, c
<1>4. SoFar(thread[t])'
  <2>1. op = "Read" => todo = Fields BY <1>1
  <2>2. \A f \in Fields : c.result[f] = 0 BY <1>2 DEF Zeros
  <2>q. QED BY <2>1, <2>2, <1>2, <1>3 DEF SoFar, ReadsSoFar, WritesSoFar, DeletesSoFar, Writes, Removes
<1>5. (\A k : ~Changes(thread[t], k)) /\ ~Writes(thread[t]) /\ ~Removes(thread[t]) BY <1>3, IdleOwes
<1>q. QED BY <1>2, <1>3, <1>4, <1>5, QuietSequential

LEMMA SoFarAlike ==
  ASSUME NEW v, NEW c, Same(v, c), SoFar(c)
  PROVE  SoFar(v)
BY DEF Same, SoFar, ReadsSoFar, WritesSoFar, DeletesSoFar, Slot, Text, Writes, Removes, Active, Field

LEMMA LockSequential ==
  ASSUME HashInv, Sequential, NEW t \in Threads, Lock(t)
  PROVE  Sequential'
<1> DEFINE c == [thread[t] EXCEPT !.in = TRUE]
<1>1. Same(c, thread[t]) BY ThreadFacts DEF Same, Works
<1>2. thread' = [thread EXCEPT ![t] = c] /\ UNCHANGED <<keyTable, tables, strings, content>> BY DEF Lock
<1> HIDE DEF c
<1>3. thread'[t] = c /\ \A u \in Threads : u # t => thread'[u] = thread[u]
  BY <1>2, SequentialFacts
<1>4. SoFar(thread[t])'
  <2>1. SoFar(c) BY <1>1, SequentialFacts, SoFarAlike
  <2> HIDE DEF c
  <2>2. UNCHANGED <<keyTable, tables, strings, content>> /\ thread'[t] = c BY <1>2, <1>3
  <2>3. ReadsSoFar(c) => ReadsSoFar(thread[t])' BY ONLY <2>2 DEF ReadsSoFar, Slot, Field
  <2>4. WritesSoFar(c) => WritesSoFar(thread[t])' BY ONLY <2>2 DEF WritesSoFar, Slot, Text, Field, Writes
  <2>5. DeletesSoFar(c) => DeletesSoFar(thread[t])' BY ONLY <2>2 DEF DeletesSoFar, Slot, Removes
  <2>q. QED BY ONLY <2>1, <2>2, <2>3, <2>4, <2>5 DEF SoFar, Active
<1>5. c.right BY <1>1, SequentialFacts DEF Same
<1>q. QED BY <1>1, <1>2, <1>3, <1>4, <1>5, QuietSequential DEF Same, Changes, Active, Writes, Removes

(* A Read or a Scan that goes on leaves everything else alone.              *)
LEMMA ReaderSequential ==
  ASSUME HashInv, Sequential, NEW t \in Threads, thread[t].op \in {"Read", "Scan"}, Active(thread[t]),
         UNCHANGED <<keyTable, tables, strings>>, content' = content,
         \A u \in Threads : u # t => thread'[u] = thread[u],
         thread'[t].right, SoFar(thread[t])'
  PROVE  Sequential'
<1>1. /\ \A k : ~Changes(thread[t], k)
      /\ ~Writes(thread[t]) /\ ~Removes(thread[t])
  BY ThreadFacts DEF Changes, Writes, Removes, Sane, Active, Steps
<1>q. QED BY <1>1, QuietSequential

LEMMA ReaderReturns ==
  ASSUME HashInv, Sequential, content \in [Keys -> Contents], NEW t \in Threads,
         thread[t].op \in {"Read", "Scan"}, Active(thread[t]),
         UNCHANGED <<keyTable, tables, strings>>, NEW d, d.op = thread[t].op, d.key = thread[t].key, Return(t, d),
         d.op = "Read" => d.result = content[d.key].texts
  PROVE  Sequential'
<1>1. /\ \A u \in Threads : u # t => thread'[u] = thread[u]
      /\ thread'[t].at = "idle" /\ thread'[t].right
      /\ content' = [content EXCEPT ![d.key] = Effect(d)]
  BY Returned, SequentialFacts
<1>2. Effect(d) = content[d.key] /\ d.key \in Keys BY ThreadFacts DEF Effect
<1>3. content' = content BY <1>1, <1>2
<1>4. SoFar(thread[t])'
  BY <1>1 DEF SoFar, Active
<1>q. QED BY <1>1, <1>3, <1>4, ReaderSequential

LEMMA ReaderContinues ==
  ASSUME HashInv, Sequential, NEW t \in Threads,
         thread[t].op \in {"Read", "Scan"}, Active(thread[t]),
         UNCHANGED <<keyTable, tables, strings>>, NEW d \in Works, d.op = thread[t].op, d.right = thread[t].right,
         Continue(t, d), d.op = "Read" => ReadsSoFar(d)
  PROVE  Sequential'
<1>1. /\ \A u \in Threads : u # t => thread'[u] = thread[u]
      /\ Same(thread'[t], d) /\ content' = content
  BY Continued, SequentialFacts
<1>2. thread'[t].right BY <1>1, SequentialFacts DEF Same
<1>4. SoFar(thread[t])'
  BY <1>1 DEF SoFar, ReadsSoFar, Active, Same, Slot, Field
<1>q. QED BY <1>1, <1>2, <1>4, ReaderSequential

(* A Read: what it has found so far is in the record.                       *)
LEMMA ReaderFacts ==
  ASSUME HashInv, Sequential, NEW t \in Threads, thread[t].op = "Read", Active(thread[t])
  PROVE  /\ ReadsSoFar(thread[t]) /\ thread[t] \in Works /\ thread[t].key \in Keys
         /\ thread[t].at \in {"lookup", "get", "follow", "entries", "followall"}
         /\ thread[t].at # "lookup" => Holds(thread[t]) /\ thread[t].table \in Tables
         /\ thread[t].todo \subseteq Fields
         /\ thread[t].at \in {"get", "follow"} => thread[t].todo # {}
BY ThreadFacts, SequentialFacts DEF SoFar, Sane, Active, Holds, Steps, Tables, HasField

LEMMA ReaderKnows ==
  ASSUME HashInv, raced = {}, Sequential, NEW t \in Threads, thread[t].op = "Read", Active(thread[t])
  PROVE  /\ Stored(thread[t].key) = content[thread[t].key]
         /\ thread[t].at # "lookup" =>
              /\ keyTable[thread[t].key] = thread[t].table /\ thread[t].table # Nil
              /\ \A f \in Fields : content[thread[t].key].texts[f] = Text(Slot(thread[t].table, f))
<1>1. Stored(thread[t].key) = content[thread[t].key] BY RecordFacts DEF Changes
<1>2. thread[t].at # "lookup" => keyTable[thread[t].key] = thread[t].table /\ thread[t].table # Nil
  BY ReaderFacts DEF ReadsSoFar, Tables, Nil
<1>q. QED BY <1>1, <1>2, StoredFacts

LEMMA ResultType == ASSUME NEW w \in Works PROVE w.result \in [Fields -> Nat] /\ w.todo \subseteq Names
BY DEF Works, Texts

LEMMA ReadGetTableSequential ==
  ASSUME HashInv, raced = {}, Sequential, content \in [Keys -> Contents], NEW t \in Threads, GetTable(t),
         thread[t].op = "Read"
  PROVE  Sequential'
<1> DEFINE w == thread[t]
           b == keyTable[w.key]
           d == [w EXCEPT !.table = b]
<1>1. /\ w.at = "lookup" /\ Active(w) /\ UNCHANGED <<keyTable, strings>>
      /\ w \in Works /\ w.key \in Keys /\ ReadsSoFar(w) /\ b \in Nat
  BY ReaderFacts, SequentialFacts DEF GetTable, At, Active
<1>2. d \in Works /\ d.table = b /\ d.op = w.op /\ d.key = w.key /\ d.result = w.result /\ d.todo = w.todo
      /\ d.all = w.all /\ d.right = w.right
  BY <1>1 DEF Works
<1>3. CASE b = Nil
  <2>1. Return(t, d) /\ UNCHANGED tables BY <1>1, <1>3, <1>2 DEF GetTable, Get
  <2>2. content[w.key] = Absent BY <1>3, ReaderKnows, StoredFacts, <1>1
  <2>3. \A f \in Fields : d.result[f] = 0 BY <1>1, <1>2 DEF ReadsSoFar
  <2>4. d.result \in [Fields -> Nat] BY <1>2, ResultType
  <2>5. d.result = [f \in Fields |-> 0] BY <2>3, <2>4
  <2>6. d.result = content[w.key].texts BY <2>2, <2>5 DEF Absent
  <2> HIDE DEF d
  <2>q. QED BY <2>1, <2>6, <1>1, <1>2, ReaderReturns
<1>4. CASE b # Nil
  <2> DEFINE c == [d EXCEPT !.at = IF d.all THEN "entries" ELSE "get"]
  <2>1. Continue(t, c) /\ UNCHANGED tables BY <1>1, <1>2, <1>4 DEF GetTable, Get
  <2>2. /\ c \in Works /\ c.table = b /\ c.op = w.op /\ c.key = w.key /\ c.result = w.result /\ c.todo = w.todo
        /\ c.right = w.right /\ c.at \in {"entries", "get"}
    BY <1>1, <1>2 DEF Works, Places
  <2> HIDE DEF c, d
  <2>3. ReadsSoFar(c) BY <1>1, <2>2 DEF ReadsSoFar
  <2>q. QED BY <1>1, <2>1, <2>2, <2>3, ReaderContinues
<1>q. QED BY <1>3, <1>4

(* A Read that has settled one more field.                                  *)
LEMMA ReadOneMore ==
  ASSUME HashInv, raced = {}, Sequential, content \in [Keys -> Contents], NEW t \in Threads, thread[t].op = "Read",
         thread[t].at \in {"get", "follow"}, UNCHANGED <<keyTable, tables, strings>>,
         NEW d \in Works, d.op = "Read", d.key = thread[t].key, d.table = thread[t].table, d.right = thread[t].right,
         d.todo = thread[t].todo \ {Field(thread[t])},
         \A f \in Fields : d.result[f] = IF f \in d.todo THEN 0 ELSE content[d.key].texts[f],
         Next1(t, d, "get")
  PROVE  Sequential'
<1>1. Active(thread[t]) /\ d.table = keyTable[d.key] /\ d.key \in Keys
  BY ReaderFacts DEF Active, ReadsSoFar
<1>2. CASE d.todo = {}
  <2>1. Return(t, d) BY <1>2 DEF Next1
  <2>2. d.result \in [Fields -> Nat] BY ResultType
  <2>3. content[d.key].texts \in [Fields -> Nat] BY <1>1 DEF Contents, Texts
  <2>4. d.result = content[d.key].texts BY <1>2, <2>2, <2>3
  <2>q. QED BY <1>1, <2>1, <2>4, ReaderReturns
<1>3. CASE d.todo # {}
  <2> DEFINE c == [d EXCEPT !.at = "get"]
  <2>1. Continue(t, c) BY <1>3 DEF Next1
  <2>2. /\ c \in Works /\ c.table = d.table /\ c.op = d.op /\ c.key = d.key /\ c.result = d.result /\ c.todo = d.todo
        /\ c.right = d.right /\ c.at = "get"
    BY DEF Works, Places
  <2> HIDE DEF c
  <2>3. ReadsSoFar(c) BY <1>1, <2>2 DEF ReadsSoFar
  <2>q. QED BY <1>1, <2>1, <2>2, <2>3, ReaderContinues
<1>q. QED BY <1>2, <1>3

LEMMA GetFieldSequential ==
  ASSUME HashInv, raced = {}, Sequential, content \in [Keys -> Contents], NEW t \in Threads, GetField(t)
  PROVE  Sequential'
<1> DEFINE w == thread[t]
           s == Slot(w.table, Field(w))
           d == Done(w)
<1>0. w.at = "get" /\ Active(w) /\ UNCHANGED <<keyTable, tables, strings>> /\ w.op = "Read"
  BY ThreadFacts DEF GetField, At, Active, Sane, Steps, kinds
<1>1. /\ w \in Works /\ w.key \in Keys /\ ReadsSoFar(w) /\ w.table \in Tables /\ w.todo \subseteq Fields /\ w.todo # {}
      /\ content[w.key].texts[Field(w)] = Text(s)
  <2>1. w \in Works /\ w.key \in Keys /\ ReadsSoFar(w) /\ w.table \in Tables /\ w.todo \subseteq Fields /\ w.todo # {}
    BY <1>0, ReaderFacts
  <2>2. Field(w) \in Fields BY <2>1 DEF Field
  <2>q. QED BY <2>1, <2>2, <1>0, ReaderKnows
<1>2. Field(w) \in w.todo /\ Field(w) \in Fields BY <1>1 DEF Field
<1>3. CASE s = Nil
  <2>1. Next1(t, d, "get") BY <1>3 DEF GetField, Get, Slot
  <2>2. /\ d \in Works /\ d.op = w.op /\ d.key = w.key /\ d.table = w.table /\ d.todo = w.todo \ {Field(w)}
        /\ d.right = w.right /\ d.result = w.result
    BY <1>1, <1>2 DEF Done, Works, Names
  <2> HIDE DEF d
  <2>3. Text(s) = 0 BY <1>3 DEF Text
  <2>4. \A f \in Fields : w.result[f] = IF f \in w.todo THEN 0 ELSE content[w.key].texts[f]
    BY <1>0, <1>1 DEF ReadsSoFar
  <2>5. \A f \in Fields : d.result[f] = IF f \in d.todo THEN 0 ELSE content[d.key].texts[f]
    BY <2>2, <2>3, <2>4, <1>1, <1>2
  <2>q. QED BY <1>0, <2>1, <2>2, <2>5, ReadOneMore
<1>4. CASE s # Nil
  <2> DEFINE c == [w EXCEPT !.at = "follow", !.string = s]
  <2>1. Continue(t, c) BY <1>4 DEF GetField, Get, Slot
  <2>2. s \in Nat BY <1>1, <1>2 DEF HashInv, InRange
  <2>3. /\ c \in Works /\ c.at = "follow" /\ c.op = w.op /\ c.key = w.key /\ c.table = w.table /\ c.todo = w.todo
        /\ c.string = s /\ c.right = w.right /\ c.result = w.result
    BY <1>1, <2>2 DEF Works, Places
  <2> HIDE DEF c
  <2>4. ReadsSoFar(c) BY <1>0, <1>1, <1>4, <2>3 DEF ReadsSoFar, Field
  <2>q. QED BY <1>0, <2>1, <2>3, <2>4, ReaderContinues
<1>q. QED BY <1>3, <1>4

LEMMA FollowStringSequential ==
  ASSUME HashInv, raced = {}, Sequential, content \in [Keys -> Contents], NEW t \in Threads, FollowString(t)
  PROVE  Sequential'
<1> DEFINE w == thread[t]
           x == strings[w.string].text
           e == [w EXCEPT !.result[Field(w)] = x]
           d == Done(e)
<1>0. w.at = "follow" /\ Active(w) /\ UNCHANGED <<keyTable, tables, strings>> /\ w.op = "Read"
  BY ThreadFacts DEF FollowString, Active, Sane, Steps, kinds
<1>1. w \in Works /\ w.key \in Keys /\ ReadsSoFar(w) /\ w.todo \subseteq Fields /\ w.todo # {}
  BY <1>0, ReaderFacts
<1>2. Field(w) \in w.todo /\ Field(w) \in Fields BY <1>1 DEF Field
<1>3. content[w.key].texts[Field(w)] = x /\ x \in Nat
  <2>1. w.string = Slot(w.table, Field(w)) /\ w.string # Nil BY <1>0, <1>1 DEF ReadsSoFar
  <2>2. content[w.key].texts[Field(w)] = Text(Slot(w.table, Field(w))) BY <1>0, <1>2, ReaderKnows
  <2>3. x \in Nat BY <1>0, ThreadFacts, ObjectTypes DEF Sane
  <2>q. QED BY <2>1, <2>2, <2>3 DEF Text
<1> HIDE DEF x
<1>4. Next1(t, d, "get") BY DEF FollowString, x
<1>5. /\ e \in Works /\ e.op = w.op /\ e.key = w.key /\ e.table = w.table /\ e.todo = w.todo /\ e.right = w.right
      /\ e.result = [w.result EXCEPT ![Field(w)] = x] /\ e.found = w.found
  BY <1>1, <1>2, <1>3 DEF Works, Texts
<1>6. Field(e) = Field(w) BY <1>5 DEF Field
<1> HIDE DEF e
<1>7. /\ d \in Works /\ d.op = w.op /\ d.key = w.key /\ d.table = w.table /\ d.todo = w.todo \ {Field(w)}
      /\ d.right = w.right /\ d.result = [w.result EXCEPT ![Field(w)] = x]
  <2> DEFINE rest == e.todo \ {Field(w)}
             got == e.found \cup {Field(w)}
  <2>1. d = [e EXCEPT !.todo = rest, !.found = got] BY <1>6 DEF Done
  <2>2. rest \in SUBSET Names /\ got \in SUBSET Names BY <1>2, <1>5 DEF Works, Names
  <2> HIDE DEF d, rest, got
  <2>3. d \in Works BY <2>1, <2>2, <1>5 DEF Works
  <2>4. d.op = e.op /\ d.key = e.key /\ d.table = e.table /\ d.todo = e.todo \ {Field(w)} /\ d.right = e.right
        /\ d.result = e.result
    BY <2>1, <1>5 DEF Works, rest
  <2>q. QED BY <2>3, <2>4, <1>5
<1> HIDE DEF d
<1>8. \A f \in Fields : w.result[f] = IF f \in w.todo THEN 0 ELSE content[w.key].texts[f]
  BY <1>0, <1>1 DEF ReadsSoFar
<1>9. w.result \in [Fields -> Nat] BY <1>1, ResultType
<1>10. \A f \in Fields : d.result[f] = IF f \in d.todo THEN 0 ELSE content[d.key].texts[f]
  BY <1>2, <1>3, <1>7, <1>8, <1>9
<1>q. QED BY <1>0, <1>4, <1>7, <1>10, ReadOneMore

LEMMA GetEntriesSequential ==
  ASSUME HashInv, raced = {}, Sequential, NEW t \in Threads, GetEntries(t)
  PROVE  Sequential'
<1> DEFINE w == thread[t]
           F == {tables[w.table].fields[f] : f \in Fields} \ {Nil}
           c == [w EXCEPT !.at = "followall", !.found = F]
<1>0. /\ w.at = "entries" /\ Active(w) /\ UNCHANGED <<keyTable, tables, strings>> /\ w.op \in {"Read", "Scan"}
      /\ Continue(t, c) /\ w \in Works /\ w.table \in Tables
  BY ThreadFacts DEF GetEntries, At, Active, Sane, Steps, kinds, Holds, Tables
<1>1. F \in SUBSET Names
  <2>1. \A f \in Fields : tables[w.table].fields[f] \in Nat BY <1>0 DEF HashInv, InRange, Slot
  <2>q. QED BY <2>1 DEF Names
<1>2. F = {Slot(w.table, f) : f \in Fields} \ {Nil} BY DEF Slot
<1> HIDE DEF F
<1>3. c \in Works /\ c.at = "followall" /\ c.op = w.op /\ c.key = w.key /\ c.table = w.table /\ c.found = F /\ c.right = w.right
  BY <1>0, <1>1 DEF Works, Places
<1> HIDE DEF c
<1>4. w.op = "Read" => ReadsSoFar(c)
  <2> SUFFICES ASSUME w.op = "Read" PROVE ReadsSoFar(c) OBVIOUS
  <2>1. w.table = keyTable[w.key] BY <1>0, ReaderFacts DEF ReadsSoFar
  <2>q. QED BY <2>1, <1>2, <1>3 DEF ReadsSoFar
<1>q. QED BY <1>0, <1>3, <1>4, ReaderContinues

LEMMA FollowAllSequential ==
  ASSUME HashInv, raced = {}, Sequential, content \in [Keys -> Contents], NEW t \in Threads, FollowAll(t)
  PROVE  Sequential'
<1> DEFINE w == thread[t]
           seen == [f \in Fields |-> IF \E s \in w.found : strings[s].field = f
                                    THEN strings[CHOOSE s \in w.found : strings[s].field = f].text ELSE 0]
<1>0. /\ w.at = "followall" /\ Active(w) /\ UNCHANGED <<keyTable, tables, strings>> /\ w.op \in {"Read", "Scan"}
      /\ w \in Works /\ w.table \in Tables /\ w.key \in Keys /\ w.found \subseteq Strings
  BY ThreadFacts DEF FollowAll, Active, Sane, Steps, kinds, Holds, Tables, Strings
<1>s. \A s \in Strings : strings[s].text \in Nat BY ObjectTypes DEF Strings
<1>1. CASE w.op = "Read"
  <2>1. w.found = {Slot(w.table, f) : f \in Fields} \ {Nil} /\ w.table = keyTable[w.key] /\ w.table # Nil
    BY <1>0, <1>1, ReaderFacts, ReaderKnows DEF ReadsSoFar
  <2>2. \A f \in Fields : content[w.key].texts[f] = Text(Slot(w.table, f)) BY <1>0, <1>1, ReaderKnows
  <2>3. ASSUME NEW f \in Fields PROVE seen[f] = content[w.key].texts[f]
    <3>1. \A g \in Fields : Slot(w.table, g) # Nil => strings[Slot(w.table, g)].field = g
      BY <1>0 DEF Sequential, FieldsNamed
    <3>2. \A s \in w.found : strings[s].field = f => s = Slot(w.table, f) BY <2>1, <3>1
    <3>3. CASE Slot(w.table, f) = Nil
      <4>1. ~\E s \in w.found : strings[s].field = f BY <2>1, <3>2, <3>3
      <4>2. seen[f] = 0 BY <4>1
      <4>q. QED BY <2>2, <3>3, <4>2 DEF Text
    <3>4. CASE Slot(w.table, f) # Nil
      <4>1. Slot(w.table, f) \in w.found /\ strings[Slot(w.table, f)].field = f BY <2>1, <3>1, <3>4
      <4>2. (CHOOSE s \in w.found : strings[s].field = f) = Slot(w.table, f) BY <4>1, <3>2
      <4>3. seen[f] = strings[Slot(w.table, f)].text BY <4>1, <4>2
      <4>q. QED BY <2>2, <3>4, <4>3 DEF Text
    <3>q. QED BY <3>3, <3>4
  <2>4. content[w.key].texts \in [Fields -> Nat] BY <1>0 DEF Contents, Texts
  <2>5. seen = content[w.key].texts BY <2>3, <2>4
  <2> DEFINE d == [w EXCEPT !.result = seen]
  <2>6. Return(t, d) BY <1>1 DEF FollowAll
  <2> HIDE DEF seen
  <2>7. d.op = w.op /\ d.key = w.key /\ d.result = seen BY <1>0 DEF Works
  <2> HIDE DEF d
  <2>q. QED BY <1>0, <2>5, <2>6, <2>7, ReaderReturns
<1>2. CASE w.op = "Scan"
  <2> DEFINE c == [w EXCEPT !.at = "scan", !.found = {}]
  <2>1. Continue(t, c) BY <1>2 DEF FollowAll
  <2>2. c \in Works /\ c.op = w.op /\ c.right = w.right BY <1>0 DEF Works, Places
  <2> HIDE DEF c
  <2>q. QED BY <1>0, <1>2, <2>1, <2>2, ReaderContinues
<1>q. QED BY <1>0, <1>1, <1>2

LEMMA ScanKeysSequential ==
  ASSUME HashInv, Sequential, NEW t \in Threads, ScanKeys(t)
  PROVE  Sequential'
<1> DEFINE w == thread[t]
<1>0. /\ w.at = "lookup" /\ Active(w) /\ UNCHANGED <<keyTable, tables, strings>> /\ w.op = "Scan"
      /\ w \in Works /\ keyTable \in [Keys -> Nat] /\ w.key \in Keys
  BY ThreadFacts DEF ScanKeys, Active, At, HashInv, HashTypeOK
<1>1. PICK S \in EntriesFrom(keyTable, w.key, ScanLength) :
        Continue(t, [w EXCEPT !.at = "scan", !.todo = {keyTable[k] : k \in S}])
  BY DEF ScanKeys
<1>2. S \subseteq Keys BY <1>0, <1>1 DEF EntriesFrom
<1> DEFINE B == {keyTable[k] : k \in S}
           c == [w EXCEPT !.at = "scan", !.todo = B]
<1>3. B \in SUBSET Names BY <1>0, <1>2 DEF Names
<1> HIDE DEF B
<1>4. c \in Works /\ c.op = w.op /\ c.right = w.right BY <1>0, <1>3 DEF Works, Places
<1>5. Continue(t, c) BY <1>1 DEF B
<1> HIDE DEF c
<1>q. QED BY <1>0, <1>4, <1>5, ReaderContinues

LEMMA ScanNextSequential ==
  ASSUME HashInv, Sequential, content \in [Keys -> Contents], NEW t \in Threads, ScanNext(t)
  PROVE  Sequential'
<1> DEFINE w == thread[t]
<1>0. /\ w.at = "scan" /\ Active(w) /\ UNCHANGED <<keyTable, tables, strings>> /\ w.op = "Scan"
      /\ w \in Works /\ Scans(w) /\ w.todo \subseteq 1..Len(tables)
  <2>1. w.at = "scan" /\ Active(w) /\ UNCHANGED <<keyTable, tables, strings>> /\ w \in Works
        /\ Sane(w, Len(tables), Len(strings)) /\ w.op \in kinds
    BY ThreadFacts DEF ScanNext, Active
  <2>2. w.op = "Scan" BY <2>1 DEF Sane, Steps, kinds
  <2>q. QED BY <2>1, <2>2 DEF Sane, Scans
<1>1. CASE w.todo = {} BY <1>0, <1>1, ReaderReturns DEF ScanNext
<1>2. CASE w.todo # {}
  <2>1. PICK b \in w.todo : Continue(t, [w EXCEPT !.at = "entries", !.table = b, !.todo = @ \ {b}])
    BY <1>2 DEF ScanNext
  <2> DEFINE B == w.todo \ {b}
             c == [w EXCEPT !.at = "entries", !.table = b, !.todo = B]
  <2>2. B \in SUBSET Names /\ b \in Nat BY <1>0, <2>1 DEF Works
  <2>3. Continue(t, c) BY <2>1
  <2> HIDE DEF B
  <2>4. c \in Works /\ c.op = w.op /\ c.right = w.right BY <1>0, <2>2 DEF Works, Places
  <2> HIDE DEF c
  <2>q. QED BY <1>0, <2>3, <2>4, ReaderContinues
<1>q. QED BY <1>1, <1>2

(* A step of t that changes the record k, which nobody else is at, and the  *)
(* table t has for it, only.                                                *)
Touches(t, k) ==
  /\ \A u \in Threads : u # t => thread'[u] = thread[u]
  /\ \A j \in Keys \ {k} : keyTable'[j] = keyTable[j] /\ content'[j] = content[j]
  /\ Len(tables) <= Len(tables') /\ Len(strings) <= Len(strings')
  /\ \A b \in Tables, f \in Fields : tables'[b].fields[f] = Slot(b, f) \/ (Owns(thread[t]) /\ b = thread[t].table)
  /\ \A s \in Strings : strings'[s].text = strings[s].text /\ strings'[s].field = strings[s].field

LEMMA OthersSoFar ==
  ASSUME HashInv, raced = {}, Sequential, NEW t \in Threads, Active(thread[t]), Touches(t, thread[t].key),
         NEW u \in Threads, u # t
  PROVE  SoFar(thread[u])'
<1> DEFINE w == thread[u]
<1>1. CASE ~Active(w) BY <1>1 DEF Touches, SoFar, Active
<1>2. CASE Active(w)
  <2>1. w.key # thread[t].key /\ w.key \in Keys /\ w.op # "Scan" /\ Sane(w, Len(tables), Len(strings)) /\ thread'[u] = w
    BY <1>2, AloneApart, ThreadFacts DEF Touches
  <2>2. keyTable'[w.key] = keyTable[w.key] /\ content'[w.key] = content[w.key] BY <2>1 DEF Touches
  <2>3. Holds(w) => w.table \in Tables /\ \A f \in Fields : tables'[w.table].fields[f] = Slot(w.table, f)
    <3> SUFFICES ASSUME Holds(w) PROVE w.table \in Tables /\ \A f \in Fields : tables'[w.table].fields[f] = Slot(w.table, f)
      OBVIOUS
    <3>1. w.table \in Tables /\ Owns(w) BY <2>1 DEF Sane, Tables, Owns
    <3>2. ~(Owns(thread[t]) /\ w.table = thread[t].table) BY <2>1, <3>1 DEF HashInv, HeapSound, KeysApart
    <3>q. QED BY <3>1, <3>2 DEF Touches
  <2>4. Holds(w) => \A f \in Fields : Text(Slot(w.table, f))' = Text(Slot(w.table, f))
    <3> SUFFICES ASSUME Holds(w), NEW f \in Fields PROVE Text(Slot(w.table, f))' = Text(Slot(w.table, f))
      OBVIOUS
    <3>1. Slot(w.table, f) \in 0..Len(strings) BY <2>3 DEF HashInv, InRange
    <3>2. tables'[w.table].fields[f] = Slot(w.table, f) BY <2>3
    <3>3. CASE Slot(w.table, f) = Nil BY <3>2, <3>3, <2>1 DEF Text, Slot
    <3>4. CASE Slot(w.table, f) # Nil
      <4>1. Slot(w.table, f) \in Strings BY <3>1, <3>4 DEF Strings, Nil
      <4>2. strings'[Slot(w.table, f)].text = strings[Slot(w.table, f)].text BY <4>1 DEF Touches
      <4>q. QED BY <3>2, <3>4, <4>2, <2>1 DEF Text, Slot
    <3>q. QED BY <3>3, <3>4
  <2>5. Writes(w) => w.string \in Strings /\ strings'[w.string].text = strings[w.string].text
                     /\ strings'[w.string].field = strings[w.string].field
    BY <2>1 DEF Sane, Strings, Touches
  <2>6. SoFar(w) BY DEF Sequential
  <2>7. w.op = "Read" => ReadsSoFar(thread[u])'
    <3> SUFFICES ASSUME w.op = "Read" PROVE ReadsSoFar(thread[u])' OBVIOUS
    <3>1. ReadsSoFar(w) /\ (w.at # "lookup" => Holds(w)) /\ (w.at = "follow" => Field(w) \in Fields)
      BY <1>2, <2>6, ReaderFacts DEF SoFar, Sequential, Field
    <3>2. w.at = "follow" => w.string = tables'[w.table].fields[Field(w)]
      BY <3>1, <2>3 DEF ReadsSoFar
    <3>3. w.at = "followall" => {tables'[w.table].fields[f] : f \in Fields} = {Slot(w.table, f) : f \in Fields}
      BY <3>1, <2>3
    <3>4. w.table = keyTable[w.key] \/ w.at = "lookup" BY <3>1 DEF ReadsSoFar
    <3>5. (w.at = "lookup" => w.todo = Fields)' /\ (w.at # "lookup" => w.table = keyTable[w.key])'
      BY <3>1, <3>4, <2>1, <2>2 DEF ReadsSoFar
    <3>6. (w.at \in {"lookup", "get", "follow"} =>
             \A f \in Fields : w.result[f] = IF f \in w.todo THEN 0 ELSE content[w.key].texts[f])'
      BY <3>1, <2>1, <2>2 DEF ReadsSoFar
    <3>7. (w.at = "follow" => w.string = Slot(w.table, Field(w)) /\ w.string # Nil)'
      BY <3>1, <3>2, <2>1 DEF ReadsSoFar, Slot, Field
    <3>8. (w.at = "followall" => w.found = {Slot(w.table, f) : f \in Fields} \ {Nil})'
      <4>1. w.at = "followall" => w.found = {Slot(w.table, f) : f \in Fields} \ {Nil} BY <3>1 DEF ReadsSoFar
      <4>q. QED BY <4>1, <3>3, <2>1 DEF Slot
    <3>q. QED BY <3>5, <3>6, <3>7, <3>8 DEF ReadsSoFar
  <2>8. w.op \in {"Update", "Insert"} => WritesSoFar(thread[u])'
    <3> SUFFICES ASSUME w.op \in {"Update", "Insert"} PROVE WritesSoFar(thread[u])' OBVIOUS
    <3>1. WritesSoFar(w) BY <1>2, <2>6 DEF SoFar
    <3>2. w.at \in {"attach", "copy", "replace", "insert"} => Holds(w) BY DEF Holds
    <3>3. w.at = "insert" => Field(w) \in Fields BY <2>1, <1>2 DEF Sane, HasField, Field
    <3>4. \A f \in Fields : Holds(w) => Slot(w.table, f)' = Slot(w.table, f) BY <2>1, <2>3 DEF Slot
    <3>5. (w.at \in {"lookup", "attach"} => w.found = {})' /\ (w.at = "lookup" => ~w.fresh)' 
      BY <2>1, <3>1 DEF WritesSoFar
    <3>6. (w.at = "attach" => /\ keyTable[w.key] = Nil /\ content[w.key] = Absent /\ w.fresh
                              /\ \A f \in Fields : Slot(w.table, f) = Nil)'
      BY <2>1, <2>2, <3>1, <3>2, <3>4 DEF WritesSoFar
    <3>7. (w.at \in {"copy", "replace", "insert"} =>
             /\ keyTable[w.key] = w.table
             /\ w.found \cap w.todo = {}
             /\ \A f \in Fields : Text(Slot(w.table, f)) = IF f \in w.found THEN w.n ELSE content[w.key].texts[f]
             /\ w.fresh => \A f \in Fields \ w.found : Slot(w.table, f) = Nil)'
      BY <2>1, <2>2, <2>4, <3>1, <3>2, <3>4 DEF WritesSoFar
    <3>8. (Writes(w) => strings[w.string].text = w.n /\ strings[w.string].field = Field(w))'
      BY <2>1, <2>5, <3>1 DEF WritesSoFar, Field, Writes
    <3>9. (w.at = "insert" /\ w.op = "Update" => Slot(w.table, Field(w)) = Nil)'
      BY <2>1, <3>1, <3>2, <3>3, <3>4 DEF WritesSoFar, Field
    <3>q. QED BY <3>5, <3>6, <3>7, <3>8, <3>9 DEF WritesSoFar
  <2>9. w.op = "Delete" => DeletesSoFar(thread[u])'
    <3>1. Removes(w) => Holds(w) BY DEF Removes, Holds
    <3>q. QED BY <3>1, <1>2, <2>1, <2>2, <2>3, <2>6 DEF SoFar, DeletesSoFar, Removes, Slot
  <2>q. QED BY <1>2, <2>1, <2>7, <2>8, <2>9 DEF SoFar
<1>q. QED BY <1>1, <1>2

LEMMA OtherRecordsKept ==
  ASSUME HashInv, raced = {}, Sequential, NEW t \in Threads, Active(thread[t]), Touches(t, thread[t].key),
         NEW k \in Keys, k # thread[t].key, \A u \in Threads : ~Changes(thread[u], k)'
  PROVE  (Stored(k) = content[k])'
<1>1. \A u \in Threads : ~Changes(thread[u], k) BY DEF Changes, Touches, Active
<1>2. Stored(k) = content[k] BY <1>1 DEF Sequential, RecordsKept
<1>3. keyTable'[k] = keyTable[k] /\ content'[k] = content[k] BY DEF Touches
<1> DEFINE b == keyTable[k]
<1>4. CASE b = Nil BY <1>2, <1>3, <1>4 DEF Stored
<1>5. CASE b # Nil
  <2>1. b \in Tables BY <1>5 DEF HashInv, InRange, Tables, Nil
  <2>2. ~(Owns(thread[t]) /\ b = thread[t].table) BY DEF HashInv, HeapSound, KeysApart
  <2>3. \A f \in Fields : tables'[b].fields[f] = Slot(b, f) BY <2>1, <2>2 DEF Touches
  <2>4. \A f \in Fields : Slot(b, f) # Nil => strings'[Slot(b, f)].text = strings[Slot(b, f)].text
    <3>1. \A f \in Fields : Slot(b, f) # Nil => Slot(b, f) \in Strings BY <2>1 DEF HashInv, InRange, Strings, Nil
    <3>q. QED BY <3>1 DEF Touches
  <2>5. \A f \in Fields : (IF tables'[b].fields[f] = Nil THEN 0 ELSE strings'[tables'[b].fields[f]].text)
                          = (IF tables[b].fields[f] = Nil THEN 0 ELSE strings[tables[b].fields[f]].text)
    BY <2>3, <2>4 DEF Slot
  <2>6. [f \in Fields |-> IF tables'[b].fields[f] = Nil THEN 0 ELSE strings'[tables'[b].fields[f]].text]
        = [f \in Fields |-> IF tables[b].fields[f] = Nil THEN 0 ELSE strings[tables[b].fields[f]].text]
    BY <2>5
  <2>7. Stored(k)' = [here |-> TRUE, texts |-> [f \in Fields |-> IF tables'[b].fields[f] = Nil THEN 0
                                                                ELSE strings'[tables'[b].fields[f]].text]]
    BY <1>3, <1>5 DEF Stored
  <2>8. Stored(k) = [here |-> TRUE, texts |-> [f \in Fields |-> IF tables[b].fields[f] = Nil THEN 0
                                                              ELSE strings[tables[b].fields[f]].text]]
    BY <1>5 DEF Stored
  <2>q. QED BY <1>2, <1>3, <2>6, <2>7, <2>8
<1>q. QED BY <1>4, <1>5

(* What a step of t that changes its record owes.                           *)
LEMMA TouchSequential ==
  ASSUME HashInv, raced = {}, Sequential, NEW t \in Threads, Active(thread[t]),
         NEW k \in Keys, k = thread[t].key, Touches(t, k),
         thread'[t].right, SoFar(thread[t])',
         Changes(thread'[t], k) \/ (Stored(k) = content[k])',
         FieldsNamed', Accounted'
  PROVE  Sequential'
<1>1. \A u \in Threads : thread'[u].right BY DEF Sequential, Touches
<1>2. \A u \in Threads : SoFar(thread[u])' BY OthersSoFar
<1>3. ASSUME NEW j \in Keys, \A u \in Threads : ~Changes(thread[u], j)' PROVE (Stored(j) = content[j])'
  <2>1. CASE j # k BY <1>3, <2>1, OtherRecordsKept
  <2>2. CASE j = k
    <3>1. ~Changes(thread'[t], k) BY <1>3, <2>2 DEF Changes, Active
    <3>2. (Stored(k) = content[k])' BY <3>1
    <3>q. QED BY <3>2, <2>2
  <2>q. QED BY <2>1, <2>2
<1>4. RecordsKept' BY <1>3 DEF RecordsKept
<1>q. QED BY <1>1, <1>2, <1>4 DEF Sequential

(* The invariant of the strings after such a step.                          *)
LEMMA NamedKept ==
  ASSUME HashInv, Sequential, NEW t \in Threads, NEW k \in Keys, Touches(t, k),
         \A b \in 1..Len(tables'), f \in Fields :
            tables'[b].fields[f] # Nil => \/ b \in Tables /\ tables'[b].fields[f] = Slot(b, f)
                                          \/ strings'[tables'[b].fields[f]].field = f
  PROVE  FieldsNamed'
<1> SUFFICES ASSUME NEW b \in 1..Len(tables'), NEW f \in Fields, tables'[b].fields[f] # Nil
             PROVE  strings'[tables'[b].fields[f]].field = f
  BY DEF FieldsNamed, Tables, Slot
<1>1. CASE b \in Tables /\ tables'[b].fields[f] = Slot(b, f)
  <2>1. strings[Slot(b, f)].field = f BY <1>1 DEF Sequential, FieldsNamed
  <2>2. Slot(b, f) \in Strings BY <1>1 DEF HashInv, InRange, Strings, Nil
  <2>q. QED BY <1>1, <2>1, <2>2 DEF Touches
<1>q. QED BY <1>1

LEMMA AccountedKept ==
  ASSUME HashInv, raced = {}, Sequential, NEW t \in Threads, Active(thread[t]),
         NEW k \in Keys, k = thread[t].key, Touches(t, k),
         \A s \in 1..Len(strings') : strings'[s].live => \/ s \in Strings /\ strings[s].live
                                                         \/ Writes(thread'[t]) /\ thread'[t].string = s,
         \A s \in Strings : strings'[s].live =>
            /\ \A f \in Fields : (keyTable[k] # Nil /\ Slot(keyTable[k], f) = s) => Placed(s)'
            /\ (Writes(thread[t]) /\ thread[t].string = s) => Placed(s)'
            /\ \A f \in Fields : (Removes(thread[t]) /\ Slot(thread[t].table, f) = s) => Placed(s)'
  PROVE  Accounted'
<1> SUFFICES ASSUME NEW s \in 1..Len(strings'), strings'[s].live PROVE Placed(s)'
  BY DEF Accounted, Strings, LiveString
<1>1. CASE Writes(thread'[t]) /\ thread'[t].string = s BY <1>1 DEF Placed, Writes
<1>2. CASE s \in Strings /\ strings[s].live
  <2>1. Placed(s) BY <1>2 DEF Sequential, Accounted, LiveString
  <2>2. ASSUME NEW j \in Keys, NEW f \in Fields, keyTable[j] # Nil, Slot(keyTable[j], f) = s PROVE Placed(s)'
    <3>1. CASE j = k BY <3>1, <2>2, <1>2
    <3>2. CASE j # k
      <4>1. keyTable'[j] = keyTable[j] BY <3>2 DEF Touches
      <4>2. keyTable[j] \in Tables BY <2>2 DEF HashInv, InRange, Tables, Nil
      <4>3. ~(Owns(thread[t]) /\ keyTable[j] = thread[t].table) BY <3>2 DEF HashInv, HeapSound, KeysApart
      <4>4. tables'[keyTable[j]].fields[f] = s BY <4>2, <4>3, <2>2 DEF Touches
      <4>5. keyTable'[j] # Nil /\ tables'[keyTable'[j]].fields[f] = s BY <4>1, <4>4, <2>2
      <4>q. QED BY <4>5 DEF Placed, Slot
    <3>q. QED BY <3>1, <3>2
  <2>3. ASSUME NEW u \in Threads, Writes(thread[u]), thread[u].string = s PROVE Placed(s)'
    <3>1. CASE u = t BY <3>1, <2>3, <1>2
    <3>2. CASE u # t
      <4>1. thread'[u] = thread[u] BY <3>2 DEF Touches
      <4>q. QED BY <4>1, <2>3 DEF Placed, Writes
    <3>q. QED BY <3>1, <3>2
  <2>4. ASSUME NEW u \in Threads, NEW f \in Fields, Removes(thread[u]), Slot(thread[u].table, f) = s PROVE Placed(s)'
    <3>1. CASE u = t BY <3>1, <2>4, <1>2
    <3>2. CASE u # t
      <4>1. thread'[u] = thread[u] BY <3>2 DEF Touches
      <4>2. Active(thread[u]) /\ Holds(thread[u]) BY <2>4 DEF Removes, Active, Holds
      <4>3. thread[u].op # "Scan" /\ thread[u].key # k BY <3>2, <4>2, AloneApart
      <4>4. Owns(thread[u]) /\ thread[u].table \in Tables BY <4>2, <4>3, ThreadFacts DEF Owns, Sane, Tables
      <4>5. ~(Owns(thread[t]) /\ thread[u].table = thread[t].table)
        BY <4>3, <4>4 DEF HashInv, HeapSound, KeysApart
      <4>6. tables'[thread[u].table].fields[f] = s BY <4>4, <4>5, <2>4 DEF Touches
      <4>7. Removes(thread'[u]) /\ tables'[thread'[u].table].fields[f] = s BY <4>1, <4>6, <2>4
      <4>q. QED BY <4>7 DEF Placed, Slot, Removes
    <3>q. QED BY <3>1, <3>2
  <2>q. QED BY <2>1, <2>2, <2>3, <2>4 DEF Placed
<1>q. QED BY <1>1, <1>2

(* An Update or an Insert: what it has written so far is in its table.      *)
LEMMA WriterFacts ==
  ASSUME HashInv, Sequential, NEW t \in Threads, thread[t].op \in {"Update", "Insert"}, Active(thread[t])
  PROVE  /\ WritesSoFar(thread[t]) /\ thread[t] \in Works /\ thread[t].key \in Keys /\ ~Removes(thread[t])
         /\ thread[t].at \in {"lookup", "attach", "copy", "replace", "insert"}
         /\ thread[t].at # "lookup" => /\ Holds(thread[t]) /\ Owns(thread[t]) /\ thread[t].table \in Tables
                                       /\ thread[t].table # Nil
         /\ thread[t].todo \subseteq Fields /\ thread[t].todo # {}
         /\ Field(thread[t]) \in thread[t].todo
<1>1. thread[t] \in Works /\ Sane(thread[t], Len(tables), Len(strings)) /\ thread[t].key \in Keys /\ SoFar(thread[t])
  BY ThreadFacts, SequentialFacts
<1>2. /\ WritesSoFar(thread[t]) /\ thread[t].at \in {"lookup", "attach", "copy", "replace", "insert"}
      /\ thread[t].todo \subseteq Fields
  BY <1>1 DEF SoFar, Sane, Active, Steps
<1>3. thread[t].todo # {} BY <1>1, <1>2 DEF Sane, HasField
<1>4. thread[t].at # "lookup" => Holds(thread[t]) /\ Owns(thread[t]) BY <1>2 DEF Holds, Owns
<1>5. Holds(thread[t]) => thread[t].table \in Tables /\ thread[t].table # Nil BY <1>1 DEF Sane, Tables, Nil
<1>q. QED BY <1>1, <1>2, <1>3, <1>4, <1>5 DEF Field, Removes

(* A writer of an existing record, or of a new one.                         *)
LEMMA WriteGetTableSequential ==
  ASSUME HashInv, raced = {}, Sequential, NEW t \in Threads, GetTable(t), thread[t].op \in {"Update", "Insert"}
  PROVE  Sequential'
<1> DEFINE w == thread[t]
           k == w.key
           b == keyTable[k]
           d == [w EXCEPT !.table = b]
<1>1. /\ w.at = "lookup" /\ Active(w) /\ UNCHANGED <<keyTable, strings>>
      /\ w \in Works /\ k \in Keys /\ WritesSoFar(w) /\ b \in Nat /\ w.right
      /\ w.todo # {} /\ ~Writes(w) /\ ~Removes(w) /\ thread \in [Threads -> Works]
  BY WriterFacts, SequentialFacts DEF GetTable, At, Active, Writes
<1>2. d \in Works /\ d.table = b /\ d.op = w.op /\ d.key = k
      /\ d.found = w.found /\ d.right = w.right /\ d.fresh = w.fresh
  BY <1>1 DEF Works
<1>3. Stored(k) = content[k] BY <1>1, RecordFacts DEF Changes
<1>4. w.found = {} /\ ~w.fresh BY <1>1 DEF WritesSoFar
<1>5. CASE b # Nil
  <2> DEFINE c == [d EXCEPT !.at = "copy"]
  <2>1. Continue(t, c) /\ UNCHANGED tables BY <1>1, <1>2, <1>5 DEF GetTable, Get
  <2> HIDE DEF d
  <2>2. /\ c \in Works /\ c.at = "copy" /\ c.table = b /\ c.op = w.op /\ c.key = k
        /\ c.found = {} /\ c.right /\ ~c.fresh
    BY <1>1, <1>2, <1>4 DEF Works, Places
  <2> HIDE DEF c
  <2>3. /\ \A u \in Threads : u # t => thread'[u] = thread[u]
        /\ Same(thread'[t], c) /\ content' = content
    BY <1>1, <2>1, <2>2, Continued
  <2>4. \A f \in Fields : Text(Slot(b, f)) = content[k].texts[f] BY <1>3, <1>5, StoredFacts
  <2>5. WritesSoFar(c) BY <2>2, <2>4 DEF WritesSoFar, Writes
  <2>6. SoFar(c) BY <2>2, <2>5, <1>1 DEF SoFar, Active
  <2>7. SoFar(thread'[t]) BY <2>3, <2>6, SoFarAlike
  <2>8. UNCHANGED <<keyTable, tables, strings, content>> BY <1>1, <2>1, <2>3
  <2>9. SoFar(thread[t])'
    <3> DEFINE v == thread'[t]
    <3>1. v = thread'[t] OBVIOUS
    <3> HIDE DEF v
    <3>2. ReadsSoFar(v) => ReadsSoFar(thread[t])' BY ONLY <2>8, <3>1 DEF ReadsSoFar, Slot, Field
    <3>3. WritesSoFar(v) => WritesSoFar(thread[t])' BY ONLY <2>8, <3>1 DEF WritesSoFar, Slot, Text, Field, Writes
    <3>4. DeletesSoFar(v) => DeletesSoFar(thread[t])' BY ONLY <2>8, <3>1 DEF DeletesSoFar, Slot, Removes
    <3>5. SoFar(v) BY ONLY <3>1, <2>7
    <3>q. QED BY ONLY <2>8, <3>1, <3>2, <3>3, <3>4, <3>5 DEF SoFar, Active
  <2>10. thread'[t].right BY <2>2, <2>3 DEF Same
  <2>q. QED BY <1>1, <1>3, <2>3, <2>8, <2>9, <2>10, QuietSequential DEF Changes
<1>6. CASE b = Nil
  <2> DEFINE new == Len(tables) + 1
             c == [d EXCEPT !.at = "attach", !.table = new, !.fresh = TRUE]
  <2>1. Continue(t, c) /\ tables' = NewFieldHashtable BY <1>1, <1>2, <1>6 DEF GetTable, Get
  <2>2. /\ Len(tables') = new /\ (\A x \in Tables : tables'[x] = tables[x]) /\ new \in Nat
        /\ \A f \in Fields : tables'[new].fields[f] = Nil
    BY <2>1, TableMade, ThreadFacts
  <2> HIDE DEF d, new
  <2>3. /\ c \in Works /\ c.at = "attach" /\ c.table = new /\ c.op = w.op /\ c.key = k
        /\ c.found = {} /\ c.right /\ c.fresh
    BY <1>1, <1>2, <1>4, <2>2 DEF Works, Places
  <2> HIDE DEF c
  <2>4. /\ \A u \in Threads : u # t => thread'[u] = thread[u]
        /\ Same(thread'[t], c) /\ content' = content
    BY <1>1, <2>1, <2>3, Continued
  <2>5. content[k] = Absent BY <1>3, <1>6, StoredFacts
  <2>6. Touches(t, k)
    BY <1>1, <2>2, <2>4, ThreadFacts DEF Touches, Slot, new
  <2>7. WritesSoFar(thread[t])'
    BY <1>1, <1>6, <2>2, <2>3, <2>4, <2>5 DEF WritesSoFar, Same, Slot, Writes
  <2>8. SoFar(thread[t])' BY <1>1, <2>3, <2>4, <2>7 DEF SoFar, Same, Active
  <2>9. Changes(thread'[t], k) BY <1>1, <2>3, <2>4 DEF Changes, Same, Active
  <2>10. FieldsNamed'
    <3>1. \A x \in 1..Len(tables'), f \in Fields :
            tables'[x].fields[f] # Nil => x \in Tables /\ tables'[x].fields[f] = Slot(x, f)
      <4>1. \A x \in 1..Len(tables') : x = new \/ x \in Tables BY <2>2, ThreadFacts DEF Tables, new
      <4>q. QED BY <4>1, <2>2 DEF Slot
    <3>q. QED BY <1>1, <2>6, <3>1, NamedKept
  <2>11. Accounted'
    <3>1. \A s \in 1..Len(strings') : strings'[s].live => s \in Strings /\ strings[s].live
      BY <1>1 DEF Strings
    <3>q. QED BY <1>1, <1>6, <2>6, <3>1, AccountedKept
  <2>12. thread'[t].right BY <2>3, <2>4 DEF Same
  <2>q. QED BY <1>1, <2>6, <2>8, <2>9, <2>10, <2>11, <2>12, TouchSequential
<1>q. QED BY <1>5, <1>6

LEMMA SoFarCarried ==
  ASSUME NEW t \in Threads, UNCHANGED <<keyTable, tables, strings, content>>, SoFar(thread'[t])
  PROVE  SoFar(thread[t])'
<1> DEFINE v == thread'[t]
<1>1. v = thread'[t] /\ SoFar(v) OBVIOUS
<1> HIDE DEF v
<1>2. ReadsSoFar(v) => ReadsSoFar(thread[t])' BY <1>1 DEF ReadsSoFar, Slot, Field
<1>3. WritesSoFar(v) => WritesSoFar(thread[t])' BY <1>1 DEF WritesSoFar, Slot, Text, Field, Writes
<1>4. DeletesSoFar(v) => DeletesSoFar(thread[t])' BY <1>1 DEF DeletesSoFar, Slot, Removes
<1>q. QED BY <1>1, <1>2, <1>3, <1>4 DEF SoFar, Active

LEMMA AttachSequential ==
  ASSUME HashInv, raced = {}, Sequential, NEW t \in Threads, Attach(t)
  PROVE  Sequential'
<1> DEFINE w == thread[t]
           k == w.key
           b == w.table
           c == [w EXCEPT !.at = "copy"]
<1>1. /\ w.at = "attach" /\ Active(w) /\ UNCHANGED <<tables, strings>> /\ Continue(t, c)
      /\ keyTable' = TableInsert(keyTable, k, b) /\ w.right /\ thread \in [Threads -> Works]
      /\ keyTable \in [Keys -> Nat] /\ w.op \in {"Update", "Insert"}
  <2>1. /\ w.at = "attach" /\ UNCHANGED <<tables, strings>> /\ Continue(t, c)
        /\ keyTable' = TableInsert(keyTable, k, b)
    BY DEF Attach, At
  <2>2. Active(w) BY <2>1 DEF Active
  <2>3. Sane(w, Len(tables), Len(strings)) /\ w.op \in kinds BY <2>2, ThreadFacts
  <2>4. w.op \in {"Update", "Insert"} BY <2>1, <2>2, <2>3 DEF Sane, Steps, kinds
  <2>5. w.right /\ thread \in [Threads -> Works] /\ keyTable \in [Keys -> Nat] BY SequentialFacts
  <2>q. QED BY <2>1, <2>2, <2>4, <2>5
<1>2. /\ w \in Works /\ k \in Keys /\ WritesSoFar(w) /\ b \in Tables /\ b # Nil /\ Owns(w)
      /\ ~Writes(w) /\ ~Removes(w)
  BY <1>1, WriterFacts DEF Writes
<1>3. /\ keyTable[k] = Nil /\ content[k] = Absent /\ w.fresh /\ w.found = {}
      /\ \A f \in Fields : Slot(b, f) = Nil
  BY <1>1, <1>2 DEF WritesSoFar
<1>4. b \in Nat BY <1>2 DEF Works
<1>5. keyTable'[k] = b /\ \A j \in Keys : j # k => keyTable'[j] = keyTable[j]
  BY <1>1, <1>2, <1>3, <1>4 DEF TableInsert
<1>6. /\ c \in Works /\ c.at = "copy" /\ c.table = b /\ c.op = w.op /\ c.key = k
      /\ c.found = {} /\ c.right /\ c.fresh
  BY <1>1, <1>2, <1>3 DEF Works, Places
<1> HIDE DEF c
<1>7. /\ \A u \in Threads : u # t => thread'[u] = thread[u]
      /\ Same(thread'[t], c) /\ content' = content
  BY <1>1, <1>6, Continued
<1>8. Touches(t, k) BY <1>1, <1>5, <1>7, ThreadFacts DEF Touches, Slot
<1>9. \A f \in Fields : content[k].texts[f] = 0 BY <1>3 DEF Absent
<1>10. WritesSoFar(thread[t])'
  BY <1>1, <1>3, <1>5, <1>6, <1>7, <1>9 DEF WritesSoFar, Same, Slot, Text, Writes
<1>11. SoFar(thread[t])' BY <1>1, <1>6, <1>7, <1>10 DEF SoFar, Same, Active
<1>12. Changes(thread'[t], k) BY <1>1, <1>6, <1>7 DEF Changes, Same, Active
<1>13. FieldsNamed'
  <2>1. \A x \in 1..Len(tables'), f \in Fields :
           tables'[x].fields[f] # Nil => x \in Tables /\ tables'[x].fields[f] = Slot(x, f)
    BY <1>1 DEF Tables, Slot
  <2>q. QED BY <1>2, <1>8, <2>1, NamedKept
<1>14. Accounted'
  <2>1. \A s \in 1..Len(strings') : strings'[s].live => s \in Strings /\ strings[s].live
    BY <1>1 DEF Strings
  <2>q. QED BY <1>1, <1>2, <1>3, <1>8, <2>1, AccountedKept
<1>15. thread'[t].right BY <1>6, <1>7 DEF Same
<1>q. QED BY <1>1, <1>2, <1>8, <1>11, <1>12, <1>13, <1>14, <1>15, TouchSequential

LEMMA CopyValueSequential ==
  ASSUME HashInv, raced = {}, Sequential, NEW t \in Threads, CopyValue(t)
  PROVE  Sequential'
<1> DEFINE w == thread[t]
           k == w.key
           b == w.table
           new == Len(strings) + 1
           o == [live |-> TRUE, field |-> Field(w), text |-> w.n]
           place == IF w.op = "Update" /\ ~w.fresh THEN "replace" ELSE "insert"
           c == [w EXCEPT !.string = new, !.at = place]
<1>1. /\ w.at = "copy" /\ Active(w) /\ UNCHANGED <<keyTable, tables>> /\ Continue(t, c)
      /\ strings' = Append(strings, o) /\ w.right /\ thread \in [Threads -> Works]
      /\ w.op \in {"Update", "Insert"} /\ strings \in Seq(StringObjects)
  <2>1. w.at = "copy" /\ Active(w) /\ UNCHANGED <<keyTable, tables>> /\ Continue(t, c)
        /\ strings' = Append(strings, o)
    BY DEF CopyValue, CopyString, Active
  <2>2. Sane(w, Len(tables), Len(strings)) /\ w.op \in kinds BY <2>1, ThreadFacts
  <2>3. w.op \in {"Update", "Insert"} BY <2>1, <2>2 DEF Sane, Steps, kinds
  <2>q. QED BY <2>1, <2>3, SequentialFacts DEF HashInv, HashTypeOK
<1>2. /\ w \in Works /\ k \in Keys /\ WritesSoFar(w) /\ b \in Tables /\ b # Nil /\ Owns(w)
      /\ ~Writes(w) /\ ~Removes(w) /\ w.todo \subseteq Fields /\ Field(w) \in w.todo
  BY <1>1, WriterFacts DEF Writes
<1>3. /\ keyTable[k] = b /\ w.found \cap w.todo = {}
      /\ \A f \in Fields : Text(Slot(b, f)) = IF f \in w.found THEN w.n ELSE content[k].texts[f]
      /\ w.fresh => \A f \in Fields \ w.found : Slot(b, f) = Nil
  BY <1>1, <1>2 DEF WritesSoFar
<1>4. place \in {"replace", "insert"} /\ (w.op = "Update" /\ place = "insert" => w.fresh) OBVIOUS
<1> HIDE DEF place
<1>5. o \in StringObjects /\ o.field = Field(w) /\ o.text = w.n
  BY <1>2 DEF StringObjects, Works
<1> HIDE DEF o
<1>6. /\ Len(strings') = new /\ new \in Nat /\ (\A s \in Strings : strings'[s] = strings[s]) /\ strings'[new] = o
      /\ \A s \in 1..Len(strings') : s \in Strings \/ s = new
      /\ Len(strings) <= Len(strings')
  BY <1>1, <1>5 DEF Strings
<1> HIDE DEF new
<1>7. /\ c \in Works /\ c.at = place /\ c.table = b /\ c.op = w.op /\ c.key = k /\ c.string = new
      /\ c.found = w.found /\ c.right /\ c.fresh = w.fresh /\ c.todo = w.todo /\ c.n = w.n
  BY <1>1, <1>2, <1>4, <1>6 DEF Works, Places
<1> HIDE DEF c
<1>8. /\ \A u \in Threads : u # t => thread'[u] = thread[u]
      /\ Same(thread'[t], c) /\ content' = content
  BY <1>1, <1>7, Continued
<1>9. Touches(t, k)
  <2>1. Len(tables) <= Len(tables') BY <1>1, ThreadFacts
  <2>q. QED BY ONLY <2>1, <1>1, <1>6, <1>8 DEF Touches, Slot
<1>10. \A f \in Fields :
         /\ tables'[b].fields[f] = Slot(b, f)
         /\ (IF tables'[b].fields[f] = Nil THEN 0 ELSE strings'[tables'[b].fields[f]].text) = Text(Slot(b, f))
  <2>1. \A f \in Fields : Slot(b, f) # Nil => Slot(b, f) \in Strings
    BY <1>2 DEF HashInv, InRange, Strings, Nil
  <2>2. \A f \in Fields : Slot(b, f) # Nil => strings'[Slot(b, f)] = strings[Slot(b, f)] BY <2>1, <1>6
  <2>3. \A f \in Fields : tables'[b].fields[f] = Slot(b, f) BY <1>1 DEF Slot
  <2>q. QED BY <2>2, <2>3 DEF Text
<1>11. WritesSoFar(thread[t])'
  <2> DEFINE v == thread'[t]
  <2>1. /\ v.at = place /\ v.table = b /\ v.op = w.op /\ v.key = k /\ v.string = new /\ v.found = w.found
        /\ v.fresh = w.fresh /\ v.todo = w.todo /\ v.n = w.n
    BY <1>7, <1>8 DEF Same
  <2>2. Field(v) = Field(w) BY <2>1 DEF Field
  <2>3. Field(w) \in Fields /\ Field(w) \notin w.found BY <1>2, <1>3
  <2>4. v.at \notin {"lookup", "attach"} /\ v.at \in {"replace", "insert"} BY <2>1, <1>4
  <2> HIDE DEF v
  <2>5. (thread[t].at \in {"copy", "replace", "insert"} =>
           /\ keyTable[thread[t].key] = thread[t].table
           /\ thread[t].found \cap thread[t].todo = {}
           /\ \A f \in Fields : Text(Slot(thread[t].table, f))
                                  = IF f \in thread[t].found THEN thread[t].n ELSE content[thread[t].key].texts[f]
           /\ thread[t].fresh => \A f \in Fields \ thread[t].found : Slot(thread[t].table, f) = Nil)'
    <3>1. keyTable'[v.key] = v.table /\ v.found \cap v.todo = {} BY <2>1, <1>1, <1>3
    <3>2. content'[v.key] = content[k] BY <2>1, <1>8
    <3>3. \A f \in Fields : (IF tables'[v.table].fields[f] = Nil THEN 0 ELSE strings'[tables'[v.table].fields[f]].text)
                             = IF f \in v.found THEN v.n ELSE content'[v.key].texts[f]
      BY <2>1, <3>2, <1>3, <1>10
    <3>4. v.fresh => \A f \in Fields \ v.found : tables'[v.table].fields[f] = Nil BY <2>1, <1>3, <1>10
    <3>q. QED BY ONLY <3>1, <3>3, <3>4 DEF v, Text, Slot
  <2>6. (Writes(thread[t]) => strings[thread[t].string].text = thread[t].n
                              /\ strings[thread[t].string].field = Field(thread[t]))'
    BY <2>1, <2>2, <1>5, <1>6 DEF v, Field
  <2>7. (thread[t].at = "insert" /\ thread[t].op = "Update" => Slot(thread[t].table, Field(thread[t])) = Nil)'
    BY <2>1, <2>2, <2>3, <1>3, <1>4, <1>10 DEF v, Field, Slot
  <2>q. QED BY <2>4, <2>5, <2>6, <2>7 DEF WritesSoFar, v
<1>12. SoFar(thread[t])' BY <1>1, <1>4, <1>7, <1>8, <1>11 DEF SoFar, Same, Active
<1>13. Changes(thread'[t], k) /\ Writes(thread'[t]) /\ thread'[t].string = new
  BY <1>1, <1>4, <1>7, <1>8 DEF Changes, Same, Active, Writes
<1>14. FieldsNamed'
  <2>1. \A x \in 1..Len(tables'), f \in Fields :
           tables'[x].fields[f] # Nil => x \in Tables /\ tables'[x].fields[f] = Slot(x, f)
    BY <1>1 DEF Tables, Slot
  <2>q. QED BY <1>2, <1>9, <2>1, NamedKept
<1>15. Accounted'
  <2>1. \A s \in 1..Len(strings') :
           strings'[s].live => (s \in Strings /\ strings[s].live) \/ (Writes(thread'[t]) /\ thread'[t].string = s)
    BY <1>6, <1>13
  <2>2. \A s \in Strings, f \in Fields : Slot(keyTable[k], f) = s => Placed(s)'
    <3>1. \A f \in Fields : keyTable'[k] # Nil /\ tables'[keyTable'[k]].fields[f] = Slot(keyTable[k], f)
      BY <1>1, <1>2, <1>3 DEF Slot
    <3>q. QED BY <3>1, <1>2 DEF Placed, Slot
  <2>q. QED BY <1>1, <1>2, <1>9, <2>1, <2>2, AccountedKept
<1>16. thread'[t].right BY <1>7, <1>8 DEF Same
<1>q. QED BY <1>1, <1>2, <1>9, <1>12, <1>13, <1>14, <1>15, <1>16, TouchSequential

(* A field that has been written.                                           *)
LEMMA DoneFacts ==
  ASSUME NEW w \in Works, w.todo \subseteq Fields, Field(w) \in w.todo
  PROVE  /\ Done(w) \in Works /\ Done(w).op = w.op /\ Done(w).key = w.key /\ Done(w).table = w.table
         /\ Done(w).todo = w.todo \ {Field(w)} /\ Done(w).found = w.found \cup {Field(w)}
         /\ Done(w).n = w.n /\ Done(w).fresh = w.fresh /\ Done(w).right = w.right /\ Done(w).at = w.at
<1> DEFINE rest == w.todo \ {Field(w)}
           got == w.found \cup {Field(w)}
           d == [w EXCEPT !.todo = rest, !.found = got]
<1>1. rest \in SUBSET Names /\ got \in SUBSET Names BY DEF Works, Names
<1>2. Done(w) = d BY DEF Done
<1> HIDE DEF rest, got
<1>3. /\ d \in Works /\ d.op = w.op /\ d.key = w.key /\ d.table = w.table /\ d.todo = rest /\ d.found = got
      /\ d.n = w.n /\ d.fresh = w.fresh /\ d.right = w.right /\ d.at = w.at
  BY <1>1 DEF Works
<1> HIDE DEF d
<1>q. QED BY <1>2, <1>3 DEF rest, got

(* What a writer has done when it returns is what its effect says.          *)
LEMMA WriterEffect ==
  ASSUME NEW d, d.op \in {"Update", "Insert"}
  PROVE  Effect(d) = [here |-> TRUE, texts |-> [f \in Fields |-> IF f \in d.found THEN d.n ELSE content[d.key].texts[f]]]
BY DEF Effect

LEMMA StoredSlots ==
  ASSUME NEW k, keyTable'[k] # Nil, NEW g,
         \A f \in Fields : (IF tables'[keyTable'[k]].fields[f] = Nil THEN 0
                            ELSE strings'[tables'[keyTable'[k]].fields[f]].text) = g[f],
         content'[k] = [here |-> TRUE, texts |-> [f \in Fields |-> g[f]]]
  PROVE  (Stored(k) = content[k])'
<1> DEFINE s == [f \in Fields |-> IF tables'[keyTable'[k]].fields[f] = Nil THEN 0
                                  ELSE strings'[tables'[keyTable'[k]].fields[f]].text]
<1>1. Stored(k)' = [here |-> TRUE, texts |-> s] BY DEF Stored
<1>2. s = [f \in Fields |-> g[f]] OBVIOUS
<1> HIDE DEF s
<1>q. QED BY <1>1, <1>2

LEMMA WroteSequential ==
  ASSUME HashInv, raced = {}, Sequential, content \in [Keys -> Contents], NEW t \in Threads,
         NEW w \in Works, w = thread[t], Writes(w), w.op \in {"Update", "Insert"},
         NEW f0 \in Fields, f0 = Field(w), NEW b \in Tables, b = w.table,
         UNCHANGED keyTable, Len(tables') = Len(tables), Len(strings') = Len(strings),
         tables'[b].fields[f0] = w.string,
         \A c \in Tables, g \in Fields : (c # b \/ g # f0) => tables'[c].fields[g] = Slot(c, g),
         \A s \in Strings : strings'[s].text = strings[s].text /\ strings'[s].field = strings[s].field,
         \A s \in Strings : strings'[s].live => strings[s].live /\ s # Slot(b, f0),
         Next1(t, Done(w), "copy")
  PROVE  Sequential'
<1> DEFINE k == w.key
           d == Done(w)
           v == thread'[t]
           slot(f) == tables'[b].fields[f]
           text(f) == IF slot(f) = Nil THEN 0 ELSE strings'[slot(f)].text
<1>1. Active(w) /\ w.at \in {"replace", "insert"} BY DEF Active, Writes
<1>2. /\ k \in Keys /\ WritesSoFar(w) /\ b # Nil /\ Owns(w) /\ ~Removes(w) /\ w.todo \subseteq Fields /\ f0 \in w.todo
      /\ w.string \in Strings /\ w.string # Nil /\ w.right /\ thread \in [Threads -> Works]
  BY <1>1, WriterFacts, SequentialFacts, ThreadFacts DEF Sane, Strings, Nil
<1>3. /\ keyTable[k] = b /\ w.found \cap w.todo = {}
      /\ \A f \in Fields : Text(Slot(b, f)) = IF f \in w.found THEN w.n ELSE content[k].texts[f]
      /\ w.fresh => \A f \in Fields \ w.found : Slot(b, f) = Nil
      /\ strings[w.string].text = w.n /\ strings[w.string].field = f0
  BY <1>1, <1>2 DEF WritesSoFar
<1>4. /\ d \in Works /\ d.op = w.op /\ d.key = k /\ d.table = b /\ d.todo = w.todo \ {f0}
      /\ d.found = w.found \cup {f0} /\ d.n = w.n /\ d.fresh = w.fresh /\ d.right = w.right
  BY <1>2, DoneFacts
<1> HIDE DEF d
<1>5. /\ \A u \in Threads : u # t => thread'[u] = thread[u]
      /\ \A j \in Keys \ {k} : content'[j] = content[j]
      /\ v.right
      /\ \/ /\ v.at = "idle" /\ content'[k] = Effect(d)
         \/ /\ v.at = "copy" /\ content' = content /\ v.op = w.op /\ v.key = k /\ v.table = b /\ v.todo = d.todo
            /\ v.found = d.found /\ v.n = w.n /\ v.fresh = w.fresh
  <2>1. CASE d.todo = {}
    <3>1. Return(t, d) BY <2>1 DEF Next1, d
    <3>2. /\ \A u \in Threads : u # t => thread'[u] = thread[u]
          /\ thread'[t].at = "idle" /\ thread'[t].right
          /\ content' = [content EXCEPT ![d.key] = Effect(d)]
      BY <1>2, <1>4, <3>1, Returned
    <3> DEFINE e == Effect(d)
    <3>3. content' = [content EXCEPT ![k] = e] BY <3>2, <1>4
    <3> HIDE DEF e
    <3>4. content'[k] = e /\ \A j \in Keys \ {k} : content'[j] = content[j] BY <3>3, <1>2
    <3>q. QED BY <3>2, <3>4 DEF e
  <2>2. CASE d.todo # {}
    <3> DEFINE c == [d EXCEPT !.at = "copy"]
    <3>1. Continue(t, c) BY <2>2 DEF Next1, d
    <3>2. c \in Works /\ c.at = "copy" /\ c.op = d.op /\ c.key = d.key /\ c.table = d.table /\ c.todo = d.todo
          /\ c.found = d.found /\ c.n = d.n /\ c.fresh = d.fresh /\ c.right = d.right
      BY <1>4 DEF Works, Places
    <3> HIDE DEF c
    <3>3. /\ \A u \in Threads : u # t => thread'[u] = thread[u]
          /\ Same(thread'[t], c) /\ content' = content
      BY <1>2, <3>1, <3>2, Continued
    <3>q. QED BY <1>2, <1>4, <3>2, <3>3 DEF Same
  <2>q. QED BY <2>1, <2>2
<1>6. Touches(t, k)
  <2>1. Len(tables) <= Len(tables') /\ Len(strings) <= Len(strings') BY ThreadFacts
  <2>2. \A x \in Tables, f \in Fields : tables'[x].fields[f] = Slot(x, f) \/ (Owns(thread[t]) /\ x = thread[t].table)
    BY <1>2
  <2>q. QED BY ONLY <2>1, <2>2, <1>5, keyTable' = keyTable,
                    \A s \in Strings : strings'[s].text = strings[s].text /\ strings'[s].field = strings[s].field
        DEF Touches
<1>7. \A f \in Fields : text(f) = IF f \in d.found THEN w.n ELSE content[k].texts[f]
  <2>1. text(f0) = w.n BY <1>2, <1>3
  <2>2. ASSUME NEW f \in Fields, f # f0 PROVE text(f) = Text(Slot(b, f))
    <3>1. slot(f) = Slot(b, f) BY <2>2
    <3>2. Slot(b, f) # Nil => Slot(b, f) \in Strings BY DEF HashInv, InRange, Strings, Nil
    <3>q. QED BY <3>1, <3>2 DEF Text
  <2> HIDE DEF text
  <2>q. QED BY <2>1, <2>2, <1>3, <1>4
<1>8. w.fresh => \A f \in Fields \ d.found : slot(f) = Nil BY <1>3, <1>4
<1>9. FieldsNamed'
  <2>1. \A x \in 1..Len(tables'), f \in Fields :
           tables'[x].fields[f] # Nil => \/ x \in Tables /\ tables'[x].fields[f] = Slot(x, f)
                                         \/ strings'[tables'[x].fields[f]].field = f
    <3> SUFFICES ASSUME NEW x \in 1..Len(tables'), NEW f \in Fields
                 PROVE  \/ x \in Tables /\ tables'[x].fields[f] = Slot(x, f)
                        \/ strings'[tables'[x].fields[f]].field = f
      OBVIOUS
    <3>1. x \in Tables BY DEF Tables
    <3>2. CASE x = b /\ f = f0 BY <3>2, <1>2, <1>3
    <3>3. CASE x # b \/ f # f0 BY <3>1, <3>3
    <3>q. QED BY <3>2, <3>3
  <2>q. QED BY <1>2, <1>6, <2>1, NamedKept
<1>10. Accounted'
  <2>1. ASSUME NEW s, NEW f \in Fields, slot(f) = s PROVE Placed(s)'
    <3>1. keyTable'[k] # Nil /\ tables'[keyTable'[k]].fields[f] = s BY <1>2, <1>3, <2>1
    <3>q. QED BY <3>1, <1>2 DEF Placed, Slot
  <2>2. ASSUME NEW s \in Strings, strings'[s].live
        PROVE  /\ \A f \in Fields : (keyTable[k] # Nil /\ Slot(keyTable[k], f) = s) => Placed(s)'
               /\ (Writes(thread[t]) /\ thread[t].string = s) => Placed(s)'
    <3>1. ASSUME NEW f \in Fields, Slot(b, f) = s PROVE Placed(s)'
      <4>1. f # f0 BY <2>2, <3>1
      <4>2. slot(f) = s BY <4>1, <3>1
      <4>q. QED BY <2>1, <4>2
    <3>2. thread[t].string = s => slot(f0) = s OBVIOUS
    <3>3. thread[t].string = s => Placed(s)' BY <2>1, <3>2
    <3>q. QED BY <3>1, <3>3, <1>3
  <2>3. \A s \in 1..Len(strings') : strings'[s].live => s \in Strings /\ strings[s].live
    BY DEF Strings
  <2>q. QED BY <1>1, <1>2, <1>6, <2>2, <2>3, AccountedKept
<1>11. CASE v.at = "idle"
  <2>1. SoFar(thread[t])' BY <1>11 DEF SoFar, Active
  <2> DEFINE g == [f \in Fields |-> IF f \in d.found THEN w.n ELSE content[k].texts[f]]
  <2>2. Effect(d) = [here |-> TRUE, texts |-> [f \in Fields |-> IF f \in d.found THEN d.n ELSE content[d.key].texts[f]]]
    BY <1>4, WriterEffect
  <2>3. content'[k] = Effect(d) BY <1>5, <1>11
  <2>4. content'[k] = [here |-> TRUE, texts |-> g] BY <2>2, <2>3, <1>4
  <2>5. g = [f \in Fields |-> g[f]] /\ \A f \in Fields : g[f] = text(f) BY <1>7
  <2>6. keyTable'[k] = b BY <1>3
  <2> HIDE DEF g
  <2>7. \A f \in Fields : (IF tables'[keyTable'[k]].fields[f] = Nil THEN 0
                           ELSE strings'[tables'[keyTable'[k]].fields[f]].text) = g[f]
    BY <2>5, <2>6
  <2>8. content'[k] = [here |-> TRUE, texts |-> [f \in Fields |-> g[f]]] BY <2>4, <2>5
  <2>9. keyTable'[k] # Nil BY <2>6, <1>2
  <2>10. (Stored(k) = content[k])' BY ONLY <2>7, <2>8, <2>9, StoredSlots
  <2>q. QED BY <1>1, <1>2, <1>5, <1>6, <1>9, <1>10, <2>1, <2>10, TouchSequential
<1>12. CASE v.at = "copy"
  <2>1. /\ content' = content /\ v.op = w.op /\ v.key = k /\ v.table = b /\ v.todo = d.todo
        /\ v.found = d.found /\ v.n = w.n /\ v.fresh = w.fresh
    BY <1>5, <1>12
  <2>2. v.found \cap v.todo = {} BY <2>1, <1>3, <1>4
  <2>3. keyTable'[v.key] = v.table BY <2>1, <1>3
  <2>4. \A f \in Fields : (IF tables'[v.table].fields[f] = Nil THEN 0 ELSE strings'[tables'[v.table].fields[f]].text)
                          = IF f \in v.found THEN v.n ELSE content'[v.key].texts[f]
    BY <2>1, <1>7
  <2>5. v.fresh => \A f \in Fields \ v.found : tables'[v.table].fields[f] = Nil BY <2>1, <1>8
  <2>6. ~Writes(v) BY <1>12 DEF Writes
  <2>7. WritesSoFar(thread[t])'
    BY ONLY <1>12, <2>2, <2>3, <2>4, <2>5, <2>6 DEF WritesSoFar, Slot, Text, Writes
  <2>8. SoFar(thread[t])' BY <2>1, <2>7 DEF SoFar
  <2>9. Changes(thread'[t], k) BY <1>12, <2>1 DEF Changes, Active
  <2>q. QED BY <1>1, <1>2, <1>5, <1>6, <1>9, <1>10, <2>8, <2>9, TouchSequential
<1>q. QED BY <1>5, <1>11, <1>12

LEMMA StringFreedTexts ==
  ASSUME HashInv, NEW s \in Strings, strings' = DeleteString(strings, s)
  PROVE  /\ Len(strings') = Len(strings) /\ ~strings'[s].live
         /\ \A x \in Strings : strings'[x].text = strings[x].text /\ strings'[x].field = strings[x].field
         /\ \A x \in Strings : x # s => strings'[x] = strings[x]
<1> DEFINE o == [strings[s] EXCEPT !.live = FALSE]
<1>1. strings[s] \in StringObjects /\ strings \in Seq(StringObjects) /\ s \in 1..Len(strings)
  BY ObjectTypes DEF Strings, HashInv, HashTypeOK
<1>2. ~o.live /\ o.text = strings[s].text /\ o.field = strings[s].field BY <1>1 DEF StringObjects
<1>3. strings' = [strings EXCEPT ![s] = o] BY DEF DeleteString
<1> HIDE DEF o
<1>4. Len(strings') = Len(strings) /\ strings'[s] = o /\ \A x \in Strings : x # s => strings'[x] = strings[x]
  BY <1>1, <1>3 DEF Strings
<1>q. QED BY <1>2, <1>4

LEMMA ReplaceFieldSequential ==
  ASSUME HashInv, raced = {}, Sequential, content \in [Keys -> Contents], NEW t \in Threads, ReplaceField(t)
  PROVE  Sequential'
<1> DEFINE w == thread[t]
           b == w.table
           f0 == Field(w)
           old == Slot(b, f0)
<1>1. /\ w.at = "replace" /\ Active(w) /\ w.op = "Update" /\ UNCHANGED keyTable /\ Writes(w)
      /\ thread \in [Threads -> Works]
  <2>1. w.at = "replace" /\ Active(w) /\ UNCHANGED keyTable /\ Writes(w) BY DEF ReplaceField, At, Active, Writes
  <2>2. w.op = "Update" BY <2>1, ThreadFacts DEF Sane, Steps, kinds
  <2>q. QED BY <2>1, <2>2, SequentialFacts
<1>2. /\ w \in Works /\ b \in Tables /\ f0 \in Fields /\ WritesSoFar(w) /\ w.string \in Nat /\ ~Removes(w) /\ w.right
  BY <1>1, WriterFacts, SequentialFacts DEF Works
<1>3. tables' = [tables EXCEPT ![b].fields = Replace(tables[b].fields, f0, w.string)]
  BY DEF ReplaceField, Get
<1>4. old \in 0..Len(strings) BY <1>2 DEF HashInv, InRange
<1>5. CASE old = Nil
  <2> DEFINE c == [w EXCEPT !.at = "insert"]
  <2>1. Continue(t, c) /\ UNCHANGED strings BY <1>5 DEF ReplaceField, Get, Slot
  <2>2. tables' = [tables EXCEPT ![b].fields = tables[b].fields] BY <1>3, <1>5 DEF Replace, Slot
  <2>3. tables' = tables BY <1>2, <2>2, SlotSame
  <2>4. /\ c \in Works /\ c.at = "insert" /\ c.op = w.op /\ c.key = w.key /\ c.table = b /\ c.todo = w.todo
        /\ c.found = w.found /\ c.n = w.n /\ c.fresh = w.fresh /\ c.right = w.right /\ c.string = w.string
    BY <1>2 DEF Works, Places
  <2> HIDE DEF c
  <2>5. /\ \A u \in Threads : u # t => thread'[u] = thread[u]
        /\ Same(thread'[t], c) /\ content' = content
    BY <1>1, <2>1, <2>4, Continued
  <2>6. Field(c) = f0 BY <2>4 DEF Field
  <2>7. WritesSoFar(c) BY <1>1, <1>2, <1>5, <2>4, <2>6 DEF WritesSoFar, Writes
  <2>8. SoFar(c) BY <1>1, <2>4, <2>7 DEF SoFar
  <2>9. SoFar(thread'[t]) BY <2>5, <2>8, SoFarAlike
  <2>10. UNCHANGED <<keyTable, tables, strings, content>> BY <1>1, <2>1, <2>3, <2>5
  <2>11. SoFar(thread[t])' BY <2>9, <2>10, SoFarCarried
  <2>12. thread'[t].right /\ Writes(thread'[t]) /\ thread'[t].string = w.string
         /\ \A k : Changes(w, k) => Changes(thread'[t], k)
    BY <1>1, <1>2, <2>4, <2>5 DEF Same, Writes, Changes, Active
  <2>q. QED BY <1>2, <2>5, <2>10, <2>11, <2>12, QuietSequential
<1>6. CASE old # Nil
  <2>1. strings' = DeleteString(strings, old) /\ Next1(t, Done(w), "copy") BY <1>6 DEF ReplaceField, Get, Slot
  <2>2. tables' = [tables EXCEPT ![b].fields = [tables[b].fields EXCEPT ![f0] = w.string]]
    BY <1>3, <1>6 DEF Replace, Slot
  <2>3. /\ Len(tables') = Len(tables) /\ tables'[b].fields[f0] = w.string
        /\ \A c \in Tables, g \in Fields : (c # b \/ g # f0) => tables'[c].fields[g] = Slot(c, g)
    <3> DEFINE x == w.string
    <3>1. b \in Tables /\ f0 \in Fields /\ x \in Nat BY <1>2
    <3>2. tables' = [tables EXCEPT ![b].fields = [tables[b].fields EXCEPT ![f0] = x]] BY <2>2
    <3> HIDE DEF x, b, f0
    <3>3. /\ Len(tables') = Len(tables) /\ tables'[b].fields[f0] = x
          /\ \A c \in Tables, g \in Fields : (c # b \/ g # f0) => tables'[c].fields[g] = Slot(c, g)
      BY ONLY HashInv, <3>1, <3>2, SlotWritten
    <3>q. QED BY <3>3 DEF x
  <2>4. old \in Strings BY <1>4, <1>6 DEF Strings, Nil
  <2>5. /\ Len(strings') = Len(strings) /\ ~strings'[old].live
        /\ \A x \in Strings : strings'[x].text = strings[x].text /\ strings'[x].field = strings[x].field
        /\ \A x \in Strings : x # old => strings'[x] = strings[x]
    BY <2>1, <2>4, StringFreedTexts
  <2>6. \A s \in Strings : strings'[s].live => strings[s].live /\ s # Slot(b, f0) BY <2>5
  <2>q. QED BY <1>1, <1>2, <2>1, <2>3, <2>5, <2>6, WroteSequential
<1>q. QED BY <1>5, <1>6

(* An Insert that meets a field that is there ends with what it had done.   *)
LEMMA ConflictSequential ==
  ASSUME HashInv, raced = {}, Sequential, content \in [Keys -> Contents], NEW t \in Threads,
         NEW w \in Works, w = thread[t], w.at = "insert", w.op = "Insert",
         UNCHANGED <<keyTable, tables>>, strings' = DeleteString(strings, w.string), Return(t, w)
  PROVE  Sequential'
<1> DEFINE k == w.key
           b == w.table
<1>1. Active(w) /\ Writes(w) BY DEF Active, Writes
<1>2. /\ k \in Keys /\ WritesSoFar(w) /\ b \in Tables /\ b # Nil /\ Owns(w) /\ ~Removes(w)
      /\ w.string \in Strings /\ thread \in [Threads -> Works]
  BY <1>1, WriterFacts, SequentialFacts, ThreadFacts DEF Sane, Strings, Nil
<1>3. /\ keyTable[k] = b
      /\ \A f \in Fields : Text(Slot(b, f)) = IF f \in w.found THEN w.n ELSE content[k].texts[f]
  BY <1>2 DEF WritesSoFar
<1>4. /\ \A u \in Threads : u # t => thread'[u] = thread[u]
      /\ thread'[t].at = "idle" /\ thread'[t].right
      /\ content' = [content EXCEPT ![k] = Effect(w)]
  BY <1>2, Returned
<1> DEFINE e == Effect(w)
<1>5. e = [here |-> TRUE, texts |-> [f \in Fields |-> IF f \in w.found THEN w.n ELSE content[k].texts[f]]]
  <2>1. Effect(w) = [here |-> TRUE, texts |-> [f \in Fields |-> IF f \in w.found THEN w.n ELSE content[w.key].texts[f]]]
    <3>1. w.op \in {"Update", "Insert"} OBVIOUS
    <3> HIDE DEF e
    <3>q. QED BY ONLY <3>1, WriterEffect
  <2>q. QED BY <2>1
<1> HIDE DEF e
<1>6. content'[k] = e /\ \A j \in Keys \ {k} : content'[j] = content[j]
  <2>1. content' = [content EXCEPT ![k] = e] BY <1>4 DEF e
  <2>q. QED BY <2>1, <1>2
<1>7. /\ Len(strings') = Len(strings) /\ ~strings'[w.string].live
      /\ \A x \in Strings : strings'[x].text = strings[x].text /\ strings'[x].field = strings[x].field
      /\ \A x \in Strings : x # w.string => strings'[x] = strings[x]
  BY <1>2, StringFreedTexts
<1>8. Touches(t, k)
  <2>1. Len(tables) <= Len(tables') /\ Len(strings) <= Len(strings') BY <1>7, ThreadFacts
  <2>2. \A x \in Tables, f \in Fields : tables'[x].fields[f] = Slot(x, f) BY DEF Slot
  <2>q. QED BY <2>1, <2>2, <1>4, <1>6, <1>7 DEF Touches
<1>9. SoFar(thread[t])' BY <1>4 DEF SoFar, Active
<1>10. (Stored(k) = content[k])'
  <2> DEFINE g == [f \in Fields |-> IF f \in w.found THEN w.n ELSE content[k].texts[f]]
  <2>1. \A f \in Fields : (IF tables'[b].fields[f] = Nil THEN 0 ELSE strings'[tables'[b].fields[f]].text) = Text(Slot(b, f))
    <3>1. \A f \in Fields : Slot(b, f) # Nil => Slot(b, f) \in Strings BY <1>2 DEF HashInv, InRange, Strings, Nil
    <3>q. QED BY <3>1, <1>7 DEF Text, Slot
  <2>2. \A f \in Fields : Text(Slot(b, f)) = g[f] /\ g = [h \in Fields |-> g[h]] BY <1>3
  <2>3. content'[k] = [here |-> TRUE, texts |-> g] BY <1>5, <1>6
  <2> HIDE DEF g
  <2>4. keyTable'[k] = b BY <1>3
  <2>5. \A f \in Fields : (IF tables'[keyTable'[k]].fields[f] = Nil THEN 0
                           ELSE strings'[tables'[keyTable'[k]].fields[f]].text) = g[f]
    BY <2>1, <2>2, <2>4
  <2>6. content'[k] = [here |-> TRUE, texts |-> [f \in Fields |-> g[f]]]
    <3>1. g = [f \in Fields |-> g[f]] BY DEF g
    <3>q. QED BY <3>1, <2>3
  <2>7. keyTable'[k] # Nil BY <2>4, <1>2
  <2>q. QED BY ONLY <2>5, <2>6, <2>7, StoredSlots
<1>11. FieldsNamed'
  <2>1. \A x \in 1..Len(tables'), f \in Fields :
           tables'[x].fields[f] # Nil => x \in Tables /\ tables'[x].fields[f] = Slot(x, f)
    BY DEF Tables, Slot
  <2>q. QED BY <1>2, <1>8, <2>1, NamedKept
<1>12. Accounted'
  <2>1. ASSUME NEW s, NEW f \in Fields, Slot(b, f) = s PROVE Placed(s)'
    <3>1. keyTable'[k] # Nil /\ tables'[keyTable'[k]].fields[f] = s BY <1>2, <1>3, <2>1 DEF Slot
    <3>q. QED BY <3>1, <1>2 DEF Placed, Slot
  <2>2. \A s \in 1..Len(strings') : strings'[s].live => s \in Strings /\ strings[s].live /\ s # w.string
    BY <1>7 DEF Strings
  <2>3. \A s \in Strings, f \in Fields : Slot(keyTable[k], f) = s => Placed(s)' BY <2>1, <1>3
  <2>4. \A s \in Strings : strings'[s].live => s # w.string BY <1>7
  <2>q. QED BY <1>1, <1>2, <1>8, <2>2, <2>3, <2>4, AccountedKept
<1>q. QED BY <1>1, <1>2, <1>4, <1>8, <1>9, <1>10, <1>11, <1>12, TouchSequential

LEMMA InsertFieldSequential ==
  ASSUME HashInv, raced = {}, Sequential, content \in [Keys -> Contents], NEW t \in Threads, InsertField(t)
  PROVE  Sequential'
<1> DEFINE w == thread[t]
           b == w.table
           f0 == Field(w)
           old == Slot(b, f0)
<1>1. w.at = "insert" /\ Active(w) /\ w.op \in {"Insert", "Update"} /\ UNCHANGED keyTable /\ Writes(w)
  <2>1. w.at = "insert" /\ Active(w) /\ UNCHANGED keyTable /\ Writes(w) BY DEF InsertField, At, Active, Writes
  <2>2. w.op \in {"Insert", "Update"} BY <2>1, ThreadFacts DEF Sane, Steps, kinds
  <2>q. QED BY <2>1, <2>2
<1>2. /\ w \in Works /\ b \in Tables /\ f0 \in Fields /\ WritesSoFar(w) /\ w.string \in Nat
      /\ \A s \in Strings : s # Nil
  BY <1>1, WriterFacts DEF Works, Strings, Nil
<1>3. tables' = [tables EXCEPT ![b].fields = TableInsert(tables[b].fields, f0, w.string)]
  BY DEF InsertField, Get
<1>4. CASE old = Nil
  <2>1. UNCHANGED strings /\ Next1(t, Done(w), "copy") BY <1>4 DEF InsertField, Get, Slot
  <2>2. tables' = [tables EXCEPT ![b].fields = [tables[b].fields EXCEPT ![f0] = w.string]]
    BY <1>3, <1>4 DEF TableInsert, Slot
  <2>3. /\ Len(tables') = Len(tables) /\ tables'[b].fields[f0] = w.string
        /\ \A c \in Tables, g \in Fields : (c # b \/ g # f0) => tables'[c].fields[g] = Slot(c, g)
    <3> DEFINE x == w.string
    <3>1. b \in Tables /\ f0 \in Fields /\ x \in Nat BY <1>2
    <3>2. tables' = [tables EXCEPT ![b].fields = [tables[b].fields EXCEPT ![f0] = x]] BY <2>2
    <3> HIDE DEF x, b, f0
    <3>3. /\ Len(tables') = Len(tables) /\ tables'[b].fields[f0] = x
          /\ \A c \in Tables, g \in Fields : (c # b \/ g # f0) => tables'[c].fields[g] = Slot(c, g)
      BY ONLY HashInv, <3>1, <3>2, SlotWritten
    <3>q. QED BY <3>3 DEF x
  <2>4. \A s \in Strings : strings'[s].live => strings[s].live /\ s # Slot(b, f0) BY <1>2, <1>4, <2>1
  <2>q. QED BY <1>1, <1>2, <2>1, <2>3, <2>4, WroteSequential
<1>5. CASE old # Nil
  <2>1. w.op = "Insert" BY <1>1, <1>2, <1>5 DEF WritesSoFar
  <2>2. strings' = DeleteString(strings, w.string) /\ Return(t, w) BY <1>5, <2>1 DEF InsertField, Get, Slot
  <2>3. tables' = [tables EXCEPT ![b].fields = tables[b].fields] BY <1>3, <1>5 DEF TableInsert, Slot
  <2>4. tables' = tables BY <1>2, <2>3, SlotSame
  <2>q. QED BY <1>1, <1>2, <2>1, <2>2, <2>4, ConflictSequential
<1>q. QED BY <1>4, <1>5

(* A Delete: its table is out of reach of the others.                       *)
LEMMA RemoverFacts ==
  ASSUME HashInv, Sequential, NEW t \in Threads, thread[t].op = "Delete", Active(thread[t])
  PROVE  /\ DeletesSoFar(thread[t]) /\ thread[t] \in Works /\ thread[t].key \in Keys /\ ~Writes(thread[t])
         /\ thread[t].at \in {"lookup", "erase", "dismantle", "delete"} /\ thread[t].right
         /\ thread[t].at \notin {"lookup", "erase"} =>
                                       /\ Owns(thread[t]) /\ Removes(thread[t]) /\ thread[t].table \in Tables
         /\ thread[t].at = "delete" => thread[t].found \subseteq Strings
         /\ thread \in [Threads -> Works] /\ keyTable \in [Keys -> Nat]
<1>1. thread[t] \in Works /\ Sane(thread[t], Len(tables), Len(strings)) /\ thread[t].key \in Keys /\ SoFar(thread[t])
  BY ThreadFacts, SequentialFacts
<1>2. DeletesSoFar(thread[t]) /\ thread[t].at \in {"lookup", "erase", "dismantle", "delete"}
  BY <1>1 DEF SoFar, Sane, Active, Steps
<1>3. thread[t].at \notin {"lookup", "erase"} => Holds(thread[t]) /\ Owns(thread[t]) /\ Removes(thread[t])
  BY <1>2 DEF Holds, Owns, Removes
<1>q. QED BY <1>1, <1>2, <1>3, SequentialFacts DEF Sane, Tables, Strings, Writes

LEMMA FreeTextSequential ==
  ASSUME HashInv, Sequential, NEW t \in Threads, FreeText(t)
  PROVE  Sequential'
<1> DEFINE w == thread[t]
           v == [w EXCEPT !.at = "erase"]
<1>1. /\ w.at = "lookup" /\ w.op = "Delete" /\ UNCHANGED <<keyTable, tables, strings, content>>
      /\ thread' = [thread EXCEPT ![t] = v]
  BY DEF FreeText, At
<1>2. w \in Works /\ thread \in [Threads -> Works] /\ w.right
  BY ThreadFacts, SequentialFacts
<1>3. v.at = "erase" /\ v.op = "Delete" /\ v.right BY <1>1, <1>2 DEF Works
<1> HIDE DEF v
<1>4. thread'[t] = v /\ \A u \in Threads : u # t => thread'[u] = thread[u] BY <1>1, <1>2
<1>5. SoFar(thread[t])'
  <2>1. DeletesSoFar(thread[t])' BY <1>3, <1>4 DEF DeletesSoFar, Removes
  <2>q. QED BY <2>1, <1>3, <1>4 DEF SoFar
<1>6. (\A k : ~Changes(w, k)) /\ ~Writes(w) /\ ~Removes(w) BY <1>1 DEF Changes, Writes, Removes
<1>q. QED BY <1>1, <1>3, <1>4, <1>5, <1>6, QuietSequential

(* A thread that is alone at its key compares no freed text.                *)
LEMMA NoFreedText ==
  ASSUME HashInv, raced = {}, NEW t \in Threads, Active(thread[t]), thread[t].at # "erase"
  PROVE  ~TextFreed(thread[t].key)
<1> SUFFICES ASSUME NEW u \in Threads, thread[u].at = "erase", thread[u].key = thread[t].key PROVE FALSE
  BY DEF TextFreed
<1>1. Active(thread[u]) /\ u # t BY DEF Active
<1>q. QED BY <1>1, AloneApart

LEMMA NothingCompared ==
  ASSUME HashInv, raced = {}, NEW t \in Threads
  PROVE  ~CompareFreedText(t)
<1> SUFFICES ASSUME CompareFreedText(t) PROVE FALSE OBVIOUS
<1>1. PICK u \in Threads \ {t} : thread[u].at = "erase" /\ thread[u].key = thread[t].key
  BY DEF CompareFreedText
<1>2. Active(thread[t]) /\ Active(thread[u]) BY <1>1 DEF CompareFreedText, OnKeys, Active
<1>q. QED BY <1>1, <1>2, AloneApart

LEMMA RemoveKeySequential ==
  ASSUME HashInv, raced = {}, Sequential, content \in [Keys -> Contents], NEW t \in Threads, RemoveKey(t)
  PROVE  Sequential'
<1> DEFINE w == thread[t]
           k == w.key
           b == keyTable[k]
           d == [w EXCEPT !.table = b]
<1>1. /\ w.at \in {"lookup", "erase"} /\ Active(w) /\ w.op = "Delete" /\ UNCHANGED <<tables, strings>>
      /\ keyTable' = [keyTable EXCEPT ![k] = Nil]
  BY ThreadFacts DEF RemoveKey, At, Active, RemoveEntry, Works
<1>2. w \in Works /\ k \in Keys /\ ~Writes(w) /\ b \in Nat /\ w.right /\ ~Removes(w) /\ ~Owns(w)
      /\ thread \in [Threads -> Works] /\ keyTable \in [Keys -> Nat]
  BY <1>1, RemoverFacts DEF Removes, Owns, Holds
<1>3. Stored(k) = content[k] BY <1>1, RecordFacts DEF Changes
<1>4. d \in Works /\ d.table = b /\ d.op = w.op /\ d.key = k /\ d.right = w.right
  BY <1>2 DEF Works
<1>5. CASE b = Nil
  <2>1. Return(t, d) BY <1>4, <1>5 DEF RemoveKey, Get
  <2> HIDE DEF d
  <2>2. /\ \A u \in Threads : u # t => thread'[u] = thread[u]
        /\ thread'[t].at = "idle" /\ thread'[t].right
        /\ content' = [content EXCEPT ![d.key] = Effect(d)]
    BY <1>1, <1>2, <1>4, <2>1, Returned
  <2>3. Effect(d) = Absent BY <1>1, <1>4 DEF Effect
  <2>4. content[k] = Absent BY <1>3, <1>5, StoredFacts
  <2>5. content' = content BY <2>2, <2>3, <2>4, <1>2, <1>4
  <2>6. keyTable' = keyTable BY <1>1, <1>2, <1>5
  <2>7. SoFar(thread[t])' BY <2>2 DEF SoFar, Active
  <2>q. QED BY <1>1, <1>2, <2>2, <2>5, <2>6, <2>7, QuietSequential DEF Changes
<1>6. CASE b # Nil
  <2> DEFINE c == [d EXCEPT !.at = "dismantle"]
  <2>1. Continue(t, c) BY <1>4, <1>6 DEF RemoveKey, Get
  <2> HIDE DEF d
  <2>2. c \in Works /\ c.at = "dismantle" /\ c.table = b /\ c.op = w.op /\ c.key = k /\ c.right
    BY <1>2, <1>4 DEF Works, Places
  <2> HIDE DEF c
  <2>3. /\ \A u \in Threads : u # t => thread'[u] = thread[u]
        /\ Same(thread'[t], c) /\ content' = content
    BY <1>2, <2>1, <2>2, Continued
  <2>4. keyTable'[k] = Nil /\ \A j \in Keys \ {k} : keyTable'[j] = keyTable[j] BY <1>1, <1>2
  <2>5. Touches(t, k) BY <1>1, <2>3, <2>4, ThreadFacts DEF Touches, Slot
  <2>6. /\ thread'[t].at = "dismantle" /\ thread'[t].op = "Delete" /\ thread'[t].key = k
        /\ thread'[t].table = b /\ thread'[t].right
    BY <1>1, <2>2, <2>3 DEF Same
  <2>7. SoFar(thread[t])' BY <2>4, <2>6 DEF SoFar, DeletesSoFar
  <2>8. Changes(thread'[t], k) BY <2>6 DEF Changes, Active
  <2>9. FieldsNamed'
    <3>1. \A x \in 1..Len(tables'), f \in Fields :
             tables'[x].fields[f] # Nil => x \in Tables /\ tables'[x].fields[f] = Slot(x, f)
      BY <1>1 DEF Tables, Slot
    <3>q. QED BY <1>2, <2>5, <3>1, NamedKept
  <2>10. Accounted'
    <3>1. ASSUME NEW s, NEW f \in Fields, Slot(b, f) = s PROVE Placed(s)'
      <4>1. Removes(thread'[t]) /\ tables'[thread'[t].table].fields[f] = s BY <1>1, <2>6, <3>1 DEF Removes, Slot
      <4>q. QED BY <4>1 DEF Placed, Slot, Removes
    <3>2. \A s \in 1..Len(strings') : strings'[s].live => s \in Strings /\ strings[s].live
      BY <1>1 DEF Strings
    <3>q. QED BY <1>1, <1>2, <2>5, <3>1, <3>2, AccountedKept
  <2>q. QED BY <1>1, <1>2, <2>5, <2>6, <2>7, <2>8, <2>9, <2>10, TouchSequential
<1>q. QED BY <1>5, <1>6

LEMMA DismantleSequential ==
  ASSUME HashInv, raced = {}, Sequential, NEW t \in Threads, Dismantle(t)
  PROVE  Sequential'
<1> DEFINE w == thread[t]
           b == w.table
           F == {tables[b].fields[f] : f \in Fields} \ {Nil}
           c == [w EXCEPT !.at = "delete", !.found = F]
<1>1. /\ w.at = "dismantle" /\ Active(w) /\ UNCHANGED <<keyTable, tables, strings>> /\ Continue(t, c)
  BY DEF Dismantle, At, Active
<1>2. w.op = "Delete"
  <2>1. Sane(w, Len(tables), Len(strings)) /\ w.op \in kinds BY <1>1, ThreadFacts
  <2>q. QED BY <1>1, <2>1 DEF Sane, Steps, kinds
<1>3. w \in Works /\ DeletesSoFar(w) /\ Removes(w) /\ ~Writes(w) /\ b \in Tables /\ w.right /\ thread \in [Threads -> Works]
  BY <1>1, <1>2, RemoverFacts
<1>4. F \in SUBSET Names
  <2>1. \A f \in Fields : tables[b].fields[f] \in Nat BY <1>3 DEF HashInv, InRange, Slot
  <2>q. QED BY <2>1 DEF Names
<1>5. \A f \in Fields : Slot(b, f) # Nil => Slot(b, f) \in F BY DEF Slot
<1> HIDE DEF F
<1>6. c \in Works /\ c.at = "delete" /\ c.op = w.op /\ c.key = w.key /\ c.table = b /\ c.found = F /\ c.right
  BY <1>3, <1>4 DEF Works, Places
<1> HIDE DEF c
<1>7. /\ \A u \in Threads : u # t => thread'[u] = thread[u]
      /\ Same(thread'[t], c) /\ content' = content
  BY <1>1, <1>3, <1>6, Continued
<1>8. DeletesSoFar(c) BY <1>3, <1>5, <1>6 DEF DeletesSoFar, Removes
<1>9. SoFar(c) BY <1>2, <1>6, <1>8 DEF SoFar
<1>10. SoFar(thread'[t]) BY <1>7, <1>9, SoFarAlike
<1>11. UNCHANGED <<keyTable, tables, strings, content>> BY <1>1, <1>7
<1>12. SoFar(thread[t])' BY <1>10, <1>11, SoFarCarried
<1>13. thread'[t].right /\ Removes(thread'[t]) /\ thread'[t].table = b
       /\ \A k : Changes(w, k) => Changes(thread'[t], k)
  BY <1>6, <1>7 DEF Same, Removes, Changes, Active
<1>q. QED BY <1>3, <1>7, <1>11, <1>12, <1>13, QuietSequential

LEMMA DeleteFieldHashtableSequential ==
  ASSUME HashInv, raced = {}, Sequential, content \in [Keys -> Contents], NEW t \in Threads, DeleteFieldHashtable(t)
  PROVE  Sequential'
<1> DEFINE w == thread[t]
           k == w.key
           b == w.table
<1>1. /\ w.at = "delete" /\ Active(w) /\ UNCHANGED keyTable /\ Return(t, w)
      /\ strings' = [s \in DOMAIN strings |-> IF s \in w.found THEN [strings[s] EXCEPT !.live = FALSE] ELSE strings[s]]
      /\ tables' = [tables EXCEPT ![b].live = FALSE]
  BY DEF DeleteFieldHashtable, Active
<1>2. w.op = "Delete"
  <2>1. Sane(w, Len(tables), Len(strings)) /\ w.op \in kinds BY <1>1, ThreadFacts
  <2>q. QED BY <1>1, <2>1 DEF Sane, Steps, kinds
<1>3. /\ w \in Works /\ DeletesSoFar(w) /\ Removes(w) /\ ~Writes(w) /\ b \in Tables /\ k \in Keys
      /\ thread \in [Threads -> Works] /\ Owns(w)
  BY <1>1, <1>2, RemoverFacts
<1>4. keyTable[k] = Nil /\ \A f \in Fields : Slot(b, f) # Nil => Slot(b, f) \in w.found
  BY <1>1, <1>3 DEF DeletesSoFar
<1>5. /\ Len(tables') = Len(tables) /\ Tables' = Tables
      /\ \A x \in Tables, f \in Fields : tables'[x].fields[f] = Slot(x, f)
  <2> DEFINE o == [tables[b] EXCEPT !.live = FALSE]
  <2>1. tables[b] \in TableObjects /\ tables \in Seq(TableObjects) /\ b \in 1..Len(tables)
    BY <1>3, ObjectTypes DEF Tables, HashInv, HashTypeOK
  <2>2. o.fields = tables[b].fields BY <2>1 DEF TableObjects
  <2>3. tables' = [tables EXCEPT ![b] = o] BY <1>1
  <2> HIDE DEF o
  <2>4. Len(tables') = Len(tables) /\ tables'[b] = o /\ \A x \in Tables : x # b => tables'[x] = tables[x]
    BY <2>1, <2>3 DEF Tables
  <2>q. QED BY <2>2, <2>4 DEF Tables, Slot
<1>6. /\ Len(strings') = Len(strings)
      /\ \A s \in Strings : strings'[s].text = strings[s].text /\ strings'[s].field = strings[s].field
      /\ \A s \in Strings : strings'[s].live => s \notin w.found /\ strings[s].live
  <2>1. strings \in Seq(StringObjects) /\ DOMAIN strings = Strings /\ Len(strings) \in Nat
    BY DEF HashInv, HashTypeOK, Strings
  <2>2. \A s \in Strings : strings[s] \in StringObjects BY ObjectTypes DEF Strings
  <2>3. \A s \in Strings : strings'[s] = IF s \in w.found THEN [strings[s] EXCEPT !.live = FALSE] ELSE strings[s]
    BY <1>1, <2>1
  <2>4. \A s \in Strings : s \in w.found => /\ ~strings'[s].live /\ strings'[s].text = strings[s].text
                                            /\ strings'[s].field = strings[s].field
    BY <2>2, <2>3 DEF StringObjects
  <2>5. \A s \in Strings : s \notin w.found => strings'[s] = strings[s] BY <2>3
  <2>6. DOMAIN strings' = 1..Len(strings) BY <1>1, <2>1 DEF Strings
  <2>7. strings' \in Seq(StringObjects)
    <3>1. \A s \in 1..Len(strings) : strings'[s] \in StringObjects BY <2>2, <2>3 DEF Strings, StringObjects
    <3>2. strings' \in [1..Len(strings) -> StringObjects] BY <3>1, <1>1, <2>1 DEF Strings
    <3>q. QED BY <3>2, <2>1
  <2>8. Len(strings') = Len(strings) BY <2>1, <2>6, <2>7
  <2>q. QED BY <2>4, <2>5, <2>8
<1>7. /\ \A u \in Threads : u # t => thread'[u] = thread[u]
      /\ thread'[t].at = "idle" /\ thread'[t].right
      /\ content' = [content EXCEPT ![k] = Effect(w)]
  BY <1>1, <1>2, <1>3, Returned
<1>8. Effect(w) = Absent BY <1>2 DEF Effect
<1>9. content'[k] = Absent /\ \A j \in Keys \ {k} : content'[j] = content[j] BY <1>3, <1>7, <1>8
<1>10. Touches(t, k)
  <2>1. Len(tables) <= Len(tables') /\ Len(strings) <= Len(strings') BY <1>5, <1>6, ThreadFacts
  <2>q. QED BY <2>1, <1>1, <1>5, <1>6, <1>7, <1>9 DEF Touches
<1>11. SoFar(thread[t])' BY <1>7 DEF SoFar, Active
<1>12. \A j \in Keys : j = k => (Stored(j) = content[j])'
  <2>1. keyTable'[k] = Nil BY <1>1, <1>4
  <2>2. content'[k] = Absent BY <1>9
  <2>q. QED BY <2>1, <2>2 DEF Stored
<1>13. FieldsNamed'
  <2>1. \A x \in 1..Len(tables'), f \in Fields :
           tables'[x].fields[f] # Nil => x \in Tables /\ tables'[x].fields[f] = Slot(x, f)
    BY <1>5 DEF Tables
  <2>q. QED BY <1>3, <1>10, <2>1, NamedKept
<1>14. Accounted'
  <2>1. \A s \in 1..Len(strings') : strings'[s].live => s \in Strings /\ strings[s].live
    BY <1>6 DEF Strings
  <2>2. \A s \in Strings : strings'[s].live => s \notin w.found /\ s # Nil BY <1>6 DEF Strings, Nil
  <2>q. QED BY <1>1, <1>3, <1>4, <1>10, <2>1, <2>2, AccountedKept
<1>q. QED BY <1>1, <1>3, <1>7, <1>10, <1>11, <1>12, <1>13, <1>14, TouchSequential

(* What the operations leave has the shape of a record.                     *)
LEMMA ContentReturned ==
  ASSUME HashInv, content \in [Keys -> Contents], NEW t \in Threads, NEW d, d.n \in Nat, d.key \in Keys, Return(t, d)
  PROVE  content' \in [Keys -> Contents]
<1> DEFINE e == Effect(d)
           g == [f \in Fields |-> IF f \in d.found THEN d.n ELSE content[d.key].texts[f]]
           z == [f \in Fields |-> 0]
<1>1. content[d.key] \in Contents /\ content[d.key].texts \in Texts BY DEF Contents
<1>2. g \in Texts
  <2>1. \A f \in Fields : content[d.key].texts[f] \in Nat BY <1>1 DEF Texts
  <2>q. QED BY <2>1 DEF Texts
<1>3. z \in Texts BY DEF Texts
<1>4. e \in Contents
  <2>1. CASE d.op \in {"Update", "Insert"}
    <3>1. e = [here |-> TRUE, texts |-> g] BY <2>1, WriterEffect
    <3> HIDE DEF e, g
    <3>q. QED BY <3>1, <1>2 DEF Contents
  <2>2. CASE d.op = "Delete"
    <3>1. e = [here |-> FALSE, texts |-> z] BY <2>2 DEF Effect, Absent
    <3> HIDE DEF e, z
    <3>q. QED BY <3>1, <1>3 DEF Contents
  <2>3. CASE d.op \notin {"Update", "Insert", "Delete"}
    <3>1. e = content[d.key] BY <2>3 DEF Effect
    <3>q. QED BY <3>1, <1>1
  <2>q. QED BY <2>1, <2>2, <2>3
<1>5. content' = [content EXCEPT ![d.key] = e] BY DEF Return
<1> HIDE DEF e
<1>q. QED BY <1>4, <1>5

Ending(t) == content' = content \/ \E d : d.n \in Nat /\ d.key \in Keys /\ Return(t, d)

LEMMA Next1Leaves ==
  ASSUME NEW t \in Threads, NEW d, d.n \in Nat, d.key \in Keys, NEW p, Next1(t, d, p)
  PROVE  Ending(t)
BY DEF Next1, Continue, Ending

LEMMA DoneLeaves ==
  ASSUME NEW w \in Works, w.key \in Keys
  PROVE  w.n \in Nat /\ Done(w).n \in Nat /\ Done(w).key \in Keys
<1> DEFINE x == w.todo \ {Field(w)}
           y == w.found \cup {Field(w)}
<1>1. Done(w) = [w EXCEPT !.todo = x, !.found = y] BY DEF Done
<1> HIDE DEF x, y
<1>q. QED BY <1>1 DEF Works

LEMMA ContentLeft ==
  ASSUME HashInv, NEW t \in Threads,
         \/ Begin(t) \/ Lock(t)
         \/ GetTable(t) \/ Attach(t) \/ CopyValue(t) \/ ReplaceField(t) \/ InsertField(t)
         \/ GetField(t) \/ FollowString(t) \/ GetEntries(t) \/ FollowAll(t) \/ ScanKeys(t) \/ ScanNext(t)
         \/ FreeText(t) \/ RemoveKey(t) \/ CompareFreedText(t) \/ Dismantle(t) \/ DeleteFieldHashtable(t)
  PROVE  Ending(t)
<1> DEFINE w == thread[t]
<1>1. w \in Works /\ (w.at # "idle" => w.key \in Keys) BY ThreadFacts DEF Active
<1>2. w.at # "idle" => w.n \in Nat /\ Done(w).n \in Nat /\ Done(w).key \in Keys BY <1>1, DoneLeaves
<1>3. CASE Begin(t) \/ Lock(t) \/ FreeText(t) \/ CompareFreedText(t)
  BY <1>3 DEF Begin, Lock, FreeText, CompareFreedText, Ending
<1>4. CASE Attach(t) \/ CopyValue(t) \/ GetEntries(t) \/ ScanKeys(t) \/ Dismantle(t)
  BY <1>4 DEF Attach, CopyValue, GetEntries, ScanKeys, Dismantle, Continue, Ending
<1>5. CASE GetTable(t)
  <2> DEFINE d == [w EXCEPT !.table = Get(keyTable, w.key)]
  <2>1. w.at # "idle" BY <1>5 DEF GetTable, At
  <2>2. d.n \in Nat /\ d.key \in Keys BY <1>1, <2>1 DEF Works
  <2>3. Return(t, d) \/ content' = content BY <1>5 DEF GetTable, Continue
  <2> HIDE DEF d
  <2>q. QED BY <2>2, <2>3 DEF Ending
<1>6. CASE RemoveKey(t)
  <2> DEFINE d == [w EXCEPT !.table = Get(keyTable, w.key)]
  <2>1. w.at # "idle" BY <1>6 DEF RemoveKey, At
  <2>2. d.n \in Nat /\ d.key \in Keys BY <1>1, <2>1 DEF Works
  <2>3. Return(t, d) \/ content' = content BY <1>6 DEF RemoveKey, Continue
  <2> HIDE DEF d
  <2>q. QED BY <2>2, <2>3 DEF Ending
<1>7. CASE ReplaceField(t)
  <2>1. w.at # "idle" BY <1>7 DEF ReplaceField, At
  <2>2. content' = content \/ Next1(t, Done(w), "copy") BY <1>7 DEF ReplaceField, Continue
  <2>q. QED BY <1>2, <2>1, <2>2, Next1Leaves DEF Ending
<1>8. CASE InsertField(t)
  <2>1. w.at # "idle" BY <1>8 DEF InsertField, At
  <2>2. Return(t, w) \/ Next1(t, Done(w), "copy") BY <1>8 DEF InsertField
  <2>q. QED BY <1>1, <1>2, <2>1, <2>2, Next1Leaves DEF Ending
<1>9. CASE GetField(t)
  <2>1. w.at # "idle" BY <1>9 DEF GetField, At
  <2>2. content' = content \/ Next1(t, Done(w), "get") BY <1>9 DEF GetField, Continue
  <2>q. QED BY <1>2, <2>1, <2>2, Next1Leaves DEF Ending
<1>10. CASE FollowString(t)
  <2> DEFINE x == strings[w.string].text
             e == [w EXCEPT !.result[Field(w)] = x]
             y == e.todo \ {Field(e)}
             z == e.found \cup {Field(e)}
  <2>1. w.at # "idle" /\ Next1(t, Done(e), "get") BY <1>10 DEF FollowString
  <2>2. e.n \in Nat /\ e.key \in Keys BY <1>1, <2>1 DEF Works
  <2>3. Done(e) = [e EXCEPT !.todo = y, !.found = z] BY DEF Done
  <2>4. "n" \in DOMAIN e /\ "key" \in DOMAIN e BY <1>1 DEF Works
  <2> HIDE DEF e, y, z
  <2>5. Done(e).n = e.n /\ Done(e).key = e.key BY <2>2, <2>3, <2>4
  <2>q. QED BY <2>1, <2>2, <2>5, Next1Leaves
<1>11. CASE FollowAll(t)
  <2> DEFINE seen == [f \in Fields |-> IF \E s \in w.found : strings[s].field = f
                                       THEN strings[CHOOSE s \in w.found : strings[s].field = f].text ELSE 0]
             d == [w EXCEPT !.result = seen]
  <2>1. w.at # "idle" /\ (Return(t, d) \/ content' = content) BY <1>11 DEF FollowAll, Continue
  <2> HIDE DEF seen
  <2>2. d.n \in Nat /\ d.key \in Keys BY <1>1, <2>1 DEF Works
  <2> HIDE DEF d
  <2>q. QED BY <2>1, <2>2 DEF Ending
<1>12. CASE ScanNext(t)
  <2>1. w.at # "idle" /\ (Return(t, w) \/ content' = content) BY <1>12 DEF ScanNext, Continue
  <2>q. QED BY <1>1, <1>2, <2>1 DEF Ending
<1>13. CASE DeleteFieldHashtable(t)
  <2>1. w.at # "idle" /\ Return(t, w) BY <1>13 DEF DeleteFieldHashtable
  <2>q. QED BY <1>1, <1>2, <2>1 DEF Ending
<1>q. QED BY <1>3, <1>4, <1>5, <1>6, <1>7, <1>8, <1>9, <1>10, <1>11, <1>12, <1>13

LEMMA SequentialInit == HashInit => SequentialInv
<1> SUFFICES ASSUME HashInit PROVE SequentialInv OBVIOUS
<1> DEFINE z == [f \in Fields |-> 0]
<1>1. z \in Texts BY DEF Texts
<1>2. \A k \in Keys : content[k] = [here |-> FALSE, texts |-> z] BY DEF HashInit, Absent
<1>3. content \in [Keys -> Contents]
  <2> DEFINE a == [here |-> FALSE, texts |-> z]
  <2>1. content = [k \in Keys |-> a] BY DEF HashInit, Absent
  <2> HIDE DEF z
  <2>2. a \in Contents BY <1>1 DEF Contents
  <2> HIDE DEF a
  <2>q. QED BY <2>1, <2>2
<1>4. Tables = {} /\ Strings = {} BY DEF HashInit, Tables, Strings
<1>5. \A t \in Threads : thread[t].at = "idle" /\ thread[t].right BY DEF HashInit, Idle
<1>6. \A t \in Threads : SoFar(thread[t]) BY <1>5, IdleOwes
<1>7. \A k \in Keys : Stored(k) = content[k] BY DEF HashInit, Stored
<1>8. RecordsKept /\ FieldsNamed /\ Accounted BY <1>4, <1>7 DEF RecordsKept, FieldsNamed, Accounted
<1>q. QED BY <1>3, <1>5, <1>6, <1>8 DEF SequentialInv, Sequential

LEMMA SequentialStep ==
  HashInv /\ SequentialInv /\ [HashNext]_hashVars => SequentialInv'
<1> SUFFICES ASSUME HashInv, SequentialInv, [HashNext]_hashVars PROVE SequentialInv' OBVIOUS
<1>1. CASE HashNext
  <2>1. PICK t \in Threads :
        \/ Begin(t) \/ Lock(t)
        \/ GetTable(t) \/ Attach(t) \/ CopyValue(t) \/ ReplaceField(t) \/ InsertField(t)
        \/ GetField(t) \/ FollowString(t) \/ GetEntries(t) \/ FollowAll(t) \/ ScanKeys(t) \/ ScanNext(t)
        \/ FreeText(t) \/ RemoveKey(t) \/ CompareFreedText(t) \/ Dismantle(t) \/ DeleteFieldHashtable(t)
    BY <1>1 DEF HashNext
  <2>2. content \in [Keys -> Contents] BY DEF SequentialInv
  <2>3. content' \in [Keys -> Contents]
    <3>1. Ending(t) BY <2>1, ContentLeft
    <3>q. QED BY <2>2, <3>1, ContentReturned DEF Ending
  <2>4. raced' = {} => raced = {}
    BY <2>1 DEF Begin, Lock, GetTable, Attach, CopyValue, ReplaceField, InsertField, GetField, FollowString,
                GetEntries, FollowAll, ScanKeys, ScanNext, FreeText, RemoveKey, CompareFreedText, Dismantle,
                DeleteFieldHashtable, Rest
  <2>5. ASSUME raced' = {} PROVE Sequential'
    <3>1. raced = {} /\ Sequential BY <2>4, <2>5 DEF SequentialInv
    <3>2. GetTable(t) => thread[t].op \in {"Read", "Update", "Insert"} BY DEF GetTable
    <3>q. QED BY <2>1, <2>2, <3>1, <3>2, BeginSequential, LockSequential, ReadGetTableSequential,
                 WriteGetTableSequential, AttachSequential, CopyValueSequential, ReplaceFieldSequential,
                 InsertFieldSequential, GetFieldSequential, FollowStringSequential, GetEntriesSequential,
                 FollowAllSequential, ScanKeysSequential, ScanNextSequential, FreeTextSequential, NothingCompared,
                 RemoveKeySequential,
                 DismantleSequential, DeleteFieldHashtableSequential
  <2>q. QED BY <2>3, <2>5 DEF SequentialInv
<1>2. CASE UNCHANGED hashVars
  <2>1. UNCHANGED <<keyTable, tables, strings, thread, content, raced>> BY <1>2 DEF hashVars
  <2>2. \A t \in Threads : SoFar(thread[t]) => SoFar(thread[t])' BY <2>1, SoFarSame
  <2>3. RecordsKept => RecordsKept'
    <3>1. \A k \in Keys : Stored(k)' = Stored(k) BY <2>1 DEF Stored
    <3>q. QED BY <2>1, <3>1 DEF RecordsKept, Changes, Active
  <2>4. FieldsNamed => FieldsNamed' BY <2>1 DEF FieldsNamed, Tables, Slot
  <2>5. Accounted => Accounted'
    <3>1. \A s : Placed(s) => Placed(s)' BY <2>1 DEF Placed, Slot, Writes, Removes
    <3>q. QED BY <2>1, <3>1 DEF Accounted, Strings, LiveString
  <2>q. QED BY <2>1, <2>2, <2>3, <2>4, <2>5 DEF SequentialInv, Sequential
<1>q. QED BY <1>1, <1>2

-----------------------------------------------------------------------------
(* The texts of the keys and of the fields.  A key of the table of records  *)
(* has one, unless a Delete has just freed it; the name of a field of a     *)
(* record has one at least.                                                 *)
Named(k, f) == keyTable[k] # Nil /\ Slot(keyTable[k], f) # Nil
TextsKept ==
  /\ \A k \in Keys : keyTexts[k] = IF keyTable[k] # Nil /\ ~TextFreed(k) THEN 1 ELSE 0
  /\ \A k \in Keys, f \in Fields : Named(k, f) => fieldTexts[k][f] > 0
TextsInv ==
  /\ keyTexts \in [Keys -> Int] /\ fieldTexts \in [Keys -> [Fields -> Nat]]
  /\ raced = {} => TextsKept

(* The steps that leave a thread elsewhere than at the erasure.             *)
Freed(k, th) == \E u \in Threads : th[u].at = "erase" /\ th[u].key = k
SameFreed == \A k : Freed(k, thread') <=> Freed(k, thread)

LEMMA MovesElsewhere ==
  ASSUME thread \in [Threads -> Works], NEW t \in Threads, thread[t].at # "erase", NEW v, v.at # "erase",
         thread' = [thread EXCEPT ![t] = v]
  PROVE  SameFreed
<1>1. thread'[t] = v /\ \A u \in Threads : u # t => thread'[u] = thread[u] OBVIOUS
<1>q. QED BY <1>1 DEF SameFreed, Freed

LEMMA ReturnsElsewhere ==
  ASSUME thread \in [Threads -> Works], NEW t \in Threads, thread[t].at # "erase", NEW d, Return(t, d)
  PROVE  SameFreed
<1> DEFINE r == (d.op = "Read" => d.result = content[d.key].texts)
           v == [Idle EXCEPT !.right = r]
<1>1. thread' = [thread EXCEPT ![t] = v] BY DEF Return
<1>2. v.at # "erase" BY DEF Idle
<1> HIDE DEF v
<1>q. QED BY <1>1, <1>2, MovesElsewhere

LEMMA ContinuesElsewhere ==
  ASSUME thread \in [Threads -> Works], NEW t \in Threads, thread[t].at # "erase", NEW d, Continue(t, d),
         "at" \in DOMAIN d, d.at # "erase"
  PROVE  SameFreed
<1> DEFINE v == [d EXCEPT !.in = FALSE]
<1>1. thread' = [thread EXCEPT ![t] = v] BY DEF Continue
<1>2. v.at # "erase" OBVIOUS
<1> HIDE DEF v
<1>q. QED BY <1>1, <1>2, MovesElsewhere

LEMMA NextElsewhere ==
  ASSUME thread \in [Threads -> Works], NEW t \in Threads, thread[t].at # "erase", NEW d, "at" \in DOMAIN d,
         NEW p, p # "erase", Next1(t, d, p)
  PROVE  SameFreed
<1>1. CASE d.todo = {} BY <1>1, ReturnsElsewhere DEF Next1
<1>2. CASE d.todo # {}
  <2> DEFINE c == [d EXCEPT !.at = p]
  <2>1. "at" \in DOMAIN c /\ c.at = p OBVIOUS
  <2>2. Continue(t, c) BY <1>2 DEF Next1
  <2> HIDE DEF c
  <2>q. QED BY <2>1, <2>2, ContinuesElsewhere
<1>q. QED BY <1>1, <1>2

LEMMA DoneHas == ASSUME NEW w, "at" \in DOMAIN w PROVE "at" \in DOMAIN Done(w)
BY DEF Done

LEMMA FreedElsewhere ==
  ASSUME HashInv, NEW t \in Threads,
         \/ Begin(t) \/ Lock(t)
         \/ GetTable(t) \/ Attach(t) \/ CopyValue(t) \/ ReplaceField(t) \/ InsertField(t)
         \/ GetField(t) \/ FollowString(t) \/ GetEntries(t) \/ FollowAll(t) \/ ScanKeys(t) \/ ScanNext(t)
         \/ CompareFreedText(t) \/ Dismantle(t) \/ DeleteFieldHashtable(t)
  PROVE  SameFreed
<1> DEFINE w == thread[t]
<1>1. thread \in [Threads -> Works] /\ w \in Works /\ "at" \in DOMAIN w
  <2>1. w \in Works /\ thread \in [Threads -> Works] BY ThreadFacts DEF HashInv, HashTypeOK
  <2>q. QED BY <2>1 DEF Works
<1>2. "at" \in DOMAIN Done(w) BY <1>1, DoneHas
<1>3. CASE Begin(t)
  <2>1. PICK op \in kinds, key \in Keys, all \in BOOLEAN, todo \in {Fields, {CHOOSE f \in Fields : TRUE}} :
          thread' = [thread EXCEPT ![t] = [Idle EXCEPT !.at = "lookup", !.op = op, !.key = key, !.todo = todo,
                                                       !.all = all, !.n = begun + 1]]
    <3>1. PICK op \in kinds, key \in Keys, all \in BOOLEAN, todo \in {Fields, {CHOOSE f \in Fields : TRUE}} :
            /\ op # "Read" => ~all
            /\ op \in {"Read", "Scan", "Insert", "Delete"} => todo = Fields
            /\ thread' = [thread EXCEPT ![t] = [Idle EXCEPT !.at = "lookup", !.op = op, !.key = key, !.todo = todo,
                                                            !.all = all, !.n = begun + 1]]
            /\ raced' = raced \cup Overlaps(t, op, key)
      BY <1>3, ZenonT(30) DEF Begin
    <3>q. QED BY <3>1
  <2> DEFINE v == [Idle EXCEPT !.at = "lookup", !.op = op, !.key = key, !.todo = todo, !.all = all, !.n = begun + 1]
  <2>2. v.at # "erase" /\ w.at # "erase" BY <1>3 DEF Idle, Begin
  <2>3. thread' = [thread EXCEPT ![t] = v] BY <2>1
  <2> HIDE DEF v
  <2>q. QED BY <1>1, <2>2, <2>3, MovesElsewhere
<1>4. CASE Lock(t)
  <2> DEFINE v == [w EXCEPT !.in = TRUE]
  <2>1. v.at = w.at /\ v.key = w.key BY <1>1 DEF Works
  <2>2. thread' = [thread EXCEPT ![t] = v] BY <1>4 DEF Lock
  <2> HIDE DEF v
  <2>3. thread'[t] = v /\ \A u \in Threads : u # t => thread'[u] = thread[u] BY <1>1, <2>2
  <2>q. QED BY <2>1, <2>3 DEF SameFreed, Freed
<1>5. CASE GetTable(t)
  <2> DEFINE d == [w EXCEPT !.table = Get(keyTable, w.key)]
  <2>1. "at" \in DOMAIN d /\ w.at # "erase" BY <1>1, <1>5 DEF GetTable, At
  <2>2. \/ Return(t, d)
        \/ Continue(t, [d EXCEPT !.at = CASE d.op = "Read" -> IF d.all THEN "entries" ELSE "get"
                                          [] d.op = "Update" -> "copy" [] d.op = "Insert" -> "copy"])
           /\ d.op \in {"Read", "Update", "Insert"}
        \/ Continue(t, [d EXCEPT !.at = "attach", !.table = Len(tables) + 1, !.fresh = TRUE])
    BY <1>1, <1>5 DEF GetTable, Works
  <2> HIDE DEF d
  <2>3. CASE Return(t, d) BY <1>1, <2>1, <2>3, ReturnsElsewhere
  <2>4. CASE /\ Continue(t, [d EXCEPT !.at = CASE d.op = "Read" -> IF d.all THEN "entries" ELSE "get"
                                               [] d.op = "Update" -> "copy" [] d.op = "Insert" -> "copy"])
             /\ d.op \in {"Read", "Update", "Insert"}
    <3> DEFINE p == CASE d.op = "Read" -> IF d.all THEN "entries" ELSE "get"
                      [] d.op = "Update" -> "copy" [] d.op = "Insert" -> "copy"
               c == [d EXCEPT !.at = p]
    <3>1. p # "erase" BY <2>4
    <3>2. Continue(t, c) BY <2>4
    <3> HIDE DEF p
    <3>3. "at" \in DOMAIN c /\ c.at = p BY <2>1
    <3> HIDE DEF c
    <3>q. QED BY <1>1, <2>1, <3>1, <3>2, <3>3, ContinuesElsewhere
  <2>5. CASE Continue(t, [d EXCEPT !.at = "attach", !.table = Len(tables) + 1, !.fresh = TRUE])
    <3> DEFINE c == [d EXCEPT !.at = "attach", !.table = Len(tables) + 1, !.fresh = TRUE]
    <3>1. "at" \in DOMAIN c /\ c.at = "attach" BY <2>1
    <3>2. Continue(t, c) BY <2>5
    <3> HIDE DEF c
    <3>q. QED BY <1>1, <2>1, <3>1, <3>2, ContinuesElsewhere
  <2>q. QED BY <2>2, <2>3, <2>4, <2>5
<1>6. CASE Attach(t)
  <2> DEFINE c == [w EXCEPT !.at = "copy"]
  <2>1. "at" \in DOMAIN c /\ c.at = "copy" /\ w.at # "erase" /\ Continue(t, c) BY <1>1, <1>6 DEF Attach, At
  <2> HIDE DEF c
  <2>q. QED BY <1>1, <2>1, ContinuesElsewhere
<1>7. CASE CopyValue(t)
  <2> DEFINE p == IF w.op = "Update" /\ ~w.fresh THEN "replace" ELSE "insert"
             c == [w EXCEPT !.string = Len(strings) + 1, !.at = p]
  <2>1. Continue(t, c) /\ w.at # "erase" BY <1>7 DEF CopyValue
  <2>2. p # "erase" OBVIOUS
  <2> HIDE DEF p
  <2>3. "at" \in DOMAIN c /\ c.at = p BY <1>1
  <2> HIDE DEF c
  <2>q. QED BY <1>1, <2>1, <2>2, <2>3, ContinuesElsewhere
<1>8. CASE ReplaceField(t)
  <2> DEFINE c == [w EXCEPT !.at = "insert"]
  <2>1. w.at # "erase" /\ (Continue(t, c) \/ Next1(t, Done(w), "copy")) BY <1>8 DEF ReplaceField, At
  <2>2. "at" \in DOMAIN c /\ c.at = "insert" BY <1>1
  <2> HIDE DEF c
  <2>3. CASE Continue(t, c) BY <1>1, <2>1, <2>2, <2>3, ContinuesElsewhere
  <2>4. CASE Next1(t, Done(w), "copy") BY <1>1, <1>2, <2>1, <2>4, NextElsewhere
  <2>q. QED BY <2>1, <2>3, <2>4
<1>9. CASE InsertField(t)
  <2>1. w.at # "erase" /\ (Return(t, w) \/ Next1(t, Done(w), "copy")) BY <1>9 DEF InsertField, At
  <2>2. CASE Return(t, w) BY <1>1, <2>1, <2>2, ReturnsElsewhere
  <2>3. CASE Next1(t, Done(w), "copy") BY <1>1, <1>2, <2>1, <2>3, NextElsewhere
  <2>q. QED BY <2>1, <2>2, <2>3
<1>10. CASE GetField(t)
  <2> DEFINE s == Get(tables[w.table].fields, Field(w))
             c == [w EXCEPT !.at = "follow", !.string = s]
  <2>1. w.at # "erase" /\ (Continue(t, c) \/ Next1(t, Done(w), "get")) BY <1>10 DEF GetField, At
  <2> HIDE DEF s
  <2>2. "at" \in DOMAIN c /\ c.at = "follow" BY <1>1
  <2> HIDE DEF c
  <2>3. CASE Continue(t, c) BY <1>1, <2>1, <2>2, <2>3, ContinuesElsewhere
  <2>4. CASE Next1(t, Done(w), "get") BY <1>1, <1>2, <2>1, <2>4, NextElsewhere
  <2>q. QED BY <2>1, <2>3, <2>4
<1>11. CASE FollowString(t)
  <2> DEFINE x == strings[w.string].text
             e == [w EXCEPT !.result[Field(w)] = x]
  <2>1. w.at # "erase" /\ Next1(t, Done(e), "get") BY <1>11 DEF FollowString
  <2>2. "at" \in DOMAIN e BY <1>1
  <2> HIDE DEF e
  <2>3. "at" \in DOMAIN Done(e) BY <2>2, DoneHas
  <2>q. QED BY <1>1, <2>1, <2>3, NextElsewhere
<1>12. CASE GetEntries(t) \/ Dismantle(t)
  <2> DEFINE all == {tables[w.table].fields[f] : f \in Fields} \ {Nil}
             c == [w EXCEPT !.at = "followall", !.found = all]
             e == [w EXCEPT !.at = "delete", !.found = all]
  <2>1. w.at # "erase" /\ (Continue(t, c) \/ Continue(t, e)) BY <1>12 DEF GetEntries, Dismantle, At
  <2> HIDE DEF all
  <2>2. "at" \in DOMAIN c /\ c.at = "followall" /\ "at" \in DOMAIN e /\ e.at = "delete" BY <1>1
  <2> HIDE DEF c, e
  <2>3. CASE Continue(t, c) BY <1>1, <2>1, <2>2, <2>3, ContinuesElsewhere
  <2>4. CASE Continue(t, e) BY <1>1, <2>1, <2>2, <2>4, ContinuesElsewhere
  <2>q. QED BY <2>1, <2>3, <2>4
<1>13. CASE FollowAll(t)
  <2> DEFINE seen == [f \in Fields |-> IF \E s \in w.found : strings[s].field = f
                                       THEN strings[CHOOSE s \in w.found : strings[s].field = f].text ELSE 0]
             d == [w EXCEPT !.result = seen]
             c == [w EXCEPT !.at = "scan", !.found = {}]
  <2>1. w.at # "erase" /\ (Return(t, d) \/ Continue(t, c)) BY <1>13 DEF FollowAll
  <2> HIDE DEF d
  <2>2. "at" \in DOMAIN c /\ c.at = "scan" BY <1>1
  <2> HIDE DEF c
  <2>3. CASE Return(t, d) BY <1>1, <2>1, <2>3, ReturnsElsewhere
  <2>4. CASE Continue(t, c) BY <1>1, <2>1, <2>2, <2>4, ContinuesElsewhere
  <2>q. QED BY <2>1, <2>3, <2>4
<1>14. CASE ScanKeys(t)
  <2>1. PICK S \in EntriesFrom(keyTable, w.key, ScanLength) :
          Continue(t, [w EXCEPT !.at = "scan", !.todo = {keyTable[k] : k \in S}])
    BY <1>14 DEF ScanKeys
  <2> DEFINE found == {keyTable[k] : k \in S}
             c == [w EXCEPT !.at = "scan", !.todo = found]
  <2>2. Continue(t, c) /\ w.at # "erase" BY <1>14, <2>1 DEF ScanKeys, At
  <2> HIDE DEF found
  <2>3. "at" \in DOMAIN c /\ c.at = "scan" BY <1>1
  <2> HIDE DEF c
  <2>q. QED BY <1>1, <2>2, <2>3, ContinuesElsewhere
<1>15. CASE ScanNext(t)
  <2>1. w.at # "erase" BY <1>15 DEF ScanNext
  <2>2. CASE w.todo = {} BY <1>1, <1>15, <2>1, <2>2, ReturnsElsewhere DEF ScanNext
  <2>3. CASE w.todo # {}
    <3>1. PICK b \in w.todo : Continue(t, [w EXCEPT !.at = "entries", !.table = b, !.todo = @ \ {b}])
      BY <1>15, <2>3 DEF ScanNext
    <3> DEFINE rest == w.todo \ {b}
               c == [w EXCEPT !.at = "entries", !.table = b, !.todo = rest]
    <3>2. Continue(t, c) BY <3>1
    <3> HIDE DEF rest
    <3>3. "at" \in DOMAIN c /\ c.at = "entries" BY <1>1
    <3> HIDE DEF c
    <3>q. QED BY <1>1, <2>1, <3>2, <3>3, ContinuesElsewhere
  <2>q. QED BY <2>2, <2>3
<1>16. CASE CompareFreedText(t) BY <1>16 DEF CompareFreedText, SameFreed
<1>17. CASE DeleteFieldHashtable(t)
  <2>1. w.at # "erase" /\ Return(t, w) BY <1>17 DEF DeleteFieldHashtable
  <2>q. QED BY <1>1, <2>1, ReturnsElsewhere
<1>q. QED BY <1>3, <1>4, <1>5, <1>6, <1>7, <1>8, <1>9, <1>10, <1>11, <1>12, <1>13, <1>14, <1>15, <1>16, <1>17

(* A step that leaves the texts alone, and names no more fields.            *)
LEMMA TextsAlone ==
  ASSUME TextsInv, raced' = {} => raced = {}, UNCHANGED <<keyTable, texts>>, SameFreed,
         \A k \in Keys, f \in Fields : Named(k, f)' => Named(k, f)
  PROVE  TextsInv'
<1>1. UNCHANGED <<keyTexts, fieldTexts>> BY DEF texts
<1>2. \A k : TextFreed(k)' <=> TextFreed(k) BY DEF SameFreed, Freed, TextFreed
<1>3. TextsKept => TextsKept'
  <2> SUFFICES ASSUME TextsKept PROVE TextsKept' OBVIOUS
  <2>1. \A k \in Keys : keyTexts'[k] = IF keyTable'[k] # Nil /\ ~TextFreed(k)' THEN 1 ELSE 0
    BY <1>1, <1>2 DEF TextsKept
  <2>2. \A k \in Keys, f \in Fields : Named(k, f)' => fieldTexts'[k][f] > 0
    BY <1>1 DEF TextsKept
  <2>q. QED BY <2>1, <2>2 DEF TextsKept
<1>q. QED BY <1>1, <1>3 DEF TextsInv

LEMMA SlotsAlone ==
  ASSUME UNCHANGED <<keyTable, tables>>
  PROVE  \A k \in Keys, f \in Fields : Named(k, f)' => Named(k, f)
BY DEF Named, Slot

LEMMA GetTableTexts ==
  ASSUME HashInv, NEW t \in Threads, GetTable(t)
  PROVE  \A k \in Keys, f \in Fields : Named(k, f)' => Named(k, f)
<1>1. keyTable' = keyTable /\ (tables' = tables \/ tables' = NewFieldHashtable) BY DEF GetTable
<1>2. CASE tables' = tables BY <1>1, <1>2, SlotsAlone
<1>3. CASE tables' = NewFieldHashtable
  <2>1. \A b \in Tables : tables'[b] = tables[b] BY <1>3, TableMade
  <2>2. \A k \in Keys : keyTable[k] # Nil => keyTable[k] \in Tables
    BY DEF HashInv, HashTypeOK, InRange, Tables, Nil
  <2>q. QED BY <1>1, <2>1, <2>2 DEF Named, Slot
<1>q. QED BY <1>1, <1>2, <1>3

(* The table a writer writes into.                                          *)
LEMMA WriterTable ==
  ASSUME HashInv, NEW t \in Threads, thread[t].at \in {"replace", "insert"}
  PROVE  /\ thread[t].table \in Tables /\ Field(thread[t]) \in Fields /\ thread[t].key \in Keys
         /\ Owns(thread[t]) /\ thread[t].string # Nil
<1> DEFINE w == thread[t]
<1>1. Active(w) /\ Holds(w) /\ Writes(w) /\ HasField(w) BY DEF Active, Holds, Writes, HasField
<1>2. w \in Works /\ Sane(w, Len(tables), Len(strings)) /\ w.op \in kinds /\ w.key \in Keys BY <1>1, ThreadFacts
<1>3. w.op \in {"Update", "Insert"} BY <1>1, <1>2 DEF Sane, Steps, kinds
<1>4. w.table \in Tables /\ w.string # Nil /\ w.todo \subseteq Fields /\ w.todo # {}
  BY <1>1, <1>2, <1>3 DEF Sane, Tables, Nil
<1>q. QED BY <1>1, <1>2, <1>3, <1>4 DEF Owns, Field

LEMMA FieldWritten ==
  ASSUME HashInv, NEW b \in Tables, NEW f \in Fields, NEW s,
         \/ tables' = [tables EXCEPT ![b].fields = [tables[b].fields EXCEPT ![f] = s]]
         \/ tables' = [tables EXCEPT ![b].fields = tables[b].fields]
  PROVE  \A c \in Tables, g \in Fields : (c # b \/ g # f) => tables'[c].fields[g] = Slot(c, g)
<1>1. tables \in Seq(TableObjects) /\ tables[b] \in TableObjects /\ b \in DOMAIN tables
  BY ObjectTypes DEF HashInv, HashTypeOK, Tables
<1>2. tables[b].fields \in [Fields -> Nat] BY <1>1 DEF TableObjects, Texts
<1>3. PICK m : /\ tables' = [tables EXCEPT ![b].fields = m]
               /\ (m = [tables[b].fields EXCEPT ![f] = s] \/ m = tables[b].fields)
  OBVIOUS
<1>4. \A g \in Fields : g # f => m[g] = tables[b].fields[g] BY <1>2, <1>3
<1>5. tables'[b].fields = m /\ \A c \in Tables : c # b => tables'[c] = tables[c]
  BY <1>1, <1>3 DEF TableObjects, Tables
<1>q. QED BY <1>4, <1>5 DEF Slot

LEMMA ReplaceFieldTexts ==
  ASSUME HashInv, NEW t \in Threads, ReplaceField(t)
  PROVE  \A k \in Keys, f \in Fields : Named(k, f)' => Named(k, f)
<1> DEFINE w == thread[t]
           b == w.table
           g == Field(w)
<1>1. keyTable' = keyTable /\ w.at = "replace"
      /\ tables' = [tables EXCEPT ![b].fields = Replace(tables[b].fields, g, w.string)]
  BY DEF ReplaceField, At
<1>2. b \in Tables /\ g \in Fields BY <1>1, WriterTable
<1>3. \A k \in Keys : keyTable[k] # Nil => keyTable[k] \in Tables
  BY DEF HashInv, HashTypeOK, InRange, Tables, Nil
<1> HIDE DEF g
<1>4. CASE tables[b].fields[g] = Nil
  <2>1. tables' = [tables EXCEPT ![b].fields = tables[b].fields] BY <1>1, <1>4 DEF Replace
  <2>2. tables' = tables
    <3>1. tables \in Seq(TableObjects) /\ tables[b] \in TableObjects BY <1>2, ObjectTypes DEF HashInv, HashTypeOK, Tables
    <3>2. [tables[b] EXCEPT !.fields = tables[b].fields] = tables[b] BY <3>1 DEF TableObjects
    <3>q. QED BY <2>1, <3>1, <3>2
  <2>q. QED BY <1>1, <2>2, SlotsAlone
<1>5. CASE tables[b].fields[g] # Nil
  <2>1. tables' = [tables EXCEPT ![b].fields = [tables[b].fields EXCEPT ![g] = w.string]] BY <1>1, <1>5 DEF Replace
  <2>2. \A c \in Tables, h \in Fields : (c # b \/ h # g) => tables'[c].fields[h] = Slot(c, h)
    BY <1>2, <2>1, FieldWritten
  <2>3. Slot(b, g) # Nil BY <1>5 DEF Slot
  <2>4. ASSUME NEW k \in Keys, NEW f \in Fields, keyTable'[k] # Nil, tables'[keyTable'[k]].fields[f] # Nil
        PROVE  keyTable[k] # Nil /\ Slot(keyTable[k], f) # Nil
    BY <1>1, <1>3, <2>2, <2>3, <2>4
  <2>q. QED BY <2>4 DEF Named, Slot
<1>q. QED BY <1>4, <1>5

LEMMA DeleteFieldHashtableTexts ==
  ASSUME HashInv, NEW t \in Threads, DeleteFieldHashtable(t)
  PROVE  \A k \in Keys, f \in Fields : Named(k, f)' => Named(k, f)
<1> DEFINE b == thread[t].table
<1>1. keyTable' = keyTable /\ tables' = [tables EXCEPT ![b].live = FALSE] /\ thread[t].at = "delete"
  BY DEF DeleteFieldHashtable
<1>2. b \in Tables
  <2>1. Holds(thread[t]) /\ Sane(thread[t], Len(tables), Len(strings)) BY <1>1, ThreadFacts DEF Holds
  <2>q. QED BY <2>1 DEF Sane, Tables
<1>3. tables[b] \in TableObjects /\ tables \in Seq(TableObjects) /\ b \in 1..Len(tables)
  BY <1>2, ObjectTypes DEF Tables, HashInv, HashTypeOK
<1> DEFINE o == [tables[b] EXCEPT !.live = FALSE]
<1>4. o.fields = tables[b].fields BY <1>3 DEF TableObjects
<1>5. tables' = [tables EXCEPT ![b] = o] BY <1>1
<1> HIDE DEF o
<1>6. tables'[b] = o /\ \A x \in Tables : x # b => tables'[x] = tables[x] BY <1>3, <1>5 DEF Tables
<1>7. \A k \in Keys : keyTable[k] # Nil => keyTable[k] \in Tables
  BY DEF HashInv, HashTypeOK, InRange, Tables, Nil
<1>q. QED BY <1>1, <1>4, <1>6, <1>7 DEF Named, Slot

(* The steps that copy or free a text.                                      *)
LEMMA AttachTexts ==
  ASSUME HashInv, SequentialInv, TextsInv, NEW t \in Threads, Attach(t)
  PROVE  TextsInv'
<1> DEFINE k == thread[t].key
           b == thread[t].table
<1>1. /\ thread[t].at = "attach" /\ keyTexts' = [keyTexts EXCEPT ![k] = @ + 1] /\ UNCHANGED <<raced, tables, fieldTexts>>
      /\ keyTable' = TableInsert(keyTable, k, b)
  BY DEF Attach, At, Rest
<1>2. Active(thread[t]) BY <1>1 DEF Active
<1>3. Sane(thread[t], Len(tables), Len(strings)) /\ k \in Keys /\ thread[t].op \in kinds BY <1>2, ThreadFacts
<1>4. thread[t].op \in {"Update", "Insert"} BY <1>1, <1>2, <1>3 DEF Sane, Steps, kinds
<1>5. /\ keyTexts' \in [Keys -> Int] /\ fieldTexts' \in [Keys -> [Fields -> Nat]] /\ keyTable \in [Keys -> Nat]
      /\ keyTexts'[k] = keyTexts[k] + 1 /\ \A j \in Keys : j # k => keyTexts'[j] = keyTexts[j]
  BY <1>1, <1>3 DEF TextsInv, HashInv, HashTypeOK
<1>6. SameFreed BY FreedElsewhere
<1>7. \A j : TextFreed(j)' <=> TextFreed(j) BY <1>6 DEF SameFreed, Freed, TextFreed
<1>8. ASSUME raced' = {} PROVE TextsKept'
  <2>1. raced = {} /\ TextsKept /\ Sequential BY <1>1, <1>8 DEF TextsInv, SequentialInv
  <2>2. WritesSoFar(thread[t]) BY <1>2, <1>4, <2>1 DEF Sequential, SoFar
  <2>3. keyTable[k] = Nil /\ \A f \in Fields : Slot(b, f) = Nil BY <1>1, <2>2 DEF WritesSoFar
  <2>4. b # Nil BY <1>1, <1>3 DEF Sane, Holds, Nil
  <2>5. keyTable'[k] = b /\ \A j \in Keys : j # k => keyTable'[j] = keyTable[j]
    BY <1>1, <1>3, <1>5, <2>3 DEF TableInsert
  <2>6. ~TextFreed(k) BY <1>1, <1>2, <2>1, NoFreedText
  <2>7. keyTexts[k] = 0 BY <1>3, <2>1, <2>3 DEF TextsKept
  <2>8. \A j \in Keys : keyTexts'[j] = IF keyTable'[j] # Nil /\ ~TextFreed(j)' THEN 1 ELSE 0
    <3>1. ASSUME NEW j \in Keys, j # k PROVE keyTexts'[j] = IF keyTable'[j] # Nil /\ ~TextFreed(j)' THEN 1 ELSE 0
      BY <1>5, <1>7, <2>1, <2>5, <3>1 DEF TextsKept
    <3>2. ASSUME NEW j \in Keys, j = k PROVE keyTexts'[j] = IF keyTable'[j] # Nil /\ ~TextFreed(j)' THEN 1 ELSE 0
      <4>1. keyTexts'[j] = 1 /\ keyTable'[j] # Nil BY <1>5, <2>4, <2>5, <2>7, <3>2
      <4>2. ~TextFreed(j) BY <2>6, <3>2
      <4>3. ~TextFreed(j)' BY <1>7, <4>2
      <4>q. QED BY <4>1, <4>3
    <3>q. QED BY <3>1, <3>2
  <2>9. \A j \in Keys, f \in Fields : Named(j, f)' => Named(j, f)
    BY <1>1, <2>3, <2>5 DEF Named, Slot
  <2>10. \A j \in Keys, f \in Fields : Named(j, f)' => fieldTexts'[j][f] > 0 BY <1>1, <2>1, <2>9 DEF TextsKept
  <2>q. QED BY <2>8, <2>10 DEF TextsKept
<1>q. QED BY <1>5, <1>8 DEF TextsInv

LEMMA InsertFieldTexts ==
  ASSUME HashInv, TextsInv, NEW t \in Threads, InsertField(t)
  PROVE  TextsInv'
<1> DEFINE w == thread[t]
           k == w.key
           b == w.table
           g == Field(w)
<1>1. /\ w.at = "insert" /\ UNCHANGED <<raced, keyTable, keyTexts>>
      /\ tables' = [tables EXCEPT ![b].fields = TableInsert(tables[b].fields, g, w.string)]
      /\ fieldTexts' = [fieldTexts EXCEPT ![k][g] = @ + 1]
  BY DEF InsertField, At, Rest
<1>2. b \in Tables /\ g \in Fields /\ k \in Keys /\ Owns(w) BY <1>1, WriterTable
<1> HIDE DEF g
<1>3. \/ tables' = [tables EXCEPT ![b].fields = [tables[b].fields EXCEPT ![g] = w.string]]
      \/ tables' = [tables EXCEPT ![b].fields = tables[b].fields]
  BY <1>1 DEF TableInsert
<1>4. \A c \in Tables, h \in Fields : (c # b \/ h # g) => tables'[c].fields[h] = Slot(c, h)
  BY <1>2, <1>3, FieldWritten
<1>5. /\ fieldTexts' \in [Keys -> [Fields -> Nat]] /\ fieldTexts'[k][g] > 0
      /\ \A j \in Keys, h \in Fields : fieldTexts'[j][h] >= fieldTexts[j][h]
  BY <1>1, <1>2 DEF TextsInv
<1>6. SameFreed BY FreedElsewhere
<1>7. \A j : TextFreed(j)' <=> TextFreed(j) BY <1>6 DEF SameFreed, Freed, TextFreed
<1>8. TextsKept => TextsKept'
  <2> SUFFICES ASSUME TextsKept PROVE TextsKept' OBVIOUS
  <2>1. \A j \in Keys : keyTexts'[j] = IF keyTable'[j] # Nil /\ ~TextFreed(j)' THEN 1 ELSE 0
    BY <1>1, <1>7 DEF TextsKept
  <2>2. ASSUME NEW j \in Keys, NEW f \in Fields, Named(j, f)' PROVE fieldTexts'[j][f] > 0
    <3>1. keyTable[j] # Nil /\ tables'[keyTable[j]].fields[f] # Nil BY <1>1, <2>2 DEF Named, Slot
    <3>2. keyTable[j] \in Tables BY <3>1 DEF HashInv, HashTypeOK, InRange, Tables, Nil
    <3>3. CASE keyTable[j] # b \/ f # g
      <4>1. Named(j, f) BY <1>4, <3>1, <3>2, <3>3 DEF Named
      <4>2. fieldTexts[j][f] > 0 BY <4>1 DEF TextsKept
      <4>3. fieldTexts[j][f] \in Nat /\ fieldTexts'[j][f] \in Nat /\ fieldTexts'[j][f] >= fieldTexts[j][f]
        BY <1>5 DEF TextsInv
      <4>q. QED BY <4>2, <4>3
    <3>4. CASE keyTable[j] = b /\ f = g
      <4>1. j = k BY <1>2, <3>4 DEF HashInv, HeapSound, KeysApart
      <4>q. QED BY <1>5, <3>4, <4>1
    <3>q. QED BY <3>3, <3>4
  <2>q. QED BY <2>1, <2>2 DEF TextsKept
<1>q. QED BY <1>1, <1>5, <1>8 DEF TextsInv

LEMMA FreeTextTexts ==
  ASSUME HashInv, TextsInv, NEW t \in Threads, FreeText(t)
  PROVE  TextsInv'
<1> DEFINE w == thread[t]
           k == w.key
           v == [w EXCEPT !.at = "erase"]
<1>1. /\ w.at = "lookup" /\ keyTable[k] # Nil /\ keyTexts' = [keyTexts EXCEPT ![k] = @ - 1]
      /\ UNCHANGED <<raced, keyTable, tables, fieldTexts>> /\ thread' = [thread EXCEPT ![t] = v]
  BY DEF FreeText, At, Rest, FreeKeyText, Get
<1>2. w \in Works /\ thread \in [Threads -> Works] /\ k \in Keys
  BY <1>1, ThreadFacts DEF Active, HashInv, HashTypeOK
<1>3. v.at = "erase" /\ v.key = k BY <1>2 DEF Works
<1> HIDE DEF v
<1>4. thread'[t] = v /\ \A u \in Threads : u # t => thread'[u] = thread[u] BY <1>1, <1>2
<1>5. /\ \A j : j = k => TextFreed(j)'
      /\ \A j : j # k => (TextFreed(j)' <=> TextFreed(j))
  BY <1>1, <1>3, <1>4 DEF TextFreed
<1>6. /\ keyTexts' \in [Keys -> Int] /\ keyTexts'[k] = keyTexts[k] - 1
      /\ \A j \in Keys : j # k => keyTexts'[j] = keyTexts[j]
  BY <1>1, <1>2 DEF TextsInv
<1>7. ASSUME raced' = {} PROVE TextsKept'
  <2>1. raced = {} /\ TextsKept BY <1>1, <1>7 DEF TextsInv
  <2>2. ~TextFreed(k)
    <3>1. Active(w) /\ w.at # "erase" BY <1>1 DEF Active
    <3>q. QED BY <2>1, <3>1, NoFreedText
  <2>3. keyTexts[k] = 1 BY <1>1, <1>2, <2>1, <2>2 DEF TextsKept
  <2>4. \A j \in Keys : keyTexts'[j] = IF keyTable'[j] # Nil /\ ~TextFreed(j)' THEN 1 ELSE 0
    <3>1. ASSUME NEW j \in Keys, j # k PROVE keyTexts'[j] = IF keyTable'[j] # Nil /\ ~TextFreed(j)' THEN 1 ELSE 0
      BY <1>1, <1>5, <1>6, <2>1, <3>1 DEF TextsKept
    <3>2. ASSUME NEW j \in Keys, j = k PROVE keyTexts'[j] = IF keyTable'[j] # Nil /\ ~TextFreed(j)' THEN 1 ELSE 0
      <4>1. keyTexts'[j] = 0 BY <1>6, <2>3, <3>2
      <4>2. TextFreed(j)' BY <1>5, <3>2
      <4>q. QED BY <4>1, <4>2
    <3>q. QED BY <3>1, <3>2
  <2>5. \A j \in Keys, f \in Fields : Named(j, f)' => fieldTexts'[j][f] > 0
    <3>1. \A j \in Keys, f \in Fields : Named(j, f)' => Named(j, f) BY <1>1, SlotsAlone
    <3>q. QED BY <1>1, <2>1, <3>1 DEF TextsKept
  <2>q. QED BY <2>4, <2>5 DEF TextsKept
<1>q. QED BY <1>1, <1>6, <1>7 DEF TextsInv

LEMMA RemoveKeyTexts ==
  ASSUME HashInv, TextsInv, NEW t \in Threads, RemoveKey(t)
  PROVE  TextsInv'
<1> DEFINE w == thread[t]
           k == w.key
           b == keyTable[k]
           d == [w EXCEPT !.table = b]
           c == [d EXCEPT !.at = "dismantle"]
<1>1. /\ w.at \in {"lookup", "erase"} /\ UNCHANGED <<raced, tables>> /\ keyTable' = [keyTable EXCEPT ![k] = Nil]
      /\ fieldTexts' = fieldTexts
  BY DEF RemoveKey, At, Rest, RemoveEntry, NoText, texts
<1>2. w \in Works /\ thread \in [Threads -> Works] /\ k \in Keys /\ keyTable \in [Keys -> Nat]
  BY <1>1, ThreadFacts DEF Active, HashInv, HashTypeOK
<1>3. d \in Works /\ d.table = b /\ d.at = w.at /\ d.key = k
  <2>1. b \in Nat BY <1>2
  <2>q. QED BY <1>2, <2>1 DEF Works
<1>4. \/ d.at = "erase" /\ UNCHANGED keyTexts
      \/ d.at = "lookup" /\ b = Nil /\ UNCHANGED keyTexts
      \/ d.at = "lookup" /\ b # Nil /\ keyTexts' = [keyTexts EXCEPT ![k] = @ - 1]
  BY <1>3 DEF RemoveKey, Get, NoText, texts, FreeKeyText
<1>5. Return(t, d) \/ Continue(t, c) BY DEF RemoveKey, Get
<1>6. (\A u \in Threads : u # t => thread'[u] = thread[u]) /\ thread'[t].at # "erase"
  <2> HIDE DEF d
  <2>1. CASE Return(t, d)
    <3> DEFINE r == (d.op = "Read" => d.result = content[d.key].texts)
               v == [Idle EXCEPT !.right = r]
    <3>1. thread' = [thread EXCEPT ![t] = v] BY <2>1 DEF Return
    <3>2. v.at # "erase" BY DEF Idle
    <3> HIDE DEF v
    <3>q. QED BY <1>2, <3>1, <3>2
  <2>2. CASE Continue(t, c)
    <3> DEFINE v == [c EXCEPT !.in = FALSE]
    <3>1. thread' = [thread EXCEPT ![t] = v] BY <2>2 DEF Continue
    <3>2. v.at # "erase" BY <1>3 DEF Works
    <3> HIDE DEF v
    <3>q. QED BY <1>2, <3>1, <3>2
  <2>q. QED BY <1>5, <2>1, <2>2
<1> HIDE DEF c
<1>7. \A j : j # k => (TextFreed(j)' <=> TextFreed(j)) BY <1>6, <1>1 DEF TextFreed
<1>8. keyTable'[k] = Nil /\ \A j \in Keys : j # k => keyTable'[j] = keyTable[j] BY <1>1, <1>2
<1>9. keyTexts' \in [Keys -> Int] /\ \A j \in Keys : j # k => keyTexts'[j] = keyTexts[j]
  BY <1>2, <1>4 DEF TextsInv
<1>10. ASSUME raced' = {} PROVE TextsKept'
  <2>1. raced = {} /\ TextsKept BY <1>1, <1>10 DEF TextsInv
  <2>2. keyTexts'[k] = 0
    <3>1. keyTexts[k] = IF b # Nil /\ ~TextFreed(k) THEN 1 ELSE 0 BY <1>2, <2>1 DEF TextsKept
    <3>2. CASE d.at = "erase" /\ UNCHANGED keyTexts
      <4>1. TextFreed(k) BY <1>3, <3>2 DEF TextFreed
      <4>q. QED BY <3>1, <3>2, <4>1
    <3>3. CASE d.at = "lookup" /\ b = Nil /\ UNCHANGED keyTexts BY <3>1, <3>3
    <3>4. CASE d.at = "lookup" /\ b # Nil /\ keyTexts' = [keyTexts EXCEPT ![k] = @ - 1]
      <4>1. Active(w) /\ w.at # "erase" BY <1>3, <3>4 DEF Active
      <4>2. ~TextFreed(k) BY <2>1, <4>1, NoFreedText
      <4>3. keyTexts[k] = 1 BY <3>1, <3>4, <4>2
      <4>q. QED BY <1>2, <3>4, <4>3 DEF TextsInv
    <3>q. QED BY <1>4, <3>2, <3>3, <3>4
  <2>3. \A j \in Keys : keyTexts'[j] = IF keyTable'[j] # Nil /\ ~TextFreed(j)' THEN 1 ELSE 0
    <3>1. ASSUME NEW j \in Keys, j # k PROVE keyTexts'[j] = IF keyTable'[j] # Nil /\ ~TextFreed(j)' THEN 1 ELSE 0
      BY <1>7, <1>8, <1>9, <2>1, <3>1 DEF TextsKept
    <3>q. QED BY <1>8, <2>2, <3>1
  <2>4. \A j \in Keys, f \in Fields : Named(j, f)' => fieldTexts'[j][f] > 0
    <3>1. \A j \in Keys, f \in Fields : Named(j, f)' => Named(j, f) BY <1>1, <1>8 DEF Named, Slot
    <3>q. QED BY <1>1, <2>1, <3>1 DEF TextsKept
  <2>q. QED BY <2>3, <2>4 DEF TextsKept
<1>q. QED BY <1>1, <1>9, <1>10 DEF TextsInv

LEMMA TextsInit == HashInit => TextsInv
<1> SUFFICES ASSUME HashInit PROVE TextsInv OBVIOUS
<1> DEFINE z == [f \in Fields |-> 0]
<1>1. z \in [Fields -> Nat] OBVIOUS
<1>2. keyTexts = [k \in Keys |-> 0] /\ fieldTexts = [k \in Keys |-> z] /\ keyTable = [k \in Keys |-> Nil]
  BY DEF HashInit
<1> HIDE DEF z
<1>3. keyTexts \in [Keys -> Int] /\ fieldTexts \in [Keys -> [Fields -> Nat]] BY <1>1, <1>2
<1>4. TextsKept BY <1>2 DEF TextsKept, Named
<1>q. QED BY <1>3, <1>4 DEF TextsInv

LEMMA TextsStep ==
  HashInv /\ SequentialInv /\ TextsInv /\ [HashNext]_hashVars => TextsInv'
<1> SUFFICES ASSUME HashInv, SequentialInv, TextsInv, [HashNext]_hashVars PROVE TextsInv' OBVIOUS
<1>1. CASE HashNext
  <2>1. PICK t \in Threads :
        \/ Begin(t) \/ Lock(t)
        \/ GetTable(t) \/ Attach(t) \/ CopyValue(t) \/ ReplaceField(t) \/ InsertField(t)
        \/ GetField(t) \/ FollowString(t) \/ GetEntries(t) \/ FollowAll(t) \/ ScanKeys(t) \/ ScanNext(t)
        \/ FreeText(t) \/ RemoveKey(t) \/ CompareFreedText(t) \/ Dismantle(t) \/ DeleteFieldHashtable(t)
    BY <1>1 DEF HashNext
  <2>2. raced' = {} => raced = {}
    BY <2>1 DEF Begin, Lock, GetTable, Attach, CopyValue, ReplaceField, InsertField, GetField, FollowString,
                GetEntries, FollowAll, ScanKeys, ScanNext, FreeText, RemoveKey, CompareFreedText, Dismantle,
                DeleteFieldHashtable, Rest
  <2>3. CASE Begin(t) \/ Lock(t) \/ CopyValue(t) \/ GetField(t) \/ FollowString(t) \/ GetEntries(t) \/ FollowAll(t)
             \/ ScanKeys(t) \/ ScanNext(t) \/ CompareFreedText(t) \/ Dismantle(t)
    <3>1. SameFreed BY <2>3, FreedElsewhere
    <3>2. UNCHANGED <<keyTable, tables, texts>>
      BY <2>3 DEF Begin, Lock, CopyValue, GetField, FollowString, GetEntries, FollowAll, ScanKeys, ScanNext,
                  CompareFreedText, Dismantle, NoText
    <3>3. \A k \in Keys, f \in Fields : Named(k, f)' => Named(k, f) BY <3>2, SlotsAlone
    <3>q. QED BY <2>2, <3>1, <3>2, <3>3, TextsAlone
  <2>4. CASE GetTable(t) \/ ReplaceField(t) \/ DeleteFieldHashtable(t)
    <3>1. SameFreed BY <2>4, FreedElsewhere
    <3>2. UNCHANGED <<keyTable, texts>> BY <2>4 DEF GetTable, ReplaceField, DeleteFieldHashtable, NoText
    <3>3. \A k \in Keys, f \in Fields : Named(k, f)' => Named(k, f)
      BY <2>4, GetTableTexts, ReplaceFieldTexts, DeleteFieldHashtableTexts
    <3>q. QED BY <2>2, <3>1, <3>2, <3>3, TextsAlone
  <2>5. CASE Attach(t) BY <2>5, AttachTexts
  <2>6. CASE InsertField(t) BY <2>6, InsertFieldTexts
  <2>7. CASE FreeText(t) BY <2>7, FreeTextTexts
  <2>8. CASE RemoveKey(t) BY <2>8, RemoveKeyTexts
  <2>q. QED BY <2>1, <2>3, <2>4, <2>5, <2>6, <2>7, <2>8
<1>2. CASE UNCHANGED hashVars
  <2>1. UNCHANGED <<keyTable, tables, texts, thread, raced>> BY <1>2 DEF hashVars
  <2>2. SameFreed BY <2>1 DEF SameFreed
  <2>3. \A k \in Keys, f \in Fields : Named(k, f)' => Named(k, f) BY <2>1, SlotsAlone
  <2>q. QED BY <2>1, <2>2, <2>3, TextsAlone
<1>q. QED BY <1>1, <1>2

(* Operations that overlap on different keys only do what they do alone:    *)
(* a record holds what its operations left, a Read returns the record, and  *)
(* exactly the values in reach are live; each key of the table of records   *)
(* has one text, and each field of a record the text of its name.           *)
THEOREM DisjointKeysAlone == HashSpec => []DisjointKeysSequential
<1>1. HashInv /\ SequentialInv /\ TextsInv => DisjointKeysSequential
  <2> SUFFICES ASSUME HashInv, SequentialInv, TextsInv, raced = {}
               PROVE  /\ Quiet => \A k \in Keys : Stored(k) = content[k]
                      /\ Quiet => {s \in DOMAIN strings : strings[s].live} = Reachable
                      /\ Quiet => \A k \in Keys : /\ keyTexts[k] = IF content[k].here THEN 1 ELSE 0
                                                  /\ \A f \in Fields : content[k].texts[f] # 0 => fieldTexts[k][f] > 0
                      /\ \A t \in Threads : thread[t].right
    BY DEF DisjointKeysSequential
  <2>1. Sequential BY DEF SequentialInv
  <2>2. ASSUME Quiet PROVE \A k \in Keys : Stored(k) = content[k]
    <3>1. \A t \in Threads, k \in Keys : ~Changes(thread[t], k) BY <2>2, IdleOwes DEF Quiet
    <3>q. QED BY <2>1, <3>1 DEF Sequential, RecordsKept
  <2>3. ASSUME Quiet PROVE {s \in DOMAIN strings : strings[s].live} = Reachable
    <3>1. \A t \in Threads : ~Writes(thread[t]) /\ ~Removes(thread[t]) BY <2>3, IdleOwes DEF Quiet
    <3>2. DOMAIN strings = Strings BY DEF HashInv, HashTypeOK, Strings
    <3>3. ASSUME NEW s \in Strings, strings[s].live PROVE s \in Reachable
      <4>1. PICK k \in Keys, f \in Fields : keyTable[k] # Nil /\ Slot(keyTable[k], f) = s
        BY <2>1, <3>1, <3>3 DEF Sequential, Accounted, LiveString, Placed
      <4>2. s # Nil BY DEF Strings, Nil
      <4>q. QED BY <4>1, <4>2 DEF Reachable, Slot
    <3>4. ASSUME NEW s \in Reachable PROVE s \in Strings /\ strings[s].live
      <4>1. PICK k \in Keys, f \in Fields : keyTable[k] # Nil /\ s = Slot(keyTable[k], f) /\ s # Nil
        BY DEF Reachable, Slot
      <4>2. keyTable[k] \in Tables BY <4>1 DEF HashInv, InRange, Tables, Nil
      <4>3. s \in Strings BY <4>1, <4>2 DEF HashInv, InRange, Strings, Nil
      <4>4. AllLive BY AloneCalm DEF HashInv, HeapSound, Safe
      <4>q. QED BY <4>1, <4>2, <4>3, <4>4 DEF AllLive, LiveString
    <3>q. QED BY <3>2, <3>3, <3>4
  <2>4. ASSUME Quiet, NEW k \in Keys
        PROVE  /\ keyTexts[k] = IF content[k].here THEN 1 ELSE 0
               /\ \A f \in Fields : content[k].texts[f] # 0 => fieldTexts[k][f] > 0
    <3>1. Stored(k) = content[k] BY <2>2, <2>4
    <3>2. ~TextFreed(k) BY <2>4 DEF Quiet, TextFreed
    <3>3. TextsKept BY DEF TextsInv
    <3>4. CASE keyTable[k] = Nil
      <4>1. content[k] = Absent BY <3>1, <3>4, StoredFacts
      <4>2. keyTexts[k] = 0 BY <3>3, <3>4 DEF TextsKept
      <4>q. QED BY <4>1, <4>2 DEF Absent
    <3>5. CASE keyTable[k] # Nil
      <4>1. content[k].here /\ \A f \in Fields : content[k].texts[f] = Text(Slot(keyTable[k], f))
        BY <3>1, <3>5, StoredFacts
      <4>2. keyTexts[k] = 1 BY <3>2, <3>3, <3>5 DEF TextsKept
      <4>3. ASSUME NEW f \in Fields, content[k].texts[f] # 0 PROVE fieldTexts[k][f] > 0
        <5>1. Slot(keyTable[k], f) # Nil BY <4>1, <4>3 DEF Text
        <5>q. QED BY <3>3, <3>5, <5>1 DEF TextsKept, Named
      <4>q. QED BY <4>1, <4>2, <4>3
    <3>q. QED BY <3>4, <3>5
  <2>q. QED BY <2>1, <2>2, <2>3, <2>4 DEF Sequential
<1>2. HashInit => HashInv /\ SequentialInv /\ TextsInv BY HashInvInit, SequentialInit, TextsInit
<1>3. HashInv /\ SequentialInv /\ TextsInv /\ [HashNext]_hashVars => HashInv' /\ SequentialInv' /\ TextsInv'
  BY HashInvStep, SequentialStep, TextsStep
<1>q. QED BY <1>1, <1>2, <1>3, PTL DEF HashSpec

-----------------------------------------------------------------------------
(* The front end: the bytes of its messages                                *)

(* A concatenation is cut again where its first part ends.                 *)
LEMMA SequenceCut ==
  ASSUME NEW S, NEW s \in Seq(S), NEW t \in Seq(S)
  PROVE  /\ s \o t \in Seq(S) /\ Len(s \o t) = Len(s) + Len(t)
         /\ \A i \in 1..Len(s) : (s \o t)[i] = s[i]
         /\ \A i \in 1..Len(t) : (s \o t)[Len(s) + i] = t[i]
         /\ SubSeq(s \o t, 1, Len(s)) = s
         /\ SubSeq(s \o t, Len(s) + 1, Len(s \o t)) = t
<1>1. s \o t \in Seq(S) /\ Len(s \o t) = Len(s) + Len(t) OBVIOUS
<1>2. \A i \in 1..Len(s) : (s \o t)[i] = s[i] OBVIOUS
<1>3. \A i \in 1..Len(t) : (s \o t)[Len(s) + i] = t[i] OBVIOUS
<1>4. SubSeq(s \o t, 1, Len(s)) = s BY <1>1, <1>2
<1>5. SubSeq(s \o t, Len(s) + 1, Len(s \o t)) = t BY <1>1, <1>3
<1>q. QED BY <1>1, <1>2, <1>3, <1>4, <1>5

(* Sequences with the same elements are the same.                          *)
LEMMA SeqSame ==
  ASSUME NEW S, NEW s \in Seq(S), NEW t \in Seq(S), Len(s) = Len(t), \A i \in 1..Len(s) : s[i] = t[i]
  PROVE  s = t
OBVIOUS
LEMMA OctetIs == ASSUME NEW x \in Int PROVE x % 256 \in Octet
BY SMT DEF Octet

MaxInt == 2147483647

(* unsigned lays a length or a type out in four bytes, and Value, the      *)
(* same bytes read as an integer, gives it back.                           *)
LEMMA BytesValue ==
  ASSUME NEW v \in Nat, v <= MaxInt
  PROVE  /\ unsigned(v) \in Seq(Octet) /\ Len(unsigned(v)) = 4
         /\ Value(unsigned(v)) = v
<1> DEFINE b == unsigned(v)
           w2 == Weight[2]
           w3 == Weight[3]
           w4 == Weight[4]
<1>1. /\ b \in Seq(Octet) /\ Len(b) = 4
      /\ b[1] = v % 256 /\ b[2] = (v \div w2) % 256
      /\ b[3] = (v \div w3) % 256 /\ b[4] = (v \div w4) % 256
  <2>1. b = [i \in 1..4 |-> (v \div Weight[i]) % 256] BY SMT DEF unsigned
  <2>2. \A i \in 1..4 : Weight[i] \in Nat \ {0} BY SMT DEF Weight
  <2>3. \A i \in 1..4 : (v \div Weight[i]) % 256 \in Octet BY <2>2, OctetIs
  <2>4. b \in Seq(Octet) /\ Len(b) = 4 BY <2>1, <2>3, SMT
  <2>5. v \div Weight[1] = v BY SMT DEF Weight
  <2>q. QED BY <2>1, <2>4, <2>5, SMT
<1>2. v = (v % 256) + 256 * ((v \div w2) % 256) + 65536 * ((v \div w3) % 256) + 16777216 * ((v \div w4) % 256)
  BY SMT DEF Weight, MaxInt
<1> HIDE DEF b, w2, w3, w4
<1>q. QED BY <1>1, <1>2, SMT DEF Value, b

(* htonl and ntohl are the same reversal of the bytes.                     *)
LEMMA ReverseTwice ==
  ASSUME NEW S, NEW b \in Seq(S)
  PROVE  /\ htonl(b) \in Seq(S) /\ Len(htonl(b)) = Len(b)
         /\ htonl(htonl(b)) = b
<1> DEFINE n == Len(b)
           r == htonl(b)
           t == htonl(r)
<1>1. n \in Nat /\ b = [i \in 1..n |-> b[i]] /\ \A i \in 1..n : b[i] \in S OBVIOUS
<1>2. r = [i \in 1..n |-> b[(n - i) + 1]] BY DEF htonl, Reverse
<1>3. \A i \in 1..n : (n - i) + 1 \in 1..n BY <1>1
<1>4. r \in Seq(S) /\ Len(r) = n
  <2> HIDE DEF n, r
  <2>1. \A i \in 1..n : b[(n - i) + 1] \in S BY <1>1, <1>3
  <2>q. QED BY <1>1, <1>2, <2>1
<1>5. t = [i \in 1..n |-> r[(n - i) + 1]] BY <1>4 DEF htonl, Reverse
<1> HIDE DEF n, r, t
<1>6. ASSUME NEW i \in 1..n PROVE r[(n - i) + 1] = b[i]
  <2>1. (n - i) + 1 \in 1..n /\ (n - ((n - i) + 1)) + 1 = i BY <1>1
  <2>q. QED BY <1>2, <2>1
<1>7. t = b BY <1>1, <1>5, <1>6
<1>q. QED BY <1>4, <1>7 DEF r, n, t

LEMMA WiderSeq == ASSUME NEW S, NEW T, S \subseteq T, NEW s \in Seq(S) PROVE s \in Seq(T)
<1>1. s = [i \in 1..Len(s) |-> s[i]] /\ Len(s) \in Nat /\ \A i \in 1..Len(s) : s[i] \in T OBVIOUS
<1>q. QED BY <1>1

(* extract_msg_type takes inject_msg_type back and leaves the bytes behind *)
(* it, whatever they are.                                                  *)
LEMMA TypeFirst ==
  ASSUME NEW S, Octet \subseteq S, NEW rest \in Seq(S), NEW v \in Nat, v <= MaxInt
  PROVE  extract_msg_type(inject_msg_type(v) \o rest) = [got |-> v, rest |-> rest]
<1> DEFINE b == unsigned(v)
           h == inject_msg_type(v)
           m == h \o rest
<1>1. b \in Seq(Octet) /\ Len(b) = 4 /\ Value(b) = v BY BytesValue
<1>2. h \in Seq(Octet) /\ Len(h) = 4 /\ htonl(h) = b BY <1>1, ReverseTwice DEF inject_msg_type
<1>3. h \in Seq(S) BY <1>2, WiderSeq
<1> HIDE DEF b, h
<1>4. SubSeq(m, 1, 4) = h /\ SubSeq(m, 5, Len(m)) = rest
  <2>1. SubSeq(m, 1, Len(h)) = h /\ SubSeq(m, Len(h) + 1, Len(m)) = rest BY <1>3, SequenceCut
  <2>2. Len(h) = 4 /\ Len(h) + 1 = 5 BY <1>2
  <2> HIDE DEF m
  <2>q. QED BY <2>1, <2>2
<1> HIDE DEF m
<1>5. extract_msg_type(m) = [got |-> v, rest |-> rest] BY <1>1, <1>2, <1>4 DEF extract_msg_type
<1>q. QED BY <1>5 DEF m, h

LEMMA TypeAlone ==
  ASSUME NEW v \in Nat, v <= MaxInt
  PROVE  extract_msg_type(inject_msg_type(v)).got = v
<1> DEFINE h == inject_msg_type(v)
<1>1. unsigned(v) \in Seq(Octet) BY BytesValue
<1>2. h \in Seq(Octet) BY <1>1, ReverseTwice DEF inject_msg_type
<1> HIDE DEF h
<1>3. <<>> \in Seq(Octet) /\ h \o <<>> = h BY <1>2
<1>4. extract_msg_type(h \o <<>>) = [got |-> v, rest |-> <<>>] BY <1>3, TypeFirst DEF h
<1>q. QED BY <1>3, <1>4 DEF h

(* extract_key_index takes a string off the front as inject_key_index put  *)
(* it there.                                                               *)
LEMMA KeyFirst ==
  ASSUME NEW s, IsString(s), NEW rest \in Seq(Octet)
  PROVE  /\ inject_key_index(s) \in Seq(Octet)
         /\ extract_key_index(inject_key_index(s) \o rest) = [got |-> s, rest |-> rest]
<1> DEFINE n == Len(s)
           u == unsigned(n)
           k == inject_key_index(s)
           m == k \o rest
<1>1. s \in Seq(Octet) /\ n \in Nat /\ n <= MaxInt BY DEF IsString, Room, MaxInt
<1>2. u \in Seq(Octet) /\ Len(u) = 4 /\ Value(u) = n BY <1>1, BytesValue
<1>3. k = u \o s BY DEF inject_key_index
<1> HIDE DEF n, u, k
<1>0. /\ u \o s \in Seq(Octet) /\ Len(u \o s) = Len(u) + Len(s)
      /\ \A i \in 1..Len(u) : (u \o s)[i] = u[i]
      /\ \A i \in 1..Len(s) : (u \o s)[Len(u) + i] = s[i]
  <2>1. u \in Seq(Octet) /\ s \in Seq(Octet) BY <1>1, <1>2
  <2>q. QED BY ONLY <2>1, SequenceCut
<1>4. k \in Seq(Octet) /\ Len(k) = 4 + n /\ \A i \in 1..4 : k[i] = u[i]
  BY <1>0, <1>2, <1>3 DEF n
<1>5. \A i \in 1..n : k[4 + i] = s[i] BY <1>0, <1>2, <1>3 DEF n
<1>6. m \in Seq(Octet) /\ Len(m) = 4 + n + Len(rest) /\ \A i \in 1..(4 + n) : m[i] = k[i]
  <2>1. /\ k \o rest \in Seq(Octet) /\ Len(k \o rest) = Len(k) + Len(rest)
        /\ \A i \in 1..Len(k) : (k \o rest)[i] = k[i]
    BY <1>4, SequenceCut
  <2>q. QED BY <1>4, <2>1
<1>7. SubSeq(m, 5 + n, Len(m)) = rest
  <2>1. SubSeq(m, Len(k) + 1, Len(m)) = rest BY <1>4, SequenceCut
  <2>2. Len(k) + 1 = 5 + n BY <1>4, <1>1
  <2>q. QED BY <2>1, <2>2
<1> HIDE DEF m
<1>8. SubSeq(m, 1, 4) = u
  <2>1. SubSeq(m, 1, 4) \in Seq(Octet) /\ Len(SubSeq(m, 1, 4)) = 4
        /\ \A i \in 1..4 : SubSeq(m, 1, 4)[i] = m[i]
    BY <1>1, <1>6
  <2>2. \A i \in 1..4 : m[i] = u[i] BY <1>1, <1>4, <1>6
  <2>q. QED BY <1>2, <2>1, <2>2, SeqSame
<1>9. SubSeq(m, 5, 4 + n) = s
  <2>1. SubSeq(m, 5, 4 + n) \in Seq(Octet) /\ Len(SubSeq(m, 5, 4 + n)) = n
        /\ \A i \in 1..n : SubSeq(m, 5, 4 + n)[i] = m[4 + i]
    BY <1>1, <1>6
  <2>2. \A i \in 1..n : m[4 + i] = s[i] BY <1>1, <1>5, <1>6
  <2>q. QED BY <1>1, <2>1, <2>2, SeqSame DEF n
<1>10. extract_key_index(m) = [got |-> s, rest |-> rest] BY <1>2, <1>7, <1>8, <1>9 DEF extract_key_index
<1>q. QED BY <1>4, <1>10 DEF m, k

LEMMA ConcatAssoc ==
  ASSUME NEW S, NEW s \in Seq(S), NEW t \in Seq(S), NEW u \in Seq(S)
  PROVE  (s \o t) \o u = s \o (t \o u)
<1>1. /\ s \o t \in Seq(S) /\ Len(s \o t) = Len(s) + Len(t)
      /\ \A i \in 1..Len(s) : (s \o t)[i] = s[i]
      /\ \A i \in 1..Len(t) : (s \o t)[Len(s) + i] = t[i]
      /\ t \o u \in Seq(S) /\ Len(t \o u) = Len(t) + Len(u)
      /\ \A i \in 1..Len(t) : (t \o u)[i] = t[i]
      /\ \A i \in 1..Len(u) : (t \o u)[Len(t) + i] = u[i]
  <2>1. /\ s \o t \in Seq(S) /\ Len(s \o t) = Len(s) + Len(t)
        /\ \A i \in 1..Len(s) : (s \o t)[i] = s[i]
        /\ \A i \in 1..Len(t) : (s \o t)[Len(s) + i] = t[i]
    BY SequenceCut
  <2>2. /\ t \o u \in Seq(S) /\ Len(t \o u) = Len(t) + Len(u)
        /\ \A i \in 1..Len(t) : (t \o u)[i] = t[i]
        /\ \A i \in 1..Len(u) : (t \o u)[Len(t) + i] = u[i]
    BY SequenceCut
  <2>q. QED BY <2>1, <2>2
<1> DEFINE a == s \o t
           b == t \o u
           l == a \o u
           r == s \o b
<1>2. /\ l \in Seq(S) /\ Len(l) = Len(a) + Len(u)
      /\ \A i \in 1..Len(a) : l[i] = a[i]
      /\ \A i \in 1..Len(u) : l[Len(a) + i] = u[i]
  BY ONLY <1>1, SequenceCut
<1>3. /\ r \in Seq(S) /\ Len(r) = Len(s) + Len(b)
      /\ \A i \in 1..Len(s) : r[i] = s[i]
      /\ \A i \in 1..Len(b) : r[Len(s) + i] = b[i]
  BY ONLY <1>1, SequenceCut
<1>4. Len(s) \in Nat /\ Len(t) \in Nat /\ Len(u) \in Nat OBVIOUS
<1> SUFFICES l = r OBVIOUS
<1> HIDE DEF a, b, l, r
<1>5. Len(l) = Len(r) BY <1>1, <1>2, <1>3, <1>4 DEF a, b
<1>6. ASSUME NEW i \in 1..Len(l) PROVE l[i] = r[i]
  <2>1. CASE i <= Len(s)
    <3>1. i \in 1..Len(s) /\ i \in 1..Len(a) BY <2>1, <1>1, <1>2, <1>4 DEF a
    <3>2. l[i] = a[i] /\ r[i] = s[i] /\ a[i] = s[i] BY <3>1, <1>1, <1>2, <1>3 DEF a
    <3>q. QED BY <3>2
  <2>2. CASE Len(s) < i /\ i <= Len(s) + Len(t)
    <3>1. PICK j \in 1..Len(t) : i = Len(s) + j
      <4>1. i - Len(s) \in 1..Len(t) /\ i = Len(s) + (i - Len(s)) BY <2>2, <1>4
      <4>q. QED BY <4>1
    <3>2. l[i] = a[i] /\ a[i] = t[j] BY <3>1, <2>2, <1>1, <1>2, <1>4 DEF a
    <3>3. r[i] = b[j] /\ b[j] = t[j] BY <3>1, <1>1, <1>3, <1>4 DEF b
    <3>q. QED BY <3>2, <3>3
  <2>3. CASE Len(s) + Len(t) < i
    <3>1. PICK j \in 1..Len(u) : i = Len(a) + j
      <4>1. i - Len(a) \in 1..Len(u) /\ i = Len(a) + (i - Len(a)) BY <2>3, <1>1, <1>2, <1>4 DEF a
      <4>q. QED BY <4>1
    <3>2. l[i] = u[j] BY <3>1, <1>2
    <3>3. Len(t) + j \in 1..Len(b) /\ i = Len(s) + (Len(t) + j) BY <3>1, <1>1, <1>4 DEF a, b
    <3>4. r[i] = b[Len(t) + j] /\ b[Len(t) + j] = u[j] BY <3>3, <1>1, <1>3 DEF b
    <3>q. QED BY <3>2, <3>4
  <2>q. QED BY <2>1, <2>2, <2>3, <1>4
<1>q. QED BY <1>2, <1>3, <1>5, <1>6, SeqSame

(* The bytes of the pairs of v from the i-th on.                           *)
Pair(v, i) == inject_key_index(v[i][1]) \o inject_key_index(v[i][2])
PairsFrom(v, f, i) == IF i > Len(v) THEN <<>> ELSE Pair(v, i) \o f[i + 1]
From(f, v, m) == f = [i \in m..(Len(v) + 1) |-> PairsFrom(v, f, i)]

(* The loop of inject_values is defined for every list of pairs,           *)
LEMMA FromExists == ASSUME NEW v, Len(v) \in Nat PROVE \E f : From(f, v, 1)
<1> DEFINE n == Len(v)
           C == {m \in 0..n : ~ \E f : From(f, v, (n + 1) - m)}
<1>1. ASSUME C # {} PROVE FALSE
  <2>0. C \subseteq Nat OBVIOUS
  <2>1. PICK m \in C : \A k \in C : m <= k
    <3> HIDE DEF C
    <3>q. QED BY <1>1, <2>0, SmallestNumber
  <2>2. CASE m = 0
    <3> DEFINE f == [i \in (n + 1)..(n + 1) |-> <<>>]
    <3>1. \A i \in (n + 1)..(n + 1) : PairsFrom(v, f, i) = <<>> BY DEF PairsFrom
    <3>2. From(f, v, n + 1) BY <3>1, Zenon DEF From
    <3>3. (n + 1) - 0 = n + 1 OBVIOUS
    <3>q. QED BY <3>2, <3>3, <2>2
  <2>3. CASE m # 0
    <3> DEFINE a == (n + 1) - m
    <3>1. m \in 1..n BY <2>3
    <3>2. m - 1 \in 0..n /\ (n + 1) - (m - 1) = a + 1 /\ a \in 1..n BY <3>1
    <3>3. m - 1 \notin C BY <3>1, <2>1
    <3>4. PICK f : From(f, v, a + 1) BY <3>2, <3>3
    <3> DEFINE g == [i \in a..(n + 1) |-> PairsFrom(v, f, i)]
    <3> HIDE DEF a, C
    <3>5. \A i \in (a + 1)..(n + 1) : i \in a..(n + 1) BY <3>2
    <3>6. \A i \in (a + 1)..(n + 1) : g[i] = f[i] BY <3>4, <3>5, Zenon DEF From
    <3> HIDE DEF g
    <3>7. ASSUME NEW i \in a..(n + 1) PROVE PairsFrom(v, f, i) = PairsFrom(v, g, i)
      <4>1. CASE i > n BY <4>1 DEF PairsFrom
      <4>2. CASE ~(i > n)
        <5>1. i + 1 \in (a + 1)..(n + 1) BY <3>2, <4>2
        <5>2. f[i + 1] = g[i + 1] BY <5>1, <3>6
        <5>q. QED BY <5>2 DEF PairsFrom
      <4>q. QED BY <4>1, <4>2
    <3>8. g = [i \in a..(n + 1) |-> PairsFrom(v, g, i)] BY <3>7, Zenon DEF g
    <3>9. From(g, v, a) BY <3>8 DEF From
    <3>q. QED BY <3>9 DEF C, a
  <2>q. QED BY <2>2, <2>3
<1> HIDE DEF C
<1>2. C = {} BY <1>1
<1>3. n \notin C /\ n \in 0..n /\ (n + 1) - n = 1 BY <1>2
<1>q. QED BY <1>3 DEF C

LEMMA PairType ==
  ASSUME NEW v, IsValues(v), NEW i \in 1..Len(v)
  PROVE  /\ IsString(v[i][1]) /\ IsString(v[i][2]) /\ v[i] = <<v[i][1], v[i][2]>>
         /\ inject_key_index(v[i][1]) \in Seq(Octet) /\ inject_key_index(v[i][2]) \in Seq(Octet)
         /\ Pair(v, i) \in Seq(Octet)
<1>1. v \in Seq(Seq(Octet) \X Seq(Octet)) /\ i \in DOMAIN v BY DEF IsValues
<1>2. IsString(v[i][1]) /\ IsString(v[i][2]) BY <1>1 DEF IsValues
<1>3. v[i] \in Seq(Octet) \X Seq(Octet) BY <1>1
<1>4. v[i] = <<v[i][1], v[i][2]>> BY <1>3
<1>5. <<>> \in Seq(Octet) OBVIOUS
<1>6. inject_key_index(v[i][1]) \in Seq(Octet) /\ inject_key_index(v[i][2]) \in Seq(Octet)
  BY <1>2, <1>5, KeyFirst
<1>7. Pair(v, i) \in Seq(Octet) BY <1>6, SequenceCut DEF Pair
<1>q. QED BY <1>2, <1>4, <1>6, <1>7

(* and makes bytes.                                                        *)
LEMMA FromType ==
  ASSUME NEW v, IsValues(v), NEW f, From(f, v, 1)
  PROVE  \A i \in 1..(Len(v) + 1) : f[i] \in Seq(Octet)
<1> DEFINE n == Len(v)
           C == {m \in 0..n : f[(n + 1) - m] \notin Seq(Octet)}
<1>1. n \in Nat BY DEF IsValues
<1>2. ASSUME C # {} PROVE FALSE
  <2>0. C \subseteq Nat OBVIOUS
  <2>1. PICK m \in C : \A k \in C : m <= k
    <3> HIDE DEF C
    <3>q. QED BY <1>2, <2>0, SmallestNumber
  <2> DEFINE a == (n + 1) - m
  <2>2. a \in 1..(n + 1) /\ f[a] \notin Seq(Octet) BY <2>1, <1>1
  <2>3. f[a] = PairsFrom(v, f, a) BY <2>2 DEF From
  <2>4. CASE a > n BY <2>2, <2>3, <2>4 DEF PairsFrom
  <2>5. CASE a <= n
    <3>1. m - 1 \in 0..n /\ (n + 1) - (m - 1) = a + 1 BY <2>1, <2>5, <1>1
    <3>2. m - 1 \notin C
      <4>1. ~(m <= m - 1) BY <2>0, <2>1
      <4> HIDE DEF C
      <4>q. QED BY <2>1, <4>1
    <3>3. f[a + 1] \in Seq(Octet) BY <3>1, <3>2
    <3>4. Pair(v, a) \in Seq(Octet) BY <2>2, <2>5, PairType
    <3>5. f[a] = Pair(v, a) \o f[a + 1]
      <4>1. ~(a > n) BY <2>2, <2>5, <1>1
      <4> HIDE DEF a
      <4>q. QED BY <2>3, <4>1, Zenon DEF PairsFrom
    <3>q. QED BY <2>2, <3>3, <3>4, <3>5, SequenceCut
  <2>q. QED BY <2>4, <2>5, <1>1, <2>2
<1> HIDE DEF C
<1>3. C = {} BY <1>2
<1>4. ASSUME NEW i \in 1..(n + 1) PROVE f[i] \in Seq(Octet)
  <2>1. (n + 1) - i \in 0..n /\ (n + 1) - ((n + 1) - i) = i BY <1>1
  <2>q. QED BY <2>1, <1>3 DEF C
<1>q. QED BY <1>4

LEMMA ValuesBytes ==
  ASSUME NEW v, IsValues(v)
  PROVE  \E f : /\ From(f, v, 1) /\ \A i \in 1..(Len(v) + 1) : f[i] \in Seq(Octet)
                /\ inject_values(v) = unsigned(Len(v)) \o f[1]
                /\ inject_values(v) \in Seq(Octet)
<1> DEFINE g == CHOOSE f : From(f, v, 1)
<1>1. Len(v) \in Nat /\ Len(v) <= MaxInt BY DEF IsValues, Room, MaxInt
<1>2. From(g, v, 1) BY <1>1, FromExists
<1>3. inject_values(v) = unsigned(Len(v)) \o g[1]
  BY Zenon DEF inject_values, From, PairsFrom, Pair
<1> HIDE DEF g
<1>4. \A i \in 1..(Len(v) + 1) : g[i] \in Seq(Octet) BY <1>2, FromType
<1>5. g[1] \in Seq(Octet) BY <1>1, <1>4
<1>6. unsigned(Len(v)) \in Seq(Octet) BY <1>1, BytesValue
<1>7. inject_values(v) \in Seq(Octet) BY <1>3, <1>5, <1>6, SequenceCut
<1>q. QED BY <1>2, <1>3, <1>4, <1>7

(* r is the loop of extract_values over the n pairs in rest.               *)
ReadPair(s) ==
  LET k == extract_key_index(s.rest)
      v == extract_key_index(k.rest)
  IN  [got |-> Append(s.got, <<k.got, v.got>>), rest |-> v.rest]
Reads(r, rest, n) ==
  r = [i \in 0..n |-> IF i = 0 THEN [got |-> <<>>, rest |-> rest] ELSE ReadPair(r[i - 1])]

(* extract_values reads back, pair by pair, what inject_values wrote.      *)
LEMMA ReadsPairs ==
  ASSUME NEW v, IsValues(v), NEW f, From(f, v, 1),
         \A i \in 1..(Len(v) + 1) : f[i] \in Seq(Octet)
  PROVE  (CHOOSE r : Reads(r, f[1], Len(v)))[Len(v)].got = v
<1> DEFINE n == Len(v)
           r == [i \in 0..n |-> [got |-> SubSeq(v, 1, i), rest |-> f[i + 1]]]
           g == CHOOSE x : Reads(x, f[1], n)
<1>1. v \in Seq(Seq(Octet) \X Seq(Octet)) /\ n \in Nat BY DEF IsValues
<1>2. ASSUME NEW i \in 1..n
      PROVE  ReadPair([got |-> SubSeq(v, 1, i - 1), rest |-> f[i]]) = [got |-> SubSeq(v, 1, i), rest |-> f[i + 1]]
  <2> DEFINE a == v[i][1]
             b == v[i][2]
             A == inject_key_index(a)
             B == inject_key_index(b)
             s == [got |-> SubSeq(v, 1, i - 1), rest |-> f[i]]
  <2>1. /\ IsString(a) /\ IsString(b) /\ v[i] = <<a, b>> /\ A \in Seq(Octet) /\ B \in Seq(Octet)
        /\ Pair(v, i) = A \o B
    BY PairType DEF Pair
  <2>2. i \in 1..(n + 1) /\ i + 1 \in 1..(n + 1) /\ ~(i > n) BY <1>1
  <2>3. f[i] \in Seq(Octet) /\ f[i + 1] \in Seq(Octet) BY <2>2
  <2>4. f[i] = Pair(v, i) \o f[i + 1] BY <2>2 DEF From, PairsFrom
  <2> HIDE DEF a, b, A, B
  <2>50. A \in Seq(Octet) /\ B \in Seq(Octet) /\ f[i + 1] \in Seq(Octet) BY <2>1, <2>3
  <2>51. (A \o B) \o f[i + 1] = A \o (B \o f[i + 1])
    <3> DEFINE x == f[i + 1]
    <3>1. A \in Seq(Octet) /\ B \in Seq(Octet) /\ x \in Seq(Octet) BY <2>50
    <3> HIDE DEF x
    <3>2. (A \o B) \o x = A \o (B \o x) BY ONLY <3>1, ConcatAssoc
    <3>q. QED BY <3>2 DEF x
  <2>5. f[i] = A \o (B \o f[i + 1]) BY <2>1, <2>4, <2>51, Zenon
  <2>6. B \o f[i + 1] \in Seq(Octet) BY <2>1, <2>3, SequenceCut
  <2>7. extract_key_index(f[i]) = [got |-> a, rest |-> B \o f[i + 1]]
    BY <2>1, <2>5, <2>6, KeyFirst DEF A
  <2>8. extract_key_index(B \o f[i + 1]) = [got |-> b, rest |-> f[i + 1]]
    BY <2>1, <2>3, KeyFirst DEF B
  <2>9. ReadPair(s) = [got |-> Append(SubSeq(v, 1, i - 1), v[i]), rest |-> f[i + 1]]
    <3>1. s.got = SubSeq(v, 1, i - 1) /\ s.rest = f[i] OBVIOUS
    <3> DEFINE z == SubSeq(v, 1, i - 1)
               y == f[i]
               x == f[i + 1]
               k == extract_key_index(y)
               o == extract_key_index(k.rest)
    <3>2. ReadPair(s) = [got |-> Append(s.got, <<extract_key_index(s.rest).got, extract_key_index(extract_key_index(s.rest).rest).got>>),
                         rest |-> extract_key_index(extract_key_index(s.rest).rest).rest]
      BY Zenon DEF ReadPair
    <3>3. ReadPair(s) = [got |-> Append(z, <<k.got, o.got>>), rest |-> o.rest]
      <4>1. s.got = z /\ s.rest = y BY <3>1
      <4> HIDE DEF s, z, y
      <4>q. QED BY ONLY <4>1, <3>2, Zenon
    <3>4. k.got = a /\ k.rest = B \o x BY <2>7
    <3>5. o.got = b /\ o.rest = x BY <2>8, <3>4
    <3> HIDE DEF s, z, k, o
    <3>6. ReadPair(s) = [got |-> Append(z, v[i]), rest |-> x] BY <2>1, <3>3, <3>4, <3>5, Zenon
    <3>q. QED BY <3>6, Zenon DEF z
  <2>10. Append(SubSeq(v, 1, i - 1), v[i]) = SubSeq(v, 1, i) BY <1>1
  <2>q. QED BY <2>9, <2>10
<1>3. Reads(r, f[1], n)
  <2>1. SubSeq(v, 1, 0) = <<>> BY <1>1
  <2>2. ASSUME NEW i \in 0..n
        PROVE  r[i] = IF i = 0 THEN [got |-> <<>>, rest |-> f[1]] ELSE ReadPair(r[i - 1])
    <3>1. CASE i = 0 BY <3>1, <2>1, <1>1
    <3>2. CASE i # 0
      <4>1. i \in 1..n /\ i - 1 \in 0..n /\ (i - 1) + 1 = i BY <3>2, <1>1
      <4>2. r[i - 1] = [got |-> SubSeq(v, 1, i - 1), rest |-> f[i]] BY <4>1
      <4>3. r[i] = [got |-> SubSeq(v, 1, i), rest |-> f[i + 1]] OBVIOUS
      <4>q. QED BY <1>2, <3>2, <4>1, <4>2, <4>3, Zenon
    <3>q. QED BY <3>1, <3>2
  <2>3. r = [i \in 0..n |-> r[i]] OBVIOUS
  <2> HIDE DEF r
  <2>q. QED BY <2>2, <2>3, Zenon DEF Reads
<1>4. Reads(g, f[1], n) BY <1>3, Zenon
<1>5. r[n].got = v
  <2>1. SubSeq(v, 1, n) = v BY <1>1
  <2>2. n \in 0..n BY <1>1
  <2>3. r[n] = [got |-> SubSeq(v, 1, n), rest |-> f[n + 1]] BY <2>2, Zenon
  <2> HIDE DEF r
  <2>q. QED BY <2>1, <2>3
<1> HIDE DEF g, r
<1> DEFINE C == {i \in 0..n : g[i] # r[i]}
<1>6. ASSUME C # {} PROVE FALSE
  <2>1. PICK i \in C : \A k \in C : i <= k
    <3>1. C \subseteq Nat BY <1>1
    <3> HIDE DEF C
    <3>q. QED BY <1>6, <3>1, SmallestNumber
  <2>2. i \in 0..n /\ g[i] # r[i] BY <2>1
  <2>3. /\ g[i] = IF i = 0 THEN [got |-> <<>>, rest |-> f[1]] ELSE ReadPair(g[i - 1])
        /\ r[i] = IF i = 0 THEN [got |-> <<>>, rest |-> f[1]] ELSE ReadPair(r[i - 1])
    BY <1>3, <1>4, <2>2, Zenon DEF Reads
  <2>4. i # 0 BY <2>2, <2>3
  <2>5. i - 1 \in 0..n /\ i - 1 \notin C BY <1>1, <2>1, <2>2, <2>4
  <2>6. g[i - 1] = r[i - 1] BY <2>5
  <2>q. QED BY <2>2, <2>3, <2>6
<1>7. n \in 0..n BY <1>1
<1>8. g[n] = r[n] BY <1>6, <1>7
<1>q. QED BY <1>5, <1>8 DEF g

LEMMA ValuesBack ==
  ASSUME NEW v, IsValues(v)
  PROVE  inject_values(v) \in Seq(Octet) /\ extract_values(inject_values(v)).got = v
<1> DEFINE m == inject_values(v)
           u == unsigned(Len(v))
<1>1. Len(v) \in Nat /\ Len(v) <= MaxInt BY DEF IsValues, Room, MaxInt
<1>2. u \in Seq(Octet) /\ Len(u) = 4 /\ Value(u) = Len(v) BY <1>1, BytesValue
<1>3. PICK f : /\ From(f, v, 1) /\ \A i \in 1..(Len(v) + 1) : f[i] \in Seq(Octet)
               /\ m = u \o f[1] /\ m \in Seq(Octet)
  BY ValuesBytes
<1>4. f[1] \in Seq(Octet) BY <1>1, <1>3
<1> HIDE DEF m, u
<1>5. SubSeq(m, 1, 4) = u /\ SubSeq(m, 5, Len(m)) = f[1]
  <2>0. u \in Seq(Octet) /\ f[1] \in Seq(Octet) BY <1>2, <1>4
  <2>01. SubSeq(u \o f[1], 1, Len(u)) = u /\ SubSeq(u \o f[1], Len(u) + 1, Len(u \o f[1])) = f[1]
    BY ONLY <2>0, SequenceCut
  <2>1. SubSeq(m, 1, Len(u)) = u /\ SubSeq(m, Len(u) + 1, Len(m)) = f[1] BY <2>01, <1>3
  <2>2. Len(u) = 4 /\ Len(u) + 1 = 5 BY <1>2
  <2>q. QED BY <2>1, <2>2
<1>6. extract_values(m) = (CHOOSE r : Reads(r, f[1], Len(v)))[Len(v)]
  <2>1. Value(SubSeq(m, 1, 4)) = Len(v) BY <1>2, <1>5
  <2>2. extract_values(m) = (CHOOSE r : Reads(r, SubSeq(m, 5, Len(m)), Value(SubSeq(m, 1, 4))))[Value(SubSeq(m, 1, 4))]
    BY Zenon DEF extract_values, Reads, ReadPair
  <2>q. QED BY <2>1, <2>2, <1>5, Zenon
<1>q. QED BY <1>3, <1>6, ReadsPairs DEF m

LEMMA HalfIn ==
  ASSUME NEW S, NEW k \in Seq(S), Len(k) = 8, NEW a \in {1, 5}
  PROVE  SubSeq(k, a, a + 3) \in Seq(S) /\ Len(SubSeq(k, a, a + 3)) = 4
<1>0. \A i \in 1..Len(k) : k[i] \in S BY ONLY k \in Seq(S)
<1>1. \A i \in 1..8 : k[i] \in S BY <1>0
<1>2. SubSeq(k, a, a + 3) = [i \in 1..4 |-> k[(i + a) - 1]] OBVIOUS
<1>3. \A i \in 1..4 : k[(i + a) - 1] \in S BY <1>1
<1>q. QED BY <1>2, <1>3
LEMMA FirstEight ==
  ASSUME NEW S, NEW m \in Seq(S), Len(m) >= 15
  PROVE  /\ SubSeq(m, 1, 4) \in Seq(S) /\ SubSeq(m, 5, 8) \in Seq(S)
         /\ Len(SubSeq(m, 1, 4)) = 4 /\ Len(SubSeq(m, 5, 8)) = 4
         /\ \A j \in 1..4 : SubSeq(m, 1, 4)[j] = m[j] /\ SubSeq(m, 5, 8)[j] = m[4 + j]
<1>0. \A i \in 1..Len(m) : m[i] \in S BY ONLY m \in Seq(S)
<1>1. \A i \in 1..8 : m[i] \in S BY <1>0
<1>2. SubSeq(m, 1, 4) = [i \in 1..4 |-> m[(i + 1) - 1]] OBVIOUS
<1>3. SubSeq(m, 5, 8) = [i \in 1..4 |-> m[(i + 5) - 1]] OBVIOUS
<1>4. \A i \in 1..4 : (i + 1) - 1 = i /\ (i + 5) - 1 = 4 + i /\ i \in 1..8 /\ 4 + i \in 1..8 OBVIOUS
<1>5. \A i \in 1..4 : m[(i + 1) - 1] = m[i] /\ m[(i + 5) - 1] = m[4 + i] /\ m[i] \in S /\ m[4 + i] \in S BY <1>1, <1>4
<1>q. QED BY <1>2, <1>3, <1>5

LEMMA EightIsSeq ==
  ASSUME NEW S, NEW k \in [1..8 -> S]
  PROVE  k \in Seq(S) /\ Len(k) = 8 /\ \A i \in 1..8 : k[i] \in S
<1>3. \A i \in 1..8 : k[i] \in S BY ONLY k \in [1..8 -> S]
<1>4. k = [i \in 1..8 |-> k[i]] BY ONLY k \in [1..8 -> S]
<1>5. [i \in 1..8 |-> k[i]] \in Seq(S) BY ONLY <1>3
<1>6. Len([i \in 1..8 |-> k[i]]) = 8 BY ONLY <1>3
<1>1. k \in Seq(S) BY ONLY <1>4, <1>5, Zenon
<1>2. Len(k) = 8 BY ONLY <1>4, <1>6, Zenon
<1>q. QED BY <1>1, <1>2, <1>3

LEMMA HalvesJoin ==
  ASSUME NEW k \in [1..8 -> Octet]
  PROVE  SubSeq(k, 1, 4) \o SubSeq(k, 5, 8) = k
<1>1. k \in Seq(Octet) /\ Len(k) = 8 BY EightIsSeq
<1>2. SubSeq(k, 1, 4) = [i \in 1..4 |-> k[(i + 1) - 1]] BY <1>1
<1>3. SubSeq(k, 5, 8) = [i \in 1..4 |-> k[(i + 5) - 1]] BY <1>1
<1> DEFINE u == SubSeq(k, 1, 4)
           v == SubSeq(k, 5, 8)
<1>4. /\ u \in Seq(Octet) /\ v \in Seq(Octet) /\ Len(u) = 4 /\ Len(v) = 4
      /\ \A j \in 1..4 : u[j] = k[j] /\ v[j] = k[4 + j]
  <2>1. \A j \in 1..4 : (j + 1) - 1 = j /\ (j + 5) - 1 = 4 + j /\ j \in 1..8 /\ 4 + j \in 1..8 OBVIOUS
  <2>2. \A j \in 1..4 : k[j] \in Octet /\ k[4 + j] \in Octet BY <2>1
  <2>q. QED BY <1>2, <1>3, <2>1, <2>2
<1> HIDE DEF u, v
<1>5. u \o v \in Seq(Octet) /\ Len(u \o v) = 8
      /\ (\A j \in 1..4 : (u \o v)[j] = u[j]) /\ \A j \in 1..4 : (u \o v)[4 + j] = v[j]
  <2>0. u \in Seq(Octet) /\ v \in Seq(Octet) BY <1>4
  <2>1. /\ u \o v \in Seq(Octet) /\ Len(u \o v) = Len(u) + Len(v)
        /\ \A i \in 1..Len(u) : (u \o v)[i] = u[i]
        /\ \A i \in 1..Len(v) : (u \o v)[Len(u) + i] = v[i]
    BY ONLY <2>0, SequenceCut
  <2>2. Len(u) = 4 /\ Len(v) = 4 BY <1>4
  <2>q. QED BY <2>1, <2>2
<1> DEFINE w == u \o v
<1>6. \A i \in 1..8 : w[i] = k[i]
  <2>1. TAKE i \in 1..8
  <2>2. i \in 1..4 \/ (i - 4 \in 1..4 /\ i = 4 + (i - 4)) OBVIOUS
  <2>q. QED BY <2>2, <1>4, <1>5
<1>7. w \in Seq(Octet) /\ Len(w) = 8 BY <1>5
<1> HIDE DEF w
<1>8. w = k BY ONLY <1>1, <1>6, <1>7, SeqSame
<1>q. QED BY <1>8 DEF u, v, w

(* extract_fbt_hdr takes the header off: both halves of the key, the flag  *)
(* and six bytes of the index, which inject_fbt_hdr sent most significant  *)
(* first.                                                                  *)
SixOf(idx) == [i \in 1..8 |-> IF i <= 6 THEN idx[i] ELSE 0]

LEMMA HdrFirst ==
  ASSUME NEW k \in [1..8 -> Octet],
         NEW idx \in [1..8 -> Octet], NEW flag \in Octet, NEW rest \in Seq(Octet)
  PROVE  /\ inject_fbt_hdr(k, idx, flag) \in Seq(Octet)
         /\ extract_fbt_hdr(inject_fbt_hdr(k, idx, flag) \o rest) =
              [got |-> [fbt_key |-> k, idx |-> SixOf(idx), flag |-> flag], rest |-> rest]
<1> USE DEF SixOf
<1>a. PICK S : S = Octet OBVIOUS
<1>b. Octet \subseteq S /\ k \in Seq(S) /\ Len(k) = 8 BY <1>a, EightIsSeq
<1> DEFINE A == htonl(SubSeq(k, 5, 8))
           B == htonl(SubSeq(k, 1, 4))
           C == <<idx[6], idx[5], idx[4], idx[3], idx[2], idx[1]>>
           D == <<flag>>
           E == A \o B
           F == E \o C
           h == F \o D
           m == h \o rest
<1>1. A \in Seq(S) /\ Len(A) = 4 /\ htonl(A) = SubSeq(k, 5, 8)
  <2>1. SubSeq(k, 5, 8) \in Seq(S) /\ Len(SubSeq(k, 5, 8)) = 4 BY <1>b, HalfIn
  <2>q. QED BY <2>1, ReverseTwice
<1>2. B \in Seq(S) /\ Len(B) = 4 /\ htonl(B) = SubSeq(k, 1, 4)
  <2>1. SubSeq(k, 1, 4) \in Seq(S) /\ Len(SubSeq(k, 1, 4)) = 4 BY <1>b, HalfIn
  <2>q. QED BY <2>1, ReverseTwice
<1>3. C \in Seq(S) /\ Len(C) = 6 /\ \A j \in 1..6 : C[j] = idx[7 - j] /\ idx[7 - j] \in Octet
  <2>1. \A j \in 1..6 : idx[j] \in Octet /\ idx[j] \in S BY <1>b
  <2>2. C \in Seq(S) /\ Len(C) = 6 BY <2>1
  <2>3. C[1] = idx[6] /\ C[2] = idx[5] /\ C[3] = idx[4] /\ C[4] = idx[3] /\ C[5] = idx[2] /\ C[6] = idx[1]
    OBVIOUS
  <2> HIDE DEF C
  <2>4. \A j \in 1..6 : C[j] = idx[7 - j] /\ 7 - j \in 1..6
    <3>1. TAKE j \in 1..6
    <3>2. j = 1 \/ j = 2 \/ j = 3 \/ j = 4 \/ j = 5 \/ j = 6 OBVIOUS
    <3>q. QED BY <3>2, <2>3
  <2>q. QED BY <2>1, <2>2, <2>4
<1>4. D \in Seq(S) /\ Len(D) = 1 /\ D[1] = flag BY <1>b
<1>0. inject_fbt_hdr(k, idx, flag) = h BY Zenon DEF inject_fbt_hdr
<1>5. rest \in Seq(S) BY <1>a
<1> HIDE DEF A, B, C, D
<1>6. /\ E \in Seq(S) /\ Len(E) = 8
      /\ \A j \in 1..4 : E[j] = A[j] /\ E[4 + j] = B[j]
  <2>1. /\ A \o B \in Seq(S) /\ Len(A \o B) = Len(A) + Len(B)
        /\ \A j \in 1..Len(A) : (A \o B)[j] = A[j]
        /\ \A j \in 1..Len(B) : (A \o B)[Len(A) + j] = B[j]
    <3>1. A \in Seq(S) /\ B \in Seq(S) BY <1>1, <1>2
    <3>q. QED BY ONLY <3>1, SequenceCut
  <2>q. QED BY <2>1, <1>1, <1>2
<1> HIDE DEF E
<1>7. F \in Seq(S) /\ Len(F) = 14 /\ (\A j \in 1..6 : F[8 + j] = C[j]) /\ \A j \in 1..8 : F[j] = E[j]
  <2>1. /\ E \o C \in Seq(S) /\ Len(E \o C) = Len(E) + Len(C)
        /\ \A j \in 1..Len(C) : (E \o C)[Len(E) + j] = C[j]
        /\ \A j \in 1..Len(E) : (E \o C)[j] = E[j]
    <3>1. E \in Seq(S) /\ C \in Seq(S) BY <1>3, <1>6
    <3>q. QED BY ONLY <3>1, SequenceCut
  <2>2. Len(E) = 8 /\ Len(C) = 6 BY <1>3, <1>6
  <2>3. F = E \o C BY Zenon DEF F
  <2> HIDE DEF F
  <2>4. /\ F \in Seq(S) /\ Len(F) = Len(E) + Len(C)
        /\ \A j \in 1..Len(C) : F[Len(E) + j] = C[j]
        /\ \A j \in 1..Len(E) : F[j] = E[j]
    BY <2>1, <2>3, Zenon
  <2>q. QED BY ONLY <2>4, <2>2
<1> HIDE DEF F
<1>8. h \in Seq(S) /\ Len(h) = 15 /\ h[15] = flag /\ \A j \in 1..14 : h[j] = F[j]
  <2>1. /\ F \o D \in Seq(S) /\ Len(F \o D) = Len(F) + Len(D)
        /\ \A j \in 1..Len(F) : (F \o D)[j] = F[j]
        /\ \A j \in 1..Len(D) : (F \o D)[Len(F) + j] = D[j]
    <3>1. F \in Seq(S) /\ D \in Seq(S) BY <1>4, <1>7
    <3>q. QED BY ONLY <3>1, SequenceCut
  <2>2. Len(F) = 14 /\ Len(D) = 1 /\ D[1] = flag BY <1>4, <1>7
  <2>3. h = F \o D BY Zenon DEF h
  <2> HIDE DEF h
  <2>4. /\ h \in Seq(S) /\ Len(h) = Len(F) + Len(D)
        /\ \A j \in 1..Len(F) : h[j] = F[j] 
        /\ \A j \in 1..Len(D) : h[Len(F) + j] = D[j] 
    BY <2>1, <2>3, Zenon
  <2>q. QED BY ONLY <2>4, <2>2
<1> HIDE DEF h
<1>9. /\ \A j \in 1..15 : m[j] = h[j]
      /\ SubSeq(m, 16, Len(m)) = rest
      /\ m \in Seq(S) /\ Len(m) >= 15
  <2>1. /\ \A j \in 1..Len(h) : (h \o rest)[j] = h[j]
        /\ SubSeq(h \o rest, Len(h) + 1, Len(h \o rest)) = rest
        /\ h \o rest \in Seq(S) /\ Len(h \o rest) = Len(h) + Len(rest)
    <3>1. h \in Seq(S) /\ rest \in Seq(S) BY <1>5, <1>8
    <3>q. QED BY ONLY <3>1, SequenceCut
  <2>2. Len(h) = 15 /\ Len(rest) \in Nat BY <1>8
  <2>3. m = h \o rest OBVIOUS
  <2> HIDE DEF m
  <2>4. /\ \A j \in 1..Len(h) : m[j] = h[j]
        /\ SubSeq(m, Len(h) + 1, Len(m)) = rest
        /\ m \in Seq(S) /\ Len(m) = Len(h) + Len(rest)
    BY ONLY <2>1, <2>3, Zenon
  <2>5. SubSeq(m, 16, Len(m)) = rest BY ONLY <2>2, <2>4
  <2>6. \A j \in 1..15 : m[j] = h[j] BY ONLY <2>2, <2>4
  <2>7. m \in Seq(S) /\ Len(m) >= 15 BY ONLY <2>2, <2>4
  <2>q. QED BY <2>5, <2>6, <2>7
<1> HIDE DEF m
<1>10. m[15] = flag BY <1>8, <1>9
<1>11. ASSUME NEW i \in 1..8, i <= 6 PROVE m[15 - i] = idx[i]
  <2>1. 15 - i \in 1..15 /\ 15 - i \in 1..14 /\ 7 - i \in 1..6 /\ 15 - i = 8 + (7 - i) /\ 7 - (7 - i) = i BY <1>11
  <2>2. m[15 - i] = h[15 - i] /\ h[15 - i] = F[15 - i] BY <2>1, <1>8, <1>9
  <2>3. F[8 + (7 - i)] = C[7 - i] /\ C[7 - i] = idx[7 - (7 - i)] BY <2>1, <1>3, <1>7
  <2>q. QED BY <2>1, <2>2, <2>3
<1>12. [i \in 1..8 |-> IF i <= 6 THEN m[15 - i] ELSE 0] = [i \in 1..8 |-> IF i <= 6 THEN idx[i] ELSE 0]
  BY <1>11
<1>15. \A j \in 1..4 : m[j] = A[j] /\ m[4 + j] = B[j]
  <2>1. TAKE j \in 1..4
  <2>2. j \in 1..15 /\ j \in 1..14 /\ j \in 1..8 /\ 4 + j \in 1..15 /\ 4 + j \in 1..14 /\ 4 + j \in 1..8 OBVIOUS
  <2>3. m[j] = E[j] /\ m[4 + j] = E[4 + j] BY <2>2, <1>7, <1>8, <1>9
  <2>q. QED BY <2>3, <1>6
<1>16. SubSeq(m, 1, 4) = A /\ SubSeq(m, 5, 8) = B
  <2>1. SubSeq(m, 1, 4) \in Seq(S) /\ SubSeq(m, 5, 8) \in Seq(S)
        /\ Len(SubSeq(m, 1, 4)) = 4 /\ Len(SubSeq(m, 5, 8)) = 4
        /\ \A j \in 1..4 : SubSeq(m, 1, 4)[j] = m[j] /\ SubSeq(m, 5, 8)[j] = m[4 + j]
    BY <1>9, FirstEight
  <2>2. A \in Seq(S) /\ B \in Seq(S) /\ Len(A) = 4 /\ Len(B) = 4 BY <1>1, <1>2
  <2> DEFINE u == SubSeq(m, 1, 4)
             v == SubSeq(m, 5, 8)
  <2>3. /\ u \in Seq(S) /\ v \in Seq(S) /\ Len(u) = 4 /\ Len(v) = 4
        /\ \A j \in 1..4 : u[j] = A[j] /\ v[j] = B[j]
    BY <2>1, <1>15
  <2> HIDE DEF u, v
  <2>4. u = A BY ONLY <2>2, <2>3, SeqSame
  <2>5. v = B BY ONLY <2>2, <2>3, SeqSame
  <2>q. QED BY <2>4, <2>5 DEF u, v
<1>17. htonl(SubSeq(m, 5, 8)) \o htonl(SubSeq(m, 1, 4)) = k
  <2>1. SubSeq(k, 1, 4) \o SubSeq(k, 5, 8) = k BY HalvesJoin
  <2>q. QED BY <2>1, <1>1, <1>2, <1>16
<1>13. extract_fbt_hdr(m) = [got |-> [fbt_key |-> htonl(SubSeq(m, 5, 8)) \o htonl(SubSeq(m, 1, 4)),
                                      idx |-> [i \in 1..8 |-> IF i <= 6 THEN m[15 - i] ELSE 0], flag |-> m[15]],
                             rest |-> SubSeq(m, 16, Len(m))]
  BY Zenon DEF extract_fbt_hdr
<1>14. extract_fbt_hdr(m) = [got |-> [fbt_key |-> k, idx |-> [i \in 1..8 |-> IF i <= 6 THEN idx[i] ELSE 0],
                                      flag |-> flag], rest |-> rest]
  BY <1>9, <1>10, <1>12, <1>13, <1>17, Zenon
<1>q. QED BY <1>a, <1>0, <1>8, <1>14, Zenon DEF m

LEMMA ZeroIs == Zero8 \in [1..8 -> Octet] /\ 0 \in Octet /\ \A i \in 1..8 : Zero8[i] = 0
BY DEF Zero8, Octet

SameFields(got, means) == \A f \in DOMAIN got : got[f] = means[f]

LEMMA CodesSmall ==
  1318 <= MaxInt /\ 1319 <= MaxInt /\ 1320 <= MaxInt /\ 1321 <= MaxInt /\ 1536 <= MaxInt /\ 1537 <= MaxInt
BY SMT DEF MaxInt

LEMMA CodeBytes == ASSUME NEW v \in Nat, v <= MaxInt PROVE inject_msg_type(v) \in Seq(Octet)
<1>1. unsigned(v) \in Seq(Octet) BY BytesValue
<1>q. QED BY <1>1, ReverseTwice DEF inject_msg_type

LEMMA KeyAlone ==
  ASSUME NEW s, IsString(s)
  PROVE  inject_key_index(s) \in Seq(Octet) /\ extract_key_index(inject_key_index(s)).got = s
<1> DEFINE k == inject_key_index(s)
<1>0. <<>> \in Seq(Octet) OBVIOUS
<1>1. k \in Seq(Octet) /\ extract_key_index(k \o <<>>) = [got |-> s, rest |-> <<>>] BY <1>0, KeyFirst
<1> HIDE DEF k
<1>2. k \o <<>> = k BY <1>1
<1>q. QED BY <1>1, <1>2 DEF k

(* handle_insert makes the request of the bytes of an Insert,              *)
LEMMA InsertRead ==
  ASSUME NEW r, IsString(r.key), IsValues(r.values)
  PROVE  /\ extract_msg_type(InsertMessage(r)).got = 1318
         /\ SameFields(handle_insert(extract_msg_type(InsertMessage(r)).rest), r)
<1> DEFINE c == 1318
<1>c. c \in Nat /\ c <= MaxInt BY CodesSmall
<1> HIDE DEF c
<1> DEFINE T == inject_msg_type(c)
           K == inject_key_index(r.key)
           V == inject_values(r.values)
           m == InsertMessage(r)
<1>1. T \in Seq(Octet) BY <1>c, CodeBytes
<1>2. K \in Seq(Octet) BY KeyAlone
<1>3. V \in Seq(Octet) /\ extract_values(V).got = r.values BY ValuesBack
<1>4. extract_key_index(K \o V) = [got |-> r.key, rest |-> V] BY <1>3, KeyFirst
<1>5. m = (T \o K) \o V BY DEF InsertMessage, c
<1> HIDE DEF K, V
<1>6. K \o V \in Seq(Octet) BY <1>2, <1>3, SequenceCut
<1>7. extract_msg_type(T \o (K \o V)) = [got |-> c, rest |-> K \o V]
  <2> DEFINE y == K \o V
  <2>2. y \in Seq(Octet) /\ Octet \subseteq Octet /\ c \in Nat /\ c <= MaxInt BY <1>c, <1>6
  <2> HIDE DEF y
  <2>3. extract_msg_type(inject_msg_type(c) \o y) = [got |-> c, rest |-> y] BY ONLY <2>2, TypeFirst
  <2>q. QED BY <2>3, Zenon DEF T, y
<1> HIDE DEF T
<1>8. (T \o K) \o V = T \o (K \o V) BY ONLY <1>1, <1>2, <1>3, ConcatAssoc
<1>9. extract_msg_type(m) = [got |-> c, rest |-> K \o V] BY <1>5, <1>7, <1>8, Zenon
<1>10. handle_insert(K \o V) = [key |-> r.key, values |-> r.values]
  <2> DEFINE k == extract_key_index(K \o V)
  <2>1. handle_insert(K \o V) = [key |-> k.got, values |-> extract_values(k.rest).got] BY Zenon DEF handle_insert
  <2>2. k.got = r.key /\ k.rest = V BY <1>4
  <2> HIDE DEF k
  <2>q. QED BY <2>1, <2>2, <1>3, Zenon
<1> HIDE DEF m
<1>11. extract_msg_type(m).got = c /\ extract_msg_type(m).rest = K \o V BY <1>9
<1>12. SameFields(handle_insert(extract_msg_type(m).rest), r)
  <2>1. SameFields([key |-> r.key, values |-> r.values], r) BY DEF SameFields
  <2>q. QED BY <2>1, <1>10, <1>11
<1>q. QED BY <1>11, <1>12, SMT DEF m, c

(* handle_query that of the bytes of a Read,                               *)
LEMMA QueryRead ==
  ASSUME NEW r, IsString(r.key), r.fbt_key \in [1..8 -> Octet], remove_key_index_prefix(r.key) = r.fbt_key
  PROVE  /\ extract_msg_type(QueryMessage(r)).got = 1319
         /\ SameFields(handle_query(extract_msg_type(QueryMessage(r)).rest), r)
         /\ handle_query(extract_msg_type(QueryMessage(r)).rest).key = r.key
<1> DEFINE c == 1319
<1>c. c \in Nat /\ c <= MaxInt BY CodesSmall
<1> HIDE DEF c
<1> DEFINE T == inject_msg_type(c)
           B == remove_key_index_prefix(r.key)
           H == inject_fbt_hdr(B, Zero8, 0)
           K == inject_key_index(r.key)
           m == QueryMessage(r)
           z == [fbt_key |-> B, idx |-> [i \in 1..8 |-> IF i <= 6 THEN Zero8[i] ELSE 0], flag |-> 0]
<1>1. T \in Seq(Octet) BY <1>c, CodeBytes
<1>2. K \in Seq(Octet) /\ extract_key_index(K).got = r.key BY KeyAlone
<1>3. PICK S : S = Octet /\ B \in [1..8 -> Octet] /\ B = r.fbt_key OBVIOUS
<1> HIDE DEF B, K
<1>4. H \in Seq(S) /\ extract_fbt_hdr(H \o K) = [got |-> z, rest |-> K]
  <2>1. PICK ix \in [1..8 -> Octet] : ix = Zero8 BY ZeroIs
  <2>2. PICK fl \in Octet : fl = 0 BY ZeroIs
  <2>3. PICK rest \in Seq(Octet) : rest = K BY <1>2
  <2>4. PICK h : h = inject_fbt_hdr(B, ix, fl) OBVIOUS
  <2>5. h \in Seq(S) /\ extract_fbt_hdr(h \o rest) = [got |-> [fbt_key |-> B, idx |-> SixOf(ix), flag |-> fl], rest |-> rest]
    BY <2>4, <1>3, HdrFirst
  <2>6. h = H BY <2>1, <2>2, <2>4
  <2>7. z = [fbt_key |-> B, idx |-> SixOf(ix), flag |-> fl] BY <2>1, <2>2 DEF SixOf
  <2> HIDE DEF H, z
  <2>q. QED BY <2>3, <2>5, <2>6, <2>7
<1>5. m = (T \o H) \o K BY DEF QueryMessage, B, K, c
<1>50. z.fbt_key = r.fbt_key BY <1>3
<1> HIDE DEF H, z
<1>51. T \in Seq(S) /\ K \in Seq(S) BY <1>1, <1>2, <1>3, WiderSeq
<1>6. H \o K \in Seq(S) BY <1>4, <1>51, SequenceCut
<1>7. extract_msg_type(T \o (H \o K)) = [got |-> c, rest |-> H \o K]
  <2> DEFINE y == H \o K
  <2>2. y \in Seq(S) /\ Octet \subseteq S /\ c \in Nat /\ c <= MaxInt BY <1>c, <1>3, <1>6
  <2> HIDE DEF y
  <2>3. extract_msg_type(inject_msg_type(c) \o y) = [got |-> c, rest |-> y] BY ONLY <2>2, TypeFirst
  <2>q. QED BY <2>3, Zenon DEF T, y
<1> HIDE DEF T
<1>8. (T \o H) \o K = T \o (H \o K) BY ONLY <1>4, <1>51, ConcatAssoc
<1>9. extract_msg_type(m) = [got |-> c, rest |-> H \o K] BY <1>5, <1>7, <1>8, Zenon
<1>10. handle_query(H \o K) = [key |-> r.key, fbt_key |-> r.fbt_key]
  <2> DEFINE k == extract_fbt_hdr(H \o K)
  <2>1. handle_query(H \o K) = [key |-> extract_key_index(k.rest).got, fbt_key |-> k.got.fbt_key] BY Zenon DEF handle_query
  <2>2. k.rest = K /\ k.got.fbt_key = r.fbt_key BY <1>4, <1>50
  <2> HIDE DEF k
  <2>q. QED BY <2>1, <2>2, <1>2, Zenon
<1> HIDE DEF m
<1>11. extract_msg_type(m).got = c /\ extract_msg_type(m).rest = H \o K BY <1>9
<1>12. SameFields(handle_query(extract_msg_type(m).rest), r) /\ handle_query(extract_msg_type(m).rest).key = r.key
  <2>1. SameFields([key |-> r.key, fbt_key |-> r.fbt_key], r) /\ [key |-> r.key, fbt_key |-> r.fbt_key].key = r.key BY DEF SameFields
  <2>q. QED BY <2>1, <1>10, <1>11
<1>q. QED BY <1>11, <1>12, SMT DEF m, c

(* and the front end the key, the index, the flag and the values of an     *)
(* answer.                                                                 *)
LEMMA AnswerRead ==
  ASSUME NEW key, remove_key_index_prefix(key) \in [1..8 -> Octet],
         NEW a, a.flag \in Octet, IsValues(a.values), a.idx \in [1..8 -> Octet], a.idx[7] = 0, a.idx[8] = 0
  PROVE  LET type == extract_msg_type(AnswerMessage(key, a))
             hdr  == extract_fbt_hdr(type.rest)
         IN  /\ type.got = 1321
             /\ hdr.got.fbt_key = remove_key_index_prefix(key)
             /\ hdr.got.idx = a.idx /\ hdr.got.flag = a.flag
             /\ extract_values(hdr.rest).got = a.values
<1> DEFINE c == 1321
<1>c. c \in Nat /\ c <= MaxInt BY CodesSmall
<1> HIDE DEF c
<1> DEFINE T == inject_msg_type(c)
           B == remove_key_index_prefix(key)
           H == inject_fbt_hdr(B, a.idx, a.flag)
           V == inject_values(a.values)
           m == AnswerMessage(key, a)
           z == [i \in 1..8 |-> IF i <= 6 THEN a.idx[i] ELSE 0]
<1>1. T \in Seq(Octet) BY <1>c, CodeBytes
<1>2. V \in Seq(Octet) /\ extract_values(V).got = a.values BY ValuesBack
<1>3. PICK S : S = Octet /\ B \in [1..8 -> Octet] OBVIOUS
<1> HIDE DEF B, V
<1>4. H \in Seq(S) /\ extract_fbt_hdr(H \o V) = [got |-> [fbt_key |-> B, idx |-> z, flag |-> a.flag], rest |-> V] 
  <2>1. PICK ix \in [1..8 -> Octet] : ix = a.idx OBVIOUS
  <2>2. PICK fl \in Octet : fl = a.flag OBVIOUS
  <2>3. PICK rest \in Seq(Octet) : rest = V BY <1>2
  <2>4. PICK h : h = inject_fbt_hdr(B, ix, fl) OBVIOUS
  <2>5. h \in Seq(S) /\ extract_fbt_hdr(h \o rest) =
          [got |-> [fbt_key |-> B, idx |-> SixOf(ix), flag |-> fl], rest |-> rest]
    BY <2>4, <1>3, HdrFirst
  <2>6. h = H BY <2>1, <2>2, <2>4
  <2>7. z = SixOf(ix) BY <2>1 DEF SixOf
  <2> HIDE DEF H, z
  <2>q. QED BY <2>2, <2>3, <2>5, <2>6, <2>7
<1>41. z = a.idx
  <2>1. \A i \in 1..8 : i <= 6 \/ i = 7 \/ i = 8 OBVIOUS
  <2>2. \A i \in 1..8 : (IF i <= 6 THEN a.idx[i] ELSE 0) = a.idx[i] BY <2>1
  <2>3. a.idx = [i \in 1..8 |-> a.idx[i]] OBVIOUS
  <2>q. QED BY <2>2, <2>3, Zenon
<1>5. m = (T \o H) \o V BY DEF AnswerMessage, B, V, c
<1> HIDE DEF H, z
<1>51. T \in Seq(S) /\ V \in Seq(S) BY <1>1, <1>2, <1>3, WiderSeq
<1>6. H \o V \in Seq(S) BY <1>4, <1>51, SequenceCut
<1>7. extract_msg_type(T \o (H \o V)) = [got |-> c, rest |-> H \o V]
  <2> DEFINE y == H \o V
  <2>2. y \in Seq(S) /\ Octet \subseteq S /\ c \in Nat /\ c <= MaxInt BY <1>c, <1>3, <1>6
  <2> HIDE DEF y
  <2>3. extract_msg_type(inject_msg_type(c) \o y) = [got |-> c, rest |-> y] BY ONLY <2>2, TypeFirst
  <2>q. QED BY <2>3, Zenon DEF T, y
<1> HIDE DEF T
<1>8. (T \o H) \o V = T \o (H \o V) BY ONLY <1>4, <1>51, ConcatAssoc
<1>9. extract_msg_type(m) = [got |-> c, rest |-> H \o V] BY <1>5, <1>7, <1>8, Zenon
<1> DEFINE x == extract_msg_type(m)
           y == extract_fbt_hdr(x.rest)
<1>10. x.got = c /\ x.rest = H \o V BY <1>9
<1> HIDE DEF x
<1>11. y = [got |-> [fbt_key |-> B, idx |-> a.idx, flag |-> a.flag], rest |-> V] BY <1>4, <1>41, <1>10, Zenon
<1> HIDE DEF y
<1>12. y.got.fbt_key = B /\ y.got.idx = a.idx /\ y.got.flag = a.flag /\ y.rest = V BY <1>11
<1>13. extract_values(y.rest).got = a.values BY <1>2, <1>12, Zenon
<1>q. QED BY <1>10, <1>12, <1>13, SMT DEF x, y, m, c, B

-----------------------------------------------------------------------------
(* The front end: its inductive invariant                                  *)

Phase == stage \in {"load", "run"}
Live(w) == worker[w].at # "none"
Known(w) == worker[w].at \in {"idle", "waiting"}

(* What comes back: the means is what the bytes stand for.                 *)
InsertAnswers == [by : Workers, msg : {inject_msg_type(1320)}, means : {[type |-> 1320]}]
QueryAnswers ==
    {[by |-> w, msg |-> AnswerMessage(r.key, a), means |-> Answer(r, a)] : w \in Workers, r \in Queried, a \in Answered}
SwitchAnswers == [by : {Main}, msg : {inject_msg_type(1537)}, means : {[type |-> 1537]}]
AnswersOf(s) ==
    IF s = "load" THEN InsertAnswers
    ELSE IF s = "run" THEN QueryAnswers
    ELSE IF s = "switching" THEN SwitchAnswers
    ELSE InsertAnswers \cup QueryAnswers \cup SwitchAnswers

(* What goes out.                                                          *)
IsInsert(p) == p.by \in Workers /\ p.means \in Inserted /\ p.msg = InsertMessage(p.means)
IsQuery(p) == p.by \in Workers /\ p.means \in Queried /\ p.msg = QueryMessage(p.means)
IsSwitch(p) == p.by = Main /\ p.means = [type |-> 1536] /\ p.msg = inject_msg_type(1536)

StageOK ==
    /\ stage \in {"start", "load", "run", "switch", "switching", "done", "exited", "crashed"}
    /\ compiled \in [queue : BOOLEAN, port : BOOLEAN]
    /\ newcomer \in BOOLEAN
    /\ stage = "crashed" => newcomer

WorkersOK ==
    /\ DOMAIN worker = Workers
    /\ \A w \in Workers : worker[w] \in [at : {"none"}] \cup
                             [at : {"created", "idle", "waiting"}, id : Nat, ops : Nat]
    /\ \A v, w \in Workers : Live(v) /\ Live(w) /\ worker[v].id = worker[w].id => v = w
    /\ \A w \in Workers : stage = "load" /\ Live(w) => worker[w].id = w
    /\ \A w \in Workers : stage = "run" /\ Live(w) => worker[w].id \in Workers \/ newcomer
    /\ \A w \in Workers : stage = "start" => ~Live(w)

(* A map of the driver: each thread has a number of its own, with no more  *)
(* numbers in use than entries.                                            *)
Registered(m, first) ==
    /\ IsFiniteSet(DOMAIN m)
    /\ \A i \in DOMAIN m : m[i] \in Nat /\ m[i] < Cardinality(DOMAIN m) + IF first THEN 0 ELSE 1
    /\ \A i, j \in DOMAIN m : m[i] = m[j] => i = j

(* The rule for the port of a thread leads to its queue, which was set up. *)
Steered(id) ==
    /\ driver.queue[id] \in driver.rings
    /\ driver.port[id] \in DOMAIN driver.rules
    /\ driver.rules[driver.port[id]] = driver.queue[id]

(* In the loading phase every thread that ran Init has a queue and a rule; *)
(* in the second these are what an inherited id finds, and a new id is     *)
(* given a queue that was not set up.                                      *)
DriverOK ==
    /\ DOMAIN driver = {"queue", "port", "rings", "rules", "init_count"}
    /\ driver.rings \in {{}, 0..(nb_threads - 1)}
    /\ stage \in {"load", "run", "switch", "switching"} => driver.rings = 0..(nb_threads - 1)
    /\ driver.init_count \in Nat
    /\ DOMAIN driver.port = DOMAIN driver.queue
    /\ Registered(driver.queue, compiled.queue)
    /\ Registered(driver.port, compiled.port)
    /\ stage = "start" => DOMAIN driver.queue = {} /\ driver.init_count = 0 /\ driver.rings = {}
    /\ stage = "load" => /\ DOMAIN driver.queue = {w \in Workers : Known(w)}
                         /\ driver.init_count = Cardinality(DOMAIN driver.queue)
    /\ stage = "run" => /\ Workers \subseteq DOMAIN driver.queue
                        /\ driver.init_count >= nb_threads
                        /\ \A w \in Workers : Known(w) => worker[w].id \in DOMAIN driver.queue
    /\ Phase => \A id \in DOMAIN driver.queue :
                  IF id \in Workers THEN Steered(id) ELSE driver.queue[id] \notin driver.rings

(* Requests and answers are those of the phase.                            *)
MessagesOK ==
    /\ rx \in [driver.rings -> Seq(AnswersOf(stage))]
    /\ \A p \in net : /\ IsInsert(p) \/ IsQuery(p) \/ IsSwitch(p)
                      /\ stage = "load" => IsInsert(p)
                      /\ stage = "run" => IsQuery(p)
                      /\ stage = "switching" => IsSwitch(p)
    /\ stage \in {"start", "switch"} => net = {} /\ \A q \in driver.rings : rx[q] = <<>>

(* A request is on its way, once, for a thread that waits, with its port,  *)
RequestsOwn ==
    /\ \A w \in Workers : worker[w].at = "waiting" => worker[w].id \in Workers
    /\ \A p \in net : worker[p.by].at = "waiting" /\ p.port = driver.port[worker[p.by].id]
    /\ \A p, o \in net : p.by = o.by => p = o

(* and an answer is alone in the queue of the waiting thread, whose request *)
(* is then no longer on its way.                                           *)
AnswersOwnQueue ==
    \A q \in driver.rings : rx[q] # <<>> =>
        /\ Len(rx[q]) = 1
        /\ worker[rx[q][1].by].at = "waiting"
        /\ driver.queue[worker[rx[q][1].by].id] = q
        /\ \A p \in net : p.by # rx[q][1].by

TrafficOK == MessagesOK /\ (Phase => RequestsOwn /\ AnswersOwnQueue)

ReceivedOK == received.to = received.by /\ SameFields(received.got, received.means)

FrontInv == StageOK /\ WorkersOK /\ DriverOK /\ TrafficOK /\ ReceivedOK

-----------------------------------------------------------------------------
(* The front end: its steps                                                *)

(* Registration gives a thread a number no other thread has, below the     *)
(* number of entries or equal to it, as the compiler orders the statement. *)
LEMMA EnterRight ==
  ASSUME NEW m, NEW first \in BOOLEAN, NEW id, Registered(m, first), id \notin DOMAIN m
  PROVE  LET e == Enter(m, id, first)
         IN  /\ DOMAIN e = DOMAIN m \cup {id}
             /\ \A i \in DOMAIN m : e[i] = m[i]
             /\ e[id] \in Nat /\ e[id] >= Cardinality(DOMAIN m)
             /\ Registered(e, first)
             /\ Cardinality(DOMAIN e) = Cardinality(DOMAIN m) + 1
<1> DEFINE D == DOMAIN m
           n == Cardinality(D)
           b == IF first THEN 0 ELSE 1
           e == Enter(m, id, first)
<1>1. /\ IsFiniteSet(D)
      /\ \A i \in D : m[i] \in Nat /\ m[i] < n + b
      /\ \A i, j \in D : m[i] = m[j] => i = j
  BY DEF Registered
<1>2. n \in Nat BY <1>1, FS_CardinalityType
<1>3. IsFiniteSet(D \cup {id}) /\ Cardinality(D \cup {id}) = n + 1 BY <1>1, FS_AddElement
<1>4. Cardinality(D \cup IF first THEN {} ELSE {id}) = n + b
  <2>1. CASE first
    <3>1. (D \cup IF first THEN {} ELSE {id}) = D BY <2>1
    <3>q. QED BY <3>1, <2>1, <1>2
  <2>2. CASE ~first
    <3>1. (D \cup IF first THEN {} ELSE {id}) = D \cup {id} BY <2>2
    <3>q. QED BY <3>1, <2>2, <1>3
  <2>q. QED BY <2>1, <2>2
<1>5. DOMAIN e = D \cup {id} /\ e[id] = n + b /\ \A i \in D : e[i] = m[i]
  <2>1. e = [i \in D \cup {id} |-> IF i = id THEN n + b ELSE m[i]]
    <3>1. e = [i \in D \cup {id} |-> IF i = id THEN Cardinality(D \cup IF first THEN {} ELSE {id}) ELSE m[i]]
      BY Zenon DEF Enter
    <3> HIDE DEF e, b, n
    <3>q. QED BY <3>1, <1>4, Zenon
  <2> HIDE DEF e, b, n
  <2>q. QED BY <2>1
<1> HIDE DEF e, n, D
<1>6. b \in {0, 1} OBVIOUS
<1>7. Registered(e, first)
  <2>1. \A i \in D \cup {id} : e[i] \in Nat /\ e[i] < (n + 1) + b BY <1>1, <1>2, <1>5, <1>6
  <2>2. ASSUME NEW i \in D \cup {id}, NEW j \in D \cup {id}, e[i] = e[j] PROVE i = j
    <3> HIDE DEF b
    <3>1. \A k \in D : e[k] < n + b BY <1>1, <1>5
    <3>2. ~(n + b < n + b) BY <1>2, <1>6
    <3>3. CASE i = id /\ j \in D BY <3>1, <3>2, <3>3, <2>2, <1>5
    <3>4. CASE j = id /\ i \in D BY <3>1, <3>2, <3>4, <2>2, <1>5
    <3>5. CASE i \in D /\ j \in D BY <3>5, <2>2, <1>1, <1>5
    <3>q. QED BY <3>3, <3>4, <3>5
  <2>q. QED BY <1>3, <1>5, <2>1, <2>2, Zenon DEF Registered
<1>8. e[id] \in Nat /\ e[id] >= n BY <1>2, <1>5, <1>6
<1>q. QED BY <1>3, <1>5, <1>7, <1>8 DEF e, n, D

LEMMA CountsOf ==
  /\ nb_threads \in Nat /\ nb_threads >= 1
  /\ IsFiniteSet(Workers) /\ Cardinality(Workers) = nb_threads
  /\ Cardinality(0..(nb_threads - 1)) = nb_threads
  /\ Main \notin Workers /\ 0 \in 0..(nb_threads - 1)
<1>1. nb_threads \in Nat /\ nb_threads >= 1 BY FrontEndAssumption
<1>2. IsFiniteSet(1..nb_threads) /\ Cardinality(1..nb_threads) = nb_threads BY <1>1, FS_Interval
<1>3. Cardinality(0..(nb_threads - 1)) = nb_threads
  <2>1. Cardinality(0..(nb_threads - 1)) = (nb_threads - 1) - 0 + 1 BY <1>1, FS_Interval
  <2>q. QED BY <1>1, <2>1
<1>q. QED BY <1>1, <1>2, <1>3 DEF Workers, Main

LEMMA FrontStart == FrontEndInit => FrontInv
<1> SUFFICES ASSUME FrontEndInit PROVE FrontInv OBVIOUS
<1> USE DEF FrontEndInit
<1>1. StageOK BY DEF StageOK
<1>2. WorkersOK BY DEF WorkersOK, Live
<1>3. Registered(<<>>, TRUE) /\ Registered(<<>>, FALSE)
  <2>1. DOMAIN <<>> = {} OBVIOUS
  <2>2. IsFiniteSet({}) BY FS_EmptySet
  <2>q. QED BY <2>1, <2>2 DEF Registered
<1>4. DriverOK
  <2>1. driver.queue = <<>> /\ driver.port = <<>> /\ driver.rings = {} /\ driver.init_count = 0
        /\ DOMAIN driver = {"queue", "port", "rings", "rules", "init_count"}
    OBVIOUS
  <2>2. stage = "start" /\ compiled.queue \in BOOLEAN /\ compiled.port \in BOOLEAN OBVIOUS
  <2>3. DOMAIN driver.queue = {} BY <2>1
  <2>4. Registered(driver.queue, compiled.queue) /\ Registered(driver.port, compiled.port)
    <3>1. \A b \in BOOLEAN : Registered(<<>>, b) BY <1>3
    <3>q. QED BY <2>1, <2>2, <3>1
  <2> HIDE DEF FrontEndInit
  <2>q. QED BY <2>1, <2>2, <2>3, <2>4 DEF DriverOK, Phase
<1>5. TrafficOK
  <2>1. driver.rings = {} /\ rx = <<>> /\ net = {} /\ stage = "start" OBVIOUS
  <2>2. <<>> \in [{} -> Seq(AnswersOf(stage))] OBVIOUS
  <2>q. QED BY <2>1, <2>2 DEF TrafficOK, MessagesOK, Phase
<1>6. ReceivedOK BY DEF ReceivedOK, SameFields
<1>q. QED BY <1>1, <1>2, <1>4, <1>5, <1>6 DEF FrontInv

(* The steps of the front end keep the invariant.                          *)
LEMMA PortUp == FrontInv /\ driver_init => FrontInv'
<1> SUFFICES ASSUME FrontInv, driver_init PROVE FrontInv' OBVIOUS
<1>0. StageOK /\ WorkersOK /\ DriverOK /\ TrafficOK /\ ReceivedOK BY DEF FrontInv
<1>1. PICK rings \in {0..(nb_threads - 1), {}} :
         /\ stage' = IF rings = {} THEN "exited" ELSE "load"
         /\ driver' = [driver EXCEPT !.rings = rings]
         /\ rx' = [q \in rings |-> <<>>]
  BY Zenon DEF driver_init, port_init
<1>2. stage = "start" /\ UNCHANGED <<compiled, worker, net, received, newcomer>> BY DEF driver_init
<1>3. (stage' = "exited" /\ rings = {}) \/ (stage' = "load" /\ rings = 0..(nb_threads - 1))
  BY <1>1
<1>4. StageOK' BY <1>0, <1>2, <1>3 DEF StageOK
<1>5. WorkersOK'
  <2>1. \A w \in Workers : ~Live(w) BY <1>0, <1>2 DEF WorkersOK
  <2>2. worker' = worker /\ stage' # "run" /\ stage' # "start" BY <1>2, <1>3
  <2>q. QED BY <1>0, <2>1, <2>2 DEF WorkersOK, Live
<1>6. /\ DOMAIN driver' = DOMAIN driver /\ driver'.rings = rings
      /\ driver'.queue = driver.queue /\ driver'.port = driver.port /\ driver'.rules = driver.rules
      /\ driver'.init_count = driver.init_count
  BY <1>0, <1>1 DEF DriverOK
<1>7. DriverOK'
  <2>1. DOMAIN driver.queue = {} /\ driver.init_count = 0 BY <1>0, <1>2 DEF DriverOK
  <2>2. {w \in Workers : Known(w)'} = {}
    <3>1. \A w \in Workers : ~Live(w) BY <1>0, <1>2 DEF WorkersOK
    <3>q. QED BY <3>1, <1>2 DEF Live, Known
  <2>3. Cardinality({}) = 0 BY FS_EmptySet
  <2>4. /\ Registered(driver'.queue, compiled'.queue)
        /\ Registered(driver'.port, compiled'.port)
    BY <1>0, <1>2, <1>6, Zenon DEF DriverOK
  <2>5. /\ DOMAIN driver' = {"queue", "port", "rings", "rules", "init_count"}
        /\ driver'.init_count \in Nat /\ DOMAIN driver'.port = DOMAIN driver'.queue
    BY <1>0, <1>6, Zenon DEF DriverOK
  <2>6. stage' # "start" /\ stage' # "run" BY <1>3
  <2>7. driver'.rings \in {{}, 0..(nb_threads - 1)} BY <1>1, <1>6
  <2>8. stage' \in {"load", "run", "switch", "switching"} => driver'.rings = 0..(nb_threads - 1)
    BY <1>3, <1>6
  <2>9. DOMAIN driver'.queue = {} BY <2>1, <1>6
  <2>10. stage' = "load" => /\ DOMAIN driver'.queue = {w \in Workers : Known(w)'}
                            /\ driver'.init_count = Cardinality(DOMAIN driver'.queue)
    BY <2>1, <2>2, <2>3, <2>9, <1>6, Zenon
  <2>q. QED BY <2>4, <2>5, <2>6, <2>7, <2>8, <2>9, <2>10 DEF DriverOK
<1>8. TrafficOK'
  <2>1. net' = {} BY <1>0, <1>2 DEF TrafficOK, MessagesOK
  <2>2. rx' \in [driver'.rings -> Seq(AnswersOf(stage'))]
    <3>1. <<>> \in Seq(AnswersOf(stage')) OBVIOUS
    <3>q. QED BY <3>1, <1>1, <1>6
  <2>3. \A q \in driver'.rings : rx'[q] = <<>> BY <1>1, <1>6
  <2>4. \A w \in Workers : worker'[w].at # "waiting"
    BY <1>0, <1>2 DEF WorkersOK, Live
  <2>5. MessagesOK' BY <2>1, <2>2, <2>3 DEF MessagesOK
  <2>6. RequestsOwn' BY <2>1, <2>4 DEF RequestsOwn
  <2>7. AnswersOwnQueue' BY <2>3 DEF AnswersOwnQueue
  <2>q. QED BY <2>5, <2>6, <2>7 DEF TrafficOK
<1>9. ReceivedOK' BY <1>0, <1>2 DEF ReceivedOK
<1>q. QED BY <1>4, <1>5, <1>7, <1>8, <1>9 DEF FrontInv

(* An answer in a queue names the thread that asked.                       *)
LEMMA AnswerBy ==
  ASSUME WorkersOK, DriverOK, TrafficOK, Phase, NEW q \in driver.rings, rx[q] # <<>>
  PROVE  rx[q] \in Seq(AnswersOf(stage)) /\ rx[q][1] \in AnswersOf(stage) /\ rx[q][1].by \in Workers
<1>1. rx[q] \in Seq(AnswersOf(stage)) BY DEF TrafficOK, MessagesOK
<1>2. rx[q][1] \in AnswersOf(stage)
  <2> HIDE DEF AnswersOf
  <2>q. QED BY <1>1
<1>3. AnswersOf(stage) = InsertAnswers \/ AnswersOf(stage) = QueryAnswers BY DEF Phase, AnswersOf
<1>4. \A e \in InsertAnswers : e.by \in Workers BY DEF InsertAnswers
<1>5. \A e \in QueryAnswers : e.by \in Workers BY DEF QueryAnswers
<1>q. QED BY <1>1, <1>2, <1>3, <1>4, <1>5

(* What one thread's step leaves alone.                                    *)
LEMMA OneThread ==
  ASSUME NEW w \in Workers, WorkersOK, NEW r, worker' = [worker EXCEPT ![w] = r]
  PROVE  /\ DOMAIN worker' = Workers /\ worker'[w] = r
         /\ \A v \in Workers \ {w} : worker'[v] = worker[v]
BY DEF WorkersOK

LEMMA CreateThreadStep == ASSUME FrontInv, NEW w \in Workers, CreateThread(w) PROVE FrontInv'
<1>0. StageOK /\ WorkersOK /\ DriverOK /\ TrafficOK /\ ReceivedOK BY DEF FrontInv
<1>1. PICK id \in (IF stage = "load" THEN {w} ELSE JoinedIds \cup {nb_threads + w}) :
         /\ id \notin LiveIds
         /\ worker' = [worker EXCEPT ![w] = [at |-> "created", id |-> id, ops |-> 0]]
         /\ newcomer' = (newcomer \/ (stage = "run" /\ id \notin JoinedIds))
  BY Zenon DEF CreateThread
<1>2. /\ stage \in {"load", "run"} /\ worker[w].at = "none"
      /\ UNCHANGED <<compiled, stage, driver, net, rx, received>>
  BY DEF CreateThread
<1>3. id \in Nat /\ (stage = "load" => id = w) BY <1>1, CountsOf DEF JoinedIds, Workers
<1>4. /\ DOMAIN worker' = Workers
      /\ worker'[w] = [at |-> "created", id |-> id, ops |-> 0]
      /\ \A v \in Workers \ {w} : worker'[v] = worker[v]
  BY <1>0, <1>1, OneThread
<1>5. StageOK' BY <1>0, <1>1, <1>2 DEF StageOK
<1>6. WorkersOK'
  <2>1. \A v \in Workers : Live(v) => worker[v].id # id BY <1>1 DEF LiveIds, Live
  <2>2. \A v \in Workers : Live(v)' <=> v = w \/ Live(v) BY <1>2, <1>4 DEF Live
  <2>3. worker'[w] \in [at : {"created", "idle", "waiting"}, id : Nat, ops : Nat] BY <1>3, <1>4
  <2>4. \A v \in Workers : worker'[v] \in [at : {"none"}] \cup [at : {"created", "idle", "waiting"}, id : Nat, ops : Nat]
    BY <1>0, <1>4, <2>3 DEF WorkersOK
  <2>5. \A v \in Workers : v # w /\ Live(v)' => Live(v) /\ worker'[v].id = worker[v].id BY <1>4, <2>2
  <2>6. worker'[w].id = id BY <1>4
  <2>7. \A u, v \in Workers : Live(u)' /\ Live(v)' /\ worker'[u].id = worker'[v].id => u = v
    <3>1. TAKE u, v \in Workers
    <3>2. \A x, y \in Workers : Live(x) /\ Live(y) /\ worker[x].id = worker[y].id => x = y BY <1>0 DEF WorkersOK
    <3>q. QED BY <3>2, <2>1, <2>5, <2>6
  <2>8. \A v \in Workers : stage' = "load" /\ Live(v)' => worker'[v].id = v
    BY <1>0, <1>2, <1>3, <2>5, <2>6 DEF WorkersOK
  <2>9. \A v \in Workers : stage' = "run" /\ Live(v)' => worker'[v].id \in Workers \/ newcomer'
    <3>1. \A v \in Workers : stage = "run" /\ Live(v) => worker[v].id \in Workers \/ newcomer BY <1>0 DEF WorkersOK
    <3>2. stage = "run" => id \in Workers \/ newcomer' BY <1>1 DEF JoinedIds
    <3>3. newcomer => newcomer' BY <1>1
    <3>q. QED BY <3>1, <3>2, <3>3, <1>2, <2>5, <2>6
  <2>q. QED BY <1>2, <1>4, <2>4, <2>7, <2>8, <2>9 DEF WorkersOK
<1>7. \A v \in Workers : worker'[v].at = "waiting" <=> worker[v].at = "waiting" BY <1>2, <1>4
<1>71. \A v \in Workers : worker[v].at = "waiting" => worker'[v] = worker[v] BY <1>2, <1>4
<1>8. \A v \in Workers : (Known(v)' <=> Known(v)) /\ (Known(v)' => worker'[v] = worker[v])
  BY <1>2, <1>4 DEF Known
<1>9. DriverOK'
  <2>1. {v \in Workers : Known(v)'} = {v \in Workers : Known(v)} BY <1>8
  <2>2. stage' = stage /\ driver' = driver /\ compiled' = compiled BY <1>2
  <2>3. stage' = "load" => DOMAIN driver'.queue = {v \in Workers : Known(v)'}
    BY <1>0, <2>1, <2>2, Zenon DEF DriverOK
  <2>4. stage' = "run" => \A v \in Workers : Known(v)' => worker'[v].id \in DOMAIN driver'.queue
    BY <1>0, <1>8, <2>2 DEF DriverOK
  <2>q. QED BY <1>0, <2>2, <2>3, <2>4 DEF DriverOK, Phase, Steered
<1>10. TrafficOK'
  <2>1. stage' = stage /\ driver' = driver /\ net' = net /\ rx' = rx /\ Phase BY <1>2 DEF Phase
  <2>2. \A p \in net : p.by \in Workers /\ worker[p.by].at = "waiting"
    BY <1>0, <1>2, <2>1 DEF TrafficOK, MessagesOK, RequestsOwn, IsInsert, IsQuery
  <2>3. \A q \in driver.rings : rx[q] # <<>> => rx[q][1].by \in Workers /\ worker[rx[q][1].by].at = "waiting"
    BY <1>0, <2>1, AnswerBy DEF TrafficOK, AnswersOwnQueue
  <2>4. MessagesOK' BY <1>0, <2>1 DEF TrafficOK, MessagesOK, IsInsert, IsQuery, IsSwitch
  <2>5. RequestsOwn' BY <1>0, <1>7, <1>71, <2>1, <2>2 DEF TrafficOK, RequestsOwn
  <2>6. AnswersOwnQueue' BY <1>0, <1>71, <2>1, <2>3 DEF TrafficOK, AnswersOwnQueue
  <2>q. QED BY <2>4, <2>5, <2>6 DEF TrafficOK
<1>11. ReceivedOK' BY <1>0, <1>2 DEF ReceivedOK
<1>q. QED BY <1>5, <1>6, <1>9, <1>10, <1>11 DEF FrontInv

LEMMA RegisterRight ==
  ASSUME NEW m, NEW first \in BOOLEAN, NEW id, Registered(m, first)
  PROVE  LET e == register_queue_id(m, id, first)
         IN  /\ DOMAIN e = DOMAIN m \cup {id}
             /\ \A i \in DOMAIN m : e[i] = m[i]
             /\ e[id] \in Nat /\ (id \notin DOMAIN m => e[id] >= Cardinality(DOMAIN m))
             /\ Registered(e, first)
<1>1. CASE id \in DOMAIN m
  <2>1. register_queue_id(m, id, first) = m BY <1>1 DEF register_queue_id
  <2>2. DOMAIN m \cup {id} = DOMAIN m BY <1>1
  <2>q. QED BY <1>1, <2>1, <2>2 DEF Registered
<1>2. CASE id \notin DOMAIN m
  <2>1. register_queue_id(m, id, first) = Enter(m, id, first) BY <1>2, Zenon DEF register_queue_id
  <2> DEFINE e == Enter(m, id, first)
  <2>2. /\ DOMAIN e = DOMAIN m \cup {id}
        /\ \A i \in DOMAIN m : e[i] = m[i]
        /\ e[id] \in Nat /\ e[id] >= Cardinality(DOMAIN m)
        /\ Registered(e, first)
    BY <1>2, EnterRight
  <2> HIDE DEF e
  <2>3. register_queue_id(m, id, first) = e BY <2>1 DEF e
  <2>q. QED BY <2>2, <2>3, Zenon
<1>q. QED BY <1>1, <1>2

(* Whatever answers a phase has, a process that is lost may leave behind.  *)
LEMMA MoreAnswers ==
  ASSUME Phase, rx \in [driver.rings -> Seq(AnswersOf(stage))], NEW s \in {stage, "exited", "crashed"}
  PROVE  rx \in [driver.rings -> Seq(AnswersOf(s))]
<1>1. AnswersOf(stage) \subseteq AnswersOf(s)
  <2>1. CASE s = stage BY <2>1
  <2>2. CASE s # stage
    <3>1. AnswersOf(s) = InsertAnswers \cup QueryAnswers \cup SwitchAnswers BY <2>2, Zenon DEF AnswersOf
    <3>2. AnswersOf(stage) = InsertAnswers \/ AnswersOf(stage) = QueryAnswers BY DEF Phase, AnswersOf
    <3>q. QED BY <3>1, <3>2
  <2>q. QED BY <2>1, <2>2
<1> HIDE DEF AnswersOf
<1>2. \A q \in driver.rings : rx[q] \in Seq(AnswersOf(s))
  <2>1. TAKE q \in driver.rings
  <2>2. rx[q] \in Seq(AnswersOf(stage)) OBVIOUS
  <2>q. QED BY <1>1, <2>2, WiderSeq
<1>q. QED BY <1>2

LEMMA DbInitStep == ASSUME FrontInv, NEW w \in Workers, DbInit(w) PROVE FrontInv'
<1>0. StageOK /\ WorkersOK /\ DriverOK /\ TrafficOK /\ ReceivedOK BY DEF FrontInv
<1> DEFINE id == worker[w].id
           count == driver.init_count + 1
           d == [driver EXCEPT !.init_count = count,
                               !.queue = register_queue_id(@, id, compiled.queue),
                               !.port = register_dest_port(@, id, compiled.port)]
<1>1. /\ stage \in {"load", "run"} /\ worker[w].at = "created"
      /\ IF count <= Cardinality(driver.rings)
         THEN flow_init(d, d.queue[id], d.port[id])
         ELSE driver' = d /\ UNCHANGED stage
      /\ worker' = [worker EXCEPT ![w].at = "idle"]
      /\ UNCHANGED <<compiled, net, rx, received, newcomer>>
  BY Zenon DEF DbInit
<1>2. /\ DOMAIN d = DOMAIN driver /\ d.rings = driver.rings /\ d.rules = driver.rules
      /\ d.init_count = count
      /\ d.queue = register_queue_id(driver.queue, id, compiled.queue)
      /\ d.port = register_queue_id(driver.port, id, compiled.port)
  <2>1. DOMAIN driver = {"queue", "port", "rings", "rules", "init_count"} BY <1>0 DEF DriverOK
  <2>2. register_dest_port(driver.port, id, compiled.port) = register_queue_id(driver.port, id, compiled.port)
    BY Zenon DEF register_dest_port, register_queue_id
  <2> HIDE DEF id, count
  <2>3. /\ DOMAIN d = DOMAIN driver /\ d.rings = driver.rings /\ d.rules = driver.rules
        /\ d.init_count = count
        /\ d.queue = register_queue_id(driver.queue, id, compiled.queue)
        /\ d.port = register_dest_port(driver.port, id, compiled.port)
    BY <2>1
  <2>q. QED BY <2>2, <2>3, Zenon
<1> HIDE DEF d
<1> DEFINE Q == DOMAIN driver.queue
<1>3. compiled.queue \in BOOLEAN /\ compiled.port \in BOOLEAN BY <1>0 DEF StageOK
<1>4. /\ DOMAIN d.queue = Q \cup {id} /\ \A i \in Q : d.queue[i] = driver.queue[i]
      /\ d.queue[id] \in Nat /\ (id \notin Q => d.queue[id] >= Cardinality(Q))
      /\ Registered(d.queue, compiled.queue)
  <2>1. Registered(driver.queue, compiled.queue) BY <1>0 DEF DriverOK
  <2> HIDE DEF id
  <2> DEFINE m == driver.queue
             f == compiled.queue
             e == register_queue_id(m, id, f)
  <2>2. f \in BOOLEAN /\ Registered(m, f) BY <1>3, <2>1
  <2> HIDE DEF m, f
  <2>3. /\ DOMAIN e = DOMAIN m \cup {id}
        /\ \A i \in DOMAIN m : e[i] = m[i]
        /\ e[id] \in Nat /\ (id \notin DOMAIN m => e[id] >= Cardinality(DOMAIN m))
        /\ Registered(e, f)
    BY ONLY <2>2, RegisterRight
  <2>4. d.queue = e BY <1>2 DEF m, f
  <2>5. DOMAIN m = Q BY <2>1 DEF m
  <2> HIDE DEF e, Q
  <2>q. QED BY <2>3, <2>4, <2>5, Zenon DEF m, f
<1>5. /\ DOMAIN d.port = Q \cup {id} /\ \A i \in Q : d.port[i] = driver.port[i]
      /\ Registered(d.port, compiled.port)
  <2>1. Registered(driver.port, compiled.port) /\ DOMAIN driver.port = Q BY <1>0 DEF DriverOK
  <2> HIDE DEF id
  <2> DEFINE m == driver.port
             f == compiled.port
             e == register_queue_id(m, id, f)
  <2>2. f \in BOOLEAN /\ Registered(m, f) BY <1>3, <2>1
  <2> HIDE DEF m, f
  <2>3. /\ DOMAIN e = DOMAIN m \cup {id}
        /\ \A i \in DOMAIN m : e[i] = m[i]
        /\ e[id] \in Nat /\ (id \notin DOMAIN m => e[id] >= Cardinality(DOMAIN m))
        /\ Registered(e, f)
    BY ONLY <2>2, RegisterRight
  <2>4. d.port = e BY <1>2 DEF m, f
  <2>5. DOMAIN m = Q BY <2>1 DEF m
  <2> HIDE DEF e, Q
  <2>q. QED BY <2>3, <2>4, <2>5, Zenon DEF m, f
<1>6. /\ IsFiniteSet(Q) /\ Cardinality(Q) \in Nat /\ driver.init_count \in Nat
  <2>1. IsFiniteSet(Q) BY <1>0 DEF DriverOK, Registered
  <2>2. driver.init_count \in Nat BY <1>0 DEF DriverOK
  <2>q. QED BY <2>1, <2>2, FS_CardinalityType
<1>7. driver.rings = 0..(nb_threads - 1) /\ Cardinality(driver.rings) = nb_threads /\ Phase
  BY <1>0, <1>1, CountsOf DEF DriverOK, Phase
<1>8. /\ DOMAIN worker' = Workers /\ worker'[w].at = "idle" /\ worker'[w].id = id
      /\ worker'[w] \in [at : {"created", "idle", "waiting"}, id : Nat, ops : Nat]
      /\ \A v \in Workers \ {w} : worker'[v] = worker[v]
  <2>1. worker[w] \in [at : {"created", "idle", "waiting"}, id : Nat, ops : Nat]
    BY <1>0, <1>1 DEF WorkersOK
  <2>2. worker' = [worker EXCEPT ![w] = [worker[w] EXCEPT !.at = "idle"]] BY <1>1
  <2>3. /\ DOMAIN worker' = Workers /\ worker'[w] = [worker[w] EXCEPT !.at = "idle"]
        /\ \A v \in Workers \ {w} : worker'[v] = worker[v]
    BY <1>0, <2>2, OneThread
  <2>q. QED BY <2>1, <2>3
<1>9. \A v \in Workers : /\ (Live(v)' <=> Live(v)) /\ (Live(v) => worker'[v].id = worker[v].id)
                         /\ (worker'[v].at = "waiting" <=> worker[v].at = "waiting")
                         /\ (worker[v].at = "waiting" => worker'[v] = worker[v])
                         /\ (Known(v)' <=> Known(v) \/ v = w)
  BY <1>1, <1>8 DEF Live, Known
<1>10. \/ stage = "load" /\ stage' = "load" /\ d.queue[id] \in driver.rings
          /\ driver' = [d EXCEPT !.rules = [p \in DOMAIN d.rules \cup {d.port[id]} |->
                                              IF p = d.port[id] THEN d.queue[id] ELSE d.rules[p]]]
       \/ stage' = "exited" /\ driver' = d
       \/ stage = "run" /\ stage' = "run" /\ driver' = d
  <2>1. CASE stage = "load"
    <3>1. id = w /\ w \notin Q
      <4>1. id = w /\ ~Known(w) BY <1>0, <1>1, <2>1 DEF WorkersOK, Live, Known
      <4>q. QED BY <1>0, <2>1, <4>1 DEF DriverOK
    <3>2. Q \subseteq Workers BY <1>0, <2>1 DEF DriverOK
    <3>3. Cardinality(Q \cup {w}) = Cardinality(Q) + 1 BY <3>1, <1>6, FS_AddElement
    <3>4. Cardinality(Q \cup {w}) <= nb_threads
      <4>1. Q \cup {w} \subseteq Workers BY <3>2
      <4>q. QED BY <4>1, CountsOf, FS_Subset
    <3>5. driver.init_count = Cardinality(Q) BY <1>0, <2>1 DEF DriverOK
    <3>6. count <= Cardinality(driver.rings) BY <3>3, <3>4, <3>5, <1>6, <1>7
    <3>7. flow_init(d, d.queue[id], d.port[id]) BY <1>1, <3>6
    <3> DEFINE x == d.queue[id]
               y == d.port[id]
    <3>8. \/ /\ generate_udp_flow(d, x, y) # <<>>
             /\ driver' = [d EXCEPT !.rules = generate_udp_flow(d, x, y)]
             /\ UNCHANGED stage
          \/ driver' = d /\ stage' = "exited"
      BY <3>7, Zenon DEF flow_init
    <3>9. CASE generate_udp_flow(d, x, y) # <<>>
      <4>1. x \in d.rings BY <3>9 DEF generate_udp_flow
      <4>2. generate_udp_flow(d, x, y) = [p \in DOMAIN d.rules \cup {y} |-> IF p = y THEN x ELSE d.rules[p]]
        BY <4>1, Zenon DEF generate_udp_flow
      <4>q. QED BY <1>2, <2>1, <3>8, <4>1, <4>2, Zenon
    <3>q. QED BY <3>8, <3>9
  <2>2. CASE stage = "run"
    <3>1. driver.init_count >= nb_threads BY <1>0, <2>2 DEF DriverOK
    <3>2. ~(count <= Cardinality(driver.rings)) BY <3>1, <1>6, <1>7, CountsOf
    <3>q. QED BY <1>1, <2>2, <3>2
  <2>q. QED BY <1>1, <2>1, <2>2
<1>11. /\ DOMAIN driver' = {"queue", "port", "rings", "rules", "init_count"}
       /\ driver'.queue = d.queue /\ driver'.port = d.port /\ driver'.rings = driver.rings
       /\ driver'.init_count = driver.init_count + 1
  <2>1. DOMAIN d = {"queue", "port", "rings", "rules", "init_count"} BY <1>0, <1>2 DEF DriverOK
  <2>2. /\ DOMAIN driver' = DOMAIN d /\ driver'.queue = d.queue /\ driver'.port = d.port
        /\ driver'.rings = d.rings /\ driver'.init_count = d.init_count
    BY <1>10, <2>1
  <2>q. QED BY <1>2, <2>1, <2>2
<1>12. id \in Nat /\ (stage = "load" => id = w /\ w \notin Q)
  <2>1. id \in Nat BY <1>0, <1>1 DEF WorkersOK
  <2>2. stage = "load" => id = w /\ ~Known(w) BY <1>0, <1>1 DEF WorkersOK, Live, Known
  <2>q. QED BY <1>0, <2>1, <2>2 DEF DriverOK
<1> HIDE DEF id, count, Q
<1>13. StageOK' BY <1>0, <1>1, <1>10 DEF StageOK
<1>14. WorkersOK'
  <2>1. \A v \in Workers : worker'[v] \in [at : {"none"}] \cup [at : {"created", "idle", "waiting"}, id : Nat, ops : Nat]
    BY <1>0, <1>8 DEF WorkersOK
  <2>2. \A u, v \in Workers : Live(u)' /\ Live(v)' /\ worker'[u].id = worker'[v].id => u = v
    BY <1>0, <1>9 DEF WorkersOK
  <2>3. \A v \in Workers : stage' = "load" /\ Live(v)' => worker'[v].id = v
    BY <1>0, <1>9, <1>10 DEF WorkersOK
  <2>4. \A v \in Workers : stage' = "run" /\ Live(v)' => worker'[v].id \in Workers \/ newcomer'
    BY <1>0, <1>1, <1>9, <1>10 DEF WorkersOK
  <2>5. stage' # "start" BY <1>10
  <2>q. QED BY <1>8, <2>1, <2>2, <2>3, <2>4, <2>5 DEF WorkersOK
<1>15. DriverOK'
  <2>1. /\ driver'.rings \in {{}, 0..(nb_threads - 1)}
        /\ driver'.rings = 0..(nb_threads - 1)
        /\ driver'.init_count \in Nat
        /\ DOMAIN driver'.port = DOMAIN driver'.queue /\ DOMAIN driver'.queue = Q \cup {id}
    <3>1. driver'.rings = 0..(nb_threads - 1) BY <1>7, <1>11, Zenon
    <3>2. DOMAIN driver'.port = Q \cup {id} /\ DOMAIN driver'.queue = Q \cup {id} BY <1>4, <1>5, <1>11, Zenon
    <3>3. driver'.init_count \in Nat BY <1>6, <1>11
    <3>q. QED BY <3>1, <3>2, <3>3, Zenon
  <2>2. Registered(driver'.queue, compiled'.queue) /\ Registered(driver'.port, compiled'.port)
    BY <1>1, <1>4, <1>5, <1>11, Zenon
  <2>3. stage' # "start" BY <1>10
  <2>4. ASSUME stage' = "load"
        PROVE  /\ DOMAIN driver'.queue = {v \in Workers : Known(v)'}
               /\ driver'.init_count = Cardinality(DOMAIN driver'.queue)
    <3>1. stage = "load" BY <2>4, <1>10
    <3>2. Q = {v \in Workers : Known(v)} /\ driver.init_count = Cardinality(Q) BY <1>0, <3>1 DEF DriverOK, Q
    <3>3. id = w /\ w \notin Q BY <1>12, <3>1
    <3>4. {v \in Workers : Known(v)'} = {v \in Workers : Known(v)} \cup {w} BY <1>9
    <3>5. Cardinality(Q \cup {w}) = Cardinality(Q) + 1 BY <3>3, <1>6, FS_AddElement
    <3>6. DOMAIN driver'.queue = Q \cup {w} BY <2>1, <3>3
    <3>q. QED BY <3>2, <3>4, <3>5, <3>6, <1>11
  <2>5. ASSUME stage' = "run"
        PROVE  /\ Workers \subseteq DOMAIN driver'.queue
               /\ driver'.init_count >= nb_threads
               /\ \A v \in Workers : Known(v)' => worker'[v].id \in DOMAIN driver'.queue
    <3>1. stage = "run" BY <2>5, <1>10
    <3>2. /\ Workers \subseteq Q /\ driver.init_count >= nb_threads
          /\ \A v \in Workers : Known(v) => worker[v].id \in Q
      BY <1>0, <3>1 DEF DriverOK, Q
    <3>3. driver'.init_count >= nb_threads BY <3>2, <1>6, <1>11, CountsOf
    <3>4. \A v \in Workers : Known(v)' => worker'[v].id \in Q \cup {id}
      <4>1. TAKE v \in Workers
      <4>2. CASE v = w BY <4>2, <1>8
      <4>3. CASE v # w
        <5>1. worker'[v] = worker[v] BY <4>3, <1>8
        <5>2. Known(v)' => Known(v) BY <4>3, <1>9
        <5>q. QED BY <5>1, <5>2, <3>2
      <4>q. QED BY <4>2, <4>3
    <3>q. QED BY <2>1, <3>2, <3>3, <3>4
  <2>6. ASSUME Phase', NEW i \in DOMAIN driver'.queue
        PROVE  IF i \in Workers THEN Steered(i)' ELSE driver'.queue[i] \notin driver'.rings
    <3>0. i \in Q \cup {id} /\ stage' \in {"load", "run"} BY <2>1, <2>6 DEF Phase
    <3>1. \A j \in Q : IF j \in Workers THEN Steered(j) ELSE driver.queue[j] \notin driver.rings
      BY <1>0, <1>7 DEF DriverOK, Q
    <3>2. CASE stage' = "load"
      <4>1. /\ stage = "load" /\ d.queue[id] \in driver.rings
            /\ driver' = [d EXCEPT !.rules = [p \in DOMAIN d.rules \cup {d.port[id]} |->
                                                IF p = d.port[id] THEN d.queue[id] ELSE d.rules[p]]]
        BY <3>2, <1>10
      <4>2. "rules" \in DOMAIN d BY <1>0, <1>2 DEF DriverOK
      <4>3. driver'.rules = [p \in DOMAIN driver.rules \cup {d.port[id]} |->
                                                IF p = d.port[id] THEN d.queue[id] ELSE driver.rules[p]]
        BY <4>1, <4>2, <1>2
      <4>4. id = w BY <4>1, <1>12
      <4>5. CASE i = id
        <5>1. d.port[id] \in DOMAIN driver'.rules /\ driver'.rules[d.port[id]] = d.queue[id] BY <4>3
        <5>q. QED BY <5>1, <4>1, <4>4, <4>5, <1>11 DEF Steered
      <4>6. CASE i # id
        <5>1. i \in Q BY <4>6, <3>0
        <5>2. i \in Workers BY <1>0, <4>1, <5>1 DEF DriverOK, Q
        <5>3. Steered(i) BY <3>1, <5>1, <5>2
        <5>4. d.port[i] # d.port[id]
          <6>1. \A a, b \in DOMAIN d.port : d.port[a] = d.port[b] => a = b BY <1>5 DEF Registered
          <6>2. i \in DOMAIN d.port /\ id \in DOMAIN d.port BY <5>1, <1>5
          <6>q. QED BY <6>1, <6>2, <4>6
        <5>5. d.port[i] = driver.port[i] /\ d.queue[i] = driver.queue[i] BY <5>1, <1>4, <1>5
        <5>6. d.port[i] \in DOMAIN driver'.rules /\ driver'.rules[d.port[i]] = driver.rules[d.port[i]]
          BY <5>3, <5>4, <5>5, <4>3 DEF Steered
        <5>7. Steered(i)' BY <5>3, <5>5, <5>6, <1>11 DEF Steered
        <5>q. QED BY <5>2, <5>7
      <4>q. QED BY <4>5, <4>6
    <3>3. CASE stage' = "run"
      <4>1. stage = "run" /\ driver' = d BY <3>3, <1>10
      <4>2. driver'.rules = driver.rules BY <4>1, <1>2
      <4>3. Workers \subseteq Q BY <1>0, <4>1 DEF DriverOK, Q
      <4>4. CASE i \in Q
        <5>1. driver'.queue[i] = driver.queue[i] /\ driver'.port[i] = driver.port[i] BY <4>4, <1>4, <1>5, <1>11
        <5>q. QED BY <3>1, <4>2, <4>4, <5>1, <1>11 DEF Steered
      <4>5. CASE i \notin Q
        <5>1. i = id /\ i \notin Workers BY <4>3, <4>5, <3>0
        <5>2. driver'.queue[i] \in Nat /\ driver'.queue[i] >= Cardinality(Q) BY <5>1, <4>5, <1>4, <1>11
        <5>3. nb_threads <= Cardinality(Q) BY <4>3, <1>6, CountsOf, FS_Subset
        <5>4. driver'.queue[i] \notin 0..(nb_threads - 1) BY <5>2, <5>3, <1>6, CountsOf
        <5>q. QED BY <5>1, <5>4, <1>7, <1>11
      <4>q. QED BY <4>4, <4>5
    <3>q. QED BY <3>0, <3>2, <3>3
  <2>q. QED BY <1>11, <2>1, <2>2, <2>3, <2>4, <2>5, <2>6 DEF DriverOK
<1>16. TrafficOK'
  <2>0. driver'.rings = driver.rings /\ net' = net /\ rx' = rx /\ (stage' = stage \/ stage' = "exited") BY <1>1, <1>10, <1>11
  <2>1. MessagesOK'
    <3>1. MessagesOK BY <1>0 DEF TrafficOK
    <3>2. stage' # "start" /\ stage' # "switch" BY <1>10
    <3>3. rx' \in [driver'.rings -> Seq(AnswersOf(stage'))] BY <3>1, <2>0, <1>7, MoreAnswers DEF MessagesOK
    <3>q. QED BY <3>1, <3>2, <3>3, <2>0 DEF MessagesOK, IsInsert, IsQuery, IsSwitch
  <2>2. ASSUME Phase' PROVE RequestsOwn' /\ AnswersOwnQueue'
    <3>1. RequestsOwn /\ AnswersOwnQueue /\ MessagesOK BY <1>0, <1>7 DEF TrafficOK
    <3>2. \A v \in Workers : worker[v].at = "waiting" =>
             /\ worker'[v] = worker[v]
             /\ driver'.port[worker[v].id] = driver.port[worker[v].id]
             /\ driver'.queue[worker[v].id] = driver.queue[worker[v].id]
      <4>1. ASSUME NEW v \in Workers, worker[v].at = "waiting" PROVE worker[v].id \in Q
        <5>1. Live(v) /\ Known(v) BY <4>1 DEF Live, Known
        <5>2. CASE stage = "load" BY <5>1, <5>2, <1>0 DEF WorkersOK, DriverOK, Q
        <5>3. CASE stage = "run" BY <5>1, <5>3, <1>0 DEF DriverOK, Q
        <5>q. QED BY <5>2, <5>3, <1>1
      <4>q. QED BY <4>1, <1>4, <1>5, <1>9, <1>11
    <3>3. \A p \in net : p.by \in Workers BY <3>1, <1>1 DEF MessagesOK, IsInsert, IsQuery
    <3>4. \A q \in driver.rings : rx[q] # <<>> => rx[q][1].by \in Workers BY <1>0, <1>7, AnswerBy
    <3>5. RequestsOwn'
      <4>1. \A v \in Workers : worker'[v].at = "waiting" => worker'[v].id \in Workers BY <3>1, <1>9 DEF RequestsOwn
      <4>2. \A p \in net : worker'[p.by].at = "waiting" /\ p.port = driver'.port[worker'[p.by].id]
        BY <3>1, <3>2, <3>3, <1>9 DEF RequestsOwn
      <4>q. QED BY <3>1, <4>1, <4>2, <2>0 DEF RequestsOwn
    <3>6. AnswersOwnQueue' BY <3>1, <3>2, <3>4, <1>9, <2>0 DEF AnswersOwnQueue
    <3>q. QED BY <3>5, <3>6
  <2>q. QED BY <2>1, <2>2 DEF TrafficOK
<1>17. ReceivedOK' BY <1>0, <1>1 DEF ReceivedOK
<1>q. QED BY <1>13, <1>14, <1>15, <1>16, <1>17 DEF FrontInv

(* A process lost in a phase leaves everything else as it was.             *)
LEMMA LostProcess ==
  ASSUME StageOK, WorkersOK, DriverOK, TrafficOK, ReceivedOK', Phase, newcomer, stage' = "crashed",
         UNCHANGED <<compiled, worker, driver, net, rx, newcomer>>
  PROVE  FrontInv'
<1>1. StageOK' BY DEF StageOK
<1>2. WorkersOK' BY DEF WorkersOK, Live
<1>3. DriverOK' BY DEF DriverOK, Phase
<1>4. MessagesOK'
  <2>1. rx' \in [driver'.rings -> Seq(AnswersOf(stage'))] BY MoreAnswers DEF TrafficOK, MessagesOK
  <2>q. QED BY <2>1 DEF TrafficOK, MessagesOK, IsInsert, IsQuery, IsSwitch
<1>5. ~Phase' BY DEF Phase
<1>q. QED BY <1>1, <1>2, <1>3, <1>4, <1>5 DEF FrontInv, TrafficOK

LEMMA SendStep ==
  ASSUME FrontInv, NEW w \in Workers, NEW r \in IF stage = "load" THEN Inserted ELSE Queried, SendRequest(w, r)
  PROVE  FrontInv'
<1>0. StageOK /\ WorkersOK /\ DriverOK /\ TrafficOK /\ ReceivedOK BY DEF FrontInv
<1>1. /\ stage \in {"load", "run"} /\ worker[w].at = "idle"
      /\ UNCHANGED <<compiled, driver, rx, received, newcomer>>
  BY DEF SendRequest
<1>2. Phase /\ Live(w) /\ Known(w) BY <1>1 DEF Phase, Live, Known
<1> DEFINE id == worker[w].id
           p == [port |-> driver.port[id], by |-> w, means |-> r,
                 msg |-> IF stage = "load" THEN InsertMessage(r) ELSE QueryMessage(r)]
<1>3. id \in DOMAIN driver.queue
  <2>1. CASE stage = "load" BY <2>1, <1>0, <1>2 DEF WorkersOK, DriverOK
  <2>2. CASE stage = "run" BY <2>2, <1>0, <1>2 DEF DriverOK
  <2>q. QED BY <1>1, <2>1, <2>2
<1>4. IF id \in Workers THEN Steered(id) ELSE driver.queue[id] \notin driver.rings
  BY <1>0, <1>2, <1>3 DEF DriverOK
<1>5. ReceivedOK' BY <1>0, <1>1 DEF ReceivedOK
<1>6. CASE driver.queue[id] \in driver.rings
  <2>1. /\ net' = net \cup {p}
        /\ worker' = [worker EXCEPT ![w].at = "waiting", ![w].ops = @ + 1]
        /\ UNCHANGED stage
    BY <1>6, Zenon DEF SendRequest
  <2>2. id \in Workers BY <1>4, <1>6
  <2>3. /\ DOMAIN worker' = Workers /\ worker'[w].at = "waiting" /\ worker'[w].id = id
        /\ worker'[w] \in [at : {"created", "idle", "waiting"}, id : Nat, ops : Nat]
        /\ \A v \in Workers \ {w} : worker'[v] = worker[v]
    <3>1. worker[w] \in [at : {"created", "idle", "waiting"}, id : Nat, ops : Nat]
      BY <1>0, <1>1 DEF WorkersOK
    <3>2. worker' = [worker EXCEPT ![w] = [worker[w] EXCEPT !.at = "waiting", !.ops = @ + 1]]
      BY <1>0, <2>1, <3>1 DEF WorkersOK
    <3>3. /\ DOMAIN worker' = Workers /\ worker'[w] = [worker[w] EXCEPT !.at = "waiting", !.ops = @ + 1]
          /\ \A v \in Workers \ {w} : worker'[v] = worker[v]
      BY <1>0, <3>2, OneThread
    <3>4. worker'[w] = [at |-> "waiting", id |-> id, ops |-> worker[w].ops + 1] BY <3>1, <3>3
    <3>5. id \in Nat /\ worker[w].ops + 1 \in Nat BY <3>1
    <3> DEFINE n == worker[w].ops + 1
    <3> HIDE DEF id, n
    <3>6. [at |-> "waiting", id |-> id, ops |-> n] \in [at : {"created", "idle", "waiting"}, id : Nat, ops : Nat]
      BY <3>5 DEF n
    <3>7. worker'[w] = [at |-> "waiting", id |-> id, ops |-> n] BY <3>4, Zenon DEF n
    <3>8. worker'[w].at = "waiting" /\ worker'[w].id = id BY <3>7
    <3>q. QED BY <3>3, <3>6, <3>7, <3>8, Zenon
  <2>4. p.by = w /\ p.port = driver.port[id] /\ p.means = r
        /\ p.msg = IF stage = "load" THEN InsertMessage(r) ELSE QueryMessage(r)
    OBVIOUS
  <2> HIDE DEF p, id
  <2>5. \A v \in Workers : (Live(v)' <=> Live(v)) /\ (Known(v)' <=> Known(v)) /\ worker'[v].id = worker[v].id
    BY <1>2, <2>3 DEF Live, Known, id
  <2>6. StageOK' BY <1>0, <1>1, <2>1 DEF StageOK
  <2>7. WorkersOK'
    <3>1. \A v \in Workers : worker'[v] \in [at : {"none"}] \cup [at : {"created", "idle", "waiting"}, id : Nat, ops : Nat]
      BY <1>0, <2>3 DEF WorkersOK
    <3>q. QED BY <1>0, <1>1, <2>1, <2>3, <2>5, <3>1 DEF WorkersOK
  <2>8. DriverOK'
    <3>1. {v \in Workers : Known(v)'} = {v \in Workers : Known(v)} BY <2>5
    <3>2. stage' = stage /\ driver' = driver /\ compiled' = compiled BY <1>1, <2>1
    <3>3. stage' = "load" => DOMAIN driver'.queue = {v \in Workers : Known(v)'}
      BY <1>0, <3>1, <3>2, Zenon DEF DriverOK
    <3>4. stage' = "run" => \A v \in Workers : Known(v)' => worker'[v].id \in DOMAIN driver'.queue
      BY <1>0, <2>5, <3>2 DEF DriverOK
    <3>q. QED BY <1>0, <3>2, <3>3, <3>4 DEF DriverOK, Phase, Steered
  <2>9. MessagesOK /\ RequestsOwn /\ AnswersOwnQueue BY <1>0, <1>2 DEF TrafficOK
  <2>10. MessagesOK'
    <3>1. IF stage = "load" THEN IsInsert(p) ELSE IsQuery(p) BY <2>4 DEF IsInsert, IsQuery
    <3>2. \A o \in net' : /\ IsInsert(o) \/ IsQuery(o) \/ IsSwitch(o)
                          /\ stage = "load" => IsInsert(o)
                          /\ stage = "run" => IsQuery(o)
      BY <1>1, <2>1, <2>9, <3>1 DEF MessagesOK
    <3>q. QED BY <1>1, <2>1, <2>9, <3>2 DEF MessagesOK, IsInsert, IsQuery, IsSwitch
  <2>11. \A o \in net : o.by \in Workers /\ o.by # w
    <3>1. \A o \in net : o.by \in Workers BY <1>1, <2>9 DEF MessagesOK, IsInsert, IsQuery
    <3>q. QED BY <3>1, <1>1, <2>9 DEF RequestsOwn
  <2>12. \A q \in driver.rings : rx[q] # <<>> => rx[q][1].by \in Workers /\ rx[q][1].by # w
    <3>1. \A q \in driver.rings : rx[q] # <<>> => rx[q][1].by \in Workers BY <1>0, <1>2, AnswerBy
    <3>q. QED BY <3>1, <1>1, <2>9 DEF AnswersOwnQueue
  <2>13. RequestsOwn'
    <3>1. \A v \in Workers : worker'[v].at = "waiting" => worker'[v].id \in Workers
      BY <2>2, <2>3, <2>9 DEF RequestsOwn
    <3>2. \A o \in net' : worker'[o.by].at = "waiting" /\ o.port = driver'.port[worker'[o.by].id]
      BY <1>1, <2>1, <2>3, <2>4, <2>9, <2>11 DEF RequestsOwn
    <3>3. \A o, u \in net' : o.by = u.by => o = u
      BY <2>1, <2>4, <2>9, <2>11 DEF RequestsOwn
    <3>q. QED BY <3>1, <3>2, <3>3 DEF RequestsOwn
  <2>14. AnswersOwnQueue' BY <1>1, <2>1, <2>3, <2>4, <2>9, <2>12 DEF AnswersOwnQueue
  <2>q. QED BY <1>5, <2>6, <2>7, <2>8, <2>10, <2>13, <2>14 DEF FrontInv, TrafficOK
<1>7. CASE driver.queue[id] \notin driver.rings
  <2>1. stage' = "crashed" /\ UNCHANGED <<worker, net>> BY <1>7, Zenon DEF SendRequest
  <2>2. newcomer
    <3>1. id \notin Workers BY <1>4, <1>7 DEF Steered
    <3>2. stage = "run" BY <3>1, <1>0, <1>1, <1>2 DEF WorkersOK
    <3>q. QED BY <3>1, <3>2, <1>0, <1>2 DEF WorkersOK
  <2>3. FrontInv' BY <1>0, <1>1, <1>2, <1>5, <2>1, <2>2, LostProcess
  <2>q. QED BY <2>3
<1>q. QED BY <1>6, <1>7

LEMMA DropStep == ASSUME FrontInv, NEW p \in net, DropPacket(p) PROVE FrontInv'
<1>0. StageOK /\ WorkersOK /\ DriverOK /\ TrafficOK /\ ReceivedOK BY DEF FrontInv
<1>1. net' = net \ {p} /\ UNCHANGED <<compiled, stage, worker, driver, rx, received, newcomer>> BY DEF DropPacket
<1>2. StageOK' /\ ReceivedOK' BY <1>0, <1>1 DEF StageOK, ReceivedOK
<1>3. WorkersOK' BY <1>0, <1>1 DEF WorkersOK, Live
<1>4. DriverOK' BY <1>0, <1>1 DEF DriverOK, Known, Phase, Steered
<1>5. MessagesOK' BY <1>0, <1>1 DEF TrafficOK, MessagesOK, IsInsert, IsQuery, IsSwitch
<1>6. Phase' => RequestsOwn' /\ AnswersOwnQueue' BY <1>0, <1>1 DEF TrafficOK, RequestsOwn, AnswersOwnQueue, Phase
<1>q. QED BY <1>2, <1>3, <1>4, <1>5, <1>6 DEF FrontInv, TrafficOK

(* A waiting thread's answers come to its queue, and to no other thread's. *)
LEMMA WaitingSteered ==
  ASSUME WorkersOK, DriverOK, TrafficOK, Phase, NEW w \in Workers, worker[w].at = "waiting"
  PROVE  /\ worker[w].id \in DOMAIN driver.queue /\ Steered(worker[w].id)
         /\ \A v \in Workers : worker[v].at = "waiting" /\ driver.queue[worker[v].id] = driver.queue[worker[w].id] => v = w
<1>1. \A v \in Workers : worker[v].at = "waiting" => Live(v) /\ Known(v) BY DEF Live, Known
<1>2. \A v \in Workers : worker[v].at = "waiting" => worker[v].id \in DOMAIN driver.queue
  <2>1. CASE stage = "load" BY <1>1, <2>1 DEF WorkersOK, DriverOK
  <2>2. CASE stage = "run" BY <1>1, <2>2 DEF DriverOK
  <2>q. QED BY <2>1, <2>2 DEF Phase
<1>3. worker[w].id \in Workers BY DEF TrafficOK, RequestsOwn
<1>4. Steered(worker[w].id) BY <1>2, <1>3 DEF DriverOK
<1>5. \A i, j \in DOMAIN driver.queue : driver.queue[i] = driver.queue[j] => i = j BY DEF DriverOK, Registered
<1>6. ASSUME NEW v \in Workers, worker[v].at = "waiting", driver.queue[worker[v].id] = driver.queue[worker[w].id]
      PROVE  v = w
  <2>1. worker[v].id = worker[w].id BY <1>2, <1>5, <1>6
  <2>q. QED BY <1>1, <1>6, <2>1 DEF WorkersOK
<1>q. QED BY <1>2, <1>4, <1>6

(* An answer goes to the queue of the thread that asked, which is empty.   *)
LEMMA DeliverStep ==
  ASSUME WorkersOK, DriverOK, TrafficOK, NEW p \in net, NEW msg, NEW means, Deliver(p, msg, means),
         [by |-> p.by, msg |-> msg, means |-> means] \in AnswersOf(stage),
         UNCHANGED <<compiled, stage, worker, driver, newcomer>>
  PROVE  TrafficOK'
<1> DEFINE e == [by |-> p.by, msg |-> msg, means |-> means]
           A == AnswersOf(stage)
<1>1. PICK q \in IF p.port \in DOMAIN driver.rules THEN {driver.rules[p.port]} ELSE driver.rings :
         rx' = [rx EXCEPT ![q] = Append(@, e)]
  BY Zenon DEF Deliver
<1>2. net' = net \ {p} BY DEF Deliver
<1>3. e.by = p.by /\ e \in A OBVIOUS
<1> HIDE DEF e, A
<1>4. MessagesOK /\ rx \in [driver.rings -> Seq(A)] BY DEF TrafficOK, MessagesOK, A
<1>5. stage \notin {"start", "switch"} BY <1>4 DEF MessagesOK
<1>6. rx' \in [driver.rings -> Seq(A)]
  <2>1. CASE q \in driver.rings
    <3>1. rx[q] \in Seq(A) BY <1>4, <2>1
    <3>2. Append(rx[q], e) \in Seq(A) BY ONLY <1>3, <3>1
    <3>q. QED BY <1>1, <1>4, <3>2
  <2>2. CASE q \notin driver.rings BY <1>1, <1>4, <2>2
  <2>q. QED BY <2>1, <2>2
<1>7. MessagesOK' BY <1>2, <1>4, <1>5, <1>6 DEF MessagesOK, A, IsInsert, IsQuery, IsSwitch
<1>8. ASSUME Phase PROVE RequestsOwn' /\ AnswersOwnQueue'
  <2>1. RequestsOwn /\ AnswersOwnQueue BY <1>8 DEF TrafficOK
  <2>2. p.by \in Workers /\ worker[p.by].at = "waiting" /\ p.port = driver.port[worker[p.by].id]
    BY <1>4, <1>8, <2>1 DEF MessagesOK, RequestsOwn, Phase, IsInsert, IsQuery
  <2> DEFINE w == p.by
             id == worker[w].id
  <2>3. Steered(id) /\ \A v \in Workers : worker[v].at = "waiting" /\ driver.queue[worker[v].id] = driver.queue[id] => v = w
    BY <1>8, <2>2, WaitingSteered
  <2>4. q = driver.queue[id] /\ q \in driver.rings BY <1>1, <2>2, <2>3 DEF Steered
  <2>5. \A k \in driver.rings : rx[k] # <<>> => rx[k][1].by \in Workers /\ rx[k][1].by # w
    BY <1>8, <2>1, AnswerBy DEF AnswersOwnQueue
  <2>6. rx[q] = <<>> BY <2>1, <2>3, <2>4, <2>5 DEF AnswersOwnQueue
  <2>7. rx'[q] = <<e>> /\ \A k \in driver.rings \ {q} : rx'[k] = rx[k]
    <3>1. rx'[q] = Append(<<>>, e) /\ \A k \in driver.rings \ {q} : rx'[k] = rx[k] BY <1>1, <1>4, <2>4, <2>6
    <3>2. Append(<<>>, e) = <<e>> OBVIOUS
    <3>q. QED BY <3>1, <3>2
  <2>8. Len(rx'[q]) = 1 /\ rx'[q][1] = e BY <2>7
  <2>9. \A o \in net' : o \in net /\ o.by # w BY <1>2, <2>1 DEF RequestsOwn
  <2>10. RequestsOwn' BY <1>2, <2>1 DEF RequestsOwn
  <2>11. ASSUME NEW k \in driver.rings, rx'[k] # <<>>
         PROVE  /\ Len(rx'[k]) = 1 /\ worker[rx'[k][1].by].at = "waiting"
                /\ driver.queue[worker[rx'[k][1].by].id] = k
                /\ \A o \in net' : o.by # rx'[k][1].by
    <3>1. CASE k = q
      <4>1. rx'[k][1].by = w BY <3>1, <2>8, <1>3
      <4>q. QED BY <3>1, <4>1, <2>2, <2>4, <2>8, <2>9
    <3>2. CASE k # q
      <4>1. rx'[k] = rx[k] BY <3>2, <2>7
      <4>q. QED BY <4>1, <2>1, <2>9, <2>11 DEF AnswersOwnQueue
    <3>q. QED BY <3>1, <3>2
  <2>12. AnswersOwnQueue' BY <2>11 DEF AnswersOwnQueue
  <2>q. QED BY <2>10, <2>12
<1>q. QED BY <1>7, <1>8 DEF TrafficOK, Phase

LEMMA BackEndStep == ASSUME FrontInv, NEW p \in net, BackEnd(p) PROVE FrontInv'
<1>0. StageOK /\ WorkersOK /\ DriverOK /\ TrafficOK /\ ReceivedOK BY DEF FrontInv
<1> DEFINE type == extract_msg_type(p.msg)
<1>1. /\ \/ /\ type.got = 1318
            /\ received' = [to |-> Server, by |-> Server, means |-> p.means,
                            got |-> handle_insert(type.rest)]
            /\ Deliver(p, inject_msg_type(1320), [type |-> 1320])
         \/ /\ type.got = 1319
            /\ received' = [to |-> Server, by |-> Server, means |-> p.means,
                            got |-> handle_query(type.rest)]
            /\ \E a \in Answered : Deliver(p, AnswerMessage(received'.got.key, a), Answer(p.means, a))
         \/ /\ type.got = 1536
            /\ Deliver(p, inject_msg_type(1537), [type |-> 1537])
            /\ UNCHANGED received
      /\ UNCHANGED <<compiled, stage, worker, driver, newcomer>>
  BY DEF BackEnd
<1> HIDE DEF type
<1>2. StageOK' BY <1>0, <1>1 DEF StageOK
<1>3. WorkersOK' BY <1>0, <1>1 DEF WorkersOK, Live
<1>4. DriverOK' BY <1>0, <1>1 DEF DriverOK, Known, Phase, Steered
<1>5. /\ IsInsert(p) \/ IsQuery(p) \/ IsSwitch(p)
      /\ stage = "load" => IsInsert(p)
      /\ stage = "run" => IsQuery(p)
      /\ stage = "switching" => IsSwitch(p)
  BY <1>0 DEF TrafficOK, MessagesOK
<1>51. type.got \in {1318, 1319, 1536} BY <1>1
<1>6. CASE IsInsert(p)
  <2>1. p.by \in Workers /\ p.means \in Inserted /\ p.msg = InsertMessage(p.means) BY <1>6 DEF IsInsert
  <2>2. IsString(p.means.key) /\ IsValues(p.means.values) BY <2>1, MessageAssumption
  <2>3. type.got = 1318 /\ SameFields(handle_insert(type.rest), p.means)
    BY <2>1, <2>2, InsertRead DEF type
  <2>4. /\ received' = [to |-> Server, by |-> Server, means |-> p.means, got |-> handle_insert(type.rest)]
        /\ Deliver(p, inject_msg_type(1320), [type |-> 1320])
    BY <1>1, <2>3
  <2>5. ReceivedOK' BY <2>3, <2>4 DEF ReceivedOK
  <2>6. stage # "run" /\ stage # "switching"
    <3>1. ASSUME IsQuery(p) PROVE FALSE
      <4>1. p.means \in Queried /\ p.msg = QueryMessage(p.means) BY <3>1 DEF IsQuery
      <4>2. type.got = 1319 BY <4>1, MessageAssumption, QueryRead DEF type
      <4>q. QED BY <4>2, <2>3
    <3>2. ~IsSwitch(p) BY <2>1, CountsOf DEF IsSwitch
    <3>q. QED BY <3>1, <3>2, <1>5
  <2>7. [by |-> p.by, msg |-> inject_msg_type(1320), means |-> [type |-> 1320]] \in InsertAnswers
    BY <2>1 DEF InsertAnswers
  <2>8. [by |-> p.by, msg |-> inject_msg_type(1320), means |-> [type |-> 1320]] \in AnswersOf(stage)
    BY <2>6, <2>7 DEF AnswersOf
  <2>9. TrafficOK' BY <1>0, <1>1, <2>4, <2>8, DeliverStep
  <2>q. QED BY <1>2, <1>3, <1>4, <2>5, <2>9 DEF FrontInv
<1>7. CASE IsQuery(p)
  <2>1. p.by \in Workers /\ p.means \in Queried /\ p.msg = QueryMessage(p.means) BY <1>7 DEF IsQuery
  <2>2. /\ IsString(p.means.key) /\ p.means.fbt_key \in [1..8 -> Octet]
        /\ remove_key_index_prefix(p.means.key) = p.means.fbt_key
    BY <2>1, MessageAssumption
  <2>3. type.got = 1319 /\ SameFields(handle_query(type.rest), p.means) /\ handle_query(type.rest).key = p.means.key
    BY <2>1, <2>2, QueryRead DEF type
  <2>4. /\ received' = [to |-> Server, by |-> Server, means |-> p.means, got |-> handle_query(type.rest)]
        /\ \E a \in Answered : Deliver(p, AnswerMessage(received'.got.key, a), Answer(p.means, a))
    BY <1>1, <2>3
  <2>5. ReceivedOK' /\ received'.got.key = p.means.key BY <2>3, <2>4 DEF ReceivedOK
  <2>6. PICK a \in Answered : Deliver(p, AnswerMessage(p.means.key, a), Answer(p.means, a)) BY <2>4, <2>5
  <2>7. stage # "load" /\ stage # "switching"
    <3>1. ASSUME IsInsert(p) PROVE FALSE
      <4>1. p.means \in Inserted /\ p.msg = InsertMessage(p.means) BY <3>1 DEF IsInsert
      <4>2. type.got = 1318 BY <4>1, MessageAssumption, InsertRead DEF type
      <4>q. QED BY <4>2, <2>3
    <3>2. ~IsSwitch(p) BY <2>1, CountsOf DEF IsSwitch
    <3>q. QED BY <3>1, <3>2, <1>5
  <2>8. [by |-> p.by, msg |-> AnswerMessage(p.means.key, a), means |-> Answer(p.means, a)] \in QueryAnswers
    <3> DEFINE w == p.by
               r == p.means
    <3>1. w \in Workers /\ r \in Queried BY <2>1
    <3> HIDE DEF w, r
    <3>2. \E v \in Workers, o \in Queried, b \in Answered :
            [by |-> w, msg |-> AnswerMessage(r.key, a), means |-> Answer(r, a)] = [by |-> v, msg |-> AnswerMessage(o.key, b), means |-> Answer(o, b)]
      BY <3>1, Zenon
    <3>3. [by |-> w, msg |-> AnswerMessage(r.key, a), means |-> Answer(r, a)] \in QueryAnswers BY <3>2 DEF QueryAnswers
    <3>q. QED BY <3>3 DEF w, r
  <2>9. [by |-> p.by, msg |-> AnswerMessage(p.means.key, a), means |-> Answer(p.means, a)] \in AnswersOf(stage)
    BY <2>7, <2>8 DEF AnswersOf
  <2>10. TrafficOK' BY <1>0, <1>1, <2>6, <2>9, DeliverStep
  <2>q. QED BY <1>2, <1>3, <1>4, <2>5, <2>10 DEF FrontInv
<1>8. CASE IsSwitch(p)
  <2>1. p.by = Main /\ p.msg = inject_msg_type(1536) BY <1>8 DEF IsSwitch
  <2>2. type.got = 1536 BY <2>1, CodesSmall, TypeAlone DEF type
  <2>3. Deliver(p, inject_msg_type(1537), [type |-> 1537]) /\ UNCHANGED received BY <1>1, <2>2
  <2>4. ReceivedOK' BY <1>0, <2>3 DEF ReceivedOK
  <2>5. ~IsInsert(p) /\ ~IsQuery(p) BY <2>1, CountsOf DEF IsInsert, IsQuery
  <2>6. stage # "load" /\ stage # "run" BY <1>5, <2>5
  <2>7. [by |-> p.by, msg |-> inject_msg_type(1537), means |-> [type |-> 1537]] \in SwitchAnswers
    BY <2>1 DEF SwitchAnswers
  <2>8. [by |-> p.by, msg |-> inject_msg_type(1537), means |-> [type |-> 1537]] \in AnswersOf(stage)
    BY <2>6, <2>7 DEF AnswersOf
  <2>9. TrafficOK' BY <1>0, <1>1, <2>3, <2>8, DeliverStep
  <2>q. QED BY <1>2, <1>3, <1>4, <2>4, <2>9 DEF FrontInv
<1>q. QED BY <1>5, <1>6, <1>7, <1>8

LEMMA OneElement ==
  ASSUME NEW S, NEW s \in Seq(S), Len(s) = 1
  PROVE  Head(s) = s[1] /\ Tail(s) = <<>>
<1>1. s # <<>>
  <2>1. Len(<<>>) = 0 OBVIOUS
  <2>q. QED BY <2>1
<1>2. Tail(s) \in Seq(S) /\ Len(Tail(s)) = 0 BY <1>1
<1>3. Tail(s) = <<>>
  <2> DEFINE t == Tail(s)
  <2>1. t \in Seq(S) /\ Len(t) = 0 /\ <<>> \in Seq(S) /\ Len(<<>>) = 0 BY <1>2
  <2> HIDE DEF t
  <2>2. \A i \in 1..Len(t) : t[i] = <<>>[i] BY <2>1
  <2>3. t = <<>> BY ONLY <2>1, <2>2, SeqSame
  <2>q. QED BY <2>3 DEF t
<1>4. Head(s) = s[1] BY <1>1
<1>q. QED BY <1>3, <1>4

LEMMA RecvStep == ASSUME FrontInv, NEW w \in Workers, RecvAnswer(w) PROVE FrontInv'
<1>0. StageOK /\ WorkersOK /\ DriverOK /\ TrafficOK /\ ReceivedOK BY DEF FrontInv
<1> DEFINE id   == worker[w].id
           q    == driver.queue[id]
           e    == Head(rx[q])
           type == extract_msg_type(e.msg)
<1>1. /\ stage \in {"load", "run"} /\ worker[w].at = "waiting" /\ rx[q] # <<>>
      /\ rx' = [rx EXCEPT ![q] = Tail(@)]
      /\ UNCHANGED <<compiled, driver, net, newcomer>>
  BY DEF RecvAnswer
<1>2. IF type.got = (IF stage = "load" THEN 1320 ELSE 1321)
      THEN /\ received' = [to |-> w, by |-> e.by, means |-> e.means, got |-> ReadAnswer(type)]
           /\ worker' = [worker EXCEPT ![w].at = "idle"]
           /\ UNCHANGED stage
      ELSE stage' = "aborted" /\ UNCHANGED <<received, worker>>
  BY DEF RecvAnswer
<1>3. Phase /\ RequestsOwn /\ AnswersOwnQueue /\ MessagesOK BY <1>0, <1>1 DEF Phase, TrafficOK
<1>4. /\ id \in DOMAIN driver.queue /\ q \in driver.rings
      /\ \A v \in Workers : worker[v].at = "waiting" /\ driver.queue[worker[v].id] = q => v = w
  BY <1>0, <1>1, <1>3, WaitingSteered DEF Steered
<1> HIDE DEF q, id
<1>5. rx[q] \in Seq(AnswersOf(stage)) /\ rx[q][1] \in AnswersOf(stage) /\ rx[q][1].by \in Workers
  BY <1>0, <1>1, <1>3, <1>4, AnswerBy
<1>6. /\ Len(rx[q]) = 1 /\ worker[rx[q][1].by].at = "waiting"
      /\ driver.queue[worker[rx[q][1].by].id] = q
      /\ \A p \in net : p.by # rx[q][1].by
  BY <1>1, <1>3, <1>4 DEF AnswersOwnQueue
<1>7. e = rx[q][1] /\ Tail(rx[q]) = <<>>
  <2>1. rx[q] \in Seq(AnswersOf(stage)) /\ Len(rx[q]) = 1 BY <1>5, <1>6
  <2>2. Head(rx[q]) = rx[q][1] /\ Tail(rx[q]) = <<>> BY <2>1, OneElement
  <2>q. QED BY <2>2
<1> HIDE DEF e, type
<1>8. e.by = w /\ e \in AnswersOf(stage) /\ \A p \in net : p.by # w BY <1>4, <1>5, <1>6, <1>7
<1>9. /\ type.got = (IF stage = "load" THEN 1320 ELSE 1321)
      /\ SameFields(ReadAnswer(type), e.means)
  <2>1. CASE stage = "load"
    <3>1. e \in InsertAnswers BY <1>8, <2>1 DEF AnswersOf
    <3>2. e.msg = inject_msg_type(1320) /\ e.means = [type |-> 1320] BY <3>1 DEF InsertAnswers
    <3>3. type.got = 1320 BY <3>2, CodesSmall, TypeAlone DEF type
    <3>4. ReadAnswer(type) = [type |-> 1320] BY <2>1, <3>3, SMT DEF ReadAnswer
    <3>5. SameFields([type |-> 1320], [type |-> 1320]) BY SMT DEF SameFields
    <3>q. QED BY <2>1, <3>2, <3>3, <3>4, <3>5, SMT
  <2>2. CASE stage = "run"
    <3>1. e \in QueryAnswers BY <1>8, <2>2 DEF AnswersOf
    <3>2. PICK v \in Workers, r \in Queried, a \in Answered :
             e = [by |-> v, msg |-> AnswerMessage(r.key, a), means |-> Answer(r, a)]
      BY <3>1 DEF QueryAnswers
    <3>3. e.msg = AnswerMessage(r.key, a) /\ e.means = Answer(r, a) BY <3>2
    <3>4. /\ a.flag \in Octet /\ IsValues(a.values) /\ a.idx \in [1..8 -> Octet]
          /\ a.idx[7] = 0 /\ a.idx[8] = 0
          /\ r.fbt_key \in [1..8 -> Octet] /\ remove_key_index_prefix(r.key) = r.fbt_key
      BY MessageAssumption
    <3> DEFINE hdr == extract_fbt_hdr(type.rest)
    <3>5. /\ type.got = 1321 /\ hdr.got.fbt_key = r.fbt_key /\ hdr.got.idx = a.idx /\ hdr.got.flag = a.flag
          /\ extract_values(hdr.rest).got = a.values
      BY <3>3, <3>4, AnswerRead DEF type
    <3>6. ReadAnswer(type) = [fbt_key |-> hdr.got.fbt_key, idx |-> hdr.got.idx, flag |-> hdr.got.flag,
                             values |-> extract_values(hdr.rest).got]
      BY <2>2 DEF ReadAnswer
    <3> HIDE DEF hdr
    <3>7. ReadAnswer(type) = Answer(r, a) BY <3>5, <3>6, SMT DEF Answer
    <3>8. SameFields(Answer(r, a), Answer(r, a)) BY DEF SameFields
    <3>q. QED BY <2>2, <3>3, <3>5, <3>7, <3>8, SMT
  <2>q. QED BY <1>1, <2>1, <2>2
<1>10. /\ received' = [to |-> w, by |-> w, means |-> e.means, got |-> ReadAnswer(type)]
       /\ worker' = [worker EXCEPT ![w].at = "idle"] /\ UNCHANGED stage
  BY <1>2, <1>8, <1>9
<1>11. ReceivedOK' BY <1>9, <1>10 DEF ReceivedOK
<1>12. /\ DOMAIN worker' = Workers /\ worker'[w].at = "idle" /\ worker'[w].id = id
       /\ worker'[w] \in [at : {"created", "idle", "waiting"}, id : Nat, ops : Nat]
       /\ \A v \in Workers \ {w} : worker'[v] = worker[v]
  <2>1. worker[w] \in [at : {"created", "idle", "waiting"}, id : Nat, ops : Nat]
    BY <1>0, <1>1 DEF WorkersOK
  <2>2. worker' = [worker EXCEPT ![w] = [worker[w] EXCEPT !.at = "idle"]] BY <1>10
  <2>3. /\ DOMAIN worker' = Workers /\ worker'[w] = [worker[w] EXCEPT !.at = "idle"]
        /\ \A v \in Workers \ {w} : worker'[v] = worker[v]
    BY <1>0, <2>2, OneThread
  <2>q. QED BY <2>1, <2>3 DEF id
<1>13. \A v \in Workers : (Live(v)' <=> Live(v)) /\ (Known(v)' <=> Known(v)) /\ worker'[v].id = worker[v].id
  BY <1>1, <1>12 DEF Live, Known, id
<1>14. StageOK' BY <1>0, <1>1, <1>10 DEF StageOK
<1>15. WorkersOK'
  <2>1. \A v \in Workers : worker'[v] \in [at : {"none"}] \cup [at : {"created", "idle", "waiting"}, id : Nat, ops : Nat]
    BY <1>0, <1>12 DEF WorkersOK
  <2>q. QED BY <1>0, <1>1, <1>10, <1>12, <1>13, <2>1 DEF WorkersOK
<1>16. DriverOK'
  <2>1. {v \in Workers : Known(v)'} = {v \in Workers : Known(v)} BY <1>13
  <2>2. stage' = stage /\ driver' = driver /\ compiled' = compiled BY <1>1, <1>10
  <2>3. stage' = "load" => DOMAIN driver'.queue = {v \in Workers : Known(v)'}
    BY <1>0, <2>1, <2>2, Zenon DEF DriverOK
  <2>4. stage' = "run" => \A v \in Workers : Known(v)' => worker'[v].id \in DOMAIN driver'.queue
    BY <1>0, <1>13, <2>2 DEF DriverOK
  <2>q. QED BY <1>0, <2>2, <2>3, <2>4 DEF DriverOK, Phase, Steered
<1>17. /\ rx' \in [driver.rings -> Seq(AnswersOf(stage))] /\ rx'[q] = <<>>
       /\ \A k \in driver.rings \ {q} : rx'[k] = rx[k]
  <2>1. rx \in [driver.rings -> Seq(AnswersOf(stage))] BY <1>3 DEF MessagesOK
  <2> DEFINE A == AnswersOf(stage)
  <2>2. rx \in [driver.rings -> Seq(A)] /\ <<>> \in Seq(A) /\ rx' = [rx EXCEPT ![q] = <<>>]
    <3>1. <<>> \in Seq(A) OBVIOUS
    <3>2. rx' = [rx EXCEPT ![q] = <<>>] BY <1>1, <1>7, Zenon
    <3>q. QED BY <2>1, <3>1, <3>2
  <2> HIDE DEF A
  <2>3. rx' \in [driver.rings -> Seq(A)] /\ rx'[q] = <<>> /\ \A k \in driver.rings \ {q} : rx'[k] = rx[k]
    BY <2>2, <1>4
  <2>q. QED BY <2>3 DEF A
<1>18. MessagesOK' BY <1>1, <1>3, <1>10, <1>17 DEF MessagesOK, IsInsert, IsQuery, IsSwitch
<1>19. RequestsOwn'
  <2>1. \A p \in net : p.by \in Workers BY <1>1, <1>3 DEF MessagesOK, IsInsert, IsQuery
  <2>2. \A p \in net : worker'[p.by] = worker[p.by] BY <1>8, <1>12, <2>1
  <2>3. \A v \in Workers : worker'[v].at = "waiting" => worker'[v].id \in Workers
    BY <1>3, <1>12 DEF RequestsOwn
  <2>q. QED BY <1>1, <1>3, <2>2, <2>3 DEF RequestsOwn
<1>20. AnswersOwnQueue'
  <2>1. ASSUME NEW k \in driver.rings, rx'[k] # <<>>
        PROVE  /\ Len(rx'[k]) = 1 /\ worker'[rx'[k][1].by].at = "waiting"
               /\ driver.queue[worker'[rx'[k][1].by].id] = k
               /\ \A p \in net : p.by # rx'[k][1].by
    <3>1. k # q /\ rx'[k] = rx[k] BY <2>1, <1>17
    <3>2. /\ Len(rx[k]) = 1 /\ worker[rx[k][1].by].at = "waiting"
          /\ driver.queue[worker[rx[k][1].by].id] = k
          /\ \A p \in net : p.by # rx[k][1].by
      BY <1>3, <2>1, <3>1 DEF AnswersOwnQueue
    <3>3. rx[k][1].by \in Workers BY <1>0, <1>3, <2>1, <3>1, AnswerBy
    <3>4. rx[k][1].by # w BY <3>1, <3>2 DEF q, id
    <3>5. worker'[rx[k][1].by] = worker[rx[k][1].by] BY <3>3, <3>4, <1>12
    <3>q. QED BY <3>1, <3>2, <3>5
  <2>q. QED BY <1>1, <2>1 DEF AnswersOwnQueue
<1>q. QED BY <1>11, <1>14, <1>15, <1>16, <1>18, <1>19, <1>20 DEF FrontInv, TrafficOK

LEMMA JoinStep == FrontInv /\ JoinAll => FrontInv'
<1> SUFFICES ASSUME FrontInv, JoinAll PROVE FrontInv' OBVIOUS
<1>0. StageOK /\ WorkersOK /\ DriverOK /\ TrafficOK /\ ReceivedOK BY DEF FrontInv
<1>1. /\ stage \in {"load", "run"} /\ \A w \in Workers : worker[w].at = "idle"
      /\ stage' = (IF stage = "load" THEN "run" ELSE "switch")
      /\ worker' = [w \in Workers |-> [at |-> "none"]]
      /\ UNCHANGED <<compiled, driver, net, rx, received, newcomer>>
  BY DEF JoinAll
<1>2. Phase /\ MessagesOK /\ RequestsOwn /\ AnswersOwnQueue BY <1>0, <1>1 DEF Phase, TrafficOK
<1>3. net = {}
  <2>1. \A p \in net : p.by \in Workers /\ worker[p.by].at = "waiting"
    BY <1>1, <1>2 DEF MessagesOK, RequestsOwn, IsInsert, IsQuery
  <2>q. QED BY <1>1, <2>1
<1>4. \A q \in driver.rings : rx[q] = <<>>
  <2>1. ASSUME NEW q \in driver.rings, rx[q] # <<>> PROVE FALSE
    <3>1. rx[q][1].by \in Workers BY <1>0, <1>2, <2>1, AnswerBy
    <3>2. worker[rx[q][1].by].at = "waiting" BY <1>2, <2>1 DEF AnswersOwnQueue
    <3>q. QED BY <1>1, <3>1, <3>2
  <2>q. QED BY <2>1
<1>5. (stage = "load" /\ stage' = "run") \/ stage' = "switch" BY <1>1
<1>6. \A w \in Workers : worker'[w] = [at |-> "none"] /\ worker'[w].at = "none" BY <1>1
<1>7. StageOK' BY <1>0, <1>1, <1>5 DEF StageOK
<1>8. WorkersOK' BY <1>1, <1>5, <1>6 DEF WorkersOK, Live
<1>9. DriverOK'
  <2>1. driver' = driver /\ compiled' = compiled BY <1>1
  <2>2. ASSUME stage' = "run"
        PROVE  /\ Workers \subseteq DOMAIN driver.queue /\ driver.init_count >= nb_threads
    <3>1. stage = "load" BY <1>5, <2>2
    <3>2. DOMAIN driver.queue = {w \in Workers : Known(w)} /\ driver.init_count = Cardinality(DOMAIN driver.queue)
      BY <1>0, <3>1 DEF DriverOK
    <3>3. {w \in Workers : Known(w)} = Workers BY <1>1 DEF Known
    <3>4. DOMAIN driver.queue = Workers BY <3>2, <3>3
    <3>5. driver.init_count = nb_threads BY <3>2, <3>4, CountsOf
    <3>q. QED BY <3>4, <3>5, CountsOf
  <2>3. \A w \in Workers : ~Known(w)' BY <1>6 DEF Known
  <2>4. Phase' => \A id \in DOMAIN driver.queue :
                     IF id \in Workers THEN Steered(id) ELSE driver.queue[id] \notin driver.rings
    BY <1>0, <1>2 DEF DriverOK
  <2>5. stage' \notin {"start", "load"} /\ driver.rings = 0..(nb_threads - 1) BY <1>0, <1>1, <1>5 DEF DriverOK
  <2>q. QED BY <1>0, <2>1, <2>2, <2>3, <2>4, <2>5 DEF DriverOK, Steered
<1>10. TrafficOK'
  <2>1. rx' \in [driver'.rings -> Seq(AnswersOf(stage'))]
    <3>1. rx \in [driver.rings -> Seq(AnswersOf(stage))] BY <1>2 DEF MessagesOK
    <3>2. <<>> \in Seq(AnswersOf(stage')) OBVIOUS
    <3> DEFINE A == Seq(AnswersOf(stage'))
               B == Seq(AnswersOf(stage))
    <3> HIDE DEF A, B
    <3>3. <<>> \in A /\ rx \in [driver.rings -> B] BY <3>1, <3>2 DEF A, B
    <3>4. rx' \in [driver'.rings -> A] BY <3>3, <1>1, <1>4
    <3>q. QED BY <3>4 DEF A
  <2>2. MessagesOK' BY <1>1, <1>3, <1>4, <2>1 DEF MessagesOK
  <2>3. RequestsOwn' BY <1>1, <1>3, <1>6 DEF RequestsOwn
  <2>4. AnswersOwnQueue' BY <1>1, <1>4 DEF AnswersOwnQueue
  <2>q. QED BY <2>2, <2>3, <2>4 DEF TrafficOK
<1>11. ReceivedOK' BY <1>0, <1>1 DEF ReceivedOK
<1>q. QED BY <1>7, <1>8, <1>9, <1>10, <1>11 DEF FrontInv

LEMMA SwitchSendStep == FrontInv /\ Load2SwitchSend => FrontInv'
<1> SUFFICES ASSUME FrontInv, Load2SwitchSend PROVE FrontInv' OBVIOUS
<1>0. StageOK /\ WorkersOK /\ DriverOK /\ TrafficOK /\ ReceivedOK BY DEF FrontInv
<1> DEFINE p == [port |-> 0, by |-> Main, means |-> [type |-> 1536], msg |-> inject_msg_type(1536)]
<1>1. /\ stage = "switch" /\ stage' = "switching" /\ net' = net \cup {p}
      /\ UNCHANGED <<compiled, worker, driver, rx, received, newcomer>>
  BY DEF Load2SwitchSend
<1>2. IsSwitch(p) BY SMT DEF IsSwitch
<1> HIDE DEF p
<1>3. StageOK' BY <1>0, <1>1 DEF StageOK
<1>4. WorkersOK' BY <1>0, <1>1 DEF WorkersOK, Live
<1>5. DriverOK' BY <1>0, <1>1 DEF DriverOK, Phase
<1>6. MessagesOK'
  <2>1. MessagesOK BY <1>0 DEF TrafficOK
  <2>2. net' = {p} /\ \A q \in driver.rings : rx[q] = <<>> BY <1>1, <2>1 DEF MessagesOK
  <2>3. rx' \in [driver'.rings -> Seq(AnswersOf(stage'))]
    <3>1. rx \in [driver.rings -> Seq(AnswersOf(stage))] BY <2>1 DEF MessagesOK
    <3>2. <<>> \in Seq(AnswersOf(stage')) OBVIOUS
    <3> DEFINE A == Seq(AnswersOf(stage'))
               B == Seq(AnswersOf(stage))
    <3> HIDE DEF A, B
    <3>3. <<>> \in A /\ rx \in [driver.rings -> B] BY <3>1, <3>2 DEF A, B
    <3>4. rx' \in [driver'.rings -> A] BY <3>3, <1>1, <2>2
    <3>q. QED BY <3>4 DEF A
  <2>4. \A o \in net' : IsSwitch(o) BY <1>2, <2>2
  <2>5. \A o \in net' : IsSwitch(o)' BY <2>4 DEF IsSwitch
  <2>q. QED BY <1>1, <2>3, <2>5 DEF MessagesOK
<1>7. ~Phase' BY <1>1 DEF Phase
<1>8. ReceivedOK' BY <1>0, <1>1 DEF ReceivedOK
<1>q. QED BY <1>3, <1>4, <1>5, <1>6, <1>7, <1>8 DEF FrontInv, TrafficOK

LEMMA SwitchRecvStep == FrontInv /\ Load2SwitchRecv => FrontInv'
<1> SUFFICES ASSUME FrontInv, Load2SwitchRecv PROVE FrontInv' OBVIOUS
<1>0. StageOK /\ WorkersOK /\ DriverOK /\ TrafficOK /\ ReceivedOK BY DEF FrontInv
<1> DEFINE e == Head(rx[0])
           type == extract_msg_type(e.msg)
<1>1. /\ stage = "switching" /\ rx[0] # <<>> /\ rx' = [rx EXCEPT ![0] = Tail(@)]
      /\ stage' = (IF type.got = 1537 THEN "done" ELSE "aborted")
      /\ received' = [to |-> Main, by |-> e.by, means |-> e.means, got |-> [type |-> type.got]]
      /\ UNCHANGED <<compiled, worker, driver, net, newcomer>>
  BY DEF Load2SwitchRecv
<1>2. MessagesOK /\ driver.rings = 0..(nb_threads - 1) /\ 0 \in driver.rings
  BY <1>0, <1>1, CountsOf DEF TrafficOK, DriverOK
<1>3. AnswersOf(stage) = SwitchAnswers BY <1>1 DEF AnswersOf
<1>4. rx \in [driver.rings -> Seq(SwitchAnswers)] BY <1>2, <1>3 DEF MessagesOK
<1> DEFINE A == SwitchAnswers
<1> HIDE DEF A, e, type
<1>5. e \in A /\ Tail(rx[0]) \in Seq(A)
  <2>1. rx[0] \in Seq(A) /\ rx[0] # <<>> BY <1>1, <1>2, <1>4 DEF A
  <2>q. QED BY <2>1 DEF e
<1>6. e.by = Main /\ e.msg = inject_msg_type(1537) /\ e.means = [type |-> 1537]
  BY <1>5 DEF A, SwitchAnswers
<1>7. type.got = 1537 BY <1>6, CodesSmall, TypeAlone DEF type
<1>8. stage' = "done" BY <1>1, <1>7
<1>9. ReceivedOK' BY <1>1, <1>6, <1>7, SMT DEF ReceivedOK, SameFields
<1>10. StageOK' BY <1>0, <1>1, <1>8 DEF StageOK
<1>11. WorkersOK' BY <1>0, <1>1, <1>8 DEF WorkersOK, Live
<1>12. DriverOK' BY <1>0, <1>1, <1>8 DEF DriverOK, Phase
<1>13. MessagesOK'
  <2>1. rx' \in [driver.rings -> Seq(A)] BY <1>1, <1>2, <1>4, <1>5 DEF A
  <2>2. A \subseteq AnswersOf(stage') BY <1>8 DEF AnswersOf, A
  <2> DEFINE B == AnswersOf(stage')
  <2> HIDE DEF B
  <2>3. \A q \in driver.rings : rx'[q] \in Seq(B)
    <3>1. TAKE q \in driver.rings
    <3>2. rx'[q] \in Seq(A) /\ A \subseteq B BY <2>1, <2>2 DEF B
    <3>q. QED BY <3>2, WiderSeq
  <2>4. rx' \in [driver'.rings -> Seq(B)] BY <1>1, <2>1, <2>3
  <2>q. QED BY <1>1, <1>2, <1>8, <2>4 DEF MessagesOK, IsInsert, IsQuery, IsSwitch, B
<1>14. ~Phase' BY <1>8 DEF Phase
<1>q. QED BY <1>9, <1>10, <1>11, <1>12, <1>13, <1>14 DEF FrontInv, TrafficOK

LEMMA FrontStutter == FrontInv /\ UNCHANGED frontVars => FrontInv'
BY DEF FrontInv, frontVars, StageOK, WorkersOK, Live, DriverOK, Registered, Known, Phase, Steered, TrafficOK,
       MessagesOK, IsInsert, IsQuery, IsSwitch, RequestsOwn, AnswersOwnQueue, ReceivedOK

LEMMA FrontSteps == FrontInv /\ [FrontEndNext]_frontVars => FrontInv'
<1> SUFFICES ASSUME FrontInv, FrontEndNext PROVE FrontInv' BY FrontStutter
<1>1. CASE driver_init BY <1>1, PortUp
<1>2. ASSUME NEW w \in Workers, CreateThread(w) PROVE FrontInv' BY <1>2, CreateThreadStep
<1>3. ASSUME NEW w \in Workers, DbInit(w) PROVE FrontInv' BY <1>3, DbInitStep
<1>4. ASSUME NEW w \in Workers, RecvAnswer(w) PROVE FrontInv' BY <1>4, RecvStep
<1>5. ASSUME NEW w \in Workers, NEW r \in IF stage = "load" THEN Inserted ELSE Queried, SendRequest(w, r)
      PROVE FrontInv'
  BY <1>5, SendStep
<1>6. ASSUME NEW p \in net, BackEnd(p) PROVE FrontInv' BY <1>6, BackEndStep
<1>7. ASSUME NEW p \in net, DropPacket(p) PROVE FrontInv' BY <1>7, DropStep
<1>8. CASE JoinAll BY <1>8, JoinStep
<1>9. CASE Load2SwitchSend BY <1>9, SwitchSendStep
<1>10. CASE Load2SwitchRecv BY <1>10, SwitchRecvStep
<1>q. QED BY <1>1, <1>2, <1>3, <1>4, <1>5, <1>6, <1>7, <1>8, <1>9, <1>10 DEF FrontEndNext

(* The invariant holds in every state of the front end.                    *)
THEOREM FrontEndKept == FrontEndSpec => []FrontInv
<1>q. QED BY FrontStart, FrontSteps, PTL DEF FrontEndSpec

(* For any number of client threads and of operations, any compiler's order *)
(* and any reuse of thread ids: an answer is received by the thread that   *)
(* asked for it, so no assertion on a message's type fails, and a thread is *)
(* lost only in the second phase and only with an id that had no queue.    *)
THEOREM AnswersFound == FrontEndSpec => []AnswersReachAsker
<1>1. FrontInv => AnswersReachAsker
  BY DEF FrontInv, StageOK, ReceivedOK, AnswersReachAsker, AnswersOwn, CrashNeedsNewcomer
<1>q. QED BY <1>1, FrontEndKept, PTL

(* For keys and values of any content and number whose message fits the    *)
(* buffer of 1472 bytes, and whatever number the text of a key stands for: *)
(* each side extracts what the other injected, the key's number included.  *)
THEOREM MessagesUnderstood == FrontEndSpec => []ExtractedAsInjected
<1>1. FrontInv => ExtractedAsInjected BY DEF FrontInv, ReceivedOK, SameFields, ExtractedAsInjected
<1>q. QED BY <1>1, FrontEndKept, PTL

-----------------------------------------------------------------------------
(* The tree under inserts and queries. *)

(* A cached leaf is a leaf still and not searched from above its key on. *)
CachedLeaf(t, g, c) ==
    c[1] \in Int /\ c[2] \in DOMAIN t.node /\ t.node[c[2]].isLeaf /\ Over(g.lo[c[2]], c[1])

TreeInv ==
    /\ \E g : Shape(tree, g, Val, 0) /\ \A c \in cached : CachedLeaf(tree, g, c)
    /\ LookupFindsLatest

LEMMA TreeInitInv == TreeInit => TreeInv
<1> SUFFICES ASSUME TreeInit PROVE TreeInv OBVIOUS
<1>1. PICK keys \in Loads : tree = Loaded(keys) /\ store = [k \in Range(keys) |-> LoadVal] BY DEF TreeInit
<1>2. keys \in Seq(Int) /\ LoadVal \in Val BY <1>1, StoreAssumption
<1> DEFINE s == [i \in DOMAIN keys |-> <<keys[i], LoadVal>>]
           w == [k \in Int |-> LoadVal]
<1>3. /\ DOMAIN keys = 1..Len(keys) /\ Len(keys) \in Nat /\ Len(s) = Len(keys)
      /\ \A i \in 1..Len(keys) : keys[i] \in Int /\ s[i][1] = keys[i] /\ s[i][2] = LoadVal
  BY <1>2
<1>4. tree = InsertAll(s) BY <1>1 DEF Loaded
<1> HIDE DEF s
<1>5. Filled(InsertAll(s), Val, {s[i][1] : i \in 1..Len(s)}, w)
  <2>1. \A i \in 1..Len(s) : s[i][1] \in Int /\ s[i][2] \in Val /\ s[i][2] = w[s[i][1]] BY <1>2, <1>3
  <2> HIDE DEF w
  <2>q. QED BY <2>1, <1>3, InsertAllIs
<1>6. {s[i][1] : i \in 1..Len(s)} = Range(keys)
  <2>1. \A i \in 1..Len(s) : s[i][1] = keys[i] BY <1>3
  <2>q. QED BY <2>1, <1>3 DEF Range
<1>7. Filled(tree, Val, Range(keys), w) BY <1>4, <1>5, <1>6
<1>8. Range(keys) \subseteq Int BY <1>3 DEF Range
<1>9. LookupFindsLatest
  <2>1. StoredKeys(tree) = Range(keys) /\ \A k \in Range(keys) : lookup(tree, k, NULL) = w[k] BY <1>7 DEF Filled
  <2>q. QED BY <2>1, <1>1, <1>8 DEF LookupFindsLatest
<1>10. \E g : Shape(tree, g, Val, 0) BY <1>7 DEF Filled
<1>q. QED BY <1>9, <1>10 DEF TreeInv, TreeInit

LEMMA TreeNextInv == TreeInv /\ [TreeNext]_vars => TreeInv'
<1> SUFFICES ASSUME TreeInv, [TreeNext]_vars PROVE TreeInv' OBVIOUS
<1>0. Key \subseteq Int BY TreeAssumption
<1>1. PICK g : Shape(tree, g, Val, 0) /\ \A c \in cached : CachedLeaf(tree, g, c) BY DEF TreeInv
<1>2. StoredKeys(tree) = DOMAIN store /\ \A k \in DOMAIN store : lookup(tree, k, NULL) = store[k]
  BY DEF TreeInv, LookupFindsLatest
<1>3. ASSUME NEW k \in Key, NEW v \in Val, Insert(k, v) PROVE TreeInv'
  <2>1. tree' = insert(tree, k, v) /\ store' = [j \in DOMAIN store \cup {k} |-> IF j = k THEN v ELSE store[j]] /\ cached' = cached BY <1>3 DEF Insert
  <2>2. PICK u : u = tree' OBVIOUS
  <2>3. Grew(tree, g, Val, u, k, v) BY <2>1, <2>2, <1>0, <1>1, InsertIs
  <2>4. PICK h : /\ Shape(u, h, Val, 0) /\ Takes(tree, u, k, v) /\ DOMAIN tree.node \subseteq DOMAIN u.node
                 /\ \A b \in DOMAIN tree.node : tree.node[b].isLeaf => u.node[b].isLeaf /\ h.lo[b] = g.lo[b]
    BY <2>3 DEF Grew
  <2>5. \A c \in cached : CachedLeaf(u, h, c) BY <1>1, <2>4 DEF CachedLeaf
  <2>6. DOMAIN store' = DOMAIN store \cup {k} /\ \A j \in DOMAIN store' : store'[j] = IF j = k THEN v ELSE store[j]
    BY <2>1
  <2>7. /\ StoredKeys(u) = StoredKeys(tree) \cup {k} /\ lookup(u, k, NULL) = v
        /\ \A j \in StoredKeys(tree) : j # k => lookup(u, j, NULL) = lookup(tree, j, NULL)
    BY <2>4 DEF Takes
  <2>8. StoredKeys(u) = DOMAIN store' /\ \A j \in DOMAIN store' : lookup(u, j, NULL) = store'[j] BY <2>6, <2>7, <1>2
  <2>q. QED BY <2>1, <2>2, <2>4, <2>5, <2>8 DEF TreeInv, LookupFindsLatest
<1>4. ASSUME NEW k \in Key, Lookup(k) PROVE TreeInv'
  <2>1. /\ k \in Int /\ tree' = tree /\ store' = store
        /\ cached' = cached \cup {<<k, LeafFor(tree, k, NULL)>>}
    BY <1>0, <1>4 DEF Lookup
  <2>2. PICK a : a = LeafFor(tree, k, NULL) OBVIOUS
  <2>3. a \in DOMAIN tree.node /\ tree.node[a].isLeaf /\ Between(k, g.lo[a], g.hi[a]) BY <2>1, <2>2, <1>1, LeafForIs
  <2>4. CachedLeaf(tree, g, <<k, a>>) BY <2>1, <2>3 DEF CachedLeaf, Between
  <2>5. \A c \in cached' : CachedLeaf(tree, g, c) BY <2>1, <2>2, <2>4, <1>1
  <2>6. \E e : Shape(tree', e, Val, 0) /\ \A c \in cached' : CachedLeaf(tree', e, c) BY <2>1, <2>5, <1>1
  <2>q. QED BY <2>1, <2>6, <1>2 DEF TreeInv, LookupFindsLatest
<1>5. ASSUME UNCHANGED vars PROVE TreeInv' BY <1>1, <1>2, <1>5 DEF vars, TreeInv, LookupFindsLatest
<1>q. QED BY <1>3, <1>4, <1>5 DEF TreeNext

LEMMA TreeInvHolds == TreeSpec => []TreeInv
<1>1. TreeInit => TreeInv BY TreeInitInv
<1>2. TreeInv /\ [TreeNext]_vars => TreeInv' BY TreeNextInv
<1>q. QED BY <1>1, <1>2, PTL DEF TreeSpec

(* However inserts split its nodes, the back end's tree stays ordered,      *)
(* balanced and linked, and a search from the root finds the record         *)
(* inserted last under a key: for every order M and all loads.              *)
THEOREM TreeStaysRight == TreeSpec => []TreeRight
<1>1. TreeInv => TreeRight
  <2> SUFFICES ASSUME TreeInv PROVE TreeRight OBVIOUS
  <2>1. PICK g : Shape(tree, g, Val, 0) BY DEF TreeInv
  <2>2. TreeWellFormed BY <2>1, ShapeWellFormed DEF TreeWellFormed
  <2>q. QED BY <2>2 DEF TreeInv, TreeRight
<1>q. QED BY <1>1, TreeInvHolds, PTL

(* A lookup that starts at the leaf an earlier lookup of the key ended in   *)
(* finds the current record or runs off the leaf, whatever was inserted and *)
(* split since: the address the switch caches never leads to another key.   *)
THEOREM StaleLeafIsSafe == TreeSpec => []StaleLeafFindsOwnOrNothing
<1>1. TreeInv => StaleLeafFindsOwnOrNothing
  <2> SUFFICES ASSUME TreeInv, NEW c \in cached
               PROVE  lookup(tree, c[1], c[2]) \in {Empty, lookup(tree, c[1], NULL)}
    BY DEF StaleLeafFindsOwnOrNothing
  <2>1. PICK g : Shape(tree, g, Val, 0) /\ CachedLeaf(tree, g, c) BY DEF TreeInv
  <2>2. PICK k : k = c[1] OBVIOUS
  <2>3. PICK a : a = c[2] OBVIOUS
  <2>4. k \in Int /\ a \in DOMAIN tree.node /\ tree.node[a].isLeaf /\ Over(g.lo[a], k) BY <2>1, <2>2, <2>3 DEF CachedLeaf
  <2>5. lookup(tree, k, a) \in {Empty, lookup(tree, k, NULL)} BY <2>1, <2>4, StaleLookup
  <2>q. QED BY <2>2, <2>3, <2>5
<1>q. QED BY <1>1, TreeInvHolds, PTL
=============================================================================
