------------------------------ MODULE RedisDict ------------------------------
(***************************************************************************)
(* hiredis/dict.c: the hash table of the subscription callbacks.  A table  *)
(* is a record of its buckets (sequences of entries, the newest first) and *)
(* the used counter; size is the number of buckets, 0 before the first     *)
(* insertion.  A walk is a dictIterator in use.                            *)
(***************************************************************************)
EXTENDS Integers, Sequences, SequencesExt, FiniteSets

CONSTANTS DictKeys, DictValues,
          dictHashKey,            \* the hash of each key (Bernstein's, of the channel name)
          DICT_HT_INITIAL_SIZE    \* 4 in the code

ASSUME DictAssumption == /\ DICT_HT_INITIAL_SIZE \in Nat \ {0}
                         /\ dictHashKey \in [DictKeys -> Nat]

VARIABLES ht,       \* the table
          mapping,  \* what it should hold: a set of key, value pairs
          walk      \* the iterator, and what it has yet to visit

dictVars == <<ht, mapping, walk>>

Size(d) == Len(d.table)
_dictReset == [table |-> <<>>, used |-> 0]
_dictInit == _dictReset
dictCreate == _dictInit

RECURSIVE PowerFrom(_, _)
PowerFrom(i, size) == IF i >= size THEN i ELSE PowerFrom(2 * i, size)
_dictNextPower(size) == PowerFrom(DICT_HT_INITIAL_SIZE, size)

\* sizemask is size - 1, and size a power of two.
Slot(d, key) == (dictHashKey[key] % Size(d)) + 1
Push(d, entry) == [d EXCEPT !.table[Slot(d, entry.key)] = <<entry>> \o @]
dictExpand_inplace(d, size) ==
    [d EXCEPT !.table = @ \o [i \in 1 .. _dictNextPower(size) - Size(d) |-> <<>>]]
dictExpand(d, size) ==
    LET empty == [table |-> [i \in 1 .. _dictNextPower(size) |-> <<>>], used |-> d.used]
    IN  IF d.used > size THEN d ELSE FoldLeft(Push, empty, FlattenSeq(d.table))
_dictExpandIfNeeded(d) ==
    CASE Size(d) = 0 -> dictExpand(d, DICT_HT_INITIAL_SIZE)
      [] Size(d) # 0 /\ d.used = Size(d) -> dictExpand(d, 2 * Size(d))
      [] OTHER -> d

Positions(d, key) == {i \in DOMAIN d.table[Slot(d, key)] : d.table[Slot(d, key)][i].key = key}
dictFind(d, key) == IF Size(d) = 0 THEN {} ELSE {d.table[Slot(d, key)][i] : i \in Positions(d, key)}
\* The table grows even if the key turns out to be there.
_dictKeyIndex(d, key) == LET e == _dictExpandIfNeeded(d) IN [d |-> e, free |-> dictFind(e, key) = {}]

Returns(d, ok) == [d |-> d, ok |-> ok]
dictAdd(d, key, val) ==
    LET index == _dictKeyIndex(d, key)
    IN  IF index.free THEN Returns([Push(index.d, [key |-> key, val |-> val]) EXCEPT !.used = @ + 1], TRUE)
        ELSE Returns(index.d, FALSE)
dictReplace(d, key, val) ==
    LET added == dictAdd(d, key, val)
        i == CHOOSE i \in Positions(added.d, key) : TRUE
    IN  IF added.ok THEN added ELSE Returns([added.d EXCEPT !.table[Slot(added.d, key)][i].val = val], FALSE)
dictDelete(d, key) ==
    IF Size(d) = 0 \/ Positions(d, key) = {} THEN Returns(d, FALSE)
    ELSE LET i == CHOOSE i \in Positions(d, key) : TRUE
         IN  Returns([d EXCEPT !.table[Slot(d, key)] = RemoveAt(@, i), !.used = @ - 1], TRUE)
\* Stops as soon as used reaches 0, so that every entry must have been counted.
_dictClear(d) == _dictReset
dictRelease(d) == _dictClear(d)

\* An iterator holds the bucket, the entry it returned and the next one: an
\* entry is named by its key, NoEntry stands for NULL.
NoEntry == "none"
dictGetIterator == [index |-> 0, entry |-> NoEntry, nextEntry |-> NoEntry]
KeyAt(bucket, i) == IF i <= Len(bucket) THEN bucket[i].key ELSE NoEntry
IndexOf(bucket, key) == CHOOSE i \in DOMAIN bucket : bucket[i].key = key
\* The entry an iterator goes to: in its bucket, or the first of a later one.
RECURSIVE dictNext(_, _)
dictNext(d, it) ==
    LET key == IF it.entry = NoEntry THEN KeyAt(d.table[it.index + 1], 1) ELSE it.nextEntry
        at == IF it.entry = NoEntry THEN it.index + 1 ELSE it.index
    IN  IF it.entry = NoEntry /\ it.index >= Size(d) THEN [it EXCEPT !.index = Size(d) + 1]
        ELSE IF key = NoEntry THEN dictNext(d, [it EXCEPT !.index = at, !.entry = NoEntry])
        ELSE [index |-> at, entry |-> key, nextEntry |-> KeyAt(d.table[at], IndexOf(d.table[at], key) + 1)]
dictReleaseIterator == [on |-> FALSE, it |-> dictGetIterator, left |-> {}, seen |-> {}]

(***************************************************************************)
(* Operations in any order                                                 *)
(***************************************************************************)
DictInit == ht = dictCreate /\ mapping = {} /\ walk = dictReleaseIterator

Without(key) == {p \in mapping : p[1] # key}
Add == \E key \in DictKeys, val \in DictValues :
         LET r == dictAdd(ht, key, val)
         IN  /\ ~walk.on
             /\ ht' = r.d /\ walk' = walk
             /\ mapping' = IF r.ok THEN mapping \cup {<<key, val>>} ELSE mapping
Replace == \E key \in DictKeys, val \in DictValues :
             /\ ~walk.on
             /\ ht' = dictReplace(ht, key, val).d /\ walk' = walk
             /\ mapping' = Without(key) \cup {<<key, val>>}
Delete == \E key \in DictKeys :
            /\ ~walk.on
            /\ ht' = dictDelete(ht, key).d /\ walk' = walk
            /\ mapping' = Without(key)
ClearDict == ~walk.on /\ ht' = dictRelease(ht) /\ mapping' = {} /\ walk' = walk

\* A walk over the table, in which the entry at hand may be deleted ("the
\* iterator user may delete the entry we are returning", dict.c:279).
StartWalk == /\ ~walk.on
             /\ walk' = [on |-> TRUE, it |-> dictGetIterator, left |-> {p[1] : p \in mapping}, seen |-> {}]
             /\ UNCHANGED <<ht, mapping>>
WalkStep ==
    /\ walk.on
    /\ LET it == dictNext(ht, walk.it)
       IN  walk' = IF it.index > Size(ht)
                   THEN (IF walk.left = {} THEN dictReleaseIterator ELSE [walk EXCEPT !.it = it])
                   ELSE [walk EXCEPT !.it = it, !.left = @ \ {it.entry},
                                     !.seen = IF it.entry \in @ THEN @ \cup {"twice"} ELSE @ \cup {it.entry}]
    /\ UNCHANGED <<ht, mapping>>
DeleteAtHand == /\ walk.on /\ walk.it.entry # NoEntry
                /\ dictFind(ht, walk.it.entry) # {}
                /\ ht' = dictDelete(ht, walk.it.entry).d
                /\ mapping' = Without(walk.it.entry)
                /\ walk' = walk

DictNext == Add \/ Replace \/ Delete \/ ClearDict \/ StartWalk \/ WalkStep \/ DeleteAtHand

DictSpec == DictInit /\ [][DictNext]_dictVars

\* The table is the map its operations describe, at every size: a key is
\* found exactly if it is mapped, with its value and once, and used counts
\* the entries (dictExpand and _dictClear stop early by it).
DictIsMap ==
    /\ \A key \in DictKeys :
         {<<e.key, e.val>> : e \in dictFind(ht, key)} = {p \in mapping : p[1] = key}
    /\ ht.used = Cardinality(mapping)
    /\ Len(FlattenSeq(ht.table)) = ht.used

\* A walk visits every entry once, also when entries it has returned were
\* deleted meanwhile: __redisAsyncFree calls each subscriber exactly once.
WalkVisitsAll ==
    walk.on => /\ "twice" \notin walk.seen
               /\ walk.it.index > Size(ht) => walk.left = {}

\* dict.c as its users see it: a map, and a walk that misses and repeats nothing.
DictRight == DictIsMap /\ WalkVisitsAll
=============================================================================
