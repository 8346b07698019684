----------------------------- MODULE HashTable -----------------------------
(***************************************************************************)
(* The open-addressing hash table of minzip/Hash.c, in which Zip.c keeps   *)
(* the entries of a package: linear probing, tombstones for removed        *)
(* entries (Zip.c removes none), and a table twice the size when five      *)
(* eighths are in use.                                                     *)
(*                                                                         *)
(* A table is a record T = [size, slot, n, dead].  A probe that finds      *)
(* neither its item nor an empty slot goes round for ever.                 *)
(***************************************************************************)
EXTENDS Naturals, Sequences, FiniteSets, FiniteSetsExt

CONSTANTS HashItems,    \* the items put into the table
          HashOf,       \* their hash values
          MaxTable      \* bound on the size of the table

\* A hash value is an unsigned int; the first table has at most four slots.
ASSUME HashAssumption == /\ HashOf \in [HashItems -> Nat]
                         /\ MaxTable \in Nat /\ MaxTable >= 4

VARIABLES tab,          \* the table
          held          \* ghost: the items it should hold

tabVars == <<tab, held>>

Empty == <<>>
Tombstone == <<"TOMBSTONE">>
Live(slot) == Len(slot) = 2     \* a hash value and an item
LoadNumer == 5
LoadDenom == 8

\* mzHashSize and roundUpPower2.
HashSize(n) == (n * LoadDenom) \div LoadNumer + 1
RoundUpPower2(v) == CHOOSE p \in {2 ^ k : k \in 0 .. 6} :
                       p >= v /\ (p = 1 \/ p \div 2 < v)

NewSlots(size) == [i \in 0 .. size - 1 |-> Empty]
HashTableCreate(size) ==
    [size |-> RoundUpPower2(size), slot |-> NewSlots(RoundUpPower2(size)),
     n |-> 0, dead |-> 0]

(***************************************************************************)
(* Where a probe with hash value h stops: at the first slot, going round   *)
(* from h, that is empty or holds an item with this hash value that the    *)
(* comparison function takes for the one wanted (a member of same).        *)
(***************************************************************************)
ProbeStops(slot, size, h, same) ==
    {k \in 0 .. size - 1 :
        LET s == slot[(h + k) % size]
        IN  s = Empty \/ (Live(s) /\ s[1] = h /\ s[2] \in same)}

Probe(slot, size, h, same) == (h + Min(ProbeStops(slot, size, h, same))) % size

ResizeCopies(T, newSize) ==     \* mutant: the entries keep their index
    [size |-> newSize, n |-> T.n, dead |-> 0,
     slot |-> [i \in 0 .. newSize - 1 |-> IF i < T.size /\ Live(T.slot[i])
                                         THEN T.slot[i] ELSE Empty]]

(***************************************************************************)
(* resizeHash: every live item, in the order of the slots, goes to the     *)
(* first empty slot of the new table.                                      *)
(***************************************************************************)
ResizeHash(T, newSize) ==
    LET moved[i \in 0 .. T.size] ==
            IF i = 0 THEN NewSlots(newSize)
            ELSE IF ~Live(T.slot[i - 1]) THEN moved[i - 1]
            ELSE [moved[i - 1] EXCEPT
                    ![Probe(moved[i - 1], newSize, T.slot[i - 1][1], {})] = T.slot[i - 1]]
    IN  [size |-> newSize, slot |-> moved[T.size], n |-> T.n, dead |-> 0]

\* The slot a new item takes: the empty one its probe ends at.
Put(T, h, x) == [T EXCEPT !.slot[Probe(T.slot, T.size, h, {x})] = <<h, x>>,
                          !.n = @ + 1]

(***************************************************************************)
(* mzHashTableLookup with doAdd, for an item that is not there.  The table *)
(* is doubled when live and dead entries together exceed the load factor.  *)
(***************************************************************************)
HashTableAdd(T, h, x) ==
    LET T2 == Put(T, h, x)
    IN  IF (T2.n + T2.dead) * LoadDenom > T2.size * LoadNumer
        THEN ResizeHash(T2, T2.size * 2) ELSE T2

\* mzHashTableLookup without doAdd: the slot found, Empty if there is none.
HashTableLookup(T, h, same) == T.slot[Probe(T.slot, T.size, h, same)]

\* mzHashTableRemove of an item that is there.
HashTableRemove(T, h, x) ==
    [T EXCEPT !.slot[Probe(T.slot, T.size, h, {x})] = Tombstone,
              !.n = @ - 1, !.dead = @ + 1]
-----------------------------------------------------------------------------

TabInit ==
    /\ \E s \in 1 .. 3 : tab = HashTableCreate(s)
    /\ held = {}

Lookup(x) == HashTableLookup(tab, HashOf[x], {x})

AddItem(x) ==
    /\ Lookup(x) = Empty
    /\ 2 * tab.size <= MaxTable \/ (tab.n + tab.dead + 1) * LoadDenom
                                      <= tab.size * LoadNumer
    /\ tab' = HashTableAdd(tab, HashOf[x], x)
    /\ held' = held \cup {x}

RemoveItem(x) ==
    /\ Lookup(x) # Empty
    /\ tab' = HashTableRemove(tab, HashOf[x], x)
    /\ held' = held \ {x}

\* mzHashTableClear.
ClearTable ==
    /\ tab' = [tab EXCEPT !.slot = NewSlots(tab.size), !.n = 0, !.dead = 0]
    /\ held' = {}

TabNext == (\E x \in HashItems : AddItem(x) \/ RemoveItem(x)) \/ ClearTable
-----------------------------------------------------------------------------
(***************************************************************************)
(* A search for anything, whatever its hash value, halts: there is always  *)
(* an empty slot ("full table is bad -- search for nonexistent never       *)
(* halts"), tombstones included.                                           *)
(***************************************************************************)
SearchHalts == \E i \in 0 .. tab.size - 1 : tab.slot[i] = Empty

(***************************************************************************)
(* The table holds exactly the items added and not removed since: lookup   *)
(* finds each of them and no other, through collisions, tombstones and     *)
(* resizes, and each only once.                                            *)
(***************************************************************************)
HoldsItems ==
    /\ \A x \in HashItems : (Lookup(x) # Empty) = (x \in held)
    /\ \A x \in held : Cardinality({i \in 0 .. tab.size - 1 :
                                      tab.slot[i] = <<HashOf[x], x>>}) = 1

(***************************************************************************)
(* The counts agree with the slots ("assert(countTombStones(pHashTable)    *)
(* == pHashTable->numDeadEntries)") and the load factor is kept.           *)
(***************************************************************************)
TabTypeOK ==
    /\ DOMAIN tab.slot = 0 .. tab.size - 1 /\ tab.size <= MaxTable
    /\ tab.n = Cardinality(held)
    /\ tab.dead = Cardinality({i \in 0 .. tab.size - 1 :
                                 tab.slot[i] = Tombstone})
    /\ (tab.n + tab.dead) * LoadDenom <= tab.size * LoadNumer

(***************************************************************************)
(* The table's invariant: its counts agree with its slots, every search    *)
(* meets an empty slot, and the items are exactly those added and not      *)
(* removed, through tombstones and resizes (Hash.c).                       *)
(***************************************************************************)
TabInv == TabTypeOK /\ SearchHalts /\ HoldsItems
=============================================================================
