----------------------------- MODULE HashTable -----------------------------
(***************************************************************************)
(* hash.c: double hashing with open addressing, the table behind make's    *)
(* files, variables, directories and cached strings.  A deleted item       *)
(* leaves a mark; the table is rebuilt when its empty slots run short,     *)
(* slot by slot, as hash_rehash does it.  Hash values are unbounded here:  *)
(* the size is a power of two, so their wrapping does not show.            *)
(***************************************************************************)
EXTENDS Integers, FiniteSets

CONSTANTS
    Items, Names,
    Name,           \* of an item
    Folded,         \* a name as the comparison function sees it
    NoItem, Deleted,
    Hashes,         \* bound: values of the two hash functions
    Size,           \* of a new table
    Sizes,          \* bound: the sizes a table may have, powers of two
    LoadDivisor     \* 16: the share of slots to be kept empty

ASSUME NamesAssumption ==
    /\ Name \in [Items -> Names]
    /\ {NoItem, Deleted} \cap Items = {} /\ NoItem # Deleted
ASSUME SizeAssumption ==
    /\ Hashes \subseteq Nat
    /\ LoadDivisor \in Nat /\ LoadDivisor >= 2
    /\ Sizes \subseteq Nat /\ \A size \in Sizes : size >= LoadDivisor
    /\ Size \in Sizes

VARIABLES
    ht_vec, ht_size, ht_capacity, ht_fill, ht_empty_slots,
    ht_hash_1, ht_hash_2,
    old_vec, old_ht_size, ovp,      \* of hash_rehash; old_ht_size is 0 outside it
    result                          \* what the last operation returned

vars == <<ht_vec, ht_size, ht_capacity, ht_fill, ht_empty_slots, ht_hash_1,
          ht_hash_2, old_vec, old_ht_size, ovp, result>>

Empty == NoItem                     \* a null pointer
Vacant(item) == item \in {Empty, Deleted}
NewVec(size) == [s \in 0..(size - 1) |-> Empty]
Capacity(size) == size - (size \div LoadDivisor)

Init ==
    /\ ht_size = Size
    /\ ht_vec = NewVec(Size)
    /\ ht_capacity = Capacity(Size)
    /\ ht_fill = 0
    /\ ht_empty_slots = Size
    /\ ht_hash_1 \in [Names -> Hashes]
    /\ ht_hash_2 \in [Names -> Hashes]
    /\ old_vec = NewVec(0)
    /\ old_ht_size = 0
    /\ ovp = 0
    /\ result = NoItem

-----------------------------------------------------------------------------
(* hash_find_slot                                                          *)

OrOne(n) == IF n % 2 = 0 THEN n + 1 ELSE n
Probed(h1, h2, size, i) == (h1 + i * OrOne(h2)) % size
Probe(key, i) == Probed(ht_hash_1[Name[key]], ht_hash_2[Name[key]], ht_size, i)

Matches(key, item) ==
    /\ item \in Items
    /\ key = item \/ Folded[Name[key]] = Folded[Name[item]]

Stops(key, i) ==
    \/ ht_vec[Probe(key, i)] = Empty
    \/ Matches(key, ht_vec[Probe(key, i)])

(* The probe at which the search ends; the first deleted slot before it.   *)
End(key) ==
    CHOOSE i \in 0..(ht_size - 1) :
        Stops(key, i) /\ \A j \in 0..(i - 1) : ~Stops(key, j)
Passed(key, end) == {i \in 0..(end - 1) : ht_vec[Probe(key, i)] = Deleted}
First(S) == CHOOSE i \in S : \A j \in S : i <= j

(* Seeded defect: a mark is taken whatever the search ends at.             *)
FindSlotAtMark(key) ==
    LET end == End(key)
        passed == Passed(key, end)
    IN  Probe(key, IF passed # {} THEN First(passed) ELSE end)

FindSlot(key) ==
    LET end == End(key)
        passed == Passed(key, end)
    IN  Probe(key, IF ht_vec[Probe(key, end)] = Empty /\ passed # {}
                   THEN First(passed) ELSE end)

ItemAt(slot) == IF Vacant(ht_vec[slot]) THEN NoItem ELSE ht_vec[slot]

-----------------------------------------------------------------------------
Rehashing == old_ht_size > 0
hashing == <<ht_hash_1, ht_hash_2>>
sizes == <<ht_size, ht_capacity, old_vec, old_ht_size, ovp>>

(* hash_rehash: the new table, twice as large if the items alone fill it.  *)
Grows(fill) == fill >= ht_capacity
NewSize(fill) == IF Grows(fill) THEN ht_size * 2 ELSE ht_size

StartRehash(vec, fill) ==
    /\ NewSize(fill) \in Sizes
    /\ ht_size' = NewSize(fill)
    /\ ht_capacity' = Capacity(NewSize(fill))
    /\ ht_vec' = NewVec(NewSize(fill))
    /\ old_vec' = vec
    /\ old_ht_size' = ht_size
    /\ ovp' = 0

(* Each of the old slots in its turn.  Seeded defect: items keep theirs.   *)
MoveItemOver ==
    /\ Rehashing /\ ovp < old_ht_size
    /\ ht_vec' = IF Vacant(old_vec[ovp]) THEN ht_vec
                 ELSE [ht_vec EXCEPT ![ovp] = old_vec[ovp]]
    /\ ovp' = ovp + 1
    /\ UNCHANGED <<ht_size, ht_capacity, ht_fill, ht_empty_slots, hashing, old_vec,
                   old_ht_size, result>>

MoveItem ==
    /\ Rehashing /\ ovp < old_ht_size
    /\ ht_vec' = IF Vacant(old_vec[ovp]) THEN ht_vec
                 ELSE [ht_vec EXCEPT ![FindSlot(old_vec[ovp])] = old_vec[ovp]]
    /\ ovp' = ovp + 1
    /\ UNCHANGED <<ht_size, ht_capacity, ht_fill, ht_empty_slots, hashing, old_vec,
                   old_ht_size, result>>

EndRehash ==
    /\ Rehashing /\ ovp = old_ht_size
    /\ ht_empty_slots' = ht_size - ht_fill
    /\ old_vec' = NewVec(0)
    /\ old_ht_size' = 0
    /\ ovp' = 0
    /\ UNCHANGED <<ht_vec, ht_size, ht_capacity, ht_fill, hashing, result>>

-----------------------------------------------------------------------------
FindItem(key) ==
    /\ ~Rehashing
    /\ result' = ItemAt(FindSlot(key))
    /\ UNCHANGED <<ht_vec, ht_fill, ht_empty_slots, hashing, sizes>>

(* hash_insert_at: the counters after the item is put into the slot.       *)
FillAfter(slot) == IF Vacant(ht_vec[slot]) THEN ht_fill + 1 ELSE ht_fill
(* Seeded defect: a mark overwritten counts as an empty slot used.         *)
EmptyAfterAny(slot) ==
    IF Vacant(ht_vec[slot]) THEN ht_empty_slots - 1 ELSE ht_empty_slots
EmptyAfter(slot) ==
    IF ht_vec[slot] = Empty THEN ht_empty_slots - 1 ELSE ht_empty_slots

(* Seeded defect: the table is rebuilt one item late.                      *)
ShortLate(empty) == empty + 1 < ht_size - ht_capacity
Short(empty) == empty < ht_size - ht_capacity

Insert(item) ==
    LET slot == FindSlot(item)
        vec == [ht_vec EXCEPT ![slot] = item]
    IN  /\ ~Rehashing
        /\ result' = ItemAt(slot)
        /\ ht_fill' = FillAfter(slot)
        /\ ht_empty_slots' = EmptyAfter(slot)
        /\ \/ Short(EmptyAfter(slot)) /\ StartRehash(vec, FillAfter(slot))
           \/ ~Short(EmptyAfter(slot)) /\ ht_vec' = vec /\ UNCHANGED sizes
        /\ UNCHANGED hashing

(* Seeded defects: an item that is not there counted off; no mark left.    *)
DeleteUnchecked(item) ==
    LET slot == FindSlot(item)
    IN  /\ ~Rehashing
        /\ result' = ItemAt(slot)
        /\ ht_vec' = [ht_vec EXCEPT ![slot] = Deleted]
        /\ ht_fill' = ht_fill - 1
        /\ UNCHANGED <<ht_empty_slots, hashing, sizes>>
DeleteUnmarked(item) ==
    LET slot == FindSlot(item)
    IN  /\ ~Rehashing
        /\ result' = ItemAt(slot)
        /\ ~Vacant(ht_vec[slot])
        /\ ht_vec' = [ht_vec EXCEPT ![slot] = Empty]
        /\ ht_fill' = ht_fill - 1
        /\ ht_empty_slots' = ht_empty_slots + 1
        /\ UNCHANGED <<hashing, sizes>>

Delete(item) ==
    LET slot == FindSlot(item)
    IN  /\ ~Rehashing
        /\ result' = ItemAt(slot)
        /\ IF Vacant(ht_vec[slot])
           THEN UNCHANGED <<ht_vec, ht_fill>>
           ELSE /\ ht_vec' = [ht_vec EXCEPT ![slot] = Deleted]
                /\ ht_fill' = ht_fill - 1
        /\ UNCHANGED <<ht_empty_slots, hashing, sizes>>

(* hash_delete_items, and hash_free_items.                                 *)
DeleteItems ==
    /\ ~Rehashing
    /\ ht_vec' = NewVec(ht_size)
    /\ ht_fill' = 0
    /\ ht_empty_slots' = ht_size
    /\ result' = NoItem
    /\ UNCHANGED <<hashing, sizes>>

Next ==
    \/ \E item \in Items : FindItem(item) \/ Insert(item) \/ Delete(item)
    \/ DeleteItems \/ MoveItem \/ EndRehash

Spec == Init /\ [][Next]_vars

-----------------------------------------------------------------------------
Slots(size) == 0..(size - 1)
Live == {s \in Slots(ht_size) : ht_vec[s] \in Items}
Free == {s \in Slots(ht_size) : ht_vec[s] = Empty}
Waiting == {s \in Slots(old_ht_size) : s >= ovp /\ old_vec[s] \in Items}

TypeOK ==
    /\ ht_size \in Sizes
    /\ old_ht_size \in Sizes \cup {0} /\ ovp \in 0..old_ht_size
    /\ ht_vec \in [Slots(ht_size) -> Items \cup {Empty, Deleted}]
    /\ old_vec \in [Slots(old_ht_size) -> Items \cup {Empty, Deleted}]
    /\ ht_capacity = Capacity(ht_size)
    /\ ht_fill \in Nat /\ ht_empty_slots \in Nat
    /\ ht_hash_1 \in [Names -> Hashes] /\ ht_hash_2 \in [Names -> Hashes]
    /\ result \in Items \cup {NoItem}

(* ht_fill and ht_empty_slots count what hash.h says, "items in table" and *)
(* "empty slots not including deleted slots": hash_rehash trusts them.     *)
Counted ==
    /\ ht_fill = Cardinality(Live) + Cardinality(Waiting)
    /\ ~Rehashing => ht_empty_slots = Cardinality(Free)

(* hash_find_slot ends for an item that is not there: an empty slot is     *)
(* left for it to come upon, at every call of it, in hash_rehash too.      *)
SearchEnds == ovp < old_ht_size \/ ~Rehashing => Free # {}

(* No name is twice in the table, and no empty slot cuts an item off from  *)
(* the slot its search begins at, through deletions and rebuilding.        *)
OneOfAName ==
    \A s, t \in Live : Name[ht_vec[s]] = Name[ht_vec[t]] => s = t
Reachable ==
    \A s \in Live : \E i \in Slots(ht_size) :
        /\ Probe(ht_vec[s], i) = s
        /\ \A j \in 0..(i - 1) : ht_vec[Probe(ht_vec[s], j)] # Empty

(* Callers see a dictionary, whatever the collisions.                      *)
Contents == {ht_vec[s] : s \in Live} \cup {old_vec[s] : s \in Waiting}
D == INSTANCE Dictionary WITH dict <- Contents
IsDictionary == D!Spec
=============================================================================
