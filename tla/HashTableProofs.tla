-------------------------- MODULE HashTableProofs --------------------------
(***************************************************************************)
(* Proofs about HashTable, for any items, hash functions and table sizes   *)
(* for which the probes hit every slot: the counters are right, a search   *)
(* ends, no item is lost, and the table is a dictionary.                   *)
(***************************************************************************)
EXTENDS HashNames, ChainLemmas, FiniteSetTheorems

(* The slots kept empty are some, and at most half of the table's.         *)
LEMMA SlackSize ==
  ASSUME NEW d \in Nat, d >= 2, NEW n \in Nat, n >= d
  PROVE  n \div d \in Nat /\ n \div d >= 1 /\ 2 * (n \div d) <= n /\ (2 * n) \div d <= n
<1>1. n \div d \in Int /\ (2 * n) \div d \in Int  OBVIOUS
<1>2. n = d * (n \div d) + (n % d) /\ n % d \in 0..(d - 1)  OBVIOUS
<1>3. 2 * n = d * ((2 * n) \div d) + ((2 * n) % d) /\ (2 * n) % d \in 0..(d - 1)  OBVIOUS
<1>4. n \div d \in Nat /\ n \div d >= 1 /\ 2 * (n \div d) <= n  BY <1>1, <1>2
<1>5. (2 * n) \div d <= n  BY <1>1, <1>3
<1> QED  BY <1>4, <1>5

LEMMA CapacityType ==
  ASSUME NEW size \in Sizes
  PROVE  /\ size \in Nat /\ size > 0
         /\ Capacity(size) \in Nat /\ Capacity(size) < size
         /\ 2 * size \in Sizes => size <= Capacity(2 * size)
<1>1. size \in Nat /\ size >= LoadDivisor /\ LoadDivisor \in Nat /\ LoadDivisor >= 2
  BY SizeAssumption
<1> DEFINE slack == size \div LoadDivisor
           slack2 == (2 * size) \div LoadDivisor
<1>2. slack \in Nat /\ slack >= 1 /\ 2 * slack <= size /\ slack2 <= size
  BY <1>1, SlackSize
<1>3. slack2 \in Int  BY <1>1
<1>4. Capacity(size) = size - slack /\ Capacity(2 * size) = 2 * size - slack2
  BY DEF Capacity
<1> HIDE DEF slack, slack2
<1> QED  BY <1>1, <1>2, <1>3, <1>4

(* A probe is a slot, and depends on the name only.                        *)
LEMMA ProbeType ==
  ASSUME TypeOK, NEW key \in Items, NEW i \in Nat
  PROVE  Probe(key, i) \in Slots(ht_size)
<1>1. Name[key] \in Names  BY NamesAssumption
<1>2. PICK h1 \in Nat, h2 \in Nat :
        h1 = ht_hash_1[Name[key]] /\ h2 = ht_hash_2[Name[key]]
  BY <1>1, SizeAssumption DEF TypeOK
<1>3. OrOne(h2) \in Nat  BY DEF OrOne
<1>4. h1 + i * OrOne(h2) \in Nat  BY <1>3
<1>5. ht_size \in Nat /\ ht_size > 0  BY CapacityType DEF TypeOK
<1>6. Probe(key, i) = (h1 + i * OrOne(h2)) % ht_size  BY <1>2 DEF Probe, Probed
<1> QED  BY <1>4, <1>5, <1>6 DEF Slots

LEMMA SameProbe ==
  ASSUME NEW a, NEW b, Name[a] = Name[b], NEW i
  PROVE  Probe(a, i) = Probe(b, i)
  BY DEF Probe

LEMMA MatchIsName ==
  ASSUME NEW a \in Items, NEW b
  PROVE  Matches(a, b) <=> b \in Items /\ Name[a] = Name[b]
  BY NamesAssumption, ComparisonAssumption DEF Matches

(* With a slot empty, a search ends, at the first slot that stops it.      *)
LEMMA SearchEndsAt ==
  ASSUME TypeOK, Free # {}, NEW key \in Items
  PROVE  /\ End(key) \in Slots(ht_size)
         /\ Stops(key, End(key))
         /\ \A j \in 0..(End(key) - 1) : ~Stops(key, j)
<1>1. PICK s \in Slots(ht_size) : ht_vec[s] = Empty
  BY DEF Free
<1>2. Name[key] \in Names /\ ht_size \in Sizes
  BY NamesAssumption DEF TypeOK
<1>3. PICK i \in Slots(ht_size) : Probe(key, i) = s
  BY <1>2, ProbesAssumption DEF Probe, TypeOK
<1> DEFINE T == {j \in Slots(ht_size) : Stops(key, j)}
<1>4. i \in T  BY <1>1, <1>3 DEF Stops
<1>5. ht_size \in Nat  BY CapacityType DEF TypeOK
<1>6. T \in SUBSET Nat  BY <1>5 DEF Slots
<1>7. PICK m \in T : \A k \in T : m <= k  BY <1>4, <1>6, Least
<1>8. \A j \in 0..(m - 1) : ~Stops(key, j)
  BY <1>5, <1>7 DEF Slots
<1>9. \E e \in 0..(ht_size - 1) : Stops(key, e) /\ \A j \in 0..(e - 1) : ~Stops(key, j)
  BY <1>7, <1>8 DEF Slots
<1> QED  BY <1>9 DEF End, Slots

-----------------------------------------------------------------------------
(* The invariant that is inductive.  A rebuilt table has no marks, and its *)
(* items leave as many slots empty as it is to keep.                       *)
Room ==
    /\ ~Rehashing => ht_empty_slots >= ht_size - ht_capacity
    /\ Rehashing => /\ ht_fill <= ht_capacity
                    /\ \A s \in Slots(ht_size) : ht_vec[s] # Deleted
Apart ==
    /\ OneOfAName
    /\ \A s, t \in Waiting : Name[old_vec[s]] = Name[old_vec[t]] => s = t
    /\ \A s \in Live, t \in Waiting : Name[ht_vec[s]] # Name[old_vec[t]]
IInv == TypeOK /\ Counted /\ Apart /\ Reachable /\ Room

(* What hash_find_slot returns.                                            *)
Leads(key, slot) ==
    \E i \in Slots(ht_size) :
        /\ Probe(key, i) = slot
        /\ \A j \in 0..(i - 1) : ht_vec[Probe(key, j)] # Empty

LEMMA SlotFound ==
  ASSUME TypeOK, Reachable, Free # {}, NEW key \in Items
  PROVE  /\ FindSlot(key) \in Slots(ht_size)
         /\ Leads(key, FindSlot(key))
         /\ ht_vec[FindSlot(key)] \in Items => Name[ht_vec[FindSlot(key)]] = Name[key]
         /\ Vacant(ht_vec[FindSlot(key)]) =>
               \A s \in Live : Name[ht_vec[s]] # Name[key]
<1> DEFINE end == End(key)
           passed == Passed(key, end)
           first == First(passed)
<1>1. /\ end \in Slots(ht_size) /\ Stops(key, end)
      /\ \A j \in 0..(end - 1) : ~Stops(key, j)
  BY SearchEndsAt
<1>2. ht_size \in Nat /\ end \in Nat /\ Slots(ht_size) \subseteq Nat
  BY <1>1, CapacityType DEF TypeOK, Slots
<1>3. \A j \in 0..(end - 1) : j \in Slots(ht_size) /\ ht_vec[Probe(key, j)] # Empty
  BY <1>1, <1>2 DEF Stops, Slots
<1>4. passed # {} => first \in passed
  <2> SUFFICES ASSUME passed # {} PROVE first \in passed  OBVIOUS
  <2>1. passed \in SUBSET Nat  BY <1>2 DEF Passed
  <2>2. \E i \in passed : \A j \in passed : i <= j  BY <2>1, Least
  <2> HIDE DEF passed
  <2> QED  BY <2>2 DEF First
<1>5. \A i \in Nat : Probe(key, i) \in Slots(ht_size)
  BY ProbeType
<1>6. CASE ht_vec[Probe(key, end)] = Empty /\ passed # {}
  <2>1. FindSlot(key) = Probe(key, first)
    BY <1>6 DEF FindSlot
  <2>2. first \in 0..(end - 1) /\ ht_vec[Probe(key, first)] = Deleted
    BY <1>4, <1>6 DEF Passed
  <2>3. first \in Slots(ht_size) /\ \A j \in 0..(first - 1) : ht_vec[Probe(key, j)] # Empty
    BY <1>2, <1>3, <2>2
  <2>4. \A s \in Live : Name[ht_vec[s]] # Name[key]
    <3> SUFFICES ASSUME NEW s \in Live, Name[ht_vec[s]] = Name[key] PROVE FALSE
      OBVIOUS
    <3>1. PICK i \in Slots(ht_size) : /\ Probe(ht_vec[s], i) = s
              /\ \A j \in 0..(i - 1) : ht_vec[Probe(ht_vec[s], j)] # Empty
      BY DEF Reachable
    <3>2. Probe(key, i) = s /\ \A j \in 0..(i - 1) : ht_vec[Probe(key, j)] # Empty
      BY <3>1, SameProbe
    <3>3. ht_vec[s] \in Items  BY DEF Live
    <3>4. Stops(key, i)  BY <3>2, <3>3, MatchIsName DEF Stops
    <3>5. end <= i  BY <1>1, <1>2, <3>4
    <3>6. end = i  BY <1>2, <1>6, <3>2, <3>5
    <3> QED  BY <1>6, <3>2, <3>3, <3>6, NamesAssumption DEF Empty
  <2> QED
    BY <1>5, <2>1, <2>2, <2>3, <2>4, <1>2, NamesAssumption DEF Leads
<1>7. CASE ~(ht_vec[Probe(key, end)] = Empty /\ passed # {})
  <2>1. FindSlot(key) = Probe(key, end)
    BY <1>7 DEF FindSlot
  <2>2. ht_vec[Probe(key, end)] = Empty \/ Matches(key, ht_vec[Probe(key, end)])
    BY <1>1 DEF Stops
  <2>3. ht_vec[Probe(key, end)] \in Items => Name[ht_vec[Probe(key, end)]] = Name[key]
    BY <2>2, MatchIsName, NamesAssumption DEF Empty
  <2>4. Vacant(ht_vec[Probe(key, end)]) => ht_vec[Probe(key, end)] = Empty
    BY <2>2, MatchIsName, NamesAssumption DEF Vacant, Empty
  <2>5. ASSUME ht_vec[Probe(key, end)] = Empty
        PROVE  \A s \in Live : Name[ht_vec[s]] # Name[key]
    <3> SUFFICES ASSUME NEW s \in Live, Name[ht_vec[s]] = Name[key] PROVE FALSE
      OBVIOUS
    <3>1. PICK i \in Slots(ht_size) : /\ Probe(ht_vec[s], i) = s
              /\ \A j \in 0..(i - 1) : ht_vec[Probe(ht_vec[s], j)] # Empty
      BY DEF Reachable
    <3>2. Probe(key, i) = s /\ \A j \in 0..(i - 1) : ht_vec[Probe(key, j)] # Empty
      BY <3>1, SameProbe
    <3>3. ht_vec[s] \in Items  BY DEF Live
    <3>4. Stops(key, i)  BY <3>2, <3>3, MatchIsName DEF Stops
    <3>5. end <= i  BY <1>1, <1>2, <3>4
    <3>6. end = i  BY <1>2, <2>5, <3>2, <3>5
    <3> QED  BY <2>5, <3>2, <3>3, <3>6, NamesAssumption DEF Empty
  <2> QED
    BY <1>1, <1>2, <1>3, <1>5, <2>1, <2>3, <2>4, <2>5 DEF Leads
<1> QED  BY <1>6, <1>7

(* The sets of slots are finite; items and empty slots are apart.          *)
LEMMA Finite ==
  ASSUME TypeOK
  PROVE  /\ IsFiniteSet(Live) /\ IsFiniteSet(Free) /\ IsFiniteSet(Waiting)
         /\ Cardinality(Live) \in Nat /\ Cardinality(Free) \in Nat
         /\ Cardinality(Waiting) \in Nat
         /\ Cardinality(Live) + Cardinality(Free) <= ht_size
         /\ IsFiniteSet(Slots(ht_size)) /\ Cardinality(Slots(ht_size)) = ht_size
<1>1. ht_size \in Nat /\ old_ht_size \in Nat
  BY CapacityType DEF TypeOK
<1>2. /\ IsFiniteSet(Slots(ht_size)) /\ IsFiniteSet(Slots(old_ht_size))
      /\ Cardinality(Slots(ht_size)) = ht_size
  <2>1. IsFiniteSet(0..(ht_size - 1)) /\ IsFiniteSet(0..(old_ht_size - 1))
        /\ Cardinality(0..(ht_size - 1)) = IF 0 > ht_size - 1 THEN 0 ELSE ht_size - 1 - 0 + 1
    BY <1>1, FS_Interval
  <2> QED  BY <1>1, <2>1 DEF Slots
<1>3. /\ Live \in SUBSET Slots(ht_size) /\ Free \in SUBSET Slots(ht_size)
      /\ Waiting \in SUBSET Slots(old_ht_size)
  BY DEF Live, Free, Waiting
<1>4. IsFiniteSet(Live) /\ IsFiniteSet(Free) /\ IsFiniteSet(Waiting)
  BY <1>2, <1>3, FS_Subset
<1>5. /\ Cardinality(Live) \in Nat /\ Cardinality(Free) \in Nat
      /\ Cardinality(Waiting) \in Nat
  BY <1>4, FS_CardinalityType
<1>6. Live \cap Free = {}
  BY NamesAssumption DEF Live, Free, Empty
<1>7. /\ IsFiniteSet(Live \cup Free)
      /\ Cardinality(Live \cup Free) = Cardinality(Live) + Cardinality(Free)
  BY <1>4, <1>5, <1>6, FS_Union, FS_EmptySet
<1>8. Live \cup Free \in SUBSET Slots(ht_size)
  BY <1>3
<1>9. Cardinality(Live \cup Free) <= ht_size
  BY <1>2, <1>8, FS_Subset
<1> QED  BY <1>2, <1>4, <1>5, <1>7, <1>9

(* A slot is empty whenever hash_find_slot is called.                      *)
LEMMA FreeSlot ==
  ASSUME IInv, ovp < old_ht_size \/ ~Rehashing
  PROVE  Free # {}
<1>1. TypeOK /\ Counted /\ Room  BY DEF IInv
<1>2. /\ ht_size \in Nat /\ ht_capacity \in Nat /\ ht_capacity < ht_size
      /\ ht_fill \in Nat /\ ht_empty_slots \in Nat
  BY <1>1, CapacityType DEF TypeOK
<1>3. CASE ~Rehashing
  <2>1. Cardinality(Free) > 0  BY <1>1, <1>2, <1>3 DEF Counted, Room
  <2> QED  BY <2>1, FS_EmptySet
<1>4. CASE Rehashing
  <2>1. Cardinality(Live) < ht_size
    BY <1>1, <1>2, <1>4, Finite DEF Counted, Room
  <2>2. Live # Slots(ht_size)
    BY <1>1, <1>2, <2>1, Finite
  <2>3. PICK s \in Slots(ht_size) : s \notin Live
    BY <2>2 DEF Live
  <2>4. ht_vec[s] = Empty
    BY <1>1, <1>4, <2>3 DEF TypeOK, Room, Live
  <2> QED  BY <2>4 DEF Free
<1> QED  BY <1>3, <1>4

-----------------------------------------------------------------------------
(* Every operation keeps the invariant.                                    *)
LEMMA InitIInv == Init => IInv
<1> SUFFICES ASSUME Init PROVE IInv  OBVIOUS
<1>1. /\ ht_size = Size /\ Size \in Sizes /\ ht_capacity = Capacity(Size)
      /\ ht_fill = 0 /\ ht_empty_slots = Size /\ old_ht_size = 0 /\ ovp = 0
      /\ ht_vec = NewVec(Size) /\ old_vec = NewVec(0) /\ result = NoItem
  BY SizeAssumption DEF Init
<1>2. /\ Size \in Nat /\ Capacity(Size) \in Nat /\ Capacity(Size) < Size
  BY <1>1, CapacityType
<1>3. ~Rehashing  BY <1>1 DEF Rehashing
<1>4. \A s \in Slots(ht_size) : ht_vec[s] = Empty
  BY <1>1 DEF NewVec, Slots
<1>5. Live = {} /\ Waiting = {} /\ Free = Slots(ht_size)
  BY <1>1, <1>4, NamesAssumption DEF Live, Free, Waiting, Slots, Empty
<1>6. TypeOK
  <2>1. ht_vec \in [Slots(ht_size) -> Items \cup {Empty, Deleted}]
    BY <1>1 DEF NewVec, Slots
  <2>2. old_vec \in [Slots(old_ht_size) -> Items \cup {Empty, Deleted}]
    BY <1>1 DEF NewVec, Slots
  <2> QED  BY <1>1, <1>2, <2>1, <2>2 DEF TypeOK, Init
<1>7. Counted
  BY <1>1, <1>5, <1>6, Finite, FS_EmptySet DEF Counted
<1>8. Apart /\ Reachable
  BY <1>5 DEF Apart, OneOfAName, Reachable
<1>9. Room
  BY <1>1, <1>2, <1>3 DEF Room
<1> QED  BY <1>6, <1>7, <1>8, <1>9 DEF IInv

(* A probe is what it was while the hash functions and the size are.       *)
LEMMA ProbeKept ==
  ASSUME UNCHANGED <<ht_hash_1, ht_hash_2, ht_size>>, NEW key, NEW i
  PROVE  Probe(key, i)' = Probe(key, i)
  BY DEF Probe

(* Reachability when one slot is written to, with an item its search leads *)
(* to, or with a mark.                                                     *)
LEMMA ReachableKept ==
  ASSUME TypeOK, Reachable, NEW p \in Slots(ht_size), NEW x,
         x = Deleted \/ (x \in Items /\ Leads(x, p)),
         ht_vec' = [ht_vec EXCEPT ![p] = x],
         UNCHANGED <<ht_hash_1, ht_hash_2, ht_size>>
  PROVE  Reachable'
<1>1. x # Empty /\ (x = Deleted => x \notin Items)
  BY NamesAssumption DEF Empty
<1>2. /\ ht_vec'[p] = x
      /\ \A s \in Slots(ht_size) \ {p} : ht_vec'[s] = ht_vec[s]
      /\ Live' \subseteq Live \cup {p}
  BY DEF TypeOK, Live
<1>3. \A s \in Slots(ht_size) : ht_vec[s] # Empty => ht_vec'[s] # Empty
  BY <1>1, <1>2
<1>4. \A key \in Items, i \in Nat : Probe(key, i) \in Slots(ht_size)
  BY ProbeType
<1>5. ht_size \in Nat  BY CapacityType DEF TypeOK
<1>6. ASSUME NEW s \in Live'
      PROVE  \E i \in Slots(ht_size) :
                /\ Probe(ht_vec'[s], i) = s
                /\ \A j \in 0..(i - 1) : ht_vec'[Probe(ht_vec'[s], j)] # Empty
  <2>1. ht_vec'[s] \in Items  BY DEF Live
  <2>2. CASE s = p
    <3>1. ht_vec'[s] = x /\ x \in Items  BY <1>2, <2>1, <2>2
    <3>2. Leads(x, p)  BY <1>1, <3>1
    <3>3. PICK i \in Slots(ht_size) : /\ Probe(x, i) = p
             /\ \A j \in 0..(i - 1) : ht_vec[Probe(x, j)] # Empty
      BY <3>2 DEF Leads
    <3>4. \A j \in 0..(i - 1) : Probe(x, j) \in Slots(ht_size)
      BY <1>4, <1>5, <3>1 DEF Slots
    <3> QED  BY <1>3, <2>2, <3>1, <3>3, <3>4
  <2>3. CASE s # p
    <3>1. s \in Live /\ ht_vec'[s] = ht_vec[s]
      BY <1>2, <2>3 DEF Live
    <3>2. PICK i \in Slots(ht_size) : /\ Probe(ht_vec[s], i) = s
             /\ \A j \in 0..(i - 1) : ht_vec[Probe(ht_vec[s], j)] # Empty
      BY <3>1 DEF Reachable
    <3>3. \A j \in 0..(i - 1) : Probe(ht_vec[s], j) \in Slots(ht_size)
      BY <1>4, <1>5, <2>1, <3>1 DEF Slots
    <3> QED  BY <1>3, <3>1, <3>2, <3>3
  <2> QED  BY <2>2, <2>3
<1> QED  BY <1>6, ProbeKept DEF Reachable

(* An item looked up.                                                      *)
LEMMA KeptByFind ==
  ASSUME IInv, NEW key \in Items, FindItem(key)
  PROVE  IInv'
<1>1. UNCHANGED <<ht_vec, ht_size, ht_capacity, ht_fill, ht_empty_slots, ht_hash_1,
                  ht_hash_2, old_vec, old_ht_size, ovp>>
  BY DEF FindItem, hashing, sizes
<1>2. Live' = Live /\ Free' = Free /\ Waiting' = Waiting
  BY <1>1 DEF Live, Free, Waiting
<1>3. TypeOK /\ Reachable /\ Free # {} /\ ~Rehashing
  BY FreeSlot DEF FindItem, IInv
<1>4. FindSlot(key) \in Slots(ht_size)
  BY <1>3, SlotFound
<1>5. result' \in Items \cup {NoItem}
  BY <1>3, <1>4 DEF FindItem, ItemAt, Vacant, TypeOK, Empty
<1>6. Reachable'
  BY <1>1, <1>2, ProbeKept DEF IInv, Reachable
<1> QED
  BY <1>1, <1>2, <1>5, <1>6
  DEF IInv, TypeOK, Counted, Apart, OneOfAName, Room, Rehashing

(* A mark left in place of an item.                                        *)
LEMMA KeptByDelete ==
  ASSUME IInv, NEW key \in Items, Delete(key)
  PROVE  IInv'
<1> DEFINE p == FindSlot(key)
<1>1. UNCHANGED <<ht_size, ht_capacity, ht_empty_slots, ht_hash_1,
                  ht_hash_2, old_vec, old_ht_size, ovp>>
  BY DEF Delete, hashing, sizes
<1>2. TypeOK /\ Reachable /\ Free # {} /\ ~Rehashing /\ Counted /\ Apart /\ Room
  BY FreeSlot DEF Delete, IInv
<1>3. p \in Slots(ht_size) /\ ht_vec[p] \in Items \cup {Empty, Deleted}
  BY <1>2, SlotFound DEF TypeOK
<1>4. result' \in Items \cup {NoItem}
  BY <1>2, <1>3 DEF Delete, ItemAt, Vacant, Empty
<1>5. CASE Vacant(ht_vec[p])
  <2>1. UNCHANGED <<ht_vec, ht_fill>>  BY <1>5 DEF Delete
  <2>2. Live' = Live /\ Free' = Free /\ Waiting' = Waiting
    BY <1>1, <2>1 DEF Live, Free, Waiting
  <2>3. Reachable'
    BY <1>1, <1>2, <2>1, <2>2, ProbeKept DEF Reachable
  <2> QED
    BY <1>1, <1>2, <1>4, <2>1, <2>2, <2>3
    DEF IInv, TypeOK, Counted, Apart, OneOfAName, Room, Rehashing
<1>6. CASE ~Vacant(ht_vec[p])
  <2>1. ht_vec' = [ht_vec EXCEPT ![p] = Deleted] /\ ht_fill' = ht_fill - 1
    BY <1>6 DEF Delete
  <2>2. ht_vec'[p] = Deleted /\ \A s \in Slots(ht_size) \ {p} : ht_vec'[s] = ht_vec[s]
    BY <1>2, <1>3, <2>1 DEF TypeOK
  <2>3. p \in Live
    BY <1>3, <1>6 DEF Vacant, Live
  <2>4. Live' = Live \ {p} /\ Free' = Free /\ Waiting' = Waiting
    BY <1>1, <1>3, <2>2, <2>3, NamesAssumption DEF Live, Free, Waiting, Empty
  <2>5. Cardinality(Live') = Cardinality(Live) - 1
    BY <1>2, <2>3, <2>4, Finite, FS_RemoveElement
  <2>6. Cardinality(Live) > 0
    BY <1>2, <2>3, Finite, FS_EmptySet
  <2>7. Reachable'
    BY <1>1, <1>2, <1>3, <2>1, ReachableKept
  <2>8. ht_vec' \in [Slots(ht_size) -> Items \cup {Empty, Deleted}]
    BY <1>2, <2>1 DEF TypeOK
  <2>9. ht_fill' \in Nat /\ ht_fill' = Cardinality(Live') + Cardinality(Waiting')
    BY <1>2, <2>1, <2>4, <2>5, <2>6, Finite DEF TypeOK, Counted
  <2>10. TypeOK'
    BY <1>1, <1>2, <1>4, <2>8, <2>9 DEF TypeOK
  <2>11. Counted' /\ Room'
    BY <1>1, <1>2, <2>4, <2>9 DEF Counted, Room, Rehashing
  <2>12. Apart'
    BY <1>1, <1>2, <2>2, <2>4 DEF Apart, OneOfAName, Live
  <2> QED  BY <2>7, <2>10, <2>11, <2>12 DEF IInv
<1> QED  BY <1>5, <1>6

(* The whole table emptied.                                                *)
LEMMA KeptByDeleteItems ==
  ASSUME IInv, DeleteItems
  PROVE  IInv'
<1>1. UNCHANGED <<ht_size, ht_capacity, ht_hash_1, ht_hash_2, old_vec, old_ht_size, ovp>>
  BY DEF DeleteItems, hashing, sizes
<1>2. /\ ht_vec' = NewVec(ht_size) /\ ht_fill' = 0 /\ ht_empty_slots' = ht_size
      /\ result' = NoItem /\ ~Rehashing /\ TypeOK
  BY DEF DeleteItems, IInv
<1>3. /\ ht_size \in Nat /\ ht_capacity \in Nat /\ ht_capacity < ht_size
      /\ old_ht_size \in Nat
  BY <1>2, CapacityType DEF TypeOK
<1>4. \A s \in Slots(ht_size) : ht_vec'[s] = Empty
  BY <1>2 DEF NewVec, Slots
<1>5. old_ht_size = 0
  BY <1>2, <1>3 DEF Rehashing
<1>6. Live' = {} /\ Waiting' = {} /\ Free' = Slots(ht_size)
  BY <1>1, <1>4, <1>5, NamesAssumption DEF Live, Free, Waiting, Slots, Empty
<1>7. TypeOK'
  <2>1. ht_vec' \in [Slots(ht_size) -> Items \cup {Empty, Deleted}]
    BY <1>2 DEF NewVec, Slots
  <2> QED  BY <1>1, <1>2, <1>3, <2>1 DEF TypeOK
<1>8. Counted'
  BY <1>1, <1>2, <1>3, <1>6, Finite, FS_EmptySet DEF Counted
<1>9. Apart' /\ Reachable'
  BY <1>6 DEF Apart, OneOfAName, Reachable
<1>10. Room'
  BY <1>1, <1>2, <1>3 DEF Room, Rehashing
<1> QED  BY <1>7, <1>8, <1>9, <1>10 DEF IInv

(* An item put into the slot its search led to: what there is afterwards.  *)
With(key) == [ht_vec EXCEPT ![FindSlot(key)] = key]
AfterInsert(key, p, vec) ==
    /\ p \in Slots(ht_size)
    /\ vec \in [Slots(ht_size) -> Items \cup {Empty, Deleted}]
    /\ {s \in Slots(ht_size) : vec[s] \in Items} = Live \cup {p}
    /\ {s \in Slots(ht_size) : vec[s] = Empty} = Free \ {p}
    /\ \A s, t \in Live \cup {p} : Name[vec[s]] = Name[vec[t]] => s = t
    /\ FillAfter(p) = Cardinality(Live \cup {p}) /\ FillAfter(p) \in Nat
    /\ EmptyAfter(p) = Cardinality(Free \ {p}) /\ EmptyAfter(p) \in Nat
    /\ FillAfter(p) <= ht_size
    /\ ItemAt(p) \in Items \cup {NoItem}

LEMMA Inserted ==
  ASSUME IInv, ~Rehashing, NEW key \in Items
  PROVE  AfterInsert(key, FindSlot(key), With(key))
<1> DEFINE p == FindSlot(key)
           vec == With(key)
<1>1. TypeOK /\ Reachable /\ Free # {} /\ Counted /\ OneOfAName /\ old_ht_size = 0
  BY FreeSlot, CapacityType DEF IInv, Apart, Rehashing, TypeOK
<1>2. /\ p \in Slots(ht_size)
      /\ ht_vec[p] \in Items => Name[ht_vec[p]] = Name[key]
      /\ Vacant(ht_vec[p]) => \A s \in Live : Name[ht_vec[s]] # Name[key]
  BY <1>1, SlotFound
<1>3. ht_vec[p] \in Items \cup {Empty, Deleted}
  BY <1>1, <1>2 DEF TypeOK
<1>4. vec[p] = key /\ \A s \in Slots(ht_size) \ {p} : vec[s] = ht_vec[s]
  BY <1>1, <1>2 DEF TypeOK, With
<1>5. vec \in [Slots(ht_size) -> Items \cup {Empty, Deleted}]
  BY <1>1, <1>2 DEF TypeOK, With
<1> HIDE DEF p, vec
<1>6. /\ {s \in Slots(ht_size) : vec[s] \in Items} = Live \cup {p}
      /\ {s \in Slots(ht_size) : vec[s] = Empty} = Free \ {p}
  BY <1>2, <1>4, NamesAssumption DEF Live, Free, Empty
<1>7. \A s \in Live : s # p => Name[ht_vec[s]] # Name[key]
  <2>1. CASE ht_vec[p] \in Items
    BY <1>1, <1>2, <2>1 DEF OneOfAName, Live
  <2>2. CASE ht_vec[p] \notin Items
    BY <1>2, <1>3, <2>2 DEF Vacant
  <2> QED  BY <2>1, <2>2
<1>8. \A s, t \in Live \cup {p} : Name[vec[s]] = Name[vec[t]] => s = t
  BY <1>1, <1>4, <1>7 DEF OneOfAName, Live
<1>9. Waiting = {} /\ Cardinality(Waiting) = 0
  BY <1>1, FS_EmptySet DEF Waiting, Slots
<1>10. /\ ht_fill = Cardinality(Live) /\ ht_empty_slots = Cardinality(Free)
       /\ Cardinality(Live) \in Nat /\ Cardinality(Free) \in Nat
  BY <1>1, <1>9, Finite DEF Counted, Rehashing
<1>11. FillAfter(p) = Cardinality(Live \cup {p}) /\ FillAfter(p) \in Nat
  <2>1. p \in Live <=> ~Vacant(ht_vec[p])
    BY <1>2, <1>3, NamesAssumption DEF Live, Vacant, Empty
  <2>2. Cardinality(Live \cup {p}) =
           IF p \in Live THEN Cardinality(Live) ELSE Cardinality(Live) + 1
    BY <1>1, Finite, FS_AddElement
  <2> QED  BY <1>10, <2>1, <2>2 DEF FillAfter
<1>12. EmptyAfter(p) = Cardinality(Free \ {p}) /\ EmptyAfter(p) \in Nat
  <2>1. p \in Free <=> ht_vec[p] = Empty
    BY <1>2 DEF Free
  <2>2. Cardinality(Free) > 0
    BY <1>1, <1>10, Finite, FS_EmptySet
  <2>3. Cardinality(Free \ {p}) =
           IF p \in Free THEN Cardinality(Free) - 1 ELSE Cardinality(Free)
    BY <1>1, Finite, FS_RemoveElement
  <2> QED  BY <1>10, <2>1, <2>2, <2>3 DEF EmptyAfter
<1>13. FillAfter(p) <= ht_size
  <2>1. Live \cup {p} \in SUBSET Slots(ht_size)
    BY <1>2 DEF Live
  <2> QED  BY <1>1, <1>11, <2>1, Finite, FS_Subset
<1>14. ItemAt(p) \in Items \cup {NoItem}
  BY <1>3 DEF ItemAt, Vacant
<1>15. AfterInsert(key, p, vec)
  BY <1>2, <1>5, <1>6, <1>8, <1>11, <1>12, <1>13, <1>14 DEF AfterInsert
<1> QED  BY <1>15 DEF p, vec

LEMMA KeptByInsert ==
  ASSUME IInv, NEW key \in Items, Insert(key)
  PROVE  IInv'
<1> DEFINE p == FindSlot(key)
           vec == With(key)
<1>1. /\ ~Rehashing /\ TypeOK /\ result' = ItemAt(p)
      /\ ht_fill' = FillAfter(p) /\ ht_empty_slots' = EmptyAfter(p)
      /\ UNCHANGED <<ht_hash_1, ht_hash_2>>
      /\ old_ht_size = 0
  BY CapacityType DEF Insert, IInv, hashing, Rehashing, TypeOK
<1>2. /\ p \in Slots(ht_size)
      /\ vec \in [Slots(ht_size) -> Items \cup {Empty, Deleted}]
      /\ {s \in Slots(ht_size) : vec[s] \in Items} = Live \cup {p}
      /\ {s \in Slots(ht_size) : vec[s] = Empty} = Free \ {p}
      /\ \A s, t \in Live \cup {p} : Name[vec[s]] = Name[vec[t]] => s = t
      /\ FillAfter(p) = Cardinality(Live \cup {p}) /\ FillAfter(p) \in Nat
      /\ EmptyAfter(p) = Cardinality(Free \ {p}) /\ EmptyAfter(p) \in Nat
      /\ FillAfter(p) <= ht_size
      /\ ItemAt(p) \in Items \cup {NoItem}
  BY <1>1, Inserted DEF AfterInsert
<1>3. Leads(key, p)
  <2>1. Reachable /\ Free # {}  BY <1>1, FreeSlot DEF IInv
  <2> QED  BY <1>1, <2>1, SlotFound
<1>4. /\ ht_size \in Nat /\ ht_capacity = Capacity(ht_size) /\ ht_capacity \in Nat
      /\ ht_capacity < ht_size
  BY <1>1, CapacityType DEF TypeOK
<1>5. CASE ~Short(EmptyAfter(p)) /\ ht_vec' = vec /\ UNCHANGED sizes
  <2>1. UNCHANGED <<ht_size, ht_capacity, old_vec, old_ht_size, ovp>>
    BY <1>5 DEF sizes
  <2>2. Live' = Live \cup {p} /\ Free' = Free \ {p} /\ Waiting' = {}
    <3> HIDE DEF p, vec
    <3> QED  BY <1>1, <1>2, <1>5, <2>1 DEF Live, Free, Waiting, Slots
  <2>3. Reachable'
    BY <1>1, <1>2, <1>3, <1>5, <2>1, ReachableKept DEF IInv, With
  <2> HIDE DEF p, vec
  <2>4. Cardinality(Waiting') = 0  BY <2>2, FS_EmptySet
  <2>5. TypeOK'
    BY <1>1, <1>2, <1>5, <2>1 DEF TypeOK
  <2>6. Counted'
    BY <1>1, <1>2, <2>2, <2>4 DEF Counted
  <2>7. Apart'
    BY <1>2, <1>5, <2>2 DEF Apart, OneOfAName
  <2>8. Room'
    BY <1>1, <1>2, <1>4, <1>5, <2>1 DEF Room, Rehashing, Short
  <2> QED  BY <2>3, <2>5, <2>6, <2>7, <2>8 DEF IInv
<1>6. CASE StartRehash(vec, FillAfter(p))
  <2> HIDE DEF p, vec
  <2> DEFINE size == NewSize(FillAfter(p))
  <2>1. /\ size \in Sizes /\ ht_size' = size /\ ht_capacity' = Capacity(size)
        /\ ht_vec' = NewVec(size) /\ old_vec' = vec /\ old_ht_size' = ht_size /\ ovp' = 0
    BY <1>6 DEF StartRehash
  <2>2. /\ size \in Nat /\ size > 0 /\ Capacity(size) \in Nat
        /\ FillAfter(p) <= Capacity(size)
    <3>1. CASE Grows(FillAfter(p))
      <4>1. size = ht_size * 2  BY <3>1 DEF NewSize
      <4>2. size = 2 * ht_size  BY <1>4, <4>1
      <4>3. ht_size <= Capacity(size)  BY <1>1, <2>1, <4>2, CapacityType DEF TypeOK
      <4>4. size \in Nat /\ size > 0 /\ Capacity(size) \in Nat  BY <2>1, CapacityType
      <4> HIDE DEF size
      <4> QED  BY <1>2, <1>4, <4>3, <4>4
    <3>2. CASE ~Grows(FillAfter(p))
      <4>1. size = ht_size  BY <3>2 DEF NewSize
      <4> QED  BY <1>2, <1>4, <3>2, <4>1 DEF Grows
    <3> QED  BY <3>1, <3>2
  <2> HIDE DEF size
  <2>3. \A s \in Slots(ht_size') : ht_vec'[s] = Empty
    BY <2>1 DEF NewVec, Slots
  <2>4. Live' = {}
    BY <2>3, NamesAssumption DEF Live, Empty
  <2>5. Waiting' = Live \cup {p}
    <3>1. Waiting' = {s \in Slots(ht_size) : s >= 0 /\ vec[s] \in Items}
      BY <2>1 DEF Waiting
    <3>2. \A s \in Slots(ht_size) : s >= 0  BY <1>4 DEF Slots
    <3> QED  BY <1>2, <3>1, <3>2
  <2>6. TypeOK'
    <3>1. ht_vec' \in [Slots(ht_size') -> Items \cup {Empty, Deleted}]
      BY <2>1 DEF NewVec, Slots
    <3> QED  BY <1>1, <1>2, <1>4, <2>1, <3>1 DEF TypeOK
  <2>7. Rehashing'
    BY <1>4, <2>1 DEF Rehashing
  <2>8. Counted'
    BY <1>1, <1>2, <2>4, <2>5, <2>7, FS_EmptySet DEF Counted
  <2>9. Apart'
    BY <1>2, <2>1, <2>4, <2>5 DEF Apart, OneOfAName
  <2>10. Reachable'
    BY <2>4 DEF Reachable
  <2>11. Room'
    BY <1>1, <2>1, <2>2, <2>3, <2>7, NamesAssumption DEF Room, Empty
  <2> QED  BY <2>6, <2>8, <2>9, <2>10, <2>11 DEF IInv
<1> QED  BY <1>5, <1>6 DEF Insert, With

(* An item moved to the table rebuilt.                                     *)
LEMMA KeptByMoveItem ==
  ASSUME IInv, MoveItem
  PROVE  IInv'
<1> DEFINE key == old_vec[ovp]
           p == FindSlot(key)
<1>1. UNCHANGED <<ht_size, ht_capacity, ht_fill, ht_empty_slots, ht_hash_1,
                  ht_hash_2, old_vec, old_ht_size, result>>
  BY DEF MoveItem, hashing
<1>2. /\ Rehashing /\ ovp < old_ht_size /\ ovp' = ovp + 1
      /\ TypeOK /\ Counted /\ Apart /\ Reachable /\ Room /\ Free # {}
  BY FreeSlot DEF MoveItem, IInv
<1>3. /\ old_ht_size \in Nat /\ ovp \in Slots(old_ht_size) /\ ht_size \in Nat
      /\ ovp' \in 0..old_ht_size
      /\ key \in Items \cup {Empty, Deleted}
  <2>1. old_ht_size \in Nat /\ ht_size \in Nat  BY <1>2, CapacityType DEF TypeOK
  <2>2. ovp \in Slots(old_ht_size) /\ ovp' \in 0..old_ht_size
    BY <1>2, <2>1 DEF TypeOK, Slots
  <2> QED  BY <1>2, <2>1, <2>2 DEF TypeOK
<1>4. Waiting' = Waiting \ {ovp}
  BY <1>1, <1>2, <1>3 DEF Waiting, Slots
<1>5. CASE Vacant(key)
  <2>1. ovp \notin Waiting
    BY <1>5, NamesAssumption DEF Waiting, Vacant, Empty
  <2>2. UNCHANGED ht_vec  BY <1>5 DEF MoveItem
  <2>3. Live' = Live /\ Free' = Free /\ Waiting' = Waiting
    BY <1>1, <1>4, <2>1, <2>2 DEF Live, Free
  <2>4. Reachable'
    BY <1>1, <1>2, <2>2, <2>3, ProbeKept DEF Reachable
  <2> QED
    BY <1>1, <1>2, <1>3, <2>2, <2>3, <2>4
    DEF IInv, TypeOK, Counted, Apart, OneOfAName, Room, Rehashing
<1>6. CASE ~Vacant(key)
  <2>1. key \in Items /\ ovp \in Waiting
    BY <1>3, <1>6 DEF Vacant, Waiting, Slots
  <2>2. /\ p \in Slots(ht_size) /\ Leads(key, p)
        /\ ht_vec[p] \in Items => Name[ht_vec[p]] = Name[key]
    BY <1>2, <2>1, SlotFound
  <2>3. ht_vec[p] = Empty
    BY <1>2, <2>1, <2>2 DEF Apart, Live, TypeOK, Room
  <2>4. ht_vec' = [ht_vec EXCEPT ![p] = key]
    BY <1>6 DEF MoveItem
  <2>5. Reachable'
    BY <1>1, <1>2, <2>1, <2>2, <2>4, ReachableKept
  <2>6. ht_vec'[p] = key /\ \A s \in Slots(ht_size) \ {p} : ht_vec'[s] = ht_vec[s]
    BY <1>2, <2>2, <2>4 DEF TypeOK
  <2>7. ht_vec' \in [Slots(ht_size) -> Items \cup {Empty, Deleted}]
    BY <1>2, <2>1, <2>2, <2>4 DEF TypeOK
  <2> HIDE DEF p
  <2>8. Live' = Live \cup {p} /\ p \notin Live
    BY <1>1, <2>1, <2>2, <2>3, <2>6, NamesAssumption DEF Live, Empty
  <2>9. /\ Cardinality(Live') = Cardinality(Live) + 1
        /\ Cardinality(Waiting') = Cardinality(Waiting) - 1
    BY <1>2, <1>4, <2>1, <2>8, Finite, FS_AddElement, FS_RemoveElement
  <2>10. TypeOK'
    BY <1>1, <1>2, <1>3, <2>7 DEF TypeOK
  <2>11. Counted'
    BY <1>1, <1>2, <2>9, Finite DEF Counted, Rehashing
  <2>12. Apart'
    <3>1. \A s \in Live' : Name[ht_vec'[s]] = IF s = p THEN Name[key] ELSE Name[ht_vec[s]]
      BY <2>6, <2>8 DEF Live
    <3>2. \A s \in Live : Name[ht_vec[s]] # Name[key]
      BY <1>2, <2>1 DEF Apart
    <3>3. \A t \in Waiting' : t \in Waiting /\ Name[old_vec[t]] # Name[key]
      BY <1>2, <1>4, <2>1 DEF Apart
    <3> HIDE DEF key
    <3> QED  BY <1>1, <1>2, <2>8, <3>1, <3>2, <3>3 DEF Apart, OneOfAName
  <2>13. Room'
    BY <1>1, <1>2, <2>1, <2>6, NamesAssumption DEF Room, Rehashing
  <2> QED  BY <2>5, <2>10, <2>11, <2>12, <2>13 DEF IInv
<1> QED  BY <1>5, <1>6

(* The table rebuilt: what is not an item is an empty slot.                *)
LEMMA KeptByEndRehash ==
  ASSUME IInv, EndRehash
  PROVE  IInv'
<1>1. UNCHANGED <<ht_vec, ht_size, ht_capacity, ht_fill, ht_hash_1, ht_hash_2, result>>
  BY DEF EndRehash, hashing
<1>2. /\ Rehashing /\ ovp = old_ht_size /\ ht_empty_slots' = ht_size - ht_fill
      /\ old_vec' = NewVec(0) /\ old_ht_size' = 0 /\ ovp' = 0
      /\ TypeOK /\ Counted /\ Apart /\ Reachable /\ Room
  BY DEF EndRehash, IInv
<1>3. /\ ht_size \in Nat /\ ht_capacity \in Nat /\ ht_capacity < ht_size
      /\ ht_fill \in Nat /\ ht_fill <= ht_capacity /\ old_ht_size \in Nat
  BY <1>2, CapacityType DEF TypeOK, Room
<1>4. Waiting = {} /\ Waiting' = {} /\ Live' = Live /\ Free' = Free
  BY <1>1, <1>2, <1>3 DEF Waiting, Live, Free, Slots
<1>5. ht_fill = Cardinality(Live) /\ Cardinality(Waiting') = 0
  BY <1>2, <1>4, Finite, FS_EmptySet DEF Counted
<1>6. Cardinality(Free) = ht_size - ht_fill
  <2>1. Free = Slots(ht_size) \ Live
    BY <1>2, NamesAssumption DEF Free, Live, TypeOK, Room, Empty
  <2>2. Slots(ht_size) \cap Live = Live
    BY DEF Live
  <2>3. Cardinality(Slots(ht_size) \ Live)
          = Cardinality(Slots(ht_size)) - Cardinality(Slots(ht_size) \cap Live)
    BY <1>2, Finite, FS_Difference
  <2> QED  BY <1>2, <1>5, <2>1, <2>2, <2>3, Finite
<1>7. TypeOK'
  <2>1. old_vec' \in [Slots(old_ht_size') -> Items \cup {Empty, Deleted}]
    BY <1>2 DEF NewVec, Slots
  <2> QED  BY <1>1, <1>2, <1>3, <2>1 DEF TypeOK
<1>8. Counted'
  BY <1>1, <1>2, <1>4, <1>5, <1>6, <1>3 DEF Counted
<1>9. Apart' /\ Reachable'
  BY <1>1, <1>2, <1>4, ProbeKept DEF Apart, OneOfAName, Reachable
<1>10. Room'
  BY <1>1, <1>2, <1>3 DEF Room, Rehashing
<1> QED  BY <1>7, <1>8, <1>9, <1>10 DEF IInv

LEMMA NextIInv == IInv /\ [Next]_vars => IInv'
<1>1. ASSUME IInv, NEW item \in Items, FindItem(item) PROVE IInv'  BY <1>1, KeptByFind
<1>2. ASSUME IInv, NEW item \in Items, Insert(item) PROVE IInv'  BY <1>2, KeptByInsert
<1>3. ASSUME IInv, NEW item \in Items, Delete(item) PROVE IInv'  BY <1>3, KeptByDelete
<1>4. ASSUME IInv, UNCHANGED vars PROVE IInv'
  <2>1. Live' = Live /\ Free' = Free /\ Waiting' = Waiting
    BY <1>4 DEF vars, Live, Free, Waiting
  <2>2. Reachable'
    BY <1>4, <2>1, ProbeKept DEF vars, IInv, Reachable
  <2> QED
    BY <1>4, <2>1, <2>2
    DEF vars, IInv, TypeOK, Counted, Apart, OneOfAName, Room, Rehashing
<1> QED
  BY <1>1, <1>2, <1>3, <1>4, KeptByDeleteItems, KeptByMoveItem, KeptByEndRehash DEF Next

(* The inductive invariant.                                                *)
THEOREM Invariance == Spec => []IInv
  BY InitIInv, NextIInv, PTL DEF Spec

(* Type correctness: the counters stay within the table.                   *)
THEOREM TypeCorrect == Spec => []TypeOK
<1>1. IInv => TypeOK  BY DEF IInv
<1> QED  BY <1>1, Invariance, PTL

(* hash_find_slot meets an empty slot, so that it ends (hash.c).           *)
THEOREM SearchesEnd == Spec => []SearchEnds
<1>1. IInv => SearchEnds  BY FreeSlot DEF SearchEnds
<1> QED  BY <1>1, Invariance, PTL

(* ht_fill and ht_empty_slots count the items and the empty slots.         *)
THEOREM CountersRight == Spec => []Counted
<1>1. IInv => Counted  BY DEF IInv
<1> QED  BY <1>1, Invariance, PTL

(* No name is in the table twice.                                          *)
THEOREM NamesOnce == Spec => []OneOfAName
<1>1. IInv => OneOfAName  BY DEF IInv, Apart
<1> QED  BY <1>1, Invariance, PTL

(* No item is cut off from its search.                                     *)
THEOREM ItemsReached == Spec => []Reachable
<1>1. IInv => Reachable  BY DEF IInv
<1> QED  BY <1>1, Invariance, PTL

-----------------------------------------------------------------------------
(* Between operations the item of a name is the one in the slot found.     *)
LEMMA NamedFound ==
  ASSUME IInv, ~Rehashing, NEW key \in Items
  PROVE  /\ Contents = {ht_vec[s] : s \in Live}
         /\ D!Named(key) = IF FindSlot(key) \in Live THEN {ht_vec[FindSlot(key)]} ELSE {}
         /\ D!Only(D!Named(key)) = ItemAt(FindSlot(key))
<1> DEFINE p == FindSlot(key)
<1>1. TypeOK /\ Reachable /\ Free # {} /\ OneOfAName /\ old_ht_size = 0
  BY FreeSlot, CapacityType DEF IInv, Apart, Rehashing, TypeOK
<1>2. /\ p \in Slots(ht_size)
      /\ ht_vec[p] \in Items => Name[ht_vec[p]] = Name[key]
      /\ Vacant(ht_vec[p]) => \A s \in Live : Name[ht_vec[s]] # Name[key]
  BY <1>1, SlotFound
<1>3. ht_vec[p] \in Items \cup {Empty, Deleted}
  BY <1>1, <1>2 DEF TypeOK
<1>4. Waiting = {}  BY <1>1 DEF Waiting, Slots
<1>5. Contents = {ht_vec[s] : s \in Live}
  BY <1>4 DEF Contents
<1> HIDE DEF p
<1>6. CASE p \in Live
  <2>1. ht_vec[p] \in Items  BY <1>6 DEF Live
  <2>2. \A s \in Live : Name[ht_vec[s]] = Name[key] => s = p
    BY <1>1, <1>2, <1>6, <2>1 DEF OneOfAName
  <2>3. D!Named(key) = {ht_vec[p]}
    BY <1>2, <1>5, <1>6, <2>1, <2>2 DEF D!Named
  <2>4. D!Only({ht_vec[p]}) = ht_vec[p]
    BY DEF D!Only
  <2>5. ItemAt(p) = ht_vec[p]
    BY <2>1, NamesAssumption DEF ItemAt, Vacant, Empty
  <2> QED  BY <1>5, <1>6, <2>3, <2>4, <2>5 DEF p
<1>7. CASE p \notin Live
  <2>1. Vacant(ht_vec[p])
    BY <1>2, <1>3, <1>7 DEF Live, Vacant
  <2>2. D!Named(key) = {}
    BY <1>2, <1>5, <2>1 DEF D!Named
  <2>3. D!Only({}) = NoItem
    BY DEF D!Only
  <2>4. ItemAt(p) = NoItem
    BY <2>1 DEF ItemAt
  <2> QED  BY <1>5, <1>7, <2>2, <2>3, <2>4 DEF p
<1> QED  BY <1>6, <1>7

LEMMA FindRefines ==
  ASSUME IInv, NEW key \in Items, FindItem(key)
  PROVE  D!FindItem(key)
<1>1. UNCHANGED <<ht_vec, ht_size, old_vec, old_ht_size, ovp>> /\ ~Rehashing
  BY DEF FindItem, sizes
<1>2. Contents' = Contents
  BY <1>1 DEF Contents, Live, Waiting
<1>3. result' = D!Only(D!Named(key))
  BY <1>1, NamedFound DEF FindItem
<1> QED  BY <1>2, <1>3 DEF D!FindItem

LEMMA DeleteRefines ==
  ASSUME IInv, NEW key \in Items, Delete(key)
  PROVE  D!Delete(key)
<1> DEFINE p == FindSlot(key)
<1>1. UNCHANGED <<ht_size, old_vec, old_ht_size, ovp>> /\ ~Rehashing
  BY DEF Delete, sizes
<1>2. /\ Contents = {ht_vec[s] : s \in Live}
      /\ D!Named(key) = IF p \in Live THEN {ht_vec[p]} ELSE {}
      /\ D!Only(D!Named(key)) = ItemAt(p)
  BY <1>1, NamedFound
<1>3. TypeOK /\ Reachable /\ Free # {} /\ OneOfAName /\ old_ht_size = 0
  BY <1>1, FreeSlot, CapacityType DEF IInv, Apart, Rehashing, TypeOK
<1>4. p \in Slots(ht_size) /\ ht_vec[p] \in Items \cup {Empty, Deleted}
  BY <1>3, SlotFound DEF TypeOK
<1>5. Waiting' = {}  BY <1>1, <1>3 DEF Waiting, Slots
<1>6. Contents' = {ht_vec'[s] : s \in Live'}
  BY <1>5 DEF Contents
<1>7. CASE Vacant(ht_vec[p])
  <2>1. p \notin Live  BY <1>7, NamesAssumption DEF Live, Vacant, Empty
  <2>2. UNCHANGED ht_vec  BY <1>7 DEF Delete
  <2>3. Live' = Live  BY <1>1, <2>2 DEF Live
  <2>4. Contents' = Contents  BY <1>2, <1>6, <2>2, <2>3
  <2> QED  BY <1>2, <2>1, <2>4 DEF D!Delete, Delete
<1>8. CASE ~Vacant(ht_vec[p])
  <2>1. p \in Live  BY <1>4, <1>8 DEF Live, Vacant
  <2>2. ht_vec' = [ht_vec EXCEPT ![p] = Deleted]  BY <1>8 DEF Delete
  <2>3. ht_vec'[p] = Deleted /\ \A s \in Slots(ht_size) \ {p} : ht_vec'[s] = ht_vec[s]
    BY <1>3, <1>4, <2>2 DEF TypeOK
  <2> HIDE DEF p
  <2>4. Live' = Live \ {p}
    BY <1>1, <1>4, <2>3, NamesAssumption DEF Live
  <2>5. \A s \in Live : ht_vec[s] = ht_vec[p] => s = p
    BY <1>3, <2>1 DEF OneOfAName
  <2>6. \A s \in Live' : ht_vec'[s] = ht_vec[s]
    BY <2>3, <2>4 DEF Live
  <2>7. Contents' = Contents \ {ht_vec[p]}
    BY <1>2, <1>6, <2>4, <2>5, <2>6
  <2>8. result' = ItemAt(p)  BY DEF Delete, p
  <2> QED  BY <1>2, <2>1, <2>7, <2>8 DEF D!Delete
<1> QED  BY <1>7, <1>8

LEMMA InsertRefines ==
  ASSUME IInv, NEW key \in Items, Insert(key)
  PROVE  D!Insert(key)
<1> DEFINE p == FindSlot(key)
           vec == With(key)
<1>1. ~Rehashing /\ result' = ItemAt(p)
  BY DEF Insert
<1>2. /\ Contents = {ht_vec[s] : s \in Live}
      /\ D!Named(key) = IF p \in Live THEN {ht_vec[p]} ELSE {}
      /\ D!Only(D!Named(key)) = ItemAt(p)
  BY <1>1, NamedFound
<1>3. TypeOK /\ OneOfAName /\ old_ht_size = 0 /\ ht_size \in Nat
  BY <1>1, CapacityType DEF IInv, Apart, Rehashing, TypeOK
<1>4. /\ p \in Slots(ht_size)
      /\ {s \in Slots(ht_size) : vec[s] \in Items} = Live \cup {p}
  BY <1>1, Inserted DEF AfterInsert
<1>5. vec[p] = key /\ \A s \in Slots(ht_size) \ {p} : vec[s] = ht_vec[s]
  BY <1>3, <1>4 DEF TypeOK, With
<1>6. Contents' = {vec[s] : s \in Live \cup {p}}
  <2>1. CASE ht_vec' = vec /\ UNCHANGED sizes
    <3>1. UNCHANGED <<ht_size, old_vec, old_ht_size, ovp>>  BY <2>1 DEF sizes
    <3> HIDE DEF p, vec
    <3>2. Waiting' = {}  BY <1>3, <3>1 DEF Waiting, Slots
    <3>3. Live' = Live \cup {p}  BY <1>4, <2>1, <3>1 DEF Live
    <3> QED  BY <2>1, <3>2, <3>3 DEF Contents
  <2>2. CASE StartRehash(vec, FillAfter(p))
    <3> HIDE DEF p, vec
    <3>1. /\ old_vec' = vec /\ old_ht_size' = ht_size /\ ovp' = 0
          /\ ht_size' = NewSize(FillAfter(p)) /\ ht_vec' = NewVec(NewSize(FillAfter(p)))
      BY <2>2 DEF StartRehash
    <3>2. Live' = {}
      BY <3>1, NamesAssumption DEF Live, NewVec, Slots, Empty
    <3>3. Waiting' = {s \in Slots(ht_size) : s >= 0 /\ vec[s] \in Items}
      BY <3>1 DEF Waiting
    <3>4. Waiting' = Live \cup {p}
      BY <1>3, <1>4, <3>3 DEF Slots
    <3> QED  BY <3>1, <3>2, <3>4 DEF Contents
  <2> QED  BY <2>1, <2>2 DEF Insert, With
<1> HIDE DEF p, vec
<1>7. Contents' = (Contents \ D!Named(key)) \cup {key}
  <2>1. CASE p \in Live
    <3>1. \A s \in Live : ht_vec[s] = ht_vec[p] => s = p
      BY <1>3, <2>1 DEF OneOfAName
    <3>2. \A s \in Live : s # p => vec[s] = ht_vec[s]
      BY <1>5 DEF Live
    <3> QED  BY <1>2, <1>5, <1>6, <2>1, <3>1, <3>2
  <2>2. CASE p \notin Live
    <3>1. \A s \in Live : vec[s] = ht_vec[s]
      BY <1>5, <2>2 DEF Live
    <3> QED  BY <1>2, <1>5, <1>6, <2>2, <3>1
  <2> QED  BY <2>1, <2>2
<1> QED  BY <1>1, <1>2, <1>7 DEF D!Insert

(* hash_rehash is not to be seen.                                          *)
LEMMA MoveRefines ==
  ASSUME IInv, MoveItem
  PROVE  UNCHANGED <<Contents, result>>
<1> DEFINE key == old_vec[ovp]
           p == FindSlot(key)
<1>1. UNCHANGED <<ht_size, old_vec, old_ht_size, result>>
  BY DEF MoveItem
<1>2. /\ Rehashing /\ ovp < old_ht_size /\ ovp' = ovp + 1
      /\ TypeOK /\ Apart /\ Reachable /\ Room /\ Free # {}
  BY FreeSlot DEF MoveItem, IInv
<1>3. old_ht_size \in Nat /\ ovp \in Slots(old_ht_size)
      /\ key \in Items \cup {Empty, Deleted}
  <2>1. old_ht_size \in Nat  BY <1>2, CapacityType DEF TypeOK
  <2>2. ovp \in Slots(old_ht_size)  BY <1>2, <2>1 DEF TypeOK, Slots
  <2> QED  BY <1>2, <2>1, <2>2 DEF TypeOK
<1>4. Waiting' = Waiting \ {ovp}
  BY <1>1, <1>2, <1>3 DEF Waiting, Slots
<1>5. CASE Vacant(key)
  <2>1. ovp \notin Waiting
    BY <1>5, NamesAssumption DEF Waiting, Vacant, Empty
  <2>2. UNCHANGED ht_vec  BY <1>5 DEF MoveItem
  <2>3. Live' = Live /\ Waiting' = Waiting
    BY <1>1, <1>4, <2>1, <2>2 DEF Live
  <2> QED  BY <1>1, <2>2, <2>3 DEF Contents
<1>6. CASE ~Vacant(key)
  <2>1. key \in Items /\ ovp \in Waiting
    BY <1>3, <1>6 DEF Vacant, Waiting, Slots
  <2>2. /\ p \in Slots(ht_size)
        /\ ht_vec[p] \in Items => Name[ht_vec[p]] = Name[key]
    BY <1>2, <2>1, SlotFound
  <2>3. p \notin Live
    BY <1>2, <2>1, <2>2 DEF Apart, Live
  <2>4. ht_vec' = [ht_vec EXCEPT ![p] = key]
    BY <1>6 DEF MoveItem
  <2>5. ht_vec'[p] = key /\ \A s \in Slots(ht_size) \ {p} : ht_vec'[s] = ht_vec[s]
    BY <1>2, <2>2, <2>4 DEF TypeOK
  <2> HIDE DEF p
  <2>6. Live' = Live \cup {p} /\ \A s \in Live : ht_vec'[s] = ht_vec[s]
    BY <1>1, <2>1, <2>2, <2>3, <2>5 DEF Live
  <2>7. {ht_vec'[s] : s \in Live'} = {ht_vec[s] : s \in Live} \cup {key}
    BY <2>3, <2>5, <2>6
  <2>8. {old_vec'[s] : s \in Waiting'} \cup {key} = {old_vec[s] : s \in Waiting}
    BY <1>1, <1>4, <2>1
  <2> QED  BY <1>1, <2>7, <2>8 DEF Contents
<1> QED  BY <1>5, <1>6

LEMMA EndRefines ==
  ASSUME IInv, EndRehash
  PROVE  UNCHANGED <<Contents, result>>
<1>1. UNCHANGED <<ht_vec, ht_size, result>> /\ old_ht_size' = 0
      /\ ovp = old_ht_size /\ old_ht_size \in Nat
  BY CapacityType DEF EndRehash, IInv, TypeOK
<1>2. Waiting = {} /\ Waiting' = {} /\ Live' = Live
  BY <1>1 DEF Waiting, Live, Slots
<1> QED  BY <1>1, <1>2 DEF Contents

LEMMA DeleteItemsRefines ==
  ASSUME IInv, DeleteItems
  PROVE  D!DeleteItems
<1>1. /\ UNCHANGED <<ht_size, old_ht_size>> /\ ht_vec' = NewVec(ht_size)
      /\ result' = NoItem /\ old_ht_size = 0
  BY CapacityType DEF DeleteItems, sizes, IInv, TypeOK, Rehashing
<1>2. Live' = {} /\ Waiting' = {}
  BY <1>1, NamesAssumption DEF Live, Waiting, NewVec, Slots, Empty
<1> QED  BY <1>1, <1>2 DEF D!DeleteItems, Contents

(* hash.c implements the dictionary its callers count on.                  *)
THEOREM Refinement == Spec => IsDictionary
<1>1. Init => D!Init
  <2> SUFFICES ASSUME Init PROVE D!Init  OBVIOUS
  <2>1. Live = {} /\ Waiting = {}
    BY NamesAssumption DEF Init, Live, Waiting, NewVec, Slots, Empty
  <2> QED  BY <2>1 DEF D!Init, Init, Contents
<1>2. IInv /\ [Next]_vars => [D!Next]_<<Contents, result>>
  <2> SUFFICES ASSUME IInv, [Next]_vars PROVE [D!Next]_<<Contents, result>>
    OBVIOUS
  <2>1. ASSUME NEW item \in Items, FindItem(item) \/ Insert(item) \/ Delete(item)
        PROVE  D!Next
    BY <2>1, FindRefines, InsertRefines, DeleteRefines DEF D!Next
  <2>2. ASSUME DeleteItems PROVE D!Next
    BY <2>2, DeleteItemsRefines DEF D!Next
  <2>3. ASSUME MoveItem \/ EndRehash PROVE UNCHANGED <<Contents, result>>
    BY <2>3, MoveRefines, EndRefines
  <2>4. ASSUME UNCHANGED vars PROVE UNCHANGED <<Contents, result>>
    BY <2>4 DEF vars, Contents, Live, Waiting
  <2> QED  BY <2>1, <2>2, <2>3, <2>4 DEF Next
<1> QED  BY <1>1, <1>2, Invariance, PTL DEF Spec, D!Spec, IsDictionary
=============================================================================
