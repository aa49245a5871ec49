-------------------------- MODULE HashTable_proofs --------------------------
(***************************************************************************)
(* The hash table is a dictionary, for every set of keys, hash function,   *)
(* capacity, and history of insertions, growth and deletions.              *)
(*                                                                         *)
(* An array of slots is well placed when no two items have the same key    *)
(* and no probe for a stored key meets an empty slot before it.  The       *)
(* lemmas say what findItem() returns in such an array, and that storing   *)
(* and erasing where it points keeps the array well placed and changes its *)
(* pairs as they should.  adjustCapacity() builds a second such array.     *)
(***************************************************************************)
EXTENDS HashTable, FiniteSetTheorems, TLAPS

Array(c) == [Indices(c) -> Slots]
Placed(array, c) == UniqueKeys(array, c) /\ Reachable(array, c)

LEMMA SlotKinds ==
  /\ \A x \in Slots : x.kind \in {"empty", "tombstone", "item"}
  /\ \A x \in Slots : x.kind = "item" => x.key \in Keys /\ x.value \in Values /\ x = Item(x.key, x.value)
  /\ \A x \in Slots : x.kind = "empty" => x = Empty
  /\ \A x \in Slots : x.kind = "tombstone" => x = Tombstone
  /\ \A k \in Keys, v \in Values : Item(k, v) \in Slots
  /\ \A k, v : Item(k, v).kind = "item" /\ Item(k, v).key = k /\ Item(k, v).value = v
  /\ Empty \in Slots /\ Empty.kind = "empty"
  /\ Tombstone \in Slots /\ Tombstone.kind = "tombstone"
  /\ \A k, v : Item(k, v) /= Empty
  /\ Tombstone /= Empty
<1>1. \A k, v : Item(k, v).kind = "item" /\ Item(k, v).key = k /\ Item(k, v).value = v
  BY DEF Item
<1>2. Empty.kind = "empty" /\ Tombstone.kind = "tombstone"
  BY DEF Empty, Tombstone
<1>3. \A x \in Slots : x = Empty \/ x = Tombstone \/ \E k \in Keys, v \in Values : x = Item(k, v)
  BY DEF Slots
<1>4. Empty \in Slots /\ Tombstone \in Slots /\ \A k \in Keys, v \in Values : Item(k, v) \in Slots
  BY DEF Slots
<1>5. \A x \in Slots : x.kind \in {"empty", "tombstone", "item"}
  BY <1>1, <1>2, <1>3
<1>6. \A x \in Slots : x.kind = "item" => x.key \in Keys /\ x.value \in Values /\ x = Item(x.key, x.value)
  BY <1>1, <1>2, <1>3
<1>9. \A x \in Slots : x.kind = "tombstone" => x = Tombstone
  BY <1>1, <1>2, <1>3
<1>7. \A x \in Slots : x.kind = "empty" => x = Empty
  BY <1>1, <1>2, <1>3
<1>8. Tombstone /= Empty /\ \A k, v : Item(k, v) /= Empty
  BY <1>1, <1>2
<1> QED BY <1>1, <1>2, <1>4, <1>5, <1>6, <1>7, <1>8, <1>9

LEMMA ProbeInRange ==
  ASSUME NEW c \in Nat, NEW k \in Keys, NEW i \in Indices(c)
  PROVE  Probe(c, k, i) \in Indices(c)
<1>1. Hash[k] \in Nat /\ i \in Nat /\ c > 0
  BY HashAssumption DEF Indices
<1>2. (Hash[k] + i) % c \in 0..(c - 1)
  BY <1>1
<1> QED BY <1>2 DEF Probe, Indices

(* What findItem() returns: the key's item, and an empty or deleted one    *)
(* only when the key is not stored.                                        *)
LEMMA FoundItem ==
  ASSUME NEW c \in Nat, NEW array \in Array(c), NEW k \in Keys, NEW s,
         Placed(array, c), FindItem(array, c, k, s)
  PROVE  /\ s \in Indices(c)
         /\ array[s].kind = "item" => array[s].key = k
         /\ array[s].kind /= "item" => \A t \in Full(array, c) : array[t].key /= k
         /\ \E i \in Indices(c) : /\ Probe(c, k, i) = s
                                  /\ \A j \in Indices(i) : array[Probe(c, k, j)] /= Empty
<1>1. PICK i \in Indices(c) :
        /\ Ends(array, c, k, i)
        /\ IF array[Probe(c, k, i)] = Empty
                /\ \E t \in Indices(i) : array[Probe(c, k, t)] = Tombstone
           THEN \E t \in Indices(i) :
                  /\ s = Probe(c, k, t)
                  /\ array[s] = Tombstone
                  /\ \A j \in Indices(t) : array[Probe(c, k, j)] /= Tombstone
           ELSE s = Probe(c, k, i)
  BY DEF FindItem
<1>2. i \in Nat /\ \A j \in Indices(i) : j \in Indices(c) /\ j < i
  BY DEF Indices
<1>3. Probe(c, k, i) \in Indices(c) /\ \A j \in Indices(i) : Probe(c, k, j) \in Indices(c)
  BY <1>2, ProbeInRange
<1>4. \A j \in Indices(i) : ~Stops(array, k, Probe(c, k, j))
  BY <1>1 DEF Ends
<1>5. array[Probe(c, k, i)] = Empty => \A t \in Full(array, c) : array[t].key /= k
  <2> SUFFICES ASSUME array[Probe(c, k, i)] = Empty,
                      NEW t \in Full(array, c), array[t].key = k
               PROVE FALSE
    OBVIOUS
  <2>1. PICK n \in Indices(c) :
          Probe(c, k, n) = t /\ \A j \in Indices(n) : array[Probe(c, k, j)] /= Empty
    BY DEF Placed, Reachable
  <2>2. Stops(array, k, Probe(c, k, n))
    BY <2>1 DEF Stops, Full
  <2>3. ~(n < i)
    BY <1>4, <2>2 DEF Indices
  <2>4. ~(i < n)
    BY <2>1, <1>2 DEF Indices
  <2>5. i = n
    BY <2>3, <2>4 DEF Indices
  <2>6. array[t].kind = "item"
    BY DEF Full
  <2> QED BY <2>1, <2>5, <2>6, SlotKinds
<1>6. CASE array[Probe(c, k, i)] = Empty /\ \E t \in Indices(i) : array[Probe(c, k, t)] = Tombstone
  <2>1. PICK t \in Indices(i) : s = Probe(c, k, t) /\ array[s] = Tombstone
    BY <1>1, <1>6
  <2>2. t \in Indices(c) /\ s \in Indices(c) /\ array[s].kind /= "item"
    BY <1>2, <1>3, <2>1, SlotKinds
  <2>3. \A j \in Indices(t) : j \in Indices(i)
    BY <1>2 DEF Indices
  <2>4. \A j \in Indices(t) : array[Probe(c, k, j)] /= Empty
    BY <1>4, <2>3 DEF Stops
  <2> QED BY <1>5, <1>6, <2>1, <2>2, <2>4
<1>7. CASE ~(array[Probe(c, k, i)] = Empty /\ \E t \in Indices(i) : array[Probe(c, k, t)] = Tombstone)
  <2>1. s = Probe(c, k, i) /\ s \in Indices(c) /\ Stops(array, k, s)
    BY <1>1, <1>3, <1>7 DEF Ends
  <2>2. array[s].kind = "item" => array[s].key = k
    BY <2>1, SlotKinds DEF Stops
  <2>3. array[s].kind /= "item" => array[s] = Empty
    BY <2>1 DEF Stops
  <2>4. \A j \in Indices(i) : array[Probe(c, k, j)] /= Empty
    BY <1>4 DEF Stops
  <2> QED BY <1>5, <2>1, <2>2, <2>3, <2>4
<1> QED BY <1>6, <1>7

Without(pairs, k) == {p \in pairs : p[1] /= k}

Stored(array, s, k, v) == [array EXCEPT ![s] = Item(k, v)]
Marked(array, s) == [array EXCEPT ![s] = Tombstone]

\* Storing an item where findItem() points.
LEMMA StoreItem ==
  ASSUME NEW c \in Nat, NEW array \in Array(c), NEW k \in Keys, NEW v \in Values, NEW s,
         Placed(array, c), FindItem(array, c, k, s)
  PROVE  /\ Stored(array, s, k, v) \in Array(c)
         /\ Placed(Stored(array, s, k, v), c)
         /\ PairsOf(Stored(array, s, k, v), c) = Without(PairsOf(array, c), k) \cup {<<k, v>>}
<1> DEFINE new == [array EXCEPT ![s] = Item(k, v)]
<1>1. /\ s \in Indices(c)
      /\ array[s].kind = "item" => array[s].key = k
      /\ array[s].kind /= "item" => \A t \in Full(array, c) : array[t].key /= k
      /\ \E i \in Indices(c) : /\ Probe(c, k, i) = s
                               /\ \A j \in Indices(i) : array[Probe(c, k, j)] /= Empty
  BY FoundItem
<1>2. new \in Array(c)
  BY <1>1, SlotKinds DEF Array
<1>3. new[s] = Item(k, v) /\ \A t \in Indices(c) \ {s} : new[t] = array[t]
  BY <1>1 DEF Array
<1>10. new[s].key = k /\ new[s].value = v /\ new[s].kind = "item"
  BY <1>3 DEF Item
<1>4. Full(new, c) = Full(array, c) \cup {s}
  BY <1>1, <1>3, SlotKinds DEF Full
<1>5. \A t \in Full(array, c) \ {s} : array[t].key /= k
  BY <1>1 DEF Placed, UniqueKeys, Full
<1>6. UniqueKeys(new, c)
  <2> SUFFICES ASSUME NEW t \in Full(new, c), NEW u \in Full(new, c), new[t].key = new[u].key
               PROVE t = u
    BY DEF UniqueKeys
  <2>1. t \in Indices(c) /\ u \in Indices(c)
    BY DEF Full
  <2>5. \A n \in Full(new, c) \ {s} : n \in Full(array, c) \ {s} /\ new[n].key = array[n].key
    BY <1>3, <1>4 DEF Full
  <2>2. CASE t /= s /\ u /= s
    BY <2>2, <2>5 DEF Placed, UniqueKeys
  <2>3. CASE t = s
    BY <1>10, <1>5, <2>3, <2>5
  <2>4. CASE u = s
    BY <1>10, <1>5, <2>4, <2>5
  <2> QED BY <2>2, <2>3, <2>4
<1>7. \A t \in Indices(c) : array[t] /= Empty => new[t] /= Empty
  BY <1>3, SlotKinds
<1>8. Reachable(new, c)
  <2> SUFFICES ASSUME NEW t \in Full(new, c)
               PROVE \E i \in Indices(c) :
                       /\ Probe(c, new[t].key, i) = t
                       /\ \A j \in Indices(i) : new[Probe(c, new[t].key, j)] /= Empty
    BY DEF Reachable
  <2>1. t \in Indices(c) /\ new[t].key \in Keys
    BY <1>2, SlotKinds DEF Full, Array
  <2>2. \E i \in Indices(c) : /\ Probe(c, new[t].key, i) = t
                              /\ \A j \in Indices(i) : array[Probe(c, new[t].key, j)] /= Empty
    <3>1. CASE t = s
      BY <1>1, <1>10, <3>1
    <3>2. CASE t /= s
      <4>1. t \in Full(array, c) /\ new[t] = array[t]
        BY <1>3, <1>4, <2>1, <3>2
      <4> QED BY <4>1 DEF Placed, Reachable
    <3> QED BY <3>1, <3>2
  <2>3. PICK i \in Indices(c) : /\ Probe(c, new[t].key, i) = t
                                /\ \A j \in Indices(i) : array[Probe(c, new[t].key, j)] /= Empty
    BY <2>2
  <2>4. \A j \in Indices(i) : j \in Indices(c)
    BY DEF Indices
  <2>5. \A j \in Indices(i) : Probe(c, new[t].key, j) \in Indices(c)
    BY <2>1, <2>4, ProbeInRange
  <2>6. \A j \in Indices(i) : new[Probe(c, new[t].key, j)] /= Empty
    BY <1>7, <2>3, <2>5
  <2> QED BY <2>3, <2>6
<1>9. PairsOf(new, c) = Without(PairsOf(array, c), k) \cup {<<k, v>>}
  <2>1. \A t \in Full(array, c) \ {s} : new[t] = array[t] /\ array[t].key /= k
    BY <1>3, <1>5 DEF Full
  <2>2. s \in Full(array, c) => array[s].key = k
    BY <1>1 DEF Full
  <2>3. <<new[s].key, new[s].value>> = <<k, v>>
    BY <1>10
  <2>4. PairsOf(new, c) \subseteq Without(PairsOf(array, c), k) \cup {<<k, v>>}
    <3> SUFFICES ASSUME NEW t \in Full(new, c)
                 PROVE <<new[t].key, new[t].value>> \in Without(PairsOf(array, c), k) \cup {<<k, v>>}
      BY DEF PairsOf
    <3>1. CASE t = s
      BY <2>3, <3>1
    <3>2. CASE t /= s
      BY <1>4, <2>1, <3>2 DEF Without, PairsOf
    <3> QED BY <3>1, <3>2
  <2>5. <<k, v>> \in PairsOf(new, c)
    BY <1>4, <2>3 DEF PairsOf
  <2>6. Without(PairsOf(array, c), k) \subseteq PairsOf(new, c)
    <3> SUFFICES ASSUME NEW p \in Without(PairsOf(array, c), k)
                 PROVE p \in PairsOf(new, c)
      OBVIOUS
    <3>1. PICK t \in Full(array, c) : p = <<array[t].key, array[t].value>> /\ array[t].key /= k
      BY DEF Without, PairsOf
    <3>2. t \in Full(new, c) /\ new[t] = array[t]
      BY <1>4, <2>1, <2>2, <3>1
    <3> QED BY <3>1, <3>2 DEF PairsOf
  <2> QED BY <2>4, <2>5, <2>6
<1> QED BY <1>2, <1>6, <1>8, <1>9 DEF Placed, Stored

\* Erasing an item leaves a tombstone that no probe stops at.
LEMMA EraseItem ==
  ASSUME NEW c \in Nat, NEW array \in Array(c), NEW s \in Full(array, c), Placed(array, c)
  PROVE  /\ Marked(array, s) \in Array(c)
         /\ Placed(Marked(array, s), c)
         /\ PairsOf(Marked(array, s), c) = Without(PairsOf(array, c), array[s].key)
<1> DEFINE new == [array EXCEPT ![s] = Tombstone]
<1>1. s \in Indices(c) /\ array[s].kind = "item" /\ new \in Array(c)
  BY SlotKinds DEF Full, Array
<1>2. new[s] = Tombstone /\ \A t \in Indices(c) \ {s} : new[t] = array[t]
  BY <1>1 DEF Array
<1>3. Full(new, c) = Full(array, c) \ {s}
  BY <1>1, <1>2, SlotKinds DEF Full
<1>4. UniqueKeys(new, c)
  BY <1>2, <1>3 DEF Placed, UniqueKeys, Full
<1>5. Reachable(new, c)
  <2> SUFFICES ASSUME NEW t \in Full(new, c)
               PROVE \E i \in Indices(c) :
                       /\ Probe(c, new[t].key, i) = t
                       /\ \A j \in Indices(i) : new[Probe(c, new[t].key, j)] /= Empty
    BY DEF Reachable
  <2>1. t \in Full(array, c) /\ new[t] = array[t] /\ new[t].key \in Keys
    BY <1>2, <1>3, SlotKinds DEF Full, Array
  <2>2. PICK i \in Indices(c) : /\ Probe(c, new[t].key, i) = t
                                /\ \A j \in Indices(i) : array[Probe(c, new[t].key, j)] /= Empty
    BY <2>1 DEF Placed, Reachable
  <2>3. \A j \in Indices(i) : j \in Indices(c)
    BY DEF Indices
  <2>4. \A j \in Indices(i) : Probe(c, new[t].key, j) \in Indices(c)
    BY <2>1, <2>3, ProbeInRange
  <2>5. \A j \in Indices(i) : new[Probe(c, new[t].key, j)] /= Empty
    BY <1>2, <2>2, <2>4, SlotKinds
  <2> QED BY <2>2, <2>5
<1>6. PairsOf(new, c) = Without(PairsOf(array, c), array[s].key)
  <2>1. \A t \in Full(array, c) : t /= s <=> array[t].key /= array[s].key
    BY DEF Placed, UniqueKeys
  <2>2. \A t \in Full(array, c) \ {s} : new[t] = array[t]
    BY <1>2 DEF Full
  <2>3. PairsOf(new, c) \subseteq Without(PairsOf(array, c), array[s].key)
    <3> SUFFICES ASSUME NEW t \in Full(new, c)
                 PROVE <<new[t].key, new[t].value>> \in Without(PairsOf(array, c), array[s].key)
      BY DEF PairsOf
    <3>1. t \in Full(array, c) /\ new[t] = array[t] /\ array[t].key /= array[s].key
      BY <1>3, <2>1, <2>2
    <3> QED BY <3>1 DEF PairsOf, Without
  <2>4. Without(PairsOf(array, c), array[s].key) \subseteq PairsOf(new, c)
    <3> SUFFICES ASSUME NEW p \in Without(PairsOf(array, c), array[s].key)
                 PROVE p \in PairsOf(new, c)
      OBVIOUS
    <3>2. PICK t \in Full(array, c) : p = <<array[t].key, array[t].value>> /\ array[t].key /= array[s].key
      BY DEF PairsOf, Without
    <3>1. t \in Full(new, c) /\ new[t] = array[t]
      BY <1>3, <2>1, <2>2, <3>2
    <3> QED BY <3>1, <3>2 DEF PairsOf
  <2> QED BY <2>3, <2>4
<1> QED BY <1>1, <1>4, <1>5, <1>6 DEF Placed, Marked

-----------------------------------------------------------------------------
PlacedInv == TypeOK /\ WellPlaced /\ GrowthKeepsItems

LEMMA NewCapacityType == TypeOK => NewCapacity \in Nat
BY CapacityAssumption DEF TypeOK, NewCapacity

LEMMA EmptyArray ==
  ASSUME NEW c \in Nat
  PROVE  /\ NoItems(c) \in Array(c)
         /\ Placed(NoItems(c), c)
         /\ PairsOf(NoItems(c), c) = {}
<1>1. NoItems(c) \in Array(c)
  BY SlotKinds DEF NoItems, Array
<1>2. Full(NoItems(c), c) = {}
  BY SlotKinds DEF Full, NoItems
<1> QED BY <1>1, <1>2 DEF Placed, UniqueKeys, Reachable, PairsOf

LEMMA InitInv == Init => PlacedInv
<1> SUFFICES ASSUME Init PROVE PlacedInv
  OBVIOUS
<1>1. NoItems(0) \in Array(0) /\ Placed(NoItems(0), 0)
  BY EmptyArray
<1> QED BY <1>1 DEF Init, PlacedInv, TypeOK, WellPlaced, GrowthKeepsItems, Placed, Array

(* tableSet() before the item is stored.                                   *)
LEMMA SetInv ==
  ASSUME PlacedInv, NEW k \in Keys, NEW v \in Values, Set(k, v) PROVE PlacedInv'
<1>1. NewCapacity \in Nat /\ NewCapacity' = NewCapacity
  BY NewCapacityType DEF PlacedInv, Set, NewCapacity
<1>2. UNCHANGED <<capacity, items>> /\ WellPlaced'
  BY DEF PlacedInv, Set, WellPlaced, UniqueKeys, Reachable, Full
<1>3. CASE Crowded
  <2>1. phase' = "grow" /\ fresh' = NoItems(NewCapacity) /\ from' = 0 /\ used' = 0 /\ call' = <<k, v>>
    BY <1>3 DEF Set
  <2>2. fresh' \in Array(NewCapacity) /\ Placed(fresh', NewCapacity) /\ PairsOf(fresh', NewCapacity) = {}
    BY <1>1, <2>1, EmptyArray
  <2>3. TypeOK'
    BY <1>1, <1>2, <2>1, <2>2 DEF PlacedInv, TypeOK, Array
  <2>4. {t \in Full(items', capacity') : t < from'} = {}
    BY <2>1, <1>2 DEF Full, Indices, PlacedInv, TypeOK
  <2>5. GrowthKeepsItems'
    BY <1>1, <2>1, <2>2, <2>4 DEF GrowthKeepsItems, Placed, PairsOf, UniqueKeys, Reachable, Full
  <2> QED BY <1>2, <2>3, <2>5 DEF PlacedInv
<1>4. CASE ~Crowded
  <2>1. phase' = "store" /\ call' = <<k, v>> /\ UNCHANGED <<fresh, from, used>>
    BY <1>4 DEF Set
  <2> QED BY <1>2, <2>1 DEF PlacedInv, TypeOK, GrowthKeepsItems
<1> QED BY <1>3, <1>4

LEMMA CopyItemInv == ASSUME PlacedInv, CopyItem PROVE PlacedInv'
<1>1. NewCapacity \in Nat /\ NewCapacity' = NewCapacity
  BY NewCapacityType DEF PlacedInv, CopyItem, NewCapacity
<1>2. /\ phase = "grow" /\ phase' = "grow" /\ from < capacity /\ from' = from + 1
      /\ UNCHANGED <<capacity, items, call>>
      /\ from \in Indices(capacity)
  BY DEF CopyItem, NextItem, PlacedInv, TypeOK, Indices
<1>3. WellPlaced'
  BY <1>2 DEF PlacedInv, WellPlaced, UniqueKeys, Reachable, Full
<1>4. fresh \in Array(NewCapacity) /\ Placed(fresh, NewCapacity)
  BY <1>2 DEF PlacedInv, TypeOK, GrowthKeepsItems, Placed, Array
<1>5. \A n : {t \in Full(items, capacity) : t < n}' = {t \in Full(items, capacity) : t < n'}
  BY <1>2 DEF Full
<1>6. {t \in Full(items, capacity) : t < from + 1}
        = {t \in Full(items, capacity) : t < from} \cup (Full(items, capacity) \cap {from})
  BY <1>2 DEF Full, Indices, PlacedInv, TypeOK
<1>7. CASE items[from].kind = "item"
  <2>1. PICK s \in Indices(NewCapacity) :
          FindItem(fresh, NewCapacity, items[from].key, s) /\ fresh' = Rehashed(s)
    BY <1>7 DEF CopyItem
  <2>2. items[from].key \in Keys /\ items[from].value \in Values
        /\ items[from] = Item(items[from].key, items[from].value)
    BY <1>2, <1>7, SlotKinds DEF PlacedInv, TypeOK
  <2>3. fresh' = Stored(fresh, s, items[from].key, items[from].value)
    BY <2>1, <2>2 DEF Rehashed, Stored
  <2>4. /\ fresh' \in Array(NewCapacity)
        /\ Placed(fresh', NewCapacity)
        /\ PairsOf(fresh', NewCapacity)
             = Without(PairsOf(fresh, NewCapacity), items[from].key)
                 \cup {<<items[from].key, items[from].value>>}
    BY <1>1, <1>4, <2>1, <2>2, <2>3, StoreItem
  <2>5. TypeOK'
    BY <1>1, <1>2, <1>7, <2>4 DEF PlacedInv, TypeOK, Array, CopyItem
  <2>6. PairsOf(fresh, NewCapacity)
          = {<<items[s_1].key, items[s_1].value>> : s_1 \in {t \in Full(items, capacity) : t < from}}
    BY <1>2 DEF PlacedInv, GrowthKeepsItems
  <2>7. \A t \in Full(items, capacity) : t < from => items[t].key /= items[from].key
    BY <1>2, <1>7 DEF PlacedInv, WellPlaced, UniqueKeys, Full, TypeOK
  <2>8. Without(PairsOf(fresh, NewCapacity), items[from].key) = PairsOf(fresh, NewCapacity)
    BY <2>6, <2>7 DEF Without
  <2>9. PairsOf(fresh', NewCapacity)
          = {<<items[n].key, items[n].value>> : n \in {t \in Full(items, capacity) : t < from + 1}}
    <3>1. {t \in Full(items, capacity) : t < from + 1} = {t \in Full(items, capacity) : t < from} \cup {from}
      BY <1>2, <1>6, <1>7 DEF Full
    <3> QED BY <2>4, <2>6, <2>8, <3>1
  <2>10. GrowthKeepsItems'
    <3>1. GrowthKeepsItems' <=>
            (phase' = "grow" =>
               /\ PairsOf(fresh', NewCapacity)
                    = {<<items[n].key, items[n].value>> : n \in {t \in Full(items, capacity) : t < from + 1}}
               /\ UniqueKeys(fresh', NewCapacity) /\ Reachable(fresh', NewCapacity))
      BY <1>1, <1>2 DEF GrowthKeepsItems, PairsOf, UniqueKeys, Reachable, Full
    <3> QED BY <2>4, <2>9, <3>1 DEF Placed
  <2> QED BY <1>3, <2>5, <2>10 DEF PlacedInv
<1>8. CASE items[from].kind /= "item"
  <2>1. UNCHANGED <<fresh, used>>
    BY <1>8 DEF CopyItem
  <2>2. TypeOK'
    BY <1>1, <1>2, <2>1 DEF PlacedInv, TypeOK
  <2>3. {t \in Full(items, capacity) : t < from + 1} = {t \in Full(items, capacity) : t < from}
    BY <1>6, <1>8 DEF Full
  <2>4. GrowthKeepsItems'
    BY <1>1, <1>2, <2>1, <2>3 DEF PlacedInv, GrowthKeepsItems, PairsOf, UniqueKeys, Reachable, Full
  <2> QED BY <1>3, <2>2, <2>4 DEF PlacedInv
<1> QED BY <1>7, <1>8

LEMMA GrownInv == ASSUME PlacedInv, Grown PROVE PlacedInv' /\ PairsOf(items, capacity)' = PairsOf(items, capacity)
<1>1. /\ phase = "grow" /\ phase' = "store" /\ from = capacity
      /\ items' = fresh /\ capacity' = NewCapacity /\ UNCHANGED <<used, call, from>>
  BY DEF Grown
<1>2. /\ NewCapacity \in Nat
      /\ fresh \in [Indices(NewCapacity) -> Slots]
      /\ UniqueKeys(fresh, NewCapacity) /\ Reachable(fresh, NewCapacity)
      /\ PairsOf(fresh, NewCapacity)
           = {<<items[n].key, items[n].value>> : n \in {t \in Full(items, capacity) : t < from}}
  BY <1>1, NewCapacityType DEF PlacedInv, TypeOK, GrowthKeepsItems
<1>3. {t \in Full(items, capacity) : t < from} = Full(items, capacity)
  BY <1>1 DEF Full, Indices, PlacedInv, TypeOK
<1>4. PairsOf(items, capacity)' = PairsOf(items, capacity)
  BY <1>1, <1>2, <1>3 DEF PairsOf, Full
<1>5. TypeOK'
  BY <1>1, <1>2 DEF PlacedInv, TypeOK
<1>6. WellPlaced'
  BY <1>1, <1>2 DEF WellPlaced, UniqueKeys, Reachable, Full
<1> QED BY <1>1, <1>4, <1>5, <1>6 DEF PlacedInv, GrowthKeepsItems

(* The item is stored: the dictionary's Set().                             *)
LEMMA StoreStep == ASSUME PlacedInv, Store PROVE PlacedInv' /\ D!Set(call[1], call[2])
<1>1. /\ phase = "store" /\ phase' = "idle" /\ UNCHANGED <<capacity, call, fresh, from>>
      /\ call[1] \in Keys /\ call[2] \in Values /\ capacity \in Nat
      /\ items \in Array(capacity) /\ Placed(items, capacity)
  BY DEF Store, PlacedInv, TypeOK, WellPlaced, Placed, Array
<1>2. PICK s \in Indices(capacity) :
        /\ FindItem(items, capacity, call[1], s)
        /\ used' = UsedAfter(s)
        /\ answer' = IF items[s].kind = "item" THEN items[s].value ELSE NULL
        /\ items' = [items EXCEPT ![s] = Item(call[1], call[2])]
  BY DEF Store
<1>3. /\ items' \in Array(capacity)
      /\ Placed(items', capacity)
      /\ PairsOf(items', capacity) = Without(PairsOf(items, capacity), call[1]) \cup {<<call[1], call[2]>>}
  <2>1. items' = Stored(items, s, call[1], call[2])
    BY <1>2 DEF Stored
  <2>2. FindItem(items, capacity, call[1], s)
    BY <1>2
  <2>3. /\ Stored(items, s, call[1], call[2]) \in Array(capacity)
        /\ Placed(Stored(items, s, call[1], call[2]), capacity)
        /\ PairsOf(Stored(items, s, call[1], call[2]), capacity)
             = Without(PairsOf(items, capacity), call[1]) \cup {<<call[1], call[2]>>}
    BY <1>1, <2>2, StoreItem
  <2> QED BY <2>1, <2>3
<1>4. TypeOK'
  BY <1>1, <1>2, <1>3 DEF PlacedInv, TypeOK, Array, UsedAfter
<1>5. WellPlaced' /\ GrowthKeepsItems'
  BY <1>1, <1>3 DEF WellPlaced, GrowthKeepsItems, Placed, UniqueKeys, Reachable, Full
<1>6. PairsOf(items, capacity)' = (PairsOf(items, capacity) \ D!Of(call[1])) \cup {<<call[1], call[2]>>}
  <2>1. PairsOf(items, capacity)' = PairsOf(items', capacity)
    BY <1>1 DEF PairsOf, Full
  <2>2. Without(PairsOf(items, capacity), call[1]) = PairsOf(items, capacity) \ D!Of(call[1])
    BY DEF Without, D!Of
  <2> QED BY <1>3, <2>1, <2>2
<1>7. /\ items[s].kind = "item" => items[s].key = call[1]
      /\ items[s].kind /= "item" => \A t \in Full(items, capacity) : items[t].key /= call[1]
  BY <1>1, <1>2, FoundItem
<1>8. CASE items[s].kind = "item"
  <2>1. <<call[1], items[s].value>> \in D!Of(call[1])
    BY <1>7, <1>8 DEF D!Of, PairsOf, Full
  <2> QED BY <1>2, <1>4, <1>5, <1>6, <1>8, <2>1 DEF PlacedInv, D!Set
<1>9. CASE items[s].kind /= "item"
  <2>1. D!Of(call[1]) = {}
    BY <1>7, <1>9 DEF D!Of, PairsOf
  <2> QED BY <1>2, <1>4, <1>5, <1>6, <1>9, <2>1 DEF PlacedInv, D!Set
<1> QED BY <1>8, <1>9

LEMMA GetStep == ASSUME PlacedInv, NEW k \in Keys, Get(k) PROVE PlacedInv' /\ (used > 0 => D!Get(k))
<1>1. PlacedInv'
  BY DEF Get, PlacedInv, TypeOK, WellPlaced, GrowthKeepsItems, UniqueKeys, Reachable, Full, PairsOf,
         NewCapacity, tableVars
<1>2. PairsOf(items, capacity)' = PairsOf(items, capacity)
  BY DEF Get, PairsOf, Full, tableVars
<1>3. capacity \in Nat /\ items \in Array(capacity) /\ Placed(items, capacity)
  BY DEF PlacedInv, TypeOK, WellPlaced, Placed, Array
<1>4. ASSUME used > 0 PROVE D!Get(k)
  <2>1. PICK s \in Indices(capacity) :
          /\ FindItem(items, capacity, k, s)
          /\ answer' = IF items[s].kind = "item" THEN <<items[s].key, items[s].value>> ELSE NULL
    BY <1>4 DEF Get
  <2>2. /\ items[s].kind = "item" => items[s].key = k
        /\ items[s].kind /= "item" => \A t \in Full(items, capacity) : items[t].key /= k
    BY <1>3, <2>1, FoundItem
  <2>3. CASE items[s].kind = "item"
    BY <1>2, <2>1, <2>2, <2>3 DEF D!Get, D!Of, PairsOf, Full
  <2>4. CASE items[s].kind /= "item"
    <3>1. D!Of(k) = {}
      BY <2>2, <2>4 DEF D!Of, PairsOf
    <3> QED BY <1>2, <2>1, <2>4, <3>1 DEF D!Get
  <2> QED BY <2>3, <2>4
<1> QED BY <1>1, <1>4

(* tableDelete(), and the same for each item in tableClear().              *)
LEMMA RemoveStep ==
  ASSUME PlacedInv, phase \in {"idle", "clear"}, UNCHANGED <<capacity, phase, answer>>,
         phase \in {"clear"} => from' \in Nat /\ from' <= capacity,
         from' \in Nat, call' = call, NEW k \in Keys, Remove(k)
  PROVE  PlacedInv' /\ (used > 0 => D!Delete(k))
<1>1. capacity \in Nat /\ items \in Array(capacity) /\ Placed(items, capacity)
  BY DEF PlacedInv, TypeOK, WellPlaced, Placed, Array
<1>2. CASE UNCHANGED <<items, used>>
  <2>1. PlacedInv'
    BY <1>2 DEF PlacedInv, TypeOK, WellPlaced, GrowthKeepsItems, UniqueKeys, Reachable, Full
  <2>2. PairsOf(items, capacity)' = PairsOf(items, capacity)
    BY <1>2 DEF PairsOf, Full
  <2>3. ASSUME used > 0 PROVE D!Of(k) = {}
    <3>1. PICK s \in Indices(capacity) :
            /\ FindItem(items, capacity, k, s)
            /\ items[s].kind = "item" => items' = [items EXCEPT ![s] = Erased] /\ used' = used - 1
      BY <2>3 DEF Remove
    <3>2. items[s].kind /= "item"
      BY <1>2, <2>3, <3>1 DEF PlacedInv, TypeOK
    <3>3. \A t \in Full(items, capacity) : items[t].key /= k
      BY <1>1, <3>1, <3>2, FoundItem
    <3> QED BY <3>3 DEF D!Of, PairsOf
  <2> QED BY <2>1, <2>2, <2>3 DEF D!Delete
<1>3. CASE ~UNCHANGED <<items, used>>
  <2>1. PICK s \in Indices(capacity) :
          /\ used > 0
          /\ FindItem(items, capacity, k, s)
          /\ items[s].kind = "item"
          /\ items' = Marked(items, s) /\ used' = used - 1
    BY <1>3 DEF Remove, Erased, Marked, PlacedInv, TypeOK
  <2>2. s \in Full(items, capacity) /\ items[s].key = k
    BY <1>1, <2>1, FoundItem DEF Full
  <2>3. /\ Marked(items, s) \in Array(capacity)
        /\ Placed(Marked(items, s), capacity)
        /\ PairsOf(Marked(items, s), capacity) = Without(PairsOf(items, capacity), k)
    BY <1>1, <2>2, EraseItem
  <2>4. TypeOK'
    BY <1>1, <2>1, <2>3 DEF PlacedInv, TypeOK, Array
  <2>5. WellPlaced' /\ GrowthKeepsItems'
    BY <2>1, <2>3 DEF WellPlaced, GrowthKeepsItems, Placed, UniqueKeys, Reachable, Full
  <2>6. PairsOf(items, capacity)' = PairsOf(items, capacity) \ D!Of(k)
    BY <2>1, <2>3 DEF PairsOf, Full, Without, D!Of
  <2> QED BY <2>4, <2>5, <2>6 DEF PlacedInv, D!Delete
<1> QED BY <1>2, <1>3

\* The steps that leave the table as it is.
LEMMA IdleStep ==
  ASSUME PlacedInv, UNCHANGED <<tableVars, call, fresh>>, from' \in Nat,
         phase' \in {"idle", "clear", "endless"}, phase' = "clear" => from' <= capacity
  PROVE  PlacedInv' /\ PairsOf(items, capacity)' = PairsOf(items, capacity)
BY DEF PlacedInv, TypeOK, WellPlaced, GrowthKeepsItems, UniqueKeys, Reachable, Full, PairsOf, tableVars

LEMMA FullIsFinite ==
  ASSUME NEW c \in Nat, NEW array PROVE IsFiniteSet(Full(array, c))
<1>1. IsFiniteSet(0..(c - 1))
  BY FS_Interval
<1>2. Full(array, c) \in SUBSET (0..(c - 1))
  BY DEF Full, Indices
<1> QED BY <1>1, <1>2, FS_Subset

-----------------------------------------------------------------------------
(* `used` counts the items.                                                *)
LEMMA CountStored ==
  ASSUME NEW c \in Nat, NEW array \in Array(c), NEW s \in Indices(c), NEW k, NEW v
  PROVE  Cardinality(Full(Stored(array, s, k, v), c))
           = Cardinality(Full(array, c)) + (IF array[s].kind = "item" THEN 0 ELSE 1)
<1>1. Full(Stored(array, s, k, v), c) = Full(array, c) \cup {s}
  <2>1. Stored(array, s, k, v)[s].kind = "item"
    BY DEF Stored, Array, Item
  <2>2. \A t \in Indices(c) \ {s} : Stored(array, s, k, v)[t] = array[t]
    BY DEF Stored, Array
  <2> QED BY <2>1, <2>2 DEF Full
<1>2. s \in Full(array, c) <=> array[s].kind = "item"
  BY DEF Full
<1>3. IsFiniteSet(Full(array, c)) /\ Cardinality(Full(array, c)) \in Nat
  BY FullIsFinite, FS_CardinalityType
<1>4. Cardinality(Full(array, c) \cup {s})
        = IF s \in Full(array, c) THEN Cardinality(Full(array, c)) ELSE Cardinality(Full(array, c)) + 1
  BY <1>3, FS_AddElement
<1> QED BY <1>1, <1>2, <1>3, <1>4

LEMMA CountMarked ==
  ASSUME NEW c \in Nat, NEW array \in Array(c), NEW s \in Full(array, c)
  PROVE  Cardinality(Full(Marked(array, s), c)) = Cardinality(Full(array, c)) - 1
<1>1. Full(Marked(array, s), c) = Full(array, c) \ {s}
  <2>1. Marked(array, s)[s].kind /= "item"
    BY SlotKinds DEF Marked, Array, Full
  <2>2. \A t \in Indices(c) \ {s} : Marked(array, s)[t] = array[t]
    BY DEF Marked, Array
  <2> QED BY <2>1, <2>2 DEF Full
<1>2. IsFiniteSet(Full(array, c))
  BY FullIsFinite
<1>3. Cardinality(Full(array, c) \ {s}) = Cardinality(Full(array, c)) - 1
  BY <1>2, FS_RemoveElement
<1> QED BY <1>1, <1>3

IInv == PlacedInv /\ UsedIsExact

(* adjustCapacity() copies an item to a place that is free.                *)
LEMMA CopyIsNew ==
  ASSUME PlacedInv, phase = "grow", from < capacity, items[from].kind = "item",
         NEW s \in Indices(NewCapacity), FindItem(fresh, NewCapacity, items[from].key, s)
  PROVE  fresh[s].kind /= "item"
<1> SUFFICES ASSUME fresh[s].kind = "item" PROVE FALSE
  OBVIOUS
<1>1. /\ NewCapacity \in Nat
      /\ fresh \in Array(NewCapacity) /\ Placed(fresh, NewCapacity)
      /\ from \in Full(items, capacity) /\ items[from].key \in Keys
  BY NewCapacityType, SlotKinds DEF PlacedInv, TypeOK, GrowthKeepsItems, Placed, Array, Full, Indices
<1>2. fresh[s].key = items[from].key
  BY <1>1, FoundItem
<1>3. <<fresh[s].key, fresh[s].value>> \in PairsOf(fresh, NewCapacity)
  BY DEF PairsOf, Full
<1>4. PICK t \in Full(items, capacity) :
        t < from /\ <<fresh[s].key, fresh[s].value>> = <<items[t].key, items[t].value>>
  BY <1>3 DEF PlacedInv, GrowthKeepsItems
<1>5. t = from
  BY <1>1, <1>2, <1>4 DEF PlacedInv, WellPlaced, UniqueKeys
<1> QED BY <1>4, <1>5 DEF PlacedInv, TypeOK

LEMMA WorkCounts == ASSUME IInv, CopyItem \/ Grown \/ Store PROVE UsedIsExact'
<1>1. /\ NewCapacity \in Nat /\ capacity \in Nat /\ used \in Nat
      /\ items \in Array(capacity)
      /\ phase = "grow" => fresh \in Array(NewCapacity)
  BY NewCapacityType DEF IInv, PlacedInv, TypeOK, Array
<1>2. CASE CopyItem
  <2>1. phase = "grow" /\ phase' = "grow" /\ from < capacity /\ NewCapacity' = NewCapacity
    BY <1>2 DEF CopyItem, NewCapacity
  <2>2. CASE items[from].kind = "item"
    <3>1. PICK s \in Indices(NewCapacity) :
            /\ FindItem(fresh, NewCapacity, items[from].key, s)
            /\ fresh' = [fresh EXCEPT ![s] = items[from]] /\ used' = used + 1
      BY <1>2, <2>2 DEF CopyItem, Rehashed
    <3>7. items[from] = Item(items[from].key, items[from].value)
      BY <2>1, <2>2, SlotKinds DEF IInv, PlacedInv, TypeOK, Indices
    <3>2. fresh' = Stored(fresh, s, items[from].key, items[from].value)
      BY <3>1, <3>7 DEF Stored
    <3>3. fresh[s].kind /= "item"
      BY <2>1, <2>2, <3>1, CopyIsNew DEF IInv
    <3>4. Cardinality(Full(Stored(fresh, s, items[from].key, items[from].value), NewCapacity))
            = Cardinality(Full(fresh, NewCapacity)) + 1
      BY <1>1, <2>1, <3>3, CountStored
    <3>5. used = Cardinality(Full(fresh, NewCapacity))
      BY <2>1 DEF IInv, UsedIsExact
    <3>6. Full(fresh, NewCapacity)' = Full(Stored(fresh, s, items[from].key, items[from].value), NewCapacity)
      BY <2>1, <3>2 DEF Full
    <3> QED BY <2>1, <3>1, <3>4, <3>5, <3>6 DEF UsedIsExact
  <2>3. CASE items[from].kind /= "item"
    BY <1>2, <2>1, <2>3 DEF CopyItem, IInv, UsedIsExact, Full
  <2> QED BY <2>2, <2>3
<1>3. CASE Grown
  BY <1>3 DEF Grown, IInv, UsedIsExact, Full
<1>4. CASE Store
  <2>1. PICK s \in Indices(capacity) :
          used' = UsedAfter(s) /\ items' = Stored(items, s, call[1], call[2])
    BY <1>4 DEF Store, Stored
  <2>2. phase = "store" /\ phase' = "idle" /\ capacity' = capacity
    BY <1>4 DEF Store
  <2>3. used = Cardinality(Full(items, capacity))
    BY <2>2 DEF IInv, UsedIsExact
  <2>4. Cardinality(Full(Stored(items, s, call[1], call[2]), capacity))
          = Cardinality(Full(items, capacity)) + (IF items[s].kind = "item" THEN 0 ELSE 1)
    BY <1>1, CountStored
  <2>5. Full(items, capacity)' = Full(Stored(items, s, call[1], call[2]), capacity)
    BY <2>1, <2>2 DEF Full
  <2>6. used' = used + (IF items[s].kind = "item" THEN 0 ELSE 1)
    BY <1>1, <2>1 DEF UsedAfter
  <2> QED BY <2>2, <2>3, <2>4, <2>5, <2>6 DEF UsedIsExact
<1> QED BY <1>2, <1>3, <1>4

LEMMA RemoveCounts ==
  ASSUME IInv, phase \in {"idle", "clear"}, UNCHANGED <<capacity, phase>>, NEW k \in Keys, Remove(k)
  PROVE  UsedIsExact'
<1>1. capacity \in Nat /\ items \in Array(capacity) /\ Placed(items, capacity)
      /\ used = Cardinality(Full(items, capacity))
  BY DEF IInv, PlacedInv, TypeOK, Array, UsedIsExact, WellPlaced, Placed
<1>2. CASE UNCHANGED <<items, used>>
  BY <1>1, <1>2 DEF UsedIsExact, Full
<1>3. CASE ~UNCHANGED <<items, used>>
  <2>1. PICK s \in Indices(capacity) :
          items[s].kind = "item" /\ items' = Marked(items, s) /\ used' = used - 1
    BY <1>3 DEF Remove, Erased, Marked
  <2>2. s \in Full(items, capacity)
    BY <2>1 DEF Full
  <2>3. Cardinality(Full(Marked(items, s), capacity)) = Cardinality(Full(items, capacity)) - 1
    BY <1>1, <2>2, CountMarked
  <2>4. Full(items, capacity)' = Full(Marked(items, s), capacity)
    BY <2>1 DEF Full
  <2> QED BY <1>1, <2>1, <2>3, <2>4 DEF UsedIsExact
<1> QED BY <1>2, <1>3

\* A table with no items has no pairs: tableGet() and tableDelete() need not look.
LEMMA NoneUsed ==
  ASSUME IInv, phase \in {"idle", "clear"}, used = 0 PROVE \A k : D!Of(k) = {}
<1>1. IsFiniteSet(Full(items, capacity)) /\ Cardinality(Full(items, capacity)) = 0
  BY FullIsFinite DEF IInv, PlacedInv, TypeOK, UsedIsExact
<1>2. Full(items, capacity) = {}
  BY <1>1, FS_EmptySet
<1> QED BY <1>2 DEF D!Of, PairsOf

-----------------------------------------------------------------------------
dictVars == <<PairsOf(items, capacity), answer>>

LEMMA Step == IInv /\ [Next]_vars => IInv' /\ [D!Next]_dictVars
<1> SUFFICES ASSUME IInv, [Next]_vars PROVE IInv' /\ (D!Next \/ UNCHANGED dictVars)
  OBVIOUS
<1> USE DEF IInv
<1>1. ASSUME NEW k \in Keys, Get(k) PROVE IInv' /\ (D!Next \/ UNCHANGED dictVars)
  <2>1. PlacedInv' /\ (used > 0 => D!Get(k))
    BY <1>1, GetStep
  <2>2. UsedIsExact'
    BY <1>1 DEF Get, UsedIsExact, Full, NewCapacity, tableVars
  <2>3. CASE used = 0
    <3>1. answer' = NULL /\ PairsOf(items, capacity)' = PairsOf(items, capacity) /\ phase = "idle"
      BY <1>1, <2>3 DEF Get, PairsOf, Full, tableVars
    <3>2. D!Of(k) = {}
      BY <2>3, <3>1, NoneUsed
    <3>3. D!Get(k)
      BY <3>1, <3>2 DEF D!Get
    <3> QED BY <2>1, <2>2, <3>3 DEF D!Next
  <2> QED BY <2>1, <2>2, <2>3 DEF D!Next, PlacedInv, TypeOK
<1>2. ASSUME NEW k \in Keys, phase \in {"idle", "clear"}, UNCHANGED <<capacity, phase, call, answer>>,
             from' \in Nat, phase = "clear" => from' <= capacity, Remove(k)
      PROVE IInv' /\ (D!Next \/ UNCHANGED dictVars)
  <2>1. PlacedInv' /\ (used > 0 => D!Delete(k))
    BY <1>2, RemoveStep
  <2>2. UsedIsExact'
    BY <1>2, RemoveCounts
  <2>3. used = 0 => UNCHANGED dictVars
    BY <1>2 DEF Remove, dictVars, PairsOf, Full
  <2> QED BY <2>1, <2>2, <2>3 DEF D!Next, PlacedInv, TypeOK
<1>3. ASSUME NEW k \in Keys, Delete(k) PROVE IInv' /\ (D!Next \/ UNCHANGED dictVars)
  BY <1>2, <1>3 DEF Delete, PlacedInv, TypeOK
<1>4. ASSUME NEW k \in Keys, NEW v \in Values, Set(k, v) PROVE IInv' /\ UNCHANGED dictVars
  <2>1. PlacedInv'
    BY <1>4, SetInv
  <2>2. UNCHANGED dictVars
    BY <1>4 DEF Set, dictVars, PairsOf, Full
  <2>3. CASE Crowded
    <3>1. phase' = "grow" /\ used' = 0 /\ fresh' = NoItems(NewCapacity) /\ NewCapacity' = NewCapacity
      BY <1>4, <2>3 DEF Set, NewCapacity
    <3>2. Full(fresh, NewCapacity)' = {}
      BY <3>1, SlotKinds DEF Full, NoItems
    <3>3. UsedIsExact'
      BY <3>1, <3>2, FS_EmptySet DEF UsedIsExact
    <3> QED BY <2>1, <2>2, <3>3
  <2>4. CASE ~Crowded
    BY <1>4, <2>1, <2>2, <2>4 DEF Set, UsedIsExact, Full
  <2> QED BY <2>3, <2>4
<1>5. ASSUME CopyItem PROVE IInv' /\ UNCHANGED dictVars
  BY <1>5, CopyItemInv, WorkCounts DEF CopyItem, dictVars, PairsOf, Full
<1>6. ASSUME Grown PROVE IInv' /\ UNCHANGED dictVars
  BY <1>6, GrownInv, WorkCounts DEF Grown, dictVars
<1>7. ASSUME Store PROVE IInv' /\ D!Next
  <2>1. call[1] \in Keys /\ call[2] \in Values
    BY <1>7 DEF Store, PlacedInv, TypeOK
  <2> QED BY <1>7, <2>1, StoreStep, WorkCounts DEF D!Next
<1>8. ASSUME ClearItem PROVE IInv' /\ (D!Next \/ UNCHANGED dictVars)
  <2>1. phase = "clear" /\ from < capacity /\ from' = from + 1 /\ from \in Nat /\ capacity \in Nat
    BY <1>8 DEF ClearItem, PlacedInv, TypeOK
  <2>2. from' \in Nat /\ from' <= capacity /\ UNCHANGED <<capacity, phase, call, fresh, answer>>
    BY <1>8, <2>1 DEF ClearItem
  <2>3. CASE items[from].kind = "item"
    <3>1. items[from].key \in Keys
      BY <2>1, <2>3, SlotKinds DEF PlacedInv, TypeOK, Indices
    <3> QED BY <1>2, <1>8, <2>1, <2>2, <2>3, <3>1 DEF ClearItem
  <2>4. CASE items[from].kind /= "item"
    <3>1. UNCHANGED tableVars
      BY <1>8, <2>2, <2>4 DEF ClearItem, tableVars
    <3>2. PlacedInv' /\ PairsOf(items, capacity)' = PairsOf(items, capacity)
      BY <2>1, <2>2, <3>1, IdleStep
    <3> QED BY <2>1, <2>2, <3>1, <3>2 DEF dictVars, UsedIsExact, Full, tableVars
  <2> QED BY <2>3, <2>4
<1>9. ASSUME Clear \/ Cleared \/ Spin PROVE IInv' /\ UNCHANGED dictVars
  <2>1. UNCHANGED <<tableVars, call, fresh, answer>> /\ from' \in Nat
        /\ phase' \in {"idle", "clear", "endless"} /\ (phase' = "clear" => from' <= capacity)
    BY <1>9 DEF Clear, Cleared, Spin, PlacedInv, TypeOK
  <2>2. PlacedInv' /\ PairsOf(items, capacity)' = PairsOf(items, capacity)
    BY <2>1, IdleStep
  <2>3. phase' /= "endless" => phase \in {"idle", "clear"}
    BY <1>9 DEF Clear, Cleared, Spin
  <2>4. UsedIsExact'
    BY <2>1, <2>3 DEF UsedIsExact, Full, tableVars
  <2> QED BY <2>1, <2>2, <2>4 DEF dictVars
<1>10. CASE UNCHANGED vars
  <2>1. UNCHANGED <<capacity, items, used, phase, call, fresh, from, answer>>
    BY <1>10 DEF vars, tableVars
  <2>2. TypeOK' /\ NewCapacity' = NewCapacity
    BY <2>1 DEF PlacedInv, TypeOK, NewCapacity
  <2>3. WellPlaced'
    BY <2>1 DEF PlacedInv, WellPlaced, UniqueKeys, Reachable, Full
  <2>4. GrowthKeepsItems'
    BY <2>1, <2>2 DEF PlacedInv, GrowthKeepsItems, PairsOf, UniqueKeys, Reachable, Full
  <2>5. UsedIsExact' /\ UNCHANGED dictVars
    BY <2>1, <2>2 DEF UsedIsExact, Full, dictVars, PairsOf
  <2> QED BY <2>2, <2>3, <2>4, <2>5 DEF PlacedInv
<1> QED BY <1>1, <1>3, <1>4, <1>5, <1>6, <1>7, <1>8, <1>9, <1>10 DEF Next, Calls, Work

THEOREM Invariance == Spec => []IInv
<1>1. Init => IInv
  <2> SUFFICES ASSUME Init PROVE IInv
    OBVIOUS
  <2>1. Full(items, capacity) = {} /\ used = 0 /\ phase = "idle"
    BY DEF Init, Full, Indices
  <2> QED BY <2>1, InitInv, FS_EmptySet DEF IInv, UsedIsExact
<1>2. IInv /\ [Next]_vars => IInv'
  BY Step
<1> QED BY <1>1, <1>2, PTL DEF Spec

(* For all keys, values, hash functions and capacities, with and without   *)
(* deletions, the variables of the table have their types.                 *)
THEOREM TypeCorrect == Spec => []TypeOK
BY Invariance, PTL DEF IInv, PlacedInv

(* Likewise: no key has two items and a stored key is found where its      *)
(* probe looks.                                                            *)
THEOREM TableCorrect == Spec => []WellPlaced
BY Invariance, PTL DEF IInv, PlacedInv

(* adjustCapacity() loses nothing: at each of its steps the new array has  *)
(* exactly the items that were copied, well placed.                        *)
THEOREM GrowthCorrect == Spec => []GrowthKeepsItems
BY Invariance, PTL DEF IInv, PlacedInv

(* `used` is the number of items, tombstones not counted, also while the   *)
(* table grows and between the deletions of tableClear().                  *)
THEOREM UsedExact == Spec => []UsedIsExact
BY Invariance, PTL DEF IInv

(* The hash table implements the dictionary of Table.h: every answer is    *)
(* the one a dictionary would give.                                        *)
THEOREM Refinement == Spec => ImplementsDictionary
<1>1. Init => D!Init
  BY DEF Init, D!Init, PairsOf, Full, Indices
<1>2. IInv /\ [Next]_vars => [D!Next]_dictVars
  BY Step
<1> QED BY <1>1, <1>2, Invariance, PTL DEF Spec, ImplementsDictionary, D!Spec, dictVars

-----------------------------------------------------------------------------
(* A table without tombstones has an item to stop at for every search: the *)
(* load limit leaves a slot empty and linear probing visits every slot.    *)
LEMMA ModUnique ==
  ASSUME NEW c \in Nat \ {0}, NEW q \in Nat, NEW s \in 0..(c - 1)
  PROVE  (c * q + s) % c = s
<1> DEFINE x == c * q + s
<1>1. x \in Nat
  OBVIOUS
<1>2. x = c * (x \div c) + (x % c) /\ x % c \in 0..(c - 1) /\ x \div c \in Int
  BY <1>1
<1> QED OBVIOUS

LEMMA Division ==
  ASSUME NEW c \in Nat \ {0}, NEW h \in Nat
  PROVE  \E q \in Nat, r \in 0..(c - 1) : h = c * q + r
<1>1. h = c * (h \div c) + (h % c) /\ h % c \in 0..(c - 1) /\ h \div c \in Int
  OBVIOUS
<1>2. h \div c \in Nat
  BY <1>1
<1> QED BY <1>1, <1>2

LEMMA ProbeVisitsAll ==
  ASSUME NEW c \in Nat \ {0}, NEW k \in Keys, NEW s \in Indices(c)
  PROVE  \E i \in Indices(c) : Probe(c, k, i) = s
<1>1. PICK h \in Nat : h = Hash[k]
  BY HashAssumption
<1>2. PICK q \in Nat, r \in 0..(c - 1) : h = c * q + r
  BY Division
<1>3. s \in 0..(c - 1)
  BY DEF Indices
<1>4. CASE r <= s
  <2>1. s - r \in Indices(c) /\ h + (s - r) = c * q + s
    BY <1>2, <1>3, <1>4 DEF Indices
  <2>2. Probe(c, k, s - r) = s
    BY <1>1, <1>2, <1>3, <2>1, ModUnique DEF Probe
  <2> QED BY <2>1, <2>2
<1>5. CASE r > s
  <2>1. s + c - r \in Indices(c) /\ h + (s + c - r) = c * (q + 1) + s /\ q + 1 \in Nat
    BY <1>2, <1>3, <1>5 DEF Indices
  <2>2. Probe(c, k, s + c - r) = s
    BY <1>1, <1>3, <2>1, ModUnique DEF Probe
  <2> QED BY <2>1, <2>2
<1> QED BY <1>2, <1>3, <1>4, <1>5

NoTombstones(array, c) == \A s \in Indices(c) : array[s].kind /= "tombstone"

LEMMA SearchStops ==
  ASSUME NEW c \in Nat, NEW array \in Array(c), NoTombstones(array, c),
         Cardinality(Full(array, c)) < c, NEW k \in Keys
  PROVE  ~Endless(array, c, k)
<1>1. Cardinality(Full(array, c)) \in Nat
  BY FullIsFinite, FS_CardinalityType
<1>2. c > 0
  BY <1>1
<1>3. PICK s \in Indices(c) : array[s].kind /= "item"
  <2> SUFFICES ASSUME \A s \in Indices(c) : array[s].kind = "item" PROVE FALSE
    OBVIOUS
  <2>1. Full(array, c) = 0..(c - 1)
    BY DEF Full, Indices
  <2>2. Cardinality(0..(c - 1)) = c
    BY <1>2, FS_Interval
  <2> QED BY <2>1, <2>2
<1>4. array[s] = Empty
  BY <1>3, SlotKinds DEF NoTombstones, Array
<1>5. PICK i \in Indices(c) : Probe(c, k, i) = s
  BY <1>2, ProbeVisitsAll
<1> QED BY <1>4, <1>5 DEF Endless, Stops

\* The items that adjustCapacity() has come to.
Passed(n) == {t \in Full(items, capacity) : t < n}
LoadInv ==
  /\ phase = "clear" => Deletes
  /\ ~Deletes => NoTombstones(items, capacity)
  /\ phase = "endless" => ~NoTombstones(items, capacity)
  /\ phase \in {"idle", "clear"} => 4 * used <= 3 * capacity
  /\ phase = "store" => 4 * (used + 1) <= 3 * capacity
  /\ phase = "grow" => /\ NoTombstones(fresh, NewCapacity)
                       /\ used = Cardinality(Passed(from))
                       /\ 4 * Cardinality(Full(items, capacity)) <= 3 * capacity

LEMMA PassedCounts ==
  ASSUME IInv, from < capacity
  PROVE  /\ Cardinality(Passed(from + 1))
              = Cardinality(Passed(from)) + (IF items[from].kind = "item" THEN 1 ELSE 0)
         /\ Cardinality(Passed(from)) \in Nat
         /\ items[from].kind = "item" => Cardinality(Passed(from)) < Cardinality(Full(items, capacity))
<1>1. capacity \in Nat /\ from \in Nat /\ from \in Indices(capacity)
  BY DEF IInv, PlacedInv, TypeOK, Indices
<1>2. IsFiniteSet(Full(items, capacity)) /\ Cardinality(Full(items, capacity)) \in Nat
  BY <1>1, FullIsFinite, FS_CardinalityType
<1>3. IsFiniteSet(Passed(from)) /\ Cardinality(Passed(from)) \in Nat
  BY <1>2, FS_Subset, FS_CardinalityType DEF Passed
<1>4. from \notin Passed(from)
  BY <1>1 DEF Passed
<1>5. CASE items[from].kind = "item"
  <2>1. Passed(from + 1) = Passed(from) \cup {from}
    BY <1>1, <1>5 DEF Passed, Full, Indices
  <2>2. Cardinality(Passed(from + 1)) = Cardinality(Passed(from)) + 1
    BY <1>3, <1>4, <2>1, FS_AddElement
  <2>3. Passed(from + 1) \in SUBSET Full(items, capacity)
    BY DEF Passed
  <2>4. Cardinality(Passed(from + 1)) <= Cardinality(Full(items, capacity))
    BY <1>2, <2>3, FS_Subset
  <2> QED BY <1>2, <1>3, <1>5, <2>2, <2>4
<1>6. CASE items[from].kind /= "item"
  <2>1. Passed(from + 1) = Passed(from)
    BY <1>1, <1>6 DEF Passed, Full, Indices
  <2> QED BY <1>3, <1>6, <2>1
<1> QED BY <1>5, <1>6

LEMMA LoadStep ==
  ASSUME InitialCapacity >= 2, IInv, LoadInv, [Next]_vars PROVE LoadInv'
<1>1. /\ capacity \in Nat /\ used \in Nat /\ from \in Nat
      /\ items \in Array(capacity)
      /\ phase = "grow" => fresh \in Array(NewCapacity)
      /\ NewCapacity \in Nat
      /\ capacity > 0 => NewCapacity = 2 * capacity
      /\ capacity = 0 => NewCapacity >= 2
  BY NewCapacityType, CapacityAssumption DEF IInv, PlacedInv, TypeOK, Array, NewCapacity
<1>2. Cardinality(Full(items, capacity)) \in Nat
  BY <1>1, FullIsFinite, FS_CardinalityType
<1>3. phase \in {"idle", "store", "clear"} => used = Cardinality(Full(items, capacity))
  BY DEF IInv, UsedIsExact
<1>4. phase = "grow" => used = Cardinality(Full(fresh, NewCapacity))
  BY DEF IInv, UsedIsExact
<1>5. ASSUME NEW k \in Keys, NEW v \in Values, Set(k, v) PROVE LoadInv'
  <2>1. phase = "idle" /\ UNCHANGED <<capacity, items>> /\ NewCapacity' = NewCapacity
    BY <1>5 DEF Set, NewCapacity
  <2>2. CASE Crowded
    <3>1. phase' = "grow" /\ fresh' = NoItems(NewCapacity) /\ from' = 0 /\ used' = 0
      BY <1>5, <2>2 DEF Set
    <3>2. NoTombstones(fresh, NewCapacity)'
      BY <2>1, <3>1, SlotKinds DEF NoTombstones, NoItems
    <3>3. Passed(from)' = {}
      BY <2>1, <3>1 DEF Passed, Full, Indices
    <3>4. Cardinality(Passed(from)') = 0
      BY <3>3, FS_EmptySet
    <3>5. (4 * Cardinality(Full(items, capacity)) <= 3 * capacity)'
      BY <1>3, <2>1 DEF LoadInv, Full
    <3> QED BY <2>1, <3>1, <3>2, <3>4, <3>5 DEF LoadInv, NoTombstones
  <2>3. CASE ~Crowded
    <3>1. phase' = "store" /\ used' = used
      BY <1>5, <2>3 DEF Set
    <3>2. 4 * (used + 1) <= 3 * capacity
      BY <1>1, <2>3 DEF Crowded
    <3> QED BY <2>1, <3>1, <3>2 DEF LoadInv, NoTombstones
  <2> QED BY <2>2, <2>3
<1>6. ASSUME CopyItem PROVE LoadInv'
  <2>1. /\ phase = "grow" /\ phase' = "grow" /\ from < capacity /\ from' = from + 1
        /\ UNCHANGED <<capacity, items>> /\ NewCapacity' = NewCapacity
    BY <1>6 DEF CopyItem, NextItem, NewCapacity
  <2>2. Passed(from)' = Passed(from + 1)
    BY <2>1 DEF Passed, Full
  <2>3. used' = used + (IF items[from].kind = "item" THEN 1 ELSE 0)
    BY <1>1, <1>6 DEF CopyItem
  <2>4. used' = Cardinality(Passed(from)')
    BY <2>1, <2>2, <2>3, PassedCounts DEF LoadInv
  <2>5. NoTombstones(fresh', NewCapacity)
    <3>1. CASE items[from].kind = "item"
      BY <1>1, <1>6, <2>1, <3>1 DEF CopyItem, Rehashed, LoadInv, NoTombstones, Array
    <3>2. CASE items[from].kind /= "item"
      BY <1>6, <2>1, <3>2 DEF CopyItem, LoadInv, NoTombstones
    <3> QED BY <3>1, <3>2
  <2> QED BY <2>1, <2>4, <2>5 DEF LoadInv, NoTombstones, Full
<1>7. ASSUME Grown PROVE LoadInv'
  <2>1. /\ phase = "grow" /\ phase' = "store" /\ from = capacity
        /\ items' = fresh /\ capacity' = NewCapacity /\ used' = used
    BY <1>7 DEF Grown
  <2>2. Passed(from) = Full(items, capacity)
    BY <1>1, <2>1 DEF Passed, Full, Indices
  <2>3. 4 * used <= 3 * capacity
    BY <2>1, <2>2 DEF LoadInv
  <2>4. 4 * (used + 1) <= 3 * NewCapacity
    BY <1>1, <2>3
  <2> QED BY <2>1, <2>4 DEF LoadInv, NoTombstones
<1>8. ASSUME Store PROVE LoadInv'
  <2>1. PICK s \in Indices(capacity) :
          used' = UsedAfter(s) /\ items' = [items EXCEPT ![s] = Item(call[1], call[2])]
    BY <1>8 DEF Store
  <2>2. phase = "store" /\ phase' = "idle" /\ capacity' = capacity
    BY <1>8 DEF Store
  <2>3. ~Deletes => NoTombstones(items, capacity)'
    BY <1>1, <2>1, <2>2, SlotKinds DEF LoadInv, NoTombstones, Array
  <2>4. used' <= used + 1 /\ used' \in Nat
    BY <1>1, <2>1 DEF UsedAfter
  <2>6. 4 * (used + 1) <= 3 * capacity
    BY <2>2 DEF LoadInv
  <2>7. \A n \in Nat : n <= used + 1 => 4 * n <= 3 * capacity
    BY <1>1, <2>6
  <2>5. 4 * used' <= 3 * capacity'
    BY <2>2, <2>4, <2>7
  <2> QED BY <2>2, <2>3, <2>5 DEF LoadInv
<1>9. ASSUME Spin PROVE LoadInv'
  <2>1. phase \in {"idle", "store"} /\ (phase = "idle" => used > 0) =>
          Cardinality(Full(items, capacity)) < capacity
    BY <1>1, <1>2, <1>3 DEF LoadInv
  <2>2. phase \in {"idle", "store"} /\ (phase = "idle" => used > 0)
          /\ NoTombstones(items, capacity) =>
          \A k \in Keys : ~Endless(items, capacity, k)
    BY <1>1, <2>1, SearchStops
  <2>3. phase = "grow" /\ from < capacity /\ items[from].kind = "item" =>
          Cardinality(Full(fresh, NewCapacity)) < NewCapacity
    BY <1>1, <1>2, <1>4, PassedCounts DEF LoadInv
  <2>4. phase = "grow" /\ from < capacity /\ items[from].kind = "item" => items[from].key \in Keys
    BY <1>1, SlotKinds DEF Array, Indices
  <2>5. phase = "grow" /\ from < capacity /\ items[from].kind = "item" =>
          ~Endless(fresh, NewCapacity, items[from].key)
    BY <1>1, <2>3, <2>4, SearchStops DEF LoadInv
  <2>6. phase = "store" => call[1] \in Keys
    BY DEF IInv, PlacedInv, TypeOK
  <2>7. ~NoTombstones(items, capacity)
    BY <1>9, <2>2, <2>5, <2>6 DEF Spin
  <2>8. phase' = "endless" /\ UNCHANGED <<capacity, items>>
    BY <1>9 DEF Spin, tableVars
  <2> QED BY <2>7, <2>8 DEF LoadInv, NoTombstones
<1>10. ASSUME NEW k \in Keys, Get(k) PROVE LoadInv'
  BY <1>10 DEF Get, LoadInv, NoTombstones, tableVars
<1>11. ASSUME Deletes, phase \in {"idle", "clear"}, UNCHANGED <<capacity, phase>>, NEW k, Remove(k)
       PROVE  LoadInv'
  <2>1. used' = used \/ used' = used - 1
    BY <1>11 DEF Remove
  <2>2. used' \in Nat
    BY Step DEF IInv, PlacedInv, TypeOK
  <2>3. 4 * used <= 3 * capacity
    BY <1>11 DEF LoadInv
  <2>4. used' <= used
    BY <1>1, <2>1
  <2>5. \A n \in Nat : n <= used => 4 * n <= 3 * capacity
    BY <1>1, <2>3
  <2>6. 4 * used' <= 3 * capacity'
    BY <1>11, <2>2, <2>4, <2>5
  <2> QED BY <1>11, <2>6 DEF LoadInv
<1>12. ASSUME Clear \/ Cleared PROVE LoadInv'
  BY <1>12 DEF Clear, Cleared, LoadInv, NoTombstones, tableVars
<1>13. ASSUME NEW k \in Keys, Delete(k) PROVE LoadInv'
  BY <1>11, <1>13 DEF Delete
<1>15. ASSUME ClearItem PROVE LoadInv'
  <2>1. phase = "clear" /\ Deletes /\ UNCHANGED <<capacity, phase>>
    BY <1>15 DEF ClearItem, LoadInv
  <2>2. CASE items[from].kind = "item"
    BY <1>11, <1>15, <2>1, <2>2 DEF ClearItem
  <2>3. CASE items[from].kind /= "item"
    BY <1>15, <2>1, <2>3 DEF ClearItem, LoadInv
  <2> QED BY <2>2, <2>3
<1>14. CASE UNCHANGED vars
  BY <1>14 DEF vars, tableVars, LoadInv, NoTombstones, NewCapacity, Passed, Full
<1> QED BY <1>5, <1>6, <1>7, <1>8, <1>9, <1>10, <1>11, <1>12, <1>13, <1>14, <1>15 DEF Next, Calls, Work

(* With a first capacity of at least 2 (TABLE_INITIAL_CAPACITY is 16) only *)
(* tombstones can make a search endless, whatever the hashes of the keys.  *)
THEOREM SearchesEnd ==
  ASSUME InitialCapacity >= 2 PROVE Spec => []EndlessNeedsTombstone
<1>1. Init => LoadInv
  BY DEF Init, LoadInv, NoTombstones, Indices
<1>2. IInv /\ LoadInv /\ [Next]_vars => LoadInv'
  BY LoadStep
<1>3. ASSUME IInv, LoadInv, phase = "endless" PROVE \E s \in Indices(capacity) : items[s] = Tombstone
  <2>1. PICK s \in Indices(capacity) : items[s].kind = "tombstone"
    BY <1>3 DEF LoadInv, NoTombstones
  <2>2. items[s] \in Slots
    BY <1>3, <2>1 DEF IInv, PlacedInv, TypeOK
  <2>3. items[s] = Tombstone
    BY <2>1, <2>2, SlotKinds
  <2> QED BY <2>1, <2>3
<1>4. IInv /\ LoadInv => EndlessNeedsTombstone
  BY <1>3 DEF EndlessNeedsTombstone
<1> QED BY <1>1, <1>2, <1>4, Invariance, PTL DEF Spec

(* The compiler never deletes from its tables: none of its searches runs   *)
(* for ever.                                                               *)
THEOREM SearchesEndWithoutDeletes ==
  ASSUME ~Deletes, InitialCapacity >= 2 PROVE Spec => []SearchEnds
<1>1. Init => LoadInv
  BY DEF Init, LoadInv, NoTombstones, Indices
<1>2. IInv /\ LoadInv /\ [Next]_vars => LoadInv'
  BY LoadStep
<1>3. LoadInv => SearchEnds
  BY DEF LoadInv, SearchEnds
<1> QED BY <1>1, <1>2, <1>3, Invariance, PTL DEF Spec
=============================================================================
