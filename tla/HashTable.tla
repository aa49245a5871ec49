----------------------------- MODULE HashTable ------------------------------
(***************************************************************************)
(* The hash table (Table.c): open addressing with linear probing, a load   *)
(* of at most 3/4, growth by rehashing, and tombstones for deleted items.  *)
(* `used` counts the items only, not the tombstones.                       *)
(*                                                                         *)
(* findItem() loops until it meets the key or an empty item.  It is given  *)
(* here by the item it stops at; when there is none it loops for ever,     *)
(* which is the phase "endless".                                           *)
(***************************************************************************)
EXTENDS Integers, FiniteSets

CONSTANTS
  Keys, Values,
  Hash,              \* [Keys -> Nat], hashFn
  NULL,
  InitialCapacity,   \* TABLE_INITIAL_CAPACITY
  MaxCapacity,       \* bound: the table does not grow beyond it
  Deletes            \* whether tableDelete() and tableClear() are called

ASSUME HashAssumption == Hash \in [Keys -> Nat]
ASSUME CapacityAssumption == InitialCapacity \in Nat \ {0} /\ MaxCapacity \in Nat
ASSUME DeletesAssumption == Deletes \in BOOLEAN

VARIABLES
  capacity, items, used,   \* the Table
  phase,                   \* where the call is, or "idle"
  call,                    \* the arguments of tableSet()
  fresh, from,             \* adjustCapacity(): the new array, the next old item
  answer                   \* what the last call returned

tableVars == <<capacity, items, used>>
vars == <<tableVars, phase, call, fresh, from, answer>>

Indices(c) == 0..(c - 1)
Item(k, v) == [kind |-> "item", key |-> k, value |-> v]
Empty == [kind |-> "empty", key |-> NULL, value |-> NULL]
Tombstone == [kind |-> "tombstone", key |-> NULL, value |-> NULL]
NoItems(c) == [s \in Indices(c) |-> Empty]

-----------------------------------------------------------------------------
Probe(c, k, i) == (Hash[k] + i) % c

Stops(array, k, s) == array[s] = Empty \/ (array[s].kind = "item" /\ array[s].key = k)

\* The probe ends after i steps.
Ends(array, c, k, i) ==
  /\ Stops(array, k, Probe(c, k, i))
  /\ \A j \in Indices(i) : ~Stops(array, k, Probe(c, k, j))

\* s is the item that findItem() returns: an empty item gives way to the first tombstone.
FindItem(array, c, k, s) ==
  \E i \in Indices(c) :
    /\ Ends(array, c, k, i)
    /\ IF array[Probe(c, k, i)] = Empty
            /\ \E t \in Indices(i) : array[Probe(c, k, t)] = Tombstone
       THEN \E t \in Indices(i) :
              /\ s = Probe(c, k, t)
              /\ array[s] = Tombstone
              /\ \A j \in Indices(t) : array[Probe(c, k, j)] /= Tombstone
       ELSE s = Probe(c, k, i)
Endless(array, c, k) == ~\E i \in Indices(c) : Stops(array, k, Probe(c, k, i))

-----------------------------------------------------------------------------
MutCrowded == used >= capacity
Crowded == (used + 1) * 4 > capacity * 3
NewCapacity == IF capacity = 0 THEN InitialCapacity ELSE capacity * 2

Set(k, v) ==
  /\ phase = "idle"
  /\ Crowded => NewCapacity <= MaxCapacity
  /\ call' = <<k, v>>
  /\ IF Crowded
     THEN phase' = "grow" /\ fresh' = NoItems(NewCapacity) /\ from' = 0 /\ used' = 0
     ELSE phase' = "store" /\ UNCHANGED <<fresh, from, used>>
  /\ UNCHANGED <<capacity, items, answer>>

\* adjustCapacity(): one item of the old array.
MutRehashedKey(s) == [fresh EXCEPT ![s] = Item(items[from].key, NULL)]
Rehashed(s) == [fresh EXCEPT ![s] = items[from]]
NextItem == from + 1
CopyItem ==
  /\ phase = "grow"
  /\ from < capacity
  /\ IF items[from].kind = "item"
     THEN /\ \E s \in Indices(NewCapacity) :
               FindItem(fresh, NewCapacity, items[from].key, s) /\ fresh' = Rehashed(s)
          /\ used' = used + 1
     ELSE UNCHANGED <<fresh, used>>
  /\ from' = NextItem
  /\ UNCHANGED <<capacity, items, phase, call, answer>>

Grown ==
  /\ phase = "grow"
  /\ from = capacity
  /\ items' = fresh
  /\ capacity' = NewCapacity
  /\ phase' = "store"
  /\ fresh' = NoItems(0)
  /\ UNCHANGED <<used, call, from, answer>>

\* The rest of tableSet().
MutUsedAfter(s) == used + 1
UsedAfter(s) == IF items[s].kind = "item" THEN used ELSE used + 1
Store ==
  /\ phase = "store"
  /\ \E s \in Indices(capacity) :
       /\ FindItem(items, capacity, call[1], s)
       /\ used' = UsedAfter(s)
       /\ answer' = IF items[s].kind = "item" THEN items[s].value ELSE NULL
       /\ items' = [items EXCEPT ![s] = Item(call[1], call[2])]
  /\ phase' = "idle"
  /\ UNCHANGED <<capacity, call, fresh, from>>

\* A key that findItem() looks for and cannot stop at.
Spin ==
  /\ \/ phase = "store" /\ Endless(items, capacity, call[1])
     \/ phase = "grow" /\ from < capacity /\ items[from].kind = "item"
          /\ Endless(fresh, NewCapacity, items[from].key)
     \/ phase = "idle" /\ used > 0 /\ \E k \in Keys : Endless(items, capacity, k)
  /\ phase' = "endless"
  /\ UNCHANGED <<tableVars, call, fresh, from, answer>>

Get(k) ==
  /\ phase = "idle"
  /\ IF used = 0 THEN answer' = NULL
     ELSE \E s \in Indices(capacity) :
            /\ FindItem(items, capacity, k, s)
            /\ answer' = IF items[s].kind = "item" THEN <<items[s].key, items[s].value>> ELSE NULL
  /\ UNCHANGED <<tableVars, phase, call, fresh, from>>

MutErased == Empty
Erased == Tombstone
Remove(k) ==
  IF used = 0 THEN UNCHANGED <<items, used>>
  ELSE \E s \in Indices(capacity) :
         /\ FindItem(items, capacity, k, s)
         /\ IF items[s].kind = "item"
            THEN items' = [items EXCEPT ![s] = Erased] /\ used' = used - 1
            ELSE UNCHANGED <<items, used>>

Delete(k) ==
  /\ Deletes
  /\ phase = "idle"
  /\ Remove(k)
  /\ UNCHANGED <<capacity, phase, call, fresh, from, answer>>

\* tableClear() deletes the key of each item, by looking it up.
Clear ==
  /\ Deletes
  /\ phase = "idle"
  /\ phase' = "clear" /\ from' = 0
  /\ UNCHANGED <<tableVars, call, fresh, answer>>

ClearItem ==
  /\ phase = "clear"
  /\ from < capacity
  /\ IF items[from].kind = "item" THEN Remove(items[from].key) ELSE UNCHANGED <<items, used>>
  /\ from' = from + 1
  /\ UNCHANGED <<capacity, phase, call, fresh, answer>>

Cleared ==
  /\ phase = "clear"
  /\ from = capacity
  /\ phase' = "idle"
  /\ UNCHANGED <<tableVars, call, fresh, from, answer>>

-----------------------------------------------------------------------------
Calls == \/ \E k \in Keys : Get(k) \/ Delete(k)
         \/ \E k \in Keys, v \in Values : Set(k, v)
         \/ Clear
Work == CopyItem \/ Grown \/ Store \/ ClearItem \/ Cleared
Next == Calls \/ Work \/ Spin

Init ==
  /\ capacity = 0 /\ items = NoItems(0) /\ used = 0
  /\ phase = "idle"
  /\ call = <<NULL, NULL>>
  /\ fresh = NoItems(0) /\ from = 0
  /\ answer = NULL

Spec == Init /\ [][Next]_vars

-----------------------------------------------------------------------------
Slots == {Empty, Tombstone} \cup {Item(k, v) : k \in Keys, v \in Values}
TypeOK ==
  /\ capacity \in Nat /\ used \in Nat /\ from \in Nat
  /\ items \in [Indices(capacity) -> Slots]
  /\ phase \in {"idle", "grow", "store", "clear", "endless"}
  /\ call \in Keys \X Values \cup {<<NULL, NULL>>}
  /\ phase \in {"grow", "store"} => call \in Keys \X Values
  /\ phase \in {"grow", "clear"} => from <= capacity
  /\ phase = "grow" => fresh \in [Indices(NewCapacity) -> Slots]

Full(array, c) == {s \in Indices(c) : array[s].kind = "item"}
PairsOf(array, c) == {<<array[s].key, array[s].value>> : s \in Full(array, c)}

(* No two items have the same key, however often the table has grown and   *)
(* whatever was deleted in between.                                        *)
UniqueKeys(array, c) ==
  \A s, t \in Full(array, c) : array[s].key = array[t].key => s = t

(* Probing for a key that is stored meets no empty item before it.  This   *)
(* is what tombstones are for.                                             *)
Reachable(array, c) ==
  \A s \in Full(array, c) : \E i \in Indices(c) :
    /\ Probe(c, array[s].key, i) = s
    /\ \A j \in Indices(i) : array[Probe(c, array[s].key, j)] /= Empty
WellPlaced == UniqueKeys(items, capacity) /\ Reachable(items, capacity)

(* The new array has what was copied so far, so the table loses nothing    *)
(* when it is put in place.                                                *)
GrowthKeepsItems ==
  phase = "grow" =>
    /\ PairsOf(fresh, NewCapacity)
         = {<<items[s].key, items[s].value>> : s \in {t \in Full(items, capacity) : t < from}}
    /\ UniqueKeys(fresh, NewCapacity) /\ Reachable(fresh, NewCapacity)

(* "How many items stored in said table" (Table.h:43), also while it grows. *)
UsedIsExact ==
  phase /= "endless" =>
    used = Cardinality(IF phase = "grow" THEN Full(fresh, NewCapacity) ELSE Full(items, capacity))

(* A search only runs for ever in a table with tombstones: the load limit  *)
(* counts items, so it keeps an empty item for the probe to stop at until  *)
(* deletions have used the empty items up.                                 *)
EndlessNeedsTombstone == phase = "endless" => \E s \in Indices(capacity) : items[s] = Tombstone

(* "@return A pointer to the item or NULL if not found" (Table.h:69):      *)
(* every search ends.                                                      *)
SearchEnds == phase /= "endless"

(* The table is the dictionary that Table.h describes.                     *)
D == INSTANCE Dictionary WITH pairs <- PairsOf(items, capacity)
ImplementsDictionary == D!Spec

=============================================================================
