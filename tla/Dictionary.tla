----------------------------- MODULE Dictionary -----------------------------
(***************************************************************************)
(* What Table.h promises: a set of key/value pairs, one for each key, that *)
(* answers every call from what the calls before it have left.             *)
(***************************************************************************)
CONSTANTS Keys, Values, NULL

VARIABLES
  pairs,   \* the pairs <<key, value>> that are stored
  answer   \* what the last call returned

Of(k) == {p \in pairs : p[1] = k}

\* "@return The old value if the key already exists or NULL of the key doesn't already exist."
Set(k, v) ==
  /\ pairs' = (pairs \ Of(k)) \cup {<<k, v>>}
  /\ \/ Of(k) = {} /\ answer' = NULL
     \/ \E p \in Of(k) : answer' = p[2]

\* "@return A pointer to the item or NULL if not found."
Get(k) ==
  /\ UNCHANGED pairs
  /\ \/ Of(k) = {} /\ answer' = NULL
     \/ \E p \in Of(k) : answer' = p

\* "Delete an item in a table."  "Delete all items" is one of these per item.
Delete(k) == pairs' = pairs \ Of(k) /\ UNCHANGED answer

Next ==
  \/ \E k \in Keys : Get(k) \/ Delete(k)
  \/ \E k \in Keys, v \in Values : Set(k, v)
Init == pairs = {} /\ answer = NULL
Spec == Init /\ [][Next]_<<pairs, answer>>
=============================================================================
