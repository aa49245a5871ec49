---------------------------- MODULE MCHashTable -----------------------------
(* Four keys for a table that grows from 2 to 4 to 8 items; three of them  *)
(* meet at the last item of 4, so that the probe wraps around.             *)
EXTENDS HashTable

MCHash == <<3, 7, 11, 1>>
=============================================================================
