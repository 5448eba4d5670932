----------------------------- MODULE MCHashTable -----------------------------
(***************************************************************************)
(* Three slots and three keys for TLC, two of which collide in the last slot, *)
(* so that probing wraps around.                                             *)
(***************************************************************************)
EXTENDS HashTable

MCHash == [k \in 1 .. 3 |-> IF k = 1 THEN 4 ELSE 5]
=============================================================================
