-------------------------- MODULE MCDatabaseManager --------------------------
(***************************************************************************)
(* Tables for TLC: 0 and 1 are supported (1 was not written for a client), 2   *)
(* was written by another version.  3 and 4 were compiled for version 0, as 4  *)
(* was written, and 3 was written by version 5; the data of 5 ends in its      *)
(* header.  Ids reach indices, and a key of index i is at least i * IdSpace.   *)
(***************************************************************************)
EXTENDS DatabaseManager, TLC

MCDefIndices == 0 .. 5
MCRows == [index \in MCDefIndices |-> {1, 2}]
MCDefVersion == [index \in MCDefIndices |-> IF index >= 3 THEN 0 ELSE 5]
MCFileVersion ==
  [index \in MCDefIndices |-> CASE index = 2 -> 4 [] index \in {4, 5} -> 0 [] OTHER -> 5]
MCHasHeader == MCDefIndices \ {5}
MCFlags == [index \in MCDefIndices |-> IF index = 1 THEN 7 ELSE ClientFlags]
=============================================================================
