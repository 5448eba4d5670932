------------------------------ MODULE HashTable ------------------------------
(***************************************************************************)
(* HashTable, the open-addressing table of the manifests, as it is read: find  *)
(* by linear probing and iteration over the slots.  A table is read from a     *)
(* file and never changed by the code, so writing it is external: all that is   *)
(* known of the writer is what find relies on, that it puts a key into the      *)
(* probe sequence of its hash with no empty slot before it, and that removing   *)
(* a key leaves a slot which is not empty.                                    *)
(*                                                                         *)
(* The two top bits of a slot are its tag, "empty" (00), "used" (10) or         *)
(* "removed" (01, 11); the other bits select a pair, of which the key is        *)
(* modelled, in the slot itself.                                             *)
(***************************************************************************)
EXTENDS Integers, FiniteSetsExt

CONSTANTS Key,        \* the keys that may be stored or looked for
          HashSize,   \* hashTable.size()
          hashData64  \* key to its hash, see Hash.cpp

ASSUME HashTableAssumption ==
  /\ HashSize \in Nat
  /\ hashData64 \in [Key -> Nat]

Slots == 0 .. HashSize - 1
End == HashSize
Tags == {"empty", "used", "removed"}

VARIABLES hashTable,   \* slot to its tag and key
          loaded,      \* the table has been read from its file
          pc,          \* what the reader is doing
          key,         \* find: the key looked for
          chain,       \* find: the number of slots probed
          iterator,    \* the slot that the reader's iterator is at, or End
          visited      \* the slots an iteration from begin() has been at

reader == <<pc, key, chain, iterator, visited>>
vars == <<hashTable, loaded, reader>>

Used(i) == hashTable[i].tag = "used"
Holds(i, k) == Used(i) /\ hashTable[i].key = k
Stored(k) == \E i \in Slots : Holds(i, k)

bucket(k) == hashData64[k] % HashSize
Probe(k, c) == (bucket(k) + c) % HashSize

TypeOK ==
  /\ hashTable \in [Slots -> [tag : Tags, key : Key]]
  /\ loaded \in BOOLEAN
  /\ pc \in {"idle", "find", "found", "iterate"}
  /\ key \in Key
  /\ chain \in 0 .. HashSize
  /\ iterator \in 0 .. HashSize
  /\ visited \in SUBSET Slots

Init ==
  /\ \E k \in Key : /\ hashTable = [i \in Slots |-> [tag |-> "empty", key |-> k]]
                    /\ key = k
  /\ loaded = FALSE
  /\ pc = "idle" /\ chain = 0 /\ iterator = End /\ visited = {}

-----------------------------------------------------------------------------
(* The writer, before the file is read.                                    *)

Insert(k) ==
  /\ ~loaded /\ ~Stored(k)
  /\ \E c \in Slots :
       /\ \A d \in 0 .. c - 1 : hashTable[Probe(k, d)].tag # "empty"
       /\ ~Used(Probe(k, c))
       /\ hashTable' = [hashTable EXCEPT ![Probe(k, c)] = [tag |-> "used", key |-> k]]
  /\ UNCHANGED <<loaded, reader>>

Remove(k) ==
  /\ ~loaded
  /\ \E i \in Slots :
       /\ Holds(i, k)
       /\ hashTable' = [hashTable EXCEPT ![i].tag = "removed"]
  /\ UNCHANGED <<loaded, reader>>

Load == ~loaded /\ loaded' = TRUE /\ UNCHANGED <<hashTable, reader>>

-----------------------------------------------------------------------------
(* The reader.                                                             *)

(* Mutant of FirstUsed: a removed slot is taken for a valid one.             *)
FirstNotEmpty(i) ==
  LET rest == {j \in i .. HashSize - 1 : hashTable[j].tag # "empty"}
  IN  IF rest = {} THEN End ELSE Min(rest)

(* findNextValidIndex: the first used slot from i on.                       *)
FirstUsed(i) ==
  LET rest == {j \in i .. HashSize - 1 : Used(j)}
  IN  IF rest = {} THEN End ELSE Min(rest)

Find(k) ==
  /\ loaded /\ pc # "find"
  /\ key' = k /\ chain' = 0 /\ visited' = {}
  /\ IF HashSize = 0 THEN pc' = "found" /\ iterator' = End
                     ELSE pc' = "find" /\ UNCHANGED iterator
  /\ UNCHANGED <<hashTable, loaded>>

Returns(i) ==
  /\ pc' = "found" /\ iterator' = i
  /\ UNCHANGED <<hashTable, loaded, key, chain, visited>>

(* Mutant of Exhausted: chain <= hashSize in the loop.                      *)
ExhaustedTooLate == chain > HashSize

Exhausted == chain = HashSize

(* Mutant of EndsChain: a removed slot ends the search.                     *)
EndsChainUnlessUsed(slot) == slot.tag # "used"

EndsChain(slot) == slot.tag = "empty"

(* Mutant of NextInChain: the search comes round to where it began.          *)
NextInCircle(c) == (c + 1) % HashSize

NextInChain(c) == c + 1

(* One iteration of the loop of find, and its end.                         *)
ProbeChain ==
  LET elementIndex == Probe(key, chain)
      element == hashTable[elementIndex]
  IN  /\ pc = "find"
      /\ \/ Exhausted /\ Returns(End)
         \/ ~Exhausted /\ EndsChain(element) /\ Returns(End)
         \/ ~Exhausted /\ Holds(elementIndex, key) /\ Returns(FirstUsed(elementIndex))
         \/ /\ ~Exhausted /\ ~EndsChain(element) /\ ~Holds(elementIndex, key)
            /\ chain' = NextInChain(chain)
            /\ UNCHANGED <<hashTable, loaded, pc, key, iterator, visited>>

Visit(i, before) ==
  /\ iterator' = i
  /\ visited' = before \cup ({i} \ {End})
  /\ pc' = "iterate"
  /\ UNCHANGED <<hashTable, loaded, key, chain>>

Begin == loaded /\ pc # "find" /\ Visit(FirstUsed(0), {})

Increment ==
  /\ pc = "iterate" /\ iterator # End
  /\ Visit(FirstUsed(iterator + 1), visited)

Next ==
  \/ \E k \in Key : Insert(k) \/ Remove(k) \/ Find(k)
  \/ Load \/ ProbeChain \/ Begin \/ Increment

Spec == Init /\ [][Next]_vars

(* A call of find runs on.                                                 *)
FairSpec == Spec /\ WF_vars(ProbeChain)

-----------------------------------------------------------------------------
(* Properties                                                              *)

(* find returns an iterator at the key if the table holds it, end() if not,   *)
(* whatever was removed and however full the table is.                       *)
FindExact ==
  pc = "found" => IF Stored(key) THEN iterator \in Slots /\ Holds(iterator, key)
                                 ELSE iterator = End

(* A key is found if and only if an iteration from begin() to end() meets it. *)
IterationExact ==
  pc = "iterate" => visited = {i \in Slots : Used(i) /\ (i <= iterator \/ iterator = End)}

(* find stops after at most hashTable.size() probes, even when no slot of the   *)
(* table is empty.                                                           *)
FindEnds == pc = "find" ~> pc = "found"
=============================================================================
