-------------------------- MODULE HashTable_proofs --------------------------
(***************************************************************************)
(* Proofs about HashTable, for a table of any size (0 included), any keys and  *)
(* any hash function.                                                        *)
(***************************************************************************)
EXTENDS HashTable, WellFoundedInduction, TLAPS

(* Min of a nonempty set of natural numbers is its least element.          *)
LEMMA MinOfNats ==
  ASSUME NEW S \in SUBSET Nat, S # {}
  PROVE  /\ Min(S) \in S
         /\ \A n \in S : Min(S) <= n
<1>1. PICK m \in S : \A n \in S : <<n, m>> \notin OpToRel(<, Nat)
  BY NatLessThanWellFounded, WFMin, Zenon
<1>2. \A n \in S : ~(n < m)
  BY <1>1, Zenon DEF OpToRel
<1>3. \A n \in S : m <= n
  BY <1>2
<1> QED
  BY <1>3 DEF Min

USE HashTableAssumption DEF Slots, End, Tags

(* Every number of probes of every key leads to a slot.                     *)
LEMMA ProbeInSlots ==
  ASSUME NEW k \in Key, NEW c \in Nat, HashSize > 0
  PROVE  Probe(k, c) \in Slots
<1>1. bucket(k) \in Nat
  BY DEF bucket
<1> QED
  BY <1>1 DEF Probe

(* findNextValidIndex returns the first used slot from i on, or the end.     *)
LEMMA FirstUsedIsFirst ==
  ASSUME NEW i \in 0 .. HashSize
  PROVE  /\ FirstUsed(i) \in i .. HashSize
         /\ FirstUsed(i) # End => Used(FirstUsed(i))
         /\ \A j \in i .. FirstUsed(i) - 1 : ~Used(j)
<1> DEFINE rest == {j \in i .. HashSize - 1 : Used(j)}
<1>1. CASE rest = {}
  BY <1>1 DEF FirstUsed
<1>2. CASE rest # {}
  <2>1. Min(rest) \in rest /\ \A j \in rest : Min(rest) <= j
    BY <1>2, MinOfNats
  <2> HIDE DEF rest
  <2>2. FirstUsed(i) = Min(rest)
    BY <1>2 DEF FirstUsed, rest
  <2> QED
    BY <2>1, <2>2 DEF rest
<1> QED
  BY <1>1, <1>2

-----------------------------------------------------------------------------
(* Only a loaded table is read, and never one without slots.                *)
ReaderOK == pc # "idle" => loaded /\ (pc = "find" => HashSize > 0)

LEMMA TypesKept ==
  ASSUME TypeOK, ReaderOK, [Next]_vars PROVE TypeOK' /\ ReaderOK'
<1>1. ASSUME NEW k \in Key, Insert(k) PROVE TypeOK' /\ ReaderOK'
  <2>1. PICK c \in Slots :
          hashTable' = [hashTable EXCEPT ![Probe(k, c)] = [tag |-> "used", key |-> k]]
    BY <1>1 DEF Insert
  <2> QED
    BY <1>1, <2>1 DEF Insert, reader, TypeOK, ReaderOK
<1>2. ASSUME NEW k \in Key, Remove(k) PROVE TypeOK' /\ ReaderOK'
  BY <1>2 DEF Remove, reader, TypeOK, ReaderOK
<1>3. ASSUME NEW k \in Key, Find(k) PROVE TypeOK' /\ ReaderOK'
  BY <1>3 DEF Find, TypeOK, ReaderOK
<1>4. CASE Load
  BY <1>4 DEF Load, reader, TypeOK, ReaderOK
<1>5. CASE ProbeChain
  <2>1. chain \in 0 .. HashSize /\ iterator \in 0 .. HashSize /\ HashSize > 0 /\ key \in Key
    BY <1>5 DEF ProbeChain, TypeOK, ReaderOK
  <2>2. Probe(key, chain) \in Slots
    BY <2>1, ProbeInSlots
  <2>3. FirstUsed(Probe(key, chain)) \in 0 .. HashSize
    BY <2>2, FirstUsedIsFirst
  <2>4. /\ UNCHANGED <<hashTable, loaded, key, visited>>
        /\ pc' \in {"find", "found"} /\ pc = "find"
    BY <1>5 DEF ProbeChain, Returns
  <2>5. chain' \in 0 .. HashSize
    BY <1>5, <2>1 DEF ProbeChain, Returns, Exhausted, NextInChain
  <2>6. iterator' \in 0 .. HashSize
    BY <1>5, <2>1, <2>3 DEF ProbeChain, Returns
  <2> QED
    BY <2>1, <2>4, <2>5, <2>6 DEF TypeOK, ReaderOK
<1>6. CASE Begin \/ Increment
  <2>1. ASSUME NEW i \in 0 .. HashSize, NEW before \in SUBSET Slots, Visit(FirstUsed(i), before)
        PROVE  iterator' \in 0 .. HashSize /\ visited' \in SUBSET Slots
    <3>1. FirstUsed(i) \in 0 .. HashSize
      BY FirstUsedIsFirst
    <3>2. {FirstUsed(i)} \ {End} \subseteq Slots
      BY <3>1
    <3> QED
      BY <2>1, <3>1, <3>2 DEF Visit
  <2>2. iterator' \in 0 .. HashSize /\ visited' \in SUBSET Slots
    <3>1. CASE Begin
      BY <2>1, <3>1 DEF Begin
    <3>2. CASE Increment
      <4>1. iterator + 1 \in 0 .. HashSize /\ visited \in SUBSET Slots
        BY <3>2 DEF Increment, TypeOK
      <4> QED
        BY <2>1, <3>2, <4>1 DEF Increment
    <3> QED
      BY <1>6, <3>1, <3>2
  <2>3. UNCHANGED <<hashTable, loaded, key, chain>> /\ pc' = "iterate"
    BY <1>6 DEF Begin, Increment, Visit
  <2>4. loaded
    BY <1>6 DEF Begin, Increment, ReaderOK
  <2> QED
    BY <2>2, <2>3, <2>4 DEF TypeOK, ReaderOK
<1>7. CASE UNCHANGED vars
  BY <1>7 DEF vars, reader, TypeOK, ReaderOK
<1> QED
  BY <1>1, <1>2, <1>3, <1>4, <1>5, <1>6, <1>7 DEF Next

LEMMA InitTypes == ASSUME Init PROVE TypeOK /\ ReaderOK
<1>1. PICK k \in Key :
        hashTable = [i \in Slots |-> [tag |-> "empty", key |-> k]] /\ key = k
  BY DEF Init
<1>2. hashTable \in [Slots -> [tag : Tags, key : Key]] /\ key \in Key
  BY <1>1
<1>3. loaded \in BOOLEAN /\ pc = "idle"
  BY DEF Init
<1>4. chain \in 0 .. HashSize /\ iterator \in 0 .. HashSize /\ visited \in SUBSET Slots
  BY DEF Init
<1> QED
  BY <1>2, <1>3, <1>4 DEF TypeOK, ReaderOK

(* The iterator never leaves the slots but for End, and find never probes more  *)
(* often than there are slots.                                               *)
THEOREM TypeCorrect == Spec => []TypeOK
<1>1. Init => TypeOK /\ ReaderOK
  BY InitTypes
<1>2. TypeOK /\ ReaderOK /\ [Next]_vars => (TypeOK /\ ReaderOK)'
  BY TypesKept
<1> QED
  BY <1>1, <1>2, PTL DEF Spec

-----------------------------------------------------------------------------
(* What the writer leaves behind: a stored key is in the probe sequence of its  *)
(* hash, before the first empty slot of it.                                  *)
Reaches(c, i) ==
  LET k == hashTable[i].key
  IN  /\ Probe(k, c) = i
      /\ \A d \in 0 .. c - 1 : hashTable[Probe(k, d)].tag # "empty"

Reachable == \A i \in Slots : Used(i) => \E c \in Slots : Reaches(c, i)

(* A slot that is not empty never becomes empty again.                      *)
LEMMA InsertKeepsReachable ==
  ASSUME TypeOK, Reachable, NEW k \in Key, Insert(k)
  PROVE  Reachable'
<1>1. PICK c \in Slots :
        /\ \A d \in 0 .. c - 1 : hashTable[Probe(k, d)].tag # "empty"
        /\ ~Used(Probe(k, c))
        /\ hashTable' = [hashTable EXCEPT ![Probe(k, c)] = [tag |-> "used", key |-> k]]
  BY DEF Insert
<1> DEFINE slot == Probe(k, c)
<1>2. HashSize > 0 /\ c \in Nat
  OBVIOUS
<1>3. slot \in Slots
  BY <1>2, ProbeInSlots
<1>4. hashTable \in [Slots -> [tag : Tags, key : Key]]
  BY DEF TypeOK
<1>5. hashTable'[slot] = [tag |-> "used", key |-> k]
  BY <1>1, <1>3, <1>4
<1>6. \A i \in Slots : i # slot => hashTable'[i] = hashTable[i]
  BY <1>1, <1>4
<1>7. \A i \in Slots : hashTable[i].tag # "empty" => hashTable'[i].tag # "empty"
  BY <1>5, <1>6
<1>8. ASSUME NEW i \in Slots, Used(i)' PROVE \E e \in Slots : Reaches(e, i)'
  <2>1. CASE i = slot
    <3>1. \A d \in 0 .. c - 1 : Probe(k, d) \in Slots
      BY <1>2, ProbeInSlots
    <3>2. hashTable'[i].key = k
      BY <2>1, <1>5
    <3>3. Reaches(c, i)'
      BY <1>1, <1>7, <2>1, <3>1, <3>2 DEF Reaches, Probe, bucket
    <3> QED
      BY <3>3
  <2>2. CASE i # slot
    <3>1. hashTable'[i] = hashTable[i] /\ Used(i)
      BY <1>6, <1>8, <2>2 DEF Used
    <3>2. PICK e \in Slots : Reaches(e, i)
      BY <3>1 DEF Reachable
    <3>3. hashTable[i].key \in Key
      BY <1>4
    <3>4. \A d \in 0 .. e - 1 : Probe(hashTable[i].key, d) \in Slots
      BY <1>2, <3>3, ProbeInSlots
    <3>5. Reaches(e, i)'
      BY <3>1, <3>2, <3>4, <1>7 DEF Reaches, Probe, bucket
    <3> QED
      BY <3>5
  <2> QED
    BY <2>1, <2>2
<1> QED
  BY <1>8 DEF Reachable

LEMMA RemoveKeepsReachable ==
  ASSUME TypeOK, Reachable, NEW k \in Key, Remove(k)
  PROVE  Reachable'
<1>1. PICK slot \in Slots : hashTable' = [hashTable EXCEPT ![slot].tag = "removed"]
  BY DEF Remove
<1>2. hashTable \in [Slots -> [tag : Tags, key : Key]]
  BY DEF TypeOK
<1>3. \A i \in Slots : hashTable'[i].key = hashTable[i].key
  BY <1>1, <1>2
<1>4. \A i \in Slots : hashTable[i].tag # "empty" => hashTable'[i].tag # "empty"
  BY <1>1, <1>2
<1>5. \A i \in Slots : Used(i)' => Used(i)
  BY <1>1, <1>2 DEF Used
<1>6. ASSUME NEW i \in Slots, Used(i)' PROVE \E e \in Slots : Reaches(e, i)'
  <2>1. PICK e \in Slots : Reaches(e, i)
    BY <1>5, <1>6 DEF Reachable
  <2>2. hashTable[i].key \in Key /\ HashSize > 0
    BY <1>2
  <2>3. \A d \in 0 .. e - 1 : Probe(hashTable[i].key, d) \in Slots
    BY <2>2, ProbeInSlots
  <2>4. Reaches(e, i)'
    BY <1>3, <1>4, <2>1, <2>3 DEF Reaches, Probe, bucket
  <2> QED
    BY <2>4
<1> QED
  BY <1>6 DEF Reachable

(* The slots that find has passed do not hold its key, and none is empty.     *)
Passed ==
  pc = "find" => \A d \in 0 .. chain - 1 :
     ~Holds(Probe(key, d), key) /\ hashTable[Probe(key, d)].tag # "empty"

(* A search that ends without the key ends where the writer cannot have put it *)
(* any further.                                                              *)
LEMMA NotFoundIsAbsent ==
  ASSUME TypeOK, ReaderOK, Reachable, Passed, pc = "find",
         \/ chain = HashSize
         \/ hashTable[Probe(key, chain)].tag = "empty"
  PROVE  ~Stored(key)
<1> SUFFICES ASSUME NEW i \in Slots, Holds(i, key) PROVE FALSE
  BY DEF Stored
<1>1. Used(i) /\ hashTable[i].key = key
  BY DEF Holds
<1>2. PICK c \in Slots : /\ Probe(key, c) = i
                         /\ \A d \in 0 .. c - 1 : hashTable[Probe(key, d)].tag # "empty"
  BY <1>1 DEF Reachable, Reaches
<1>3. chain \in 0 .. HashSize
  BY DEF TypeOK
<1>4. ~(c \in 0 .. chain - 1)
  BY <1>2 DEF Passed
<1>5. c >= chain /\ chain # HashSize
  BY <1>3, <1>4
<1>6. hashTable[Probe(key, chain)].tag = "empty"
  BY <1>5
<1>7. c # chain
  BY <1>1, <1>2, <1>6 DEF Used
<1>8. chain \in 0 .. c - 1
  BY <1>3, <1>5, <1>7
<1> QED
  BY <1>2, <1>6, <1>8

FindInv == TypeOK /\ ReaderOK /\ Reachable /\ Passed /\ FindExact

LEMMA ProbeChainKeepsFind ==
  ASSUME FindInv, ProbeChain
  PROVE  Reachable' /\ Passed' /\ FindExact'
<1>1. pc = "find" /\ hashTable' = hashTable /\ key' = key
  BY DEF ProbeChain, Returns
<1>2. Reachable'
  BY <1>1 DEF FindInv, Reachable, Reaches, Used, Probe, bucket
<1>3. chain \in 0 .. HashSize /\ key \in Key /\ HashSize > 0
  BY <1>1 DEF FindInv, TypeOK, ReaderOK
<1>4. CASE Returns(End) /\ (Exhausted \/ EndsChain(hashTable[Probe(key, chain)]))
  <2>1. ~Stored(key)
    BY <1>1, <1>4, NotFoundIsAbsent DEF FindInv, Exhausted, EndsChain
  <2>2. ~Stored(key)' /\ iterator' = End /\ pc' = "found"
    BY <1>1, <1>4, <2>1 DEF Returns, Stored, Holds, Used
  <2> QED
    BY <1>2, <2>2 DEF Passed, FindExact
<1>5. CASE Returns(FirstUsed(Probe(key, chain))) /\ Holds(Probe(key, chain), key)
  <2> DEFINE slot == Probe(key, chain)
  <2>1. slot \in Slots
    BY <1>3, ProbeInSlots
  <2>2. FirstUsed(slot) = slot
    <3>1. FirstUsed(slot) \in slot .. HashSize
          /\ \A j \in slot .. FirstUsed(slot) - 1 : ~Used(j)
      BY <2>1, FirstUsedIsFirst
    <3>2. Used(slot)
      BY <1>5 DEF Holds
    <3>3. ~(slot \in slot .. FirstUsed(slot) - 1)
      BY <3>1, <3>2
    <3> QED
      BY <2>1, <3>1, <3>3
  <2>3. Holds(slot, key)' /\ Stored(key)'
    BY <1>1, <1>5, <2>1 DEF Returns, Stored, Holds, Used, Probe, bucket
  <2>4. iterator' = slot /\ pc' = "found"
    BY <1>5, <2>2 DEF Returns
  <2>5. Holds(iterator, key)'
    BY <1>1, <1>5, <2>4 DEF Holds, Used
  <2> QED
    BY <1>2, <2>1, <2>3, <2>4, <2>5 DEF Passed, FindExact
<1>6. CASE /\ ~Exhausted /\ ~EndsChain(hashTable[Probe(key, chain)])
           /\ ~Holds(Probe(key, chain), key)
           /\ chain' = chain + 1 /\ UNCHANGED pc
  <2>1. ASSUME NEW d \in 0 .. chain
        PROVE  ~Holds(Probe(key, d), key) /\ hashTable[Probe(key, d)].tag # "empty"
    <3>1. CASE d = chain
      BY <1>6, <3>1 DEF EndsChain
    <3>2. CASE d \in 0 .. chain - 1
      BY <1>1, <3>2 DEF FindInv, Passed
    <3> QED
      BY <1>3, <3>1, <3>2
  <2>2. 0 .. chain' - 1 = 0 .. chain
    BY <1>3, <1>6
  <2>3. Passed'
    BY <1>1, <2>1, <2>2 DEF Passed, Holds, Used, Probe, bucket
  <2>4. FindExact'
    BY <1>1, <1>6 DEF FindExact
  <2> QED
    BY <1>2, <2>3, <2>4
<1> QED
  BY <1>4, <1>5, <1>6, Zenon DEF ProbeChain, NextInChain

LEMMA FindInvKept == ASSUME FindInv, [Next]_vars PROVE FindInv'
<1>1. TypeOK' /\ ReaderOK'
  BY TypesKept DEF FindInv
<1> SUFFICES Reachable' /\ Passed' /\ FindExact'
  BY <1>1 DEF FindInv
<1>2. ASSUME NEW k \in Key, Insert(k) \/ Remove(k)
      PROVE  Reachable' /\ Passed' /\ FindExact'
  <2>1. Reachable'
    BY <1>2, InsertKeepsReachable, RemoveKeepsReachable DEF FindInv
  <2>2. pc' = "idle"
    BY <1>2 DEF Insert, Remove, reader, FindInv, TypeOK, ReaderOK
  <2> QED
    BY <2>1, <2>2 DEF Passed, FindExact
<1>3. ASSUME NEW k \in Key, Find(k) PROVE Reachable' /\ Passed' /\ FindExact'
  <2>1. hashTable' = hashTable /\ key' = k /\ chain' = 0
    BY <1>3 DEF Find
  <2>2. Reachable'
    BY <2>1 DEF FindInv, Reachable, Reaches, Used, Probe, bucket
  <2>3. Passed'
    BY <2>1 DEF Passed
  <2>4. FindExact'
    <3>1. pc' = "found" => HashSize = 0 /\ iterator' = End
      BY <1>3 DEF Find
    <3>2. HashSize = 0 => ~Stored(key)'
      BY DEF Stored
    <3> QED
      BY <3>1, <3>2 DEF FindExact
  <2> QED
    BY <2>2, <2>3, <2>4
<1>4. CASE Load \/ UNCHANGED vars
  <2>1. UNCHANGED <<hashTable, pc, key, chain, iterator>>
    BY <1>4 DEF Load, vars, reader
  <2>2. Reachable'
    BY <2>1 DEF FindInv, Reachable, Reaches, Used, Probe, bucket
  <2>3. Passed'
    BY <2>1 DEF FindInv, Passed, Holds, Used, Probe, bucket
  <2>4. FindExact'
    BY <2>1 DEF FindInv, FindExact, Stored, Holds, Used
  <2> QED
    BY <2>2, <2>3, <2>4
<1>5. CASE ProbeChain
  BY <1>5, ProbeChainKeepsFind
<1>6. CASE Begin \/ Increment
  <2>1. pc' = "iterate" /\ hashTable' = hashTable
    BY <1>6 DEF Begin, Increment, Visit
  <2>2. Reachable'
    BY <2>1 DEF FindInv, Reachable, Reaches, Used, Probe, bucket
  <2> QED
    BY <2>1, <2>2 DEF Passed, FindExact
<1> QED
  BY <1>2, <1>3, <1>4, <1>5, <1>6 DEF Next

(* find returns the key's slot if the table holds the key and end() if it does  *)
(* not, after whatever insertions and removals the file went through.        *)
THEOREM FindIsExact == Spec => []FindExact
<1>1. Init => FindInv
  <2> SUFFICES ASSUME Init PROVE FindInv
    OBVIOUS
  <2>1. pc = "idle" /\ \A i \in Slots : ~Used(i)
    BY DEF Init, Used
  <2> QED
    BY <2>1, InitTypes DEF FindInv, Reachable, Passed, FindExact
<1>2. FindInv /\ [Next]_vars => FindInv'
  BY FindInvKept
<1>3. FindInv => FindExact
  BY DEF FindInv
<1> QED
  BY <1>1, <1>2, <1>3, PTL DEF Spec

-----------------------------------------------------------------------------
IterationInv == TypeOK /\ ReaderOK /\ IterationExact

LEMMA VisitFromExtends ==
  ASSUME TypeOK, NEW i \in 0 .. HashSize, NEW before,
         before = {j \in Slots : Used(j) /\ j < i},
         Visit(FirstUsed(i), before)
  PROVE  IterationExact'
<1> DEFINE n == FirstUsed(i)
<1>1. /\ n \in i .. HashSize
      /\ n # End => Used(n)
      /\ \A j \in i .. n - 1 : ~Used(j)
  BY FirstUsedIsFirst
<1>2. iterator' = n /\ visited' = before \cup ({n} \ {End}) /\ hashTable' = hashTable
  BY DEF Visit
<1> HIDE DEF n
<1>3. \A j \in Slots : Used(j) => (j < i <=> j < n)
  BY <1>1
<1>4. visited' = {j \in Slots : Used(j) /\ (j <= n \/ n = End)}
  BY <1>1, <1>2, <1>3
<1> QED
  BY <1>2, <1>4 DEF IterationExact, Used

(* An iteration from begin() has met, wherever it stands, every used slot up to *)
(* there and no other slot, and all of them when it reaches end().           *)
THEOREM IterationIsExact == Spec => []IterationExact
<1>1. Init => IterationInv
  BY InitTypes DEF Init, IterationInv, IterationExact
<1>2. IterationInv /\ [Next]_vars => IterationInv'
  <2> SUFFICES ASSUME IterationInv, [Next]_vars PROVE IterationExact'
    BY TypesKept DEF IterationInv
  <2>1. CASE Begin
    <3>1. {} = {j \in Slots : Used(j) /\ j < 0} /\ 0 \in 0 .. HashSize
      OBVIOUS
    <3> QED
      BY <2>1, <3>1, VisitFromExtends DEF Begin, IterationInv
  <2>2. CASE Increment
    <3>1. /\ pc = "iterate" /\ iterator # End
          /\ iterator \in 0 .. HashSize
          /\ Visit(FirstUsed(iterator + 1), visited)
      BY <2>2 DEF Increment, IterationInv, TypeOK
    <3>2. visited = {j \in Slots : Used(j) /\ j < iterator + 1}
      BY <3>1 DEF IterationInv, IterationExact
    <3> QED
      BY <3>1, <3>2, VisitFromExtends DEF IterationInv
  <2>3. ASSUME NEW k \in Key, Insert(k) \/ Remove(k) \/ Find(k) PROVE IterationExact'
    <3>1. pc' # "iterate"
      BY <2>3 DEF Insert, Remove, Find, reader, IterationInv, TypeOK, ReaderOK
    <3> QED
      BY <3>1 DEF IterationExact
  <2>4. CASE ProbeChain
    <3>1. pc' # "iterate"
      BY <2>4 DEF ProbeChain, Returns
    <3> QED
      BY <3>1 DEF IterationExact
  <2>5. CASE Load \/ UNCHANGED vars
    BY <2>5 DEF Load, vars, reader, IterationInv, IterationExact, Used
  <2> QED
    BY <2>1, <2>2, <2>3, <2>4, <2>5 DEF Next
<1>3. IterationInv => IterationExact
  BY DEF IterationInv
<1> QED
  BY <1>1, <1>2, <1>3, PTL DEF Spec
=============================================================================
