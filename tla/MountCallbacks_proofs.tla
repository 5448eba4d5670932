------------------------ MODULE MountCallbacks_proofs ------------------------
(***************************************************************************)
(* Proofs about the callbacks of the mount, for any key space, files and tree:   *)
(* about DirectoryEnumeration for any number of threads and open directories,    *)
(* about FileLookup for any offsets and lengths, and about the two together:     *)
(* a name opens as what the listing of its directory has shown.               *)
(*                                                                         *)
(* Every step of an enumeration is a step of one thread with one GUID.  The        *)
(* invariant is a conjunction over the threads and over the GUIDs, so that such a  *)
(* step can only disturb the conjuncts of its own thread and its own GUID,        *)
(* provided that no two threads work with one GUID (Exclusive).  IInv is the       *)
(* invariant behind types and pointers.  Tracks says of a scan, on top of it, that *)
(* what the caller has been given are the entries wanted that the enumeration has  *)
(* passed, and that these come before all others; the exactness and the order of   *)
(* listings and the refinement of DirectoryListing follow from it.  Of a lookup,    *)
(* the range that a path is parsed into holds the keys that the path names digit   *)
(* by digit (QueryInv).                                                      *)
(***************************************************************************)
EXTENDS DirectoryEnumeration, FileLookup, ByIdNames_proofs, FiniteSetTheorems

(* What is assumed of the files and of the tree.                               *)
LEMMA FilesTypes ==
  /\ DOMAIN m_files \subseteq Keys
  /\ \A key \in DOMAIN m_files : m_files[key] \in Nat
  BY FilesAssumption DEF FilesAreKeyed

LEMMA InodesTypes ==
  /\ DOMAIN Inodes \subseteq Path
  /\ \A path \in DOMAIN Inodes :
        Inodes[path] \in [info : Info, fileKey : Keys \cup {-1}]
  /\ <<>> \in DOMAIN Inodes
  /\ Inodes[<<>>].info = DirectoryInfo
  BY InodesAssumption DEF TreeIsRooted

Parsing == {"parse", "register"}
Reading == {"lookup", "prepare", "fill"}

(* An enumeration of \by-id covers a block of more than one key and its        *)
(* position lies in the block, just past it, or before it (after it wrapped);    *)
(* any other has children of its inode still to visit.                        *)
EnumerationOK(enumeration) ==
  /\ enumeration \in Enumeration
  /\ enumeration.byID =>
       /\ \E k \in 1 .. Digits : IsBlock(k, enumeration.firstID, enumeration.lastID)
       /\ enumeration.posID <= enumeration.lastID + 1
  /\ ~enumeration.byID => enumeration.iterator \subseteq Children(enumeration.path)

SamePath(g) ==
  g \in DOMAIN m_directoryEnumerations /\ m_directoryEnumerations[g].path = scan[g].path

ThreadOK(t) ==
  /\ pc[t] \in {"idle"} \cup Parsing \cup Reading
  /\ pc[t] # "idle" => /\ frame[t] \in Frame
                       /\ session[frame[t].guid] = "calling"
  /\ pc[t] \in Parsing => /\ ParsedBlock(frame[t].cursor)
                          /\ frame[t].path = scan[frame[t].guid].path
                          /\ frame[t].guid \notin DOMAIN m_directoryEnumerations
  /\ pc[t] \in Reading => SamePath(frame[t].guid)

GuidOK(g) ==
  /\ session[g] \in {"closed", "calling", "open"}
  /\ session[g] # "closed" => scan[g] \in Scan
  /\ session[g] = "open" => SamePath(g)
  /\ session[g] = "closed" => g \notin DOMAIN m_directoryEnumerations
  /\ g \in DOMAIN m_directoryEnumerations => EnumerationOK(m_directoryEnumerations[g])

Shape ==
  /\ pc = [t \in Threads |-> pc[t]] /\ frame = [t \in Threads |-> frame[t]]
  /\ session = [g \in Guids |-> session[g]] /\ scan = [g \in Guids |-> scan[g]]
  /\ DOMAIN m_directoryEnumerations \subseteq Guids

Exclusive ==
  \A t, u \in Threads :
     pc[t] # "idle" /\ pc[u] # "idle" /\ frame[t].guid = frame[u].guid => t = u

IInv ==
  /\ Shape /\ Exclusive
  /\ \A t \in Threads : ThreadOK(t)
  /\ \A g \in Guids : GuidOK(g)

LEMMA IInvImplies == ASSUME IInv PROVE TypeOK /\ NoDanglingPointer
<1>1. TypeOK
  BY DEF IInv, Shape, ThreadOK, GuidOK, EnumerationOK, TypeOK, Parsing, Reading
<1>2. NoDanglingPointer
  BY DEF IInv, Shape, ThreadOK, GuidOK, SamePath, NoDanglingPointer, Parsing, Reading, Frame
<1> QED
  BY <1>1, <1>2

-----------------------------------------------------------------------------
(* The step of thread t with GUID g changes nothing that belongs to others.   *)
Touches(t, g) ==
  /\ pc' = [pc EXCEPT ![t] = pc'[t]]
  /\ frame' = [frame EXCEPT ![t] = frame'[t]]
  /\ session' = [session EXCEPT ![g] = session'[g]]
  /\ scan' = [scan EXCEPT ![g] = scan'[g]]
  /\ \A h \in Guids \ {g} :
       /\ h \in DOMAIN m_directoryEnumerations' <=> h \in DOMAIN m_directoryEnumerations
       /\ h \in DOMAIN m_directoryEnumerations =>
            m_directoryEnumerations'[h] = m_directoryEnumerations[h]
  /\ DOMAIN m_directoryEnumerations' \subseteq Guids
  /\ pc'[t] # "idle" => frame'[t].guid = g

LEMMA LocalStep ==
  ASSUME IInv, NEW t \in Threads, NEW g \in Guids, Touches(t, g),
         IF pc[t] = "idle" THEN session[g] # "calling" ELSE frame[t].guid = g,
         ThreadOK(t)', GuidOK(g)'
  PROVE  IInv'
<1>1. /\ pc' = [u \in Threads |-> pc'[u]] /\ frame' = [u \in Threads |-> frame'[u]]
      /\ session' = [h \in Guids |-> session'[h]] /\ scan' = [h \in Guids |-> scan'[h]]
      /\ \A u \in Threads \ {t} : pc'[u] = pc[u] /\ frame'[u] = frame[u]
      /\ \A h \in Guids \ {g} : session'[h] = session[h] /\ scan'[h] = scan[h]
  BY DEF IInv, Shape, Touches
<1>2. Shape'
  BY <1>1 DEF Shape, Touches
<1>3. \A u \in Threads \ {t} : pc[u] # "idle" => frame[u].guid \in Guids \ {g}
  BY DEF IInv, Exclusive, ThreadOK, Frame
<1>4. Exclusive'
  BY <1>1, <1>3 DEF IInv, Exclusive, Touches
<1>5. ASSUME NEW u \in Threads \ {t} PROVE ThreadOK(u)'
  <2>1. ThreadOK(u) /\ (pc[u] # "idle" => frame[u].guid \in Guids \ {g})
    BY <1>3 DEF IInv
  <2>2. CASE pc[u] = "idle"
    BY <1>1, <2>2 DEF ThreadOK, Parsing, Reading
  <2>3. CASE pc[u] # "idle"
    <3> DEFINE h == frame[u].guid
    <3>1. h \in Guids \ {g} /\ frame'[u] = frame[u] /\ pc'[u] = pc[u]
      BY <1>1, <2>1, <2>3
    <3>2. /\ session'[h] = session[h] /\ scan'[h] = scan[h]
          /\ h \in DOMAIN m_directoryEnumerations' <=> h \in DOMAIN m_directoryEnumerations
          /\ h \in DOMAIN m_directoryEnumerations =>
               m_directoryEnumerations'[h] = m_directoryEnumerations[h]
      BY <1>1, <3>1 DEF Touches
    <3> QED
      BY <2>1, <2>3, <3>1, <3>2 DEF ThreadOK, SamePath, ParsedBlock
  <2> QED
    BY <2>2, <2>3
<1>6. ASSUME NEW h \in Guids \ {g} PROVE GuidOK(h)'
  <2>1. GuidOK(h)
    BY DEF IInv
  <2>2. /\ session'[h] = session[h] /\ scan'[h] = scan[h]
        /\ h \in DOMAIN m_directoryEnumerations' <=> h \in DOMAIN m_directoryEnumerations
        /\ h \in DOMAIN m_directoryEnumerations =>
             m_directoryEnumerations'[h] = m_directoryEnumerations[h]
    BY <1>1 DEF Touches
  <2> QED
    BY <2>1, <2>2 DEF GuidOK, SamePath, EnumerationOK
<1> QED
  BY <1>2, <1>4, <1>5, <1>6 DEF IInv

-----------------------------------------------------------------------------
(* The enumeration, apart from who works with it.                            *)

(* m_files.lower_bound(posID), unless the loop of the \by-id branch is at its    *)
(* end: a known key of the block.                                            *)
LEMMA FileInBlock ==
  ASSUME NEW pos \in Nat, NEW last \in Nat, pos <= last + 1,
         LowerBound(pos) # UpperBound(last)
  PROVE  /\ LowerBound(pos) \in DOMAIN m_files /\ LowerBound(pos) \in 0 .. last
         /\ pos <= LowerBound(pos)
         /\ \A key \in DOMAIN m_files : pos <= key => LowerBound(pos) <= key
<1> DEFINE lower == {key \in DOMAIN m_files : key >= pos}
           upper == {key \in DOMAIN m_files : key > last}
<1>1. DOMAIN m_files \subseteq Nat
  BY FilesTypes, SpanTypes DEF Keys
<1>2. upper \subseteq lower /\ lower \in SUBSET Nat /\ upper \in SUBSET Nat
  BY <1>1
<1>3. LowerBound(pos) = FirstOrEnd(lower) /\ UpperBound(last) = FirstOrEnd(upper)
  BY DEF LowerBound, UpperBound
<1>4. lower # {}
  BY <1>2, <1>3
<1>5. LowerBound(pos) = Min(lower)
  BY <1>3, <1>4 DEF FirstOrEnd
<1>6. Min(lower) \in lower /\ \A n \in lower : Min(lower) <= n
  BY <1>2, <1>4, MinOfNats
<1>7. Min(lower) <= last
  <2>1. SUFFICES ASSUME Min(lower) > last PROVE FALSE
    BY <1>1, <1>6
  <2>2. Min(lower) \in upper
    BY <1>6, <2>1
  <2>3. UpperBound(last) = Min(upper) /\ Min(upper) \in upper
        /\ \A n \in upper : Min(upper) <= n
    BY <1>2, <1>3, <2>2, MinOfNats DEF FirstOrEnd
  <2>4. Min(upper) <= Min(lower) /\ Min(lower) <= Min(upper)
    BY <1>2, <1>6, <2>2, <2>3
  <2>5. Min(upper) = Min(lower)
    BY <1>1, <1>6, <2>3, <2>4
  <2> QED
    BY <1>5, <2>3, <2>5
<1> QED
  BY <1>1, <1>5, <1>6, <1>7

LEMMA BlockTypes ==
  ASSUME NEW enumeration, EnumerationOK(enumeration), enumeration.byID
  PROVE  /\ enumeration.firstID \in Nat /\ enumeration.lastID \in Nat
         /\ enumeration.posID \in Nat /\ enumeration.posID <= enumeration.lastID + 1
         /\ enumeration.firstID <= enumeration.lastID
<1>1. PICK k \in 1 .. Digits : IsBlock(k, enumeration.firstID, enumeration.lastID)
  BY DEF EnumerationOK
<1>2. k \in 0 .. Digits
  BY BaseTypes
<1>3. enumeration.firstID <= enumeration.lastID
  BY <1>1, <1>2, BlockOfKeys
<1> QED
  BY <1>3, SpanTypes DEF EnumerationOK, Enumeration, Keys

LEMMA NextEntryTyped ==
  ASSUME NEW enumeration, EnumerationOK(enumeration), ~AtEnd(enumeration)
  PROVE  NextEntry(enumeration) \in Entry
<1>1. CASE enumeration.byID
  <2> DEFINE key == LowerBound(enumeration.posID)
  <2>1. key \in DOMAIN m_files /\ key \in 0 .. enumeration.lastID
    BY <1>1, BlockTypes, FileInBlock DEF AtEnd
  <2>2. PICK k \in 1 .. Digits : IsBlock(k, enumeration.firstID, enumeration.lastID)
    BY <1>1 DEF EnumerationOK
  <2> HIDE DEF key
  <2>3. ByIdSplit(key, enumeration.firstID, enumeration.lastID).byte \in Name
    BY <2>1, <2>2, SplitInBlock, NameAssumption
  <2>4. m_files[key] \in Nat
    BY <2>1, FilesTypes
  <2>5. FileInfo(m_files[key]) \in Info /\ DirectoryInfo \in Info
    BY <2>4 DEF FileInfo, DirectoryInfo, Info
  <2> QED
    BY <1>1, <2>3, <2>5 DEF NextEntry, Split, Entry, key
<1>2. CASE ~enumeration.byID
  <2> DEFINE name == Min(enumeration.iterator)
  <2>1. /\ enumeration.iterator \subseteq Children(enumeration.path)
        /\ enumeration.iterator \in SUBSET Nat /\ enumeration.iterator # {}
    BY <1>2, NameAssumption DEF EnumerationOK, AtEnd, Children
  <2>2. name \in Children(enumeration.path)
    BY <2>1, MinOfNats
  <2>3. name \in Name /\ Append(enumeration.path, name) \in DOMAIN Inodes
    BY <2>2 DEF Children
  <2>4. Inodes[Append(enumeration.path, name)].info \in Info
    BY <2>3, InodesTypes
  <2> QED
    BY <1>2, <2>3, <2>4 DEF NextEntry, Entry
<1> QED
  BY <1>1, <1>2

LEMMA AdvanceKeepsOK ==
  ASSUME NEW enumeration, EnumerationOK(enumeration), ~AtEnd(enumeration)
  PROVE  /\ EnumerationOK(Advance(enumeration))
         /\ Advance(enumeration).path = enumeration.path
<1>1. CASE enumeration.byID
  <2> DEFINE key == LowerBound(enumeration.posID)
             next == ByIdSplit(key, enumeration.firstID, enumeration.lastID).next
  <2>1. key \in 0 .. enumeration.lastID
    BY <1>1, BlockTypes, FileInBlock DEF AtEnd
  <2>2. PICK k \in 1 .. Digits : IsBlock(k, enumeration.firstID, enumeration.lastID)
    BY <1>1 DEF EnumerationOK
  <2> HIDE DEF key
  <2>3. next \in Keys /\ next <= enumeration.lastID + 1
    BY <2>1, <2>2, SplitInBlock
  <2>4. Advance(enumeration) = [enumeration EXCEPT !.posID = next]
    BY <1>1 DEF Advance, Split, key
  <2> HIDE DEF next
  <2> QED
    BY <1>1, <2>3, <2>4 DEF EnumerationOK, Enumeration
<1>2. CASE ~enumeration.byID
  <2>1. Advance(enumeration)
          = [enumeration EXCEPT !.iterator = @ \ {Min(enumeration.iterator)}]
    BY <1>2 DEF Advance
  <2> QED
    BY <1>2, <2>1 DEF EnumerationOK, Enumeration
<1> QED
  BY <1>1, <1>2

LEMMA BegunKeepsOK ==
  ASSUME NEW enumeration, EnumerationOK(enumeration), NEW expression \in Expression
  PROVE  /\ EnumerationOK(Begun(enumeration, expression))
         /\ Begun(enumeration, expression).path = enumeration.path
<1> DEFINE begun == Begun(enumeration, expression)
<1>1. /\ enumeration \in Enumeration /\ Children(enumeration.path) \subseteq Name
      /\ (expression # NoExpression) \in BOOLEAN
  BY DEF EnumerationOK, Children
<1>2. begun = [enumeration EXCEPT
        !.scanInProgress = TRUE, !.filter = begun.filter, !.pattern = begun.pattern,
        !.posID = begun.posID, !.iterator = begun.iterator]
  BY <1>1 DEF Begun, Enumeration
<1>3. /\ begun.filter = (expression # NoExpression)
      /\ begun.pattern = IF expression # NoExpression THEN expression ELSE enumeration.pattern
      /\ begun.posID = IF enumeration.byID THEN enumeration.firstID ELSE enumeration.posID
      /\ begun.iterator
           = IF enumeration.byID THEN enumeration.iterator ELSE Children(enumeration.path)
  BY <1>1 DEF Begun, Enumeration
<1>4. begun.posID \in Keys /\ begun.pattern \in Expression
      /\ begun.iterator \in SUBSET Name /\ begun.filter \in BOOLEAN
  BY <1>1, <1>3 DEF Enumeration
<1>5. enumeration.byID => begun.posID <= enumeration.lastID + 1
  BY <1>3, BlockTypes
<1> HIDE DEF begun
<1>6. begun \in Enumeration
  BY <1>1, <1>2, <1>4 DEF Enumeration
<1>7. /\ begun.byID = enumeration.byID /\ begun.path = enumeration.path
      /\ begun.firstID = enumeration.firstID /\ begun.lastID = enumeration.lastID
  BY <1>1, <1>2 DEF Enumeration
<1> QED
  BY <1>3, <1>5, <1>6, <1>7 DEF EnumerationOK, begun

LEMMA NewEnumerationOK ==
  ASSUME NEW f \in Frame, ParsedBlock(f.cursor), IsDirectory(f)
  PROVE  /\ EnumerationOK(NewEnumeration(f))
         /\ NewEnumeration(f).path = f.path
<1> DEFINE new == NewEnumeration(f)
           k == FreeDigits(f.cursor.next)
<1>1. /\ new.path = f.path /\ new.byID = f.byID /\ new.posID = 0 /\ new.iterator = {}
      /\ new.firstID = f.cursor.firstID /\ new.lastID = f.cursor.lastID
  BY DEF NewEnumeration
<1>2. new \in Enumeration
  BY SpanTypes DEF NewEnumeration, Enumeration, Frame, Cursor, Expression, Keys
<1>3. ASSUME f.byID PROVE \E j \in 1 .. Digits : IsBlock(j, new.firstID, new.lastID)
  <2>1. f.cursor.firstID # f.cursor.lastID
    BY <1>3 DEF IsDirectory
  <2>2. k \in 0 .. Digits /\ IsBlock(k, f.cursor.firstID, f.cursor.lastID)
    BY BaseTypes DEF ParsedBlock, FreeDigits
  <2>3. k # 0
    <3>1. SUFFICES ASSUME k = 0 PROVE FALSE
      OBVIOUS
    <3>2. IsBlock(0, f.cursor.firstID, f.cursor.lastID)
      BY <2>2, <3>1
    <3>3. f.cursor.lastID - f.cursor.firstID + 1 = 1
      BY <3>2, BaseTypes, BlockOfKeys, SpanAssumption
    <3> QED
      BY <2>1, <3>3, SpanTypes DEF Frame, Cursor, Keys
  <2> HIDE DEF k
  <2> QED
    BY <1>1, <2>2, <2>3, BaseTypes
<1>4. new.byID => new.posID <= new.lastID + 1
  BY <1>1, SpanTypes DEF Frame, Cursor, Keys
<1> HIDE DEF new
<1> QED
  BY <1>1, <1>2, <1>3, <1>4 DEF EnumerationOK, new

-----------------------------------------------------------------------------
(* The actions, one by one.                                                 *)

LEMMA OpenDirectoryKeeps ==
  ASSUME IInv, NEW t \in Threads, NEW g \in Guids, NEW path \in Paths,
         OpenDirectory(t, g, path)
  PROVE  Touches(t, g) /\ IInv'
<1> DEFINE newFrame ==
             [guid |-> g, path |-> path, cursor |-> ParseBegin, byID |-> FALSE,
              restart |-> FALSE, expression |-> NoExpression, room |-> 0,
              writtenEntry |-> FALSE]
           newScan ==
             [path |-> path, expression |-> NoExpression, started |-> FALSE,
              got |-> {}, ended |-> FALSE, restarts |-> 0]
<1>1. Shape /\ GuidOK(g) /\ pc[t] = "idle" /\ session[g] = "closed"
  BY DEF IInv, OpenDirectory
<1>2. /\ pc'[t] = "parse" /\ frame'[t] = newFrame
      /\ session'[g] = "calling" /\ scan'[g] = newScan
      /\ m_directoryEnumerations' = m_directoryEnumerations
  BY <1>1 DEF Shape, OpenDirectory
<1>3. Touches(t, g)
  BY <1>1, <1>2 DEF Shape, OpenDirectory, Touches
<1>4. newFrame \in Frame /\ newScan \in Scan
  BY CallerAssumption, ParseBeginBlock DEF Frame, Scan, Expression
<1>5. ThreadOK(t)'
  <2>1. newFrame.guid = g /\ newFrame.path = newScan.path /\ newFrame.cursor = ParseBegin
    OBVIOUS
  <2>2. g \notin DOMAIN m_directoryEnumerations
    BY <1>1 DEF GuidOK
  <2>3. ParsedBlock(frame'[t].cursor)
    BY <1>2, <2>1, ParseBeginBlock
  <2> HIDE DEF newFrame, newScan
  <2> QED
    BY <1>2, <1>4, <2>1, <2>2, <2>3 DEF ThreadOK, Parsing, Reading, ParsedBlock
<1>6. GuidOK(g)'
  <2> HIDE DEF newFrame, newScan
  <2> QED
    BY <1>1, <1>2, <1>4 DEF GuidOK
<1> QED
  BY <1>1, <1>3, <1>5, <1>6, LocalStep

(* What holds while a callback runs.                                         *)
LEMMA Running ==
  ASSUME IInv, NEW t \in Threads, pc[t] # "idle", NEW g, g = frame[t].guid
  PROVE  /\ Shape /\ ThreadOK(t) /\ frame[t] \in Frame
         /\ g \in Guids /\ GuidOK(g)
         /\ session[g] = "calling" /\ scan[g] \in Scan
  BY DEF IInv, ThreadOK, Frame, GuidOK

LEMMA ParseComponentKeeps ==
  ASSUME IInv, NEW t \in Threads, NEW g, g = frame[t].guid, ParseComponent(t)
  PROVE  Touches(t, g) /\ IInv'
<1> DEFINE f == frame'[t]
<1>1. pc[t] = "parse"
  BY DEF ParseComponent
<1>2. /\ Shape /\ ThreadOK(t) /\ frame[t] \in Frame
      /\ g \in Guids /\ GuidOK(g) /\ session[g] = "calling"
  BY <1>1, Running
<1>3. UNCHANGED <<m_directoryEnumerations, session, scan>>
  BY DEF ParseComponent
<1>4. /\ pc' = [pc EXCEPT ![t] = pc'[t]] /\ frame' = [frame EXCEPT ![t] = f]
      /\ pc'[t] \in Parsing
      /\ f \in Frame /\ ParsedBlock(f.cursor)
      /\ f.guid = g /\ f.path = frame[t].path
  <2>1. ParsedBlock(frame[t].cursor)
    BY <1>1, <1>2 DEF ThreadOK, Parsing
  <2>2. ASSUME NEW b \in BOOLEAN, frame' = [frame EXCEPT ![t].byID = b],
               pc' = [pc EXCEPT ![t] = "register"]
        PROVE  <1>4
    BY <1>2, <2>1, <2>2 DEF Shape, Frame, Parsing
  <2>3. CASE /\ ~ParseDone(frame[t].path, frame[t].cursor)
             /\ ~ParseRejects(frame[t].path, frame[t].cursor)
             /\ frame' = [frame EXCEPT ![t].cursor = ParseNext(frame[t].path, frame[t].cursor)]
             /\ UNCHANGED pc
    <3> DEFINE next == ParseNext(frame[t].path, frame[t].cursor)
    <3>1. frame[t].path \in Path /\ frame[t].cursor \in Cursor
      BY <1>2, CallerAssumption DEF Frame
    <3>2. next \in Cursor /\ ParsedBlock(next)
      BY <2>1, <2>3, <3>1, ParseNextBlock
    <3>3. frame' = [frame EXCEPT ![t].cursor = next]
      BY <2>3
    <3> HIDE DEF next
    <3>4. f = [frame[t] EXCEPT !.cursor = next] /\ frame' = [frame EXCEPT ![t] = f]
      BY <1>2, <3>3 DEF Shape
    <3>5. f \in Frame /\ f.cursor = next /\ f.guid = g /\ f.path = frame[t].path
      BY <1>2, <3>2, <3>4 DEF Frame
    <3>6. pc' = [pc EXCEPT ![t] = pc'[t]] /\ pc'[t] \in Parsing
      BY <1>1, <1>2, <2>3 DEF Shape, Parsing
    <3> QED
      BY <3>2, <3>4, <3>5, <3>6
  <2>4. (Len(frame[t].path) > 0) \in BOOLEAN
    OBVIOUS
  <2> QED
    BY <2>2, <2>3, <2>4 DEF ParseComponent
<1>5. Touches(t, g)
  BY <1>2, <1>3, <1>4 DEF Shape, Touches
<1>6. ThreadOK(t)'
  BY <1>1, <1>2, <1>3, <1>4 DEF ThreadOK, Parsing, Reading, ParsedBlock
<1>7. GuidOK(g)'
  BY <1>2, <1>3 DEF GuidOK, SamePath
<1> QED
  BY <1>1, <1>2, <1>5, <1>6, <1>7, LocalStep

(* What a return does to thread and GUID.                                    *)
LEMMA ReturnStep ==
  ASSUME Shape, NEW t \in Threads, NEW g \in Guids, NEW outcome, Return(t, g, outcome)
  PROVE  /\ pc' = [pc EXCEPT ![t] = pc'[t]] /\ pc'[t] = "idle"
         /\ frame' = [frame EXCEPT ![t] = frame'[t]]
         /\ session' = [session EXCEPT ![g] = session'[g]] /\ session'[g] = outcome
         /\ ThreadOK(t)'
<1>1. /\ pc' = [pc EXCEPT ![t] = pc'[t]] /\ pc'[t] = "idle"
      /\ frame' = [frame EXCEPT ![t] = frame'[t]]
      /\ session' = [session EXCEPT ![g] = session'[g]] /\ session'[g] = outcome
  BY DEF Shape, Return
<1>2. ThreadOK(t)'
  BY <1>1 DEF ThreadOK, Parsing, Reading
<1> QED
  BY <1>1, <1>2

LEMMA RegisterFailsKeeps ==
  ASSUME IInv, NEW t \in Threads, NEW g, g = frame[t].guid, RegisterFails(t)
  PROVE  Touches(t, g) /\ IInv'
<1>1. pc[t] = "register"
  BY DEF RegisterFails
<1>2. /\ Shape /\ ThreadOK(t) /\ g \in Guids /\ GuidOK(g)
  BY <1>1, Running
<1>3. /\ Return(t, g, "closed")
      /\ scan' = [scan EXCEPT ![g] = NoScan]
      /\ m_directoryEnumerations' = m_directoryEnumerations
  BY DEF RegisterFails
<1>4. /\ pc' = [pc EXCEPT ![t] = pc'[t]] /\ pc'[t] = "idle"
      /\ frame' = [frame EXCEPT ![t] = frame'[t]]
      /\ session' = [session EXCEPT ![g] = session'[g]] /\ session'[g] = "closed"
      /\ ThreadOK(t)'
  BY <1>2, <1>3, ReturnStep
<1>5. scan' = [scan EXCEPT ![g] = scan'[g]]
  BY <1>2, <1>3 DEF Shape
<1>6. Touches(t, g)
  BY <1>2, <1>3, <1>4, <1>5 DEF Shape, Touches
<1>7. GuidOK(g)'
  BY <1>1, <1>2, <1>3, <1>4 DEF GuidOK, ThreadOK, Parsing
<1> QED
  BY <1>1, <1>2, <1>4, <1>6, <1>7, LocalStep

LEMMA RegisterKeeps ==
  ASSUME IInv, NEW t \in Threads, NEW g, g = frame[t].guid, Register(t)
  PROVE  Touches(t, g) /\ IInv'
<1> DEFINE new == NewEnumeration(frame[t])
<1>1. pc[t] = "register" /\ IsDirectory(frame[t])
  BY DEF Register
<1>2. /\ Shape /\ ThreadOK(t) /\ frame[t] \in Frame
      /\ g \in Guids /\ GuidOK(g) /\ session[g] = "calling" /\ scan[g] \in Scan
  BY <1>1, Running
<1>3. /\ g \notin DOMAIN m_directoryEnumerations /\ ParsedBlock(frame[t].cursor)
      /\ frame[t].path = scan[g].path
  BY <1>1, <1>2 DEF ThreadOK, Parsing
<1>4. EnumerationOK(new) /\ new.path = frame[t].path
  BY <1>1, <1>2, <1>3, NewEnumerationOK
<1>5. Return(t, g, "open") /\ scan' = scan
  BY DEF Register
<1> HIDE DEF new
<1>6. /\ DOMAIN m_directoryEnumerations' = DOMAIN m_directoryEnumerations \cup {g}
      /\ m_directoryEnumerations'[g] = new
      /\ \A h \in DOMAIN m_directoryEnumerations :
           m_directoryEnumerations'[h] = m_directoryEnumerations[h]
  BY <1>3 DEF Register, new
<1>7. /\ pc' = [pc EXCEPT ![t] = pc'[t]] /\ pc'[t] = "idle"
      /\ frame' = [frame EXCEPT ![t] = frame'[t]]
      /\ session' = [session EXCEPT ![g] = session'[g]] /\ session'[g] = "open"
      /\ ThreadOK(t)'
  BY <1>2, <1>5, ReturnStep
<1>8. Touches(t, g)
  BY <1>2, <1>5, <1>6, <1>7 DEF Shape, Touches
<1>9. GuidOK(g)'
  BY <1>2, <1>3, <1>4, <1>5, <1>6, <1>7 DEF GuidOK, SamePath, EnumerationOK
<1> QED
  BY <1>1, <1>2, <1>7, <1>8, <1>9, LocalStep

LEMMA CloseDirectoryKeeps ==
  ASSUME IInv, NEW t \in Threads, NEW g \in Guids, CloseDirectory(t, g)
  PROVE  Touches(t, g) /\ IInv'
<1>1. /\ Shape /\ ThreadOK(t) /\ pc[t] = "idle" /\ session[g] = "open"
      /\ UNCHANGED <<pc, frame>>
  BY DEF IInv, CloseDirectory
<1>2. /\ session' = [session EXCEPT ![g] = "closed"]
      /\ scan' = [scan EXCEPT ![g] = NoScan]
      /\ DOMAIN m_directoryEnumerations' = DOMAIN m_directoryEnumerations \ {g}
      /\ \A h \in DOMAIN m_directoryEnumerations' :
           m_directoryEnumerations'[h] = m_directoryEnumerations[h]
  BY DEF CloseDirectory
<1>3. /\ session' = [session EXCEPT ![g] = session'[g]] /\ session'[g] = "closed"
      /\ scan' = [scan EXCEPT ![g] = scan'[g]]
  BY <1>1, <1>2 DEF Shape
<1>4. Touches(t, g)
  BY <1>1, <1>2, <1>3 DEF Shape, Touches
<1>5. ThreadOK(t)'
  BY <1>1 DEF ThreadOK, Parsing, Reading
<1>6. GuidOK(g)'
  BY <1>2, <1>3 DEF GuidOK
<1> QED
  BY <1>1, <1>4, <1>5, <1>6, LocalStep

LEMMA FetchEntriesKeeps ==
  ASSUME IInv, NEW t \in Threads, NEW g \in Guids, NEW restart \in BOOLEAN,
         NEW expression \in Expression, NEW room \in 0 .. MaxRoom,
         FetchEntries(t, g, restart, expression, room)
  PROVE  Touches(t, g) /\ IInv'
<1> DEFINE newFrame ==
             [guid |-> g, path |-> scan[g].path, cursor |-> ParseBegin,
              byID |-> FALSE, restart |-> restart, expression |-> expression,
              room |-> room, writtenEntry |-> FALSE]
<1>1. /\ Shape /\ GuidOK(g) /\ pc[t] = "idle" /\ session[g] = "open"
      /\ restart => scan[g].restarts < MaxRestarts
      /\ m_directoryEnumerations' = m_directoryEnumerations
  BY DEF IInv, FetchEntries
<1>2. scan[g] \in Scan /\ SamePath(g)
  BY <1>1 DEF GuidOK
<1>3. /\ pc' = [pc EXCEPT ![t] = pc'[t]] /\ pc'[t] = "lookup"
      /\ frame' = [frame EXCEPT ![t] = frame'[t]] /\ frame'[t] = newFrame
      /\ session' = [session EXCEPT ![g] = session'[g]] /\ session'[g] = "calling"
  BY <1>1 DEF Shape, FetchEntries
<1>4. newFrame \in Frame
  BY <1>2, ParseBeginBlock DEF Frame, Scan
<1>5. scan' = [scan EXCEPT ![g] = scan'[g]] /\ scan'[g].path = scan[g].path
      /\ scan'[g] \in Scan
  <2> DEFINE begins == restart \/ ~scan[g].started
             newScan == [scan[g] EXCEPT
               !.started = TRUE,
               !.expression = IF begins THEN expression ELSE @,
               !.got = IF begins THEN {} ELSE @,
               !.ended = IF begins THEN FALSE ELSE @,
               !.restarts = IF restart THEN @ + 1 ELSE @]
  <2>1. scan' = [scan EXCEPT ![g] = newScan]
    BY <1>1, <1>2 DEF Shape, FetchEntries, Scan
  <2>2. (IF restart THEN scan[g].restarts + 1 ELSE scan[g].restarts) \in 0 .. MaxRestarts
    BY <1>1, <1>2, CallerAssumption DEF Scan
  <2>3. newScan \in Scan /\ newScan.path = scan[g].path
    BY <1>2, <2>2 DEF Scan
  <2> HIDE DEF newScan
  <2> QED
    BY <1>1, <2>1, <2>3 DEF Shape
<1>6. newFrame.guid = g
  OBVIOUS
<1> HIDE DEF newFrame
<1>7. Touches(t, g)
  BY <1>1, <1>3, <1>5, <1>6 DEF Shape, Touches
<1>8. ThreadOK(t)'
  BY <1>1, <1>2, <1>3, <1>4, <1>5, <1>6 DEF ThreadOK, Parsing, Reading, SamePath
<1>9. GuidOK(g)'
  BY <1>1, <1>3, <1>5 DEF GuidOK
<1> QED
  BY <1>1, <1>7, <1>8, <1>9, LocalStep

LEMMA LookupKeeps ==
  ASSUME IInv, NEW t \in Threads, NEW g, g = frame[t].guid, Lookup(t)
  PROVE  Touches(t, g) /\ IInv'
<1>1. pc[t] = "lookup" /\ UNCHANGED <<m_directoryEnumerations, scan>>
  BY DEF Lookup
<1>2. /\ Shape /\ ThreadOK(t) /\ frame[t] \in Frame
      /\ g \in Guids /\ GuidOK(g) /\ session[g] = "calling"
  BY <1>1, Running
<1>3. SamePath(g)
  BY <1>1, <1>2 DEF ThreadOK, Reading
<1>4. pc' = [pc EXCEPT ![t] = "prepare"] /\ UNCHANGED <<frame, session>>
  BY <1>3 DEF Lookup, SamePath
<1>5. Touches(t, g)
  BY <1>1, <1>2, <1>4 DEF Shape, Touches
<1>6. ThreadOK(t)'
  BY <1>1, <1>2, <1>3, <1>4 DEF Shape, ThreadOK, Parsing, Reading, SamePath
<1>7. GuidOK(g)'
  BY <1>1, <1>2, <1>4 DEF GuidOK, SamePath
<1> QED
  BY <1>1, <1>2, <1>5, <1>6, <1>7, LocalStep

(* The step rewrites the enumeration of its GUID, as another good enumeration    *)
(* of the same directory.                                                    *)
Rewrites(g) ==
  /\ DOMAIN m_directoryEnumerations' = DOMAIN m_directoryEnumerations
  /\ \A h \in DOMAIN m_directoryEnumerations \ {g} :
        m_directoryEnumerations'[h] = m_directoryEnumerations[h]
  /\ EnumerationOK(m_directoryEnumerations'[g])
  /\ m_directoryEnumerations'[g].path = m_directoryEnumerations[g].path

LEMMA Reads ==
  ASSUME IInv, NEW t \in Threads, pc[t] \in Reading, NEW g, g = frame[t].guid
  PROVE  /\ Shape /\ ThreadOK(t) /\ frame[t] \in Frame /\ SamePath(g)
         /\ g \in Guids /\ GuidOK(g) /\ session[g] = "calling" /\ scan[g] \in Scan
         /\ EnumerationOK(m_directoryEnumerations[g])
<1>1. pc[t] # "idle"
  BY DEF Reading
<1>2. /\ Shape /\ ThreadOK(t) /\ frame[t] \in Frame
      /\ g \in Guids /\ GuidOK(g) /\ session[g] = "calling" /\ scan[g] \in Scan
  BY <1>1, Running
<1> QED
  BY <1>2 DEF ThreadOK, SamePath, GuidOK

LEMMA PrepareKeeps ==
  ASSUME IInv, NEW t \in Threads, NEW g, g = frame[t].guid, Prepare(t)
  PROVE  Touches(t, g) /\ IInv'
<1> DEFINE begun == Begun(m_directoryEnumerations[g], frame[t].expression)
<1>1. /\ pc[t] = "prepare" /\ pc' = [pc EXCEPT ![t] = "fill"]
      /\ UNCHANGED <<frame, session, scan>>
  BY DEF Prepare
<1>2. /\ Shape /\ ThreadOK(t) /\ frame[t] \in Frame /\ SamePath(g)
      /\ g \in Guids /\ GuidOK(g) /\ session[g] = "calling" /\ scan[g] \in Scan
      /\ EnumerationOK(m_directoryEnumerations[g])
  BY <1>1, Reads DEF Reading
<1>3. EnumerationOK(begun) /\ begun.path = m_directoryEnumerations[g].path
  BY <1>2, BegunKeepsOK DEF Frame
<1>4. \/ m_directoryEnumerations' = m_directoryEnumerations
      \/ m_directoryEnumerations' = [m_directoryEnumerations EXCEPT ![g] = begun]
  BY DEF Prepare
<1> HIDE DEF begun
<1>5. Rewrites(g)
  BY <1>2, <1>3, <1>4 DEF Rewrites, SamePath
<1>6. Touches(t, g)
  BY <1>1, <1>2, <1>5 DEF Shape, Touches, Rewrites
<1>7. ThreadOK(t)'
  BY <1>1, <1>2, <1>5 DEF Shape, ThreadOK, Parsing, Reading, SamePath, Rewrites
<1>8. GuidOK(g)'
  BY <1>1, <1>2, <1>5 DEF GuidOK, SamePath, Rewrites
<1> QED
  BY <1>1, <1>2, <1>6, <1>7, <1>8, LocalStep

LEMMA FillAtEndKeeps ==
  ASSUME IInv, NEW t \in Threads, NEW g, g = frame[t].guid, FillAtEnd(t)
  PROVE  Touches(t, g) /\ IInv'
<1>1. /\ pc[t] = "fill" /\ Return(t, g, "open")
      /\ scan' = [scan EXCEPT ![g].ended = ~frame[t].writtenEntry]
      /\ m_directoryEnumerations' = m_directoryEnumerations
  BY DEF FillAtEnd, FetchReturns
<1>2. /\ Shape /\ ThreadOK(t) /\ frame[t] \in Frame /\ SamePath(g)
      /\ g \in Guids /\ GuidOK(g) /\ scan[g] \in Scan
  BY <1>1, Reads DEF Reading
<1>3. /\ pc' = [pc EXCEPT ![t] = pc'[t]] /\ pc'[t] = "idle"
      /\ frame' = [frame EXCEPT ![t] = frame'[t]]
      /\ session' = [session EXCEPT ![g] = session'[g]] /\ session'[g] = "open"
      /\ ThreadOK(t)'
  BY <1>1, <1>2, ReturnStep
<1>4. /\ scan' = [scan EXCEPT ![g] = scan'[g]] /\ scan'[g] \in Scan
      /\ scan'[g].path = scan[g].path
  <2>1. (~frame[t].writtenEntry) \in BOOLEAN
    OBVIOUS
  <2> QED
    BY <1>1, <1>2, <2>1 DEF Shape, Scan
<1>5. Touches(t, g)
  BY <1>1, <1>2, <1>3, <1>4 DEF Shape, Touches
<1>6. GuidOK(g)'
  BY <1>1, <1>2, <1>3, <1>4 DEF GuidOK, SamePath
<1> QED
  BY <1>1, <1>2, <1>3, <1>5, <1>6, LocalStep

LEMMA FillBufferFullKeeps ==
  ASSUME IInv, NEW t \in Threads, NEW g, g = frame[t].guid, FillBufferFull(t)
  PROVE  Touches(t, g) /\ IInv'
<1>1. /\ pc[t] = "fill" /\ Return(t, g, "open")
      /\ UNCHANGED <<m_directoryEnumerations, scan>>
  BY DEF FillBufferFull
<1>2. /\ Shape /\ ThreadOK(t) /\ SamePath(g) /\ g \in Guids /\ GuidOK(g)
      /\ scan[g] \in Scan
  BY <1>1, Reads DEF Reading
<1>3. /\ pc' = [pc EXCEPT ![t] = pc'[t]] /\ pc'[t] = "idle"
      /\ frame' = [frame EXCEPT ![t] = frame'[t]]
      /\ session' = [session EXCEPT ![g] = session'[g]] /\ session'[g] = "open"
      /\ ThreadOK(t)'
  BY <1>1, <1>2, ReturnStep
<1>4. Touches(t, g)
  BY <1>1, <1>2, <1>3 DEF Shape, Touches
<1>5. GuidOK(g)'
  BY <1>1, <1>2, <1>3 DEF GuidOK, SamePath
<1> QED
  BY <1>1, <1>2, <1>3, <1>4, <1>5, LocalStep

LEMMA FillEntryKeeps ==
  ASSUME IInv, NEW t \in Threads, NEW g, g = frame[t].guid, FillEntry(t)
  PROVE  Touches(t, g) /\ IInv'
<1> DEFINE enumeration == m_directoryEnumerations[g]
           advanced == Advance(enumeration)
           selected == Selected(enumeration)
           written == selected \/ frame[t].writtenEntry
<1>1. /\ pc[t] = "fill" /\ ~AtEnd(enumeration)
      /\ selected => frame[t].room > 0
      /\ m_directoryEnumerations' = [m_directoryEnumerations EXCEPT ![g] = advanced]
  BY DEF FillEntry
<1>2. /\ Shape /\ ThreadOK(t) /\ frame[t] \in Frame /\ SamePath(g)
      /\ g \in Guids /\ GuidOK(g) /\ session[g] = "calling" /\ scan[g] \in Scan
      /\ EnumerationOK(enumeration)
  BY <1>1, Reads DEF Reading
<1>3. EnumerationOK(advanced) /\ advanced.path = enumeration.path
  BY <1>1, <1>2, AdvanceKeepsOK
<1>4. Rewrites(g)
  <2> HIDE DEF advanced
  <2> QED
    BY <1>1, <1>2, <1>3 DEF Rewrites, SamePath
<1>5. NextEntry(enumeration) \in Entry
  BY <1>1, <1>2, NextEntryTyped
<1>6. /\ scan' = [scan EXCEPT ![g] = scan'[g]] /\ scan'[g] \in Scan
      /\ scan'[g].path = scan[g].path
  <2> DEFINE got == IF selected THEN scan[g].got \cup {NextEntry(enumeration)}
                                ELSE scan[g].got
             ended == ~Continues(advanced) /\ ~written
  <2>1. scan' = [scan EXCEPT ![g].got = got, ![g].ended = ended]
    BY <1>2 DEF FillEntry, Shape, Scan
  <2>2. got \in SUBSET Entry /\ ended \in BOOLEAN
    BY <1>2, <1>5 DEF Scan
  <2> HIDE DEF got, ended
  <2>3. scan' = [scan EXCEPT ![g] = [scan[g] EXCEPT !.got = got, !.ended = ended]]
    BY <1>2, <2>1 DEF Shape
  <2> QED
    BY <1>2, <2>2, <2>3 DEF Shape, Scan
<1>7. GuidOK(g)' \/ session'[g] \notin {"open", "calling"}
  BY <1>2, <1>4, <1>6 DEF GuidOK, Rewrites, SamePath
<1>8. CASE Continues(advanced)
  <2>1. /\ frame' = [frame EXCEPT ![t].writtenEntry = written,
                                  ![t].room = IF selected THEN @ - 1 ELSE @]
        /\ UNCHANGED <<pc, session>>
    BY <1>8 DEF FillEntry
  <2> DEFINE room == IF selected THEN frame[t].room - 1 ELSE frame[t].room
             f == [frame[t] EXCEPT !.writtenEntry = written, !.room = room]
  <2>2. frame' = [frame EXCEPT ![t] = f]
    BY <1>2, <2>1 DEF Shape, Frame
  <2>3. room \in 0 .. MaxRoom
    BY <1>1, <1>2, CallerAssumption DEF Frame
  <2>4. written \in BOOLEAN
    <3>1. selected \in BOOLEAN
      BY Zenon DEF Selected
    <3> HIDE DEF selected
    <3> QED
      BY <1>2, <3>1 DEF Frame
  <2> HIDE DEF room, written
  <2>5. f \in Frame /\ f.guid = g /\ f.path = frame[t].path
    BY <1>2, <2>3, <2>4 DEF Frame
  <2> HIDE DEF f
  <2>6. Touches(t, g)
    BY <1>2, <1>4, <1>6, <2>1, <2>2, <2>5 DEF Shape, Touches, Rewrites
  <2>7. ThreadOK(t)'
    <3>1. pc'[t] = "fill" /\ frame'[t] = f /\ session'[g] = "calling"
      BY <1>1, <1>2, <2>1, <2>2 DEF Shape
    <3>2. SamePath(g)'
      BY <1>2, <1>4, <1>6 DEF SamePath, Rewrites
    <3> QED
      BY <2>5, <3>1, <3>2 DEF ThreadOK, Parsing, Reading, SamePath
  <2>8. GuidOK(g)'
    BY <1>2, <1>7, <2>1
  <2> QED
    BY <1>1, <1>2, <2>6, <2>7, <2>8, LocalStep
<1>9. CASE ~Continues(advanced)
  <2>1. Return(t, g, "open")
    BY <1>9 DEF FillEntry
  <2>2. /\ pc' = [pc EXCEPT ![t] = pc'[t]] /\ pc'[t] = "idle"
        /\ frame' = [frame EXCEPT ![t] = frame'[t]]
        /\ session' = [session EXCEPT ![g] = session'[g]] /\ session'[g] = "open"
        /\ ThreadOK(t)'
    BY <1>2, <2>1, ReturnStep
  <2>3. Touches(t, g)
    BY <1>2, <1>4, <1>6, <2>2 DEF Shape, Touches, Rewrites
  <2>4. GuidOK(g)'
    BY <1>7, <2>2
  <2> QED
    BY <1>1, <1>2, <2>2, <2>3, <2>4, LocalStep
<1> QED
  BY <1>8, <1>9

-----------------------------------------------------------------------------
LEMMA InitEstablishes == ASSUME Init PROVE IInv
<1>1. Shape
  BY DEF Init, Shape
<1>2. \A t \in Threads : pc[t] = "idle"
  BY DEF Init
<1>3. \A g \in Guids : session[g] = "closed" /\ g \notin DOMAIN m_directoryEnumerations
  BY DEF Init
<1>4. Exclusive /\ \A t \in Threads : ThreadOK(t)
  BY <1>2 DEF Exclusive, ThreadOK, Parsing, Reading
<1>5. \A g \in Guids : GuidOK(g)
  BY <1>3 DEF GuidOK
<1> QED
  BY <1>1, <1>4, <1>5 DEF IInv

LEMMA StutterKeeps == ASSUME IInv, UNCHANGED vars PROVE IInv'
<1>1. Shape' /\ Exclusive'
  BY DEF IInv, vars, Shape, Exclusive
<1>2. ASSUME NEW t \in Threads PROVE ThreadOK(t)'
  BY DEF IInv, vars, ThreadOK, SamePath, ParsedBlock
<1>3. ASSUME NEW g \in Guids PROVE GuidOK(g)'
  BY DEF IInv, vars, GuidOK, SamePath, EnumerationOK
<1> QED
  BY <1>1, <1>2, <1>3 DEF IInv

LEMMA NextKeeps == ASSUME IInv, Next PROVE IInv'
<1>1. PICK t \in Threads : ThreadStep(t) \/ \E g \in Guids : CallerStep(t, g)
  BY DEF Next
<1>2. CASE ThreadStep(t)
  <2>1. PICK g : g = frame[t].guid
    OBVIOUS
  <2> QED
    BY <1>2, <2>1, ParseComponentKeeps, RegisterFailsKeeps, RegisterKeeps, LookupKeeps,
       PrepareKeeps, FillAtEndKeeps, FillEntryKeeps, FillBufferFullKeeps DEF ThreadStep
<1>3. ASSUME NEW g \in Guids, CallerStep(t, g) PROVE IInv'
  BY <1>3, OpenDirectoryKeeps, CloseDirectoryKeeps, FetchEntriesKeeps DEF CallerStep
<1> QED
  BY <1>1, <1>2, <1>3

LEMMA Invariance == Spec => []IInv
<1>1. Init => IInv
  BY InitEstablishes
<1>2. IInv /\ [Next]_vars => IInv'
  BY NextKeeps, StutterKeeps
<1> QED
  BY <1>1, <1>2, PTL DEF Spec

(* The three callbacks only ever compute and store values of the declared        *)
(* types, for every base and number of digits, any files and inodes, and any     *)
(* number of threads and open directories: the masks and shifts of parseByIDName  *)
(* and byIdSplit never leave the 64-bit keys, and an entry that is delivered is   *)
(* a name with the information of a known file or directory.                  *)
THEOREM TypeCorrect == Spec => []TypeOK
<1>1. IInv => TypeOK
  BY IInvImplies
<1> QED
  BY <1>1, Invariance, PTL

(* The pointer that getDirectoryEnumeration keeps after it unlocks the mutex      *)
(* (ProjectedFilesystem.cpp:450) points to a live enumeration of the directory    *)
(* the caller opened until the call returns, no matter which other directories    *)
(* are opened, listed and closed meanwhile; an open GUID is always found, and a    *)
(* closed one has left nothing behind.                                        *)
THEOREM NoPointerDangles == Spec => []NoDanglingPointer
<1>1. IInv => NoDanglingPointer
  BY IInvImplies
<1> QED
  BY <1>1, Invariance, PTL

-----------------------------------------------------------------------------
(* How far an enumeration has come.                                          *)

(* The range of keys of an enumeration of \by-id is that of its path.           *)
Ranged(e) ==
  /\ e.byID <=> IsByIDDirectory(e.path)
  /\ e.byID =>
       /\ IsBlock(Digits + 1 - Len(e.path), e.firstID, e.lastID)
       /\ \A key \in Keys : e.firstID <= key /\ key <= e.lastID <=> key \in KeysUnder(e.path)

(* The first key of child n, or the first past the last child.                  *)
Position(e, n) == e.firstID + n * Span[Digits - Len(e.path)]

Passed(e, name) == IF e.byID THEN Position(e, name) < e.posID ELSE name \notin e.iterator

Aligned(e) ==
  IF e.byID
  THEN \E n \in 0 .. Base : e.posID = Position(e, n)
  ELSE \A name \in e.iterator, other \in Children(e.path) :
          name < other => other \in e.iterator

Good(e) == EnumerationOK(e) /\ Ranged(e)

LEMMA RangeTypes ==
  ASSUME NEW e, Good(e), e.byID, NEW k, k = Digits - Len(e.path)
  PROVE  /\ e.path \in Path /\ IsByIDDirectory(e.path)
         /\ Len(e.path) \in 1 .. Digits /\ k \in 0 .. Digits - 1
         /\ Span[k] \in Nat \ {0}
         /\ e.firstID \in Nat /\ e.lastID \in Nat /\ e.lastID < KeySpace
         /\ IsBlock(k + 1, e.firstID, e.lastID)
         /\ e.lastID + 1 = Position(e, Base)
         /\ e.lastID - e.firstID = Base - 1 <=> k = 0
<1>1. e.path \in Path /\ IsByIDDirectory(e.path)
  BY CallerAssumption DEF Good, Ranged, EnumerationOK, Enumeration
<1>2. Len(e.path) \in 1 .. Digits /\ k \in 0 .. Digits - 1 /\ Digits + 1 - Len(e.path) = k + 1
  BY <1>1, BaseTypes DEF IsByIDDirectory, IsByIDPath
<1>3. IsBlock(k + 1, e.firstID, e.lastID)
  BY <1>2 DEF Good, Ranged
<1>4. k \in 0 .. Digits
  BY <1>2, BaseTypes
<1>5. /\ e.firstID \in Nat /\ e.lastID \in Nat /\ e.lastID < KeySpace
      /\ e.lastID + 1 = e.firstID + Base * Span[k]
      /\ e.lastID - e.firstID = Base - 1 <=> k = 0
  BY <1>2, <1>3, ChildrenFillBlock
<1>6. Span[k] \in Nat \ {0} /\ Position(e, Base) = e.firstID + Base * Span[k]
  BY <1>4, SpanTypes DEF Position
<1> QED
  BY <1>1, <1>2, <1>3, <1>5, <1>6

LEMMA PositionsOrdered ==
  ASSUME NEW e, Good(e), e.byID, NEW a \in Nat, NEW b \in Nat
  PROVE  /\ Position(e, a) \in Nat /\ e.firstID <= Position(e, a)
         /\ Position(e, a + 1) = Position(e, a) + Span[Digits - Len(e.path)]
         /\ a < b => Position(e, a) + Span[Digits - Len(e.path)] <= Position(e, b)
         /\ Position(e, a) < Position(e, b) <=> a < b
         /\ Position(e, a) <= Position(e, b) <=> a <= b
<1> DEFINE span == Span[Digits - Len(e.path)]
           pa == a * span
           pb == b * span
<1>1. span \in Nat \ {0} /\ e.firstID \in Nat
  BY RangeTypes
<1> HIDE DEF span
<1>2. pa \in Nat /\ pb \in Nat
  BY <1>1, MultipleTypes
<1>3. (a + 1) * span = pa + span
  BY <1>1, Distribute
<1>4. (a < b => pa + span <= pb) /\ (b < a => pb + span <= pa) /\ (a = b => pa = pb)
  BY <1>1, MultiplesAreOrdered
<1>5. /\ Position(e, a) = e.firstID + pa /\ Position(e, b) = e.firstID + pb
      /\ Position(e, a + 1) = e.firstID + (pa + span)
  BY <1>3 DEF Position, span
<1> HIDE DEF pa, pb
<1>6. Position(e, a + 1) = Position(e, a) + span
  BY <1>1, <1>2, <1>5
<1>7. /\ Position(e, a) \in Nat /\ e.firstID <= Position(e, a)
      /\ a < b => Position(e, a) + span <= Position(e, b)
      /\ Position(e, a) < Position(e, b) <=> a < b
      /\ Position(e, a) <= Position(e, b) <=> a <= b
  BY <1>1, <1>2, <1>4, <1>5
<1> QED
  BY <1>6, <1>7 DEF span

(* The keys under a child are those from its position to the next.              *)
LEMMA KeysOfPosition ==
  ASSUME NEW e, Good(e), e.byID, NEW name \in Bytes, NEW key \in Keys
  PROVE  /\ key \in KeysUnder(Append(e.path, name))
              <=> Position(e, name) <= key /\ key < Position(e, name + 1)
         /\ Position(e, name) <= key /\ key < Position(e, name + 1)
              => key <= e.lastID /\ Byte(key, Digits - Len(e.path)) = name
<1> DEFINE k == Digits - Len(e.path)
<1>1. /\ e.path \in Path /\ IsByIDDirectory(e.path) /\ k \in 0 .. Digits - 1
      /\ e.firstID \in Nat /\ e.lastID \in Nat
      /\ IsBlock(k + 1, e.firstID, e.lastID) /\ Span[k] \in Nat \ {0}
  BY RangeTypes
<1>2. key \in KeysUnder(Append(e.path, name))
        <=> key \in KeysUnder(e.path) /\ Byte(key, k) = name
  BY <1>1, KeysOfChild
<1>3. key \in KeysUnder(e.path) <=> e.firstID <= key /\ key <= e.lastID
  BY DEF Good, Ranged
<1>4. key \in Nat /\ name \in Nat
  BY SpanTypes, BaseTypes DEF Keys, Bytes
<1> HIDE DEF k
<1>5. e.firstID + name * Span[k] <= key /\ key <= e.firstID + name * Span[k] + Span[k] - 1
        <=> e.firstID <= key /\ key <= e.lastID /\ Byte(key, k) = name
  BY <1>1, <1>4, ChildRange
<1>6. /\ Position(e, name) = e.firstID + name * Span[k] /\ Position(e, name) \in Nat
      /\ Position(e, name + 1) = Position(e, name) + Span[k]
  BY <1>4, PositionsOrdered DEF Position, k
<1> QED
  BY <1>1, <1>2, <1>3, <1>4, <1>5, <1>6 DEF k

-----------------------------------------------------------------------------
(* An enumeration of \by-id.                                                 *)

(* No file is left from a position that is at the end.                          *)
LEMMA NoFileLeft ==
  ASSUME NEW pos \in Nat, NEW last \in Nat, last < KeySpace, pos <= last + 1
  PROVE  LowerBound(pos) = UpperBound(last)
           <=> \A key \in DOMAIN m_files : ~(pos <= key /\ key <= last)
<1> DEFINE lower == {key \in DOMAIN m_files : key >= pos}
           upper == {key \in DOMAIN m_files : key > last}
<1>1. DOMAIN m_files \subseteq Nat
  BY FilesTypes, SpanTypes DEF Keys
<1>2. upper \in SUBSET Nat /\ KeySpace \in Nat
  BY <1>1, SpanTypes
<1>3. LowerBound(pos) = FirstOrEnd(lower) /\ UpperBound(last) = FirstOrEnd(upper)
  BY DEF LowerBound, UpperBound
<1>4. FirstOrEnd(upper) > last
  BY <1>2, MinOfNats DEF FirstOrEnd, EndOfFiles
<1>5. ASSUME LowerBound(pos) # UpperBound(last)
      PROVE  \E key \in DOMAIN m_files : pos <= key /\ key <= last
  BY <1>1, <1>5, FileInBlock
<1>6. ASSUME LowerBound(pos) = UpperBound(last), NEW key \in DOMAIN m_files,
             pos <= key, key <= last
      PROVE  FALSE
  <2>1. key \in lower /\ lower \in SUBSET Nat /\ lower # {}
    BY <1>1, <1>6
  <2>2. FirstOrEnd(lower) = Min(lower) /\ Min(lower) \in Nat /\ Min(lower) <= key
    BY <2>1, MinOfNats DEF FirstOrEnd
  <2> HIDE DEF lower, upper
  <2>3. Min(lower) > last /\ key \in Nat
    BY <1>1, <1>3, <1>4, <1>6, <2>2
  <2> QED
    BY <1>6, <2>2, <2>3
<1> QED
  BY <1>5, <1>6

LEMMA ByIdContents ==
  ASSUME NEW e, Good(e), e.byID, NEW entry
  PROVE  entry \in Contents(e.path)
           <=> \E name \in Bytes :
                 /\ \E key \in DOMAIN m_files :
                      Position(e, name) <= key /\ key < Position(e, name + 1)
                 /\ entry = [name |-> name, info |-> EntryInfo(e.path, name)]
<1>1. IsByIDDirectory(e.path)
  BY RangeTypes
<1>2. ASSUME NEW name \in Bytes
      PROVE  FilesUnder(Append(e.path, name)) # {}
               <=> \E key \in DOMAIN m_files :
                      Position(e, name) <= key /\ key < Position(e, name + 1)
  BY KeysOfPosition, FilesTypes DEF FilesUnder
<1>3. EntryNames(e.path) = {name \in Bytes : FilesUnder(Append(e.path, name)) # {}}
  BY <1>1 DEF EntryNames
<1> QED
  BY <1>2, <1>3 DEF Contents

(* The file that m_files.lower_bound finds is in the first child that has not      *)
(* been passed, and its key gives the child's name and information.             *)
LEMMA ByIdNext ==
  ASSUME NEW e, Good(e), e.byID, NEW n \in 0 .. Base, e.posID = Position(e, n),
         ~AtEnd(e), NEW b, b = NextEntry(e).name
  PROVE  /\ b \in Bytes /\ n <= b
         /\ NextEntry(e) \in Contents(e.path)
         /\ \A entry \in Contents(e.path) :
              entry.name \in Bytes /\ (n <= entry.name => b <= entry.name)
         /\ FilesUnder(Append(e.path, b)) # {}
         /\ \/ Advance(e).posID = Position(e, b + 1)
            \/ Advance(e).posID = 0 /\ Position(e, b + 1) = KeySpace
<1> DEFINE k == Digits - Len(e.path)
           key == LowerBound(e.posID)
<1>1. /\ IsByIDDirectory(e.path) /\ e.path \in Path /\ Len(e.path) \in 1 .. Digits
      /\ k \in 0 .. Digits - 1 /\ Span[k] \in Nat \ {0}
      /\ e.firstID \in Nat /\ e.lastID \in Nat /\ e.lastID < KeySpace
      /\ IsBlock(k + 1, e.firstID, e.lastID)
      /\ e.lastID + 1 = Position(e, Base)
      /\ e.lastID - e.firstID = Base - 1 <=> k = 0
  BY RangeTypes
<1>2. e.posID \in Nat /\ e.posID <= e.lastID + 1 /\ n \in Nat /\ e.firstID <= e.posID
  <2>1. n \in Nat
    BY BaseTypes
  <2>2. e.posID \in Nat /\ e.posID <= e.lastID + 1
    BY BlockTypes DEF Good
  <2>3. e.firstID <= e.posID
    BY <2>1, PositionsOrdered
  <2> QED
    BY <2>1, <2>2, <2>3
<1>3. /\ key \in DOMAIN m_files /\ key \in 0 .. e.lastID /\ e.posID <= key
      /\ \A other \in DOMAIN m_files : e.posID <= other => key <= other
  BY <1>1, <1>2, FileInBlock DEF AtEnd
<1> HIDE DEF key
<1>4. key \in Keys /\ key \in Nat /\ key \in e.firstID .. e.lastID
  BY <1>1, <1>2, <1>3, SpanTypes DEF Keys
<1> DEFINE split == ByIdSplit(key, e.firstID, e.lastID)
<1>5. /\ Byte(key, k) \in Bytes /\ split.byte = Byte(key, k)
      /\ \/ split.next = e.firstID + (Byte(key, k) + 1) * Span[k]
         \/ split.next = 0 /\ e.firstID + (Byte(key, k) + 1) * Span[k] = KeySpace
  BY <1>1, <1>4, SplitOfChild
<1>6. Split(e) = split /\ NextEntry(e).name = split.byte
  BY DEF Split, NextEntry, key
<1>7. b = Byte(key, k) /\ b \in Bytes /\ b \in Nat
  BY <1>5, <1>6, BaseTypes DEF Bytes
<1>8. \/ Advance(e).posID = Position(e, b + 1)
      \/ Advance(e).posID = 0 /\ Position(e, b + 1) = KeySpace
  BY <1>5, <1>6, <1>7 DEF Advance, Position, k, Good, EnumerationOK, Enumeration
<1>9. Position(e, b) <= key /\ key < Position(e, b + 1)
  <2>1. key \in KeysUnder(e.path)
    BY <1>4 DEF Good, Ranged
  <2>2. key \in KeysUnder(Append(e.path, b))
    BY <1>1, <1>7, <2>1, KeysOfChild
  <2> QED
    BY <1>4, <1>7, <2>2, KeysOfPosition
<1>10. n <= b
  <2>1. b + 1 \in Nat
    BY <1>7
  <2>2. Position(e, n) < Position(e, b + 1)
    <3>1. Position(e, n) \in Nat /\ Position(e, b + 1) \in Nat
      BY <1>2, <2>1, PositionsOrdered
    <3> QED
      BY <1>3, <1>4, <1>9, <3>1
  <2>3. n < b + 1
    BY <1>2, <2>1, <2>2, PositionsOrdered
  <2> QED
    BY <1>2, <1>7, <2>3
<1>11. FilesUnder(Append(e.path, b)) # {}
  BY <1>3, <1>4, <1>7, <1>9, KeysOfPosition DEF FilesUnder
<1>12. NextEntry(e) = [name |-> b, info |-> EntryInfo(e.path, b)]
  <2>1. EntryInfo(e.path, b) = ByIdInfo(Append(e.path, b))
    BY <1>1 DEF EntryInfo
  <2>2. Len(Append(e.path, b)) = Digits + 1 <=> k = 0
    <3>1. Len(Append(e.path, b)) = Len(e.path) + 1
      BY <1>1, <1>7, KeysOfChild
    <3>2. k = Digits - Len(e.path) /\ Len(e.path) \in Nat /\ Digits \in Nat
      BY <1>1, BaseTypes
    <3> HIDE DEF k
    <3> QED
      BY <3>1, <3>2
  <2>3. CASE k = 0
    <3>1. Len(Append(e.path, b)) = Digits + 1 /\ e.lastID - e.firstID = Base - 1
      BY <1>1, <2>2, <2>3
    <3>2. Span[k] = 1
      BY <2>3, SpanAssumption
    <3>3. Position(e, b + 1) = Position(e, b) + 1 /\ Position(e, b) \in Nat
      BY <1>7, <3>2, PositionsOrdered
    <3>4. \A other \in FilesUnder(Append(e.path, b)) : other = key
      <4>1. TAKE other \in FilesUnder(Append(e.path, b))
      <4>2. other \in Keys /\ other \in KeysUnder(Append(e.path, b))
        BY DEF FilesUnder, KeysUnder
      <4>3. Position(e, b) <= other /\ other < Position(e, b + 1) /\ other \in Nat
        BY <1>7, <4>2, KeysOfPosition, SpanTypes DEF Keys
      <4> QED
        BY <1>4, <1>9, <3>3, <4>3
    <3>5. (CHOOSE other \in FilesUnder(Append(e.path, b)) : TRUE) = key
      BY <1>11, <3>4
    <3>6. EntryInfo(e.path, b) = FileInfo(m_files[key])
      BY <2>1, <3>1, <3>5 DEF ByIdInfo
    <3> QED
      BY <1>6, <1>7, <1>5, <3>1, <3>6 DEF NextEntry, key
  <2>4. CASE k # 0
    <3>1. Len(Append(e.path, b)) # Digits + 1 /\ e.lastID - e.firstID # Base - 1
      BY <1>1, <2>2, <2>4
    <3>2. EntryInfo(e.path, b) = DirectoryInfo
      BY <2>1, <3>1 DEF ByIdInfo
    <3> QED
      BY <1>6, <1>7, <1>5, <3>1, <3>2 DEF NextEntry
  <2> QED
    BY <2>3, <2>4
<1>13. NextEntry(e) \in Contents(e.path)
  BY <1>3, <1>7, <1>9, <1>12, ByIdContents
<1>14. ASSUME NEW entry \in Contents(e.path)
       PROVE  entry.name \in Bytes /\ (n <= entry.name => b <= entry.name)
  <2>1. PICK name \in Bytes :
          /\ \E other \in DOMAIN m_files :
               Position(e, name) <= other /\ other < Position(e, name + 1)
          /\ entry = [name |-> name, info |-> EntryInfo(e.path, name)]
    BY ByIdContents
  <2>2. PICK other \in DOMAIN m_files :
          Position(e, name) <= other /\ other < Position(e, name + 1)
    BY <2>1
  <2>3. entry.name = name /\ name \in Nat /\ other \in Nat
    BY <2>1, BaseTypes, FilesTypes, SpanTypes DEF Bytes, Keys
  <2>4. ASSUME n <= name PROVE b <= name
    <3>1. Position(e, n) <= Position(e, name) /\ Position(e, name) \in Nat
      BY <1>2, <2>3, <2>4, PositionsOrdered
    <3>2. key <= other
      BY <1>2, <1>3, <2>2, <2>3, <3>1
    <3>3. name + 1 \in Nat /\ Position(e, b) \in Nat /\ Position(e, name + 1) \in Nat
      <4>1. name + 1 \in Nat
        BY <2>3
      <4> QED
        BY <1>7, <4>1, PositionsOrdered
    <3>4. Position(e, b) < Position(e, name + 1)
      BY <1>4, <1>9, <2>2, <2>3, <3>2, <3>3
    <3>5. b < name + 1
      BY <1>7, <3>3, <3>4, PositionsOrdered
    <3> QED
      BY <1>7, <2>3, <3>5
  <2> QED
    BY <2>3, <2>4
<1> QED
  BY <1>7, <1>8, <1>10, <1>11, <1>13, <1>14

-----------------------------------------------------------------------------
(* Both kinds of enumeration: what has been passed is what comes before the next   *)
(* entry.                                                                    *)

LEMMA SameName ==
  ASSUME NEW path, NEW a \in Contents(path), NEW b \in Contents(path), a.name = b.name
  PROVE  a = b
  BY DEF Contents

LEMMA NamesAreNumbers ==
  ASSUME NEW path, NEW entry \in Contents(path)
  PROVE  entry.name \in Nat
<1>1. PICK name \in EntryNames(path) : entry = [name |-> name, info |-> EntryInfo(path, name)]
  BY DEF Contents
<1>2. name \in Name
  BY NameAssumption DEF EntryNames, Children
<1> QED
  BY <1>1, <1>2, NameAssumption

LEMMA InodeContents ==
  ASSUME NEW e, Good(e), ~e.byID, NEW entry
  PROVE  entry \in Contents(e.path)
           <=> \E name \in Children(e.path) :
                 entry = [name |-> name, info |-> Inodes[Append(e.path, name)].info]
  BY DEF Good, Ranged, Contents, EntryNames, EntryInfo

LEMMA PassedComeBefore ==
  ASSUME NEW e, Good(e), Aligned(e), ~AtEnd(e)
  PROVE  /\ NextEntry(e) \in Contents(e.path)
         /\ \A other \in Contents(e.path) :
              Passed(e, other.name) <=> other.name < NextEntry(e).name
<1>1. CASE e.byID
  <2>1. PICK n \in 0 .. Base : e.posID = Position(e, n)
    BY <1>1 DEF Aligned
  <2>2. /\ NextEntry(e).name \in Bytes /\ n <= NextEntry(e).name
        /\ NextEntry(e) \in Contents(e.path)
        /\ \A other \in Contents(e.path) :
             other.name \in Bytes /\ (n <= other.name => NextEntry(e).name <= other.name)
    BY <1>1, <2>1, ByIdNext
  <2>3. n \in Nat /\ Bytes \subseteq Nat
    BY BaseTypes DEF Bytes
  <2>4. ASSUME NEW other \in Contents(e.path)
        PROVE  Passed(e, other.name) <=> other.name < NextEntry(e).name
    <3>1. Passed(e, other.name) <=> Position(e, other.name) < Position(e, n)
      BY <1>1, <2>1 DEF Passed
    <3>2. other.name \in Nat /\ NextEntry(e).name \in Nat
      BY <2>2, <2>3
    <3>3. Passed(e, other.name) <=> other.name < n
      BY <1>1, <2>3, <3>1, <3>2, PositionsOrdered
    <3> QED
      BY <2>2, <2>3, <3>2, <3>3
  <2> QED
    BY <2>2, <2>4
<1>2. CASE ~e.byID
  <2> DEFINE first == Min(e.iterator)
  <2>1. /\ e.iterator \subseteq Children(e.path) /\ Children(e.path) \subseteq Nat
        /\ e.iterator \in SUBSET Nat /\ e.iterator # {}
    BY <1>2, NameAssumption DEF Good, EnumerationOK, AtEnd, Children
  <2>2. first \in e.iterator /\ \A name \in e.iterator : first <= name
    BY <2>1, MinOfNats
  <2>3. NextEntry(e) = [name |-> first, info |-> Inodes[Append(e.path, first)].info]
    BY <1>2 DEF NextEntry
  <2> HIDE DEF first
  <2>4. NextEntry(e) \in Contents(e.path) /\ NextEntry(e).name = first
    BY <1>2, <2>1, <2>2, <2>3, InodeContents
  <2>5. ASSUME NEW other \in Contents(e.path)
        PROVE  Passed(e, other.name) <=> other.name < first
    <3>1. other.name \in Children(e.path)
      BY <1>2, InodeContents
    <3>2. Passed(e, other.name) <=> other.name \notin e.iterator
      BY <1>2 DEF Passed
    <3>3. other.name \notin e.iterator /\ first < other.name => FALSE
      BY <1>2, <2>2, <3>1 DEF Aligned
    <3>4. other.name \in Nat /\ first \in Nat
      BY <2>1, <2>2, <3>1
    <3> QED
      BY <2>2, <3>2, <3>3, <3>4
  <2> QED
    BY <2>4, <2>5
<1> QED
  BY <1>1, <1>2

LEMMA AllPassedAtEnd ==
  ASSUME NEW e, Good(e), Aligned(e), AtEnd(e), NEW entry \in Contents(e.path)
  PROVE  Passed(e, entry.name)
<1>1. CASE e.byID
  <2>1. /\ e.posID \in Nat /\ e.posID <= e.lastID + 1 /\ e.lastID \in Nat
        /\ e.lastID < KeySpace
    BY <1>1, BlockTypes, RangeTypes DEF Good
  <2>2. \A key \in DOMAIN m_files : ~(e.posID <= key /\ key <= e.lastID)
    BY <1>1, <2>1, NoFileLeft DEF AtEnd
  <2>3. PICK name \in Bytes :
          /\ \E key \in DOMAIN m_files :
               Position(e, name) <= key /\ key < Position(e, name + 1)
          /\ entry = [name |-> name, info |-> EntryInfo(e.path, name)]
    BY <1>1, ByIdContents
  <2>4. PICK key \in DOMAIN m_files :
          Position(e, name) <= key /\ key < Position(e, name + 1)
    BY <2>3
  <2>5. key \in Keys /\ key \in Nat /\ name \in Nat
    BY BaseTypes, SpanTypes, FilesTypes DEF Keys, Bytes
  <2>6. key <= e.lastID
    BY <1>1, <2>4, <2>5, KeysOfPosition
  <2>7. Position(e, name) \in Nat
    BY <1>1, <2>5, PositionsOrdered
  <2>8. Position(e, name) < e.posID
    BY <2>1, <2>2, <2>4, <2>5, <2>6, <2>7
  <2> QED
    BY <1>1, <2>3, <2>8 DEF Passed
<1>2. CASE ~e.byID
  BY <1>2 DEF AtEnd, Passed
<1> QED
  BY <1>1, <1>2

LEMMA AdvancePasses ==
  ASSUME NEW e, Good(e), ~WrapsAround(e.path), Aligned(e), ~AtEnd(e),
         NEW a, a = Advance(e)
  PROVE  /\ Good(a) /\ Aligned(a) /\ a.path = e.path
         /\ a.filter = e.filter /\ a.pattern = e.pattern
         /\ a.scanInProgress = e.scanInProgress
         /\ \A other \in Contents(e.path) :
              Passed(a, other.name) <=> other.name <= NextEntry(e).name
         /\ ~Continues(a) => AtEnd(a)
<1>1. EnumerationOK(e) /\ EnumerationOK(a) /\ e \in Enumeration
  BY AdvanceKeepsOK DEF Good, EnumerationOK
<1>2. CASE e.byID
  <2> DEFINE b == NextEntry(e).name
  <2>1. PICK n \in 0 .. Base : e.posID = Position(e, n)
    BY <1>2 DEF Aligned
  <2>2. /\ b \in Bytes
        /\ \A other \in Contents(e.path) : other.name \in Bytes
        /\ FilesUnder(Append(e.path, b)) # {}
        /\ \/ a.posID = Position(e, b + 1)
           \/ Position(e, b + 1) = KeySpace
    BY <1>2, <2>1, ByIdNext
  <2> HIDE DEF b
  <2>3. b \in Nat /\ b + 1 \in Nat /\ Bytes \subseteq Nat /\ b + 1 \in 0 .. Base
    BY <2>2, BaseTypes DEF Bytes
  <2>4. Position(e, b) \in Nat /\ Position(e, b + 1) \in Nat /\ Position(e, b) < Position(e, b + 1)
    <3>1. Position(e, b) \in Nat /\ Position(e, b + 1) \in Nat
      BY <1>2, <2>3, PositionsOrdered
    <3>2. b < b + 1
      BY <2>3
    <3>3. Position(e, b) < Position(e, b + 1)
      BY <1>2, <2>3, <3>2, PositionsOrdered
    <3> QED
      BY <3>1, <3>3
  <2>5. Position(e, b + 1) # KeySpace
    <3>1. SUFFICES ASSUME Position(e, b + 1) = KeySpace PROVE WrapsAround(e.path)
      OBVIOUS
    <3>2. /\ KeySpace - 1 \in Keys
          /\ Position(e, b) <= KeySpace - 1 /\ KeySpace - 1 < Position(e, b + 1)
      BY <2>4, <3>1, SpanTypes DEF Keys
    <3>3. KeySpace - 1 \in KeysUnder(Append(e.path, b))
      BY <1>2, <2>2, <3>2, KeysOfPosition
    <3> QED
      BY <1>2, <2>2, <3>3 DEF WrapsAround, Good, Ranged
  <2>6. a.posID = Position(e, b + 1)
    BY <2>2, <2>5
  <2>7. /\ a.path = e.path /\ a.byID = e.byID /\ a.filter = e.filter
        /\ a.pattern = e.pattern /\ a.scanInProgress = e.scanInProgress
        /\ a.firstID = e.firstID /\ a.lastID = e.lastID
    BY <1>1, <1>2 DEF Advance, Enumeration
  <2>8. Good(a)
    BY <1>1, <2>7 DEF Good, Ranged
  <2>9. \A m : Position(a, m) = Position(e, m)
    BY <2>7 DEF Position
  <2>10. Aligned(a)
    BY <1>2, <2>3, <2>6, <2>7, <2>9 DEF Aligned
  <2>11. ASSUME NEW other \in Contents(e.path)
         PROVE  Passed(a, other.name) <=> other.name <= b
    <3>1. other.name \in Nat
      BY <2>2, <2>3
    <3>2. Passed(a, other.name) <=> Position(e, other.name) < Position(e, b + 1)
      BY <1>2, <2>6, <2>7, <2>9 DEF Passed
    <3>3. Passed(a, other.name) <=> other.name < b + 1
      BY <1>2, <2>3, <3>1, <3>2, PositionsOrdered
    <3> QED
      BY <2>3, <3>1, <3>3
  <2>12. ASSUME ~Continues(a) PROVE AtEnd(a)
    <3>1. a.posID > a.firstID /\ a.posID \in Nat /\ a.firstID \in Nat
      <4>1. e.firstID <= Position(e, b) /\ e.firstID \in Nat
        BY <1>2, <2>3, PositionsOrdered, RangeTypes
      <4> QED
        BY <2>4, <2>6, <2>7, <4>1
    <3>2. /\ a.lastID \in Nat /\ a.lastID < KeySpace
          /\ a.posID <= a.lastID + 1 /\ a.posID > a.lastID
      <4>1. a.lastID \in Nat /\ a.lastID < KeySpace
        BY <1>2, <2>7, <2>8, RangeTypes
      <4>2. a.posID <= a.lastID + 1
        BY <1>1, <1>2, <2>7, BlockTypes
      <4> QED
        BY <1>2, <2>7, <2>12, <3>1, <4>1, <4>2 DEF Continues
    <3>3. \A key \in DOMAIN m_files : ~(a.posID <= key /\ key <= a.lastID)
      BY <3>1, <3>2, FilesTypes, SpanTypes DEF Keys
    <3> QED
      BY <1>2, <2>7, <3>1, <3>2, <3>3, NoFileLeft DEF AtEnd
  <2> QED
    BY <2>7, <2>8, <2>10, <2>11, <2>12 DEF b
<1>3. CASE ~e.byID
  <2> DEFINE first == Min(e.iterator)
  <2>1. a = [e EXCEPT !.iterator = @ \ {first}]
    BY <1>3 DEF Advance
  <2>2. /\ e.iterator \subseteq Children(e.path) /\ Children(e.path) \subseteq Nat
        /\ e.iterator \in SUBSET Nat /\ e.iterator # {}
    BY <1>3, NameAssumption DEF Good, EnumerationOK, AtEnd, Children
  <2>3. first \in e.iterator /\ \A name \in e.iterator : first <= name
    BY <2>2, MinOfNats
  <2>4. NextEntry(e).name = first
    BY <1>3 DEF NextEntry
  <2> HIDE DEF first
  <2>5. /\ a.path = e.path /\ a.byID = e.byID /\ a.filter = e.filter
        /\ a.pattern = e.pattern /\ a.scanInProgress = e.scanInProgress
        /\ a.firstID = e.firstID /\ a.lastID = e.lastID
        /\ a.iterator = e.iterator \ {first}
    BY <1>1, <2>1 DEF Enumeration
  <2>6. Good(a)
    BY <1>1, <1>3, <2>5 DEF Good, Ranged
  <2>7. Aligned(a)
    <3>1. ASSUME NEW name \in a.iterator, NEW other \in Children(a.path), name < other
          PROVE  other \in a.iterator
      <4>1. other \in e.iterator /\ name \in Nat /\ other \in Nat /\ first <= name /\ first \in Nat
        BY <1>3, <2>2, <2>3, <2>5, <3>1 DEF Aligned
      <4> QED
        BY <2>5, <3>1, <4>1
    <3> QED
      BY <1>3, <2>5, <3>1 DEF Aligned
  <2>8. ASSUME NEW other \in Contents(e.path)
        PROVE  Passed(a, other.name) <=> other.name <= first
    <3>1. Passed(e, other.name) <=> other.name < first
      BY <2>4, PassedComeBefore
    <3>2. Passed(a, other.name) <=> Passed(e, other.name) \/ other.name = first
      BY <1>3, <2>3, <2>5 DEF Passed
    <3>3. other.name \in Nat /\ first \in Nat
      BY <1>3, <2>2, <2>3, InodeContents
    <3> QED
      BY <3>1, <3>2, <3>3
  <2>9. Continues(a)
    BY <1>3, <2>5 DEF Continues
  <2> QED
    BY <2>4, <2>5, <2>6, <2>7, <2>8, <2>9
<1> QED
  BY <1>2, <1>3

LEMMA BegunPassesNothing ==
  ASSUME NEW e, Good(e), NEW expression \in Expression, NEW a, a = Begun(e, expression)
  PROVE  /\ Good(a) /\ Aligned(a) /\ a.path = e.path /\ a.scanInProgress
         /\ IF a.filter THEN a.pattern = expression ELSE expression = NoExpression
         /\ \A entry \in Contents(e.path) : ~Passed(a, entry.name)
<1>1. EnumerationOK(e) /\ EnumerationOK(a) /\ e \in Enumeration
  BY BegunKeepsOK DEF Good, EnumerationOK
<1>2. /\ a.path = e.path /\ a.byID = e.byID
      /\ a.firstID = e.firstID /\ a.lastID = e.lastID
      /\ a.scanInProgress = TRUE /\ a.filter = (expression # NoExpression)
      /\ a.pattern = IF expression # NoExpression THEN expression ELSE e.pattern
      /\ a.posID = IF e.byID THEN e.firstID ELSE e.posID
      /\ a.iterator = IF e.byID THEN e.iterator ELSE Children(e.path)
  BY <1>1 DEF Begun, Enumeration
<1>3. Good(a)
  BY <1>1, <1>2 DEF Good, Ranged
<1>4. CASE e.byID
  <2>1. Position(a, 0) = a.posID /\ 0 \in 0 .. Base
    <3>1. a.firstID \in Nat /\ Span[Digits - Len(a.path)] \in Nat
      BY <1>2, <1>3, <1>4, RangeTypes
    <3> QED
      BY <1>2, <1>4, <3>1, BaseTypes DEF Position
  <2>2. Aligned(a)
    BY <1>2, <1>4, <2>1 DEF Aligned
  <2>3. ASSUME NEW entry \in Contents(e.path) PROVE ~Passed(a, entry.name)
    <3>1. entry.name \in Nat
      BY <1>4, ByIdContents, BaseTypes DEF Bytes
    <3>2. a.firstID <= Position(a, entry.name) /\ Position(a, entry.name) \in Nat
          /\ a.firstID \in Nat
      BY <1>2, <1>3, <1>4, <3>1, PositionsOrdered, RangeTypes
    <3> QED
      BY <1>2, <1>4, <3>2 DEF Passed
  <2> QED
    BY <1>2, <1>3, <2>2, <2>3
<1>5. CASE ~e.byID
  <2>1. Aligned(a)
    BY <1>2, <1>5 DEF Aligned
  <2>2. ASSUME NEW entry \in Contents(e.path) PROVE ~Passed(a, entry.name)
    BY <1>2, <1>5, InodeContents DEF Passed
  <2> QED
    BY <1>2, <1>3, <2>1, <2>2
<1> QED
  BY <1>4, <1>5

LEMMA NewIsRanged ==
  ASSUME NEW f \in Frame, Parsed(f.path, f.cursor), IsDirectory(f),
         f.byID <=> IsByIDPath(f.path), f.byID => f.cursor.next = Len(f.path) + 1
  PROVE  Ranged(NewEnumeration(f)) /\ ~NewEnumeration(f).scanInProgress
<1> DEFINE e == NewEnumeration(f)
<1>1. /\ e.path = f.path /\ e.byID = f.byID /\ ~e.scanInProgress
      /\ e.firstID = f.cursor.firstID /\ e.lastID = f.cursor.lastID
  BY DEF NewEnumeration
<1> HIDE DEF e
<1>2. CASE f.byID
  <2> DEFINE k == Digits + 1 - Len(f.path)
  <2>1. Len(f.path) \in 1 .. Digits + 1 /\ Digits \in Nat /\ IsByIDPath(f.path)
    BY <1>2, BaseTypes DEF IsByIDPath
  <2>2. FreeDigits(f.cursor.next) = k
    <3>1. f.cursor.next = Len(f.path) + 1
      BY <1>2
    <3>2. f.cursor.next # 1 /\ Digits + 2 - f.cursor.next = Digits + 1 - Len(f.path)
      BY <2>1, <3>1
    <3> QED
      BY <3>2 DEF FreeDigits
  <2>3. IsBlock(k, e.firstID, e.lastID)
    BY <1>1, <2>2 DEF Parsed, ParsedBlock
  <2>4. k # 0
    <3>1. SUFFICES ASSUME k = 0 PROVE FALSE
      OBVIOUS
    <3>2. IsBlock(0, e.firstID, e.lastID)
      BY <2>3, <3>1
    <3>3. e.lastID - e.firstID + 1 = 1
      BY <3>2, BaseTypes, BlockOfKeys, SpanAssumption
    <3> QED
      BY <1>1, <1>2, <3>3, SpanTypes DEF Frame, Cursor, Keys, IsDirectory
  <2>5. IsByIDDirectory(e.path)
    BY <1>1, <2>1, <2>4 DEF IsByIDDirectory
  <2>6. \A key \in Keys : e.firstID <= key /\ key <= e.lastID <=> key \in KeysUnder(e.path)
    <3>1. 2 .. f.cursor.next - 1 = 2 .. Len(f.path)
      BY <1>2, <2>1
    <3> QED
      BY <1>1, <3>1 DEF Parsed, Selects, KeysUnder
  <2> QED
    BY <1>1, <1>2, <2>3, <2>5, <2>6 DEF Ranged, e
<1>3. CASE ~f.byID
  BY <1>1, <1>3 DEF Ranged, IsByIDDirectory, e
<1> QED
  BY <1>2, <1>3

LEMMA AdvanceKeepsRange ==
  ASSUME NEW e, Good(e), ~AtEnd(e), NEW a, a = Advance(e)
  PROVE  Good(a) /\ a.path = e.path /\ a.scanInProgress = e.scanInProgress
<1>1. EnumerationOK(a) /\ a.path = e.path /\ e \in Enumeration
  BY AdvanceKeepsOK DEF Good, EnumerationOK
<1>2. /\ a.byID = e.byID /\ a.scanInProgress = e.scanInProgress
      /\ a.firstID = e.firstID /\ a.lastID = e.lastID
  BY <1>1 DEF Advance, Enumeration
<1> QED
  BY <1>1, <1>2 DEF Good, Ranged

-----------------------------------------------------------------------------
(* What a caller has been given, by how far the enumeration has come.             *)

Exact(s) ==
  LET wanted == Wanted(s.path, s.expression)
  IN  s.got \subseteq wanted /\ (s.ended => s.got = wanted)

Progress(e, s) ==
  ~WrapsAround(e.path) =>
    /\ Aligned(e)
    /\ IF e.filter THEN e.pattern = s.expression ELSE s.expression = NoExpression
    /\ s.got = {entry \in Wanted(e.path, s.expression) : Passed(e, entry.name)}
    /\ s.ended => AtEnd(e)

(* Before, during and after the loop of getDirectoryEnumeration.                 *)
Fetching(f, e, s) ==
  /\ ~f.writtenEntry
  /\ IF Begins(e, f.restart)
     THEN s.got = {} /\ ~s.ended /\ s.expression = f.expression
     ELSE Progress(e, s)

Filling(f, e, s) ==
  /\ e.scanInProgress /\ Progress(e, s)
  /\ ~WrapsAround(e.path) /\ f.writtenEntry => ~s.ended

Resting(e, s) ==
  /\ e.scanInProgress = s.started
  /\ s.started => Progress(e, s)

ParsedToRegister(f) ==
  /\ f.byID <=> IsByIDPath(f.path)
  /\ f.byID => f.cursor.next = Len(f.path) + 1

ThreadTracks(t) ==
  LET f == frame[t]
      e == m_directoryEnumerations[frame[t].guid]
      s == scan[frame[t].guid]
  IN  /\ pc[t] \in Parsing => Parsed(f.path, f.cursor) /\ ~s.started
      /\ pc[t] = "register" => ParsedToRegister(f)
      /\ pc[t] \in Reading => s.started
      /\ pc[t] \in {"lookup", "prepare"} => Fetching(f, e, s)
      /\ pc[t] = "fill" => Filling(f, e, s)

GuidTracks(g) ==
  LET e == m_directoryEnumerations[g]
      s == scan[g]
  IN  /\ g \in DOMAIN m_directoryEnumerations => Ranged(e)
      /\ session[g] # "closed" =>
           /\ ~s.started => s.got = {} /\ ~s.ended
           /\ ~WrapsAround(s.path) => Exact(s)
      /\ session[g] = "open" => Resting(e, s)

Tracks == (\A t \in Threads : ThreadTracks(t)) /\ (\A g \in Guids : GuidTracks(g))

LEMMA ProgressIsExact ==
  ASSUME NEW e, NEW s, Good(e), Progress(e, s), e.path = s.path, ~WrapsAround(e.path)
  PROVE  Exact(s)
<1>1. /\ Aligned(e) /\ s.ended => AtEnd(e)
      /\ s.got = {entry \in Wanted(s.path, s.expression) : Passed(e, entry.name)}
  BY DEF Progress
<1>2. ASSUME s.ended, NEW entry \in Wanted(s.path, s.expression)
      PROVE  Passed(e, entry.name)
  <2>1. entry \in Contents(e.path)
    BY DEF Wanted
  <2> QED
    BY <1>1, <1>2, <2>1, AllPassedAtEnd DEF Progress
<1> QED
  BY <1>1, <1>2 DEF Exact

(* The entry an iteration of the loop selects is the next that is owed.           *)
LEMMA NextIsWanted ==
  ASSUME NEW e, NEW s, Good(e), Progress(e, s), ~WrapsAround(e.path), ~AtEnd(e)
  PROVE  /\ Selected(e) <=> NextEntry(e) \in Wanted(e.path, s.expression)
         /\ \A entry \in Wanted(e.path, s.expression) :
              entry \in s.got <=> entry.name < NextEntry(e).name
<1>1. /\ Aligned(e)
      /\ s.got = {entry \in Wanted(e.path, s.expression) : Passed(e, entry.name)}
      /\ IF e.filter THEN e.pattern = s.expression ELSE s.expression = NoExpression
  BY DEF Progress
<1>2. /\ NextEntry(e) \in Contents(e.path)
      /\ \A other \in Contents(e.path) :
           Passed(e, other.name) <=> other.name < NextEntry(e).name
  BY <1>1, PassedComeBefore
<1>3. Selected(e) <=> Matches(s.expression, NextEntry(e).name)
  BY <1>1 DEF Selected, Matches
<1> QED
  BY <1>1, <1>2, <1>3 DEF Wanted

LEMMA AdvanceProgresses ==
  ASSUME NEW e, NEW s, Good(e), Progress(e, s), ~AtEnd(e), NEW a, a = Advance(e),
         NEW r, r.expression = s.expression,
         r.got = (IF Selected(e) THEN s.got \cup {NextEntry(e)} ELSE s.got),
         r.ended => ~Continues(a)
  PROVE  Progress(a, r)
<1>1. a.path = e.path
  BY AdvanceKeepsRange
<1> SUFFICES ASSUME ~WrapsAround(e.path) PROVE Progress(a, r)
  BY <1>1 DEF Progress
<1>2. /\ Aligned(e)
      /\ s.got = {entry \in Wanted(e.path, s.expression) : Passed(e, entry.name)}
      /\ IF e.filter THEN e.pattern = s.expression ELSE s.expression = NoExpression
  BY DEF Progress
<1>3. /\ Aligned(a) /\ a.filter = e.filter /\ a.pattern = e.pattern
      /\ \A other \in Contents(e.path) :
           Passed(a, other.name) <=> other.name <= NextEntry(e).name
      /\ ~Continues(a) => AtEnd(a)
  BY <1>2, AdvancePasses
<1>4. /\ NextEntry(e) \in Contents(e.path)
      /\ \A other \in Contents(e.path) :
           Passed(e, other.name) <=> other.name < NextEntry(e).name
  BY <1>2, PassedComeBefore
<1>5. ASSUME NEW entry \in Contents(e.path)
      PROVE  Passed(a, entry.name) <=> Passed(e, entry.name) \/ entry = NextEntry(e)
  <2>1. entry.name \in Nat /\ NextEntry(e).name \in Nat
    BY <1>4, NamesAreNumbers
  <2>2. entry.name = NextEntry(e).name <=> entry = NextEntry(e)
    BY <1>4, SameName
  <2>3. entry.name <= NextEntry(e).name
          <=> entry.name < NextEntry(e).name \/ entry.name = NextEntry(e).name
    BY <2>1
  <2> QED
    BY <1>3, <1>4, <2>2, <2>3
<1>6. Selected(e) <=> NextEntry(e) \in Wanted(e.path, s.expression)
  BY NextIsWanted
<1>7. r.got = {entry \in Wanted(e.path, s.expression) : Passed(a, entry.name)}
  BY <1>2, <1>5, <1>6 DEF Wanted
<1> QED
  BY <1>1, <1>2, <1>3, <1>7 DEF Progress

LEMMA LocalTracks ==
  ASSUME IInv, Tracks, NEW t \in Threads, NEW g \in Guids, Touches(t, g),
         IF pc[t] = "idle" THEN session[g] # "calling" ELSE frame[t].guid = g,
         ThreadTracks(t)', GuidTracks(g)'
  PROVE  Tracks'
<1>1. /\ \A u \in Threads \ {t} : pc'[u] = pc[u] /\ frame'[u] = frame[u]
      /\ \A h \in Guids \ {g} : session'[h] = session[h] /\ scan'[h] = scan[h]
  BY DEF IInv, Shape, Touches
<1>2. ASSUME NEW u \in Threads \ {t} PROVE ThreadTracks(u)'
  <2>1. ThreadTracks(u) /\ ThreadOK(u)
    BY DEF Tracks, IInv
  <2>2. CASE pc[u] = "idle"
    BY <1>1, <2>2 DEF ThreadTracks, Parsing, Reading
  <2>3. CASE pc[u] # "idle"
    <3> DEFINE h == frame[u].guid
    <3>1. h \in Guids \ {g} /\ frame'[u] = frame[u] /\ pc'[u] = pc[u]
      BY <1>1, <2>1, <2>3 DEF IInv, Exclusive, ThreadOK, Frame
    <3>2. /\ scan'[h] = scan[h]
          /\ h \in DOMAIN m_directoryEnumerations =>
               m_directoryEnumerations'[h] = m_directoryEnumerations[h]
      BY <1>1, <3>1 DEF Touches
    <3>3. CASE pc[u] \in Reading
      <4>1. m_directoryEnumerations'[h] = m_directoryEnumerations[h]
        BY <2>1, <3>2, <3>3 DEF ThreadOK, SamePath
      <4> QED
        BY <2>1, <3>1, <3>2, <4>1 DEF ThreadTracks
    <3>4. CASE pc[u] \in Parsing
      BY <2>1, <3>1, <3>2, <3>4 DEF ThreadTracks, Parsing, Reading
    <3> QED
      BY <2>1, <2>3, <3>3, <3>4 DEF ThreadOK
  <2> QED
    BY <2>2, <2>3
<1>3. ASSUME NEW h \in Guids \ {g} PROVE GuidTracks(h)'
  <2>1. GuidTracks(h) /\ GuidOK(h)
    BY DEF Tracks, IInv
  <2>2. /\ session'[h] = session[h] /\ scan'[h] = scan[h]
        /\ h \in DOMAIN m_directoryEnumerations' <=> h \in DOMAIN m_directoryEnumerations
        /\ h \in DOMAIN m_directoryEnumerations =>
             m_directoryEnumerations'[h] = m_directoryEnumerations[h]
    BY <1>1 DEF Touches
  <2> QED
    BY <2>1, <2>2 DEF GuidTracks, GuidOK, SamePath
<1> QED
  BY <1>2, <1>3 DEF Tracks

-----------------------------------------------------------------------------
(* The actions once more.                                                    *)

LEMMA OpenDirectoryTracks ==
  ASSUME IInv, Tracks, NEW t \in Threads, NEW g \in Guids, NEW path \in Paths,
         OpenDirectory(t, g, path)
  PROVE  Tracks'
<1> DEFINE newFrame ==
             [guid |-> g, path |-> path, cursor |-> ParseBegin, byID |-> FALSE,
              restart |-> FALSE, expression |-> NoExpression, room |-> 0,
              writtenEntry |-> FALSE]
           newScan ==
             [path |-> path, expression |-> NoExpression, started |-> FALSE,
              got |-> {}, ended |-> FALSE, restarts |-> 0]
<1>1. Shape /\ GuidOK(g) /\ pc[t] = "idle" /\ session[g] = "closed" /\ Touches(t, g)
  BY OpenDirectoryKeeps DEF IInv, OpenDirectory
<1>2. /\ pc'[t] = "parse" /\ frame'[t] = newFrame
      /\ session'[g] = "calling" /\ scan'[g] = newScan
      /\ m_directoryEnumerations' = m_directoryEnumerations
  BY <1>1 DEF Shape, OpenDirectory
<1>3. Parsed(path, ParseBegin)
  BY CallerAssumption, ParsedAtFirst
<1>4. newFrame.guid = g /\ newFrame.path = path /\ newFrame.cursor = ParseBegin
      /\ newScan.got = {} /\ ~newScan.ended /\ ~newScan.started
  OBVIOUS
<1> HIDE DEF newFrame, newScan
<1>5. ThreadTracks(t)'
  BY <1>2, <1>3, <1>4 DEF ThreadTracks, Parsing, Reading
<1>6. Exact(newScan)
  BY <1>4 DEF Exact
<1>7. GuidTracks(g)'
  BY <1>1, <1>2, <1>4, <1>6 DEF GuidTracks, GuidOK
<1> QED
  BY <1>1, <1>5, <1>7, LocalTracks

LEMMA ParseComponentTracks ==
  ASSUME IInv, Tracks, NEW t \in Threads, NEW g, g = frame[t].guid, ParseComponent(t)
  PROVE  Tracks'
<1> DEFINE f == frame[t]
<1>1. /\ pc[t] = "parse" /\ UNCHANGED <<m_directoryEnumerations, session, scan>>
  BY DEF ParseComponent
<1>2. /\ Shape /\ ThreadOK(t) /\ f \in Frame /\ g \in Guids /\ GuidOK(g)
      /\ session[g] = "calling" /\ Touches(t, g)
  BY <1>1, Running, ParseComponentKeeps
<1>3. /\ ThreadTracks(t) /\ GuidTracks(g)
      /\ Parsed(f.path, f.cursor) /\ ~scan[g].started /\ f.path \in Path
  BY <1>1, <1>2, CallerAssumption DEF Tracks, ThreadTracks, Parsing, Frame
<1>4. GuidTracks(g)'
  BY <1>1, <1>3 DEF GuidTracks
<1>5. ASSUME NEW b \in BOOLEAN, frame' = [frame EXCEPT ![t].byID = b],
             pc' = [pc EXCEPT ![t] = "register"],
             b <=> IsByIDPath(f.path), b => f.cursor.next = Len(f.path) + 1
      PROVE  ThreadTracks(t)'
  <2>1. /\ pc'[t] = "register" /\ frame'[t].byID = b /\ frame'[t].guid = g
        /\ frame'[t].path = f.path /\ frame'[t].cursor = f.cursor
    BY <1>2, <1>5 DEF Shape, Frame
  <2> HIDE DEF f
  <2>2. ParsedToRegister(frame'[t])
    BY <1>5, <2>1 DEF ParsedToRegister
  <2> QED
    BY <1>1, <1>3, <2>1, <2>2 DEF ThreadTracks, Parsing, Reading
<1>6. CASE /\ ParseDone(f.path, f.cursor)
           /\ frame' = [frame EXCEPT ![t].byID = Len(f.path) > 0]
           /\ pc' = [pc EXCEPT ![t] = "register"]
  <2>1. /\ Len(f.path) > 0 <=> IsByIDPath(f.path)
        /\ IsByIDPath(f.path) => f.cursor.next = Len(f.path) + 1
        /\ (Len(f.path) > 0) \in BOOLEAN
    BY <1>3, <1>6, ParsedToTheEnd
  <2> QED
    BY <1>2, <1>4, <1>5, <1>6, <2>1, <1>1, LocalTracks
<1>7. CASE /\ ~ParseDone(f.path, f.cursor) /\ ParseRejects(f.path, f.cursor)
           /\ frame' = [frame EXCEPT ![t].byID = FALSE]
           /\ pc' = [pc EXCEPT ![t] = "register"]
  <2>1. ~IsByIDPath(f.path)
    BY <1>3, <1>7, ParsedToTheEnd
  <2> QED
    BY <1>2, <1>4, <1>5, <1>7, <2>1, <1>1, LocalTracks
<1>8. CASE /\ ~ParseDone(f.path, f.cursor) /\ ~ParseRejects(f.path, f.cursor)
           /\ frame' = [frame EXCEPT ![t].cursor = ParseNext(f.path, f.cursor)]
           /\ UNCHANGED pc
  <2> DEFINE next == ParseNext(f.path, f.cursor)
  <2>1. Parsed(f.path, next)
    BY <1>3, <1>8, ParsedFurther
  <2>2. frame' = [frame EXCEPT ![t].cursor = next]
    BY <1>8
  <2> HIDE DEF next
  <2>3. /\ pc'[t] = "parse" /\ frame'[t].guid = g
        /\ frame'[t].path = f.path /\ frame'[t].cursor = next
    BY <1>1, <1>2, <1>8, <2>2 DEF Shape, Frame
  <2>4. ThreadTracks(t)'
    BY <1>1, <1>3, <2>1, <2>3 DEF ThreadTracks, Parsing, Reading
  <2> QED
    BY <1>1, <1>2, <1>4, <2>4, LocalTracks
<1> QED
  BY <1>6, <1>7, <1>8 DEF ParseComponent

LEMMA RegisterFailsTracks ==
  ASSUME IInv, Tracks, NEW t \in Threads, NEW g, g = frame[t].guid, RegisterFails(t)
  PROVE  Tracks'
<1>1. pc[t] = "register"
  BY DEF RegisterFails
<1>2. /\ Shape /\ ThreadOK(t) /\ g \in Guids /\ Touches(t, g)
  BY <1>1, Running, RegisterFailsKeeps
<1>3. /\ pc'[t] = "idle" /\ session'[g] = "closed"
      /\ m_directoryEnumerations' = m_directoryEnumerations
  BY <1>2 DEF RegisterFails, Return, Shape
<1>4. ThreadTracks(t)' /\ GuidTracks(g)'
  BY <1>1, <1>2, <1>3 DEF ThreadTracks, GuidTracks, ThreadOK, Parsing, Reading
<1> QED
  BY <1>1, <1>2, <1>4, LocalTracks

LEMMA RegisterTracks ==
  ASSUME IInv, Tracks, NEW t \in Threads, NEW g, g = frame[t].guid, Register(t)
  PROVE  Tracks'
<1> DEFINE new == NewEnumeration(frame[t])
<1>1. pc[t] = "register" /\ IsDirectory(frame[t])
  BY DEF Register
<1>2. /\ Shape /\ ThreadOK(t) /\ frame[t] \in Frame
      /\ g \in Guids /\ session[g] = "calling" /\ Touches(t, g)
  BY <1>1, Running, RegisterKeeps
<1>3. /\ g \notin DOMAIN m_directoryEnumerations /\ GuidTracks(g)
      /\ Parsed(frame[t].path, frame[t].cursor) /\ ParsedToRegister(frame[t])
      /\ ~scan[g].started
  BY <1>1, <1>2 DEF Tracks, ThreadTracks, ThreadOK, Parsing
<1>4. Ranged(new) /\ ~new.scanInProgress /\ new.scanInProgress \in BOOLEAN
  <2>1. Ranged(new) /\ ~new.scanInProgress
    BY <1>1, <1>2, <1>3, NewIsRanged DEF ParsedToRegister
  <2> QED
    BY <2>1 DEF NewEnumeration
<1> HIDE DEF new
<1>5. /\ pc'[t] = "idle" /\ session'[g] = "open" /\ scan' = scan
      /\ m_directoryEnumerations'[g] = new
  BY <1>2, <1>3 DEF Register, Return, Shape, new
<1>6. scan[g].started \in BOOLEAN
  BY <1>2 DEF IInv, GuidOK, Scan
<1>7. Resting(new, scan[g])
  BY <1>3, <1>4, <1>6 DEF Resting
<1>8. ThreadTracks(t)' /\ GuidTracks(g)'
  BY <1>2, <1>3, <1>4, <1>5, <1>7 DEF ThreadTracks, GuidTracks, Parsing, Reading
<1> QED
  BY <1>1, <1>2, <1>8, LocalTracks

LEMMA CloseDirectoryTracks ==
  ASSUME IInv, Tracks, NEW t \in Threads, NEW g \in Guids, CloseDirectory(t, g)
  PROVE  Tracks'
<1>1. /\ Shape /\ pc[t] = "idle" /\ session[g] = "open" /\ Touches(t, g)
      /\ pc' = pc /\ session' = [session EXCEPT ![g] = "closed"]
      /\ g \notin DOMAIN m_directoryEnumerations'
  BY CloseDirectoryKeeps DEF IInv, CloseDirectory
<1>2. ThreadTracks(t)' /\ GuidTracks(g)'
  BY <1>1 DEF Shape, ThreadTracks, GuidTracks, Parsing, Reading
<1> QED
  BY <1>1, <1>2, LocalTracks

LEMMA FetchEntriesTracks ==
  ASSUME IInv, Tracks, NEW t \in Threads, NEW g \in Guids, NEW restart \in BOOLEAN,
         NEW expression \in Expression, NEW room \in 0 .. MaxRoom,
         FetchEntries(t, g, restart, expression, room)
  PROVE  Tracks'
<1> DEFINE newFrame ==
             [guid |-> g, path |-> scan[g].path, cursor |-> ParseBegin,
              byID |-> FALSE, restart |-> restart, expression |-> expression,
              room |-> room, writtenEntry |-> FALSE]
           begins == restart \/ ~scan[g].started
           e == m_directoryEnumerations[g]
           s == scan[g]
           r == scan'[g]
<1>1. /\ Shape /\ GuidOK(g) /\ pc[t] = "idle" /\ session[g] = "open"
      /\ m_directoryEnumerations' = m_directoryEnumerations
      /\ Touches(t, g) /\ GuidTracks(g) /\ s \in Scan
  BY FetchEntriesKeeps DEF IInv, Tracks, FetchEntries, GuidOK
<1>2. /\ pc'[t] = "lookup" /\ frame'[t] = newFrame /\ session'[g] = "calling"
  BY <1>1 DEF Shape, FetchEntries
<1>3. /\ newFrame.guid = g /\ newFrame.restart = restart
      /\ newFrame.expression = expression /\ ~newFrame.writtenEntry
  OBVIOUS
<1> HIDE DEF newFrame
<1>4. /\ r.started /\ r.path = s.path
      /\ r.expression = IF begins THEN expression ELSE s.expression
      /\ r.got = IF begins THEN {} ELSE s.got
      /\ r.ended = IF begins THEN FALSE ELSE s.ended
  BY <1>1 DEF Shape, FetchEntries, Scan
<1>5. Begins(e, restart) <=> begins
  BY <1>1 DEF GuidTracks, Resting, Begins
<1> HIDE DEF r, begins
<1>6. Fetching(newFrame, e, r)
  <2>1. CASE begins
    BY <1>3, <1>4, <1>5, <2>1 DEF Fetching
  <2>2. CASE ~begins
    <3>1. Progress(e, s)
      BY <1>1, <2>2 DEF GuidTracks, Resting, begins
    <3>2. Progress(e, r)
      BY <1>4, <2>2, <3>1 DEF Progress
    <3> QED
      BY <1>3, <1>5, <2>2, <3>2 DEF Fetching
  <2> QED
    BY <2>1, <2>2
<1>7. ~WrapsAround(r.path) => Exact(r)
  BY <1>1, <1>4 DEF GuidTracks, Exact
<1>8. ThreadTracks(t)'
  BY <1>1, <1>2, <1>3, <1>4, <1>6 DEF ThreadTracks, Parsing, Reading, r
<1>9. GuidTracks(g)'
  BY <1>1, <1>2, <1>4, <1>7 DEF GuidTracks, r
<1> QED
  BY <1>1, <1>8, <1>9, LocalTracks

LEMMA LookupTracks ==
  ASSUME IInv, Tracks, NEW t \in Threads, NEW g, g = frame[t].guid, Lookup(t)
  PROVE  Tracks'
<1>1. pc[t] = "lookup" /\ UNCHANGED <<m_directoryEnumerations, scan>>
  BY DEF Lookup
<1>2. /\ Shape /\ SamePath(g) /\ g \in Guids /\ Touches(t, g)
  BY <1>1, Reads, LookupKeeps DEF Reading
<1>3. pc'[t] = "prepare" /\ UNCHANGED <<frame, session>>
  BY <1>2 DEF Lookup, SamePath, Shape
<1>4. ThreadTracks(t)'
  BY <1>1, <1>3 DEF Tracks, ThreadTracks, Parsing, Reading
<1>5. GuidTracks(g)'
  BY <1>1, <1>2, <1>3 DEF Tracks, GuidTracks
<1> QED
  BY <1>1, <1>2, <1>4, <1>5, LocalTracks

(* What holds while a callback has a pointer to the enumeration.                 *)
LEMMA ReadsTracked ==
  ASSUME IInv, Tracks, NEW t \in Threads, pc[t] \in Reading, NEW g, g = frame[t].guid,
         NEW e, e = m_directoryEnumerations[g], NEW s, s = scan[g]
  PROVE  /\ Shape /\ g \in Guids /\ ThreadTracks(t) /\ GuidTracks(g) /\ Good(e)
         /\ e.path = s.path /\ s.started /\ s \in Scan /\ frame[t] \in Frame
         /\ g \in DOMAIN m_directoryEnumerations /\ session[g] = "calling"
         /\ ~WrapsAround(s.path) => Exact(s)
<1>1. /\ Shape /\ frame[t] \in Frame /\ SamePath(g) /\ g \in Guids
      /\ session[g] = "calling" /\ s \in Scan /\ EnumerationOK(e)
  BY Reads
<1>2. ThreadTracks(t) /\ GuidTracks(g)
  BY <1>1 DEF Tracks
<1> QED
  BY <1>1, <1>2 DEF ThreadTracks, GuidTracks, Good, SamePath

LEMMA PrepareTracks ==
  ASSUME IInv, Tracks, NEW t \in Threads, NEW g, g = frame[t].guid, Prepare(t)
  PROVE  Tracks'
<1> DEFINE e == m_directoryEnumerations[g]
           a == m_directoryEnumerations'[g]
           s == scan[g]
           f == frame[t]
<1>1. /\ pc[t] = "prepare" /\ pc' = [pc EXCEPT ![t] = "fill"]
      /\ UNCHANGED <<frame, session, scan>>
  BY DEF Prepare
<1>2. /\ Shape /\ g \in Guids /\ ThreadTracks(t) /\ GuidTracks(g) /\ Good(e)
      /\ e.path = s.path /\ s.started /\ s \in Scan /\ f \in Frame
      /\ g \in DOMAIN m_directoryEnumerations /\ session[g] = "calling"
      /\ ~WrapsAround(s.path) => Exact(s)
  BY <1>1, ReadsTracked DEF Reading
<1>3. Touches(t, g) /\ Fetching(f, e, s) /\ pc'[t] = "fill"
  BY <1>1, <1>2, PrepareKeeps DEF ThreadTracks, Shape
<1>4. Good(a) /\ Filling(f, a, s)
  <2>1. CASE Begins(e, f.restart)
    <3>1. a = Begun(e, f.expression)
      BY <1>2, <2>1 DEF Prepare
    <3> HIDE DEF a
    <3>2. /\ Good(a) /\ Aligned(a) /\ a.path = e.path /\ a.scanInProgress
          /\ IF a.filter THEN a.pattern = f.expression ELSE f.expression = NoExpression
          /\ \A entry \in Contents(e.path) : ~Passed(a, entry.name)
      BY <1>2, <3>1, BegunPassesNothing DEF Frame
    <3>3. s.got = {} /\ ~s.ended /\ s.expression = f.expression /\ ~f.writtenEntry
      BY <1>3, <2>1 DEF Fetching
    <3> HIDE DEF f, s
    <3>4. s.got = {entry \in Wanted(a.path, s.expression) : Passed(a, entry.name)}
      BY <3>2, <3>3 DEF Wanted
    <3>5. Progress(a, s)
      BY <3>2, <3>3, <3>4 DEF Progress
    <3> QED
      BY <3>2, <3>3, <3>5 DEF Filling
  <2>2. CASE ~Begins(e, f.restart)
    <3>1. a = e
      BY <2>2 DEF Prepare
    <3> QED
      BY <1>2, <1>3, <2>2, <3>1 DEF Fetching, Filling, Begins
  <2> QED
    BY <2>1, <2>2
<1> HIDE DEF a
<1>5. ThreadTracks(t)'
  BY <1>1, <1>2, <1>3, <1>4 DEF ThreadTracks, Parsing, Reading, a
<1>6. GuidTracks(g)'
  BY <1>1, <1>2, <1>4 DEF GuidTracks, Good, a
<1> QED
  BY <1>1, <1>2, <1>3, <1>5, <1>6, LocalTracks

LEMMA FillAtEndTracks ==
  ASSUME IInv, Tracks, NEW t \in Threads, NEW g, g = frame[t].guid, FillAtEnd(t)
  PROVE  Tracks'
<1> DEFINE e == m_directoryEnumerations[g]
           s == scan[g]
           r == scan'[g]
<1>1. /\ pc[t] = "fill" /\ Return(t, g, "open") /\ AtEnd(e)
      /\ scan' = [scan EXCEPT ![g].ended = ~frame[t].writtenEntry]
      /\ m_directoryEnumerations' = m_directoryEnumerations
  BY DEF FillAtEnd, FetchReturns
<1>2. /\ Shape /\ g \in Guids /\ ThreadTracks(t) /\ GuidTracks(g) /\ Good(e)
      /\ e.path = s.path /\ s.started /\ s \in Scan
      /\ g \in DOMAIN m_directoryEnumerations
  BY <1>1, ReadsTracked DEF Reading
<1>3. /\ Touches(t, g) /\ Filling(frame[t], e, s)
      /\ pc'[t] = "idle" /\ session'[g] = "open"
  BY <1>1, <1>2, FillAtEndKeeps DEF ThreadTracks, Shape, Return
<1>4. /\ r.path = s.path /\ r.expression = s.expression
      /\ r.got = s.got /\ r.started = s.started
  BY <1>1, <1>2 DEF Shape, Scan
<1> HIDE DEF r
<1>5. Progress(e, r)
  BY <1>1, <1>3, <1>4 DEF Filling, Progress
<1>6. Resting(e, r) /\ r.started /\ (~WrapsAround(r.path) => Exact(r))
  <2>1. e.scanInProgress = r.started
    BY <1>2, <1>3, <1>4 DEF Filling, Good, EnumerationOK, Enumeration, Scan
  <2> QED
    BY <1>2, <1>4, <1>5, <2>1, ProgressIsExact DEF Resting
<1>7. ThreadTracks(t)' /\ GuidTracks(g)'
  BY <1>1, <1>2, <1>3, <1>6 DEF ThreadTracks, GuidTracks, Parsing, Reading, r
<1> QED
  BY <1>1, <1>2, <1>3, <1>7, LocalTracks

LEMMA FillBufferFullTracks ==
  ASSUME IInv, Tracks, NEW t \in Threads, NEW g, g = frame[t].guid, FillBufferFull(t)
  PROVE  Tracks'
<1> DEFINE e == m_directoryEnumerations[g]
           s == scan[g]
<1>1. /\ pc[t] = "fill" /\ Return(t, g, "open")
      /\ UNCHANGED <<m_directoryEnumerations, scan>>
  BY DEF FillBufferFull
<1>2. /\ Shape /\ g \in Guids /\ ThreadTracks(t) /\ GuidTracks(g) /\ Good(e)
      /\ e.path = s.path /\ s.started /\ s \in Scan
      /\ ~WrapsAround(s.path) => Exact(s)
  BY <1>1, ReadsTracked DEF Reading
<1>3. /\ Touches(t, g) /\ Filling(frame[t], e, s)
      /\ pc'[t] = "idle" /\ session'[g] = "open"
  BY <1>1, <1>2, FillBufferFullKeeps DEF ThreadTracks, Shape, Return
<1>4. Resting(e, s)
  BY <1>2, <1>3 DEF Filling, Resting, Good, EnumerationOK, Enumeration, Scan
<1>5. ThreadTracks(t)' /\ GuidTracks(g)'
  BY <1>1, <1>2, <1>3, <1>4 DEF ThreadTracks, GuidTracks, Parsing, Reading
<1> QED
  BY <1>1, <1>2, <1>3, <1>5, LocalTracks

LEMMA FillEntryTracks ==
  ASSUME IInv, Tracks, NEW t \in Threads, NEW g, g = frame[t].guid, FillEntry(t)
  PROVE  Tracks'
<1> DEFINE e == m_directoryEnumerations[g]
           a == Advance(e)
           s == scan[g]
           r == scan'[g]
           written == Selected(e) \/ frame[t].writtenEntry
<1>1. /\ pc[t] = "fill" /\ ~AtEnd(e)
      /\ m_directoryEnumerations' = [m_directoryEnumerations EXCEPT ![g] = a]
  BY DEF FillEntry
<1>2. /\ Shape /\ g \in Guids /\ ThreadTracks(t) /\ GuidTracks(g) /\ Good(e)
      /\ e.path = s.path /\ s.started /\ s \in Scan /\ frame[t] \in Frame
      /\ g \in DOMAIN m_directoryEnumerations /\ session[g] = "calling"
  BY <1>1, ReadsTracked DEF Reading
<1>3. Touches(t, g) /\ Filling(frame[t], e, s)
  BY <1>1, <1>2, FillEntryKeeps DEF ThreadTracks
<1>4. /\ r.path = s.path /\ r.expression = s.expression /\ r.started = s.started
      /\ r.got = (IF Selected(e) THEN s.got \cup {NextEntry(e)} ELSE s.got)
      /\ r.ended <=> ~Continues(a) /\ ~written
  BY <1>2 DEF FillEntry, Shape, Scan
<1>5. m_directoryEnumerations'[g] = a
  BY <1>1, <1>2
<1>6. Good(a) /\ a.path = e.path /\ a.scanInProgress
  BY <1>1, <1>2, <1>3, AdvanceKeepsRange DEF Filling
<1>7. Progress(a, r)
  <2>1. Progress(e, s)
    BY <1>3 DEF Filling
  <2> QED
    BY <1>1, <1>2, <1>4, <2>1, AdvanceProgresses
<1>8. ~WrapsAround(r.path) => Exact(r)
  BY <1>2, <1>4, <1>6, <1>7, ProgressIsExact
<1> HIDE DEF a, r, written, e, s
<1>9. CASE Continues(a)
  <2>1. /\ frame' = [frame EXCEPT ![t].writtenEntry = written,
                                  ![t].room = IF Selected(e) THEN @ - 1 ELSE @]
        /\ UNCHANGED <<pc, session>>
    BY <1>9 DEF FillEntry, a, e, written
  <2>2. pc'[t] = "fill" /\ frame'[t].guid = g /\ session'[g] = "calling"
    BY <1>1, <1>2, <2>1 DEF Shape, Frame
  <2>3. Filling(frame'[t], a, r)
    BY <1>4, <1>6, <1>7, <1>9 DEF Filling
  <2>4. ThreadTracks(t)'
    BY <1>2, <1>4, <1>5, <2>2, <2>3 DEF ThreadTracks, Parsing, Reading, r
  <2>5. GuidTracks(g)'
    BY <1>2, <1>4, <1>5, <1>6, <1>8, <2>2 DEF GuidTracks, Good, r
  <2> QED
    BY <1>1, <1>2, <1>3, <2>4, <2>5, LocalTracks
<1>10. CASE ~Continues(a)
  <2>1. pc'[t] = "idle" /\ session'[g] = "open"
    BY <1>2, <1>10 DEF FillEntry, Return, Shape, a, e
  <2>2. Resting(a, r)
    BY <1>2, <1>4, <1>6, <1>7 DEF Resting, Good, EnumerationOK, Enumeration, Scan
  <2>3. ThreadTracks(t)' /\ GuidTracks(g)'
    BY <1>2, <1>4, <1>5, <1>6, <1>8, <2>1, <2>2
       DEF ThreadTracks, GuidTracks, Good, Parsing, Reading, r
  <2> QED
    BY <1>1, <1>2, <1>3, <2>3, LocalTracks
<1> QED
  BY <1>9, <1>10

-----------------------------------------------------------------------------
LEMMA TracksFromInit == ASSUME Init PROVE Tracks
<1>1. \A t \in Threads : pc[t] = "idle"
  BY DEF Init
<1>2. \A g \in Guids : session[g] = "closed" /\ g \notin DOMAIN m_directoryEnumerations
  BY DEF Init
<1> QED
  BY <1>1, <1>2 DEF Tracks, ThreadTracks, GuidTracks, Parsing, Reading

LEMMA TracksUnderStutter == ASSUME Tracks, UNCHANGED vars PROVE Tracks'
<1>1. ASSUME NEW t \in Threads PROVE ThreadTracks(t)'
  BY DEF Tracks, vars, ThreadTracks
<1>2. ASSUME NEW g \in Guids PROVE GuidTracks(g)'
  BY DEF Tracks, vars, GuidTracks
<1> QED
  BY <1>1, <1>2 DEF Tracks

LEMMA TracksNext == ASSUME IInv, Tracks, Next PROVE Tracks'
<1>1. PICK t \in Threads : ThreadStep(t) \/ \E g \in Guids : CallerStep(t, g)
  BY DEF Next
<1>2. CASE ThreadStep(t)
  <2>1. PICK g : g = frame[t].guid
    OBVIOUS
  <2> QED
    BY <1>2, <2>1, ParseComponentTracks, RegisterFailsTracks, RegisterTracks, LookupTracks,
       PrepareTracks, FillAtEndTracks, FillEntryTracks, FillBufferFullTracks DEF ThreadStep
<1>3. ASSUME NEW g \in Guids, CallerStep(t, g) PROVE Tracks'
  BY <1>3, OpenDirectoryTracks, CloseDirectoryTracks, FetchEntriesTracks DEF CallerStep
<1> QED
  BY <1>1, <1>2, <1>3

LEMMA TracksInvariance == Spec => [](IInv /\ Tracks)
<1>1. Init => Tracks
  BY TracksFromInit
<1>2. IInv /\ Tracks /\ [Next]_vars => Tracks'
  BY TracksNext, TracksUnderStutter
<1> QED
  BY <1>1, <1>2, Invariance, PTL DEF Spec

(* What a caller has been given of a listing exists and matches, and when the      *)
(* scan has ended it is all there is: for every key space, files, inodes, thread   *)
(* pool and callers, whatever the buffers, restarts and concurrent listings, and   *)
(* for all directories but those whose last child wraps around.                  *)
THEOREM ListingIsExact == Spec => []ListingExact
<1>1. IInv /\ Tracks => ListingExact
  BY DEF Tracks, GuidTracks, Exact, ListingExact
<1> QED
  BY <1>1, TracksInvariance, PTL

(* An entry is written to the buffer after all those of smaller names, so that no  *)
(* entry is delivered twice in one scan, whatever happens between the calls.      *)
THEOREM EntriesInOrder == Spec => DeliveredInOrder
<1> DEFINE InOrder ==
      \A t \in Threads :
        LET enumeration == m_directoryEnumerations[frame[t].guid]
        IN  FillEntry(t) /\ Selected(enumeration) /\ ~WrapsAround(enumeration.path) =>
              \A entry \in scan[frame[t].guid].got :
                 entry.name < NextEntry(enumeration).name
<1>1. ASSUME IInv, Tracks PROVE InOrder
  <2>1. SUFFICES ASSUME NEW t \in Threads, FillEntry(t), NEW e, NEW s,
                        e = m_directoryEnumerations[frame[t].guid],
                        s = scan[frame[t].guid], ~WrapsAround(e.path),
                        NEW entry \in s.got
                 PROVE  entry.name < NextEntry(e).name
    OBVIOUS
  <2>2. pc[t] = "fill" /\ ~AtEnd(e)
    BY <2>1 DEF FillEntry
  <2>3. Good(e) /\ ThreadTracks(t)
    BY <1>1, <2>1, <2>2, ReadsTracked DEF Reading
  <2>4. Progress(e, s)
    BY <2>1, <2>2, <2>3 DEF ThreadTracks, Filling
  <2>5. entry \in Wanted(e.path, s.expression)
    BY <2>1, <2>4 DEF Progress
  <2> QED
    BY <2>1, <2>2, <2>3, <2>4, <2>5, NextIsWanted
<1>2. IInv /\ Tracks /\ [Next]_vars => [InOrder]_vars
  BY <1>1
<1> QED
  BY <1>2, TracksInvariance, PTL DEF Spec, DeliveredInOrder

-----------------------------------------------------------------------------
(* The refinement: what a step makes of the listing of its GUID.                *)

Listed(s) ==
  IF ~s.started \/ WrapsAround(s.path) THEN NotListing
  ELSE [want |-> Wanted(s.path, s.expression), got |-> s.got, ended |-> s.ended]

Begin(y) ==
  \E path \in Paths, expression \in Expression :
     y = [want |-> Wanted(path, expression), got |-> {}, ended |-> FALSE]

Deliver(x, y) ==
  /\ x # NotListing /\ ~x.ended
  /\ \E entry \in x.want \ x.got :
       /\ \A other \in x.want \ x.got : entry.name <= other.name
       /\ y = [x EXCEPT !.got = @ \cup {entry}]

End(x, y) == /\ x # NotListing /\ x.want \ x.got = {}
             /\ y = [x EXCEPT !.ended = TRUE]

ListingMay(x, y) == y = x \/ y = NotListing \/ Begin(y) \/ Deliver(x, y) \/ End(x, y)

LEMMA ListingStep ==
  ASSUME NEW g \in Guids, \A h \in Guids \ {g} : Listings'[h] = Listings[h],
         ListingMay(Listings[g], Listings'[g])
  PROVE  [Listing!Next]_Listings
<1> DEFINE x == Listings[g]
           y == Listings'[g]
<1>1. /\ Listings = [h \in Guids |-> Listings[h]]
      /\ Listings' = [h \in Guids |-> Listings'[h]]
  BY DEF Listings
<1>2. Listings' = [Listings EXCEPT ![g] = y]
  BY <1>1
<1>3. CASE y = x
  BY <1>1, <1>3
<1>4. CASE y = NotListing
  BY <1>2, <1>4 DEF Listing!Next, Listing!Abandon
<1>5. CASE Begin(y)
  BY <1>2, <1>5 DEF Begin, Listing!Next, Listing!Begin
<1>6. CASE Deliver(x, y)
  BY <1>1, <1>2, <1>6 DEF Deliver, Listing!Next, Listing!Deliver, Listing!Owed
<1>7. CASE End(x, y)
  BY <1>1, <1>2, <1>7 DEF End, Listing!Next, Listing!End, Listing!Owed
<1> QED
  BY <1>3, <1>4, <1>5, <1>6, <1>7 DEF ListingMay

LEMMA LocalListing ==
  ASSUME IInv, NEW t \in Threads, NEW g \in Guids, Touches(t, g),
         ListingMay(IF session[g] = "closed" THEN NotListing ELSE Listed(scan[g]),
                    IF session'[g] = "closed" THEN NotListing ELSE Listed(scan'[g]))
  PROVE  [Listing!Next]_Listings
<1>1. \A h \in Guids \ {g} : session'[h] = session[h] /\ scan'[h] = scan[h]
  BY DEF IInv, Shape, Touches
<1>2. \A h \in Guids \ {g} : Listings'[h] = Listings[h]
  BY <1>1 DEF Listings
<1>3. /\ Listings[g] = IF session[g] = "closed" THEN NotListing ELSE Listed(scan[g])
      /\ Listings'[g] = IF session'[g] = "closed" THEN NotListing ELSE Listed(scan'[g])
  BY DEF Listings, Listed
<1> QED
  BY <1>2, <1>3, ListingStep

(* The steps of a listing with its three fields spelled out.                    *)
LEMMA Ends ==
  ASSUME NEW want, NEW got, NEW was, want \subseteq got
  PROVE  End([want |-> want, got |-> got, ended |-> was],
             [want |-> want, got |-> got, ended |-> TRUE])
<1> DEFINE x == [want |-> want, got |-> got, ended |-> was]
<1>1. x.want = want /\ x.got = got
  OBVIOUS
<1>2. [x EXCEPT !.ended = TRUE] = [want |-> want, got |-> got, ended |-> TRUE]
  <2> DEFINE y == [x EXCEPT !.ended = TRUE]
             z == [want |-> want, got |-> got, ended |-> TRUE]
             listings == [want : {want}, got : {got}, ended : {was, TRUE}]
  <2>1. x \in listings
    OBVIOUS
  <2> HIDE DEF x
  <2>2. y \in listings /\ z \in listings
    BY <2>1
  <2>3. y.want = z.want /\ y.got = z.got /\ y.ended = z.ended
    BY <1>1, <2>1
  <2> HIDE DEF y, z
  <2>4. y = z
    BY <2>2, <2>3
  <2> QED
    BY <2>4 DEF y, z
<1>3. x # NotListing
  BY DEF NotListing
<1> HIDE DEF x
<1>4. x.want \ x.got = {}
  BY <1>1
<1>5. End(x, [want |-> want, got |-> got, ended |-> TRUE])
  BY <1>2, <1>3, <1>4 DEF End
<1> QED
  BY <1>5 DEF x

LEMMA Delivers ==
  ASSUME NEW want, NEW got, NEW entry \in want \ got,
         \A other \in want \ got : entry.name <= other.name
  PROVE  Deliver([want |-> want, got |-> got, ended |-> FALSE],
                 [want |-> want, got |-> got \cup {entry}, ended |-> FALSE])
<1> DEFINE x == [want |-> want, got |-> got, ended |-> FALSE]
<1>1. x.want = want /\ x.got = got /\ ~x.ended
  OBVIOUS
<1>2. [x EXCEPT !.got = @ \cup {entry}]
        = [want |-> want, got |-> got \cup {entry}, ended |-> FALSE]
  <2> DEFINE y == [x EXCEPT !.got = @ \cup {entry}]
             z == [want |-> want, got |-> got \cup {entry}, ended |-> FALSE]
             listings == [want : {want}, got : {got, got \cup {entry}}, ended : {FALSE}]
  <2>1. x \in listings
    OBVIOUS
  <2> HIDE DEF x
  <2>2. y \in listings /\ z \in listings
    BY <1>1, <2>1
  <2>3. y.want = z.want /\ y.got = z.got /\ y.ended = z.ended
    BY <1>1, <2>1
  <2> HIDE DEF y, z
  <2>4. y = z
    BY <2>2, <2>3
  <2> QED
    BY <2>4 DEF y, z
<1>3. x # NotListing
  BY DEF NotListing
<1> HIDE DEF x
<1>4. Deliver(x, [want |-> want, got |-> got \cup {entry}, ended |-> FALSE])
  BY <1>1, <1>2, <1>3 DEF Deliver
<1> QED
  BY <1>4 DEF x

LEMMA FetchEntriesLists ==
  ASSUME IInv, Tracks, NEW t \in Threads, NEW g \in Guids, NEW restart \in BOOLEAN,
         NEW expression \in Expression, NEW room \in 0 .. MaxRoom,
         FetchEntries(t, g, restart, expression, room)
  PROVE  [Listing!Next]_Listings
<1> DEFINE begins == restart \/ ~scan[g].started
           s == scan[g]
           r == scan'[g]
<1>1. /\ Shape /\ session[g] = "open" /\ session'[g] = "calling"
      /\ Touches(t, g) /\ s \in Scan
  BY FetchEntriesKeeps DEF IInv, Shape, FetchEntries, GuidOK
<1>2. /\ r.started /\ r.path = s.path
      /\ r.expression = IF begins THEN expression ELSE s.expression
      /\ r.got = IF begins THEN {} ELSE s.got
      /\ r.ended = IF begins THEN FALSE ELSE s.ended
  BY <1>1 DEF Shape, FetchEntries, Scan
<1>3. s.path \in Paths
  BY <1>1 DEF Scan
<1> HIDE DEF r, s
<1>4. CASE begins
  <2>1. Listed(r) = NotListing \/ Begin(Listed(r))
    BY <1>2, <1>3, <1>4 DEF Listed, Begin
  <2> QED
    BY <1>1, <2>1, LocalListing DEF ListingMay, r
<1>5. CASE ~begins
  <2>1. Listed(r) = Listed(s)
    BY <1>2, <1>5 DEF Listed, s
  <2> QED
    BY <1>1, <2>1, LocalListing DEF ListingMay, r, s
<1> QED
  BY <1>4, <1>5

LEMMA FillAtEndLists ==
  ASSUME IInv, Tracks, NEW t \in Threads, NEW g, g = frame[t].guid, FillAtEnd(t)
  PROVE  [Listing!Next]_Listings
<1> DEFINE e == m_directoryEnumerations[g]
           s == scan[g]
           r == scan'[g]
<1>1. /\ pc[t] = "fill" /\ Return(t, g, "open") /\ AtEnd(e)
      /\ scan' = [scan EXCEPT ![g].ended = ~frame[t].writtenEntry]
  BY DEF FillAtEnd, FetchReturns
<1>2. /\ Shape /\ g \in Guids /\ ThreadTracks(t) /\ Good(e)
      /\ e.path = s.path /\ s.started /\ s \in Scan /\ session[g] = "calling"
  BY <1>1, ReadsTracked DEF Reading
<1>3. /\ Touches(t, g) /\ Filling(frame[t], e, s) /\ session'[g] = "open"
  BY <1>1, <1>2, FillAtEndKeeps DEF ThreadTracks, Shape, Return
<1>4. /\ r.path = s.path /\ r.expression = s.expression
      /\ r.got = s.got /\ r.started = s.started /\ r.ended = ~frame[t].writtenEntry
  BY <1>1, <1>2 DEF Shape, Scan
<1> HIDE DEF r, s, e
<1>5. CASE WrapsAround(s.path)
  <2>1. Listed(r) = NotListing
    BY <1>4, <1>5 DEF Listed
  <2> QED
    BY <1>2, <1>3, <2>1, LocalListing DEF ListingMay, r
<1>6. CASE ~WrapsAround(s.path)
  <2>1. /\ Aligned(e) /\ s.ended \in BOOLEAN
        /\ s.got = {entry \in Wanted(s.path, s.expression) : Passed(e, entry.name)}
    BY <1>2, <1>3, <1>6 DEF Filling, Progress, Scan
  <2>2. Wanted(s.path, s.expression) \subseteq s.got
    BY <1>1, <1>2, <2>1, AllPassedAtEnd DEF Wanted, e
  <2>3. Listed(s) = [want |-> Wanted(s.path, s.expression), got |-> s.got, ended |-> s.ended]
        /\ Listed(r) = [want |-> Wanted(s.path, s.expression), got |-> s.got, ended |-> r.ended]
    BY <1>2, <1>4, <1>6 DEF Listed
  <2>4. Listed(s) # NotListing
    BY <2>3 DEF NotListing
  <2>5. CASE r.ended
    <3>1. r.ended = TRUE
      BY <1>4, <2>5
    <3>2. End(Listed(s), Listed(r))
      BY <2>2, <2>3, <3>1, Ends
    <3> QED
      BY <1>2, <1>3, <3>2, LocalListing DEF ListingMay, r, s
  <2>6. CASE ~r.ended
    <3>1. r.ended = FALSE /\ s.ended = FALSE
      BY <1>2, <1>3, <1>4, <1>6, <2>1, <2>6 DEF Filling
    <3>2. Listed(r) = Listed(s)
      BY <2>3, <3>1
    <3> QED
      BY <1>2, <1>3, <3>2, LocalListing DEF ListingMay, r, s
  <2> QED
    BY <2>5, <2>6
<1> QED
  BY <1>5, <1>6

LEMMA FillEntryLists ==
  ASSUME IInv, Tracks, NEW t \in Threads, NEW g, g = frame[t].guid, FillEntry(t)
  PROVE  [Listing!Next]_Listings
<1> DEFINE e == m_directoryEnumerations[g]
           a == Advance(e)
           s == scan[g]
           r == scan'[g]
           want == Wanted(s.path, s.expression)
<1>1. pc[t] = "fill" /\ ~AtEnd(e)
  BY DEF FillEntry
<1>2. /\ Shape /\ g \in Guids /\ ThreadTracks(t) /\ Good(e)
      /\ e.path = s.path /\ s.started /\ s \in Scan /\ session[g] = "calling"
  BY <1>1, ReadsTracked DEF Reading
<1>3. /\ Touches(t, g) /\ Filling(frame[t], e, s) /\ session'[g] \in {"open", "calling"}
  <2>1. Touches(t, g) /\ Filling(frame[t], e, s)
    BY <1>1, <1>2, FillEntryKeeps DEF ThreadTracks
  <2> QED
    BY <1>2, <2>1 DEF FillEntry, Return, Shape
<1>4. /\ r.path = s.path /\ r.expression = s.expression /\ r.started = s.started
      /\ r.got = (IF Selected(e) THEN s.got \cup {NextEntry(e)} ELSE s.got)
      /\ r.ended <=> ~Continues(a) /\ ~(Selected(e) \/ frame[t].writtenEntry)
  BY <1>2 DEF FillEntry, Shape, Scan
<1> HIDE DEF r, s, e, a
<1>5. CASE WrapsAround(s.path)
  <2>1. Listed(r) = NotListing
    BY <1>4, <1>5 DEF Listed
  <2> QED
    BY <1>2, <1>3, <2>1, LocalListing DEF ListingMay, r
<1>6. CASE ~WrapsAround(s.path)
  <2>1. Progress(e, s) /\ ~s.ended /\ s.ended \in BOOLEAN
    BY <1>1, <1>2, <1>3, <1>6 DEF Filling, Progress, Scan
  <2>2. s.got \subseteq want
    BY <1>2, <1>6, <2>1 DEF Progress
  <2>3. r.ended \in BOOLEAN
    BY <1>2 DEF FillEntry, Shape, Scan, r, s
  <2>4. /\ Listed(s) = [want |-> want, got |-> s.got, ended |-> FALSE]
        /\ Listed(r) = [want |-> want, got |-> r.got, ended |-> r.ended]
    BY <1>2, <1>4, <1>6, <2>1 DEF Listed
  <2>5. Listed(s) # NotListing
    BY <2>4 DEF NotListing
  <2>6. CASE Selected(e)
    <3>1. NextEntry(e) \in want
      BY <1>1, <1>2, <1>6, <2>1, <2>6, NextIsWanted
    <3>2. \A entry \in want : entry \in s.got <=> entry.name < NextEntry(e).name
      BY <1>1, <1>2, <1>6, <2>1, NextIsWanted
    <3>3. \A entry \in want : entry.name \in Nat
      BY NamesAreNumbers DEF Wanted
    <3> HIDE DEF want
    <3>4. /\ NextEntry(e) \in want \ s.got
          /\ \A other \in want \ s.got : NextEntry(e).name <= other.name
      BY <3>1, <3>2, <3>3
    <3>5. r.ended = FALSE /\ r.got = s.got \cup {NextEntry(e)}
      BY <1>4, <2>3, <2>6
    <3>6. Deliver(Listed(s), Listed(r))
      BY <2>4, <3>4, <3>5, Delivers
    <3> QED
      BY <1>2, <1>3, <3>6, LocalListing DEF ListingMay, r, s
  <2>7. CASE ~Selected(e) /\ r.ended
    <3>1. /\ Good(a) /\ a.path = e.path /\ Progress(a, r)
      BY <1>1, <1>2, <1>4, <2>1, AdvanceKeepsRange, AdvanceProgresses DEF a
    <3>2. r.got = want
      BY <1>2, <1>4, <1>6, <2>7, <3>1, ProgressIsExact DEF Exact
    <3>3. r.ended = TRUE /\ r.got = s.got
      BY <1>4, <2>3, <2>7
    <3>4. End(Listed(s), Listed(r))
      BY <2>4, <3>2, <3>3, Ends
    <3> QED
      BY <1>2, <1>3, <3>4, LocalListing DEF ListingMay, r, s
  <2>8. CASE ~Selected(e) /\ ~r.ended
    <3>1. Listed(r) = Listed(s)
      BY <1>4, <2>3, <2>4, <2>8
    <3> QED
      BY <1>2, <1>3, <3>1, LocalListing DEF ListingMay, r, s
  <2> QED
    BY <2>6, <2>7, <2>8
<1> QED
  BY <1>5, <1>6

(* The other steps begin no listing, or abandon one.                            *)
LEMMA OtherStepsList ==
  ASSUME IInv, Tracks, NEW t \in Threads, NEW g \in Guids, Touches(t, g),
         \/ session[g] # "closed" /\ session'[g] # "closed" /\ scan'[g] = scan[g]
         \/ session'[g] = "closed"
         \/ ~scan'[g].started
  PROVE  [Listing!Next]_Listings
  BY LocalListing DEF ListingMay, Listed

LEMMA NextLists == ASSUME IInv, Tracks, Next PROVE [Listing!Next]_Listings
<1>1. PICK t \in Threads : ThreadStep(t) \/ \E g \in Guids : CallerStep(t, g)
  BY DEF Next
<1>2. ASSUME NEW g, g = frame[t].guid, ThreadStep(t) PROVE [Listing!Next]_Listings
  <2>1. CASE ParseComponent(t) \/ Register(t) \/ Lookup(t) \/ Prepare(t) \/ FillBufferFull(t)
    <3>1. pc[t] # "idle" /\ scan' = scan
      BY <2>1 DEF ParseComponent, Register, Lookup, Prepare, FillBufferFull
    <3>2. Shape /\ g \in Guids /\ session[g] = "calling"
      BY <1>2, <3>1, Running
    <3>3. session'[g] \in {"open", "calling"}
      BY <1>2, <2>1, <3>2
         DEF ParseComponent, Register, Lookup, Prepare, FillBufferFull, Return, Shape
    <3>4. Touches(t, g)
      BY <1>2, <2>1, ParseComponentKeeps, RegisterKeeps, LookupKeeps, PrepareKeeps,
         FillBufferFullKeeps
    <3> QED
      BY <3>1, <3>2, <3>3, <3>4, OtherStepsList
  <2>2. CASE RegisterFails(t)
    <3>1. pc[t] # "idle"
      BY <2>2 DEF RegisterFails
    <3>2. Shape /\ g \in Guids
      BY <1>2, <3>1, Running
    <3>3. session'[g] = "closed" /\ Touches(t, g)
      BY <1>2, <2>2, <3>2, RegisterFailsKeeps DEF RegisterFails, Return, Shape
    <3> QED
      BY <3>2, <3>3, OtherStepsList
  <2> QED
    BY <1>2, <2>1, <2>2, FillAtEndLists, FillEntryLists DEF ThreadStep
<1>3. ASSUME NEW g \in Guids, CallerStep(t, g) PROVE [Listing!Next]_Listings
  <2>1. CASE CloseDirectory(t, g)
    <3>1. session'[g] = "closed" /\ Touches(t, g)
      BY <2>1, CloseDirectoryKeeps DEF CloseDirectory, IInv, Shape
    <3> QED
      BY <3>1, OtherStepsList
  <2>2. ASSUME NEW path \in Paths, OpenDirectory(t, g, path) PROVE [Listing!Next]_Listings
    <3>1. ~scan'[g].started /\ Touches(t, g)
      BY <2>2, OpenDirectoryKeeps DEF OpenDirectory, IInv, Shape
    <3> QED
      BY <3>1, OtherStepsList
  <2> QED
    BY <1>3, <2>1, <2>2, FetchEntriesLists DEF CallerStep
<1> QED
  BY <1>1, <1>2, <1>3

(* Listing a directory in any number of calls, with any buffers, restarts and       *)
(* concurrent listings, implements the abstract listing: each entry once and in     *)
(* order, the end announced exactly when nothing is owed.                       *)
THEOREM EnumerationImplementsListing == Spec => ImplementsListing
<1>1. Init => Listing!Init
  BY DEF Init, Listing!Init, Listings
<1>2. IInv /\ Tracks /\ [Next]_vars => [Listing!Next]_Listings
  <2>1. ASSUME UNCHANGED vars PROVE UNCHANGED Listings
    BY <2>1 DEF vars, Listings
  <2> QED
    BY <2>1, NextLists
<1> QED
  BY <1>1, <1>2, TracksInvariance, PTL DEF Spec, ImplementsListing, Listing!Spec

-----------------------------------------------------------------------------
(* The files of a path of \by-id are those of its range.                        *)
LEMMA FilesOfRange ==
  ASSUME NEW path \in Path, NEW cursor, Parsed(path, cursor), cursor.next = Len(path) + 1
  PROVE  FilesUnder(path) =
           {key \in DOMAIN m_files : cursor.firstID <= key /\ key <= cursor.lastID}
<1>1. Len(path) \in Nat /\ cursor.next - 1 = Len(path)
  BY DEF Path
<1>2. DOMAIN m_files \subseteq Keys
  BY FilesTypes
<1> QED
  BY <1>1, <1>2 DEF Parsed, Selects, FilesUnder, KeysUnder

(* lower_bound of the first and upper_bound of the last key of a range are the    *)
(* same if no file is in it.                                                  *)
LEMMA BoundsOfRange ==
  ASSUME NEW first \in Keys, NEW last \in Keys, first <= last
  PROVE  LowerBound(first) = UpperBound(last)
           <=> {key \in DOMAIN m_files : first <= key /\ key <= last} = {}
<1> DEFINE lower == {key \in DOMAIN m_files : key >= first}
           upper == {key \in DOMAIN m_files : key > last}
           within == {key \in DOMAIN m_files : first <= key /\ key <= last}
<1>1. DOMAIN m_files \subseteq Nat /\ first \in Nat /\ last \in Nat /\ first <= last
  BY FilesTypes, SpanTypes DEF Keys
<1>2. lower \in SUBSET Nat /\ upper \in SUBSET Nat /\ within \subseteq lower
  BY <1>1
<1>3. LowerBound(first) = FirstOrEnd(lower) /\ UpperBound(last) = FirstOrEnd(upper)
  BY DEF LowerBound, UpperBound
<1>4. ASSUME within = {} PROVE LowerBound(first) = UpperBound(last)
  <2>1. \A key \in DOMAIN m_files : key >= first <=> key > last
    BY <1>1, <1>4
  <2>2. lower = upper
    BY <2>1
  <2> QED
    BY <1>3, <2>2
<1>5. ASSUME within # {} PROVE LowerBound(first) # UpperBound(last)
  <2>1. lower # {}
    BY <1>2, <1>5
  <2>2. LowerBound(first) = Min(lower) /\ Min(lower) \in lower
        /\ \A n \in lower : Min(lower) <= n
    BY <1>2, <1>3, <2>1, MinOfNats DEF FirstOrEnd
  <2>3. LowerBound(first) <= last /\ LowerBound(first) \in Nat
    BY <1>1, <1>2, <1>5, <2>2
  <2>4. CASE upper = {}
    <3>1. UpperBound(last) = KeySpace
      BY <1>3, <2>4 DEF FirstOrEnd, EndOfFiles
    <3> QED
      BY <2>3, <3>1, SpanTypes DEF Keys
  <2>5. CASE upper # {}
    <3>1. UpperBound(last) \in upper
      BY <1>2, <1>3, <2>5, MinOfNats DEF FirstOrEnd
    <3> QED
      BY <1>1, <2>3, <3>1
  <2> QED
    BY <2>4, <2>5
<1> QED
  BY <1>4, <1>5

(* A path of \by-id names one key, or more than one.                           *)
LEMMA RangeOfPath ==
  ASSUME NEW path \in Path, NEW cursor, Parsed(path, cursor), IsByIDPath(path),
         cursor.next = Len(path) + 1
  PROVE  /\ cursor.firstID \in Keys /\ cursor.lastID \in Keys
         /\ cursor.firstID <= cursor.lastID
         /\ IsRange(cursor) <=> Len(path) <= Digits
         /\ RangeEmpty(cursor) <=> FilesUnder(path) = {}
         /\ ~IsRange(cursor) => FilesUnder(path) = {cursor.firstID} \cap DOMAIN m_files
<1> DEFINE k == FreeDigits(cursor.next)
           first == cursor.firstID
           last == cursor.lastID
<1>1. /\ IsBlock(k, first, last) /\ Len(path) \in 1 .. Digits + 1 /\ Digits \in Nat \ {0}
      /\ k = Digits + 1 - Len(path)
  BY BaseTypes DEF Parsed, ParsedBlock, IsByIDPath, FreeDigits
<1> HIDE DEF k, first, last
<1>2. k \in 0 .. Digits
  BY <1>1
<1>3. first \in Keys /\ last \in Keys /\ first <= last /\ last - first + 1 = Span[k]
  BY <1>1, <1>2, BlockOfKeys
<1>4. first # last <=> Len(path) <= Digits
  <2>1. first \in Nat /\ last \in Nat
    BY <1>3, SpanTypes DEF Keys
  <2>2. CASE k = 0
    <3>1. last - first + 1 = 1
      BY <1>3, <2>2, SpanAssumption
    <3>2. first = last
      BY <2>1, <3>1
    <3> QED
      BY <1>1, <2>2, <3>2
  <2>3. CASE k # 0
    <3>1. k - 1 \in 0 .. Digits - 1 /\ (k - 1) + 1 = k
      BY <1>1, <1>2, <2>3
    <3>2. Span[k - 1] \in Nat \ {0} /\ Span[k] = Base * Span[k - 1]
      <4>1. k - 1 \in 0 .. Digits
        BY <1>1, <3>1
      <4> QED
        BY <3>1, <4>1, SpanTypes
    <3>3. 1 * Base <= Span[k - 1] * Base /\ Span[k - 1] * Base = Base * Span[k - 1]
      BY <3>2, BaseTypes, MultiplesAreOrdered
    <3>4. Span[k] > 1
      BY <3>2, <3>3, BaseTypes
    <3>5. first # last
      BY <1>3, <2>1, <3>4
    <3> QED
      BY <1>1, <2>3, <3>5
  <2> QED
    BY <2>2, <2>3
<1>5. FilesUnder(path) = {key \in DOMAIN m_files : first <= key /\ key <= last}
  BY FilesOfRange DEF first, last
<1>6. RangeEmpty(cursor) <=> FilesUnder(path) = {}
  <2>1. RangeEmpty(cursor) <=> LowerBound(first) = UpperBound(last)
    BY DEF RangeEmpty, first, last
  <2> QED
    BY <1>3, <1>5, <2>1, BoundsOfRange
<1>7. first = last => FilesUnder(path) = {first} \cap DOMAIN m_files
  <2>1. first \in Nat /\ DOMAIN m_files \subseteq Nat
    BY <1>3, SpanTypes, FilesTypes DEF Keys
  <2> QED
    BY <1>5, <2>1
<1> QED
  BY <1>3, <1>4, <1>6, <1>7 DEF IsRange, first, last

-----------------------------------------------------------------------------
(* The invariant, and the types.                                            *)

Query == [op : {"getPlaceholderInfo", "getFileData"}, path : PathsAsked, cursor : Cursor,
          byID : BOOLEAN, byteOffset : Nat, length : Nat]

QueryInv ==
  /\ stage \in {"idle", "parse", "answer"}
  /\ stage # "idle" => query \in Query /\ Parsed(query.path, query.cursor)
  /\ stage = "parse" => ~query.byID
  /\ stage = "answer" => /\ query.byID <=> IsByIDPath(query.path)
                         /\ query.byID => query.cursor.next = Len(query.path) + 1

LEMMA QueryInvKept == ASSUME QueryInv, [LookupNext]_lookupVars PROVE QueryInv'
<1>1. ASSUME NEW path \in PathsAsked, NEW op \in {"getPlaceholderInfo", "getFileData"},
             NEW byteOffset \in Nat, NEW length \in Nat, Call(op, path, byteOffset, length)
      PROVE  QueryInv'
  <2>1. Parsed(path, ParseBegin) /\ ParseBegin \in Cursor
    BY LookupAssumption, ParsedAtFirst, ParseBeginBlock
  <2>2. /\ stage' = "parse" /\ query'.path = path /\ query'.cursor = ParseBegin
        /\ query'.byID = FALSE /\ query' \in Query
    BY <1>1, <2>1 DEF Call, Query
  <2> QED
    BY <2>1, <2>2 DEF QueryInv
<1>2. CASE ParsePart
  <2>1. /\ stage = "parse" /\ query \in Query /\ query.path \in Path
        /\ Parsed(query.path, query.cursor)
    BY <1>2, LookupAssumption DEF ParsePart, QueryInv, Query
  <2>2. CASE ParseDone(query.path, query.cursor) \/ ParseRejects(query.path, query.cursor)
    <3> DEFINE found == ParseDone(query.path, query.cursor) /\ Len(query.path) > 0
    <3>1. /\ query' = [query EXCEPT !.byID = found]
          /\ stage' = "answer"
      BY <1>2, <2>2 DEF ParsePart
    <3>2. /\ found <=> IsByIDPath(query.path)
          /\ IsByIDPath(query.path) => query.cursor.next = Len(query.path) + 1
      BY <2>1, <2>2, ParsedToTheEnd
    <3>3. found \in BOOLEAN
      OBVIOUS
    <3> HIDE DEF found
    <3>4. /\ query' \in Query /\ query'.path = query.path /\ query'.cursor = query.cursor
          /\ query'.byID = found
      BY <2>1, <3>1, <3>3 DEF Query
    <3> QED
      BY <2>1, <3>1, <3>2, <3>4 DEF QueryInv
  <2>3. CASE ~(ParseDone(query.path, query.cursor) \/ ParseRejects(query.path, query.cursor))
    <3> DEFINE next == ParseNext(query.path, query.cursor)
    <3>1. query' = [query EXCEPT !.cursor = next] /\ stage' = stage
      BY <1>2, <2>3 DEF ParsePart
    <3>2. Parsed(query.path, next) /\ next \in Cursor
      BY <2>1, <2>3, ParsedFurther DEF Parsed
    <3> HIDE DEF next
    <3>3. /\ query' \in Query /\ query'.path = query.path /\ query'.cursor = next
          /\ query'.byID = query.byID
      BY <2>1, <3>1, <3>2 DEF Query
    <3> QED
      BY <2>1, <3>1, <3>2, <3>3 DEF QueryInv
  <2> QED
    BY <2>2, <2>3
<1>3. CASE AnswerPlaceholderInfo \/ AnswerFileData
  BY <1>3 DEF AnswerPlaceholderInfo, AnswerFileData, QueryInv
<1>4. CASE UNCHANGED lookupVars
  BY <1>4 DEF lookupVars, QueryInv
<1> QED
  BY <1>1, <1>2, <1>3, <1>4, LookupAssumption DEF LookupNext, GetPlaceholderInfo, GetFileData

(* The parse loop stays within the key space and selects a range that is not       *)
(* inverted, and by-id is reported for the paths of \by-id only.                *)
THEOREM LookupTypeCorrect == LookupSpec => []LookupTypeOK
<1>1. LookupInit => QueryInv
  BY DEF LookupInit, QueryInv
<1>2. QueryInv /\ [LookupNext]_lookupVars => QueryInv'
  BY QueryInvKept
<1>3. QueryInv => LookupTypeOK
  <2> SUFFICES ASSUME QueryInv, stage # "idle"
      PROVE /\ query.path \in PathsAsked /\ query.cursor \in Cursor
            /\ query.cursor.firstID <= query.cursor.lastID
            /\ query.byID => IsByIDPath(query.path)
    BY DEF QueryInv, LookupTypeOK
  <2>1. query \in Query /\ ParsedBlock(query.cursor)
    BY DEF QueryInv, Parsed
  <2>2. query.cursor.firstID <= query.cursor.lastID
    <3>1. FreeDigits(query.cursor.next) \in 0 .. Digits
      BY <2>1, BaseTypes DEF ParsedBlock, FreeDigits
    <3> QED
      BY <2>1, <3>1, BlockOfKeys DEF ParsedBlock
  <2> QED
    BY <2>1, <2>2 DEF QueryInv, Query
<1> QED
  BY <1>1, <1>2, <1>3, PTL DEF LookupSpec

-----------------------------------------------------------------------------
(* Reads.                                                                   *)

LEMMA MinOfTwo ==
  ASSUME NEW a \in Nat, NEW b \in Nat
  PROVE  Min({a, b}) = IF a <= b THEN a ELSE b
<1>1. Min({a, b}) \in {a, b} /\ \A n \in {a, b} : Min({a, b}) <= n
  BY MinOfNats
<1> QED
  BY <1>1

(* The bytes that are written are those that the window and the file share.        *)
LEMMA WindowOfFile ==
  ASSUME NEW size \in Nat, query.byteOffset \in Nat, query.length \in Nat
  PROVE  query.byteOffset .. query.byteOffset + RealLength(size) - 1
           = (query.byteOffset .. query.byteOffset + query.length - 1) \cap (0 .. size - 1)
<1> DEFINE from == query.byteOffset
           length == query.length
           real == RealLength(size)
<1>1. from \in Nat /\ length \in Nat
  OBVIOUS
<1>2. real = IF from > size THEN 0 ELSE Min({length, size - from})
  BY DEF RealLength
<1> HIDE DEF from, length, real
<1>3. CASE from > size
  <2>1. from .. from + real - 1 = (from .. from + length - 1) \cap (0 .. size - 1)
    BY <1>1, <1>2, <1>3
  <2> QED
    BY <2>1 DEF from, length, real
<1>4. CASE from <= size
  <2>1. size - from \in Nat
    BY <1>1, <1>4
  <2>2. real = IF length <= size - from THEN length ELSE size - from
    BY <1>1, <1>2, <1>4, <2>1, MinOfTwo
  <2>3. from .. from + real - 1 = (from .. from + length - 1) \cap (0 .. size - 1)
    BY <1>1, <1>4, <2>1, <2>2
  <2> QED
    BY <2>3 DEF from, length, real
<1> QED
  BY <1>1, <1>3, <1>4

(* What the answer to a read makes of the path: whether it names a directory, and   *)
(* else the file whose key is read.                                              *)
LEMMA PathOfRead ==
  ASSUME query \in Query, query.path \in Path, Parsed(query.path, query.cursor),
         query.byID <=> IsByIDPath(query.path),
         query.byID => query.cursor.next = Len(query.path) + 1
  PROVE  /\ PathStatus = IF IsDirectoryPath(query.path) THEN IsADirectory
                         ELSE IF FilesNamed(query.path) = {} THEN FileNotFound ELSE Ok
         /\ ~IsDirectoryPath(query.path) /\ FilesNamed(query.path) # {} =>
              FilesNamed(query.path) = {FileKey}
<1> DEFINE path == query.path
           first == query.cursor.firstID
<1>1. CASE query.byID
  <2>1. /\ IsByIDPath(path)
        /\ IsRange(query.cursor) <=> Len(path) <= Digits
        /\ RangeEmpty(query.cursor) <=> FilesUnder(path) = {}
        /\ ~IsRange(query.cursor) => FilesUnder(path) = {first} \cap DOMAIN m_files
    BY <1>1, RangeOfPath
  <2>2. FileKey = first
    BY <1>1 DEF FileKey
  <2>3. Len(path) <= Digits <=> ~(Len(path) > Digits)
    BY BaseTypes DEF Path
  <2>4. IsDirectoryPath(path) <=> Len(path) <= Digits /\ FilesUnder(path) # {}
    BY <2>1 DEF IsDirectoryPath
  <2>5. FilesNamed(path) = IF Len(path) > Digits THEN FilesUnder(path) ELSE {}
    BY <2>1 DEF FilesNamed
  <2>6. CASE Len(path) <= Digits
    BY <1>1, <2>1, <2>3, <2>4, <2>5, <2>6 DEF PathStatus
  <2>7. CASE ~(Len(path) <= Digits)
    <3>1. FilesNamed(path) = {first} \cap DOMAIN m_files /\ ~IsDirectoryPath(path)
      BY <2>1, <2>3, <2>4, <2>5, <2>7
    <3> QED
      BY <1>1, <2>1, <2>2, <2>7, <3>1 DEF PathStatus
  <2> QED
    BY <2>6, <2>7
<1>2. CASE ~query.byID
  <2>1. /\ ~IsByIDPath(path)
        /\ IsDirectoryPath(path) <=> path \in DOMAIN Inodes /\ Inodes[path].info.isDirectory
    BY <1>2 DEF IsDirectoryPath
  <2>2. FilesNamed(path) = {Inodes[p].fileKey :
          p \in {q \in DOMAIN Inodes : q = path /\ ~Inodes[q].info.isDirectory}}
    BY <2>1 DEF FilesNamed
  <2>3. CASE path \in DOMAIN Inodes /\ ~Inodes[path].info.isDirectory
    <3>1. FilesNamed(path) = {Inodes[path].fileKey}
      BY <2>2, <2>3
    <3> QED
      BY <1>2, <2>1, <2>3, <3>1 DEF PathStatus, FileKey
  <2>4. CASE ~(path \in DOMAIN Inodes /\ ~Inodes[path].info.isDirectory)
    <3>1. FilesNamed(path) = {}
      BY <2>2, <2>4
    <3> QED
      BY <1>2, <2>1, <2>4, <3>1 DEF PathStatus
  <2> QED
    BY <2>3, <2>4
<1> QED
  BY <1>1, <1>2

LEMMA ReadClippedKept == ASSUME QueryInv, ReadClipped, [LookupNext]_lookupVars PROVE ReadClipped'
<1> USE DEF Answered, Ok, FileNotFound, IsADirectory, GeneralFailure
<1>1. CASE reply' = reply
  BY <1>1 DEF ReadClipped
<1>2. CASE reply' = NoReply
  BY <1>2 DEF ReadClipped
<1>3. CASE AnswerPlaceholderInfo
  <2>1. reply'.op = "getPlaceholderInfo"
    BY <1>3 DEF AnswerPlaceholderInfo
  <2> QED
    BY <2>1 DEF ReadClipped
<1>4. CASE AnswerFileData
  <2> DEFINE path == query.path
             status == IF PathStatus = Ok /\ FileKey \notin DOMAIN DataSize
                       THEN GeneralFailure ELSE PathStatus
             window == query.byteOffset .. query.byteOffset + query.length - 1
  <2>1. /\ query \in Query /\ Parsed(path, query.cursor) /\ path \in Path
        /\ query.byID <=> IsByIDPath(path)
        /\ query.byID => query.cursor.next = Len(path) + 1
    BY <1>4, LookupAssumption DEF AnswerFileData, QueryInv, Query
  <2>2. /\ reply'.path = path /\ reply'.status = status
        /\ reply'.byteOffset = query.byteOffset /\ reply'.length = query.length
        /\ reply'.data = IF status = Ok THEN FileBytes(FileKey) ELSE NoReply
    BY <1>4 DEF AnswerFileData
  <2>3. SUFFICES IF IsDirectoryPath(path) THEN status = IsADirectory
                 ELSE IF FilesNamed(path) = {} THEN status = FileNotFound
                 ELSE \A key \in FilesNamed(path) :
                        IF key \in DOMAIN DataSize
                        THEN /\ status = Ok
                             /\ reply'.data = [key |-> key,
                                               bytes |-> window \cap (0 .. DataSize[key] - 1)]
                        ELSE status = GeneralFailure
    BY <2>2 DEF ReadClipped
  <2>4. /\ PathStatus = IF IsDirectoryPath(path) THEN IsADirectory
                        ELSE IF FilesNamed(path) = {} THEN FileNotFound ELSE Ok
        /\ ~IsDirectoryPath(path) /\ FilesNamed(path) # {} => FilesNamed(path) = {FileKey}
    BY <2>1, PathOfRead
  <2>5. CASE IsDirectoryPath(path) \/ FilesNamed(path) = {}
    BY <2>4, <2>5
  <2>6. CASE ~IsDirectoryPath(path) /\ FilesNamed(path) # {}
    <3>1. FilesNamed(path) = {FileKey} /\ PathStatus = Ok
      BY <2>4, <2>6
    <3>2. CASE FileKey \in DOMAIN DataSize
      <4>1. DataSize[FileKey] \in Nat /\ query.byteOffset \in Nat /\ query.length \in Nat
        BY <2>1, <3>2, LookupAssumption DEF Query
      <4>2. status = Ok /\ reply'.data = FileBytes(FileKey)
        BY <2>2, <3>1, <3>2
      <4>3. FileBytes(FileKey) = [key |-> FileKey,
                                  bytes |-> window \cap (0 .. DataSize[FileKey] - 1)]
        BY <4>1, WindowOfFile DEF FileBytes
      <4> QED
        BY <2>6, <3>1, <3>2, <4>2, <4>3
    <3>3. CASE FileKey \notin DOMAIN DataSize
      BY <2>6, <3>1, <3>3
    <3> QED
      BY <3>2, <3>3
  <2> QED
    BY <2>5, <2>6
<1> QED
  BY <1>1, <1>2, <1>3, <1>4
  DEF LookupNext, lookupVars, GetPlaceholderInfo, GetFileData, Call, ParsePart

(* A read through a key of \by-id or through a published name writes the bytes of    *)
(* that file's data in the window asked for, whatever the offset, the length and the  *)
(* size announced, and any other path is refused for what it is.                    *)
THEOREM ReadsAreClipped == LookupSpec => []ReadClipped
<1>1. LookupInit => QueryInv /\ ReadClipped
  BY DEF LookupInit, QueryInv, ReadClipped, Answered
<1>2. QueryInv /\ ReadClipped /\ [LookupNext]_lookupVars => QueryInv' /\ ReadClipped'
  BY QueryInvKept, ReadClippedKept
<1> QED
  BY <1>1, <1>2, PTL DEF LookupSpec

-----------------------------------------------------------------------------
(* Lookups.                                                                 *)

LEMMA Prefix ==
  ASSUME NEW s \in Path, NEW n \in Nat, n <= Len(s)
  PROVE  /\ SubSeq(s, 1, n) \in Path
         /\ Len(SubSeq(s, 1, n)) = n
         /\ \A i \in 1 .. n : SubSeq(s, 1, n)[i] = s[i]
<1>1. SubSeq(s, 1, n) \in Path
  BY DEF Path
<1>2. Len(SubSeq(s, 1, n)) = n
  BY DEF Path
<1>3. \A i \in 1 .. n : SubSeq(s, 1, n)[i] = s[i]
  BY DEF Path
<1> QED
  BY <1>1, <1>2, <1>3

LEMMA LastOfPath ==
  ASSUME NEW path \in Path, path # <<>>
  PROVE  /\ Front(path) \in Path /\ Last(path) \in Name
         /\ path = Append(Front(path), Last(path))
         /\ Len(path) \in Nat \ {0} /\ Len(Front(path)) = Len(path) - 1
         /\ Last(path) = path[Len(path)]
         /\ \A i \in 1 .. Len(path) - 1 : Front(path)[i] = path[i]
<1>1. Len(path) \in Nat \ {0}
  BY DEF Path
<1>2. path \in Seq(Name) /\ Len(path) - 1 \in 0 .. Len(path)
  BY <1>1 DEF Path
<1>3. /\ Front(path) \in Seq(Name) /\ Len(Front(path)) = Len(path) - 1
      /\ \A i \in 1 .. Len(path) - 1 : Front(path)[i] = path[i]
  <2>1. Len(path) - 1 \in Nat /\ Len(path) - 1 <= Len(path)
    BY <1>1
  <2> QED
    BY <2>1, Prefix DEF Front, Path
<1>4. Last(path) = path[Len(path)] /\ Last(path) \in Name
  BY <1>1, <1>2 DEF Last
<1>5. path = Append(Front(path), Last(path))
  <2> DEFINE s == Append(Front(path), Last(path))
  <2>1. /\ s \in Seq(Name) /\ Len(s) = Len(path)
        /\ \A i \in 1 .. Len(path) : s[i] = path[i]
    BY <1>1, <1>3, <1>4
  <2> HIDE DEF s
  <2>2. s = path
    BY <1>2, <2>1
  <2> QED
    BY <2>2 DEF s
<1> QED
  BY <1>1, <1>3, <1>4, <1>5 DEF Path

(* A path is in \by-id if its directory is and its name is a byte, or if it is \by-id. *)
LEMMA ByIDBelow ==
  ASSUME NEW path \in Path, path # <<>>
  PROVE  IsByIDPath(path)
           <=> path = <<ByIdName>> \/ (IsByIDDirectory(Front(path)) /\ Last(path) \in Bytes)
<1>1. /\ Front(path) \in Path /\ Len(path) \in Nat \ {0} /\ Len(Front(path)) = Len(path) - 1
      /\ Last(path) = path[Len(path)]
      /\ \A i \in 1 .. Len(path) - 1 : Front(path)[i] = path[i]
      /\ Digits \in Nat \ {0}
  BY LastOfPath, BaseTypes
<1>2. CASE Len(path) = 1
  <2>1. path = <<path[1]>>
    BY <1>2 DEF Path
  <2>2. ~IsByIDDirectory(Front(path))
    BY <1>1, <1>2 DEF IsByIDDirectory, IsByIDPath
  <2>3. path = <<ByIdName>> <=> path[1] = ByIdName
    BY <2>1
  <2> QED
    BY <1>1, <1>2, <2>2, <2>3 DEF IsByIDPath
<1>3. CASE Len(path) > 1
  <2>1. path # <<ByIdName>>
    <3>1. path = <<ByIdName>> => Len(path) = 1
      OBVIOUS
    <3>2. Len(path) # 1
      BY <1>1, <1>3
    <3> QED
      BY <3>1, <3>2
  <2>2. IsByIDPath(path) => IsByIDDirectory(Front(path)) /\ Last(path) \in Bytes
    BY <1>1, <1>3 DEF IsByIDPath, IsByIDDirectory
  <2>3. IsByIDDirectory(Front(path)) /\ Last(path) \in Bytes => IsByIDPath(path)
    BY <1>1, <1>3 DEF IsByIDPath, IsByIDDirectory
  <2> QED
    BY <2>1, <2>2, <2>3
<1> QED
  BY <1>1, <1>2, <1>3

LEMMA LookupKept ==
  ASSUME QueryInv, LookupAgreesWithListing, [LookupNext]_lookupVars
  PROVE  LookupAgreesWithListing'
<1> USE DEF Answered, Ok, FileNotFound
<1>1. CASE reply' = reply
  BY <1>1 DEF LookupAgreesWithListing
<1>2. CASE reply' = NoReply
  BY <1>2 DEF LookupAgreesWithListing
<1>3. CASE AnswerFileData
  <2>1. reply'.op = "getFileData"
    BY <1>3 DEF AnswerFileData
  <2> QED
    BY <2>1 DEF LookupAgreesWithListing
<1>4. CASE AnswerPlaceholderInfo
  <2> DEFINE path == query.path
             first == query.cursor.firstID
             directory == Front(path)
             name == Last(path)
  <2>1. /\ query \in Query /\ Parsed(path, query.cursor) /\ path \in Path
        /\ query.byID <=> IsByIDPath(path)
        /\ query.byID => query.cursor.next = Len(path) + 1
    BY <1>4, LookupAssumption DEF AnswerPlaceholderInfo, QueryInv, Query
  <2>2. /\ reply'.path = path /\ reply'.status = PlaceholderStatus
        /\ reply'.info = IF PlaceholderStatus = Ok THEN PlaceholderInfo ELSE NoReply
    BY <1>4 DEF AnswerPlaceholderInfo
  <2>3. SUFFICES ASSUME path # <<>>
        PROVE IF Unlisted(directory, name)
              THEN PlaceholderStatus = Ok <=> path \in DOMAIN Inodes
              ELSE /\ PlaceholderStatus = Ok <=>
                        name \in EntryNames(directory) /\ DOMAIN m_files # {}
                   /\ PlaceholderStatus = Ok => PlaceholderInfo = EntryInfo(directory, name)
    BY <2>2 DEF LookupAgreesWithListing
  <2>4. /\ path = Append(directory, name) /\ name \in Name /\ Len(path) \in Nat \ {0}
        /\ Len(directory) = Len(path) - 1 /\ directory \in Path
        /\ IsByIDPath(path)
             <=> path = <<ByIdName>> \/ (IsByIDDirectory(directory) /\ name \in Bytes)
    BY <2>1, <2>3, LastOfPath, ByIDBelow
  <2> HIDE DEF directory, name
  <2>5. CASE IsByIDPath(path)
    <3>1. /\ query.byID
          /\ IsRange(query.cursor) <=> Len(path) <= Digits
          /\ RangeEmpty(query.cursor) <=> FilesUnder(path) = {}
          /\ ~IsRange(query.cursor) => FilesUnder(path) = {first} \cap DOMAIN m_files
      BY <2>1, <2>5, RangeOfPath
    <3>2. PlaceholderStatus = Ok <=> FilesUnder(path) # {}
      BY <3>1 DEF PlaceholderStatus
    <3>3. PlaceholderStatus = Ok => PlaceholderInfo = ByIdInfo(path)
      <4>1. CASE Len(path) <= Digits
        <5>1. Len(path) # Digits + 1
          BY <2>4, <4>1, BaseTypes
        <5> QED
          BY <3>1, <4>1, <5>1 DEF PlaceholderInfo, ByIdInfo
      <4>2. CASE ~(Len(path) <= Digits)
        <5>1. Len(path) = Digits + 1
          BY <2>4, <2>5, <4>2, BaseTypes DEF IsByIDPath
        <5>2. FilesUnder(path) # {} => FilesUnder(path) = {first}
          BY <3>1, <4>2
        <5> QED
          BY <3>1, <3>2, <4>2, <5>1, <5>2 DEF PlaceholderInfo, ByIdInfo
      <4> QED
        BY <4>1, <4>2
    <3>4. FilesUnder(path) \subseteq DOMAIN m_files
      BY DEF FilesUnder
    <3>5. CASE IsByIDDirectory(directory) /\ name \in Bytes
      BY <2>4, <3>2, <3>3, <3>4, <3>5 DEF Unlisted, EntryNames, EntryInfo
    <3>6. CASE path = <<ByIdName>>
      <4>1. Len(path) = 1 /\ path[1] = ByIdName
        BY <3>6
      <4>2. ~IsByIDDirectory(directory)
        BY <2>4, <4>1 DEF IsByIDDirectory, IsByIDPath
      <4>3. FilesUnder(path) = DOMAIN m_files
        BY <4>1, FilesTypes DEF FilesUnder, KeysUnder
      <4>4. name \in EntryNames(directory)
        BY <2>4, <3>6, <4>2, TreeAssumption DEF EntryNames, Children
      <4>5. EntryInfo(directory, name) = DirectoryInfo
        BY <2>4, <3>6, <4>2, TreeAssumption DEF EntryInfo
      <4>6. ByIdInfo(path) = DirectoryInfo
        BY <4>1, BaseTypes DEF ByIdInfo
      <4> QED
        BY <3>2, <3>3, <4>2, <4>3, <4>4, <4>5, <4>6 DEF Unlisted
    <3> QED
      BY <2>4, <2>5, <3>5, <3>6
  <2>6. CASE ~IsByIDPath(path)
    <3>1. ~query.byID
      BY <2>1, <2>6
    <3>2. PlaceholderStatus = Ok <=> path \in DOMAIN Inodes
      BY <3>1 DEF PlaceholderStatus
    <3>3. CASE IsByIDDirectory(directory)
      <4>1. Unlisted(directory, name)
        BY <2>4, <2>6, <3>3 DEF Unlisted
      <4> QED
        BY <3>2, <4>1
    <3>4. CASE ~IsByIDDirectory(directory)
      <4>1. name \in EntryNames(directory) <=> path \in DOMAIN Inodes
        BY <2>4, <3>4 DEF EntryNames, Children
      <4>2. PlaceholderInfo = EntryInfo(directory, name)
        BY <2>4, <3>1, <3>4 DEF PlaceholderInfo, EntryInfo
      <4>3. ASSUME DOMAIN m_files = {} PROVE path \notin DOMAIN Inodes
        <5>1. path # <<>> /\ path # <<ByIdName>>
          BY <2>3, <2>4, <2>6
        <5>2. ASSUME NEW n \in Name, path = <<ByIdName, n>> PROVE FALSE
          <6>1. Len(path) = 2 /\ path[1] = ByIdName
            BY <5>2
          <6>2. directory[1] = ByIdName /\ Len(directory) = 1
            BY <2>1, <2>3, <2>4, <6>1, LastOfPath DEF directory
          <6> QED
            BY <3>4, <6>2, BaseTypes DEF IsByIDDirectory, IsByIDPath
        <5> QED
          BY <4>3, <5>1, <5>2, TreeAssumption
      <4> QED
        BY <3>2, <3>4, <4>1, <4>2, <4>3 DEF Unlisted
    <3> QED
      BY <3>3, <3>4
  <2> QED
    BY <2>5, <2>6
<1> QED
  BY <1>1, <1>2, <1>3, <1>4
  DEF LookupNext, lookupVars, GetPlaceholderInfo, GetFileData, Call, ParsePart

(* A name opens exactly when the listing of its directory shows it, and as what      *)
(* the listing shows: the ranges of the lookups and the digits of the keys agree.    *)
THEOREM LookupsAgree == LookupSpec => []LookupAgreesWithListing
<1>1. LookupInit => QueryInv /\ LookupAgreesWithListing
  BY DEF LookupInit, QueryInv, LookupAgreesWithListing, Answered
<1>2. QueryInv /\ LookupAgreesWithListing /\ [LookupNext]_lookupVars
        => QueryInv' /\ LookupAgreesWithListing'
  BY QueryInvKept, LookupKept
<1> QED
  BY <1>1, <1>2, PTL DEF LookupSpec

-----------------------------------------------------------------------------
(* Listings and lookups together.                                           *)

LEMMA FrontOfAppend ==
  ASSUME NEW path \in Path, NEW name \in Name
  PROVE  /\ Append(path, name) # <<>>
         /\ Front(Append(path, name)) = path
         /\ Last(Append(path, name)) = name
<1> DEFINE whole == Append(path, name)
<1>1. /\ whole \in Path /\ Len(whole) = Len(path) + 1 /\ Len(path) \in Nat
      /\ whole[Len(path) + 1] = name /\ \A i \in 1 .. Len(path) : whole[i] = path[i]
  BY DEF Path
<1> HIDE DEF whole
<1>2. whole # <<>>
  BY <1>1
<1>3. Front(whole) \in Path /\ Len(Front(whole)) = Len(path)
      /\ \A i \in 1 .. Len(path) : Front(whole)[i] = path[i]
  <2>1. Len(whole) - 1 = Len(path)
    BY <1>1
  <2> QED
    BY <1>1, <1>2, <2>1, LastOfPath
<1>4. Front(whole) = path
  BY <1>3 DEF Path
<1>5. Last(whole) = name
  BY <1>1, <1>2, LastOfPath
<1> QED
  BY <1>2, <1>4, <1>5 DEF whole

(* An entry that a caller was given in a listing opens under its name, as what the *)
(* entry says; and a name that opens is in the listing once that has ended, unless  *)
(* the search expression or the placeholder of \by-id keeps it out.  (A mount of no  *)
(* files lists by-id and cannot open it; WrapsAround is as in ListingExact.)         *)
OpensAsListed ==
  \A g \in Guids :
    (/\ session[g] # "closed" /\ ~WrapsAround(scan[g].path)
     /\ DOMAIN m_files # {} /\ Answered("getPlaceholderInfo"))
    => /\ \A entry \in scan[g].got :
            reply.path = Append(scan[g].path, entry.name)
              => reply.status = Ok /\ reply.info = entry.info
       /\ \A name \in Name :
            (/\ scan[g].ended /\ Matches(scan[g].expression, name)
             /\ ~Unlisted(scan[g].path, name)
             /\ reply.path = Append(scan[g].path, name) /\ reply.status = Ok)
            => [name |-> name, info |-> reply.info] \in scan[g].got

(* While directories are listed and paths are looked up in any interleaving, what  *)
(* getDirectoryEnumeration shows is what getPlaceholderInfo opens, and the other     *)
(* way round.                                                               *)
THEOREM ListedNamesOpen == Spec /\ LookupSpec => []OpensAsListed
<1>1. TypeOK /\ ListingExact /\ LookupAgreesWithListing => OpensAsListed
  <2> SUFFICES ASSUME TypeOK, ListingExact, LookupAgreesWithListing PROVE OpensAsListed
    OBVIOUS
  <2> DEFINE path(g) == scan[g].path
             expression(g) == scan[g].expression
  <2>1. SUFFICES ASSUME NEW g \in Guids, session[g] # "closed", ~WrapsAround(path(g)),
                        DOMAIN m_files # {}, Answered("getPlaceholderInfo")
        PROVE /\ \A entry \in scan[g].got :
                   reply.path = Append(path(g), entry.name)
                     => reply.status = Ok /\ reply.info = entry.info
              /\ \A name \in Name :
                   (/\ scan[g].ended /\ Matches(expression(g), name) /\ ~Unlisted(path(g), name)
                    /\ reply.path = Append(path(g), name) /\ reply.status = Ok)
                   => [name |-> name, info |-> reply.info] \in scan[g].got
    BY DEF OpensAsListed
  <2>2. /\ path(g) \in Path /\ scan[g].got \subseteq Wanted(path(g), expression(g))
        /\ (scan[g].ended => scan[g].got = Wanted(path(g), expression(g)))
    BY <2>1, CallerAssumption DEF TypeOK, Scan, ListingExact
  <2> DEFINE Agrees(name) ==
               IF Unlisted(path(g), name) THEN reply.status = Ok <=> reply.path \in DOMAIN Inodes
               ELSE /\ reply.status = Ok <=> name \in EntryNames(path(g)) /\ DOMAIN m_files # {}
                    /\ reply.status = Ok => reply.info = EntryInfo(path(g), name)
  <2>3. ASSUME NEW name \in Name, reply.path = Append(path(g), name) PROVE Agrees(name)
    <3>1. /\ reply.path # <<>> /\ Front(reply.path) = path(g) /\ Last(reply.path) = name
      BY <2>2, <2>3, FrontOfAppend
    <3> QED
      BY <2>1, <3>1 DEF LookupAgreesWithListing
  <2>4. ASSUME NEW entry \in scan[g].got, reply.path = Append(path(g), entry.name)
        PROVE  reply.status = Ok /\ reply.info = entry.info
    <3>1. /\ entry.name \in EntryNames(path(g)) /\ entry.name \in Name
          /\ entry.info = EntryInfo(path(g), entry.name)
      <4>1. PICK name \in EntryNames(path(g)) :
              entry = [name |-> name, info |-> EntryInfo(path(g), name)]
        BY <2>2, <2>4 DEF Wanted, Contents
      <4>2. name \in Name
        BY <4>1, NameAssumption DEF EntryNames, Children
      <4> QED
        BY <4>1, <4>2
    <3>2. ~Unlisted(path(g), entry.name)
      BY <3>1 DEF Unlisted, EntryNames
    <3> QED
      BY <2>1, <2>3, <2>4, <3>1, <3>2
  <2>5. ASSUME NEW name \in Name, scan[g].ended, Matches(expression(g), name),
               ~Unlisted(path(g), name), reply.path = Append(path(g), name),
               reply.status = Ok
        PROVE  [name |-> name, info |-> reply.info] \in scan[g].got
    <3>1. name \in EntryNames(path(g)) /\ reply.info = EntryInfo(path(g), name)
      BY <2>3, <2>5
    <3>2. [name |-> name, info |-> reply.info] \in Wanted(path(g), expression(g))
      BY <2>5, <3>1 DEF Wanted, Contents
    <3> QED
      BY <2>2, <2>5, <3>2
  <2> QED
    BY <2>4, <2>5
<1> QED
  BY <1>1, TypeCorrect, ListingIsExact, LookupsAgree, PTL
=============================================================================
