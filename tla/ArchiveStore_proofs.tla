------------------------ MODULE ArchiveStore_proofs ------------------------
(***************************************************************************)
(* Proofs about ArchiveStore, for any keys and manifests, whatever is on disk   *)
(* within ArchiveStoreAssumption, and however many archives are added.          *)
(***************************************************************************)
EXTENDS ArchiveStore, TLAPS

-----------------------------------------------------------------------------
(* The shapes of the variables.                                             *)

Sizes == UNION {[D -> Nat] : D \in SUBSET Key}
Archive == [manifest : Manifest, open : Nat, cachedSize : Sizes, precise : BOOLEAN]
Data == [is : {"stored", "content", "garbage"}, size : Nat]
Call == [pc : {"find", "read", "detect", "decompress", "check", "return"}, key : Key,
         archive : Nat, data : Data \cup {<<>>}, isOodle : BOOLEAN]
Adding == [do : {"add"}, archive : Archive]
Tasks == {Idle, [do |-> "read"], [do |-> "table"]} \cup Adding

Shapes ==
  /\ disk \in Disks
  /\ installed \in BOOLEAN /\ oodle \in {FALSE, installed}
  /\ archives \in Seq(Archive)
  /\ task \in Tasks
  /\ \/ call = NoCall /\ (task = Idle \/ task \in Adding)
     \/ call \in Call /\ task # Idle

FilesOf(a) == disk[a.manifest].files

\* What the content of a file that was read tells of the file: nothing stands in
\* the way of reading it again, unless it is a single byte.
Passed(e) ==
  /\ e.damage = "none"
  /\ e.compressionType \in {"None", "Deflate", "Snappy"}
  /\ e.compressionType = "None" /\ e.begins # "oodle" => e.compressedSize = e.uncompressedSize
  /\ e.begins = "oodle" => oodle
  /\ e.compressedSize # 0
  /\ ~(e.begins = "magic" /\ e.compressedSize > 1)
Verified(a, k) == Passed(FilesOf(a)[k]) /\ (Signed(a) => FilesOf(a)[k].verifies)
SizeWithout(a, e) == e.uncompressedSize - (IF Signed(a) THEN e.signature ELSE 0)

\* Sizes are kept for files of archives with signatures only, and are those of the
\* manifest or, with precise sizes, of what was read.
SizesKnown(a) ==
  /\ DOMAIN a.cachedSize \subseteq (IF Signed(a) THEN DOMAIN FilesOf(a) ELSE {})
  /\ \A k \in DOMAIN a.cachedSize :
       /\ ~a.precise => a.cachedSize[k] = FilesOf(a)[k].uncompressedSize
       /\ a.precise => a.cachedSize[k] = SizeWithout(a, FilesOf(a)[k]) /\ Verified(a, k)
Complete(a) ==
  /\ a.open = Len(disk[a.manifest].dataFiles)
  /\ DOMAIN a.cachedSize = IF Signed(a) THEN DOMAIN FilesOf(a) ELSE {}

Store ==
  /\ \A i \in DOMAIN archives : Complete(archives[i]) /\ SizesKnown(archives[i])
  /\ task \in Adding => SizesKnown(task.archive)

\* Where the running call is: past the search, at the first archive that holds the
\* key, or in the archive that is being constructed.
NoneBefore(i, k) == \A j \in DOMAIN archives : j < i => k \notin DOMAIN FilesOf(archives[j])
Place ==
  /\ At("find") => /\ task \notin Adding
                   /\ call.archive \in 1 .. Len(archives) + 1
                   /\ NoneBefore(call.archive, call.key)
  /\ call # NoCall /\ ~At("find") =>
       /\ call.key \in DOMAIN Files
       /\ task \notin Adding => call.archive \in DOMAIN archives
                                /\ NoneBefore(call.archive, call.key)
       /\ task \in Adding => Signed(task.archive) /\ task.archive.precise

\* The data that the running call has in hand, step by step.
Spoilt(e) ==
  \/ e.damage # "none"
  \/ e.begins = "magic" /\ e.compressedSize > 1
  \/ e.begins = "half" /\ e.compressedSize = 1

Detecting ==
  /\ call.data \in Data
  /\ call.data.is = IF Entry.damage = "none" THEN "stored" ELSE "garbage"
  /\ Entry.damage \in {"none", "corrupt"}
  /\ call.data.size = Entry.compressedSize
Decompressing ==
  /\ call.data \in Data
  /\ Entry.compressedSize # 0
  /\ call.isOodle => call.data.size = Entry.uncompressedSize /\ call.data.is # "stored" /\ oodle
  /\ ~call.isOodle => /\ call.data.size = Entry.compressedSize /\ call.data.is # "content"
                      /\ Entry.begins = "oodle" => Entry.damage # "none"
  /\ call.data.is = "content" => Entry.begins = "oodle"
  /\ IF call.data.is = "garbage" THEN Spoilt(Entry)
     ELSE Entry.damage = "none" /\ ~(Entry.begins = "magic" /\ Entry.compressedSize > 1)
Checking ==
  /\ call.data \in Data
  /\ call.data.size = Entry.uncompressedSize
  /\ \/ call.data.is = "content" /\ Passed(Entry)
     \/ call.data.is = "garbage" /\ Spoilt(Entry)
Returning ==
  /\ call.data = [is |-> "content", size |-> SizeWithout(Here, Entry)]
  /\ Verified(Here, call.key)
InHand ==
  /\ At("detect") => Detecting
  /\ At("decompress") => Decompressing
  /\ At("check") => Checking
  /\ At("return") => Returning

Results == ReadIsExact /\ SizesAgree /\ MountedFilesRead

IInv == Shapes /\ Store /\ Place /\ InHand

(* The invariant gives the types.                                            *)
LEMMA InvariantTypes == IInv => TypeOK
  BY DEF IInv, Shapes, Store, Place, TypeOK, Complete, FilesOf, Call, Tasks, Idle, NoCall, At, Files

LEMMA EmptySizes == <<>> \in Sizes /\ DOMAIN <<>> = {}
<1>1. <<>> \in [{} -> Nat]
  OBVIOUS
<1> QED
  BY <1>1 DEF Sizes

LEMMA MoreSizes ==
  ASSUME NEW a \in Archive, NEW k \in Key, NEW n \in Nat
  PROVE  LET b == WithSize(a, k, n) IN
         /\ b \in Archive
         /\ b.manifest = a.manifest /\ b.open = a.open /\ b.precise = a.precise
         /\ DOMAIN b.cachedSize = DOMAIN a.cachedSize \cup {k}
         /\ \A j \in DOMAIN b.cachedSize : b.cachedSize[j] = IF j = k THEN n ELSE a.cachedSize[j]
<1> DEFINE g == [j \in DOMAIN a.cachedSize \cup {k} |-> IF j = k THEN n ELSE a.cachedSize[j]]
<1>1. PICK D \in SUBSET Key : a.cachedSize \in [D -> Nat]
  BY DEF Sizes, Archive
<1>2. g \in [D \cup {k} -> Nat] /\ D \cup {k} \in SUBSET Key
  BY <1>1
<1>3. g \in Sizes
  BY <1>2 DEF Sizes
<1>4. WithSize(a, k, n) = [manifest |-> a.manifest, open |-> a.open,
                           cachedSize |-> g, precise |-> a.precise]
  BY DEF WithSize, Archive
<1> HIDE DEF g
<1>5. /\ DOMAIN g = DOMAIN a.cachedSize \cup {k}
      /\ \A j \in DOMAIN g : g[j] = IF j = k THEN n ELSE a.cachedSize[j]
  BY DEF g
<1> QED
  BY <1>3, <1>4, <1>5 DEF Archive
-----------------------------------------------------------------------------
(* What the disk holds, and which file the running call reads.                *)

EntryOK(e) ==
  /\ e.uncompressedSize \in Nat /\ e.compressedSize \in Nat /\ e.signature \in Nat
  /\ e.signature <= e.uncompressedSize
  /\ e.damage \in {"none", "unreadable", "short", "corrupt"}
  /\ e.begins \in {"oodle", "magic", "half", "other"}
  /\ e.begins = "oodle" => e.compressionType = "None" /\ e.compressedSize > 1

LEMMA EntryTypes ==
  ASSUME disk \in Disks, NEW a \in Archive, NEW k \in DOMAIN FilesOf(a)
  PROVE  k \in Key /\ EntryOK(FilesOf(a)[k])
  BY ArchiveStoreAssumption DEF EntryOK, FilesOf, Archive

LEMMA CallTypes ==
  ASSUME Shapes, Place, call # NoCall, ~At("find")
  PROVE  /\ Here \in Archive
         /\ call \in Call
         /\ Files = FilesOf(Here)
         /\ call.key \in DOMAIN Files
         /\ EntryOK(Entry)
<1>1. call \in Call /\ Files = FilesOf(Here) /\ call.key \in DOMAIN Files
  BY DEF Shapes, Place, Files, FilesOf
<1>2. Here \in Archive
  <2>1. CASE task \in Adding
    BY <2>1 DEF Here, Adding
  <2>2. CASE task \notin Adding
    <3>1. task.do # "add" /\ call.archive \in DOMAIN archives
      BY <2>2 DEF Shapes, Place, Tasks, Idle
    <3> QED
      BY <3>1 DEF Shapes, Here
  <2> QED
    BY <2>1, <2>2
<1> QED
  BY <1>1, <1>2, EntryTypes DEF Entry, Shapes

LEMMA KnownUnchanged ==
  ASSUME UNCHANGED <<disk, oodle>>
  PROVE  \A a : (Complete(a) => Complete(a)') /\ (SizesKnown(a) => SizesKnown(a)')
  BY DEF Complete, SizesKnown, Verified, Passed, SizeWithout, Signed, FilesOf

LEMMA StoreUnchanged ==
  ASSUME Store, UNCHANGED <<disk, oodle, archives>>, task' = task \/ task' \notin Adding
  PROVE  Store'
  BY KnownUnchanged DEF Store

(* After a call has ended, and between two calls, there is nothing to say of one. *)
LEMMA BetweenCalls ==
  ASSUME call' = NoCall
  PROVE  Place' /\ InHand'
  BY DEF Place, InHand, At, NoCall

LEMMA EndsKeeps ==
  ASSUME IInv, NEW o, Ends(o), Environment
  PROVE  IInv'
<1>1. Shapes'
  BY DEF IInv, Shapes, Ends, Environment, Tasks
<1>2. task' \notin Adding
  BY DEF Ends, Idle, Adding
<1> QED
  BY <1>1, <1>2, StoreUnchanged, BetweenCalls DEF IInv, Ends, Environment

LEMMA AddFailsKeeps ==
  ASSUME IInv, AddFails, Environment, call = NoCall
  PROVE  IInv'
<1>1. Shapes'
  BY DEF IInv, Shapes, AddFails, Environment, Tasks
<1>2. task' \notin Adding
  BY DEF AddFails, Idle, Adding
<1> QED
  BY <1>1, <1>2, StoreUnchanged, BetweenCalls DEF IInv, AddFails, Environment

-----------------------------------------------------------------------------
(* Oodle, and the steps of adding a manifest.                                *)

LEMMA LoadOodleLibKeeps == ASSUME IInv, LoadOodleLib PROVE IInv'
<1>1. task = Idle /\ call = NoCall /\ call' = NoCall
  BY DEF IInv, Shapes, LoadOodleLib, Free, Tasks, Idle, Adding, Call, NoCall
<1>2. Shapes'
  BY <1>1 DEF IInv, Shapes, LoadOodleLib
<1>3. Store'
  <2>1. oodle => oodle'
    BY DEF LoadOodleLib, IInv, Shapes
  <2>2. \A a, k : Verified(a, k) => Verified(a, k)'
    BY <2>1 DEF Verified, Passed, Signed, FilesOf, LoadOodleLib
  <2> QED
    BY <2>2 DEF IInv, Store, Complete, SizesKnown, SizeWithout, Signed, FilesOf, LoadOodleLib
<1> QED
  BY <1>1, <1>2, <1>3, BetweenCalls DEF IInv

LEMMA AddManifestKeeps == ASSUME IInv, AddManifest PROVE IInv'
<1>1. task = Idle /\ call = NoCall
  BY DEF IInv, Shapes, AddManifest, Free, Tasks, Idle, Adding, Call, NoCall
<1>2. PICK m \in Manifest, precise \in BOOLEAN :
        LET a == [manifest |-> m, open |-> 0, cachedSize |-> <<>>, precise |-> precise] IN
        IF disk[m].readable
        THEN task' = [do |-> "add", archive |-> a]
             /\ UNCHANGED <<archives, fileTables, call, result>>
        ELSE AddFails
  BY DEF AddManifest, StoreAtFirst
<1>3. CASE AddFails
  BY <1>1, <1>3, AddFailsKeeps DEF AddManifest
<1>4. CASE ~AddFails
  <2> DEFINE a == [manifest |-> m, open |-> 0, cachedSize |-> <<>>, precise |-> precise]
  <2>1. task' = [do |-> "add", archive |-> a] /\ UNCHANGED <<archives, call>>
    BY <1>2, <1>4
  <2>2. a \in Archive
    BY EmptySizes DEF Archive
  <2>3. task' \in Adding /\ task'.archive = a
    BY <2>1, <2>2 DEF Adding
  <2>4. Shapes'
    BY <1>1, <2>1, <2>3 DEF IInv, Shapes, AddManifest, Environment, Tasks
  <2>5. Store'
    <3>1. SizesKnown(a)'
      BY EmptySizes DEF SizesKnown
    <3>2. \A i \in DOMAIN archives : (Complete(archives[i]) /\ SizesKnown(archives[i]))'
      BY <2>1, KnownUnchanged DEF AddManifest, Environment, IInv, Store
    <3> QED
      BY <2>1, <2>3, <3>1, <3>2 DEF Store
  <2> QED
    BY <1>1, <2>1, <2>4, <2>5, BetweenCalls DEF IInv
<1> QED
  BY <1>3, <1>4

LEMMA OpenDataFileKeeps == ASSUME IInv, OpenDataFile PROVE IInv'
<1>1. call = NoCall /\ task \in Adding
  BY DEF OpenDataFile, IInv, Shapes, Tasks, Idle
<1>2. CASE AddFails
  BY <1>1, <1>2, AddFailsKeeps DEF OpenDataFile
<1>3. CASE ~AddFails
  <2> DEFINE a == [task.archive EXCEPT !.open = @ + 1]
  <2>1. task' = [task EXCEPT !.archive.open = @ + 1] /\ UNCHANGED <<archives, call>>
    BY <1>3 DEF OpenDataFile
  <2>2. task' = [do |-> "add", archive |-> a] /\ a \in Archive
    BY <1>1, <2>1 DEF Adding, Archive
  <2>3. task' \in Adding /\ task'.archive = a
    BY <2>2 DEF Adding
  <2>4. Shapes'
    BY <1>1, <2>1, <2>3 DEF IInv, Shapes, OpenDataFile, Environment, Tasks
  <2>5. Store'
    <3>1. /\ a.manifest = task.archive.manifest /\ a.precise = task.archive.precise
          /\ a.cachedSize = task.archive.cachedSize
      BY <1>1 DEF Adding, Archive
    <3>2. SizesKnown(a)
      BY <1>1, <3>1 DEF IInv, Store, SizesKnown, Verified, SizeWithout, Signed, FilesOf
    <3>3. SizesKnown(task.archive)'
      BY <2>3, <3>2, KnownUnchanged DEF OpenDataFile, Environment
    <3> QED
      BY <2>1, <3>3, KnownUnchanged DEF IInv, Store, OpenDataFile, Environment
  <2> QED
    BY <1>1, <2>1, <2>4, <2>5, BetweenCalls DEF IInv
<1> QED
  BY <1>2, <1>3

(* A size becomes known: the file is not in the cache yet, and all that is known  *)
(* of other files stays known.                                               *)
LEMMA SizeBecomesKnown ==
  ASSUME IInv, Environment, task \in Adding, Signed(task.archive),
         NEW k \in DOMAIN FilesOf(task.archive), NEW n \in Nat,
         task.archive.precise => n = SizeWithout(task.archive, FilesOf(task.archive)[k])
                                 /\ Verified(task.archive, k),
         ~task.archive.precise => n = FilesOf(task.archive)[k].uncompressedSize,
         task' = [task EXCEPT !.archive = WithSize(@, k, n)],
         call' = NoCall, archives' = archives
  PROVE  IInv'
<1> DEFINE a == WithSize(task.archive, k, n)
<1>0. task.archive \in Archive /\ k \in Key
  BY EntryTypes DEF IInv, Shapes, Adding
<1>1. task' = [do |-> "add", archive |-> a]
  BY DEF Adding
<1>2. /\ a \in Archive
      /\ a.manifest = task.archive.manifest /\ a.precise = task.archive.precise
      /\ DOMAIN a.cachedSize = DOMAIN task.archive.cachedSize \cup {k}
      /\ \A j \in DOMAIN a.cachedSize :
           a.cachedSize[j] = IF j = k THEN n ELSE task.archive.cachedSize[j]
  BY <1>0, MoreSizes
<1> HIDE DEF a
<1>3. task' \in Adding /\ task'.archive = a
  BY <1>1, <1>2 DEF Adding
<1>4. Shapes'
  BY <1>3 DEF IInv, Shapes, Environment, Tasks
<1>5. SizesKnown(a)
  <2>1. SizesKnown(task.archive)
    BY DEF IInv, Store
  <2>2. FilesOf(a) = FilesOf(task.archive) /\ Signed(a) = Signed(task.archive)
    BY <1>2 DEF FilesOf, Signed
  <2>3. DOMAIN a.cachedSize \subseteq (IF Signed(a) THEN DOMAIN FilesOf(a) ELSE {})
    BY <1>2, <2>1, <2>2 DEF SizesKnown
  <2>4. ASSUME NEW j \in DOMAIN a.cachedSize
        PROVE  /\ ~a.precise => a.cachedSize[j] = FilesOf(a)[j].uncompressedSize
               /\ a.precise => a.cachedSize[j] = SizeWithout(a, FilesOf(a)[j]) /\ Verified(a, j)
    <3>1. Verified(a, j) <=> Verified(task.archive, j)
      BY <2>2 DEF Verified
    <3>2. SizeWithout(a, FilesOf(a)[j]) = SizeWithout(task.archive, FilesOf(task.archive)[j])
      BY <2>2 DEF SizeWithout
    <3> QED
      BY <1>2, <2>1, <2>2, <3>1, <3>2 DEF SizesKnown
  <2> QED
    BY <2>3, <2>4 DEF SizesKnown
<1>6. Store'
  <2>1. SizesKnown(task.archive)'
    BY <1>3, <1>5, KnownUnchanged DEF Environment
  <2> QED
    BY <2>1, KnownUnchanged DEF IInv, Store, Environment
<1> QED
  BY <1>4, <1>6, BetweenCalls DEF IInv

LEMMA SizeByManifestKeeps == ASSUME IInv, SizeByManifest PROVE IInv'
<1>1. task \in Adding /\ call' = NoCall
  BY DEF SizeByManifest, AllOpen, IInv, Shapes, Tasks, Idle
<1>2. PICK k \in Unsized :
        task' = [task EXCEPT !.archive =
                   WithSize(@, k, disk[task.archive.manifest].files[k].uncompressedSize)]
  BY DEF SizeByManifest
<1>3. k \in DOMAIN FilesOf(task.archive)
  BY DEF Unsized, FilesOf
<1>4. FilesOf(task.archive)[k].uncompressedSize \in Nat
  BY <1>1, <1>3, EntryTypes DEF IInv, Shapes, Adding, EntryOK
<1> QED
  BY <1>1, <1>2, <1>3, <1>4, SizeBecomesKnown DEF SizeByManifest, FilesOf

LEMMA StoreArchiveKeeps == ASSUME IInv, StoreArchive PROVE IInv'
<1>1. call = NoCall /\ task \in Adding /\ task.archive \in Archive
  BY DEF StoreArchive, AllOpen, IInv, Shapes, Tasks, Idle, Adding
<1>2. Complete(task.archive) /\ SizesKnown(task.archive)
  <2>1. SizesKnown(task.archive)
    BY <1>1 DEF IInv, Store
  <2>2. Signed(task.archive) => DOMAIN FilesOf(task.archive) \subseteq DOMAIN task.archive.cachedSize
    BY DEF StoreArchive, Unsized, FilesOf
  <2> QED
    BY <2>1, <2>2 DEF StoreArchive, AllOpen, Complete, SizesKnown
<1>3. /\ archives' \in Seq(Archive)
      /\ \A i \in DOMAIN archives' :
           \/ i \in DOMAIN archives /\ archives'[i] = archives[i]
           \/ archives'[i] = task.archive
  BY <1>1 DEF StoreArchive, IInv, Shapes
<1>4. Shapes'
  BY <1>1, <1>3 DEF IInv, Shapes, StoreArchive, Environment, Tasks
<1>5. Store'
  <2>1. task' \notin Adding
    BY DEF StoreArchive, Idle, Adding
  <2>2. \A i \in DOMAIN archives' : Complete(archives'[i]) /\ SizesKnown(archives'[i])
    BY <1>2, <1>3 DEF IInv, Store
  <2>3. UNCHANGED <<disk, oodle>>
    BY DEF StoreArchive, Environment
  <2>4. \A i \in DOMAIN archives' : (Complete(archives[i]) /\ SizesKnown(archives[i]))'
    BY <2>2, <2>3, KnownUnchanged
  <2> QED
    BY <2>1, <2>4 DEF Store
<1> QED
  BY <1>1, <1>4, <1>5, BetweenCalls DEF IInv, StoreArchive

-----------------------------------------------------------------------------
(* The steps of a call.                                                     *)

LEMMA ReadFileByKeyKeeps == ASSUME IInv, ReadFileByKey PROVE IInv'
<1>1. PICK k \in Key, do \in {"read", "table"} :
        /\ task' = [do |-> do]
        /\ call' = [pc |-> "find", key |-> k, archive |-> 1, data |-> <<>>, isOodle |-> FALSE]
  BY DEF ReadFileByKey
<1>2. call' \in Call /\ call'.pc = "find" /\ call'.archive = 1 /\ call'.key = k
  BY <1>1 DEF Call
<1>3. task' \notin Adding /\ task' \in Tasks /\ task' # Idle
  <2>1. task'.do # "add" /\ task'.do # "nothing"
    BY <1>1
  <2> QED
    BY <1>1, <2>1 DEF Adding, Tasks, Idle
<1>4. Shapes'
  BY <1>2, <1>3 DEF IInv, Shapes, ReadFileByKey, Environment
<1>5. Place'
  <2>1. archives' \in Seq(Archive)
    BY DEF IInv, Shapes, ReadFileByKey
  <2> QED
    BY <1>2, <1>3, <2>1 DEF Place, At, NoneBefore
<1>6. InHand'
  BY <1>2 DEF InHand, At
<1> QED
  BY <1>3, <1>4, <1>5, <1>6, StoreUnchanged DEF IInv, ReadFileByKey, Environment

(* A step within a call that stays where it is.                               *)
LEMMA WithinCall ==
  ASSUME IInv, Steps, Environment, call # NoCall, ~At("find"),
         call' \in Call, call'.pc # "find",
         call'.key = call.key, call'.archive = call.archive
  PROVE  /\ Shapes' /\ Store' /\ Place'
         /\ Here' = Here /\ Entry' = Entry /\ Signed(Here)' = Signed(Here)
<1>1. task \in Tasks /\ task # Idle
  BY DEF IInv, Shapes
<1>2. Shapes'
  BY <1>1 DEF IInv, Shapes, Steps, Environment
<1>3. Here' = Here
  BY DEF Here, Steps
<1>4. Place'
  BY <1>3 DEF IInv, Place, At, Steps, Environment, Files, NoneBefore, FilesOf, Signed
<1> QED
  BY <1>2, <1>3, <1>4, StoreUnchanged DEF IInv, Steps, Environment, Entry, Files, Signed

LEMMA FindKeeps == ASSUME IInv, Find PROVE IInv'
<1>1. /\ call \in Call /\ call.pc = "find" /\ task \notin Adding
      /\ task \in Tasks /\ task # Idle /\ task.do # "add"
      /\ archives \in Seq(Archive)
      /\ call.archive \in 1 .. Len(archives) + 1
      /\ NoneBefore(call.archive, call.key)
  <2>1. call.pc = "find" /\ call # NoCall
    <3>1. call.pc = "find"
      BY Zenon DEF Find, At
    <3> QED
      BY <3>1 DEF NoCall
  <2>2. call \in Call /\ task # Idle /\ task \in Tasks /\ archives \in Seq(Archive)
    BY <2>1 DEF IInv, Shapes
  <2>3. task \notin Adding /\ call.archive \in 1 .. Len(archives) + 1
        /\ NoneBefore(call.archive, call.key)
    BY <2>1 DEF IInv, Place, At
  <2>4. task.do # "add"
    BY <2>2, <2>3 DEF Tasks
  <2> QED
    BY <2>1, <2>2, <2>3, <2>4
<1>2. CASE call.archive > Len(archives)
  BY <1>2, EndsKeeps DEF Find
<1>3. CASE ~(call.archive > Len(archives))
  <2> DEFINE here == archives[call.archive]
  <2>0. /\ Steps /\ Environment
        /\ call' = IF call.key \in DOMAIN FilesOf(here)
                   THEN [call EXCEPT !.pc = "read", !.archive = call.archive]
                   ELSE [call EXCEPT !.archive = call.archive + 1]
    BY <1>3, Zenon DEF Find, First, FilesOf
  <2>. call.archive \in DOMAIN archives
    BY <1>1, <1>3
  <2>1. CASE call.key \in DOMAIN FilesOf(here)
    <3>1. call' = [call EXCEPT !.pc = "read", !.archive = call.archive]
      BY <2>0, <2>1
    <3>2. /\ call' \in Call /\ call'.pc = "read"
          /\ call'.key = call.key /\ call'.archive = call.archive
      BY <1>1, <3>1 DEF Call
    <3>3. Shapes'
      BY <1>1, <2>0, <3>2 DEF IInv, Shapes, Steps, Environment
    <3>4. Place'
      <4>1. Files' = FilesOf(here)
        BY <1>1, <2>0, <3>2 DEF Files, Here, FilesOf, Steps, Environment
      <4> QED
        BY <1>1, <2>0, <2>1, <3>2, <4>1 DEF Place, At, NoneBefore, FilesOf, Steps, Environment
    <3>5. InHand'
      BY <3>2 DEF InHand, At
    <3> QED
      BY <2>0, <3>3, <3>4, <3>5, StoreUnchanged DEF IInv, Steps, Environment
  <2>2. CASE call.key \notin DOMAIN FilesOf(here)
    <3>1. call' = [call EXCEPT !.archive = call.archive + 1]
      BY <2>0, <2>2
    <3>2. /\ call' \in Call /\ call'.pc = "find"
          /\ call'.key = call.key /\ call'.archive = call.archive + 1
      BY <1>1, <3>1 DEF Call
    <3>3. Shapes'
      BY <1>1, <2>0, <3>2 DEF IInv, Shapes, Steps, Environment
    <3>4. NoneBefore(call.archive + 1, call.key)
      BY <1>1, <2>2 DEF NoneBefore
    <3>5. Place'
      BY <1>1, <1>3, <2>0, <3>2, <3>4 DEF Place, At, NoneBefore, FilesOf, Steps, Environment
    <3>6. InHand'
      BY <3>2 DEF InHand, At
    <3> QED
      BY <2>0, <3>3, <3>5, <3>6, StoreUnchanged DEF IInv, Steps, Environment
  <2> QED
    BY <2>1, <2>2
<1> QED
  BY <1>1, <1>2, <1>3

LEMMA ReadStoredKeeps == ASSUME IInv, ReadStored PROVE IInv'
<1>0. call # NoCall /\ ~At("find") /\ call.pc = "read"
  BY DEF ReadStored, At, NoCall
<1>1. call \in Call /\ EntryOK(Entry)
  BY <1>0, CallTypes DEF IInv
<1>2. CASE Entry.damage \in {"unreadable", "short"}
  BY <1>2, EndsKeeps DEF ReadStored
<1>3. CASE Entry.damage \notin {"unreadable", "short"}
  <2> DEFINE data == [is |-> IF Entry.damage = "corrupt" THEN "garbage" ELSE "stored",
                      size |-> Entry.compressedSize]
  <2>1. call' = [call EXCEPT !.pc = "detect", !.data = data] /\ Steps /\ Environment
    BY <1>3 DEF ReadStored
  <2>2. data \in Data
    BY <1>1 DEF Data, EntryOK
  <2>3. /\ call' \in Call /\ call'.pc = "detect" /\ call'.data = data
        /\ call'.key = call.key /\ call'.archive = call.archive
    BY <1>1, <2>1, <2>2 DEF Call
  <2>4. /\ Shapes' /\ Store' /\ Place' /\ Entry' = Entry
    BY <1>0, <2>1, <2>3, WithinCall
  <2>5. Detecting'
    BY <1>1, <1>3, <2>2, <2>3, <2>4 DEF Detecting, EntryOK, Data
  <2> QED
    BY <2>3, <2>4, <2>5 DEF IInv, InHand, At
<1> QED
  BY <1>2, <1>3

LEMMA DetectOodleKeeps == ASSUME IInv, DetectOodle PROVE IInv'
<1>0. call # NoCall /\ ~At("find") /\ call.pc = "detect" /\ Environment
  <2>1. call.pc = "detect" /\ Environment
    BY Zenon DEF DetectOodle, At
  <2> QED
    BY <2>1 DEF At, NoCall
<1>1. call \in Call /\ EntryOK(Entry) /\ Detecting
  BY <1>0, CallTypes DEF IInv, InHand, At
<1>2. CASE \E o : Ends(o)
  BY <1>0, <1>2, EndsKeeps
<1>3. CASE ~\E o : Ends(o)
  <2>1. Entry.compressedSize # 0
    BY <1>3 DEF DetectOodle
  <2>2. PICK isOodle \in SeemsOodle :
          /\ isOodle => oodle
          /\ call' = [call EXCEPT !.pc = "decompress", !.isOodle = isOodle,
                        !.data = IF isOodle THEN Decoded(Entry.begins = "oodle") ELSE call.data]
          /\ Steps
    BY <1>3, <2>1, Zenon DEF DetectOodle
  <2>3. isOodle \in BOOLEAN
    BY DEF SeemsOodle
  <2>4. Decoded(Entry.begins = "oodle") \in Data
    BY <1>1 DEF Decoded, Data, EntryOK
  <2>5. /\ call' \in Call /\ call'.pc = "decompress" /\ call'.isOodle = isOodle
        /\ call'.data = IF isOodle THEN Decoded(Entry.begins = "oodle") ELSE call.data
        /\ call'.key = call.key /\ call'.archive = call.archive
    BY <1>1, <2>2, <2>3, <2>4 DEF Call, Detecting
  <2>6. Shapes' /\ Store' /\ Place' /\ Entry' = Entry
    BY <1>0, <2>2, <2>5, WithinCall
  <2>7. Decompressing'
    <3>1. call'.data \in Data
      BY <1>1, <2>4, <2>5 DEF Detecting
    <3>2. CASE isOodle
      <4>1. call'.isOodle /\ oodle'
        BY <2>2, <2>5, <3>2, <1>0 DEF Environment
      <4>2. call'.data.size = Entry.uncompressedSize
        BY <2>5, <3>2 DEF Decoded
      <4>3. call'.data.is = IF Entry.begins = "oodle" /\ Entry.damage = "none"
                            THEN "content" ELSE "garbage"
        BY <1>1, <2>5, <3>2 DEF Decoded, Detecting
      <4>4. Entry.begins # "oodle" \/ Entry.damage # "none" => Spoilt(Entry)
        BY <1>1, <2>1, <2>3, <3>2 DEF SeemsOodle, EntryOK, Spoilt
      <4> QED
        BY <2>1, <2>6, <3>1, <4>1, <4>2, <4>3, <4>4 DEF Decompressing, Spoilt
    <3>3. CASE ~isOodle
      <4>1. ~call'.isOodle /\ call'.data = call.data
        BY <2>5, <3>3
      <4>2. Entry.damage = "none" => Entry.begins # "oodle"
                                     /\ ~(Entry.begins = "magic" /\ Entry.compressedSize > 1)
        BY <1>1, <2>3, <3>3 DEF SeemsOodle, EntryOK
      <4> QED
        BY <1>1, <2>1, <2>6, <3>1, <4>1, <4>2 DEF Decompressing, Detecting, Spoilt
    <3> QED
      BY <2>3, <3>2, <3>3
  <2> QED
    BY <2>5, <2>6, <2>7 DEF IInv, InHand, At
<1> QED
  BY <1>2, <1>3

LEMMA DecompressKeeps == ASSUME IInv, Decompress PROVE IInv'
<1>0. call # NoCall /\ ~At("find") /\ call.pc = "decompress" /\ Environment
  <2>1. call.pc = "decompress" /\ Environment
    BY Zenon DEF Decompress, At
  <2> QED
    BY <2>1 DEF At, NoCall
<1>1. call \in Call /\ EntryOK(Entry) /\ Decompressing
  BY <1>0, CallTypes DEF IInv, InHand, At
<1> DEFINE Into(data) == call' = [call EXCEPT !.pc = "check", !.data = data] /\ Steps
           Fits(data) == /\ data \in Data
                         /\ data.size = Entry.uncompressedSize
                         /\ \/ data.is = "content" /\ Passed(Entry)
                            \/ data.is = "garbage" /\ Spoilt(Entry)
<1>2. CASE \E o : Ends(o)
  BY <1>0, <1>2, EndsKeeps
<1>3. ASSUME NEW data, Into(data), Fits(data) PROVE IInv'
  <2>1. /\ call' \in Call /\ call'.pc = "check" /\ call'.data = data
        /\ call'.key = call.key /\ call'.archive = call.archive
    BY <1>1, <1>3 DEF Call
  <2>2. Shapes' /\ Store' /\ Place' /\ Entry' = Entry
    BY <1>0, <1>3, <2>1, WithinCall
  <2>3. Checking'
    BY <1>0, <1>3, <2>1, <2>2 DEF Checking, Passed, Environment
  <2> QED
    BY <2>1, <2>2, <2>3 DEF IInv, InHand, At
<1>4. CASE Entry.compressionType = "None" /\ ~\E o : Ends(o)
  <2> DEFINE data == [call.data EXCEPT !.is = IF @ = "stored" THEN "content" ELSE @]
  <2>1. /\ call' = [call EXCEPT !.pc = "check",
                      !.data.is = IF @ = "stored" THEN "content" ELSE @]
        /\ Steps
        /\ Entry.compressedSize = Entry.uncompressedSize \/ call.isOodle
    BY <1>4, Zenon DEF Decompress
  <2>2. Into(data)
    BY <1>1, <2>1 DEF Call
  <2>3. /\ data.is = IF call.data.is = "stored" THEN "content" ELSE call.data.is
        /\ data.size = call.data.size
        /\ data \in Data
    BY <1>1 DEF Decompressing, Data
  <2>4. Fits(data)
    BY <1>1, <1>4, <2>1, <2>3 DEF Decompressing, Passed, Spoilt, Data, EntryOK, Call
  <2> QED
    BY <1>3, <2>2, <2>4
<1>5. CASE Entry.compressionType \in {"Deflate", "Snappy"} /\ ~\E o : Ends(o)
  <2> DEFINE data == [is |-> IF call.data.is = "stored" THEN "content" ELSE "garbage",
                      size |-> Entry.uncompressedSize]
  <2>1. Decoded(TRUE) = data
    BY DEF Decoded
  <2>2. Into(data)
    <3>1. Into(Decoded(TRUE))
      BY <1>5, Zenon DEF Decompress
    <3> QED
      BY <2>1, <3>1
  <2>3. Fits(data)
    <3>1. Entry.begins # "oodle"
      BY <1>1, <1>5 DEF EntryOK
    <3>2. CASE call.data.is = "stored"
      <4>1. Passed(Entry)
        BY <1>1, <1>5, <3>1, <3>2 DEF Decompressing, Passed
      <4> QED
        BY <1>1, <3>2, <4>1 DEF Data, EntryOK
    <3>3. CASE call.data.is # "stored"
      <4>1. Spoilt(Entry)
        BY <1>1, <3>1, <3>3 DEF Decompressing, Data
      <4> QED
        BY <1>1, <3>3, <4>1 DEF Data, EntryOK
    <3> QED
      BY <3>2, <3>3
  <2> QED
    BY <1>3, <2>2, <2>3
<1>6. CASE Entry.compressionType \notin {"None", "Deflate", "Snappy"}
  BY <1>2, <1>6 DEF Decompress
<1> QED
  BY <1>2, <1>4, <1>5, <1>6

LEMMA CheckKeeps == ASSUME IInv, Check PROVE IInv'
<1>0. call # NoCall /\ ~At("find") /\ call.pc = "check" /\ Environment
  BY DEF Check, At, NoCall
<1>1. call \in Call /\ EntryOK(Entry) /\ Checking /\ Files = FilesOf(Here)
  BY <1>0, CallTypes DEF IInv, InHand, At
<1>2. CASE \E o : Ends(o)
  BY <1>0, <1>2, EndsKeeps
<1>3. CASE ~\E o : Ends(o)
  <2> DEFINE size == IF Signed(Here) THEN call.data.size - Entry.signature ELSE call.data.size
             data == [is |-> call.data.is, size |-> size]
  <2>1. /\ call.data.is = "content"
        /\ Signed(Here) => Entry.verifies
        /\ call' = [call EXCEPT !.pc = "return",
                      !.data.size = IF Signed(Here) THEN @ - Entry.signature ELSE @]
        /\ Steps
    BY <1>3, Zenon DEF Check, Intact
  <2>2. data \in Data /\ size = SizeWithout(Here, Entry)
    BY <1>1 DEF Checking, Data, EntryOK, SizeWithout
  <2>3. /\ call' \in Call /\ call'.pc = "return" /\ call'.data = data
        /\ call'.key = call.key /\ call'.archive = call.archive
    <3>0. [call.data EXCEPT !.size = size] = data
      BY <1>1 DEF Checking, Data
    <3>1. call' = [call EXCEPT !.pc = "return", !.data = data]
      BY <1>1, <2>1, <3>0 DEF Call
    <3> QED
      BY <1>1, <2>2, <3>1 DEF Call
  <2>4. Shapes' /\ Store' /\ Place' /\ Here' = Here /\ Entry' = Entry /\ Signed(Here)' = Signed(Here)
    BY <1>0, <2>1, <2>3, WithinCall
  <2>5. Verified(Here, call.key)
    <3>1. Entry = FilesOf(Here)[call.key]
      BY <1>1 DEF Entry
    <3> QED
      BY <1>1, <2>1, <3>1 DEF Checking, Verified
  <2>6. Returning'
    <3>1. Verified(Here, call.key)'
      BY <1>0, <2>3, <2>4, <2>5 DEF Verified, Passed, Environment, FilesOf, Signed
    <3>2. SizeWithout(Here, Entry)' = SizeWithout(Here, Entry)
      BY <2>4 DEF SizeWithout
    <3> QED
      BY <2>1, <2>2, <2>3, <3>1, <3>2 DEF Returning
  <2> QED
    BY <2>3, <2>4, <2>6 DEF IInv, InHand, At
<1> QED
  BY <1>2, <1>3

LEMMA SizeByReadingKeeps == ASSUME IInv, SizeByReading PROVE IInv'
<1>1. call = NoCall /\ task \in Adding /\ task \in Tasks /\ task.do = "add"
  BY DEF SizeByReading, AllOpen, IInv, Shapes, Tasks, Idle
<1>2. PICK k \in Unsized :
        call' = [pc |-> "read", key |-> k, archive |-> 0, data |-> <<>>, isOodle |-> FALSE]
  BY DEF SizeByReading
<1>3. k \in DOMAIN FilesOf(task.archive) /\ k \in Key
  <2>1. k \in DOMAIN FilesOf(task.archive)
    BY DEF Unsized, FilesOf
  <2> QED
    BY <1>1, <2>1, EntryTypes DEF IInv, Shapes, Adding
<1>4. call' \in Call /\ call'.pc = "read" /\ call'.key = k
  BY <1>2, <1>3 DEF Call
<1>5. task # Idle
  BY <1>1 DEF Idle
<1>6. Shapes'
  BY <1>4, <1>5 DEF IInv, Shapes, SizeByReading, Steps, Environment
<1>7. Place'
  <2>1. Files' = FilesOf(task.archive)
    BY <1>1 DEF Files, Here, FilesOf, SizeByReading, Steps, Environment
  <2> QED
    BY <1>1, <1>3, <1>4, <2>1 DEF Place, At, SizeByReading, Steps, Environment, Signed
<1>8. InHand'
  BY <1>4 DEF InHand, At
<1> QED
  BY <1>6, <1>7, <1>8, StoreUnchanged DEF IInv, SizeByReading, Steps, Environment

LEMMA ReturnSizeKeeps == ASSUME IInv, ReturnSize PROVE IInv'
<1>1. call # NoCall /\ ~At("find") /\ task \in Adding /\ Here = task.archive
  BY DEF ReturnSize, At, NoCall, IInv, Shapes, Tasks, Idle, Here
<1>2. Files = FilesOf(Here) /\ call.key \in DOMAIN Files /\ EntryOK(Entry)
  BY <1>1, CallTypes DEF IInv
<1>3. Signed(task.archive) /\ task.archive.precise
  BY <1>1 DEF IInv, Place
<1>4. Returning
  BY DEF ReturnSize, IInv, InHand
<1>5. /\ CachedSize(Entry, call.data) = SizeWithout(Here, Entry)
      /\ SizeWithout(Here, Entry) \in Nat
      /\ Entry = FilesOf(Here)[call.key]
  BY <1>2, <1>4 DEF CachedSize, Returning, SizeWithout, EntryOK, Entry
<1> QED
  BY <1>1, <1>2, <1>3, <1>4, <1>5, SizeBecomesKnown DEF ReturnSize, Returning

LEMMA ReturnsKeep == ASSUME IInv, ReturnData \/ ReturnTable PROVE IInv'
<1>1. CASE \E o : Ends(o)
  BY <1>1, EndsKeeps DEF ReturnData, ReturnTable
<1>2. CASE ~\E o : Ends(o)
  <2>1. task' = Idle /\ call' = NoCall /\ archives' = archives /\ Environment
    BY <1>2 DEF ReturnData, ReturnTable
  <2>2. Shapes' /\ task' \notin Adding
    BY <2>1 DEF IInv, Shapes, Environment, Tasks, Idle, Adding
  <2> QED
    BY <2>1, <2>2, StoreUnchanged, BetweenCalls DEF IInv, Environment
<1> QED
  BY <1>1, <1>2

LEMMA InvariantKept == ASSUME IInv, [Next]_vars PROVE IInv'
<1>1. CASE UNCHANGED vars
  <2>1. Shapes' /\ Place' /\ Store'
    BY <1>1, StoreUnchanged DEF IInv, vars, Shapes, Place, NoneBefore, FilesOf, At, Files, Here, Signed
  <2>2. InHand'
    BY <1>1 DEF IInv, vars, InHand, At, Detecting, Decompressing, Checking, Returning, Passed,
            Verified, FilesOf, SizeWithout, Entry, Files, Here, Signed
  <2> QED
    BY <2>1, <2>2 DEF IInv
<1> QED
  BY <1>1, LoadOodleLibKeeps, AddManifestKeeps, OpenDataFileKeeps, SizeByReadingKeeps,
     SizeByManifestKeeps, StoreArchiveKeeps, ReadFileByKeyKeeps, FindKeeps, ReadStoredKeeps,
     DetectOodleKeeps, DecompressKeeps, CheckKeeps, ReturnSizeKeeps, ReturnsKeep
  DEF Next

LEMMA InitialInvariant == Init => IInv
<1> SUFFICES ASSUME Init PROVE IInv
  OBVIOUS
<1>1. Shapes
  <2>1. archives \in Seq(Archive)
    BY DEF Init
  <2> QED
    BY <2>1 DEF Init, Shapes, Tasks
<1>2. Store
  BY DEF Init, Store, Idle, Adding
<1> QED
  BY <1>1, <1>2 DEF Init, IInv, Place, InHand, At, NoCall

(* An archive in the store is complete, whatever constructions failed before it  *)
(* and between its steps; the running call reads a file that its archive holds.   *)
THEOREM TypeCorrect == Spec => []TypeOK
<1>1. IInv /\ [Next]_vars => IInv'
  BY InvariantKept
<1> QED
  BY InitialInvariant, <1>1, InvariantTypes, PTL DEF Spec

-----------------------------------------------------------------------------
(* What calls come to.                                                       *)

LEMMA HoldingsStay ==
  ASSUME UNCHANGED <<disk, oodle, archives>>
  PROVE  /\ \A k : Holding(k)' = Holding(k) /\ FirstHolding(k)' = FirstHolding(k)
         /\ \A i, k : (Unreadable(i, k)' <=> Unreadable(i, k)) /\ Stored(i, k)' = Stored(i, k)
  BY DEF Holding, FirstHolding, Stored, Unreadable, Signed

LEMMA ResultsStay ==
  ASSUME Results, UNCHANGED <<disk, oodle, archives, result>>
  PROVE  Results'
<1>1. ReadIsExact'
  BY HoldingsStay DEF Results, ReadIsExact, Signed
<1>2. SizesAgree'
  BY DEF Results, SizesAgree, Stored, Announced, Signed
<1>3. MountedFilesRead'
  BY DEF Results, MountedFilesRead, Stored, Signed
<1> QED
  BY <1>1, <1>2, <1>3 DEF Results

LEMMA NotARead ==
  ASSUME result'.do # "read"
  PROVE  Results'
  BY DEF Results, ReadIsExact, SizesAgree, MountedFilesRead

LEMMA FirstIsChosen ==
  ASSUME archives \in Seq(Archive), NEW k, NEW i \in Holding(k), NoneBefore(i, k)
  PROVE  i = FirstHolding(k)
<1>1. Holding(k) \subseteq Nat
  BY DEF Holding
<1>2. \A j \in Holding(k) : i <= j
  BY <1>1 DEF Holding, NoneBefore, FilesOf
<1> DEFINE c == FirstHolding(k)
<1>3. c \in Holding(k) /\ \A j \in Holding(k) : c <= j
  BY <1>2 DEF FirstHolding
<1> HIDE DEF c
<1>4. c <= i /\ i <= c /\ c \in Nat /\ i \in Nat
  BY <1>1, <1>2, <1>3
<1>5. c = i
  BY <1>4
<1> QED
  BY <1>5 DEF c

(* A read that is past the search reads from the first archive that holds the key. *)
LEMMA ReadsFirst ==
  ASSUME IInv, call # NoCall, ~At("find"), task.do = "read"
  PROVE  /\ call.archive \in Holding(call.key)
         /\ call.archive = FirstHolding(call.key)
         /\ Here = archives[call.archive]
         /\ Entry = Stored(call.archive, call.key)
         /\ Complete(Here) /\ SizesKnown(Here)
         /\ call.key \in DOMAIN FilesOf(Here) /\ Entry = FilesOf(Here)[call.key]
         /\ EntryOK(Entry)
<1>1. task \notin Adding
  BY DEF Adding
<1>2. Here = archives[call.archive] /\ Files = FilesOf(Here) /\ call.key \in DOMAIN Files
      /\ EntryOK(Entry)
  BY CallTypes DEF IInv, Here
<1>3. call.archive \in DOMAIN archives /\ NoneBefore(call.archive, call.key)
  BY <1>1 DEF IInv, Place
<1>4. call.archive \in Holding(call.key)
  BY <1>2, <1>3 DEF Holding, FilesOf
<1> QED
  BY <1>2, <1>3, <1>4, FirstIsChosen DEF IInv, Shapes, Store, Stored, Entry, FilesOf

(* A failure past the search is excused if the file gives a reason for it; the     *)
(* file cannot have been read before, but for one byte that seemed Oodle's.        *)
LEMMA FailureIsExcused ==
  ASSUME IInv, Environment, call # NoCall, ~At("find"),
         NEW o \in {"threw", "crashed"}, Ends(o),
         task.do = "read" => Unreadable(call.archive, call.key)
  PROVE  Results'
<1>1. CASE task.do # "read"
  BY <1>1, NotARead DEF Ends
<1>2. CASE task.do = "read"
  <2>1. /\ result' = [do |-> "read", key |-> call.key, archive |-> call.archive, outcome |-> o]
        /\ UNCHANGED <<disk, oodle, archives>>
    BY <1>2 DEF Ends, Environment
  <2>2. ReadIsExact'
    BY <1>2, <2>1, ReadsFirst, HoldingsStay DEF ReadIsExact
  <2>3. SizesAgree'
    BY <2>1 DEF SizesAgree
  <2>4. MountedFilesRead'
    <3>1. ASSUME Signed(Here), Here.precise PROVE Entry.compressedSize = 1
      <4>1. Verified(Here, call.key)
        BY <1>2, <3>1, ReadsFirst DEF Complete, SizesKnown
      <4> QED
        BY <1>2, <3>1, <4>1, ReadsFirst DEF Verified, Passed, Unreadable, EntryOK
    <3> QED
      BY <1>2, <2>1, <3>1, ReadsFirst DEF MountedFilesRead, Stored, Signed
  <2> QED
    BY <2>2, <2>3, <2>4 DEF Results
<1> QED
  BY <1>1, <1>2

LEMMA FindResults == ASSUME IInv, Results, Find PROVE Results'
<1>1. CASE ~Ends("not found")
  <2>1. Steps /\ Environment
    BY <1>1, Zenon DEF Find
  <2> QED
    BY <2>1, ResultsStay DEF Steps, Environment
<1>2. CASE Ends("not found") /\ task.do # "read"
  BY <1>2, NotARead DEF Ends
<1>3. CASE Ends("not found") /\ task.do = "read"
  <2>1. call.pc = "find" /\ Environment
    BY Zenon DEF Find, At
  <2>2. /\ result' = [do |-> "read", key |-> call.key, archive |-> call.archive,
                      outcome |-> "not found"]
        /\ UNCHANGED <<disk, oodle, archives>>
    BY <1>3, <2>1 DEF Ends, Environment
  <2>3. call.archive > Len(archives)
    <3>1. CASE ~(call.archive > Len(archives))
      <4>1. Steps
        BY <3>1, Zenon DEF Find
      <4>2. task # Idle
        <5>1. task.do = "read"
          BY <1>3
        <5> QED
          BY <5>1 DEF Idle
      <4> QED
        BY <1>3, <4>1, <4>2 DEF Ends, Steps
    <3> QED
      BY <3>1
  <2>4. Holding(call.key) = {}
    BY <2>1, <2>3 DEF IInv, Shapes, Place, At, NoneBefore, Holding, FilesOf
  <2>5. ReadIsExact'
    BY <2>2, <2>4, HoldingsStay DEF ReadIsExact
  <2> QED
    BY <2>2, <2>5 DEF Results, SizesAgree, MountedFilesRead
<1> QED
  BY <1>1, <1>2, <1>3

LEMMA ReadStoredResults == ASSUME IInv, Results, ReadStored PROVE Results'
<1>1. call # NoCall /\ ~At("find") /\ Environment
  BY DEF ReadStored, At, NoCall
<1>2. CASE Steps
  BY <1>1, <1>2, ResultsStay DEF Steps, Environment
<1>3. CASE ~Steps
  <2>1. Ends("threw") /\ Entry.damage # "none"
    BY <1>3 DEF ReadStored
  <2>2. task.do = "read" => Unreadable(call.archive, call.key)
    BY <1>1, <2>1, ReadsFirst DEF Unreadable
  <2> QED
    BY <1>1, <2>1, <2>2, FailureIsExcused
<1> QED
  BY <1>2, <1>3

LEMMA DetectOodleResults == ASSUME IInv, Results, DetectOodle PROVE Results'
<1>1. call # NoCall /\ ~At("find") /\ Environment
  <2>1. call.pc = "detect" /\ Environment
    BY Zenon DEF DetectOodle, At
  <2> QED
    BY <2>1 DEF At, NoCall
<1>2. CASE Steps
  BY <1>1, <1>2, ResultsStay DEF Steps, Environment
<1>3. CASE ~Steps
  <2>1. Ends("crashed") /\ (Entry.compressedSize = 0 \/ (TRUE \in SeemsOodle /\ ~oodle))
    <3>1. CASE Entry.compressedSize = 0
      BY <3>1, Zenon DEF DetectOodle
    <3>2. CASE Entry.compressedSize # 0
      <4>1. PICK isOodle \in SeemsOodle : isOodle /\ ~oodle /\ Ends("crashed")
        BY <1>3, <3>2, Zenon DEF DetectOodle
      <4>2. isOodle = TRUE
        BY <4>1 DEF SeemsOodle
      <4> QED
        BY <4>1, <4>2
    <3> QED
      BY <3>1, <3>2
  <2>2. ASSUME task.do = "read" PROVE Unreadable(call.archive, call.key)
    <3>1. Entry = Stored(call.archive, call.key) /\ EntryOK(Entry)
      BY <1>1, <2>2, ReadsFirst
    <3>2. CASE Entry.compressedSize = 0
      BY <3>1, <3>2 DEF Unreadable
    <3>3. CASE Entry.compressedSize # 0
      <4>1. Spoilt(Entry) \/ Entry.begins = "oodle"
        BY <2>1, <3>1, <3>3 DEF SeemsOodle, EntryOK, Spoilt
      <4> QED
        BY <2>1, <3>1, <3>3, <4>1 DEF Unreadable, Spoilt
    <3> QED
      BY <3>2, <3>3
  <2> QED
    BY <1>1, <2>1, <2>2, FailureIsExcused
<1> QED
  BY <1>2, <1>3

LEMMA DecompressResults == ASSUME IInv, Results, Decompress PROVE Results'
<1>1. call # NoCall /\ ~At("find") /\ Environment /\ call.pc = "decompress"
  <2>1. call.pc = "decompress" /\ Environment
    BY Zenon DEF Decompress, At
  <2> QED
    BY <2>1 DEF At, NoCall
<1>2. CASE Steps
  BY <1>1, <1>2, ResultsStay DEF Steps, Environment
<1>3. CASE ~Steps
  <2>1. /\ Ends("threw")
        /\ \/ /\ Entry.compressionType = "None"
              /\ Entry.compressedSize # Entry.uncompressedSize /\ ~call.isOodle
           \/ Entry.compressionType \in {"Deflate", "Snappy"} /\ call.data.is # "stored"
           \/ Entry.compressionType \notin {"None", "Deflate", "Snappy"}
    BY <1>3, Zenon DEF Decompress
  <2>2. ASSUME task.do = "read" PROVE Unreadable(call.archive, call.key)
    <3>1. Entry = Stored(call.archive, call.key) /\ EntryOK(Entry)
      BY <1>1, <2>2, ReadsFirst
    <3>2. Decompressing
      BY <1>1 DEF IInv, InHand, At
    <3> QED
      BY <2>1, <3>1, <3>2 DEF Unreadable, Decompressing, Spoilt, EntryOK, Data
  <2> QED
    BY <1>1, <2>1, <2>2, FailureIsExcused
<1> QED
  BY <1>2, <1>3

LEMMA CheckResults == ASSUME IInv, Results, Check PROVE Results'
<1>1. call # NoCall /\ ~At("find") /\ Environment /\ call.pc = "check"
  BY DEF Check, At, NoCall
<1>2. CASE Steps
  BY <1>1, <1>2, ResultsStay DEF Steps, Environment
<1>3. CASE ~Steps
  <2>1. Ends("threw") /\ (~Intact \/ (Signed(Here) /\ ~Entry.verifies))
    BY <1>3, Zenon DEF Check
  <2>2. ASSUME task.do = "read" PROVE Unreadable(call.archive, call.key)
    <3>1. Entry = Stored(call.archive, call.key) /\ Here = archives[call.archive]
      BY <1>1, <2>2, ReadsFirst
    <3>2. Checking
      BY <1>1 DEF IInv, InHand, At
    <3> QED
      BY <2>1, <3>1, <3>2 DEF Unreadable, Checking, Spoilt, Intact
  <2> QED
    BY <1>1, <2>1, <2>2, FailureIsExcused
<1> QED
  BY <1>2, <1>3

LEMMA ReturnDataResults == ASSUME IInv, ReturnData PROVE Results'
<1>1. call # NoCall /\ ~At("find") /\ Environment /\ task.do = "read"
  BY DEF ReturnData, At, NoCall
<1>2. /\ result' = [do |-> "read", key |-> call.key, archive |-> call.archive, outcome |-> "data",
                    data |-> call.data]
      /\ UNCHANGED <<disk, oodle, archives>>
  BY DEF ReturnData, Environment
<1>3. call.data = [is |-> "content", size |-> SizeWithout(Here, Entry)]
  BY DEF ReturnData, IInv, InHand, Returning
<1>4. ReadIsExact'
  <2>1. call.data =
          [is |-> "content",
           size |-> Entry.uncompressedSize - (IF Signed(Here) THEN Entry.signature ELSE 0)]
    BY <1>3 DEF SizeWithout
  <2> QED
    BY <1>1, <1>2, <2>1, ReadsFirst, HoldingsStay DEF ReadIsExact, Signed
<1>5. SizesAgree'
  <2>1. Announced(Here, call.key)
          = SizeWithout(Here, Entry) + (IF Signed(Here) /\ ~Here.precise THEN Entry.signature ELSE 0)
    <3>1. /\ Entry = FilesOf(Here)[call.key] /\ call.key \in DOMAIN FilesOf(Here) /\ EntryOK(Entry)
          /\ Complete(Here) /\ SizesKnown(Here)
      BY <1>1, ReadsFirst
    <3>2. Here.precise \in BOOLEAN
      BY <1>1, CallTypes DEF IInv, Archive
    <3>3. CASE ~Signed(Here)
      BY <3>1, <3>3 DEF Announced, SizeWithout, FilesOf, EntryOK
    <3>4. CASE Signed(Here)
      <4>1. Announced(Here, call.key) = IF Here.precise THEN SizeWithout(Here, Entry)
                                        ELSE Entry.uncompressedSize
        BY <3>1, <3>2, <3>4 DEF Announced, Complete, SizesKnown
      <4> QED
        BY <3>1, <3>2, <3>4, <4>1 DEF SizeWithout, EntryOK
    <3> QED
      BY <3>3, <3>4
  <2>2. Here = archives[call.archive] /\ Entry = Stored(call.archive, call.key)
    BY <1>1, ReadsFirst
  <2> QED
    BY <1>2, <1>3, <2>1, <2>2 DEF SizesAgree, Announced, Signed, Stored
<1> QED
  BY <1>2, <1>4, <1>5 DEF Results, MountedFilesRead

LEMMA ResultsKept == ASSUME IInv, Results, [Next]_vars PROVE Results'
<1>1. CASE LoadOodleLib \/ StoreArchive
  BY <1>1, NotARead DEF LoadOodleLib, StoreArchive
<1>2. CASE AddManifest \/ OpenDataFile
  <2>1. CASE AddFails
    BY <2>1, NotARead DEF AddFails
  <2>2. CASE ~AddFails
    BY <1>2, <2>2, ResultsStay DEF AddManifest, OpenDataFile, StoreAtFirst, Environment
  <2> QED
    BY <2>1, <2>2
<1>3. CASE SizeByReading \/ SizeByManifest \/ ReadFileByKey \/ ReturnSize \/ UNCHANGED vars
  BY <1>3, ResultsStay
  DEF SizeByReading, SizeByManifest, ReadFileByKey, ReturnSize, Steps, Environment, vars
<1>4. CASE ReturnTable
  <2>1. result'.do = "table"
    BY <1>4 DEF ReturnTable, Ends
  <2> QED
    BY <2>1, NotARead
<1> QED
  BY <1>1, <1>2, <1>3, <1>4, FindResults, ReadStoredResults, DetectOodleResults,
     DecompressResults, CheckResults, ReturnDataResults
  DEF Next

LEMMA ResultsAlways == Spec => []Results
<1>1. Init => Results
  BY DEF Init, Results, ReadIsExact, SizesAgree, MountedFilesRead
<1>2. IInv /\ Results /\ [Next]_vars => IInv' /\ Results'
  BY InvariantKept, ResultsKept
<1> QED
  BY InitialInvariant, <1>1, <1>2, PTL DEF Spec

(* A read returns the content of the file, without its signature, from the first    *)
(* archive that holds the key, or fails for a reason that this file gives, however   *)
(* archives, tables and the Oodle library were loaded.                           *)
THEOREM ReadExact == Spec => []ReadIsExact
<1>1. Results => ReadIsExact
  BY DEF Results
<1> QED
  BY ResultsAlways, <1>1, PTL

(* The sizes that enumerateFiles announces are those of what reads return, larger   *)
(* by the signature where precise sizes were not asked for.                       *)
THEOREM AnnouncedSizesAgree == Spec => []SizesAgree
<1>1. Results => SizesAgree
  BY DEF Results
<1> QED
  BY ResultsAlways, <1>1, PTL

(* What was read while its manifest was added with precise sizes can be read again:  *)
(* the Oodle library, once loaded, stays, and nothing else that a read depends on     *)
(* changes.                                                                    *)
THEOREM MountedFilesStayReadable == Spec => []MountedFilesRead
<1>1. Results => MountedFilesRead
  BY DEF Results
<1> QED
  BY ResultsAlways, <1>1, PTL
=============================================================================
