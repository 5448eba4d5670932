---------------------------- MODULE ArchiveStore ----------------------------
(***************************************************************************)
(* Filesystem and Archive: manifests are added with their data files, file      *)
(* tables are loaded out of them, and a file is read by its key from the first  *)
(* archive that holds it: read, decompressed, checked against its CRC and, where *)
(* the archive has signatures, verified and stripped of its own.                *)
(*                                                                         *)
(* The disk is a constant of a behaviour.  Of a stored file are modelled its    *)
(* sizes, how it is compressed, what its first two bytes look like, whether it  *)
(* is damaged, and its signature; data is known to be what is stored, the        *)
(* content of the file, or something else, which the CRC is taken to tell from   *)
(* the content.  zlib, snappy, Oodle and CNG are external.                      *)
(***************************************************************************)
EXTENDS Naturals, SequencesExt

CONSTANTS Key,          \* the keys asked for
          Manifest,     \* the names of manifests
          Disks,        \* what may be on disk: manifest to its contents
          MaxArchives   \* bounds the calls of addManifest that succeed

ASSUME ArchiveStoreAssumption ==
  /\ MaxArchives \in Nat
  /\ \A disk \in Disks : \A m \in Manifest : \A k \in DOMAIN disk[m].files :
       LET e == disk[m].files[k] IN
       /\ k \in Key
       /\ {e.uncompressedSize, e.compressedSize, e.signature} \subseteq Nat
       /\ e.signature <= e.uncompressedSize
       /\ e.damage \in {"none", "unreadable", "short", "corrupt"}
       /\ e.begins \in {"oodle", "magic", "half", "other"}
       /\ e.begins = "oodle" => e.compressionType = "None" /\ e.compressedSize > 1

VARIABLES disk,          \* per manifest: readable, dataFiles, signed and files
          installed,     \* oo2core_8_win64.dll can be loaded
          oodle,         \* g_OodleDecompressFunc is not null
          archives,      \* m_archives
          fileTables,    \* m_fileTables: the key and the prefix of each
          task,          \* the call of Filesystem that runs
          call,          \* the call of Archive::readFileByKey that runs
          result         \* history: what the last call came to

vars == <<disk, installed, oodle, archives, fileTables, task, call, result>>

Idle == [do |-> "nothing"]
NoCall == [pc |-> "none"]
Free == task = Idle /\ result.outcome # "crashed"

\* Where the data file of the running call is: an archive being constructed
\* reads its own files.
Here == IF task.do = "add" THEN task.archive ELSE archives[call.archive]
Files == disk[Here.manifest].files
Entry == Files[call.key]
Signed(a) == disk[a.manifest].signed

Init ==
  /\ disk \in Disks
  /\ installed \in BOOLEAN
  /\ oodle = FALSE
  /\ archives = <<>>
  /\ fileTables = <<>>
  /\ task = Idle
  /\ call = NoCall
  /\ result = [do |-> "nothing", outcome |-> "none"]

\* An exception leaves the running call of Filesystem.
Ends(outcome) ==
  /\ result' = [do |-> task.do, key |-> call.key, archive |-> call.archive, outcome |-> outcome]
  /\ task' = Idle
  /\ call' = NoCall
  /\ UNCHANGED <<archives, fileTables>>

AddFails ==
  /\ result' = [do |-> "add", outcome |-> "threw"]
  /\ task' = Idle
  /\ UNCHANGED <<archives, fileTables, call>>

Steps == UNCHANGED <<archives, fileTables, task, result>>
Environment == UNCHANGED <<disk, installed, oodle>>

-----------------------------------------------------------------------------
\* LoadOodleLib: true is returned in any case.
LoadOodleLib ==
  /\ Free
  /\ oodle' = installed
  /\ result' = [do |-> "oodle", outcome |-> "true"]
  /\ UNCHANGED <<disk, installed, archives, fileTables, task, call>>

\* Filesystem::addManifest: the archive is constructed before it is stored.
\* Mutant of StoreAtFirst: it is stored first.
StoreEarly(a) == archives' = Append(archives, a)
StoreAtFirst(a) == UNCHANGED archives

AddManifest ==
  /\ Free
  /\ Len(archives) < MaxArchives
  /\ \E m \in Manifest, precise \in BOOLEAN :
       LET a == [manifest |-> m, open |-> 0, cachedSize |-> <<>>, precise |-> precise] IN
       IF disk[m].readable
       THEN /\ task' = [do |-> "add", archive |-> a]
            /\ StoreAtFirst(a)
            /\ UNCHANGED <<fileTables, call, result>>
       ELSE AddFails
  /\ Environment

\* CreateFile, ReadFile and the header of the next data file.
OpenDataFile ==
  /\ task.do = "add" /\ call = NoCall
  /\ task.archive.open < Len(disk[task.archive.manifest].dataFiles)
  /\ IF disk[task.archive.manifest].dataFiles[task.archive.open + 1]
     THEN task' = [task EXCEPT !.archive.open = @ + 1]
          /\ UNCHANGED <<archives, fileTables, call, result>>
     ELSE AddFails
  /\ Environment

AllOpen == task.do = "add" /\ call = NoCall
             /\ task.archive.open = Len(disk[task.archive.manifest].dataFiles)
\* Mutant of Unsized: files that are not compressed are not read for their size.
UnsizedCompressed ==
  {k \in DOMAIN disk[task.archive.manifest].files :
     disk[task.archive.manifest].files[k].compressionType # "None"} \ DOMAIN task.archive.cachedSize
Unsized == DOMAIN disk[task.archive.manifest].files \ DOMAIN task.archive.cachedSize

\* The size of a file with its signature is known from a read only.
\* Mutant of CachedSize: it is taken from the manifest.
UncompressedSize(e, data) == e.uncompressedSize
CachedSize(e, data) == data.size

WithSize(a, k, size) ==
  [a EXCEPT !.cachedSize = [j \in DOMAIN a.cachedSize \cup {k} |->
                              IF j = k THEN size ELSE a.cachedSize[j]]]

SizeByReading ==
  /\ AllOpen
  /\ Signed(task.archive) /\ task.archive.precise
  /\ \E k \in Unsized :
       call' = [pc |-> "read", key |-> k, archive |-> 0, data |-> <<>>, isOodle |-> FALSE]
  /\ Steps /\ Environment

SizeByManifest ==
  /\ AllOpen
  /\ Signed(task.archive) /\ ~task.archive.precise
  /\ \E k \in Unsized :
       task' = [task EXCEPT !.archive =
                  WithSize(@, k, disk[task.archive.manifest].files[k].uncompressedSize)]
  /\ UNCHANGED <<archives, fileTables, call, result>> /\ Environment

StoreArchive ==
  /\ AllOpen
  /\ Signed(task.archive) => Unsized = {}
  /\ archives' = Append(archives, task.archive)
  /\ result' = [do |-> "add", outcome |-> "stored"]
  /\ task' = Idle
  /\ UNCHANGED <<fileTables, call>> /\ Environment

\* Filesystem::readFileByKey, and loadFileTable, which begins with it.
ReadFileByKey ==
  /\ Free
  /\ \E k \in Key, do \in {"read", "table"} :
       /\ do = "table" => \A t \in ToSet(fileTables) : t.key # k
       /\ task' = [do |-> do]
       /\ call' = [pc |-> "find", key |-> k, archive |-> 1, data |-> <<>>, isOodle |-> FALSE]
  /\ UNCHANGED <<archives, fileTables, result>> /\ Environment

-----------------------------------------------------------------------------
(* Archive::readFileByKey, and the loop over the archives around it.           *)

At(pc) == call.pc = pc

\* Mutant of First: the last archive has precedence.
LastFirst(i) == Len(archives) + 1 - i
First(i) == i

\* The archives are asked in turn.
Find ==
  /\ At("find")
  /\ IF call.archive > Len(archives) THEN Ends("not found")
     ELSE /\ call' = IF call.key \in DOMAIN disk[archives[First(call.archive)].manifest].files
                     THEN [call EXCEPT !.pc = "read", !.archive = First(@)]
                     ELSE [call EXCEPT !.archive = @ + 1]
          /\ Steps
  /\ Environment

\* ReadFile of compressedSize bytes.
ReadStored ==
  /\ At("read")
  /\ IF Entry.damage \in {"unreadable", "short"} THEN Ends("threw")
     ELSE /\ call' = [call EXCEPT !.pc = "detect",
                        !.data = [is |-> IF Entry.damage = "corrupt" THEN "garbage" ELSE "stored",
                                  size |-> Entry.compressedSize]]
          /\ Steps
  /\ Environment

\* What the test of the first two bytes may come to: they are read whatever the
\* size, of a file of one byte the second is whatever follows in memory, and
\* damage may be anywhere.
SeemsOodle ==
  {b \in BOOLEAN :
     \/ Entry.damage = "corrupt"
     \/ IF Entry.compressedSize > 1 THEN (b <=> Entry.begins \in {"oodle", "magic"})
        ELSE b => Entry.begins = "half"}

\* Oodle gives the content of what it compressed.
Decoded(genuine) == [is |-> IF genuine /\ call.data.is = "stored" THEN "content" ELSE "garbage",
                     size |-> Entry.uncompressedSize]

DetectOodle ==
  /\ At("detect")
  /\ IF Entry.compressedSize = 0 THEN Ends("crashed")
     ELSE \E isOodle \in SeemsOodle :
            IF isOodle /\ ~oodle THEN Ends("crashed")
            ELSE /\ call' = [call EXCEPT !.pc = "decompress", !.isOodle = isOodle,
                               !.data = IF isOodle THEN Decoded(Entry.begins = "oodle") ELSE @]
                 /\ Steps
  /\ Environment

\* The switch over the compression type.  Of data that is not theirs, zlib and
\* snappy make an error or something else.
Decompress ==
  /\ At("decompress")
  /\ CASE Entry.compressionType = "None" ->
            IF Entry.compressedSize # Entry.uncompressedSize /\ ~call.isOodle THEN Ends("threw")
            ELSE /\ call' = [call EXCEPT !.pc = "check",
                               !.data.is = IF @ = "stored" THEN "content" ELSE @]
                 /\ Steps
       [] Entry.compressionType \in {"Deflate", "Snappy"} ->
            \/ call' = [call EXCEPT !.pc = "check", !.data = Decoded(TRUE)] /\ Steps
            \/ call.data.is # "stored" /\ Ends("threw")
       [] OTHER -> Ends("threw")
  /\ Environment

\* The checksum of the decompressed data.
Intact == call.data.is = "content"

\* The checksum, then the signature, which is taken off and verified.
Check ==
  /\ At("check")
  /\ IF ~Intact \/ (Signed(Here) /\ ~Entry.verifies) THEN Ends("threw")
     ELSE /\ call' = [call EXCEPT !.pc = "return",
                        !.data.size = IF Signed(Here) THEN @ - Entry.signature ELSE @]
          /\ Steps
  /\ Environment

\* What the caller does with the data.
ReturnSize ==
  /\ At("return")
  /\ task.do = "add"
  /\ task' = [task EXCEPT !.archive = WithSize(@, call.key, CachedSize(Entry, call.data))]
  /\ call' = NoCall
  /\ UNCHANGED <<archives, fileTables, result>> /\ Environment

ReturnData ==
  /\ At("return")
  /\ task.do = "read"
  /\ result' = [do |-> "read", key |-> call.key, archive |-> call.archive, outcome |-> "data",
                data |-> call.data]
  /\ task' = Idle
  /\ call' = NoCall
  /\ UNCHANGED <<archives, fileTables>> /\ Environment

\* loadFileTable: the data is parsed before the table is stored.
ReturnTable ==
  /\ At("return")
  /\ task.do = "table"
  /\ IF Entry.isTable
     THEN /\ fileTables' = Append(fileTables, [key |-> call.key, archive |-> call.archive])
          /\ result' = [do |-> "table", outcome |-> "stored"]
          /\ task' = Idle /\ call' = NoCall
          /\ UNCHANGED archives
     ELSE Ends("threw")
  /\ Environment

Next ==
  \/ LoadOodleLib
  \/ AddManifest \/ OpenDataFile \/ SizeByReading \/ SizeByManifest \/ StoreArchive
  \/ ReadFileByKey \/ Find \/ ReadStored \/ DetectOodle \/ Decompress \/ Check
  \/ ReturnSize \/ ReturnData \/ ReturnTable

Spec == Init /\ [][Next]_vars

-----------------------------------------------------------------------------
\* The type invariant: an archive in the store is complete, whatever constructions
\* failed; calls and tasks go together.
TypeOK ==
  /\ installed \in BOOLEAN /\ oodle \in {FALSE, installed}
  /\ \A i \in DOMAIN archives :
       LET a == archives[i] IN
       /\ a.open = Len(disk[a.manifest].dataFiles)
       /\ DOMAIN a.cachedSize = IF Signed(a) THEN DOMAIN disk[a.manifest].files ELSE {}
  /\ call # NoCall => task # Idle
  /\ call # NoCall /\ ~At("find") => call.key \in DOMAIN Files

Holding(k) == {i \in DOMAIN archives : k \in DOMAIN disk[archives[i].manifest].files}
FirstHolding(k) == CHOOSE i \in Holding(k) : \A j \in Holding(k) : i <= j
Stored(i, k) == disk[archives[i].manifest].files[k]

\* The reasons for which the code does not return what a file holds: damage, an
\* unknown compression, a signature that does not verify, Oodle data before a
\* successful LoadOodleLib, no data at all, or other data that is taken for Oodle's.
Unreadable(i, k) ==
  LET e == Stored(i, k) IN
  \/ e.damage # "none"
  \/ e.compressionType \notin {"None", "Deflate", "Snappy"}
  \/ e.compressionType = "None" /\ e.begins # "oodle" /\ e.compressedSize # e.uncompressedSize
  \/ Signed(archives[i]) /\ ~e.verifies
  \/ e.begins = "oodle" /\ ~oodle
  \/ e.compressedSize = 0
  \/ e.begins = "magic" /\ e.compressedSize > 1
  \/ e.begins = "half" /\ e.compressedSize = 1

\* A read returns the content of the file, without its signature, from the first
\* archive added that holds the key, and fails only for a reason of that file:
\* no later archive is tried, and no earlier one in the way
\* (Filesystem::tryReadFileByKey, Archive::readFileByKey).
ReadIsExact ==
  result.do = "read" =>
    IF Holding(result.key) = {} THEN result.outcome = "not found"
    ELSE LET i == FirstHolding(result.key)
             e == Stored(i, result.key)
         IN  /\ result.archive = i
             /\ \/ /\ result.outcome = "data"
                   /\ result.data =
                        [is |-> "content",
                         size |-> e.uncompressedSize - (IF Signed(archives[i]) THEN e.signature ELSE 0)]
                \/ result.outcome \in {"threw", "crashed"} /\ Unreadable(i, result.key)

\* What enumerateFiles announces.
Announced(a, k) == IF Signed(a) THEN a.cachedSize[k] ELSE disk[a.manifest].files[k].uncompressedSize

\* The size announced for a file is the size of the data that a read of it from
\* that archive returns, unless there are signatures and precise sizes were not
\* asked for: then it is larger by the signature (Archive::Archive, enumerateFiles).
SizesAgree ==
  result.do = "read" /\ result.outcome = "data" =>
    LET a == archives[result.archive]
        extra == IF Signed(a) /\ ~a.precise THEN Stored(result.archive, result.key).signature ELSE 0
    IN  Announced(a, result.key) = result.data.size + extra

\* Adding a manifest with precise sizes has read every file of an archive with
\* signatures: none of them fails to be read later, but for a file of one byte,
\* which may be taken for Oodle's or not, by what follows it in memory.
MountedFilesRead ==
  result.do = "read" /\ result.outcome \in {"threw", "crashed"} =>
    LET a == archives[result.archive] IN
    \/ ~Signed(a) \/ ~a.precise
    \/ Stored(result.archive, result.key).compressedSize = 1
=============================================================================
