--------------------------- MODULE DatabaseManager ---------------------------
(***************************************************************************)
(* DatabaseManager: fetches rows of the client database as objects, loading   *)
(* a table (its index file, its data file, its header) on the first fetch     *)
(* from it and keeping tables and objects.  A load may fail at any of its      *)
(* reads, and the caller may catch the exception and fetch again.             *)
(*                                                                         *)
(* Nothing in the code locks, so one caller is modelled.  Only what the files  *)
(* hold and which reads fail is external.                                    *)
(***************************************************************************)
EXTENDS Integers

CONSTANTS
  DefIndices,    \* the tables (DefType::DefIndex)
  Ids,           \* row ids that callers ask for, 0 among them
  IdSpace,       \* 2^32: a key is index * IdSpace + id
  DefVersion,    \* the version each table's DefType was compiled for
  Rows,          \* the ids of each table's rows, the lookup records of its index
  HasHeader,     \* the tables whose data file is long enough for its header
  FileVersion,   \* the version in that header
  Flags          \* and the flags

(* A DEF without VERSION is compiled for version 0.                         *)
ASSUME DatabaseAssumption ==
  /\ IdSpace \in Nat \ {0}
  /\ DefIndices \subseteq 0 .. IdSpace - 1
  /\ Ids \subseteq 0 .. IdSpace - 1
  /\ HasHeader \subseteq DefIndices
  /\ \A index \in DefIndices :
       /\ DefVersion[index] \in Nat /\ FileVersion[index] \in Nat
       /\ Flags[index] \in Nat /\ Rows[index] \subseteq 0 .. IdSpace - 1

ClientFlags == 19   \* 0x13

VARIABLES m_loadedDefs,    \* key to the object cached under it
          m_loadedTables,  \* index to LoadedTable
          pc,              \* where fetch is
          call,            \* the index and id being fetched
          result,          \* how the last fetch ended
          lost             \* history: the tables whose index file was not read

vars == <<m_loadedDefs, m_loadedTables, pc, call, result, lost>>

(* An object is known by the table and the row it was made from; Null is the  *)
(* null pointer.  A fetch ends with one of them or by throwing.              *)
Object == [index : DefIndices, id : Ids]
Null == [null |-> TRUE]
Thrown == [thrown |-> TRUE]
NoResult == [pending |-> TRUE]

EmptyTable == [lookup |-> {}, data |-> FALSE, flags |-> 0, version |-> 0]

(* Mutant of CacheKey: the index is not shifted into the key.               *)
UnshiftedKey(index, id) == id

CacheKey(index, id) == index * IdSpace + id

(* The key under which line 90 files the object: the index alone.            *)
StoreKey(index, id) == index

(* Types, and what a LoadedTable holds by the time it has a version.        *)
TypeOK ==
  /\ \A key \in DOMAIN m_loadedDefs :
        key \in DefIndices /\ m_loadedDefs[key] \in Object \cup {Null}
  /\ DOMAIN m_loadedTables \subseteq DefIndices
  /\ \A index \in DOMAIN m_loadedTables :
        /\ m_loadedTables[index].lookup \in {{}, Rows[index]}
        /\ m_loadedTables[index].version \in {0, FileVersion[index]}
        /\ m_loadedTables[index].flags \in {0, Flags[index]}
        /\ m_loadedTables[index].version # 0 =>
             m_loadedTables[index].lookup = Rows[index] /\ m_loadedTables[index].data
  /\ pc \in {"idle", "index", "data", "header", "flags", "version"}
  /\ pc # "idle" => call \in Object /\ call.index \in DOMAIN m_loadedTables
  /\ result \in Object \cup {Null, Thrown, NoResult}
  /\ lost \subseteq DOMAIN m_loadedTables

Init ==
  /\ m_loadedDefs = <<>> /\ m_loadedTables = <<>>
  /\ pc = "idle" /\ call = <<>> /\ result = NoResult /\ lost = {}

Ends(outcome) == pc' = "idle" /\ result' = outcome /\ UNCHANGED call

-----------------------------------------------------------------------------
Fetch(index, id) ==
  LET key == CacheKey(index, id)
  IN  /\ pc = "idle"
      /\ call' = [index |-> index, id |-> id]
      /\ UNCHANGED <<m_loadedDefs, lost>>
      /\ \/ /\ id = 0
            /\ pc' = "idle" /\ result' = Null
            /\ UNCHANGED m_loadedTables
         \/ /\ id # 0 /\ key \in DOMAIN m_loadedDefs
            /\ pc' = "idle" /\ result' = m_loadedDefs[key]
            /\ UNCHANGED m_loadedTables
         \/ /\ id # 0 /\ key \notin DOMAIN m_loadedDefs
            /\ result' = NoResult
            /\ \/ /\ index \in DOMAIN m_loadedTables
                  /\ pc' = "version"
                  /\ UNCHANGED m_loadedTables
               \/ /\ index \notin DOMAIN m_loadedTables
                  /\ pc' = "index"
                  /\ m_loadedTables' =
                       [i \in DOMAIN m_loadedTables \cup {index} |->
                          IF i = index THEN EmptyTable ELSE m_loadedTables[i]]

(* Mutant of LoadFails: the exception is swallowed where it is thrown.        *)
LoadGoesOn ==
  /\ pc \in {"index", "data"}
  /\ pc' = IF pc = "index" THEN "data" ELSE "header"
  /\ UNCHANGED <<m_loadedDefs, m_loadedTables, call, result, lost>>

(* One of the reads that load a table throws: the LoadedTable stays as it is  *)
(* (how much of the header was read before its version, which is read last,    *)
(* is never looked at).  The header is read from the data, and only data that   *)
(* is too short for it makes that throw.                                     *)
LoadFails ==
  /\ \/ pc \in {"index", "data"}
     \/ pc = "header" /\ call.index \notin HasHeader
  /\ lost' = IF pc = "index" THEN lost \cup {call.index} ELSE lost
  /\ Ends(Thrown)
  /\ UNCHANGED <<m_loadedDefs, m_loadedTables>>

(* One of those reads returns: the LoadedTable becomes table.                *)
Loads(from, to, table) ==
  /\ pc = from /\ pc' = to
  /\ m_loadedTables' = [m_loadedTables EXCEPT ![call.index] = table]
  /\ UNCHANGED <<m_loadedDefs, call, result, lost>>

LoadIndex ==
  Loads("index", "data",
        [m_loadedTables[call.index] EXCEPT !.lookup = Rows[call.index]])

LoadData ==
  Loads("data", "header", [m_loadedTables[call.index] EXCEPT !.data = TRUE])

LoadHeader ==
  /\ pc = "header" /\ call.index \in HasHeader
  /\ Loads("header", "flags",
           [m_loadedTables[call.index] EXCEPT !.flags = Flags[call.index],
                                              !.version = FileVersion[call.index]])

CheckFlags ==
  /\ pc = "flags"
  /\ \/ m_loadedTables[call.index].flags = ClientFlags
        /\ pc' = "version" /\ UNCHANGED <<call, result>>
     \/ m_loadedTables[call.index].flags # ClientFlags /\ Ends(Thrown)
  /\ UNCHANGED <<m_loadedDefs, m_loadedTables, lost>>

(* Mutant of VersionMatches: a table of an older version will do.            *)
VersionAtMost == DefVersion[call.index] >= m_loadedTables[call.index].version

VersionMatches == DefVersion[call.index] = m_loadedTables[call.index].version

UnsupportedVersion ==
  /\ pc = "version" /\ ~VersionMatches
  /\ Ends(Thrown)
  /\ UNCHANGED <<m_loadedDefs, m_loadedTables, lost>>

(* emplace: an object that is already filed under the key stays.             *)
Store(object) ==
  LET key == StoreKey(call.index, call.id)
  IN  m_loadedDefs' = [k \in DOMAIN m_loadedDefs \cup {key} |->
                         IF k \in DOMAIN m_loadedDefs THEN m_loadedDefs[k] ELSE object]

(* The data can hold a row: it was read, and it is longer than a header, since *)
(* a row is three lengths and a zlib stream, more than the longest header.     *)
DataHasRows == m_loadedTables[call.index].data /\ call.index \in HasHeader

ReadRow ==
  LET found == call.id \in m_loadedTables[call.index].lookup
      object == IF found THEN call ELSE Null
  IN  /\ pc = "version" /\ VersionMatches
      /\ found => DataHasRows
      /\ Store(object)
      /\ Ends(object)
      /\ UNCHANGED <<m_loadedTables, lost>>

(* The row does not deserialize: the object is dropped with the exception.   *)
RowFails ==
  /\ pc = "version" /\ VersionMatches
  /\ call.id \in m_loadedTables[call.index].lookup
  /\ Ends(Thrown)
  /\ UNCHANGED <<m_loadedDefs, m_loadedTables, lost>>

Clear ==
  /\ pc = "idle"
  /\ m_loadedDefs' = <<>>
  /\ result' = NoResult
  /\ UNCHANGED <<m_loadedTables, pc, call, lost>>

Next ==
  \/ \E index \in DefIndices, id \in Ids : Fetch(index, id)
  \/ LoadIndex \/ LoadData \/ LoadHeader \/ LoadFails
  \/ CheckFlags \/ UnsupportedVersion \/ ReadRow \/ RowFails
  \/ Clear

Spec == Init /\ [][Next]_vars

-----------------------------------------------------------------------------
(* Properties                                                              *)

Finished == pc = "idle" /\ result \notin {NoResult, Thrown}

(* A fetch never hands out the object of another row or another table: the    *)
(* object is cast to the caller's DefType unchecked.                         *)
FetchReturnsRequested == Finished /\ result # Null => result = call

(* The exception: a table compiled for version 0 whose index file could not be  *)
(* read.  Its LoadedTable has no row and version 0, and the next fetch takes     *)
(* that for a loaded table of the version it asks for.                        *)
LooksLoaded(index) == DefVersion[index] = 0 /\ index \in lost

(* A fetch says that a row does not exist only if it does not, even after      *)
(* loads that failed half way, except in a table that only looks loaded.       *)
NullMeansAbsent ==
  Finished /\ result = Null =>
    call.id = 0 \/ call.id \notin Rows[call.index] \/ LooksLoaded(call.index)

(* Both hold of every table but table 0, whose keys are the indices under     *)
(* which the objects of the other tables are filed.                          *)
FetchIsExact ==
  Finished /\ call.index # 0 => FetchReturnsRequested /\ NullMeansAbsent

(* A row is only ever read from a table of the version compiled for, version 0  *)
(* and loads that failed half way included.  (Not so of the flags: a table they *)
(* refuse is read by the next fetch.)                                        *)
OnlySupportedVersions ==
  Finished /\ result # Null => FileVersion[result.index] = DefVersion[result.index]
=============================================================================
