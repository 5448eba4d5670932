----------------------------- MODULE FileLookup -----------------------------
(***************************************************************************)
(* getPlaceholderInfo and getFileData of ProjectedFilesystem: what ProjFS    *)
(* learns about one path, and the bytes of a file.  Both parse the path as    *)
(* \by-id first and fall back on the inode tree.  They share nothing that     *)
(* changes with any other callback, so one call at a time is modelled, one    *)
(* step per component of the path and one for the answer.                    *)
(***************************************************************************)
EXTENDS MountContents, SequencesExt

CONSTANTS PathsAsked,      \* the paths asked about
          Offsets,    \* byteOffset of a read
          Lengths,    \* length of a read
          DataSize    \* key to the size of what Filesystem::readFileByKey
                      \* returns, for the keys for which it does not throw

ASSUME LookupAssumption ==
  /\ PathsAsked \subseteq Path
  /\ Offsets \subseteq Nat /\ Lengths \subseteq Nat
  /\ DOMAIN DataSize \subseteq Keys
  /\ \A key \in DOMAIN DataSize : DataSize[key] \in Nat

(* initialize makes the directory \by-id, no name in a file table turns it into  *)
(* a file, and names are published for known keys only.                      *)
ASSUME TreeAssumption ==
  /\ <<ByIdName>> \in DOMAIN Inodes
  /\ Inodes[<<ByIdName>>].info = DirectoryInfo
  /\ DOMAIN m_files = {} =>
       DOMAIN Inodes \subseteq {<<>>, <<ByIdName>>} \cup {<<ByIdName, name>> : name \in Name}

VARIABLES stage, query, reply

lookupVars == <<stage, query, reply>>

Ok == "S_OK"
FileNotFound == "ERROR_FILE_NOT_FOUND"
IsADirectory == "ERROR_DIRECTORY"
GeneralFailure == "ERROR_GEN_FAILURE"

NoReply == <<>>

LookupInit == stage = "idle" /\ query = <<>> /\ reply = NoReply

Call(op, path, byteOffset, length) ==
  /\ stage = "idle"
  /\ stage' = "parse"
  /\ query' = [op |-> op, path |-> path, cursor |-> ParseBegin, byID |-> FALSE,
               byteOffset |-> byteOffset, length |-> length]
  /\ reply' = NoReply

GetPlaceholderInfo(path) == Call("getPlaceholderInfo", path, 0, 0)

GetFileData(path, byteOffset, length) ==
  Call("getFileData", path, byteOffset, length)

ParsePart ==
  /\ stage = "parse"
  /\ IF ParseDone(query.path, query.cursor) \/ ParseRejects(query.path, query.cursor)
     THEN /\ query' = [query EXCEPT
               !.byID = ParseDone(query.path, query.cursor) /\ Len(query.path) > 0]
          /\ stage' = "answer"
     ELSE /\ query' = [query EXCEPT !.cursor = ParseNext(query.path, query.cursor)]
          /\ UNCHANGED stage
  /\ UNCHANGED reply

(* Mutant of RangeEmpty: lower_bound in place of upper_bound.               *)
RangeEmptyBelowLast(cursor) == LowerBound(cursor.firstID) = LowerBound(cursor.lastID)

(* lower_bound(firstID) == upper_bound(lastID)                             *)
RangeEmpty(cursor) == LowerBound(cursor.firstID) = UpperBound(cursor.lastID)

IsRange(cursor) == cursor.firstID # cursor.lastID

PlaceholderStatus ==
  IF query.byID
  THEN IF IF IsRange(query.cursor) THEN RangeEmpty(query.cursor)
          ELSE query.cursor.firstID \notin DOMAIN m_files
       THEN FileNotFound ELSE Ok
  ELSE IF query.path \in DOMAIN Inodes THEN Ok ELSE FileNotFound

PlaceholderInfo ==
  IF ~query.byID THEN Inodes[query.path].info
  ELSE IF IsRange(query.cursor) THEN DirectoryInfo
  ELSE FileInfo(m_files[query.cursor.firstID])

AnswerPlaceholderInfo ==
  /\ stage = "answer" /\ query.op = "getPlaceholderInfo"
  /\ reply' = [op |-> query.op, path |-> query.path, status |-> PlaceholderStatus,
               info |-> IF PlaceholderStatus = Ok THEN PlaceholderInfo ELSE NoReply]
  /\ stage' = "idle" /\ query' = <<>>

(* The key to read, once the path is known to name a file.                 *)
FileKey == IF query.byID THEN query.cursor.firstID ELSE Inodes[query.path].fileKey

PathStatus ==
  IF query.byID
  THEN IF IsRange(query.cursor)
       THEN IF RangeEmpty(query.cursor) THEN FileNotFound ELSE IsADirectory
       ELSE IF query.cursor.firstID \in DOMAIN m_files THEN Ok ELSE FileNotFound
  ELSE IF query.path \notin DOMAIN Inodes THEN FileNotFound
       ELSE IF Inodes[query.path].info.isDirectory THEN IsADirectory ELSE Ok

(* Mutant of RealLength: an offset past the end makes the rest of the file,   *)
(* computed without a sign, huge.                                            *)
RealLengthUnderflows(size) ==
  IF query.byteOffset > size THEN query.length
  ELSE Min({query.length, size - query.byteOffset})

RealLength(size) ==
  IF query.byteOffset > size THEN 0
  ELSE Min({query.length, size - query.byteOffset})

(* What is copied into the buffer and written at byteOffset: of the file with    *)
(* that key, the bytes at those places.                                      *)
FileBytes(key) ==
  [key |-> key,
   bytes |-> query.byteOffset .. query.byteOffset + RealLength(DataSize[key]) - 1]

AnswerFileData ==
  LET status == IF PathStatus = Ok /\ FileKey \notin DOMAIN DataSize
                THEN GeneralFailure ELSE PathStatus
  IN  /\ stage = "answer" /\ query.op = "getFileData"
      /\ reply' = [op |-> query.op, path |-> query.path, status |-> status,
                   byteOffset |-> query.byteOffset, length |-> query.length,
                   data |-> IF status = Ok THEN FileBytes(FileKey) ELSE NoReply]
      /\ stage' = "idle" /\ query' = <<>>

LookupNext ==
  \/ \E path \in PathsAsked :
       \/ GetPlaceholderInfo(path)
       \/ \E byteOffset \in Offsets, length \in Lengths :
            GetFileData(path, byteOffset, length)
  \/ ParsePart
  \/ AnswerPlaceholderInfo
  \/ AnswerFileData

LookupSpec == LookupInit /\ [][LookupNext]_lookupVars

-----------------------------------------------------------------------------
(* Properties                                                              *)

(* The parse loop never leaves the 64-bit key space and never selects an      *)
(* empty or inverted range.                                                  *)
LookupTypeOK ==
  /\ stage \in {"idle", "parse", "answer"}
  /\ stage # "idle" => /\ query.path \in PathsAsked
                       /\ query.cursor \in Cursor
                       /\ query.cursor.firstID <= query.cursor.lastID
                       /\ query.byID => IsByIDPath(query.path)

Answered(op) == reply # NoReply /\ reply.op = op

(* An inode in a \by-id directory is in no listing of that directory.       *)
Unlisted(directory, name) == IsByIDDirectory(directory) /\ name \notin Bytes

(* A name can be opened if and only if the listing of its directory shows it, *)
(* and it opens as what the listing shows, a directory or a file of that       *)
(* size.  (The root lists by-id although it cannot be opened when no archive  *)
(* holds a file.)                                                             *)
LookupAgreesWithListing ==
  Answered("getPlaceholderInfo") /\ reply.path # <<>> =>
    LET directory == Front(reply.path)
        name == Last(reply.path)
    IN  IF Unlisted(directory, name)
        THEN reply.status = Ok <=> reply.path \in DOMAIN Inodes
        ELSE /\ reply.status = Ok <=>
                  name \in EntryNames(directory) /\ DOMAIN m_files # {}
             /\ reply.status = Ok => reply.info = EntryInfo(directory, name)

(* What a path names: a file of the archives by its key, or one that was published *)
(* under the path; a directory of \by-id with files under it, or one of the tree. *)
FilesNamed(path) ==
  IF IsByIDPath(path) THEN IF Len(path) > Digits THEN FilesUnder(path) ELSE {}
  ELSE {Inodes[p].fileKey : p \in {q \in DOMAIN Inodes : q = path /\ ~Inodes[q].info.isDirectory}}

IsDirectoryPath(path) ==
  IF IsByIDPath(path) THEN Len(path) <= Digits /\ FilesUnder(path) # {}
  ELSE path \in DOMAIN Inodes /\ Inodes[path].info.isDirectory

(* A read of a file, by its key or by a name published for it, writes the bytes of *)
(* that file's data, and only those, that lie in the window asked for: as many as  *)
(* there are, not as many as its size was announced to be, and none past the end.  *)
(* A directory, a path that names nothing and a file whose data cannot be read are *)
(* told apart (getFileData).                                                 *)
ReadClipped ==
  Answered("getFileData") =>
    LET window == reply.byteOffset .. reply.byteOffset + reply.length - 1
    IN  IF IsDirectoryPath(reply.path) THEN reply.status = IsADirectory
        ELSE IF FilesNamed(reply.path) = {} THEN reply.status = FileNotFound
        ELSE \A key \in FilesNamed(reply.path) :
               IF key \in DOMAIN DataSize
               THEN /\ reply.status = Ok
                    /\ reply.data = [key |-> key,
                                     bytes |-> window \cap (0 .. DataSize[key] - 1)]
               ELSE reply.status = GeneralFailure
=============================================================================
