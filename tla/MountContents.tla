--------------------------- MODULE MountContents ---------------------------
(***************************************************************************)
(* What the projected filesystem serves once initialize has returned, and  *)
(* what a caller may expect to find under a path.                          *)
(*                                                                         *)
(* m_files maps each known file key to its size.  Inodes is the tree that   *)
(* createInode built from the file names: a path to the inode's             *)
(* PRJ_FILE_BASIC_INFO (isDirectory, size) and its fileKey.  Neither        *)
(* changes while callbacks run, so both are constants here.                 *)
(***************************************************************************)
EXTENDS ByIdNames, FiniteSetsExt

CONSTANTS m_files, Inodes

Info == [isDirectory : BOOLEAN, size : Nat]
DirectoryInfo == [isDirectory |-> TRUE, size |-> 0]
FileInfo(size) == [isDirectory |-> FALSE, size |-> size]

FilesAreKeyed ==
  /\ DOMAIN m_files \subseteq Keys
  /\ \A key \in DOMAIN m_files : m_files[key] \in Nat

(* An inode's fileKey is a key, or -1 (uint64_t(-1)) when none was set.    *)
TreeIsRooted ==
  /\ DOMAIN Inodes \subseteq Path
  /\ \A path \in DOMAIN Inodes :
        Inodes[path] \in [info : Info, fileKey : Keys \cup {-1}]
  /\ <<>> \in DOMAIN Inodes
  /\ Inodes[<<>>].info = DirectoryInfo

ASSUME FilesAssumption == FilesAreKeyed
ASSUME InodesAssumption == TreeIsRooted

(* Inode::children, as the names under which they are filed.               *)
Children(path) == {name \in Name : Append(path, name) \in DOMAIN Inodes}

-----------------------------------------------------------------------------
(* std::map<uint64_t, size_t> as the callbacks use it.  EndOfFiles stands   *)
(* for m_files.end().                                                      *)

EndOfFiles == KeySpace

FirstOrEnd(keys) == IF keys = {} THEN EndOfFiles ELSE Min(keys)

LowerBound(id) == FirstOrEnd({key \in DOMAIN m_files : key >= id})
UpperBound(id) == FirstOrEnd({key \in DOMAIN m_files : key > id})

-----------------------------------------------------------------------------
(* The reference: what is published under a path, from the digits of the   *)
(* keys and the tree alone.  No callback computes this.                     *)

Entry == [name : Name, info : Info]

FilesUnder(path) == KeysUnder(path) \cap DOMAIN m_files

ByIdInfo(path) ==
  IF Len(path) = Digits + 1
  THEN FileInfo(m_files[CHOOSE key \in FilesUnder(path) : TRUE])
  ELSE DirectoryInfo

(* The names a listing of the directory must produce.  \by-id lists keys    *)
(* only: the inode \by-id\placeholder exists and is in no listing.          *)
EntryNames(path) ==
  IF IsByIDDirectory(path)
  THEN {name \in Bytes : FilesUnder(Append(path, name)) # {}}
  ELSE Children(path)

EntryInfo(path, name) ==
  IF IsByIDDirectory(path) THEN ByIdInfo(Append(path, name))
                           ELSE Inodes[Append(path, name)].info

Contents(path) ==
  {[name |-> name, info |-> EntryInfo(path, name)] : name \in EntryNames(path)}

=============================================================================
