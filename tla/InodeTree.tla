------------------------------ MODULE InodeTree ------------------------------
(***************************************************************************)
(* How ProjectedFilesystem::initialize fills m_files and the inode tree from  *)
(* the archives and the file tables: MountContents takes both as constants,   *)
(* here they are built and the same reference is asked of the result.         *)
(*                                                                         *)
(* The tree is a function of paths: an inode is found by the names from the    *)
(* root to it, which compare without case.  External: the archives (key to     *)
(* size) in the order they were given, and the file tables in the order they   *)
(* were loaded.  A file table is a hash table, so its entries come in any      *)
(* order.  A name that does not begin with a separator is not rooted; the      *)
(* empty name and the separator alone are both the empty path.               *)
(***************************************************************************)
EXTENDS ByIdNames, SequencesExt

CONSTANTS Archives,     \* sequence of functions: key to size
          FileTables,   \* the sequences of file tables that may be loaded
          Placeholder   \* the name "placeholder"

FileName == [rooted : BOOLEAN, path : Path, key : Keys]

ASSUME TreeAssumption ==
  /\ Archives \in Seq(ToSet(Archives))
  /\ \A archive \in ToSet(Archives) :
        /\ DOMAIN archive \subseteq Keys
        /\ \A key \in DOMAIN archive : archive[key] \in Nat
  /\ \A loaded \in FileTables : loaded \in Seq(SUBSET FileName)
  /\ Placeholder \in Name \ Bytes

VARIABLES tables,     \* the file tables loaded, never changed
          m_files,    \* key to size
          inodes,     \* path to Inode
          pc,         \* what initialize is doing
          at,         \* the archive or the file table it is at
          seen,       \* what it has seen of that: keys, or names
          creating    \* the file name given to createInode

vars == <<tables, m_files, inodes, pc, at, seen, creating>>

Mount == INSTANCE MountContents WITH m_files <- m_files, Inodes <- inodes

DirectoryInode == [info |-> Mount!DirectoryInfo, fileKey |-> -1]

(* What createInode makes for a file: its fileKey is as make_unique leaves it. *)
FileInode == [info |-> Mount!FileInfo(0), fileKey |-> 0]

ByIdPlaceholder == <<ByIdName, Placeholder>>

(* createInode(L"\\by-id\\placeholder"), which publishes no file.           *)
PlaceholderName == [rooted |-> TRUE, path |-> ByIdPlaceholder]

Init ==
  /\ tables \in FileTables
  /\ m_files = <<>> /\ inodes = [path \in {<<>>} |-> DirectoryInode]
  /\ pc = "files" /\ at = 1 /\ seen = {} /\ creating = PlaceholderName

-----------------------------------------------------------------------------
(* enumerateFiles                                                          *)

(* Mutant of Emplace: insert_or_assign.                                     *)
Assign(key, size) ==
  m_files' = [k \in DOMAIN m_files \cup {key} |-> IF k = key THEN size ELSE m_files[k]]

(* emplace: the size in the first archive that holds the key stays.         *)
Emplace(key, size) ==
  m_files' = [k \in DOMAIN m_files \cup {key} |->
                IF k \in DOMAIN m_files THEN m_files[k] ELSE size]

AddFile ==
  /\ pc = "files" /\ at <= Len(Archives)
  /\ \E key \in DOMAIN Archives[at] \ seen :
       /\ Emplace(key, Archives[at][key])
       /\ seen' = seen \cup {key}
  /\ UNCHANGED <<tables, inodes, pc, at, creating>>

NextArchive ==
  /\ pc = "files" /\ at <= Len(Archives)
  /\ seen = DOMAIN Archives[at]
  /\ at' = at + 1 /\ seen' = {}
  /\ UNCHANGED <<tables, m_files, inodes, pc, creating>>

AllFilesAdded ==
  /\ pc = "files" /\ at > Len(Archives)
  /\ pc' = "create" /\ at' = 1
  /\ UNCHANGED <<tables, m_files, inodes, seen, creating>>

-----------------------------------------------------------------------------
(* createInode.  Each round walks the path from the root (pathToInode).     *)

Missing(path) == {i \in 1 .. Len(path) : SubSeq(path, 1, i) \notin DOMAIN inodes}

(* The walk stops at a component before the last that is not there.          *)
MissingDirectory(path) == \E i \in Missing(path) : i < Len(path)

FirstMissing(path) ==
  SubSeq(path, 1, CHOOSE i \in Missing(path) : \A j \in Missing(path) : i <= j)

Insert(path, inode) ==
  inodes' = [p \in DOMAIN inodes \cup {path} |-> IF p = path THEN inode ELSE inodes[p]]

Walks == pc = "create" /\ (creating.rooted \/ creating.path = <<>>)

(* Mutant of MakeDirectory: IsDirectory is FALSE as for the last name.        *)
MakeFileOnTheWay ==
  /\ Walks /\ MissingDirectory(creating.path)
  /\ Insert(FirstMissing(creating.path), FileInode)
  /\ UNCHANGED <<tables, m_files, pc, at, seen, creating>>

(* Mutant of MakeDirectory: the new inode is not inserted.                    *)
MakeNothing ==
  /\ Walks /\ MissingDirectory(creating.path)
  /\ UNCHANGED vars

(* pathToInode returned false: one directory, then the next round.           *)
MakeDirectory ==
  /\ Walks /\ MissingDirectory(creating.path)
  /\ Insert(FirstMissing(creating.path), DirectoryInode)
  /\ UNCHANGED <<tables, m_files, pc, at, seen, creating>>

MakeFile ==
  /\ Walks /\ ~MissingDirectory(creating.path) /\ Missing(creating.path) # {}
  /\ Insert(creating.path, FileInode)
  /\ UNCHANGED <<tables, m_files, pc, at, seen, creating>>

(* parentInode is null when the first component is not empty: the insertion   *)
(* into its children ends the process.                                       *)
InsertIntoNull ==
  /\ pc = "create" /\ ~creating.rooted /\ creating.path # <<>>
  /\ pc' = "crashed"
  /\ UNCHANGED <<tables, m_files, inodes, at, seen, creating>>

-----------------------------------------------------------------------------
(* enumerateFileNames and its enumerator                                    *)

(* Mutant of Publish: IsDirectory is left as it was.                         *)
PublishKeepsKind ==
  /\ Walks /\ Missing(creating.path) = {}
  /\ creating # PlaceholderName
  /\ inodes' = [inodes EXCEPT ![creating.path] =
       [info |-> [@.info EXCEPT !.size = m_files[creating.key]],
        fileKey |-> creating.key]]
  /\ pc' = "names"
  /\ UNCHANGED <<tables, m_files, at, seen, creating>>

(* createInode has returned the inode of the name, new or not: it becomes the  *)
(* file, whatever it was and whatever is below it.                            *)
Publish ==
  /\ Walks /\ Missing(creating.path) = {}
  /\ creating # PlaceholderName
  /\ inodes' = [inodes EXCEPT ![creating.path] =
       [info |-> Mount!FileInfo(m_files[creating.key]), fileKey |-> creating.key]]
  /\ pc' = "names"
  /\ UNCHANGED <<tables, m_files, at, seen, creating>>

PlaceholderMade ==
  /\ Walks /\ Missing(creating.path) = {}
  /\ creating = PlaceholderName
  /\ pc' = "names"
  /\ UNCHANGED <<tables, m_files, inodes, at, seen, creating>>

TakeName ==
  /\ pc = "names" /\ at <= Len(tables)
  /\ \E name \in tables[at] \ seen :
       /\ seen' = seen \cup {name}
       /\ IF name.key \in DOMAIN m_files
          THEN creating' = name /\ pc' = "create"
          ELSE UNCHANGED <<creating, pc>>
  /\ UNCHANGED <<tables, m_files, inodes, at>>

NextTable ==
  /\ pc = "names" /\ at <= Len(tables)
  /\ seen = tables[at]
  /\ at' = at + 1 /\ seen' = {}
  /\ UNCHANGED <<tables, m_files, inodes, pc, creating>>

Finish ==
  /\ pc = "names" /\ at > Len(tables)
  /\ pc' = "done"
  /\ UNCHANGED <<tables, m_files, inodes, at, seen, creating>>

Next ==
  \/ AddFile \/ NextArchive \/ AllFilesAdded
  \/ MakeDirectory \/ MakeFile \/ InsertIntoNull
  \/ PlaceholderMade \/ Publish
  \/ TakeName \/ NextTable \/ Finish

Spec == Init /\ [][Next]_vars

(* initialize is one call on one thread.                                    *)
FairSpec == Spec /\ WF_vars(Next)

-----------------------------------------------------------------------------
(* Properties                                                              *)

(* A key is announced with its size in the archive that a read of the key is   *)
(* served from, the first one that holds it.                                *)
SizesOfFirstArchive ==
  pc # "files" =>
    /\ DOMAIN m_files = UNION {DOMAIN archive : archive \in ToSet(Archives)}
    /\ \A key \in DOMAIN m_files, i \in DOMAIN Archives :
         key \in DOMAIN Archives[i] =>
           \/ m_files[key] = Archives[i][key]
           \/ \E j \in 1 .. i - 1 : key \in DOMAIN Archives[j]

(* The names that are published, and the tables that name a path.            *)
Published(i) == {name \in tables[i] : name.key \in DOMAIN m_files}
Names == UNION {Published(i) : i \in DOMAIN tables}
PublishedPaths == {name.path : name \in Names}
TablesNaming(path) == {i \in DOMAIN tables : \E name \in Published(i) : name.path = path}

(* When initialize returns, the tree holds the published names and what is     *)
(* above them, and nothing else; a name is the file that the last table to      *)
(* name it says, every other inode a directory.  The order in which the names   *)
(* of a table come does not matter otherwise.                                *)
TreeIsExact ==
  pc = "done" =>
    /\ DOMAIN inodes =
         UNION {Prefixes(path) : path \in PublishedPaths \cup {ByIdPlaceholder}}
    /\ \A path \in DOMAIN inodes :
         IF path \in PublishedPaths
         THEN \E i \in TablesNaming(path) :
                /\ \A j \in TablesNaming(path) : j <= i
                /\ \E name \in Published(i) :
                     /\ name.path = path
                     /\ inodes[path] = [info |-> Mount!FileInfo(m_files[name.key]),
                                        fileKey |-> name.key]
         ELSE inodes[path] = IF path = ByIdPlaceholder THEN FileInode ELSE DirectoryInode

(* Who lists the directories from the root down finds every published file,    *)
(* with its size, unless another file is published under the name of one of    *)
(* these directories, or the name lies in \by-id.                            *)
Conflict(path) == \E i \in 0 .. Len(path) - 1 : SubSeq(path, 1, i) \in PublishedPaths

FilesAreListed ==
  pc = "done" =>
    \A path \in PublishedPaths \ {<<>>} :
      ~Conflict(path) /\ path[1] # ByIdName =>
        \A i \in 1 .. Len(path) :
          LET directory == SubSeq(path, 1, i - 1)
              info == Mount!EntryInfo(directory, path[i])
          IN  /\ path[i] \in Mount!EntryNames(directory)
              /\ IF i < Len(path)
                 THEN info.isDirectory
                 ELSE info = Mount!FileInfo(m_files[inodes[path].fileKey])

(* initialize comes to an end, and before its end only over a published name    *)
(* without a leading separator.                                             *)
BuildEnds == <>(pc = "done" \/ (pc = "crashed" /\ ~creating.rooted))
=============================================================================
