--------------------------- MODULE InodeTree_proofs ---------------------------
(***************************************************************************)
(* Proofs about InodeTree, for any archives, any file tables and any names:     *)
(* the tree that initialize leaves is exactly that of the published names, with  *)
(* the sizes of the first archive, and it is what MountContents assumes.         *)
(*                                                                         *)
(* The order in which the names of a table come is open, so the invariant says  *)
(* of every moment which names have been published (Taken) and what the tree is  *)
(* then: closed under prefixes, with nothing in it that is not above a taken     *)
(* name, the placeholder or the name at hand, and with the inode of the last     *)
(* table that has been taken under every path.                               *)
(***************************************************************************)
EXTENDS InodeTree, ByIdNames_proofs

Shape ==
  /\ tables \in FileTables
  /\ DOMAIN m_files \subseteq Keys
  /\ \A key \in DOMAIN m_files : m_files[key] \in Nat
  /\ DOMAIN inodes \subseteq Path
  /\ inodes = [path \in DOMAIN inodes |-> inodes[path]]
  /\ \A path \in DOMAIN inodes :
        inodes[path] \in [info : Mount!Info, fileKey : Keys \cup {-1}]
  /\ pc \in {"files", "create", "names", "done", "crashed"}
  /\ at \in Nat \ {0}

(* What has been seen belongs to the archive, or to the file table, it is at.    *)
Progress ==
  /\ pc = "files" =>
       /\ at \in 1 .. Len(Archives) + 1
       /\ seen \subseteq IF at <= Len(Archives) THEN DOMAIN Archives[at] ELSE {}
       /\ inodes = [path \in {<<>>} |-> DirectoryInode]
       /\ creating = PlaceholderName
  /\ pc # "files" =>
       /\ at \in 1 .. Len(tables) + 1
       /\ seen \subseteq IF at <= Len(tables) THEN tables[at] ELSE {}
  /\ pc = "create" =>
       \/ creating = PlaceholderName /\ at = 1 /\ seen = {}
       \/ creating \in seen /\ creating.key \in DOMAIN m_files
  /\ pc = "done" => at = Len(tables) + 1

(* The keys of an archive that have been emplaced.                            *)
Emplaced(i) ==
  {key \in DOMAIN Archives[i] : pc = "files" => i < at \/ (i = at /\ key \in seen)}

IsFirstWith(i, key) ==
  /\ key \in DOMAIN Archives[i]
  /\ \A j \in 1 .. i - 1 : key \notin DOMAIN Archives[j]

Files ==
  /\ DOMAIN m_files = UNION {Emplaced(i) : i \in DOMAIN Archives}
  /\ \A key \in DOMAIN m_files : \E i \in DOMAIN Archives :
        IsFirstWith(i, key) /\ m_files[key] = Archives[i][key]

(* The names of a file table that have been published.                         *)
Taken(i) ==
  {name \in Published(i) :
     \/ i < at
     \/ i = at /\ name \in seen /\ ~(pc = "create" /\ name = creating)}

TakenPaths == {name.path : name \in UNION {Taken(i) : i \in DOMAIN tables}}

FileOf(name) == [info |-> Mount!FileInfo(m_files[name.key]), fileKey |-> name.key]

(* The inode of a path is that of a name taken from the last table to name it.   *)
IsOfLastTable(path) ==
  \E i \in DOMAIN tables :
    /\ \E name \in Taken(i) : name.path = path /\ inodes[path] = FileOf(name)
    /\ \A j \in DOMAIN tables : (\E name \in Taken(j) : name.path = path) => j <= i

AtHand == IF pc = "create" THEN {creating.path} ELSE {}

Wanted == TakenPaths \cup {ByIdPlaceholder} \cup AtHand

PlaceholderThere == pc # "create" \/ creating # PlaceholderName

Closed ==
  /\ <<>> \in DOMAIN inodes
  /\ \A path \in DOMAIN inodes : Prefixes(path) \subseteq DOMAIN inodes

NothingElse == \A path \in DOMAIN inodes : \E below \in Wanted : path \in Prefixes(below)

AllThere ==
  /\ TakenPaths \subseteq DOMAIN inodes
  /\ PlaceholderThere => ByIdPlaceholder \in DOMAIN inodes

Kinds ==
  \A path \in DOMAIN inodes :
    IF path \in TakenPaths
    THEN IsOfLastTable(path)
    ELSE IF path = ByIdPlaceholder
         THEN inodes[path] = FileInode
         ELSE path \in AtHand \/ inodes[path] = DirectoryInode

Tree ==
  pc \in {"create", "names", "done"} => Closed /\ NothingElse /\ AllThere /\ Kinds

IInv == Shape /\ Progress /\ Files /\ Tree

-----------------------------------------------------------------------------
(* Paths and their prefixes.                                                 *)

LEMMA EndOfInterval ==
  ASSUME NEW n \in Nat, NEW i \in 0 .. n
  PROVE  (i < n \/ i = n) /\ (i = 0 \/ i \in 1 .. n)
  OBVIOUS

LEMMA PrefixOfPath ==
  ASSUME NEW path \in Path, NEW n \in 0 .. Len(path)
  PROVE  /\ SubSeq(path, 1, n) \in Path /\ Len(SubSeq(path, 1, n)) = n
         /\ \A i \in 1 .. n : SubSeq(path, 1, n)[i] = path[i]
<1>1. Len(path) \in Nat /\ \A i \in 1 .. n : path[i] \in Name
  BY DEF Path
<1> QED
  BY <1>1 DEF Path

LEMMA SamePaths ==
  ASSUME NEW p \in Path, NEW q \in Path, Len(p) = Len(q),
         \A i \in 1 .. Len(p) : p[i] = q[i]
  PROVE  p = q
  BY DEF Path

LEMMA PrefixOfPrefix ==
  ASSUME NEW path \in Path, NEW n \in 0 .. Len(path), NEW m \in 0 .. n
  PROVE  SubSeq(SubSeq(path, 1, n), 1, m) = SubSeq(path, 1, m)
<1> DEFINE p == SubSeq(path, 1, n)
<1>1. /\ p \in Path /\ Len(p) = n /\ m \in 0 .. Len(p) /\ m \in 0 .. Len(path)
      /\ \A i \in 1 .. n : p[i] = path[i]
  <2>1. Len(path) \in Nat
    BY DEF Path
  <2> QED
    BY <2>1, PrefixOfPath
<1> HIDE DEF p
<1>2. /\ SubSeq(p, 1, m) \in Path /\ Len(SubSeq(p, 1, m)) = m
      /\ \A i \in 1 .. m : SubSeq(p, 1, m)[i] = p[i]
  BY <1>1, PrefixOfPath
<1>3. /\ SubSeq(path, 1, m) \in Path /\ Len(SubSeq(path, 1, m)) = m
      /\ \A i \in 1 .. m : SubSeq(path, 1, m)[i] = path[i]
  BY <1>1, PrefixOfPath
<1>4. \A i \in 1 .. m : SubSeq(p, 1, m)[i] = SubSeq(path, 1, m)[i]
  BY <1>1, <1>2, <1>3
<1>5. SubSeq(p, 1, m) = SubSeq(path, 1, m)
  BY <1>2, <1>3, <1>4, SamePaths
<1> QED
  BY <1>5 DEF p

LEMMA EmptyAndWholePrefix ==
  ASSUME NEW path \in Path
  PROVE  /\ Len(path) \in Nat
         /\ <<>> \in Path /\ SubSeq(path, 1, 0) = <<>>
         /\ SubSeq(path, 1, Len(path)) = path
<1>1. Len(path) \in Nat /\ <<>> \in Path /\ Len(<<>>) = 0
  BY DEF Path
<1>2. SubSeq(path, 1, 0) = <<>>
  <2>1. SubSeq(path, 1, 0) \in Path /\ Len(SubSeq(path, 1, 0)) = 0
    BY <1>1, PrefixOfPath
  <2> QED
    BY <1>1, <2>1, SamePaths
<1>3. SubSeq(path, 1, Len(path)) = path
  <2>1. Len(path) \in 0 .. Len(path)
    BY <1>1
  <2> QED
    BY <2>1, PrefixOfPath, SamePaths
<1> QED
  BY <1>1, <1>2, <1>3

LEMMA PrefixesOfPath ==
  ASSUME NEW path \in Path
  PROVE  /\ Prefixes(path) \subseteq Path
         /\ path \in Prefixes(path) /\ <<>> \in Prefixes(path)
         /\ \A p \in Prefixes(path) : Prefixes(p) \subseteq Prefixes(path)
<1>1. /\ Len(path) \in Nat /\ SubSeq(path, 1, 0) = <<>>
      /\ SubSeq(path, 1, Len(path)) = path
      /\ 0 \in 0 .. Len(path) /\ Len(path) \in 0 .. Len(path)
  BY EmptyAndWholePrefix
<1>2. Prefixes(path) \subseteq Path
  BY PrefixOfPath DEF Prefixes
<1>3. path \in Prefixes(path) /\ <<>> \in Prefixes(path)
  BY <1>1 DEF Prefixes
<1>4. ASSUME NEW p \in Prefixes(path), NEW q \in Prefixes(p) PROVE q \in Prefixes(path)
  <2>1. PICK n \in 0 .. Len(path) : p = SubSeq(path, 1, n)
    BY DEF Prefixes
  <2>2. Len(p) = n
    BY <2>1, PrefixOfPath
  <2>3. PICK m \in 0 .. n : q = SubSeq(p, 1, m)
    BY <2>2 DEF Prefixes
  <2>4. q = SubSeq(path, 1, m) /\ m \in 0 .. Len(path)
    BY <1>1, <2>1, <2>3, PrefixOfPrefix
  <2> QED
    BY <2>4 DEF Prefixes
<1> QED
  BY <1>2, <1>3, <1>4

LEMMA PlaceholderPath ==
  /\ ByIdPlaceholder \in Path /\ Len(ByIdPlaceholder) = 2
  /\ ByIdPlaceholder[1] = ByIdName /\ ByIdPlaceholder # <<>>
<1>1. ByIdName \in Name /\ Placeholder \in Name
  BY NameAssumption, TreeAssumption
<1> QED
  BY <1>1 DEF ByIdPlaceholder, Path

-----------------------------------------------------------------------------
(* The steps.                                                                *)

(* A name of a file table is not what createInode is first called with.         *)
LEMMA NameTypes ==
  ASSUME NEW loaded \in FileTables, NEW i \in DOMAIN loaded, NEW name \in loaded[i]
  PROVE  /\ name.path \in Path /\ name.key \in Keys
         /\ name # PlaceholderName
<1>1. name \in FileName
  BY TreeAssumption
<1>2. name # PlaceholderName
  <2>1. "key" \in DOMAIN name
    BY <1>1 DEF FileName
  <2>2. "key" \notin DOMAIN PlaceholderName
    BY DEF PlaceholderName
  <2> QED
    BY <2>1, <2>2
<1> QED
  BY <1>1, <1>2 DEF FileName

LEMMA TableTypes ==
  ASSUME NEW loaded \in FileTables
  PROVE  Len(loaded) \in Nat /\ DOMAIN loaded = 1 .. Len(loaded)
<1>1. loaded \in Seq(SUBSET FileName)
  BY TreeAssumption
<1> HIDE DEF FileName
<1> QED
  BY <1>1

LEMMA ArchiveTypes ==
  /\ Len(Archives) \in Nat /\ DOMAIN Archives = 1 .. Len(Archives)
  /\ \A i \in DOMAIN Archives :
       /\ DOMAIN Archives[i] \subseteq Keys
       /\ \A key \in DOMAIN Archives[i] : Archives[i][key] \in Nat
<1>1. Archives \in Seq(ToSet(Archives))
  BY TreeAssumption
<1>2. \A i \in DOMAIN Archives : Archives[i] \in ToSet(Archives)
  BY DEF ToSet
<1>3. Len(Archives) \in Nat /\ DOMAIN Archives = 1 .. Len(Archives)
  BY <1>1
<1> QED
  BY <1>2, <1>3, TreeAssumption

LEMMA InodeTypes ==
  /\ DirectoryInode = [info |-> [isDirectory |-> TRUE, size |-> 0], fileKey |-> -1]
  /\ FileInode = [info |-> [isDirectory |-> FALSE, size |-> 0], fileKey |-> 0]
  /\ Mount!Info = [isDirectory : BOOLEAN, size : Nat]
  /\ DirectoryInode \in [info : [isDirectory : BOOLEAN, size : Nat], fileKey : Keys \cup {-1}]
  /\ FileInode \in [info : [isDirectory : BOOLEAN, size : Nat], fileKey : Keys \cup {-1}]
<1>1. /\ DirectoryInode = [info |-> [isDirectory |-> TRUE, size |-> 0], fileKey |-> -1]
      /\ FileInode = [info |-> [isDirectory |-> FALSE, size |-> 0], fileKey |-> 0]
      /\ Mount!Info = [isDirectory : BOOLEAN, size : Nat]
  BY DEF DirectoryInode, FileInode, Mount!DirectoryInfo, Mount!FileInfo, Mount!Info
<1>2. 0 \in Keys
  BY SpanTypes DEF Keys
<1> QED
  BY <1>1, <1>2

(* What createInode walks to is a path.                                       *)
LEMMA CreatingTypes ==
  ASSUME Shape, Progress, pc = "create"
  PROVE  /\ creating.path \in Path
         /\ creating # PlaceholderName =>
              /\ at \in DOMAIN tables /\ creating \in tables[at] /\ creating \in seen
              /\ creating.key \in DOMAIN m_files /\ creating \in Published(at)
         /\ creating = PlaceholderName =>
              at = 1 /\ seen = {} /\ creating.path = ByIdPlaceholder
<1>1. Len(tables) \in Nat /\ DOMAIN tables = 1 .. Len(tables)
  BY TableTypes DEF Shape
<1>2. CASE creating = PlaceholderName /\ at = 1 /\ seen = {}
  BY <1>2, PlaceholderPath DEF PlaceholderName
<1>3. CASE creating \in seen /\ creating.key \in DOMAIN m_files
  <2>1. at \in DOMAIN tables /\ creating \in tables[at]
    BY <1>1, <1>3 DEF Progress
  <2>2. creating.path \in Path /\ creating # PlaceholderName
    BY <2>1, NameTypes DEF Shape
  <2> QED
    BY <1>3, <2>1, <2>2 DEF Published
<1> QED
  BY <1>2, <1>3 DEF Progress

(* The walk stops where the path leaves the tree.                              *)
LEMMA FirstMissingIsLeast ==
  ASSUME NEW path \in Path, <<>> \in DOMAIN inodes, Missing(path) # {}
  PROVE  \E i \in Missing(path) :
           /\ FirstMissing(path) = SubSeq(path, 1, i)
           /\ \A j \in Missing(path) : i <= j
           /\ \A j \in 0 .. i - 1 : SubSeq(path, 1, j) \in DOMAIN inodes
<1>1. Len(path) \in Nat /\ Missing(path) \in SUBSET Nat /\ SubSeq(path, 1, 0) = <<>>
  BY EmptyAndWholePrefix DEF Missing
<1>2. \E i \in Missing(path) : \A j \in Missing(path) : i <= j
  BY <1>1, MinOfNats
<1> DEFINE i == CHOOSE i \in Missing(path) : \A j \in Missing(path) : i <= j
<1>3. i \in Missing(path) /\ \A j \in Missing(path) : i <= j
  BY <1>2
<1>4. FirstMissing(path) = SubSeq(path, 1, i)
  BY DEF FirstMissing
<1> HIDE DEF i
<1>5. ASSUME NEW j \in 0 .. i - 1 PROVE SubSeq(path, 1, j) \in DOMAIN inodes
  <2>1. i \in 1 .. Len(path) /\ j \notin Missing(path)
    BY <1>1, <1>3 DEF Missing
  <2>2. CASE j = 0
    BY <1>1, <2>2
  <2>3. CASE j # 0
    BY <1>1, <2>1, <2>3 DEF Missing
  <2> QED
    BY <2>2, <2>3
<1> QED
  BY <1>3, <1>4, <1>5

(* createInode is called with what can be walked to, and makes one inode.        *)
LEMMA InsertTypes ==
  ASSUME Shape, NEW path \in Path, NEW inode,
         inode \in [info : [isDirectory : BOOLEAN, size : Nat], fileKey : Keys \cup {-1}],
         Insert(path, inode)
  PROVE  /\ DOMAIN inodes' = DOMAIN inodes \cup {path}
         /\ DOMAIN inodes' \subseteq Path
         /\ inodes' = [p \in DOMAIN inodes' |-> inodes'[p]]
         /\ \A p \in DOMAIN inodes' :
              inodes'[p] \in [info : [isDirectory : BOOLEAN, size : Nat],
                              fileKey : Keys \cup {-1}]
<1> DEFINE Types == [info : [isDirectory : BOOLEAN, size : Nat], fileKey : Keys \cup {-1}]
<1>1. inode \in Types /\ \A p \in DOMAIN inodes : inodes[p] \in Types
  BY InodeTypes DEF Shape
<1>2. DOMAIN inodes \subseteq Path
  BY DEF Shape
<1> HIDE DEF Types, Path
<1>3. inodes' = [p \in DOMAIN inodes \cup {path} |->
                   IF p = path THEN inode ELSE inodes[p]]
  BY DEF Insert
<1>4. DOMAIN inodes' = DOMAIN inodes \cup {path}
  BY <1>3
<1>5. \A p \in DOMAIN inodes' : inodes'[p] \in Types
  BY <1>1, <1>3
<1>6. inodes' = [p \in DOMAIN inodes' |-> inodes'[p]]
  BY <1>3
<1> QED
  BY <1>2, <1>4, <1>5, <1>6 DEF Types

LEMMA FirstMissingTypes ==
  ASSUME Shape, NEW path \in Path, <<>> \in DOMAIN inodes, Missing(path) # {}
  PROVE  FirstMissing(path) \in Path
<1>1. PICK i \in Missing(path) : FirstMissing(path) = SubSeq(path, 1, i)
  BY FirstMissingIsLeast
<1>2. i \in 0 .. Len(path)
  BY <1>1, EmptyAndWholePrefix DEF Missing
<1> QED
  BY <1>1, <1>2, PrefixOfPath

LEMMA ShapeStep ==
  ASSUME IInv, [Next]_vars
  PROVE  Shape'
<1> DEFINE Types == [info : [isDirectory : BOOLEAN, size : Nat], fileKey : Keys \cup {-1}]
<1>1. /\ tables \in FileTables
      /\ DOMAIN m_files \subseteq Keys
      /\ \A key \in DOMAIN m_files : m_files[key] \in Nat
      /\ DOMAIN inodes \subseteq Path
      /\ inodes = [path \in DOMAIN inodes |-> inodes[path]]
      /\ \A path \in DOMAIN inodes : inodes[path] \in Types
      /\ pc \in {"files", "create", "names", "done", "crashed"}
      /\ at \in Nat \ {0}
  BY InodeTypes DEF IInv, Shape
<1>2. SUFFICES
        /\ tables' \in FileTables
        /\ DOMAIN m_files' \subseteq Keys
        /\ \A key \in DOMAIN m_files' : m_files'[key] \in Nat
        /\ DOMAIN inodes' \subseteq Path
        /\ inodes' = [path \in DOMAIN inodes' |-> inodes'[path]]
        /\ \A path \in DOMAIN inodes' : inodes'[path] \in Types
        /\ pc' \in {"files", "create", "names", "done", "crashed"}
        /\ at' \in Nat \ {0}
  BY DEF Shape, Mount!Info
<1> DEFINE Unchanged == inodes' = inodes /\ m_files' = m_files
<1>3. CASE UNCHANGED vars
  BY <1>1, <1>3 DEF vars
<1>4. CASE AddFile
  <2>1. PICK key \in DOMAIN Archives[at] : Emplace(key, Archives[at][key])
    BY <1>4 DEF AddFile
  <2>2. at \in DOMAIN Archives
    BY <1>1, <1>4, ArchiveTypes DEF AddFile
  <2>3. key \in Keys /\ Archives[at][key] \in Nat
    BY <2>1, <2>2, ArchiveTypes
  <2>4. /\ DOMAIN m_files' = DOMAIN m_files \cup {key}
        /\ \A k \in DOMAIN m_files' :
             m_files'[k] = IF k \in DOMAIN m_files THEN m_files[k] ELSE Archives[at][key]
    BY <2>1 DEF Emplace
  <2>5. DOMAIN m_files' \subseteq Keys /\ \A k \in DOMAIN m_files' : m_files'[k] \in Nat
    BY <1>1, <2>3, <2>4
  <2>6. UNCHANGED <<tables, inodes, pc, at>>
    BY <1>4 DEF AddFile
  <2> HIDE DEF Types
  <2> QED
    BY <1>1, <2>5, <2>6
<1> HIDE DEF Types
<1>5. CASE NextArchive
  BY <1>1, <1>5 DEF NextArchive
<1>6. CASE AllFilesAdded
  BY <1>1, <1>6 DEF AllFilesAdded
<1>7. CASE MakeDirectory
  <2>1. /\ pc = "create" /\ Missing(creating.path) # {}
        /\ Insert(FirstMissing(creating.path), DirectoryInode)
        /\ UNCHANGED <<tables, m_files, pc, at, seen, creating>>
    BY <1>7 DEF MakeDirectory, Walks, MissingDirectory
  <2>2. creating.path \in Path /\ <<>> \in DOMAIN inodes
    BY <2>1, CreatingTypes DEF IInv, Tree, Closed
  <2>3. FirstMissing(creating.path) \in Path
    BY <2>1, <2>2, FirstMissingTypes DEF IInv
  <2>4. /\ DOMAIN inodes' \subseteq Path
        /\ inodes' = [path \in DOMAIN inodes' |-> inodes'[path]]
        /\ \A path \in DOMAIN inodes' : inodes'[path] \in Types
    BY <2>1, <2>3, InodeTypes, InsertTypes DEF IInv, Types
  <2> QED
    BY <1>1, <2>1, <2>4
<1>8. CASE MakeFile
  <2>1. /\ pc = "create"
        /\ Insert(creating.path, FileInode)
        /\ UNCHANGED <<tables, m_files, pc, at, seen, creating>>
    BY <1>8 DEF MakeFile, Walks
  <2>2. creating.path \in Path
    BY <2>1, CreatingTypes DEF IInv
  <2>3. /\ DOMAIN inodes' \subseteq Path
        /\ inodes' = [path \in DOMAIN inodes' |-> inodes'[path]]
        /\ \A path \in DOMAIN inodes' : inodes'[path] \in Types
    BY <2>1, <2>2, InodeTypes, InsertTypes DEF IInv, Types
  <2> QED
    BY <1>1, <2>1, <2>3
<1>9. CASE InsertIntoNull
  BY <1>1, <1>9 DEF InsertIntoNull
<1>10. CASE PlaceholderMade
  BY <1>1, <1>10 DEF PlaceholderMade
<1>11. CASE Publish
  <2> DEFINE inode == [info |-> [isDirectory |-> FALSE, size |-> m_files[creating.key]],
                       fileKey |-> creating.key]
  <2>1. /\ pc = "create" /\ creating # PlaceholderName /\ pc' = "names"
        /\ UNCHANGED <<tables, m_files, at, seen, creating>>
        /\ inodes' = [inodes EXCEPT ![creating.path] = inode]
    BY <1>11 DEF Publish, Walks, Mount!FileInfo
  <2>2. creating.key \in DOMAIN m_files
    BY <2>1, CreatingTypes DEF IInv
  <2>3. inode \in Types
    BY <1>1, <2>2 DEF Types
  <2> HIDE DEF inode
  <2>4. inodes' = [p \in DOMAIN inodes |->
                     IF p = creating.path THEN inode ELSE inodes[p]]
    BY <1>1, <2>1
  <2>5. DOMAIN inodes' = DOMAIN inodes
    BY <2>4
  <2>6. \A path \in DOMAIN inodes' : inodes'[path] \in Types
    BY <1>1, <2>3, <2>4
  <2>7. inodes' = [path \in DOMAIN inodes' |-> inodes'[path]]
    BY <2>4
  <2> QED
    BY <1>1, <2>1, <2>5, <2>6, <2>7
<1>12. CASE TakeName
  BY <1>1, <1>12 DEF TakeName
<1>13. CASE NextTable
  BY <1>1, <1>13 DEF NextTable
<1>14. CASE Finish
  BY <1>1, <1>14 DEF Finish
<1> QED
  BY <1>3, <1>4, <1>5, <1>6, <1>7, <1>8, <1>9, <1>10, <1>11, <1>12, <1>13, <1>14 DEF Next

LEMMA ProgressStep ==
  ASSUME IInv, [Next]_vars
  PROVE  Progress'
<1>1. /\ Len(tables) \in Nat /\ DOMAIN tables = 1 .. Len(tables)
      /\ Len(Archives) \in Nat /\ at \in Nat \ {0}
      /\ pc \in {"files", "create", "names", "done", "crashed"}
  BY TableTypes, ArchiveTypes DEF IInv, Shape
<1>2. Progress
  BY DEF IInv
<1>3. CASE UNCHANGED vars
  BY <1>2, <1>3 DEF vars, Progress
<1>4. CASE AddFile
  <2>1. /\ pc = "files" /\ at <= Len(Archives)
        /\ UNCHANGED <<tables, inodes, pc, at, creating>>
        /\ \E key \in DOMAIN Archives[at] : seen' = seen \cup {key}
    BY <1>4 DEF AddFile
  <2>2. seen' \subseteq DOMAIN Archives[at]
    BY <1>2, <2>1 DEF Progress
  <2> HIDE DEF DirectoryInode, PlaceholderName
  <2> QED
    BY <1>2, <2>1, <2>2, InodeTypes DEF Progress
<1>5. CASE NextArchive
  <2>1. /\ pc = "files" /\ at <= Len(Archives) /\ at' = at + 1 /\ seen' = {}
        /\ UNCHANGED <<tables, inodes, pc, creating>>
    BY <1>5 DEF NextArchive
  <2> QED
    BY <1>1, <1>2, <2>1 DEF Progress
<1>6. CASE AllFilesAdded
  <2>1. /\ pc = "files" /\ at > Len(Archives) /\ pc' = "create" /\ at' = 1
        /\ UNCHANGED <<tables, seen, creating>>
    BY <1>6 DEF AllFilesAdded
  <2>2. seen = {} /\ creating = PlaceholderName
    BY <1>1, <1>2, <2>1 DEF Progress
  <2>3. creating' = PlaceholderName'
    BY <2>1, <2>2 DEF PlaceholderName, ByIdPlaceholder
  <2> QED
    BY <1>1, <2>1, <2>2, <2>3 DEF Progress
<1>7. CASE MakeDirectory
  BY <1>2, <1>7 DEF MakeDirectory, Walks, Progress, PlaceholderName, ByIdPlaceholder
<1>8. CASE MakeFile
  BY <1>2, <1>8 DEF MakeFile, Walks, Progress, PlaceholderName, ByIdPlaceholder
<1>9. CASE InsertIntoNull
  BY <1>2, <1>9 DEF InsertIntoNull, Progress
<1>10. CASE PlaceholderMade
  BY <1>2, <1>10 DEF PlaceholderMade, Walks, Progress
<1>11. CASE Publish
  BY <1>2, <1>11 DEF Publish, Walks, Progress
<1>12. CASE TakeName
  <2>1. PICK name \in tables[at] \ seen :
          /\ seen' = seen \cup {name}
          /\ IF name.key \in DOMAIN m_files
             THEN creating' = name /\ pc' = "create"
             ELSE UNCHANGED <<creating, pc>>
    BY <1>12 DEF TakeName
  <2>2. pc = "names" /\ at <= Len(tables) /\ UNCHANGED <<tables, m_files, inodes, at>>
    BY <1>12 DEF TakeName
  <2>3. seen' \subseteq tables[at]
    BY <1>2, <2>1, <2>2 DEF Progress
  <2>4. CASE name.key \in DOMAIN m_files
    BY <1>2, <2>1, <2>2, <2>3, <2>4 DEF Progress
  <2>5. CASE name.key \notin DOMAIN m_files
    BY <1>2, <2>1, <2>2, <2>3, <2>5 DEF Progress
  <2> QED
    BY <2>4, <2>5
<1>13. CASE NextTable
  BY <1>1, <1>2, <1>13 DEF NextTable, Progress
<1>14. CASE Finish
  BY <1>1, <1>2, <1>14 DEF Finish, Progress
<1> QED
  BY <1>3, <1>4, <1>5, <1>6, <1>7, <1>8, <1>9, <1>10, <1>11, <1>12, <1>13, <1>14 DEF Next

-----------------------------------------------------------------------------
(* m_files.                                                                  *)

LEMMA SameFiles ==
  ASSUME Files, UNCHANGED m_files,
         \A i \in DOMAIN Archives : Emplaced(i)' = Emplaced(i)
  PROVE  Files'
<1>1. UNION {Emplaced(i)' : i \in DOMAIN Archives} = UNION {Emplaced(i) : i \in DOMAIN Archives}
  OBVIOUS
<1> QED
  BY <1>1 DEF Files, IsFirstWith

LEMMA FilesStep ==
  ASSUME IInv, [Next]_vars
  PROVE  Files'
<1>1. Files /\ Progress /\ at \in Nat \ {0}
  BY DEF IInv, Shape
<1>2. CASE AddFile
  <2>1. PICK key \in DOMAIN Archives[at] \ seen :
          Emplace(key, Archives[at][key]) /\ seen' = seen \cup {key}
    BY <1>2 DEF AddFile
  <2>2. pc = "files" /\ at <= Len(Archives) /\ UNCHANGED <<pc, at>>
    BY <1>2 DEF AddFile
  <2>3. at \in DOMAIN Archives
    BY <1>1, <2>2, ArchiveTypes
  <2>4. /\ DOMAIN m_files' = DOMAIN m_files \cup {key}
        /\ \A k \in DOMAIN m_files' :
             m_files'[k] = IF k \in DOMAIN m_files THEN m_files[k] ELSE Archives[at][key]
    BY <2>1 DEF Emplace
  <2>5. \A i \in DOMAIN Archives :
          Emplaced(i)' = IF i = at THEN Emplaced(i) \cup {key} ELSE Emplaced(i)
    BY <1>1, <2>1, <2>2 DEF Emplaced
  <2>6. DOMAIN m_files = UNION {Emplaced(i) : i \in DOMAIN Archives}
    BY <1>1 DEF Files
  <2>7. DOMAIN m_files' = UNION {Emplaced(i)' : i \in DOMAIN Archives}
    <3>1. PICK here \in DOMAIN Archives : here = at
      BY <2>3
    <3>2. key \in UNION {Emplaced(i)' : i \in DOMAIN Archives}
      <4>1. key \in Emplaced(here)'
        BY <2>5, <3>1
      <4> QED
        BY <4>1
    <3>3. UNION {Emplaced(i) : i \in DOMAIN Archives}
            \subseteq UNION {Emplaced(i)' : i \in DOMAIN Archives}
      BY <2>5
    <3>4. UNION {Emplaced(i)' : i \in DOMAIN Archives}
            \subseteq (UNION {Emplaced(i) : i \in DOMAIN Archives}) \cup {key}
      BY <2>5
    <3> QED
      BY <2>4, <2>6, <3>2, <3>3, <3>4
  <2>8. key \notin DOMAIN m_files => IsFirstWith(at, key)
    <3>1. ASSUME NEW j \in 1 .. at - 1, key \in DOMAIN Archives[j] PROVE key \in DOMAIN m_files
      <4>1. j \in DOMAIN Archives /\ j < at
        BY <1>1, <2>2, ArchiveTypes
      <4>2. key \in Emplaced(j)
        BY <3>1, <4>1 DEF Emplaced
      <4> QED
        BY <1>1, <4>1, <4>2 DEF Files
    <3> QED
      BY <2>1, <3>1 DEF IsFirstWith
  <2>9. ASSUME NEW k \in DOMAIN m_files'
        PROVE  \E i \in DOMAIN Archives : IsFirstWith(i, k) /\ m_files'[k] = Archives[i][k]
    <3>1. CASE k \in DOMAIN m_files
      BY <1>1, <2>4, <3>1 DEF Files
    <3>2. CASE k \notin DOMAIN m_files
      BY <2>3, <2>4, <2>8, <3>2
    <3> QED
      BY <3>1, <3>2
  <2> QED
    BY <2>7, <2>9 DEF Files, IsFirstWith
<1>3. CASE NextArchive
  <2>1. /\ pc = "files" /\ at' = at + 1 /\ seen' = {} /\ seen = DOMAIN Archives[at]
        /\ UNCHANGED <<m_files, pc>>
    BY <1>3 DEF NextArchive
  <2>2. ASSUME NEW i \in DOMAIN Archives PROVE Emplaced(i)' = Emplaced(i)
    <3>1. i \in Nat
      BY ArchiveTypes
    <3>2. i < at + 1 <=> i < at \/ i = at
      BY <1>1, <3>1
    <3> QED
      BY <2>1, <3>2 DEF Emplaced
  <2> QED
    BY <1>1, <2>1, <2>2, SameFiles
<1>4. CASE AllFilesAdded
  <2>1. pc = "files" /\ at > Len(Archives) /\ pc' = "create" /\ UNCHANGED m_files
    BY <1>4 DEF AllFilesAdded
  <2>2. ASSUME NEW i \in DOMAIN Archives PROVE Emplaced(i)' = Emplaced(i)
    <3>1. i < at
      BY <1>1, <2>1, ArchiveTypes
    <3> QED
      BY <2>1, <3>1 DEF Emplaced
  <2> QED
    BY <1>1, <2>1, <2>2, SameFiles
<1>5. ASSUME UNCHANGED m_files, UNCHANGED vars \/ (pc # "files" /\ pc' # "files")
      PROVE  Files'
  <2>1. \A i \in DOMAIN Archives : Emplaced(i)' = Emplaced(i)
    BY <1>5 DEF Emplaced, vars
  <2> QED
    BY <1>1, <1>5, <2>1, SameFiles
<1>6. CASE UNCHANGED vars
  BY <1>5, <1>6 DEF vars
<1>7. CASE MakeDirectory \/ MakeFile \/ InsertIntoNull \/ PlaceholderMade \/ Publish
  <2>1. UNCHANGED m_files /\ pc = "create" /\ pc' # "files"
    BY <1>7 DEF MakeDirectory, MakeFile, InsertIntoNull, PlaceholderMade, Publish, Walks
  <2> QED
    BY <1>5, <2>1
<1>8. CASE TakeName \/ NextTable \/ Finish
  <2>1. UNCHANGED m_files /\ pc = "names" /\ pc' # "files"
    BY <1>8 DEF TakeName, NextTable, Finish
  <2> QED
    BY <1>5, <2>1
<1> QED
  BY <1>2, <1>3, <1>4, <1>6, <1>7, <1>8 DEF Next

-----------------------------------------------------------------------------
(* The tree.                                                                 *)

LEMMA SameTakenPaths ==
  ASSUME UNCHANGED tables, \A i \in DOMAIN tables : Taken(i)' = Taken(i)
  PROVE  TakenPaths' = TakenPaths
<1>1. UNION {Taken(i)' : i \in DOMAIN tables} = UNION {Taken(i) : i \in DOMAIN tables}
  OBVIOUS
<1> QED
  BY <1>1 DEF TakenPaths

LEMMA TakenPath ==
  ASSUME NEW i \in DOMAIN tables, NEW name \in Taken(i)
  PROVE  name.path \in TakenPaths
  BY DEF TakenPaths

(* A path keeps its inode while no name is taken and the inode stays.             *)
LEMMA SameKind ==
  ASSUME UNCHANGED <<tables, m_files>>, \A i \in DOMAIN tables : Taken(i)' = Taken(i),
         NEW path, inodes'[path] = inodes[path]
  PROVE  IsOfLastTable(path) => IsOfLastTable(path)'
<1>1. \A name : FileOf(name)' = FileOf(name)
  BY DEF FileOf, Mount!FileInfo
<1> HIDE DEF Taken, FileOf
<1> QED
  BY <1>1 DEF IsOfLastTable

(* Steps that leave the tree alone and take no name.                          *)
LEMMA SameTree ==
  ASSUME Closed, NothingElse, AllThere, Kinds, UNCHANGED <<tables, m_files, inodes>>,
         \A i \in DOMAIN tables : Taken(i)' = Taken(i),
         AtHand \subseteq AtHand' \cup {ByIdPlaceholder},
         PlaceholderThere' => ByIdPlaceholder \in DOMAIN inodes
  PROVE  (Closed /\ NothingElse /\ AllThere /\ Kinds)'
<1>1. TakenPaths' = TakenPaths
  BY SameTakenPaths
<1>2. ByIdPlaceholder' = ByIdPlaceholder /\ DirectoryInode' = DirectoryInode /\ FileInode' = FileInode
  BY DEF ByIdPlaceholder, DirectoryInode, FileInode, Mount!DirectoryInfo, Mount!FileInfo
<1>3. Closed'
  BY DEF Closed
<1>4. Wanted \subseteq Wanted'
  BY <1>1, <1>2 DEF Wanted
<1>5. NothingElse'
  BY <1>4 DEF NothingElse
<1>6. AllThere'
  BY <1>1, <1>2 DEF AllThere
<1>7. ASSUME NEW path \in DOMAIN inodes
      PROVE  IF path \in TakenPaths'
             THEN IsOfLastTable(path)'
             ELSE IF path = ByIdPlaceholder
                  THEN inodes[path] = FileInode
                  ELSE path \in AtHand' \/ inodes[path] = DirectoryInode
  <2>1. path \in TakenPaths => IsOfLastTable(path)'
    BY SameKind DEF Kinds
  <2> QED
    BY <1>1, <2>1 DEF Kinds
<1>8. Kinds'
  BY <1>2, <1>7 DEF Kinds
<1> QED
  BY <1>3, <1>5, <1>6, <1>8

(* createInode adds one inode whose directory is there.                       *)
LEMMA InsertedTree ==
  ASSUME Shape, Closed, NothingElse, AllThere, Kinds,
         UNCHANGED <<tables, m_files, at, seen, creating, pc>>,
         NEW path \in Path, path \notin DOMAIN inodes, NEW inode, Insert(path, inode),
         \A p \in Prefixes(path) : p = path \/ p \in DOMAIN inodes,
         \E below \in AtHand : path \in Prefixes(below),
         inode = IF path = ByIdPlaceholder
                 THEN FileInode
                 ELSE IF path \in AtHand THEN inode ELSE DirectoryInode
  PROVE  (Closed /\ NothingElse /\ AllThere /\ Kinds)'
<1>1. \A i \in DOMAIN tables : Taken(i)' = Taken(i)
  BY DEF Taken, Published
<1>2. TakenPaths' = TakenPaths /\ AtHand' = AtHand /\ (PlaceholderThere' <=> PlaceholderThere)
  BY <1>1, SameTakenPaths DEF AtHand, PlaceholderThere, PlaceholderName, ByIdPlaceholder
<1>3. ByIdPlaceholder' = ByIdPlaceholder /\ DirectoryInode' = DirectoryInode /\ FileInode' = FileInode
  BY DEF ByIdPlaceholder, DirectoryInode, FileInode, Mount!DirectoryInfo, Mount!FileInfo
<1>4. /\ DOMAIN inodes' = DOMAIN inodes \cup {path}
      /\ inodes'[path] = inode
      /\ \A p \in DOMAIN inodes : inodes'[p] = inodes[p]
  BY DEF Insert
<1>5. Closed'
  <2>1. ASSUME NEW p \in DOMAIN inodes' PROVE Prefixes(p) \subseteq DOMAIN inodes'
    BY <1>4 DEF Closed
  <2>2. <<>> \in DOMAIN inodes'
    BY <1>4 DEF Closed
  <2> QED
    BY <2>1, <2>2 DEF Closed
<1>6. Wanted' = Wanted /\ AtHand \subseteq Wanted
  BY <1>2, <1>3 DEF Wanted
<1>7. NothingElse'
  BY <1>4, <1>6 DEF NothingElse
<1>8. AllThere'
  BY <1>2, <1>3, <1>4 DEF AllThere
<1>9. ASSUME NEW p \in DOMAIN inodes'
      PROVE  IF p \in TakenPaths'
             THEN IsOfLastTable(p)'
             ELSE IF p = ByIdPlaceholder
                  THEN inodes'[p] = FileInode
                  ELSE p \in AtHand' \/ inodes'[p] = DirectoryInode
  <2>1. CASE p = path
    <3>1. p \notin TakenPaths
      BY <2>1 DEF AllThere
    <3> QED
      BY <1>2, <1>4, <2>1, <3>1
  <2>2. CASE p # path
    <3>1. p \in DOMAIN inodes /\ inodes'[p] = inodes[p]
      BY <1>4, <2>2
    <3>2. p \in TakenPaths => IsOfLastTable(p)'
      BY <1>1, <3>1, SameKind DEF Kinds
    <3> QED
      BY <1>2, <3>1, <3>2 DEF Kinds
  <2> QED
    BY <2>1, <2>2
<1>10. Kinds'
  BY <1>3, <1>9 DEF Kinds
<1> QED
  BY <1>5, <1>7, <1>8, <1>10

(* createInode is done: the inode becomes the file of the name.                 *)
LEMMA PublishedTree ==
  ASSUME IInv, Publish
  PROVE  (Closed /\ NothingElse /\ AllThere /\ Kinds)'
<1>0. PICK path \in Path, here \in DOMAIN tables : path = creating.path /\ here = at
  BY CreatingTypes DEF IInv, Publish, Walks
<1>1. /\ pc = "create" /\ pc' = "names" /\ creating # PlaceholderName
      /\ Missing(path) = {}
      /\ UNCHANGED <<tables, m_files, at, seen, creating>>
      /\ inodes' = [inodes EXCEPT ![path] = FileOf(creating)]
  BY <1>0 DEF Publish, Walks, FileOf
<1>2. creating \in seen /\ creating \in Published(here)
  BY <1>0, <1>1, CreatingTypes DEF IInv
<1>3. Shape /\ Closed /\ NothingElse /\ AllThere /\ Kinds /\ here \in Nat
  BY <1>0, <1>1 DEF IInv, Tree, Shape
<1>4. path \in DOMAIN inodes
  <2>1. CASE Len(path) = 0
    <3>1. path = <<>>
      BY <1>2, <2>1, EmptyAndWholePrefix
    <3> QED
      BY <1>3, <3>1 DEF Closed
  <2>2. CASE Len(path) # 0
    <3>1. Len(path) \in 1 .. Len(path) /\ SubSeq(path, 1, Len(path)) = path
      BY <1>2, <2>2, EmptyAndWholePrefix
    <3> QED
      BY <1>1, <3>1 DEF Missing
  <2> QED
    BY <2>1, <2>2
<1>5. /\ DOMAIN inodes' = DOMAIN inodes
      /\ inodes'[path] = FileOf(creating)
      /\ \A p \in DOMAIN inodes : p # path => inodes'[p] = inodes[p]
  BY <1>1, <1>3, <1>4 DEF Shape
<1>6. \A i \in DOMAIN tables : Taken(i)' = IF i = here THEN Taken(i) \cup {creating} ELSE Taken(i)
  <2>1. \A i \in DOMAIN tables : Published(i)' = Published(i)
    BY <1>1 DEF Published
  <2> QED
    BY <1>0, <1>1, <1>2, <2>1 DEF Taken
<1>7. TakenPaths' = TakenPaths \cup {path}
  <2>1. ASSUME NEW p \in TakenPaths' PROVE p \in TakenPaths \cup {path}
    <3>1. PICK i \in DOMAIN tables : \E name \in Taken(i)' : p = name.path
      BY <1>1, <2>1 DEF TakenPaths
    <3>2. PICK name \in Taken(i)' : p = name.path
      BY <3>1
    <3>3. name = creating \/ name \in Taken(i)
      BY <1>6, <3>1, <3>2
    <3> QED
      BY <3>1, <3>2, <1>0, <3>3, TakenPath
  <2>2. ASSUME NEW p \in TakenPaths PROVE p \in TakenPaths'
    <3>1. PICK i \in DOMAIN tables : \E name \in Taken(i) : p = name.path
      BY <2>2 DEF TakenPaths
    <3>2. \E name \in Taken(i)' : p = name.path
      BY <1>6, <3>1
    <3> QED
      BY <1>1, <3>1, <3>2 DEF TakenPaths
  <2>3. path \in TakenPaths'
    <3>1. creating \in Taken(here)'
      BY <1>2, <1>6
    <3> QED
      BY <1>0, <1>1, <3>1 DEF TakenPaths
  <2> QED
    BY <2>1, <2>2, <2>3
<1>8. /\ ByIdPlaceholder' = ByIdPlaceholder /\ DirectoryInode' = DirectoryInode
      /\ FileInode' = FileInode /\ \A name : FileOf(name)' = FileOf(name)
  BY <1>1 DEF ByIdPlaceholder, DirectoryInode, FileInode, FileOf, Mount!DirectoryInfo, Mount!FileInfo
<1>9. Closed'
  BY <1>3, <1>5 DEF Closed
<1>10. NothingElse'
  <2>1. Wanted \subseteq Wanted'
    BY <1>0, <1>1, <1>7, <1>8 DEF Wanted, AtHand
  <2> QED
    BY <1>3, <1>5, <2>1 DEF NothingElse
<1>11. AllThere'
  BY <1>1, <1>3, <1>4, <1>5, <1>7, <1>8 DEF AllThere, PlaceholderThere
<1>12. IsOfLastTable(path)'
  <2>1. creating \in Taken(here)' /\ creating.path = path /\ inodes'[path] = FileOf(creating)
    BY <1>0, <1>2, <1>5, <1>6
  <2>2. ASSUME NEW j \in DOMAIN tables, NEW name \in Taken(j)' PROVE j <= here
    <3>1. j \in Nat
      BY <1>3, TableTypes DEF Shape
    <3> QED
      BY <1>0, <1>1, <1>3, <2>2, <3>1 DEF Taken
  <2> HIDE DEF Taken, FileOf
  <2> QED
    BY <1>1, <1>8, <2>1, <2>2 DEF IsOfLastTable
<1>13. ASSUME NEW p, p # path, inodes'[p] = inodes[p], IsOfLastTable(p)
       PROVE  IsOfLastTable(p)'
  <2>1. PICK i \in DOMAIN tables :
          /\ \E name \in Taken(i) : name.path = p /\ inodes[p] = FileOf(name)
          /\ \A j \in DOMAIN tables : (\E name \in Taken(j) : name.path = p) => j <= i
    BY <1>13 DEF IsOfLastTable
  <2>2. \A j \in DOMAIN tables : \A name :
          name.path = p => (name \in Taken(j)' <=> name \in Taken(j))
    BY <1>0, <1>6, <1>13
  <2> HIDE DEF Taken, FileOf
  <2> QED
    BY <1>1, <1>8, <1>13, <2>1, <2>2 DEF IsOfLastTable
<1>14. ASSUME NEW p \in DOMAIN inodes
       PROVE  IF p \in TakenPaths'
              THEN IsOfLastTable(p)'
              ELSE IF p = ByIdPlaceholder
                   THEN inodes'[p] = FileInode
                   ELSE p \in AtHand' \/ inodes'[p] = DirectoryInode
  <2>1. CASE p = path
    BY <1>7, <1>12, <2>1
  <2>2. CASE p # path
    <3>1. p \notin AtHand
      BY <1>0, <1>1, <2>2 DEF AtHand
    <3> QED
      BY <1>3, <1>5, <1>7, <1>13, <2>2, <3>1 DEF Kinds
  <2> QED
    BY <2>1, <2>2
<1>15. Kinds'
  BY <1>5, <1>8, <1>14 DEF Kinds
<1> QED
  BY <1>9, <1>10, <1>11, <1>15

LEMMA TreeStep ==
  ASSUME IInv, [Next]_vars
  PROVE  Tree'
<1> DEFINE Whole == Closed /\ NothingElse /\ AllThere /\ Kinds
<1>1. /\ Shape /\ Progress
      /\ pc \in {"create", "names", "done"} => Whole
      /\ Len(tables) \in Nat /\ DOMAIN tables = 1 .. Len(tables) /\ at \in Nat \ {0}
  BY TableTypes DEF IInv, Tree, Shape
<1>2. SUFFICES ASSUME pc' \in {"create", "names", "done"} PROVE Whole'
  BY DEF Tree
<1> HIDE DEF Whole
<1>3. ASSUME UNCHANGED vars PROVE Whole'
  <2>1. Whole
    BY <1>1, <1>2, <1>3 DEF vars
  <2>2. \A i \in DOMAIN tables : Taken(i)' = Taken(i)
    BY <1>3 DEF vars, Taken, Published
  <2>3. AtHand' = AtHand /\ (PlaceholderThere' <=> PlaceholderThere)
    BY <1>3 DEF vars, AtHand, PlaceholderThere, PlaceholderName, ByIdPlaceholder
  <2>4. PlaceholderThere' => ByIdPlaceholder \in DOMAIN inodes
    BY <2>1, <2>3 DEF Whole, AllThere
  <2>5. UNCHANGED <<tables, m_files, inodes>>
    BY <1>3 DEF vars
  <2> QED
    BY <2>1, <2>2, <2>3, <2>4, <2>5, SameTree DEF Whole
<1>4. CASE AddFile \/ NextArchive \/ InsertIntoNull
  BY <1>2, <1>4 DEF AddFile, NextArchive, InsertIntoNull
<1>5. CASE AllFilesAdded
  <2>1. /\ seen = {} /\ creating = PlaceholderName /\ inodes = [path \in {<<>>} |-> DirectoryInode]
        /\ pc' = "create" /\ at' = 1 /\ UNCHANGED <<tables, m_files, inodes, seen, creating>>
    <3>1. ~(at <= Len(Archives))
      BY <1>1, <1>5, ArchiveTypes DEF AllFilesAdded
    <3> QED
      BY <1>1, <1>5, <3>1 DEF AllFilesAdded, Progress
  <2>2. DOMAIN inodes' = {<<>>} /\ inodes'[<<>>] = DirectoryInode
    BY <2>1
  <2>3. TakenPaths' = {}
    <3>1. \A i \in DOMAIN tables : Taken(i)' = {}
      BY <1>1, <2>1 DEF Taken
    <3> QED
      BY <2>1, <3>1 DEF TakenPaths
  <2>4. ByIdPlaceholder' = ByIdPlaceholder /\ DirectoryInode' = DirectoryInode /\ PlaceholderName' = PlaceholderName
    BY DEF ByIdPlaceholder, DirectoryInode, PlaceholderName, Mount!DirectoryInfo
  <2>5. Closed'
    <3>1. Prefixes(<<>>) \subseteq {<<>>}
      <4>1. <<>> \in Path /\ Len(<<>>) = 0 /\ SubSeq(<<>>, 1, 0) = <<>>
        BY PlaceholderPath, EmptyAndWholePrefix
      <4> QED
        BY <4>1 DEF Prefixes
    <3> QED
      BY <2>2, <3>1 DEF Closed
  <2>6. NothingElse'
    <3>1. <<>> \in Prefixes(ByIdPlaceholder) /\ ByIdPlaceholder \in Wanted'
      BY <2>4, PlaceholderPath, PrefixesOfPath DEF Wanted
    <3> QED
      BY <2>2, <3>1 DEF NothingElse
  <2>7. AllThere'
    BY <2>1, <2>3, <2>4 DEF AllThere, PlaceholderThere
  <2>8. Kinds'
    BY <2>2, <2>3, <2>4, PlaceholderPath DEF Kinds
  <2> QED
    BY <2>5, <2>6, <2>7, <2>8 DEF Whole
<1>6. CASE MakeDirectory
  <2>1. PICK path \in Path : path = creating.path
    BY <1>1, <1>6, CreatingTypes DEF MakeDirectory, Walks
  <2>2. /\ pc = "create" /\ MissingDirectory(path) /\ Missing(path) # {}
        /\ Insert(FirstMissing(path), DirectoryInode)
        /\ UNCHANGED <<tables, m_files, pc, at, seen, creating>>
    BY <1>6, <2>1 DEF MakeDirectory, Walks, MissingDirectory
  <2>3. Closed /\ NothingElse /\ AllThere /\ Kinds
    BY <1>1, <2>2 DEF Whole
  <2>4. PICK i \in Missing(path) :
          /\ FirstMissing(path) = SubSeq(path, 1, i)
          /\ \A j \in Missing(path) : i <= j
          /\ \A j \in 0 .. i - 1 : SubSeq(path, 1, j) \in DOMAIN inodes
    BY <2>2, <2>3, FirstMissingIsLeast DEF Closed
  <2>5. PICK p : p = SubSeq(path, 1, i)
    OBVIOUS
  <2>6. /\ i \in 1 .. Len(path) /\ i < Len(path) /\ Len(path) \in Nat
        /\ p \in Path /\ p \notin DOMAIN inodes /\ Len(p) = i /\ p \in Prefixes(path)
    <3>1. Len(path) \in Nat
      BY EmptyAndWholePrefix
    <3>2. i \in 1 .. Len(path) /\ p \notin DOMAIN inodes
      BY <2>4, <2>5 DEF Missing
    <3>3. PICK j \in Missing(path) : j < Len(path)
      BY <2>2 DEF MissingDirectory
    <3>4. i < Len(path)
      BY <2>4, <3>1, <3>2, <3>3 DEF Missing
    <3>5. i \in 0 .. Len(path)
      BY <3>1, <3>2
    <3> QED
      BY <2>5, <3>1, <3>2, <3>4, <3>5, PrefixOfPath DEF Prefixes
  <2>7. ASSUME NEW q \in Prefixes(p) PROVE q = p \/ q \in DOMAIN inodes
    <3>1. PICK j \in 0 .. i : q = SubSeq(p, 1, j)
      BY <2>6 DEF Prefixes
    <3>2. q = SubSeq(path, 1, j)
      BY <2>5, <2>6, <3>1, PrefixOfPrefix
    <3>3. j = i \/ j \in 0 .. i - 1
      BY <2>6, <3>1
    <3> QED
      BY <2>4, <2>5, <3>2, <3>3
  <2>8. p # ByIdPlaceholder
    <3>1. CASE creating = PlaceholderName
      <4>1. path = ByIdPlaceholder
        BY <2>1, <3>1 DEF PlaceholderName
      <4> QED
        BY <2>6, <4>1
    <3>2. CASE creating # PlaceholderName
      BY <2>3, <2>6, <3>2 DEF AllThere, PlaceholderThere
    <3> QED
      BY <3>1, <3>2
  <2>9. p \notin AtHand /\ path \in AtHand
    <3>1. p # path
      BY <2>6
    <3> QED
      BY <2>1, <2>2, <3>1 DEF AtHand
  <2>10. Insert(p, DirectoryInode)
    BY <2>2, <2>4, <2>5
  <2>11. (Closed /\ NothingElse /\ AllThere /\ Kinds)'
    BY <1>1, <2>2, <2>3, <2>6, <2>7, <2>8, <2>9, <2>10, InsertedTree
  <2> QED
    BY <2>11 DEF Whole
<1>7. CASE MakeFile
  <2>1. PICK path \in Path : path = creating.path
    BY <1>1, <1>7, CreatingTypes DEF MakeFile, Walks
  <2>2. /\ pc = "create" /\ ~MissingDirectory(path) /\ Missing(path) # {}
        /\ Insert(path, FileInode)
        /\ UNCHANGED <<tables, m_files, pc, at, seen, creating>>
    BY <1>7, <2>1 DEF MakeFile, Walks
  <2>3. Closed /\ NothingElse /\ AllThere /\ Kinds
    BY <1>1, <2>2 DEF Whole
  <2>4. Len(path) \in Nat /\ SubSeq(path, 1, Len(path)) = path /\ SubSeq(path, 1, 0) = <<>>
    BY EmptyAndWholePrefix
  <2>5. Missing(path) = {Len(path)} /\ Len(path) # 0
    <3>1. Missing(path) \subseteq 1 .. Len(path)
      BY DEF Missing
    <3>2. \A i \in Missing(path) : ~(i < Len(path))
      BY <2>2 DEF MissingDirectory
    <3> QED
      BY <2>2, <2>4, <3>1, <3>2
  <2>6. path \notin DOMAIN inodes
    BY <2>4, <2>5 DEF Missing
  <2>7. ASSUME NEW q \in Prefixes(path) PROVE q = path \/ q \in DOMAIN inodes
    <3>1. PICK j \in 0 .. Len(path) : q = SubSeq(path, 1, j)
      BY DEF Prefixes
    <3>2. CASE j = 0
      BY <2>3, <2>4, <3>1, <3>2 DEF Closed
    <3>3. CASE j = Len(path)
      BY <2>4, <3>1, <3>3
    <3>4. CASE j # 0 /\ j # Len(path)
      <4>1. j \in 1 .. Len(path)
        BY <2>4, <3>1, <3>4, EndOfInterval
      <4>2. j \notin Missing(path)
        BY <2>5, <3>4
      <4> QED
        BY <3>1, <4>1, <4>2 DEF Missing
    <3> QED
      BY <3>2, <3>3, <3>4
  <2>8. path \in AtHand /\ path \in Prefixes(path)
    BY <2>1, <2>2, PrefixesOfPath DEF AtHand
  <2>9. (Closed /\ NothingElse /\ AllThere /\ Kinds)'
    BY <1>1, <2>2, <2>3, <2>6, <2>7, <2>8, InsertedTree
  <2> QED
    BY <2>9 DEF Whole
<1>8. CASE PlaceholderMade
  <2>1. /\ pc = "create" /\ pc' = "names" /\ creating = PlaceholderName
        /\ Missing(creating.path) = {}
        /\ UNCHANGED <<tables, m_files, inodes, at, seen, creating>>
    BY <1>8 DEF PlaceholderMade, Walks
  <2>2. at = 1 /\ seen = {} /\ creating.path = ByIdPlaceholder
    BY <1>1, <2>1, CreatingTypes
  <2>3. Closed /\ NothingElse /\ AllThere /\ Kinds
    BY <1>1, <2>1 DEF Whole
  <2>4. \A i \in DOMAIN tables : Taken(i)' = Taken(i)
    BY <2>1, <2>2 DEF Taken, Published
  <2>5. ByIdPlaceholder \in DOMAIN inodes
    <3>1. Len(ByIdPlaceholder) \in 1 .. Len(ByIdPlaceholder)
      BY PlaceholderPath
    <3>2. SubSeq(ByIdPlaceholder, 1, Len(ByIdPlaceholder)) = ByIdPlaceholder
      BY PlaceholderPath, EmptyAndWholePrefix
    <3> QED
      BY <2>1, <2>2, <3>1, <3>2 DEF Missing
  <2>6. AtHand \subseteq AtHand' \cup {ByIdPlaceholder}
    BY <2>2 DEF AtHand
  <2> QED
    BY <2>1, <2>3, <2>4, <2>5, <2>6, SameTree DEF Whole
<1>9. CASE Publish
  BY <1>9, PublishedTree DEF Whole
<1>10. CASE TakeName
  <2>1. PICK name \in tables[at] \ seen :
          /\ seen' = seen \cup {name}
          /\ IF name.key \in DOMAIN m_files
             THEN creating' = name /\ pc' = "create"
             ELSE UNCHANGED <<creating, pc>>
    BY <1>10 DEF TakeName
  <2>2. pc = "names" /\ UNCHANGED <<tables, m_files, inodes, at>>
    BY <1>10 DEF TakeName
  <2>3. Closed /\ NothingElse /\ AllThere /\ Kinds
    BY <1>1, <2>2 DEF Whole
  <2>4. ASSUME NEW i \in DOMAIN tables PROVE Taken(i)' = Taken(i)
    <3>1. Published(i)' = Published(i) /\ \A n \in Published(i) : n.key \in DOMAIN m_files
      BY <2>2 DEF Published
    <3>2. CASE name.key \in DOMAIN m_files
      BY <2>1, <2>2, <3>1, <3>2 DEF Taken
    <3>3. CASE name.key \notin DOMAIN m_files
      BY <2>1, <2>2, <3>1, <3>3 DEF Taken
    <3> QED
      BY <3>2, <3>3
  <2>5. AtHand = {} /\ ByIdPlaceholder \in DOMAIN inodes
    BY <2>2, <2>3 DEF AtHand, AllThere, PlaceholderThere
  <2> QED
    BY <2>2, <2>3, <2>4, <2>5, SameTree DEF Whole
<1>11. CASE NextTable
  <2>1. /\ pc = "names" /\ at <= Len(tables) /\ seen = tables[at] /\ at' = at + 1 /\ seen' = {}
        /\ UNCHANGED <<tables, m_files, inodes, pc, creating>>
    BY <1>11 DEF NextTable
  <2>2. Closed /\ NothingElse /\ AllThere /\ Kinds
    BY <1>1, <2>1 DEF Whole
  <2>3. ASSUME NEW i \in DOMAIN tables PROVE Taken(i)' = Taken(i)
    <3>1. i < at + 1 <=> i < at \/ i = at
      BY <1>1
    <3>2. Published(i)' = Published(i) /\ Published(i) \subseteq tables[i]
      BY <2>1 DEF Published
    <3> QED
      BY <2>1, <3>1, <3>2 DEF Taken
  <2>4. AtHand = {} /\ ByIdPlaceholder \in DOMAIN inodes
    BY <2>1, <2>2 DEF AtHand, AllThere, PlaceholderThere
  <2> QED
    BY <2>1, <2>2, <2>3, <2>4, SameTree DEF Whole
<1>12. CASE Finish
  <2>1. pc = "names" /\ pc' = "done" /\ UNCHANGED <<tables, m_files, inodes, at, seen, creating>>
    BY <1>12 DEF Finish
  <2>2. Closed /\ NothingElse /\ AllThere /\ Kinds
    BY <1>1, <2>1 DEF Whole
  <2>3. \A i \in DOMAIN tables : Taken(i)' = Taken(i)
    BY <2>1 DEF Taken, Published
  <2>4. AtHand = {} /\ ByIdPlaceholder \in DOMAIN inodes
    BY <2>1, <2>2 DEF AtHand, AllThere, PlaceholderThere
  <2> QED
    BY <2>1, <2>2, <2>3, <2>4, SameTree DEF Whole
<1> QED
  BY <1>3, <1>4, <1>5, <1>6, <1>7, <1>8, <1>9, <1>10, <1>11, <1>12 DEF Next

-----------------------------------------------------------------------------
(* The invariant and what follows from it.                                     *)

LEMMA InitInvariant ==
  ASSUME Init
  PROVE  IInv
<1>1. /\ tables \in FileTables /\ m_files = <<>> /\ inodes = [path \in {<<>>} |-> DirectoryInode]
      /\ pc = "files" /\ at = 1 /\ seen = {} /\ creating = PlaceholderName
  BY DEF Init
<1>2. DOMAIN m_files = {}
  <2>1. <<>> \in Seq({}) /\ Len(<<>>) = 0
    OBVIOUS
  <2> QED
    BY <1>1, <2>1
<1>3. Shape
  <2>1. DOMAIN inodes = {<<>>} /\ inodes[<<>>] = DirectoryInode
    BY <1>1
  <2>2. <<>> \in Path
    BY PlaceholderPath, EmptyAndWholePrefix
  <2>3. DirectoryInode \in [info : Mount!Info, fileKey : Keys \cup {-1}]
    BY InodeTypes
  <2> HIDE DEF Path
  <2>4. inodes = [path \in DOMAIN inodes |-> inodes[path]]
    BY <1>1
  <2> QED
    BY <1>1, <1>2, <2>1, <2>2, <2>3, <2>4 DEF Shape
<1>4. Progress
  BY <1>1, ArchiveTypes DEF Progress
<1>5. Files
  <2>1. \A i \in DOMAIN Archives : Emplaced(i) = {}
    BY <1>1, ArchiveTypes DEF Emplaced
  <2> QED
    BY <1>2, <2>1 DEF Files
<1>6. Tree
  BY <1>1 DEF Tree
<1> QED
  BY <1>3, <1>4, <1>5, <1>6 DEF IInv

(* The invariant behind the theorems below: types, where initialize is, which     *)
(* files it has, and what the tree is after the names taken so far.              *)
THEOREM Invariance == Spec => []IInv
<1>1. ASSUME IInv, [Next]_vars PROVE IInv'
  BY <1>1, ShapeStep, ProgressStep, FilesStep, TreeStep DEF IInv
<1> QED
  BY <1>1, InitInvariant, PTL DEF Spec

(* A key is announced with its size in the first archive that holds it.          *)
LEMMA SizesFollow ==
  ASSUME IInv
  PROVE  SizesOfFirstArchive
<1> SUFFICES ASSUME pc # "files" PROVE SizesOfFirstArchive
  BY DEF SizesOfFirstArchive
<1>1. \A i \in DOMAIN Archives : Emplaced(i) = DOMAIN Archives[i]
  BY DEF Emplaced
<1>2. DOMAIN m_files = UNION {DOMAIN archive : archive \in ToSet(Archives)}
  BY <1>1 DEF IInv, Files, ToSet
<1>3. ASSUME NEW key \in DOMAIN m_files, NEW i \in DOMAIN Archives, key \in DOMAIN Archives[i]
      PROVE  \/ m_files[key] = Archives[i][key]
             \/ \E j \in 1 .. i - 1 : key \in DOMAIN Archives[j]
  <2>1. PICK first \in DOMAIN Archives :
          IsFirstWith(first, key) /\ m_files[key] = Archives[first][key]
    BY DEF IInv, Files
  <2>2. first \in Nat /\ i \in Nat /\ 1 <= first /\ 1 <= i
    BY ArchiveTypes
  <2>3. CASE i = first
    BY <2>1, <2>3
  <2>4. CASE first < i
    <3>1. first \in 1 .. i - 1
      BY <2>2, <2>4
    <3> QED
      BY <2>1, <3>1 DEF IsFirstWith
  <2>5. CASE i < first
    <3>1. i \in 1 .. first - 1
      BY <2>2, <2>5
    <3> QED
      BY <1>3, <2>1, <3>1 DEF IsFirstWith
  <2> QED
    BY <2>2, <2>3, <2>4, <2>5
<1> QED
  BY <1>2, <1>3 DEF SizesOfFirstArchive

(* Once initialize is done, every name that is published has been taken.          *)
LEMMA AllTaken ==
  ASSUME IInv, pc = "done"
  PROVE  /\ \A i \in DOMAIN tables : Taken(i) = Published(i)
         /\ TakenPaths = PublishedPaths
         /\ AtHand = {} /\ PlaceholderThere
         /\ Closed /\ NothingElse /\ AllThere /\ Kinds
<1>1. ASSUME NEW i \in DOMAIN tables PROVE Taken(i) = Published(i)
  <2>1. i < at
    BY TableTypes DEF IInv, Shape, Progress
  <2> QED
    BY <2>1 DEF Taken
<1>2. TakenPaths = PublishedPaths
  <2>1. UNION {Taken(i) : i \in DOMAIN tables} = UNION {Published(i) : i \in DOMAIN tables}
    BY <1>1
  <2> QED
    BY <2>1 DEF TakenPaths, PublishedPaths, Names
<1> QED
  BY <1>1, <1>2 DEF AtHand, PlaceholderThere, IInv, Tree

LEMMA PublishedTypes ==
  ASSUME Shape
  PROVE  PublishedPaths \subseteq Path
  BY NameTypes DEF Shape, PublishedPaths, Names, Published

LEMMA ExactnessFollows ==
  ASSUME IInv
  PROVE  TreeIsExact
<1> SUFFICES ASSUME pc = "done" PROVE TreeIsExact
  BY DEF TreeIsExact
<1>1. /\ \A i \in DOMAIN tables : Taken(i) = Published(i)
      /\ TakenPaths = PublishedPaths /\ AtHand = {} /\ PlaceholderThere
      /\ Closed /\ NothingElse /\ AllThere /\ Kinds
  BY AllTaken
<1>2. DOMAIN inodes = UNION {Prefixes(path) : path \in PublishedPaths \cup {ByIdPlaceholder}}
  <2>1. Wanted = PublishedPaths \cup {ByIdPlaceholder}
    BY <1>1 DEF Wanted
  <2>2. \A path \in Wanted : path \in DOMAIN inodes
    BY <1>1, <2>1 DEF AllThere
  <2> QED
    BY <1>1, <2>1, <2>2 DEF NothingElse, Closed
<1>3. ASSUME NEW path \in DOMAIN inodes, path \in PublishedPaths
      PROVE  \E i \in TablesNaming(path) :
               /\ \A j \in TablesNaming(path) : j <= i
               /\ \E name \in Published(i) :
                    /\ name.path = path
                    /\ inodes[path] = [info |-> Mount!FileInfo(m_files[name.key]),
                                       fileKey |-> name.key]
  <2>1. PICK i \in DOMAIN tables :
          /\ \E name \in Published(i) : name.path = path /\ inodes[path] = FileOf(name)
          /\ \A j \in DOMAIN tables : (\E name \in Published(j) : name.path = path) => j <= i
    BY <1>1, <1>3 DEF Kinds, IsOfLastTable
  <2> QED
    BY <2>1 DEF TablesNaming, FileOf
<1>4. ASSUME NEW path \in DOMAIN inodes, path \notin PublishedPaths
      PROVE  inodes[path] = IF path = ByIdPlaceholder THEN FileInode ELSE DirectoryInode
  BY <1>1, <1>4 DEF Kinds
<1> QED
  BY <1>2, <1>3, <1>4 DEF TreeIsExact

LEMMA ListingFollows ==
  ASSUME IInv
  PROVE  FilesAreListed
<1> SUFFICES ASSUME pc = "done", NEW path \in PublishedPaths \ {<<>>},
                    ~Conflict(path), path[1] # ByIdName, NEW i \in 1 .. Len(path)
             PROVE  LET directory == SubSeq(path, 1, i - 1)
                        info == Mount!EntryInfo(directory, path[i])
                    IN  /\ path[i] \in Mount!EntryNames(directory)
                        /\ IF i < Len(path)
                           THEN info.isDirectory
                           ELSE info = Mount!FileInfo(m_files[inodes[path].fileKey])
  BY DEF FilesAreListed
<1>1. TreeIsExact /\ path \in Path /\ path \in DOMAIN inodes /\ Closed
  <2>1. /\ TakenPaths = PublishedPaths /\ Closed /\ AllThere
    BY AllTaken
  <2> QED
    BY <2>1, ExactnessFollows, PublishedTypes DEF AllThere, IInv
<1>2. /\ Len(path) \in Nat /\ i - 1 \in 0 .. Len(path) /\ i \in 0 .. Len(path)
      /\ SubSeq(path, 1, Len(path)) = path /\ path[i] \in Name
  BY <1>1, EmptyAndWholePrefix DEF Path
<1> DEFINE directory == SubSeq(path, 1, i - 1)
           entry == SubSeq(path, 1, i)
<1>3. /\ directory \in Path /\ Len(directory) = i - 1
      /\ \A j \in 1 .. i - 1 : directory[j] = path[j]
  BY <1>1, <1>2, PrefixOfPath
<1>4. /\ entry \in Path /\ Len(entry) = i
      /\ \A j \in 1 .. i : entry[j] = path[j]
  BY <1>1, <1>2, PrefixOfPath
<1>5. entry \in DOMAIN inodes
  BY <1>1, <1>2 DEF Closed, Prefixes
<1> HIDE DEF directory, entry
<1>6. Append(directory, path[i]) = entry
  <2>1. /\ Append(directory, path[i]) \in Path /\ Len(Append(directory, path[i])) = i
        /\ \A j \in 1 .. i - 1 : Append(directory, path[i])[j] = directory[j]
        /\ Append(directory, path[i])[i] = path[i]
    BY <1>2, <1>3 DEF Path
  <2>2. \A j \in 1 .. i : j \in 1 .. i - 1 \/ j = i
    BY <1>2
  <2>3. \A j \in 1 .. i : Append(directory, path[i])[j] = entry[j]
    BY <1>3, <1>4, <2>1, <2>2
  <2> QED
    BY <1>4, <2>1, <2>3, SamePaths
<1>7. ~Mount!IsByIDDirectory(directory)
  <2>1. CASE i = 1
    BY <1>3, <2>1 DEF Mount!IsByIDDirectory, Mount!IsByIDPath
  <2>2. CASE i # 1
    <3>1. directory[1] # ByIdName
      BY <1>2, <1>3, <2>2
    <3> QED
      BY <3>1 DEF Mount!IsByIDDirectory, Mount!IsByIDPath
  <2> QED
    BY <2>1, <2>2
<1>8. path[i] \in Mount!EntryNames(directory)
  BY <1>2, <1>5, <1>6, <1>7 DEF Mount!EntryNames, Mount!Children
<1>9. Mount!EntryInfo(directory, path[i]) = inodes[entry].info
  BY <1>6, <1>7 DEF Mount!EntryInfo
<1>10. CASE i < Len(path)
  <2>1. entry \notin PublishedPaths
    BY <1>2, <1>10 DEF Conflict, entry
  <2>2. entry # ByIdPlaceholder
    BY <1>4, PlaceholderPath
  <2>3. inodes[entry] = DirectoryInode
    BY <1>1, <1>5, <2>1, <2>2 DEF TreeIsExact
  <2>4. inodes[entry].info.isDirectory
    BY <2>3, InodeTypes
  <2> QED
    BY <1>8, <1>9, <1>10, <2>4 DEF directory
<1>11. CASE ~(i < Len(path))
  <2>1. entry = path
    <3>1. i = Len(path)
      BY <1>2, <1>11, EndOfInterval
    <3> QED
      BY <1>2, <3>1 DEF entry
  <2>2. \E name : inodes[path] = [info |-> Mount!FileInfo(m_files[name.key]),
                                  fileKey |-> name.key]
    BY <1>1 DEF TreeIsExact
  <2>3. inodes[entry].info = Mount!FileInfo(m_files[inodes[path].fileKey])
    BY <2>1, <2>2
  <2> QED
    BY <1>8, <1>9, <1>11, <2>3 DEF directory
<1> QED
  BY <1>10, <1>11

(* A key is announced with its size in the first archive that holds it, the one   *)
(* that a read of the key is served from, whatever the order of the keys.         *)
THEOREM SizesOfArchives == Spec => []SizesOfFirstArchive
<1> QED
  BY Invariance, SizesFollow, PTL

(* When initialize returns, the tree holds the published names and what is above  *)
(* them and nothing else, and a name is the file that the last table says.        *)
THEOREM TreeExactness == Spec => []TreeIsExact
<1> QED
  BY Invariance, ExactnessFollows, PTL

(* Every published file is found by listing the directories above it.             *)
THEOREM FilesAreFound == Spec => []FilesAreListed
<1> QED
  BY Invariance, ListingFollows, PTL

(* The state that initialize leaves is what MountContents, and with it the         *)
(* callbacks of DirectoryEnumeration and FileLookup, assume of m_files and of the   *)
(* tree, unless a file table names the root itself.                             *)
MountIsReady ==
  pc = "done" /\ <<>> \notin PublishedPaths => Mount!FilesAreKeyed /\ Mount!TreeIsRooted

(* What the callbacks assume of the mount's state holds once initialize returned. *)
THEOREM MountReadiness == Spec => []MountIsReady
<1>1. ASSUME IInv PROVE MountIsReady
  <2> SUFFICES ASSUME pc = "done", <<>> \notin PublishedPaths
               PROVE  Mount!FilesAreKeyed /\ Mount!TreeIsRooted
    BY DEF MountIsReady
  <2>1. Shape /\ Closed /\ TreeIsExact
    BY <1>1, AllTaken, ExactnessFollows DEF IInv
  <2>2. Mount!FilesAreKeyed
    BY <2>1 DEF Shape, Mount!FilesAreKeyed, Mount!Keys, Mount!KeySpace, Keys, KeySpace
  <2>3. inodes[<<>>] = DirectoryInode
    BY <2>1, PlaceholderPath DEF TreeIsExact, Closed
  <2>4. inodes[<<>>].info = Mount!DirectoryInfo
    BY <2>3 DEF DirectoryInode
  <2>5. Mount!Keys = Keys /\ Mount!Path = Path
    BY DEF Mount!Keys, Mount!KeySpace, Mount!Path, Keys, KeySpace, Path
  <2> QED
    BY <2>1, <2>2, <2>4, <2>5 DEF Shape, Closed, Mount!TreeIsRooted
<1> QED
  BY <1>1, Invariance, PTL

=============================================================================
