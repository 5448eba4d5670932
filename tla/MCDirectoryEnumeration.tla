----------------------- MODULE MCDirectoryEnumeration -----------------------
(***************************************************************************)
(* A mount for TLC: keys of three ternary digits, and a tree with a         *)
(* directory, files, and the by-id directory.                                *)
(***************************************************************************)
EXTENDS DirectoryEnumeration, TLC

CONSTANTS t1, t2, g1, g2

MCBase == 3
MCDigits == 3
MCSpan == [k \in 0 .. MCDigits |-> MCBase ^ k]
MCName == 0 .. 5
MCByIdName == 3
Data == 4
Readme == 5

OneThread == {t1}
OneGuid == {g1}
TwoThreads == {t1, t2}
TwoGuids == {g1, g2}
Interchangeable == Permutations(TwoThreads) \cup Permutations(TwoGuids)

(* \by-id\00 has a child with two files and one with one, \by-id\01 ends at *)
(* its last key; the last key of all is in the listings that wrap around.     *)
FilesBelowLast == (0 :> 5) @@ (2 :> 7) @@ (5 :> 9) @@ (17 :> 4)
MCFiles == FilesBelowLast @@ (KeySpace - 1 :> 6)

Directory == [info |-> DirectoryInfo, fileKey |-> -1]
File(key) == [info |-> FileInfo(MCFiles[key]), fileKey |-> key]

MCInodes ==
  (<<>> :> Directory)
  @@ (<<MCByIdName>> :> Directory)
  @@ (<<MCByIdName, Data>> :> [info |-> FileInfo(0), fileKey |-> 0])
  @@ (<<Data>> :> Directory)
  @@ (<<Data, 1>> :> File(2))
  @@ (<<Data, Readme>> :> File(5))
  @@ (<<Readme>> :> File(0))

MCPaths == {<<>>, <<MCByIdName>>, <<MCByIdName, 0>>, <<MCByIdName, 0, 0>>,
            <<MCByIdName, 1, 2>>, <<MCByIdName, 2>>, <<MCByIdName, 2, 0>>,
            <<MCByIdName, 0, 0, 2>>,
            <<MCByIdName, Data>>, <<Data>>, <<Readme>>, <<0, 1>>}
TwoPaths == {<<Data>>, <<MCByIdName>>}
MCExpressions == {{1, Data}}
=============================================================================
