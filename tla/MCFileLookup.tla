---------------------------- MODULE MCFileLookup ----------------------------
(***************************************************************************)
(* A mount for TLC: every path of up to five components over three digits,   *)
(* a directory and a file name; keys at both ends of the key space.          *)
(***************************************************************************)
EXTENDS FileLookup, TLC

MCBase == 2
MCDigits == 3
MCSpan == [k \in 0 .. MCDigits |-> MCBase ^ k]
MCName == 0 .. 4
MCByIdName == 2
Data == 3
Readme == 4

MCFiles == (0 :> 2) @@ (3 :> 4) @@ (7 :> 2)

(* The data of key 0 are shorter than its announced size and those of key 7     *)
(* longer; the file of key 3 is damaged: reading it throws.                   *)
MCDataSize == (0 :> 1) @@ (7 :> 3)

Directory == [info |-> DirectoryInfo, fileKey |-> -1]
File(key) == [info |-> FileInfo(MCFiles[key]), fileKey |-> key]

MCInodes ==
  (<<>> :> Directory)
  @@ (<<MCByIdName>> :> Directory)
  @@ (<<MCByIdName, Data>> :> [info |-> FileInfo(0), fileKey |-> 0])
  @@ (<<Data>> :> Directory)
  @@ (<<Data, 1>> :> File(7))
  @@ (<<Data, Readme>> :> File(3))
  @@ (<<Readme>> :> File(0))

MCPaths == {<<>>} \cup {<<a>> : a \in MCName} \cup {<<a, b>> : a, b \in MCName}
           \cup {<<MCByIdName, a, b>> : a, b \in MCName}
           \cup {<<MCByIdName, a, b, c>> : a, b, c \in MCName}
           \cup {<<MCByIdName, a, b, 1, 1>> : a, b \in MCName}
=============================================================================
