----------------------------- MODULE MCInodeTree -----------------------------
(***************************************************************************)
(* Two file tables of at most one and two names for TLC: names that are a file *)
(* and a directory at once, the same name for two files, a file that no         *)
(* archive holds, names in \by-id, the root, and one without a separator.       *)
(***************************************************************************)
EXTENDS InodeTree, TLC, FiniteSetsExt

MCBase == 2
MCDigits == 2
MCSpan == [k \in 0 .. MCDigits |-> MCBase ^ k]
MCName == 0 .. 5
MCByIdName == 2
MCPlaceholder == 3
Data == 4
Readme == 5

(* Both archives hold key 0, none the third key.                            *)
MCArchives == <<(0 :> 7), (0 :> 8) @@ (1 :> 9)>>

Entry(path, key) == [rooted |-> TRUE, path |-> path, key |-> key]

Entries ==
  {Entry(<<Data, Readme>>, 0), Entry(<<Data, Readme>>, 1), Entry(<<Data>>, 1),
   Entry(<<Data, Data, Readme>>, 1), Entry(<<MCByIdName, 0>>, 1), Entry(<<Data, 0>>, 2),
   Entry(<<MCByIdName, MCPlaceholder>>, 1), Entry(<<>>, 0),
   [rooted |-> FALSE, path |-> <<Readme>>, key |-> 0]}

AtMost(n) == UNION {kSubset(k, Entries) : k \in 0 .. n}
MCFileTables == {<<first, second>> : first \in AtMost(1), second \in AtMost(2)}
=============================================================================
