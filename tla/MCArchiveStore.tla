--------------------------- MODULE MCArchiveStore ---------------------------
(***************************************************************************)
(* Two manifests and two keys for TLC.  The first manifest holds key 1, stored   *)
(* in one of many ways, the second both keys, in good order.                    *)
(***************************************************************************)
EXTENDS ArchiveStore

File(type, begins, stored, size) ==
  [compressionType |-> type, begins |-> begins, compressedSize |-> stored,
   uncompressedSize |-> size, signature |-> 0, verifies |-> FALSE, damage |-> "none",
   isTable |-> FALSE]

Good == { File("None", "other", 4, 4), File("Deflate", "other", 2, 4),
          File("Snappy", "other", 3, 4), File("None", "oodle", 2, 4) }
Odd == { File("None", "other", 0, 0), File("None", "half", 1, 1), File("None", "other", 1, 1),
         File("None", "magic", 4, 4), File("Snappy", "magic", 3, 4), File("None", "other", 3, 4),
         File("Zstandard", "other", 3, 4) }
Damaged == {[f EXCEPT !.damage = d] : f \in Good, d \in {"unreadable", "short", "corrupt"}}
Sign(f, ok) ==
  [f EXCEPT !.signature = IF f.uncompressedSize > 2 THEN 2 ELSE 0, !.verifies = ok]

Plain == Good \cup Odd \cup Damaged
SignedFiles == {Sign(f, TRUE) : f \in Plain} \cup {Sign(f, FALSE) : f \in Good}

Disk(files, signed, dataFiles) ==
  [readable |-> TRUE, dataFiles |-> dataFiles, signed |-> signed, files |-> files]
Table == [File("Deflate", "other", 2, 4) EXCEPT !.isTable = TRUE]
Second(signed) ==
  Disk(1 :> Sign(File("None", "other", 3, 3), TRUE) @@ 2 :> Sign(Table, TRUE), signed, <<TRUE, TRUE>>)

MCDisks ==
  {[m \in {"a", "b"} |-> IF m = "a" THEN Disk(1 :> f, FALSE, <<TRUE>>) ELSE Second(FALSE)] : f \in Plain}
    \cup
  {[m \in {"a", "b"} |-> IF m = "a" THEN Disk(1 :> f, TRUE, <<TRUE>>) ELSE Second(TRUE)] : f \in SignedFiles}
    \cup
  {[m \in {"a", "b"} |-> IF m = "a" THEN Disk(<<>>, signed, <<FALSE>>) ELSE [Second(TRUE) EXCEPT !.readable = FALSE]] :
     signed \in BOOLEAN}
=============================================================================
