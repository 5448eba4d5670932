---------------------------- MODULE MCFileStreams ----------------------------
(***************************************************************************)
(* Small files for TLC: the fields that others depend on take the values that     *)
(* matter, lengths are 0 to 2, and some do not fit their type; any other field     *)
(* is 1, whose bytes are in another order if they are inverted.                  *)
(***************************************************************************)
EXTENDS FileStreams, FileFormats, TLC

RECURSIVE OperationsIn(_)
OperationsIn(ops) ==
  ToSet(ops) \cup UNION {OperationsIn(op.body) : op \in {o \in ToSet(ops) : "body" \in DOMAIN o}}
MCOperations == UNION {OperationsIn(Format(file, reading)) : file \in Formats, reading \in BOOLEAN}

MCValues ==
  "version" :> {0, 1, 2, 3, 4, 9} @@ "dataFileCount" :> {0, 1, 2} @@ "fileFlags" :> {0, 1}
  @@ "compressionType" :> {0} @@ "archiveIndex" :> {3}
  @@ "hashCount" :> {0, 2} @@ "keyCount" :> {0, 2}
  @@ "publicKey" :> {2} @@ "signature" :> {0, 1}
  @@ "nameHeap" :> {3} @@ "lookupRecords" :> {0, 2}
  @@ "itemCount" :> {1, 2} @@ "rowLength" :> {0, 2}
  @@ "layers" :> {0, 2, 4} @@ "layerName" :> {0, 2, 16} @@ "layerExtension" :> {1}
  @@ "directory" :> {0, 1, 5} @@ "height" :> {0, 2} @@ "stride" :> {1, 3, 17}
  @@ "lightSources" :> {0, 1} @@ "objectGroups" :> {1} @@ "furnitureID" :> {0, 2}
  @@ "nodeLevelsBelow" :> {0, 1} @@ "nodeChildren" :> {1} @@ "itemChildren" :> {1}
=============================================================================
