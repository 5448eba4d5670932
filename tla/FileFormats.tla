----------------------------- MODULE FileFormats -----------------------------
(***************************************************************************)
(* The formats of ESOData's files, as operator << and operator >> spell them      *)
(* out: sequences of operations on a stream.  A format is given once where the     *)
(* two operators list the same fields in the same order, and has the parameter     *)
(* `reading' where they do not.                                               *)
(*                                                                         *)
(* A field is an integer or a float of so many bytes, a string, or bytes that are  *)
(* copied; what else there is depends on fields before: structures that are there  *)
(* for some values only, vectors with their length before them, repetitions, and   *)
(* segments, sized or deflated, with a mode for their byte order.                *)
(***************************************************************************)
EXTENDS Integers, SequencesExt

Field(kind, name, width) == [op |-> "field", kind |-> kind, name |-> name, width |-> width]
U8(name) == Field("int", name, 1)
U16(name) == Field("int", name, 2)
U32(name) == Field("int", name, 4)
U64(name) == Field("int", name, 8)
Float(name) == Field("float", name, 4)
String(name) == Field("string", name, 2)
Raw(name, width) == Field("raw", name, width)
Run(n, field) == [i \in 1 .. n |-> field]

\* A field the reader throws at unless it has this value.
Must(field, value) ==
  [op |-> "must", kind |-> field.kind, name |-> field.name, width |-> field.width, value |-> value]
\* A field that the writer computes from another.
Same(field, other) ==
  [op |-> "same", kind |-> field.kind, name |-> field.name, width |-> field.width, other |-> other]
\* The same, which the reader throws at if it is more.
AtMost(field, other) ==
  [op |-> "atMost", kind |-> field.kind, name |-> field.name, width |-> field.width, other |-> other]
When(name, values, body) == [op |-> "when", name |-> name, values |-> values, body |-> body]
Unless(name, values, body) == [op |-> "unless", name |-> name, values |-> values, body |-> body]
\* As often as a field says, less some.
Repeat(name, less, body) == [op |-> "repeat", name |-> name, less |-> less, body |-> body]
Vector(name, width, body) ==
  [op |-> "vector", kind |-> "int", name |-> name, width |-> width, body |-> body]
Sized(mode, body) == [op |-> "sized", mode |-> mode, body |-> body]
Deflated(mode, body) == [op |-> "deflated", mode |-> mode, body |-> body]
SetSwap(to) == [op |-> "swap", to |-> to]

-----------------------------------------------------------------------------
(* Manifests and file tables.  The version 0x0102 is 9 here.                      *)

\* HashTableType3Data, with a segment for each vector that is not empty.
HashTable(key, value) ==
  << Must(U16("tableType"), 3), Must(U32("countLength"), 4),
     U32("hashCount"), U32("keyCount"), Same(U32("valueCount"), "keyCount"),
     Unless("hashCount", {0}, <<Deflated("disable", <<Repeat("hashCount", 0, <<U32("bucket")>>)>>)>>),
     Unless("keyCount", {0}, <<Deflated("disable", <<Repeat("keyCount", 0, key)>>),
                                  Deflated("disable", <<Repeat("keyCount", 0, value)>>)>>) >>

FileSignature ==
  <<U32("unknown"), Vector("publicKey", 4, <<Raw("byte", 1)>>), Vector("signature", 4, <<Raw("byte", 1)>>)>>

\* Written in one order and read in another.
ManifestFileEntry(reading) ==
  <<U32("uncompressedSize"), U32("compressedSize"), U32("fileCRC32"), U32("fileOffset")>>
    \o (IF reading THEN <<U8("archiveIndex"), U8("compressionType")>>
                   ELSE <<U8("compressionType"), U8("archiveIndex")>>)
    \o <<U16("unknown")>>

NewCount == {3, 9}
\* The flags are 1, 2 and 4.
DirectorySigned == {1, 3, 5, 7}

MNFFile(reading) ==
  << Must(U32("signature"), 2), U16("version"),
     When("version", NewCount, <<U32("dataFileCount")>>),
     Unless("version", NewCount, <<U8("dataFileCount")>>) >>
    \o (IF reading THEN <<When("version", {3}, <<Repeat("dataFileCount", 1, <<U16("dataFileType")>>)>>)>>
                   ELSE <<>>)
    \o << U32("fileFlags"),
          Sized("enable", <<When("fileFlags", DirectorySigned, FileSignature)>>
                             \o HashTable(<<U64("key")>>, ManifestFileEntry(reading))) >>

FileTable ==
  <<Raw("ZOSFT", 5), U16("unknown1"), U32("unknown2"), U32("unknown3"), U32("recordCount")>>
    \o HashTable(<<U64("key")>>, <<U32("value")>>)
    \o HashTable(<<U32("key")>>, <<U32("localFileKey"), U32("nameOffset"), U64("nameHash")>>)
    \o HashTable(<<U32("key")>>, Run(11, U32("unknown1")))
    \o <<Vector("nameHeap", 4, <<Raw("char", 1)>>), Raw("ZOSFT", 5)>>

DataFileHeader ==
  <<Must(U32("signature"), 3), U16("version"), U32("unknown"), U32("headerSize")>>

-----------------------------------------------------------------------------
(* Definition files: a header and its rows, each of which the code reads through    *)
(* a stream of its own that starts where the one before stopped.                 *)

FlagsPresentMagic == 250
DefFileRow ==
  <<U32("rowLength"), Deflated("keep", <<Repeat("rowLength", 0, <<Raw("byte", 1)>>)>>)>>

\* The version is read and not written.
DefFile(reading) ==
  (IF reading THEN <<U32("itemCount"),
                     When("itemCount", {FlagsPresentMagic}, <<U32("flags"), U32("itemCount")>>),
                     U32("version")>>
              ELSE <<Must(U32("itemCount"), FlagsPresentMagic), U32("flags"), U32("itemCount")>>)
    \o <<Repeat("itemCount", 0, DefFileRow)>>

DefFileIndex ==
  << Must(U32("magic"), 251), U32("version"),
     When("version", 1 .. 4, <<U8("unk1")>>), When("version", 2 .. 4, <<U8("unk2")>>),
     When("version", 3 .. 4, <<U32("unk3")>>), When("version", {4}, <<U32("unk4")>>),
     When("version", 1 .. 4,
          <<U32("highestKey"), Vector("lookupRecords", 4, <<U32("index"), U32("offset")>>)>>) >>

-----------------------------------------------------------------------------
(* World files.                                                              *)

WorldTableOfContents ==
  << SetSwap(FALSE), Must(U32("version"), 1), U32("worldHeight"), U32("worldWidth"), U16("unknown4"),
     Vector("layers", 1, <<U16("layerSize"), String("layerName"), String("layerExtension")>>) >>

WorldTerrain ==
  <<Must(U32("magic1"), 12), U8("unknown2"), Must(U32("magic2"), 12),
    Vector("directory", 1, <<U8("recordType"), U32("recordOffset"), U32("recordLength")>>)>>
    \o FlattenSeq(Run(16, <<U16("attributes"), U16("texture")>>)) \o Run(3, Float("unknown"))

\* A row has the length of the stride, at half its width; the reader throws at a
\* longer one and fills what a shorter one leaves with zeros.
WorldTerrainEntry ==
  << Must(U32("magic1"), 1), U32("width"), U32("height"), U32("stride"),
     Repeat("height", 0, <<AtMost(U16("length"), "stride"), Repeat("length", 0, <<Raw("texel", 1)>>)>>),
     Must(U32("magic2"), 1) >>

FixtureVector == Run(3, Float("coordinate"))
BaseObject == <<U64("fixtureID"), U32("flags"), U32("itemGroupID")>> \o FixtureVector \o FixtureVector
                \o <<U32("worldOffsetX"), U32("unknown12"), U32("worldOffsetY")>>
PlacedObject == BaseObject \o Run(11, U32("placed"))
LightSource == BaseObject \o Run(2, U32("unknown14")) \o Run(14, Float("unknown16"))
                 \o Run(2, U32("unknown30")) \o Run(2, Float("unknown32"))
                 \o <<U32("texture1")>> \o Run(2, U32("unknown35")) \o Run(2, Float("unknown37"))
                 \o <<U32("texture2")>> \o Run(4, U32("unknown40")) \o Run(32, Float("unknown44"))
                 \o Run(3, U32("unknown76"))
UnknownObject == BaseObject \o Run(2, U32("unknown14")) \o <<Float("unknown16"), U32("unknown17")>>
                   \o Run(3, Float("unknown18")) \o Run(2, U32("unknown21"))
ObjectGroup == <<U32("groupId"), Vector("furnitureID", 4, <<U64("furniture")>>)>>

\* A node's children are items or nodes, by its level; the levels of children are
\* named apart, and not checked against their parent's.
BoundingBox == FixtureVector \o FixtureVector
Leaf == Vector("itemChildren", 4, BoundingBox \o <<U32("itemIndex")>>)
RTreeNode ==
  << U32("nodeLevelsBelow"),
     When("nodeLevelsBelow", {0}, <<Leaf>>),
     Unless("nodeLevelsBelow", {0},
          <<Vector("nodeChildren", 4, BoundingBox \o <<Must(U32("childLevelsBelow"), 0), Leaf>>)>>) >>
RTree == <<Must(U32("signature"), 5), Must(U32("unknown2"), 4), Must(U32("unknown3"), 3),
           Must(U32("unknown4"), 4), Must(U32("unknown5"), 4), Must(U32("unknown6"), 8),
           Must(U32("unknown7"), 4)>> \o RTreeNode
FixtureFile ==
  << Must(U32("version"), 23),
     Vector("placedObjects", 4, PlacedObject), Vector("lightSources", 4, LightSource),
     Vector("unknownObjects", 4, UnknownObject), Vector("objectGroups", 4, ObjectGroup) >>
    \o FlattenSeq(Run(4, RTree))

Formats == {"manifest", "fileTable", "dataFile", "defFile", "defIndex", "contents", "terrain",
            "terrainEntry", "fixture"}
Format(name, reading) ==
  CASE name = "manifest" -> MNFFile(reading) [] name = "fileTable" -> FileTable
    [] name = "dataFile" -> DataFileHeader [] name = "defFile" -> DefFile(reading)
    [] name = "defIndex" -> DefFileIndex [] name = "contents" -> WorldTableOfContents
    [] name = "terrain" -> WorldTerrain [] name = "terrainEntry" -> WorldTerrainEntry
    [] name = "fixture" -> FixtureFile
=============================================================================
