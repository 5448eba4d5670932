------------------------------- MODULE MCDepot -------------------------------
(***************************************************************************)
(* Small depots for TLC: two manifests, a file table and up to four defs, some of *)
(* them aliases or of the name or the index of another, with a field of every     *)
(* kind.                                                                     *)
(***************************************************************************)
EXTENDS DepotRecords, TLC

F(type, name) == [type |-> type, arrayType |-> "none", typeName |-> <<>>, name |-> name]
Typed(type, typeName, name) == [F(type, name) EXCEPT !.typeName = typeName]
ArrayOf(type, typeName, name) == [Typed("Array", typeName, name) EXCEPT !.arrayType = type]

BaseDef == <<F("UInt", <<"id">>), F("String", <<>>)>>
Point == <<F("Int", <<"x">>), F("Int", <<>>)>>
Def(index, name, version, fields) ==
  [defIndex |-> index, name |-> name, version |-> version, fields |-> fields]
Alias(index, name, target) == [defIndex |-> index, name |-> name, targetName |-> target]

A == <<"A">>
B == <<"B">>
C == <<"C">>
DefA == Def(3, A, 2, << F("Boolean", <<>>), Typed("ForeignKey", C, <<"c">>),
                        ArrayOf("Struct", <<"Point">>, <<"points">>) >>)
DefB == Def(1, B, 0, << Typed("PolymorphicReference", <<"Kind">>, <<"ref">>),
                        Typed("Enum", <<"Kind">>, <<>>), Typed("Struct", <<"Point">>, <<"p">>) >>)

Kind == 1 :> A @@ 2 :> <<"B", "Old">> @@ 3 :> NULL @@ 4 :> <<"Gone">>
Database(ds, as, structures) ==
  [defs |-> ds, aliases |-> as, structures |-> structures, enums |-> <<"Kind">> :> Kind]
Structures == <<"BaseDef">> :> BaseDef @@ <<"Point">> :> Point

Directory(broken, ms, ts, db) ==
  [broken |-> broken, versions |-> <<"v1">>, manifests |-> ms, fileTables |-> ts, database |-> db]
Full == Database(<<DefA, DefB>>, <<Alias(2, C, A)>>, Structures)

MCDirectories ==
  { Directory("nothing", <<"game", "eso">>, <<"names">>, Full),
    Directory("nothing", <<"eso">>, <<>>, Database(<<DefB>>, <<>>, Structures)),
    Directory("nothing", <<>>, <<>>, Database(<<DefB>>, <<>>, <<"Point">> :> Point)),
    Directory("nothing", <<>>, <<>>, Database(<<DefA>>, <<Alias(2, C, A), Alias(4, B, C)>>, Structures)),
    Directory("nothing", <<"game">>, <<>>, Database(<<DefA, DefB, Def(2, A, 0, <<>>)>>, <<Alias(1, C, A)>>, Structures)),
    Directory("filesystem", <<"eso", "game">>, <<"names">>, Full),
    Directory("versions", <<>>, <<>>, Full),
    Directory("names", <<"eso">>, <<>>, Full),
    Directory("database", <<>>, <<>>, Full) }

\* id, unnamed; then the fields of the def.
RowsA == << <<7, 70, 1, 5, 2, 11, 12, 13, 14>>, <<8, 80, 0, 6, 0>> >>
RowsB == << <<1, 10, 2, 9, 1, 3, 4>>, <<2, 20, 3, 0, 3, 5, 6>>, <<1, 30, 9, 9, 9, 7, 8, 99>> >>
File(version, rows) == [flags |-> 19, version |-> version, itemCount |-> Len(rows), rows |-> rows]

Disk(ms, ts, files, stamp) == [manifests |-> ms, fileTables |-> ts, defFiles |-> files, stamp |-> stamp]
All == {"game", "eso"}
Good == 1 :> File(5, RowsB) @@ 2 :> File(2, <<RowsA[2]>>) @@ 3 :> File(2, RowsA)
Stamp == <<"build", "date", "v1">>

MCDisks ==
  { Disk(All, {"names"}, Good, Stamp),
    Disk({"game"}, {"names"}, Good, <<"build", "date", "v2">>),
    Disk(All, {}, Good, <<"build">>),
    Disk(All, {"names"}, [Good EXCEPT ![2].flags = 18], Stamp),
    Disk(All, {"names"}, [Good EXCEPT ![3].version = 3], Stamp),
    Disk(All, {"names"}, [Good EXCEPT ![1].itemCount = 4], Stamp),
    Disk(All, {"names"}, [Good EXCEPT ![3].rows[2] = <<8, 80, 0, 6>>], Stamp),
    Disk(All, {"names"}, [Good EXCEPT ![1].rows[2][3] = 4], Stamp),
    Disk(All, {"names"}, 1 :> File(5, RowsB), Stamp) }
=============================================================================
