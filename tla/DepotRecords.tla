---------------------------- MODULE DepotRecords ----------------------------
(***************************************************************************)
(* What the records are that Depot's loads leave, when rows are parsed as         *)
(* RecordParsing says.                                                        *)
(***************************************************************************)
EXTENDS Depot, RecordParsing

\* The directives of a record's fields, and their names.
Fields(d) == context.structures[<<"BaseDef">>] \o DefOf(d).fields
Ordered(d) ==
  <<<<"flags">>, <<"version">>>> \o
    [i \in DOMAIN Fields(d) |->
       IF Fields(d)[i].name = <<>> THEN <<"unk", i + 2>> ELSE Fields(d)[i].name]
Named(names) == SelectSeq(names, LAMBDA n : Len(n) = 1)

\* A def that was loaded has a record for each row, found by its id, whose fields
\* are those of BaseDef and of the def, in their order and by their names, each
\* with the value that its part of the row spells, and keys to the def that the
\* directive names.  A load that is repeated adds the unnamed fields again, under
\* new names, and nothing else (ESODatabaseDef::loadDef, addField).
RecordsExact ==
  \A i \in DOMAIN defs :
    LET d == defs[i] IN
    d.loaded /\ d.context = context.number /\ step = "idle" =>
      LET rows == disk.defFiles[d.id].rows IN
      /\ Len(d.records) = disk.defFiles[d.id].itemCount
      /\ \A r \in DOMAIN d.records :
           LET record == d.records[r]
               items == FlattenSeq([n \in DOMAIN Fields(d) |-> Items(record.values[Ordered(d)[n + 2]])])
           IN  /\ Named(record.order) = Named(Ordered(d))
               /\ d.attempts = 1 => record.order = Ordered(d) /\ IsPrefix(items, rows[r])
               /\ \A n \in DOMAIN Fields(d) :
                    Fields(d)[n].type = "ForeignKey" =>
                      record.values[Ordered(d)[n + 2]].def = Fields(d)[n].typeName
               /\ d.lookup[record.values[<<"id">>].of] =
                    Min({q \in DOMAIN d.records : d.records[q].values[<<"id">>] = record.values[<<"id">>]})
=============================================================================
