-------------------------------- MODULE Depot --------------------------------
(***************************************************************************)
(* ESODepot and its ESODatabase: the directives say which manifests, file        *)
(* tables and definitions there are; load adds the manifests, loads the tables   *)
(* and parses every definition file, and asks its callback after each step        *)
(* whether to go on.  Any step may throw, and everything can be called again.     *)
(*                                                                         *)
(* The lookup caches, ESODatabaseDef::m_def and m_defLookupByName are pointers   *)
(* into vectors: a position, with the number of the allocation where that may     *)
(* change.  Parsing of directives and of manifests is modelled in DirectiveFiles  *)
(* and ArchiveStore; here it succeeds or throws.                               *)
(***************************************************************************)
EXTENDS FieldContainers

CONSTANTS Directories,         \* what a directory of directives may hold
          Disks,               \* what may be on disk
          MaxDirectiveLoads,   \* bounds the calls of loadDirectives
          MaxLoads,            \* and those of load
          \* parseStructureIntoRecord, of a context, fields, the rest of a row and a
          \* container, which RecordParsing is about.
          ParseInto(_, _, _, _)

IsList(s) == s \in Seq(ToSet(s))

ASSUME DepotAssumption ==
  /\ MaxDirectiveLoads \in Nat /\ MaxLoads \in Nat
  /\ \A d \in Directories :
       /\ d.broken \in {"nothing", "versions", "filesystem", "names", "database"}
       /\ IsList(d.versions) /\ IsList(d.manifests) /\ IsList(d.fileTables)
       /\ IsList(d.database.defs) /\ IsList(d.database.aliases)

VARIABLES directory, disk,     \* the directory loaded last, and what is on disk
          versions, manifests, fileTables,   \* the lists of the three directive files
          context,             \* m_parsingContext
          defs, byName,        \* ESODatabase's m_defs and m_defLookupByName
          archives, tables,    \* what the file system has been given
          step, progress,        \* the steps of loadDirectives and load
          loads,               \* history: the calls, and
          reported,            \*   the steps the callback was told of
          outcome              \*   and what the last call came to

lists == <<versions, manifests, fileTables>>
database == <<context, defs, byName>>
filesystem == <<archives, tables>>
input == <<directory, disk>>
depotVars == <<input, lists, database, filesystem, step, progress, loads, reported, outcome>>

\* With the directives it was read from, as history.
NoContext == [number |-> 0, source |-> [defs |-> <<>>, aliases |-> <<>>], structures |-> <<>>, enums |-> <<>>, defs |-> <<>>,
              aliases |-> <<>>, lookup |-> <<>>]

NoDirectory == [broken |-> "nothing", versions |-> <<>>, manifests |-> <<>>, fileTables |-> <<>>]

DepotInit ==
  /\ directory = NoDirectory
  /\ disk \in Disks
  /\ versions = <<>> /\ manifests = <<>> /\ fileTables = <<>>
  /\ context = NoContext
  /\ defs = <<>>
  /\ byName = <<>>
  /\ archives = <<>> /\ tables = <<>>
  /\ step = "idle"
  /\ progress = 0
  /\ loads = [directives |-> 0, databases |-> 0, depot |-> 0]
  /\ reported = 0
  /\ outcome = "none"

Returns(what) == step' = "idle" /\ outcome' = what

-----------------------------------------------------------------------------
(* ESODepot::loadDirectives.  Each file is parsed into the lists of the object.  *)

Broken(where) == directory.broken = where
LinesOf(s) == {SubSeq(s, 1, n) : n \in 0 .. Len(s)}

\* A call stops at the first file that is broken, of which it has taken some lines.
\* The names to harvest are read last and not used by anything modelled.
LoadLists ==
  /\ step = "idle" /\ loads.directives < MaxDirectiveLoads
  /\ \E d \in Directories, includingDatabase \in BOOLEAN :
       /\ directory' = d
       /\ loads' = [loads EXCEPT !.directives = @ + 1]
       /\ \E more \in IF d.broken = "versions" THEN LinesOf(d.versions) ELSE {d.versions} :
            versions' = versions \o more
       /\ IF d.broken = "versions" THEN UNCHANGED <<manifests, fileTables>>
          ELSE \E ms \in IF d.broken = "filesystem" THEN LinesOf(d.manifests) ELSE {d.manifests},
                  ts \in IF d.broken = "filesystem" THEN LinesOf(d.fileTables) ELSE {d.fileTables} :
                 manifests' = manifests \o ms /\ fileTables' = fileTables \o ts
       /\ IF d.broken \in {"versions", "filesystem", "names"} THEN Returns("threw")
          ELSE IF includingDatabase THEN step' = "context" /\ UNCHANGED outcome
          ELSE Returns("directives")
  /\ UNCHANGED <<disk, database, filesystem, progress, reported>>

-----------------------------------------------------------------------------
(* ESODatabase::loadDirectives.                                               *)

\* std::sort by defIndex, which is free to order equal ones as it likes.
SortedByIndex(s) ==
  {t \in {[i \in DOMAIN s |-> s[p[i]]] : p \in Bijection(DOMAIN s, DOMAIN s)} :
     \A i, j \in DOMAIN t : i < j => t[i].defIndex <= t[j].defIndex}

\* buildLookupCaches: the first of a name is found.
NamesOf(ds) == {ds[i].name : i \in DOMAIN ds}
LookupOf(ds) ==
  [name \in NamesOf(ds) |->
     CHOOSE i \in DOMAIN ds : ds[i].name = name /\ \A j \in 1 .. i - 1 : ds[j].name # name]

\* Mutant of Rebuilt: the caches of before the sort are kept.
Kept(ds) == context.lookup
\* The caches after the defs were put into a new order.
Rebuilt(ds) == LookupOf(ds)

\* m_parsingContext.emplace: the context before, with all that points into it, is
\* gone, whatever becomes of this call.
ReadDatabase ==
  /\ step = "context"
  /\ IF Broken("database")
     THEN /\ context' = [NoContext EXCEPT !.number = context.number + 1]
          /\ Returns("threw")
     ELSE /\ LET d == directory.database IN
             \E sorted \in SortedByIndex(d.defs) :
                 context' = [number |-> context.number + 1, source |-> d, structures |-> d.structures,
                             enums |-> d.enums, defs |-> sorted, aliases |-> d.aliases,
                             lookup |-> LookupOf(sorted)]
          /\ step' = "aliases"
          /\ UNCHANGED outcome
  /\ loads' = [loads EXCEPT !.databases = @ + 1]
  /\ UNCHANGED <<input, lists, defs, byName, filesystem, progress, reported>>

\* An alias is a def with the version and the fields of its target.
AliasOf(src, alias) == [src EXCEPT !.name = alias.name, !.defIndex = alias.defIndex]

\* The target must be a def of the directives.
ResolveAlias ==
  /\ step = "aliases" /\ context.aliases # <<>>
  /\ LET alias == Head(context.aliases) IN
     IF alias.targetName \notin DOMAIN context.lookup
     THEN /\ context' = [context EXCEPT !.defs = Append(@,
                 [defIndex |-> alias.defIndex, name |-> alias.name, version |-> 0, fields |-> <<>>])]
          /\ Returns("threw")
     ELSE LET src == context.defs[context.lookup[alias.targetName]] IN
          /\ context' = [context EXCEPT !.aliases = Tail(@),
                !.defs = Append(@, AliasOf(src, alias))]
          /\ UNCHANGED <<step, outcome>>
  /\ UNCHANGED <<input, lists, defs, byName, filesystem, progress, loads, reported>>

NewDef(i, ds) == [id |-> ds[i].defIndex, name |-> ds[i].name, context |-> context.number,
                  at |-> i, records |-> <<>>, lookup |-> <<>>, attempts |-> 0, loaded |-> FALSE]

\* m_defs grows, into another allocation; m_defLookupByName keeps the pointer of
\* a name that it has.
MakeDefs ==
  /\ step = "aliases" /\ context.aliases = <<>>
  /\ \E ds \in SortedByIndex(context.defs) :
       LET all == defs \o [i \in DOMAIN ds |-> NewDef(i, ds)] IN
       /\ context' = [context EXCEPT !.defs = ds, !.lookup = Rebuilt(ds)]
       /\ defs' = all
       /\ byName' = [name \in DOMAIN byName \cup NamesOf(all) |->
                       IF name \in DOMAIN byName THEN byName[name]
                       ELSE [at |-> LookupOf(all)[name], allocation |-> context.number]]
  /\ Returns("directives")
  /\ UNCHANGED <<input, lists, filesystem, progress, loads, reported>>

-----------------------------------------------------------------------------
(* ESODatabaseDef::loadDef.                                                   *)

DefOf(d) == context.defs[d.at]
Constant(n) == [is |-> "UInt", of |-> n]

\* A row is parsed into the record at its position, which a load before may have
\* filled.
ParseRow(d, file, row, record) ==
  LET start == AddField(AddField(record, <<"flags">>, Constant(file.flags)),
                        <<"version">>, Constant(file.version))
      base == ParseInto(context, context.structures[<<"BaseDef">>], row, start)
  IN  IF base.ok THEN ParseInto(context, DefOf(d).fields, base.stream, base.value) ELSE base

\* std::get throws if the id is not an unsigned integer.
HasId(record) == <<"id">> \in DOMAIN record.values /\ record.values[<<"id">>].is = "UInt"

\* One round of the loop over the records.  A file may hold fewer rows than it
\* says.
AddRow(d, file, acc, i) ==
  IF ~acc.ok THEN acc
  ELSE IF i > Len(file.rows) THEN [acc EXCEPT !.ok = FALSE]
  ELSE LET parsed == ParseRow(d, file, file.rows[i], acc.records[i])
           ok == parsed.ok /\ HasId(parsed.value)
       IN  [ok |-> ok, records |-> [acc.records EXCEPT ![i] = parsed.value],
            lookup |-> IF ok THEN acc.lookup @@ (parsed.value.values[<<"id">>].of :> i) ELSE acc.lookup]

Refused(d, file) ==
  \/ file.flags # 19
  \/ DefOf(d).version # 0 /\ DefOf(d).version # file.version

\* m_records.resize keeps the records there are.
Resized(records, n) ==
  [i \in 1 .. n |-> IF i <= Len(records) THEN records[i] ELSE NoFields]

AllRows(d, file) ==
  FoldLeft(LAMBDA acc, i : AddRow(d, file, acc, i),
           [ok |-> TRUE, records |-> Resized(d.records, file.itemCount), lookup |-> d.lookup],
           [i \in 1 .. file.itemCount |-> i])

Attempted(d, loaded, records, lookup) ==
  [d EXCEPT !.attempts = @ + 1, !.loaded = loaded, !.records = records, !.lookup = lookup]

LoadDef(d) ==
  LET file == disk.defFiles[d.id] IN
  IF d.id \notin DOMAIN disk.defFiles \/ Refused(d, file)
  THEN Attempted(d, FALSE, d.records, d.lookup)
  ELSE IF <<"BaseDef">> \notin DOMAIN context.structures
  THEN Attempted(d, FALSE, Resized(d.records, file.itemCount), d.lookup)
  ELSE LET all == AllRows(d, file) IN Attempted(d, all.ok, all.records, all.lookup)

-----------------------------------------------------------------------------
(* ESODepot::load.                                                            *)

Expected == Len(manifests) + Len(fileTables) + Len(defs)

\* Mutant of Reports: the callback is told of progress.
ReportsTotal ==
  /\ reported' = reported + progress + 1
  /\ \/ UNCHANGED outcome /\ step' = "load"
     \/ Returns("cancelled")
\* loadingStepsDone(1): the callback may ask to stop.
Reports ==
  /\ reported' = reported + 1
  /\ \/ UNCHANGED outcome /\ step' = "load"
     \/ Returns("cancelled")

Load ==
  /\ step = "idle" /\ loads.depot < MaxLoads
  /\ loads' = [loads EXCEPT !.depot = @ + 1]
  /\ progress' = 0
  /\ reported' = 1
  /\ (step' = "load" /\ UNCHANGED outcome) \/ Returns("cancelled")
  /\ UNCHANGED <<input, lists, database, filesystem>>

Loading == step = "load" /\ UNCHANGED <<input, lists, loads>>
Fails == Returns("threw") /\ UNCHANGED <<progress, reported>>

\* Mutant of AddLast: a manifest goes before those there are.
AddBefore(m) == <<m>> \o archives
AddLast(m) == Append(archives, m)

LoadManifest ==
  /\ Loading /\ progress < Len(manifests)
  /\ LET m == manifests[progress + 1] IN
     IF m \notin disk.manifests THEN Fails /\ UNCHANGED archives
     ELSE archives' = AddLast(m) /\ progress' = progress + 1 /\ Reports
  /\ UNCHANGED <<database, tables>>

LoadFileTable ==
  /\ Loading /\ progress >= Len(manifests) /\ progress < Len(manifests) + Len(fileTables)
  /\ LET t == fileTables[progress - Len(manifests) + 1] IN
     IF t \notin disk.fileTables THEN Fails /\ UNCHANGED tables
     ELSE tables' = Append(tables, t) /\ progress' = progress + 1 /\ Reports
  /\ UNCHANGED <<database, archives>>

Current == progress - Len(manifests) - Len(fileTables) + 1

\* m_def points into a context that may be gone: that its def is used then shows
\* as a crash.
LoadOneDef ==
  /\ Loading /\ Current >= 1 /\ Current <= Len(defs)
  /\ IF defs[Current].context # context.number
     THEN step' = "crashed" /\ UNCHANGED <<database, progress, reported, outcome>>
     ELSE LET d == LoadDef(defs[Current]) IN
          /\ defs' = [defs EXCEPT ![Current] = d]
          /\ UNCHANGED <<context, byName>>
          /\ IF d.loaded THEN progress' = progress + 1 /\ Reports ELSE Fails
  /\ UNCHANGED filesystem

LoadDone ==
  /\ Loading /\ Current > Len(defs)
  /\ Returns("loaded")
  /\ UNCHANGED <<database, filesystem, progress, reported>>

\* validateDepot reads the version anew; three lines are wanted.
ValidateDepot ==
  /\ step = "idle"
  /\ Returns(IF Len(disk.stamp) < 3 THEN "DoesNotExist"
             ELSE IF disk.stamp[3] \in ToSet(versions) THEN "Succeeded"
             ELSE "UnsupportedVersion")
  /\ UNCHANGED <<input, lists, database, filesystem, progress, loads, reported>>

DepotNext ==
  \/ LoadLists \/ ReadDatabase \/ ResolveAlias \/ MakeDefs
  \/ Load \/ LoadManifest \/ LoadFileTable \/ LoadOneDef \/ LoadDone
  \/ ValidateDepot

DepotSpec == DepotInit /\ [][DepotNext]_depotVars

-----------------------------------------------------------------------------
\* What the pointers of the database are to lead to.
Complete == defs # <<>> /\ Last(defs).context = context.number

\* As long as the directives of a database were loaded once, every def points to
\* its own structure, with the fields and the version of its directive or of the
\* def it is an alias of, every name leads to the first def that has it, in the
\* order of their indices, and no load uses a structure that is gone
\* (ESODatabase::loadDirectives, buildLookupCaches).  A second time leaves all defs
\* of the first with pointers into the old context.
PointersExact ==
  loads.databases <= 1 =>
    /\ step # "crashed"
    /\ Complete =>
         /\ \A i \in DOMAIN defs :
              /\ DefOf(defs[i]).name = defs[i].name /\ DefOf(defs[i]).defIndex = defs[i].id
              /\ i > 1 => defs[i - 1].id <= defs[i].id
              /\ defs[i].name \in DOMAIN byName
              /\ LET at == byName[defs[i].name].at IN
                 defs[at].name = defs[i].name /\ \A j \in 1 .. at - 1 : defs[j].name # defs[i].name
              /\ defs[i].name \in DOMAIN context.lookup
              /\ context.defs[context.lookup[defs[i].name]].name = defs[i].name
         /\ \A n \in DOMAIN context.source.defs :
              \E i \in DOMAIN defs : DefOf(defs[i]) = context.source.defs[n]
         /\ \A n \in DOMAIN context.source.aliases :
              LET alias == context.source.aliases[n] IN
              \E i \in DOMAIN defs, m \in DOMAIN context.source.defs :
                /\ context.source.defs[m].name = alias.targetName
                /\ DefOf(defs[i]) = AliasOf(context.source.defs[m], alias)

\* A load that is not stopped reports the steps it promised, and one more, which
\* comes first; then all manifests, tables and defs are there, whatever earlier
\* loads did not come to (ESODepot::load, getExpectedNumberOfLoadingSteps).
LoadReports ==
  /\ step = "load" => reported = progress + 1
  /\ step = "idle" /\ outcome = "loaded" =>
       /\ reported = Expected + 1
       /\ ToSet(manifests) \subseteq ToSet(archives) /\ ToSet(fileTables) \subseteq ToSet(tables)
       /\ \A i \in DOMAIN defs : defs[i].loaded

\* Loads that were cancelled or failed leave archives behind, which the next load
\* adds again; still no archive stands before one whose manifest the directives
\* name earlier, so that a file is read from the same archive as ever
\* (ESODepot::load, Filesystem::tryReadFileByKey).
RetryKeepsPrecedence ==
  \A a \in DOMAIN archives :
    \E m \in DOMAIN manifests :
      /\ archives[a] = manifests[m]
      /\ \A earlier \in 1 .. m - 1 : \E b \in 1 .. a - 1 : archives[b] = manifests[earlier]
=============================================================================
