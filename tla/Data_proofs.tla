----------------------------- MODULE Data_proofs -----------------------------
(***************************************************************************)
(* Proofs about the two readers of definitions, Depot, for any directories, disk   *)
(* and way of parsing a row into fields, and DatabaseManager, for any tables, rows, *)
(* versions and flags; and about the streams that the files of both are written to, *)
(* FileStreams, for any formats.                                                *)
(***************************************************************************)
EXTENDS Depot, DatabaseManager, FileStreams, WellFoundedInduction, TLAPS

-----------------------------------------------------------------------------
(* Sequences.                                                                *)

(* A list is a function on the numbers up to its length.                      *)
LEMMA ListIsFunction ==
  ASSUME NEW s, IsList(s)
  PROVE  Len(s) \in Nat /\ DOMAIN s = 1 .. Len(s) /\ s = [i \in 1 .. Len(s) |-> s[i]]
  BY DEF IsList

(* And the other way round.                                                   *)
LEMMA FunctionIsList ==
  ASSUME NEW n \in Nat, NEW s, DOMAIN s = 1 .. n, s = [i \in 1 .. n |-> s[i]]
  PROVE  IsList(s) /\ Len(s) = n
<1>1. s \in [1 .. n -> ToSet(s)]
  BY DEF ToSet
<1>2. s \in Seq(ToSet(s))
  BY <1>1
<1> QED
  BY <1>2 DEF IsList

(* A sequence of whatever type is a list.                                     *)
LEMMA SequenceIsList ==
  ASSUME NEW S, NEW s \in Seq(S)
  PROVE  IsList(s) /\ Len(s) \in Nat
<1>1. Len(s) \in Nat /\ DOMAIN s = 1 .. Len(s) /\ s = [i \in 1 .. Len(s) |-> s[i]]
  OBVIOUS
<1> QED
  BY <1>1, FunctionIsList

LEMMA EmptyIsList == IsList(<<>>) /\ Len(<<>>) = 0 /\ DOMAIN <<>> = {}
<1>1. <<>> \in Seq(ToSet(<<>>))
  OBVIOUS
<1> QED
  BY <1>1 DEF IsList

(* What Append does to a list.                                                *)
LEMMA AppendToList ==
  ASSUME NEW s, IsList(s), NEW e
  PROVE  /\ IsList(Append(s, e)) /\ Len(Append(s, e)) = Len(s) + 1
         /\ \A i \in 1 .. Len(s) : Append(s, e)[i] = s[i]
         /\ Append(s, e)[Len(s) + 1] = e
<1> DEFINE S == ToSet(s) \cup {e}
           t == Append(s, e)
<1>1. s \in Seq(ToSet(s)) /\ Len(s) \in Nat
  BY ListIsFunction DEF IsList
<1>2. s \in Seq(S) /\ e \in S
  <2>1. ToSet(s) \subseteq S
    OBVIOUS
  <2> QED
    BY <1>1, <2>1
<1> HIDE DEF S
<1>3. /\ t \in Seq(S) /\ Len(t) = Len(s) + 1
      /\ \A i \in 1 .. Len(s) : t[i] = s[i]
      /\ t[Len(s) + 1] = e
  BY <1>2
<1>5. IsList(t)
  BY <1>3, SequenceIsList
<1> QED
  BY <1>3, <1>5 DEF t

(* What concatenation does.                                                   *)
LEMMA ConcatLists ==
  ASSUME NEW s, IsList(s), NEW t, IsList(t)
  PROVE  /\ IsList(s \o t) /\ Len(s \o t) = Len(s) + Len(t)
         /\ \A i \in 1 .. Len(s) : (s \o t)[i] = s[i]
         /\ \A i \in 1 .. Len(t) : (s \o t)[Len(s) + i] = t[i]
<1> DEFINE S == ToSet(s) \cup ToSet(t)
           u == s \o t
<1>1. Len(s) \in Nat /\ Len(t) \in Nat
  BY ListIsFunction
<1>2. s \in Seq(S) /\ t \in Seq(S)
  <2>1. ToSet(s) \subseteq S /\ ToSet(t) \subseteq S
    OBVIOUS
  <2> QED
    BY <2>1 DEF IsList
<1> HIDE DEF S
<1>3. /\ u \in Seq(S) /\ Len(u) = Len(s) + Len(t)
      /\ \A i \in 1 .. Len(s) : u[i] = s[i]
      /\ \A i \in 1 .. Len(t) : u[Len(s) + i] = t[i]
  BY <1>1, <1>2
<1>5. IsList(u)
  BY <1>3, SequenceIsList
<1> QED
  BY <1>3, <1>5 DEF u

(* The lines that a call took before it threw are a list, and so is what is left *)
(* of the aliases.                                                           *)
LEMMA PartsOfLists ==
  ASSUME NEW s, IsList(s)
  PROVE  /\ \A t \in LinesOf(s) : IsList(t)
         /\ s # <<>> => /\ IsList(Tail(s)) /\ Len(Tail(s)) = Len(s) - 1 /\ Len(s) > 0
                        /\ Head(s) = s[1]
                        /\ \A i \in 1 .. Len(s) - 1 : Tail(s)[i] = s[i + 1]
<1> DEFINE S == ToSet(s)
<1>1. s \in Seq(S) /\ Len(s) \in Nat
  BY ListIsFunction DEF IsList
<1> HIDE DEF S
<1>2. ASSUME NEW n \in 0 .. Len(s) PROVE IsList(SubSeq(s, 1, n))
  <2>1. SubSeq(s, 1, n) \in Seq(S)
    BY <1>1
  <2> QED
    BY <2>1, SequenceIsList
<1>3. ASSUME s # <<>>
      PROVE  /\ IsList(Tail(s)) /\ Len(Tail(s)) = Len(s) - 1 /\ Len(s) > 0
             /\ Head(s) = s[1]
             /\ \A i \in 1 .. Len(s) - 1 : Tail(s)[i] = s[i + 1]
  <2>1. Tail(s) \in Seq(S) /\ Len(Tail(s)) = Len(s) - 1 /\ Len(s) > 0
    BY <1>1, <1>3
  <2>3. IsList(Tail(s))
    BY <2>1, SequenceIsList
  <2> QED
    BY <1>1, <1>3, <2>1, <2>3
<1> QED
  BY <1>2, <1>3 DEF LinesOf

(* An element is in a list as long as the list grows at its end.                *)
LEMMA ToSetOfList ==
  ASSUME NEW s, IsList(s)
  PROVE  \A e : e \in ToSet(s) <=> \E i \in 1 .. Len(s) : s[i] = e
  BY ListIsFunction DEF ToSet

-----------------------------------------------------------------------------
(* Sorting and the caches.                                                    *)

(* A sorted list has the elements of the list, each as often, in order.         *)
LEMMA SortedHasTheSame ==
  ASSUME NEW s, IsList(s), NEW t \in SortedByIndex(s)
  PROVE  /\ IsList(t) /\ Len(t) = Len(s)
         /\ \A i \in DOMAIN t : \E j \in DOMAIN s : t[i] = s[j]
         /\ \A j \in DOMAIN s : \E i \in DOMAIN t : t[i] = s[j]
         /\ \A i, j \in DOMAIN t : i < j => t[i].defIndex <= t[j].defIndex
<1>1. Len(s) \in Nat /\ DOMAIN s = 1 .. Len(s)
  BY ListIsFunction
<1>2. PICK p \in Bijection(DOMAIN s, DOMAIN s) : t = [i \in DOMAIN s |-> s[p[i]]]
  BY DEF SortedByIndex
<1>3. p \in [DOMAIN s -> DOMAIN s] /\ \A j \in DOMAIN s : \E i \in DOMAIN s : p[i] = j
  BY <1>2 DEF Bijection, Injection, Surjection
<1>4. IsList(t) /\ Len(t) = Len(s)
  BY <1>1, <1>2, FunctionIsList
<1>5. DOMAIN t = DOMAIN s
  BY <1>2
<1>6. \A i \in DOMAIN t : \E j \in DOMAIN s : t[i] = s[j]
  BY <1>2, <1>3, <1>5
<1>7. \A j \in DOMAIN s : \E i \in DOMAIN t : t[i] = s[j]
  BY <1>2, <1>3, <1>5
<1>8. \A i, j \in DOMAIN t : i < j => t[i].defIndex <= t[j].defIndex
  BY DEF SortedByIndex
<1> QED
  BY <1>4, <1>6, <1>7, <1>8

(* A nonempty set of natural numbers has a least element.                      *)
LEMMA LeastOfNats ==
  ASSUME NEW S \in SUBSET Nat, S # {}
  PROVE  \E m \in S : \A n \in S : m <= n
<1>1. PICK m \in S : \A n \in S : <<n, m>> \notin OpToRel(<, Nat)
  BY NatLessThanWellFounded, WFMin, Zenon
<1>2. \A n \in S : ~(n < m)
  BY <1>1, Zenon DEF OpToRel
<1>3. \A n \in S : m <= n
  BY <1>2
<1> QED
  BY <1>3

(* A cache leads from each name to the first that has it.                      *)
LEMMA LookupFindsFirst ==
  ASSUME NEW ds, IsList(ds)
  PROVE  /\ DOMAIN LookupOf(ds) = NamesOf(ds)
         /\ \A i \in DOMAIN ds : ds[i].name \in NamesOf(ds)
         /\ \A name \in NamesOf(ds) :
              /\ LookupOf(ds)[name] \in DOMAIN ds /\ ds[LookupOf(ds)[name]].name = name
              /\ \A j \in 1 .. LookupOf(ds)[name] - 1 : ds[j].name # name
<1>1. Len(ds) \in Nat /\ DOMAIN ds = 1 .. Len(ds)
  BY ListIsFunction
<1>2. ASSUME NEW name \in NamesOf(ds)
      PROVE  /\ LookupOf(ds)[name] \in DOMAIN ds /\ ds[LookupOf(ds)[name]].name = name
             /\ \A j \in 1 .. LookupOf(ds)[name] - 1 : ds[j].name # name
  <2> DEFINE S == {i \in DOMAIN ds : ds[i].name = name}
             First(i) == ds[i].name = name /\ \A j \in 1 .. i - 1 : ds[j].name # name
  <2>1. S \in SUBSET Nat /\ S # {}
    BY <1>1 DEF NamesOf
  <2>2. PICK m \in S : \A n \in S : m <= n
    BY <2>1, LeastOfNats
  <2>3. \A j \in 1 .. m - 1 : j \in DOMAIN ds /\ ~(m <= j)
    BY <1>1, <2>1, <2>2
  <2>4. m \in DOMAIN ds /\ First(m)
    BY <2>2, <2>3
  <2>5. LookupOf(ds)[name] = CHOOSE i \in DOMAIN ds : First(i)
    BY DEF LookupOf
  <2> HIDE DEF First
  <2>6. LookupOf(ds)[name] \in DOMAIN ds /\ First(LookupOf(ds)[name])
    BY <2>4, <2>5
  <2> QED
    BY <2>6 DEF First
<1> QED
  BY <1>2 DEF LookupOf, NamesOf

-----------------------------------------------------------------------------
(* Types.                                                                    *)

ContextFields == {"number", "source", "structures", "enums", "defs", "aliases", "lookup"}
DefFields == {"id", "name", "context", "at", "records", "lookup", "attempts", "loaded"}

ListsOK ==
  /\ IsList(versions) /\ IsList(manifests) /\ IsList(fileTables)
  /\ IsList(archives) /\ IsList(tables)

DirectoryOK ==
  /\ directory \in Directories \cup {NoDirectory}
  /\ step = "context" => directory \in Directories

CountsOK ==
  /\ progress \in Nat
  /\ DOMAIN loads = {"directives", "databases", "depot"} /\ loads.databases \in Nat
  /\ context.number = loads.databases

DatabaseOK ==
  /\ DOMAIN context = ContextFields
  /\ IsList(context.defs) /\ IsList(context.aliases)
  /\ IsList(context.source.defs) /\ IsList(context.source.aliases)
  /\ IsList(defs)
  /\ \A i \in DOMAIN defs : DOMAIN defs[i] = DefFields

DepotTypes == ListsOK /\ DirectoryOK /\ CountsOK /\ DatabaseOK

(* A directory that is loaded has lists.                                       *)
LEMMA DirectoryLists ==
  ASSUME NEW d \in Directories
  PROVE  /\ IsList(d.versions) /\ IsList(d.manifests) /\ IsList(d.fileTables)
         /\ IsList(d.database.defs) /\ IsList(d.database.aliases)
  BY DepotAssumption

(* How the lists grow when directives are loaded.                              *)
LEMMA LoadListsExtends ==
  ASSUME ListsOK, LoadLists
  PROVE  \E vs, ms, ts :
           /\ IsList(vs) /\ IsList(ms) /\ IsList(ts)
           /\ versions' = versions \o vs /\ manifests' = manifests \o ms
           /\ fileTables' = fileTables \o ts
<1>1. PICK d \in Directories :
        /\ \E more \in IF d.broken = "versions" THEN LinesOf(d.versions) ELSE {d.versions} :
             versions' = versions \o more
        /\ IF d.broken = "versions" THEN UNCHANGED <<manifests, fileTables>>
           ELSE \E ms \in IF d.broken = "filesystem" THEN LinesOf(d.manifests) ELSE {d.manifests},
                   ts \in IF d.broken = "filesystem" THEN LinesOf(d.fileTables) ELSE {d.fileTables} :
                  manifests' = manifests \o ms /\ fileTables' = fileTables \o ts
  BY DEF LoadLists
<1>2. \E vs : IsList(vs) /\ versions' = versions \o vs
  <2>1. PICK more \in IF d.broken = "versions" THEN LinesOf(d.versions) ELSE {d.versions} :
             versions' = versions \o more
    BY <1>1
  <2>2. IsList(more)
    BY <2>1, DirectoryLists, PartsOfLists
  <2> QED
    BY <2>1, <2>2
<1>3. \E ms, ts : /\ IsList(ms) /\ IsList(ts)
                  /\ manifests' = manifests \o ms /\ fileTables' = fileTables \o ts
  <2>1. CASE d.broken = "versions"
    <3>1. manifests \o <<>> = manifests /\ fileTables \o <<>> = fileTables
      BY DEF ListsOK, IsList
    <3>2. manifests' = manifests \o <<>> /\ fileTables' = fileTables \o <<>>
      BY <1>1, <2>1, <3>1
    <3> QED
      BY <3>2, EmptyIsList
  <2>2. CASE d.broken # "versions"
    <3>1. PICK ms \in IF d.broken = "filesystem" THEN LinesOf(d.manifests) ELSE {d.manifests},
               ts \in IF d.broken = "filesystem" THEN LinesOf(d.fileTables) ELSE {d.fileTables} :
            manifests' = manifests \o ms /\ fileTables' = fileTables \o ts
      BY <1>1, <2>2
    <3>2. IsList(ms) /\ IsList(ts)
      BY <3>1, DirectoryLists, PartsOfLists
    <3> QED
      BY <3>1, <3>2
  <2> QED
    BY <2>1, <2>2
<1> QED
  BY <1>2, <1>3

LEMMA ListsKept == ASSUME ListsOK, [DepotNext]_depotVars PROVE ListsOK'
<1> DEFINE Same == UNCHANGED <<lists, filesystem>>
<1>1. Same => ListsOK'
  BY DEF ListsOK, lists, filesystem
<1>2. CASE LoadLists
  <2>1. UNCHANGED filesystem
    BY <1>2 DEF LoadLists
  <2>2. PICK vs, ms, ts :
           /\ IsList(vs) /\ IsList(ms) /\ IsList(ts)
           /\ versions' = versions \o vs /\ manifests' = manifests \o ms
           /\ fileTables' = fileTables \o ts
    BY <1>2, LoadListsExtends
  <2>3. IsList(versions \o vs) /\ IsList(manifests \o ms) /\ IsList(fileTables \o ts)
    BY <2>2, ConcatLists DEF ListsOK
  <2>4. IsList(versions') /\ IsList(manifests') /\ IsList(fileTables')
    BY <2>2, <2>3, Zenon
  <2> QED
    BY <2>1, <2>4 DEF ListsOK, filesystem
<1>3. CASE LoadManifest
  <2>1. archives' = archives \/ \E m : archives' = Append(archives, m)
    BY <1>3 DEF LoadManifest, AddLast
  <2>2. UNCHANGED <<lists, tables>>
    BY <1>3 DEF LoadManifest, Loading
  <2> QED
    BY <2>1, <2>2, AppendToList DEF ListsOK, lists
<1>4. CASE LoadFileTable
  <2>1. tables' = tables \/ \E t : tables' = Append(tables, t)
    BY <1>4 DEF LoadFileTable
  <2>2. UNCHANGED <<lists, archives>>
    BY <1>4 DEF LoadFileTable, Loading
  <2> QED
    BY <2>1, <2>2, AppendToList DEF ListsOK, lists
<1>5. CASE ReadDatabase \/ ResolveAlias \/ MakeDefs
  BY <1>5, <1>1 DEF ReadDatabase, ResolveAlias, MakeDefs
<1>6. CASE Load \/ LoadOneDef \/ LoadDone \/ ValidateDepot
  BY <1>6, <1>1 DEF Load, LoadOneDef, LoadDone, ValidateDepot, Loading
<1>7. CASE UNCHANGED depotVars
  BY <1>7, <1>1 DEF depotVars
<1> QED
  BY <1>2, <1>3, <1>4, <1>5, <1>6, <1>7 DEF DepotNext

LEMMA DirectoryKept == ASSUME DirectoryOK, [DepotNext]_depotVars PROVE DirectoryOK'
<1>1. CASE LoadLists
  BY <1>1 DEF LoadLists, DirectoryOK
<1>2. CASE ReadDatabase \/ ResolveAlias \/ MakeDefs \/ Load \/ LoadDone \/ ValidateDepot
  BY <1>2 DEF ReadDatabase, ResolveAlias, MakeDefs, Load, LoadDone, ValidateDepot, Loading, Returns,
              input, DirectoryOK
<1>3. CASE LoadManifest \/ LoadFileTable \/ LoadOneDef
  BY <1>3 DEF LoadManifest, LoadFileTable, LoadOneDef, Loading, Fails, Reports, Returns, input,
              DirectoryOK
<1>4. CASE UNCHANGED depotVars
  BY <1>4 DEF depotVars, input, DirectoryOK
<1> QED
  BY <1>1, <1>2, <1>3, <1>4 DEF DepotNext

LEMMA CountsKept == ASSUME CountsOK, DatabaseOK, [DepotNext]_depotVars PROVE CountsOK'
<1>1. CASE LoadLists
  BY <1>1 DEF LoadLists, CountsOK, database
<1>2. CASE ReadDatabase
  <2>1. loads' = [loads EXCEPT !.databases = @ + 1] /\ progress' = progress
    BY <1>2 DEF ReadDatabase
  <2>2. context'.number = context.number + 1
    BY <1>2 DEF ReadDatabase, NoContext
  <2> QED
    BY <2>1, <2>2 DEF CountsOK
<1>3. CASE ResolveAlias
  <2>1. UNCHANGED <<progress, loads>> /\ context'.number = context.number
    BY <1>3 DEF ResolveAlias, DatabaseOK, ContextFields
  <2> QED
    BY <2>1 DEF CountsOK
<1>4. CASE MakeDefs
  <2>1. UNCHANGED <<progress, loads>> /\ context'.number = context.number
    BY <1>4 DEF MakeDefs, DatabaseOK, ContextFields
  <2> QED
    BY <2>1 DEF CountsOK
<1>5. CASE Load
  BY <1>5 DEF Load, CountsOK, database
<1>6. CASE LoadManifest \/ LoadFileTable
  BY <1>6 DEF LoadManifest, LoadFileTable, Loading, Fails, database, CountsOK
<1>7. CASE LoadOneDef
  BY <1>7 DEF LoadOneDef, Loading, Fails, database, CountsOK
<1>8. CASE LoadDone \/ ValidateDepot
  BY <1>8 DEF LoadDone, ValidateDepot, Loading, database, CountsOK
<1>9. CASE UNCHANGED depotVars
  BY <1>9 DEF depotVars, database, CountsOK
<1> QED
  BY <1>1, <1>2, <1>3, <1>4, <1>5, <1>6, <1>7, <1>8, <1>9 DEF DepotNext

(* A load leaves a def what it is, whatever becomes of its records.             *)
LEMMA LoadDefKeeps ==
  ASSUME NEW d, DOMAIN d = DefFields
  PROVE  /\ DOMAIN LoadDef(d) = DefFields
         /\ LoadDef(d).id = d.id /\ LoadDef(d).name = d.name
         /\ LoadDef(d).context = d.context /\ LoadDef(d).at = d.at
<1>1. ASSUME NEW a, NEW l, NEW r, NEW k
      PROVE  /\ DOMAIN Attempted(d, l, r, k) = DefFields
             /\ Attempted(d, l, r, k).id = d.id /\ Attempted(d, l, r, k).name = d.name
             /\ Attempted(d, l, r, k).context = d.context /\ Attempted(d, l, r, k).at = d.at
  BY DEF Attempted, DefFields
<1>2. \E l, r, k : LoadDef(d) = Attempted(d, l, r, k)
  BY Zenon DEF LoadDef
<1> QED
  BY <1>1, <1>2, Zenon

(* What MakeDefs appends to the defs there are.                               *)
NewDefs(ds) == [i \in DOMAIN ds |-> NewDef(i, ds)]

LEMMA NewDefsAreList ==
  ASSUME NEW ds, IsList(ds)
  PROVE  /\ IsList(NewDefs(ds)) /\ Len(NewDefs(ds)) = Len(ds)
         /\ DOMAIN NewDefs(ds) = DOMAIN ds
         /\ \A i \in DOMAIN ds : NewDefs(ds)[i] = NewDef(i, ds)
<1>1. Len(ds) \in Nat /\ DOMAIN ds = 1 .. Len(ds)
  BY ListIsFunction
<1>2. DOMAIN NewDefs(ds) = DOMAIN ds /\ \A i \in DOMAIN ds : NewDefs(ds)[i] = NewDef(i, ds)
  BY Zenon DEF NewDefs
<1>3. NewDefs(ds) = [i \in 1 .. Len(ds) |-> NewDefs(ds)[i]]
  BY <1>1 DEF NewDefs
<1> QED
  BY <1>1, <1>2, <1>3, FunctionIsList

LEMMA DatabaseKept ==
  ASSUME DatabaseOK, DirectoryOK, [DepotNext]_depotVars
  PROVE  DatabaseOK'
<1>1. CASE ReadDatabase
  <2>1. defs' = defs
    BY <1>1 DEF ReadDatabase
  <2>2. /\ DOMAIN context' = ContextFields
        /\ IsList(context'.defs) /\ IsList(context'.aliases)
        /\ IsList(context'.source.defs) /\ IsList(context'.source.aliases)
    <3>1. CASE Broken("database")
      <4>1. context' = [NoContext EXCEPT !.number = context.number + 1]
        BY <1>1, <3>1 DEF ReadDatabase
      <4> QED
        BY <4>1, EmptyIsList DEF NoContext, ContextFields
    <3>2. CASE ~Broken("database")
      <4>1. PICK sorted \in SortedByIndex(directory.database.defs) :
              context' = [number |-> context.number + 1, source |-> directory.database,
                          structures |-> directory.database.structures,
                          enums |-> directory.database.enums, defs |-> sorted,
                          aliases |-> directory.database.aliases, lookup |-> LookupOf(sorted)]
        BY <1>1, <3>2 DEF ReadDatabase
      <4>2. directory \in Directories
        BY <1>1 DEF ReadDatabase, DirectoryOK
      <4>3. IsList(directory.database.defs) /\ IsList(directory.database.aliases)
        BY <4>2, DirectoryLists
      <4>4. IsList(sorted)
        BY <4>3, SortedHasTheSame
      <4> QED
        BY <4>1, <4>3, <4>4 DEF ContextFields
    <3> QED
      BY <3>1, <3>2
  <2> QED
    BY <2>1, <2>2 DEF DatabaseOK
<1>2. CASE ResolveAlias
  <2>1. PICK e, as : /\ as \in {context.aliases, Tail(context.aliases)}
                     /\ context'.defs = Append(context.defs, e) /\ context'.aliases = as
                     /\ context'.source = context.source /\ DOMAIN context' = ContextFields
    <3> DEFINE alias == Head(context.aliases)
               src == context.defs[context.lookup[alias.targetName]]
    <3> HIDE DEF alias, src
    <3>1. \/ \E e : context' = [context EXCEPT !.defs = Append(@, e)]
          \/ \E e : context' = [context EXCEPT !.aliases = Tail(@), !.defs = Append(@, e)]
      BY <1>2, Zenon DEF ResolveAlias, alias, src
    <3> QED
      BY <3>1 DEF DatabaseOK, ContextFields
  <2>2. defs' = defs /\ context.aliases # <<>>
    BY <1>2 DEF ResolveAlias
  <2>3. IsList(Tail(context.aliases)) /\ IsList(Append(context.defs, e))
    BY <2>2, PartsOfLists, AppendToList, Zenon DEF DatabaseOK
  <2>4. IsList(context'.defs) /\ IsList(context'.aliases)
    BY <2>1, <2>3, Zenon DEF DatabaseOK
  <2> QED
    BY <2>1, <2>2, <2>4 DEF DatabaseOK, ContextFields
<1>3. CASE MakeDefs
  <2>1. PICK ds \in SortedByIndex(context.defs) :
          /\ context' = [context EXCEPT !.defs = ds, !.lookup = Rebuilt(ds)]
          /\ defs' = defs \o NewDefs(ds)
    BY <1>3 DEF MakeDefs, NewDefs
  <2>2. IsList(ds) /\ IsList(NewDefs(ds))
    BY SortedHasTheSame, NewDefsAreList DEF DatabaseOK
  <2>3. /\ IsList(defs') /\ Len(defs') = Len(defs) + Len(NewDefs(ds))
        /\ \A i \in 1 .. Len(defs) : defs'[i] = defs[i]
        /\ \A i \in 1 .. Len(NewDefs(ds)) : defs'[Len(defs) + i] = NewDefs(ds)[i]
    <3> DEFINE more == NewDefs(ds)
    <3>1. defs' = defs \o more /\ IsList(defs) /\ IsList(more)
      BY <2>1, <2>2 DEF DatabaseOK
    <3> HIDE DEF more
    <3>2. /\ IsList(defs \o more) /\ Len(defs \o more) = Len(defs) + Len(more)
          /\ \A i \in 1 .. Len(defs) : (defs \o more)[i] = defs[i]
          /\ \A i \in 1 .. Len(more) : (defs \o more)[Len(defs) + i] = more[i]
      BY <3>1, ConcatLists
    <3> QED
      BY <3>1, <3>2, Zenon DEF more
  <2>4. ASSUME NEW i \in DOMAIN defs' PROVE DOMAIN defs'[i] = DefFields
    <3>1. /\ Len(defs) \in Nat /\ DOMAIN defs = 1 .. Len(defs) /\ DOMAIN defs' = 1 .. Len(defs')
          /\ Len(NewDefs(ds)) \in Nat /\ DOMAIN NewDefs(ds) = 1 .. Len(NewDefs(ds))
      BY <2>2, <2>3, ListIsFunction DEF DatabaseOK
    <3>2. CASE i <= Len(defs)
      BY <2>3, <3>1, <3>2 DEF DatabaseOK
    <3>3. CASE ~(i <= Len(defs))
      <4>1. PICK j \in 1 .. Len(NewDefs(ds)) : i = Len(defs) + j
        <5>1. i - Len(defs) \in 1 .. Len(NewDefs(ds)) /\ i = Len(defs) + (i - Len(defs))
          BY <2>3, <3>1, <3>3
        <5> QED
          BY <5>1
      <4>2. defs'[i] = NewDef(j, ds)
        BY <2>2, <2>3, <3>1, <4>1, NewDefsAreList
      <4> QED
        BY <4>2 DEF NewDef, DefFields
    <3> QED
      BY <3>2, <3>3
  <2> QED
    BY <2>1, <2>2, <2>3, <2>4 DEF DatabaseOK, ContextFields
<1>4. CASE LoadOneDef
  <2>1. UNCHANGED context /\ (defs' = defs \/ defs' = [defs EXCEPT ![Current] = LoadDef(defs[Current])])
    BY <1>4 DEF LoadOneDef, database
  <2>2. CASE defs' = defs
    BY <2>1, <2>2 DEF DatabaseOK
  <2>3. CASE defs' = [defs EXCEPT ![Current] = LoadDef(defs[Current])]
    <3>1. Len(defs) \in Nat /\ DOMAIN defs = 1 .. Len(defs) /\ DOMAIN defs' = 1 .. Len(defs)
      BY <2>3, ListIsFunction DEF DatabaseOK
    <3>2. IsList(defs')
      <4>1. defs' = [i \in 1 .. Len(defs) |-> defs'[i]]
        BY <2>3, <3>1
      <4> QED
        BY <3>1, <4>1, FunctionIsList
    <3>3. \A i \in DOMAIN defs' : DOMAIN defs'[i] = DefFields
      BY <2>3, <3>1, LoadDefKeeps DEF DatabaseOK
    <3> QED
      BY <2>1, <3>2, <3>3 DEF DatabaseOK
  <2> QED
    BY <2>1, <2>2, <2>3
<1>5. CASE UNCHANGED <<context, defs>>
  BY <1>5 DEF DatabaseOK
<1>6. CASE LoadLists \/ Load \/ LoadManifest \/ LoadFileTable \/ LoadDone \/ ValidateDepot
  BY <1>5, <1>6 DEF LoadLists, Load, LoadManifest, LoadFileTable, LoadDone, ValidateDepot, database
<1>7. CASE UNCHANGED depotVars
  BY <1>5, <1>7 DEF depotVars, database
<1> QED
  BY <1>1, <1>2, <1>3, <1>4, <1>6, <1>7 DEF DepotNext

LEMMA DepotTypesKept == ASSUME DepotTypes, [DepotNext]_depotVars PROVE DepotTypes'
  BY ListsKept, DirectoryKept, CountsKept, DatabaseKept DEF DepotTypes

LEMMA DepotTypesInit == ASSUME DepotInit PROVE DepotTypes
<1>1. ListsOK
  BY EmptyIsList DEF DepotInit, ListsOK
<1>2. DirectoryOK
  BY DEF DepotInit, DirectoryOK
<1>3. CountsOK
  BY DEF DepotInit, CountsOK, NoContext
<1>4. DatabaseOK
  BY EmptyIsList DEF DepotInit, DatabaseOK, NoContext, ContextFields
<1> QED
  BY <1>1, <1>2, <1>3, <1>4 DEF DepotTypes

-----------------------------------------------------------------------------
(* The steps of a load.                                                       *)

ManifestsTo(n) == \A m \in 1 .. Len(manifests) : m <= n => manifests[m] \in ToSet(archives)
TablesTo(n) == \A t \in 1 .. Len(fileTables) : Len(manifests) + t <= n => fileTables[t] \in ToSet(tables)
DefsTo(n) == \A i \in 1 .. Len(defs) : Len(manifests) + Len(fileTables) + i <= n => defs[i].loaded

(* What a load has come to: everything up to its progress is there.             *)
Progressed ==
  /\ progress <= Expected
  /\ ManifestsTo(progress) /\ TablesTo(progress) /\ DefsTo(progress)

ReportsInv == LoadReports /\ (step = "load" => Progressed)

LEMMA LengthsAreNats ==
  ASSUME DepotTypes
  PROVE  /\ Len(manifests) \in Nat /\ Len(fileTables) \in Nat /\ Len(defs) \in Nat /\ progress \in Nat
         /\ Expected = Len(manifests) + Len(fileTables) + Len(defs)
         /\ Current = progress - Len(manifests) - Len(fileTables) + 1
         /\ DOMAIN manifests = 1 .. Len(manifests) /\ DOMAIN fileTables = 1 .. Len(fileTables)
         /\ DOMAIN defs = 1 .. Len(defs)
  BY ListIsFunction DEF DepotTypes, ListsOK, DatabaseOK, CountsOK, Expected, Current

(* Only a load that has come to its end returns "loaded".                      *)
LEMMA QuietSteps ==
  ASSUME step' # "load", step' = "idle" => outcome' # "loaded"
  PROVE  ReportsInv'
  BY DEF ReportsInv, LoadReports

(* A step of a load that went on or was cancelled.                             *)
LEMMA ReportedSteps ==
  ASSUME DepotTypes, ReportsInv, step = "load", Reports, progress' = progress + 1, Progressed'
  PROVE  ReportsInv'
<1>1. reported = progress + 1 /\ progress \in Nat
  BY DEF ReportsInv, LoadReports, DepotTypes, CountsOK
<1>2. CASE step' = "load"
  BY <1>1, <1>2 DEF ReportsInv, LoadReports, Reports
<1>3. CASE step' # "load"
  BY <1>3, QuietSteps DEF Reports, Returns
<1> QED
  BY <1>2, <1>3

LEMMA ManifestStep == ASSUME DepotTypes, ReportsInv, LoadManifest PROVE ReportsInv'
<1> DEFINE m == manifests[progress + 1]
<1>1. step = "load" /\ UNCHANGED <<manifests, fileTables, tables, defs>>
  BY DEF LoadManifest, Loading, lists, database
<1>2. CASE m \notin disk.manifests
  BY <1>2, QuietSteps DEF LoadManifest, Fails, Returns
<1>3. CASE m \in disk.manifests
  <2>1. archives' = Append(archives, m) /\ progress' = progress + 1 /\ Reports /\ progress < Len(manifests)
    BY <1>3 DEF LoadManifest, AddLast
  <2>2. Progressed
    BY <1>1 DEF ReportsInv
  <2>3. ToSet(archives') = ToSet(archives) \cup {m}
    <3>1. IsList(archives)
      BY DEF DepotTypes, ListsOK
    <3> HIDE DEF m
    <3>2. /\ IsList(archives') /\ Len(archives') = Len(archives) + 1 /\ Len(archives) \in Nat
          /\ \A i \in 1 .. Len(archives) : archives'[i] = archives[i]
          /\ archives'[Len(archives) + 1] = m
      BY <2>1, <3>1, AppendToList, ListIsFunction
    <3>3. \A e : e \in ToSet(archives') <=> e \in ToSet(archives) \cup {m}
      BY <3>1, <3>2, ToSetOfList
    <3> QED
      BY <3>3
  <2>4. Progressed'
    <3>1. (progress <= Expected)'
      BY <1>1, <2>1, LengthsAreNats DEF Expected
    <3>2. ManifestsTo(progress)'
      BY <1>1, <2>1, <2>2, <2>3, LengthsAreNats DEF Progressed, ManifestsTo
    <3>3. TablesTo(progress)' /\ DefsTo(progress)'
      BY <1>1, <2>1, LengthsAreNats DEF TablesTo, DefsTo
    <3> QED
      BY <3>1, <3>2, <3>3 DEF Progressed
  <2> QED
    BY <1>1, <2>1, <2>4, ReportedSteps
<1> QED
  BY <1>2, <1>3

LEMMA FileTableStep == ASSUME DepotTypes, ReportsInv, LoadFileTable PROVE ReportsInv'
<1> DEFINE t == fileTables[progress - Len(manifests) + 1]
<1>1. step = "load" /\ UNCHANGED <<manifests, fileTables, archives, defs>>
  BY DEF LoadFileTable, Loading, lists, database
<1>2. CASE t \notin disk.fileTables
  BY <1>2, QuietSteps DEF LoadFileTable, Fails, Returns
<1>3. CASE t \in disk.fileTables
  <2>1. /\ tables' = Append(tables, t) /\ progress' = progress + 1 /\ Reports
        /\ progress >= Len(manifests) /\ progress < Len(manifests) + Len(fileTables)
    BY <1>3 DEF LoadFileTable
  <2>2. Progressed
    BY <1>1 DEF ReportsInv
  <2>3. ToSet(tables') = ToSet(tables) \cup {t}
    <3>1. IsList(tables)
      BY DEF DepotTypes, ListsOK
    <3> HIDE DEF t
    <3>2. /\ IsList(tables') /\ Len(tables') = Len(tables) + 1 /\ Len(tables) \in Nat
          /\ \A i \in 1 .. Len(tables) : tables'[i] = tables[i]
          /\ tables'[Len(tables) + 1] = t
      BY <2>1, <3>1, AppendToList, ListIsFunction
    <3>3. \A e : e \in ToSet(tables') <=> e \in ToSet(tables) \cup {t}
      BY <3>1, <3>2, ToSetOfList
    <3> QED
      BY <3>3
  <2>4. Progressed'
    <3>1. (progress <= Expected)'
      BY <1>1, <2>1, LengthsAreNats DEF Expected
    <3>2. ManifestsTo(progress)'
      BY <1>1, <2>1, <2>2, LengthsAreNats DEF Progressed, ManifestsTo
    <3>3. TablesTo(progress)'
      <4>1. ASSUME NEW n \in 1 .. Len(fileTables), Len(manifests) + n <= progress + 1
            PROVE  fileTables[n] \in ToSet(tables')
        <5>1. CASE Len(manifests) + n <= progress
          BY <2>2, <2>3, <5>1 DEF Progressed, TablesTo
        <5>2. CASE ~(Len(manifests) + n <= progress)
          <6>1. n = progress - Len(manifests) + 1
            BY <4>1, <5>2, LengthsAreNats
          <6> QED
            BY <2>3, <6>1
        <5> QED
          BY <5>1, <5>2
      <4> QED
        BY <1>1, <2>1, <4>1 DEF TablesTo
    <3>4. DefsTo(progress)'
      BY <1>1, <2>1, LengthsAreNats DEF DefsTo
    <3> QED
      BY <3>1, <3>2, <3>3, <3>4 DEF Progressed
  <2> QED
    BY <1>1, <2>1, <2>4, ReportedSteps
<1> QED
  BY <1>2, <1>3

LEMMA DefStep == ASSUME DepotTypes, ReportsInv, LoadOneDef PROVE ReportsInv'
<1> DEFINE d == LoadDef(defs[Current])
<1>1. /\ step = "load" /\ UNCHANGED <<manifests, fileTables, archives, tables>>
      /\ Current >= 1 /\ Current <= Len(defs)
  BY DEF LoadOneDef, Loading, lists, filesystem
<1>2. CASE defs[Current].context # context.number
  BY <1>2, QuietSteps DEF LoadOneDef
<1>3. CASE defs[Current].context = context.number /\ ~d.loaded
  BY <1>3, QuietSteps DEF LoadOneDef, Fails, Returns
<1>4. CASE defs[Current].context = context.number /\ d.loaded
  <2>1. defs' = [defs EXCEPT ![Current] = d] /\ progress' = progress + 1 /\ Reports
    BY <1>4 DEF LoadOneDef
  <2>2. Progressed
    BY <1>1 DEF ReportsInv
  <2>3. IsList(defs') /\ Len(defs') = Len(defs)
    <3>1. DOMAIN defs' = 1 .. Len(defs) /\ Len(defs) \in Nat /\ defs' = [i \in 1 .. Len(defs) |-> defs'[i]]
      BY <2>1, LengthsAreNats
    <3> QED
      BY <3>1, FunctionIsList
  <2>4. Progressed'
    <3>1. (progress <= Expected)'
      BY <1>1, <2>1, <2>3, LengthsAreNats DEF Expected
    <3>2. ManifestsTo(progress)' /\ TablesTo(progress)'
      BY <1>1, <2>1, <2>2, LengthsAreNats DEF Progressed, ManifestsTo, TablesTo
    <3>3. DefsTo(progress)'
      <4>1. ASSUME NEW i \in 1 .. Len(defs), Len(manifests) + Len(fileTables) + i <= progress + 1
            PROVE  defs'[i].loaded
        <5>1. CASE i = Current
          <6>1. defs'[i] = d
            BY <2>1, <5>1, LengthsAreNats
          <6> QED
            BY <1>4, <6>1
        <5>2. CASE i # Current
          <6>1. Len(manifests) + Len(fileTables) + i <= progress
            BY <4>1, <5>2, LengthsAreNats
          <6>2. defs[i].loaded
            BY <2>2, <6>1 DEF Progressed, DefsTo
          <6>3. defs'[i] = defs[i]
            BY <2>1, <5>2, LengthsAreNats
          <6> QED
            BY <6>2, <6>3
        <5> QED
          BY <5>1, <5>2
      <4> QED
        BY <1>1, <2>1, <2>3, <4>1 DEF DefsTo
    <3> QED
      BY <3>1, <3>2, <3>3 DEF Progressed
  <2> QED
    BY <1>1, <2>1, <2>4, ReportedSteps
<1> QED
  BY <1>2, <1>3, <1>4

LEMMA DoneStep == ASSUME DepotTypes, ReportsInv, LoadDone PROVE ReportsInv'
<1>1. /\ step = "load" /\ step' = "idle" /\ Current > Len(defs)
      /\ UNCHANGED <<manifests, fileTables, archives, tables, defs, progress, reported>>
  BY DEF LoadDone, Loading, Returns, lists, database, filesystem
<1>2. Progressed /\ reported = progress + 1
  BY <1>1 DEF ReportsInv, LoadReports
<1>3. progress = Expected
  BY <1>1, <1>2, LengthsAreNats DEF Progressed
<1>4. ToSet(manifests) \subseteq ToSet(archives)
  <2>1. \A m \in 1 .. Len(manifests) : manifests[m] \in ToSet(archives)
    BY <1>2, <1>3, LengthsAreNats DEF Progressed, ManifestsTo
  <2> QED
    BY <2>1, LengthsAreNats DEF ToSet
<1>5. ToSet(fileTables) \subseteq ToSet(tables)
  <2>1. \A t \in 1 .. Len(fileTables) : fileTables[t] \in ToSet(tables)
    BY <1>2, <1>3, LengthsAreNats DEF Progressed, TablesTo
  <2> QED
    BY <2>1, LengthsAreNats DEF ToSet
<1>6. \A i \in DOMAIN defs : defs[i].loaded
  BY <1>2, <1>3, LengthsAreNats DEF Progressed, DefsTo
<1>7. Expected' = Expected
  BY <1>1 DEF Expected
<1>8. LoadReports'
  BY <1>1, <1>2, <1>3, <1>4, <1>5, <1>6, <1>7 DEF LoadReports
<1> QED
  BY <1>1, <1>8 DEF ReportsInv

LEMMA ReportsKept ==
  ASSUME DepotTypes, ReportsInv, [DepotNext]_depotVars
  PROVE  ReportsInv'
<1>1. CASE LoadLists \/ ReadDatabase \/ ResolveAlias \/ MakeDefs \/ ValidateDepot
  <2>1. step' # "load" /\ (step' = "idle" => outcome' # "loaded")
    BY <1>1 DEF LoadLists, ReadDatabase, ResolveAlias, MakeDefs, ValidateDepot, Returns
  <2> QED
    BY <2>1, QuietSteps
<1>2. CASE Load
  <2>1. CASE step' = "load"
    <3>1. /\ reported' = 1 /\ progress' = 0
          /\ UNCHANGED <<manifests, fileTables, archives, tables, defs>>
      BY <1>2 DEF Load, lists, database, filesystem
    <3>2. Progressed'
      BY <3>1, LengthsAreNats DEF Progressed, ManifestsTo, TablesTo, DefsTo, Expected
    <3> QED
      BY <2>1, <3>1, <3>2 DEF ReportsInv, LoadReports
  <2>2. CASE step' # "load"
    BY <1>2, <2>2, QuietSteps DEF Load, Returns
  <2> QED
    BY <2>1, <2>2
<1>3. CASE UNCHANGED depotVars
  BY <1>3 DEF depotVars, lists, database, filesystem, ReportsInv, LoadReports, Progressed,
              ManifestsTo, TablesTo, DefsTo, Expected
<1> QED
  BY <1>1, <1>2, <1>3, ManifestStep, FileTableStep, DefStep, DoneStep DEF DepotNext

(* A load reports one step more than there are, the first before anything was     *)
(* done, and when it returns true every manifest, table and def is there, of       *)
(* whatever directives, and whatever the loads before it were stopped by.        *)
THEOREM LoadsReport == DepotSpec => []LoadReports
<1>1. DepotInit => DepotTypes /\ ReportsInv
  <2>1. DepotInit => ReportsInv
    BY DEF DepotInit, ReportsInv, LoadReports
  <2> QED
    BY <2>1, DepotTypesInit
<1>2. DepotTypes /\ ReportsInv /\ [DepotNext]_depotVars => (DepotTypes /\ ReportsInv)'
  BY DepotTypesKept, ReportsKept
<1>3. ReportsInv => LoadReports
  BY DEF ReportsInv
<1> QED
  BY <1>1, <1>2, <1>3, PTL DEF DepotSpec

-----------------------------------------------------------------------------
(* The order of the archives.                                                  *)

(* The archive at a is of a manifest whose predecessors stand before it.         *)
StandsAfter(a, m) ==
  /\ archives[a] = manifests[m]
  /\ \A earlier \in 1 .. m - 1 : \E b \in 1 .. a - 1 : archives[b] = manifests[earlier]

LEMMA PrecedenceKept ==
  ASSUME DepotTypes, ReportsInv, RetryKeepsPrecedence, [DepotNext]_depotVars
  PROVE  RetryKeepsPrecedence'
<1> USE DEF StandsAfter
<1>1. /\ IsList(archives) /\ Len(archives) \in Nat /\ DOMAIN archives = 1 .. Len(archives)
      /\ IsList(manifests) /\ Len(manifests) \in Nat /\ DOMAIN manifests = 1 .. Len(manifests)
  BY ListIsFunction DEF DepotTypes, ListsOK
<1>2. \A a \in 1 .. Len(archives) : \E m \in 1 .. Len(manifests) : StandsAfter(a, m)
  BY <1>1 DEF RetryKeepsPrecedence
<1>3. CASE UNCHANGED <<archives, manifests>>
  BY <1>3 DEF RetryKeepsPrecedence
<1>4. CASE LoadLists
  <2>1. PICK ms : IsList(ms) /\ manifests' = manifests \o ms
    BY <1>4, LoadListsExtends DEF DepotTypes
  <2>2. archives' = archives
    BY <1>4 DEF LoadLists, filesystem
  <2>3. /\ IsList(manifests \o ms) /\ Len(manifests \o ms) = Len(manifests) + Len(ms)
        /\ \A i \in 1 .. Len(manifests) : (manifests \o ms)[i] = manifests[i]
        /\ Len(ms) \in Nat /\ DOMAIN (manifests \o ms) = 1 .. Len(manifests \o ms)
    BY <1>1, <2>1, ConcatLists, ListIsFunction
  <2>4. /\ \A i \in 1 .. Len(manifests) : manifests'[i] = manifests[i]
        /\ DOMAIN manifests' = 1 .. Len(manifests) + Len(ms) /\ Len(ms) \in Nat
    BY <2>1, <2>3
  <2>5. ASSUME NEW a \in 1 .. Len(archives)
        PROVE  \E m \in DOMAIN manifests' : StandsAfter(a, m)'
    <3>1. PICK m \in 1 .. Len(manifests) : StandsAfter(a, m)
      BY <1>2
    <3>2. m \in DOMAIN manifests' /\ manifests'[m] = manifests[m]
      BY <1>1, <2>4
    <3>3. \A earlier \in 1 .. m - 1 : manifests'[earlier] = manifests[earlier]
      BY <1>1, <2>4
    <3> QED
      BY <2>2, <3>1, <3>2, <3>3
  <2> QED
    BY <1>1, <2>2, <2>5 DEF RetryKeepsPrecedence
<1>5. CASE LoadManifest /\ archives' # archives
  <2> DEFINE n == progress + 1
  <2>1. /\ archives' = Append(archives, manifests[n]) /\ manifests' = manifests
        /\ progress \in Nat /\ n \in 1 .. Len(manifests) /\ step = "load"
    BY <1>1, <1>5 DEF LoadManifest, AddLast, Loading, lists, DepotTypes, CountsOK
  <2>2. /\ DOMAIN archives' = 1 .. Len(archives) + 1
        /\ \A i \in 1 .. Len(archives) : archives'[i] = archives[i]
        /\ archives'[Len(archives) + 1] = manifests[n]
    <3>1. /\ IsList(archives') /\ Len(archives') = Len(archives) + 1
          /\ \A i \in 1 .. Len(archives) : archives'[i] = archives[i]
          /\ archives'[Len(archives) + 1] = manifests[n]
      BY <1>1, <2>1, AppendToList
    <3> QED
      BY <3>1, ListIsFunction
  <2>3. \A earlier \in 1 .. n - 1 : \E b \in 1 .. Len(archives) : archives[b] = manifests[earlier]
    <3>1. ManifestsTo(progress)
      BY <2>1 DEF ReportsInv, Progressed
    <3>2. \A earlier \in 1 .. n - 1 : manifests[earlier] \in ToSet(archives)
      BY <1>1, <2>1, <3>1 DEF ManifestsTo
    <3> QED
      BY <1>1, <3>2, ToSetOfList
  <2>4. ASSUME NEW a \in 1 .. Len(archives) + 1
        PROVE  \E m \in DOMAIN manifests' : StandsAfter(a, m)'
    <3>1. CASE a = Len(archives) + 1
      <4>1. n \in DOMAIN manifests' /\ archives'[a] = manifests'[n]
        BY <1>1, <2>1, <2>2, <3>1
      <4>2. ASSUME NEW earlier \in 1 .. n - 1
            PROVE  \E b \in 1 .. a - 1 : archives'[b] = manifests'[earlier]
        BY <1>1, <2>1, <2>2, <2>3, <3>1
      <4> QED
        BY <4>1, <4>2
    <3>2. CASE a # Len(archives) + 1
      <4>1. a \in 1 .. Len(archives) /\ \A b \in 1 .. a - 1 : b \in 1 .. Len(archives)
        BY <1>1, <3>2
      <4>2. PICK m \in 1 .. Len(manifests) : StandsAfter(a, m)
        BY <1>2, <4>1
      <4>3. archives'[a] = archives[a] /\ \A b \in 1 .. a - 1 : archives'[b] = archives[b]
        BY <2>2, <4>1
      <4> QED
        BY <1>1, <2>1, <4>2, <4>3
    <3> QED
      BY <3>1, <3>2
  <2> QED
    BY <2>2, <2>4 DEF RetryKeepsPrecedence
<1>6. CASE LoadManifest /\ archives' = archives
  BY <1>3, <1>6 DEF LoadManifest, Loading, lists
<1>7. CASE ReadDatabase \/ ResolveAlias \/ MakeDefs \/ Load \/ LoadFileTable \/ LoadOneDef
             \/ LoadDone \/ ValidateDepot
  BY <1>3, <1>7 DEF ReadDatabase, ResolveAlias, MakeDefs, Load, LoadFileTable, LoadOneDef, LoadDone,
                    ValidateDepot, Loading, lists, filesystem
<1>8. CASE UNCHANGED depotVars
  BY <1>3, <1>8 DEF depotVars, lists, filesystem
<1> QED
  BY <1>4, <1>5, <1>6, <1>7, <1>8 DEF DepotNext

(* However often loads are stopped and repeated, and directives loaded between     *)
(* them, an archive is searched only after the archives of all manifests that the  *)
(* directives name before its own.                                             *)
THEOREM PrecedenceOfArchives == DepotSpec => []RetryKeepsPrecedence
<1> DEFINE Inv == DepotTypes /\ ReportsInv /\ RetryKeepsPrecedence
<1>1. DepotInit => Inv
  <2>1. DepotInit => ReportsInv /\ RetryKeepsPrecedence
    BY DEF DepotInit, ReportsInv, LoadReports, RetryKeepsPrecedence
  <2> QED
    BY <2>1, DepotTypesInit
<1>2. Inv /\ [DepotNext]_depotVars => Inv'
  BY DepotTypesKept, ReportsKept, PrecedenceKept
<1> QED
  BY <1>1, <1>2, PTL DEF DepotSpec

-----------------------------------------------------------------------------
(* The pointers of the database.                                              *)

SourcesIn ==
  \A n \in DOMAIN context.source.defs :
    \E i \in DOMAIN context.defs : context.defs[i] = context.source.defs[n]

\* The directive's alias n is a def with what its target has.
AliasMade(n) ==
  LET alias == context.source.aliases[n] IN
  \E i \in DOMAIN context.defs, m \in DOMAIN context.source.defs :
    /\ context.source.defs[m].name = alias.targetName
    /\ context.defs[i] = AliasOf(context.source.defs[m], alias)

Resolved == Len(context.source.aliases) - Len(context.aliases)

\* The context still has every def that it had.
NoneLost ==
  /\ context'.source = context.source
  /\ \A j \in DOMAIN context.defs : \E i \in DOMAIN context'.defs : context'.defs[i] = context.defs[j]

\* While aliases are resolved, the cache leads to defs of the directives.
Resolving ==
  /\ SourcesIn
  /\ Resolved \in Nat
  /\ \A n \in 1 .. Len(context.aliases) : context.aliases[n] = context.source.aliases[Resolved + n]
  /\ \A n \in 1 .. Resolved : AliasMade(n)
  /\ \A name \in DOMAIN context.lookup :
       /\ context.lookup[name] \in DOMAIN context.defs
       /\ \E m \in DOMAIN context.source.defs :
            /\ context.source.defs[m].name = name
            /\ context.defs[context.lookup[name]] = context.source.defs[m]

PointsToItsOwn(i) ==
  /\ defs[i].context = context.number /\ defs[i].at = i
  /\ context.defs[i].name = defs[i].name /\ context.defs[i].defIndex = defs[i].id

LeadsToFirst(name) ==
  /\ name \in DOMAIN byName
  /\ byName[name].at \in DOMAIN defs /\ defs[byName[name].at].name = name
  /\ \A j \in 1 .. byName[name].at - 1 : defs[j].name # name

PointersLead ==
  /\ Len(defs) = Len(context.defs)
  /\ \A i \in DOMAIN defs : PointsToItsOwn(i) /\ LeadsToFirst(defs[i].name)
  /\ \A i, j \in DOMAIN defs : i < j => context.defs[i].defIndex <= context.defs[j].defIndex
  /\ \A i \in DOMAIN defs :
       /\ context.defs[i].name \in DOMAIN context.lookup
       /\ context.defs[context.lookup[context.defs[i].name]].name = context.defs[i].name
  /\ SourcesIn
  /\ \A n \in DOMAIN context.source.aliases : AliasMade(n)

(* What is made by the first call of loadDirectives stays, as long as there is no  *)
(* second one.                                                                *)
PointersInv ==
  /\ loads.databases = 0 => defs = <<>> /\ byName = <<>>
  /\ step = "aliases" => loads.databases > 0
  /\ loads.databases <= 1 =>
       /\ step # "crashed"
       /\ step = "aliases" => defs = <<>> /\ byName = <<>> /\ Resolving
       /\ defs # <<>> => PointersLead

LEMMA ExactFollows == ASSUME DepotTypes, PointersInv PROVE PointersExact
<1> SUFFICES ASSUME loads.databases <= 1 PROVE step # "crashed" /\ (Complete => PointersExact)
  BY DEF PointersExact, PointersInv
<1>1. step # "crashed"
  BY DEF PointersInv
<1>2. ASSUME Complete PROVE PointersExact
  <2>1. PointersLead
    BY <1>2 DEF PointersInv, Complete
  <2>2. /\ Len(defs) \in Nat /\ DOMAIN defs = 1 .. Len(defs) /\ DOMAIN context.defs = DOMAIN defs
    BY <2>1, ListIsFunction DEF DepotTypes, DatabaseOK, PointersLead
  <2>3. ASSUME NEW i \in DOMAIN defs PROVE DefOf(defs[i]) = context.defs[i]
    BY <2>1 DEF DefOf, PointersLead, PointsToItsOwn
  <2>4. ASSUME NEW i \in DOMAIN defs
        PROVE  /\ DefOf(defs[i]).name = defs[i].name /\ DefOf(defs[i]).defIndex = defs[i].id
               /\ i > 1 => defs[i - 1].id <= defs[i].id
               /\ defs[i].name \in DOMAIN byName
               /\ LET at == byName[defs[i].name].at IN
                  defs[at].name = defs[i].name /\ \A j \in 1 .. at - 1 : defs[j].name # defs[i].name
               /\ defs[i].name \in DOMAIN context.lookup
               /\ context.defs[context.lookup[defs[i].name]].name = defs[i].name
    <3>1. DefOf(defs[i]).name = defs[i].name /\ DefOf(defs[i]).defIndex = defs[i].id
      BY <2>1, <2>3 DEF PointersLead, PointsToItsOwn
    <3>2. ASSUME i > 1 PROVE defs[i - 1].id <= defs[i].id
      <4>1. i - 1 \in DOMAIN defs /\ i - 1 < i
        BY <2>2, <3>2
      <4>2. context.defs[i - 1].defIndex <= context.defs[i].defIndex
        BY <2>1, <4>1 DEF PointersLead
      <4> QED
        BY <2>1, <4>1, <4>2 DEF PointersLead, PointsToItsOwn
    <3>3. LeadsToFirst(defs[i].name)
      BY <2>1 DEF PointersLead
    <3>4. context.defs[i].name = defs[i].name
      BY <2>1 DEF PointersLead, PointsToItsOwn
    <3> QED
      BY <2>1, <3>1, <3>2, <3>3, <3>4 DEF PointersLead, LeadsToFirst
  <2>5. \A n \in DOMAIN context.source.defs :
          \E i \in DOMAIN defs : DefOf(defs[i]) = context.source.defs[n]
    BY <2>1, <2>2, <2>3 DEF PointersLead, SourcesIn
  <2>6. ASSUME NEW n \in DOMAIN context.source.aliases
        PROVE  LET alias == context.source.aliases[n] IN
               \E i \in DOMAIN defs, m \in DOMAIN context.source.defs :
                 /\ context.source.defs[m].name = alias.targetName
                 /\ DefOf(defs[i]) = AliasOf(context.source.defs[m], alias)
    <3>1. AliasMade(n)
      BY <2>1 DEF PointersLead
    <3>2. PICK i \in DOMAIN context.defs, m \in DOMAIN context.source.defs :
            /\ context.source.defs[m].name = context.source.aliases[n].targetName
            /\ context.defs[i] = AliasOf(context.source.defs[m], context.source.aliases[n])
      BY <3>1 DEF AliasMade
    <3>3. i \in DOMAIN defs /\ DefOf(defs[i]) = context.defs[i]
      BY <2>2, <2>3
    <3> QED
      BY <3>2, <3>3
  <2> QED
    BY <1>1, <2>4, <2>5, <2>6 DEF PointersExact
<1> QED
  BY <1>1, <1>2

(* What is made of the directives stays in a context that keeps its defs.       *)
LEMMA AliasStays ==
  ASSUME NoneLost, NEW n, AliasMade(n)
  PROVE  AliasMade(n)'
<1> DEFINE alias == context.source.aliases[n]
<1>1. PICK i \in DOMAIN context.defs, m \in DOMAIN context.source.defs :
        /\ context.source.defs[m].name = alias.targetName
        /\ context.defs[i] = AliasOf(context.source.defs[m], alias)
  BY DEF AliasMade
<1>2. PICK k \in DOMAIN context'.defs : context'.defs[k] = context.defs[i]
  BY DEF NoneLost
<1>3. /\ m \in DOMAIN context'.source.defs
      /\ context'.source.defs[m].name = context'.source.aliases[n].targetName
      /\ context'.defs[k] = AliasOf(context'.source.defs[m], context'.source.aliases[n])
  BY <1>1, <1>2 DEF NoneLost
<1> QED
  BY <1>2, <1>3 DEF AliasMade

LEMMA SourcesStay == ASSUME NoneLost, SourcesIn PROVE SourcesIn'
<1> SUFFICES ASSUME NEW n \in DOMAIN context.source.defs
             PROVE  \E i \in DOMAIN context'.defs : context'.defs[i] = context.source.defs[n]
  BY DEF SourcesIn, NoneLost
<1>1. PICK j \in DOMAIN context.defs : context.defs[j] = context.source.defs[n]
  BY DEF SourcesIn
<1> QED
  BY <1>1 DEF NoneLost

(* The pointers lead on through a step that leaves the context, the names and what  *)
(* is found through them alone.                                              *)
LEMMA PointersLeadOn ==
  ASSUME DatabaseOK, PointersLead, UNCHANGED <<context, byName>>,
         Len(defs') = Len(defs), DOMAIN defs' = DOMAIN defs,
         \A i \in DOMAIN defs : /\ defs'[i].context = defs[i].context /\ defs'[i].at = defs[i].at
                               /\ defs'[i].name = defs[i].name /\ defs'[i].id = defs[i].id
  PROVE  PointersLead'
<1>1. ASSUME NEW i \in DOMAIN defs' PROVE PointsToItsOwn(i)'
  BY DEF PointersLead, PointsToItsOwn
<1>2. ASSUME NEW i \in DOMAIN defs'
      PROVE  /\ defs'[i].name \in DOMAIN byName'
             /\ byName'[defs'[i].name].at \in DOMAIN defs'
             /\ defs'[byName'[defs'[i].name].at].name = defs'[i].name
             /\ \A j \in 1 .. byName'[defs'[i].name].at - 1 : defs'[j].name # defs'[i].name
  <2> DEFINE at == byName[defs[i].name].at
  <2>1. /\ defs[i].name \in DOMAIN byName /\ at \in DOMAIN defs /\ defs[at].name = defs[i].name
        /\ \A j \in 1 .. at - 1 : defs[j].name # defs[i].name
    BY DEF PointersLead, LeadsToFirst
  <2>2. \A j \in 1 .. at - 1 : j \in DOMAIN defs
    BY <2>1, ListIsFunction DEF DatabaseOK
  <2>3. defs'[i].name = defs[i].name /\ byName'[defs'[i].name].at = at
    OBVIOUS
  <2> HIDE DEF at
  <2> QED
    BY <2>1, <2>2, <2>3
<1>3. ASSUME NEW i \in DOMAIN defs' PROVE LeadsToFirst(defs[i].name)'
  BY <1>2, <1>3 DEF LeadsToFirst
<1>4. \A i \in DOMAIN defs' : LeadsToFirst(defs[i].name)'
  BY <1>3
<1>5. NoneLost
  BY DEF NoneLost
<1>6. SourcesIn' /\ \A n \in DOMAIN context'.source.aliases : AliasMade(n)'
  <2>1. SourcesIn'
    BY <1>5, SourcesStay DEF PointersLead
  <2>2. ASSUME NEW n \in DOMAIN context.source.aliases PROVE AliasMade(n)'
    BY <1>5, AliasStays DEF PointersLead
  <2> QED
    BY <2>1, <2>2
<1>7. /\ Len(defs') = Len(context'.defs)
      /\ \A i, j \in DOMAIN defs' : i < j => context'.defs[i].defIndex <= context'.defs[j].defIndex
      /\ \A i \in DOMAIN defs' :
           /\ context'.defs[i].name \in DOMAIN context'.lookup
           /\ context'.defs[context'.lookup[context'.defs[i].name]].name = context'.defs[i].name
  BY DEF PointersLead
<1> QED
  BY <1>1, <1>4, <1>6, <1>7 DEF PointersLead

(* Steps that leave the database alone.                                       *)
LEMMA PointersUntouched ==
  ASSUME DatabaseOK, PointersInv, UNCHANGED <<context, defs, byName>>, loads'.databases = loads.databases,
         step' # "crashed", step' # "aliases"
  PROVE  PointersInv'
<1>1. PointersLead => PointersLead'
  BY PointersLeadOn
<1> QED
  BY <1>1 DEF PointersInv

LEMMA ReadDatabasePoints ==
  ASSUME DepotTypes, PointersInv, ReadDatabase
  PROVE  PointersInv'
<1>1. /\ loads.databases \in Nat /\ loads'.databases = loads.databases + 1
      /\ UNCHANGED <<defs, byName>> /\ step' # "crashed"
  BY DEF ReadDatabase, Returns, DepotTypes, CountsOK
<1>2. CASE loads.databases > 0
  BY <1>1, <1>2 DEF PointersInv
<1>3. CASE loads.databases = 0
  <2>1. defs' = <<>> /\ byName' = <<>>
    BY <1>1, <1>3 DEF PointersInv
  <2>2. CASE step' # "aliases"
    BY <1>1, <1>3, <2>1, <2>2 DEF PointersInv
  <2>3. CASE step' = "aliases"
    <3> DEFINE d == directory.database
    <3>1. PICK sorted \in SortedByIndex(d.defs) :
            context' = [number |-> context.number + 1, source |-> d, structures |-> d.structures,
                        enums |-> d.enums, defs |-> sorted, aliases |-> d.aliases,
                        lookup |-> LookupOf(sorted)]
      BY <2>3 DEF ReadDatabase, Returns
    <3>2. /\ context'.source = d /\ context'.defs = sorted /\ context'.aliases = d.aliases
          /\ context'.lookup = LookupOf(sorted)
      BY <3>1
    <3>3. directory \in Directories
      BY DEF ReadDatabase, DepotTypes, DirectoryOK
    <3>4. IsList(d.defs) /\ IsList(d.aliases)
      BY <3>3, DirectoryLists
    <3> HIDE DEF d
    <3>5. Len(d.aliases) \in Nat
      BY <3>4, ListIsFunction
    <3>6. /\ IsList(sorted)
          /\ \A i \in DOMAIN sorted : \E j \in DOMAIN d.defs : sorted[i] = d.defs[j]
          /\ \A j \in DOMAIN d.defs : \E i \in DOMAIN sorted : sorted[i] = d.defs[j]
      BY <3>4, SortedHasTheSame
    <3>7. SourcesIn'
      BY <3>2, <3>6 DEF SourcesIn
    <3>8. Resolved' = 0
      BY <3>2, <3>5 DEF Resolved
    <3>9. ASSUME NEW name \in DOMAIN LookupOf(sorted)
          PROVE  /\ LookupOf(sorted)[name] \in DOMAIN sorted
                 /\ \E m \in DOMAIN d.defs :
                      d.defs[m].name = name /\ sorted[LookupOf(sorted)[name]] = d.defs[m]
      BY <3>6, LookupFindsFirst
    <3>10. Resolving'
      BY <3>2, <3>5, <3>7, <3>8, <3>9 DEF Resolving
    <3> QED
      BY <1>1, <1>3, <2>1, <3>10 DEF PointersInv
  <2> QED
    BY <2>2, <2>3
<1> QED
  BY <1>1, <1>2, <1>3

LEMMA ResolveAliasPoints ==
  ASSUME DepotTypes, PointersInv, ResolveAlias
  PROVE  PointersInv'
<1>1. UNCHANGED <<defs, byName, loads>> /\ step' # "crashed" /\ step = "aliases" /\ context.aliases # <<>>
  BY DEF ResolveAlias, Returns
<1>2. CASE loads.databases > 1
  BY <1>1, <1>2 DEF PointersInv, DepotTypes, CountsOK
<1>3. CASE ~(loads.databases > 1)
  <2>1. loads.databases <= 1 /\ loads.databases > 0
    BY <1>1, <1>3 DEF PointersInv, DepotTypes, CountsOK
  <2>2. defs = <<>> /\ byName = <<>> /\ Resolving
    BY <1>1, <2>1 DEF PointersInv
  <2>3. CASE step' # "aliases"
    BY <1>1, <2>1, <2>2, <2>3 DEF PointersInv
  <2>4. CASE step' = "aliases"
    <3> DEFINE alias == Head(context.aliases)
               src == context.defs[context.lookup[alias.targetName]]
               new == AliasOf(src, alias)
    <3>1. /\ alias.targetName \in DOMAIN context.lookup
          /\ context' = [context EXCEPT !.aliases = Tail(@), !.defs = Append(@, new)]
      BY <2>4 DEF ResolveAlias, Returns
    <3>2. /\ context'.source = context.source /\ context'.lookup = context.lookup
          /\ context'.aliases = Tail(context.aliases) /\ context'.defs = Append(context.defs, new)
      <4> HIDE DEF new
      <4> QED
        BY <3>1 DEF DepotTypes, DatabaseOK, ContextFields
    <3>3. /\ Len(context.aliases) \in Nat /\ Len(context.aliases) > 0
          /\ Len(context'.aliases) = Len(context.aliases) - 1 /\ alias = context.aliases[1]
          /\ \A i \in 1 .. Len(context.aliases) - 1 : context'.aliases[i] = context.aliases[i + 1]
      <4>1. IsList(context.aliases)
        BY DEF DepotTypes, DatabaseOK
      <4> QED
        BY <1>1, <3>2, <4>1, PartsOfLists, ListIsFunction
    <3>4. /\ Len(context.defs) \in Nat /\ DOMAIN context.defs = 1 .. Len(context.defs)
          /\ DOMAIN context'.defs = 1 .. Len(context.defs) + 1
          /\ \A i \in 1 .. Len(context.defs) : context'.defs[i] = context.defs[i]
          /\ context'.defs[Len(context.defs) + 1] = new
      <4>1. IsList(context.defs)
        BY DEF DepotTypes, DatabaseOK
      <4> HIDE DEF new
      <4> QED
        BY <3>2, <4>1, AppendToList, ListIsFunction
    <3>5. PICK m \in DOMAIN context.source.defs :
            context.source.defs[m].name = alias.targetName /\ src = context.source.defs[m]
      BY <2>2, <3>1 DEF Resolving
    <3> HIDE DEF alias, src, new
    <3>6. /\ Resolved \in Nat /\ Resolved' = Resolved + 1 /\ context.source.aliases[Resolved + 1] = alias
      <4>1. Len(context.source.aliases) \in Nat
        BY ListIsFunction DEF DepotTypes, DatabaseOK
      <4>2. Resolved \in Nat /\ context.aliases[1] = context.source.aliases[Resolved + 1]
        BY <2>2, <3>3 DEF Resolving
      <4>3. Resolved' = Resolved + 1
        <5>1. /\ Len(context'.source.aliases) = Len(context.source.aliases)
              /\ Len(context'.aliases) = Len(context.aliases) - 1 /\ Len(context.aliases) \in Nat
          BY <3>2, <3>3
        <5> DEFINE a == Len(context.source.aliases)
                   b == Len(context.aliases)
        <5>2. Resolved = a - b /\ Resolved' = a - (b - 1) /\ a \in Nat /\ b \in Nat
          BY <4>1, <5>1 DEF Resolved
        <5> HIDE DEF a, b
        <5> QED
          BY <5>2
      <4> QED
        BY <3>3, <4>2, <4>3
    <3>7. NoneLost /\ \A i \in DOMAIN context.defs : i \in DOMAIN context'.defs /\ context'.defs[i] = context.defs[i]
      <4>1. \A i \in DOMAIN context.defs : i \in DOMAIN context'.defs /\ context'.defs[i] = context.defs[i]
        BY <3>4
      <4> QED
        BY <3>2, <4>1 DEF NoneLost
    <3>8. SourcesIn'
      BY <2>2, <3>7, SourcesStay DEF Resolving
    <3>9. ASSUME NEW n \in 1 .. Resolved + 1 PROVE AliasMade(n)'
      <4>1. CASE n \in 1 .. Resolved
        BY <2>2, <3>7, <4>1, AliasStays DEF Resolving
      <4>2. CASE n = Resolved + 1
        <5>1. Len(context.defs) + 1 \in DOMAIN context'.defs
          BY <3>4
        <5>2. /\ m \in DOMAIN context'.source.defs /\ context'.source.aliases[n] = alias
              /\ context'.source.defs[m].name = alias.targetName
              /\ context'.defs[Len(context.defs) + 1] = AliasOf(context'.source.defs[m], alias)
          BY <3>2, <3>4, <3>5, <3>6, <4>2 DEF new
        <5>3. /\ context'.source.defs[m].name = context'.source.aliases[n].targetName
              /\ context'.defs[Len(context.defs) + 1] = AliasOf(context'.source.defs[m], context'.source.aliases[n])
          BY <5>2
        <5> QED
          BY <5>1, <5>2, <5>3 DEF AliasMade
      <4> QED
        BY <3>6, <4>1, <4>2
    <3>10. \A n \in 1 .. Len(context'.aliases) :
             context'.aliases[n] = context'.source.aliases[Resolved' + n]
      <4> SUFFICES ASSUME NEW n \in 1 .. Len(context.aliases) - 1
                   PROVE  context.aliases[n + 1] = context.source.aliases[Resolved + 1 + n]
        BY <3>2, <3>3, <3>6
      <4>1. n + 1 \in 1 .. Len(context.aliases) /\ Resolved + (n + 1) = Resolved + 1 + n
        BY <3>3, <3>6
      <4>2. context.aliases[n + 1] = context.source.aliases[Resolved + (n + 1)]
        BY <2>2, <4>1 DEF Resolving
      <4> QED
        BY <4>1, <4>2
    <3>11. \A name \in DOMAIN context'.lookup :
             /\ context'.lookup[name] \in DOMAIN context'.defs
             /\ \E k \in DOMAIN context'.source.defs :
                  /\ context'.source.defs[k].name = name
                  /\ context'.defs[context'.lookup[name]] = context'.source.defs[k]
      <4>1. \A name \in DOMAIN context.lookup :
             /\ context.lookup[name] \in DOMAIN context.defs
             /\ \E k \in DOMAIN context.source.defs :
                  /\ context.source.defs[k].name = name
                  /\ context.defs[context.lookup[name]] = context.source.defs[k]
        BY <2>2 DEF Resolving
      <4>2. \A name \in DOMAIN context.lookup :
              /\ context.lookup[name] \in DOMAIN context'.defs
              /\ context'.defs[context.lookup[name]] = context.defs[context.lookup[name]]
        BY <3>7, <4>1
      <4> SUFFICES ASSUME NEW name \in DOMAIN context'.lookup
                   PROVE  /\ context'.lookup[name] \in DOMAIN context'.defs
                          /\ \E k \in DOMAIN context'.source.defs :
                               /\ context'.source.defs[k].name = name
                               /\ context'.defs[context'.lookup[name]] = context'.source.defs[k]
        OBVIOUS
      <4> DEFINE at == context.lookup[name]
      <4>3. name \in DOMAIN context.lookup /\ context'.lookup[name] = at
        BY <3>2
      <4>4. PICK k \in DOMAIN context.source.defs :
              /\ context.source.defs[k].name = name
              /\ context.defs[at] = context.source.defs[k]
        BY <4>1, <4>3
      <4>5. at \in DOMAIN context'.defs /\ context'.defs[at] = context.source.defs[k]
        BY <4>2, <4>4, <4>3
      <4>6. k \in DOMAIN context'.source.defs /\ context'.source.defs[k] = context.source.defs[k]
        BY <3>2
      <4> HIDE DEF at
      <4> QED
        BY <4>4, <4>5, <4>3, <4>6
    <3>12. Resolving'
      BY <3>6, <3>8, <3>9, <3>10, <3>11 DEF Resolving
    <3> QED
      BY <1>1, <2>1, <2>2, <3>12 DEF PointersInv
  <2> QED
    BY <2>3, <2>4
<1> QED
  BY <1>2, <1>3

LEMMA MakeDefsPoints ==
  ASSUME DepotTypes, PointersInv, MakeDefs
  PROVE  PointersInv'
<1>1. loads' = loads /\ step' = "idle" /\ step = "aliases" /\ context.aliases = <<>>
  BY DEF MakeDefs, Returns
<1>2. CASE loads.databases > 1
  BY <1>1, <1>2 DEF PointersInv, DepotTypes, CountsOK
<1>3. CASE ~(loads.databases > 1)
  <2>1. loads.databases <= 1 /\ loads.databases > 0
    BY <1>1, <1>3 DEF PointersInv, DepotTypes, CountsOK
  <2>2. defs = <<>> /\ byName = <<>> /\ Resolving
    BY <1>1, <2>1 DEF PointersInv
  <2>3. PICK ds \in SortedByIndex(context.defs) :
          /\ context' = [context EXCEPT !.defs = ds, !.lookup = LookupOf(ds)]
          /\ defs' = defs \o NewDefs(ds)
          /\ byName' = [name \in DOMAIN byName \cup NamesOf(defs \o NewDefs(ds)) |->
                          IF name \in DOMAIN byName THEN byName[name]
                          ELSE [at |-> LookupOf(defs \o NewDefs(ds))[name], allocation |-> context.number]]
    BY DEF MakeDefs, NewDefs, Rebuilt
  <2>4. /\ IsList(ds) /\ Len(ds) = Len(context.defs)
        /\ \A j \in DOMAIN context.defs : \E i \in DOMAIN ds : ds[i] = context.defs[j]
        /\ \A i, j \in DOMAIN ds : i < j => ds[i].defIndex <= ds[j].defIndex
    BY SortedHasTheSame DEF DepotTypes, DatabaseOK
  <2>5. /\ IsList(NewDefs(ds)) /\ Len(NewDefs(ds)) = Len(ds) /\ DOMAIN NewDefs(ds) = DOMAIN ds
        /\ \A i \in DOMAIN ds : NewDefs(ds)[i] = NewDef(i, ds)
    BY <2>4, NewDefsAreList
  <2>6. defs \o NewDefs(ds) = NewDefs(ds)
    <3>1. NewDefs(ds) \in Seq(ToSet(NewDefs(ds)))
      BY <2>5 DEF IsList
    <3> DEFINE more == NewDefs(ds)
    <3> HIDE DEF more
    <3>2. <<>> \o more = more
      BY <3>1 DEF more
    <3> QED
      BY <2>2, <3>2 DEF more
  <2>7. /\ context'.source = context.source /\ context'.number = context.number
        /\ context'.defs = ds /\ context'.lookup = LookupOf(ds) /\ context'.aliases = context.aliases
    BY <2>3 DEF DepotTypes, DatabaseOK, ContextFields
  <2>8. /\ defs' = NewDefs(ds) /\ DOMAIN byName' = NamesOf(NewDefs(ds))
        /\ \A name \in DOMAIN byName' : byName'[name].at = LookupOf(NewDefs(ds))[name]
    BY <2>2, <2>3, <2>6
  <2>9. PointersLead'
    <3>1. Len(defs') = Len(context'.defs)
      BY <2>5, <2>7, <2>8
    <3>2. ASSUME NEW i \in DOMAIN defs' PROVE PointsToItsOwn(i)'
      BY <2>5, <2>7, <2>8 DEF PointsToItsOwn, NewDef
    <3>3. ASSUME NEW i \in DOMAIN defs', NEW name, name = defs'[i].name PROVE LeadsToFirst(name)'
      BY <2>5, <2>8, <3>3, LookupFindsFirst DEF LeadsToFirst
    <3>4. \A i, j \in DOMAIN defs' : i < j => context'.defs[i].defIndex <= context'.defs[j].defIndex
      BY <2>4, <2>5, <2>7, <2>8
    <3>5. ASSUME NEW i \in DOMAIN defs'
          PROVE  /\ context'.defs[i].name \in DOMAIN context'.lookup
                 /\ context'.defs[context'.lookup[context'.defs[i].name]].name = context'.defs[i].name
      BY <2>4, <2>5, <2>7, <2>8, LookupFindsFirst
    <3>6. NoneLost
      BY <2>4, <2>7 DEF NoneLost
    <3>7. SourcesIn'
      BY <2>2, <3>6, SourcesStay DEF Resolving
    <3>8. ASSUME NEW n \in DOMAIN context'.source.aliases PROVE AliasMade(n)'
      <4>1. Resolved = Len(context.source.aliases) /\ IsList(context.source.aliases)
        <5>1. IsList(context.source.aliases) /\ Len(context.aliases) = 0
          BY <1>1, EmptyIsList DEF DepotTypes, DatabaseOK
        <5> QED
          BY <5>1, ListIsFunction DEF Resolved
      <4>2. n \in 1 .. Resolved
        BY <2>7, <4>1, ListIsFunction
      <4> QED
        BY <2>2, <3>6, <4>2, AliasStays DEF Resolving
    <3> QED
      BY <3>1, <3>2, <3>3, <3>4, <3>5, <3>7, <3>8 DEF PointersLead
  <2> QED
    BY <1>1, <2>1, <2>9 DEF PointersInv
<1> QED
  BY <1>2, <1>3

LEMMA LoadOneDefPoints ==
  ASSUME DepotTypes, PointersInv, LoadOneDef
  PROVE  PointersInv'
<1>1. loads' = loads /\ step = "load" /\ Current >= 1 /\ Current <= Len(defs)
  BY DEF LoadOneDef, Loading
<1>2. Current \in DOMAIN defs /\ defs # <<>>
  <2>1. Current \in DOMAIN defs
    BY <1>1, LengthsAreNats
  <2> QED
    BY <2>1
<1>3. CASE defs[Current].context # context.number
  <2>1. ~(loads.databases <= 1)
    BY <1>2, <1>3 DEF PointersInv, PointersLead, PointsToItsOwn
  <2>2. step' = "crashed"
    BY <1>3 DEF LoadOneDef
  <2> QED
    BY <1>1, <2>1, <2>2 DEF PointersInv, DepotTypes, CountsOK
<1>4. CASE defs[Current].context = context.number
  <2>1. /\ defs' = [defs EXCEPT ![Current] = LoadDef(defs[Current])] /\ UNCHANGED <<context, byName>>
        /\ step' # "crashed" /\ step' # "aliases"
    BY <1>4 DEF LoadOneDef, Reports, Fails, Returns
  <2>2. /\ DOMAIN defs' = DOMAIN defs /\ defs' # <<>>
        /\ \A i \in DOMAIN defs : /\ defs'[i].context = defs[i].context /\ defs'[i].at = defs[i].at
                                  /\ defs'[i].name = defs[i].name /\ defs'[i].id = defs[i].id
    <3>1. DOMAIN defs' = DOMAIN defs
      BY <2>1
    <3>2. /\ LoadDef(defs[Current]).context = defs[Current].context
          /\ LoadDef(defs[Current]).at = defs[Current].at
          /\ LoadDef(defs[Current]).name = defs[Current].name
          /\ LoadDef(defs[Current]).id = defs[Current].id
      BY <1>2, LoadDefKeeps DEF DepotTypes, DatabaseOK
    <3> QED
      BY <1>2, <2>1, <3>1, <3>2
  <2>3. Len(defs') = Len(defs)
    BY <2>1
  <2>4. PointersLead => PointersLead'
    BY <2>1, <2>2, <2>3, PointersLeadOn DEF DepotTypes
  <2> QED
    BY <1>1, <1>2, <2>1, <2>2, <2>4 DEF PointersInv
<1> QED
  BY <1>3, <1>4

LEMMA PointersKept ==
  ASSUME DepotTypes, PointersInv, [DepotNext]_depotVars
  PROVE  PointersInv'
<1>1. CASE LoadLists
  <2>1. UNCHANGED <<context, defs, byName>> /\ loads'.databases = loads.databases
    BY <1>1 DEF LoadLists, database, DepotTypes, CountsOK
  <2>2. step' # "crashed" /\ step' # "aliases"
    BY <1>1 DEF LoadLists, Returns
  <2> QED
    BY <2>1, <2>2, PointersUntouched DEF DepotTypes
<1>2. CASE Load
  <2>1. UNCHANGED <<context, defs, byName>> /\ loads'.databases = loads.databases
    BY <1>2 DEF Load, database, DepotTypes, CountsOK
  <2>2. step' # "crashed" /\ step' # "aliases"
    BY <1>2 DEF Load, Returns
  <2> QED
    BY <2>1, <2>2, PointersUntouched DEF DepotTypes
<1>3. CASE LoadManifest \/ LoadFileTable \/ LoadDone \/ ValidateDepot
  <2>1. UNCHANGED <<context, defs, byName, loads>>
    BY <1>3 DEF LoadManifest, LoadFileTable, LoadDone, ValidateDepot, Loading, database
  <2>2. step' # "crashed" /\ step' # "aliases"
    BY <1>3 DEF LoadManifest, LoadFileTable, LoadDone, ValidateDepot, Reports, Fails, Returns
  <2> QED
    BY <2>1, <2>2, PointersUntouched DEF DepotTypes
<1>4. CASE UNCHANGED depotVars
  <2>1. UNCHANGED <<context, defs, byName, loads, step>>
    BY <1>4 DEF depotVars, database
  <2>2. CASE step # "aliases"
    <3>1. CASE step = "crashed"
      BY <2>1, <2>2, <3>1 DEF PointersInv
    <3>2. CASE step # "crashed"
      BY <2>1, <2>2, <3>2, PointersUntouched DEF DepotTypes
    <3> QED
      BY <3>1, <3>2
  <2>3. CASE step = "aliases"
    <3>1. ASSUME Resolving PROVE Resolving'
      <4>1. NoneLost
        BY <2>1 DEF NoneLost
      <4>2. SourcesIn' /\ Resolved' = Resolved
        BY <2>1, <3>1, <4>1, SourcesStay DEF Resolving, Resolved
      <4>3. ASSUME NEW n \in 1 .. Resolved PROVE AliasMade(n)'
        BY <3>1, <4>1, AliasStays DEF Resolving
      <4> QED
        BY <2>1, <3>1, <4>2, <4>3 DEF Resolving
    <3>2. PointersLead => PointersLead'
      BY <2>1, PointersLeadOn DEF DepotTypes
    <3> QED
      BY <2>1, <2>3, <3>1, <3>2 DEF PointersInv
  <2> QED
    BY <2>2, <2>3
<1> QED
  BY <1>1, <1>2, <1>3, <1>4, ReadDatabasePoints, ResolveAliasPoints, MakeDefsPoints, LoadOneDefPoints
  DEF DepotNext

(* Until the directives of a database are loaded a second time, every def points   *)
(* to the structure of its directive or alias, every name leads to the first def   *)
(* that has it, and no load meets a structure that is gone: for any directives,    *)
(* names and indices that are used twice among them.                            *)
THEOREM PointersAreExact == DepotSpec => []PointersExact
<1>1. DepotInit => DepotTypes /\ PointersInv
  <2>1. DepotInit => PointersInv
    BY DEF DepotInit, PointersInv
  <2> QED
    BY <2>1, DepotTypesInit
<1>2. DepotTypes /\ PointersInv /\ [DepotNext]_depotVars => (DepotTypes /\ PointersInv)'
  BY DepotTypesKept, PointersKept
<1>3. DepotTypes /\ PointersInv => PointersExact
  BY ExactFollows
<1> QED
  BY <1>1, <1>2, <1>3, PTL DEF DepotSpec

-----------------------------------------------------------------------------
(* FileStreams: bytes.                                                        *)

LEMMA FrontOfList ==
  ASSUME NEW s, IsList(s), Len(s) > 0
  PROVE  /\ IsList(Front(s)) /\ Len(Front(s)) = Len(s) - 1 /\ DOMAIN Front(s) = 1 .. Len(s) - 1
         /\ \A i \in 1 .. Len(s) - 1 : Front(s)[i] = s[i]
<1> DEFINE S == ToSet(s)
<1>1. s \in Seq(S) /\ Len(s) \in Nat
  BY ListIsFunction DEF IsList
<1> HIDE DEF S
<1>2. /\ Front(s) \in Seq(S) /\ Len(Front(s)) = Len(s) - 1
      /\ \A i \in 1 .. Len(s) - 1 : Front(s)[i] = s[i]
  BY <1>1 DEF Front
<1>3. IsList(Front(s))
  BY <1>2, SequenceIsList
<1> QED
  BY <1>2, <1>3, ListIsFunction

LEMMA SubSeqOfList ==
  ASSUME NEW s, IsList(s), NEW a \in Nat, a > 0, NEW b \in Nat, b <= Len(s)
  PROVE  /\ IsList(SubSeq(s, a, b))
         /\ Len(SubSeq(s, a, b)) = IF a <= b THEN b - a + 1 ELSE 0
<1> DEFINE S == ToSet(s)
<1>1. s \in Seq(S) /\ Len(s) \in Nat
  BY ListIsFunction DEF IsList
<1> HIDE DEF S
<1>2. SubSeq(s, a, b) \in Seq(S) /\ Len(SubSeq(s, a, b)) = IF a <= b THEN b - a + 1 ELSE 0
  BY <1>1
<1> QED
  BY <1>2, SequenceIsList

(* What is put at the end of data, and what is put in the middle of it.          *)
LEMMA PlacedAtEnd ==
  ASSUME NEW data, IsList(data), NEW bytes, IsList(bytes)
  PROVE  /\ IsList(Placed(data, Len(data), bytes))
         /\ Len(Placed(data, Len(data), bytes)) = Len(data) + Len(bytes)
<1> DEFINE n == Len(data)
           m == Len(bytes)
           a == SubSeq(data, 1, n)
           b == SubSeq(data, n + m + 1, n)
<1>1. n \in Nat /\ m \in Nat
  BY ListIsFunction
<1>2. IsList(a) /\ Len(a) = n /\ IsList(b) /\ Len(b) = 0
  BY <1>1, SubSeqOfList
<1>3. Placed(data, n, bytes) = a \o bytes \o b
  <2>1. ~(n > Len(data))
    BY <1>1
  <2> QED
    BY <2>1, Zenon DEF Placed
<1> HIDE DEF a, b
<1> DEFINE u == a \o bytes
<1>4. IsList(u) /\ Len(u) = n + m
  BY <1>2, ConcatLists
<1> HIDE DEF u
<1>5. IsList(u \o b) /\ Len(u \o b) = n + m + 0
  BY <1>2, <1>4, ConcatLists
<1>6. n + m + 0 = Len(data) + Len(bytes)
  BY <1>1
<1> QED
  BY <1>3, <1>5, <1>6 DEF u

LEMMA PlacedWithin ==
  ASSUME NEW data, IsList(data), NEW bytes, IsList(bytes), NEW position \in Nat,
         position + Len(bytes) <= Len(data)
  PROVE  /\ IsList(Placed(data, position, bytes))
         /\ Len(Placed(data, position, bytes)) = Len(data)
<1> DEFINE n == Len(data)
           m == Len(bytes)
           a == SubSeq(data, 1, position)
           b == SubSeq(data, position + m + 1, n)
<1>1. n \in Nat /\ m \in Nat
  BY ListIsFunction
<1>2. IsList(a) /\ Len(a) = position /\ IsList(b) /\ Len(b) = n - position - m
  BY <1>1, SubSeqOfList
<1>3. Placed(data, position, bytes) = a \o bytes \o b
  <2>1. ~(position > Len(data))
    BY <1>1
  <2> QED
    BY <2>1, Zenon DEF Placed
<1> HIDE DEF a, b
<1> DEFINE u == a \o bytes
<1>4. IsList(u) /\ Len(u) = position + m
  BY <1>2, ConcatLists
<1> HIDE DEF u
<1>5. IsList(u \o b) /\ Len(u \o b) = (position + m) + (n - position - m)
  BY <1>2, <1>4, ConcatLists
<1>6. (position + m) + (n - position - m) = Len(data)
  BY <1>1
<1> QED
  BY <1>3, <1>5, <1>6 DEF u

(* A sequence that is repeated.                                               *)
LEMMA TimesIsList ==
  ASSUME NEW n \in Nat, NEW body, IsList(body)
  PROVE  /\ IsList(Times(n, body)) /\ Len(Times(n, body)) \in Nat
         /\ ToSet(Times(n, body)) \subseteq ToSet(body)
<1> DEFINE t == Times(n, body)
           b == Len(body)
<1>1. b \in Nat /\ DOMAIN body = 1 .. b
  BY ListIsFunction
<1>2. n * b \in Nat
  BY <1>1
<1>3. DOMAIN t = 1 .. n * b /\ t = [i \in 1 .. n * b |-> t[i]]
  BY DEF Times
<1>4. IsList(t) /\ Len(t) = n * b
  <2> HIDE DEF t
  <2> QED
    BY <1>2, <1>3, FunctionIsList
<1>5. ASSUME NEW i \in 1 .. n * b PROVE t[i] \in ToSet(body)
  <2>1. t[i] = body[((i - 1) % b) + 1]
    BY DEF Times
  <2>2. b > 0
    BY <1>1, <1>2
  <2>3. ((i - 1) % b) + 1 \in DOMAIN body
    BY <1>1, <1>2, <2>2
  <2> QED
    BY <2>1, <2>3 DEF ToSet
<1> QED
  BY <1>2, <1>3, <1>4, <1>5 DEF ToSet

(* The bytes of a field.                                                      *)
LEMMA BytesAreList ==
  ASSUME NEW kind, NEW value, NEW width \in Nat, NEW swap, kind = "string" => value \in Nat
  PROVE  /\ IsList(Bytes(kind, value, width, swap))
         /\ kind = "int" => Len(Bytes(kind, value, width, swap)) = width
<1> DEFINE digits == Digits(value, width)
           ordered(s) == IF s THEN Reverse(digits) ELSE digits
<1>1. DOMAIN digits = 1 .. width /\ digits = [i \in 1 .. width |-> digits[i]]
  BY DEF Digits
<1> HIDE DEF digits
<1>2. IsList(digits) /\ Len(digits) = width
  BY <1>1, FunctionIsList
<1>3. IsList(Reverse(digits)) /\ Len(Reverse(digits)) = width
  <2> DEFINE r == Reverse(digits)
  <2>1. DOMAIN r = 1 .. width /\ r = [i \in 1 .. width |-> r[i]]
    BY <1>2 DEF Reverse
  <2> HIDE DEF r
  <2>2. IsList(r) /\ Len(r) = width
    BY <2>1, FunctionIsList
  <2> QED
    BY <2>2 DEF r
<1>4. ASSUME NEW s PROVE IsList(ordered(s)) /\ Len(ordered(s)) = width
  BY <1>2, <1>3
<1>5. ASSUME NEW x PROVE IsList(<<x>>) /\ Len(<<x>>) = 1
  <2>1. <<x>> \in Seq({x})
    OBVIOUS
  <2> QED
    BY <2>1, SequenceIsList
<1> HIDE DEF ordered
<1>6. CASE kind = "string"
  <2> DEFINE letters == Times(value, <<Letter>>)
             a == ordered(swap)
             b == a \o letters
  <2>1. IsList(letters)
    BY <1>5, <1>6, TimesIsList
  <2>2. IsList(a)
    BY <1>4
  <2> HIDE DEF a, letters
  <2>3. IsList(b)
    BY <2>1, <2>2, ConcatLists
  <2> HIDE DEF b
  <2>4. IsList(b \o <<0>>)
    BY <1>5, <2>3, ConcatLists
  <2>5. Bytes(kind, value, width, swap) = b \o <<0>>
    BY <1>6 DEF Bytes, a, b, letters, ordered, digits
  <2> QED
    BY <1>6, <2>4, <2>5
<1>7. CASE kind = "raw"
  <2>1. Bytes(kind, value, width, swap) = Times(width, <<value>>)
    BY <1>7 DEF Bytes
  <2> QED
    BY <1>5, <1>7, <2>1, TimesIsList
<1>8. CASE kind # "string" /\ kind # "raw"
  <2>1. Bytes(kind, value, width, swap) = ordered(Inverted(kind, swap))
    BY <1>8 DEF Bytes, ordered, digits
  <2> QED
    BY <1>4, <2>1
<1> QED
  BY <1>6, <1>7, <1>8

-----------------------------------------------------------------------------
(* FileStreams: sequences of streams.                                         *)

StreamFields == {"data", "position", "swap", "nested", "offset", "back"}

AreStreams(ss) ==
  /\ IsList(ss) /\ Len(ss) > 0 /\ ~ss[1].nested
  /\ \A i \in DOMAIN ss :
       /\ DOMAIN ss[i] = StreamFields /\ ss[i].nested \in BOOLEAN
       /\ IsList(ss[i].data)
       /\ ss[i].position \in Int /\ ss[i].offset \in Nat /\ ss[i].back \in Nat

\* A nested stream stands where its target stands.
Chained(ss) ==
  \A i, j \in DOMAIN ss :
    j = i + 1 /\ ss[j].nested => ss[i].position = ss[j].offset + ss[j].position

\* No further, from where it began, than any stream below it that its bytes pass.
Descending(ss) ==
  \A i, j \in DOMAIN ss :
    i <= j /\ (\A k \in i + 1 .. j : ss[k].nested) => ss[i].position >= ss[j].position

AtEnds(ss) ==
  \A i \in DOMAIN ss :
    /\ ss[i].position \in Nat
    /\ ~ss[i].nested => ss[i].position = Len(ss[i].data)
    /\ ss[i].nested => ss[i].offset = ss[i].back + 4

Aligned(ss) == AreStreams(ss) /\ Chained(ss) /\ Descending(ss) /\ AtEnds(ss)

(* There is one innermost stream that is not nested.                          *)
LEMMA OwnerIs ==
  ASSUME NEW ss, AreStreams(ss)
  PROVE  /\ Len(ss) \in Nat /\ DOMAIN ss = 1 .. Len(ss)
         /\ Owner(ss) \in 1 .. Len(ss) /\ ~ss[Owner(ss)].nested
         /\ \A j \in Owner(ss) + 1 .. Len(ss) : ss[j].nested
<1>1. Len(ss) \in Nat /\ DOMAIN ss = 1 .. Len(ss) /\ Len(ss) > 0
  BY ListIsFunction DEF AreStreams
<1> DEFINE After == {Len(ss) - i : i \in {k \in 1 .. Len(ss) : ~ss[k].nested}}
           Innermost(i) == ~ss[i].nested /\ \A j \in i + 1 .. Len(ss) : ss[j].nested
<1>2. After \in SUBSET Nat /\ After # {}
  <2>1. 1 \in {k \in 1 .. Len(ss) : ~ss[k].nested}
    BY <1>1 DEF AreStreams
  <2>2. After # {}
    BY <2>1
  <2>3. \A i \in 1 .. Len(ss) : Len(ss) - i \in Nat
    BY <1>1
  <2> QED
    BY <2>2, <2>3
<1>3. PICK m \in After : \A n \in After : m <= n
  BY <1>2, LeastOfNats
<1>4. PICK i \in 1 .. Len(ss) : ~ss[i].nested /\ m = Len(ss) - i
  BY <1>3
<1>5. ASSUME NEW j \in i + 1 .. Len(ss) PROVE ss[j].nested
  <2>1. j \in 1 .. Len(ss) /\ ~(Len(ss) - i <= Len(ss) - j)
    BY <1>1, <1>4
  <2> QED
    BY <1>3, <1>4, <2>1
<1>6. i \in DOMAIN ss /\ Innermost(i)
  BY <1>1, <1>4, <1>5
<1>7. Owner(ss) = CHOOSE k \in DOMAIN ss : Innermost(k)
  BY DEF Owner
<1> HIDE DEF Innermost
<1>8. Owner(ss) \in DOMAIN ss /\ Innermost(Owner(ss))
  BY <1>6, <1>7
<1> QED
  BY <1>1, <1>8 DEF Innermost

\* Streams that were moved together: the innermost that is not nested, and those
\* nested in it.  Of its data nothing is said.
Moved(ss, tt, by) ==
  /\ AreStreams(tt) /\ Len(tt) = Len(ss) /\ Owner(tt) = Owner(ss)
  /\ \A i \in 1 .. Len(ss) :
       /\ tt[i].nested = ss[i].nested /\ tt[i].offset = ss[i].offset /\ tt[i].back = ss[i].back
       /\ tt[i].swap = ss[i].swap
       /\ i # Owner(ss) => tt[i].data = ss[i].data
       /\ tt[i].position = ss[i].position + (IF i < Owner(ss) THEN 0 ELSE by)

LEMMA SameOwner ==
  ASSUME NEW ss, AreStreams(ss), NEW tt, AreStreams(tt), Len(tt) = Len(ss),
         \A i \in 1 .. Len(ss) : tt[i].nested = ss[i].nested
  PROVE  Owner(tt) = Owner(ss)
<1> DEFINE a == Owner(ss)
           b == Owner(tt)
           n == Len(ss)
<1>1. /\ n \in Nat /\ a \in 1 .. n /\ b \in 1 .. n /\ ~ss[a].nested /\ ~tt[b].nested
      /\ \A j \in a + 1 .. n : ss[j].nested
      /\ \A j \in b + 1 .. n : tt[j].nested
  BY OwnerIs
<1>2. ~ss[b].nested /\ ~tt[a].nested
  BY <1>1
<1> HIDE DEF a, b, n
<1>3. ~(a < b) /\ ~(b < a)
  BY <1>1, <1>2
<1>4. a = b
  BY <1>1, <1>3
<1> QED
  BY <1>4 DEF a, b

(* What chains streams together is kept when they are moved together.            *)
LEMMA MovedStaysChained ==
  ASSUME NEW ss, AreStreams(ss), Chained(ss), NEW tt, NEW by \in Int, Moved(ss, tt, by)
  PROVE  Chained(tt)
<1>1. /\ Len(ss) \in Nat /\ Owner(ss) \in 1 .. Len(ss) /\ ~ss[Owner(ss)].nested
      /\ DOMAIN ss = 1 .. Len(ss) /\ DOMAIN tt = 1 .. Len(ss)
  BY OwnerIs DEF Moved
<1> SUFFICES ASSUME NEW i \in 1 .. Len(ss), NEW j \in 1 .. Len(ss), j = i + 1, tt[j].nested
             PROVE  tt[i].position = tt[j].offset + tt[j].position
  BY <1>1 DEF Chained
<1>2. ss[j].nested /\ ss[i].position = ss[j].offset + ss[j].position /\ tt[j].offset = ss[j].offset
  BY <1>1 DEF Moved, Chained
<1>3. j # Owner(ss)
  BY <1>1, <1>2
<1>4. i < Owner(ss) <=> j < Owner(ss)
  BY <1>1, <1>3
<1>5. /\ tt[i].position = ss[i].position + (IF i < Owner(ss) THEN 0 ELSE by)
      /\ tt[j].position = ss[j].position + (IF j < Owner(ss) THEN 0 ELSE by)
      /\ ss[i].position \in Int /\ ss[j].position \in Int /\ ss[j].offset \in Nat
  BY <1>1 DEF Moved, AreStreams
<1> QED
  BY <1>2, <1>4, <1>5

LEMMA MovedStaysDescending ==
  ASSUME NEW ss, AreStreams(ss), Descending(ss), NEW tt, NEW by \in Int, Moved(ss, tt, by)
  PROVE  Descending(tt)
<1>1. /\ Len(ss) \in Nat /\ Owner(ss) \in 1 .. Len(ss) /\ ~ss[Owner(ss)].nested
      /\ DOMAIN ss = 1 .. Len(ss) /\ DOMAIN tt = 1 .. Len(ss)
  BY OwnerIs DEF Moved
<1> SUFFICES ASSUME NEW i \in 1 .. Len(ss), NEW j \in 1 .. Len(ss), i <= j,
                    \A k \in i + 1 .. j : tt[k].nested
             PROVE  tt[i].position >= tt[j].position
  BY <1>1 DEF Descending
<1>2. \A k \in i + 1 .. j : k \in 1 .. Len(ss) /\ ss[k].nested
  BY <1>1 DEF Moved
<1>3. ss[i].position >= ss[j].position
  BY <1>1, <1>2 DEF Descending
<1>4. i < Owner(ss) <=> j < Owner(ss)
  BY <1>1, <1>2
<1>5. /\ tt[i].position = ss[i].position + (IF i < Owner(ss) THEN 0 ELSE by)
      /\ tt[j].position = ss[j].position + (IF j < Owner(ss) THEN 0 ELSE by)
      /\ ss[i].position \in Int /\ ss[j].position \in Int
  BY <1>1 DEF Moved, AreStreams
<1> QED
  BY <1>3, <1>4, <1>5

(* What getRegionForWrite does.                                              *)
LEMMA PutMoves ==
  ASSUME NEW ss, AreStreams(ss), NEW bytes, IsList(bytes),
         IsList(Placed(ss[Owner(ss)].data, ss[Owner(ss)].position, bytes))
  PROVE  /\ Moved(ss, Put(ss, bytes), Len(bytes))
         /\ Put(ss, bytes)[Owner(ss)].data = Placed(ss[Owner(ss)].data, ss[Owner(ss)].position, bytes)
<1> DEFINE tt == Put(ss, bytes)
           o == Owner(ss)
           new == Placed(ss[o].data, ss[o].position, bytes)
<1>1. /\ Len(ss) \in Nat /\ Len(bytes) \in Nat /\ o \in 1 .. Len(ss) /\ ~ss[o].nested
      /\ DOMAIN ss = 1 .. Len(ss) /\ Len(ss) > 0
  BY OwnerIs, ListIsFunction DEF AreStreams
<1>2. tt = [i \in 1 .. Len(ss) |-> tt[i]] /\ DOMAIN tt = 1 .. Len(ss)
  BY <1>1 DEF Put
<1>3. IsList(tt) /\ Len(tt) = Len(ss)
  <2> HIDE DEF tt
  <2> QED
    BY <1>1, <1>2, FunctionIsList
<1>4. ASSUME NEW i \in 1 .. Len(ss)
      PROVE  /\ DOMAIN tt[i] = StreamFields
             /\ tt[i].nested = ss[i].nested /\ tt[i].offset = ss[i].offset /\ tt[i].back = ss[i].back
             /\ tt[i].swap = ss[i].swap
             /\ tt[i].data = IF i = o THEN new ELSE ss[i].data
             /\ tt[i].position = ss[i].position + (IF i < o THEN 0 ELSE Len(bytes))
  <2>0. DOMAIN ss[i] = StreamFields /\ ss[i].position \in Int
    BY <1>1 DEF AreStreams
  <2>1. CASE i < o
    <3>1. tt[i] = ss[i] /\ i # o
      BY <1>1, <2>1 DEF Put
    <3> QED
      BY <1>1, <2>0, <2>1, <3>1
  <2>2. CASE ~(i < o)
    <3>1. tt[i] = [ss[i] EXCEPT !.position = @ + Len(bytes),
                                !.data = IF i = o THEN Placed(@, ss[i].position, bytes) ELSE @]
      BY <1>1, <2>2 DEF Put
    <3> HIDE DEF tt
    <3> QED
      BY <1>1, <2>0, <2>2, <3>1 DEF StreamFields
  <2> QED
    BY <2>1, <2>2
<1> HIDE DEF tt
<1>5. ~tt[1].nested
  BY <1>1, <1>4 DEF AreStreams
<1>6. AreStreams(tt)
  <2>1. ASSUME NEW i \in 1 .. Len(ss)
        PROVE  /\ DOMAIN tt[i] = StreamFields /\ tt[i].nested \in BOOLEAN
               /\ IsList(tt[i].data)
               /\ tt[i].position \in Int /\ tt[i].offset \in Nat /\ tt[i].back \in Nat
    <3>1. /\ ss[i].nested \in BOOLEAN /\ IsList(ss[i].data)
          /\ ss[i].position \in Int /\ ss[i].offset \in Nat /\ ss[i].back \in Nat
      BY <1>1 DEF AreStreams
    <3> HIDE DEF new
    <3>2. IsList(new)
      BY DEF new
    <3>3. IsList(tt[i].data)
      BY <1>4, <3>1, <3>2
    <3> QED
      BY <1>1, <1>4, <3>1, <3>3
  <2> QED
    BY <1>1, <1>2, <1>3, <1>5, <2>1 DEF AreStreams
<1>7. Owner(tt) = o
  BY <1>3, <1>4, <1>6, SameOwner
<1> QED
  BY <1>1, <1>3, <1>4, <1>6, <1>7 DEF Moved, tt

(* What setCurrentPosition does to streams that stand where their targets stand:    *)
(* these are moved as far as the innermost.                                    *)
LEMMA SeekMoves ==
  ASSUME NEW ss, AreStreams(ss), Chained(ss), NEW position \in Int
  PROVE  /\ Moved(ss, Seek(ss, position), position - ss[Len(ss)].position)
         /\ Seek(ss, position)[Owner(ss)].data = ss[Owner(ss)].data
<1> DEFINE tt == Seek(ss, position)
           o == Owner(ss)
           n == Len(ss)
           by == position - ss[n].position
           at[i \in DOMAIN ss] ==
             IF i < Owner(ss) THEN ss[i].position
             ELSE IF i = Len(ss) THEN position
             ELSE at[i + 1] + ss[i + 1].offset
           Places(g) == g = [i \in DOMAIN ss |->
                               IF i < Owner(ss) THEN ss[i].position
                               ELSE IF i = Len(ss) THEN position
                               ELSE g[i + 1] + ss[i + 1].offset]
           f == [i \in DOMAIN ss |-> IF i < o THEN ss[i].position ELSE ss[i].position + by]
<1>1. /\ n \in Nat /\ n > 0 /\ o \in 1 .. n /\ ~ss[o].nested /\ DOMAIN ss = 1 .. n
      /\ \A j \in o + 1 .. n : ss[j].nested
  BY OwnerIs, ListIsFunction DEF AreStreams
<1>2. \A i \in 1 .. n : /\ DOMAIN ss[i] = StreamFields /\ ss[i].nested \in BOOLEAN /\ IsList(ss[i].data)
                        /\ ss[i].position \in Int /\ ss[i].offset \in Nat /\ ss[i].back \in Nat
  BY <1>1 DEF AreStreams
<1>3. \A i \in 1 .. n - 1 : i >= o => ss[i].position = ss[i + 1].offset + ss[i + 1].position
  BY <1>1 DEF Chained
<1>4. tt = [i \in DOMAIN ss |-> [ss[i] EXCEPT !.position = at[i]]]
  BY DEF Seek
<1>5. at = CHOOSE g : Places(g)
  OBVIOUS
<1> HIDE DEF at, tt
<1>6. Places(f)
  <2>1. ASSUME NEW i \in 1 .. n
        PROVE  f[i] = IF i < o THEN ss[i].position ELSE IF i = n THEN position
                      ELSE f[i + 1] + ss[i + 1].offset
    <3>1. ss[n].position \in Int /\ by \in Int /\ by + ss[n].position = position
      BY <1>1, <1>2
    <3> HIDE DEF by
    <3>2. f[i] = IF i < o THEN ss[i].position ELSE ss[i].position + by
      BY <1>1
    <3>3. CASE i < o
      BY <3>2, <3>3
    <3>4. CASE i >= o /\ i = n
      BY <1>1, <1>2, <3>1, <3>2, <3>4
    <3>5. CASE i >= o /\ i < n
      <4>1. i + 1 \in 1 .. n /\ i \in 1 .. n - 1
        BY <1>1, <3>5
      <4>2. f[i + 1] = ss[i + 1].position + by
        BY <1>1, <3>5, <4>1
      <4>3. ss[i].position = ss[i + 1].offset + ss[i + 1].position
        BY <1>3, <3>5, <4>1
      <4>4. ss[i + 1].position \in Int /\ ss[i + 1].offset \in Int
        BY <1>2, <4>1
      <4> HIDE DEF f
      <4> QED
        BY <1>1, <3>1, <3>2, <3>5, <4>2, <4>3, <4>4
    <3>6. i < o \/ (i >= o /\ i = n) \/ (i >= o /\ i < n)
      <4>1. i \in Int /\ o \in Int /\ n \in Int /\ i <= n
        BY <1>1
      <4> HIDE DEF o, n
      <4> QED
        BY <4>1
    <3> QED
      BY <3>3, <3>4, <3>5, <3>6
  <2>2. f = [i \in DOMAIN ss |-> f[i]]
    OBVIOUS
  <2> HIDE DEF f, n
  <2> QED
    BY <1>1, <2>1, <2>2 DEF n
<1> HIDE DEF f
<1>7. Places(at)
  <2> HIDE DEF Places
  <2> QED
    BY <1>5, <1>6
<1>8. ASSUME NEW i \in 1 .. n PROVE at[i] = f[i]
  <2> DEFINE Wrong == {n - k : k \in {q \in 1 .. n : at[q] # f[q]}}
  <2> SUFFICES ASSUME Wrong # {} PROVE FALSE
    OBVIOUS
  <2>1. Wrong \in SUBSET Nat
    BY <1>1
  <2>2. PICK m \in Wrong : \A w \in Wrong : m <= w
    BY <2>1, LeastOfNats
  <2>3. PICK k \in 1 .. n : at[k] # f[k] /\ m = n - k
    BY <2>2
  <2>4. /\ at[k] = IF k < o THEN ss[k].position ELSE IF k = n THEN position
                   ELSE at[k + 1] + ss[k + 1].offset
        /\ f[k] = IF k < o THEN ss[k].position ELSE IF k = n THEN position
                   ELSE f[k + 1] + ss[k + 1].offset
    BY <1>1, <1>6, <1>7
  <2>5. k # n /\ k >= o /\ at[k + 1] # f[k + 1]
    BY <1>1, <2>3, <2>4
  <2>6. k + 1 \in 1 .. n /\ n - (k + 1) \in Wrong
    BY <1>1, <2>3, <2>5
  <2>7. m <= n - (k + 1)
    BY <2>2, <2>6
  <2> QED
    BY <1>1, <2>3, <2>7
<1>9. ASSUME NEW i \in 1 .. n
      PROVE  /\ DOMAIN tt[i] = StreamFields
             /\ tt[i].nested = ss[i].nested /\ tt[i].offset = ss[i].offset /\ tt[i].back = ss[i].back
             /\ tt[i].swap = ss[i].swap /\ tt[i].data = ss[i].data
             /\ tt[i].position = ss[i].position + (IF i < o THEN 0 ELSE by)
             /\ tt[i].position \in Int
  <2>1. tt[i] = [ss[i] EXCEPT !.position = at[i]]
    BY <1>1, <1>4
  <2>2. f[i] = ss[i].position + (IF i < o THEN 0 ELSE by) /\ by \in Int
    BY <1>1, <1>2 DEF f
  <2> HIDE DEF by
  <2>3. DOMAIN ss[i] = StreamFields /\ ss[i].position \in Int
    BY <1>2
  <2> QED
    BY <1>8, <2>1, <2>2, <2>3 DEF StreamFields
<1>10. IsList(tt) /\ Len(tt) = n /\ DOMAIN tt = 1 .. n
  <2>1. DOMAIN tt = 1 .. n
    BY <1>1, <1>4
  <2>2. tt = [i \in 1 .. n |-> tt[i]]
    BY <1>1, <1>4
  <2> QED
    BY <1>1, <2>1, <2>2, FunctionIsList
<1>11. AreStreams(tt)
  <2>1. ~tt[1].nested
    BY <1>1, <1>9 DEF AreStreams
  <2>2. ASSUME NEW i \in 1 .. n
        PROVE  /\ DOMAIN tt[i] = StreamFields /\ tt[i].nested \in BOOLEAN
               /\ IsList(tt[i].data)
               /\ tt[i].position \in Int /\ tt[i].offset \in Nat /\ tt[i].back \in Nat
    BY <1>2, <1>9
  <2> QED
    BY <1>1, <1>10, <2>1, <2>2 DEF AreStreams
<1>12. Owner(tt) = o
  BY <1>9, <1>10, <1>11, SameOwner
<1>13. Moved(ss, tt, by)
  BY <1>9, <1>10, <1>11, <1>12 DEF Moved
<1> QED
  BY <1>1, <1>9, <1>13 DEF tt

(* Of streams that are aligned, what is written goes to the end of the data.       *)
LEMMA PutAtEnd ==
  ASSUME NEW ss, Aligned(ss), NEW bytes, IsList(bytes)
  PROVE  /\ Aligned(Put(ss, bytes)) /\ Len(Put(ss, bytes)) = Len(ss)
         /\ Put(ss, bytes)[Len(ss)].position = ss[Len(ss)].position + Len(bytes)
         /\ \A i \in 1 .. Len(ss) : Put(ss, bytes)[i].nested = ss[i].nested
<1> DEFINE tt == Put(ss, bytes)
           o == Owner(ss)
           data == ss[o].data
           new == Placed(data, ss[o].position, bytes)
<1>1. /\ Len(ss) \in Nat /\ o \in 1 .. Len(ss) /\ ~ss[o].nested /\ DOMAIN ss = 1 .. Len(ss)
      /\ \A j \in o + 1 .. Len(ss) : ss[j].nested
      /\ AreStreams(ss) /\ Chained(ss) /\ Descending(ss) /\ AtEnds(ss)
  BY OwnerIs DEF Aligned
<1>2. IsList(data) /\ Len(data) \in Nat /\ ss[o].position = Len(data) /\ Len(bytes) \in Nat
  BY <1>1, ListIsFunction DEF AreStreams, AtEnds
<1>3. IsList(new) /\ Len(new) = Len(data) + Len(bytes)
  BY <1>2, PlacedAtEnd
<1>4. Moved(ss, tt, Len(bytes)) /\ tt[o].data = new
  BY <1>1, <1>3, PutMoves
<1> HIDE DEF tt, new, data
<1>5. Chained(tt) /\ Descending(tt)
  BY <1>1, <1>2, <1>4, MovedStaysChained, MovedStaysDescending
<1>6. AtEnds(tt)
  <2>1. DOMAIN tt = 1 .. Len(ss)
    BY <1>4, ListIsFunction DEF Moved, AreStreams
  <2>2. ASSUME NEW i \in 1 .. Len(ss)
        PROVE  /\ tt[i].position \in Nat
               /\ ~tt[i].nested => tt[i].position = Len(tt[i].data)
               /\ tt[i].nested => tt[i].offset = tt[i].back + 4
    <3>1. /\ ss[i].position \in Nat
          /\ ~ss[i].nested => ss[i].position = Len(ss[i].data)
          /\ ss[i].nested => ss[i].offset = ss[i].back + 4
      BY <1>1 DEF AtEnds
    <3>2. /\ tt[i].nested = ss[i].nested /\ tt[i].offset = ss[i].offset /\ tt[i].back = ss[i].back
          /\ i # o => tt[i].data = ss[i].data
          /\ tt[i].position = ss[i].position + (IF i < o THEN 0 ELSE Len(bytes))
      BY <1>4 DEF Moved
    <3>3. CASE i < o
      BY <1>1, <3>1, <3>2, <3>3
    <3>4. CASE i = o
      BY <1>1, <1>2, <1>3, <1>4, <3>1, <3>2, <3>4
    <3>5. CASE i > o
      <4>1. ss[i].nested /\ ~(i < o)
        BY <1>1, <3>5
      <4> QED
        BY <1>2, <3>1, <3>2, <4>1
    <3> QED
      BY <1>1, <3>3, <3>4, <3>5
  <2> QED
    BY <2>1, <2>2 DEF AtEnds
<1>7. Aligned(tt)
  BY <1>4, <1>5, <1>6 DEF Aligned, Moved
<1>8. tt[Len(ss)].position = ss[Len(ss)].position + Len(bytes)
  <2>1. Len(ss) \in 1 .. Len(ss) /\ ~(Len(ss) < o)
    BY <1>1
  <2> QED
    BY <1>4, <2>1 DEF Moved
<1> QED
  BY <1>4, <1>7, <1>8 DEF Moved, tt

(* Streams of which only the data of the owner changed, in place.                *)
LEMMA AlignedInPlace ==
  ASSUME NEW ss, Aligned(ss), NEW tt, Moved(ss, tt, 0), Len(tt[Owner(ss)].data) = Len(ss[Owner(ss)].data)
  PROVE  Aligned(tt)
<1>1. /\ Len(ss) \in Nat /\ DOMAIN ss = 1 .. Len(ss) /\ DOMAIN tt = 1 .. Len(ss)
      /\ AreStreams(ss) /\ Chained(ss) /\ Descending(ss) /\ AtEnds(ss)
  BY OwnerIs DEF Aligned, Moved
<1>2. ASSUME NEW i \in 1 .. Len(ss)
      PROVE  /\ tt[i].position \in Nat
             /\ ~tt[i].nested => tt[i].position = Len(tt[i].data)
             /\ tt[i].nested => tt[i].offset = tt[i].back + 4
  <2>1. /\ ss[i].position \in Nat
        /\ ~ss[i].nested => ss[i].position = Len(ss[i].data)
        /\ ss[i].nested => ss[i].offset = ss[i].back + 4
    BY <1>1 DEF AtEnds
  <2>2. /\ tt[i].nested = ss[i].nested /\ tt[i].offset = ss[i].offset /\ tt[i].back = ss[i].back
        /\ tt[i].position = ss[i].position
    BY <2>1 DEF Moved
  <2>3. Len(tt[i].data) = Len(ss[i].data)
    BY DEF Moved
  <2> QED
    BY <2>1, <2>2, <2>3
<1>3. AtEnds(tt)
  BY <1>1, <1>2 DEF AtEnds
<1>4. Chained(tt) /\ Descending(tt)
  BY <1>1, MovedStaysChained, MovedStaysDescending
<1> QED
  BY <1>3, <1>4 DEF Aligned, Moved

(* The streams below the innermost are aligned by themselves.                    *)
LEMMA FrontAligned ==
  ASSUME NEW ss, Aligned(ss), Len(ss) > 1
  PROVE  /\ Aligned(Front(ss)) /\ Len(Front(ss)) = Len(ss) - 1
         /\ \A i \in 1 .. Len(ss) - 1 : Front(ss)[i] = ss[i]
<1>1. /\ Len(ss) \in Nat /\ DOMAIN ss = 1 .. Len(ss) /\ IsList(ss)
      /\ AreStreams(ss) /\ Chained(ss) /\ Descending(ss) /\ AtEnds(ss)
  BY ListIsFunction DEF Aligned, AreStreams
<1>2. /\ IsList(Front(ss)) /\ Len(Front(ss)) = Len(ss) - 1 /\ DOMAIN Front(ss) = 1 .. Len(ss) - 1
      /\ \A i \in 1 .. Len(ss) - 1 : Front(ss)[i] = ss[i]
  <2>1. Len(ss) > 0
    BY <1>1
  <2> QED
    BY <1>1, <2>1, FrontOfList
<1> DEFINE tt == Front(ss)
<1> HIDE DEF tt
<1>3. AreStreams(tt)
  BY <1>1, <1>2 DEF AreStreams, tt
<1>4. Chained(tt)
  BY <1>1, <1>2 DEF Chained, tt
<1>5. Descending(tt)
  <2> SUFFICES ASSUME NEW i \in 1 .. Len(ss) - 1, NEW j \in 1 .. Len(ss) - 1, i <= j,
                      \A k \in i + 1 .. j : tt[k].nested
               PROVE  tt[i].position >= tt[j].position
    BY <1>2 DEF Descending, tt
  <2>1. \A k \in i + 1 .. j : k \in 1 .. Len(ss) - 1
    BY <1>1
  <2>2. /\ tt[i] = ss[i] /\ tt[j] = ss[j] /\ \A k \in i + 1 .. j : tt[k] = ss[k]
    BY <1>2, <2>1 DEF tt
  <2>3. i \in DOMAIN ss /\ j \in DOMAIN ss
    BY <1>1
  <2> QED
    BY <1>1, <2>2, <2>3 DEF Descending
<1>6. AtEnds(tt)
  BY <1>1, <1>2 DEF AtEnds, tt
<1> QED
  BY <1>2, <1>3, <1>4, <1>5, <1>6 DEF Aligned, tt

(* A new stream begins where the innermost one stands, or has nothing to do with it.  *)
LEMMA AppendAligned ==
  ASSUME NEW ss, Aligned(ss), NEW top, DOMAIN top = StreamFields, top.nested \in BOOLEAN,
         top.data = <<>>, top.position = 0, top.offset \in Nat, top.back \in Nat,
         top.nested => top.offset = top.back + 4 /\ top.offset = ss[Len(ss)].position
  PROVE  Aligned(Append(ss, top)) /\ Len(Append(ss, top)) = Len(ss) + 1
<1> DEFINE tt == Append(ss, top)
           n == Len(ss)
<1>1. /\ n \in Nat /\ n > 0 /\ DOMAIN ss = 1 .. n /\ IsList(ss)
      /\ AreStreams(ss) /\ Chained(ss) /\ Descending(ss) /\ AtEnds(ss)
  BY ListIsFunction DEF Aligned, AreStreams
<1>2. /\ IsList(tt) /\ Len(tt) = n + 1 /\ DOMAIN tt = 1 .. n + 1
      /\ \A i \in 1 .. n : tt[i] = ss[i]
      /\ tt[n + 1] = top
  <2>1. /\ IsList(tt) /\ Len(tt) = n + 1
        /\ \A i \in 1 .. n : tt[i] = ss[i]
        /\ tt[n + 1] = top
    BY <1>1, AppendToList
  <2> HIDE DEF tt
  <2> QED
    BY <2>1, ListIsFunction
<1> HIDE DEF tt
<1>3. \A i \in 1 .. n + 1 : i \in 1 .. n \/ i = n + 1
  BY <1>1
<1>4. AreStreams(tt)
  <2>1. ~tt[1].nested
    BY <1>1, <1>2 DEF AreStreams
  <2>2. ASSUME NEW i \in 1 .. n + 1
        PROVE  /\ DOMAIN tt[i] = StreamFields /\ tt[i].nested \in BOOLEAN
               /\ IsList(tt[i].data)
               /\ tt[i].position \in Int /\ tt[i].offset \in Nat /\ tt[i].back \in Nat
    <3>1. CASE i \in 1 .. n
      BY <1>1, <1>2, <3>1 DEF AreStreams
    <3>2. CASE i = n + 1
      BY <1>2, <3>2, EmptyIsList
    <3> QED
      BY <1>3, <3>1, <3>2
  <2> QED
    BY <1>1, <1>2, <2>1, <2>2 DEF AreStreams
<1>5. Chained(tt)
  <2> SUFFICES ASSUME NEW i \in 1 .. n + 1, NEW j \in 1 .. n + 1, j = i + 1, tt[j].nested
               PROVE  tt[i].position = tt[j].offset + tt[j].position
    BY <1>2 DEF Chained
  <2>1. i \in 1 .. n
    BY <1>1
  <2>2. CASE j \in 1 .. n
    <3>1. tt[i] = ss[i] /\ tt[j] = ss[j]
      BY <1>2, <2>1, <2>2
    <3> QED
      BY <1>1, <2>1, <2>2, <3>1 DEF Chained
  <2>3. CASE j = n + 1
    <3>1. i = n /\ ss[n].position \in Nat
      BY <1>1, <2>3 DEF AtEnds
    <3> QED
      BY <1>1, <1>2, <2>3, <3>1
  <2> QED
    BY <1>3, <2>2, <2>3
<1>6. Descending(tt)
  <2> SUFFICES ASSUME NEW i \in 1 .. n + 1, NEW j \in 1 .. n + 1, i <= j,
                      \A k \in i + 1 .. j : tt[k].nested
               PROVE  tt[i].position >= tt[j].position
    BY <1>2 DEF Descending
  <2>1. CASE j \in 1 .. n
    <3>1. i \in 1 .. n /\ \A k \in i + 1 .. j : k \in 1 .. n
      BY <1>1, <2>1
    <3> QED
      BY <1>1, <1>2, <2>1, <3>1 DEF Descending
  <2>2. CASE j = n + 1
    <3>1. tt[j].position = 0
      BY <1>2, <2>2
    <3>2. tt[i].position \in Nat
      BY <1>1, <1>2, <1>3 DEF AtEnds
    <3> QED
      BY <3>1, <3>2
  <2> QED
    BY <1>3, <2>1, <2>2
<1>7. AtEnds(tt)
  <2>1. ASSUME NEW i \in 1 .. n + 1
        PROVE  /\ tt[i].position \in Nat
               /\ ~tt[i].nested => tt[i].position = Len(tt[i].data)
               /\ tt[i].nested => tt[i].offset = tt[i].back + 4
    <3>1. CASE i \in 1 .. n
      BY <1>1, <1>2, <3>1 DEF AtEnds
    <3>2. CASE i = n + 1
      BY <1>2, <3>2, EmptyIsList
    <3> QED
      BY <1>3, <3>1, <3>2
  <2> QED
    BY <1>2, <2>1 DEF AtEnds
<1> QED
  BY <1>2, <1>4, <1>5, <1>6, <1>7 DEF Aligned, tt

(* The end of a sized segment: back where there is room, the length, and forward     *)
(* again, which leaves every stream where it stood and no data longer.            *)
LEMMA LengthPutBack ==
  ASSUME NEW ss, Aligned(ss), ss[Len(ss)].nested
  PROVE  Len(ss) > 1 /\ Aligned(WithLength(ss)) /\ Len(WithLength(ss)) = Len(ss) - 1
<1> DEFINE n == Len(ss)
           m == n - 1
           outer == Front(ss)
           o == Owner(outer)
           P == Last(outer).position
           q == Last(ss).back
           l == Last(ss).position
           s1 == Seek(outer, q)
           bytes == Bytes("int", l, 4, Last(s1).swap)
           s2 == Put(s1, bytes)
           s3 == Seek(s2, P)
<1> HIDE DEF n, m, outer, o, P, q, l, s1, bytes, s2, s3
<1>1. /\ n \in Nat /\ n > 1 /\ DOMAIN ss = 1 .. n /\ m \in 1 .. n /\ n = m + 1 /\ ss[n].nested
      /\ Chained(ss) /\ AtEnds(ss)
  <2>1. n \in Nat /\ n > 0 /\ ~ss[1].nested /\ DOMAIN ss = 1 .. n
    BY ListIsFunction DEF Aligned, AreStreams, n
  <2>2. ss[n].nested
    BY DEF n
  <2>3. n > 1
    BY <2>1, <2>2
  <2> QED
    BY <2>1, <2>2, <2>3 DEF Aligned, m
<1>2. /\ q \in Nat /\ l \in Nat /\ ss[m].position = q + 4 + l
  <2>1. /\ ss[n].position \in Nat /\ ss[n].offset = ss[n].back + 4 /\ ss[n].back \in Nat
    BY <1>1 DEF Aligned, AreStreams, AtEnds
  <2>2. ss[m].position = ss[n].offset + ss[n].position
    <3>1. m \in DOMAIN ss /\ n \in DOMAIN ss /\ n = m + 1 /\ ss[n].nested
      BY <1>1
    <3> QED
      BY <1>1, <3>1 DEF Chained
  <2> QED
    BY <2>1, <2>2 DEF Last, n, q, l
<1>3. /\ Aligned(outer) /\ AreStreams(outer) /\ Chained(outer) /\ Descending(outer) /\ AtEnds(outer)
      /\ Len(outer) = m /\ outer[m] = ss[m]
  <2>1. Len(ss) > 1 /\ m = Len(ss) - 1 /\ m \in 1 .. Len(ss) - 1
    BY <1>1 DEF n, m
  <2>2. Aligned(outer) /\ Len(outer) = m /\ outer[m] = ss[m]
    BY <2>1, FrontAligned DEF outer
  <2> QED
    BY <2>2 DEF Aligned
<1>4. P = q + 4 + l /\ P = outer[m].position
  BY <1>2, <1>3 DEF Last, P
<1>5. WithLength(ss) = s3
  BY DEF WithLength, PutInt, s3, s2, bytes, s1, outer, P, q, l
<1>6. /\ m \in Nat /\ o \in 1 .. m /\ ~outer[o].nested /\ DOMAIN outer = 1 .. m
      /\ \A j \in o + 1 .. m : outer[j].nested
  BY <1>1, <1>3, OwnerIs DEF o
<1>7. /\ Moved(outer, s1, q - P) /\ s1[o].data = outer[o].data
      /\ Chained(s1) /\ Owner(s1) = o /\ AreStreams(s1)
  <2>1. Moved(outer, s1, q - P) /\ s1[o].data = outer[o].data
    <3>1. P = outer[Len(outer)].position /\ q \in Int
      BY <1>2, <1>3, <1>4
    <3> QED
      BY <1>3, <3>1, SeekMoves DEF s1, o
  <2>2. q - P \in Int
    BY <1>2, <1>4
  <2>3. Chained(s1)
    BY <1>3, <2>1, <2>2, MovedStaysChained
  <2> QED
    BY <2>1, <2>3 DEF Moved, o
<1>8. /\ outer[o].position \in Nat /\ outer[o].position = Len(outer[o].data) /\ outer[o].position >= P
      /\ IsList(outer[o].data)
  <2>1. outer[o].position >= outer[m].position
    BY <1>6, <1>3 DEF Descending
  <2> QED
    BY <1>3, <1>4, <1>6, <2>1 DEF AtEnds, AreStreams
<1>9. s1[o].position = outer[o].position + (q - P)
  BY <1>3, <1>6, <1>7 DEF Moved, o
<1>10. IsList(bytes) /\ Len(bytes) = 4
  <2>1. 4 \in Nat /\ ("int" = "string" => l \in Nat)
    OBVIOUS
  <2> QED
    BY <2>1, BytesAreList DEF bytes
<1>11. /\ IsList(Placed(s1[o].data, s1[o].position, bytes))
       /\ Len(Placed(s1[o].data, s1[o].position, bytes)) = Len(outer[o].data)
  <2>1. s1[o].position \in Nat /\ s1[o].position + 4 <= Len(outer[o].data)
    <3> DEFINE big == Len(outer[o].data)
    <3>1. big \in Nat /\ big >= q + 4 + l /\ q \in Nat /\ l \in Nat /\ P = q + 4 + l
          /\ s1[o].position = big + (q - P)
      BY <1>2, <1>4, <1>8, <1>9
    <3> HIDE DEF big
    <3>2. s1[o].position \in Nat /\ s1[o].position + 4 <= big
      BY <3>1
    <3> QED
      BY <3>2 DEF big
  <2>2. IsList(s1[o].data) /\ s1[o].data = outer[o].data
    BY <1>7, <1>8
  <2>3. s1[o].position + Len(bytes) <= Len(s1[o].data)
    BY <1>10, <2>1, <2>2
  <2> QED
    BY <1>10, <2>1, <2>2, <2>3, PlacedWithin
<1>12. /\ Moved(s1, s2, 4) /\ Len(s2[o].data) = Len(outer[o].data)
       /\ Chained(s2) /\ Owner(s2) = o /\ AreStreams(s2)
  <2>1. Moved(s1, s2, 4) /\ s2[o].data = Placed(s1[o].data, s1[o].position, bytes)
    BY <1>7, <1>10, <1>11, PutMoves DEF s2
  <2>2. Chained(s2)
    BY <1>7, <2>1, MovedStaysChained
  <2> QED
    BY <1>7, <1>11, <2>1, <2>2 DEF Moved
<1>13. Len(s1) = m /\ Len(s2) = m
  BY <1>3, <1>7, <1>12 DEF Moved
<1>14. s2[m].position = q + 4
  <2>1. m \in 1 .. m /\ ~(m < o)
    BY <1>6
  <2>2. s2[m].position = s1[m].position + 4 /\ s1[m].position = outer[m].position + (q - P)
    BY <1>3, <1>7, <1>12, <1>13, <2>1 DEF Moved
  <2> QED
    BY <1>2, <1>4, <2>2
<1>15. Moved(s2, s3, P - (q + 4)) /\ s3[o].data = s2[o].data
  <2>1. s2[Len(s2)].position = q + 4 /\ P \in Int
    BY <1>2, <1>4, <1>13, <1>14
  <2>2. /\ Moved(s2, Seek(s2, P), P - s2[Len(s2)].position)
        /\ Seek(s2, P)[Owner(s2)].data = s2[Owner(s2)].data
    BY <1>12, <2>1, SeekMoves
  <2> QED
    BY <1>12, <2>1, <2>2 DEF s3
<1>16. Moved(outer, s3, 0)
  <2>1. ASSUME NEW i \in 1 .. m
        PROVE  /\ s3[i].nested = outer[i].nested /\ s3[i].offset = outer[i].offset
               /\ s3[i].back = outer[i].back /\ s3[i].swap = outer[i].swap
               /\ i # o => s3[i].data = outer[i].data
               /\ s3[i].position = outer[i].position + (IF i < o THEN 0 ELSE 0)
    <3>1. /\ s1[i].nested = outer[i].nested /\ s1[i].offset = outer[i].offset
          /\ s1[i].back = outer[i].back /\ s1[i].swap = outer[i].swap
          /\ i # o => s1[i].data = outer[i].data
          /\ s1[i].position = outer[i].position + (IF i < o THEN 0 ELSE q - P)
      BY <1>3, <1>7 DEF Moved, o
    <3>2. /\ s2[i].nested = s1[i].nested /\ s2[i].offset = s1[i].offset
          /\ s2[i].back = s1[i].back /\ s2[i].swap = s1[i].swap
          /\ i # o => s2[i].data = s1[i].data
          /\ s2[i].position = s1[i].position + (IF i < o THEN 0 ELSE 4)
      BY <1>7, <1>12, <1>13 DEF Moved
    <3>3. /\ s3[i].nested = s2[i].nested /\ s3[i].offset = s2[i].offset
          /\ s3[i].back = s2[i].back /\ s3[i].swap = s2[i].swap
          /\ i # o => s3[i].data = s2[i].data
          /\ s3[i].position = s2[i].position + (IF i < o THEN 0 ELSE P - (q + 4))
      BY <1>12, <1>13, <1>15 DEF Moved
    <3>4. outer[i].position \in Nat
      BY <1>3, <1>6 DEF AtEnds
    <3>5. s3[i].position = outer[i].position
      <4>1. CASE i < o
        BY <3>1, <3>2, <3>3, <3>4, <4>1
      <4>2. CASE ~(i < o)
        <5> DEFINE a == outer[i].position
        <5>1. s3[i].position = ((a + (q - P)) + 4) + (P - (q + 4)) /\ a \in Nat
          BY <3>1, <3>2, <3>3, <3>4, <4>2
        <5>2. q \in Nat /\ P \in Int
          BY <1>2, <1>4
        <5> HIDE DEF a
        <5>3. s3[i].position = a
          BY <5>1, <5>2
        <5> QED
          BY <5>3 DEF a
      <4> QED
        BY <4>1, <4>2
    <3> QED
      BY <3>1, <3>2, <3>3, <3>4, <3>5
  <2>2. AreStreams(s3) /\ Len(s3) = m /\ Owner(s3) = o
    BY <1>12, <1>13, <1>15 DEF Moved
  <2> QED
    BY <1>3, <2>1, <2>2 DEF Moved, o
<1>17. Aligned(s3)
  BY <1>3, <1>12, <1>15, <1>16, AlignedInPlace DEF o
<1> QED
  BY <1>1, <1>3, <1>5, <1>16, <1>17 DEF Moved, n, m

-----------------------------------------------------------------------------
(* FileStreams: the operators of the streams.                                   *)

AreFrames(frames, n) ==
  IsList(frames) /\ Len(frames) = n /\ \A i \in 1 .. n : frames[i] \in Seq(Operations)

LEMMA FramesBelow ==
  ASSUME NEW n \in Nat, n > 0, NEW frames, AreFrames(frames, n)
  PROVE  AreFrames(Front(frames), n - 1)
<1>1. /\ IsList(Front(frames)) /\ Len(Front(frames)) = n - 1
      /\ \A i \in 1 .. n - 1 : Front(frames)[i] = frames[i]
  BY FrontOfList DEF AreFrames
<1>2. \A i \in 1 .. n - 1 : i \in 1 .. n
  OBVIOUS
<1> QED
  BY <1>1, <1>2 DEF AreFrames

LEMMA OneFrameMore ==
  ASSUME NEW n \in Nat, NEW frames, AreFrames(frames, n), NEW ops \in Seq(Operations)
  PROVE  AreFrames(Append(frames, ops), n + 1)
<1> DEFINE more == Append(frames, ops)
<1>1. /\ IsList(more) /\ Len(more) = n + 1 /\ more[n + 1] = ops
      /\ \A i \in 1 .. n : more[i] = frames[i]
  BY AppendToList DEF AreFrames
<1> HIDE DEF more
<1>2. \A i \in 1 .. n + 1 : i \in 1 .. n \/ i = n + 1
  OBVIOUS
<1>3. \A i \in 1 .. n + 1 : more[i] \in Seq(Operations)
  BY <1>1, <1>2 DEF AreFrames
<1> QED
  BY <1>1, <1>3 DEF AreFrames, more

LEMMA TimesOfOperations ==
  ASSUME NEW n \in Nat, NEW body \in Seq(Operations)
  PROVE  Times(n, body) \in Seq(Operations)
<1>1. IsList(body) /\ ToSet(body) \subseteq Operations
  <2>1. \A i \in DOMAIN body : body[i] \in Operations
    OBVIOUS
  <2> QED
    BY <2>1, SequenceIsList DEF ToSet
<1> DEFINE t == Times(n, body)
<1>2. t \in Seq(ToSet(t)) /\ ToSet(t) \subseteq Operations
  BY <1>1, TimesIsList DEF IsList
<1> HIDE DEF t
<1>3. t \in Seq(Operations)
  <2>1. /\ Len(t) \in Nat /\ t = [i \in 1 .. Len(t) |-> t[i]]
        /\ \A i \in 1 .. Len(t) : t[i] \in ToSet(t)
    BY <1>2
  <2>2. \A i \in 1 .. Len(t) : t[i] \in Operations
    BY <1>2, <2>1
  <2>3. t \in [1 .. Len(t) -> Operations]
    BY <2>1, <2>2
  <2> QED
    BY <2>1, <2>3
<1> QED
  BY <1>3 DEF t

LEMMA ListOf ==
  ASSUME NEW x
  PROVE  IsList(<<x>>) /\ Len(<<x>>) = 1
<1>1. <<x>> \in Seq({x}) /\ Len(<<x>>) = 1
  OBVIOUS
<1> QED
  BY <1>1, SequenceIsList

\* While a file is written, each stream has an operator, and they are aligned.
StreamsInv ==
  phase = "write" => Aligned(streams) /\ AreFrames(todo, Len(streams))

(* What the operator of the innermost stream has left to do.                    *)
LEMMA ThisOperation ==
  ASSUME phase = "write", StreamsInv, Frame # <<>>
  PROVE  This \in Operations /\ Tail(Frame) \in Seq(Operations)
<1>1. Len(streams) \in Nat /\ Len(streams) > 0 /\ Len(todo) = Len(streams)
  BY ListIsFunction DEF StreamsInv, Aligned, AreStreams, AreFrames
<1>2. Frame \in Seq(Operations)
  BY <1>1 DEF StreamsInv, AreFrames, Frame, Last
<1> QED
  BY <1>2 DEF This

LEMMA GoingOn ==
  ASSUME StreamsInv, phase = "write", NEW ops \in Seq(Operations), GoesOn(ops),
         Len(streams') = Len(streams)
  PROVE  AreFrames(todo', Len(streams'))
<1>1. Len(streams) \in Nat /\ Len(streams) > 0 /\ AreFrames(todo, Len(streams))
  BY ListIsFunction DEF StreamsInv, Aligned, AreStreams
<1>2. AreFrames(Front(todo), Len(streams) - 1) /\ Len(streams) - 1 \in Nat
  BY <1>1, FramesBelow
<1>3. AreFrames(Append(Front(todo), ops), (Len(streams) - 1) + 1)
  BY <1>2, OneFrameMore
<1>4. (Len(streams) - 1) + 1 = Len(streams')
  BY <1>1
<1>5. todo' = Append(Front(todo), ops)
  BY DEF GoesOn
<1> QED
  BY <1>3, <1>4, <1>5

(* The length of a string, and the number of a vector's elements.                *)
LEMMA ChosenNumbers ==
  ASSUME NEW op \in Operations, op.op \in {"field", "vector"}, NEW value \in Choose(op)
  PROVE  value \in Nat
<1>1. Choose(op) = IF op.name \in DOMAIN Values THEN Values[op.name] ELSE {1}
  BY DEF Choose
<1>2. op.name \in DOMAIN Values => Values[op.name] \subseteq Nat
  BY ValuesAssumption
<1>3. CASE op.name \in DOMAIN Values
  BY <1>1, <1>2, <1>3
<1>4. CASE op.name \notin DOMAIN Values
  BY <1>1, <1>4
<1> QED
  BY <1>3, <1>4

LEMMA WriteFieldKeeps ==
  ASSUME StreamsInv, WriteField
  PROVE  StreamsInv'
<1>1. phase = "write" /\ Frame # <<>> /\ This.op \in FieldOps
  BY DEF WriteField, Writing
<1>2. This \in Operations /\ Tail(Frame) \in Seq(Operations)
  BY <1>1, ThisOperation
<1>3. PICK value \in Choose(This) : streams' = Put(streams, Bytes(This.kind, value, This.width, Top.swap))
  BY DEF WriteField
<1>4. This.width \in Nat /\ (This.kind = "string" => This.op = "field")
  BY <1>1, <1>2, FormatsAssumption DEF FieldOps
<1>5. This.kind = "string" => value \in Nat
  BY <1>2, <1>4, ChosenNumbers
<1> DEFINE bytes == Bytes(This.kind, value, This.width, Top.swap)
<1>6. IsList(bytes)
  BY <1>4, <1>5, BytesAreList
<1> HIDE DEF bytes
<1>7. Aligned(Put(streams, bytes)) /\ Len(Put(streams, bytes)) = Len(streams)
  BY <1>1, <1>6, PutAtEnd DEF StreamsInv
<1>8. Aligned(streams') /\ Len(streams') = Len(streams)
  BY <1>3, <1>7 DEF bytes
<1>9. AreFrames(todo', Len(streams'))
  BY <1>1, <1>2, <1>8, GoingOn DEF WriteField
<1>10. Aligned(streams)'
  BY <1>8 DEF Aligned, AreStreams, Chained, Descending, AtEnds
<1> QED
  BY <1>9, <1>10 DEF StreamsInv, AreFrames

LEMMA WriteVectorKeeps ==
  ASSUME StreamsInv, WriteVector
  PROVE  StreamsInv'
<1>1. phase = "write" /\ Frame # <<>> /\ This.op = "vector"
  BY DEF WriteVector, Writing
<1>2. This \in Operations /\ Tail(Frame) \in Seq(Operations)
  BY <1>1, ThisOperation
<1>3. PICK length \in Choose(This) :
        /\ streams' = Put(streams, Bytes("int", length, This.width, Top.swap))
        /\ GoesOn(Times(length, This.body) \o Tail(Frame))
  BY DEF WriteVector
<1>4. This.width \in Nat /\ This.body \in Seq(Operations)
  BY <1>1, <1>2, FormatsAssumption DEF FieldOps
<1>5. length \in Nat
  BY <1>1, <1>2, ChosenNumbers
<1> DEFINE bytes == Bytes("int", length, This.width, Top.swap)
           rest == Times(length, This.body)
<1>6. IsList(bytes)
  BY <1>4, <1>5, BytesAreList
<1>7. rest \in Seq(Operations)
  BY <1>4, <1>5, TimesOfOperations
<1> HIDE DEF bytes, rest
<1>8. Aligned(Put(streams, bytes)) /\ Len(Put(streams, bytes)) = Len(streams)
  BY <1>1, <1>6, PutAtEnd DEF StreamsInv
<1>9. Aligned(streams') /\ Len(streams') = Len(streams)
  BY <1>3, <1>8 DEF bytes
<1>10. rest \o Tail(Frame) \in Seq(Operations) /\ GoesOn(rest \o Tail(Frame))
  BY <1>2, <1>3, <1>7 DEF rest
<1>11. AreFrames(todo', Len(streams'))
  BY <1>1, <1>9, <1>10, GoingOn
<1> QED
  BY <1>9, <1>11 DEF StreamsInv, AreFrames, Aligned, AreStreams, Chained, Descending, AtEnds

(* A nested stream is opened where its target stands, four bytes further on.       *)
LEMMA NestedAligned ==
  ASSUME NEW ss, Aligned(ss), NEW mode
  PROVE  Aligned(Nested(ss, mode)) /\ Len(Nested(ss, mode)) = Len(ss) + 1
<1> DEFINE zeros == <<0, 0, 0, 0>>
           room == Put(ss, zeros)
           plain == Stream(SwapOf(mode, Last(ss).swap))
           top == [plain EXCEPT !.nested = TRUE, !.offset = Last(room).position, !.back = Last(ss).position]
<1>1. IsList(zeros) /\ Len(zeros) = 4
  <2>1. zeros \in Seq({0}) /\ Len(zeros) = 4
    OBVIOUS
  <2> QED
    BY <2>1, SequenceIsList
<1> HIDE DEF zeros
<1>2. /\ Aligned(room) /\ Len(room) = Len(ss)
      /\ room[Len(ss)].position = ss[Len(ss)].position + 4
  <2>1. /\ Aligned(Put(ss, zeros)) /\ Len(Put(ss, zeros)) = Len(ss)
        /\ Put(ss, zeros)[Len(ss)].position = ss[Len(ss)].position + Len(zeros)
    BY <1>1, PutAtEnd
  <2> QED
    BY <1>1, <2>1
<1> HIDE DEF room
<1>3. Len(ss) \in 1 .. Len(ss) /\ DOMAIN ss = 1 .. Len(ss) /\ DOMAIN room = 1 .. Len(ss)
  BY <1>2, ListIsFunction DEF Aligned, AreStreams
<1>4. ss[Len(ss)].position \in Nat /\ room[Len(ss)].position \in Nat
  BY <1>2, <1>3 DEF Aligned, AtEnds
<1>5. /\ DOMAIN plain = StreamFields /\ plain.nested \in BOOLEAN /\ plain.data = <<>> /\ plain.position = 0
  BY DEF Stream, StreamFields
<1> HIDE DEF plain
<1>6. /\ DOMAIN top = StreamFields /\ top.nested \in BOOLEAN /\ top.data = <<>> /\ top.position = 0
      /\ top.nested = TRUE /\ top.offset = room[Len(room)].position /\ top.back = ss[Len(ss)].position
  BY <1>5 DEF StreamFields, Last
<1> HIDE DEF top
<1>7. /\ top.offset \in Nat /\ top.back \in Nat /\ top.offset = top.back + 4
  BY <1>2, <1>4, <1>6
<1>8. Aligned(Append(room, top)) /\ Len(Append(room, top)) = Len(room) + 1
  BY <1>2, <1>6, <1>7, AppendAligned
<1>9. Nested(ss, mode) = Append(room, top)
  BY DEF Nested, room, top, plain, zeros
<1> QED
  BY <1>2, <1>8, <1>9

LEMMA PlainAligned ==
  ASSUME NEW ss, Aligned(ss), NEW swap
  PROVE  Aligned(Append(ss, Stream(swap))) /\ Len(Append(ss, Stream(swap))) = Len(ss) + 1
<1> DEFINE top == Stream(swap)
<1>1. /\ DOMAIN top = StreamFields /\ top.nested = FALSE /\ top.data = <<>> /\ top.position = 0
      /\ top.offset \in Nat /\ top.back \in Nat
  BY DEF Stream, StreamFields
<1> HIDE DEF top
<1>2. Aligned(Append(ss, top)) /\ Len(Append(ss, top)) = Len(ss) + 1
  BY <1>1, AppendAligned
<1> QED
  BY <1>2 DEF top

LEMMA WriteSegmentKeeps ==
  ASSUME StreamsInv, WriteSegment
  PROVE  StreamsInv'
<1>1. phase = "write" /\ Frame # <<>> /\ This.op \in {"sized", "deflated"}
  BY DEF WriteSegment, Writing
<1>2. This \in Operations /\ Tail(Frame) \in Seq(Operations)
  BY <1>1, ThisOperation
<1>3. This.body \in Seq(Operations)
  BY <1>1, <1>2, FormatsAssumption
<1>4. Aligned(streams) /\ AreFrames(todo, Len(streams)) /\ Len(streams) \in Nat /\ Len(streams) > 0
  BY <1>1, ListIsFunction DEF StreamsInv, Aligned, AreStreams
<1>5. Aligned(streams') /\ Len(streams') = Len(streams) + 1
  <2>1. CASE This.op = "sized"
    <3>1. streams' = Nested(streams, This.mode)
      BY <2>1 DEF WriteSegment
    <3> QED
      BY <1>4, <3>1, NestedAligned
  <2>2. CASE This.op # "sized"
    <3>1. streams' = Append(streams, Stream(SwapOf(This.mode, Top.swap)))
      BY <2>2 DEF WriteSegment
    <3> QED
      BY <1>4, <3>1, PlainAligned
  <2> QED
    BY <2>1, <2>2
<1>6. todo' = Append(Append(Front(todo), Tail(Frame)), This.body)
  BY DEF WriteSegment, Enters
<1>7. AreFrames(Front(todo), Len(streams) - 1) /\ Len(streams) - 1 \in Nat
  BY <1>4, FramesBelow
<1>8. AreFrames(Append(Front(todo), Tail(Frame)), (Len(streams) - 1) + 1)
  BY <1>2, <1>7, OneFrameMore
<1>9. (Len(streams) - 1) + 1 = Len(streams)
  BY <1>4
<1>10. AreFrames(todo', Len(streams'))
  BY <1>3, <1>4, <1>5, <1>6, <1>8, <1>9, OneFrameMore
<1> QED
  BY <1>5, <1>10 DEF StreamsInv, AreFrames, Aligned, AreStreams, Chained, Descending, AtEnds

(* The operator of a segment has come to its end.                               *)
LEMMA FrameEnds ==
  ASSUME StreamsInv, phase = "write", Len(todo) > 1, todo' = Front(todo),
         Aligned(streams'), Len(streams') = Len(streams) - 1
  PROVE  StreamsInv'
<1>1. AreFrames(todo, Len(streams)) /\ Len(streams) \in Nat /\ Len(streams) > 0
  BY ListIsFunction DEF StreamsInv, Aligned, AreStreams
<1>2. AreFrames(todo', Len(streams'))
  BY <1>1, FramesBelow
<1> QED
  BY <1>2 DEF StreamsInv, AreFrames, Aligned, AreStreams, Chained, Descending, AtEnds

LEMMA EndSizedKeeps ==
  ASSUME StreamsInv, EndSized
  PROVE  StreamsInv'
<1>1. /\ phase = "write" /\ Len(todo) > 1 /\ Top.nested
      /\ streams' = WithLength(streams) /\ todo' = Front(todo)
  BY DEF EndSized, Ending
<1>2. Aligned(streams) /\ streams[Len(streams)].nested
  BY <1>1 DEF StreamsInv, Top, Last
<1>3. Aligned(streams') /\ Len(streams') = Len(streams) - 1
  BY <1>1, <1>2, LengthPutBack
<1> QED
  BY <1>1, <1>3, FrameEnds

LEMMA PutIntAligned ==
  ASSUME NEW ss, Aligned(ss), NEW value
  PROVE  Aligned(PutInt(ss, value)) /\ Len(PutInt(ss, value)) = Len(ss)
<1> DEFINE bytes == Bytes("int", value, 4, Last(ss).swap)
<1>1. IsList(bytes)
  <2>1. 4 \in Nat /\ ("int" = "string" => value \in Nat)
    OBVIOUS
  <2> QED
    BY <2>1, BytesAreList
<1> HIDE DEF bytes
<1>2. Aligned(Put(ss, bytes)) /\ Len(Put(ss, bytes)) = Len(ss)
  BY <1>1, PutAtEnd
<1> QED
  BY <1>2 DEF PutInt, bytes

LEMMA EndDeflatedKeeps ==
  ASSUME StreamsInv, EndDeflated
  PROVE  StreamsInv'
<1> DEFINE block == <<Base + Len(blocks)>>
           s0 == Front(streams)
           s1 == PutInt(s0, Len(Top.data))
           s2 == PutInt(s1, 1)
<1>1. /\ phase = "write" /\ Len(todo) > 1 /\ streams' = Put(s2, block) /\ todo' = Front(todo)
  BY DEF EndDeflated, Ending
<1>2. IsList(block)
  BY ListOf
<1>3. Aligned(streams) /\ Len(streams) > 1
  BY <1>1 DEF StreamsInv, AreFrames
<1> HIDE DEF block
<1>4. Aligned(s0) /\ Len(s0) = Len(streams) - 1
  BY <1>3, FrontAligned
<1> HIDE DEF s0
<1>5. Aligned(s1) /\ Len(s1) = Len(s0)
  BY <1>4, PutIntAligned
<1> HIDE DEF s1
<1>6. Aligned(s2) /\ Len(s2) = Len(s1)
  BY <1>5, PutIntAligned
<1> HIDE DEF s2
<1>7. Aligned(Put(s2, block)) /\ Len(Put(s2, block)) = Len(s2)
  BY <1>2, <1>6, PutAtEnd
<1>8. Aligned(streams') /\ Len(streams') = Len(streams) - 1
  BY <1>1, <1>4, <1>5, <1>6, <1>7
<1> QED
  BY <1>1, <1>3, <1>8, FrameEnds

LEMMA ExpandKeeps ==
  ASSUME StreamsInv, Expand
  PROVE  StreamsInv'
<1> DEFINE value == fields[This.name]
           more == CASE This.op = "repeat" -> Times(value - This.less, This.body)
                     [] This.op = "when" /\ value \in This.values -> This.body
                     [] This.op = "unless" /\ value \notin This.values -> This.body
                     [] OTHER -> <<>>
           Often == This.op = "repeat" /\ value - This.less \notin Nat
<1>1. /\ phase \in {"write", "read"} /\ Frame # <<>> /\ This.op \in {"when", "unless", "repeat"}
      /\ IF Often THEN Rejects
         ELSE /\ GoesOn(more \o Tail(Frame))
              /\ UNCHANGED <<phase, format, streams, blocks, fields, written, read, cut>>
  BY DEF Expand
<1>2. CASE Often
  BY <1>1, <1>2 DEF Rejects, StreamsInv
<1>3. CASE ~Often /\ phase = "write"
  <2>1. This \in Operations /\ Tail(Frame) \in Seq(Operations)
    BY <1>1, <1>3, ThisOperation
  <2>2. This.body \in Seq(Operations)
    BY <1>1, <2>1, FormatsAssumption
  <2>3. This.op = "repeat" => Times(value - This.less, This.body) \in Seq(Operations)
    BY <1>3, <2>2, TimesOfOperations
  <2>4. <<>> \in Seq(Operations)
    OBVIOUS
  <2>5. more \in Seq(Operations)
    <3> HIDE DEF value
    <3>1. CASE This.op = "repeat"
      <4>1. more = Times(value - This.less, This.body)
        BY <3>1
      <4> QED
        BY <2>3, <3>1, <4>1
    <3>2. CASE This.op # "repeat"
      <4>1. more = This.body \/ more = <<>>
        BY <3>2
      <4> QED
        BY <2>2, <2>4, <4>1
    <3> QED
      BY <3>1, <3>2
  <2> HIDE DEF more, Often
  <2>6. more \o Tail(Frame) \in Seq(Operations)
    BY <2>1, <2>5
  <2>7. GoesOn(more \o Tail(Frame)) /\ streams' = streams
    BY <1>1, <1>3
  <2>8. AreFrames(todo', Len(streams'))
    BY <1>3, <2>6, <2>7, GoingOn
  <2>9. Aligned(streams')
    BY <1>3, <2>7 DEF StreamsInv
  <2> QED
    BY <2>8, <2>9 DEF StreamsInv, AreFrames, Aligned, AreStreams, Chained, Descending, AtEnds
<1>4. CASE ~Often /\ phase # "write"
  <2> HIDE DEF Often, more
  <2>1. phase' = phase
    BY <1>1, <1>4
  <2> QED
    BY <1>4, <2>1 DEF StreamsInv
<1> QED
  BY <1>2, <1>3, <1>4

(* The byte order of a stream has nothing to do with where it stands.              *)
LEMMA SwapAligned ==
  ASSUME NEW ss, Aligned(ss), NEW swap
  PROVE  LET tt == Append(Front(ss), [Last(ss) EXCEPT !.swap = swap])
         IN  Aligned(tt) /\ Len(tt) = Len(ss)
<1> DEFINE n == Len(ss)
           top == [ss[n] EXCEPT !.swap = swap]
           tt == Append(Front(ss), top)
<1>1. /\ n \in Nat /\ n > 0 /\ DOMAIN ss = 1 .. n /\ IsList(ss)
      /\ AreStreams(ss) /\ Chained(ss) /\ Descending(ss) /\ AtEnds(ss)
  BY ListIsFunction DEF Aligned, AreStreams
<1>2. DOMAIN ss[n] = StreamFields
  BY <1>1 DEF AreStreams
<1>3. /\ DOMAIN top = StreamFields /\ top.data = ss[n].data /\ top.position = ss[n].position
      /\ top.nested = ss[n].nested /\ top.offset = ss[n].offset /\ top.back = ss[n].back
  BY <1>2 DEF StreamFields
<1> HIDE DEF top
<1>4. /\ IsList(Front(ss)) /\ Len(Front(ss)) = n - 1
      /\ \A i \in 1 .. n - 1 : Front(ss)[i] = ss[i]
  BY <1>1, FrontOfList
<1>5. /\ IsList(tt) /\ Len(tt) = (n - 1) + 1 /\ tt[(n - 1) + 1] = top
      /\ \A i \in 1 .. n - 1 : tt[i] = Front(ss)[i]
  BY <1>4, AppendToList
<1> HIDE DEF tt
<1>6. /\ IsList(tt) /\ Len(tt) = n /\ tt[n] = top /\ DOMAIN tt = 1 .. n
  <2>1. (n - 1) + 1 = n
    BY <1>1
  <2>2. IsList(tt) /\ Len(tt) = n /\ tt[n] = top
    BY <1>5, <2>1
  <2> QED
    BY <2>2, ListIsFunction
<1>7. ASSUME NEW i \in 1 .. n
      PROVE  /\ DOMAIN tt[i] = StreamFields /\ tt[i].data = ss[i].data /\ tt[i].position = ss[i].position
             /\ tt[i].nested = ss[i].nested /\ tt[i].offset = ss[i].offset /\ tt[i].back = ss[i].back
  <2>1. CASE i = n
    BY <1>3, <1>6, <2>1
  <2>2. CASE i # n
    <3>1. i \in 1 .. n - 1
      <4> HIDE DEF n
      <4> QED
        BY <1>1, <2>2
    <3>2. tt[i] = ss[i]
      BY <1>4, <1>5, <3>1
    <3> QED
      BY <1>1, <3>2 DEF AreStreams
  <2> QED
    BY <2>1, <2>2
<1>8. AreStreams(tt)
  <2>1. ~tt[1].nested
    BY <1>1, <1>7 DEF AreStreams
  <2>2. ASSUME NEW i \in 1 .. n
        PROVE  /\ DOMAIN tt[i] = StreamFields /\ tt[i].nested \in BOOLEAN
               /\ IsList(tt[i].data)
               /\ tt[i].position \in Int /\ tt[i].offset \in Nat /\ tt[i].back \in Nat
    BY <1>1, <1>7 DEF AreStreams
  <2> QED
    BY <1>1, <1>6, <2>1, <2>2 DEF AreStreams
<1>9. Chained(tt)
  <2> SUFFICES ASSUME NEW i \in 1 .. n, NEW j \in 1 .. n, j = i + 1, tt[j].nested
               PROVE  tt[i].position = tt[j].offset + tt[j].position
    BY <1>6 DEF Chained
  <2>1. ss[i].position = ss[j].offset + ss[j].position
    BY <1>1, <1>7 DEF Chained
  <2> QED
    BY <1>7, <2>1
<1>10. Descending(tt)
  <2> SUFFICES ASSUME NEW i \in 1 .. n, NEW j \in 1 .. n, i <= j,
                      \A k \in i + 1 .. j : tt[k].nested
               PROVE  tt[i].position >= tt[j].position
    BY <1>6 DEF Descending
  <2>1. \A k \in i + 1 .. j : k \in 1 .. n /\ ss[k].nested
    BY <1>1, <1>7
  <2>2. ss[i].position >= ss[j].position
    BY <1>1, <2>1 DEF Descending
  <2> QED
    BY <1>7, <2>2
<1>11. AtEnds(tt)
  BY <1>1, <1>6, <1>7 DEF AtEnds
<1>12. Aligned(tt) /\ Len(tt) = n
  BY <1>6, <1>8, <1>9, <1>10, <1>11 DEF Aligned
<1> QED
  BY <1>12, Zenon DEF tt, top, n, Last

LEMMA ChangeSwapKeeps ==
  ASSUME StreamsInv, ChangeSwap
  PROVE  StreamsInv'
<1>1. CASE phase = "write"
  <2>1. /\ Frame # <<>> /\ GoesOn(Tail(Frame))
        /\ streams' = Append(Front(streams), [Last(streams) EXCEPT !.swap = This.to])
    BY DEF ChangeSwap, Top
  <2>2. Aligned(streams') /\ Len(streams') = Len(streams)
    BY <1>1, <2>1, SwapAligned DEF StreamsInv
  <2>3. Tail(Frame) \in Seq(Operations)
    BY <1>1, <2>1, ThisOperation
  <2>4. AreFrames(todo', Len(streams'))
    BY <1>1, <2>1, <2>2, <2>3, GoingOn
  <2> QED
    BY <2>2, <2>4 DEF StreamsInv, AreFrames, Aligned, AreStreams, Chained, Descending, AtEnds
<1>2. CASE phase # "write"
  BY <1>2 DEF ChangeSwap, StreamsInv
<1> QED
  BY <1>1, <1>2

LEMMA StreamsBegin ==
  ASSUME StreamsInit
  PROVE  StreamsInv
<1>1. PICK swap : streams = <<Stream(swap)>>
  BY DEF StreamsInit
<1>2. IsList(streams) /\ Len(streams) = 1 /\ DOMAIN streams = 1 .. 1 /\ streams[1] = Stream(swap)
  BY <1>1, ListOf, ListIsFunction
<1> DEFINE s == Stream(swap)
<1>3. /\ DOMAIN s = StreamFields /\ s.nested = FALSE /\ s.position = 0 /\ s.data = <<>>
      /\ s.offset = 0 /\ s.back = 0
  BY DEF Stream, StreamFields
<1> HIDE DEF s
<1>4. \A i \in 1 .. 1 : streams[i] = s
  BY <1>2 DEF s
<1>5. AreStreams(streams)
  <2>1. \A i \in DOMAIN streams : streams[i] = s
    BY <1>2, <1>4
  <2>2. /\ DOMAIN s = StreamFields /\ s.nested \in BOOLEAN /\ IsList(s.data)
        /\ s.position \in Int /\ s.offset \in Nat /\ s.back \in Nat
    <3>1. IsList(s.data)
      BY <1>3, EmptyIsList
    <3>2. s.nested \in BOOLEAN
      BY <1>3
    <3> QED
      BY <1>3, <3>1, <3>2
  <2>3. IsList(streams) /\ Len(streams) > 0 /\ ~streams[1].nested
    BY <1>2, <1>3 DEF s
  <2> QED
    BY <2>1, <2>2, <2>3 DEF AreStreams
<1>6. Chained(streams) /\ Descending(streams) /\ AtEnds(streams)
  BY <1>2, <1>3, <1>4, EmptyIsList DEF Chained, Descending, AtEnds
<1>7. AreFrames(todo, 1)
  <2>1. format \in Files /\ todo = <<FormatOf(format, FALSE)>>
    BY DEF StreamsInit
  <2>2. FormatOf(format, FALSE) \in Seq(Operations)
    BY <2>1, FormatsAssumption
  <2>3. IsList(todo) /\ Len(todo) = 1 /\ todo[1] = FormatOf(format, FALSE)
    BY <2>1, ListOf
  <2>4. \A i \in 1 .. 1 : todo[i] \in Seq(Operations)
    <3>1. \A i \in 1 .. 1 : i = 1
      OBVIOUS
    <3> QED
      BY <2>2, <2>3, <3>1
  <2> QED
    BY <2>3, <2>4 DEF AreFrames
<1> QED
  BY <1>2, <1>5, <1>6, <1>7 DEF StreamsInv, Aligned

LEMMA StreamsInvInductive ==
  ASSUME StreamsInv, [StreamsNext]_streamVars
  PROVE  StreamsInv'
<1>1. ASSUME WriteField PROVE StreamsInv'
  BY <1>1, WriteFieldKeeps
<1>2. ASSUME WriteVector PROVE StreamsInv'
  BY <1>2, WriteVectorKeeps
<1>3. ASSUME WriteSegment PROVE StreamsInv'
  BY <1>3, WriteSegmentKeeps
<1>4. ASSUME EndSized PROVE StreamsInv'
  BY <1>4, EndSizedKeeps
<1>5. ASSUME EndDeflated PROVE StreamsInv'
  BY <1>5, EndDeflatedKeeps
<1>6. ASSUME Close PROVE StreamsInv'
  BY <1>6 DEF Close, StreamsInv
<1>7. ASSUME Expand PROVE StreamsInv'
  BY <1>7, ExpandKeeps
<1>8. ASSUME ChangeSwap PROVE StreamsInv'
  BY <1>8, ChangeSwapKeeps
<1>9. ASSUME ReadField PROVE StreamsInv'
  <2>1. phase = "read" /\ (phase' = "threw" \/ phase' = phase)
    BY <1>9 DEF ReadField, Reading, Rejects
  <2> QED
    BY <2>1 DEF StreamsInv
<1>10. ASSUME ReadVector PROVE StreamsInv'
  <2>1. phase = "read" /\ (phase' = "threw" \/ phase' = phase)
    BY <1>10 DEF ReadVector, Reading, Rejects
  <2> QED
    BY <2>1 DEF StreamsInv
<1>11. ASSUME ReadSized PROVE StreamsInv'
  <2>1. phase = "read" /\ (phase' = "threw" \/ phase' = phase)
    BY <1>11 DEF ReadSized, Reading, Rejects, Enter
  <2> QED
    BY <2>1 DEF StreamsInv
<1>12. ASSUME ReadDeflated PROVE StreamsInv'
  <2>1. phase = "read" /\ (phase' = "threw" \/ phase' = phase)
    BY <1>12 DEF ReadDeflated, Reading, Rejects, Enter
  <2> QED
    BY <2>1 DEF StreamsInv
<1>13. ASSUME LeaveSegment PROVE StreamsInv'
  BY <1>13 DEF LeaveSegment, Ending, StreamsInv
<1>14. ASSUME Finish PROVE StreamsInv'
  BY <1>14 DEF Finish, StreamsInv
<1>15. ASSUME UNCHANGED streamVars PROVE StreamsInv'
  BY <1>15 DEF streamVars, StreamsInv, AreFrames, Aligned, AreStreams, Chained, Descending, AtEnds
<1> QED
  BY <1>1, <1>2, <1>3, <1>4, <1>5, <1>6, <1>7, <1>8, <1>9, <1>10, <1>11, <1>12, <1>13, <1>14, <1>15
     DEF StreamsNext

(* While a file is written, a nested stream stands where its target stands, and a    *)
(* stream with data of its own at their end; for any file formats, byte width and     *)
(* depth of segments (OutputSerializationStream, SizedSegment.h, DeflatedSegment.h).  *)
THEOREM StreamsStayAligned == StreamsSpec => []StreamsAligned
<1>1. StreamsInit => StreamsInv
  BY StreamsBegin
<1>2. StreamsInv /\ [StreamsNext]_streamVars => StreamsInv'
  BY StreamsInvInductive
<1>3. StreamsInv => StreamsAligned
  <2> SUFFICES ASSUME StreamsInv, phase = "write", NEW i \in DOMAIN streams
               PROVE  IF streams[i].nested
                      THEN streams[i - 1].position = streams[i].offset + streams[i].position
                      ELSE streams[i].position = Len(streams[i].data)
    BY DEF StreamsAligned
  <2>1. /\ DOMAIN streams = 1 .. Len(streams) /\ Len(streams) \in Nat /\ ~streams[1].nested
        /\ Chained(streams) /\ AtEnds(streams)
    BY ListIsFunction DEF StreamsInv, Aligned, AreStreams
  <2>2. CASE streams[i].nested
    <3>1. i - 1 \in DOMAIN streams /\ i = (i - 1) + 1
      BY <2>1, <2>2
    <3> QED
      BY <2>1, <2>2, <3>1 DEF Chained
  <2>3. CASE ~streams[i].nested
    BY <2>1, <2>3 DEF AtEnds
  <2> QED
    BY <2>2, <2>3
<1> QED
  BY <1>1, <1>2, <1>3, PTL DEF StreamsSpec

-----------------------------------------------------------------------------
(* DatabaseManager.                                                          *)

USE DatabaseAssumption

(* No outcome of a fetch is taken for another.                              *)
LEMMA OutcomesDiffer ==
  /\ \A object \in Object : object # Null /\ object # Thrown /\ object # NoResult
  /\ Null # Thrown /\ Null # NoResult /\ Thrown # NoResult
<1>1. ASSUME NEW object \in Object
      PROVE  "index" \in DOMAIN object
  BY DEF Object
<1>2. "index" \notin DOMAIN Null /\ "index" \notin DOMAIN Thrown /\ "index" \notin DOMAIN NoResult
  BY DEF Null, Thrown, NoResult
<1>3. "null" \in DOMAIN Null /\ "null" \notin DOMAIN Thrown /\ "null" \notin DOMAIN NoResult
  BY DEF Null, Thrown, NoResult
<1>4. "thrown" \in DOMAIN Thrown /\ "thrown" \notin DOMAIN NoResult
  BY DEF Thrown, NoResult
<1> QED
  BY <1>1, <1>2, <1>3, <1>4

(* A table other than table 0 never finds the key of a fetch in the cache:      *)
(* objects are filed under bare indices, which are smaller than its keys.      *)
LEMMA KeysAreNoIndices ==
  ASSUME NEW index \in DefIndices, index # 0, NEW id \in Ids
  PROVE  CacheKey(index, id) \notin DefIndices
<1>1. index >= 1 /\ id >= 0 /\ IdSpace \in Nat
  OBVIOUS
<1>2. index * IdSpace >= IdSpace
  BY <1>1
<1>3. CacheKey(index, id) \in Int /\ CacheKey(index, id) >= IdSpace
  BY <1>1, <1>2 DEF CacheKey
<1>4. \A i \in DefIndices : i \in Int /\ i < IdSpace
  OBVIOUS
<1> QED
  BY <1>1, <1>3, <1>4

-----------------------------------------------------------------------------
CachedOK ==
  \A key \in DOMAIN m_loadedDefs :
     key \in DefIndices /\ m_loadedDefs[key] \in Object \cup {Null}

TableOK(index, table) ==
  /\ table \in [lookup : SUBSET (0 .. IdSpace - 1), data : BOOLEAN, flags : Nat, version : Nat]
  /\ table.lookup \in {{}, Rows[index]}
  /\ table.version \in {0, FileVersion[index]}
  /\ table.flags \in {0, Flags[index]}
  /\ table.version # 0 => table.lookup = Rows[index] /\ table.data

LoadedTo(table) ==
  /\ pc \in {"data", "header", "flags"} => table.lookup = Rows[call.index]
  /\ pc \in {"header", "flags"} => table.data

(* While a table is being loaded, the reads before the one to come have been    *)
(* done: that is why a table which has a version has everything.              *)
TablesOK ==
  /\ m_loadedTables = [index \in DOMAIN m_loadedTables |-> m_loadedTables[index]]
  /\ DOMAIN m_loadedTables \subseteq DefIndices
  /\ \A index \in DOMAIN m_loadedTables : TableOK(index, m_loadedTables[index])
  /\ pc # "idle" => LoadedTo(m_loadedTables[call.index])

CallOK ==
  /\ pc \in {"idle", "index", "data", "header", "flags", "version"}
  /\ pc # "idle" => call \in Object /\ call.index \in DOMAIN m_loadedTables

ResultOK == result \in Object \cup {Null, Thrown, NoResult}

(* What a step of the load will do, or has failed to do: a table has its rows       *)
(* unless its index is being read or was lost; a table whose data were read has its   *)
(* version unless the header is being read or is not there.                          *)
IsAt(index, at) == pc = at /\ call.index = index

LoadsOK ==
  /\ lost \subseteq DOMAIN m_loadedTables
  /\ \A index \in DOMAIN m_loadedTables :
       /\ \/ m_loadedTables[index].lookup = Rows[index]
          \/ index \in lost \/ IsAt(index, "index")
       /\ m_loadedTables[index].data /\ index \in HasHeader =>
            \/ m_loadedTables[index].version = FileVersion[index]
            \/ IsAt(index, "header")

TypeInv == CachedOK /\ TablesOK /\ CallOK /\ ResultOK /\ LoadsOK

LEMMA CachedKept == ASSUME CachedOK, CallOK, [Next]_vars PROVE CachedOK'
<1>1. CASE ReadRow
  <2>1. call \in Object /\ call.index \in DefIndices
    BY <1>1 DEF ReadRow, CallOK, Object
  <2>2. PICK object \in {call, Null} : Store(object)
    BY <1>1 DEF ReadRow
  <2> QED
    BY <2>1, <2>2 DEF Store, StoreKey, CachedOK
<1>2. CASE Clear
  BY <1>2 DEF Clear, CachedOK
<1>3. CASE UNCHANGED m_loadedDefs
  BY <1>3 DEF CachedOK
<1> QED
  BY <1>1, <1>2, <1>3 DEF Next, Fetch, LoadIndex, LoadData, LoadHeader, Loads, LoadFails,
     CheckFlags, UnsupportedVersion, RowFails, vars

LEMMA CallKept == ASSUME CallOK, TablesOK, [Next]_vars PROVE CallOK'
<1>1. ASSUME NEW index \in DefIndices, NEW id \in Ids, Fetch(index, id) PROVE CallOK'
  BY <1>1 DEF Fetch, CallOK, Object
<1>2. CASE LoadIndex \/ LoadData \/ LoadHeader
  BY <1>2 DEF LoadIndex, LoadData, LoadHeader, Loads, CallOK
<1>3. CASE LoadFails \/ CheckFlags \/ UnsupportedVersion \/ ReadRow \/ RowFails \/ Clear
  BY <1>3 DEF LoadFails, CheckFlags, UnsupportedVersion, ReadRow, RowFails, Clear, Ends, CallOK
<1>4. CASE UNCHANGED vars
  BY <1>4 DEF vars, CallOK
<1> QED
  BY <1>1, <1>2, <1>3, <1>4 DEF Next

LEMMA ResultKept == ASSUME CachedOK, CallOK, ResultOK, [Next]_vars PROVE ResultOK'
<1>1. ASSUME NEW index \in DefIndices, NEW id \in Ids, Fetch(index, id) PROVE ResultOK'
  BY <1>1 DEF Fetch, CachedOK, ResultOK
<1>2. CASE ReadRow
  BY <1>2 DEF ReadRow, Ends, CallOK, ResultOK
<1>3. result' \in {result, Thrown, NoResult} => ResultOK'
  BY DEF ResultOK
<1> QED
  BY <1>1, <1>2, <1>3 DEF Next, LoadIndex, LoadData, LoadHeader, Loads, LoadFails,
     CheckFlags, UnsupportedVersion, RowFails, Clear, Ends, vars

(* A step that loads one part of a table leaves the other tables alone.       *)
LEMMA LoadsKeepsTables ==
  ASSUME TablesOK, CallOK, pc # "idle", pc' # "idle", call' = call,
         m_loadedTables' = [m_loadedTables EXCEPT ![call.index] = m_loadedTables'[call.index]],
         TableOK(call.index, m_loadedTables'[call.index]),
         LoadedTo(m_loadedTables[call.index])'
  PROVE  TablesOK'
<1>1. call.index \in DOMAIN m_loadedTables
  BY DEF CallOK
<1>2. /\ DOMAIN m_loadedTables' = DOMAIN m_loadedTables
      /\ \A index \in DOMAIN m_loadedTables :
            index # call.index => m_loadedTables'[index] = m_loadedTables[index]
  BY <1>1 DEF TablesOK
<1>3. m_loadedTables' = [index \in DOMAIN m_loadedTables' |-> m_loadedTables'[index]]
  BY <1>2
<1>4. \A index \in DOMAIN m_loadedTables' : TableOK(index, m_loadedTables'[index])
  BY <1>2 DEF TablesOK
<1> QED
  BY <1>2, <1>3, <1>4 DEF TablesOK, TableOK

LEMMA TablesKept == ASSUME TypeInv, [Next]_vars PROVE TablesOK'
<1> USE DEF TypeInv
<1>1. ASSUME NEW index \in DefIndices, NEW id \in Ids, Fetch(index, id) PROVE TablesOK'
  <2>1. CASE UNCHANGED m_loadedTables
    <3>1. pc' \in {"idle", "version"}
      BY <1>1, <2>1 DEF Fetch, TablesOK
    <3> QED
      BY <2>1, <3>1 DEF TablesOK, LoadedTo, TableOK
  <2>2. CASE /\ index \notin DOMAIN m_loadedTables /\ pc' = "index"
             /\ m_loadedTables' = [i \in DOMAIN m_loadedTables \cup {index} |->
                                     IF i = index THEN EmptyTable ELSE m_loadedTables[i]]
    <3>1. TableOK(index, EmptyTable)
      BY DEF TableOK, EmptyTable
    <3>2. \A i \in DOMAIN m_loadedTables' : TableOK(i, m_loadedTables'[i])
      BY <2>2, <3>1 DEF TablesOK
    <3>3. DOMAIN m_loadedTables' \subseteq DefIndices
      BY <2>2 DEF TablesOK
    <3>4. m_loadedTables' = [i \in DOMAIN m_loadedTables' |-> m_loadedTables'[i]]
      BY <2>2
    <3>5. LoadedTo(m_loadedTables[call.index])'
      BY <2>2 DEF LoadedTo
    <3> QED
      BY <3>2, <3>3, <3>4, <3>5 DEF TablesOK, TableOK
  <2> QED
    BY <1>1, <2>1, <2>2 DEF Fetch
<1> DEFINE table == m_loadedTables[call.index]
<1>2. ASSUME pc # "idle"
      PROVE  /\ call.index \in DefIndices /\ call.index \in DOMAIN m_loadedTables
             /\ TableOK(call.index, table) /\ LoadedTo(table)
  BY <1>2 DEF CallOK, TablesOK, Object
<1>3. CASE LoadIndex
  <2> DEFINE new == [table EXCEPT !.lookup = Rows[call.index]]
  <2>1. /\ pc = "index" /\ pc' = "data" /\ call' = call
        /\ m_loadedTables' = [m_loadedTables EXCEPT ![call.index] = new]
    BY <1>3 DEF LoadIndex, Loads
  <2>2. m_loadedTables'[call.index] = new
    BY <1>2, <2>1 DEF TablesOK
  <2>3. TableOK(call.index, new)
    BY <1>2, <2>1 DEF TableOK, LoadedTo
  <2>4. new.lookup = Rows[call.index] /\ ("data" \in {"header", "flags"} => new.data)
    BY <1>2, <2>1 DEF TableOK, LoadedTo
  <2>5. LoadedTo(m_loadedTables[call.index])'
    BY <2>1, <2>2, <2>4 DEF LoadedTo
  <2> QED
    BY <2>1, <2>2, <2>3, <2>5, LoadsKeepsTables
<1>4. CASE LoadData
  <2> DEFINE new == [table EXCEPT !.data = TRUE]
  <2>1. /\ pc = "data" /\ pc' = "header" /\ call' = call
        /\ m_loadedTables' = [m_loadedTables EXCEPT ![call.index] = new]
    BY <1>4 DEF LoadData, Loads
  <2>2. m_loadedTables'[call.index] = new
    BY <1>2, <2>1 DEF TablesOK
  <2>3. TableOK(call.index, new)
    BY <1>2, <2>1 DEF TableOK, LoadedTo
  <2>4. new.lookup = Rows[call.index] /\ ("header" \in {"header", "flags"} => new.data)
    BY <1>2, <2>1 DEF TableOK, LoadedTo
  <2>5. LoadedTo(m_loadedTables[call.index])'
    BY <2>1, <2>2, <2>4 DEF LoadedTo
  <2> QED
    BY <2>1, <2>2, <2>3, <2>5, LoadsKeepsTables
<1>5. CASE LoadHeader
  <2> DEFINE new == [table EXCEPT !.flags = Flags[call.index],
                                !.version = FileVersion[call.index]]
  <2>1. /\ pc = "header" /\ pc' = "flags" /\ call' = call
        /\ m_loadedTables' = [m_loadedTables EXCEPT ![call.index] = new]
    BY <1>5 DEF LoadHeader, Loads
  <2>2. m_loadedTables'[call.index] = new
    BY <1>2, <2>1 DEF TablesOK
  <2>3. TableOK(call.index, new)
    BY <1>2, <2>1 DEF TableOK, LoadedTo
  <2>4. new.lookup = Rows[call.index] /\ ("flags" \in {"header", "flags"} => new.data)
    BY <1>2, <2>1 DEF TableOK, LoadedTo
  <2>5. LoadedTo(m_loadedTables[call.index])'
    BY <2>1, <2>2, <2>4 DEF LoadedTo
  <2> QED
    BY <2>1, <2>2, <2>3, <2>5, LoadsKeepsTables
<1>6. CASE LoadFails \/ CheckFlags \/ UnsupportedVersion \/ ReadRow \/ RowFails \/ Clear
  <2>1. UNCHANGED m_loadedTables /\ pc' \in {"idle", "version"} /\ (pc' # "idle" => call' = call)
    BY <1>6 DEF LoadFails, CheckFlags, UnsupportedVersion, ReadRow, RowFails, Clear, Ends
  <2> QED
    BY <2>1 DEF TablesOK, LoadedTo, TableOK
<1>7. CASE UNCHANGED vars
  BY <1>7 DEF vars, TablesOK, LoadedTo, TableOK
<1> QED
  BY <1>1, <1>3, <1>4, <1>5, <1>6, <1>7 DEF Next

LEMMA LoadsKept == ASSUME TypeInv, [Next]_vars PROVE LoadsOK'
<1> USE DEF TypeInv
<1> DEFINE HasRows(index, table) == table.lookup = Rows[index]
           Versioned(index, table) ==
             table.data /\ index \in HasHeader => table.version = FileVersion[index]
<1>0. ASSUME NEW index \in DOMAIN m_loadedTables
      PROVE  /\ HasRows(index, m_loadedTables[index]) \/ index \in lost \/ IsAt(index, "index")
             /\ Versioned(index, m_loadedTables[index]) \/ IsAt(index, "header")
  BY DEF LoadsOK
<1>1. ASSUME NEW index \in DefIndices, NEW id \in Ids, Fetch(index, id) PROVE LoadsOK'
  <2>1. lost' = lost /\ pc = "idle"
    BY <1>1 DEF Fetch
  <2>2. CASE UNCHANGED m_loadedTables
    BY <2>1, <2>2 DEF LoadsOK, IsAt
  <2>3. CASE /\ index \notin DOMAIN m_loadedTables /\ pc' = "index"
             /\ m_loadedTables' = [i \in DOMAIN m_loadedTables \cup {index} |->
                                     IF i = index THEN EmptyTable ELSE m_loadedTables[i]]
    <3>1. call'.index = index
      BY <1>1 DEF Fetch
    <3>2. ~EmptyTable.data
      BY DEF EmptyTable
    <3>3. /\ DOMAIN m_loadedTables' = DOMAIN m_loadedTables \cup {index}
          /\ m_loadedTables'[index] = EmptyTable
          /\ \A i \in DOMAIN m_loadedTables : m_loadedTables'[i] = m_loadedTables[i]
      BY <2>3
    <3> HIDE DEF EmptyTable
    <3> QED
      BY <2>1, <2>3, <3>1, <3>2, <3>3 DEF LoadsOK, IsAt
  <2> QED
    BY <1>1, <2>2, <2>3 DEF Fetch
<1>2. ASSUME pc # "idle"
      PROVE  /\ call.index \in DOMAIN m_loadedTables
             /\ TableOK(call.index, m_loadedTables[call.index])
  BY <1>2 DEF CallOK, TablesOK
<1>3. ASSUME NEW from, NEW to, NEW table, Loads(from, to, table), pc # "idle"
      PROVE  /\ pc = from /\ pc' = to /\ call' = call /\ lost' = lost
             /\ DOMAIN m_loadedTables' = DOMAIN m_loadedTables
             /\ m_loadedTables'[call.index] = table
             /\ \A i \in DOMAIN m_loadedTables :
                  i # call.index => m_loadedTables'[i] = m_loadedTables[i]
  BY <1>2, <1>3 DEF Loads, TablesOK
<1>4. CASE LoadIndex
  <2> DEFINE new == [m_loadedTables[call.index] EXCEPT !.lookup = Rows[call.index]]
  <2>1. Loads("index", "data", new) /\ pc # "idle"
    BY <1>4 DEF LoadIndex, Loads
  <2>2. new.lookup = Rows[call.index] /\ new.data = m_loadedTables[call.index].data
        /\ new.version = m_loadedTables[call.index].version
    BY <1>2, <2>1 DEF TableOK
  <2> HIDE DEF new
  <2> QED
    BY <1>0, <1>2, <1>3, <2>1, <2>2 DEF LoadsOK, IsAt
<1>5. CASE LoadData
  <2> DEFINE new == [m_loadedTables[call.index] EXCEPT !.data = TRUE]
  <2>1. Loads("data", "header", new) /\ pc # "idle"
    BY <1>5 DEF LoadData, Loads
  <2>2. new.lookup = m_loadedTables[call.index].lookup
    BY <1>2, <2>1 DEF TableOK
  <2> HIDE DEF new
  <2> QED
    BY <1>0, <1>2, <1>3, <2>1, <2>2 DEF LoadsOK, IsAt
<1>6. CASE LoadHeader
  <2> DEFINE new == [m_loadedTables[call.index] EXCEPT !.flags = Flags[call.index],
                                !.version = FileVersion[call.index]]
  <2>1. Loads("header", "flags", new) /\ pc # "idle"
    BY <1>6 DEF LoadHeader, Loads
  <2>2. /\ new.lookup = m_loadedTables[call.index].lookup
        /\ new.version = FileVersion[call.index]
    BY <1>2, <2>1 DEF TableOK
  <2> HIDE DEF new
  <2> QED
    BY <1>0, <1>2, <1>3, <2>1, <2>2 DEF LoadsOK, IsAt
<1>7. CASE LoadFails
  <2>1. /\ UNCHANGED m_loadedTables /\ pc' = "idle"
        /\ lost' = IF pc = "index" THEN lost \cup {call.index} ELSE lost
        /\ pc \in {"index", "data"} \/ (pc = "header" /\ call.index \notin HasHeader)
    BY <1>7 DEF LoadFails, Ends
  <2>2. call.index \in DOMAIN m_loadedTables
    BY <1>2, <2>1
  <2> QED
    BY <1>0, <2>1, <2>2 DEF LoadsOK, IsAt
<1>8. CASE CheckFlags \/ UnsupportedVersion \/ ReadRow \/ RowFails \/ Clear
  <2>1. UNCHANGED <<m_loadedTables, lost>> /\ pc \notin {"index", "header"}
    BY <1>8 DEF CheckFlags, UnsupportedVersion, ReadRow, RowFails, Clear, Ends
  <2> QED
    BY <2>1 DEF LoadsOK, IsAt
<1>9. CASE UNCHANGED vars
  BY <1>9 DEF vars, LoadsOK, IsAt
<1> QED
  BY <1>1, <1>4, <1>5, <1>6, <1>7, <1>8, <1>9 DEF Next

LEMMA TypeInvKept == ASSUME TypeInv, [Next]_vars PROVE TypeInv'
  BY CachedKept, CallKept, ResultKept, TablesKept, LoadsKept DEF TypeInv

LEMMA TypeInvInit == ASSUME Init PROVE TypeInv
<1>1. DOMAIN m_loadedDefs = {} /\ DOMAIN m_loadedTables = {}
  BY DEF Init
<1>2. m_loadedTables = [index \in DOMAIN m_loadedTables |-> m_loadedTables[index]]
  BY <1>1 DEF Init
<1> QED
  BY <1>1, <1>2 DEF Init, TypeInv, CachedOK, TablesOK, CallOK, ResultOK, LoadsOK

(* The cache holds objects and null pointers of tables, under their indices,    *)
(* and a LoadedTable that has a version has its index and its data, whichever   *)
(* reads failed when it was loaded.                                          *)
THEOREM TypeCorrect == Spec => []TypeOK
<1>1. Init => TypeInv
  BY TypeInvInit
<1>2. TypeInv /\ [Next]_vars => TypeInv'
  BY TypeInvKept
<1>3. TypeInv => TypeOK
  BY DEF TypeInv, TypeOK, CachedOK, TablesOK, TableOK, CallOK, ResultOK, LoadsOK
<1> QED
  BY <1>1, <1>2, <1>3, PTL DEF Spec

-----------------------------------------------------------------------------
(* What a fetch that passes the version check reads.  A table that has a version   *)
(* is complete; a half-loaded one passes as one of version 0, and has its rows unless  *)
(* its index was lost, or no data to read a row from.                                *)
LEMMA ReadRowFinds ==
  ASSUME TypeInv, ReadRow
  PROVE  /\ result' \in {call, Null} /\ call' = call /\ call \in Object
         /\ result' = Null => call.id \notin Rows[call.index] \/ LooksLoaded(call.index)'
         /\ result' # Null => FileVersion[call.index] = DefVersion[call.index]
<1>1. /\ pc = "version" /\ VersionMatches /\ call' = call /\ lost' = lost
      /\ result' = IF call.id \in m_loadedTables[call.index].lookup THEN call ELSE Null
      /\ call.id \in m_loadedTables[call.index].lookup => DataHasRows
  BY DEF ReadRow, Ends
<1>2. call \in Object /\ call.index \in DefIndices /\ call.index \in DOMAIN m_loadedTables
  BY <1>1 DEF TypeInv, CallOK, Object
<1>3. TableOK(call.index, m_loadedTables[call.index])
  BY <1>2 DEF TypeInv, TablesOK
<1>4. /\ m_loadedTables[call.index].lookup = Rows[call.index] \/ call.index \in lost
      /\ m_loadedTables[call.index].data /\ call.index \in HasHeader =>
           m_loadedTables[call.index].version = FileVersion[call.index]
  BY <1>1, <1>2 DEF TypeInv, LoadsOK, IsAt
<1>5. call # Null
  BY <1>2, OutcomesDiffer
<1>6. ASSUME result' = Null, call.id \in Rows[call.index] PROVE LooksLoaded(call.index)'
  <2>1. m_loadedTables[call.index].lookup # Rows[call.index]
    BY <1>1, <1>5, <1>6
  <2>2. m_loadedTables[call.index].version = 0 /\ call.index \in lost
    BY <1>3, <1>4, <2>1 DEF TableOK
  <2> QED
    BY <1>1, <2>2 DEF VersionMatches, LooksLoaded
<1>7. ASSUME result' # Null PROVE FileVersion[call.index] = DefVersion[call.index]
  <2>1. DataHasRows
    BY <1>1, <1>7
  <2> QED
    BY <1>1, <1>4, <2>1 DEF DataHasRows, VersionMatches
<1> QED
  BY <1>1, <1>2, <1>6, <1>7

Unfinished == result' \in {Thrown, NoResult}

(* Every other step of fetch but a cache hit leaves no result or throws.      *)
LEMMA OtherOutcomes ==
  ASSUME TypeInv, [Next]_vars, ~ReadRow,
         ~\E index \in DefIndices, id \in Ids : Fetch(index, id)
  PROVE  Unfinished \/ UNCHANGED <<pc, result, call, lost>> \/ pc' # "idle"
  BY DEF Unfinished, Next, LoadIndex, LoadData, LoadHeader, Loads, LoadFails, CheckFlags,
         UnsupportedVersion, RowFails, Clear, Ends, vars

(* A fetch from any table but table 0 ends in the row asked for, in a null      *)
(* pointer only if there is no such row, or by throwing, whatever loads failed    *)
(* before; except that rows look absent in a table that was compiled for version *)
(* 0 and whose index was lost.                                               *)
THEOREM FetchExact == Spec => []FetchIsExact
<1>1. Init => FetchIsExact
  BY DEF Init, FetchIsExact, Finished
<1>2. TypeInv /\ FetchIsExact /\ [Next]_vars => FetchIsExact'
  <2> SUFFICES ASSUME TypeInv, FetchIsExact, [Next]_vars PROVE FetchIsExact'
    OBVIOUS
  <2> USE DEF FetchIsExact, Finished, FetchReturnsRequested, NullMeansAbsent
  <2>1. ASSUME NEW index \in DefIndices, NEW id \in Ids, Fetch(index, id)
        PROVE  FetchIsExact'
    <3>1. call' = [index |-> index, id |-> id]
      BY <2>1 DEF Fetch
    <3>2. CASE id = 0
      <4>1. result' = Null
        BY <2>1, <3>2 DEF Fetch
      <4> QED
        BY <3>1, <3>2, <4>1
    <3>3. CASE id # 0 /\ index # 0
      <4>1. CacheKey(index, id) \notin DOMAIN m_loadedDefs
        BY <3>3, KeysAreNoIndices DEF TypeInv, CachedOK
      <4>2. result' = NoResult
        BY <2>1, <3>3, <4>1 DEF Fetch
      <4> QED
        BY <4>2
    <3>4. CASE index = 0
      BY <3>1, <3>4
    <3> QED
      BY <3>2, <3>3, <3>4
  <2>2. CASE ReadRow
    BY <2>2, ReadRowFinds
  <2>3. CASE Unfinished \/ pc' # "idle"
    BY <2>3 DEF Unfinished
  <2>4. CASE UNCHANGED <<pc, result, call, lost>>
    BY <2>4 DEF LooksLoaded
  <2> QED
    BY <2>1, <2>2, <2>3, <2>4, OtherOutcomes
<1> QED
  BY <1>1, <1>2, TypeInvInit, TypeInvKept, PTL DEF Spec

(* An object that was made from a row is of a table of its DefType's version.  *)
Supported(object) == object # Null => FileVersion[object.index] = DefVersion[object.index]
VersionInv ==
  /\ \A key \in DOMAIN m_loadedDefs : Supported(m_loadedDefs[key])
  /\ OnlySupportedVersions

(* No row is ever handed out from a table of another version than its DefType   *)
(* was compiled for, from the files or from the cache, version 0 and half-loaded  *)
(* tables included: those have no row that can be read.                        *)
THEOREM VersionsSupported == Spec => []OnlySupportedVersions
<1>1. Init => VersionInv
  BY DEF Init, VersionInv, OnlySupportedVersions, Finished
<1>2. TypeInv /\ VersionInv /\ [Next]_vars => VersionInv'
  <2> SUFFICES ASSUME TypeInv, VersionInv, [Next]_vars PROVE VersionInv'
    OBVIOUS
  <2> USE DEF VersionInv, OnlySupportedVersions, Finished
  <2>1. ASSUME NEW index \in DefIndices, NEW id \in Ids, Fetch(index, id)
        PROVE  VersionInv'
    <3>1. m_loadedDefs' = m_loadedDefs
      BY <2>1 DEF Fetch
    <3>2. \/ result' \in {Null, NoResult}
          \/ \E key \in DOMAIN m_loadedDefs : result' = m_loadedDefs[key]
      BY <2>1 DEF Fetch
    <3> QED
      BY <3>1, <3>2 DEF Supported
  <2>2. CASE ReadRow
    <3>1. PICK object \in {call, Null} :
            /\ result' = object /\ Store(object)
            /\ object # Null => FileVersion[call.index] = DefVersion[call.index]
      <4>1. PICK object \in {call, Null} : result' = object /\ Store(object)
        BY <2>2 DEF ReadRow, Ends
      <4> QED
        BY <2>2, <4>1, ReadRowFinds
    <3>2. \A key \in DOMAIN m_loadedDefs' :
             \/ key \in DOMAIN m_loadedDefs /\ m_loadedDefs'[key] = m_loadedDefs[key]
             \/ m_loadedDefs'[key] = object
      BY <3>1 DEF Store, StoreKey
    <3> QED
      BY <3>1, <3>2 DEF Supported
  <2>3. CASE Clear
    BY <2>3 DEF Clear
  <2>4. ASSUME ~ReadRow, ~Clear, ~\E index \in DefIndices, id \in Ids : Fetch(index, id)
        PROVE  VersionInv'
    <3>1. m_loadedDefs' = m_loadedDefs
      BY <2>4 DEF Next, LoadIndex, LoadData, LoadHeader, Loads, LoadFails, CheckFlags,
                  UnsupportedVersion, RowFails, vars
    <3>2. CASE Unfinished \/ pc' # "idle"
      BY <3>1, <3>2 DEF Unfinished
    <3>3. CASE UNCHANGED <<pc, result, call, lost>>
      BY <3>1, <3>3
    <3> QED
      BY <2>4, <3>2, <3>3, OtherOutcomes
  <2> QED
    BY <2>1, <2>2, <2>3, <2>4
<1>3. VersionInv => OnlySupportedVersions
  BY DEF VersionInv
<1> QED
  BY <1>1, <1>2, <1>3, TypeInvInit, TypeInvKept, PTL DEF Spec
=============================================================================
