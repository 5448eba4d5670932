----------------------------- MODULE DefCompiler -----------------------------
(***************************************************************************)
(* ESODefCompiler: from the structs, defs, enums and def aliases of a          *)
(* directory of directives to C++ types.  Types whose name holds an underscore *)
(* are nested into the type named before it; uses between types become edges   *)
(* between types of one scope; and types are written depth first, after what    *)
(* their edges lead to.                                                       *)
(*                                                                         *)
(* A name is the sequence of its parts, as '_' splits them.  A key of          *)
(* Type::nestedTypes, or of m_types, is itself a name: m_types is filled with   *)
(* whole names, nestTypes files a type under its last part.  Of a directive     *)
(* only the names of the types it uses are modelled, and how: "value" for a     *)
(* field (or an array) of an Enum, Struct or PolymorphicReference, "key" for a   *)
(* ForeignKey, "base" for a base class.  Of the text that is written, the        *)
(* headings and trailers of types and the names within them are modelled.       *)
(* The order of names in a std::map is left open, save that a name comes        *)
(* before those it is a prefix of.                                            *)
(***************************************************************************)
EXTENDS Naturals, SequencesExt

CONSTANTS Part,        \* the parts of names
          Inputs,      \* the sets of directives to compile
          BaseDef,     \* the name "BaseDef"
          StackLimit   \* how deep generateType can call itself

Kinds == {"struct", "def", "enum", "alias"}
Uses == {"value", "key", "base"}

Name == Seq(Part) \ {<<>>}

ASSUME DefCompilerAssumption ==
  /\ StackLimit \in Nat
  /\ BaseDef \in Name /\ Len(BaseDef) = 1
  /\ \A directives \in Inputs :
       /\ IsFiniteSet(directives)
       /\ \A d \in directives :
            /\ d.name \in Name /\ d.kind \in Kinds
            /\ \A u \in d.uses : u.by \in Uses /\ u.type \in Name

VARIABLES pc,         \* the pass that runs
          unread,     \* directives not inserted yet
          types,      \* m_types and all nestedTypes: path to directive
          renames,    \* m_renames: the whole name of a nested type to its path
          edges,      \* m_rootDependencies and all Type::dependencies
          stack,      \* the calls of generateType, from generateTypes(m_types)
          visited,    \* visitedTypes and visitedNesteds
          written,    \* what the header holds so far
          input       \* history: the directives compiled

tree == <<types, renames, edges>>
output == <<stack, visited, written>>
vars == <<pc, unread, tree, output, input>>

-----------------------------------------------------------------------------
(* Paths: the root is <<>>; a root type is at <<name>>.                       *)

Children(scope) == {p \in DOMAIN types : p # <<>> /\ Front(p) = scope}

\* Types left in m_types that are to be nested.
ToNest == {p \in Children(<<>>) : Len(p[1]) > 1}

\* Mutant of NextToNest: m_types is an unordered_map.
AnyToNest(p) == p \in ToNest
\* A std::map is iterated in the order of its names: a prefix comes first.
NextToNest(p) == ~\E q \in ToNest : IsStrictPrefix(q[1], p[1])

\* Where findTypeByName looks for a name.
PathOf(name) == IF name \in DOMAIN renames THEN renames[name] ELSE <<name>>
Found(name) == PathOf(name) \in DOMAIN types

\* Type::nestedTypes moves with its type.
Moved(p, new) ==
  LET Target(q) == IF IsPrefix(p, q) THEN new \o SubSeq(q, Len(p) + 1, Len(q)) ELSE q
      Old(q) == CHOOSE r \in DOMAIN types : Target(r) = q
  IN  [q \in {Target(r) : r \in DOMAIN types} |-> types[Old(q)]]

\* The calls of addDependencyToType for a type: a foreign key makes none.
Dependencies(d) ==
  {u.type : u \in {v \in d.uses : v.by # "key"}}
    \cup (IF d.kind = "def" THEN {BaseDef} ELSE {})

\* A dependency of the type at path p on that at path q.
Common(p, q) == Len(LongestCommonPrefix({p, q}))
UsesOuter(p, q) == Common(p, q) = Len(q) /\ q # p
\* Mutant of Edge: the edge joins the outermost types only.
RootEdge(p, q) ==
  IF p[1] = q[1] THEN {}
  ELSE {[scope |-> <<>>, from |-> SubSeq(p, 1, 1), to |-> SubSeq(q, 1, 1)]}
Edge(p, q) ==
  LET n == Common(p, q) IN
  IF n = Len(p) THEN {}
  ELSE {[scope |-> SubSeq(p, 1, n), from |-> SubSeq(p, 1, n + 1),
         to |-> SubSeq(q, 1, n + 1)]}

\* Mutant of CxxName: the name within its scope alone.
ShortName(name) == <<Last(PathOf(name))>>
\* What a field or a heading writes for the type called name: getCxxNameFor.
CxxName(name) == PathOf(name)

Says(d, uses) == {[by |-> u.by, type |-> u.type, as |-> CxxName(u.type)] :
                    u \in {v \in d.uses : v.by \in uses}}
\* A def names its base by itself: "public BaseDef".
Heading(d) ==
  Says(d, {"base"}) \cup
    (IF d.kind = "def" THEN {[by |-> "base", type |-> BaseDef, as |-> <<BaseDef>>]} ELSE {})
Trailer(d) == Says(d, {"value", "key"})

-----------------------------------------------------------------------------
Init ==
  /\ pc = "insert"
  /\ input \in Inputs
  /\ unread = input
  /\ types = <<>>
  /\ renames = <<>>
  /\ edges = {}
  /\ stack = <<>>
  /\ visited = {}
  /\ written = <<>>

\* What emplace makes of a map: a key that is there keeps its value.
Emplaced(map, key, value) ==
  [k \in DOMAIN map \cup {key} |-> IF k \in DOMAIN map THEN map[k] ELSE value]

Fails == pc' = "failed" /\ UNCHANGED <<unread, tree, output, input>>

\* insertTypes: a name may be given once.
Insert ==
  /\ pc = "insert"
  /\ \E d \in unread :
       /\ <<d.name>> \notin DOMAIN types
       /\ types' = Emplaced(types, <<d.name>>, d)
       /\ unread' = unread \ {d}
  /\ UNCHANGED <<pc, renames, edges, output, input>>

InsertDuplicate ==
  /\ pc = "insert"
  /\ \E d \in unread : <<d.name>> \in DOMAIN types
  /\ Fails

InsertsDone ==
  /\ pc = "insert"
  /\ unread = {}
  /\ pc' = "nest"
  /\ UNCHANGED <<unread, tree, output, input>>

\* One round of the loop of nestTypes that moves a type.
Nest ==
  /\ pc = "nest"
  /\ \E p \in ToNest :
       LET name == p[1]
           path == Append(PathOf(Front(name)), <<Last(name)>>)
       IN  /\ NextToNest(p)
           /\ Found(Front(name))
           /\ renames' = Emplaced(renames, name, path)
           /\ types' = Moved(p, path)
  /\ UNCHANGED <<pc, unread, edges, output, input>>

NestOrphan ==
  /\ pc = "nest"
  /\ \E p \in ToNest : NextToNest(p) /\ ~Found(Front(p[1]))
  /\ Fails

NestsDone ==
  /\ pc = "nest"
  /\ ToNest = {}
  /\ pc' = "depend"
  /\ UNCHANGED <<unread, tree, output, input>>

\* processCollectionDependencies, over all types: the first bad one throws.
AddDependencies ==
  /\ pc = "depend"
  /\ \A p \in DOMAIN types : \A name \in Dependencies(types[p]) :
       Found(name) /\ ~UsesOuter(p, PathOf(name))
  /\ edges' = UNION {UNION {Edge(p, PathOf(name)) : name \in Dependencies(types[p])} :
                       p \in DOMAIN types}
  /\ pc' = "declare"
  /\ UNCHANGED <<unread, types, renames, output, input>>

BadDependency ==
  /\ pc = "depend"
  /\ \E p \in DOMAIN types : \E name \in Dependencies(types[p]) :
       ~Found(name) \/ UsesOuter(p, PathOf(name))
  /\ Fails

-----------------------------------------------------------------------------
(* A call of generateType is in its loop over the dependencies of the type, or *)
(* in generateTypes for its nested types; the call at the bottom of the stack   *)
(* is generateTypes(m_types).                                                 *)

Top == stack[Len(stack)]
InDependencies == pc = "generate" /\ Top.part = "dependencies"
InBody == pc = "generate" /\ Top.part = "body"

Call(p) == [type |-> p, part |-> "dependencies",
            left |-> {e.to : e \in {f \in edges : f.from = p}}]
Body(p) == [type |-> p, part |-> "body", left |-> Children(p)]

\* Calls generateType for a type that the top call has left.
Calls ==
  \E p \in Top.left :
    /\ Len(stack) < StackLimit
    /\ stack' = Append([stack EXCEPT ![Len(stack)].left = @ \ {p}], Call(p))
    /\ UNCHANGED <<pc, visited, written>>

Overflows ==
  /\ Top.left # {}
  /\ Len(stack) >= StackLimit
  /\ pc' = "crashed"
  /\ UNCHANGED output

\* generateForwardDeclarations: the defs and aliases of the root.
Declares(d) == d.kind \in {"def", "alias"}

ForwardDeclare ==
  /\ pc = "declare"
  /\ written' = SetToSeq({[do |-> "declare", type |-> p, says |-> {}] :
                            p \in {q \in Children(<<>>) : Declares(types[q])}})
  /\ stack' = <<Body(<<>>)>>
  /\ pc' = "generate"
  /\ UNCHANGED <<unread, tree, visited, input>>

CallDependency ==
  /\ InDependencies
  /\ Calls \/ Overflows
  /\ UNCHANGED <<unread, tree, input>>

\* Mutant of Skips: visitedNesteds is not consulted.
SkipsRoot(p) == p \in visited /\ Len(p) = 1
\* The early return for a type that has been written, or is being written.
Skips(p) == p \in visited

Revisit ==
  /\ InDependencies
  /\ Top.left = {}
  /\ Skips(Top.type)
  /\ stack' = Front(stack)
  /\ UNCHANGED <<pc, unread, tree, visited, written, input>>

OpenType ==
  /\ InDependencies
  /\ Top.left = {}
  /\ ~Skips(Top.type)
  /\ visited' = visited \cup {Top.type}
  /\ written' = Append(written, [do |-> "open", type |-> Top.type,
                                 says |-> Heading(types[Top.type])])
  /\ stack' = [stack EXCEPT ![Len(stack)] = Body(Top.type)]
  /\ UNCHANGED <<pc, unread, tree, input>>

NextType ==
  /\ InBody
  /\ Calls \/ Overflows
  /\ UNCHANGED <<unread, tree, input>>

\* The trailer of a type: getCxxNameFor throws for a key to no type.
CloseType ==
  /\ InBody
  /\ Top.left = {} /\ Len(stack) > 1
  /\ \A u \in types[Top.type].uses : Found(u.type)
  /\ written' = Append(written, [do |-> "close", type |-> Top.type,
                                 says |-> Trailer(types[Top.type])])
  /\ stack' = Front(stack)
  /\ UNCHANGED <<pc, unread, tree, visited, input>>

CloseUnknown ==
  /\ InBody
  /\ Top.left = {} /\ Len(stack) > 1
  /\ \E u \in types[Top.type].uses : ~Found(u.type)
  /\ Fails

TypesDone ==
  /\ InBody
  /\ Top.left = {} /\ Len(stack) = 1
  /\ pc' = "done"
  /\ UNCHANGED <<unread, tree, output, input>>

Next ==
  \/ Insert \/ InsertDuplicate \/ InsertsDone
  \/ Nest \/ NestOrphan \/ NestsDone
  \/ AddDependencies \/ BadDependency
  \/ ForwardDeclare \/ CallDependency \/ Revisit \/ OpenType
  \/ NextType \/ CloseType \/ CloseUnknown \/ TypesDone

Spec == Init /\ [][Next]_vars

\* The compiler is one thread that runs until it ends.
FairSpec == Spec /\ WF_vars(Next)

-----------------------------------------------------------------------------
(* What the compiler is to accept, said of names alone.                        *)

Names == {d.name : d \in input}
Nested(name) == [i \in 1 .. Len(name) |-> <<name[i]>>]
Named(name) == CHOOSE d \in input : d.name = name

\* a has to be written before b, which is in the same scope.
Before(a, b) ==
  /\ a # b /\ Front(a) = Front(b)
  /\ \E d \in input : IsPrefix(b, d.name) /\ \E t \in Dependencies(d) : IsPrefix(a, t)

Cyclic == \E S \in SUBSET Names : S # {} /\ \A b \in S : \E a \in S : Before(a, b)

Acceptable ==
  /\ \A d, e \in input : d.name = e.name => d = e
  /\ \A n \in Names : Len(n) > 1 => Front(n) \in Names
  /\ \A d \in input : \A u \in d.uses : u.type \in Names
  /\ \A d \in input : \A t \in Dependencies(d) : t \in Names /\ ~IsStrictPrefix(t, d.name)
  /\ ~Cyclic

\* Once the types are nested, whatever the order in which they were moved, each
\* is at the path that its name spells and is found there by its name
\* (ESODefCompiler::nestTypes, findTypeByName).
NestingExact ==
  pc \in {"declare", "generate", "done"} =>
    /\ DOMAIN types = {Nested(n) : n \in Names}
    /\ \A n \in Names : Found(n) /\ types[PathOf(n)].name = n

Positions == 1 .. Len(written)
Is(i, do, p) == written[i].do = do /\ written[i].type = p
Complete(p, i) == \E j \in 1 .. i - 1 : Is(j, "close", p)

\* Two uses that addDependencyToType accepts, for it asks only that what is used
\* is not around the type: of the type itself, and of a base nested in the type.
\* What they name is not complete where the header names it, and cannot be.
UsesItself(d, u) == u.type = d.name
DerivesFromNested(d, u) == u.by = "base" /\ IsStrictPrefix(d.name, u.type)
NamedWithin(d, u) == UsesItself(d, u) \/ DerivesFromNested(d, u)

\* A base and the type of a field (or of an array's elements) are complete where
\* the header names them, in whatever scope they are, except those two uses, which
\* come out as C++ that names a type within itself (addDependencyToType,
\* generateType).
DefinedBeforeUse ==
  \A i \in Positions : \A u \in written[i].says :
    u.by # "key" =>
      (Complete(Nested(u.type), i) <=> ~NamedWithin(types[written[i].type], u))

\* C++ looks the first component of a name up from the innermost scope outwards,
\* among what has been declared before.
Visible(i) == {written[j].type : j \in 1 .. i}
Lookup(path, p, i) ==
  LET n == CHOOSE n \in -1 .. Len(p) :
             /\ n >= 0 => Append(SubSeq(p, 1, n), path[1]) \in Visible(i)
             /\ \A m \in n + 1 .. Len(p) : Append(SubSeq(p, 1, m), path[1]) \notin Visible(i)
  IN  IF n < 0 THEN <<>> ELSE SubSeq(p, 1, n) \o path

\* A type of a scope around p, other than t, has the name that t's path begins
\* with: C++ takes it instead.
Shadowed(t, p) == \E n \in 1 .. Len(p) : Append(SubSeq(p, 1, n), Nested(t)[1]) \in DOMAIN types

\* What the header writes for a base or the type of a field is taken for that
\* type where it stands, unless a nested type shadows it; so are keys to the defs
\* and aliases of the root, wherever those are written, but not keys to others
\* (getCxxNameFor, generateForwardDeclarations).  That the type is complete there
\* is DefinedBeforeUse.
NamesResolve ==
  \A i \in Positions : \A u \in written[i].says :
    LET p == written[i].type IN
    \/ Shadowed(u.type, p)
    \/ u.by = "key" /\ ~(Len(u.type) = 1 /\ Named(u.type).kind \in {"def", "alias"})
    \/ Lookup(u.as, p, i) = Nested(u.type)

\* The compiler ends: with every type written once, the nested ones inside, if
\* the input is acceptable; otherwise with an exception or, for a cycle only, a
\* stack overflow (generateType follows dependencies before it marks a type).  A
\* type that names itself or derives from what is nested in it is accepted.
Times(do, p) == Cardinality({i \in Positions : Is(i, do, p)})
WrittenOnce ==
  \A n \in Names :
    /\ Times("open", Nested(n)) = 1 /\ Times("close", Nested(n)) = 1
    /\ Len(n) > 1 => \E i, j \in Positions : /\ Is(i, "open", Nested(Front(n)))
                                             /\ Is(j, "open", Nested(n))
                                             /\ i < j /\ ~Complete(Nested(Front(n)), j)

CompilationEnds ==
  <>(CASE pc = "done" -> Acceptable /\ WrittenOnce
       [] pc = "failed" -> ~Acceptable
       [] pc = "crashed" -> Cyclic
       [] OTHER -> FALSE)
=============================================================================
