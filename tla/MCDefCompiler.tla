---------------------------- MODULE MCDefCompiler ----------------------------
(***************************************************************************)
(* Sets of directives for TLC: names of up to three parts over a few letters.  *)
(***************************************************************************)
EXTENDS DefCompiler

Root(a) == <<a>>
Value(n) == [by |-> "value", type |-> n]
Key(n) == [by |-> "key", type |-> n]
Base(n) == [by |-> "base", type |-> n]
D(kind, name, uses) == [name |-> name, kind |-> kind, uses |-> uses]

MCPart == {"A", "B", "C", "E", "X", "Y", "Z", "BaseDef"}
MCBaseDef == Root("BaseDef")
TheBase == D("struct", MCBaseDef, {Value(Root("Z"))})
TheEnum == D("enum", Root("Z"), {})

MCInputs ==
  { \* nested three deep, uses within and across scopes
    { D("struct", Root("A"), {Value(<<"A", "C">>)}),
      D("struct", <<"A", "B">>, {Value(Root("Z")), Value(<<"A", "C">>)}),
      D("enum", <<"A", "B", "E">>, {}),
      D("struct", <<"A", "C">>, {Value(<<"X", "Y">>)}),
      D("struct", Root("X"), {}),
      D("enum", <<"X", "Y">>, {}),
      TheEnum },
    \* defs with keys to each other, and an alias
    { TheBase, TheEnum,
      D("def", Root("A"), {Key(Root("X")), Key(Root("Y")), Value(<<"A", "E">>)}),
      D("enum", <<"A", "E">>, {}),
      D("def", Root("X"), {Key(Root("A")), Key(Root("Y"))}),
      D("alias", Root("Y"), {Base(Root("X"))}) },
    \* a nested type that shadows the root type it uses, and one that uses itself
    { D("struct", Root("A"), {Value(Root("Z")), Value(Root("A"))}),
      D("struct", <<"A", "Z">>, {Value(Root("Z"))}),
      TheEnum },
    \* a base nested in the type derived from it, and a base that is its own
    { D("alias", Root("A"), {Base(<<"A", "B">>)}),
      D("def", <<"A", "B">>, {Key(Root("A")), Value(<<"A", "B", "E">>)}),
      D("enum", <<"A", "B", "E">>, {}),
      D("def", MCBaseDef, {}) },
    \* a diamond
    { D("struct", Root("A"), {Value(Root("X")), Value(Root("Y"))}),
      D("struct", Root("X"), {Value(Root("Z"))}),
      D("struct", Root("Y"), {Value(Root("Z"))}),
      TheEnum },
    \* a name given twice, a name without its outer type
    { D("struct", Root("A"), {}), D("enum", Root("A"), {}) },
    { D("struct", Root("A"), {}), D("enum", <<"A", "B", "C">>, {}) },
    \* uses of unknown types, as a field and as a key, and no BaseDef
    { D("struct", Root("A"), {Value(Root("X"))}) },
    { D("struct", Root("A"), {Key(Root("X"))}), TheEnum },
    { D("def", Root("A"), {}) },
    \* a nested type that uses the type around it
    { D("struct", Root("A"), {}), D("struct", <<"A", "B">>, {Value(Root("A"))}) },
    \* cycles, the second between scopes only
    { D("struct", Root("A"), {Value(Root("X")), Value(Root("Y"))}),
      D("struct", Root("X"), {Value(Root("A"))}),
      D("struct", Root("Y"), {}), D("enum", <<"Y", "E">>, {}) },
    { D("struct", Root("A"), {}), D("struct", <<"A", "B">>, {Value(<<"X", "Y">>)}),
      D("enum", <<"A", "C">>, {}), D("enum", <<"X", "Y">>, {}),
      D("struct", Root("X"), {Value(<<"A", "C">>)}) } }
=============================================================================
