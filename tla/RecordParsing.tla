---------------------------- MODULE RecordParsing ----------------------------
(***************************************************************************)
(* ESODatabaseDef::parseField and parseStructureIntoRecord: the row of a        *)
(* definition file becomes a container of named values, as directives say.      *)
(*                                                                         *)
(* A row is the sequence of the items its fields are read from; that an item is  *)
(* of the width its type says is the promise of the version of the file.  Types  *)
(* of one variant of Value are one type: "Int", "UInt" and so on.  A name is a    *)
(* sequence, <<>> the empty one and <<"unk", n>> "unk_n"; a name of an enum's      *)
(* value is split at '$'.                                                     *)
(***************************************************************************)
EXTENDS FieldContainers

Scalars == {"Int", "UInt", "Float", "String", "Boolean", "AssetReference"}

-----------------------------------------------------------------------------
(* Parsing, in a context of structures, defs and enums by name.               *)

\* What a polymorphic reference points to, by the name of its selector's value.
NULL == <<"NULL">>
Reference(context, names, selector, id) ==
  IF selector \notin DOMAIN names THEN [is |-> "id", of |-> id]
  ELSE IF names[selector][1] = NULL[1]
  THEN IF id = 0 THEN [is |-> "null", of |-> 0] ELSE [is |-> "id", of |-> id]
  ELSE [is |-> "key", def |-> <<names[selector][1]>>, of |-> id]

RECURSIVE ParseField(_, _, _, _), ParseStructure(_, _, _, _)

ParseField(context, type, field, stream) ==
  CASE stream = <<>> /\ type # "Struct" -> Throws(NoValue)
    [] type \in Scalars -> Parsed([is |-> type, of |-> Head(stream)], Tail(stream))
    [] type = "Enum" ->
         IF field.typeName \notin DOMAIN context.enums THEN Throws(NoValue)
         ELSE Parsed([is |-> "enum", def |-> field.typeName, of |-> Head(stream)], Tail(stream))
    [] type = "ForeignKey" ->
         IF field.typeName \notin DOMAIN context.lookup THEN Throws(NoValue)
         ELSE Parsed([is |-> "key", def |-> context.defs[context.lookup[field.typeName]].name,
                      of |-> Head(stream)], Tail(stream))
    [] type = "Array" ->
         FoldLeft(LAMBDA acc, i :
                    IF ~acc.ok THEN acc
                    ELSE LET next == ParseField(context, field.arrayType, field, acc.stream)
                         IN  [next EXCEPT !.value = [acc.value EXCEPT !.of = Append(@, next.value)]],
                  Parsed([is |-> "array", of |-> <<>>], Tail(stream)),
                  [i \in 1 .. Head(stream) |-> i])
    [] type = "Struct" ->
         IF field.typeName \notin DOMAIN context.structures THEN Throws(NoValue)
         ELSE LET inner == ParseStructure(context, context.structures[field.typeName], stream, NoFields)
              IN  [inner EXCEPT !.value = [is |-> "struct", of |-> @]]
    [] type = "PolymorphicReference" ->
         IF field.typeName \notin DOMAIN context.enums \/ Len(stream) < 2 THEN Throws(NoValue)
         ELSE LET ref == Reference(context, context.enums[field.typeName], stream[1], stream[2])
              IN  IF ref.is = "key" /\ ref.def \notin DOMAIN context.lookup THEN Throws(NoValue)
                  ELSE Parsed([is |-> "polymorphic", selector |-> stream[1], of |-> ref],
                              SubSeq(stream, 3, Len(stream)))

ParseStructure(context, fields, stream, container) ==
  FoldLeft(LAMBDA acc, field :
             IF ~acc.ok THEN acc
             ELSE LET name == RealName(acc.value, field.name)
                      next == ParseField(context, field.type, field, acc.stream)
                  IN  [next EXCEPT !.value = AddField(acc.value, name, next.value)],
           Parsed(container, stream), fields)

-----------------------------------------------------------------------------
(* Reference: the items that a value stands for.                              *)

RECURSIVE Items(_)
Items(v) ==
  CASE v.is = "none" -> <<>>
    [] v.is = "array" -> <<Len(v.of)>> \o FlattenSeq([i \in DOMAIN v.of |-> Items(v.of[i])])
    [] v.is = "struct" -> FlattenSeq([i \in DOMAIN v.of.order |-> Items(v.of.values[v.of.order[i]])])
    [] v.is = "polymorphic" -> <<v.selector, v.of.of>>
    [] OTHER -> <<v.of>>
=============================================================================
