--------------------------- MODULE FieldContainers ---------------------------
(***************************************************************************)
(* ESOFieldContainer, a container of values by name that keeps their order, and   *)
(* what a parse of a part of a row comes to: a value, and the rest of the row.    *)
(***************************************************************************)
EXTENDS Integers, SequencesExt

NoFields == [order |-> <<>>, values |-> <<>>]
NoValue == [is |-> "none"]

\* Mutant of RealName: unnamed fields are numbered by those unnamed before.
UnnamedCount(container, name) ==
  IF name = <<>> THEN <<"unk", Len(SelectSeq(container.order, LAMBDA n : Len(n) = 2)) + 1>> ELSE name
\* The name under which addField files a field.
RealName(container, name) ==
  IF name = <<>> THEN <<"unk", Cardinality(DOMAIN container.values) + 1>> ELSE name

\* A field that exists is given the value, and keeps its place.
AddField(container, name, value) ==
  IF name \in DOMAIN container.values
  THEN [container EXCEPT !.values[name] = value]
  ELSE [order |-> Append(container.order, name),
        values |-> container.values @@ (name :> value)]

Parsed(value, stream) == [ok |-> TRUE, stream |-> stream, value |-> value]
Throws(value) == [ok |-> FALSE, stream |-> <<>>, value |-> value]
=============================================================================
