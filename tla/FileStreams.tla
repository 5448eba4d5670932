----------------------------- MODULE FileStreams -----------------------------
(***************************************************************************)
(* SerializationStream and its segments: a file is written, field by field, to a   *)
(* stack of output streams, and then read from input streams.  A sized segment is  *)
(* written through a nested stream into its target, with room kept for a length    *)
(* that is put there at its end; a deflated one into a stream of its own.         *)
(*                                                                         *)
(* A byte is a digit to the base Base, so that a few elements are too many for a   *)
(* length; what deflate makes of some bytes is one byte that stands for them       *)
(* (zlib is external).                                                       *)
(***************************************************************************)
EXTENDS Integers, SequencesExt

CONSTANTS Files,             \* the kinds of files
          FormatOf(_, _),    \* what operator << of one does, and operator >>
          Operations,        \* all of the operations of these, at any depth
          Base,              \* the values of a byte, 256 in the code
          Values    \* by name, the values a field may have, or the length of a vector or string

FieldOps == {"field", "must", "same", "atMost"}

ASSUME FormatsAssumption ==
  /\ \A file \in Files, reading \in BOOLEAN : FormatOf(file, reading) \in Seq(Operations)
  /\ \A op \in Operations :
       /\ op.op \in FieldOps \cup {"vector"} => op.width \in Nat
       /\ op.op \in FieldOps \ {"field"} => op.kind # "string"
       /\ op.op \in {"vector", "sized", "deflated", "when", "unless", "repeat"} => op.body \in Seq(Operations)
ASSUME ValuesAssumption ==
  /\ Base \in Nat \ {0, 1}
  /\ \A name \in DOMAIN Values : Values[name] \subseteq Nat

VARIABLES phase, format,
          streams,   \* the streams, the innermost last
          todo,      \* for each, the operations that are still to come
          blocks,    \* what was deflated
          fields,    \* the fields so far, by name
          written, read,   \* history: the fields with their names
          cut        \*   and whether a length did not fit its type

streamVars == <<phase, format, streams, todo, blocks, fields, written, read, cut>>

Stream(swap) ==
  [data |-> <<>>, position |-> 0, swap |-> swap, nested |-> FALSE, offset |-> 0, back |-> 0]

StreamsInit ==
  /\ phase = "write"
  /\ format \in Files
  /\ todo = <<FormatOf(format, FALSE)>>
  /\ \E swap \in BOOLEAN : streams = <<Stream(swap)>>
  /\ blocks = <<>> /\ fields = <<>> /\ written = <<>> /\ read = <<>>
  /\ cut = FALSE

Top == Last(streams)
Frame == Last(todo)
This == Head(Frame)
\* What the operator of the innermost stream goes on with.
GoesOn(ops) == todo' = Append(Front(todo), ops)

\* A sequence, so many times.
Times(n, body) == [i \in 1 .. n * Len(body) |-> body[((i - 1) % Len(body)) + 1]]

-----------------------------------------------------------------------------
(* Bytes.                                                                    *)

Digits(value, width) == [i \in 1 .. width |-> (value \div Base ^ (i - 1)) % Base]
ValueOf(bytes) == FoldRight(LAMBDA b, acc : b + Base * acc, bytes, 0)
Fits(value, width) == value < Base ^ width

\* Whether the bytes of memory are in the opposite order: those of a float if
\* swapping is off.
Inverted(kind, swap) == \/ kind = "int" /\ swap
                        \/ kind = "float" /\ ~swap

Letter == 1
\* The bytes of a field: a string is its length, its letters and a zero.
Bytes(kind, value, width, swap) ==
  CASE kind = "string" -> LET digits == Digits(value, width) IN
                          (IF swap THEN Reverse(digits) ELSE digits) \o Times(value, <<Letter>>) \o <<0>>
    [] kind = "raw" -> Times(width, <<value>>)
    [] OTHER -> LET digits == Digits(value, width) IN
                IF Inverted(kind, swap) THEN Reverse(digits) ELSE digits

-----------------------------------------------------------------------------
(* OutputSerializationStream.                                                 *)

\* Bytes put at a position, over those that are there; zeros fill a gap before it.
Placed(data, position, bytes) ==
  IF position > Len(data) THEN data \o Times(position - Len(data), <<0>>) \o bytes
  ELSE SubSeq(data, 1, position) \o bytes \o SubSeq(data, position + Len(bytes) + 1, Len(data))

\* The stream in whose data a nested one writes: the innermost that is not nested.
Owner(ss) ==
  CHOOSE i \in DOMAIN ss : ~ss[i].nested /\ \A j \in i + 1 .. Len(ss) : ss[j].nested

\* getRegionForWrite, and what is written there: a nested stream asks its target.
Put(ss, bytes) ==
  [i \in DOMAIN ss |->
     IF i < Owner(ss) THEN ss[i]
     ELSE [ss[i] EXCEPT !.position = @ + Len(bytes),
                        !.data = IF i = Owner(ss) THEN Placed(@, ss[i].position, bytes) ELSE @]]

\* setCurrentPosition: a nested stream moves its target, too.
Seek(ss, position) ==
  LET at[i \in DOMAIN ss] ==
        IF i < Owner(ss) THEN ss[i].position
        ELSE IF i = Len(ss) THEN position
        ELSE at[i + 1] + ss[i + 1].offset
  IN  [i \in DOMAIN ss |-> [ss[i] EXCEPT !.position = at[i]]]

PutInt(ss, value) == Put(ss, Bytes("int", value, 4, Last(ss).swap))

SwapOf(mode, swap) == IF mode = "keep" THEN swap ELSE mode = "enable"

Nested(ss, mode) ==
  LET room == Put(ss, <<0, 0, 0, 0>>)
  IN  Append(room, [Stream(SwapOf(mode, Last(ss).swap)) EXCEPT
                      !.nested = TRUE, !.offset = Last(room).position, !.back = Last(ss).position])

\* Mutant of WithLength: the writer goes on after the length.
WithLengthOnly(ss) ==
  PutInt(Seek(Front(ss), Last(ss).back), Last(ss).position)
\* The end of a sized segment: its length is put where there is room for it.
WithLength(ss) ==
  LET outer == Front(ss)
  IN  Seek(PutInt(Seek(outer, Last(ss).back), Last(ss).position), Last(outer).position)

-----------------------------------------------------------------------------
(* operator <<.                                                              *)

Writing(op) == phase = "write" /\ Frame # <<>> /\ This.op = op
Reading(op) == phase = "read" /\ Frame # <<>> /\ This.op = op
Noted(name, value) == [n \in DOMAIN fields \cup {name} |-> IF n = name THEN value ELSE fields[n]]
Entry(name, value) == [name |-> name, value |-> value]

Choose(op) ==
  IF op.op = "must" THEN {op.value}
  ELSE IF op.op \in {"same", "atMost"} THEN {fields[op.other]}
  ELSE IF op.name \in DOMAIN Values THEN Values[op.name] ELSE {1}

\* The value that a field of that width keeps.
Stored(op, value) == IF op.kind \in {"int", "float"} THEN value % Base ^ op.width ELSE value

\* A field, with nothing of it lost except of the width of a length.
WriteField ==
  /\ \E op \in FieldOps : Writing(op)
  /\ \E value \in Choose(This) :
       /\ streams' = Put(streams, Bytes(This.kind, value, This.width, Top.swap))
       /\ fields' = Noted(This.name, Stored(This, value))
       /\ written' = Append(written, Entry(This.name, value))
       /\ cut' = (cut \/ (This.kind # "raw" /\ ~Fits(value, This.width)))
  /\ GoesOn(Tail(Frame))
  /\ UNCHANGED <<phase, format, blocks, read>>

\* SizedVector: all elements are written, whatever of their number is.
WriteVector ==
  /\ Writing("vector")
  /\ \E length \in Choose(This) :
       /\ streams' = Put(streams, Bytes("int", length, This.width, Top.swap))
       /\ written' = Append(written, Entry(This.name, length))
       /\ cut' = (cut \/ ~Fits(length, This.width))
       /\ GoesOn(Times(length, This.body) \o Tail(Frame))
  /\ UNCHANGED <<phase, format, blocks, fields, read>>

\* A segment has an operator of its own, on a stream of its own.
Enters(body) == todo' = Append(Append(Front(todo), Tail(Frame)), body)

WriteSegment ==
  /\ Writing("sized") \/ Writing("deflated")
  /\ streams' = IF This.op = "sized" THEN Nested(streams, This.mode)
                ELSE Append(streams, Stream(SwapOf(This.mode, Top.swap)))
  /\ Enters(This.body)
  /\ UNCHANGED <<phase, format, blocks, fields, written, read, cut>>

\* An operator of a segment has come to its end.
Ending(where) == phase = where /\ Frame = <<>> /\ Len(todo) > 1

\* The length is that of the nested stream's position, the bytes of which were
\* written to the target already.
EndSized ==
  /\ Ending("write") /\ Top.nested
  /\ streams' = WithLength(streams)
  /\ cut' = (cut \/ ~Fits(Top.position, 4))
  /\ todo' = Front(todo)
  /\ UNCHANGED <<phase, format, blocks, fields, written, read>>

EndDeflated ==
  /\ Ending("write") /\ ~Top.nested
  /\ blocks' = Append(blocks, Top.data)
  /\ streams' = Put(PutInt(PutInt(Front(streams), Len(Top.data)), 1), <<Base + Len(blocks)>>)
  /\ cut' = (cut \/ ~Fits(Len(Top.data), 4))
  /\ todo' = Front(todo)
  /\ UNCHANGED <<phase, format, fields, written, read>>

\* The file is what the outermost stream holds.
Close ==
  /\ phase = "write" /\ todo = << <<>> >>
  /\ \E swap \in BOOLEAN :
       /\ swap = streams[1].swap \/ format = "contents"
       /\ streams' = <<[Stream(swap) EXCEPT !.data = streams[1].data]>>
  /\ phase' = "read"
  /\ todo' = <<FormatOf(format, TRUE)>>
  /\ fields' = <<>>
  /\ UNCHANGED <<format, blocks, written, read, cut>>

-----------------------------------------------------------------------------
(* Both: what depends on fields before.                                        *)

Rejects ==
  /\ phase' = "threw"
  /\ UNCHANGED <<format, todo, streams, blocks, fields, written, read, cut>>

\* Less than zero times is, unsigned, more often than any stream holds.
Expand ==
  /\ phase \in {"write", "read"} /\ Frame # <<>> /\ This.op \in {"when", "unless", "repeat"}
  /\ LET value == fields[This.name]
         more == CASE This.op = "repeat" -> Times(value - This.less, This.body)
                   [] This.op = "when" /\ value \in This.values -> This.body
                   [] This.op = "unless" /\ value \notin This.values -> This.body
                   [] OTHER -> <<>>
     IN  IF This.op = "repeat" /\ value - This.less \notin Nat THEN Rejects
         ELSE /\ GoesOn(more \o Tail(Frame))
              /\ UNCHANGED <<phase, format, streams, blocks, fields, written, read, cut>>

ChangeSwap ==
  /\ phase \in {"write", "read"} /\ Frame # <<>> /\ This.op = "swap"
  /\ streams' = Append(Front(streams), [Top EXCEPT !.swap = This.to])
  /\ GoesOn(Tail(Frame))
  /\ UNCHANGED <<phase, format, blocks, fields, written, read, cut>>

-----------------------------------------------------------------------------
(* InputSerializationStream and operator >>.                                   *)

\* getRegionForRead.
HasRoom(position, n) == position + n <= Len(Top.data)
Region(position, n) == SubSeq(Top.data, position + 1, position + n)
Advanced(n) == Append(Front(streams), [Top EXCEPT !.position = @ + n])
\* Mutant of InOrder: a float is read in the order of an integer.
AsIntegers(kind, bytes) == IF kind # "raw" /\ Top.swap THEN Reverse(bytes) ELSE bytes
InOrder(kind, bytes) == IF Inverted(kind, Top.swap) THEN Reverse(bytes) ELSE bytes
IntAt(position, width) == ValueOf(InOrder("int", Region(position, width)))

\* The bytes after the length of a string, its zero among them.
WidthAt(op) ==
  IF op.kind = "string" /\ HasRoom(Top.position, 2)
  THEN 2 + IntAt(Top.position, 2) + 1 ELSE op.width

\* What the bytes say; -1 are letters or raw bytes that nobody wrote.
Read(op, bytes) ==
  CASE op.kind = "string" ->
         IF \A i \in 3 .. Len(bytes) - 1 : bytes[i] = Letter THEN Len(bytes) - 3 ELSE -1
    [] op.kind = "raw" ->
         IF \A i \in DOMAIN bytes : bytes[i] = bytes[1] THEN bytes[1] ELSE -1
    [] OTHER -> ValueOf(InOrder(op.kind, bytes))

ReadField ==
  /\ \E op \in FieldOps : Reading(op)
  /\ IF ~HasRoom(Top.position, WidthAt(This)) THEN Rejects
     ELSE LET n == WidthAt(This)
              value == Read(This, Region(Top.position, n))
          IN  IF \/ This.op = "must" /\ value # This.value
                 \/ This.op = "atMost" /\ value > fields[This.other]
              THEN Rejects
              ELSE /\ fields' = Noted(This.name, value)
                   /\ read' = Append(read, Entry(This.name, value))
                   /\ streams' = Advanced(n)
                   /\ GoesOn(Tail(Frame))
                   /\ UNCHANGED <<phase, format, blocks, written, cut>>

ReadVector ==
  /\ Reading("vector")
  /\ IF ~HasRoom(Top.position, This.width) THEN Rejects
     ELSE LET length == IntAt(Top.position, This.width) IN
          /\ read' = Append(read, Entry(This.name, length))
          /\ streams' = Advanced(This.width)
          /\ GoesOn(Times(length, This.body) \o Tail(Frame))
          /\ UNCHANGED <<phase, format, blocks, fields, written, cut>>

\* The data of a segment, in a stream of their own.
Inner(data) == [Stream(SwapOf(This.mode, Top.swap)) EXCEPT !.data = data]
Enter(n, data) ==
  /\ streams' = Append(Advanced(n), Inner(data))
  /\ Enters(This.body)
  /\ UNCHANGED <<phase, format, blocks, fields, written, read, cut>>

ReadSized ==
  /\ Reading("sized")
  /\ IF ~HasRoom(Top.position, 4) \/ ~HasRoom(Top.position, 4 + IntAt(Top.position, 4)) THEN Rejects
     ELSE LET length == IntAt(Top.position, 4)
          IN  Enter(4 + length, Region(Top.position + 4, length))

\* zlibUncompress throws unless the data are the whole of what was deflated, and
\* inflate to the length there is room for.
ReadDeflated ==
  /\ Reading("deflated")
  /\ IF ~HasRoom(Top.position, 8) \/ ~HasRoom(Top.position, 8 + IntAt(Top.position + 4, 4)) THEN Rejects
     ELSE LET deflated == Region(Top.position + 8, IntAt(Top.position + 4, 4)) IN
          IF \/ Len(deflated) # 1
             \/ deflated[1] - Base + 1 \notin DOMAIN blocks
             \/ Len(blocks[deflated[1] - Base + 1]) # IntAt(Top.position, 4)
          THEN Rejects
          ELSE Enter(8 + Len(deflated), blocks[deflated[1] - Base + 1])

\* What is left of a segment is not looked at.
LeaveSegment ==
  /\ Ending("read")
  /\ streams' = Front(streams)
  /\ todo' = Front(todo)
  /\ UNCHANGED <<phase, format, blocks, fields, written, read, cut>>

Finish ==
  /\ phase = "read" /\ todo = << <<>> >>
  /\ phase' = "done"
  /\ UNCHANGED <<format, todo, streams, blocks, fields, written, read, cut>>

StreamsNext ==
  \/ WriteField \/ WriteVector \/ WriteSegment \/ EndSized \/ EndDeflated \/ Close
  \/ Expand \/ ChangeSwap
  \/ ReadField \/ ReadVector \/ ReadSized \/ ReadDeflated \/ LeaveSegment \/ Finish

StreamsSpec == StreamsInit /\ [][StreamsNext]_streamVars

-----------------------------------------------------------------------------
\* A nested stream stands where its target stands, and the outermost at the end of
\* what was written: the lengths that are put back leave every stream where the
\* next field belongs (OutputSerializationStream, SizedSegment.h).
StreamsAligned ==
  phase = "write" =>
    \A i \in DOMAIN streams :
      IF streams[i].nested
      THEN streams[i - 1].position = streams[i].offset + streams[i].position
      ELSE streams[i].position = Len(streams[i].data)

\* What an operator >> does not read as its operator << writes it: def files,
\* and manifests of version 3 but those of one data file.
Has(name, value) == Entry(name, value) \in ToSet(written)
Readable ==
  /\ ~cut
  /\ format # "defFile"
  /\ format = "manifest" /\ Has("version", 3) => Has("dataFileCount", 1)

Swapped == {"archiveIndex", "compressionType"}
\* Every other file, written and read with one byte order, is read without an
\* exception, field by field with the values that were written, and every segment
\* and the file to its end; as long as no length was cut.  Only the archive
\* index and the compression type of a manifest's entries come back as each other
\* (the operators << and >> of all file types, SizedSegment, DeflatedSegment).
RoundTrip ==
  Readable =>
    /\ phase # "threw"
    /\ read # <<>> =>
         LET i == Len(read) IN
         /\ i <= Len(written) /\ read[i].value = written[i].value
         /\ read[i].name # written[i].name => {read[i].name, written[i].name} = Swapped
    /\ phase \in {"read", "done"} /\ Frame = <<>> => Top.position = Len(Top.data)
    /\ phase = "done" => Len(read) = Len(written)
=============================================================================
