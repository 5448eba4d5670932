--------------------------- MODULE DirectiveFiles ---------------------------
(***************************************************************************)
(* DirectiveFile::parseFile, the lexer that all directive files share, and the  *)
(* processLine of each kind of file, which it calls for every line that holds   *)
(* a token: databases, file systems, file names to harvest and supported        *)
(* versions.                                                                 *)
(*                                                                         *)
(* A text is a sequence of letters, a token what the lexer puts together of      *)
(* them.  A keyword is one letter, and which tokens are numbers is a constant.   *)
(* An error of any kind ends the parse: what was parsed goes with the exception. *)
(***************************************************************************)
EXTENDS Integers, SequencesExt

CONSTANTS Files,     \* the files: their kind, text and the lines it is to spell
          Number,    \* the tokens that stoul and stoi take, and their value
          MaxInt     \* the largest int

ASSUME DirectiveFilesAssumption ==
  /\ \A f \in Files : f.kind \in {"database", "filesystem", "names", "versions"}
  /\ \A t \in DOMAIN Number : Number[t] \in Int /\ Number[t] <= MaxInt

VARIABLES file, at,                         \* the file, and what has been read of it
          lexerState, tokens, tokenBuffer, tokenBufferActive,
          building,                         \* m_state: the kind of record that is open
          records,                          \* all vectors that processLine fills
          stage,
          lines                             \* history: the calls of processLine

lexer == <<lexerState, tokens, tokenBuffer, tokenBufferActive>>
directiveVars == <<file, at, lexer, building, records, stage, lines>>

Keyword(s) == <<s>>
END == Keyword("END")

-----------------------------------------------------------------------------
(* The lines of records.                                                      *)

Scalars == {Keyword(s) : s \in
  {"INT8", "INT16", "INT32", "INT64", "UINT8", "UINT16", "UINT32", "UINT64", "FLOAT",
   "STRING", "BOOLEAN", "ASSET_REFERENCE"}}
TypedTypes == {Keyword(s) : s \in {"ENUM", "FOREIGN_KEY", "STRUCT", "POLYMORPHIC_REFERENCE"}}
ARRAY == Keyword("ARRAY")
FieldTypes == Scalars \cup TypedTypes \cup {ARRAY}
NoType == Keyword("uninitialized")

IsNumber(t) == t \in DOMAIN Number

\* Where the element type of a field's line is, and its name, if it has one.
TypeAt(line) == IF line[1] = ARRAY THEN 2 ELSE 1
NameAt(line) == TypeAt(line) + (IF line[TypeAt(line)] \in TypedTypes THEN 2 ELSE 1)

\* parseFieldType and the name that follows: the errors, and the field.
IsField(line) ==
  /\ TypeAt(line) <= Len(line)
  /\ line[TypeAt(line)] \in FieldTypes
  /\ line[1] = ARRAY => line[2] # ARRAY
  /\ Len(line) \in {NameAt(line) - 1, NameAt(line)}

Field(line) ==
  [type |-> line[1],
   arrayType |-> IF line[1] = ARRAY THEN line[2] ELSE NoType,
   typeName |-> IF line[TypeAt(line)] \in TypedTypes THEN line[TypeAt(line) + 1] ELSE <<>>,
   name |-> IF Len(line) = NameAt(line) THEN line[NameAt(line)] ELSE <<>>]

\* The values of an enum that a line adds.  Up to MaxInt, the loop does not end
\* before memory does.
IsValues(line) ==
  \/ /\ line[1] = Keyword("VALUES") /\ Len(line) = 3
     /\ IsNumber(line[2]) /\ IsNumber(line[3]) /\ Number[line[3]] < MaxInt
  \/ line[1] = Keyword("VALUE") /\ Len(line) \in {2, 3} /\ IsNumber(line[2])

Values(line) ==
  IF line[1] = Keyword("VALUE") THEN <<Number[line[2]]>>
  ELSE [i \in 1 .. Number[line[3]] - Number[line[2]] + 1 |-> Number[line[2]] + i - 1]

\* valueNames.emplace keeps the first name of a value.
NamesWith(names, line) ==
  IF line[1] = Keyword("VALUE") /\ Len(line) = 3
  THEN [v \in DOMAIN names \cup {Number[line[2]]} |-> IF v \in DOMAIN names THEN names[v] ELSE line[3]]
  ELSE names

WithValues(record, line) ==
  [record EXCEPT !.values = @ \o Values(line), !.valueNames = NamesWith(@, line)]

\* The headings of databases, and the lines of the other files.
IsDef(line) ==
  /\ Len(line) >= 3 /\ Len(line) % 2 = 1
  /\ IsNumber(line[2])
  /\ \A i \in 4 .. Len(line) :
       IF i % 2 = 0 THEN line[i] = Keyword("VERSION") ELSE IsNumber(line[i])

IsHeading(line) ==
  \/ line[1] \in {Keyword("STRUCT"), Keyword("ENUM")} /\ Len(line) = 2
  \/ line[1] = Keyword("DEF") /\ IsDef(line)
  \/ line[1] = Keyword("DEF_ALIAS") /\ Len(line) >= 4 /\ IsNumber(line[2])

Begun(line) ==
  CASE line[1] = Keyword("STRUCT") -> [name |-> line[2], fields |-> <<>>]
    [] line[1] = Keyword("DEF") ->
         [name |-> line[3], defIndex |-> Number[line[2]], fields |-> <<>>,
          version |-> IF Len(line) > 3 THEN Number[Last(line)] ELSE 0]
    [] line[1] = Keyword("ENUM") -> [name |-> line[2], values |-> <<>>, valueNames |-> <<>>]
    [] line[1] = Keyword("DEF_ALIAS") ->
         [name |-> line[3], defIndex |-> Number[line[2]], targetName |-> line[4]]

\* FilesystemDirectiveFile, FilenameHarvestingDirectiveFile and
\* SupportedVersionsDirectiveFile.
IsEntry(line) ==
  /\ Len(line) = 2
  /\ CASE file.kind = "filesystem" -> \/ line[1] = Keyword("MANIFEST")
                                      \/ line[1] = Keyword("FILE_TABLE") /\ IsNumber(line[2])
       [] file.kind = "names" -> line[1] = Keyword("PREFIX")
       [] file.kind = "versions" -> line[1] = Keyword("SUPPORTED_VERSION")
       [] OTHER -> FALSE

Item(line) == IF line[1] = Keyword("FILE_TABLE") THEN Number[line[2]] ELSE line[2]

-----------------------------------------------------------------------------
(* processLine.                                                               *)

None == <<>>   \* State::Global
Add(kind, record) == records' = [records EXCEPT ![kind] = Append(@, record)]
Current == Len(records[building])

AddEntry(line) ==
  /\ IsEntry(line)
  /\ Add(line[1], Item(line))
  /\ UNCHANGED building

AddHeading(line) ==
  /\ building = None
  /\ IsHeading(line)
  /\ Add(line[1], Begun(line))
  /\ building' = IF line[1] = Keyword("DEF_ALIAS") THEN None ELSE line[1]

\* Mutant of AddEnd: a def stays open.
AddEndUnlessDef(line) ==
  /\ building # None
  /\ line[1] = END
  /\ building' = IF building = Keyword("DEF") THEN building ELSE None
  /\ UNCHANGED records
AddEnd(line) ==
  /\ building # None
  /\ line[1] = END
  /\ building' = None
  /\ UNCHANGED records

AddField(line) ==
  /\ building \in {Keyword("STRUCT"), Keyword("DEF")}
  /\ line[1] # END /\ IsField(line)
  /\ records' = [records EXCEPT ![building][Current].fields = Append(@, Field(line))]
  /\ UNCHANGED building

AddValues(line) ==
  /\ building = Keyword("ENUM")
  /\ IsValues(line)
  /\ records' = [records EXCEPT ![building][Current] = WithValues(@, line)]
  /\ UNCHANGED building

Accepts(line) ==
  \/ IsEntry(line)
  \/ file.kind = "database" /\
       CASE building = None -> IsHeading(line)
         [] building = Keyword("ENUM") -> line[1] = END \/ IsValues(line)
         [] OTHER -> line[1] = END \/ IsField(line)

ProcessLine(line) ==
  /\ lines' = Append(lines, line)
  /\ \/ AddEntry(line) /\ UNCHANGED stage
     \/ /\ file.kind = "database"
        /\ AddHeading(line) \/ AddEnd(line) \/ AddField(line) \/ AddValues(line)
        /\ UNCHANGED stage
     \/ ~Accepts(line) /\ stage' = "failed" /\ UNCHANGED <<building, records>>

-----------------------------------------------------------------------------
(* parseFile, a letter at a time.                                             *)

Blank == {" ", "\n"}

ParseInit ==
  /\ file \in Files
  /\ at = 0
  /\ lexerState = "Normal" /\ tokens = <<>> /\ tokenBuffer = <<>> /\ tokenBufferActive = FALSE
  /\ building = None
  /\ records = [k \in {Keyword(s) : s \in {"STRUCT", "DEF", "DEF_ALIAS", "ENUM", "MANIFEST",
                                           "FILE_TABLE", "PREFIX", "SUPPORTED_VERSION"}} |-> <<>>]
  /\ stage = "reading"
  /\ lines = <<>>

\* stream.get
Reads(c) ==
  /\ stage = "reading" /\ at < Len(file.text)
  /\ c = file.text[at + 1]
  /\ at' = at + 1
  /\ UNCHANGED file

NoLine == UNCHANGED <<building, records, stage, lines>>

\* Mutant of Finished: an empty buffer makes no token.
FinishedUnlessEmpty == IF tokenBuffer # <<>> THEN Append(tokens, tokenBuffer) ELSE tokens
\* The tokens of the line, with the one that ends here.
Finished == IF tokenBufferActive THEN Append(tokens, tokenBuffer) ELSE tokens

EndToken == tokenBuffer' = <<>> /\ tokenBufferActive' = FALSE

\* A newline ends the line, in a comment as well.
EndLine ==
  /\ lexerState \in {"Normal", "Comment"}
  /\ Reads("\n")
  /\ lexerState' = "Normal"
  /\ tokens' = <<>>
  /\ EndToken
  /\ IF Finished = <<>> THEN NoLine ELSE ProcessLine(Finished)

ReadBlank ==
  /\ lexerState = "Normal"
  /\ Reads(" ")
  /\ tokens' = Finished
  /\ EndToken
  /\ UNCHANGED lexerState /\ NoLine

OpenQuote ==
  /\ lexerState = "Normal"
  /\ Reads("\"")
  /\ lexerState' = "String" /\ tokenBufferActive' = TRUE
  /\ UNCHANGED <<tokens, tokenBuffer>> /\ NoLine

OpenComment ==
  /\ lexerState = "Normal"
  /\ Reads(";")
  /\ lexerState' = "Comment"
  /\ UNCHANGED <<tokens, tokenBuffer, tokenBufferActive>> /\ NoLine

ReadComment ==
  /\ lexerState = "Comment"
  /\ \E c \in ToSet(file.text) \ {"\n"} : Reads(c)
  /\ UNCHANGED lexer /\ NoLine

Escape ==
  /\ lexerState = "String"
  /\ Reads("\\")
  /\ lexerState' = "Escaped"
  /\ UNCHANGED <<tokens, tokenBuffer, tokenBufferActive>> /\ NoLine

CloseQuote ==
  /\ lexerState = "String"
  /\ Reads("\"")
  /\ lexerState' = "Normal"
  /\ UNCHANGED <<tokens, tokenBuffer, tokenBufferActive>> /\ NoLine

\* The letters that a state takes for a token's.
Literal == CASE lexerState = "Normal" -> ToSet(file.text) \ (Blank \cup {"\"", ";"})
             [] lexerState = "String" -> ToSet(file.text) \ {"\\", "\""}
             [] lexerState = "Escaped" -> ToSet(file.text)
             [] OTHER -> {}

ReadLetter ==
  /\ \E c \in Literal : Reads(c) /\ tokenBuffer' = Append(tokenBuffer, c)
  /\ tokenBufferActive' = TRUE   \* as it is already in quotes
  /\ lexerState' = IF lexerState = "Escaped" THEN "String" ELSE lexerState
  /\ UNCHANGED tokens /\ NoLine

EndOfFile ==
  /\ stage = "reading" /\ at = Len(file.text)
  /\ stage' = IF lexerState = "Normal" /\ Finished = <<>> THEN "done" ELSE "failed"
  /\ UNCHANGED <<file, at, lexer, building, records, lines>>

ParseNext ==
  \/ EndLine \/ ReadBlank \/ OpenQuote \/ OpenComment \/ ReadComment
  \/ Escape \/ CloseQuote \/ ReadLetter \/ EndOfFile

ParseSpec == ParseInit /\ [][ParseNext]_directiveVars

-----------------------------------------------------------------------------
\* The lines that reach processLine are those the text spells, in order, token
\* by token: quoted, escaped and empty tokens, comments and blanks included.  A
\* text that was cut short is accepted only if it was cut between lines, and
\* then all its lines were processed (DirectiveFile::parseFile).
TokensRecovered ==
  /\ IsPrefix(lines, file.lines)
  /\ stage = "done" => file.complete /\ lines = file.lines
  /\ stage = "failed" => ~file.complete \/ ~Accepts(Last(lines))

\* Reference: where the headings of a kind are, all of them outside of blocks; how
\* many of them there are up to one; and the lines of its block.
TopAt(ls, i) == i = 1 \/ ls[i - 1][1] \in {END, Keyword("DEF_ALIAS")}
Headed(ls, kind) == {i \in DOMAIN ls : TopAt(ls, i) /\ ls[i][1] = kind}
Rank(ls, i) == Cardinality({j \in Headed(ls, ls[i][1]) : j <= i})
Block(ls, i) == LET ends == {j \in i .. Len(ls) : ls[j][1] = END} \cup {Len(ls) + 1}
                IN  SubSeq(ls, i + 1, Min(ends) - 1)

\* The line that a field was made of; an empty quoted name is as good as none.
Spells(field, line) ==
  line \in {<<field.type>>
            \o (IF field.type = ARRAY THEN <<field.arrayType>> ELSE <<>>)
            \o (IF {field.type, field.arrayType} \cap TypedTypes # {} THEN <<field.typeName>> ELSE <<>>)
            \o name : name \in {<<field.name>>} \cup (IF field.name = <<>> THEN {<<>>} ELSE {})}

HasFields(record, block) ==
  /\ Len(record.fields) = Len(block)
  /\ \A i \in DOMAIN block : Spells(record.fields[i], block[i])

HasValues(record, block) ==
  LET one == {i \in DOMAIN block : block[i][1] = Keyword("VALUE")}
      named == {i \in one : Len(block[i]) = 3}
  IN  /\ ToSet(record.values) =
           {Number[block[i][2]] : i \in one}
             \cup UNION {Number[block[i][2]] .. Number[block[i][3]] : i \in DOMAIN block \ one}
      /\ DOMAIN record.valueNames = {Number[block[i][2]] : i \in named}
      /\ \A v \in DOMAIN record.valueNames :
           \E i \in named :
             /\ Number[block[i][2]] = v /\ block[i][3] = record.valueNames[v]
             /\ \A j \in named : Number[block[j][2]] = v => i <= j

NameIn(heading) == heading[IF heading[1] \in {Keyword("STRUCT"), Keyword("ENUM")} THEN 2 ELSE 3]

\* The records are the blocks of the text, in order: one per heading that stands
\* outside a block, named by it, with one field per line, of which no token is
\* dropped, or with the values its lines give, and the first name given to each
\* (DatabaseDirectiveFile::processLine, whose m_building pointers are kept between
\* calls).  A heading in a block, whose END is missing, is one of its fields.
RecordsAreBlocks ==
  file.kind = "database" /\ stage # "failed" =>
    \A kind \in {Keyword(s) : s \in {"STRUCT", "DEF", "ENUM", "DEF_ALIAS"}} :
      /\ Len(records[kind]) = Cardinality(Headed(lines, kind))
      /\ \A i \in Headed(lines, kind) :
           LET record == records[kind][Rank(lines, i)] IN
           /\ record.name = NameIn(lines[i])
           /\ kind \in {Keyword("STRUCT"), Keyword("DEF")} => HasFields(record, Block(lines, i))
           /\ kind = Keyword("ENUM") => HasValues(record, Block(lines, i))
=============================================================================
