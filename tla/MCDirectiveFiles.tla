-------------------------- MODULE MCDirectiveFiles --------------------------
(***************************************************************************)
(* Texts for TLC, each with the lines it spells: files to harvest, of up to two *)
(* lines of up to two tokens in every spelling, cut at every letter, for the     *)
(* lexer; and databases of keywords for processLine.                           *)
(***************************************************************************)
EXTENDS DirectiveFiles

MCMaxInt == 9
K(s) == Keyword(s)

-----------------------------------------------------------------------------
\* Tokens, and how they may be spelled.
Word(tokn, text) == [token |-> tokn, text |-> text]
Quoted(text) == <<"\"">> \o text \o <<"\"">>
Words ==
  { Word(<<>>, Quoted(<<>>)), Word(<<"a">>, <<"a">>), Word(<<"a">>, Quoted(<<"\\", "a">>)),
    Word(<<"a", ";">>, <<"a">> \o Quoted(<<";">>)), Word(<<" ", "\"">>, Quoted(<<" ", "\\", "\"">>)),
    Word(<<"\n", "\\">>, Quoted(<<"\n", "\\", "\\">>)), Word(<<"\\">>, <<"\\">>),
    Word(<<"a", "a">>, Quoted(<<"a">>) \o Quoted(<<>>) \o <<"a">>) }

\* Lines, with what they spell; a line of no token spells nothing.
Line(ts, text) == [spells |-> IF ts = <<>> THEN <<>> ELSE <<ts>>, text |-> text]
Endings == {<<"\n">>, <<" ", "\n">>, <<";", "\"", ";", "\n">>}
Empty == {Line(<<>>, e) : e \in Endings}
Prefix == <<"PREFIX">>
PrefixLines == {Line(<<Prefix, w.token>>, <<" ">> \o Prefix \o <<" ">> \o w.text \o e) :
                  w \in Words, e \in Endings}
BadLines == { Line(<<Prefix>>, Prefix \o <<"\n">>),
              Line(<<Prefix, <<"a">>, <<>>>>, Prefix \o <<" ", "a", " ", "\"", "\"", "\n">>) }

\* A text of two lines that ends after n letters.
Cut(kind, l1, l2, n) ==
  LET text == l1.text \o l2.text
      rest == SubSeq(text, Len(l1.text) + 1, n)
      whole == IF n >= Len(text) THEN 2 ELSE IF n >= Len(l1.text) THEN 1 ELSE 0
      started == IF whole = 1 THEN rest ELSE IF whole = 0 THEN SubSeq(text, 1, n) ELSE <<>>
  IN  [kind |-> kind, text |-> SubSeq(text, 1, n),
       lines |-> (IF whole > 0 THEN l1.spells ELSE <<>>) \o (IF whole > 1 THEN l2.spells ELSE <<>>),
       complete |-> ToSet(started) \subseteq {" "}]

LexerFiles ==
  UNION {{Cut("names", l1, l2, n) : n \in 0 .. Len(l1.text) + Len(l2.text)} :
           l1 \in PrefixLines \cup Empty, l2 \in PrefixLines \cup Empty \cup BadLines}

-----------------------------------------------------------------------------
\* Files of given lines, in the plainest spelling.
Plain(kind, ls) ==
  [kind |-> kind, lines |-> ls, complete |-> TRUE,
   text |-> FlattenSeq([i \in DOMAIN ls |->
              FlattenSeq([j \in DOMAIN ls[i] |-> ls[i][j] \o <<" ">>]) \o <<"\n">>])]

MCNumber == K("2") :> 2 @@ K("4") :> 4 @@ K("9") :> 9
A == K("A")
B == K("B")

Headings == { <<K("STRUCT"), A>>, <<K("DEF"), K("2"), B>>, <<K("ENUM"), A>>,
              <<K("DEF"), K("4"), A, K("VERSION"), K("2"), K("VERSION"), K("4")>> }
Fields == { <<K("INT8")>>, <<K("INT8"), A>>, <<ARRAY, K("INT8")>>, <<ARRAY, K("STRUCT"), B, A>>,
            <<K("STRUCT"), B>>, <<K("ENUM"), A, B>>, <<K("FOREIGN_KEY"), B, A>> }
ValueLines == { <<K("VALUE"), K("2")>>, <<K("VALUE"), K("2"), A>>, <<K("VALUE"), K("4"), B>>,
                <<K("VALUE"), K("4"), A>>, <<K("VALUES"), K("2"), K("4")>>,
                <<K("VALUES"), K("4"), K("2")>> }
Wrong == { <<A>>, <<K("STRUCT")>>, <<K("DEF"), A, B>>, <<K("DEF"), K("2"), B, K("VERSION")>>,
           <<K("ENUM")>>, <<K("DEF_ALIAS"), K("2"), A>>, <<ARRAY>>, <<ARRAY, ARRAY, K("INT8")>>,
           <<K("INT8"), A, B>>, <<K("FOREIGN_KEY")>>, <<K("VALUE")>>, <<K("VALUE"), A>>,
           <<K("VALUES"), K("2"), K("9")>>, <<END>> }
Alias == <<K("DEF_ALIAS"), K("4"), B, A, B>>
AnyLine == Headings \cup Fields \cup ValueLines \cup Wrong \cup {Alias}

DatabaseFiles ==
  {Plain("database", <<h, x, y, <<END>>>>) : h \in Headings, x \in AnyLine, y \in AnyLine}
    \cup {Plain("database", <<<<K("STRUCT"), B>>, <<K("INT8"), A>>, <<END>>, h, x, <<END>>, Alias>>) :
            h \in Headings, x \in Fields \cup ValueLines}
    \cup {Plain("database", <<x>>) : x \in AnyLine}

OtherFiles ==
  {Plain(kind, <<x, y>>) :
     kind \in {"filesystem", "names", "versions"},
     x \in {<<K("MANIFEST"), A>>, <<K("FILE_TABLE"), K("2")>>, <<Prefix, B>>, <<K("SUPPORTED_VERSION"), A>>},
     y \in {<<K("MANIFEST"), B>>, <<K("FILE_TABLE"), A>>, <<K("MANIFEST")>>, <<K("SUPPORTED_VERSION"), B>>}}

MCFiles == LexerFiles \cup DatabaseFiles \cup OtherFiles
=============================================================================
