--------------------------- MODULE MCCommandLine ---------------------------
(***************************************************************************)
(* Sessions whose lines are of a few small sublanguages, and commands that *)
(* read and write files.                                                   *)
(***************************************************************************)
EXTENDS CommandLine

(* Lines in which every token is followed by one of those beside it.       *)
Language(first, pairs, length) ==
  LET follow == [t \in {p[1] : p \in pairs} |-> (CHOOSE p \in pairs : p[1] = t)[2]]
  IN  [tokens |-> first \cup UNION {p[2] : p \in pairs}, first |-> first, follow |-> follow,
       length |-> length, slack |-> 0, lines |-> 1, blocklets |-> 0, argvs |-> {<<"-l">>},
       commands |-> 1, texts |-> "none", bytecodes |-> {}]

(* Any sequence of the tokens, and so many more after its first error.     *)
Soup(S, length, slack) ==
  [Language(S, {<<t, S>> : t \in S}, length) EXCEPT !.slack = slack]

(* Operators of every kind of precedence, and prefixes.                    *)
Arithmetic ==
  LET operators == {"PLUS", "ASTERISK", "MINUS", "EQ", "ASSIGN"}
  IN  Language({"IDENT", "MINUS"},
               {<<"IDENT", operators>>} \cup {<<t, {"IDENT", "MINUS"}>> : t \in operators}, 9)

(* Groups, calls, indexes and arrays; hashes.                              *)
Brackets == Soup({"IDENT", "PLUS", "LPAREN", "RPAREN", "LBRACKET", "RBRACKET", "COMMA"}, 6, 1)
Hashes   == Soup({"IDENT", "LBRACE", "RBRACE", "COLON", "COMMA"}, 7, 2)

(* Loops in the bodies and in the headers of loops.                        *)
WhileLoops ==
  Language({"WHILE", "BREAK"},
    {<<"WHILE", {"LPAREN"}>>, <<"LPAREN", {"TRUE", "WHILE"}>>, <<"TRUE", {"RPAREN", "RBRACE"}>>,
     <<"RPAREN", {"LBRACE", "TRUE"}>>, <<"LBRACE", {"WHILE", "BREAK", "RBRACE"}>>,
     <<"BREAK", {"SEMICOLON", "RBRACE"}>>, <<"SEMICOLON", {"RBRACE", "BREAK"}>>,
     <<"RBRACE", {"BREAK", "RBRACE", "RPAREN", "WHILE"}>>}, 18)

ForLoops ==
  Language({"FOR"},
    {<<"FOR", {"LPAREN"}>>, <<"LPAREN", {"SEMICOLON", "IDENT", "CONTINUE"}>>,
     <<"IDENT", {"RPAREN", "SEMICOLON", "LBRACE"}>>, <<"RPAREN", {"LBRACE"}>>,
     <<"LBRACE", {"FOR", "RBRACE"}>>, <<"CONTINUE", {"SEMICOLON"}>>,
     <<"RBRACE", {"CONTINUE", "RBRACE"}>>,
     <<"SEMICOLON", {"SEMICOLON", "RPAREN", "IDENT", "FOR"}>>}, 14)

(* Functions, their parameters, and blocks that end with any statement.    *)
Blocks ==
  Language({"FUNCTION", "LET"},
    {<<"FUNCTION", {"LPAREN"}>>, <<"LPAREN", {"IDENT", "RPAREN", "FUNCTION"}>>,
     <<"IDENT", {"COMMA", "RPAREN", "LBRACE", "RBRACE", "SEMICOLON", "ASSIGN"}>>,
     <<"COMMA", {"IDENT"}>>, <<"RPAREN", {"LBRACE"}>>, <<"LET", {"IDENT"}>>,
     <<"ASSIGN", {"IDENT", "FUNCTION", "SEMICOLON"}>>,
     <<"LBRACE", {"RETURN", "RBRACE", "IDENT", "LET"}>>, <<"RETURN", {"IDENT", "FUNCTION"}>>,
     <<"RBRACE", {"LPAREN", "RBRACE", "IDENT", "SEMICOLON"}>>,
     <<"SEMICOLON", {"RBRACE", "IDENT"}>>}, 13)

Conditions ==
  Language({"IF"},
    {<<"IF", {"LPAREN"}>>, <<"LPAREN", {"TRUE"}>>, <<"TRUE", {"RPAREN", "RBRACE"}>>,
     <<"RPAREN", {"LBRACE"}>>, <<"LBRACE", {"TRUE", "RBRACE", "IF"}>>,
     <<"RBRACE", {"ELSE", "RBRACE", "IF"}>>, <<"ELSE", {"LBRACE", "IF"}>>}, 20)

(* What a line that breaks off in a loop's header leaves to the next ones. *)
BrokenLines ==
  [Soup({"WHILE", "FOR", "LPAREN", "TRUE", "BREAK"}, 3, 1) EXCEPT !.lines = 3]

(* m lines of n tokens that define and assign names, in each mode.         *)
Definitions(n, m, d) ==
  [Language({"LET", "IDENT"},
     {<<"LET", {"IDENT"}>>, <<"ASSIGN", {"IDENT"}>>, <<"IDENT", {"ASSIGN", "SEMICOLON"}>>,
      <<"SEMICOLON", {"LET", "IDENT"}>>}, n)
   EXCEPT !.lines = m, !.blocklets = d, !.argvs = {<<>>, <<"-c">>, <<"-x">>}]

(* Texts whose tokens the buffers of a file cut anywhere.                  *)
MCTexts ==
  LET all(S, n) == UNION {[1 .. k -> S] : k \in 0 .. n}
  IN  [none |-> {<<>>},
       all |->
      all({"i", "f", "=", " "}, 4) \cup all({"0", "x", "b", "1"}, 4)
      \cup all({"!", "=", "&", "|"}, 4) \cup all({"'", "x", " ", "#"}, 4)
      \cup all({"0", ".", "1", ";"}, 4) \cup all({"<", ">", "+", "x"}, 4)
      \cup all({"_", "0", "a"}, 4)]

Sources ==
  [Language({"IDENT"}, {<<"IDENT", {"IDENT"}>>}, 2)
   EXCEPT !.texts = "all", !.argvs = {<<>>, <<"-i", "in">>}]

(* Bytecode with constants of each kind, in either order.  Three of them   *)
(* have a count that two bytes are needed for, or a local one.             *)
One   == [type |-> NUMBER_OBJ, value |-> <<0, 0, 0, 0, 0, 0, 240, 63>>]
Name  == [type |-> STRING_OBJ, value |-> <<77, 255>>]
Empty == [type |-> STRING_OBJ, value |-> <<>>]
Fn    == [type |-> COMPILED_FUNCTION_OBJ, num_locals |-> 258, num_parameters |-> 2,
          instructions |-> <<12, 200, 0>>]
Loop0 == [type |-> COMPILED_LOOP_OBJ, num_locals |-> 0, instructions |-> <<6>>]

Files ==
  [Language({"IDENT"}, {<<"IDENT", {"IDENT"}>>}, 2)
   EXCEPT !.lines = 0, !.commands = 3,
          !.argvs = {<<"-c", "in", "out">>, <<"-l", "out">>, <<"-d", "out">>, <<"-c", "in">>,
                     <<"-h">>, <<"in">>},
          !.bytecodes = {[constants |-> c, instructions |-> <<0, 0, 1, 127>>] :
                           c \in {<<>>, <<One, Fn>>, <<Loop0, Name>>}}
                        \cup {[constants |-> <<Fn, One, Empty, Loop0>>, instructions |-> <<>>]}]

MCSuites ==
  <<Arithmetic, Brackets, Hashes, WhileLoops, ForLoops, Blocks, Conditions, BrokenLines,
   Definitions(4, 3, 0), Definitions(6, 2, 1), Definitions(9, 1, 0), Sources, Files>>

(* A function with 130 instructions.                                       *)
MCLong ==
  <<[Files EXCEPT !.commands = 2,
      !.bytecodes = {[constants |-> <<[Fn EXCEPT !.instructions = [i \in 1 .. 130 |-> 1]]>>,
                      instructions |-> <<0, 0, 0>>]}]>>

(* A function whose block ends with a return.                              *)
MCReturns ==
  <<Language({"FUNCTION"},
     {<<"FUNCTION", {"LPAREN"}>>, <<"LPAREN", {"RPAREN"}>>, <<"RPAREN", {"LBRACE"}>>,
      <<"LBRACE", {"RETURN"}>>, <<"RETURN", {"IDENT"}>>, <<"IDENT", {"RBRACE"}>>,
      <<"RBRACE", {"SEMICOLON"}>>, <<"SEMICOLON", {"IDENT"}>>}, 9)>>

=============================================================================
