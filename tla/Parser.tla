------------------------------- MODULE Parser -------------------------------
(***************************************************************************)
(* The parser (src/src/parser/parser.c).                                   *)
(*                                                                         *)
(* frames are the parse_ functions under way, innermost last, each at the  *)
(* point of its body it will go on from.  A step goes from one point to    *)
(* the next and reads at most one token.  A tree is kept only as far as    *)
(* the properties tell trees apart: ret, what the function that has just   *)
(* returned gave, is how tightly the outermost operator of its node binds. *)
(*                                                                         *)
(* The tokens of a line are chosen as they are read.  INSIDE_LOOP is a     *)
(* static variable: it is what the line before has left.                   *)
(***************************************************************************)
EXTENDS Integers, Sequences, FiniteSets

CONSTANTS
  Suites,  \* sublanguages, a sequence: the tokens a line may have, those it starts with
           \* (first) and those some tokens are followed by (follow), bounds
           \* on their number (length) and on those after the line's first
           \* error (slack), and on the lines of the session
  NULL,    \* the pointer
  NONE     \* no function has returned

AllTokens ==
  {"ILLEGAL", "END_OF_FILE", "IDENT", "NUMBER", "ASSIGN", "PLUS", "COMMA",
   "SEMICOLON", "LPAREN", "RPAREN", "LBRACE", "RBRACE", "BANG", "LT", "GT",
   "MINUS", "SLASH", "ASTERISK", "EQ", "NOT_EQ", "FUNCTION", "LET", "TRUE",
   "FALSE", "IF", "ELSE", "RETURN", "STRING", "LBRACKET", "RBRACKET", "COLON",
   "WHILE", "BREAK", "CONTINUE", "FOR", "BINARY", "HEX", "RSHIFT", "LSHIFT",
   "BAND", "BOR", "BXOR", "MOD", "AND", "OR"}

ASSUME SuitesTyped ==
  \A i \in DOMAIN Suites :
    LET s == Suites[i]
    IN  /\ s.tokens \subseteq AllTokens /\ s.first \subseteq s.tokens
        /\ \A t \in DOMAIN s.follow : s.follow[t] \subseteq s.tokens
        /\ s.length \in Nat \ {0, 1}
        /\ s.slack \in Nat /\ s.lines \in Nat

VARIABLES
  suite,        \* the sublanguage of this session
  lines,        \* lines still to come
  left,         \* tokens the line may still have
  cur, peek,    \* cur_token, peek_token
  inside_loop,  \* INSIDE_LOOP
  errors,       \* errors is not empty
  frames, ret,
  program,      \* its statements: "let" or "other"
  status,       \* "running", or "dead" after a null pointer was followed
  open,         \* history: the brackets opened and not closed so far
  lenient,      \* history: the line has a token nobody looked at, or lacks
                \* a bracket nobody asked for
  erred         \* history: some line had errors

Suite == Suites[suite]

lineVars   == <<suite, lines>>
tokenVars  == <<cur, peek, left, open, lenient>>
errorVars  == <<errors, erred>>
callVars   == <<frames, ret>>
parserVars == <<lineVars, tokenVars, errorVars, callVars, inside_loop, program, status>>

----------------------------------------------------------------------------
(* Binding powers *)

LOWEST   == 1
PREFIX   == 12
CALL     == 13
INDEX    == 14
REASSIGN == 15
Closed   == 16   \* a literal, or an expression with brackets around it

ASSUME PointersDistinct ==
  NULL \notin LOWEST .. Closed /\ NONE \notin LOWEST .. Closed /\ NULL # NONE

precedences ==
  [OR |-> 2, AND |-> 3, EQ |-> 4, NOT_EQ |-> 4, BOR |-> 5, BXOR |-> 6, BAND |-> 7,
   LT |-> 8, GT |-> 8, LSHIFT |-> 9, RSHIFT |-> 9, PLUS |-> 10, MINUS |-> 10,
   ASTERISK |-> 11, SLASH |-> 11, MOD |-> 11,
   LPAREN |-> CALL, LBRACKET |-> INDEX, ASSIGN |-> REASSIGN]

precedence(t) == IF t \in DOMAIN precedences THEN precedences[t] ELSE LOWEST

----------------------------------------------------------------------------
(* Brackets *)

closer == [LPAREN |-> "RPAREN", LBRACE |-> "RBRACE", LBRACKET |-> "RBRACKET"]
Openers == DOMAIN closer
Closers == {closer[t] : t \in Openers}

(* The open brackets after a token.  One that closes nothing stays.        *)
Nest(s, t) ==
  IF t \in Openers THEN Append(s, t)
  ELSE IF t \notin Closers THEN s
  ELSE IF s # <<>> /\ s[Len(s)] \in Openers /\ closer[s[Len(s)]] = t
       THEN SubSeq(s, 1, Len(s) - 1)
  ELSE Append(s, t)

----------------------------------------------------------------------------
(* Tokens *)

Follow(t) ==
  {"END_OF_FILE"} \cup
  IF t = "END_OF_FILE" THEN {}
  ELSE IF t \in DOMAIN Suite.follow THEN Suite.follow[t] ELSE Suite.tokens

(* good: the grammar allows peek where it becomes the current token, or    *)
(* somebody will look at it.                                               *)
parser_next_token(good) ==
  /\ cur' = peek
  /\ peek' \in IF left = 0 THEN {"END_OF_FILE"} ELSE Follow(peek)
  /\ left' = IF peek' = "END_OF_FILE" THEN 0 ELSE left - 1
  /\ open' = Nest(open, peek)
  /\ lenient' = (lenient \/ ~good)
  /\ UNCHANGED errorVars

(* A step that reads nothing and finds nothing wrong.                      *)
Quiet == UNCHANGED <<tokenVars, errorVars>>

(* peek_error, no_prefix_parse_fn_error, illegal_statement_error.          *)
add_error ==
  /\ errors' = TRUE /\ erred' = TRUE
  /\ left' = IF left < Suite.slack THEN left ELSE Suite.slack
  /\ UNCHANGED <<cur, peek, open, lenient>>

----------------------------------------------------------------------------
(* Calls *)

Top   == frames[Len(frames)]
Below == SubSeq(frames, 1, Len(frames) - 1)

At(p)  == frames # <<>> /\ Top.at = p /\ ret = NONE
Back(p) == frames # <<>> /\ Top.at = p /\ ret # NONE

Point(p)     == [at |-> p]
Level(p, n)  == [at |-> p, prec |-> n]
To(p)        == [Top EXCEPT !.at = p]

Go(f)        == frames' = Append(Below, f) /\ ret' = NONE
Call(f, g)   == frames' = Append(Below, f) \o g /\ ret' = NONE
Return(v)    == frames' = Below /\ ret' = v

parse_expression(n) == <<Level("expression", n)>>
parse_block_statement == <<Point("block")>>

(* The call parse_statement makes for token t.                             *)
parse_statement(t) ==
  CASE t = "LET"                  -> <<Point("let")>>
    [] t = "RETURN"               -> <<Point("return")>>
    [] t \in {"BREAK", "CONTINUE"} -> <<Point("jump")>>
    [] OTHER                      -> <<Point("end_of_statement")>> \o parse_expression(LOWEST)

----------------------------------------------------------------------------
(* expect_peek: from a point, over a token, to the next point; an error    *)
(* and NULL when the next token is another one.                            *)

Expect(t, p) == [token |-> t, next |-> p, calls |-> <<>>]
ThenBlock(p) == [token |-> "LBRACE", next |-> p, calls |-> parse_block_statement]

Expectations ==
  [let             |-> Expect("IDENT",  "let_name"),
   let_name        |-> Expect("ASSIGN", "let_assign"),
   if              |-> Expect("LPAREN", "if_lparen"),
   if_condition    |-> Expect("RPAREN", "if_rparen"),
   if_rparen       |-> ThenBlock("consequence"),
   else            |-> ThenBlock("function_body"),
   function        |-> Expect("LPAREN", "parameters"),
   body            |-> ThenBlock("function_body"),
   while           |-> Expect("LPAREN", "while_lparen"),
   while_condition |-> Expect("RPAREN", "while_rparen"),
   for             |-> Expect("LPAREN", "for_initialization"),
   for_lbrace      |-> ThenBlock("loop_body")]

expect_peek ==
  \E p \in DOMAIN Expectations :
    LET e == Expectations[p]
    IN  /\ frames # <<>> /\ Top.at = p
        /\ \/ /\ peek = e.token
              /\ parser_next_token(TRUE)
              /\ Call(To(e.next), e.calls)
           \/ /\ peek # e.token
              /\ add_error
              /\ Return(NULL)
        /\ UNCHANGED <<inside_loop, status>>

(* Over a token and into an expression, at the lowest precedence.          *)
Operands ==
  [let_assign   |-> "let_value",    return     |-> "return_value",
   if_lparen    |-> "if_condition", while_lparen |-> "while_condition",
   hash_colon   |-> "hash_value",   list_comma |-> "list",
   index        |-> "index_rbracket", reassign |-> "reassign_value",
   grouped      |-> "grouped_rparen"]

parse_operand ==
  \E p \in DOMAIN Operands :
    /\ At(p)
    /\ parser_next_token(TRUE)
    /\ Call(To(Operands[p]), parse_expression(LOWEST))
    /\ UNCHANGED <<inside_loop, status>>

----------------------------------------------------------------------------
(* Statements *)

(* A let with no expression dereferences NULL; otherwise the next token is *)
(* passed over, whatever it is.                                            *)
parse_let_statement ==
  /\ Back("let_value")
  /\ IF ret = NULL
     THEN status' = "dead" /\ Quiet /\ UNCHANGED callVars
     ELSE /\ parser_next_token(peek \in {"SEMICOLON", "END_OF_FILE"})
          /\ Go(Point("end_of_statement"))
          /\ UNCHANGED status
  /\ UNCHANGED inside_loop

parse_return_statement ==
  /\ Back("return_value")
  /\ parser_next_token(peek \in {"SEMICOLON", "END_OF_FILE"})
  /\ Go(Point("end_of_statement"))
  /\ UNCHANGED <<inside_loop, status>>

(* parse_break_statement and parse_continue_statement.                     *)
parse_jump_statement ==
  /\ At("jump")
  /\ IF inside_loop
     THEN /\ parser_next_token(peek \in {"SEMICOLON", "END_OF_FILE"})
          /\ Go(Point("end_of_statement"))
     ELSE add_error /\ Return(NULL)
  /\ UNCHANGED <<inside_loop, status>>

(* Mutant: a statement takes the token that follows it, semicolon or not.  *)
take_any_token ==
  /\ frames # <<>> /\ Top.at = "end_of_statement"
  /\ parser_next_token(TRUE)
  /\ Return(Closed)
  /\ UNCHANGED <<inside_loop, status>>

(* Every kind of statement takes a semicolon that follows.                 *)
end_of_statement ==
  /\ frames # <<>> /\ Top.at = "end_of_statement"
  /\ IF peek = "SEMICOLON" THEN parser_next_token(TRUE) ELSE Quiet
  /\ Return(Closed)
  /\ UNCHANGED <<inside_loop, status>>

(* Mutant: only a brace ends a block.                                      *)
block_without_end ==
  /\ frames # <<>> /\ Top.at = "block"
  /\ parser_next_token(TRUE)
  /\ IF peek = "RBRACE" THEN Return(Closed) ELSE Call(Top, parse_statement(peek))
  /\ UNCHANGED <<inside_loop, status>>

(* Entered, or back from a statement: on to the next one, over a token.    *)
block_statements ==
  /\ frames # <<>> /\ Top.at = "block"
  /\ parser_next_token(TRUE)
  /\ IF peek \in {"RBRACE", "END_OF_FILE"}
     THEN Return(Closed)
     ELSE Call(Top, parse_statement(peek))
  /\ UNCHANGED <<inside_loop, status>>

----------------------------------------------------------------------------
(* Expressions *)

Literals == {"IDENT", "NUMBER", "STRING", "TRUE", "FALSE", "BINARY", "HEX"}
Loops    == {"WHILE", "FOR"}

List(t, n)  == [at |-> "list_start", closer |-> closer[t], strength |-> n]

(* Mutant: every loop clears the flag when it ends.                        *)
ClearingLoop(p) == [at |-> p, alter |-> TRUE]

Loop(p) == [at |-> p, alter |-> ~inside_loop]

(* The prefix function of a token, as the frame it starts with.            *)
PrefixFrame(t) ==
  CASE t \in {"BANG", "MINUS"} -> Point("prefix")
    [] t = "LPAREN"            -> Point("grouped")
    [] t = "IF"                -> Point("if")
    [] t = "FUNCTION"          -> Point("function")
    [] t = "LBRACKET"          -> List("LBRACKET", Closed)
    [] t = "LBRACE"            -> Point("hash")
    [] t = "WHILE"             -> Loop("while")
    [] t = "FOR"               -> Loop("for")

PrefixTokens ==
  {"BANG", "MINUS", "LPAREN", "IF", "FUNCTION", "LBRACKET", "LBRACE", "WHILE", "FOR"}

(* A loop sets INSIDE_LOOP first of all.                                   *)
parse_prefix ==
  /\ At("expression")
  /\ LET rest == Level("operators", Top.prec)
     IN  \/ /\ cur \in Literals
            /\ frames' = Append(Below, rest) /\ ret' = Closed
            /\ Quiet
         \/ /\ cur \in PrefixTokens
            /\ Call(rest, <<PrefixFrame(cur)>>)
            /\ Quiet
         \/ /\ cur \notin Literals \cup PrefixTokens
            /\ add_error
            /\ Return(NULL)
  /\ inside_loop' = (inside_loop \/ cur \in Loops)
  /\ UNCHANGED status

(* The infix function of a token, as the frame it starts with.             *)
InfixFrame(t, node) ==
  CASE t = "LPAREN"   -> List("LPAREN", CALL)
    [] t = "LBRACKET" -> Point("index")
    [] t = "ASSIGN"   -> Point("reassign")
    [] OTHER          -> [at |-> "infix", prec |-> precedence(t), left |-> node]

Binds(n) == peek # "SEMICOLON" /\ n < precedence(peek)

parse_infix ==
  /\ Back("operators")
  /\ IF Binds(Top.prec)
     THEN /\ parser_next_token(TRUE)
          /\ Call(Top, <<InfixFrame(peek, ret)>>)
     ELSE Quiet /\ Return(ret)
  /\ UNCHANGED <<inside_loop, status>>

parse_prefix_expression ==
  /\ At("prefix")
  /\ parser_next_token(TRUE)
  /\ Call(To("prefix_operand"), parse_expression(PREFIX))
  /\ UNCHANGED <<inside_loop, status>>

(* Mutant: an operator takes operators of its own precedence to its right. *)
parse_right_to_left ==
  /\ At("infix")
  /\ parser_next_token(TRUE)
  /\ Call(To("right_operand"), parse_expression(Top.prec - 1))
  /\ UNCHANGED <<inside_loop, status>>

parse_infix_expression ==
  /\ At("infix")
  /\ parser_next_token(TRUE)
  /\ Call(To("right_operand"), parse_expression(Top.prec))
  /\ UNCHANGED <<inside_loop, status>>

(* The end of parse_grouped_expression and of parse_index_expression.      *)
parse_closing_bracket ==
  /\ \/ /\ Back("grouped_rparen") /\ peek = "RPAREN"
        /\ parser_next_token(TRUE)
        /\ Return(IF ret = NULL THEN NULL ELSE Closed)
     \/ /\ Back("index_rbracket") /\ peek = "RBRACKET"
        /\ parser_next_token(TRUE)
        /\ Return(INDEX)
     \/ /\ \/ Back("grouped_rparen") /\ peek # "RPAREN"
           \/ Back("index_rbracket") /\ peek # "RBRACKET"
        /\ add_error
        /\ Return(NULL)
  /\ UNCHANGED <<inside_loop, status>>

(* Mutant: a missing closing bracket gives NULL and no error.              *)
parse_list_silently ==
  /\ \/ /\ At("list_start")
        /\ parser_next_token(TRUE)
        /\ IF peek = Top.closer THEN Return(Top.strength)
           ELSE Call(To("list"), parse_expression(LOWEST))
     \/ /\ Back("list") /\ peek = "COMMA"
        /\ parser_next_token(TRUE)
        /\ Go(To("list_comma"))
     \/ /\ Back("list") /\ peek = Top.closer
        /\ parser_next_token(TRUE)
        /\ Return(Top.strength)
     \/ /\ Back("list") /\ peek \notin {"COMMA", Top.closer}
        /\ Quiet
        /\ Return(NULL)
  /\ UNCHANGED <<inside_loop, status>>

(* parse_array_literal, parse_call_arguments and parse_call_expression.    *)
parse_list ==
  /\ \/ /\ At("list_start")
        /\ parser_next_token(TRUE)
        /\ IF peek = Top.closer THEN Return(Top.strength)
           ELSE Call(To("list"), parse_expression(LOWEST))
     \/ /\ Back("list") /\ peek = "COMMA"
        /\ parser_next_token(TRUE)
        /\ Go(To("list_comma"))
     \/ /\ Back("list") /\ peek = Top.closer
        /\ parser_next_token(TRUE)
        /\ Return(Top.strength)
     \/ /\ Back("list") /\ peek \notin {"COMMA", Top.closer}
        /\ add_error
        /\ Return(NULL)
  /\ UNCHANGED <<inside_loop, status>>

(* The key is kept for hashmap_put, which looks into it.                   *)
parse_hash_literal ==
  /\ \/ /\ At("hash")
        /\ parser_next_token(TRUE)
        /\ IF peek = "RBRACE" THEN Return(Closed)
           ELSE Call(Point("hash_key"), parse_expression(LOWEST))
        /\ UNCHANGED status
     \/ /\ Back("hash_key") /\ peek = "COLON"
        /\ parser_next_token(TRUE)
        /\ Go([at |-> "hash_colon", key |-> ret])
        /\ UNCHANGED status
     \/ /\ Back("hash_value") /\ Top.key = NULL
        /\ status' = "dead" /\ Quiet /\ UNCHANGED callVars
     \/ /\ Back("hash_value") /\ Top.key # NULL /\ peek = "COMMA"
        /\ parser_next_token(TRUE)
        /\ Go(Point("hash"))
        /\ UNCHANGED status
     \/ /\ Back("hash_value") /\ Top.key # NULL /\ peek = "RBRACE"
        /\ Quiet
        /\ Go(Point("hash"))
        /\ UNCHANGED status
     \/ /\ \/ Back("hash_key") /\ peek # "COLON"
           \/ Back("hash_value") /\ Top.key # NULL /\ peek \notin {"COMMA", "RBRACE"}
        /\ add_error
        /\ Return(NULL)
        /\ UNCHANGED status
  /\ UNCHANGED inside_loop

(* Parameters are not looked at; a missing parenthesis is an error that    *)
(* ends nothing, for the test of the length (parser.c:468) never holds.    *)
parse_function_parameters ==
  /\ \/ /\ At("parameters") /\ peek = "RPAREN"
        /\ parser_next_token(TRUE)
        /\ Go(Point("body"))
     \/ /\ At("parameters") /\ peek # "RPAREN"
        /\ parser_next_token(peek = "IDENT")
        /\ Go(Point("parameter"))
     \/ /\ At("parameter") /\ peek = "COMMA"
        /\ parser_next_token(TRUE)
        /\ Go(Point("parameter_comma"))
     \/ /\ At("parameter") /\ peek = "RPAREN"
        /\ parser_next_token(TRUE)
        /\ Go(Point("body"))
     \/ /\ At("parameter") /\ peek \notin {"COMMA", "RPAREN"}
        /\ add_error
        /\ Go(Point("body"))
     \/ /\ At("parameter_comma")
        /\ parser_next_token(peek = "IDENT")
        /\ Go(Point("parameter"))
  /\ UNCHANGED <<inside_loop, status>>

parse_if_expression ==
  /\ Back("consequence")
  /\ IF peek = "ELSE"
     THEN parser_next_token(TRUE) /\ Go(Point("else"))
     ELSE Quiet /\ Return(Closed)
  /\ UNCHANGED <<inside_loop, status>>

(* Nodes that are complete with their last part.                           *)
complete_expression ==
  /\ \/ Back("function_body")  /\ Return(Closed)
     \/ Back("prefix_operand") /\ Return(PREFIX)
     \/ Back("right_operand")  /\ Return(Top.prec)
     \/ Back("reassign_value") /\ Return(REASSIGN)
  /\ Quiet
  /\ UNCHANGED <<inside_loop, status>>

----------------------------------------------------------------------------
(* Loops *)

(* Mutant: the body is not the loop's own part.                            *)
parse_while_astray ==
  /\ At("while_rparen")
  /\ parser_next_token(peek = "LBRACE")
  /\ Call(To("while_body"), parse_block_statement)
  /\ UNCHANGED <<inside_loop, status>>

(* The token in the place of the brace is not looked at.                   *)
parse_while_loop ==
  /\ At("while_rparen")
  /\ parser_next_token(peek = "LBRACE")
  /\ Call(To("loop_body"), parse_block_statement)
  /\ UNCHANGED <<inside_loop, status>>

(* A part of the header: absent, or a statement of any kind.               *)
parse_if_exists(p, next) ==
  /\ frames # <<>> /\ Top.at = p
  /\ \/ /\ peek = "SEMICOLON"
        /\ parser_next_token(TRUE)
        /\ Go(To(next))
     \/ /\ cur = "SEMICOLON" /\ peek = "RPAREN"
        /\ Quiet
        /\ Go(To(next))
     \/ /\ peek # "SEMICOLON" /\ ~(cur = "SEMICOLON" /\ peek = "RPAREN")
        /\ parser_next_token(TRUE)
        /\ Call(To(next), parse_statement(peek))

parse_for_loop ==
  /\ \/ parse_if_exists("for_initialization", "for_condition")
     \/ parse_if_exists("for_condition", "for_update")
     \/ /\ frames # <<>> /\ Top.at = "for_update"
        /\ parser_next_token(TRUE)
        /\ IF peek = "RPAREN" THEN Go(To("for_lbrace"))
           ELSE Call(To("for_rparen"), parse_statement(peek))
     \/ /\ Back("for_rparen") /\ peek = "RPAREN"
        /\ parser_next_token(TRUE)
        /\ Go(To("for_lbrace"))
     \/ /\ Back("for_rparen") /\ peek # "RPAREN"
        /\ lenient' = TRUE
        /\ UNCHANGED <<cur, peek, left, open, errorVars>>
        /\ Go(To("for_lbrace"))
  /\ UNCHANGED <<inside_loop, status>>

end_of_loop ==
  /\ Back("loop_body")
  /\ inside_loop' = (inside_loop /\ ~Top.alter)
  /\ Return(Closed)
  /\ Quiet
  /\ UNCHANGED status

----------------------------------------------------------------------------
(* Programs *)

ParseProgram(t) ==
  [at |-> "program", kind |-> IF t = "LET" THEN "let" ELSE "other"]

ProgramFrames(t) ==
  IF t = "END_OF_FILE" THEN <<>> ELSE <<ParseProgram(t)>> \o parse_statement(t)

parse_program ==
  /\ Back("program")
  /\ program' = IF ret = NULL THEN program ELSE Append(program, Top.kind)
  /\ parser_next_token(TRUE)
  /\ frames' = ProgramFrames(peek)
  /\ ret' = NONE
  /\ UNCHANGED <<inside_loop, status>>

(* A line: new_parser reads two tokens, parse_program looks at the first.  *)
new_parser ==
  /\ frames = <<>> /\ status = "running" /\ lines > 0
  /\ lines' = lines - 1
  /\ \E t \in Suite.first \cup {"END_OF_FILE"} : \E u \in Follow(t) :
       /\ cur' = t /\ peek' = u
       /\ left' = IF u = "END_OF_FILE" THEN 0 ELSE Suite.length - 2
       /\ open' = Nest(<<>>, t)
       /\ frames' = ProgramFrames(t)
  /\ ret' = NONE
  /\ lenient' = FALSE
  /\ errors' = FALSE
  /\ program' = <<>>
  /\ UNCHANGED <<suite, inside_loop, erred, status>>

ParserInit ==
  /\ suite \in DOMAIN Suites
  /\ lines = Suite.lines
  /\ left = 0
  /\ cur = "END_OF_FILE" /\ peek = "END_OF_FILE"
  /\ inside_loop = FALSE
  /\ errors = FALSE
  /\ frames = <<>> /\ ret = NONE
  /\ program = <<>>
  /\ status = "running"
  /\ open = <<>>
  /\ lenient = FALSE
  /\ erred = FALSE

(* A step of some function.                                                *)
parse ==
  /\ status = "running"
  /\ \/ expect_peek             \/ parse_operand
     \/ parse_let_statement     \/ parse_return_statement
     \/ parse_jump_statement    \/ end_of_statement
     \/ block_statements        \/ parse_prefix
     \/ parse_infix             \/ parse_prefix_expression
     \/ parse_infix_expression  \/ parse_closing_bracket
     \/ parse_list              \/ parse_hash_literal
     \/ parse_function_parameters
     \/ parse_if_expression     \/ complete_expression
     \/ parse_while_loop        \/ parse_for_loop
     \/ end_of_loop
  /\ UNCHANGED <<lineVars, program>>

ParserNext ==
  \/ parse
  \/ status = "running" /\ parse_program /\ UNCHANGED lineVars
  \/ new_parser

ParserSpec == ParserInit /\ [][ParserNext]_parserVars

----------------------------------------------------------------------------
(* Properties *)

BracketPoints ==
  [LPAREN   |-> {"grouped", "grouped_rparen", "if_lparen", "if_condition",
                 "parameters", "parameter", "parameter_comma", "while_lparen",
                 "while_condition", "for_initialization", "for_condition",
                 "for_update", "for_rparen"},
   LBRACKET |-> {"index", "index_rbracket"},
   LBRACE   |-> {"hash", "hash_key", "hash_colon", "hash_value", "block"}]

LoopPoints ==
  {"while", "while_lparen", "while_condition", "while_rparen", "for",
   "for_initialization", "for_condition", "for_update", "for_rparen",
   "for_lbrace", "loop_body"}

Points ==
  (UNION {BracketPoints[t] : t \in Openers}) \cup LoopPoints \cup
  DOMAIN Expectations \cup DOMAIN Operands \cup
  {"program", "expression", "operators", "let_value", "return_value", "jump",
   "end_of_statement", "prefix", "prefix_operand", "infix", "right_operand",
   "reassign_value", "list_start", "list", "function_body", "consequence"}

(* Every call under way is at a point its function has, and what has been  *)
(* returned is a node or NULL.                                             *)
TypeOK ==
  /\ suite \in DOMAIN Suites
  /\ lines \in Nat
  /\ left \in Nat
  /\ {cur, peek} \subseteq AllTokens
  /\ {inside_loop, errors, erred, lenient} \subseteq BOOLEAN
  /\ \A i \in DOMAIN frames : frames[i].at \in Points
  /\ ret \in (LOWEST .. Closed) \cup {NULL, NONE}
  /\ status \in {"running", "dead"}

OpenLoop(i) == frames[i].at \in LoopPoints

(* INSIDE_LOOP is one flag for all loops, kept across lines and cleared by *)
(* the outermost loop.  While any loop is being read, at whatever depth    *)
(* and after whatever errors, its jumps are accepted; and as long as no    *)
(* line has had an error, they are accepted nowhere else.                  *)
FlagFollowsNesting ==
  LET inLoop == \E i \in DOMAIN frames : OpenLoop(i)
  IN  /\ inLoop => inside_loop
      /\ inside_loop /\ ~erred => inLoop

BracketsOf(f) ==
  IF f.at \in {"list_start", "list", "list_comma"}
  THEN {t \in Openers : closer[t] = f.closer}
  ELSE {t \in Openers : f.at \in BracketPoints[t]}

(* What is open in the text is what the functions under way are waiting to *)
(* see closed, bracket by bracket: none ends at a bracket that is not its  *)
(* own or goes on past its own.                                            *)
Waiting(calls) == {i \in DOMAIN calls : BracketsOf(calls[i]) # {}}

AwaitEachOther(calls, brackets) ==
  /\ Len(brackets) = Cardinality(Waiting(calls))
  /\ \A i \in Waiting(calls) :
       BracketsOf(calls[i]) = {brackets[Cardinality({j \in Waiting(calls) : j <= i})]}

Matched == AwaitEachOther(frames, open)

(* Brackets are matched as long as every let, return, break and continue   *)
(* is followed by a semicolon (parser.c:114, 135, 214 and 236 pass over    *)
(* whatever is there), a while's header by a brace (651), and a for's      *)
(* update by a parenthesis (709).  The end of the text ends every block,   *)
(* and an error every promise.                                             *)
BracketsFollowCalls ==
  lenient \/ errors \/ cur = "END_OF_FILE" \/ At("expression") \/ Matched

(* They are matched for any statement.  compiler_test.c:802 has a return   *)
(* that only the brace ends, { return 5 + 10 }: what comes after the brace *)
(* does not belong to the block.                                           *)
BlocksEndAtTheirBrace ==
  errors \/ "END_OF_FILE" \in {cur, peek} \/ At("expression") \/ Matched

(* An operator's operands bind as tightly as its precedence asks: the left *)
(* one at least as tightly as the operator, the right one more tightly,    *)
(* the operand of ! and - as tightly as a prefix, and what is called or    *)
(* indexed as tightly as a call.                                           *)
Grouping ==
  ~errors =>
    /\ Back("right_operand") => ret > Top.prec /\ Top.left >= Top.prec
    /\ Back("prefix_operand") => ret >= PREFIX

(* The compiler and the evaluator follow every child of a node they are    *)
(* given: a missing child is always reported, and the parser goes on after *)
(* it only to find more errors.                                            *)
MissingIsReported ==
  /\ ret = NULL => errors
  /\ status = "dead" => errors
  /\ \A i \in DOMAIN frames :
       /\ frames[i].at \in {"infix", "right_operand"} /\ frames[i].left = NULL => errors
       /\ frames[i].at \in {"hash_colon", "hash_value"} /\ frames[i].key = NULL => errors

=============================================================================
