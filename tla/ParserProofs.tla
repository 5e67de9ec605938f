---------------------------- MODULE ParserProofs ----------------------------
(***************************************************************************)
(* Theorems about Parser, for any sublanguages, any number of lines of any *)
(* length and any nesting.                                                 *)
(*                                                                         *)
(* The argument is about the stack of calls.  StackOK says what is true of *)
(* every stack; a parse_ function returns, goes on, or calls, and a lemma  *)
(* for each shows that the stack stays so.  What is left for an action is  *)
(* which of the three it does, and that what it puts on the stack fits.    *)
(* Three invariants are kept in this way: IInv, what the calls remember    *)
(* and the errors made so far; GInv, that each node found fits between the *)
(* operators on the stack; BInv, that the calls that wait for a closing    *)
(* bracket and the brackets that are open are in step.                     *)
(***************************************************************************)
EXTENDS Parser, SequenceTheorems, FiniteSetTheorems, TLAPS

(* What a call remembers, by the point it is at. *)
PlainPoints ==
  {"let", "let_name", "let_assign", "let_value", "return", "return_value",
   "jump", "end_of_statement", "if", "if_lparen", "if_condition", "if_rparen",
   "consequence", "else", "function", "parameters", "parameter",
   "parameter_comma", "body", "function_body", "grouped", "grouped_rparen",
   "index", "index_rbracket", "reassign", "reassign_value", "hash", "hash_key",
   "block", "prefix", "prefix_operand"}

Binding == LOWEST .. Closed
Nodes   == Binding \cup {NULL}

PlainFrame == [at : PlainPoints]
LevelFrame == [at : {"expression", "operators"}, prec : Binding]
OpFrame    == [at : {"infix", "right_operand"}, prec : Binding, left : Nodes]
ListFrame  == [at : {"list_start", "list", "list_comma"},
               closer : Closers, strength : Binding]
KeyFrame   == [at : {"hash_colon", "hash_value"}, key : Nodes]
LoopFrame  == [at : LoopPoints, alter : BOOLEAN]
LineFrame  == [at : {"program"}, kind : {"let", "other"}]

Frame == PlainFrame \cup LevelFrame \cup OpFrame \cup ListFrame \cup KeyFrame
           \cup LoopFrame \cup LineFrame

IsLoop(f) == f.at \in LoopPoints

(* A call that holds a node it was not given.                              *)
Gap(f) ==
  \/ f.at \in {"infix", "right_operand"} /\ f.left = NULL
  \/ f.at \in {"hash_colon", "hash_value"} /\ f.key = NULL

(* No loop, no statement of the program, no node whose lack is not known.  *)
Harmless(f, errs) == ~IsLoop(f) /\ f.at # "program" /\ (Gap(f) => errs)

(* Where the call f may go on as g.                                        *)
Continues(f, g, errs) ==
  /\ IsLoop(f) <=> IsLoop(g)
  /\ IsLoop(f) => f.alter = g.alter
  /\ g.at # "program"
  /\ Gap(g) => errs

(* A stack of calls s, with INSIDE_LOOP, whether the line has an error, and*)
(* whether any line had.  The flag is set while a loop is being read; only *)
(* the outermost loop will clear it; and unless there was an error, which  *)
(* may have ended loops without clearing it, one of them will.             *)
StackOK(s, flag, errs, ever) ==
  /\ s \in Seq(Frame)
  /\ \A i \in 1..Len(s) : s[i].at = "program" => i = 1
  /\ \A i \in 1..Len(s) : Gap(s[i]) => errs
  /\ \A i \in 1..Len(s) : IsLoop(s[i]) => flag
  /\ \A i \in 1..Len(s) : \A j \in 1..(i - 1) :
       IsLoop(s[i]) /\ IsLoop(s[j]) => ~s[i].alter
  /\ flag /\ ~ever => \E i \in 1..Len(s) : IsLoop(s[i]) /\ s[i].alter

TokensOK ==
  /\ left \in Nat
  /\ {cur, peek} \subseteq AllTokens
  /\ {errors, erred, lenient} \subseteq BOOLEAN

CallsOK ==
  /\ inside_loop \in BOOLEAN
  /\ StackOK(frames, inside_loop, errors, erred)
  /\ ret \in Nodes \cup {NONE}
  /\ ret = NULL => errors
  /\ status = "dead" => errors

(* The inductive invariant *)
IInv ==
  /\ suite \in DOMAIN Suites
  /\ lines \in Nat
  /\ status \in {"running", "dead"}
  /\ TokensOK
  /\ CallsOK

----------------------------------------------------------------------------
(* Frames *)

LEMMA BindingValues ==
  /\ Binding \subseteq Int /\ NULL \notin Binding /\ NONE \notin Nodes
  /\ {LOWEST, PREFIX, CALL, INDEX, REASSIGN, Closed} \subseteq Binding
  BY PointersDistinct DEF Binding, Nodes, LOWEST, PREFIX, CALL, INDEX, REASSIGN, Closed

LEMMA PrecedenceType == ASSUME NEW t PROVE precedence(t) \in Binding
  BY DEF precedence, precedences, Binding, LOWEST, Closed, CALL, INDEX, REASSIGN

(* A call is at a point its function has.                                  *)
LEMMA FramePoints == ASSUME NEW f \in Frame PROVE f.at \in Points
  <1>1. LoopPoints \subseteq Points BY DEF Points
  <1>2. {"program", "expression", "operators", "infix", "right_operand",
         "list_start", "list", "list_comma", "hash_value", "hash_colon"} \subseteq Points
    <2>1. {"hash_colon", "list_comma"} \subseteq DOMAIN Operands BY DEF Operands
    <2>2. {"hash_value"} \subseteq BracketPoints["LBRACE"] /\ "LBRACE" \in Openers
      BY DEF BracketPoints, Openers, closer
    <2>. QED BY <2>1, <2>2 DEF Points
  <1>3. PlainPoints \subseteq Points
    <2>1. {"let", "let_name", "if", "if_condition", "if_rparen", "else", "function",
           "body"} \subseteq DOMAIN Expectations
      BY DEF Expectations
    <2>2. {"let_assign", "return", "if_lparen", "index", "reassign", "grouped"}
            \subseteq DOMAIN Operands
      BY DEF Operands
    <2>3. /\ {"grouped_rparen", "parameters", "parameter", "parameter_comma"}
               \subseteq BracketPoints["LPAREN"]
          /\ {"index_rbracket"} \subseteq BracketPoints["LBRACKET"]
          /\ {"hash", "hash_key", "block"} \subseteq BracketPoints["LBRACE"]
          /\ {"LPAREN", "LBRACKET", "LBRACE"} \subseteq Openers
      BY DEF BracketPoints, Openers, closer
    <2>4. PlainPoints \subseteq
            (UNION {BracketPoints[t] : t \in {"LPAREN", "LBRACKET", "LBRACE"}})
              \cup DOMAIN Expectations \cup DOMAIN Operands
              \cup {"let_value", "return_value", "jump", "end_of_statement", "prefix",
                    "prefix_operand", "reassign_value", "function_body", "consequence"}
      BY <2>1, <2>2, <2>3 DEF PlainPoints
    <2>. QED BY <2>3, <2>4 DEF Points
  <1>. QED
    BY <1>1, <1>2, <1>3
       DEF Frame, PlainFrame, LevelFrame, OpFrame, ListFrame, KeyFrame, LoopFrame, LineFrame

(* The classes of frames have no point in common.                          *)
LEMMA FrameClasses ==
  ASSUME NEW f \in Frame
  PROVE  /\ f.at \in PlainPoints => f \in PlainFrame
         /\ f.at \in {"expression", "operators"} => f \in LevelFrame
         /\ f.at \in {"infix", "right_operand"} => f \in OpFrame
         /\ f.at \in {"list_start", "list", "list_comma"} => f \in ListFrame
         /\ f.at \in {"hash_colon", "hash_value"} => f \in KeyFrame
         /\ f.at \in LoopPoints => f \in LoopFrame
         /\ f.at = "program" => f \in LineFrame
  BY DEF Frame, PlainFrame, LevelFrame, OpFrame, ListFrame, KeyFrame, LoopFrame, LineFrame,
         PlainPoints, LoopPoints

(* Points at which a call remembers the same.                              *)
SameFields(p, q) ==
  \/ p \in PlainPoints /\ q \in PlainPoints
  \/ p \in LoopPoints /\ q \in LoopPoints
  \/ p \in {"list_start", "list", "list_comma"} /\ q \in {"list_start", "list", "list_comma"}
  \/ p = "infix" /\ q = "right_operand"
  \/ p = "hash_colon" /\ q = "hash_value"

(* Going on within a function: what the call remembers, it keeps.          *)
LEMMA Moved ==
  ASSUME NEW f \in Frame, NEW p, NEW errs, Gap(f) => errs, SameFields(f.at, p)
  PROVE  /\ [f EXCEPT !.at = p] \in Frame
         /\ Continues(f, [f EXCEPT !.at = p], errs)
  <1>1. CASE f.at \in PlainPoints /\ p \in PlainPoints
    <2>1. f \in PlainFrame BY <1>1, FrameClasses
    <2>2. [f EXCEPT !.at = p] = [at |-> p] BY <2>1 DEF PlainFrame
    <2>. QED BY <1>1, <2>2 DEF Continues, IsLoop, Gap, PlainFrame, Frame, PlainPoints, LoopPoints
  <1>2. CASE f.at \in LoopPoints /\ p \in LoopPoints
    <2>1. f \in LoopFrame BY <1>2, FrameClasses
    <2>2. [f EXCEPT !.at = p] = [at |-> p, alter |-> f.alter] BY <2>1 DEF LoopFrame
    <2>. QED BY <1>2, <2>1, <2>2 DEF Continues, IsLoop, Gap, LoopFrame, Frame, LoopPoints
  <1>3. CASE /\ f.at \in {"list_start", "list", "list_comma"}
             /\ p \in {"list_start", "list", "list_comma"}
    <2>1. f \in ListFrame BY <1>3, FrameClasses
    <2>2. [f EXCEPT !.at = p] = [at |-> p, closer |-> f.closer, strength |-> f.strength]
      BY <2>1 DEF ListFrame
    <2>. QED BY <1>3, <2>1, <2>2 DEF Continues, IsLoop, Gap, ListFrame, Frame, LoopPoints
  <1>4. CASE f.at = "infix" /\ p = "right_operand"
    <2>1. f \in OpFrame BY <1>4, FrameClasses
    <2>2. [f EXCEPT !.at = p] = [at |-> p, prec |-> f.prec, left |-> f.left]
      BY <2>1 DEF OpFrame
    <2>. QED BY <1>4, <2>1, <2>2 DEF Continues, IsLoop, Gap, OpFrame, Frame, LoopPoints
  <1>5. CASE f.at = "hash_colon" /\ p = "hash_value"
    <2>1. f \in KeyFrame BY <1>5, FrameClasses
    <2>2. [f EXCEPT !.at = p] = [at |-> p, key |-> f.key] BY <2>1 DEF KeyFrame
    <2>. QED BY <1>5, <2>1, <2>2 DEF Continues, IsLoop, Gap, KeyFrame, Frame, LoopPoints
  <1>. QED BY <1>1, <1>2, <1>3, <1>4, <1>5 DEF SameFields

(* The frames a call begins with.                                          *)
LEMMA PlainIsHarmless ==
  ASSUME NEW p \in PlainPoints, NEW errs
  PROVE  Point(p) \in Frame /\ Harmless(Point(p), errs)
  BY DEF Point, Frame, PlainFrame, PlainPoints, Harmless, IsLoop, Gap, LoopPoints

LEMMA LevelIsHarmless ==
  ASSUME NEW p \in {"expression", "operators"}, NEW n \in Binding,
         NEW errs
  PROVE  Level(p, n) \in Frame /\ Harmless(Level(p, n), errs)
  BY DEF Level, Frame, LevelFrame, Harmless, IsLoop, Gap, LoopPoints

LEMMA ListIsHarmless ==
  ASSUME NEW t \in Openers, NEW n \in Binding, NEW errs
  PROVE  List(t, n) \in Frame /\ Harmless(List(t, n), errs)
  BY DEF List, Frame, ListFrame, Harmless, IsLoop, Gap, LoopPoints, Closers

(* The calls a function may make.                                          *)
Calls(errs) == {g \in Seq(Frame) : \A i \in 1..Len(g) : Harmless(g[i], errs)}

LEMMA NoCalls == ASSUME NEW errs PROVE <<>> \in Calls(errs)
  BY EmptySeq DEF Calls

LEMMA OneCall ==
  ASSUME NEW errs, NEW f \in Frame, Harmless(f, errs) PROVE <<f>> \in Calls(errs)
  <1>1. <<f>> \in Seq(Frame) /\ Len(<<f>>) = 1 /\ <<f>>[1] = f OBVIOUS
  <1>. QED BY <1>1 DEF Calls

LEMMA TwoCalls ==
  ASSUME NEW errs, NEW f \in Frame, NEW g \in Frame, Harmless(f, errs), Harmless(g, errs)
  PROVE  <<f>> \o <<g>> \in Calls(errs)
  <1>. DEFINE h == <<f>> \o <<g>>
  <1>1. /\ <<f>> \in Seq(Frame) /\ Len(<<f>>) = 1 /\ <<f>>[1] = f
        /\ <<g>> \in Seq(Frame) /\ Len(<<g>>) = 1 /\ <<g>>[1] = g
    OBVIOUS
  <1>2. h \in Seq(Frame) /\ Len(h) = 2 /\ h[1] = f /\ h[2] = g
    BY <1>1, ConcatProperties
  <1>. HIDE DEF h
  <1>3. \A i \in 1..Len(h) : i = 1 \/ i = 2 BY <1>2
  <1>4. \A i \in 1..Len(h) : Harmless(h[i], errs) BY <1>2, <1>3
  <1>5. h \in Calls(errs) BY <1>2, <1>4 DEF Calls
  <1>. QED BY <1>5 DEF h

LEMMA ExpressionCalls ==
  ASSUME NEW n \in Binding, NEW errs PROVE parse_expression(n) \in Calls(errs)
  BY LevelIsHarmless, OneCall DEF parse_expression

LEMMA BlockCalls == ASSUME NEW errs PROVE parse_block_statement \in Calls(errs)
  <1>1. "block" \in PlainPoints BY DEF PlainPoints
  <1>. QED BY <1>1, PlainIsHarmless, OneCall DEF parse_block_statement

LEMMA StatementCalls == ASSUME NEW t, NEW errs PROVE parse_statement(t) \in Calls(errs)
  <1>1. {"let", "return", "jump", "end_of_statement"} \subseteq PlainPoints BY DEF PlainPoints
  <1>2. \A p \in {"let", "return", "jump", "end_of_statement"} :
          /\ Point(p) \in Frame /\ Harmless(Point(p), errs)
          /\ <<Point(p)>> \in Calls(errs)
    BY <1>1, PlainIsHarmless, OneCall
  <1>3. Level("expression", LOWEST) \in Frame /\ Harmless(Level("expression", LOWEST), errs)
    BY LevelIsHarmless, BindingValues
  <1>4. <<Point("end_of_statement")>> \o parse_expression(LOWEST) \in Calls(errs)
    BY <1>2, <1>3, TwoCalls DEF parse_expression
  <1>. QED BY <1>2, <1>4 DEF parse_statement

----------------------------------------------------------------------------
(* The stack of calls *)

LEMMA TopIsFrame ==
  ASSUME NEW s \in Seq(Frame), s # <<>>
  PROVE  Len(s) \in Nat \ {0} /\ s[Len(s)] \in Frame
  OBVIOUS

LEMMA BelowTop ==
  ASSUME NEW s \in Seq(Frame), s # <<>>
  PROVE  LET below == SubSeq(s, 1, Len(s) - 1)
         IN  /\ below \in Seq(Frame) /\ Len(below) = Len(s) - 1
             /\ \A i \in 1..(Len(s) - 1) : below[i] = s[i]
  <1>. DEFINE n == Len(s) - 1
  <1>1. n \in Nat /\ Len(s) \in Nat /\ n <= Len(s) BY TopIsFrame
  <1>2. \A i \in 1..n : s[i] \in Frame BY <1>1, ElementOfSeq
  <1>. HIDE DEF n
  <1>3. /\ SubSeq(s, 1, n) \in Seq(Frame) /\ Len(SubSeq(s, 1, n)) = n
        /\ \A i \in 1..n : SubSeq(s, 1, n)[i] = s[i]
    BY <1>1, <1>2
  <1>. QED BY <1>3 DEF n

(* A function returns: one that is no loop, or after an error.             *)
LEMMA Returned ==
  ASSUME NEW s, NEW flag, NEW e1, NEW d1, NEW e2, NEW d2,
         StackOK(s, flag, e1, d1), s # <<>>, e1 => e2, d1 => d2,
         d2 \/ ~IsLoop(s[Len(s)])
  PROVE  StackOK(SubSeq(s, 1, Len(s) - 1), flag, e2, d2)
  <1>. DEFINE t == SubSeq(s, 1, Len(s) - 1)
  <1>1. /\ s \in Seq(Frame) /\ Len(s) \in Nat \ {0}
        /\ t \in Seq(Frame) /\ Len(t) = Len(s) - 1
        /\ \A i \in 1..Len(t) : i \in 1..Len(s) /\ t[i] = s[i]
    BY BelowTop, TopIsFrame DEF StackOK
  <1>2. ASSUME flag, ~d2
        PROVE  \E i \in 1..Len(t) : IsLoop(t[i]) /\ t[i].alter
    <2>1. PICK i \in 1..Len(s) : IsLoop(s[i]) /\ s[i].alter BY <1>2 DEF StackOK
    <2>2. i # Len(s) BY <2>1, <1>2
    <2>3. i \in 1..Len(t) BY <1>1, <2>2
    <2>. QED BY <1>1, <2>1, <2>3
  <1>3. \A i \in 1..Len(t) : \A j \in 1..(i - 1) : j \in 1..Len(t) BY <1>1
  <1>. HIDE DEF t
  <1>4. t \in Seq(Frame) BY <1>1
  <1>5. \A i \in 1..Len(t) : t[i].at = "program" => i = 1 BY <1>1 DEF StackOK
  <1>6. \A i \in 1..Len(t) : Gap(t[i]) => e2 BY <1>1 DEF StackOK
  <1>7. \A i \in 1..Len(t) : IsLoop(t[i]) => flag BY <1>1 DEF StackOK
  <1>8. ASSUME NEW i \in 1..Len(t), NEW j \in 1..(i - 1), IsLoop(t[i]), IsLoop(t[j])
        PROVE  ~t[i].alter
    <2>1. /\ i \in 1..Len(s) /\ j \in 1..(i - 1)
          /\ t[i] = s[i] /\ t[j] = s[j] /\ IsLoop(s[i]) /\ IsLoop(s[j])
      BY <1>1, <1>3, <1>8
    <2>. QED BY <2>1 DEF StackOK
  <1>9. StackOK(t, flag, e2, d2)
    BY <1>2, <1>4, <1>5, <1>6, <1>7, <1>8 DEF StackOK
  <1>. QED BY <1>9 DEF t

(* A function goes on.                                                     *)
LEMMA WentOn ==
  ASSUME NEW s, NEW flag, NEW e1, NEW d1, NEW e2, NEW d2, NEW f \in Frame,
         StackOK(s, flag, e1, d1), s # <<>>, e1 => e2, d1 => d2,
         Continues(s[Len(s)], f, e2)
  PROVE  StackOK(Append(SubSeq(s, 1, Len(s) - 1), f), flag, e2, d2)
  <1>. DEFINE t == Append(SubSeq(s, 1, Len(s) - 1), f)
  <1>1. /\ s \in Seq(Frame) /\ Len(s) \in Nat \ {0}
        /\ t \in Seq(Frame) /\ Len(t) = Len(s)
        /\ \A i \in 1..(Len(s) - 1) : t[i] = s[i]
        /\ t[Len(s)] = f
    BY BelowTop, TopIsFrame, AppendProperties DEF StackOK
  <1>2. \A i \in 1..Len(s) : i = Len(s) \/ i \in 1..(Len(s) - 1) BY <1>1
  <1>. HIDE DEF t
  <1>3. \A i \in 1..Len(s) :
          /\ IsLoop(t[i]) <=> IsLoop(s[i])
          /\ IsLoop(s[i]) => t[i].alter = s[i].alter
          /\ t[i].at = "program" => s[i].at = "program"
          /\ Gap(t[i]) => Gap(s[i]) \/ e2
    BY <1>1, <1>2 DEF Continues
  <1>4. StackOK(t, flag, e2, d2)
    BY <1>1, <1>3 DEF StackOK
  <1>. QED BY <1>4 DEF t

(* A function calls others.                                                *)
LEMMA Called ==
  ASSUME NEW s, NEW flag, NEW errs, NEW ever, NEW g \in Calls(errs),
         StackOK(s, flag, errs, ever), Len(s) > 0
  PROVE  StackOK(s \o g, flag, errs, ever)
  <1>. DEFINE t == s \o g
  <1>1. /\ s \in Seq(Frame) /\ g \in Seq(Frame)
        /\ Len(s) \in Nat /\ Len(g) \in Nat
        /\ t \in Seq(Frame) /\ Len(t) = Len(s) + Len(g)
        /\ \A i \in 1..Len(s) : t[i] = s[i]
        /\ \A i \in 1..Len(t) : i \notin 1..Len(s) =>
             i - Len(s) \in 1..Len(g) /\ t[i] = g[i - Len(s)]
    BY ConcatProperties DEF StackOK, Calls
  <1>2. \A i \in 1..Len(t) : i \in 1..Len(s) \/ Harmless(t[i], errs)
    BY <1>1 DEF Calls
  <1>3. \A i \in 1..Len(s) : i \in 1..Len(t) BY <1>1
  <1>. HIDE DEF t
  <1>4. \A i \in 1..Len(t) : \A j \in 1..(i - 1) : j \in 1..Len(t) BY <1>1
  <1>5. \A i \in 1..Len(t) :
          /\ t[i].at = "program" \/ IsLoop(t[i]) => i \in 1..Len(s)
          /\ Gap(t[i]) => i \in 1..Len(s) \/ errs
          /\ i \in 1..Len(s) => t[i] = s[i]
    BY <1>1, <1>2 DEF Harmless
  <1>6. flag /\ ~ever => \E i \in 1..Len(t) : IsLoop(t[i]) /\ t[i].alter
    BY <1>1, <1>3 DEF StackOK
  <1>7. StackOK(t, flag, errs, ever)
    <2>1. \A i \in 1..Len(t) : t[i].at = "program" => i = 1 BY <1>5 DEF StackOK
    <2>2. \A i \in 1..Len(t) : Gap(t[i]) => errs BY <1>5 DEF StackOK
    <2>3. \A i \in 1..Len(t) : IsLoop(t[i]) => flag BY <1>5 DEF StackOK
    <2>4. \A i \in 1..Len(t) : \A j \in 1..(i - 1) :
            IsLoop(t[i]) /\ IsLoop(t[j]) => ~t[i].alter
      BY <1>4, <1>5 DEF StackOK
    <2>. QED BY <1>1, <1>6, <2>1, <2>2, <2>3, <2>4 DEF StackOK
  <1>. QED BY <1>7 DEF t

----------------------------------------------------------------------------
(* What a step does to the tokens, and to the stack *)

(* The tokens have their types, and no error is forgotten.                 *)
TokensKept == TokensOK' /\ (errors => errors') /\ (erred => erred')

SameLine == UNCHANGED <<suite, lines, inside_loop, status>>

LEMMA FollowType ==
  ASSUME NEW t, suite \in DOMAIN Suites
  PROVE  Follow(t) \subseteq AllTokens
  BY SuitesTyped DEF Follow, Suite, AllTokens

LEMMA TokenSteps ==
  ASSUME IInv
  PROVE  /\ parser_next_token(TRUE) => TokensKept
         /\ parser_next_token(peek \in {"SEMICOLON", "END_OF_FILE"}) => TokensKept
         /\ parser_next_token(peek = "IDENT") => TokensKept
         /\ parser_next_token(peek = "LBRACE") => TokensKept
         /\ Quiet => TokensKept
         /\ add_error => TokensKept /\ errors' /\ erred'
  <1>1. suite \in DOMAIN Suites /\ TokensOK BY DEF IInv
  <1>2. Follow(peek) \subseteq AllTokens /\ "END_OF_FILE" \in AllTokens
    BY <1>1, FollowType DEF AllTokens
  <1>3. parser_next_token(TRUE) => TokensKept
    BY <1>1, <1>2 DEF TokensKept, TokensOK, parser_next_token, errorVars
  <1>4. parser_next_token(peek \in {"SEMICOLON", "END_OF_FILE"}) => TokensKept
    BY <1>1, <1>2 DEF TokensKept, TokensOK, parser_next_token, errorVars
  <1>5. parser_next_token(peek = "IDENT") => TokensKept
    BY <1>1, <1>2 DEF TokensKept, TokensOK, parser_next_token, errorVars
  <1>6. parser_next_token(peek = "LBRACE") => TokensKept
    BY <1>1, <1>2 DEF TokensKept, TokensOK, parser_next_token, errorVars
  <1>7. Quiet => TokensKept
    BY <1>1 DEF TokensKept, TokensOK, Quiet, tokenVars, errorVars
  <1>8. add_error => TokensKept /\ errors' /\ erred'
    <2>1. Suite.slack \in Nat BY <1>1, SuitesTyped DEF Suite
    <2>. QED BY <1>1, <2>1 DEF TokensKept, TokensOK, add_error
  <1>. QED BY <1>3, <1>4, <1>5, <1>6, <1>7, <1>8

LEMMA TopOfStack ==
  ASSUME IInv, frames # <<>>
  PROVE  /\ Top \in Frame
         /\ Gap(Top) => errors
         /\ Top.at = "program" => Len(frames) = 1
  <1>1. frames \in Seq(Frame) /\ StackOK(frames, inside_loop, errors, erred)
    BY DEF IInv, CallsOK, StackOK
  <1>2. Len(frames) \in 1..Len(frames) /\ Top \in Frame BY <1>1, TopIsFrame DEF Top
  <1>. QED BY <1>1, <1>2 DEF StackOK, Top

LEMMA ReturnKeeps ==
  ASSUME IInv, frames # <<>>, TokensKept, SameLine,
         frames' = Below, ret' \in Nodes \cup {NONE}, ret' = NULL => errors',
         erred' \/ ~IsLoop(Top)
  PROVE  IInv'
  <1>1. StackOK(Below, inside_loop, errors', erred')
    BY Returned DEF IInv, CallsOK, TokensKept, Below, Top
  <1>. QED BY <1>1 DEF IInv, CallsOK, TokensKept, SameLine

LEMMA GoKeeps ==
  ASSUME IInv, frames # <<>>, TokensKept, SameLine,
         NEW f \in Frame, Continues(Top, f, errors'),
         frames' = Append(Below, f), ret' = NONE
  PROVE  IInv'
  <1>1. StackOK(Append(Below, f), inside_loop, errors', erred')
    BY WentOn DEF IInv, CallsOK, TokensKept, Below, Top
  <1>2. NONE # NULL BY PointersDistinct
  <1>. QED BY <1>1, <1>2 DEF IInv, CallsOK, TokensKept, SameLine

LEMMA CallKeeps ==
  ASSUME IInv, frames # <<>>, TokensKept, SameLine,
         NEW f \in Frame, Continues(Top, f, errors'), NEW g \in Calls(errors'),
         frames' = Append(Below, f) \o g, ret' = NONE
  PROVE  IInv'
  <1>1. StackOK(Append(Below, f), inside_loop, errors', erred')
    BY WentOn DEF IInv, CallsOK, TokensKept, Below, Top
  <1>2. Len(Append(Below, f)) > 0
    <2>1. frames \in Seq(Frame) BY DEF IInv, CallsOK, StackOK
    <2>2. Below \in Seq(Frame) /\ Len(Below) \in Nat BY <2>1, BelowTop, LenProperties DEF Below
    <2>. QED BY <2>2, AppendProperties
  <1>3. StackOK(frames', inside_loop, errors', erred') BY <1>1, <1>2, Called
  <1>4. NONE # NULL BY PointersDistinct
  <1>. QED BY <1>3, <1>4 DEF IInv, CallsOK, TokensKept, SameLine

(* Going on at a point that remembers the same.                            *)
LEMMA ToKeeps ==
  ASSUME IInv, frames # <<>>, TokensKept, NEW p, SameFields(Top.at, p)
  PROVE  To(p) \in Frame /\ Continues(Top, To(p), errors')
  BY TopOfStack, Moved DEF To, TokensKept

LEMMA PointKeeps ==
  ASSUME ~IsLoop(Top), NEW p \in PlainPoints
  PROVE  Point(p) \in Frame /\ Continues(Top, Point(p), errors')
  BY PlainIsHarmless DEF Continues, Harmless

----------------------------------------------------------------------------
(* Every action keeps the invariant *)

LEMMA ExpectPeek == ASSUME IInv, expect_peek, UNCHANGED lineVars PROVE IInv'
  <1>1. PICK p \in DOMAIN Expectations :
          /\ frames # <<>> /\ Top.at = p
          /\ \/ /\ parser_next_token(TRUE)
                /\ Call(To(Expectations[p].next), Expectations[p].calls)
             \/ add_error /\ Return(NULL)
          /\ UNCHANGED <<inside_loop, status>>
    BY DEF expect_peek
  <1>2. SameFields(p, Expectations[p].next) /\ Expectations[p].calls \in Calls(errors')
    <2>. USE BlockCalls, NoCalls
         DEF Expectations, Expect, ThenBlock, SameFields, PlainPoints, LoopPoints
    <2>. QED OBVIOUS
  <1>3. SameLine BY <1>1 DEF SameLine, lineVars
  <1>4. CASE parser_next_token(TRUE) /\ Call(To(Expectations[p].next), Expectations[p].calls)
    <2>1. TokensKept BY <1>4, TokenSteps
    <2>2. /\ To(Expectations[p].next) \in Frame
          /\ Continues(Top, To(Expectations[p].next), errors')
      BY <1>1, <1>2, <2>1, ToKeeps
    <2>. QED BY <1>1, <1>2, <1>3, <1>4, <2>1, <2>2, CallKeeps DEF Call
  <1>5. CASE add_error /\ Return(NULL)
    BY <1>1, <1>3, <1>5, TokenSteps, ReturnKeeps DEF Return, Nodes
  <1>. QED BY <1>1, <1>4, <1>5

LEMMA ParseOperand == ASSUME IInv, parse_operand, UNCHANGED lineVars PROVE IInv'
  <1>1. PICK p \in DOMAIN Operands :
          /\ frames # <<>> /\ Top.at = p
          /\ parser_next_token(TRUE)
          /\ Call(To(Operands[p]), parse_expression(LOWEST))
          /\ UNCHANGED <<inside_loop, status>>
    BY DEF parse_operand, At
  <1>2. SameFields(p, Operands[p]) BY DEF Operands, SameFields, PlainPoints, LoopPoints
  <1>3. TokensKept /\ SameLine BY <1>1, TokenSteps DEF SameLine, lineVars
  <1>4. To(Operands[p]) \in Frame /\ Continues(Top, To(Operands[p]), errors')
    BY <1>1, <1>2, <1>3, ToKeeps
  <1>5. parse_expression(LOWEST) \in Calls(errors') BY ExpressionCalls, BindingValues
  <1>. QED BY <1>1, <1>3, <1>4, <1>5, CallKeeps DEF Call

LEMMA LetStatement == ASSUME IInv, parse_let_statement, UNCHANGED lineVars PROVE IInv'
  <1>1. /\ frames # <<>> /\ Top.at = "let_value"
        /\ \/ ret = NULL /\ status' = "dead" /\ Quiet /\ UNCHANGED callVars
           \/ /\ parser_next_token(peek \in {"SEMICOLON", "END_OF_FILE"})
              /\ Go(Point("end_of_statement")) /\ UNCHANGED status
        /\ UNCHANGED inside_loop
    BY DEF parse_let_statement, Back
  <1>2. CASE ret = NULL /\ status' = "dead" /\ Quiet /\ UNCHANGED callVars
    <2>1. UNCHANGED <<frames, ret, inside_loop, errors, erred, suite, lines>>
      BY <1>1, <1>2 DEF Quiet, callVars, errorVars, lineVars
    <2>2. TokensKept BY <1>2, TokenSteps
    <2>. QED BY <1>2, <2>1, <2>2 DEF IInv, CallsOK, TokensKept
  <1>3. CASE /\ parser_next_token(peek \in {"SEMICOLON", "END_OF_FILE"})
             /\ Go(Point("end_of_statement")) /\ UNCHANGED status
    <2>1. TokensKept /\ SameLine BY <1>1, <1>3, TokenSteps DEF SameLine, lineVars
    <2>2. ~IsLoop(Top) /\ "end_of_statement" \in PlainPoints
      BY <1>1 DEF IsLoop, LoopPoints, PlainPoints
    <2>. QED BY <1>1, <1>3, <2>1, <2>2, PointKeeps, GoKeeps DEF Go
  <1>. QED BY <1>1, <1>2, <1>3

LEMMA ReturnStatement ==
  ASSUME IInv, parse_return_statement, UNCHANGED lineVars PROVE IInv'
  <1>1. TokensKept /\ SameLine
    BY TokenSteps DEF parse_return_statement, SameLine, lineVars
  <1>2. /\ frames # <<>> /\ ~IsLoop(Top) /\ "end_of_statement" \in PlainPoints
        /\ Go(Point("end_of_statement"))
    BY DEF parse_return_statement, Back, IsLoop, LoopPoints, PlainPoints
  <1>. QED BY <1>1, <1>2, PointKeeps, GoKeeps DEF Go

LEMMA JumpStatement == ASSUME IInv, parse_jump_statement, UNCHANGED lineVars PROVE IInv'
  <1>1. /\ frames # <<>> /\ ~IsLoop(Top) /\ "end_of_statement" \in PlainPoints
        /\ SameLine
    BY DEF parse_jump_statement, At, IsLoop, LoopPoints, PlainPoints, SameLine, lineVars
  <1>2. CASE inside_loop
    <2>1. TokensKept /\ Go(Point("end_of_statement"))
      BY <1>2, TokenSteps DEF parse_jump_statement
    <2>. QED BY <1>1, <2>1, PointKeeps, GoKeeps DEF Go
  <1>3. CASE ~inside_loop
    <2>1. add_error /\ Return(NULL) BY <1>3 DEF parse_jump_statement
    <2>. QED BY <1>1, <2>1, TokenSteps, ReturnKeeps DEF Return, Nodes
  <1>. QED BY <1>2, <1>3

LEMMA EndOfStatement == ASSUME IInv, end_of_statement, UNCHANGED lineVars PROVE IInv'
  <1>1. frames # <<>> /\ ~IsLoop(Top) /\ SameLine /\ Return(Closed)
    BY DEF end_of_statement, IsLoop, LoopPoints, SameLine, lineVars
  <1>2. TokensKept BY TokenSteps DEF end_of_statement
  <1>. QED BY <1>1, <1>2, ReturnKeeps, BindingValues DEF Return, Nodes

LEMMA StayKeeps ==
  ASSUME IInv, frames # <<>>, TokensKept, Top.at # "program"
  PROVE  Top \in Frame /\ Continues(Top, Top, errors')
  BY TopOfStack DEF Continues, TokensKept

LEMMA BlockStatements == ASSUME IInv, block_statements, UNCHANGED lineVars PROVE IInv'
  <1>1. frames # <<>> /\ Top.at = "block" /\ ~IsLoop(Top) /\ SameLine
    BY DEF block_statements, IsLoop, LoopPoints, SameLine, lineVars
  <1>2. TokensKept BY TokenSteps DEF block_statements
  <1>3. CASE Return(Closed)
    BY <1>1, <1>2, <1>3, ReturnKeeps, BindingValues DEF Return, Nodes
  <1>4. CASE Call(Top, parse_statement(peek))
    BY <1>1, <1>2, <1>4, StayKeeps, StatementCalls, CallKeeps DEF Call
  <1>. QED BY <1>3, <1>4 DEF block_statements

(* A loop begins.  It will clear the flag if it has set it.                *)
LEMMA LoopBegun ==
  ASSUME NEW s, NEW flag \in BOOLEAN, NEW errs, NEW ever, NEW f \in Frame,
         StackOK(s, flag, errs, ever), Len(s) > 0, IsLoop(f), f.alter = ~flag
  PROVE  StackOK(Append(s, f), TRUE, errs, ever)
  <1>. DEFINE t == Append(s, f)
              n == Len(s) + 1
  <1>1. /\ s \in Seq(Frame) /\ Len(s) \in Nat /\ n \in Nat \ {0, 1} /\ n = Len(s) + 1
        /\ t \in Seq(Frame) /\ Len(t) = n
        /\ \A i \in 1..Len(s) : t[i] = s[i]
        /\ t[n] = f
    BY AppendProperties, LenProperties DEF StackOK
  <1>2. \A i \in 1..Len(t) : i = n \/ i \in 1..Len(s) BY <1>1
  <1>3. n \in 1..Len(t) /\ \A i \in 1..Len(s) : i \in 1..Len(t) BY <1>1
  <1>. HIDE DEF t, n
  <1>4. ~Gap(f) /\ f.at # "program"
    BY DEF IsLoop, Gap, LoopPoints
  <1>5. \A i \in 1..Len(t) : t[i].at = "program" => i = 1
    BY <1>1, <1>2, <1>4 DEF StackOK
  <1>6. \A i \in 1..Len(t) : Gap(t[i]) => errs BY <1>1, <1>2, <1>4 DEF StackOK
  <1>7. \A i \in 1..Len(t) : \A j \in 1..(i - 1) :
          IsLoop(t[i]) /\ IsLoop(t[j]) => ~t[i].alter
    <2>1. SUFFICES ASSUME NEW i \in 1..Len(t), NEW j \in 1..(i - 1),
                          IsLoop(t[i]), IsLoop(t[j])
                   PROVE  ~t[i].alter
      OBVIOUS
    <2>2. j \in 1..Len(s) /\ t[j] = s[j] BY <1>1
    <2>3. flag BY <2>1, <2>2 DEF StackOK
    <2>4. CASE i = n BY <1>1, <2>3, <2>4
    <2>5. CASE i \in 1..Len(s) BY <1>1, <2>1, <2>2, <2>5 DEF StackOK
    <2>. QED BY <1>2, <2>4, <2>5
  <1>8. ~ever => \E i \in 1..Len(t) : IsLoop(t[i]) /\ t[i].alter
    <2>1. CASE flag BY <1>1, <1>3, <2>1 DEF StackOK
    <2>2. CASE ~flag BY <1>1, <1>3, <2>2
    <2>. QED BY <2>1, <2>2
  <1>9. StackOK(t, TRUE, errs, ever) BY <1>1, <1>5, <1>6, <1>7, <1>8 DEF StackOK
  <1>. QED BY <1>9 DEF t

LEMMA LoopEnded ==
  ASSUME NEW s, NEW flag \in BOOLEAN, NEW errs, NEW ever,
         StackOK(s, flag, errs, ever), s # <<>>, s[Len(s)].alter \in BOOLEAN,
         IsLoop(s[Len(s)])
  PROVE  StackOK(SubSeq(s, 1, Len(s) - 1), flag /\ ~s[Len(s)].alter, errs, ever)
  <1>. DEFINE t == SubSeq(s, 1, Len(s) - 1)
              n == Len(s)
  <1>1. /\ s \in Seq(Frame) /\ n \in Nat \ {0} /\ n = Len(s)
        /\ t \in Seq(Frame) /\ Len(t) = n - 1
        /\ \A i \in 1..Len(t) : i \in 1..(n - 1) /\ i \in 1..Len(s) /\ t[i] = s[i]
        /\ n \in 1..Len(s)
    BY BelowTop, TopIsFrame DEF StackOK
  <1>2. \A i \in 1..Len(t) : \A j \in 1..(i - 1) : j \in 1..Len(t) BY <1>1
  <1>3. \A i \in 1..Len(s) : i = n \/ i \in 1..Len(t) BY <1>1
  <1>. HIDE DEF t, n
  <1>4. \A i \in 1..Len(t) : IsLoop(t[i]) => flag /\ ~s[n].alter
    BY <1>1 DEF StackOK
  <1>5. flag /\ ~s[n].alter /\ ~ever => \E i \in 1..Len(t) : IsLoop(t[i]) /\ t[i].alter
    BY <1>1, <1>3 DEF StackOK
  <1>6. \A i \in 1..Len(t) : \A j \in 1..(i - 1) :
          IsLoop(t[i]) /\ IsLoop(t[j]) => ~t[i].alter
    BY <1>1, <1>2 DEF StackOK
  <1>7. StackOK(t, flag /\ ~s[n].alter, errs, ever)
    BY <1>1, <1>4, <1>5, <1>6 DEF StackOK
  <1>. QED BY <1>7 DEF t, n

LEMMA EndOfLoop == ASSUME IInv, end_of_loop, UNCHANGED lineVars PROVE IInv'
  <1>1. /\ frames # <<>> /\ Top.at = "loop_body" /\ inside_loop \in BOOLEAN
        /\ inside_loop' = (inside_loop /\ ~Top.alter)
        /\ frames' = Below /\ ret' = Closed
        /\ UNCHANGED <<errors, erred, status, suite, lines>>
    BY DEF end_of_loop, Back, Return, Quiet, errorVars, lineVars, IInv, CallsOK
  <1>2. TokensKept BY TokenSteps DEF end_of_loop
  <1>3. IsLoop(Top) /\ Top.alter \in BOOLEAN
    <2>1. Top \in LoopFrame BY <1>1, TopOfStack, FrameClasses DEF LoopPoints
    <2>. QED BY <2>1 DEF LoopFrame, IsLoop
  <1>4. StackOK(Below, inside_loop /\ ~Top.alter, errors, erred)
    BY <1>1, <1>3, LoopEnded DEF IInv, CallsOK, Below, Top
  <1>. QED
    BY <1>1, <1>2, <1>4, BindingValues DEF IInv, CallsOK, TokensKept, Nodes

LEMMA PrefixCalls ==
  ASSUME cur \in PrefixTokens, cur \notin Loops, NEW errs
  PROVE  <<PrefixFrame(cur)>> \in Calls(errs)
  <1>1. {"prefix", "grouped", "if", "function", "hash"} \subseteq PlainPoints
    BY DEF PlainPoints
  <1>2. \A p \in {"prefix", "grouped", "if", "function", "hash"} :
          Point(p) \in Frame /\ Harmless(Point(p), errs)
    BY <1>1, PlainIsHarmless
  <1>3. /\ List("LBRACKET", Closed) \in Frame
        /\ Harmless(List("LBRACKET", Closed), errs)
    BY ListIsHarmless, BindingValues DEF Openers, closer
  <1>4. PrefixFrame(cur) \in Frame /\ Harmless(PrefixFrame(cur), errs)
    BY <1>2, <1>3 DEF PrefixFrame, PrefixTokens, Loops
  <1>. QED BY <1>4, OneCall

LEMMA ParsePrefix == ASSUME IInv, parse_prefix, UNCHANGED lineVars PROVE IInv'
  <1>. DEFINE rest == Level("operators", Top.prec)
  <1>1. /\ frames # <<>> /\ Top.at = "expression" /\ ~IsLoop(Top)
        /\ inside_loop \in BOOLEAN /\ inside_loop' = (inside_loop \/ cur \in Loops)
        /\ UNCHANGED <<status, suite, lines>>
    BY DEF parse_prefix, At, IsLoop, LoopPoints, lineVars, IInv, CallsOK
  <1>2. rest \in Frame /\ Continues(Top, rest, errors')
    <2>1. Top \in LevelFrame BY <1>1, TopOfStack, FrameClasses
    <2>2. Top.prec \in Binding BY <2>1 DEF LevelFrame
    <2>. QED BY <1>1, <2>2, LevelIsHarmless DEF Continues, Harmless
  <1>3. TokensKept BY TokenSteps DEF parse_prefix
  <1>. HIDE DEF rest
  <1>4. CASE cur \in Literals /\ frames' = Append(Below, rest) /\ ret' = Closed
    <2>1. inside_loop' = inside_loop BY <1>1, <1>4 DEF Literals, Loops
    <2>2. StackOK(Append(Below, rest), inside_loop, errors', erred')
      BY <1>1, <1>2, <1>3, WentOn DEF IInv, CallsOK, TokensKept, Below, Top
    <2>. QED
      BY <1>1, <1>3, <1>4, <2>1, <2>2, BindingValues DEF IInv, CallsOK, TokensKept, Nodes
  <1>5. CASE cur \in PrefixTokens /\ Call(rest, <<PrefixFrame(cur)>>) /\ cur \notin Loops
    <2>1. SameLine BY <1>1, <1>5 DEF SameLine
    <2>2. <<PrefixFrame(cur)>> \in Calls(errors') BY <1>5, PrefixCalls
    <2>. QED BY <1>1, <1>2, <1>3, <1>5, <2>1, <2>2, CallKeeps DEF Call
  <1>6. CASE Call(rest, <<PrefixFrame(cur)>>) /\ cur \in Loops
    <2>. DEFINE s == Append(Below, rest)
                f == PrefixFrame(cur)
    <2>1. inside_loop' = TRUE BY <1>1, <1>6
    <2>2. f \in Frame /\ IsLoop(f) /\ f.alter = ~inside_loop
      BY <1>1, <1>6 DEF PrefixFrame, Loop, Loops, Frame, LoopFrame, LoopPoints, IsLoop
    <2>3. StackOK(s, inside_loop, errors', erred')
      BY <1>1, <1>2, <1>3, WentOn DEF IInv, CallsOK, TokensKept, Below, Top
    <2>4. s \in Seq(Frame) /\ Len(s) > 0
      <3>1. Below \in Seq(Frame) /\ Len(Below) \in Nat
        BY <1>1, BelowTop, LenProperties DEF IInv, CallsOK, StackOK, Below
      <3>. QED BY <3>1, <1>2, AppendProperties
    <2>. HIDE DEF s, f
    <2>5. StackOK(Append(s, f), TRUE, errors', erred') BY <1>1, <2>2, <2>3, <2>4, LoopBegun
    <2>6. frames' = Append(s, f) /\ ret' = NONE
      <3>1. frames' = s \o <<f>> /\ ret' = NONE BY <1>6 DEF Call, s, f
      <3>. QED BY <3>1, <2>2, <2>4, AppendIsConcat
    <2>7. NONE # NULL BY PointersDistinct
    <2>. QED BY <1>1, <1>3, <2>1, <2>5, <2>6, <2>7 DEF IInv, CallsOK, TokensKept
  <1>7. CASE cur \notin Literals \cup PrefixTokens /\ add_error /\ Return(NULL)
    <2>1. SameLine BY <1>1, <1>7 DEF SameLine, PrefixTokens, Loops
    <2>. QED BY <1>1, <1>3, <1>7, <2>1, TokenSteps, ReturnKeeps DEF Return, Nodes
  <1>. QED BY <1>4, <1>5, <1>6, <1>7 DEF parse_prefix, rest

LEMMA InfixCalls ==
  ASSUME IInv, ret # NONE, NEW t, NEW errs, errors => errs
  PROVE  <<InfixFrame(t, ret)>> \in Calls(errs)
  <1>1. {"index", "reassign"} \subseteq PlainPoints BY DEF PlainPoints
  <1>2. \A p \in {"index", "reassign"} : Point(p) \in Frame /\ Harmless(Point(p), errs)
    BY <1>1, PlainIsHarmless
  <1>3. List("LPAREN", CALL) \in Frame /\ Harmless(List("LPAREN", CALL), errs)
    BY ListIsHarmless, BindingValues DEF Openers, closer
  <1>. DEFINE f == [at |-> "infix", prec |-> precedence(t), left |-> ret]
  <1>4. f \in Frame /\ Harmless(f, errs)
    <2>1. ret \in Nodes /\ (ret = NULL => errs) /\ precedence(t) \in Binding
      BY PrecedenceType DEF IInv, CallsOK
    <2>. QED BY <2>1 DEF Frame, OpFrame, Harmless, IsLoop, Gap, LoopPoints
  <1>. HIDE DEF f
  <1>5. InfixFrame(t, ret) \in {List("LPAREN", CALL), Point("index"), Point("reassign"), f}
    BY DEF InfixFrame, f
  <1>. QED BY <1>2, <1>3, <1>4, <1>5, OneCall

LEMMA ParseInfix == ASSUME IInv, parse_infix, UNCHANGED lineVars PROVE IInv'
  <1>1. /\ frames # <<>> /\ Top.at = "operators" /\ ~IsLoop(Top) /\ Top.at # "program"
        /\ ret # NONE /\ SameLine
    BY DEF parse_infix, Back, IsLoop, LoopPoints, SameLine, lineVars
  <1>2. TokensKept BY TokenSteps DEF parse_infix
  <1>3. CASE Call(Top, <<InfixFrame(peek, ret)>>)
    <2>1. <<InfixFrame(peek, ret)>> \in Calls(errors')
      BY <1>1, <1>2, InfixCalls DEF TokensKept
    <2>. QED BY <1>1, <1>2, <1>3, <2>1, StayKeeps, CallKeeps DEF Call
  <1>4. CASE Return(ret)
    BY <1>1, <1>2, <1>4, ReturnKeeps DEF Return, IInv, CallsOK, TokensKept
  <1>. QED BY <1>3, <1>4 DEF parse_infix

LEMMA PrefixExpression ==
  ASSUME IInv, parse_prefix_expression, UNCHANGED lineVars PROVE IInv'
  <1>1. /\ frames # <<>> /\ SameFields(Top.at, "prefix_operand") /\ SameLine
        /\ Call(To("prefix_operand"), parse_expression(PREFIX))
    BY DEF parse_prefix_expression, At, SameFields, PlainPoints, SameLine, lineVars
  <1>2. TokensKept BY TokenSteps DEF parse_prefix_expression
  <1>. QED
    BY <1>1, <1>2, ToKeeps, ExpressionCalls, BindingValues, CallKeeps DEF Call

LEMMA InfixExpression ==
  ASSUME IInv, parse_infix_expression, UNCHANGED lineVars PROVE IInv'
  <1>1. /\ frames # <<>> /\ Top.at = "infix" /\ SameFields(Top.at, "right_operand")
        /\ Call(To("right_operand"), parse_expression(Top.prec)) /\ SameLine
    BY DEF parse_infix_expression, At, SameFields, SameLine, lineVars
  <1>2. TokensKept BY TokenSteps DEF parse_infix_expression
  <1>3. Top.prec \in Binding
    <2>1. Top \in OpFrame BY <1>1, TopOfStack, FrameClasses
    <2>. QED BY <2>1 DEF OpFrame
  <1>. QED BY <1>1, <1>2, <1>3, ToKeeps, ExpressionCalls, CallKeeps DEF Call

LEMMA ClosingBracket ==
  ASSUME IInv, parse_closing_bracket, UNCHANGED lineVars PROVE IInv'
  <1>1. /\ frames # <<>> /\ ~IsLoop(Top) /\ SameLine /\ ret \in Nodes
        /\ ret = NULL => errors
    BY DEF parse_closing_bracket, Back, IsLoop, LoopPoints, SameLine, lineVars, IInv, CallsOK
  <1>2. CASE add_error /\ Return(NULL)
    BY <1>1, <1>2, TokenSteps, ReturnKeeps DEF Return, Nodes
  <1>3. CASE /\ parser_next_token(TRUE)
             /\ Return(INDEX) \/ Return(IF ret = NULL THEN NULL ELSE Closed)
    <2>1. TokensKept BY <1>3, TokenSteps
    <2>2. /\ frames' = Below /\ ret' \in Nodes /\ (ret' = NULL => errors')
      BY <1>1, <1>3, <2>1, BindingValues DEF Return, Nodes, TokensKept
    <2>. QED BY <1>1, <2>1, <2>2, ReturnKeeps
  <1>. QED BY <1>2, <1>3 DEF parse_closing_bracket

LEMMA ParseList == ASSUME IInv, parse_list, UNCHANGED lineVars PROVE IInv'
  <1>1. /\ frames # <<>> /\ Top.at \in {"list_start", "list", "list_comma"}
        /\ ~IsLoop(Top) /\ SameLine
    BY DEF parse_list, At, Back, IsLoop, LoopPoints, SameLine, lineVars
  <1>2. Top.strength \in Binding
    <2>1. Top \in ListFrame BY <1>1, TopOfStack, FrameClasses
    <2>. QED BY <2>1 DEF ListFrame
  <1>3. SameFields(Top.at, "list") /\ SameFields(Top.at, "list_comma")
    BY <1>1 DEF SameFields
  <1>4. CASE parser_next_token(TRUE) /\ Return(Top.strength)
    BY <1>1, <1>2, <1>4, TokenSteps, ReturnKeeps, BindingValues DEF Return, Nodes
  <1>5. CASE parser_next_token(TRUE) /\ Call(To("list"), parse_expression(LOWEST))
    <2>1. TokensKept BY <1>5, TokenSteps
    <2>. QED
      BY <1>1, <1>3, <1>5, <2>1, ToKeeps, ExpressionCalls, BindingValues, CallKeeps
         DEF Call
  <1>6. CASE parser_next_token(TRUE) /\ Go(To("list_comma"))
    <2>1. TokensKept BY <1>6, TokenSteps
    <2>. QED BY <1>1, <1>3, <1>6, <2>1, ToKeeps, GoKeeps DEF Go
  <1>7. CASE add_error /\ Return(NULL)
    BY <1>1, <1>7, TokenSteps, ReturnKeeps DEF Return, Nodes
  <1>. QED BY <1>4, <1>5, <1>6, <1>7 DEF parse_list

LEMMA HashLiteral == ASSUME IInv, parse_hash_literal, UNCHANGED lineVars PROVE IInv'
  <1>1. /\ frames # <<>> /\ Top.at \in {"hash", "hash_key", "hash_value"}
        /\ ~IsLoop(Top) /\ {"hash", "hash_key"} \subseteq PlainPoints
        /\ UNCHANGED <<inside_loop, suite, lines>>
    BY DEF parse_hash_literal, At, Back, IsLoop, LoopPoints, PlainPoints, lineVars
  <1>2. TokensKept BY TokenSteps DEF parse_hash_literal
  <1>3. CASE Return(Closed) /\ UNCHANGED status
    BY <1>1, <1>2, <1>3, ReturnKeeps, BindingValues DEF Return, Nodes, SameLine
  <1>4. CASE Call(Point("hash_key"), parse_expression(LOWEST)) /\ UNCHANGED status
    BY <1>1, <1>2, <1>4, PointKeeps, ExpressionCalls, BindingValues, CallKeeps
       DEF Call, SameLine
  <1>5. CASE /\ ret # NONE /\ Go([at |-> "hash_colon", key |-> ret])
             /\ UNCHANGED status
    <2>. DEFINE f == [at |-> "hash_colon", key |-> ret]
    <2>1. ret \in Nodes /\ (ret = NULL => errors') BY <1>2, <1>5 DEF IInv, CallsOK, TokensKept
    <2>2. f \in Frame /\ Continues(Top, f, errors')
      BY <1>1, <2>1 DEF Frame, KeyFrame, Continues, IsLoop, Gap, LoopPoints
    <2>. QED BY <1>1, <1>2, <1>5, <2>2, GoKeeps DEF Go, SameLine
  <1>6. CASE /\ Top.at = "hash_value" /\ Top.key = NULL
             /\ status' = "dead" /\ Quiet /\ UNCHANGED callVars
    <2>1. errors BY <1>1, <1>6, TopOfStack DEF Gap
    <2>2. UNCHANGED <<frames, ret, errors, erred>>
      BY <1>6 DEF Quiet, callVars, errorVars
    <2>. QED BY <1>1, <1>2, <1>6, <2>1, <2>2 DEF IInv, CallsOK, TokensKept
  <1>7. CASE Go(Point("hash")) /\ UNCHANGED status
    BY <1>1, <1>2, <1>7, PointKeeps, GoKeeps DEF Go, SameLine
  <1>8. CASE add_error /\ Return(NULL) /\ UNCHANGED status
    BY <1>1, <1>8, TokenSteps, ReturnKeeps DEF Return, Nodes, SameLine
  <1>. QED BY <1>3, <1>4, <1>5, <1>6, <1>7, <1>8 DEF parse_hash_literal, Back

LEMMA FunctionParameters ==
  ASSUME IInv, parse_function_parameters, UNCHANGED lineVars PROVE IInv'
  <1>1. /\ frames # <<>> /\ ~IsLoop(Top) /\ SameLine
        /\ \E p \in {"body", "parameter", "parameter_comma"} : Go(Point(p))
    BY DEF parse_function_parameters, At, IsLoop, LoopPoints, SameLine, lineVars
  <1>2. {"body", "parameter", "parameter_comma"} \subseteq PlainPoints BY DEF PlainPoints
  <1>3. TokensKept BY TokenSteps DEF parse_function_parameters
  <1>. QED BY <1>1, <1>2, <1>3, PointKeeps, GoKeeps DEF Go

LEMMA IfExpression == ASSUME IInv, parse_if_expression, UNCHANGED lineVars PROVE IInv'
  <1>1. /\ frames # <<>> /\ ~IsLoop(Top) /\ SameLine /\ "else" \in PlainPoints
        /\ Go(Point("else")) \/ Return(Closed)
    BY DEF parse_if_expression, Back, IsLoop, LoopPoints, SameLine, lineVars, PlainPoints
  <1>2. TokensKept BY TokenSteps DEF parse_if_expression
  <1>3. CASE Go(Point("else")) BY <1>1, <1>2, <1>3, PointKeeps, GoKeeps DEF Go
  <1>4. CASE Return(Closed)
    BY <1>1, <1>2, <1>4, ReturnKeeps, BindingValues DEF Return, Nodes
  <1>. QED BY <1>1, <1>3, <1>4

LEMMA CompleteExpression ==
  ASSUME IInv, complete_expression, UNCHANGED lineVars PROVE IInv'
  <1>1. frames # <<>> /\ ~IsLoop(Top) /\ SameLine
    BY DEF complete_expression, Back, IsLoop, LoopPoints, SameLine, lineVars
  <1>2. TokensKept BY TokenSteps DEF complete_expression
  <1>3. Top.at = "right_operand" => Top.prec \in Binding
    BY <1>1, TopOfStack, FrameClasses DEF OpFrame
  <1>4. frames' = Below /\ ret' \in Binding
    BY <1>3, BindingValues DEF complete_expression, Back, Return
  <1>. QED BY <1>1, <1>2, <1>4, ReturnKeeps, BindingValues DEF Nodes

LEMMA WhileLoop == ASSUME IInv, parse_while_loop, UNCHANGED lineVars PROVE IInv'
  <1>1. /\ frames # <<>> /\ SameFields(Top.at, "loop_body") /\ SameLine
        /\ Call(To("loop_body"), parse_block_statement)
    BY DEF parse_while_loop, At, SameFields, LoopPoints, SameLine, lineVars
  <1>2. TokensKept BY TokenSteps DEF parse_while_loop
  <1>. QED BY <1>1, <1>2, ToKeeps, BlockCalls, CallKeeps DEF Call

(* A step of a for loop's header: to another point of it, and perhaps into *)
(* a statement.                                                            *)
LEMMA HeaderStep ==
  ASSUME IInv, frames # <<>>, TokensKept, SameLine, Top.at \in LoopPoints,
         NEW p \in LoopPoints,
         Go(To(p)) \/ Call(To(p), parse_statement(peek))
  PROVE  IInv'
  <1>1. To(p) \in Frame /\ Continues(Top, To(p), errors')
    BY ToKeeps DEF SameFields
  <1>2. CASE Go(To(p)) BY <1>1, <1>2, GoKeeps DEF Go
  <1>3. CASE Call(To(p), parse_statement(peek))
    BY <1>1, <1>3, StatementCalls, CallKeeps DEF Call
  <1>. QED BY <1>2, <1>3

LEMMA ForLoop == ASSUME IInv, parse_for_loop, UNCHANGED lineVars PROVE IInv'
  <1>1. SameLine BY DEF parse_for_loop, SameLine, lineVars
  <1>2. {"for_initialization", "for_condition", "for_update", "for_lbrace", "for_rparen"}
          \subseteq LoopPoints
    BY DEF LoopPoints
  <1>3. CASE parse_if_exists("for_initialization", "for_condition")
    <2>1. /\ frames # <<>> /\ Top.at = "for_initialization"
          /\ \/ Go(To("for_condition"))
             \/ Call(To("for_condition"), parse_statement(peek))
      BY <1>3 DEF parse_if_exists
    <2>2. TokensKept BY <1>3, TokenSteps DEF parse_if_exists
    <2>. QED BY <1>1, <1>2, <2>1, <2>2, HeaderStep
  <1>4. CASE parse_if_exists("for_condition", "for_update")
    <2>1. /\ frames # <<>> /\ Top.at = "for_condition"
          /\ Go(To("for_update")) \/ Call(To("for_update"), parse_statement(peek))
      BY <1>4 DEF parse_if_exists
    <2>2. TokensKept BY <1>4, TokenSteps DEF parse_if_exists
    <2>. QED BY <1>1, <1>2, <2>1, <2>2, HeaderStep
  <1>5. CASE /\ frames # <<>> /\ Top.at = "for_update" /\ parser_next_token(TRUE)
             /\ Go(To("for_lbrace")) \/ Call(To("for_rparen"), parse_statement(peek))
    <2>1. TokensKept BY <1>5, TokenSteps
    <2>. QED BY <1>1, <1>2, <1>5, <2>1, HeaderStep
  <1>6. CASE /\ frames # <<>> /\ Top.at = "for_rparen" /\ Go(To("for_lbrace"))
             /\ \/ parser_next_token(TRUE)
                \/ lenient' = TRUE /\ UNCHANGED <<cur, peek, left, open, errorVars>>
    <2>1. ASSUME lenient' = TRUE, UNCHANGED <<cur, peek, left, open, errorVars>>
          PROVE  TokensKept
      BY <2>1 DEF TokensKept, TokensOK, errorVars, IInv
    <2>2. TokensKept BY <1>6, <2>1, TokenSteps
    <2>. QED BY <1>1, <1>2, <1>6, <2>2, HeaderStep
  <1>. QED BY <1>3, <1>4, <1>5, <1>6 DEF parse_for_loop, Back

(* A statement of the program begins, with no call around it.              *)
LEMMA ProgramBegun ==
  ASSUME NEW t, NEW flag, NEW errs, NEW ever, flag => ever
  PROVE  StackOK(ProgramFrames(t), flag, errs, ever)
  <1>1. StackOK(<<>>, flag, errs, ever) BY EmptySeq DEF StackOK
  <1>. DEFINE p == ParseProgram(t)
              s == <<p>>
  <1>2. p \in Frame /\ ~IsLoop(p) /\ ~Gap(p)
    BY DEF ParseProgram, Frame, LineFrame, IsLoop, Gap, LoopPoints
  <1>. HIDE DEF p
  <1>3. s \in Seq(Frame) /\ Len(s) = 1 /\ s[1] = p BY <1>2
  <1>. HIDE DEF s
  <1>4. \A i \in 1..Len(s) : i = 1 /\ s[i] = p BY <1>3
  <1>5. StackOK(s, flag, errs, ever) BY <1>2, <1>3, <1>4 DEF StackOK
  <1>6. StackOK(s \o parse_statement(t), flag, errs, ever)
    BY <1>3, <1>5, StatementCalls, Called
  <1>. QED BY <1>1, <1>6 DEF ProgramFrames, s, p

LEMMA NextStatement == ASSUME IInv, parse_program, UNCHANGED lineVars PROVE IInv'
  <1>1. /\ frames # <<>> /\ Top.at = "program"
        /\ frames' = ProgramFrames(peek) /\ ret' = NONE
        /\ SameLine
    BY DEF parse_program, Back, SameLine, lineVars
  <1>2. TokensKept BY TokenSteps DEF parse_program
  <1>3. inside_loop => erred
    <2>1. Len(frames) = 1 /\ ~IsLoop(frames[1])
      BY <1>1, TopOfStack DEF Top, IsLoop, LoopPoints
    <2>2. \A i \in 1..Len(frames) : ~IsLoop(frames[i]) BY <2>1
    <2>. QED BY <2>2 DEF IInv, CallsOK, StackOK
  <1>4. StackOK(ProgramFrames(peek), inside_loop, errors', erred')
    BY <1>2, <1>3, ProgramBegun DEF TokensKept
  <1>5. NONE # NULL BY PointersDistinct
  <1>. QED BY <1>1, <1>2, <1>4, <1>5 DEF IInv, CallsOK, TokensKept, SameLine

LEMMA NewParser == ASSUME IInv, new_parser PROVE IInv'
  <1>1. PICK t \in Suite.first \cup {"END_OF_FILE"} : \E u \in Follow(t) :
          /\ cur' = t /\ peek' = u
          /\ left' = IF u = "END_OF_FILE" THEN 0 ELSE Suite.length - 2
          /\ frames' = ProgramFrames(t)
    BY DEF new_parser
  <1>2. /\ frames = <<>> /\ status = "running" /\ lines' = lines - 1 /\ lines > 0
        /\ ret' = NONE /\ lenient' = FALSE /\ errors' = FALSE
        /\ UNCHANGED <<suite, inside_loop, erred, status>>
    BY DEF new_parser
  <1>3. suite \in DOMAIN Suites /\ lines \in Nat /\ TokensOK /\ inside_loop \in BOOLEAN
    BY DEF IInv, CallsOK
  <1>4. lines' \in Nat /\ suite' \in DOMAIN Suites BY <1>2, <1>3
  <1>5. TokensOK'
    <2>1. t \in AllTokens /\ Follow(t) \subseteq AllTokens
      BY <1>3, SuitesTyped, FollowType DEF Suite, AllTokens
    <2>2. Suite.length - 2 \in Nat BY <1>3, SuitesTyped DEF Suite
    <2>3. cur' \in AllTokens /\ peek' \in AllTokens /\ left' \in Nat
      BY <1>1, <2>1, <2>2
    <2>4. erred' \in BOOLEAN BY <1>2, <1>3 DEF TokensOK
    <2>. QED BY <1>2, <2>3, <2>4 DEF TokensOK
  <1>6. inside_loop => erred
    <2>1. Len(frames) = 0 BY <1>2
    <2>. QED BY <2>1 DEF IInv, CallsOK, StackOK
  <1>7. StackOK(ProgramFrames(t), inside_loop, FALSE, erred) BY <1>6, ProgramBegun
  <1>8. NONE # NULL BY PointersDistinct
  <1>. QED BY <1>1, <1>2, <1>3, <1>4, <1>5, <1>7, <1>8 DEF IInv, CallsOK

----------------------------------------------------------------------------
(* The theorems *)

LEMMA Initially == ParserInit => IInv
  <1>1. ParserInit => suite \in DOMAIN Suites /\ lines \in Nat
    BY SuitesTyped DEF ParserInit, Suite
  <1>2. ParserInit => TokensOK
    <2>1. "END_OF_FILE" \in AllTokens BY DEF AllTokens
    <2>2. SUFFICES ASSUME ParserInit PROVE TokensOK OBVIOUS
    <2>3. left = 0 /\ cur = "END_OF_FILE" /\ peek = "END_OF_FILE" BY <2>2 DEF ParserInit
    <2>4. errors = FALSE /\ erred = FALSE /\ lenient = FALSE BY <2>2 DEF ParserInit
    <2>. QED BY <2>1, <2>3, <2>4 DEF TokensOK
  <1>3. StackOK(<<>>, FALSE, FALSE, FALSE) BY EmptySeq DEF StackOK
  <1>4. NONE # NULL BY PointersDistinct
  <1>. QED BY <1>1, <1>2, <1>3, <1>4 DEF ParserInit, IInv, CallsOK

LEMMA Inductive == IInv /\ [ParserNext]_parserVars => IInv'
  <1>1. SUFFICES ASSUME IInv, [ParserNext]_parserVars PROVE IInv' OBVIOUS
  <1>2. CASE parse
    <2>1. UNCHANGED lineVars BY <1>2 DEF parse
    <2>2. CASE expect_peek BY <1>1, <2>1, <2>2, ExpectPeek
    <2>3. CASE parse_operand BY <1>1, <2>1, <2>3, ParseOperand
    <2>4. CASE parse_let_statement BY <1>1, <2>1, <2>4, LetStatement
    <2>5. CASE parse_return_statement BY <1>1, <2>1, <2>5, ReturnStatement
    <2>6. CASE parse_jump_statement BY <1>1, <2>1, <2>6, JumpStatement
    <2>7. CASE end_of_statement BY <1>1, <2>1, <2>7, EndOfStatement
    <2>8. CASE block_statements BY <1>1, <2>1, <2>8, BlockStatements
    <2>9. CASE parse_prefix BY <1>1, <2>1, <2>9, ParsePrefix
    <2>10. CASE parse_infix BY <1>1, <2>1, <2>10, ParseInfix
    <2>11. CASE parse_prefix_expression BY <1>1, <2>1, <2>11, PrefixExpression
    <2>12. CASE parse_infix_expression BY <1>1, <2>1, <2>12, InfixExpression
    <2>13. CASE parse_closing_bracket BY <1>1, <2>1, <2>13, ClosingBracket
    <2>14. CASE parse_list BY <1>1, <2>1, <2>14, ParseList
    <2>15. CASE parse_hash_literal BY <1>1, <2>1, <2>15, HashLiteral
    <2>16. CASE parse_function_parameters BY <1>1, <2>1, <2>16, FunctionParameters
    <2>17. CASE parse_if_expression BY <1>1, <2>1, <2>17, IfExpression
    <2>18. CASE complete_expression BY <1>1, <2>1, <2>18, CompleteExpression
    <2>19. CASE parse_while_loop BY <1>1, <2>1, <2>19, WhileLoop
    <2>20. CASE parse_for_loop BY <1>1, <2>1, <2>20, ForLoop
    <2>21. CASE end_of_loop BY <1>1, <2>1, <2>21, EndOfLoop
    <2>. QED
      BY <1>2, <2>2, <2>3, <2>4, <2>5, <2>6, <2>7, <2>8, <2>9, <2>10, <2>11, <2>12,
         <2>13, <2>14, <2>15, <2>16, <2>17, <2>18, <2>19, <2>20, <2>21 DEF parse
  <1>3. CASE parse_program /\ UNCHANGED lineVars BY <1>1, <1>3, NextStatement
  <1>4. CASE new_parser BY <1>1, <1>4, NewParser
  <1>5. CASE UNCHANGED parserVars
    BY <1>1, <1>5
       DEF IInv, CallsOK, TokensOK, parserVars, lineVars, tokenVars, errorVars, callVars
  <1>. QED BY <1>1, <1>2, <1>3, <1>4, <1>5 DEF ParserNext

(* What the other theorems follow from: the calls under way remember what  *)
(* they need, and INSIDE_LOOP, the nesting of loops and the errors so far  *)
(* agree (parser.c:622-729).                                               *)
THEOREM Invariance == ParserSpec => []IInv
  <1>. QED BY Initially, Inductive, PTL DEF ParserSpec

(* Every call under way is at a point its function has, and what has been  *)
(* returned is a node or NULL.                                             *)
THEOREM TypeCorrect == ParserSpec => []TypeOK
  <1>1. IInv => TypeOK
    <2>1. SUFFICES ASSUME IInv PROVE TypeOK OBVIOUS
    <2>2. \A i \in DOMAIN frames : frames[i].at \in Points
      <3>1. frames \in Seq(Frame) BY <2>1 DEF IInv, CallsOK, StackOK
      <3>2. \A i \in DOMAIN frames : frames[i] \in Frame BY <3>1, LenProperties
      <3>. QED BY <3>2, FramePoints
    <2>. QED BY <2>1, <2>2 DEF TypeOK, IInv, TokensOK, CallsOK, Nodes, Binding
  <1>. QED BY <1>1, Invariance, PTL

(* In any nesting of loops, across any lines and after any errors, the     *)
(* flag parser.c keeps in a static variable is set while a loop is read,   *)
(* and unless some line had an error, only then.                           *)
THEOREM FlagIsNesting == ParserSpec => []FlagFollowsNesting
  <1>1. IInv => FlagFollowsNesting
    <2>1. SUFFICES ASSUME IInv PROVE FlagFollowsNesting OBVIOUS
    <2>2. frames \in Seq(Frame) /\ StackOK(frames, inside_loop, errors, erred)
      BY <2>1 DEF IInv, CallsOK, StackOK
    <2>3. DOMAIN frames = 1..Len(frames) BY <2>2, LenProperties
    <2>4. \A i \in DOMAIN frames : OpenLoop(i) <=> IsLoop(frames[i])
      BY DEF OpenLoop, IsLoop
    <2>. QED BY <2>2, <2>3, <2>4 DEF FlagFollowsNesting, StackOK
  <1>. QED BY <1>1, Invariance, PTL

(* No NULL that a parse_ function returns, keeps or follows is silent: the *)
(* line has an error by then, so neither the compiler nor the evaluator is *)
(* given the tree (repl.c:78).                                             *)
THEOREM MissingNodesAreReported == ParserSpec => []MissingIsReported
  <1>1. IInv => MissingIsReported
    <2>1. SUFFICES ASSUME IInv PROVE MissingIsReported OBVIOUS
    <2>2. frames \in Seq(Frame) /\ StackOK(frames, inside_loop, errors, erred)
      BY <2>1 DEF IInv, CallsOK, StackOK
    <2>3. \A i \in DOMAIN frames : Gap(frames[i]) => errors
      BY <2>2, LenProperties DEF StackOK
    <2>. QED BY <2>1, <2>3 DEF MissingIsReported, Gap, IInv, CallsOK
  <1>. QED BY <1>1, Invariance, PTL

----------------------------------------------------------------------------
(* Operators *)

(* How operators group follows from a second invariant, GInv: every call   *)
(* fits into the call below it, and what has been returned is what the     *)
(* call on top accepts.                                                    *)
(* A call of parse_expression, and of parse_infix_expression.              *)
IsLevel(f) == f.at \in {"expression", "operators"}
IsOp(f)    == f.at \in {"infix", "right_operand"}

(* An operator binds less tightly than a prefix, and its left operand at   *)
(* least as tightly as itself; calls and arrays bind tightly.              *)
Sound(f) ==
  /\ IsOp(f) => f.prec < PREFIX /\ f.left \in Binding /\ f.left >= f.prec
  /\ f.at \in {"list_start", "list", "list_comma"} => f.strength >= PREFIX

(* e has called f: an operand is read at the precedence of its operator,   *)
(* and an operator is taken only if it binds more tightly.                 *)
Fits(e, f) ==
  /\ e.at = "right_operand" => IsLevel(f) /\ f.prec = e.prec
  /\ e.at = "prefix_operand" => IsLevel(f) /\ f.prec = PREFIX
  /\ e.at = "operators" => ~IsLevel(f) /\ (IsOp(f) => e.prec < f.prec)

Nested(s) ==
  /\ \A i \in 1..Len(s) : Sound(s[i])
  /\ \A i \in 1..Len(s) : i > 1 => Fits(s[i - 1], s[i])

(* What e may be given: a node of strength v, before token t.              *)
Accepts(e, v, t) ==
  /\ e.at = "right_operand" => v > e.prec /\ precedence(t) <= e.prec
  /\ e.at = "prefix_operand" => v >= PREFIX
  /\ e.at = "operators" =>
       /\ v > e.prec \/ v >= PREFIX
       /\ precedence(t) <= v \/ v >= PREFIX

Grouped(s, v, t) ==
  /\ Nested(s)
  /\ s # <<>> /\ v # NONE => Accepts(s[Len(s)], v, t)

(* The inductive invariant: as long as the line has no error.              *)
GInv == ~errors => Grouped(frames, ret, peek)


LEMMA Strengths ==
  /\ LOWEST = 1 /\ PREFIX = 12 /\ CALL = 13 /\ INDEX = 14 /\ REASSIGN = 15 /\ Closed = 16
  /\ Binding = 1..16 /\ Binding \subseteq Int
  BY DEF LOWEST, PREFIX, CALL, INDEX, REASSIGN, Closed, Binding

(* The frames that operators care about have numbers.                      *)
LEMMA FrameNumbers ==
  ASSUME NEW f \in Frame
  PROVE  /\ IsLevel(f) => f.prec \in Int /\ f.prec >= LOWEST
         /\ IsOp(f) => f.prec \in Int
         /\ f.at = "operators" => f.prec \in Int /\ f.prec >= LOWEST
         /\ f.at = "right_operand" => f.prec \in Int
  <1>1. IsLevel(f) => f.prec \in Binding
    BY FrameClasses DEF IsLevel, LevelFrame
  <1>2. IsOp(f) => f.prec \in Binding
    BY FrameClasses DEF IsOp, OpFrame
  <1>. QED BY <1>1, <1>2, Strengths DEF IsLevel, IsOp

(* A call returns: its caller is given what it accepts.                    *)
LEMMA GroupedReturn ==
  ASSUME NEW s \in Seq(Frame), s # <<>>, Nested(s), NEW v, NEW t,
         \A e \in Frame : Sound(e) /\ Fits(e, s[Len(s)]) => Accepts(e, v, t)
  PROVE  Grouped(SubSeq(s, 1, Len(s) - 1), v, t)
  <1>. DEFINE below == SubSeq(s, 1, Len(s) - 1)
              n == Len(s) - 1
  <1>1. /\ below \in Seq(Frame) /\ Len(below) = n /\ n \in Nat /\ n + 1 = Len(s)
        /\ \A i \in 1..n : below[i] = s[i]
    BY BelowTop, TopIsFrame
  <1>. HIDE DEF below, n
  <1>2. \A i \in 1..n : i \in 1..Len(s) /\ (i > 1 => i - 1 \in 1..n) BY <1>1
  <1>3. Nested(below) BY <1>1, <1>2 DEF Nested
  <1>4. ASSUME below # <<>> PROVE Accepts(below[Len(below)], v, t)
    <2>1. n # 0 BY <1>1, <1>4
    <2>2. n \in 1..n /\ n + 1 \in 1..Len(s) /\ n + 1 > 1 /\ (n + 1) - 1 = n BY <1>1, <2>1
    <2>3. Sound(s[n]) /\ Fits(s[n], s[n + 1]) BY <1>2, <2>2 DEF Nested
    <2>4. below[n] \in Frame BY <1>1, <2>2, ElementOfSeq
    <2>. QED BY <1>1, <2>2, <2>3, <2>4
  <1>5. Grouped(below, v, t) BY <1>3, <1>4 DEF Grouped
  <1>. QED BY <1>5 DEF below

(* What fits the call f fits the call g.                                   *)
FitsToo(f, g) ==
  /\ IsLevel(f) <=> IsLevel(g)
  /\ IsLevel(f) => f.prec = g.prec
  /\ IsOp(g) => IsOp(f) /\ f.prec = g.prec

LEMMA NestedGo ==
  ASSUME NEW s \in Seq(Frame), s # <<>>, Nested(s), NEW f \in Frame, Sound(f),
         FitsToo(s[Len(s)], f)
  PROVE  Nested(Append(SubSeq(s, 1, Len(s) - 1), f))
  <1>. DEFINE t == Append(SubSeq(s, 1, Len(s) - 1), f)
              n == Len(s)
  <1>1. /\ n \in Nat \ {0} /\ n = Len(s)
        /\ t \in Seq(Frame) /\ Len(t) = n
        /\ \A i \in 1..(n - 1) : t[i] = s[i]
        /\ t[n] = f
    BY BelowTop, TopIsFrame, AppendProperties
  <1>. HIDE DEF t, n
  <1>2. \A i \in 1..n : i = n \/ i \in 1..(n - 1) BY <1>1
  <1>3. \A i \in 1..n : i > 1 => i - 1 \in 1..(n - 1) BY <1>1
  <1>4. \A i \in 1..n : Sound(t[i]) BY <1>1, <1>2 DEF Nested
  <1>5. ASSUME NEW i \in 1..n, i > 1 PROVE Fits(t[i - 1], t[i])
    <2>1. t[i - 1] = s[i - 1] /\ Fits(s[i - 1], s[i]) BY <1>1, <1>3, <1>5 DEF Nested
    <2>2. CASE i = n BY <1>1, <2>1, <2>2 DEF Fits, FitsToo
    <2>3. CASE i \in 1..(n - 1) BY <1>1, <2>1, <2>3
    <2>. QED BY <1>2, <2>2, <2>3
  <1>6. Nested(t) BY <1>1, <1>4, <1>5 DEF Nested
  <1>. QED BY <1>6 DEF t

LEMMA NestedCall ==
  ASSUME NEW s \in Seq(Frame), s # <<>>, Nested(s), NEW g \in Frame, Sound(g),
         Fits(s[Len(s)], g)
  PROVE  Nested(Append(s, g))
  <1>. DEFINE t == Append(s, g)
              n == Len(s)
  <1>1. /\ n \in Nat \ {0} /\ n = Len(s)
        /\ t \in Seq(Frame) /\ Len(t) = n + 1
        /\ \A i \in 1..n : t[i] = s[i]
        /\ t[n + 1] = g
    BY TopIsFrame, AppendProperties
  <1>. HIDE DEF t, n
  <1>2. \A i \in 1..(n + 1) : i = n + 1 \/ i \in 1..n BY <1>1
  <1>3. \A i \in 1..(n + 1) : i > 1 => i - 1 \in 1..n BY <1>1
  <1>4. \A i \in 1..(n + 1) : Sound(t[i]) BY <1>1, <1>2 DEF Nested
  <1>5. ASSUME NEW i \in 1..(n + 1), i > 1 PROVE Fits(t[i - 1], t[i])
    <2>1. t[i - 1] = s[i - 1] BY <1>3, <1>5, <1>1
    <2>2. CASE i = n + 1
      <3>1. i - 1 = n BY <1>1, <2>2
      <3>. QED BY <1>1, <2>1, <2>2, <3>1
    <2>3. CASE i \in 1..n BY <1>1, <1>5, <2>1, <2>3 DEF Nested
    <2>. QED BY <1>2, <2>2, <2>3
  <1>6. Nested(t) BY <1>1, <1>4, <1>5 DEF Nested
  <1>. QED BY <1>6 DEF t

----------------------------------------------------------------------------
(* What an action does to the calls, when there is no error *)

(* The line has no error yet, and an action finds none.                    *)
LEMMA GoodSoFar ==
  ASSUME IInv, GInv, TokensKept, ~errors'
  PROVE  /\ ~errors /\ Grouped(frames, ret, peek) /\ Nested(frames)
         /\ frames \in Seq(Frame)
         /\ ret \in Binding \cup {NONE}
  <1>1. ~errors BY DEF TokensKept
  <1>. QED BY <1>1 DEF GInv, Grouped, IInv, CallsOK, StackOK, Nodes

(* A function returns a node that binds tightly.                           *)
LEMMA GroupingReturn ==
  ASSUME IInv, GInv, TokensKept, frames # <<>>, ~IsLevel(Top),
         frames' = Below, ~errors' => ret' \in Int /\ ret' >= PREFIX
  PROVE  GInv'
  <1>1. SUFFICES ASSUME ~errors' PROVE Grouped(frames', ret', peek')
    BY DEF GInv
  <1>2. Nested(frames) /\ frames \in Seq(Frame) BY <1>1, GoodSoFar
  <1>3. ASSUME NEW e \in Frame, Sound(e), Fits(e, Top)
        PROVE  Accepts(e, ret', peek')
    BY <1>1, <1>3 DEF Fits, Accepts, IsLevel
  <1>. QED BY <1>2, <1>3, GroupedReturn DEF Below, Top

LEMMA GroupingGo ==
  ASSUME IInv, GInv, TokensKept, frames # <<>>, NEW f \in Frame,
         ~errors' => Sound(f) /\ FitsToo(Top, f),
         frames' = Append(Below, f), ret' = NONE
  PROVE  GInv'
  <1>1. SUFFICES ASSUME ~errors' PROVE Grouped(frames', ret', peek')
    BY DEF GInv
  <1>2. Nested(frames) /\ frames \in Seq(Frame) BY <1>1, GoodSoFar
  <1>3. Nested(frames') BY <1>1, <1>2, NestedGo DEF Below, Top
  <1>. QED BY <1>3 DEF Grouped

(* One call, into which nothing particular has to fit.                     *)
LEMMA GroupingCall ==
  ASSUME IInv, GInv, TokensKept, frames # <<>>, NEW f \in Frame, NEW g \in Frame,
         ~errors' => Sound(f) /\ FitsToo(Top, f) /\ Sound(g) /\ Fits(f, g),
         frames' = Append(Below, f) \o <<g>>, ret' = NONE
  PROVE  GInv'
  <1>1. SUFFICES ASSUME ~errors' PROVE Grouped(frames', ret', peek')
    BY DEF GInv
  <1>. DEFINE s == Append(Below, f)
  <1>2. Nested(frames) /\ frames \in Seq(Frame) BY <1>1, GoodSoFar
  <1>3. Nested(s) BY <1>1, <1>2, NestedGo DEF Below, Top
  <1>4. Below \in Seq(Frame) BY <1>2, BelowTop DEF Below
  <1>5. s \in Seq(Frame) /\ s # <<>> /\ s[Len(s)] = f
    BY <1>4, AppendProperties, LenProperties
  <1>. HIDE DEF s
  <1>6. Nested(Append(s, g)) BY <1>1, <1>3, <1>5, NestedCall
  <1>7. frames' = Append(s, g)
    <2>1. frames' = s \o <<g>> BY DEF s
    <2>. QED BY <2>1, <1>5, AppendIsConcat
  <1>. QED BY <1>6, <1>7 DEF Grouped

(* A call at any point at which operators do not matter.                   *)
Neutral(f) ==
  f.at \notin {"expression", "operators", "infix", "right_operand", "prefix_operand",
               "list_start", "list", "list_comma"}

LEMMA NeutralFits ==
  ASSUME NEW f, NEW g, Neutral(g)
  PROVE  /\ Sound(g) /\ ~IsLevel(g) /\ ~IsOp(g)
         /\ Neutral(f) => FitsToo(f, g) /\ Fits(f, g)
         /\ f.at \in {"operators", "list"} => Fits(f, g)
  BY DEF Neutral, Sound, IsLevel, IsOp, FitsToo, Fits

(* A call at another point, which remembers what it did.                   *)
LEMMA MovedAt ==
  ASSUME NEW f \in Frame, NEW p, SameFields(f.at, p)
  PROVE  /\ [f EXCEPT !.at = p] \in Frame
         /\ [f EXCEPT !.at = p].at = p
         /\ f.at \in {"list_start", "list", "list_comma"} =>
              /\ [f EXCEPT !.at = p].strength = f.strength
              /\ [f EXCEPT !.at = p].closer = f.closer
         /\ f.at = "infix" =>
              [f EXCEPT !.at = p].prec = f.prec /\ [f EXCEPT !.at = p].left = f.left
  <1>1. [f EXCEPT !.at = p] \in Frame BY Moved
  <1>2. f.at \in {"list_start", "list", "list_comma"} =>
          /\ [f EXCEPT !.at = p].strength = f.strength
          /\ [f EXCEPT !.at = p].closer = f.closer
    BY FrameClasses DEF ListFrame
  <1>3. f.at = "infix" =>
          [f EXCEPT !.at = p].prec = f.prec /\ [f EXCEPT !.at = p].left = f.left
    BY FrameClasses DEF OpFrame
  <1>4. [f EXCEPT !.at = p].at = p
    BY DEF Frame, PlainFrame, LevelFrame, OpFrame, ListFrame, KeyFrame, LoopFrame, LineFrame
  <1>. QED BY <1>1, <1>2, <1>3, <1>4

(* From one neutral point to another, alone or with a call.                *)
LEMMA NeutralGo ==
  ASSUME IInv, GInv, TokensKept, frames # <<>>, Neutral(Top), NEW f \in Frame, Neutral(f),
         frames' = Append(Below, f), ret' = NONE
  PROVE  GInv'
  BY NeutralFits, GroupingGo

LEMMA NeutralCall ==
  ASSUME IInv, GInv, TokensKept, frames # <<>>, Neutral(Top), NEW f \in Frame, Neutral(f),
         NEW g \in Frame, Sound(g),
         frames' = Append(Below, f) \o <<g>>, ret' = NONE
  PROVE  GInv'
  <1>1. Fits(f, g) BY DEF Neutral, Fits
  <1>. QED BY <1>1, NeutralFits, GroupingCall

(* A call of parse_expression.                                             *)
LEMMA ExpressionFrame ==
  ASSUME NEW n \in Binding
  PROVE  Level("expression", n) \in Frame /\ Sound(Level("expression", n))
  BY LevelIsHarmless DEF Level, Sound, IsOp

(* A call of a statement's function.                                       *)
LEMMA NestedStatement ==
  ASSUME NEW s \in Seq(Frame), s # <<>>, Nested(s), Neutral(s[Len(s)]), NEW t
  PROVE  Nested(s \o parse_statement(t))
  <1>1. ASSUME NEW p \in {"let", "return", "jump", "end_of_statement"}
        PROVE  /\ Point(p) \in Frame /\ Neutral(Point(p))
               /\ Append(s, Point(p)) = s \o <<Point(p)>>
               /\ Nested(Append(s, Point(p)))
    <2>1. p \in PlainPoints BY DEF PlainPoints
    <2>2. Point(p) \in Frame /\ Neutral(Point(p))
      BY <2>1, PlainIsHarmless DEF Point, Neutral
    <2>3. Sound(Point(p)) /\ Fits(s[Len(s)], Point(p)) BY <2>2, NeutralFits
    <2>. QED BY <2>2, <2>3, NestedCall, AppendIsConcat
  <1>2. CASE \E p \in {"let", "return", "jump"} : parse_statement(t) = <<Point(p)>>
    <2>1. PICK p \in {"let", "return", "jump"} : parse_statement(t) = <<Point(p)>> BY <1>2
    <2>. QED BY <1>1, <2>1
  <1>3. CASE parse_statement(t) = <<Point("end_of_statement")>> \o parse_expression(LOWEST)
    <2>. DEFINE e == Point("end_of_statement")
                x == Level("expression", LOWEST)
                u == Append(s, e)
    <2>1. e \in Frame /\ Neutral(e) /\ u = s \o <<e>> /\ Nested(u) BY <1>1
    <2>2. x \in Frame /\ Sound(x) BY ExpressionFrame, BindingValues
    <2>3. Fits(e, x) BY DEF Fits, Point
    <2>4. s \o parse_statement(t) = s \o (<<e>> \o <<x>>) BY <1>3 DEF parse_expression
    <2>. HIDE DEF e, x
    <2>5. u \in Seq(Frame) /\ u # <<>> /\ u[Len(u)] = e
      BY <2>1, AppendProperties, LenProperties
    <2>. HIDE DEF u
    <2>6. Nested(Append(u, x)) BY <2>1, <2>2, <2>3, <2>5, NestedCall
    <2>7. Append(u, x) = u \o <<x>> BY <2>2, <2>5, AppendIsConcat
    <2>8. s \o (<<e>> \o <<x>>) = (s \o <<e>>) \o <<x>> BY <2>1, <2>2, ConcatAssociative
    <2>. QED BY <2>1, <2>4, <2>6, <2>7, <2>8
  <1>. QED BY <1>2, <1>3 DEF parse_statement

LEMMA NeutralStatement ==
  ASSUME IInv, GInv, TokensKept, frames # <<>>, Neutral(Top), NEW f \in Frame, Neutral(f),
         NEW t, frames' = Append(Below, f) \o parse_statement(t), ret' = NONE
  PROVE  GInv'
  <1>1. SUFFICES ASSUME ~errors' PROVE Grouped(frames', ret', peek')
    BY DEF GInv
  <1>. DEFINE s == Append(Below, f)
  <1>2. Nested(frames) /\ frames \in Seq(Frame) BY <1>1, GoodSoFar
  <1>3. Sound(f) /\ FitsToo(Top, f) BY NeutralFits
  <1>4. Nested(s) BY <1>2, <1>3, NestedGo DEF Below, Top
  <1>5. Below \in Seq(Frame) BY <1>2, BelowTop DEF Below
  <1>6. s \in Seq(Frame) /\ s # <<>> /\ s[Len(s)] = f
    BY <1>5, AppendProperties, LenProperties
  <1>. HIDE DEF s
  <1>7. Nested(s \o parse_statement(t)) BY <1>4, <1>6, NestedStatement
  <1>. QED BY <1>7 DEF Grouped, s

----------------------------------------------------------------------------
(* Every action keeps operators grouped *)

LEMMA ExpectPeekGroups == ASSUME IInv, GInv, expect_peek PROVE GInv'
  <1>1. PICK p \in DOMAIN Expectations :
          /\ frames # <<>> /\ Top.at = p
          /\ \/ /\ parser_next_token(TRUE)
                /\ Call(To(Expectations[p].next), Expectations[p].calls)
             \/ add_error /\ Return(NULL)
    BY DEF expect_peek
  <1>2. /\ SameFields(p, Expectations[p].next)
        /\ Neutral([at |-> Expectations[p].next]) /\ Neutral([at |-> p])
        /\ Expectations[p].calls \in {<<>>, parse_block_statement}
    BY DEF Expectations, Expect, ThenBlock, SameFields, PlainPoints, LoopPoints, Neutral
  <1>. DEFINE f == To(Expectations[p].next)
  <1>3. f \in Frame /\ Neutral(f) /\ Neutral(Top)
    <2>1. Top \in Frame BY <1>1, TopOfStack
    <2>2. f \in Frame /\ f.at = Expectations[p].next BY <1>1, <1>2, <2>1, MovedAt DEF To
    <2>. QED BY <1>1, <1>2, <2>2 DEF Neutral
  <1>4. CASE add_error /\ Return(NULL) BY <1>4, TokenSteps DEF GInv
  <1>5. CASE parser_next_token(TRUE) /\ Call(f, <<>>)
    <2>1. TokensKept BY <1>5, TokenSteps
    <2>2. Below \in Seq(Frame) BY <1>1, BelowTop DEF IInv, CallsOK, StackOK, Below
    <2>. HIDE DEF f
    <2>3. frames' = Append(Below, f) /\ ret' = NONE
      BY <1>3, <1>5, <2>2, ConcatEmptySeq, AppendProperties DEF Call
    <2>. QED BY <1>1, <1>3, <2>1, <2>3, NeutralGo
  <1>6. CASE parser_next_token(TRUE) /\ Call(f, parse_block_statement)
    <2>1. TokensKept BY <1>6, TokenSteps
    <2>2. Point("block") \in Frame /\ Neutral(Point("block"))
      BY PlainIsHarmless DEF PlainPoints, Neutral, Point
    <2>3. Sound(Point("block")) BY <2>2, NeutralFits
    <2>4. frames' = Append(Below, f) \o <<Point("block")>> /\ ret' = NONE
      BY <1>6 DEF Call, parse_block_statement
    <2>. QED BY <1>1, <1>3, <2>1, <2>2, <2>3, <2>4, NeutralCall
  <1>. QED BY <1>1, <1>2, <1>4, <1>5, <1>6

LEMMA ParseOperandGroups == ASSUME IInv, GInv, parse_operand PROVE GInv'
  <1>1. PICK p \in DOMAIN Operands :
          /\ frames # <<>> /\ Top.at = p
          /\ parser_next_token(TRUE)
          /\ Call(To(Operands[p]), parse_expression(LOWEST))
    BY DEF parse_operand, At
  <1>. DEFINE f == To(Operands[p])
              x == Level("expression", LOWEST)
  <1>2. TokensKept BY <1>1, TokenSteps
  <1>3. SameFields(p, Operands[p]) BY DEF Operands, SameFields, PlainPoints, LoopPoints
  <1>4. Top \in Frame BY <1>1, TopOfStack
  <1>5. f \in Frame /\ f.at = Operands[p] BY <1>1, <1>3, <1>4, MovedAt DEF To
  <1>6. x \in Frame /\ Sound(x) BY ExpressionFrame, BindingValues
  <1>7. frames' = Append(Below, f) \o <<x>> /\ ret' = NONE BY <1>1 DEF Call, parse_expression
  <1>8. CASE p # "list_comma"
    <2>1. Neutral(Top) /\ Neutral(f) BY <1>1, <1>5, <1>8 DEF Operands, Neutral
    <2>. HIDE DEF f, x
    <2>. QED BY <1>1, <1>2, <1>5, <1>6, <1>7, <2>1, NeutralCall
  <1>9. CASE p = "list_comma"
    <2>1. f.at = "list" BY <1>5, <1>9 DEF Operands
    <2>2. f.strength = Top.strength BY <1>1, <1>3, <1>4, <1>9, MovedAt DEF To
    <2>. HIDE DEF f, x
    <2>3. ASSUME ~errors' PROVE Sound(f) /\ FitsToo(Top, f) /\ Sound(x) /\ Fits(f, x)
      <3>1. Sound(Top)
        <4>1. Nested(frames) /\ frames \in Seq(Frame) BY <1>2, <2>3, GoodSoFar
        <4>2. Len(frames) \in 1..Len(frames) BY <1>1, <4>1, TopIsFrame
        <4>. QED BY <4>1, <4>2 DEF Nested, Top
      <3>. QED
        BY <1>1, <1>6, <1>9, <2>1, <2>2, <3>1 DEF Sound, IsOp, IsLevel, FitsToo, Fits
    <2>. QED BY <1>1, <1>2, <1>5, <1>6, <1>7, <2>3, GroupingCall
  <1>. QED BY <1>8, <1>9

LEMMA LetStatementGroups == ASSUME IInv, GInv, parse_let_statement PROVE GInv'
  <1>1. /\ frames # <<>> /\ Top.at = "let_value"
        /\ \/ Quiet /\ UNCHANGED callVars
           \/ /\ parser_next_token(peek \in {"SEMICOLON", "END_OF_FILE"})
              /\ Go(Point("end_of_statement"))
    BY DEF parse_let_statement, Back
  <1>2. CASE Quiet /\ UNCHANGED callVars
    BY <1>2 DEF Quiet, GInv, callVars, tokenVars, errorVars
  <1>3. CASE /\ parser_next_token(peek \in {"SEMICOLON", "END_OF_FILE"})
             /\ Go(Point("end_of_statement"))
    <2>1. TokensKept BY <1>3, TokenSteps
    <2>2. Point("end_of_statement") \in Frame BY PlainIsHarmless DEF PlainPoints
    <2>3. Neutral(Top) /\ Neutral(Point("end_of_statement")) BY <1>1 DEF Neutral, Point
    <2>. QED BY <1>1, <1>3, <2>1, <2>2, <2>3, NeutralGo DEF Go
  <1>. QED BY <1>1, <1>2, <1>3

LEMMA ReturnStatementGroups == ASSUME IInv, GInv, parse_return_statement PROVE GInv'
  <1>1. TokensKept BY TokenSteps DEF parse_return_statement
  <1>2. /\ frames # <<>> /\ Neutral(Top) /\ Neutral(Point("end_of_statement"))
        /\ Point("end_of_statement") \in Frame
    BY PlainIsHarmless DEF parse_return_statement, Back, Neutral, Point, PlainPoints
  <1>3. frames' = Append(Below, Point("end_of_statement")) /\ ret' = NONE
    BY DEF parse_return_statement, Go
  <1>. QED BY <1>1, <1>2, <1>3, NeutralGo

LEMMA JumpStatementGroups == ASSUME IInv, GInv, parse_jump_statement PROVE GInv'
  <1>1. /\ frames # <<>> /\ Neutral(Top) /\ Neutral(Point("end_of_statement"))
        /\ Point("end_of_statement") \in Frame
    BY PlainIsHarmless DEF parse_jump_statement, At, Neutral, Point, PlainPoints
  <1>2. CASE inside_loop
    <2>1. TokensKept /\ Go(Point("end_of_statement"))
      BY <1>2, TokenSteps DEF parse_jump_statement
    <2>. QED BY <1>1, <2>1, NeutralGo DEF Go
  <1>3. CASE ~inside_loop
    BY <1>3, TokenSteps DEF parse_jump_statement, GInv
  <1>. QED BY <1>2, <1>3

(* A function that is neither parse_expression nor an operator's returns a *)
(* closed node.                                                            *)
LEMMA ClosedGroups ==
  ASSUME IInv, GInv, TokensKept, frames # <<>>, ~IsLevel(Top), Return(Closed)
  PROVE  GInv'
  <1>1. ret' \in Int /\ ret' >= PREFIX BY Strengths DEF Return
  <1>. QED BY <1>1, GroupingReturn DEF Return

LEMMA EndOfStatementGroups == ASSUME IInv, GInv, end_of_statement PROVE GInv'
  <1>1. TokensKept BY TokenSteps DEF end_of_statement
  <1>. QED BY <1>1, ClosedGroups DEF end_of_statement, IsLevel

LEMMA BlockStatementsGroups == ASSUME IInv, GInv, block_statements PROVE GInv'
  <1>1. TokensKept BY TokenSteps DEF block_statements
  <1>2. frames # <<>> /\ ~IsLevel(Top) /\ Neutral(Top) /\ Top \in Frame
    BY TopOfStack DEF block_statements, IsLevel, Neutral
  <1>3. CASE Return(Closed) BY <1>1, <1>2, <1>3, ClosedGroups
  <1>4. CASE Call(Top, parse_statement(peek))
    BY <1>1, <1>2, <1>4, NeutralStatement DEF Call
  <1>. QED BY <1>3, <1>4 DEF block_statements

(* The function of the token an operand begins with.                       *)
LEMMA PrefixFrames ==
  ASSUME IInv, NEW t \in PrefixTokens
  PROVE  /\ PrefixFrame(t) \in Frame /\ Sound(PrefixFrame(t)) /\ ~IsLevel(PrefixFrame(t))
         /\ ~IsOp(PrefixFrame(t))
  <1>1. ASSUME NEW p \in {"prefix", "grouped", "if", "function", "hash"}
        PROVE  Point(p) \in Frame /\ Neutral(Point(p))
    BY PlainIsHarmless DEF PlainPoints, Point, Neutral
  <1>2. ASSUME NEW p \in {"while", "for"}
        PROVE  Loop(p) \in Frame /\ Neutral(Loop(p))
    BY DEF Loop, Frame, LoopFrame, LoopPoints, Neutral, IInv, CallsOK
  <1>3. List("LBRACKET", Closed) \in Frame
    BY ListIsHarmless, BindingValues DEF Openers, closer
  <1>4. /\ Sound(List("LBRACKET", Closed)) /\ ~IsLevel(List("LBRACKET", Closed))
        /\ ~IsOp(List("LBRACKET", Closed))
    BY Strengths DEF List, Sound, IsOp, IsLevel
  <1>. QED BY <1>1, <1>2, <1>3, <1>4, NeutralFits DEF PrefixFrame, PrefixTokens

(* parse_expression goes on with operators, at its own precedence.         *)
LEMMA OperatorsNext ==
  ASSUME NEW f \in Frame, f.at = "expression"
  PROVE  /\ Level("operators", f.prec) \in Frame
         /\ Sound(Level("operators", f.prec))
         /\ FitsToo(f, Level("operators", f.prec))
  <1>1. f.prec \in Binding BY FrameClasses DEF LevelFrame
  <1>. QED BY <1>1, LevelIsHarmless DEF Level, Sound, IsOp, IsLevel, FitsToo

LEMMA ParsePrefixGroups == ASSUME IInv, GInv, parse_prefix PROVE GInv'
  <1>. DEFINE rest == Level("operators", Top.prec)
  <1>1. frames # <<>> /\ Top.at = "expression" /\ Top \in Frame
    BY TopOfStack DEF parse_prefix, At
  <1>2. rest \in Frame /\ Sound(rest) /\ FitsToo(Top, rest) BY <1>1, OperatorsNext
  <1>3. rest.at = "operators" /\ rest.prec = Top.prec BY DEF Level
  <1>4. TokensKept BY TokenSteps DEF parse_prefix
  <1>. HIDE DEF rest
  <1>5. CASE frames' = Append(Below, rest) /\ ret' = Closed
    <2>1. SUFFICES ASSUME ~errors' PROVE Grouped(frames', ret', peek')
      BY DEF GInv
    <2>2. Nested(frames) /\ frames \in Seq(Frame) BY <1>4, <2>1, GoodSoFar
    <2>3. Nested(frames') BY <1>1, <1>2, <1>5, <2>2, NestedGo DEF Below, Top
    <2>4. frames'[Len(frames')] = rest
      <3>1. Below \in Seq(Frame) BY <1>1, <2>2, BelowTop DEF Below
      <3>. QED BY <1>2, <1>5, <3>1, AppendProperties, LenProperties
    <2>5. Accepts(rest, Closed, peek') BY <1>3, Strengths DEF Accepts
    <2>. QED BY <1>5, <2>3, <2>4, <2>5 DEF Grouped
  <1>6. CASE cur \in PrefixTokens /\ Call(rest, <<PrefixFrame(cur)>>)
    <2>. DEFINE g == PrefixFrame(cur)
    <2>1. g \in Frame /\ Sound(g) /\ ~IsLevel(g) /\ ~IsOp(g) BY <1>6, PrefixFrames
    <2>2. Fits(rest, g) BY <1>3, <2>1 DEF Fits
    <2>. HIDE DEF g
    <2>3. frames' = Append(Below, rest) \o <<g>> /\ ret' = NONE BY <1>6 DEF Call, g
    <2>. QED BY <1>1, <1>2, <1>4, <2>1, <2>2, <2>3, GroupingCall
  <1>7. CASE add_error BY <1>7, TokenSteps DEF GInv
  <1>. QED BY <1>5, <1>6, <1>7 DEF parse_prefix, rest

(* The call on top fits what it remembers, and takes what it is given.     *)
LEMMA TopGrouped ==
  ASSUME IInv, GInv, TokensKept, frames # <<>>, ~errors'
  PROVE  /\ Sound(Top) /\ Top \in Frame
         /\ ret # NONE => Accepts(Top, ret, peek) /\ ret \in Binding
  <1>1. Grouped(frames, ret, peek) /\ Nested(frames) /\ frames \in Seq(Frame)
    BY GoodSoFar
  <1>2. Len(frames) \in 1..Len(frames) BY <1>1, TopIsFrame
  <1>. QED BY <1>1, <1>2, GoodSoFar, TopOfStack DEF Nested, Grouped, Top

(* An operator is taken with what stands to its left: that binds at least  *)
(* as tightly as the operator does.                                        *)
LEMMA InfixFrames ==
  ASSUME NEW e \in Frame, e.at = "operators", NEW t, NEW v \in Binding,
         Accepts(e, v, t), e.prec < precedence(t)
  PROVE  /\ InfixFrame(t, v) \in Frame /\ Sound(InfixFrame(t, v))
         /\ Fits(e, InfixFrame(t, v))
  <1>1. precedence(t) \in Binding BY PrecedenceType
  <1>2. e.prec \in Int BY FrameNumbers
  <1>3. CASE t = "LPAREN"
    <2>1. InfixFrame(t, v) = List("LPAREN", CALL) BY <1>3 DEF InfixFrame
    <2>2. List("LPAREN", CALL) \in Frame
      BY ListIsHarmless, BindingValues DEF Openers, closer
    <2>. QED BY <2>1, <2>2, Strengths DEF List, Sound, Fits, IsOp, IsLevel
  <1>4. CASE t \in {"LBRACKET", "ASSIGN"}
    <2>1. PICK p \in {"index", "reassign"} : InfixFrame(t, v) = Point(p)
      BY <1>4 DEF InfixFrame
    <2>2. Point(p) \in Frame /\ Neutral(Point(p))
      BY PlainIsHarmless DEF PlainPoints, Point, Neutral
    <2>. QED BY <2>1, <2>2, NeutralFits
  <1>5. CASE t \notin {"LPAREN", "LBRACKET", "ASSIGN"}
    <2>. DEFINE f == [at |-> "infix", prec |-> precedence(t), left |-> v]
    <2>1. InfixFrame(t, v) = f BY <1>5 DEF InfixFrame
    <2>2. f \in Frame BY <1>1 DEF Frame, OpFrame, Nodes
    <2>3. precedence(t) < PREFIX BY <1>5, Strengths DEF precedence, precedences
    <2>4. v >= precedence(t)
      <3>1. precedence(t) <= v \/ v >= PREFIX BY DEF Accepts
      <3>2. v \in Int /\ precedence(t) \in Int /\ PREFIX \in Int BY <1>1, Strengths
      <3>. QED BY <2>3, <3>1, <3>2
    <2>5. Sound(f) BY <2>3, <2>4 DEF Sound, IsOp
    <2>6. Fits(e, f) BY DEF Fits, IsLevel, IsOp
    <2>. QED BY <2>1, <2>2, <2>5, <2>6
  <1>. QED BY <1>3, <1>4, <1>5

(* An expression ends before an operator that does not bind tightly enough:*)
(* whoever asked for it is given what it accepts.                          *)
LEMMA ExpressionEnds ==
  ASSUME NEW f \in Frame, f.at = "operators", NEW v \in Binding, NEW t,
         Accepts(f, v, t), ~(t # "SEMICOLON" /\ f.prec < precedence(t)),
         NEW e \in Frame, Sound(e), Fits(e, f)
  PROVE  Accepts(e, v, t)
  <1>1. v \in Int /\ precedence(t) \in Int BY PrecedenceType, Strengths
  <1>2. f.prec \in Int /\ f.prec >= LOWEST /\ IsLevel(f) BY FrameNumbers DEF IsLevel
  <1>3. precedence(t) <= f.prec
    <2>1. t = "SEMICOLON" => precedence(t) = LOWEST BY DEF precedence, precedences
    <2>. QED BY <1>1, <1>2, <2>1, Strengths
  <1>4. CASE e.at = "right_operand"
    <2>1. f.prec = e.prec /\ e.prec < PREFIX BY <1>4 DEF Fits, Sound, IsOp
    <2>2. v > f.prec \/ v >= PREFIX BY DEF Accepts
    <2>3. v > e.prec BY <1>1, <1>2, <2>1, <2>2, Strengths
    <2>. QED BY <1>3, <1>4, <2>1, <2>3 DEF Accepts
  <1>5. CASE e.at = "prefix_operand"
    <2>1. f.prec = PREFIX BY <1>5 DEF Fits
    <2>2. v > f.prec \/ v >= PREFIX BY DEF Accepts
    <2>3. v >= PREFIX BY <1>1, <2>1, <2>2, Strengths
    <2>. QED BY <1>5, <2>3 DEF Accepts
  <1>6. e.at # "operators" BY <1>2 DEF Fits
  <1>. QED BY <1>4, <1>5, <1>6 DEF Accepts

LEMMA ParseInfixGroups == ASSUME IInv, GInv, parse_infix PROVE GInv'
  <1>1. frames # <<>> /\ Top.at = "operators" /\ ret # NONE
    BY DEF parse_infix, Back
  <1>2. TokensKept BY TokenSteps DEF parse_infix
  <1>3. CASE Binds(Top.prec)
    <2>. DEFINE g == InfixFrame(peek, ret)
    <2>1. Top \in Frame BY <1>1, TopOfStack
    <2>2. ASSUME ~errors'
          PROVE  Sound(Top) /\ FitsToo(Top, Top) /\ g \in Frame /\ Sound(g) /\ Fits(Top, g)
      <3>1. Sound(Top) /\ Accepts(Top, ret, peek) /\ ret \in Binding
        BY <1>1, <1>2, <2>2, TopGrouped
      <3>2. Top.prec < precedence(peek) BY <1>3 DEF Binds
      <3>. QED BY <1>1, <2>1, <3>1, <3>2, InfixFrames DEF FitsToo
    <2>3. frames' = Append(Below, Top) \o <<g>> /\ ret' = NONE
      BY <1>3 DEF parse_infix, Call
    <2>. HIDE DEF g
    <2>4. CASE errors' BY <2>4 DEF GInv
    <2>5. CASE ~errors' BY <1>1, <1>2, <2>1, <2>2, <2>3, <2>5, GroupingCall
    <2>. QED BY <2>4, <2>5
  <1>4. CASE ~Binds(Top.prec)
    <2>1. SUFFICES ASSUME ~errors' PROVE Grouped(frames', ret', peek')
      BY DEF GInv
    <2>2. Nested(frames) /\ frames \in Seq(Frame) BY <1>2, <2>1, GoodSoFar
    <2>3. Top \in Frame /\ Accepts(Top, ret, peek) /\ ret \in Binding
      BY <1>1, <1>2, <2>1, TopGrouped
    <2>4. frames' = Below /\ ret' = ret /\ peek' = peek
      BY <1>4 DEF parse_infix, Return, Quiet, tokenVars
    <2>5. ASSUME NEW e \in Frame, Sound(e), Fits(e, Top)
          PROVE  Accepts(e, ret, peek)
      BY <1>1, <1>4, <2>3, <2>5, ExpressionEnds DEF Binds
    <2>. QED BY <1>1, <2>2, <2>4, <2>5, GroupedReturn DEF Below, Top
  <1>. QED BY <1>3, <1>4

LEMMA PrefixExpressionGroups == ASSUME IInv, GInv, parse_prefix_expression PROVE GInv'
  <1>. DEFINE f == To("prefix_operand")
              x == Level("expression", PREFIX)
  <1>1. frames # <<>> /\ Top.at = "prefix" /\ SameFields(Top.at, "prefix_operand")
    BY DEF parse_prefix_expression, At, SameFields, PlainPoints
  <1>2. TokensKept BY TokenSteps DEF parse_prefix_expression
  <1>3. f \in Frame /\ f.at = "prefix_operand" BY <1>1, TopOfStack, MovedAt DEF To
  <1>4. x \in Frame /\ Sound(x) BY ExpressionFrame, BindingValues
  <1>5. Sound(f) /\ FitsToo(Top, f) BY <1>1, <1>3 DEF Sound, FitsToo, IsOp, IsLevel
  <1>6. Fits(f, x) BY <1>3 DEF Fits, Level, IsLevel
  <1>7. frames' = Append(Below, f) \o <<x>> /\ ret' = NONE
    BY DEF parse_prefix_expression, Call, parse_expression
  <1>. HIDE DEF f, x
  <1>. QED BY <1>1, <1>2, <1>3, <1>4, <1>5, <1>6, <1>7, GroupingCall

LEMMA InfixExpressionGroups == ASSUME IInv, GInv, parse_infix_expression PROVE GInv'
  <1>. DEFINE f == To("right_operand")
              x == Level("expression", Top.prec)
  <1>1. frames # <<>> /\ Top.at = "infix" /\ SameFields(Top.at, "right_operand")
    BY DEF parse_infix_expression, At, SameFields
  <1>2. TokensKept BY TokenSteps DEF parse_infix_expression
  <1>3. Top \in Frame /\ f \in Frame /\ f.at = "right_operand"
        /\ f.prec = Top.prec /\ f.left = Top.left
    BY <1>1, TopOfStack, MovedAt DEF To
  <1>4. x \in Frame /\ Sound(x)
    <2>1. Top.prec \in Binding BY <1>1, <1>3, FrameClasses DEF OpFrame
    <2>. QED BY <2>1, ExpressionFrame
  <1>5. ASSUME ~errors' PROVE Sound(f) /\ FitsToo(Top, f)
    <2>1. Sound(Top) BY <1>1, <1>2, <1>5, TopGrouped
    <2>. QED BY <1>1, <1>3, <2>1 DEF Sound, FitsToo, IsOp, IsLevel
  <1>6. Fits(f, x) BY <1>3 DEF Fits, Level, IsLevel
  <1>7. frames' = Append(Below, f) \o <<x>> /\ ret' = NONE
    BY DEF parse_infix_expression, Call, parse_expression
  <1>. HIDE DEF f, x
  <1>. QED BY <1>1, <1>2, <1>3, <1>4, <1>5, <1>6, <1>7, GroupingCall

LEMMA ClosingBracketGroups == ASSUME IInv, GInv, parse_closing_bracket PROVE GInv'
  <1>1. frames # <<>> /\ ~IsLevel(Top) /\ ret # NONE
    BY DEF parse_closing_bracket, Back, IsLevel
  <1>2. TokensKept BY TokenSteps DEF parse_closing_bracket
  <1>3. CASE add_error BY <1>3, TokenSteps DEF GInv
  <1>4. CASE Return(INDEX) \/ Return(IF ret = NULL THEN NULL ELSE Closed)
    <2>1. ASSUME ~errors' PROVE ret' \in Int /\ ret' >= PREFIX
      <3>1. ret # NULL BY <1>1, <1>2, <2>1, TopGrouped, BindingValues
      <3>. QED BY <1>4, <3>1, Strengths DEF Return
    <2>2. frames' = Below BY <1>4 DEF Return
    <2>. QED BY <1>1, <1>2, <2>1, <2>2, GroupingReturn
  <1>. QED BY <1>3, <1>4 DEF parse_closing_bracket

LEMMA ParseListGroups == ASSUME IInv, GInv, parse_list PROVE GInv'
  <1>1. frames # <<>> /\ Top.at \in {"list_start", "list", "list_comma"} /\ ~IsLevel(Top)
    BY DEF parse_list, At, Back, IsLevel
  <1>2. TokensKept BY TokenSteps DEF parse_list
  <1>3. Top \in Frame /\ Top.strength \in Binding
    <2>1. Top \in Frame BY <1>1, TopOfStack
    <2>. QED BY <1>1, <2>1, FrameClasses DEF ListFrame
  <1>4. ASSUME ~errors' PROVE Sound(Top) /\ Top.strength >= PREFIX
    BY <1>1, <1>2, <1>4, TopGrouped DEF Sound
  <1>5. ASSUME NEW p \in {"list", "list_comma"}
        PROVE  /\ To(p) \in Frame /\ To(p).at = p
               /\ ~errors' => Sound(To(p)) /\ FitsToo(Top, To(p))
    <2>1. SameFields(Top.at, p) BY <1>1 DEF SameFields
    <2>2. To(p) \in Frame /\ To(p).at = p /\ To(p).strength = Top.strength
      BY <1>1, <1>3, <2>1, MovedAt DEF To
    <2>. QED BY <1>1, <1>4, <2>2 DEF Sound, FitsToo, IsOp, IsLevel
  <1>6. CASE Return(Top.strength)
    <2>1. ~errors' => ret' \in Int /\ ret' >= PREFIX
      BY <1>3, <1>4, <1>6, Strengths DEF Return
    <2>. QED BY <1>1, <1>2, <1>6, <2>1, GroupingReturn DEF Return
  <1>7. CASE Call(To("list"), parse_expression(LOWEST))
    <2>. DEFINE f == To("list")
                x == Level("expression", LOWEST)
    <2>1. x \in Frame /\ Sound(x) BY ExpressionFrame, BindingValues
    <2>2. f \in Frame /\ f.at = "list" /\ (~errors' => Sound(f) /\ FitsToo(Top, f)) BY <1>5
    <2>3. Fits(f, x) BY <2>2 DEF Fits
    <2>4. frames' = Append(Below, f) \o <<x>> /\ ret' = NONE
      BY <1>7 DEF Call, parse_expression
    <2>. HIDE DEF f, x
    <2>. QED BY <1>1, <1>2, <2>1, <2>2, <2>3, <2>4, GroupingCall
  <1>8. CASE Go(To("list_comma"))
    <2>. DEFINE f == To("list_comma")
    <2>1. f \in Frame /\ (~errors' => Sound(f) /\ FitsToo(Top, f)) BY <1>5
    <2>2. frames' = Append(Below, f) /\ ret' = NONE BY <1>8 DEF Go
    <2>. HIDE DEF f
    <2>. QED BY <1>1, <1>2, <2>1, <2>2, GroupingGo
  <1>9. CASE add_error BY <1>9, TokenSteps DEF GInv
  <1>. QED BY <1>6, <1>7, <1>8, <1>9 DEF parse_list

LEMMA HashLiteralGroups == ASSUME IInv, GInv, parse_hash_literal PROVE GInv'
  <1>1. frames # <<>> /\ ~IsLevel(Top) /\ Neutral(Top)
    BY DEF parse_hash_literal, At, Back, IsLevel, Neutral
  <1>2. TokensKept BY TokenSteps DEF parse_hash_literal
  <1>3. ASSUME NEW p \in {"hash", "hash_key"}
        PROVE  Point(p) \in Frame /\ Neutral(Point(p))
    BY PlainIsHarmless DEF PlainPoints, Point, Neutral
  <1>4. CASE Return(Closed) BY <1>1, <1>2, <1>4, ClosedGroups
  <1>5. CASE Call(Point("hash_key"), parse_expression(LOWEST))
    <2>. DEFINE x == Level("expression", LOWEST)
    <2>1. x \in Frame /\ Sound(x) BY ExpressionFrame, BindingValues
    <2>2. frames' = Append(Below, Point("hash_key")) \o <<x>> /\ ret' = NONE
      BY <1>5 DEF Call, parse_expression
    <2>. HIDE DEF x
    <2>. QED BY <1>1, <1>2, <1>3, <2>1, <2>2, NeutralCall
  <1>6. CASE ret # NONE /\ Go([at |-> "hash_colon", key |-> ret])
    <2>. DEFINE f == [at |-> "hash_colon", key |-> ret]
    <2>1. f \in Frame
      <3>1. ret \in Nodes BY <1>6 DEF IInv, CallsOK
      <3>. QED BY <3>1 DEF Frame, KeyFrame
    <2>2. Neutral(f) BY DEF Neutral
    <2>3. frames' = Append(Below, f) /\ ret' = NONE BY <1>6 DEF Go
    <2>. HIDE DEF f
    <2>. QED BY <1>1, <1>2, <2>1, <2>2, <2>3, NeutralGo
  <1>7. CASE Quiet /\ UNCHANGED callVars
    BY <1>7 DEF Quiet, GInv, callVars, tokenVars, errorVars
  <1>8. CASE Go(Point("hash")) BY <1>1, <1>2, <1>3, <1>8, NeutralGo DEF Go
  <1>9. CASE add_error BY <1>9, TokenSteps DEF GInv
  <1>. QED BY <1>4, <1>5, <1>6, <1>7, <1>8, <1>9 DEF parse_hash_literal, Back

LEMMA FunctionParametersGroups == ASSUME IInv, GInv, parse_function_parameters PROVE GInv'
  <1>1. /\ frames # <<>> /\ Neutral(Top)
        /\ \E p \in {"body", "parameter", "parameter_comma"} : Go(Point(p))
    BY DEF parse_function_parameters, At, Neutral
  <1>2. \A p \in {"body", "parameter", "parameter_comma"} :
          Point(p) \in Frame /\ Neutral(Point(p))
    BY PlainIsHarmless DEF PlainPoints, Point, Neutral
  <1>3. TokensKept BY TokenSteps DEF parse_function_parameters
  <1>. QED BY <1>1, <1>2, <1>3, NeutralGo DEF Go

LEMMA IfExpressionGroups == ASSUME IInv, GInv, parse_if_expression PROVE GInv'
  <1>1. /\ frames # <<>> /\ Neutral(Top) /\ ~IsLevel(Top)
        /\ Go(Point("else")) \/ Return(Closed)
    BY DEF parse_if_expression, Back, IsLevel, Neutral
  <1>2. Point("else") \in Frame /\ Neutral(Point("else"))
    BY PlainIsHarmless DEF PlainPoints, Point, Neutral
  <1>3. TokensKept BY TokenSteps DEF parse_if_expression
  <1>. QED BY <1>1, <1>2, <1>3, ClosedGroups, NeutralGo DEF Go

(* An operator with both operands: a node as strong as the operator, which *)
(* binds more tightly than the expression it was found in asks.            *)
LEMMA OperatorEnds ==
  ASSUME NEW f \in Frame, f.at = "right_operand", Sound(f), NEW v \in Binding, NEW t,
         Accepts(f, v, t), NEW e \in Frame, Fits(e, f)
  PROVE  Accepts(e, f.prec, t)
  <1>1. f.prec \in Int BY FrameNumbers
  <1>2. IsOp(f) /\ ~IsLevel(f) BY DEF IsOp, IsLevel
  <1>. QED BY <1>1, <1>2 DEF Accepts, Fits

LEMMA CompleteExpressionGroups == ASSUME IInv, GInv, complete_expression PROVE GInv'
  <1>1. frames # <<>> /\ ret # NONE /\ ~IsLevel(Top)
    BY DEF complete_expression, Back, IsLevel
  <1>2. TokensKept BY TokenSteps DEF complete_expression
  <1>3. CASE Return(Closed) \/ Return(PREFIX) \/ Return(REASSIGN)
    <2>1. ret' \in Int /\ ret' >= PREFIX /\ frames' = Below
      BY <1>3, Strengths DEF Return
    <2>. QED BY <1>1, <1>2, <2>1, GroupingReturn
  <1>4. CASE Top.at = "right_operand" /\ Return(Top.prec) /\ Quiet
    <2>1. SUFFICES ASSUME ~errors' PROVE Grouped(frames', ret', peek')
      BY DEF GInv
    <2>2. Nested(frames) /\ frames \in Seq(Frame) BY <1>2, <2>1, GoodSoFar
    <2>3. Top \in Frame /\ Sound(Top) /\ Accepts(Top, ret, peek) /\ ret \in Binding
      BY <1>1, <1>2, <2>1, TopGrouped
    <2>4. frames' = Below /\ ret' = Top.prec /\ peek' = peek
      BY <1>4 DEF Return, Quiet, tokenVars
    <2>5. ASSUME NEW e \in Frame, Sound(e), Fits(e, Top)
          PROVE  Accepts(e, Top.prec, peek)
      BY <1>4, <2>3, <2>5, OperatorEnds
    <2>. QED BY <1>1, <2>2, <2>4, <2>5, GroupedReturn DEF Below, Top
  <1>. QED BY <1>3, <1>4 DEF complete_expression, Back

LEMMA WhileLoopGroups == ASSUME IInv, GInv, parse_while_loop PROVE GInv'
  <1>. DEFINE f == To("loop_body")
  <1>1. /\ frames # <<>> /\ Neutral(Top) /\ SameFields(Top.at, "loop_body")
    BY DEF parse_while_loop, At, SameFields, LoopPoints, Neutral
  <1>2. TokensKept BY TokenSteps DEF parse_while_loop
  <1>3. f \in Frame /\ Neutral(f)
    <2>1. f \in Frame /\ f.at = "loop_body" BY <1>1, TopOfStack, MovedAt DEF To
    <2>. QED BY <2>1 DEF Neutral
  <1>4. Point("block") \in Frame /\ Neutral(Point("block"))
    BY PlainIsHarmless DEF PlainPoints, Neutral, Point
  <1>5. Sound(Point("block")) BY <1>4, NeutralFits
  <1>6. frames' = Append(Below, f) \o <<Point("block")>> /\ ret' = NONE
    BY DEF parse_while_loop, Call, parse_block_statement
  <1>. HIDE DEF f
  <1>. QED BY <1>1, <1>2, <1>3, <1>4, <1>5, <1>6, NeutralCall

LEMMA ForLoopGroups == ASSUME IInv, GInv, parse_for_loop PROVE GInv'
  <1>1. /\ frames # <<>> /\ Top.at \in LoopPoints
        /\ \E p \in LoopPoints : Go(To(p)) \/ Call(To(p), parse_statement(peek))
    <2>1. {"for_initialization", "for_condition", "for_update", "for_lbrace", "for_rparen"}
            \subseteq LoopPoints
      BY DEF LoopPoints
    <2>. QED BY <2>1 DEF parse_for_loop, parse_if_exists, Back
  <1>2. TokensKept
    <2>1. ASSUME lenient' = TRUE, UNCHANGED <<cur, peek, left, open, errorVars>>
          PROVE  TokensKept
      BY <2>1 DEF TokensKept, TokensOK, errorVars, IInv
    <2>. QED BY <2>1, TokenSteps DEF parse_for_loop, parse_if_exists
  <1>3. PICK p \in LoopPoints : Go(To(p)) \/ Call(To(p), parse_statement(peek)) BY <1>1
  <1>4. Neutral(Top) BY <1>1 DEF Neutral, LoopPoints
  <1>5. To(p) \in Frame /\ Neutral(To(p))
    <2>1. Top \in Frame BY <1>1, TopOfStack
    <2>2. SameFields(Top.at, p) BY <1>1 DEF SameFields
    <2>3. To(p) \in Frame /\ To(p).at = p BY <2>1, <2>2, MovedAt DEF To
    <2>. QED BY <2>3 DEF Neutral, LoopPoints
  <1>6. CASE Go(To(p)) BY <1>1, <1>2, <1>4, <1>5, <1>6, NeutralGo DEF Go
  <1>7. CASE Call(To(p), parse_statement(peek))
    BY <1>1, <1>2, <1>4, <1>5, <1>7, NeutralStatement DEF Call
  <1>. QED BY <1>3, <1>6, <1>7

LEMMA EndOfLoopGroups == ASSUME IInv, GInv, end_of_loop PROVE GInv'
  <1>1. TokensKept BY TokenSteps DEF end_of_loop
  <1>. QED BY <1>1, ClosedGroups DEF end_of_loop, Back, IsLevel

(* A statement of the program begins.                                      *)
LEMMA ProgramGrouped == ASSUME NEW t PROVE Nested(ProgramFrames(t))
  <1>1. Nested(<<>>) BY DEF Nested
  <1>. DEFINE p == ParseProgram(t)
              s == <<p>>
  <1>2. p \in Frame /\ Neutral(p)
    BY DEF ParseProgram, Frame, LineFrame, Neutral
  <1>3. Sound(p) BY <1>2, NeutralFits
  <1>. HIDE DEF p
  <1>4. s \in Seq(Frame) /\ s # <<>> /\ Len(s) = 1 /\ s[1] = p BY <1>2
  <1>. HIDE DEF s
  <1>5. \A i \in 1..Len(s) : i = 1 /\ s[i] = p BY <1>4
  <1>6. Nested(s) BY <1>3, <1>5 DEF Nested
  <1>7. Nested(s \o parse_statement(t)) BY <1>2, <1>4, <1>6, NestedStatement
  <1>. QED BY <1>1, <1>7 DEF ProgramFrames, s, p

LEMMA NextStatementGroups == ASSUME parse_program PROVE GInv'
  BY ProgramGrouped DEF parse_program, GInv, Grouped

LEMMA NewParserGroups == ASSUME new_parser PROVE GInv'
  <1>1. PICK t : frames' = ProgramFrames(t) /\ ret' = NONE BY DEF new_parser
  <1>. QED BY <1>1, ProgramGrouped DEF GInv, Grouped

----------------------------------------------------------------------------

LEMMA GroupedInitially == ParserInit => GInv
  BY DEF ParserInit, GInv, Grouped, Nested

LEMMA GroupingInductive == IInv /\ GInv /\ [ParserNext]_parserVars => GInv'
  <1>1. SUFFICES ASSUME IInv, GInv, [ParserNext]_parserVars PROVE GInv' OBVIOUS
  <1>2. CASE parse
    <2>1. CASE expect_peek BY <1>1, <2>1, ExpectPeekGroups
    <2>2. CASE parse_operand BY <1>1, <2>2, ParseOperandGroups
    <2>3. CASE parse_let_statement BY <1>1, <2>3, LetStatementGroups
    <2>4. CASE parse_return_statement BY <1>1, <2>4, ReturnStatementGroups
    <2>5. CASE parse_jump_statement BY <1>1, <2>5, JumpStatementGroups
    <2>6. CASE end_of_statement BY <1>1, <2>6, EndOfStatementGroups
    <2>7. CASE block_statements BY <1>1, <2>7, BlockStatementsGroups
    <2>8. CASE parse_prefix BY <1>1, <2>8, ParsePrefixGroups
    <2>9. CASE parse_infix BY <1>1, <2>9, ParseInfixGroups
    <2>10. CASE parse_prefix_expression BY <1>1, <2>10, PrefixExpressionGroups
    <2>11. CASE parse_infix_expression BY <1>1, <2>11, InfixExpressionGroups
    <2>12. CASE parse_closing_bracket BY <1>1, <2>12, ClosingBracketGroups
    <2>13. CASE parse_list BY <1>1, <2>13, ParseListGroups
    <2>14. CASE parse_hash_literal BY <1>1, <2>14, HashLiteralGroups
    <2>15. CASE parse_function_parameters BY <1>1, <2>15, FunctionParametersGroups
    <2>16. CASE parse_if_expression BY <1>1, <2>16, IfExpressionGroups
    <2>17. CASE complete_expression BY <1>1, <2>17, CompleteExpressionGroups
    <2>18. CASE parse_while_loop BY <1>1, <2>18, WhileLoopGroups
    <2>19. CASE parse_for_loop BY <1>1, <2>19, ForLoopGroups
    <2>20. CASE end_of_loop BY <1>1, <2>20, EndOfLoopGroups
    <2>. QED
      BY <1>2, <2>1, <2>2, <2>3, <2>4, <2>5, <2>6, <2>7, <2>8, <2>9, <2>10, <2>11,
         <2>12, <2>13, <2>14, <2>15, <2>16, <2>17, <2>18, <2>19, <2>20 DEF parse
  <1>3. CASE parse_program BY <1>3, NextStatementGroups
  <1>4. CASE new_parser BY <1>4, NewParserGroups
  <1>5. CASE UNCHANGED parserVars
    BY <1>1, <1>5 DEF GInv, parserVars, tokenVars, errorVars, callVars
  <1>. QED BY <1>1, <1>2, <1>3, <1>4, <1>5 DEF ParserNext

(* In an expression of any length and nesting, unless the line has an      *)
(* error, the operand to the left of an operator binds at least as tightly *)
(* as the operator, the one to its right more tightly, and the operand of  *)
(* ! and - as tightly as a prefix (parser.c:324-336, 731-746).             *)
THEOREM OperatorsGroup == ParserSpec => []Grouping
  <1>1. IInv /\ GInv => Grouping
    <2>1. SUFFICES ASSUME IInv, GInv, ~errors
                   PROVE  /\ Back("right_operand") => ret > Top.prec /\ Top.left >= Top.prec
                          /\ Back("prefix_operand") => ret >= PREFIX
      BY DEF Grouping
    <2>2. /\ Nested(frames) /\ frames \in Seq(Frame)
          /\ frames # <<>> /\ ret # NONE => Accepts(Top, ret, peek)
      BY <2>1 DEF GInv, Grouped, Top, IInv, CallsOK, StackOK
    <2>3. frames # <<>> => Sound(Top)
      <3>1. frames # <<>> => Len(frames) \in 1..Len(frames) BY <2>2, TopIsFrame
      <3>. QED BY <2>2, <3>1 DEF Nested, Top
    <2>. QED BY <2>2, <2>3 DEF Back, Accepts, Sound, IsOp
  <1>2. ParserSpec => []GInv
    BY GroupedInitially, GroupingInductive, Invariance, PTL DEF ParserSpec
  <1>. QED BY <1>1, <1>2, Invariance, PTL

----------------------------------------------------------------------------
(* Brackets *)

(* That brackets match follows from a third invariant, BInv.  The calls    *)
(* that wait for a bracket are counted: the lemmas below say how the count *)
(* and the ranks change when a call is made, returns, or goes on.          *)

(* The rank of a call among those that wait for a bracket.                 *)
Rank(s, i) == Cardinality({j \in Waiting(s) : j <= i})

LEMMA WaitingFinite ==
  ASSUME NEW s \in Seq(Frame)
  PROVE  /\ Waiting(s) \subseteq 1..Len(s) /\ IsFiniteSet(Waiting(s))
         /\ Cardinality(Waiting(s)) \in Nat
         /\ \A i : IsFiniteSet({j \in Waiting(s) : j <= i})
         /\ \A i : Rank(s, i) \in Nat
         /\ \A i : Rank(s, i) <= Cardinality(Waiting(s))
         /\ \A i \in Waiting(s) : Rank(s, i) \in 1..Cardinality(Waiting(s))
  <1>1. Waiting(s) \subseteq 1..Len(s) BY LenProperties DEF Waiting
  <1>2. IsFiniteSet(Waiting(s))
    <2>1. IsFiniteSet(1..Len(s)) BY LenProperties, FS_Interval
    <2>. QED BY <1>1, <2>1, FS_Subset
  <1>3. ASSUME NEW i
        PROVE  /\ IsFiniteSet({j \in Waiting(s) : j <= i})
               /\ Rank(s, i) \in Nat /\ Rank(s, i) <= Cardinality(Waiting(s))
               /\ i \in Waiting(s) => Rank(s, i) # 0
    <2>. DEFINE R == {j \in Waiting(s) : j <= i}
    <2>1. R \subseteq Waiting(s) OBVIOUS
    <2>2. i \in Waiting(s) => i \in R BY <1>1
    <2>3. Rank(s, i) = Cardinality(R) BY DEF Rank
    <2>. HIDE DEF R
    <2>4. IsFiniteSet(R) /\ Cardinality(R) <= Cardinality(Waiting(s))
      BY <1>2, <2>1, FS_Subset
    <2>5. Cardinality(R) \in Nat BY <2>4, FS_CardinalityType
    <2>6. R # {} => Cardinality(R) # 0 BY <2>4, FS_EmptySet
    <2>. QED BY <2>2, <2>3, <2>4, <2>5, <2>6 DEF R
  <1>4. Cardinality(Waiting(s)) \in Nat BY <1>2, FS_CardinalityType
  <1>5. ASSUME NEW i \in Waiting(s) PROVE Rank(s, i) \in 1..Cardinality(Waiting(s))
    <2>1. /\ Rank(s, i) \in Nat /\ Rank(s, i) # 0
          /\ Rank(s, i) <= Cardinality(Waiting(s))
      BY <1>3, Zenon
    <2>. QED BY <2>1, <1>4
  <1>6. \A i : IsFiniteSet({j \in Waiting(s) : j <= i}) BY <1>3
  <1>7. \A i : Rank(s, i) \in Nat /\ Rank(s, i) <= Cardinality(Waiting(s)) BY <1>3
  <1>. QED BY <1>1, <1>2, <1>4, <1>5, <1>6, <1>7

LEMMA NothingAwaited == AwaitEachOther(<<>>, <<>>)
  <1>1. Waiting(<<>>) = {} BY DEF Waiting
  <1>. QED BY <1>1, FS_EmptySet DEF AwaitEachOther

LEMMA NothingOpen ==
  ASSUME NEW f, BracketsOf(f) = {}, NEW T, NEW o \in Seq(T), AwaitEachOther(<<f>>, o)
  PROVE  o = <<>>
  <1>1. Waiting(<<f>>) = {} BY DEF Waiting
  <1>2. Len(o) = 0 BY <1>1, FS_EmptySet DEF AwaitEachOther
  <1>. QED BY <1>2, EmptySeq

(* One more call at the end, which waits or not.                           *)
WaitsToo(s, f, t, n) ==
  /\ Waiting(t) = IF BracketsOf(f) = {} THEN Waiting(s) ELSE Waiting(s) \cup {n}
  /\ n \notin Waiting(s)
  /\ \A i \in Waiting(s) : t[i] = s[i] /\ Rank(t, i) = Rank(s, i)
  /\ t[n] = f
  /\ BracketsOf(f) # {} =>
       /\ Cardinality(Waiting(t)) = Cardinality(Waiting(s)) + 1
       /\ Rank(t, n) = Cardinality(Waiting(t))

LEMMA WaitingAppend ==
  ASSUME NEW s \in Seq(Frame), NEW f \in Frame
  PROVE  WaitsToo(s, f, Append(s, f), Len(s) + 1)
  <1>. DEFINE t == Append(s, f)
              n == Len(s) + 1
  <1>1. /\ Len(s) \in Nat /\ n \in Nat /\ n = Len(s) + 1
        /\ DOMAIN s = 1..Len(s) /\ DOMAIN t = 1..n
        /\ \A i \in 1..Len(s) : t[i] = s[i]
        /\ t[n] = f
    BY AppendProperties, LenProperties
  <1>. HIDE DEF t, n
  <1>2. \A i \in 1..n : i = n \/ i \in 1..Len(s) BY <1>1
  <1>3. n \in 1..n /\ n \notin 1..Len(s) /\ \A i \in 1..Len(s) : i \in 1..n /\ i < n BY <1>1
  <1>4. Waiting(t) = IF BracketsOf(f) = {} THEN Waiting(s) ELSE Waiting(s) \cup {n}
    BY <1>1, <1>2, <1>3 DEF Waiting
  <1>5. n \notin Waiting(s) /\ \A i \in Waiting(s) : i \in 1..Len(s)
    BY <1>1, <1>3 DEF Waiting
  <1>6. ASSUME NEW i \in Waiting(s) PROVE t[i] = s[i] /\ Rank(t, i) = Rank(s, i)
    <2>1. i \in 1..Len(s) /\ ~(n <= i) BY <1>1, <1>5
    <2>2. {j \in Waiting(t) : j <= i} = {j \in Waiting(s) : j <= i} BY <1>4, <2>1
    <2>. QED BY <1>1, <2>1, <2>2 DEF Rank
  <1>7. ASSUME BracketsOf(f) # {}
        PROVE  /\ Cardinality(Waiting(t)) = Cardinality(Waiting(s)) + 1
               /\ Rank(t, n) = Cardinality(Waiting(t))
    <2>1. Waiting(t) = Waiting(s) \cup {n} BY <1>4, <1>7
    <2>2. IsFiniteSet(Waiting(s)) BY WaitingFinite
    <2>3. Cardinality(Waiting(s) \cup {n}) = Cardinality(Waiting(s)) + 1
      BY <1>5, <2>2, FS_AddElement
    <2>4. \A j \in Waiting(t) : j <= n BY <1>1, <1>3, <1>5, <2>1
    <2>5. {j \in Waiting(t) : j <= n} = Waiting(t) BY <2>4
    <2>. QED BY <2>1, <2>3, <2>5 DEF Rank
  <1>8. WaitsToo(s, f, t, n) BY <1>1, <1>4, <1>5, <1>6, <1>7 DEF WaitsToo
  <1>. QED BY <1>8 DEF t, n

LEMMA AwaitRanks ==
  ASSUME NEW s, NEW o
  PROVE  AwaitEachOther(s, o) <=>
           /\ Len(o) = Cardinality(Waiting(s))
           /\ \A i \in Waiting(s) : BracketsOf(s[i]) = {o[Rank(s, i)]}
  BY DEF AwaitEachOther, Rank

(* A call that waits for no bracket comes or goes.                         *)
LEMMA AwaitsNone ==
  ASSUME NEW s \in Seq(Frame), NEW f \in Frame, BracketsOf(f) = {}, NEW o
  PROVE  AwaitEachOther(Append(s, f), o) <=> AwaitEachOther(s, o)
  <1>. DEFINE t == Append(s, f)
              n == Len(s) + 1
  <1>0. WaitsToo(s, f, t, n) BY WaitingAppend
  <1>. HIDE DEF t, n
  <1>1. Waiting(t) = Waiting(s) /\ \A i \in Waiting(s) : t[i] = s[i] /\ Rank(t, i) = Rank(s, i)
    BY <1>0 DEF WaitsToo
  <1>2. AwaitEachOther(t, o) <=> AwaitEachOther(s, o) BY <1>1, AwaitRanks
  <1>. QED BY <1>2 DEF t

(* A call comes with a bracket.                                            *)
LEMMA AwaitsOneMore ==
  ASSUME NEW s \in Seq(Frame), NEW f \in Frame, NEW b \in AllTokens, BracketsOf(f) = {b},
         NEW o \in Seq(AllTokens), AwaitEachOther(s, o)
  PROVE  AwaitEachOther(Append(s, f), Append(o, b))
  <1>. DEFINE t == Append(s, f)
              n == Len(s) + 1
              u == Append(o, b)
  <1>1. /\ Waiting(t) = Waiting(s) \cup {n}
        /\ \A i \in Waiting(s) : t[i] = s[i] /\ Rank(t, i) = Rank(s, i)
        /\ t[n] = f
        /\ Cardinality(Waiting(t)) = Cardinality(Waiting(s)) + 1
        /\ Rank(t, n) = Cardinality(Waiting(t))
    <2>1. WaitsToo(s, f, t, n) BY WaitingAppend
    <2>. HIDE DEF t, n
    <2>. QED BY <2>1 DEF WaitsToo
  <1>2. /\ Len(o) = Cardinality(Waiting(s)) /\ Len(o) \in Nat
        /\ \A i \in Waiting(s) : BracketsOf(s[i]) = {o[Rank(s, i)]}
    BY AwaitRanks, LenProperties
  <1>3. Len(u) = Len(o) + 1 /\ u[Len(o) + 1] = b /\ \A i \in 1..Len(o) : u[i] = o[i]
    BY AppendProperties
  <1>. HIDE DEF t, n, u
  <1>4. \A i \in Waiting(s) : Rank(s, i) \in 1..Len(o) BY <1>2, WaitingFinite
  <1>5. \A i \in Waiting(t) : BracketsOf(t[i]) = {u[Rank(t, i)]}
    BY <1>1, <1>2, <1>3, <1>4
  <1>6. AwaitEachOther(t, u) BY <1>1, <1>2, <1>3, <1>5, AwaitRanks
  <1>. QED BY <1>6 DEF t, u

(* A call goes with its bracket.                                           *)
LEMMA AwaitsOneLess ==
  ASSUME NEW s \in Seq(Frame), NEW f \in Frame, NEW b, BracketsOf(f) = {b},
         NEW o \in Seq(AllTokens), AwaitEachOther(Append(s, f), o)
  PROVE  /\ o # <<>> /\ o[Len(o)] = b
         /\ AwaitEachOther(s, SubSeq(o, 1, Len(o) - 1))
  <1>. DEFINE t == Append(s, f)
              n == Len(s) + 1
              m == Len(o) - 1
              u == SubSeq(o, 1, m)
  <1>1. /\ Waiting(t) = Waiting(s) \cup {n}
        /\ \A i \in Waiting(s) : t[i] = s[i] /\ Rank(t, i) = Rank(s, i)
        /\ t[n] = f
        /\ Cardinality(Waiting(t)) = Cardinality(Waiting(s)) + 1
        /\ Rank(t, n) = Cardinality(Waiting(t))
    <2>1. WaitsToo(s, f, t, n) BY WaitingAppend
    <2>. HIDE DEF t, n
    <2>. QED BY <2>1 DEF WaitsToo
  <1>2. /\ Len(o) = Cardinality(Waiting(t)) /\ Len(o) \in Nat
        /\ \A i \in Waiting(t) : BracketsOf(t[i]) = {o[Rank(t, i)]}
    BY AwaitRanks, LenProperties
  <1>3. Cardinality(Waiting(s)) \in Nat BY WaitingFinite
  <1>4. m \in Nat /\ m = Cardinality(Waiting(s)) /\ Len(o) = m + 1
    BY <1>1, <1>2, <1>3
  <1>5. Len(u) = m /\ \A i \in 1..m : u[i] = o[i]
    <2>1. \A i \in 1..m : o[i] \in AllTokens BY <1>4, ElementOfSeq
    <2>. QED BY <1>4
  <1>. HIDE DEF t, n, u, m
  <1>6. \A i \in Waiting(s) : Rank(s, i) \in 1..m BY <1>4, WaitingFinite
  <1>7. \A i \in Waiting(s) : BracketsOf(s[i]) = {u[Rank(s, i)]}
    BY <1>1, <1>2, <1>5, <1>6
  <1>8. AwaitEachOther(s, u) BY <1>4, <1>5, <1>7, AwaitRanks
  <1>9. o # <<>> /\ o[Len(o)] = b
    <2>1. {o[Len(o)]} = {b} BY <1>1, <1>2
    <2>. QED BY <2>1, <1>4
  <1>. QED BY <1>8, <1>9 DEF u, m

(* Between the calls s and the open brackets o, when the last of o may be  *)
(* the current token t, whose function has not been called yet.            *)
Bracketed(s, v, t, o) ==
  IF s # <<>> /\ s[Len(s)].at = "expression" /\ v = NONE
  THEN /\ t \in Openers => /\ o # <<>> /\ o[Len(o)] = t
                           /\ AwaitEachOther(s, SubSeq(o, 1, Len(o) - 1))
       /\ t \notin Openers \cup Closers => AwaitEachOther(s, o)
  ELSE AwaitEachOther(s, o)

(* The inductive invariant.                                                *)
BInv ==
  /\ open \in Seq(AllTokens)
  /\ cur = "END_OF_FILE" => peek = "END_OF_FILE"
  /\ ~lenient /\ ~errors /\ cur # "END_OF_FILE" => Bracketed(frames, ret, cur, open)

(* Another call takes the place of the last, and waits for the same.       *)
LEMMA AwaitsTheSame ==
  ASSUME NEW s \in Seq(Frame), NEW f \in Frame, NEW g \in Frame,
         BracketsOf(f) = BracketsOf(g), NEW o, AwaitEachOther(Append(s, f), o)
  PROVE  AwaitEachOther(Append(s, g), o)
  <1>. DEFINE t == Append(s, f)
              u == Append(s, g)
              n == Len(s) + 1
  <1>1. /\ Waiting(t) = Waiting(u)
        /\ \A i \in Waiting(s) : t[i] = s[i] /\ u[i] = s[i]
        /\ t[n] = f /\ u[n] = g
        /\ \A i \in Waiting(t) : i \in Waiting(s) \/ i = n
    <2>1. WaitsToo(s, f, t, n) /\ WaitsToo(s, g, u, n) BY WaitingAppend
    <2>. HIDE DEF t, u, n
    <2>. QED BY <2>1 DEF WaitsToo
  <1>. HIDE DEF t, u, n
  <1>2. \A i \in Waiting(t) : BracketsOf(t[i]) = BracketsOf(u[i]) BY <1>1
  <1>3. \A i : Rank(t, i) = Rank(u, i) BY <1>1 DEF Rank
  <1>4. AwaitEachOther(t, o) BY DEF t
  <1>5. AwaitEachOther(u, o) BY <1>1, <1>2, <1>3, <1>4, AwaitRanks
  <1>. QED BY <1>5 DEF u

----------------------------------------------------------------------------
(* Brackets and tokens *)

LEMMA BracketTokens ==
  /\ Openers = {"LPAREN", "LBRACE", "LBRACKET"}
  /\ Closers = {"RPAREN", "RBRACE", "RBRACKET"}
  /\ closer["LPAREN"] = "RPAREN" /\ closer["LBRACE"] = "RBRACE"
  /\ closer["LBRACKET"] = "RBRACKET"
  /\ Openers \subseteq AllTokens /\ Closers \subseteq AllTokens
  <1>1. /\ Openers = {"LPAREN", "LBRACE", "LBRACKET"}
        /\ closer["LPAREN"] = "RPAREN" /\ closer["LBRACE"] = "RBRACE"
        /\ closer["LBRACKET"] = "RBRACKET"
    BY DEF Openers, closer
  <1>2. Closers = {"RPAREN", "RBRACE", "RBRACKET"} BY <1>1 DEF Closers
  <1>. QED BY <1>1, <1>2 DEF AllTokens

ListPoints == {"list_start", "list", "list_comma"}

(* What the calls at each point wait for.                                  *)
LEMMA BracketsAt ==
  ASSUME NEW f, f.at \notin ListPoints
  PROVE  /\ f.at \in BracketPoints["LPAREN"] => BracketsOf(f) = {"LPAREN"}
         /\ f.at \in BracketPoints["LBRACKET"] => BracketsOf(f) = {"LBRACKET"}
         /\ f.at \in BracketPoints["LBRACE"] => BracketsOf(f) = {"LBRACE"}
         /\ f.at \notin BracketPoints["LPAREN"] \cup BracketPoints["LBRACKET"]
                          \cup BracketPoints["LBRACE"] => BracketsOf(f) = {}
  <1>1. BracketsOf(f) = {t \in {"LPAREN", "LBRACE", "LBRACKET"} : f.at \in BracketPoints[t]}
    BY BracketTokens DEF BracketsOf, ListPoints
  <1>2. /\ BracketPoints["LPAREN"] \cap BracketPoints["LBRACKET"] = {}
        /\ BracketPoints["LPAREN"] \cap BracketPoints["LBRACE"] = {}
        /\ BracketPoints["LBRACKET"] \cap BracketPoints["LBRACE"] = {}
    BY DEF BracketPoints
  <1>. QED BY <1>1, <1>2

LEMMA ListBrackets ==
  ASSUME NEW f, f.at \in ListPoints, NEW t \in Openers, f.closer = closer[t]
  PROVE  BracketsOf(f) = {t}
  BY BracketTokens DEF BracketsOf, ListPoints

(* What was awaited, and what is awaited then, over what was open and is.  *)
Turns(B, C, o, p) ==
  \/ B = C /\ p = o
  \/ \E t \in Openers : B = {} /\ C = {t} /\ p = Append(o, t)
  \/ \E t \in Openers : B = {t} /\ C = {} /\ p = Nest(o, closer[t])

LEMMA Nests ==
  ASSUME NEW o \in Seq(AllTokens), NEW t \in AllTokens
  PROVE  /\ Nest(o, t) \in Seq(AllTokens)
         /\ t \notin Openers \cup Closers => Nest(o, t) = o
         /\ t \in Openers => Nest(o, t) = Append(o, t)
         /\ \A b \in Openers : o # <<>> /\ o[Len(o)] = b =>
              Nest(o, closer[b]) = SubSeq(o, 1, Len(o) - 1)
  <1>1. SubSeq(o, 1, Len(o) - 1) \in Seq(AllTokens)
    BY SubSeqProperties, LenProperties, ElementOfSeq
  <1>2. Append(o, t) \in Seq(AllTokens) BY AppendProperties
  <1>. QED BY <1>1, <1>2, BracketTokens DEF Nest

LEMMA TokenTurns ==
  ASSUME NEW o \in Seq(AllTokens), NEW t \in AllTokens, NEW B
  PROVE  /\ Turns(B, B, o, o)
         /\ t \notin Openers \cup Closers => Turns(B, B, o, Nest(o, t))
         /\ t \in Openers => Turns({}, {t}, o, Nest(o, t))
         /\ \A b \in Openers : t = closer[b] => Turns({b}, {}, o, Nest(o, t))
  BY Nests DEF Turns

LEMMA Turned ==
  ASSUME NEW s \in Seq(Frame), NEW e \in Frame, NEW f \in Frame,
         NEW o \in Seq(AllTokens), AwaitEachOther(Append(s, e), o), NEW p,
         Turns(BracketsOf(e), BracketsOf(f), o, p)
  PROVE  AwaitEachOther(Append(s, f), p)
  <1>1. CASE BracketsOf(e) = BracketsOf(f) /\ p = o BY <1>1, AwaitsTheSame
  <1>2. CASE \E t \in Openers :
               BracketsOf(e) = {} /\ BracketsOf(f) = {t} /\ p = Append(o, t)
    <2>1. PICK t \in Openers :
            BracketsOf(e) = {} /\ BracketsOf(f) = {t} /\ p = Append(o, t)
      BY <1>2
    <2>2. AwaitEachOther(s, o) BY <2>1, AwaitsNone
    <2>3. t \in AllTokens BY BracketTokens
    <2>. QED BY <2>1, <2>2, <2>3, AwaitsOneMore
  <1>3. CASE \E t \in Openers :
               BracketsOf(e) = {t} /\ BracketsOf(f) = {} /\ p = Nest(o, closer[t])
    <2>1. PICK t \in Openers :
            BracketsOf(e) = {t} /\ BracketsOf(f) = {} /\ p = Nest(o, closer[t])
      BY <1>3
    <2>2. o # <<>> /\ o[Len(o)] = t /\ AwaitEachOther(s, SubSeq(o, 1, Len(o) - 1))
      BY <2>1, AwaitsOneLess
    <2>3. t \in AllTokens BY BracketTokens
    <2>4. p = SubSeq(o, 1, Len(o) - 1) BY <2>1, <2>2, <2>3, Nests
    <2>. QED BY <2>1, <2>2, <2>4, AwaitsNone
  <1>. QED BY <1>1, <1>2, <1>3 DEF Turns

(* Any call that waits for nothing will do to say that none is left.       *)
LEMMA TurnedAway ==
  ASSUME NEW s \in Seq(Frame), NEW e \in Frame,
         NEW o \in Seq(AllTokens), AwaitEachOther(Append(s, e), o), NEW p,
         Turns(BracketsOf(e), {}, o, p)
  PROVE  AwaitEachOther(s, p)
  <1>. DEFINE f == Point("jump")
  <1>1. f \in Frame BY PlainIsHarmless DEF PlainPoints
  <1>2. BracketsOf(f) = {} BY BracketsAt DEF Point, BracketPoints, ListPoints
  <1>. HIDE DEF f
  <1>3. AwaitEachOther(Append(s, f), p) BY <1>1, <1>2, Turned
  <1>. QED BY <1>1, <1>2, <1>3, AwaitsNone

(* A call of parse_expression, or of a statement's function, has the token *)
(* it begins with for the current one.                                     *)
LEMMA ExpressionBracketed ==
  ASSUME NEW s \in Seq(Frame), NEW o \in Seq(AllTokens), AwaitEachOther(s, o),
         NEW n \in Binding, NEW t \in AllTokens
  PROVE  Bracketed(s \o parse_expression(n), NONE, t, Nest(o, t))
  <1>. DEFINE x == Level("expression", n)
              u == Append(s, x)
  <1>1. x \in Frame /\ x.at = "expression" BY LevelIsHarmless DEF Level
  <1>2. BracketsOf(x) = {} BY BracketsAt DEF Level, BracketPoints, ListPoints
  <1>3. s \o parse_expression(n) = s \o <<x>> BY DEF parse_expression
  <1>. HIDE DEF x
  <1>4. s \o parse_expression(n) = u BY <1>1, <1>3, AppendIsConcat
  <1>5. u # <<>> /\ u[Len(u)] = x BY <1>1, AppendProperties, LenProperties
  <1>6. AwaitEachOther(u, o) BY <1>1, <1>2, AwaitsNone
  <1>. HIDE DEF u
  <1>7. ASSUME t \in Openers
        PROVE  /\ Nest(o, t) # <<>> /\ Nest(o, t)[Len(Nest(o, t))] = t
               /\ SubSeq(Nest(o, t), 1, Len(Nest(o, t)) - 1) = o
    <2>1. Nest(o, t) = Append(o, t) BY <1>7, Nests
    <2>2. Len(Append(o, t)) = Len(o) + 1 /\ Append(o, t)[Len(o) + 1] = t /\ Len(o) \in Nat
      BY AppendProperties, LenProperties
    <2>3. SubSeq(Append(o, t), 1, Len(o)) = o BY <2>2
    <2>4. (Len(o) + 1) - 1 = Len(o) BY <2>2
    <2>. QED BY <2>1, <2>2, <2>3, <2>4
  <1>8. t \notin Openers \cup Closers => Nest(o, t) = o BY Nests
  <1>9. Bracketed(u, NONE, t, Nest(o, t))
    BY <1>1, <1>5, <1>6, <1>7, <1>8 DEF Bracketed
  <1>. QED BY <1>4, <1>9

LEMMA StatementBracketed ==
  ASSUME NEW s \in Seq(Frame), NEW o \in Seq(AllTokens), AwaitEachOther(s, o),
         NEW t \in AllTokens
  PROVE  Bracketed(s \o parse_statement(t), NONE, t, Nest(o, t))
  <1>1. ASSUME NEW p \in {"let", "return", "jump", "end_of_statement"}
        PROVE  /\ Point(p) \in Frame /\ BracketsOf(Point(p)) = {}
               /\ Point(p).at # "expression"
               /\ s \o <<Point(p)>> = Append(s, Point(p))
               /\ AwaitEachOther(Append(s, Point(p)), o)
    <2>1. Point(p) \in Frame /\ Point(p).at = p BY PlainIsHarmless DEF PlainPoints, Point
    <2>2. BracketsOf(Point(p)) = {} BY <2>1, BracketsAt DEF BracketPoints, ListPoints
    <2>. QED BY <2>1, <2>2, AppendIsConcat, AwaitsNone
  <1>2. CASE t \in {"LET", "RETURN", "BREAK", "CONTINUE"}
    <2>1. PICK p \in {"let", "return", "jump"} : parse_statement(t) = <<Point(p)>>
      BY <1>2 DEF parse_statement
    <2>. DEFINE u == Append(s, Point(p))
    <2>2. AwaitEachOther(u, o) /\ s \o parse_statement(t) = u BY <1>1, <2>1
    <2>3. u[Len(u)] = Point(p) BY <1>1, AppendProperties, LenProperties
    <2>4. Nest(o, t) = o BY <1>2, Nests, BracketTokens
    <2>. HIDE DEF u
    <2>. QED BY <1>1, <2>1, <2>2, <2>3, <2>4 DEF Bracketed
  <1>3. CASE t \notin {"LET", "RETURN", "BREAK", "CONTINUE"}
    <2>. DEFINE e == Point("end_of_statement")
                u == Append(s, e)
    <2>1. e \in Frame /\ AwaitEachOther(u, o) /\ u = s \o <<e>> BY <1>1
    <2>2. parse_statement(t) = <<e>> \o parse_expression(LOWEST)
      BY <1>3 DEF parse_statement
    <2>3. parse_expression(LOWEST) \in Seq(Frame)
      BY ExpressionCalls, BindingValues DEF Calls
    <2>. HIDE DEF e
    <2>4. u \in Seq(Frame) BY <2>1, AppendProperties
    <2>5. s \o parse_statement(t) = u \o parse_expression(LOWEST)
      <3>1. <<e>> \in Seq(Frame) BY <2>1
      <3>2. s \o (<<e>> \o parse_expression(LOWEST))
              = (s \o <<e>>) \o parse_expression(LOWEST)
        BY <2>3, <3>1, ConcatAssociative
      <3>. QED BY <2>1, <2>2, <3>2
    <2>. HIDE DEF u
    <2>. QED BY <2>1, <2>4, <2>5, ExpressionBracketed, BindingValues
  <1>. QED BY <1>2, <1>3

----------------------------------------------------------------------------
(* What an action does to the calls and the open brackets *)

(* The line so far promises matched brackets.                              *)
Fine == ~lenient /\ ~errors /\ cur # "END_OF_FILE"

(* The open brackets are tokens, nothing follows the end, and a promise is *)
(* not made late.                                                          *)
TextRead ==
  /\ open' \in Seq(AllTokens)
  /\ cur' = "END_OF_FILE" => peek' = "END_OF_FILE"
  /\ Fine' => Fine

LEMMA TokenRead ==
  ASSUME IInv, BInv, NEW good, parser_next_token(good)
  PROVE  /\ TextRead /\ (Fine' => good)
         /\ cur' = peek /\ peek \in AllTokens /\ open' = Nest(open, peek)
  <1>1. peek \in AllTokens /\ open \in Seq(AllTokens)
        /\ (cur = "END_OF_FILE" => peek = "END_OF_FILE")
    BY DEF IInv, TokensOK, BInv
  <1>2. /\ cur' = peek /\ open' = Nest(open, peek)
        /\ peek' \in IF left = 0 THEN {"END_OF_FILE"} ELSE Follow(peek)
        /\ lenient' = (lenient \/ ~good)
        /\ errors' = errors
    BY DEF parser_next_token, errorVars
  <1>3. open' \in Seq(AllTokens) BY <1>1, <1>2, Nests
  <1>4. cur' = "END_OF_FILE" => peek' = "END_OF_FILE" BY <1>2 DEF Follow
  <1>. QED BY <1>1, <1>2, <1>3, <1>4 DEF TextRead, Fine

LEMMA NothingRead ==
  ASSUME BInv, UNCHANGED <<cur, peek, open, errors>>, Fine' => Fine
  PROVE  TextRead
  BY DEF TextRead, BInv

LEMMA QuietReads == ASSUME BInv, Quiet PROVE TextRead /\ open' = open
  BY NothingRead DEF Quiet, tokenVars, errorVars, Fine

LEMMA ErrorEnds == ASSUME BInv, add_error PROVE BInv'
  BY DEF add_error, BInv

(* The calls but the last, and the last, whose brackets are open.          *)
LEMMA TopAwaits ==
  ASSUME IInv, BInv, frames # <<>>
  PROVE  /\ frames = Append(Below, Top) /\ Below \in Seq(Frame) /\ Top \in Frame
         /\ open \in Seq(AllTokens)
         /\ Fine /\ (Top.at # "expression" \/ ret # NONE) =>
              AwaitEachOther(Append(Below, Top), open)
  <1>1. frames \in Seq(Frame) BY DEF IInv, CallsOK, StackOK
  <1>2. Below \in Seq(Frame) /\ Len(Below) = Len(frames) - 1
    BY <1>1, BelowTop DEF Below
  <1>3. Top \in Frame /\ Len(frames) \in Nat \ {0} BY <1>1, TopIsFrame DEF Top
  <1>4. frames = Append(Below, Top)
    BY <1>1, <1>3 DEF Below, Top
  <1>5. Fine /\ (Top.at # "expression" \/ ret # NONE) => AwaitEachOther(frames, open)
    BY DEF BInv, Fine, Bracketed, Top
  <1>. QED BY <1>1, <1>2, <1>3, <1>4, <1>5 DEF BInv

(* A function returns, with what it waited for.                            *)
LEMMA BracketsReturn ==
  ASSUME IInv, BInv, TextRead, frames # <<>>, Top.at # "expression",
         frames' = Below, ret' # NONE,
         Fine' => Turns(BracketsOf(Top), {}, open, open')
  PROVE  BInv'
  <1>1. SUFFICES ASSUME Fine' PROVE Bracketed(frames', ret', cur', open')
    BY DEF BInv, TextRead, Fine
  <1>2. /\ Below \in Seq(Frame) /\ Top \in Frame /\ open \in Seq(AllTokens)
        /\ AwaitEachOther(Append(Below, Top), open)
    BY <1>1, TopAwaits DEF TextRead
  <1>3. Turns(BracketsOf(Top), {}, open, open') BY <1>1
  <1>4. AwaitEachOther(Below, open') BY <1>2, <1>3, TurnedAway
  <1>. QED BY <1>4 DEF Bracketed

(* It goes on, with a bracket opened or closed or neither.                 *)
LEMMA BracketsGo ==
  ASSUME IInv, BInv, TextRead, frames # <<>>, Top.at # "expression",
         NEW f \in Frame, f.at # "expression",
         frames' = Append(Below, f), ret' = NONE,
         Fine' => Turns(BracketsOf(Top), BracketsOf(f), open, open')
  PROVE  BInv'
  <1>1. SUFFICES ASSUME Fine' PROVE Bracketed(frames', ret', cur', open')
    BY DEF BInv, TextRead, Fine
  <1>2. /\ Below \in Seq(Frame) /\ Top \in Frame /\ open \in Seq(AllTokens)
        /\ AwaitEachOther(Append(Below, Top), open)
    BY <1>1, TopAwaits DEF TextRead
  <1>3. Turns(BracketsOf(Top), BracketsOf(f), open, open') BY <1>1
  <1>4. AwaitEachOther(Append(Below, f), open') BY <1>2, <1>3, Turned
  <1>5. frames'[Len(frames')] = f BY <1>2, AppendProperties, LenProperties
  <1>. QED BY <1>4, <1>5 DEF Bracketed

(* It calls a function that waits for the bracket read.                    *)
LEMMA BracketsCall ==
  ASSUME IInv, BInv, TextRead, frames # <<>>, Top.at # "expression",
         NEW f \in Frame, BracketsOf(f) = BracketsOf(Top),
         NEW g \in Frame, g.at # "expression",
         frames' = Append(Below, f) \o <<g>>, ret' = NONE,
         Fine' => Turns({}, BracketsOf(g), open, open')
  PROVE  BInv'
  <1>1. SUFFICES ASSUME Fine' PROVE Bracketed(frames', ret', cur', open')
    BY DEF BInv, TextRead, Fine
  <1>2. /\ Below \in Seq(Frame) /\ Top \in Frame /\ open \in Seq(AllTokens)
        /\ AwaitEachOther(Append(Below, Top), open)
    BY <1>1, TopAwaits DEF TextRead
  <1>. DEFINE s == Append(Below, f)
              u == Append(s, g)
              e == Point("jump")
  <1>3. AwaitEachOther(s, open) BY <1>2, AwaitsTheSame
  <1>4. s \in Seq(Frame) BY <1>2, AppendProperties
  <1>5. e \in Frame BY PlainIsHarmless DEF PlainPoints
  <1>6. BracketsOf(e) = {} BY BracketsAt DEF Point, BracketPoints, ListPoints
  <1>7. frames' = s \o <<g>> OBVIOUS
  <1>. HIDE DEF s, e
  <1>8. AwaitEachOther(Append(s, e), open) BY <1>3, <1>4, <1>5, <1>6, AwaitsNone
  <1>9. Turns(BracketsOf(e), BracketsOf(g), open, open') BY <1>1, <1>6
  <1>10. AwaitEachOther(u, open') BY <1>2, <1>4, <1>5, <1>8, <1>9, Turned
  <1>11. frames' = u BY <1>4, <1>7, AppendIsConcat
  <1>12. u[Len(u)] = g BY <1>4, AppendProperties, LenProperties
  <1>. HIDE DEF u
  <1>. QED BY <1>10, <1>11, <1>12 DEF Bracketed

(* It reads the token an expression or a statement begins with.            *)
LEMMA BracketsBegin ==
  ASSUME IInv, BInv, TextRead, frames # <<>>, Top.at # "expression",
         NEW f \in Frame, BracketsOf(f) = BracketsOf(Top),
         cur' = peek, open' = Nest(open, peek), ret' = NONE,
         \/ \E n \in Binding : frames' = Append(Below, f) \o parse_expression(n)
         \/ frames' = Append(Below, f) \o parse_statement(peek)
  PROVE  BInv'
  <1>1. SUFFICES ASSUME Fine' PROVE Bracketed(frames', ret', cur', open')
    BY DEF BInv, TextRead, Fine
  <1>2. /\ Below \in Seq(Frame) /\ Top \in Frame /\ open \in Seq(AllTokens)
        /\ AwaitEachOther(Append(Below, Top), open)
    BY <1>1, TopAwaits DEF TextRead
  <1>. DEFINE s == Append(Below, f)
  <1>3. AwaitEachOther(s, open) BY <1>2, AwaitsTheSame
  <1>4. s \in Seq(Frame) BY <1>2, AppendProperties
  <1>5. peek \in AllTokens BY DEF IInv, TokensOK
  <1>6. \/ \E n \in Binding : frames' = s \o parse_expression(n)
        \/ frames' = s \o parse_statement(peek)
    OBVIOUS
  <1>. HIDE DEF s
  <1>7. CASE \E n \in Binding : frames' = s \o parse_expression(n)
    BY <1>2, <1>3, <1>4, <1>5, <1>7, ExpressionBracketed
  <1>8. CASE frames' = s \o parse_statement(peek)
    BY <1>2, <1>3, <1>4, <1>5, <1>8, StatementBracketed
  <1>. QED BY <1>6, <1>7, <1>8

----------------------------------------------------------------------------
(* Every action keeps brackets matched *)

(* Going on at another point.                                              *)
LEMMA ToAt ==
  ASSUME IInv, frames # <<>>, NEW p, SameFields(Top.at, p)
  PROVE  To(p) \in Frame /\ To(p).at = p
  BY TopOfStack, MovedAt DEF To

LEMMA ExpectPeekMatches == ASSUME IInv, BInv, expect_peek PROVE BInv'
  <1>1. PICK p \in DOMAIN Expectations :
          /\ frames # <<>> /\ Top.at = p
          /\ \/ /\ peek = Expectations[p].token /\ parser_next_token(TRUE)
                /\ Call(To(Expectations[p].next), Expectations[p].calls)
             \/ add_error
    BY DEF expect_peek
  <1>2. /\ SameFields(p, Expectations[p].next)
        /\ p # "expression" /\ Expectations[p].next # "expression"
    BY DEF Expectations, Expect, ThenBlock, SameFields, PlainPoints, LoopPoints
  <1>. DEFINE f == To(Expectations[p].next)
              t == Expectations[p].token
  <1>3. f \in Frame /\ f.at = Expectations[p].next BY <1>1, <1>2, ToAt
  <1>4. CASE add_error BY <1>4, ErrorEnds
  <1>5. CASE peek = t /\ parser_next_token(TRUE) /\ Call(f, Expectations[p].calls)
    <2>1. /\ TextRead /\ open' = Nest(open, t) /\ t \in AllTokens /\ open \in Seq(AllTokens)
      BY <1>5, TokenRead DEF BInv
    <2>2. CASE p \in {"let", "let_name", "if", "if_condition", "function", "while",
                      "while_condition", "for"}
      <3>1. Expectations[p].calls = <<>> BY <2>2 DEF Expectations, Expect
      <3>2. Turns(BracketsOf(Top), BracketsOf(f), open, open')
        <4>1. CASE p \in {"let", "let_name"}
          <5>1. t \notin Openers \cup Closers
            BY <4>1, BracketTokens DEF Expectations, Expect
          <5>2. f.at \in {"let_name", "let_assign"} BY <1>3, <4>1 DEF Expectations, Expect
          <5>3. BracketsOf(Top) = {} /\ BracketsOf(f) = {}
            BY <1>1, <4>1, <5>2, BracketsAt DEF BracketPoints, ListPoints
          <5>. QED BY <2>1, <5>1, <5>3, TokenTurns
        <4>2. CASE p \in {"if", "function", "while", "for"}
          <5>1. t = "LPAREN" BY <4>2 DEF Expectations, Expect
          <5>2. f.at \in {"if_lparen", "parameters", "while_lparen", "for_initialization"}
            BY <1>3, <4>2 DEF Expectations, Expect
          <5>3. BracketsOf(Top) = {} /\ BracketsOf(f) = {"LPAREN"}
            BY <1>1, <4>2, <5>2, BracketsAt DEF BracketPoints, ListPoints
          <5>4. "LPAREN" \in Openers BY BracketTokens
          <5>. QED BY <2>1, <5>1, <5>3, <5>4, TokenTurns
        <4>3. CASE p \in {"if_condition", "while_condition"}
          <5>1. t = "RPAREN" BY <4>3 DEF Expectations, Expect
          <5>2. f.at \in {"if_rparen", "while_rparen"}
            BY <1>3, <4>3 DEF Expectations, Expect
          <5>3. BracketsOf(Top) = {"LPAREN"} /\ BracketsOf(f) = {}
            BY <1>1, <4>3, <5>2, BracketsAt DEF BracketPoints, ListPoints
          <5>4. "LPAREN" \in Openers /\ closer["LPAREN"] = "RPAREN" BY BracketTokens
          <5>. QED BY <2>1, <5>1, <5>3, <5>4, TokenTurns
        <4>. QED BY <2>2, <4>1, <4>2, <4>3
      <3>3. frames' = Append(Below, f) /\ ret' = NONE
        <4>1. Below \in Seq(Frame) BY <1>1, TopAwaits
        <4>. HIDE DEF f
        <4>2. Append(Below, f) \in Seq(Frame) BY <1>3, <4>1, AppendProperties
        <4>. QED BY <1>5, <3>1, <4>2, ConcatEmptySeq DEF Call
      <3>. HIDE DEF f
      <3>. QED BY <1>1, <1>2, <1>3, <2>1, <3>2, <3>3, BracketsGo
    <2>3. CASE p \in {"if_rparen", "else", "body", "for_lbrace"}
      <3>. DEFINE g == Point("block")
      <3>1. Expectations[p].calls = <<g>> /\ t = "LBRACE"
        BY <2>3 DEF Expectations, ThenBlock, parse_block_statement
      <3>2. f.at \in {"consequence", "function_body", "loop_body"}
        BY <1>3, <2>3 DEF Expectations, ThenBlock
      <3>3. BracketsOf(Top) = {} /\ BracketsOf(f) = {}
        BY <1>1, <2>3, <3>2, BracketsAt DEF BracketPoints, ListPoints
      <3>4. g \in Frame /\ g.at = "block" BY PlainIsHarmless DEF PlainPoints, Point
      <3>5. BracketsOf(g) = {"LBRACE"} BY <3>4, BracketsAt DEF BracketPoints, ListPoints
      <3>6. "LBRACE" \in Openers BY BracketTokens
      <3>7. Turns({}, BracketsOf(g), open, open') BY <2>1, <3>1, <3>5, <3>6, TokenTurns
      <3>8. frames' = Append(Below, f) \o <<g>> /\ ret' = NONE
        BY <1>5, <3>1 DEF Call
      <3>. HIDE DEF f, g
      <3>. QED BY <1>1, <1>2, <1>3, <2>1, <3>3, <3>4, <3>7, <3>8, BracketsCall
    <2>4. DOMAIN Expectations =
            {"let", "let_name", "if", "if_condition", "function", "while",
             "while_condition", "for", "if_rparen", "else", "body", "for_lbrace"}
      BY DEF Expectations
    <2>. QED BY <2>2, <2>3, <2>4
  <1>. QED BY <1>1, <1>4, <1>5

LEMMA ParseOperandMatches == ASSUME IInv, BInv, parse_operand PROVE BInv'
  <1>1. PICK p \in DOMAIN Operands :
          /\ frames # <<>> /\ Top.at = p
          /\ parser_next_token(TRUE)
          /\ Call(To(Operands[p]), parse_expression(LOWEST))
    BY DEF parse_operand, At
  <1>. DEFINE f == To(Operands[p])
  <1>2. TextRead /\ cur' = peek /\ open' = Nest(open, peek) BY <1>1, TokenRead
  <1>3. SameFields(p, Operands[p]) BY DEF Operands, SameFields, PlainPoints, LoopPoints
  <1>4. f \in Frame /\ f.at = Operands[p] /\ Top \in Frame
    BY <1>1, <1>3, ToAt, TopOfStack
  <1>5. BracketsOf(f) = BracketsOf(Top)
    <2>1. CASE p = "list_comma"
      <3>1. f.at = "list" /\ f.closer = Top.closer
        BY <1>1, <1>3, <1>4, <2>1, MovedAt DEF To, Operands
      <3>. QED BY <1>1, <2>1, <3>1 DEF BracketsOf
    <2>2. CASE p \in {"let_assign", "return", "reassign"}
      <3>1. f.at \in {"let_value", "return_value", "reassign_value"}
        BY <1>4, <2>2 DEF Operands
      <3>. QED BY <1>1, <2>2, <3>1, BracketsAt DEF BracketPoints, ListPoints
    <2>3. CASE p \in {"if_lparen", "while_lparen", "grouped"}
      <3>1. f.at \in {"if_condition", "while_condition", "grouped_rparen"}
        BY <1>4, <2>3 DEF Operands
      <3>. QED BY <1>1, <2>3, <3>1, BracketsAt DEF BracketPoints, ListPoints
    <2>4. CASE p = "hash_colon"
      <3>1. f.at = "hash_value" BY <1>4, <2>4 DEF Operands
      <3>. QED BY <1>1, <2>4, <3>1, BracketsAt DEF BracketPoints, ListPoints
    <2>5. CASE p = "index"
      <3>1. f.at = "index_rbracket" BY <1>4, <2>5 DEF Operands
      <3>. QED BY <1>1, <2>5, <3>1, BracketsAt DEF BracketPoints, ListPoints
    <2>. QED BY <2>1, <2>2, <2>3, <2>4, <2>5 DEF Operands
  <1>6. Top.at # "expression" BY <1>1 DEF Operands
  <1>7. frames' = Append(Below, f) \o parse_expression(LOWEST) /\ ret' = NONE
    BY <1>1 DEF Call
  <1>. HIDE DEF f
  <1>. QED BY <1>1, <1>2, <1>4, <1>5, <1>6, <1>7, BracketsBegin, BindingValues

(* A statement's last part: the token passed over is a semicolon or the    *)
(* end, or nothing is promised.                                            *)
LEMMA SemicolonMatches ==
  ASSUME IInv, BInv, parser_next_token(peek \in {"SEMICOLON", "END_OF_FILE"}),
         frames # <<>>, Top.at \in {"let_value", "return_value", "jump"},
         Go(Point("end_of_statement"))
  PROVE  BInv'
  <1>. DEFINE f == Point("end_of_statement")
  <1>1. f \in Frame /\ f.at = "end_of_statement" BY PlainIsHarmless DEF PlainPoints, Point
  <1>2. BracketsOf(Top) = {} /\ BracketsOf(f) = {}
    BY <1>1, BracketsAt DEF BracketPoints, ListPoints
  <1>3. /\ TextRead /\ peek \in AllTokens /\ open' = Nest(open, peek)
        /\ Fine' => peek \in {"SEMICOLON", "END_OF_FILE"}
    <2>. DEFINE good == peek \in {"SEMICOLON", "END_OF_FILE"}
    <2>1. parser_next_token(good) OBVIOUS
    <2>. HIDE DEF good
    <2>2. TextRead /\ (Fine' => good) /\ peek \in AllTokens /\ open' = Nest(open, peek)
      BY <2>1, TokenRead
    <2>. QED BY <2>2 DEF good
  <1>4. open \in Seq(AllTokens) BY DEF BInv
  <1>5. Fine' => Turns(BracketsOf(Top), BracketsOf(f), open, open')
    BY <1>2, <1>3, <1>4, TokenTurns, BracketTokens
  <1>6. frames' = Append(Below, f) /\ ret' = NONE BY DEF Go
  <1>. HIDE DEF f
  <1>. QED BY <1>1, <1>3, <1>5, <1>6, BracketsGo

LEMMA LetStatementMatches == ASSUME IInv, BInv, parse_let_statement PROVE BInv'
  <1>1. /\ frames # <<>> /\ Top.at = "let_value"
        /\ \/ Quiet /\ UNCHANGED callVars
           \/ /\ parser_next_token(peek \in {"SEMICOLON", "END_OF_FILE"})
              /\ Go(Point("end_of_statement"))
    BY DEF parse_let_statement, Back
  <1>2. CASE Quiet /\ UNCHANGED callVars
    BY <1>2 DEF Quiet, BInv, callVars, tokenVars, errorVars
  <1>. QED BY <1>1, <1>2, SemicolonMatches

LEMMA ReturnStatementMatches == ASSUME IInv, BInv, parse_return_statement PROVE BInv'
  BY SemicolonMatches DEF parse_return_statement, Back

LEMMA JumpStatementMatches == ASSUME IInv, BInv, parse_jump_statement PROVE BInv'
  BY SemicolonMatches, ErrorEnds DEF parse_jump_statement, At

LEMMA EndOfStatementMatches == ASSUME IInv, BInv, end_of_statement PROVE BInv'
  <1>1. frames # <<>> /\ Top.at = "end_of_statement" /\ frames' = Below /\ ret' # NONE
    BY BindingValues DEF end_of_statement, Return, Nodes
  <1>2. BracketsOf(Top) = {} BY <1>1, BracketsAt DEF BracketPoints, ListPoints
  <1>3. TextRead /\ Turns({}, {}, open, open')
    <2>1. open \in Seq(AllTokens) /\ peek \in AllTokens BY DEF BInv, IInv, TokensOK
    <2>2. CASE peek = "SEMICOLON"
      <3>1. TextRead /\ open' = Nest(open, peek)
        BY <2>2, TokenRead DEF end_of_statement
      <3>. QED BY <2>1, <2>2, <3>1, TokenTurns, BracketTokens
    <2>3. CASE peek # "SEMICOLON"
      BY <2>1, <2>3, QuietReads, TokenTurns DEF end_of_statement
    <2>. QED BY <2>2, <2>3
  <1>. QED BY <1>1, <1>2, <1>3, BracketsReturn

LEMMA BlockStatementsMatches == ASSUME IInv, BInv, block_statements PROVE BInv'
  <1>1. frames # <<>> /\ Top.at = "block" /\ Top \in Frame
    BY TopOfStack DEF block_statements
  <1>2. BracketsOf(Top) = {"LBRACE"} BY <1>1, BracketsAt DEF BracketPoints, ListPoints
  <1>3. TextRead /\ cur' = peek /\ open' = Nest(open, peek) /\ peek \in AllTokens
    BY TokenRead DEF block_statements
  <1>4. CASE peek \in {"RBRACE", "END_OF_FILE"}
    <2>1. frames' = Below /\ ret' # NONE
      BY <1>4, BindingValues DEF block_statements, Return, Nodes
    <2>2. Fine' => Turns(BracketsOf(Top), {}, open, open')
      <3>1. Fine' => peek = "RBRACE" BY <1>3, <1>4 DEF Fine
      <3>2. open \in Seq(AllTokens) BY DEF BInv
      <3>. QED BY <1>2, <1>3, <3>1, <3>2, TokenTurns, BracketTokens
    <2>. QED BY <1>1, <1>3, <2>1, <2>2, BracketsReturn
  <1>5. CASE peek \notin {"RBRACE", "END_OF_FILE"}
    <2>1. frames' = Append(Below, Top) \o parse_statement(peek) /\ ret' = NONE
      BY <1>5 DEF block_statements, Call
    <2>. QED BY <1>1, <1>3, <2>1, BracketsBegin
  <1>. QED BY <1>4, <1>5

(* The function of the token an expression begins with waits for the       *)
(* bracket that token has opened.                                          *)
LEMMA PrefixFrameMatches ==
  ASSUME IInv, NEW t \in PrefixTokens
  PROVE  /\ PrefixFrame(t) \in Frame /\ PrefixFrame(t).at # "expression"
         /\ BracketsOf(PrefixFrame(t)) = IF t \in Openers THEN {t} ELSE {}
  <1>1. PrefixFrame(t) \in Frame /\ PrefixFrame(t).at # "expression"
    BY PrefixFrames DEF IsLevel
  <1>2. CASE t \in {"BANG", "MINUS", "IF", "FUNCTION", "WHILE", "FOR"}
    <2>1. PrefixFrame(t).at \in {"prefix", "if", "function", "while", "for"}
      BY <1>2 DEF PrefixFrame, Point, Loop
    <2>2. BracketsOf(PrefixFrame(t)) = {}
      BY <2>1, BracketsAt DEF BracketPoints, ListPoints
    <2>. QED BY <1>1, <1>2, <2>2, BracketTokens
  <1>3. CASE t \in {"LPAREN", "LBRACE"}
    <2>1. PrefixFrame(t).at = IF t = "LPAREN" THEN "grouped" ELSE "hash"
      BY <1>3 DEF PrefixFrame, Point
    <2>2. BracketsOf(PrefixFrame(t)) = {t}
      BY <1>3, <2>1, BracketsAt DEF BracketPoints, ListPoints
    <2>. QED BY <1>1, <1>3, <2>2, BracketTokens
  <1>4. CASE t = "LBRACKET"
    <2>1. /\ PrefixFrame(t).at = "list_start"
          /\ PrefixFrame(t).closer = closer["LBRACKET"]
      BY <1>4 DEF PrefixFrame, List
    <2>2. BracketsOf(PrefixFrame(t)) = {t}
      BY <1>4, <2>1, ListBrackets, BracketTokens DEF ListPoints
    <2>. QED BY <1>1, <1>4, <2>2, BracketTokens
  <1>. QED BY <1>2, <1>3, <1>4 DEF PrefixTokens

LEMMA ParsePrefixMatches == ASSUME IInv, BInv, parse_prefix PROVE BInv'
  <1>. DEFINE rest == Level("operators", Top.prec)
              s == Append(Below, rest)
  <1>1. frames # <<>> /\ Top.at = "expression" /\ ret = NONE
    BY DEF parse_prefix, At
  <1>2. /\ frames = Append(Below, Top) /\ Below \in Seq(Frame) /\ Top \in Frame
        /\ open \in Seq(AllTokens)
    BY <1>1, TopAwaits
  <1>3. rest \in Frame /\ rest.at = "operators"
    BY <1>1, <1>2, OperatorsNext DEF Level
  <1>4. BracketsOf(Top) = {} /\ BracketsOf(rest) = {}
    BY <1>1, <1>3, BracketsAt DEF BracketPoints, ListPoints
  <1>. HIDE DEF rest
  <1>5. s \in Seq(Frame) /\ s # <<>> /\ s[Len(s)] = rest
    BY <1>2, <1>3, AppendProperties, LenProperties
  <1>6. ASSUME Fine
        PROVE  /\ cur \in Openers => /\ open # <<>> /\ open[Len(open)] = cur
                                     /\ AwaitEachOther(s, SubSeq(open, 1, Len(open) - 1))
               /\ cur \notin Openers \cup Closers => AwaitEachOther(s, open)
    <2>1. Bracketed(frames, ret, cur, open) BY <1>6 DEF BInv, Fine
    <2>2. frames[Len(frames)].at = "expression" BY <1>1 DEF Top
    <2>3. /\ cur \in Openers => /\ open # <<>> /\ open[Len(open)] = cur
                                /\ AwaitEachOther(frames, SubSeq(open, 1, Len(open) - 1))
          /\ cur \notin Openers \cup Closers => AwaitEachOther(frames, open)
      BY <1>1, <2>1, <2>2 DEF Bracketed
    <2>4. ASSUME NEW o, AwaitEachOther(frames, o) PROVE AwaitEachOther(s, o)
      <3>1. AwaitEachOther(Append(Below, Top), o) BY <1>2, <2>4
      <3>. QED BY <1>2, <1>3, <1>4, <3>1, AwaitsTheSame
    <2>. HIDE DEF s
    <2>. QED BY <2>3, <2>4
  <1>7. CASE add_error BY <1>7, ErrorEnds
  <1>8. CASE cur \in Literals /\ frames' = s /\ ret' = Closed /\ Quiet
    <2>1. TextRead /\ open' = open BY <1>8, QuietReads
    <2>2. SUFFICES ASSUME Fine' PROVE Bracketed(frames', ret', cur', open')
      BY <2>1 DEF BInv, TextRead, Fine
    <2>3. cur \notin Openers \cup Closers BY <1>8, BracketTokens DEF Literals
    <2>4. AwaitEachOther(s, open) BY <1>6, <2>1, <2>2, <2>3 DEF TextRead
    <2>. QED BY <1>3, <1>5, <1>8, <2>1, <2>4 DEF Bracketed
  <1>9. CASE cur \in PrefixTokens /\ Call(rest, <<PrefixFrame(cur)>>) /\ Quiet
    <2>. DEFINE g == PrefixFrame(cur)
                u == Append(s, g)
    <2>1. TextRead /\ open' = open BY <1>9, QuietReads
    <2>2. SUFFICES ASSUME Fine' PROVE Bracketed(frames', ret', cur', open')
      BY <2>1 DEF BInv, TextRead, Fine
    <2>3. /\ g \in Frame /\ g.at # "expression"
          /\ BracketsOf(g) = IF cur \in Openers THEN {cur} ELSE {}
      BY <1>9, PrefixFrameMatches
    <2>4. frames' = s \o <<g>> BY <1>9 DEF Call
    <2>. HIDE DEF g, s
    <2>5. frames' = u BY <1>5, <2>3, <2>4, AppendIsConcat
    <2>6. u[Len(u)] = g BY <1>5, <2>3, AppendProperties, LenProperties
    <2>7. AwaitEachOther(u, open)
      <3>1. CASE cur \in Openers
        <4>. DEFINE o == SubSeq(open, 1, Len(open) - 1)
        <4>1. open # <<>> /\ open[Len(open)] = cur /\ AwaitEachOther(s, o)
          BY <1>6, <2>1, <2>2, <3>1 DEF TextRead
        <4>2. o \in Seq(AllTokens) /\ open = Append(o, cur)
          <5>1. Len(open) \in Nat \ {0} BY <1>2, <4>1
          <5>2. \A i \in 1..(Len(open) - 1) : open[i] \in AllTokens
            BY <1>2, <5>1, ElementOfSeq
          <5>3. o \in Seq(AllTokens) BY <5>1, <5>2
          <5>. QED BY <1>2, <4>1, <5>1, <5>3
        <4>. HIDE DEF o
        <4>3. cur \in AllTokens BY <3>1, BracketTokens
        <4>. QED BY <1>5, <2>3, <3>1, <4>1, <4>2, <4>3, AwaitsOneMore
      <3>2. CASE cur \notin Openers
        <4>1. cur \notin Closers BY <1>9, BracketTokens DEF PrefixTokens
        <4>2. AwaitEachOther(s, open) BY <1>6, <2>1, <2>2, <3>2, <4>1 DEF TextRead
        <4>. QED BY <1>5, <2>3, <3>2, <4>2, AwaitsNone
      <3>. QED BY <3>1, <3>2
    <2>. HIDE DEF u
    <2>. QED BY <2>1, <2>3, <2>5, <2>6, <2>7 DEF Bracketed
  <1>. QED BY <1>7, <1>8, <1>9 DEF parse_prefix, rest, s

LEMMA InfixFrameMatches ==
  ASSUME NEW t, t \in DOMAIN precedences, NEW v \in Nodes
  PROVE  /\ InfixFrame(t, v) \in Frame /\ InfixFrame(t, v).at # "expression"
         /\ BracketsOf(InfixFrame(t, v)) = IF t \in Openers THEN {t} ELSE {}
         /\ t \notin Closers
  <1>1. t \notin Closers /\ t # "LBRACE" BY BracketTokens DEF precedences
  <1>2. CASE t = "LPAREN"
    <2>. DEFINE f == List("LPAREN", CALL)
    <2>1. InfixFrame(t, v) = f BY <1>2 DEF InfixFrame
    <2>2. f \in Frame BY ListIsHarmless, BindingValues, BracketTokens
    <2>3. f.at = "list_start" /\ f.closer = closer["LPAREN"] BY DEF List
    <2>4. BracketsOf(f) = {"LPAREN"} BY <2>3, ListBrackets, BracketTokens DEF ListPoints
    <2>. QED BY <1>1, <1>2, <2>1, <2>2, <2>3, <2>4, BracketTokens
  <1>3. CASE t \in {"LBRACKET", "ASSIGN"}
    <2>. DEFINE p == IF t = "LBRACKET" THEN "index" ELSE "reassign"
    <2>1. InfixFrame(t, v) = Point(p) BY <1>3 DEF InfixFrame
    <2>2. Point(p) \in Frame /\ Point(p).at = p
      BY PlainIsHarmless DEF PlainPoints, Point
    <2>3. BracketsOf(Point(p)) = IF t = "LBRACKET" THEN {"LBRACKET"} ELSE {}
      BY <2>2, BracketsAt DEF BracketPoints, ListPoints
    <2>. QED BY <1>1, <1>3, <2>1, <2>2, <2>3, BracketTokens
  <1>4. CASE t \notin {"LPAREN", "LBRACKET", "ASSIGN"}
    <2>. DEFINE f == [at |-> "infix", prec |-> precedence(t), left |-> v]
    <2>1. InfixFrame(t, v) = f BY <1>4 DEF InfixFrame
    <2>2. f \in Frame BY PrecedenceType DEF Frame, OpFrame
    <2>3. BracketsOf(f) = {} BY BracketsAt DEF BracketPoints, ListPoints
    <2>. QED BY <1>1, <1>4, <2>1, <2>2, <2>3, BracketTokens
  <1>. QED BY <1>2, <1>3, <1>4

LEMMA ParseInfixMatches == ASSUME IInv, BInv, parse_infix PROVE BInv'
  <1>1. frames # <<>> /\ Top.at = "operators" /\ ret # NONE /\ Top \in Frame
    BY TopOfStack DEF parse_infix, Back
  <1>2. BracketsOf(Top) = {} BY <1>1, BracketsAt DEF BracketPoints, ListPoints
  <1>3. open \in Seq(AllTokens) /\ peek \in AllTokens BY DEF BInv, IInv, TokensOK
  <1>4. CASE Binds(Top.prec)
    <2>. DEFINE g == InfixFrame(peek, ret)
    <2>1. peek \in DOMAIN precedences
      <3>1. Top.prec \in Int /\ Top.prec >= LOWEST BY <1>1, FrameNumbers
      <3>. QED BY <1>4, <3>1, Strengths DEF Binds, precedence
    <2>2. ret \in Nodes BY <1>1 DEF IInv, CallsOK
    <2>3. /\ g \in Frame /\ g.at # "expression" /\ peek \notin Closers
          /\ BracketsOf(g) = IF peek \in Openers THEN {peek} ELSE {}
      BY <2>1, <2>2, InfixFrameMatches
    <2>4. TextRead /\ open' = Nest(open, peek)
      BY <1>4, TokenRead DEF parse_infix
    <2>5. Turns({}, BracketsOf(g), open, open')
      BY <1>3, <2>3, <2>4, TokenTurns
    <2>6. frames' = Append(Below, Top) \o <<g>> /\ ret' = NONE
      BY <1>4 DEF parse_infix, Call
    <2>. HIDE DEF g
    <2>. QED BY <1>1, <2>3, <2>4, <2>5, <2>6, BracketsCall
  <1>5. CASE ~Binds(Top.prec)
    <2>1. frames' = Below /\ ret' # NONE /\ Quiet
      BY <1>1, <1>5 DEF parse_infix, Return
    <2>2. TextRead /\ open' = open BY <2>1, QuietReads
    <2>. QED BY <1>1, <1>2, <1>3, <2>1, <2>2, TokenTurns, BracketsReturn
  <1>. QED BY <1>4, <1>5

(* The operand of an operator.                                             *)
LEMMA OperandMatches ==
  ASSUME IInv, BInv, parser_next_token(TRUE), frames # <<>>,
         \/ Top.at = "prefix" /\ Call(To("prefix_operand"), parse_expression(PREFIX))
         \/ Top.at = "infix" /\ Call(To("right_operand"), parse_expression(Top.prec))
  PROVE  BInv'
  <1>. DEFINE p == IF Top.at = "prefix" THEN "prefix_operand" ELSE "right_operand"
              n == IF Top.at = "prefix" THEN PREFIX ELSE Top.prec
              f == To(p)
  <1>1. TextRead /\ cur' = peek /\ open' = Nest(open, peek) BY TokenRead
  <1>2. f \in Frame /\ f.at = p
    <2>1. SameFields(Top.at, p) BY DEF SameFields, PlainPoints
    <2>. QED BY <2>1, ToAt
  <1>3. n \in Binding
    <2>1. Top.at = "infix" => Top.prec \in Binding
      BY TopOfStack, FrameClasses DEF OpFrame
    <2>. QED BY <2>1, BindingValues
  <1>4. BracketsOf(Top) = {} /\ BracketsOf(f) = {}
    BY <1>2, BracketsAt DEF BracketPoints, ListPoints
  <1>5. frames' = Append(Below, f) \o parse_expression(n) /\ ret' = NONE
    BY DEF Call
  <1>6. Top.at # "expression" OBVIOUS
  <1>. HIDE DEF f, n, p
  <1>. QED BY <1>1, <1>2, <1>3, <1>4, <1>5, <1>6, BracketsBegin

LEMMA PrefixExpressionMatches == ASSUME IInv, BInv, parse_prefix_expression PROVE BInv'
  BY OperandMatches DEF parse_prefix_expression, At

LEMMA InfixExpressionMatches == ASSUME IInv, BInv, parse_infix_expression PROVE BInv'
  BY OperandMatches DEF parse_infix_expression, At

LEMMA ClosingBracketMatches == ASSUME IInv, BInv, parse_closing_bracket PROVE BInv'
  <1>1. CASE add_error BY <1>1, ErrorEnds
  <1>2. CASE /\ frames # <<>> /\ parser_next_token(TRUE) /\ frames' = Below /\ ret' # NONE
             /\ \/ Top.at = "grouped_rparen" /\ peek = "RPAREN"
                \/ Top.at = "index_rbracket" /\ peek = "RBRACKET"
    <2>1. TextRead /\ open' = Nest(open, peek) BY <1>2, TokenRead
    <2>2. open \in Seq(AllTokens) /\ peek \in AllTokens BY DEF BInv, IInv, TokensOK
    <2>3. Turns(BracketsOf(Top), {}, open, open')
      <3>1. CASE Top.at = "grouped_rparen" /\ peek = "RPAREN"
        <4>1. BracketsOf(Top) = {"LPAREN"}
          BY <3>1, BracketsAt DEF BracketPoints, ListPoints
        <4>. QED BY <2>1, <2>2, <3>1, <4>1, TokenTurns, BracketTokens
      <3>2. CASE Top.at = "index_rbracket" /\ peek = "RBRACKET"
        <4>1. BracketsOf(Top) = {"LBRACKET"}
          BY <3>2, BracketsAt DEF BracketPoints, ListPoints
        <4>. QED BY <2>1, <2>2, <3>2, <4>1, TokenTurns, BracketTokens
      <3>. QED BY <1>2, <3>1, <3>2
    <2>4. Top.at # "expression" BY <1>2
    <2>. QED BY <1>2, <2>1, <2>3, <2>4, BracketsReturn
  <1>. QED
    BY <1>1, <1>2, BindingValues, PointersDistinct
       DEF parse_closing_bracket, Back, Return, Nodes

LEMMA ParseListMatches == ASSUME IInv, BInv, parse_list PROVE BInv'
  <1>1. frames # <<>> /\ Top.at \in ListPoints /\ Top \in Frame /\ Top.at # "expression"
    BY TopOfStack DEF parse_list, At, Back, ListPoints
  <1>2. Top.strength \in Binding /\ Top.closer \in Closers
    BY <1>1, FrameClasses DEF ListFrame, ListPoints
  <1>3. PICK b \in Openers : BracketsOf(Top) = {b} /\ Top.closer = closer[b]
    <2>1. PICK b \in Openers : Top.closer = closer[b] BY <1>2 DEF Closers
    <2>. QED BY <1>1, <2>1, ListBrackets
  <1>4. open \in Seq(AllTokens) /\ peek \in AllTokens BY DEF BInv, IInv, TokensOK
  <1>5. ASSUME NEW p \in {"list", "list_comma"}
        PROVE  /\ To(p) \in Frame /\ To(p).at # "expression"
               /\ BracketsOf(To(p)) = BracketsOf(Top)
    <2>1. SameFields(Top.at, p) BY <1>1 DEF SameFields, ListPoints
    <2>2. To(p) \in Frame /\ To(p).at = p BY <1>1, <2>1, ToAt
    <2>3. To(p).closer = closer[b] BY <1>1, <1>3, <2>1, MovedAt DEF To, ListPoints
    <2>4. BracketsOf(To(p)) = {b} BY <2>2, <2>3, ListBrackets DEF ListPoints
    <2>. QED BY <1>3, <2>2, <2>4
  <1>6. CASE parser_next_token(TRUE) /\ peek = Top.closer /\ Return(Top.strength)
    <2>1. TextRead /\ open' = Nest(open, peek) BY <1>6, TokenRead
    <2>2. Turns(BracketsOf(Top), {}, open, open')
      BY <1>3, <1>4, <1>6, <2>1, TokenTurns
    <2>3. frames' = Below /\ ret' # NONE
      BY <1>2, <1>6, BindingValues DEF Return, Nodes
    <2>. QED BY <1>1, <2>1, <2>2, <2>3, BracketsReturn
  <1>7. CASE parser_next_token(TRUE) /\ Call(To("list"), parse_expression(LOWEST))
    <2>1. TextRead /\ cur' = peek /\ open' = Nest(open, peek) BY <1>7, TokenRead
    <2>2. To("list") \in Frame /\ BracketsOf(To("list")) = BracketsOf(Top) BY <1>5
    <2>3. frames' = Append(Below, To("list")) \o parse_expression(LOWEST) /\ ret' = NONE
      BY <1>7 DEF Call
    <2>. QED BY <1>1, <2>1, <2>2, <2>3, BracketsBegin, BindingValues
  <1>8. CASE parser_next_token(TRUE) /\ peek = "COMMA" /\ Go(To("list_comma"))
    <2>. DEFINE f == To("list_comma")
    <2>1. TextRead /\ open' = Nest(open, peek) BY <1>8, TokenRead
    <2>2. f \in Frame /\ f.at # "expression" /\ BracketsOf(f) = BracketsOf(Top) BY <1>5
    <2>3. Turns(BracketsOf(Top), BracketsOf(f), open, open')
      BY <1>4, <1>8, <2>1, <2>2, TokenTurns, BracketTokens
    <2>4. frames' = Append(Below, f) /\ ret' = NONE BY <1>8 DEF Go
    <2>. HIDE DEF f
    <2>. QED BY <1>1, <2>1, <2>2, <2>3, <2>4, BracketsGo
  <1>9. CASE add_error BY <1>9, ErrorEnds
  <1>. QED BY <1>6, <1>7, <1>8, <1>9 DEF parse_list

LEMMA HashLiteralMatches == ASSUME IInv, BInv, parse_hash_literal PROVE BInv'
  <1>1. frames # <<>> /\ Top.at \in {"hash", "hash_key", "hash_value"} /\ Top \in Frame
    BY TopOfStack DEF parse_hash_literal, At, Back
  <1>2. open \in Seq(AllTokens) /\ peek \in AllTokens BY DEF BInv, IInv, TokensOK
  <1>3. BracketsOf(Top) = {"LBRACE"} /\ Top.at # "expression"
    BY <1>1, BracketsAt DEF BracketPoints, ListPoints
  <1>4. ASSUME NEW p \in {"hash", "hash_key"}
        PROVE  /\ Point(p) \in Frame /\ Point(p).at # "expression"
               /\ BracketsOf(Point(p)) = {"LBRACE"}
    <2>1. Point(p) \in Frame /\ Point(p).at = p BY PlainIsHarmless DEF PlainPoints, Point
    <2>. QED BY <2>1, BracketsAt DEF BracketPoints, ListPoints
  <1>5. CASE parser_next_token(TRUE) /\ peek = "RBRACE" /\ Return(Closed)
    <2>1. TextRead /\ open' = Nest(open, peek) BY <1>5, TokenRead
    <2>2. Turns(BracketsOf(Top), {}, open, open')
      BY <1>2, <1>3, <1>5, <2>1, TokenTurns, BracketTokens
    <2>3. frames' = Below /\ ret' # NONE BY <1>5, BindingValues DEF Return, Nodes
    <2>. QED BY <1>1, <1>3, <2>1, <2>2, <2>3, BracketsReturn
  <1>6. CASE parser_next_token(TRUE) /\ Call(Point("hash_key"), parse_expression(LOWEST))
    <2>1. TextRead /\ cur' = peek /\ open' = Nest(open, peek) BY <1>6, TokenRead
    <2>2. frames' = Append(Below, Point("hash_key")) \o parse_expression(LOWEST)
          /\ ret' = NONE
      BY <1>6 DEF Call
    <2>. QED BY <1>1, <1>3, <1>4, <2>1, <2>2, BracketsBegin, BindingValues
  <1>7. CASE /\ ret # NONE /\ parser_next_token(TRUE) /\ peek = "COLON"
             /\ Go([at |-> "hash_colon", key |-> ret])
    <2>. DEFINE f == [at |-> "hash_colon", key |-> ret]
    <2>1. TextRead /\ open' = Nest(open, peek) BY <1>7, TokenRead
    <2>2. f \in Frame /\ f.at = "hash_colon"
      <3>1. ret \in Nodes BY <1>7 DEF IInv, CallsOK
      <3>. QED BY <3>1 DEF Frame, KeyFrame
    <2>3. BracketsOf(f) = {"LBRACE"} BY BracketsAt DEF BracketPoints, ListPoints
    <2>4. Turns(BracketsOf(Top), BracketsOf(f), open, open')
      BY <1>2, <1>3, <1>7, <2>1, <2>3, TokenTurns, BracketTokens
    <2>5. frames' = Append(Below, f) /\ ret' = NONE BY <1>7 DEF Go
    <2>. HIDE DEF f
    <2>. QED BY <1>1, <1>3, <2>1, <2>2, <2>4, <2>5, BracketsGo
  <1>8. CASE Quiet /\ UNCHANGED callVars
    BY <1>8 DEF Quiet, BInv, callVars, tokenVars, errorVars
  <1>9. CASE /\ \/ parser_next_token(TRUE) /\ peek = "COMMA"
                \/ Quiet
             /\ Go(Point("hash"))
    <2>1. TextRead /\ Turns(BracketsOf(Top), BracketsOf(Point("hash")), open, open')
      <3>1. CASE parser_next_token(TRUE) /\ peek = "COMMA"
        <4>1. TextRead /\ open' = Nest(open, peek) BY <3>1, TokenRead
        <4>. QED BY <1>2, <1>3, <1>4, <3>1, <4>1, TokenTurns, BracketTokens
      <3>2. CASE Quiet BY <1>2, <1>3, <1>4, <3>2, QuietReads, TokenTurns
      <3>. QED BY <1>9, <3>1, <3>2
    <2>2. frames' = Append(Below, Point("hash")) /\ ret' = NONE BY <1>9 DEF Go
    <2>. QED BY <1>1, <1>3, <1>4, <2>1, <2>2, BracketsGo
  <1>10. CASE add_error BY <1>10, ErrorEnds
  <1>. QED BY <1>5, <1>6, <1>7, <1>8, <1>9, <1>10 DEF parse_hash_literal, Back

LEMMA FunctionParametersMatches ==
  ASSUME IInv, BInv, parse_function_parameters PROVE BInv'
  <1>1. /\ frames # <<>> /\ Top \in Frame
        /\ Top.at \in {"parameters", "parameter", "parameter_comma"}
    BY TopOfStack DEF parse_function_parameters, At
  <1>2. open \in Seq(AllTokens) /\ peek \in AllTokens BY DEF BInv, IInv, TokensOK
  <1>3. BracketsOf(Top) = {"LPAREN"} /\ Top.at # "expression"
    BY <1>1, BracketsAt DEF BracketPoints, ListPoints
  <1>4. ASSUME NEW p \in {"body", "parameter", "parameter_comma"}
        PROVE  /\ Point(p) \in Frame /\ Point(p).at # "expression"
               /\ BracketsOf(Point(p)) = IF p = "body" THEN {} ELSE {"LPAREN"}
    <2>1. Point(p) \in Frame /\ Point(p).at = p BY PlainIsHarmless DEF PlainPoints, Point
    <2>. QED BY <2>1, BracketsAt DEF BracketPoints, ListPoints
  <1>5. CASE parser_next_token(TRUE) /\ peek = "RPAREN" /\ Go(Point("body"))
    <2>1. TextRead /\ open' = Nest(open, peek) BY <1>5, TokenRead
    <2>2. Turns(BracketsOf(Top), BracketsOf(Point("body")), open, open')
      BY <1>2, <1>3, <1>4, <1>5, <2>1, TokenTurns, BracketTokens
    <2>3. frames' = Append(Below, Point("body")) /\ ret' = NONE BY <1>5 DEF Go
    <2>. QED BY <1>1, <1>3, <1>4, <2>1, <2>2, <2>3, BracketsGo
  <1>6. CASE parser_next_token(peek = "IDENT") /\ Go(Point("parameter"))
    <2>. DEFINE good == peek = "IDENT"
    <2>1. TextRead /\ open' = Nest(open, peek) /\ (Fine' => good)
      <3>1. parser_next_token(good) BY <1>6
      <3>. HIDE DEF good
      <3>. QED BY <3>1, TokenRead
    <2>2. Fine' => Turns(BracketsOf(Top), BracketsOf(Point("parameter")), open, open')
      BY <1>2, <1>3, <1>4, <2>1, TokenTurns, BracketTokens
    <2>3. frames' = Append(Below, Point("parameter")) /\ ret' = NONE BY <1>6 DEF Go
    <2>. QED BY <1>1, <1>3, <1>4, <2>1, <2>2, <2>3, BracketsGo
  <1>7. CASE parser_next_token(TRUE) /\ peek = "COMMA" /\ Go(Point("parameter_comma"))
    <2>1. TextRead /\ open' = Nest(open, peek) BY <1>7, TokenRead
    <2>2. Turns(BracketsOf(Top), BracketsOf(Point("parameter_comma")), open, open')
      BY <1>2, <1>3, <1>4, <1>7, <2>1, TokenTurns, BracketTokens
    <2>3. frames' = Append(Below, Point("parameter_comma")) /\ ret' = NONE BY <1>7 DEF Go
    <2>. QED BY <1>1, <1>3, <1>4, <2>1, <2>2, <2>3, BracketsGo
  <1>8. CASE add_error BY <1>8, ErrorEnds
  <1>. QED BY <1>5, <1>6, <1>7, <1>8 DEF parse_function_parameters

LEMMA IfExpressionMatches == ASSUME IInv, BInv, parse_if_expression PROVE BInv'
  <1>1. frames # <<>> /\ Top.at = "consequence" BY DEF parse_if_expression, Back
  <1>2. open \in Seq(AllTokens) /\ peek \in AllTokens BY DEF BInv, IInv, TokensOK
  <1>3. BracketsOf(Top) = {} BY <1>1, BracketsAt DEF BracketPoints, ListPoints
  <1>4. CASE peek = "ELSE"
    <2>1. TextRead /\ open' = Nest(open, peek) BY <1>4, TokenRead DEF parse_if_expression
    <2>2. Point("else") \in Frame /\ Point("else").at = "else"
      BY PlainIsHarmless DEF PlainPoints, Point
    <2>3. BracketsOf(Point("else")) = {} BY <2>2, BracketsAt DEF BracketPoints, ListPoints
    <2>4. Turns(BracketsOf(Top), BracketsOf(Point("else")), open, open')
      BY <1>2, <1>3, <1>4, <2>1, <2>3, TokenTurns, BracketTokens
    <2>5. frames' = Append(Below, Point("else")) /\ ret' = NONE
      BY <1>4 DEF parse_if_expression, Go
    <2>. QED BY <1>1, <2>1, <2>2, <2>4, <2>5, BracketsGo
  <1>5. CASE peek # "ELSE"
    <2>1. frames' = Below /\ ret' # NONE /\ Quiet
      BY <1>5, BindingValues DEF parse_if_expression, Return, Nodes
    <2>2. TextRead /\ open' = open BY <2>1, QuietReads
    <2>. QED BY <1>1, <1>2, <1>3, <2>1, <2>2, TokenTurns, BracketsReturn
  <1>. QED BY <1>4, <1>5

LEMMA CompleteExpressionMatches == ASSUME IInv, BInv, complete_expression PROVE BInv'
  <1>1. /\ frames # <<>> /\ Quiet /\ Top \in Frame
        /\ Top.at \in {"function_body", "prefix_operand", "right_operand", "reassign_value"}
    BY TopOfStack DEF complete_expression, Back
  <1>2. BracketsOf(Top) = {} /\ Top.at # "expression"
    BY <1>1, BracketsAt DEF BracketPoints, ListPoints
  <1>3. Top.at = "right_operand" => Top.prec \in Binding
    BY <1>1, FrameClasses DEF OpFrame
  <1>4. frames' = Below /\ ret' # NONE
    BY <1>3, BindingValues DEF complete_expression, Back, Return, Nodes
  <1>5. TextRead /\ open' = open BY <1>1, QuietReads
  <1>6. Turns({}, {}, open, open') BY <1>5 DEF Turns
  <1>. QED BY <1>1, <1>2, <1>4, <1>5, <1>6, BracketsReturn

LEMMA WhileLoopMatches == ASSUME IInv, BInv, parse_while_loop PROVE BInv'
  <1>. DEFINE f == To("loop_body")
              g == Point("block")
              good == peek = "LBRACE"
  <1>1. frames # <<>> /\ Top.at = "while_rparen" BY DEF parse_while_loop, At
  <1>2. f \in Frame /\ f.at = "loop_body"
    BY <1>1, ToAt DEF SameFields, LoopPoints
  <1>3. BracketsOf(Top) = {} /\ BracketsOf(f) = {}
    BY <1>1, <1>2, BracketsAt DEF BracketPoints, ListPoints
  <1>4. g \in Frame /\ g.at = "block" BY PlainIsHarmless DEF PlainPoints, Point
  <1>5. BracketsOf(g) = {"LBRACE"} BY <1>4, BracketsAt DEF BracketPoints, ListPoints
  <1>6. TextRead /\ open' = Nest(open, peek) /\ (Fine' => good)
    <2>1. parser_next_token(good) BY DEF parse_while_loop
    <2>. HIDE DEF good
    <2>. QED BY <2>1, TokenRead
  <1>7. open \in Seq(AllTokens) /\ peek \in AllTokens BY DEF BInv, IInv, TokensOK
  <1>8. Fine' => Turns({}, BracketsOf(g), open, open')
    BY <1>5, <1>6, <1>7, TokenTurns, BracketTokens
  <1>9. frames' = Append(Below, f) \o <<g>> /\ ret' = NONE
    BY DEF parse_while_loop, Call, parse_block_statement
  <1>. HIDE DEF f, g
  <1>. QED BY <1>1, <1>2, <1>3, <1>4, <1>6, <1>8, <1>9, BracketsCall

(* The points of a for loop's header, and what comes after it.             *)
HeaderPoints == {"for_initialization", "for_condition", "for_update", "for_rparen"}

LEMMA HeaderMatches ==
  ASSUME IInv, frames # <<>>, Top.at \in HeaderPoints
  PROVE  /\ Top.at # "expression" /\ BracketsOf(Top) = {"LPAREN"}
         /\ \A p \in HeaderPoints \cup {"for_lbrace"} :
              /\ To(p) \in Frame /\ To(p).at # "expression"
              /\ BracketsOf(To(p)) = IF p = "for_lbrace" THEN {} ELSE {"LPAREN"}
  <1>1. BracketsOf(Top) = {"LPAREN"}
    BY BracketsAt DEF BracketPoints, ListPoints, HeaderPoints
  <1>2. ASSUME NEW p \in HeaderPoints \cup {"for_lbrace"}
        PROVE  /\ To(p) \in Frame /\ To(p).at # "expression"
               /\ BracketsOf(To(p)) = IF p = "for_lbrace" THEN {} ELSE {"LPAREN"}
    <2>1. SameFields(Top.at, p) BY DEF SameFields, LoopPoints, HeaderPoints
    <2>2. To(p) \in Frame /\ To(p).at = p BY <2>1, ToAt
    <2>. QED BY <2>2, BracketsAt DEF BracketPoints, ListPoints, HeaderPoints
  <1>. QED BY <1>1, <1>2 DEF HeaderPoints

LEMMA HeaderPartMatches ==
  ASSUME IInv, BInv, NEW p \in HeaderPoints, NEW q \in HeaderPoints, parse_if_exists(p, q)
  PROVE  BInv'
  <1>1. frames # <<>> /\ Top.at = p BY DEF parse_if_exists
  <1>2. /\ Top.at # "expression" /\ BracketsOf(Top) = {"LPAREN"}
        /\ To(q) \in Frame /\ To(q).at # "expression" /\ BracketsOf(To(q)) = {"LPAREN"}
    BY <1>1, HeaderMatches DEF HeaderPoints
  <1>3. open \in Seq(AllTokens) /\ peek \in AllTokens BY DEF BInv, IInv, TokensOK
  <1>4. CASE peek = "SEMICOLON" /\ parser_next_token(TRUE) /\ Go(To(q))
    <2>1. TextRead /\ open' = Nest(open, peek) BY <1>4, TokenRead
    <2>2. Turns(BracketsOf(Top), BracketsOf(To(q)), open, open')
      BY <1>2, <1>3, <1>4, <2>1, TokenTurns, BracketTokens
    <2>. QED BY <1>1, <1>2, <1>4, <2>1, <2>2, BracketsGo DEF Go
  <1>5. CASE Quiet /\ Go(To(q))
    <2>1. TextRead /\ Turns(BracketsOf(Top), BracketsOf(To(q)), open, open')
      BY <1>2, <1>3, <1>5, QuietReads, TokenTurns
    <2>. QED BY <1>1, <1>2, <1>5, <2>1, BracketsGo DEF Go
  <1>6. CASE parser_next_token(TRUE) /\ Call(To(q), parse_statement(peek))
    <2>1. TextRead /\ cur' = peek /\ open' = Nest(open, peek) BY <1>6, TokenRead
    <2>. QED BY <1>1, <1>2, <1>6, <2>1, BracketsBegin DEF Call
  <1>. QED BY <1>4, <1>5, <1>6 DEF parse_if_exists

LEMMA ForLoopMatches == ASSUME IInv, BInv, parse_for_loop PROVE BInv'
  <1>1. open \in Seq(AllTokens) /\ peek \in AllTokens BY DEF BInv, IInv, TokensOK
  <1>2. CASE \/ parse_if_exists("for_initialization", "for_condition")
             \/ parse_if_exists("for_condition", "for_update")
    BY <1>2, HeaderPartMatches DEF HeaderPoints
  <1>3. CASE /\ frames # <<>> /\ Top.at \in {"for_update", "for_rparen"}
             /\ parser_next_token(TRUE) /\ peek = "RPAREN" /\ Go(To("for_lbrace"))
    <2>1. /\ Top.at # "expression" /\ BracketsOf(Top) = {"LPAREN"}
          /\ To("for_lbrace") \in Frame /\ To("for_lbrace").at # "expression"
          /\ BracketsOf(To("for_lbrace")) = {}
      BY <1>3, HeaderMatches DEF HeaderPoints
    <2>2. TextRead /\ open' = Nest(open, peek) BY <1>3, TokenRead
    <2>3. Turns(BracketsOf(Top), BracketsOf(To("for_lbrace")), open, open')
      BY <1>1, <1>3, <2>1, <2>2, TokenTurns, BracketTokens
    <2>. QED BY <1>3, <2>1, <2>2, <2>3, BracketsGo DEF Go
  <1>4. CASE /\ frames # <<>> /\ Top.at = "for_update" /\ parser_next_token(TRUE)
             /\ Call(To("for_rparen"), parse_statement(peek))
    <2>1. /\ Top.at # "expression" /\ To("for_rparen") \in Frame
          /\ BracketsOf(To("for_rparen")) = BracketsOf(Top)
      BY <1>4, HeaderMatches DEF HeaderPoints
    <2>2. TextRead /\ cur' = peek /\ open' = Nest(open, peek) BY <1>4, TokenRead
    <2>. QED BY <1>4, <2>1, <2>2, BracketsBegin DEF Call
  <1>5. CASE lenient' = TRUE /\ UNCHANGED <<cur, peek, left, open, errorVars>>
    BY <1>5 DEF BInv
  <1>. QED BY <1>2, <1>3, <1>4, <1>5 DEF parse_for_loop, Back

LEMMA EndOfLoopMatches == ASSUME IInv, BInv, end_of_loop PROVE BInv'
  <1>1. frames # <<>> /\ Top.at = "loop_body" /\ Quiet /\ frames' = Below /\ ret' # NONE
    BY BindingValues DEF end_of_loop, Back, Return, Nodes
  <1>2. BracketsOf(Top) = {} BY <1>1, BracketsAt DEF BracketPoints, ListPoints
  <1>3. TextRead /\ open' = open BY <1>1, QuietReads
  <1>4. Turns({}, {}, open, open') BY <1>3 DEF Turns
  <1>. QED BY <1>1, <1>2, <1>3, <1>4, BracketsReturn

(* A statement of the program begins with no bracket open.                 *)
LEMMA ProgramBracketed ==
  ASSUME NEW t \in AllTokens, t # "END_OF_FILE"
  PROVE  Bracketed(ProgramFrames(t), NONE, t, Nest(<<>>, t))
  <1>. DEFINE p == ParseProgram(t)
              s == <<p>>
  <1>1. p \in Frame /\ p.at = "program" BY DEF ParseProgram, Frame, LineFrame
  <1>2. BracketsOf(p) = {} BY <1>1, BracketsAt DEF BracketPoints, ListPoints
  <1>. HIDE DEF p
  <1>3. s = Append(<<>>, p) /\ <<>> \in Seq(Frame) BY <1>1
  <1>4. s \in Seq(Frame) BY <1>1
  <1>5. AwaitEachOther(s, <<>>) BY <1>1, <1>2, <1>3, NothingAwaited, AwaitsNone
  <1>. HIDE DEF s
  <1>6. <<>> \in Seq(AllTokens) OBVIOUS
  <1>7. Bracketed(s \o parse_statement(t), NONE, t, Nest(<<>>, t))
    BY <1>4, <1>5, <1>6, StatementBracketed
  <1>. QED BY <1>7 DEF ProgramFrames, s, p

LEMMA NextStatementMatches == ASSUME IInv, BInv, parse_program PROVE BInv'
  <1>1. /\ frames # <<>> /\ Top.at = "program" /\ frames' = ProgramFrames(peek)
        /\ ret' = NONE
    BY DEF parse_program, Back
  <1>2. TextRead /\ cur' = peek /\ open' = Nest(open, peek) /\ peek \in AllTokens
    BY TokenRead DEF parse_program
  <1>3. SUFFICES ASSUME Fine' PROVE Bracketed(frames', ret', cur', open')
    BY <1>2 DEF BInv, TextRead, Fine
  <1>4. AwaitEachOther(Append(Below, Top), open) /\ open \in Seq(AllTokens)
        /\ frames = Append(Below, Top) /\ Below \in Seq(Frame)
    BY <1>1, <1>2, <1>3, TopAwaits DEF TextRead
  <1>5. Len(frames) = 1 BY <1>1, TopOfStack
  <1>6. Below = <<>>
    <2>1. Len(frames) = Len(Below) + 1 BY <1>4, AppendProperties
    <2>2. Len(Below) = 0 BY <1>4, <1>5, <2>1, LenProperties
    <2>. QED BY <1>4, <2>2, EmptySeq
  <1>7. open = <<>>
    <2>1. AwaitEachOther(<<Top>>, open) BY <1>4, <1>6
    <2>2. BracketsOf(Top) = {} BY <1>1, BracketsAt DEF BracketPoints, ListPoints
    <2>. QED BY <1>4, <2>1, <2>2, NothingOpen
  <1>8. peek # "END_OF_FILE" BY <1>2, <1>3 DEF Fine
  <1>. QED BY <1>1, <1>2, <1>7, <1>8, ProgramBracketed

LEMMA NewParserMatches == ASSUME IInv, new_parser PROVE BInv'
  <1>1. PICK t \in Suite.first \cup {"END_OF_FILE"} : \E u \in Follow(t) :
          /\ cur' = t /\ peek' = u /\ open' = Nest(<<>>, t)
          /\ frames' = ProgramFrames(t)
    BY DEF new_parser
  <1>2. ret' = NONE BY DEF new_parser
  <1>3. t \in AllTokens
    BY SuitesTyped DEF IInv, Suite, AllTokens
  <1>4. Nest(<<>>, t) \in Seq(AllTokens)
    <2>1. <<>> \in Seq(AllTokens) OBVIOUS
    <2>. QED BY <1>3, <2>1, Nests
  <1>5. t = "END_OF_FILE" => peek' = "END_OF_FILE" BY <1>1 DEF Follow
  <1>6. t # "END_OF_FILE" => Bracketed(frames', ret', cur', open')
    BY <1>1, <1>2, <1>3, ProgramBracketed
  <1>. QED BY <1>1, <1>4, <1>5, <1>6 DEF BInv

----------------------------------------------------------------------------

LEMMA MatchedInitially == ParserInit => BInv
  <1>1. <<>> \in Seq(AllTokens) OBVIOUS
  <1>. QED BY <1>1 DEF ParserInit, BInv

LEMMA MatchingInductive == IInv /\ BInv /\ [ParserNext]_parserVars => BInv'
  <1>1. SUFFICES ASSUME IInv, BInv, [ParserNext]_parserVars PROVE BInv' OBVIOUS
  <1>2. CASE parse
    <2>1. CASE expect_peek BY <1>1, <2>1, ExpectPeekMatches
    <2>2. CASE parse_operand BY <1>1, <2>2, ParseOperandMatches
    <2>3. CASE parse_let_statement BY <1>1, <2>3, LetStatementMatches
    <2>4. CASE parse_return_statement BY <1>1, <2>4, ReturnStatementMatches
    <2>5. CASE parse_jump_statement BY <1>1, <2>5, JumpStatementMatches
    <2>6. CASE end_of_statement BY <1>1, <2>6, EndOfStatementMatches
    <2>7. CASE block_statements BY <1>1, <2>7, BlockStatementsMatches
    <2>8. CASE parse_prefix BY <1>1, <2>8, ParsePrefixMatches
    <2>9. CASE parse_infix BY <1>1, <2>9, ParseInfixMatches
    <2>10. CASE parse_prefix_expression BY <1>1, <2>10, PrefixExpressionMatches
    <2>11. CASE parse_infix_expression BY <1>1, <2>11, InfixExpressionMatches
    <2>12. CASE parse_closing_bracket BY <1>1, <2>12, ClosingBracketMatches
    <2>13. CASE parse_list BY <1>1, <2>13, ParseListMatches
    <2>14. CASE parse_hash_literal BY <1>1, <2>14, HashLiteralMatches
    <2>15. CASE parse_function_parameters BY <1>1, <2>15, FunctionParametersMatches
    <2>16. CASE parse_if_expression BY <1>1, <2>16, IfExpressionMatches
    <2>17. CASE complete_expression BY <1>1, <2>17, CompleteExpressionMatches
    <2>18. CASE parse_while_loop BY <1>1, <2>18, WhileLoopMatches
    <2>19. CASE parse_for_loop BY <1>1, <2>19, ForLoopMatches
    <2>20. CASE end_of_loop BY <1>1, <2>20, EndOfLoopMatches
    <2>. QED
      BY <1>2, <2>1, <2>2, <2>3, <2>4, <2>5, <2>6, <2>7, <2>8, <2>9, <2>10, <2>11,
         <2>12, <2>13, <2>14, <2>15, <2>16, <2>17, <2>18, <2>19, <2>20 DEF parse
  <1>3. CASE parse_program BY <1>1, <1>3, NextStatementMatches
  <1>4. CASE new_parser BY <1>1, <1>4, NewParserMatches
  <1>5. CASE UNCHANGED parserVars
    BY <1>1, <1>5 DEF BInv, parserVars, tokenVars, errorVars, callVars
  <1>. QED BY <1>1, <1>2, <1>3, <1>4, <1>5 DEF ParserNext

(* In a text of any length and nesting the functions under way close the   *)
(* brackets that are open, each its own and in order, unless a token that  *)
(* parser.c passes over (114, 135, 214, 236, 651) or does without (709)    *)
(* was not the one the grammar has there, or the line has an error.        *)
THEOREM BracketsMatch == ParserSpec => []BracketsFollowCalls
  <1>1. BInv => BracketsFollowCalls
    BY DEF BInv, BracketsFollowCalls, Bracketed, Matched, At, Top
  <1>2. ParserSpec => []BInv
    BY MatchedInitially, MatchingInductive, Invariance, PTL DEF ParserSpec
  <1>. QED BY <1>1, <1>2, PTL

=============================================================================
