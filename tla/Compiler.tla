------------------------------ MODULE Compiler ------------------------------
(***************************************************************************)
(* The bytecode compiler (src/src/compiler/compiler.c).                    *)
(*                                                                         *)
(* The compiler walks the syntax tree once and emits code as it goes: jump *)
(* operands are patched when their target becomes known, the POP after an  *)
(* expression is taken back when its value turns out to be needed, every   *)
(* function literal and every loop body is compiled into code of its own.  *)
(*                                                                         *)
(* The tree is not built first.  `todo` holds the calls the recursive walk *)
(* still has to make and, between them, what each caller does when a call  *)
(* returns; where the walk meets a node, the node is chosen.  So the       *)
(* behaviours are the compilations of all programs of a bounded number of  *)
(* nodes in a few sublanguages.                                            *)
(***************************************************************************)
EXTENDS Code, FiniteSets

CONSTANTS
  Names,       \* identifiers a program may use
  Builtins,    \* names of the built-in functions
  Position,    \* the place of each of them in builtin_definitions
  NULL,        \* no symbol, no name
  Suites       \* sublanguages, a sequence: the kinds of syntax nodes (forms) and
               \* the opcodes of the operators a program may use, what may happen
               \* that the compiler is not prepared for (liberties), and bounds
               \* on parameters, arguments, elements, pairs (args) and on nodes

AllForms ==
  {"bool", "number", "ident", "infix", "prefix", "array", "hash", "index",
   "call", "if", "function", "while", "for", "reassign", "reassign_index",
   "let", "return", "break", "continue"}

(* What the compiler is not prepared for: programs the parser accepts, and *)
(* what uninitialised and freed memory may hold.                           *)
AllLiberties ==
  {"loop_as_value",         \* let x = while (...) {...}
   "branch_without_value",  \* if (c) { let x = 1; }
   "stray_break",           \* break or continue in a function in a loop, or
                            \* in a loop's condition
   "stray_return",          \* return outside a function, or from a loop body
   "scope_in_update",       \* for (...; ...; i = fn() {...}()) {...}, or a
                            \* loop there
   "assign_to_function",    \* let f = fn() { f = 1; };  len = 1;
   "duplicate_key",         \* {1: 2, 1: 3}
   "stale_name",            \* FunctionLiteral.name is never initialised
   "freed_table"}           \* captured symbols are read from freed memory

(* Operators whose instruction takes two values or one.                    *)
InfixOps ==
  {"ADD", "SUB", "MUL", "DIV", "LSHIFT", "RSHIFT", "MOD", "BIT_OR", "BIT_AND",
   "BIT_XOR", "AND", "OR", "EQ", "NOT_EQ", "GREATER"}
PrefixOps == {"BANG", "MINUS"}

ASSUME SuitesAssumption ==
  \A i \in DOMAIN Suites :
    LET s == Suites[i]
    IN  /\ s.forms \subseteq AllForms /\ s.liberties \subseteq AllLiberties
        /\ s.operators \subseteq InfixOps \cup PrefixOps
        /\ {s.args, s.nodes} \subseteq Nat

ASSUME CompilerNamesAssumption ==
  /\ Builtins \subseteq Names
  /\ Position \in [Builtins -> Nat]

VARIABLES
  suite,      \* the sublanguage of this program
  tables,     \* symbol tables, outermost first
  scopes,     \* compiler->scopes: code being compiled, outermost first, and
              \* whatever closed scopes have left behind them
  arrays,     \* every instruction array allocated so far
  constants,  \* the constant pool
  loops,      \* compiler->loop and its enclosing loops, innermost first:
              \* the positions of the break instructions met so far
  is_void,    \* compiler->is_void_expression
  todo,       \* what is left to compile, innermost first
  result,     \* "OK", an error, or how the compiler died
  budget      \* nodes the program may still have

Suite == Suites[suite]

vars == <<suite, tables, scopes, arrays, constants, loops, is_void, todo, result,
          budget>>

ST == INSTANCE SymbolTable WITH MaxDefs <- 0, MaxDepth <- 0, resolved <- NULL

ASSUME CompilerNullAssumption == NULL \notin ST!Symbol

JUMP_SENTINEL == 9999

----------------------------------------------------------------------------
(* The code being emitted: the bytes, and the last two instructions.       *)

scope_index == Len(tables)

At(level) ==
  LET scope == scopes[level]
  IN  [code |-> arrays[scope.ins], last |-> scope.last, prev |-> scope.prev]

Current == At(scope_index)

(* A scope starts with no instruction remembered, which reads as opcode 0  *)
(* at position 0.                                                          *)
Nothing == [op |-> "CONSTANT", pos |-> 0]

Emit(e, name, operands) ==
  [code |-> e.code \o make_instruction(name, operands),
   last |-> [op |-> name, pos |-> Len(e.code)],
   prev |-> e.last]

load_symbol(e, symbol) ==
  CASE symbol.scope = "GLOBAL"   -> Emit(e, "GET_GLOBAL", <<symbol.index>>)
    [] symbol.scope = "LOCAL"    -> Emit(e, "GET_LOCAL", <<symbol.index>>)
    [] symbol.scope = "BUILTIN"  -> Emit(e, "GET_BUILTIN", <<symbol.index>>)
    [] symbol.scope = "FREE"     -> Emit(e, "GET_FREE", <<symbol.index>>)
    [] symbol.scope = "FUNCTION" -> Emit(e, "CURRENT_CLOSURE", <<>>)

(* Mutant: the POP stays.                                                  *)
keep_last_pop(e) == e

remove_last_pop(e) ==
  IF e.last.op = "POP"
  THEN [e EXCEPT !.code = SubSeq(@, 1, Len(@) - 1), !.last = e.prev]
  ELSE e

(* change_operand_ex: the instruction at position p with a new operand.    *)
(* What is at p is read from the code, whatever it is.                     *)
change_operand(code, p, operand) ==
  Overwrite(code, p, make_instruction(NameOf(code[p + 1]), <<operand>>))

(* An array has memory for eight bytes from the start (compiler.c:21): a   *)
(* POP that was taken back or zeroes, the opcode of CONSTANT, whose three  *)
(* bytes fit.                                                              *)
Spare(code, p) == p >= Len(code) /\ p + 2 < 8

(* What reading the opcode at p may end with: code.c asserts that there is *)
(* one, and nothing checks that p is inside the array.                     *)
ChangeFault(code, p) ==
  IF Spare(code, p) THEN {}
  ELSE IF p >= Len(code) \/ code[p + 1] = OP_COUNT THEN {"UNDEFINED"}
  ELSE IF code[p + 1] > OP_COUNT THEN {"ABORT"} ELSE {}

(* There is no instruction of the code to patch.                           *)
Misplaced(code, p) == p >= Len(code) \/ ChangeFault(code, p) # {}

----------------------------------------------------------------------------
(* Steps of the walk *)

(* Where a piece of code is: directly in a loop body (so that break means  *)
(* that loop), directly in a function body (so that return means it), in   *)
(* the update of a for loop.                                               *)
Place(loop, function) ==
  [loop |-> loop, function |-> function, update |-> FALSE]

Expression(place, kind) ==
  [do |-> "expression", place |-> place, kind |-> kind, name |-> NULL]
Block(place, value) ==
  [do |-> "block", place |-> place, value |-> value, got |-> FALSE]

Running(step) == result = "OK" /\ todo # <<>> /\ Head(todo).do = step

Continue(items) == todo' = items \o Tail(todo)

(* The arrays and scopes once the code of level `level` is e.              *)
ArraysWith(level, e) == [arrays EXCEPT ![scopes[level].ins] = e.code]
ScopesWith(level, e) ==
  [scopes EXCEPT ![level].last = e.last, ![level].prev = e.prev]

Write(e) ==
  /\ arrays' = ArraysWith(scope_index, e)
  /\ scopes' = ScopesWith(scope_index, e)

(* Mutant: the slot keeps the array it had.                                *)
EnteredAgain(ss, ins) ==
  ss \o
    (IF Len(ss) > scope_index THEN <<>>
     ELSE <<[ins |-> ins, last |-> Nothing, prev |-> Nothing]>>)

(* enter_compiler_scope: code goes to a new array, the next slot of scopes *)
(* is overwritten whatever it still holds.                                 *)
Entered(ss, ins) ==
  SubSeq(ss, 1, scope_index)
    \o <<[ins |-> ins, last |-> Nothing, prev |-> Nothing]>>
    \o SubSeq(ss, scope_index + 2, Len(ss))

(* An error returns through every caller.  (REASSIGN_INDEX is still        *)
(* emitted when the value it assigns has failed; the code of a failed      *)
(* compilation is thrown away.)                                            *)
Fail(error) ==
  /\ result' = error
  /\ todo' = <<>>
  /\ UNCHANGED <<tables, scopes, arrays, constants, loops, is_void>>

Spend(cost) == budget >= cost /\ budget' = budget - cost

May(liberty) == liberty \in Suite.liberties

----------------------------------------------------------------------------
(* Statements *)

(* Where a block, or the program, has a statement to compile.  A block     *)
(* whose value is used may have a last statement for free, so that every   *)
(* program can be completed within the budget.                             *)
NewStatement(form, gives) ==
  /\ Running("block")
  /\ form \in Suite.forms \cup {"expression"}
  /\ Spend(IF Head(todo).value /\ ~Head(todo).got /\ gives THEN 0 ELSE 1)

Rest(gives) == <<[Head(todo) EXCEPT !.got = gives]>>

EndBlock ==
  /\ Running("block")
  /\ Head(todo).value => Head(todo).got \/ May("branch_without_value")
  /\ Continue(<<>>)
  /\ UNCHANGED <<tables, scopes, arrays, constants, loops, is_void, result,
                 budget>>

ExpressionStatement(kind) ==
  /\ kind = "void" => Suite.forms \cap {"while", "for"} # {}
  /\ NewStatement("expression", kind = "value")
  /\ Continue(<<Expression(Head(todo).place, kind),
                [do |-> "expression_statement"]>> \o Rest(kind = "value"))
  /\ UNCHANGED <<tables, scopes, arrays, constants, loops, is_void, result>>

(* Mutant: the flag is not taken down.                                     *)
EndExpressionStatementKeepingFlag ==
  /\ Running("expression_statement")
  /\ IF is_void THEN UNCHANGED <<arrays, scopes>>
                ELSE Write(Emit(Current, "POP", <<>>))
  /\ Continue(<<>>)
  /\ UNCHANGED <<tables, constants, loops, is_void, result, budget>>

(* The flag left by a loop says that there is no value to pop.             *)
EndExpressionStatement ==
  /\ Running("expression_statement")
  /\ IF is_void THEN UNCHANGED <<arrays, scopes>>
                ELSE Write(Emit(Current, "POP", <<>>))
  /\ is_void' = FALSE
  /\ Continue(<<>>)
  /\ UNCHANGED <<tables, constants, loops, result, budget>>

(* The name is defined before its value is compiled; a function literal    *)
(* gets the name.                                                          *)
LetSteps(place, name) ==
  <<[Expression(place, "value") EXCEPT !.name = name],
    [do |-> "save", symbol |-> ST!Defined(tables, name)]>>

LetStatement(name) ==
  /\ NewStatement("let", FALSE)
  /\ tables' = ST!symbol_define(tables, name)
  /\ Continue(LetSteps(Head(todo).place, name) \o Rest(FALSE))
  /\ UNCHANGED <<scopes, arrays, constants, loops, is_void, result>>

SaveSymbol ==
  /\ Running("save")
  /\ LET symbol == Head(todo).symbol
     IN  Write(Emit(Current, IF symbol.scope = "GLOBAL" THEN "SET_GLOBAL"
                                                        ELSE "SET_LOCAL",
                    <<symbol.index>>))
  /\ Continue(<<>>)
  /\ UNCHANGED <<tables, constants, loops, is_void, result, budget>>

ReturnStatement ==
  /\ NewStatement("return", TRUE)
  /\ Head(todo).place.function \/ May("stray_return")
  /\ Continue(<<Expression(Head(todo).place, "value"),
                [do |-> "emit", op |-> "RETURN_VALUE", operands |-> <<>>]>>
              \o Rest(TRUE))
  /\ UNCHANGED <<tables, scopes, arrays, constants, loops, is_void, result>>

(* What every caller does that only has an instruction left to emit.       *)
EmitInstruction ==
  /\ Running("emit")
  /\ Write(Emit(Current, Head(todo).op, Head(todo).operands))
  /\ Continue(<<>>)
  /\ UNCHANGED <<tables, constants, loops, is_void, result, budget>>

ContinueStatement ==
  /\ NewStatement("continue", TRUE)
  /\ Head(todo).place.loop \/ May("stray_break")
  /\ IF loops = <<>>
     THEN Fail("CONTINUE_OUTSIDE_LOOP")
     ELSE /\ Write(Emit(Current, "CONTINUE", <<>>))
          /\ Continue(Rest(TRUE))
          /\ UNCHANGED <<tables, constants, loops, is_void, result>>

(* new_break_statement remembers where the instruction is.                 *)
BreakPosition(e) == Len(e.code)

BreakStatement ==
  /\ NewStatement("break", TRUE)
  /\ Head(todo).place.loop \/ May("stray_break")
  /\ IF loops = <<>>
     THEN Fail("BREAK_OUTSIDE_LOOP")
     ELSE /\ Write(Emit(Current, "BREAK", <<JUMP_SENTINEL>>))
          /\ loops' = <<Append(Head(loops), BreakPosition(Current))>> \o Tail(loops)
          /\ Continue(Rest(TRUE))
          /\ UNCHANGED <<tables, constants, is_void, result>>

Statement ==
  \/ EndBlock
  \/ \E kind \in {"value", "void"} : ExpressionStatement(kind)
  \/ EndExpressionStatement
  \/ \E name \in Names : LetStatement(name)
  \/ SaveSymbol
  \/ ReturnStatement
  \/ EmitInstruction
  \/ ContinueStatement
  \/ BreakStatement

----------------------------------------------------------------------------
(* Expressions *)

NewExpression(form, cost) ==
  /\ Running("expression")
  /\ form \in Suite.forms
  /\ Head(todo).kind = "value"
  /\ Spend(cost)

Here == Head(todo).place

(* `count` expressions compiled one after the other.                       *)
Operands(count) == [i \in 1..count |-> Expression(Here, "value")]

EmitStep(op, operands) ==
  <<[do |-> "emit", op |-> op, operands |-> operands]>>

Constant(kind, ins, locals, parameters) ==
  [kind |-> kind, ins |-> ins, num_locals |-> locals,
   num_parameters |-> parameters]

BooleanLiteral ==
  /\ NewExpression("bool", 0)
  /\ Write(Emit(Current, "TRUE", <<>>))
  /\ Continue(<<>>)
  /\ UNCHANGED <<tables, constants, loops, is_void, result>>

(* numbers and strings                                                     *)
ConstantLiteral ==
  /\ NewExpression("number", 0)
  /\ constants' = Append(constants, Constant("value", 0, 0, 0))
  /\ Write(Emit(Current, "CONSTANT", <<Len(constants)>>))
  /\ Continue(<<>>)
  /\ UNCHANGED <<tables, loops, is_void, result>>

Identifier(name) ==
  LET symbol == ST!symbol_resolve(tables, name)
  IN  /\ NewExpression("ident", 0)
      /\ IF symbol = NULL
         THEN Fail("UNKNOWN_IDENTIFIER")
         ELSE /\ tables' = ST!TablesAfterResolve(tables, name)
              /\ Write(load_symbol(Current, symbol))
              /\ Continue(<<>>)
              /\ UNCHANGED <<constants, loops, is_void, result>>

(* Expressions whose operands are compiled in order and followed by one    *)
(* instruction.  The right operand of < comes first, the operator is then  *)
(* GREATER; a hash emits the number of its entries as the parser counted   *)
(* them, and the pairs its map still has.                                  *)
Compound(form, count, op, operands) ==
  /\ NewExpression(form, 1)
  /\ Continue(Operands(count) \o EmitStep(op, operands))
  /\ UNCHANGED <<tables, scopes, arrays, constants, loops, is_void, result>>

HashElements(pairs) == 2 * pairs

CompoundExpression ==
  \/ \E op \in Suite.operators \ PrefixOps : Compound("infix", 2, op, <<>>)
  \/ \E op \in Suite.operators \cap PrefixOps : Compound("prefix", 1, op, <<>>)
  \/ Compound("index", 2, "INDEX", <<>>)
  \/ Compound("reassign_index", 3, "REASSIGN_INDEX", <<>>)
  \/ \E n \in 0..Suite.args :
       \/ Compound("array", n, "ARRAY", <<n>>)
       \/ Compound("call", n + 1, "CALL", <<n>>)
       \/ Compound("hash", 2 * n, "HASH", <<HashElements(n)>>)
       \/ /\ n > 0 /\ May("duplicate_key")
          /\ Compound("hash", 2 * n, "HASH", <<HashElements(n + 1)>>)

Reassignment(name) ==
  LET symbol == ST!symbol_resolve(tables, name)
  IN  /\ NewExpression("reassign", 1)
      /\ IF symbol = NULL
         THEN Fail("UNKNOWN_IDENTIFIER")
         ELSE /\ symbol.scope \in {"FUNCTION", "BUILTIN"}
                   => May("assign_to_function")
              /\ tables' = ST!TablesAfterResolve(tables, name)
              /\ Continue(<<Expression(Here, "value"),
                            [do |-> "assign", symbol |-> symbol]>>)
              /\ UNCHANGED <<scopes, arrays, constants, loops, is_void, result>>

(* The new value is also the value of the expression.                      *)
EndReassignment ==
  LET symbol == Head(todo).symbol
      Store(set, get) ==
        Write(Emit(Emit(Current, set, <<symbol.index>>),
                   get, <<symbol.index>>))
  IN  /\ Running("assign")
      /\ UNCHANGED budget
      /\ IF symbol.scope \in {"FUNCTION", "BUILTIN"}
         THEN Fail("ABORT")
         ELSE /\ CASE symbol.scope = "GLOBAL" -> Store("SET_GLOBAL", "GET_GLOBAL")
                   [] symbol.scope = "LOCAL"  -> Store("SET_LOCAL", "GET_LOCAL")
                   [] symbol.scope = "FREE"   -> Store("SET_FREE", "GET_FREE")
              /\ Continue(<<>>)
              /\ UNCHANGED <<tables, constants, loops, is_void, result>>

(* The parser takes any expression for the left side of an assignment;     *)
(* compile_reassignment only names and elements.                           *)
UnindexableTarget ==
  /\ NewExpression("reassign", 1)
  /\ Fail("UNINDEXABLE_TYPE")

----------------------------------------------------------------------------
(* if *)

(* Mutant: the operand stays as it was emitted.                            *)
Unpatched(e, p, target) == e

Patched(e, p, target) == [e EXCEPT !.code = change_operand(@, p, target)]

IfExpression(hasElse) ==
  /\ NewExpression("if", 1)
  /\ Continue(<<Expression(Here, "value"),
                [do |-> "consequence", place |-> Here, hasElse |-> hasElse]>>)
  /\ UNCHANGED <<tables, scopes, arrays, constants, loops, is_void, result>>

Consequence ==
  /\ Running("consequence")
  /\ Write(Emit(Current, "JMP_IF_FALSE", <<JUMP_SENTINEL>>))
  /\ Continue(<<Block(Here, TRUE),
                [do |-> "alternative", place |-> Here,
                 hasElse |-> Head(todo).hasElse, jump |-> Len(Current.code)]>>)
  /\ UNCHANGED <<tables, constants, loops, is_void, result, budget>>

Alternative ==
  LET consequence == remove_last_pop(Current)
      jump        == Len(consequence.code)
      jumped      == Emit(consequence, "JMP", <<JUMP_SENTINEL>>)
      e           == Patched(jumped, Head(todo).jump, Len(jumped.code))
      noElse      == Emit(e, "NULL", <<>>)
  IN  /\ Running("alternative")
      /\ IF Head(todo).hasElse
         THEN /\ Write(e)
              /\ Continue(<<Block(Here, TRUE), [do |-> "end_if", jump |-> jump]>>)
         ELSE /\ Write(Patched(noElse, jump, Len(noElse.code)))
              /\ Continue(<<>>)
      /\ UNCHANGED <<tables, constants, loops, is_void, result, budget>>

EndIf ==
  LET e == remove_last_pop(Current)
  IN  /\ Running("end_if")
      /\ Write(Patched(e, Head(todo).jump, Len(e.code)))
      /\ Continue(<<>>)
      /\ UNCHANGED <<tables, constants, loops, is_void, result, budget>>

----------------------------------------------------------------------------
(* Function literals *)

(* The name of a literal that no let names is read uninitialised: usually  *)
(* NULL, possibly a string left in recycled memory.                        *)
LiteralNames ==
  IF Head(todo).name # NULL THEN {Head(todo).name}
  ELSE {NULL} \cup (IF May("stale_name") THEN Names ELSE {})

FunctionTables(name, parameters) ==
  LET enclosed == ST!new_enclosed_symbol_table(tables)
      named    == IF name = NULL THEN enclosed
                  ELSE ST!symbol_define_function_name(enclosed, name)
      defined[n \in 0..Len(parameters)] ==
        IF n = 0 THEN named ELSE ST!symbol_define(defined[n - 1], parameters[n])
  IN  defined[Len(parameters)]

FunctionLiteral(name, parameters) ==
  /\ NewExpression("function", 1)
  /\ name \in LiteralNames
  /\ Here.update => May("scope_in_update")
  /\ tables' = FunctionTables(name, parameters)
  /\ arrays' = Append(arrays, <<>>)
  /\ scopes' = Entered(scopes, Len(arrays'))
  /\ Continue(<<Block(Place(FALSE, TRUE), FALSE),
                [do |-> "end_function", parameters |-> Len(parameters)]>>)
  /\ UNCHANGED <<constants, loops, is_void, result>>

(* Mutant: only the value of an expression is returned.                    *)
ReturningValue(e) ==
  IF e.last.op = "POP"
  THEN [e EXCEPT !.code = Overwrite(@, e.last.pos,
                                    make_instruction("RETURN_VALUE", <<>>))]
  ELSE e

(* A POP at the end becomes the return; last_instruction still says POP,   *)
(* so that a RETURN nobody reaches follows.                                *)
Returning(e) ==
  LET returned == IF e.last.op = "POP"
                  THEN [e EXCEPT !.code =
                          Overwrite(@, e.last.pos,
                                    make_instruction("RETURN_VALUE", <<>>))]
                  ELSE e
  IN  IF e.last.op = "RETURN_VALUE" THEN returned
      ELSE Emit(returned, "RETURN", <<>>)

(* The enclosing code loads the captured variables and makes the closure.  *)
(* The symbols are read after leave_compiler_scope has freed their table.  *)
(* When the enclosing array has to grow while they are loaded, it may get  *)
(* that memory: the scope of a symbol that is overwritten matches no case  *)
(* of load_symbol, and nothing is emitted for it.                          *)
Captures == 1..Len(ST!Top(tables).free_symbols)

Intact ==
  IF May("freed_table") THEN {kept \in SUBSET Captures : Captures \cap {1} \subseteq kept}
                        ELSE {Captures}

Loading(e, captured, kept) ==
  LET loaded[n \in 0..Len(captured)] ==
        IF n = 0 THEN e
        ELSE IF n \in kept THEN load_symbol(loaded[n - 1], captured[n])
        ELSE loaded[n - 1]
  IN  loaded[Len(captured)]

(* Mutant: the variables are loaded when the closure has been made.        *)
ClosedEarly(e, kept) ==
  LET captured == ST!Top(tables).free_symbols
  IN  Loading(Emit(e, "CLOSURE", <<Len(constants), Len(captured)>>), captured, kept)

Closed(e, kept) ==
  LET captured == ST!Top(tables).free_symbols
  IN  Emit(Loading(e, captured, kept), "CLOSURE", <<Len(constants), Len(captured)>>)

(* Mutant: the locals are counted when the scope has been left.            *)
LeaveAndCount(kind, parameters, inner, outer) ==
  /\ arrays' = [arrays EXCEPT ![scopes[scope_index].ins] = inner.code,
                              ![scopes[scope_index - 1].ins] = outer.code]
  /\ scopes' = ScopesWith(scope_index - 1, outer)
  /\ tables' = ST!free_symbol_table(tables)
  /\ constants' = Append(constants,
                    Constant(kind, scopes[scope_index].ins,
                             ST!Top(tables').num_definitions, parameters))

(* Leaves the scope whose code is `inner` and goes on with `outer`.        *)
Leave(kind, parameters, inner, outer) ==
  /\ arrays' = [arrays EXCEPT ![scopes[scope_index].ins] = inner.code,
                              ![scopes[scope_index - 1].ins] = outer.code]
  /\ scopes' = ScopesWith(scope_index - 1, outer)
  /\ tables' = ST!free_symbol_table(tables)
  /\ constants' = Append(constants,
                    Constant(kind, scopes[scope_index].ins,
                             ST!Top(tables).num_definitions, parameters))

EndFunction ==
  /\ Running("end_function")
  /\ \E kept \in Intact :
       Leave("function", Head(todo).parameters, Returning(Current),
             Closed(At(scope_index - 1), kept))
  /\ Continue(<<>>)
  /\ UNCHANGED <<loops, is_void, result, budget>>

----------------------------------------------------------------------------
(* Loops *)

(* Mutant: a loop starts with the breaks of the loop around it.            *)
enter_loop_inheriting(ls) == (IF ls = <<>> THEN <<<<>>>> ELSE <<Head(ls)>>) \o ls

(* A loop starts without breaks.                                           *)
enter_loop(ls) == <<<<>>>> \o ls

(* The loop is entered before its initialization and condition are         *)
(* compiled, and left before its update is.                                *)
Loop(form, initialization, tablesAfter, hasUpdate) ==
  /\ Running("expression")
  /\ form \in Suite.forms
  /\ Head(todo).kind = "void" \/ May("loop_as_value")
  /\ Here.update => May("scope_in_update")
  /\ Spend(IF Head(todo).kind = "void" THEN 0 ELSE 1)
  /\ loops' = enter_loop(loops)
  /\ tables' = tablesAfter
  /\ Continue(initialization \o
              <<[do |-> "condition", place |-> Here, hasUpdate |-> hasUpdate]>>)
  /\ UNCHANGED <<scopes, arrays, constants, is_void, result>>

WhileLoop == Loop("while", <<>>, tables, FALSE)

ForLoop(name, hasUpdate) ==
  Loop("for", LetSteps([Here EXCEPT !.loop = FALSE], name),
       ST!symbol_define(tables, name), hasUpdate)

Condition ==
  /\ Running("condition")
  /\ Continue(<<Expression([Here EXCEPT !.loop = FALSE], "value"),
                [do |-> "body", place |-> Here,
                 hasUpdate |-> Head(todo).hasUpdate,
                 before |-> Len(Current.code)]>>)
  /\ UNCHANGED <<tables, scopes, arrays, constants, loops, is_void, result,
                 budget>>

LoopBody ==
  LET e == Emit(Current, "JMP_IF_FALSE", <<JUMP_SENTINEL>>)
  IN  /\ Running("body")
      /\ tables' = ST!new_enclosed_symbol_table(tables)
      /\ arrays' = Append(ArraysWith(scope_index, e), <<>>)
      /\ scopes' = Entered(ScopesWith(scope_index, e), Len(arrays'))
      /\ Continue(<<Block(Place(TRUE, FALSE), FALSE),
                    [do |-> "end_body", place |-> Here,
                     hasUpdate |-> Head(todo).hasUpdate,
                     before |-> Head(todo).before,
                     jump |-> Len(Current.code)]>>)
      /\ UNCHANGED <<constants, loops, is_void, result, budget>>

(* What is kept of the body for the patching at the end is a pointer to    *)
(* its slot of scopes.                                                     *)
EndLoopBody ==
  LET body == IF Current.last.op = "CONTINUE" THEN Current
              ELSE Emit(Current, "CONTINUE", <<>>)
      update == IF ~Head(todo).hasUpdate THEN <<>>
                ELSE <<Expression([Here EXCEPT !.update = TRUE], "value"),
                       [do |-> "expression_statement"]>>
  IN  /\ Running("end_body")
      /\ \E kept \in Intact :
           Leave("loop", 0, body,
                 Emit(Closed(At(scope_index - 1), kept), "LOOP", <<>>))
      /\ loops' = Tail(loops)
      /\ Continue(update \o
                  <<[do |-> "end_loop", before |-> Head(todo).before,
                     jump |-> Head(todo).jump, breaks |-> Head(loops),
                     slot |-> scope_index]>>)
      /\ UNCHANGED <<is_void, result, budget>>

PatchFrom(first, code, breaks, target) ==
  LET patched[n \in 0..Len(breaks)] ==
        LET patch == patched[n - 1]
            p     == breaks[n]
        IN  IF n < first THEN [code |-> code, fault |-> {}]
            ELSE IF "ABORT" \in patch.fault THEN patch
            ELSE IF Misplaced(patch.code, p)
                 THEN [patch EXCEPT !.fault = @ \cup ChangeFault(patch.code, p)]
            ELSE [patch EXCEPT !.code = change_operand(@, p, target)]
  IN  patched[Len(breaks)]

(* Mutant: the first of them is skipped.                                   *)
PatchOtherBreaks(code, breaks, target) == PatchFrom(2, code, breaks, target)

(* patch_break_statements: one change_operand after the other, until one   *)
(* of them dies.  Behind the code a new operand changes nothing of it.     *)
PatchBreaks(code, breaks, target) == PatchFrom(1, code, breaks, target)

EndLoop ==
  LET jumped == Emit(Current, "JMP", <<Head(todo).before>>)
      after  == Len(jumped.code)
      e      == Patched(jumped, Head(todo).jump, after)
      ins    == scopes[Head(todo).slot].ins
      patch  == PatchBreaks(arrays[ins], Head(todo).breaks, after)
  IN  /\ Running("end_loop")
      /\ UNCHANGED budget
      /\ \/ \E fault \in patch.fault : Fail(fault)
         \/ /\ "ABORT" \notin patch.fault
            /\ arrays' = [ArraysWith(scope_index, e) EXCEPT ![ins] = patch.code]
            /\ scopes' = ScopesWith(scope_index, e)
            /\ is_void' = TRUE
            /\ Continue(<<>>)
            /\ UNCHANGED <<tables, constants, loops, result>>

----------------------------------------------------------------------------

Init ==
  /\ suite \in DOMAIN Suites
  /\ tables = <<ST!GlobalTable>>
  /\ arrays = << <<>> >>
  /\ scopes = <<[ins |-> 1, last |-> Nothing, prev |-> Nothing]>>
  /\ constants = <<>>
  /\ loops = <<>>
  /\ is_void = FALSE
  /\ todo = <<Block(Place(FALSE, FALSE), FALSE)>>
  /\ result = "OK"
  /\ budget = Suite.nodes

Literal ==
  \/ BooleanLiteral
  \/ ConstantLiteral
  \/ \E name \in Names : Identifier(name)

Assignment ==
  \/ \E name \in Names : Reassignment(name)
  \/ EndReassignment
  \/ UnindexableTarget

Branch ==
  \/ \E hasElse \in BOOLEAN : IfExpression(hasElse)
  \/ Consequence
  \/ Alternative
  \/ EndIf

Parameters == UNION {[1..n -> Names] : n \in 0..Suite.args}

Function ==
  \/ \E name \in Names \cup {NULL}, parameters \in Parameters :
       FunctionLiteral(name, parameters)
  \/ EndFunction

Looping ==
  \/ WhileLoop
  \/ \E name \in Names, hasUpdate \in BOOLEAN : ForLoop(name, hasUpdate)
  \/ Condition
  \/ LoopBody
  \/ EndLoopBody
  \/ EndLoop

Step ==
  \/ Statement
  \/ Literal
  \/ CompoundExpression
  \/ Assignment
  \/ Branch
  \/ Function
  \/ Looping

Next == Step /\ UNCHANGED suite
Spec == Init /\ [][Next]_vars

(* The whole program has been compiled.                                    *)
Compiled == result = "OK" /\ todo = <<>>

============================================================================
