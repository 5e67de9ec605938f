---------------------------- MODULE CompiledCode ----------------------------
(***************************************************************************)
(* What the code that Compiler emits owes to the machine that runs it.     *)
(*                                                                         *)
(* The machine checks nothing: it takes every operand as it is, pops       *)
(* without looking whether there is anything, and indexes constants,       *)
(* globals, locals and captured variables without a bound.  So the         *)
(* compiler has to get all of it right.                                    *)
(***************************************************************************)
EXTENDS Compiler

(***************************************************************************)
(* The state's types, and that the open scopes own different arrays.       *)
(***************************************************************************)
TypeOK ==
  /\ \A i \in 1..Len(tables) : tables[i] \in ST!Table
  /\ \A i \in 1..Len(arrays) : arrays[i] \in Seq(0..255)
  /\ scope_index \in 1..Len(scopes)
  /\ \A i, j \in 1..scope_index :
       /\ scopes[i].ins \in 1..Len(arrays)
       /\ scopes[i].ins = scopes[j].ins => i = j
  /\ \A i \in 1..Len(constants) :
       constants[i].kind # "value" => constants[i].ins \in 1..Len(arrays)
  /\ loops \in Seq(Seq(Nat))
  /\ is_void \in BOOLEAN
  /\ result \in {"OK", "UNKNOWN_IDENTIFIER", "BREAK_OUTSIDE_LOOP",
                 "CONTINUE_OUTSIDE_LOOP", "UNINDEXABLE_TYPE", "ABORT", "UNDEFINED"}
  /\ budget \in 0..Suite.nodes

(* The program takes no liberties, except that the name of a function may  *)
(* be stale and a loop's update may have scopes of its own.                *)
Ordinary == Suite.liberties \subseteq {"stale_name", "scope_in_update"}

----------------------------------------------------------------------------
(* Reading code the way the machine does *)

(* Where instructions start, from position 0 on: the last one is where     *)
(* decoding runs off the code.                                             *)
Starts(code) ==
  LET from[p \in Nat] ==
        IF p >= Len(code) THEN {p}
        ELSE {p} \cup from[p + InstructionLength(NameOf(code[p + 1]))]
  IN  from[0]

OpAt(code, p) == NameOf(code[p + 1])

Instructions(code) == Starts(code) \ {Len(code)}

PositionsOf(code, names) == {p \in Instructions(code) : OpAt(code, p) \in names}

(* The code of the program, and of its functions and loops.                *)
Main == 1
Bodies == {i \in 1..Len(constants) : constants[i].kind # "value"}
Codes == {Main} \cup {constants[i].ins : i \in Bodies}

(* The places that make a closure of a constant.                           *)
Makers(i) ==
  {m \in UNION {{<<c, p>> : p \in PositionsOf(arrays[c], {"CLOSURE"})} :
                  c \in Codes} :
     OperandAt(arrays[m[1]], m[2], 1) = i - 1}

Maker(i) == CHOOSE m \in Makers(i) : TRUE

----------------------------------------------------------------------------
(* Jumps *)

(***************************************************************************)
(* When the program has been compiled no jump is left unpatched: every     *)
(* jump goes to the start of an instruction of its own code, or to its     *)
(* end.                                                                    *)
(***************************************************************************)
JumpsLand ==
  Compiled /\ Ordinary =>
    \A c \in Codes : LET code == arrays[c] IN
      /\ Len(code) \in Starts(code)
      /\ \A p \in PositionsOf(code, {"JMP", "JMP_IF_FALSE"}) :
           OperandAt(code, p, 1) \in Starts(code)

(* Where the loop whose body is constant i goes on when it is over: the    *)
(* target of the last conditional jump before the closure of its body.     *)
Exit(i) ==
  LET code == arrays[Maker(i)[1]]
      guards == {p \in PositionsOf(code, {"JMP_IF_FALSE"}) : p < Maker(i)[2]}
      guard == CHOOSE p \in guards : \A q \in guards : q <= p
  IN  OperandAt(code, guard, 1)

(***************************************************************************)
(* A break leaves the loop it is written in: it goes, in the code that     *)
(* runs the loop, exactly where the loop's failed condition goes.  The     *)
(* position is one of an array of code that is still being written when    *)
(* the break is compiled.  (The operand has one byte.)                     *)
(***************************************************************************)
BreaksExit ==
  Compiled /\ Ordinary =>
    \A c \in Codes : \A p \in PositionsOf(arrays[c], {"BREAK"}) :
      \E i \in Bodies :
        /\ constants[i].kind = "loop" /\ constants[i].ins = c
        /\ OperandAt(arrays[c], p, 1) = Exit(i) % 256

(***************************************************************************)
(* A finished body is not written to again, except that a break in it is   *)
(* given its target: the constant pool already points to the array when    *)
(* the compiler goes on with the enclosing code.                           *)
(***************************************************************************)
FinishedCode ==
  [][Ordinary =>
       \A i \in Bodies :
         LET c == constants[i].ins
             written == {p \in 1..Len(arrays[c]) : arrays'[c][p] # arrays[c][p]}
         IN  /\ constants'[i] = constants[i]
             /\ Len(arrays'[c]) = Len(arrays[c])
             /\ \A p \in written :
                  \E b \in PositionsOf(arrays[c], {"BREAK"}) : p = b + 2]_vars

----------------------------------------------------------------------------
(* Operands *)

(* The variables of body i: what the closure made of it has captured.      *)
Captured(i) == OperandAt(arrays[Maker(i)[1]], Maker(i)[2], 2)

OperandOK(c, p, locals, captured) ==
  LET code == arrays[c]
      operand == OperandAt(code, p, 1)
  IN  CASE OpAt(code, p) = "CONSTANT" ->
             /\ operand < Len(constants)
             /\ constants[operand + 1].kind = "value"
        [] OpAt(code, p) = "CLOSURE" ->
             LET next == p + InstructionLength("CLOSURE")
             IN  /\ operand < Len(constants)
                 /\ constants[operand + 1].kind =
                      IF next < Len(code) /\ OpAt(code, next) = "LOOP"
                      THEN "loop" ELSE "function"
        [] OpAt(code, p) \in {"GET_GLOBAL", "SET_GLOBAL"} ->
             operand < tables[1].num_definitions
        [] OpAt(code, p) \in {"GET_LOCAL", "SET_LOCAL"} -> operand < locals
        [] OpAt(code, p) \in {"GET_FREE", "SET_FREE"} -> operand < captured
        [] OpAt(code, p) = "GET_BUILTIN" ->
             \E b \in Builtins : Position[b] = operand
        [] OTHER -> TRUE

(***************************************************************************)
(* Every operand names something that is there: constants of the kind the  *)
(* instruction expects, slots its frame reserves, variables its closure    *)
(* has been given.  Each body is made into a closure at exactly one place, *)
(* so that it is known how many.                                           *)
(***************************************************************************)
OperandsResolve ==
  Compiled /\ Ordinary =>
    /\ \A i \in Bodies : Cardinality(Makers(i)) = 1
    /\ \A p \in Instructions(arrays[Main]) : OperandOK(Main, p, 0, 0)
    /\ \A i \in Bodies : \A p \in Instructions(arrays[constants[i].ins]) :
         OperandOK(constants[i].ins, p, constants[i].num_locals, Captured(i))

(* The instruction before position p. *)
Before(code, p) == CHOOSE q \in Instructions(code) :
                     q + InstructionLength(OpAt(code, q)) = p

(***************************************************************************)
(* A closure that captures n variables finds them where it takes them      *)
(* from: the n instructions before it load a local or captured variable of *)
(* the enclosing body each, or the closure that is running.                *)
(***************************************************************************)
CapturesLoaded ==
  Compiled /\ Ordinary =>
    \A i \in Bodies :
      LET code == arrays[Maker(i)[1]]
          load[n \in Nat] == IF n = 0 THEN Maker(i)[2] ELSE Before(code, load[n - 1])
      IN  \A n \in 1..Captured(i) :
            /\ \E q \in Instructions(code) : q < load[n - 1]
            /\ OpAt(code, load[n]) \in {"GET_LOCAL", "GET_FREE", "CURRENT_CLOSURE"}

----------------------------------------------------------------------------
(* The stack *)

(* What the instruction at p takes from the stack and leaves on it.        *)
Taken(code, p) ==
  LET name == OpAt(code, p)
  IN  CASE name \in {"POP", "MINUS", "BANG", "JMP_IF_FALSE", "SET_GLOBAL",
                     "SET_LOCAL", "SET_FREE", "LOOP", "RETURN_VALUE"} -> 1
        [] name \in {"ADD", "SUB", "MUL", "DIV", "LSHIFT", "RSHIFT", "MOD",
                     "BIT_OR", "BIT_AND", "BIT_XOR", "AND", "OR", "EQ",
                     "NOT_EQ", "GREATER", "INDEX"} -> 2
        [] name = "REASSIGN_INDEX" -> 3
        [] name \in {"ARRAY", "HASH"} -> OperandAt(code, p, 1)
        [] name = "CALL" -> OperandAt(code, p, 1) + 1
        [] name = "CLOSURE" -> OperandAt(code, p, 2)
        [] OTHER -> 0

Left(code, p) ==
  IF OpAt(code, p) \in {"POP", "JMP", "JMP_IF_FALSE", "SET_GLOBAL",
                        "SET_LOCAL", "SET_FREE", "LOOP"} THEN 0 ELSE 1

Targets(code, p) ==
  LET next == p + InstructionLength(OpAt(code, p))
  IN  CASE OpAt(code, p) = "JMP" -> {OperandAt(code, p, 1)}
        [] OpAt(code, p) = "JMP_IF_FALSE" -> {next, OperandAt(code, p, 1)}
        [] OpAt(code, p) \in {"RETURN_VALUE", "RETURN", "CONTINUE", "BREAK"} -> {}
        [] OTHER -> {next}

After(code, s) ==
  IF s.pos >= Len(code) \/ s.depth < Taken(code, s.pos) THEN {}
  ELSE {[pos |-> q, depth |-> s.depth - Taken(code, s.pos) + Left(code, s.pos)] :
          q \in Targets(code, s.pos)}

(* Where execution can be, with how many values on the stack above the     *)
(* frame's locals: in as many steps as there are bytes and one more, which *)
(* is enough to get everywhere, and, if some place can be reached with two *)
(* depths, to one of those with both.                                      *)
Reached(code) ==
  LET reached[n \in Nat] ==
        IF n = 0 THEN [seen |-> {[pos |-> 0, depth |-> 0]},
                       new  |-> {[pos |-> 0, depth |-> 0]}]
        ELSE LET r    == reached[n - 1]
                 next == UNION {After(code, s) : s \in r.new} \ r.seen
             IN  [seen |-> r.seen \cup next, new |-> next]
  IN  reached[Len(code) + 1].seen

(***************************************************************************)
(* Whatever way the conditions go, an instruction finds the operands it    *)
(* takes on the stack, every place in the code is reached with one depth   *)
(* of the stack only, and the program ends with an empty stack.  (A call   *)
(* is taken to replace the function and its arguments by one value.)       *)
(***************************************************************************)
StackBalanced ==
  Compiled /\ Ordinary =>
    \A c \in Codes :
      LET code  == arrays[c]
          reach == Reached(code)
      IN  /\ \A s \in reach : s.pos < Len(code) => s.depth >= Taken(code, s.pos)
          /\ \A s, t \in reach : s.pos = t.pos => s.depth = t.depth
          /\ c = Main => \A s \in reach : s.pos = Len(code) => s.depth = 0

Leaving(code) == PositionsOf(code, {"RETURN", "RETURN_VALUE", "CONTINUE", "BREAK"})

(***************************************************************************)
(* A frame is left the way it was entered: whatever way execution goes, a  *)
(* function ends in a return and a loop body in a continue or a break,     *)
(* neither runs off its end, and the program itself does nothing else.     *)
(* (The machine pops a frame for each of these instructions, whoever's     *)
(* frame it is, and stops where the code of the current frame ends.)       *)
(***************************************************************************)
FramesLeft ==
  Compiled /\ Ordinary =>
    /\ Leaving(arrays[Main]) = {}
    /\ \A i \in Bodies :
         LET code  == arrays[constants[i].ins]
             reach == {s.pos : s \in Reached(code)}
         IN  /\ Len(code) \notin reach
             /\ \A p \in Leaving(code) \cap reach :
                  OpAt(code, p) \in IF constants[i].kind = "loop"
                                    THEN {"CONTINUE", "BREAK"}
                                    ELSE {"RETURN", "RETURN_VALUE"}

----------------------------------------------------------------------------
(* The compiler itself *)

(***************************************************************************)
(* No such program makes the compiler fail an assertion or read outside    *)
(* its arrays.                                                             *)
(***************************************************************************)
NeverDies == Ordinary => result \notin {"ABORT", "UNDEFINED"}

(***************************************************************************)
(* A compilation that succeeds has closed every scope and every loop it    *)
(* has opened, and leaves no value flag behind for the next statement.     *)
(***************************************************************************)
NestingClosed ==
  Compiled => Len(tables) = 1 /\ loops = <<>> /\ ~is_void

============================================================================
