---------------------------- MODULE MCPipeline ----------------------------
(***************************************************************************)
(* Pipeline on small programs: a variable or a built-in function.          *)
(***************************************************************************)
EXTENDS Pipeline

CONSTANTS x, len

MCPosition == [b \in Builtins |-> 0]

Language(forms, operators, args, nodes) ==
  [forms |-> forms, liberties |-> {}, operators |-> operators, args |-> args,
   nodes |-> nodes]

(* Loops in loops and in branches, left by a break anywhere, also between  *)
(* the operands of an expression.                                          *)
LoopPrograms == Language({"bool", "let", "infix", "if", "while", "break"}, {"EQ"}, 0, 4)

(* Loops that assign to the variables of the code around them.             *)
Assigning == Language({"number", "let", "while", "reassign"}, {}, 0, 5)

(* Functions and loops that are defined, captured, called, returned from   *)
(* and left.                                                               *)
Calling == Language({"ident", "let", "function", "call", "return", "while", "break"}, {}, 1, 5)

MCPrograms == <<LoopPrograms, Assigning, Calling>>

(* Operators, arrays, hashes and calls of a built-in function in one       *)
(* another.                                                                *)
Values ==
  Language({"bool", "number", "ident", "infix", "prefix", "array", "hash", "index",
            "reassign_index", "call"},
           {"MOD", "AND", "GREATER", "MINUS", "BANG"}, 2, 3)

(* Calls of a built-in function with arrays, also with what it returned.   *)
Lists == Language({"ident", "array", "call"}, {}, 2, 5)

MCValues == <<Values, Lists>>

(* An assignment in a loop to a variable around it: of an array, where a   *)
(* number was.                                                             *)
MCOverrun == <<Language({"number", "array", "let", "while", "reassign"}, {}, 0, 6)>>

(* A call of a built-in function, alone.                                   *)
MCBuiltinCall == <<Language({"ident", "call"}, {}, 1, 3)>>

===========================================================================
