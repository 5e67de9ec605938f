---------------------------- MODULE MCEvaluator ----------------------------
(***************************************************************************)
(* Evaluator on the programs of a few small sublanguages.                  *)
(***************************************************************************)
EXTENDS Evaluator

Language(forms, names, operators, n) ==
  [forms |-> forms, names |-> names, operators |-> operators, nodes |-> n]

MCSuites ==
  <<\* Functions that are captured, called, shadowed and returned from.
    Language({"true", "ident", "function", "call", "let", "return"}, {"x"}, {}, 9),
    \* Loops, nested, with variables of their own and of the code around, and
    \* assignments of errors and of the values of loops.
    Language({"true", "false", "ident", "while", "reassign", "let"}, {"x"}, {}, 8),
    \* Loops of every shape, left in every way.
    Language({"true", "for", "if", "let", "break", "continue", "return"}, {"x"}, {}, 8),
    \* Functions with loops and assignments.
    Language({"true", "ident", "function", "call", "let", "while", "reassign"}, {"x"}, {}, 8),
    \* Loops in functions that a break leaves.
    Language({"true", "while", "function", "call", "let", "break"}, {"x"}, {}, 9),
    \* Branches for values, which return and break leave.
    Language({"true", "ident", "if", "let", "return", "break", "reassign", "while"},
          {"x"}, {}, 8),
    \* Variables that are counted up and combined.
    Language({"number", "ident", "infix", "let", "reassign"}, {"x"}, {"+"}, 7),
    \* Operators on values of every type.
    Language({"number", "string", "true", "ident", "bang", "minus", "infix", "if_else"},
          {"x"}, {"+", "==", "&&", "%"}, 5),
    \* Arrays and hashes, shared and assigned to.
    Language({"number", "ident", "array", "hash", "index", "let", "reassign_index",
           "reassign_element"}, {"x"}, {}, 6),
    \* The built-in functions on arrays and strings.
    Language({"string", "ident", "array", "call"}, BuiltinNames, {}, 5)>>

(* Assignments in loops in loops.                                          *)
NestedLoops == <<Language({"true", "let", "while", "reassign"}, {"x"}, {}, 11)>>

=============================================================================
