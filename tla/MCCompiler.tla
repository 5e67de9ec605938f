----------------------------- MODULE MCCompiler -----------------------------
(***************************************************************************)
(* Compiler on small programs.                                             *)
(***************************************************************************)
EXTENDS CompiledCode, TLC

CONSTANTS x, y

MCPosition == [b \in Builtins |-> 0]

(* Neither name is a built-in function, and nothing chooses one of them.   *)
Symmetry == Permutations({x, y})

Language(forms, args, nodes) ==
  [forms |-> forms, liberties |-> {}, operators |-> {}, args |-> args, nodes |-> nodes]

Liberal(forms, args, nodes, liberties) ==
  [Language(forms, args, nodes) EXCEPT !.liberties = liberties]

(* Loops in loops, branches in loops and loops in branches, breaks and     *)
(* continues anywhere in them.                                             *)
Loops == Language({"bool", "if", "while", "for", "break", "continue"}, 0, 4)

(* Functions and loops in functions and loops, using and assigning each    *)
(* other's variables; every name two functions deep can be captured.       *)
Closures ==
  Liberal({"ident", "let", "function", "call", "return", "while", "reassign"}, 1, 5,
          {"stale_name"})

(* Breaks in conditions, branches without a value, repeated keys.          *)
Values ==
  Liberal({"number", "if", "while", "for", "break", "hash"}, 1, 3,
          {"branch_without_value", "stray_break", "duplicate_key"})

(* Functions in loops, with breaks of the loop and in its update, and      *)
(* whatever recycled memory may hold.                                      *)
Scopes ==
  Liberal({"ident", "if", "while", "for", "break", "function"}, 1, 3,
          {"branch_without_value", "stray_break", "scope_in_update", "stale_name",
           "freed_table"})

MCSuites == <<Loops, Closures, Values, Scopes>>

(* The update of a for loop has a scope of its own.                        *)
MCUpdates == <<Liberal({"ident", "for", "break", "function"}, 0, 4, {"scope_in_update"})>>

=============================================================================
