---------------------------- MODULE LexicalScope ----------------------------
(***************************************************************************)
(* What the symbol tables promise: lexical scoping.                        *)
(*                                                                         *)
(* At every nesting level a name means one definition.  An inner level     *)
(* starts with the meanings of the level around it, a definition changes   *)
(* what its name means at the current level from then on and nowhere else, *)
(* and looking a name up answers what it means and changes nothing.        *)
(* There are no tables, slots of captured variables or capture lists here. *)
(***************************************************************************)
EXTENDS Naturals, Sequences

CONSTANTS Names, Builtins, Position, NULL, MaxDefs, MaxDepth

VARIABLES
  env,     \* env[i][n]: the definition name n means at level i, or NULL
  defs,    \* defs[i]: the definitions made at level i
  answer   \* the definition a lookup just returned, or NULL

vars == <<env, defs, answer>>

(* A definition: the level it was made at, its kind and its number there.  *)
Definition(level, scope, index) ==
  [level |-> level, scope |-> scope, index |-> index]

Level == Len(env)

Init ==
  /\ env = <<[n \in Names |->
                IF n \in Builtins THEN Definition(1, "BUILTIN", Position[n])
                                  ELSE NULL]>>
  /\ defs = <<0>>
  /\ answer = NULL

Bind(n, definition) == env' = [env EXCEPT ![Level][n] = definition]

Define(n) ==
  /\ defs[Level] < MaxDefs
  /\ Bind(n, Definition(Level, IF Level = 1 THEN "GLOBAL" ELSE "LOCAL",
                        defs[Level]))
  /\ defs' = [defs EXCEPT ![Level] = @ + 1]
  /\ answer' = NULL

Lookup(n) ==
  /\ answer' = env[Level][n]
  /\ UNCHANGED <<env, defs>>

(* Opens a level; `own` are the names it starts with a meaning of its own  *)
(* for: none, or the function being defined.                               *)
Open(own) ==
  /\ Level < MaxDepth
  /\ env' = Append(env, [n \in Names |->
                           IF n \in own
                           THEN Definition(Level + 1, "FUNCTION", 0)
                           ELSE env[Level][n]])
  /\ defs' = Append(defs, 0)
  /\ answer' = NULL

Close ==
  /\ Level > 1
  /\ env' = SubSeq(env, 1, Level - 1)
  /\ defs' = SubSeq(defs, 1, Level - 1)
  /\ answer' = NULL

Next ==
  \/ \E n \in Names : Define(n) \/ Lookup(n) \/ Open({n})
  \/ Open({})
  \/ Close

Spec == Init /\ [][Next]_vars

============================================================================
