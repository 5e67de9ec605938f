------------------------------ MODULE Evaluator ------------------------------
(***************************************************************************)
(* The tree-walking interpreter (src/src/evaluator/evaluator.c) and its    *)
(* environments (src/src/environment/environment.c).                       *)
(*                                                                         *)
(* frames are the C calls of eval that are under way, innermost last; ret  *)
(* is what the innermost call that ended has returned.  A tree is chosen   *)
(* node by node where the evaluator first meets it and kept in nodes, so   *)
(* that a loop's body or a function that is entered again is the same one. *)
(* The behaviours are the evaluations of all programs of at most MaxNodes  *)
(* nodes.                                                                  *)
(***************************************************************************)
EXTENDS Integers, Sequences, FiniteSets

CONSTANTS
  Names,      \* identifiers, strings
  NULL,       \* no name
  Suites,     \* sublanguages, a sequence: the kinds of nodes, names and infix
              \* operators a program may use, and a bound on its nodes
  MaxArgs,    \* bound: arguments, array elements, hash pairs
  MaxEnvs,    \* bound: environments a run may make
  MaxArrays,  \* bound: arrays and hashes a run may make
  MaxLayers   \* bound: return objects wrapped in each other

AllForms ==
  {"number", "string", "true", "false", "ident", "bang", "minus", "infix",
   "if", "if_else", "function", "call", "array", "index", "hash", "while",
   "for", "reassign", "reassign_index", "reassign_element", "let", "return",
   "break", "continue"}

ASSUME SuitesKnown ==
  \A i \in DOMAIN Suites :
    LET s == Suites[i]
    IN  s.forms \subseteq AllForms /\ s.names \subseteq Names /\ s.nodes \in Nat
ASSUME BoundsNatural ==
  {MaxArgs, MaxEnvs, MaxArrays, MaxLayers} \subseteq Nat /\ MaxLayers # 0
ASSUME NoNameIsNone  == NULL \notin Names

VARIABLES
  suite,   \* the sublanguage of this program
  nodes,   \* the part of the program that has been met
  envs,    \* every Environment made; envs[1] is the program's
  heap,    \* elements of every array, values of every hash
  frames,  \* calls of eval under way, outermost first
  ret,     \* what the call that has just ended returned
  search,  \* the loop of resolve_ident under way
  status   \* "running", "done", or "dead": an assertion failed, or memory
           \* was used that holds nothing

Suite == Suites[suite]

vars == <<suite, nodes, envs, heap, frames, ret, search, status>>

----------------------------------------------------------------------------
(* Objects.  Numbers and strings are all alike; the booleans are the two   *)
(* static objects.                                                         *)

Number   == [type |-> "number"]
String   == [type |-> "string"]
Null     == [type |-> "null"]
Error    == [type |-> "error"]
Break    == [type |-> "break"]
Continue == [type |-> "continue"]
Boolean(b)      == [type |-> "boolean", value |-> b]
Builtin(name)   == [type |-> "builtin", fn |-> name]
Function(n, e)  == [type |-> "function", node |-> n, env |-> e]
Container(t, r) == [type |-> t, ref |-> r]  \* "array" or "hash"

(* A return object, in as many more as there are layers: return x; wraps   *)
(* the value of x, which may be a return object already.                   *)
Wrapped(v, layers) == [type |-> "return", wrapped |-> v, layers |-> layers]
ReturnValue(v) == IF v.type = "return" THEN Wrapped(v.wrapped, v.layers + 1)
                                       ELSE Wrapped(v, 1)

(* The C value NULL, and "no call has returned".                           *)
Missing == [type |-> "missing"]
Nothing == [type |-> "nothing"]

is_error(v) == v.type = "error"

(* Only the static false and NULL are false: a null object is true.        *)
is_truthy(v) == v \notin {Missing, Boolean(FALSE)}

----------------------------------------------------------------------------
(* The program *)

Loops   == {"while", "for"}
Scopes  == Loops \cup {"function"}
Control == Loops \cup {"if", "if_else"}

Node(form, role, within) ==
  [form |-> form, role |-> role, name |-> NULL, kids |-> <<>>,
   open |-> form \in {"program", "block"}, within |-> within]

BuiltinNames == {"len", "puts", "first", "last", "push", "shift", "rest"}

Unmet == "?"

(* Node n is somewhere in a loop, or in a function.                        *)
InLoop(n)     == \E i \in DOMAIN nodes[n].within : nodes[nodes[n].within[i]].form \in Loops
InFunction(n) == \E i \in DOMAIN nodes[n].within : nodes[nodes[n].within[i]].form = "function"

(* The forms a node may take in its place.  The parser accepts break and   *)
(* continue while a loop is open, in a function written in the loop too.   *)
FormsAt(n) ==
  LET role == nodes[n].role
  IN  CASE role = "let"   -> {"let"}
        [] role = "array" -> {"array"}
        [] role = "operand" -> Suite.forms \ {"let", "return", "break", "continue"}
        [] role = "statement" ->
             {f \in Suite.forms : f \in {"break", "continue"} => InLoop(n)}

(* The names a node of a form may have: those of identifiers, parameters   *)
(* and operators.                                                          *)
NamesOf(form) ==
  CASE form \in {"ident", "let", "reassign", "reassign_index"} -> Suite.names
    [] form = "function" -> Suite.names \cup {NULL}
    [] form = "infix"    -> Suite.operators
    [] OTHER             -> {NULL}

Repeat(role, n) == [i \in 1..n |-> role]

Optional(role) == {<<>>, <<role>>}

(* The roles of the children of a node.  Of the parts of a for loop any    *)
(* may be left out but the body.                                           *)
Arms(form) ==
  CASE form \in {"bang", "minus", "return", "let"} -> {<<"operand">>}
    [] form = "infix"    -> {<<"operand", "operand">>}
    [] form = "index"    -> {<<"operand", "operand">>}
    [] form = "if"       -> {<<"operand", "block">>}
    [] form = "if_else"  -> {<<"operand", "block", "block">>}
    [] form = "while"    -> {<<"operand", "block">>}
    [] form = "for"      ->
         {i \o c \o u \o <<"block">> :
            i \in Optional("let"), c \in Optional("operand"), u \in Optional("statement")}
    [] form = "function" -> {<<"block">>}
    [] form = "call"     -> {Repeat("operand", n + 1) : n \in 0..MaxArgs}
    [] form = "array"    -> {Repeat("operand", n) : n \in 0..MaxArgs}
    [] form = "hash"     -> {Repeat("operand", 2 * n) : n \in 0..MaxArgs}
    [] form = "reassign" -> {<<"operand">>}
    [] form = "reassign_index"   -> {<<"operand">>}
    [] form = "reassign_element" -> {<<"operand", "array">>}
    [] OTHER             -> {<<>>}

----------------------------------------------------------------------------
(* The calls of eval *)

Frame(n, e) == [node |-> n, env |-> e, inner |-> 0, at |-> 0, vals |-> <<>>]

depth == Len(frames)
Top   == frames[depth]
Here  == nodes[Top.node]
Kid(i) == Here.kids[i]

(* The innermost call evaluates a node of one of these forms and has made  *)
(* at calls of its own so far.                                             *)
In(forms) == status = "running" /\ depth > 0 /\ Here.form \in forms
Made(at)  == Top.at = at

(* The innermost call evaluates node n in environment e next, and stands   *)
(* at step at when that returns; it keeps what it has just received.       *)
Enter(n, e, at, vals) ==
  /\ frames' = Append([frames EXCEPT ![depth].at = at, ![depth].vals = vals],
                      Frame(n, e))
  /\ ret' = Nothing

(* The values received so far; the next call, for node n in environment e. *)
Got       == IF Made(0) THEN <<>> ELSE Append(Top.vals, ret)
Ask(n)    == Enter(n, Top.env, Top.at + 1, Got)
Proceed   == Ask(Kid(Top.at + 1))

Give(v) ==
  /\ frames' = SubSeq(frames, 1, depth - 1)
  /\ ret' = v

Die == status' = "dead" /\ UNCHANGED <<frames, ret>>

(* A local that was never assigned: NULL, or anything, which ends what can *)
(* be said of the run.                                                     *)
GiveUninitialised ==
  \/ Give(Missing) /\ UNCHANGED status
  \/ Die

Run(v) == Give(v) /\ UNCHANGED status

KeepRest == UNCHANGED <<suite, nodes, envs, heap, search>>

NewEnvironment(outer, store, of) ==
  /\ Len(envs) < MaxEnvs
  /\ envs' = Append(envs, [store |-> store, outer |-> outer, of |-> of])

NoNames == [n \in Names |-> Missing]

Init ==
  /\ suite \in DOMAIN Suites
  /\ nodes  = <<Node("program", "program", <<>>)>>
  /\ envs   = <<[store |-> NoNames, outer |-> 0, of |-> 0]>>
  /\ heap   = <<>>
  /\ frames = <<Frame(1, 1)>>
  /\ ret    = Nothing
  /\ search = <<>>
  /\ status = "running"


----------------------------------------------------------------------------
(* Meeting the program *)

Within(n, f) == IF f \in Scopes THEN Append(nodes[n].within, n)
                                ELSE nodes[n].within

(* The node to be evaluated has not been met: it is any that fits.         *)
Meet ==
  /\ In({Unmet})
  /\ \E f \in FormsAt(Top.node) : \E name \in NamesOf(f), arms \in Arms(f) :
       LET Child(i) == Node(IF arms[i] = "block" THEN "block" ELSE Unmet, arms[i],
                            Within(Top.node, f))
       IN  /\ Len(nodes) + Len(arms) <= Suite.nodes
           /\ nodes' = [nodes EXCEPT ![Top.node].form = f, ![Top.node].name = name,
                                     ![Top.node].kids = [i \in DOMAIN arms |-> Len(nodes) + i]]
                       \o [i \in DOMAIN arms |-> Child(i)]
  /\ UNCHANGED <<suite, envs, heap, frames, ret, search, status>>

(* A block that has no further statement yet ends, or gets one.            *)
MeetStatement ==
  /\ In({"program", "block"})
  /\ Here.open /\ Top.at = Len(Here.kids)
  /\ \/ nodes' = [nodes EXCEPT ![Top.node].open = FALSE]
     \/ /\ Len(nodes) < Suite.nodes
        /\ nodes' = Append([nodes EXCEPT ![Top.node].kids = Append(@, Len(nodes) + 1)],
                           Node(Unmet, "statement", Here.within))
  /\ UNCHANGED <<suite, envs, heap, frames, ret, search, status>>

----------------------------------------------------------------------------
(* Statements *)

(* What ends a block early.                                                *)
IsJump(v) == v.type \in {"return", "error", "continue", "break"}

(* The value of a statement that does not end the block is dropped.        *)
Pass == Enter(Kid(Top.at + 1), Top.env, Top.at + 1, <<>>)

NextStatement ==
  IF Top.at < Len(Here.kids) THEN Pass /\ UNCHANGED status
  ELSE ~Here.open /\ IF Top.at = 0 THEN GiveUninitialised ELSE Run(ret)

eval_block_statement ==
  /\ In({"block"})
  /\ IF Top.at > 0 /\ IsJump(ret) THEN Run(ret) ELSE NextStatement
  /\ KeepRest

unwrap_return_value(v) ==
  IF v.type # "return" THEN v
  ELSE IF v.layers = 1 THEN v.wrapped ELSE Wrapped(v.wrapped, v.layers - 1)

Finish(v) == frames' = <<>> /\ ret' = v /\ status' = "done"

(* The program ends with its first return or error; a break or a continue  *)
(* that comes this far is ignored.                                         *)
eval_program ==
  /\ In({"program"})
  /\ IF Top.at > 0 /\ ret.type = "return" THEN Finish(unwrap_return_value(ret))
     ELSE IF Top.at > 0 /\ is_error(ret) THEN Finish(ret)
     ELSE IF Top.at < Len(Here.kids) THEN Pass /\ UNCHANGED status
     ELSE ~Here.open /\ IF Top.at = 0 THEN Finish(Missing) \/ Die ELSE Finish(ret)
  /\ KeepRest

(* Mutant: an error is stored like a value.                                *)
let_unchecked ==
  /\ In({"let"})
  /\ \/ Made(0) /\ Proceed /\ UNCHANGED envs
     \/ /\ Made(1)
        /\ envs' = [envs EXCEPT ![Top.env].store[Here.name] = ret]
        /\ Give(Missing)
  /\ UNCHANGED <<suite, nodes, heap, search, status>>

eval_let_statement ==
  /\ In({"let"})
  /\ \/ Made(0) /\ Proceed /\ UNCHANGED envs
     \/ /\ Made(1)
        /\ IF is_error(ret) THEN Give(ret) /\ UNCHANGED envs
           ELSE /\ envs' = [envs EXCEPT ![Top.env].store[Here.name] = ret]
                /\ Give(Missing)
  /\ UNCHANGED <<suite, nodes, heap, search, status>>

(* Mutant: an error is returned like a value.                              *)
return_unchecked ==
  /\ In({"return"})
  /\ \/ Made(0) /\ Proceed
     \/ /\ Made(1)
        /\ ret.type = "return" => ret.layers < MaxLayers
        /\ Give(ReturnValue(ret))
  /\ KeepRest /\ UNCHANGED status

eval_return_statement ==
  /\ In({"return"})
  /\ \/ Made(0) /\ Proceed
     \/ /\ Made(1)
        /\ ret.type = "return" => ret.layers < MaxLayers
        /\ Give(IF is_error(ret) THEN ret ELSE ReturnValue(ret))
  /\ KeepRest /\ UNCHANGED status

eval_break_statement    == In({"break"}) /\ Run(Break) /\ KeepRest
eval_continue_statement == In({"continue"}) /\ Run(Continue) /\ KeepRest

----------------------------------------------------------------------------
(* Literals, identifiers, operators *)

eval_literal ==
  /\ In({"number", "string", "true", "false"})
  /\ Run(CASE Here.form = "number" -> Number
           [] Here.form = "string" -> String
           [] OTHER -> Boolean(Here.form = "true"))
  /\ KeepRest

(* The environment from each one outwards that has a value for a name, 0   *)
(* if none has: a variable whose value is NULL is passed over.             *)
Holders(environments, name) ==
  LET holder[d \in 0..Len(environments)] ==
        IF d = 0 THEN 0
        ELSE IF environments[d].store[name] # Missing THEN d
        ELSE holder[environments[d].outer]
  IN  holder

HolderIn(environments, e, name) == Holders(environments, name)[e]

env_get(environments, e, name) ==
  LET holder == HolderIn(environments, e, name)
  IN  IF holder = 0 THEN Missing ELSE environments[holder].store[name]

eval_identifier ==
  /\ In({"ident"})
  /\ LET value == env_get(envs, Top.env, Here.name)
     IN  Run(IF Here.name \in BuiltinNames THEN Builtin(Here.name)
             ELSE IF value = Missing THEN Error ELSE value)
  /\ KeepRest

Negation(v) ==
  CASE v.type = "boolean" -> {Boolean(~v.value)}
    [] v.type = "null"    -> {Boolean(TRUE)}
    [] v.type = "number"  -> {Boolean(TRUE), Boolean(FALSE)}
    [] OTHER              -> {Boolean(FALSE)}

eval_prefix_expression ==
  /\ In({"bang", "minus"})
  /\ \/ Made(0) /\ Proceed /\ UNCHANGED status
     \/ /\ Made(1)
        /\ IF ret = Missing THEN Die
           ELSE \E v \in IF is_error(ret) THEN {ret}
                         ELSE IF Here.form = "bang" THEN Negation(ret)
                         ELSE IF ret.type = "number" THEN {Number} ELSE {Error} :
                  Run(v)
  /\ KeepRest

AnyBoolean == {Boolean(TRUE), Boolean(FALSE)}

(* == and && on two objects of which one is a null compare addresses; two  *)
(* nulls may be two objects.                                               *)
InfixResults(op, l, r) ==
  LET both(type) == l.type = type /\ r.type = type
  IN  CASE both("number") ->
             IF op \in {"+", "%"} THEN {Number}
             ELSE IF op \in {"<", "=="} THEN AnyBoolean ELSE {Error}
        [] both("string") -> IF op = "+" THEN {String} ELSE {Error}
        [] both("boolean") ->
             CASE op = "==" -> {Boolean(l = r)}
               [] op = "&&" -> {Boolean(l.value /\ r.value)}
               [] OTHER -> {Error}
        [] "null" \in {l.type, r.type} ->
             CASE op = "==" -> IF both("null") THEN AnyBoolean ELSE {Boolean(FALSE)}
               [] op = "&&" -> {Boolean(FALSE)}
               [] OTHER -> {Error}
        [] OTHER -> {Error}

(* The right operand is evaluated first, and the left one in any case. A   *)
(* remainder by zero ends the process.                                     *)
eval_infix_expression ==
  /\ In({"infix"})
  /\ \/ Made(0) /\ Ask(Kid(2)) /\ UNCHANGED status
     \/ Made(1) /\ Ask(Kid(1)) /\ UNCHANGED status
     \/ /\ Made(2)
        /\ LET right == Top.vals[1] IN
           IF is_error(ret) THEN Run(ret)
           ELSE IF is_error(right) THEN Run(right)
           ELSE IF Missing \in {ret, right} THEN Die
           ELSE \/ \E v \in InfixResults(Here.name, ret, right) : Run(v)
                \/ Here.name = "%" /\ ret = Number /\ right = Number /\ Die
  /\ KeepRest

eval_if_expression ==
  /\ In({"if", "if_else"})
  /\ \/ Made(0) /\ Proceed
     \/ /\ Made(1)
        /\ IF is_error(ret) THEN Give(ret)
           ELSE IF is_truthy(ret) THEN Proceed
           ELSE IF Here.form = "if_else" THEN Enter(Kid(3), Top.env, 2, <<>>)
           ELSE Give(Missing)
     \/ Made(2) /\ Give(ret)
  /\ KeepRest /\ UNCHANGED status

----------------------------------------------------------------------------
(* Functions *)

eval_function_literal ==
  /\ In({"function"})
  /\ Run(Function(Top.node, Top.env))
  /\ KeepRest

NewContainer(type, elements) ==
  /\ Len(heap) < MaxArrays
  /\ heap' = Append(heap, elements)
  /\ Run(Container(type, Len(heap) + 1))

Plain(v) == Run(v) /\ UNCHANGED heap

(* What a built-in function does with its arguments.                       *)
CallBuiltin(fn, args) ==
  LET n == Len(args)
      elements == heap[args[1].ref]
  IN  IF n # (IF fn \in {"push", "shift"} THEN 2 ELSE IF fn = "puts" /\ n > 0 THEN n ELSE 1)
      THEN Plain(Error)
      ELSE IF \E i \in 1..n : args[i] = Missing THEN Die /\ UNCHANGED heap
      ELSE IF fn = "puts" THEN Plain(Null)
      ELSE IF fn = "len" /\ args[1].type = "string" THEN Plain(Number)
      ELSE IF args[1].type # "array" THEN Plain(Error)
      ELSE IF fn \in {"first", "last", "rest"} /\ elements = <<>> THEN Plain(Null)
      ELSE CASE fn = "len"   -> Plain(Number)
             [] fn = "push"  -> NewContainer("array", elements \o <<args[2]>>)
             [] fn = "shift" -> NewContainer("array", <<args[2]>> \o elements)
             [] fn = "first" -> Plain(elements[1])
             [] fn = "last"  -> Plain(elements[Len(elements)])
             [] fn = "rest"  -> NewContainer("array", Tail(elements))

Parameters(fn, args) ==
  [n \in Names |-> IF nodes[fn.node].name = n THEN args[1] ELSE Missing]

(* Mutant: the environment of the caller is extended.                      *)
extend_caller_env(fn, args) == NewEnvironment(Top.env, Parameters(fn, args), fn.node)

(* The new environment is inside the one the function literal was          *)
(* evaluated in.                                                           *)
extend_function_env(fn, args) == NewEnvironment(fn.env, Parameters(fn, args), fn.node)

(* apply_function, up to the evaluation of the body.                       *)
ApplyFunction(fn, args) ==
  IF Len(args) # (IF nodes[fn.node].name = NULL THEN 0 ELSE 1)
  THEN Run(Error) /\ UNCHANGED envs
  ELSE /\ extend_function_env(fn, args)
       /\ Enter(nodes[fn.node].kids[1], Len(envs) + 1, Top.at + 1, <<>>)
       /\ UNCHANGED status

(* One call of eval per function and argument.  After an error among the   *)
(* arguments, the bytes of an uninitialised object are returned.           *)
eval_function_call ==
  LET n == Len(Here.kids)
      fn == Got[1]
      args == Tail(Got)
  IN  /\ In({"call"})
      /\ \/ /\ Top.at < n
            /\ IF Top.at > 0 /\ is_error(ret)
               THEN IF Made(1) THEN Run(ret) ELSE Die
               ELSE Proceed /\ UNCHANGED status
            /\ UNCHANGED <<envs, heap>>
         \/ /\ Made(n)
            /\ IF is_error(ret) THEN (IF n = 1 THEN Run(ret) ELSE Die) /\ UNCHANGED <<envs, heap>>
               ELSE IF fn = Missing THEN Die /\ UNCHANGED <<envs, heap>>
               ELSE CASE fn.type = "builtin"  -> CallBuiltin(fn.fn, args) /\ UNCHANGED envs
                      [] fn.type = "function" -> ApplyFunction(fn, args) /\ UNCHANGED heap
                      [] OTHER -> Run(Error) /\ UNCHANGED <<envs, heap>>
         \/ /\ Made(n + 1)
            /\ IF ret = Missing THEN Die ELSE Run(unwrap_return_value(ret))
            /\ UNCHANGED <<envs, heap>>
      /\ UNCHANGED <<suite, nodes, search>>

----------------------------------------------------------------------------
(* Arrays and hashes *)

eval_array_literal ==
  /\ In({"array"})
  /\ IF Top.at > 0 /\ is_error(ret) THEN Plain(ret)
     ELSE IF Top.at < Len(Here.kids) THEN Proceed /\ UNCHANGED <<heap, status>>
     ELSE NewContainer("array", Got)
  /\ UNCHANGED <<suite, nodes, envs, search>>

(* get_hash_key gives -1 for what cannot be a key, but also for -1 and for *)
(* a string with this checksum.                                            *)
Hashable(v)    == v.type \in {"number", "string", "boolean"}
MayBeNoKey(v)  == v.type # "boolean"

(* Keys and values in turn; only the values are kept, in the order of the  *)
(* pairs.                                                                  *)
eval_hash_literal ==
  LET is_key == Top.at % 2 = 1
      values == [i \in 1..(Len(Got) \div 2) |-> Got[2 * i]]
  IN  /\ In({"hash"})
      /\ IF Top.at > 0 /\ is_error(ret) THEN Plain(ret)
         ELSE IF is_key /\ ret = Missing THEN Die /\ UNCHANGED heap
         ELSE \/ is_key /\ MayBeNoKey(ret) /\ Plain(Error)
              \/ /\ is_key => Hashable(ret)
                 /\ IF Top.at < Len(Here.kids) THEN Proceed /\ UNCHANGED <<heap, status>>
                    ELSE NewContainer("hash", values)
      /\ UNCHANGED <<suite, nodes, envs, search>>

(* The value of an index is left open.  The last index of an array is its  *)
(* length minus one, unsigned: every index is within an empty array.       *)
ArrayIndexing(elements) ==
  \/ Run(Null)
  \/ \E i \in DOMAIN elements : Run(elements[i])
  \/ elements = <<>> /\ Die

eval_index_expression ==
  LET left == Top.vals[1] IN
  /\ In({"index"})
  /\ \/ /\ Made(0) /\ Proceed /\ UNCHANGED status
     \/ /\ Made(1)
        /\ IF ret = Missing THEN Die
           ELSE IF ret.type \in {"array", "hash"} THEN Proceed /\ UNCHANGED status
           ELSE Run(Error)
     \/ /\ Made(2)
        /\ IF ret = Missing THEN Die
           ELSE IF left.type = "array"
                THEN IF ret.type = "number" THEN ArrayIndexing(heap[left.ref]) ELSE Run(Error)
           ELSE \/ MayBeNoKey(ret) /\ Run(Error)
                \/ /\ Hashable(ret)
                   /\ \E v \in {Null} \cup {heap[left.ref][i] : i \in DOMAIN heap[left.ref]} : Run(v)
  /\ KeepRest

----------------------------------------------------------------------------
(* Loops *)

(* A part of a loop, 0 if it is left out.                                  *)
Part(role) ==
  LET parts == {i \in DOMAIN Here.kids : nodes[Kid(i)].role = role}
  IN  IF parts = {} THEN 0 ELSE Kid(CHOOSE i \in parts : TRUE)

Condition == Part("operand")
Body      == Part("block")
Update    == Part("statement")

(* A loop goes on at another step, or calls eval in its own environment.   *)
GoTo(at, inner, vals) ==
  /\ frames' = [frames EXCEPT ![depth] = [@ EXCEPT !.at = at, !.inner = inner, !.vals = vals]]
  /\ ret' = Nothing

EnterInner(n, at) == Enter(n, Top.inner, at, Top.vals)

(* eval_while_loop and eval_for_loop make an environment; the latter runs  *)
(* the initialization in it.                                               *)
StartLoop ==
  LET inner == Len(envs) + 1
      init  == Part("let")
  IN  /\ In(Loops) /\ Made(0)
      /\ NewEnvironment(Top.env, NoNames, Top.node)
      /\ IF init = 0 THEN GoTo(1, inner, <<>>)
         ELSE /\ frames' = Append([frames EXCEPT ![depth].at = 1, ![depth].inner = inner],
                                  Frame(init, inner))
              /\ ret' = Nothing
      /\ UNCHANGED <<suite, nodes, heap, search, status>>

(* Before the first iteration the condition is evaluated once more, to see *)
(* whether it is a boolean.  If not, it is freed: a static object too, and *)
(* one that a variable, an array or a hash still holds, which says nothing *)
(* more of a run that reads it again.                                      *)
CheckCondition ==
  /\ In(Loops)
  /\ \/ /\ Made(1)
        /\ IF Condition = 0 THEN GoTo(3, Top.inner, <<>>) ELSE EnterInner(Condition, 2)
        /\ UNCHANGED status
     \/ /\ Made(2)
        /\ CASE ret = Missing -> Die
             [] ret.type = "boolean" -> GoTo(3, Top.inner, <<>>) /\ UNCHANGED status
             [] ret.type = "builtin" -> Die
             [] OTHER -> Run(Error) \/ Die
  /\ KeepRest

(* Anything but true ends the loop, an error too.  Its value is that of    *)
(* the last iteration.                                                     *)
TestCondition ==
  /\ In(Loops)
  /\ \/ /\ Made(3)
        /\ IF Condition = 0 THEN EnterInner(Body, 5) ELSE EnterInner(Condition, 4)
        /\ UNCHANGED status
     \/ /\ Made(4)
        /\ IF ret = Boolean(TRUE) THEN EnterInner(Body, 5) /\ UNCHANGED status
           ELSE IF Top.vals = <<>> THEN GiveUninitialised
           ELSE Run(Top.vals[1])
  /\ KeepRest

(* A break or return object ends the loop and is its value; a continue     *)
(* skips the update; an error is a value like any other.                   *)
EndIteration ==
  /\ In(Loops)
  /\ \/ /\ Made(5)
        /\ CASE ret.type \in {"return", "break"} -> Give(ret)
             [] ret.type = "continue" -> GoTo(3, Top.inner, <<ret>>)
             [] OTHER -> IF Update = 0 THEN GoTo(3, Top.inner, <<ret>>)
                         ELSE Enter(Update, Top.inner, 6, <<ret>>)
     \/ Made(6) /\ GoTo(3, Top.inner, Top.vals)
  /\ KeepRest /\ UNCHANGED status

----------------------------------------------------------------------------
(* Assignments *)

StartReassignment ==
  /\ In({"reassign", "reassign_index", "reassign_element"})
  /\ \/ Made(0) /\ Proceed /\ UNCHANGED search
     \/ /\ Made(1)
        /\ IF Here.form = "reassign_element" THEN Proceed /\ UNCHANGED search
           ELSE /\ GoTo(2, 0, <<ret>>)
                /\ search' = <<[env |-> Top.env, level |-> 0]>>
  /\ UNCHANGED <<suite, nodes, envs, heap, status>>

(* The environments that many levels outwards, as far as there are any.    *)
Outer(environments, e) ==
  LET at[l \in 0..MaxEnvs] == IF l = 0 THEN e
                              ELSE IF at[l - 1] = 0 THEN 0
                              ELSE environments[at[l - 1]].outer
  IN  at

Outwards(e, level) == Outer(envs, e)[level]

(* Mutant: the level is ignored.                                           *)
set_ident_here(name, e, level, value) ==
  envs' = [envs EXCEPT ![e].store[name] = value]

set_ident(name, e, level, value) ==
  envs' = [envs EXCEPT ![Outwards(e, level)].store[name] = value]

(* The index is a number literal; one that is too large fails an assertion.*)
AssignElement(array, value) ==
  \/ /\ \E i \in DOMAIN heap[array.ref] : heap' = [heap EXCEPT ![array.ref][i] = value]
     /\ Run(array)
  \/ Die /\ UNCHANGED heap

(* What is done with the value that was found.                             *)
Reassign(found, level) ==
  IF Here.form = "reassign"
  THEN set_ident(Here.name, Top.env, level, Top.vals[1]) /\ Plain(Missing)
  ELSE /\ IF found.type = "array" THEN AssignElement(found, Top.vals[1]) ELSE Plain(Error)
       /\ UNCHANGED envs

(* Mutant: the search stays where it started.                              *)
SearchedAgain == Top.env

SearchedNext == envs[Top.env].outer

(* One turn of the loop of resolve_ident, and what follows it.  The search *)
(* goes on at the environment around the first one, whichever it has just  *)
(* looked at.  The level counts on: here from 1 again after MaxEnvs, as no *)
(* level is used if there is nothing to find at the first two.             *)
resolve_ident ==
  LET here  == search[1]
      found == envs[here.env].store[Here.name]
      outer == SearchedNext
  IN  /\ In({"reassign", "reassign_index"}) /\ Made(2)
      /\ IF found # Missing
         THEN Reassign(found, here.level) /\ search' = <<>>
         ELSE /\ IF outer = 0 THEN Run(Error) /\ search' = <<>>
                 ELSE /\ search' = <<[env |-> outer,
                                      level |-> IF here.level = MaxEnvs THEN 1
                                                ELSE here.level + 1]>>
                      /\ UNCHANGED <<frames, ret, status>>
              /\ UNCHANGED <<envs, heap>>
      /\ UNCHANGED <<suite, nodes>>

(* [1, 2][0] = 3: an error among the elements is taken for an array.       *)
ReassignElement ==
  /\ In({"reassign_element"}) /\ Made(2)
  /\ IF is_error(ret) THEN Die /\ UNCHANGED heap ELSE AssignElement(ret, Top.vals[1])
  /\ UNCHANGED <<suite, nodes, envs, search>>

----------------------------------------------------------------------------
Next ==
  \/ Meet \/ MeetStatement
  \/ eval_program \/ eval_block_statement
  \/ eval_let_statement \/ eval_return_statement
  \/ eval_break_statement \/ eval_continue_statement
  \/ eval_literal \/ eval_identifier
  \/ eval_prefix_expression \/ eval_infix_expression \/ eval_if_expression
  \/ eval_function_literal \/ eval_function_call
  \/ eval_array_literal \/ eval_hash_literal \/ eval_index_expression
  \/ StartLoop \/ CheckCondition \/ TestCondition \/ EndIteration
  \/ StartReassignment \/ resolve_ident \/ ReassignElement

Spec == Init /\ [][Next]_vars

(* The interpreter runs until it is done: one thread, nothing to wait for. *)
FairSpec == Spec /\ WF_vars(Next)

----------------------------------------------------------------------------
(* Properties *)

Objects(n, e) ==
  {Number, String, Null, Error, Break, Continue, Missing}
  \cup {Boolean(b) : b \in BOOLEAN} \cup {Builtin(b) : b \in BuiltinNames}
  \cup {Function(m, d) : m \in 1..n, d \in 1..e}
  \cup {Container(t, r) : t \in {"array", "hash"}, r \in DOMAIN heap}

(* The state is well-formed: every node, environment and array that is     *)
(* referred to exists, environments are made inside older ones, and no     *)
(* error is in the wrapper of a returned value.                            *)
TypeOK ==
  LET known == Objects(Len(nodes), Len(envs))
      returned == known \cup {Wrapped(v, l) : v \in known \ {Error}, l \in 1..MaxLayers}
  IN  /\ \A e \in DOMAIN envs :
           /\ envs[e].outer \in 0..(e - 1) /\ envs[e].of \in 0..Len(nodes)
           /\ \A n \in Names : envs[e].store[n] \in returned
      /\ \A r \in DOMAIN heap : \A i \in DOMAIN heap[r] : heap[r][i] \in returned
      /\ \A i \in DOMAIN frames :
           /\ frames[i].node \in DOMAIN nodes /\ frames[i].env \in DOMAIN envs
           /\ frames[i].inner \in 0..Len(envs)
           /\ \A j \in DOMAIN frames[i].vals : frames[i].vals[j] \in returned
      /\ ret \in returned \cup {Nothing}
      /\ status \in {"running", "done", "dead"}

(* The loops and functions whose evaluation has made the environments from *)
(* each one outwards, outermost first.                                     *)
Makers(environments) ==
  LET made[d \in 0..Len(environments)] ==
        IF d <= 1 THEN <<>>
        ELSE Append(made[environments[d].outer], environments[d].of)
  IN  made

MadeBy(environments, e) == Makers(environments)[e]

(* Scoping is lexical: whatever calls led here, a piece of the program is  *)
(* evaluated in a chain of environments made by exactly the loops and      *)
(* functions around it in the text, and a function value holds the chain   *)
(* of the place where it is written (fn->env, evaluator.c:354).            *)
LexicalEnvironments ==
  /\ \A i \in DOMAIN frames :
       LET n == frames[i].node IN
       /\ MadeBy(envs, frames[i].env) = nodes[n].within
       /\ frames[i].inner # 0 => MadeBy(envs, frames[i].inner) = Append(nodes[n].within, n)
  /\ \A e \in DOMAIN envs : \A name \in Names :
       LET v == envs[e].store[name] IN
       v.type = "function" => MadeBy(envs, v.env) = nodes[v.node].within

(* An assignment reaches the variable that reads reach: env_get walks the  *)
(* environments on its own, resolve_ident and set_ident by counting        *)
(* levels, and afterwards every read that finds this variable gives the    *)
(* new value, while every other one gives what it gave before.  With NULL  *)
(* for a value the reads go on outwards.                                   *)
AssignsWhereRead ==
  [][LET name == Here.name
         target == HolderIn(envs, Top.env, name)
     IN  /\ In({"reassign"}) /\ search # <<>> /\ search' = <<>> /\ ret' = Missing
         => \A e \in DOMAIN envs : \A n \in Names :
              env_get(envs', e, n) =
                IF n = name /\ HolderIn(envs, e, n) = target
                THEN IF Top.vals[1] # Missing THEN Top.vals[1]
                     ELSE env_get(envs, envs[target].outer, n)
                ELSE env_get(envs, e, n)]_vars

(* How the program met so far can have an error, or a break, a continue or *)
(* a return object, stored: no assignment looks at its value, no if or     *)
(* loop in the place of a value at what its block returns, and no call at  *)
(* a break or continue of the function, which a loop of its own passes on. *)
Assigned(name)   == \E n \in DOMAIN nodes : nodes[n].form = "reassign" /\ nodes[n].name = name
ElementAssigned  ==
  \E n \in DOMAIN nodes : nodes[n].form \in {"reassign_index", "reassign_element"}
BlockAsOperand   ==
  \E n \in DOMAIN nodes : nodes[n].form \in Control /\ nodes[n].role = "operand"
JumpInFunction   ==
  \E n \in DOMAIN nodes : nodes[n].form \in {"break", "continue"} /\ InFunction(n)

Excused(v) ==
  CASE v.type = "return" -> BlockAsOperand
    [] v.type \in {"break", "continue"} -> BlockAsOperand \/ JumpInFunction
    [] OTHER -> TRUE

(* What tells a caller how a statement ended becomes the value of a        *)
(* variable, an array or a hash in no other way: let, parameters, array    *)
(* and hash literals and the built-in functions never store an error, and  *)
(* a call takes the wrapper off what the function returned.                *)
JumpsAreExcused ==
  /\ \A e \in DOMAIN envs : \A n \in Names :
       /\ is_error(envs[e].store[n]) => Assigned(n)
       /\ Excused(envs[e].store[n])
  /\ \A r \in DOMAIN heap : \A i \in DOMAIN heap[r] :
       /\ is_error(heap[r][i]) => ElementAssigned
       /\ Excused(heap[r][i])

(* The search is for a name that neither the environment where it started  *)
(* nor the one around that has.                                            *)
Astray ==
  /\ search # <<>>
  /\ LET outer == envs[Top.env].outer
     IN  /\ envs[Top.env].store[Here.name] = Missing
         /\ outer # 0 /\ envs[outer].store[Here.name] = Missing

(* The interpreter is kept busy for ever by a loop, which tests its        *)
(* condition again and again, or by the search for a variable that is not  *)
(* in the nearest two environments (evaluator.c:687), and by nothing else: *)
(* any other run ends, or meets a bound of the model.                      *)
OnlyLoopsDiverge ==
  <>(~ENABLED Next) \/ []<>(In(Loops) /\ Made(3)) \/ <>[]Astray

(* The search for the variable of an assignment ends (resolve_ident walks  *)
(* outwards until it finds the name or there is no environment left).      *)
SearchEnds == search # <<>> ~> search = <<>>

=============================================================================
