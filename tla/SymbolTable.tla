---------------------------- MODULE SymbolTable ----------------------------
(***************************************************************************)
(* The compiler's symbol tables (src/src/compiler/symbol_table.c).         *)
(*                                                                         *)
(* A table is opened for every function literal and every loop body and    *)
(* closed when that body has been compiled, so the live tables form a      *)
(* stack: tables[1] is the global table, tables[Len(tables)] the current   *)
(* one and table i is the `outer` of table i+1.  Looking up a name that    *)
(* belongs to an enclosing function rewrites every table in between: each  *)
(* of them records that it captures the symbol from the table around it.   *)
(*                                                                         *)
(* The operators below take and return a stack of tables so that the       *)
(* compiler's module can use them inside its own actions.                  *)
(***************************************************************************)
EXTENDS Naturals, Sequences

CONSTANTS
  Names,     \* identifiers a program may use
  Builtins,  \* names of the built-in functions
  Position,  \* the place of each of them in builtin_definitions
  NULL,      \* what a failed lookup returns
  MaxDefs,   \* bound: definitions in one table
  MaxDepth   \* bound: tables open at once

ASSUME BuiltinsAssumption ==
  /\ Builtins \subseteq Names
  /\ Position \in [Builtins -> Nat]
ASSUME BoundsAssumption   == MaxDefs \in Nat /\ MaxDepth \in Nat

Scopes == {"GLOBAL", "LOCAL", "BUILTIN", "FREE", "FUNCTION"}

Symbol == [name: Names, scope: Scopes, index: Nat]

ASSUME NullAssumption == NULL \notin Symbol

(* A table: the hash map from names, the number of slots given out and the *)
(* symbols captured from the enclosing table, in order of capture.         *)
Table == [store: [Names -> Symbol \cup {NULL}],
          num_definitions: Nat,
          free_symbols: Seq(Symbol)]

----------------------------------------------------------------------------
(* Operations on one table *)

EmptyTable == [store           |-> [n \in Names |-> NULL],
               num_definitions |-> 0,
               free_symbols    |-> <<>>]

MkSymbol(name, scope, index) ==
  [name |-> name, scope |-> scope, index |-> index]

Put(table, symbol) == [table EXCEPT !.store[symbol.name] = symbol]

(* Mutant: the index is taken when the symbol has been added.              *)
define_free_after(table, original) ==
  LET captured == MkSymbol(original.name, "FREE", Len(table.free_symbols) + 1)
  IN  [Put(table, captured) EXCEPT
         !.free_symbols = Append(@, original)]

(* Mutant: the table does not remember the name.                           *)
define_free_only(table, original) ==
  [table EXCEPT !.free_symbols = Append(@, original)]

(* Captures `original`, a symbol of the enclosing table.                   *)
define_free(table, original) ==
  LET captured == MkSymbol(original.name, "FREE", Len(table.free_symbols))
  IN  [Put(table, captured) EXCEPT
         !.free_symbols = Append(@, original)]

(* The table every compilation starts with: symbol_define_builtin has been *)
(* called for each built-in function, with its position as the index.      *)
GlobalTable ==
  [EmptyTable EXCEPT
     !.store = [n \in Names |->
                  IF n \in Builtins THEN MkSymbol(n, "BUILTIN", Position[n])
                                    ELSE NULL]]

----------------------------------------------------------------------------
(* Operations on the stack of tables *)

Top(ts) == ts[Len(ts)]

new_enclosed_symbol_table(ts) == Append(ts, EmptyTable)

(* Mutant: the outer table is freed as well.                               *)
free_both_tables(ts) == SubSeq(ts, 1, Len(ts) - 2)

free_symbol_table(ts) == SubSeq(ts, 1, Len(ts) - 1)

(* The symbol symbol_define creates: a name that is defined again gets a   *)
(* new slot, the one it had stays taken.                                   *)
Defined(ts, name) ==
  MkSymbol(name, IF Len(ts) = 1 THEN "GLOBAL" ELSE "LOCAL",
           Top(ts).num_definitions)

(* Mutant: the slots are not counted.                                      *)
symbol_define_uncounted(ts, name) ==
  [ts EXCEPT ![Len(ts)] = Put(Top(ts), Defined(ts, name))]

(* Mutant: a name that is defined here needs no capture any more.          *)
symbol_define_uncaptured(ts, name) ==
  [ts EXCEPT ![Len(ts)] =
     [Put(Top(ts), Defined(ts, name)) EXCEPT
        !.num_definitions = @ + 1,
        !.free_symbols = SelectSeq(@, LAMBDA s : s.name # name)]]

symbol_define(ts, name) ==
  [ts EXCEPT ![Len(ts)] =
     [Put(Top(ts), Defined(ts, name)) EXCEPT !.num_definitions = @ + 1]]

symbol_define_function_name(ts, name) ==
  [ts EXCEPT ![Len(ts)] = Put(Top(ts), MkSymbol(name, "FUNCTION", 0))]

(* The tables that know a name, and the innermost of them: where the       *)
(* recursion of symbol_resolve ends.                                       *)
Knowing(ts, name) == {i \in 1..Len(ts) : ts[i].store[name] # NULL}

(* Mutant: the outermost of them.                                          *)
IsOutermost(ts, name, k) ==
  k \in Knowing(ts, name) /\ \A i \in Knowing(ts, name) : k <= i

IsHolder(ts, name, k) ==
  k \in Knowing(ts, name) /\ \A i \in Knowing(ts, name) : i <= k

Holder(ts, name) == CHOOSE k \in Knowing(ts, name) : IsHolder(ts, name, k)

(* Globals and built-ins are reachable from everywhere and never captured. *)
Capturable(symbol) == symbol.scope \notin {"GLOBAL", "BUILTIN"}

(* What the call of symbol_resolve on table i returns, for i at or above   *)
(* the holder.                                                             *)
ResolvedAt(ts, name, i) ==
  LET k == Holder(ts, name)
      found == ts[k].store[name]
  IN  IF i = k \/ ~Capturable(found)
      THEN found
      ELSE MkSymbol(name, "FREE", Len(ts[i].free_symbols))

symbol_resolve(ts, name) ==
  IF Knowing(ts, name) = {} THEN NULL ELSE ResolvedAt(ts, name, Len(ts))

(* Mutant: every table captures the symbol of the holder.                  *)
TablesAfterCapture(ts, name) ==
  IF Knowing(ts, name) = {} THEN ts
  ELSE LET k == Holder(ts, name)
       IN  IF ~Capturable(ts[k].store[name]) THEN ts
           ELSE [i \in 1..Len(ts) |->
                   IF i <= k THEN ts[i] ELSE define_free(ts[i], ts[k].store[name])]

(* The tables after the call: each table above the holder has captured     *)
(* what the call on the table around it returned.                          *)
TablesAfterResolve(ts, name) ==
  IF Knowing(ts, name) = {} THEN ts
  ELSE LET k == Holder(ts, name)
       IN  IF ~Capturable(ts[k].store[name]) THEN ts
           ELSE [i \in 1..Len(ts) |->
                   IF i <= k THEN ts[i]
                   ELSE define_free(ts[i], ResolvedAt(ts, name, i - 1))]

----------------------------------------------------------------------------
(* The tables as the compiler drives them *)

VARIABLES
  tables,   \* the open tables, outermost first
  resolved  \* what the last operation returned, if it was a lookup

vars == <<tables, resolved>>

Init ==
  /\ tables = <<GlobalTable>>
  /\ resolved = NULL

(* let statement, parameter                                                *)
Define(name) ==
  /\ Top(tables).num_definitions < MaxDefs
  /\ tables' = symbol_define(tables, name)
  /\ resolved' = NULL

(* identifier expression, reassignment                                     *)
Resolve(name) ==
  /\ tables' = TablesAfterResolve(tables, name)
  /\ resolved' = symbol_resolve(tables, name)

(* loop body, function literal that no let names                           *)
EnterScope ==
  /\ Len(tables) < MaxDepth
  /\ tables' = new_enclosed_symbol_table(tables)
  /\ resolved' = NULL

(* function literal that a let names: the name is known inside it          *)
EnterFunction(name) ==
  /\ Len(tables) < MaxDepth
  /\ tables' = symbol_define_function_name(new_enclosed_symbol_table(tables),
                                           name)
  /\ resolved' = NULL

(* end of a function or loop body                                          *)
LeaveScope ==
  /\ Len(tables) > 1
  /\ tables' = free_symbol_table(tables)
  /\ resolved' = NULL

Next ==
  \/ \E name \in Names : Define(name) \/ Resolve(name) \/ EnterFunction(name)
  \/ EnterScope
  \/ LeaveScope

Spec == Init /\ [][Next]_vars

----------------------------------------------------------------------------
(* Properties *)

(* Every table is a table and there is always a global one; the result of  *)
(* a lookup is a symbol or NULL (symbol_table.h).                          *)
TypeOK ==
  /\ tables \in Seq(Table)
  /\ Len(tables) >= 1
  /\ resolved \in Symbol \cup {NULL}

(* The scopes a symbol of table i may have.                                *)
ScopesAt(i) == IF i = 1 THEN {"GLOBAL", "BUILTIN"}
                        ELSE {"LOCAL", "FREE", "FUNCTION"}

(* `symbol` names something the table really has: a slot it gave out, or   *)
(* an entry of its capture list, one that is about the same name.          *)
HasSlot(table, symbol) ==
  /\ symbol.scope \in {"GLOBAL", "LOCAL"} =>
       symbol.index < table.num_definitions
  /\ symbol.scope = "FREE" =>
       /\ symbol.index < Len(table.free_symbols)
       /\ table.free_symbols[symbol.index + 1].name = symbol.name

(* Everything a table's map holds can be emitted as an operand in code of  *)
(* that table: the slot or the capture it stands for exists (load_symbol,  *)
(* compiler.c).                                                            *)
StoreSoundIn(table) ==
  \A n \in Names : table.store[n] # NULL =>
    /\ table.store[n].name = n
    /\ HasSlot(table, table.store[n])

ScopesSound(ts) ==
  \A i \in 1..Len(ts), n \in Names :
    ts[i].store[n] # NULL => ts[i].store[n].scope \in ScopesAt(i)

StoreSound ==
  /\ \A i \in 1..Len(tables) : StoreSoundIn(tables[i])
  /\ ScopesSound(tables)

(* Every captured symbol is one the enclosing table has, so when the body  *)
(* ends and the enclosing function loads the captured variables to build   *)
(* the closure, each load reads an existing slot of that function; globals *)
(* and built-ins are never captured.                                       *)
ChainSound(ts) ==
  \A i \in 2..Len(ts) : \A k \in 1..Len(ts[i].free_symbols) :
    /\ Capturable(ts[i].free_symbols[k])
    /\ ts[i].free_symbols[k].scope \in ScopesAt(i - 1)
    /\ HasSlot(ts[i - 1], ts[i].free_symbols[k])

CaptureChain == ChainSound(tables)

(* No name is captured twice by one table, although let may shadow a       *)
(* captured name and inner functions may look it up again.  free_symbols   *)
(* has room for 100 entries and define_free does not check: this is what   *)
(* bounds it by the number of distinct names.                              *)
CaptureOnceIn(table) ==
  \A j, k \in 1..Len(table.free_symbols) :
    table.free_symbols[j].name = table.free_symbols[k].name => j = k

CaptureOnce == \A i \in 1..Len(tables) : CaptureOnceIn(tables[i])

(* Two names of one table never share a slot (symbol_define's counter is   *)
(* never given back, captures do not consume it).                          *)
SlotsInjectiveIn(table) ==
  \A m, n \in Names :
    LET s == table.store[m]
        t == table.store[n]
    IN  /\ m # n
        /\ s # NULL
        /\ t # NULL
        /\ s.scope = t.scope
        /\ s.scope \in {"GLOBAL", "LOCAL", "FREE"}
        => s.index # t.index

SlotsInjective == \A i \in 1..Len(tables) : SlotsInjectiveIn(tables[i])

(* Table `later` still has every slot and every capture of `table`.        *)
Extends(table, later) ==
  /\ later.num_definitions >= table.num_definitions
  /\ Len(later.free_symbols) >= Len(table.free_symbols)
  /\ \A k \in 1..Len(table.free_symbols) :
       later.free_symbols[k] = table.free_symbols[k]

(* A table that stays open keeps every slot and every capture it has given *)
(* out: operands the compiler has already emitted stay right.              *)
SlotsKept ==
  [][\A i \in 1..Len(tables) :
       i \in 1..Len(tables') => Extends(tables[i], tables'[i])]_vars

----------------------------------------------------------------------------
(* What the tables stand for: the refinement of LexicalScope *)

(* The definition a symbol of table i stands for, found by following the   *)
(* captures outwards.                                                      *)
Captured(ts, i, symbol) ==
  symbol.scope = "FREE" /\ i > 1 /\ symbol.index < Len(ts[i].free_symbols)

Meaning(ts) ==
  LET meaning[i \in 1..Len(ts)] ==
        [symbol \in Symbol |->
           IF Captured(ts, i, symbol)
           THEN meaning[i - 1][ts[i].free_symbols[symbol.index + 1]]
           ELSE [level |-> IF Capturable(symbol) THEN i ELSE 1,
                 scope |-> symbol.scope,
                 index |-> symbol.index]]
  IN  meaning

(* What each name means in the code of table i.                            *)
Visible(ts, i, name) ==
  LET known == {j \in 1..i : ts[j].store[name] # NULL}
      k     == CHOOSE j \in known : \A l \in known : l <= j
  IN  IF known = {} THEN NULL ELSE Meaning(ts)[k][ts[k].store[name]]

Lexical == INSTANCE LexicalScope WITH
  env    <- [i \in 1..Len(tables) |-> [n \in Names |-> Visible(tables, i, n)]],
  defs   <- [i \in 1..Len(tables) |-> tables[i].num_definitions],
  answer <- IF resolved = NULL THEN NULL ELSE Meaning(tables)[Len(tables)][resolved]

(* The tables implement lexical scoping: captures, shadowing and           *)
(* redefinition never change what a name means at any open level, and      *)
(* following the captures of the symbol symbol_resolve returns leads to    *)
(* the definition the program's text says.                                 *)
LexicalScoping == Lexical!Spec

============================================================================
