------------------------------ MODULE Session ------------------------------
(***************************************************************************)
(* The read-eval-print loop (src/src/repl/repl.c), over Parser.            *)
(*                                                                         *)
(* What survives a line is the point: the parser's flag, and for the       *)
(* compiler the symbol table and the globals.  The bytecode of a line is   *)
(* the indexes of the globals it sets: a let sets the one its name was     *)
(* defined with, an assignment the one its name has; a function that a     *)
(* line has compiled sets what it sets in later lines as well.  An object  *)
(* is an address: which one is set is left open, and what is in it is      *)
(* Machine's matter, as the interpreter's environment is Evaluator's.      *)
(***************************************************************************)
EXTENDS Parser

CONSTANTS
  Names,        \* the names that lines define and assign
  Objects,      \* the addresses of objects
  GLOBALS_SIZE  \* vm.h:9, and what the two bytes of an operand can tell apart

ASSUME GlobalsSizePositive == GLOBALS_SIZE \in Nat \ {0}
ASSUME NullIsNoNumber == NULL \notin Nat

VARIABLES
  mode,         \* the ReplMode of the command line
  phase,        \* where the loop is
  at,           \* statements of the line that have been dealt with
  table,        \* SymbolTable: name to index
  definitions,  \* its num_definitions
  globals,      \* the REPL's array; NULL where nothing has been set
  lets,         \* the line's bytecode: indexes its statements define, to be set
  stores,       \* and indexes that its blocks, loops and functions may set
  functions,    \* indexes that functions of earlier lines may set
  vm_globals,   \* the machine's copy of globals, while it runs
  promised,     \* history: the object that a name was last given
  pending       \* history: the same, as it will be if this line succeeds

sessionVars ==
  <<mode, phase, at, table, definitions, globals, lets, stores, functions,
    vm_globals, promised, pending>>
replVars == <<parserVars, sessionVars>>

Slot(index) == index % GLOBALS_SIZE
Slots == 0 .. GLOBALS_SIZE - 1

----------------------------------------------------------------------------
(* The machine and the bytecode of the line are gone: the loop reads the   *)
(* next line, unless what it prints last has killed the process.           *)
Leave(next) ==
  /\ phase' = next
  /\ at' = 0
  /\ lets' = {} /\ stores' = {}
  /\ vm_globals' = <<>> /\ pending' = <<>>

Remaining == at < Len(program)
Statement == program[at + 1]

start_repl(m) ==
  /\ mode = "none"
  /\ mode' = m
  /\ UNCHANGED <<parserVars, phase, at, table, definitions, globals, lets, stores,
                 functions, vm_globals, promised, pending>>

(* A line is read and parsed.                                              *)
read_input ==
  /\ phase = "prompt" /\ mode # "none"
  /\ new_parser
  /\ phase' = "parse"
  /\ UNCHANGED <<mode, at, table, definitions, globals, lets, stores, functions,
                 vm_globals, promised, pending>>

parse_line ==
  /\ phase = "parse"
  /\ \/ parse
     \/ status = "running" /\ parse_program /\ UNCHANGED lineVars
  /\ UNCHANGED sessionVars

(* The parse is over: errors are printed; otherwise the line goes where    *)
(* the mode says.  Modes the REPL has no use for do nothing with it.       *)
start_line ==
  /\ phase = "parse" /\ frames = <<>> /\ status = "running"
  /\ phase' = IF errors \/ mode \notin {"interpret", "compile"} THEN "prompt" ELSE mode
  /\ UNCHANGED <<parserVars, mode, at, table, definitions, globals, lets, stores,
                 functions, vm_globals, promised, pending>>

(* eval_program, a statement at a time: a statement that fails ends the    *)
(* line, and one that follows a freed object the process.                  *)
interpret ==
  /\ phase = "interpret"
  /\ \/ Remaining /\ at' = at + 1 /\ UNCHANGED phase
     \/ at' = 0 /\ phase' \in {"prompt", "dead"}
  /\ UNCHANGED <<parserVars, mode, table, definitions, globals, lets, stores, functions,
                 vm_globals, promised, pending>>

(* symbol_define: a new index, also for a name that has one.  Nothing has  *)
(* been set there yet.                                                     *)
define(n) ==
  /\ table' = [table EXCEPT ![n] = definitions]
  /\ definitions' = definitions + 1
  /\ promised' = [promised EXCEPT ![n] = NULL]

(* compile_program, a statement at a time, into a symbol table that is the *)
(* REPL's own: what a line that fails has put there stays.  A let defines  *)
(* its name before its expression is compiled.                             *)
compile_program ==
  /\ phase = "compile" /\ Remaining
  /\ IF Statement = "let"
     THEN (\E n \in Names : define(n)) /\ lets' = lets \cup {definitions}
     ELSE UNCHANGED <<table, definitions, promised, lets>>
  /\ at' = at + 1
  /\ UNCHANGED <<parserVars, mode, phase, globals, stores, functions, vm_globals, pending>>

(* What is compiled inside a statement: a let in a block of an if is one   *)
(* of the program's too; an assignment, also one in a loop or a function,  *)
(* sets what its name has been resolved to.  Suite.blocklets bounds the    *)
(* definitions there may be after a let in a block.                        *)
compile_within ==
  /\ phase = "compile" /\ program # <<>>
  /\ \/ /\ definitions < Suite.blocklets
        /\ \E n \in Names : define(n)
        /\ stores' = stores \cup {definitions}
     \/ /\ \E n \in Names : table[n] # NULL /\ stores' = stores \cup {table[n]}
        /\ UNCHANGED <<table, definitions, promised>>
  /\ UNCHANGED <<parserVars, mode, phase, at, globals, lets, functions, vm_globals, pending>>

(* Something that cannot be compiled: its line is dropped, except for an   *)
(* assignment to a built-in function or to the name of the function it is  *)
(* in, which fails an assertion.                                           *)
compiler_fails ==
  /\ phase = "compile" /\ program # <<>>
  /\ \E next \in {"prompt", "dead"} : Leave(next)
  /\ UNCHANGED <<parserVars, mode, table, definitions, globals, functions, promised>>

(* new_vm_with_state copies the globals into the machine.  Which of the    *)
(* line's stores are in functions, which this and later lines may call, is *)
(* left open.                                                              *)
new_vm_with_state ==
  /\ phase = "compile" /\ ~Remaining
  /\ vm_globals' = globals
  /\ pending' = promised
  /\ functions' = functions \cup stores
  /\ phase' = "run"
  /\ UNCHANGED <<parserVars, mode, at, table, definitions, globals, lets, stores, promised>>

(* An index is set to an object: the name that has it is given the object. *)
Set(i) ==
  \E o \in Objects :
    /\ vm_globals' = [vm_globals EXCEPT ![Slot(i)] = o]
    /\ pending' = [n \in Names |-> IF table[n] = i THEN o ELSE pending[n]]

(* The lets of the line run once and in order, the other stores whenever   *)
(* the machine comes to them.                                              *)
run_vm ==
  /\ phase = "run"
  /\ \/ \E i \in lets :
          /\ \A j \in lets : i <= j
          /\ Set(i)
          /\ lets' = lets \ {i}
     \/ \E i \in stores \cup functions : Set(i) /\ UNCHANGED lets
  /\ UNCHANGED <<parserVars, mode, phase, at, table, definitions, globals, stores,
                 functions, promised>>

(* The failed machine is dropped, and its globals with it.  A global that  *)
(* nothing has set, or the built-in function a let has kept, may kill it.  *)
vm_fails ==
  /\ phase = "run"
  /\ \E next \in {"prompt", "dead"} : Leave(next)
  /\ UNCHANGED <<parserVars, mode, table, definitions, globals, functions, promised>>

(* Mutant: the globals of the machine are not copied back.                 *)
vm_forgets ==
  /\ phase = "run" /\ lets = {}
  /\ promised' = pending
  /\ \E next \in {"prompt", "dead"} : Leave(next)
  /\ UNCHANGED <<parserVars, mode, table, definitions, globals, functions>>

(* The line has succeeded: the machine's globals are copied back.  What    *)
(* was popped last is printed: NULL, if nothing has been at the bottom of  *)
(* the stack, as in a program without a statement, and perhaps in others.  *)
vm_succeeds ==
  /\ phase = "run" /\ lets = {}
  /\ globals' = vm_globals
  /\ promised' = pending
  /\ \E next \in {"prompt", "dead"} : (program = <<>> => next = "dead") /\ Leave(next)
  /\ UNCHANGED <<parserVars, mode, table, definitions, functions>>

----------------------------------------------------------------------------
SessionInit ==
  /\ ParserInit
  /\ mode = "none"
  /\ phase = "prompt"
  /\ at = 0
  /\ table = [n \in Names |-> NULL]
  /\ definitions = 0
  /\ globals = [i \in Slots |-> NULL]
  /\ lets = {} /\ stores = {} /\ functions = {}
  /\ vm_globals = <<>> /\ pending = <<>>
  /\ promised = [n \in Names |-> NULL]

(* What the process does on its own, once it has a line.                   *)
work_on_line ==
  \/ parse_line       \/ start_line      \/ interpret
  \/ compile_program  \/ compile_within  \/ compiler_fails
  \/ new_vm_with_state
  \/ run_vm           \/ vm_fails        \/ vm_succeeds

ReplModes == {"interpret", "compile", "load", "disassemble"}

SessionNext == (\E m \in ReplModes : start_repl(m)) \/ read_input \/ work_on_line
SessionSpec == SessionInit /\ [][SessionNext]_replVars

----------------------------------------------------------------------------
(* Properties *)

(* At every prompt a compiled name refers to the object that it was given  *)
(* last, by its let or by an assignment in whatever line or function: not  *)
(* to one that a line which failed in the machine had given it, and not to *)
(* one that a function of an earlier line has given an older definition of *)
(* the name, or the line before has given another name.  A name whose last *)
(* definition has been given nothing, because its line failed, is promised *)
(* nothing.  It holds until the definitions of the session outnumber the   *)
(* slots.                                                                  *)
NamesKeepTheirObjects ==
  phase = "prompt" /\ definitions <= GLOBALS_SIZE =>
    \A n \in Names : promised[n] # NULL => globals[Slot(table[n])] = promised[n]

=============================================================================
