# Verification of the Monkey interpreter and compiler

TLA+ modules, TLC runs and machine-checked proofs about `src/src`, a C
implementation of the Monkey language: a tree-walking interpreter and a bytecode
compiler with a virtual machine. File and line references are to the files
under `src/`.

## 1. The system

    source text --lexer--> tokens --parser--> tree --+--> evaluator (-i)
                                                     |
                                                     +--> compiler (-c) --> bytecode --+--> virtual machine
                                                           |      ^                    +--> file writer
                                                    symbol tables |
                                       REPL: one set of symbol tables, constants      file loader (-l) --> virtual machine
                                       and globals from line to line                  disassembler (-d)

The program is sequential: no threads, no callbacks, no network. What is hard in
it is long chains of mutually dependent bookkeeping: a recursive compiler that
patches code it emitted earlier in other arrays, symbol tables that are rewritten
while names are looked up, a machine that trusts every operand, objects shared
between variables, state that survives a failed line of the REPL.

| component | state | operations | interacts with | hard behaviour | what makes it correct |
|---|---|---|---|---|---|
| symbol tables (`compiler/symbol_table.c`) | per table: map from names to symbols, slots given out, captured symbols (at most 100); tables linked outwards | define, define function name / built-in, resolve (captures on the way), open, close | driven by the compiler; its indexes become operands | a lookup rewrites every table between use and definition; shadowing and redefinition while captures exist | lexical scoping; slots and captures stay valid, distinct, bounded |
| instruction format (`code/code.c`, `big_endian`) | opcode table, byte arrays | make, read operands, concatenate, print | compiler, machine, disassembler | operands of one and two bytes, patching in place | what is written is what is read |
| compiler (`compiler/compiler.c`) | stack of scopes (array of code, last two instructions), stack of loops with break positions, value flag, constants | one function per kind of syntax node | symbol tables, code; reads the tree | jumps patched later, POPs taken back, breaks patched in another scope's code, scope slots reused, symbols read after free | jumps land, operands resolve, stack balances on every path, frames are left as entered |
| virtual machine (`vm/vm.c`, `frame.c`) | value stack, frames, globals, constants | one case per opcode | runs compiled or loaded code; built-ins | no checks on frames, pops, slots; values shared by reference and overwritten in place | stack and frame discipline, assignments touch one variable |
| bytecode files (`code/file_generator.c`, `vm/file_loader.c`, `big_endian`) | a file | write, read | compiler, machine, disassembler | lengths through signed bytes, end of file by a byte value, a write that stops half way | what is loaded is what was written, or a first part of it |
| parser (`parser/parser.c`, `ast`) | two tokens, errors, `INSIDE_LOOP`, the C stack | one function per construct | lexer | a static flag not reset on error paths; missing nodes; tokens passed over unseen | a break is accepted exactly inside loops, brackets and blocks end where they were opened, operators group by precedence, a missing node is an error |
| lexer (`lexer/lexer.c`, `file_reader`) | buffer of 100 bytes, positions | next token, refill, peek | files | tokens and peeks across the buffers of a file | the tokens are the longest ones of the text, however it is cut |
| evaluator (`evaluator/evaluator.c`, `environment`) | environments linked outwards, the C stack | eval per node | built-ins | unwinding of return / break / continue / error, lookup and assignment outwards | lexical scope; assignments reach what reads reach; what unwinds is stored only by the constructs that do not look at it; only loops, and the search for a variable far outwards, diverge |
| objects, built-ins (`object/`) | heap objects | constructors, hash keys, built-ins | machine, evaluator | sharing, sizes | - |
| REPL, command line (`repl/repl.c`, `main.c`) | constants, globals, symbol table, environment across lines | one line, one command | all of the above | failed lines keep half of their effects; functions of earlier lines go on storing | a compiled name refers to the object it was last given, whatever fails later; every line is parsed and every file read to its end |
| disassembler, containers, hash map, unity | - | printing, growing arrays, third-party | - | - | - |

`PROJECT.json` lists the components with their status and the hazards with the
lines where they bite.

## 2. Plan

All the modules of the plan are written, in this order:

1. **Symbol tables**: `SymbolTable`, the abstract `LexicalScope`; proofs in
   `SymbolTableProofs`.
2. **Compiler**: `Code`, `Compiler`, and what its output owes to the machine,
   `CompiledCode`; proofs in `CompilerCodeProofs` and `CompilerProofs`.
3. **Virtual machine**: `Machine`, and `Pipeline`, which runs on it what `Compiler`
   has compiled.
4. **Evaluator**: `Evaluator`; proofs in `EvaluatorProofs`.
5. **Parser**: `Parser`; proofs in `ParserProofs`.
6. **Sessions**: `Session`, the read-eval-print loop over `Parser`.
7. **Lexer**: `Lexer`, and the abstract `Scanner` it implements; proofs in `LexerProofs`.
8. **Bytecode files**: `BytecodeFile`, writer and loader; proofs in `BytecodeFileProofs`.
9. **Command line**: `CommandLine`, which composes `Session`, `Lexer` and
   `BytecodeFile` under `main`; `CommandLineProofs` has the theorems about sessions
   and carries the other components' theorems over to the whole program.

Theorems still worth proving: that the operands of compiled code resolve and its
breaks leave their own loop; for the machine the stack discipline of `call`/`return`.

## 3. The modules

### SymbolTable, LexicalScope

`tables` is the chain of live symbol tables (`outer` of table i+1 is table i).
`define_free`, `symbol_define`, `symbol_resolve` and the others are operators from
a chain to a chain, so that `Compiler` uses the same definitions. The recursion of
`symbol_resolve` is unrolled: the innermost table that knows the name answers, and
each table above it captures what the table around it has returned. The actions
are what the compiler does with the tables: `Define` (let, parameter), `Resolve`
(identifier, assignment), `EnterScope` / `EnterFunction` / `LeaveScope`.

`LexicalScope` says what this is for without tables: every level has a meaning for
every name; inner levels inherit, definitions shadow. The refinement mapping
follows captures outwards to the definition they stand for.

### Code

Opcodes in the order of the enum, operand widths, encoding, decoding, overwriting
an instruction in place. Positions count from 0 as in the C code. The textual form
(`instructions_to_string`) is not modelled.

### Compiler

The compiler is a recursive walk. Its call stack is the variable `todo`: calls
still to be made and, between them, the rest of each `compile_` function after a
call returns. Every action is one stretch of one such function between two
recursive calls, and has that function's whole effect on the state in between.
Where the walk meets a node, any kind of node that the program's sublanguage has may
be there, so the behaviours are the compilations of *all* programs of bounded size.
A sublanguage is an element of the constant `Suites`: the forms, operators, arguments
and liberties (see below) its programs may use, and their number of nodes. Which one
a compilation is in is chosen first, so that one run covers several of them, each
with the size that it needs and without the mixtures nobody asks about. `Evaluator`
and `Parser` have `Suites` of the same kind.
The leaves of expressions are free, statements and compound expressions cost one,
and a block whose value is needed gets its last statement for free, so that every
program that has been started can be finished.

`scopes` keeps what closed scopes leave in their slots, and `arrays` every array of
code ever allocated, because the code does keep pointers to both: `new_compiled_loop`
copies the header of the array, `compile_loop` a pointer to the slot.

What the parser accepts but the compiler is not prepared for, and what uninitialised
or freed memory may hold, is a **liberty**: it happens only where a sublanguage
allows it, so that each property is checked against everything it survives.

| liberty | effect in the code | properties that do not survive it |
|---|---|---|
| loop as value | `let x = while ...`: the loop leaves no value and its flag stays up | StackBalanced, NestingClosed |
| branch without value | `if (c) { let x = 1; }` leaves nothing where a value is expected | StackBalanced |
| stray break | break or continue in a function, or a condition, inside a loop is recorded as the loop's | JumpsLand, BreaksExit, OperandsResolve, NeverDies, FinishedCode |
| stray return | a return outside a function or from a loop's body pops the frame that is there | FramesLeft |
| scope in update | a function literal or loop in the update of a `for` takes the slot `patch_break_statements` uses | BreaksExit, NeverDies |
| assign to function | `let f = fn() { f = 1; }`, `len = 1` run into `assert(0)` | NeverDies |
| duplicate key | OP_HASH counts pairs the map has dropped | StackBalanced |
| stale name | `FunctionLiteral.name` is never initialised, only let sets it | none of those checked |
| freed table | captured symbols are read after `free_symbol_table` | CapturesLoaded |

The first eight bytes of an array of code are memory that `init_int_array` has
zeroed, as far as nothing has been written there. `change_operand` on a position behind
the code but within them finds an OP_CONSTANT, patches that, and the compilation goes on
(`Spare`); behind them the model stops (`UNDEFINED`). So the break that "scope in update"
leaves without a target fails no assertion, and the compilation succeeds.

Left out: a `for` without initialization or condition (the compiler dereferences
NULL for the latter); the errors for an operator or an expression it does not know
(`compiler.c:315`, `359`, `760`: the parser makes no such node); operands that fail inside an index assignment still emit
OP_REASSIGN_INDEX into code that is thrown away; the state of an earlier line
(`new_compiler_with_state`), which is in `Session`; programs beyond 255 bytes
per body, 256 scopes and 100 breaks or captures.

### CompiledCode

What the emitted code owes to the machine, as properties over finished programs:
`JumpsLand`, `BreaksExit`, `OperandsResolve`, `CapturesLoaded`, `StackBalanced`,
`FramesLeft`; `FinishedCode` as an action property; and what the compiler owes to
itself, `NeverDies` and `NestingClosed`. Code is decoded the way the machine does:
from position 0, by opcode. `Reached` walks the paths through a body, keeping the
depth of the stack at each position it gets to, as often as there are positions; it
and the compiler's repetitions (`FunctionTables`, `Loading`, `PatchFrom`) are recursive
functions, which the proofs can unfold.

### Machine

The variables are the fields of `VM`: `stack`, `sp`, `globals`, `frames`, and the
bytecode (`arrays`, `constants`) it was given. There is one action per kind of
instruction. Objects are records in `heap`, and a reference is a place in it,
because sharing is what the machine is about: `OP_SET_FREE` overwrites the object a
captured variable refers to, `OP_CONSTANT` makes a copy so that the constant is not
that object, and a built-in is a local variable of the interpreter's loop whose
address is pushed. `sizeof_object` has the sizes of a 64-bit build. `elements` is
the storage of arrays and hashes, apart from the heap because overwriting an array
object with another shares the storage.

Values of numbers and booleans are abstracted: a condition goes both ways when it
is a boolean, an index may hit any element or none, a number may be negative where
that matters (keys). Strings are left out. A built-in does to arrays what the C
function does: `first` and `last` return an element itself, `rest`, `push` and `shift`
a new array of the same elements without the first one, or with one more.

The C code checks nothing on many accesses. The model does not go on from such an
access; the run ends with a status that says what it was (`UNDEFINED`, `UNSET`,
`OUTSIDE`, `OVERRUN`, `CLOBBERED`, `TOO_DEEP`, `TRAPPED`, `ABORT`), and properties
say which of them cannot happen. In two places this leaves out behaviour of the
build: a local that is read before its `let` has run really yields what an earlier
expression left in the slot (`given` in a frame records which locals have a value),
and an array index out of bounds in an assignment really writes there. A `return` in
the program's own frame, at the bottom of the stack, is no such access: the machine
reports a stack overflow there (`vm.c:620`), and so does the model (`Leavable`). Two
ends that
programs reach at once are not made runs: `[][0]` (OUTSIDE; `vm.c:282`, listed in
`vm_test.c:282`) and, in the compiler, `let f = fn() { f = 1; }`, which reaches
`assert(0 && "unreachable")` (`compiler.c:628`, liberty "assign_to_function").

### Pipeline

`Compiler` followed by `Machine`, on the same `arrays` and `constants`: the machine
starts when the compilation has succeeded, as in `run_vm_tests`. The properties
relate the two sides. `DepthsAgree` computes, with the operators of `CompiledCode`,
the heights the stack can have at each position of each body, and requires at every
moment of the run that every frame on the stack, not only the running one, is at a
position with such a height; `DepthsSuffice` is its weaker form for programs that
call built-in functions, whose values the compiler does not count (see the run
builtin_call). `LoopsShareVariables` requires that what a running loop has
captured are the objects of the variables of the code around it.

### Evaluator

`frames` are the C calls of `eval` under way, innermost last, with what each has
computed so far; `ret` is what the call that has just ended returned. A node of the
tree is chosen where the evaluator first meets it and kept in `nodes`, so that a
loop's body or a function that is entered again is the same one, and the behaviours
are the evaluations of all programs of at most so many nodes. `envs` are the
environments that loops and function calls make, each inside the one that `eval` was
given, and `heap` holds what arrays and hashes share. `search` is the loop of
`resolve_ident`, which counts the levels to the variable of an assignment, a step
each. Errors, returns, breaks and continues are objects that travel up through `ret`,
as in the code. Numbers and strings are all alike, so a comparison goes both ways;
every built-in function is there with what it does to arrays.

Programs are whatever the parser accepts (but for a break outside loops, section 6), and
the evaluator stores what it stores:

- an assignment does not look at its value: `x = y;` with `y` undefined puts the error
  object into `x` (`evaluator.c:797`, `722`);
- an `if` or a loop in the place of a value gives what its block was left with, so that
  `let x = if (c) { break; };` stores a break;
- the parser accepts a break in a function that is written in a loop, and the call gives
  it to whoever called as a value;
- `return` wraps whatever it is given, also a return object that a variable holds
  (`MaxLayers` bounds how often).

`JumpsAreExcused` says that the first three are all the ways in which what unwinds gets
stored.

An assertion that fails, or the use of memory that holds nothing, is the status
`dead`. A loop whose condition is no boolean frees the condition's object, which may
belong to a variable (`evaluator.c:606`): from there the run may go on or be dead,
because nothing more can be said of it once the object is read. After an error in the argument
of a call what was called is freed, the error's bytes are overwritten, and the caller gets
an object that was never written (`evaluator.c:438`): the run is dead.

`search` does what the code does: `resolve_ident` looks in the current environment, then
in the next one, and then there again for ever, because it takes the outer environment of
the one it started with (`evaluator.c:687`). `OnlyLoopsDiverge` has this as a second way
in which an evaluation does not end, and the run far_search shows it for an assignment in a
loop in a loop.

### Parser

`frames` are the `parse_` functions under way, each at the point of its body where it
will go on; a step goes from one point to the next and reads at most one token. The
tokens of a line are chosen as they are read, from those that `follow` allows after
the one before, so that the behaviours are the parses of every token sequence of the
sublanguage, correct or not; `slack` bounds how far a line is followed after its first
error. A tree is kept only as far as properties tell trees apart: `ret` is the binding
power of the outermost operator of what was returned, `NULL` where a function returns
no node, and `program` the kinds of the statements.

`INSIDE_LOOP` is a static variable of the code and here the variable `inside_loop`,
which a new line does not reset: a `while` or `for` whose header is wrong returns
without clearing it. A loop's frame remembers whether it is the one that set the flag
(`alter`, `parser.c:623` and `677`). `open`, `lenient` and `erred` are history: the
brackets that the text has open, whether a function has passed over a token without
looking at it, and whether any line had errors.

### Session

`Parser` plus what `start_repl` keeps from line to line in compile mode: the symbol
table (`table`, and `definitions`, which counts what it has defined) and the globals. A
line that parses goes where the mode says, and any stage of it may fail: it is over then,
and what is done stays done.

The compiler of a line gives every name that a `let` defines a new index, also one that
has an index already, and also before the let's expression has been compiled. What a line
is compiled to is the indexes it sets: `lets` in order, once each, and `stores`, those
that its assignments, and its lets in branches, may set. An assignment sets the index
its name has *then*; in a function it does so whenever this or a later line calls it,
when the name may long have another index (`functions`). The machine works on its own
copy of the globals, which comes back only if the run succeeds.

What is set is the address of an object, any one. What is in the object is the machine's
matter. So `NamesKeepTheirObjects` says which object a name refers to, not that the object
stays as it is, which `let f = len;` is a counterexample to: a built-in's object is a
local variable of the machine's loop (`vm.c:642`, listed as a hazard). `promised` is
history, the object that each name was last given by a line that succeeded, by its let or
by an assignment wherever it stands; `pending` is the same while the line runs.

In interpret mode a line is its statements, each of which may fail or end the process:
which variables it changes, also one by a statement that fails, is `Evaluator`'s matter,
and nothing is claimed of them across lines. `SessionSpec` is one session after the other,
in any mode, as the runs and the proofs use it.

### Lexer, Scanner

`Lexer` reads character by character. `refill`, `read_char` and `peek_char` work on
`input`, the buffer, and `read_position`; for a file the next buffer is read when the
position reaches the end of this one, and `peek` across the boundary reads the
character from the file and puts it back. `literal` is the array of fixed length that
words, numbers and strings are collected in; one that does not fit runs over its end,
and the model stops (`dead`). Each class of characters is represented by a few.

`Scanner` has no buffers: a text, a position, and the longest token there.
`TokensAreLongest` is `Scanner!Spec` under the mapping of `begun`, the number of
characters before the token under way.
`LexerSpec` lexes any texts over the characters, one after the other; a literal of at
least two characters is assumed (`LiteralHoldsPairs`; the code's has 100).

### BytecodeFile

The file is its bytes. The writer appends the magic number, each constant and the
program, a step each; at any of them the process may be stopped or the write fail,
which leaves any first part of what was written (`cut_short`). The loader reads the
bytes back a constant at a time, with `fgetc` returning EOF, as a byte 255, behind the
last one, two-byte numbers put together from signed bytes, and the program read until
a byte equals EOF.

`Modest` says which bytecode survives: every count fits two bytes (the writer drops the
rest) and its low byte is not read through a sign, no byte of the program is taken for
EOF. `FileSpec` saves and loads any bytecode of the types a compilation can end with
(`Bytecodes`), any number of times.

### CommandLine

`main` and the processes it starts, one after the other: a session (`Session`, each
line of which the lexer has read before the parser starts), a source file that is
lexed through the buffer and then evaluated or compiled and saved, a binary that is
loaded and run or disassembled. Only `disk` is there for the next command. The module
extends the three others and interleaves nothing that the process does not: each
action is one component's step under the command that calls it, and leaves the others'
variables alone. Evaluating a file's program, compiling it and running it are no steps of
their own here. The tokens that `Lexer` returns are not those that `Parser` is given:
each explores all of its own inputs, and a source file's tokens may parse or compile
or not.

## 4. The runs

Every run explores its whole state space, or stops at the violation it looks for.
`CHECK_DEADLOCK FALSE` is set where the system stops: a compilation, a program's run
and an evaluation end, and so do a user's commands. The walk over tables in
`MCSymbolTable` has no end state.

| run | checks | bounds |
|---|---|---|
| symbol_tables | TypeOK, StoreSound, SlotsInjective, CaptureChain, CaptureOnce, SlotsKept, LexicalScoping | two names, one of them a built-in, two definitions per table, four tables: a name defined, captured through two tables, shadowed and redefined |
| compiler | TypeOK, NestingClosed, JumpsLand, BreaksExit, StackBalanced, NeverDies, OperandsResolve, CapturesLoaded, FramesLeft, FinishedCode | two names, alike (`Symmetry`), and four sublanguages. Loops, branches, breaks and continues of four nodes: a loop in a loop with a break behind a branch. Functions and loops of five nodes, one parameter: three bodies in one another that use each other's variables. Two of three nodes with the liberties "branch_without_value", "stray_break", "duplicate_key", and with "scope_in_update", "stale_name", "freed_table", where TypeOK and NestingClosed still hold (the others are about `Ordinary` programs, those of the first two) |
| machine_programs | DepthsAgree, NeverAstray, EndsInProgram, LoopsShareVariables, ConstantsKept | three sublanguages: loops and breaks of four nodes (a loop in a loop that has gone round, a break between two operands with a value on the stack); assignments of five nodes (a variable of a loop assigned to from a loop in it); functions of five nodes (a function called from a loop, a loop in a function, a return from the middle of a body). Stack of five, four frames, six new objects |
| machine_values | DepthsSuffice | three nodes, two elements or arguments each: every operator, array, hash and call of a built-in in every other. Five nodes of calls of a built-in and arrays: a built-in on what a built-in has returned |
| evaluator | TypeOK, LexicalEnvironments, JumpsAreExcused, AssignsWhereRead, OnlyLoopsDiverge | ten sublanguages of five to nine nodes, four environments, three arrays, two layers of return objects |
| command_line | of the parser TypeOK, MissingIsReported, FlagFollowsNesting, BracketsFollowCalls, Grouping; of the session NamesKeepTheirObjects; of the lexer LexerTypeOK, TokensAreLongest; of the files LoadedAsWritten, CutFilesLoadAPrefix; of all LinesAreParsed, FilesAreRead | thirteen sublanguages: seven of one line of up to 20 tokens, one of three lines that break off, three of sessions of one to three lines that define and assign two names in every mode, one with texts of four characters, one with three commands on a file. A buffer of two characters, literals of four, two objects, two globals, a let in a branch (`blocklets`) |

Nodes are counted as `Compiler` does: leaves of expressions are free. The evaluator
counts every node. The bounds of the machine (`STACK_SIZE`, `MAX_FRAMES`) are also the
code's own limits, made small: machine_programs and machine_values reach runs that
overflow the stack, machine_programs one with a frame too many. `MaxObjects`,
`MaxEnvs`, `MaxArrays` and `MaxLayers` are only bounds: a loop that never ends stops being
explored when it has allocated so many, and a `return` of a return object in as many
layers is not followed. `GLOBALS_SIZE`, `Buffer` and `Literal` are the code's
constants made small as well: every token of two characters is cut by the buffers at each
place, and literals of four characters overflow.

Why the bounds are enough. The smallest program that violates a property under a
plausible bug has at most as many nodes, tokens or lines as its run allows: that is
what the mutants show (below). And the interactions are local: a capture that is right
over two tables is made by the same step over each further one; a peek sees one
character, so that a buffer of two has both of its boundaries in a text of four; what
a line leaves behind is seen by the next. The sublanguages keep together what
interacts. Brackets of different kinds, operators and loops' headers do so through the
stack of calls only, for which the proofs of section 5 have no bound at all.

Six disagreements between the code and what its comments, assertions, documents and
tests say are runs of their own that end in a violation:

| run | property | what happens |
|---|---|---|
| scope_in_update | BreaksExit | in `for (let i = 0; i < 3; fn() {}) { break; }` the break's position is applied to the function's code, and the break keeps 15, the last byte of its sentinel, for a target |
| far_search | SearchEnds | in `let x = 1; while (a) { while (b) { x = 2; } }` the search for `x` does not end |
| captured_types | AssignmentsFit | `while (a) { let x = 1; while (b) { x = []; } }` copies the 32 bytes of an array over the 16 of a number |
| builtin_call | DepthsAgree | a call of `len` leaves the built-in on the stack |
| blocks_end | BlocksEndAtTheirBrace | in `fn() { return x }; y` the return passes over the brace, and the block goes on with `; y` |
| file_lengths | CountsAreBigEndian | a function of 130 bytes is read back with another length |

`PROJECT.json` quotes the line each of them contradicts.

For every property of a passing run `PROJECT.json` names a mutant: a definition with
a plausible bug (they stand next to the definitions, marked "Mutant") with which the
same run finds the property violated. So no property holds because the run never
gets where it matters.

**Fairness.** The program has one thread and never waits for itself, so what it can do
next it will do. `Evaluator` states that as weak fairness of its next-state relation
(`FairSpec`), and `OnlyLoopsDiverge` says what follows: an evaluation ends, meets a
bound of the model, tests a loop's condition again and again, or searches for ever for a
variable that neither of the nearest two environments has. In `CommandLine` the
user is not fair, the process is: `FairCommandSpec` has weak fairness of `process`,
the steps a process takes by itself, and none of `main` and `repl_reads`, which wait
for a command or a line. `LinesAreParsed` says that every line is lexed and parsed to its
end, `FilesAreRead` that every source file is lexed and every binary loaded to its end.
What the line or the file then does may take for ever (`while (true) {}`), and nothing is
claimed of it. For the compiler and the machine nothing is assumed and no liveness
claimed: a compilation is bounded by its program, and a Monkey program need not end.

## 5. The proofs

### SymbolTableProofs

`SymbolTableProofs` proves about `SymbolTable`, for any set of names, any built-ins,
any bounds on definitions and depth, that every behaviour satisfies `TypeOK`
(`TypeCorrect`), `StoreSound` (`StoreIsSound`), `CaptureChain`
(`CaptureChainHolds`), `CaptureOnce` (`CapturesAreDistinct`), `SlotsInjective`
(`SlotsAreDistinct`), the action property `SlotsKept` (`SlotsAreKept`), and that a
table never captures more symbols than there are names (`CapturesAreBounded`),
which is what keeps the array of 100 captures from overflowing in programs with no
more names.

Assumptions: built-ins are names with a position each (`BuiltinsAssumption`), the
bounds are numbers (`BoundsAssumption`), a failed lookup returns something that is
no symbol (`NullAssumption`). `CapturesAreBounded` needs the names to be finite.

The argument. None of these invariants is inductive alone. `StoreSound` for a table
after a lookup depends on the lookup having found something real in the table
around it, which is `CaptureChain`; that a capture is not made twice depends on the
map never forgetting a captured name without a definition taking its place, and
`SlotsInjective` of the definitions depends on all slots being below
`num_definitions`. `IInv` is the conjunction: `StackOK(tables)`, all of these for
every table and every pair of neighbours, and the type of the last result. The proof
has three layers: what one operation does to one table (`DefineFreeOK`, `DefineOK`,
`DefineFunctionNameOK`), what replacing, pushing or popping the top of the stack does
to `StackOK` (`ReplaceTopOK`, `PushOK`, `PopOK`), and `ResolveOK`, where every table
between use and definition changes at once. `StepOK` puts them together per action,
and also gives the step property `GoodStep` that `SlotsKept` follows from.

The last theorem of the module is `LexicalScopingHolds`: `SymbolTable` implements
`LexicalScope` for any names, bounds and depth, from the same `IInv`. The refinement mapping computes, for each
level, what a name means by following captured symbols outwards (`Meaning`, a recursive
function). `MeaningExists` and `MeaningUnfolds` say that the recursion has the values
its equation gives. `MeaningKept` is the heart of it: tables that only gain slots and
captures keep the meaning of every symbol they had. Then each operation:
`DefineImplements`, `LookupImplements` (every table between use and definition captures
the symbol, and the new captures mean what the definition does, so that no meaning
changes), `OpenImplements`, `CloseImplements`. Facts about every table are inductions,
carried out as "there is no least table for which it fails" (`Least`).

### CompilerCodeProofs, CompilerProofs

Eight theorems about `Compiler` and `CompiledCode`, for programs of any size over any
sublanguages and names: `TypeOK` (`CompilerTypes`), `NeverDies` (`CompilerNeverDies`),
`NestingClosed` (`NestingIsClosed`), `JumpsLand` (`JumpsAlwaysLand`), `StackBalanced`
(`StackIsBalanced`), `FramesLeft` (`FramesAreLeft`), the action property `FinishedCode`
(`FinishedCodeStays`), and the invariant they come from (`CompilerInvariance`).

Assumptions: those of `Compiler` on its constants (`SuitesAssumption`,
`CompilerNamesAssumption`, `CompilerNullAssumption`) and of `SymbolTable`, and one
hypothesis, `Prepared`: the program takes no liberty but a stale name (the table in
section 3 says which of these properties the liberties falsify; that `TypeOK` and
`NestingClosed` hold with most of them is model-checked only), no call, array or
hash has more than 255 elements and there are at most 255 names, because operands of
one byte hold numbers up to there and the compiler does not check. Nor does it check
that a jump's target fits its two bytes: what is said of finished jumps has the
hypothesis `Short`, that every array of code has fewer than 65536 bytes. Without it
they are false, in programs no small instance has.

The argument. Positions in code are found by decoding it from the start, and the code
is patched, cut and overwritten all the time, so that none of this can be followed on
the bytes. The proof keeps, for each array of code, a **layout** (`Laid`): the positions
where an instruction begins and the operands it was meant to have, how many values are
on the stack at each of them, and which jumps have no target yet (`open`). `Written`
says that the bytes are those of the instructions, `Flows` that each finds the values it
takes and goes where their number is right. `CompilerCodeProofs` shows what emitting
(`EmitLaid`), taking back a POP (`PopLaid`), overwriting a last instruction and giving a
jump its target do to a layout, and that what is known about earlier places stays
known (`Keeps`).

`Known` is what holds between two steps: there are layouts for all arrays, and a list of
states `g` alongside `todo` (`Chain`), so that each thing left to do finds `g[i]` and
leaves `g[i + 1]`: how many scopes and loops are open, the depth of the stack, the value
flag, whether it is in the update of a loop, and what is known of the last instruction
(is it there, does it end a value). `Joined` says for each kind of call what it finds
and leaves: a `block` whose value is needed ends with something that can be turned into
a value; `alternative` finds the jump that was emitted for it, with the depth it had
then; `end_loop` finds, in the slot of a scope that has been left, the array in which
the breaks of its loop are - which is true because nothing between `end_body` and
`end_loop` may open a scope (`update`). `PoolOK` says that a finished body has no open
jump and never runs off its end (`Sealed`), `HomesOK` that every listed break of every
open loop is a break in one array, `OpenOK` that for each jump without a target
something is left to do, so that none remains in the end.

The actions in one scope are dealt with in `CompilerCodeProofs`, from
`ExpressionStatementOK` to `AlternativeStepOK`; those that enter or leave a scope or a
loop and the patches across arrays in `CompilerProofs` (`FunctionLiteralOK`,
`LoopBodyOK`, `EndFunctionStepOK`, `EndLoopBodyStepOK`, `EndLoopStepOK`). `StepInv` puts
them together. For the properties, `StartsDecode` shows that decoding the code gives the
places of its layout, and `WholeReached` that a walk through the code never has a depth
other than that of the layout; the walk is a recursive function over the number of
steps, and what holds of all its values is proved from the least for which it fails.

Two things the proof depends on that a reader of `compiler.c` may not expect:
`last_instruction` is right only sometimes - `remove_last_pop` puts the one before in its
place, and giving a jump its target makes a place behind it that may not be cut off -
so that each call under way has to carry whether it is (`end` in the states,
`EndOK`); and the positions of breaks are right at the end of a loop only because the
slot is still the one the body had, which the liberty "scope in update" takes away
(run scope_in_update).

### ParserProofs

`ParserProofs` proves about `ParserSpec` - any number of lines, of any length, nested
to any depth, over any sublanguages - that all five safety properties of the parser
hold: `TypeOK` (`TypeCorrect`), `FlagFollowsNesting` (`FlagIsNesting`),
`MissingIsReported` (`MissingNodesAreReported`), `Grouping` (`OperatorsGroup`) and
`BracketsFollowCalls` (`BracketsMatch`). There are three inductive invariants, each on
top of the one before: `IInv` (`Invariance`), `GInv` and `BInv`.

Assumptions: a sublanguage has tokens of the language only (`SuitesTyped`), and the
two markers for "no node" and "no function has returned" are no binding powers
(`PointersDistinct`).

The argument. `FlagFollowsNesting` is not inductive: that a loop's function clears the
flag on its way out is right only if no loop around it is still being read, and that
the flag is down after the last loop only if one of the loops under way will clear it.
`StackOK`, about the whole stack of calls, says so: every frame has the fields its
point asks for; a statement of the program is only at the bottom; a frame that holds a
missing node is there only when an error is recorded; while there is a loop the flag
is up; only the outermost loop alters it (`alter`); and if the flag is up and no line
had an error so far, some loop on the stack will alter it. Errors are the exception
because a loop that gives up in its header returns without clearing the flag; from
then on later lines accept breaks anywhere, which the code does and the property
allows for.

A `parse_` function returns, goes on, or calls, and the lemmas follow that: `Returned`,
`WentOn` and `Called` say what each does to a stack that is `StackOK`, `LoopBegun`,
`LoopEnded` and `ProgramBegun` are the three steps that do something else, and
`ReturnKeeps`, `GoKeeps` and `CallKeeps` carry them to the invariant. Then there is
one lemma per action, which only has to say which of the three the step is and that
what it pushes is of the right shape; `Inductive` puts them together.

`GInv` is for `Grouping`, which speaks of an operator and its operands when the right
one has been found. Why they fit depends on every call below: `Fits` relates each call
to the one above it (what an operand may be is decided by the precedence the innermost
loop of `parse_expression` was entered with, which is that of the operator below), and
`Accepts` what may be returned to a call, before which token. The loop goes on while
the next operator binds more tightly, so that what is handed down has no tighter
operator behind it.

`BInv` is for `BracketsFollowCalls`. The brackets open in the text and the calls that
wait for one are paired by rank: the k-th call that waits, counted from the bottom,
waits for the k-th bracket. Between the two reads of an opening bracket - the token has
become the current one, its function has not been called yet - the last bracket has no
call (`Bracketed`). The lemmas are about pushing, replacing and popping one call and
one bracket at once (`AwaitsTheSame` and those around it).

### LexerProofs

`LexerTypeCorrect` (`LexerTypeOK`) and `LexerScans` (`TokensAreLongest`, the refinement
of `Scanner`), for texts of any length and any sizes of buffer and literal (at least
one and two characters). `BufferOK` says how the buffer lies in the text: it is the
part that ends at `offset`; a file whose end has not been met has filled it; the
position is behind the end only at the end of the file. From it the lemmas about
`read_char` and `peek_char` get the next characters of the text (`CharAt`), whether
they are in the buffer or behind it. `LexerInv` adds, for each state of the token under
way, what of the text it has consumed and what of it is in `literal`; a token ends
where `Scanner` ends it because the characters collected are exactly those the set
allows and the next is none. A literal that is too long ends the model (`dead`).

### BytecodeFileProofs

`FilesAreLoadedAsWritten` (`LoadedAsWritten`) and `CutFilesAreLoadedInPart`
(`CutFilesLoadAPrefix`), for any bytecode and any place where the writing is cut.
`FileInv` has the offset of every constant in the file, existentially quantified
(`Laid`, `OnDisk`): up to some constant, and then perhaps the program, the file has the
bytes that the writer wrote, as far as it goes. The reader is either `Intact` - at the
end of some constant, with those before it as they were - or `Behind` the end of a file
that was cut, where every byte is EOF, from which no program follows. That a count is
read as it was written is arithmetic on two bytes (`BigEndian`). The proof
found that `Readable` has to ask for counts below 65536, which the writer silently cuts
to two bytes; `Modest` has it now.

### CommandLineProofs

The components are composed, and so are the theorems: every behaviour of the program is
one of `SessionSpec` (`CommandsAreSessions`), which is one of `ParserSpec`
(`SessionsParse`), one of `LexerSpec` (`CommandsLex`) and one of `FileSpec`
(`CommandsKeepFiles`): each step of a command is one component's step and leaves the
others' variables alone. `TheProgramIsRight` is the conjunction of all the components'
theorems for `CommandSpec`. It assumes that the texts and bytecodes the commands are
given have their types (`InputsTyped`).

`NamesKeep`, in the first part of the module, is about sessions alone:
`NamesKeepTheirObjects` in every session, for any names, objects and number of global
slots, and lines that fail anywhere. It assumes that there is a slot
(`GlobalsSizePositive`) and that the marker for "nothing" is no number (`NullIsNoNumber`).
What a name refers to depends on two things that a line changes one at a time, the symbol
table and the globals, and that a failed line changes only in part; and functions of
earlier lines set indexes that no name has any more. `SessionInv` is the conjunction of what
holds between those steps: `StoresOK`, every index that anything compiled so far may set
has been given to some definition, so that none is one a later `let` will get; `TableOK`,
every name has an index of its own below the next one; `RunOK`, the machine's copy of the
globals has what will be promised if the line succeeds (`pending`), at every moment of the
run; `PromisesOK`, the property, for as many definitions as there are globals (`Few`:
behind that, indexes wrap around).

### EvaluatorProofs

`EvaluatorProofs` proves about `Evaluator` - programs of any size over any
sublanguages, any number of environments, arrays and calls - that `TypeOK`
(`StateWellFormed`), `LexicalEnvironments` (`ScopingIsLexical`), `JumpsAreExcused`
(`KeptJumpsAreExcused`) and the action property `AssignsWhereRead`
(`AssignmentsAreRead`) hold of every behaviour of `Spec`, without a hypothesis about
the program. The assumptions are those of the module: a sublanguage has forms and names of the
language, bounds are numbers, "no name" is none.

The argument. No property is inductive by itself, because all of them depend on what
the calls of `eval` under way are going to do with what they are given. `IInv` has
four parts.

- `World`, of what exists. `NodesOK`: every node's form is one its place allows, and
  its children are in the same loops and functions or in one more. `EnvsOK` and
  `StoresOK`: a variable holds one of `Values`, or an error if some assignment in the
  program names it (`Named`), an element of an array or a hash likewise (`Elements`), and
  a function only with an environment made by the loops and functions around its text
  (`Closures`). `Values` depends on the program: breaks and continues are among them only
  if it has an `if` or a loop in the place of a value (`Blocky`) or one of them in a
  function (`Jumpy`), return objects only if it is `Blocky`. So `JumpsAreExcused` and half
  of `LexicalEnvironments` are part of it.
- `Calls`, of the calls under way: each is in an environment made by the loops and
  functions around its node (`FrameOK`), at a step its form has, with the values kept
  that belong to it (`Stage`), and the call above it evaluates a node of just the kind
  it waits for (`Asked`, `Serves`).
- `Returned`: what has just been returned is what the node that was asked for may
  return (`Results`): an operand a value or an error, a block also a return, a break or a
  continue - the last two, outside functions, for the loop around it.
- `Searches`: the search of `resolve_ident` is at the variable's environment, at the one
  around it, having passed over an environment without the variable, or beyond, where
  neither of the two has it.

A tree is met, environments are made and arrays are built while all this is said
about the ones before. `Grown` says how the world may change without disturbing what
was known, and the lemmas behind it (`GrownValues`, `GrownResults`, `GrownFrame`,
`GrownCalls`, `GrownReturned`) that nothing is disturbed: `MeetStep` and
`StatementStep`, where the tree grows, `LetStep`, `CallStep`, `LoopStep` and the
others rest on them. `GiveOK`, `Pushed` and `TopMoves` are the three things a step
does to the calls: return, call, go on. Then there is one lemma per action, which says
which of the three the step is; `Inductive` puts them together.

What a chain of environments holds is computed recursively in the model (`Makers`,
`Holders`, `Outer`), as recursive functions over the environments' numbers;
`MakersUnfold`, `HoldersUnfold` and `OuterUnfolds` say that they have the values
their equations give. `AssignsWhereRead` follows from `IInv` by `ReadsAfter`: storing
a value where `env_get` finds the variable changes no read that finds another one.

### Only model-checked

- All liveness (`OnlyLoopsDiverge`, `LinesAreParsed`, `FilesAreRead`), which is out of the
  prover's reach.
- `BreaksExit`, `OperandsResolve` and `CapturesLoaded` of compiled code. They follow
  three more strands through the compiler's state, side by side with `Known`: which
  loop's breaks an array has and to where they are patched, which symbols the calls
  under way still hold, and which instructions load what a closure captures.
- Everything about `Machine` and `Pipeline`, which need those three first: a frame's
  depth agrees with the compiler's because the code is `Laid`, and an operand finds its
  slot because it resolves.

Induction over data is out of reach as a theorem about an operator, but not where a set
of numbers will do: a fact about every table, every level or every step is proved from
the least one for which it fails (`Least`), and what a recursive function computes from
its equation.

## 6. What is not modelled

- That the parser's tokens are the lexer's: in `CommandLine` each reads all of its own
  inputs.
- The tokens' and the machine's values: what a number's digits denote, the characters
  of strings beyond the lexer, the arithmetic of numbers, the values of hash keys.
- Printing: the disassembler's text, `instructions_to_string`, `inspect_object`, the
  printing of trees, the texts and source positions of errors.
- Freeing: memory that is never freed leaks without an effect. What is freed and read
  again: symbols after `free_symbol_table` are the liberty "freed_table"; objects that
  the evaluator frees while a variable still has them (`evaluator.c:606`, `438`) are, in
  `Evaluator` and `Session`, a run that may be dead. What a program would read there is
  not followed.
- Limits that nothing checks and no small instance reaches: 256 scopes, 100 breaks per
  loop, 100 captures per table, 255 bytes of a body's code in one-byte places. They
  are listed as hazards.
- The containers (`array`, `string` helpers), which the models use as sequences; the
  hash map and the test framework, which are third-party; `crc/crc.c`, the hash
  function of string keys.
- A `for` without a condition is parsed and evaluated (`evaluator.c:616` takes it for
  true), but not compiled: the compiler follows the NULL. An index out of bounds in an assignment writes there, and the
  model of the machine stops.
- A break outside loops: after a line whose loop header is wrong the parser's flag stays
  up, and `FlagFollowsNesting` in `Parser` says so, but neither the compiler's nor the
  evaluator's programs have a break there.
- "Cannot call nested functions", which `README.md:81` lists as a known bug without an
  example. The runs evaluate, compile and run functions in functions and their calls, also
  from loops, and find the right variables and depths, with two exceptions that may be
  what was seen: the symbols a function captures are read after their table has been freed
  (`compiler.c:508`, the liberty "freed_table", under which `CapturesLoaded` does not
  hold), and a built-in that has been called stays on the stack (run builtin_call).
