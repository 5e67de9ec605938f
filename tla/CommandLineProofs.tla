------------------------- MODULE CommandLineProofs -------------------------
(***************************************************************************)
(* What survives the lines of a session, for any names, any number of      *)
(* slots, and lines of any length that fail anywhere; and that the         *)
(* theorems about the parser, the session, the lexer and the binary files  *)
(* hold of the program they are parts of: for each part, every run of the  *)
(* commands is one of the part alone, in which the other parts' steps      *)
(* change nothing.                                                         *)
(***************************************************************************)
EXTENDS CommandLine, ParserProofs, LexerProofs, BytecodeFileProofs

----------------------------------------------------------------------------
(* The lines of a session *)

SessionTypes ==
  /\ at \in Nat /\ definitions \in Nat
  /\ table \in [Names -> Nat \cup {NULL}]
  /\ promised \in [Names -> Objects \cup {NULL}]
  /\ globals \in [Slots -> Objects \cup {NULL}]
  /\ phase = "run" => /\ vm_globals \in [Slots -> Objects \cup {NULL}]
                      /\ pending \in [Names -> Objects \cup {NULL}]

(* Every index there is a store for has been given to some definition,     *)
(* before those to come: a store of a shadowed one hits no other name.     *)
StoresOK == lets \cup stores \cup functions \subseteq 0 .. definitions - 1

(* Each definition has taken an index of its own, below those to come.     *)
TableOK ==
  \A n \in Names : table[n] # NULL =>
    /\ table[n] < definitions
    /\ \A m \in Names \ {n} : table[m] # table[n]

(* As long as there is a slot for every index.                             *)
Few == definitions <= GLOBALS_SIZE

Kept(promises, slots) ==
  \A n \in Names : promises[n] # NULL =>
    table[n] # NULL /\ slots[table[n]] = promises[n]

(* The machine's copy keeps what will be promised if the line succeeds,    *)
(* and the REPL's globals what is promised, should it fail.                *)
RunOK == phase = "run" /\ Few => Kept(pending, vm_globals)
PromisesOK == Few => Kept(promised, globals)

SessionInv == SessionTypes /\ StoresOK /\ TableOK /\ RunOK /\ PromisesOK

----------------------------------------------------------------------------
LEMMA SlotsOfIndexes ==
  /\ \A i \in Nat : Slot(i) \in Slots
  /\ \A i \in Nat : i < GLOBALS_SIZE => Slot(i) = i
  BY GlobalsSizePositive DEF Slots, Slot

(* Nothing an action leaves alone is disturbed.                            *)
LEMMA SameSession == SessionInv /\ UNCHANGED sessionVars => SessionInv'
  BY DEF SessionInv, SessionTypes, StoresOK, TableOK, RunOK, PromisesOK, Few, Kept,
         sessionVars

(* The loop goes from one place to another, other than into the machine,   *)
(* and perhaps leaves the line behind.                                     *)
LEMMA MovedOn ==
  ASSUME SessionInv, phase' # "run", at' \in Nat,
         UNCHANGED <<table, definitions, globals, functions, promised>>,
         \/ UNCHANGED <<lets, stores>>
         \/ lets' = {} /\ stores' = {}
  PROVE  SessionInv'
  <1>. USE DEF SessionInv
  <1>1. SessionTypes' BY DEF SessionTypes
  <1>2. StoresOK' BY DEF StoresOK
  <1>3. TableOK' BY DEF TableOK
  <1>4. RunOK' BY DEF RunOK
  <1>5. PromisesOK' BY DEF PromisesOK, Few, Kept
  <1>. QED BY <1>1, <1>2, <1>3, <1>4, <1>5

LEMMA StartRepl ==
  ASSUME SessionInv, NEW m \in ReplModes, start_repl(m)
  PROVE  SessionInv'
  <1>1. /\ UNCHANGED <<phase, at, table, definitions, globals, lets, stores, functions>>
        /\ UNCHANGED <<vm_globals, promised, pending>>
    BY DEF start_repl
  <1>. QED
    BY <1>1 DEF SessionInv, SessionTypes, StoresOK, TableOK, RunOK, PromisesOK, Few, Kept

LEMMA ReadInput == ASSUME SessionInv, read_input PROVE SessionInv'
  BY MovedOn DEF read_input, SessionInv, SessionTypes

LEMMA StartLine == ASSUME SessionInv, start_line PROVE SessionInv'
  <1>1. phase' # "run"
    BY DEF start_line
  <1>. QED BY <1>1, MovedOn DEF start_line, SessionInv, SessionTypes

LEMMA Interpret == ASSUME SessionInv, interpret PROVE SessionInv'
  <1>1. phase' # "run" /\ at' \in Nat
    BY DEF interpret, SessionInv, SessionTypes
  <1>. QED BY <1>1, MovedOn DEF interpret

(* A line that fails leaves what it has defined, promised nothing.         *)
LEMMA CompilerFails == ASSUME SessionInv, compiler_fails PROVE SessionInv'
  BY MovedOn DEF compiler_fails, Leave

LEMMA VmFails == ASSUME SessionInv, vm_fails PROVE SessionInv'
  BY MovedOn DEF vm_fails, Leave

(* A definition takes the next index, and withdraws what its name was      *)
(* promised: what every other name refers to is left alone.                *)
LEMMA Defined ==
  ASSUME SessionTypes, TableOK, PromisesOK, NEW n \in Names, define(n), globals' = globals
  PROVE  /\ table' \in [Names -> Nat \cup {NULL}]
         /\ promised' \in [Names -> Objects \cup {NULL}]
         /\ definitions' \in Nat /\ definitions' = definitions + 1
         /\ TableOK' /\ PromisesOK'
  <1>1. /\ table' \in [Names -> Nat \cup {NULL}]
        /\ promised' \in [Names -> Objects \cup {NULL}]
        /\ table'[n] = definitions /\ promised'[n] = NULL
        /\ \A m \in Names \ {n} : table'[m] = table[m] /\ promised'[m] = promised[m]
        /\ definitions' \in Nat /\ definitions' = definitions + 1
    BY DEF define, SessionTypes
  <1>2. TableOK'
    <2>. SUFFICES ASSUME NEW k \in Names, table'[k] # NULL
         PROVE  /\ table'[k] < definitions'
                /\ \A m \in Names \ {k} : table'[m] # table'[k]
      BY DEF TableOK
    <2>. USE DEF TableOK, SessionTypes
    <2>1. CASE k = n
      <3>1. \A m \in Names \ {n} : table[m] # definitions
        BY NullIsNoNumber
      <3>. QED BY <1>1, <2>1, <3>1
    <2>2. CASE k # n
      <3>1. table[k] < definitions /\ table[k] # definitions BY <1>1, <2>2
      <3>. QED BY <1>1, <2>2, <3>1
    <2>. QED BY <2>1, <2>2
  <1>3. PromisesOK'
    <2>1. Few' => Few BY <1>1, GlobalsSizePositive DEF Few, SessionTypes
    <2>. QED BY <1>1, <2>1 DEF PromisesOK, Kept
  <1>. QED BY <1>1, <1>2, <1>3

(* Nothing or one name is defined; the new index may be stored to.         *)
LEMMA Compiled ==
  ASSUME SessionInv, phase = "compile", phase' = phase, at' \in Nat, globals' = globals,
         functions' = functions,
         \/ /\ UNCHANGED <<table, definitions, promised>>
            /\ (lets \cup stores)' \subseteq 0 .. definitions - 1
         \/ /\ \E n \in Names : define(n)
            /\ (lets \cup stores)' \subseteq lets \cup stores \cup {definitions}
  PROVE  SessionInv'
  <1>. USE DEF SessionInv
  <1>1. CASE /\ UNCHANGED <<table, definitions, promised>>
             /\ (lets \cup stores)' \subseteq 0 .. definitions - 1
    <2>1. SessionTypes' /\ TableOK' BY <1>1 DEF SessionTypes, TableOK
    <2>2. StoresOK' BY <1>1 DEF StoresOK
    <2>3. RunOK' /\ PromisesOK' BY <1>1 DEF RunOK, PromisesOK, Few, Kept
    <2>. QED BY <2>1, <2>2, <2>3
  <1>2. CASE /\ \E n \in Names : define(n)
             /\ (lets \cup stores)' \subseteq lets \cup stores \cup {definitions}
    <2>1. /\ table' \in [Names -> Nat \cup {NULL}]
          /\ promised' \in [Names -> Objects \cup {NULL}]
          /\ definitions' \in Nat /\ definitions' = definitions + 1
          /\ TableOK' /\ PromisesOK'
      BY <1>2, Defined
    <2>2. SessionTypes' BY <2>1 DEF SessionTypes
    <2>3. StoresOK' BY <1>2, <2>1 DEF StoresOK, SessionTypes
    <2>4. RunOK' BY DEF RunOK
    <2>. QED BY <2>1, <2>2, <2>3, <2>4
  <1>. QED BY <1>1, <1>2

LEMMA CompileProgram == ASSUME SessionInv, compile_program PROVE SessionInv'
  <1>1. /\ phase = "compile" /\ phase' = phase /\ at' \in Nat
        /\ globals' = globals /\ functions' = functions /\ stores' = stores
    BY DEF compile_program, SessionInv, SessionTypes
  <1>2. lets \cup stores \subseteq 0 .. definitions - 1
    BY DEF SessionInv, StoresOK
  <1>3. CASE Statement = "let"
    BY <1>1, <1>3, Compiled DEF compile_program
  <1>4. CASE Statement # "let"
    BY <1>1, <1>2, <1>4, Compiled DEF compile_program
  <1>. QED BY <1>3, <1>4

LEMMA CompileWithin == ASSUME SessionInv, compile_within PROVE SessionInv'
  <1>1. /\ phase = "compile" /\ phase' = phase /\ at' \in Nat
        /\ globals' = globals /\ functions' = functions /\ lets' = lets
    BY DEF compile_within, SessionInv, SessionTypes
  <1>2. lets \cup stores \subseteq 0 .. definitions - 1
    BY DEF SessionInv, StoresOK
  <1>3. CASE (\E n \in Names : define(n)) /\ stores' = stores \cup {definitions}
    BY <1>1, <1>3, Compiled
  <1>4. CASE /\ \E n \in Names : table[n] # NULL /\ stores' = stores \cup {table[n]}
             /\ UNCHANGED <<table, definitions, promised>>
    <2>1. \A n \in Names : table[n] # NULL => table[n] \in 0 .. definitions - 1
      BY DEF SessionInv, TableOK, SessionTypes
    <2>2. (lets \cup stores)' \subseteq 0 .. definitions - 1
      BY <1>1, <1>2, <1>4, <2>1
    <2>. QED BY <1>1, <1>4, <2>2, Compiled
  <1>. QED BY <1>3, <1>4 DEF compile_within

LEMMA NewMachine == ASSUME SessionInv, new_vm_with_state PROVE SessionInv'
  <1>. USE DEF SessionInv
  <1>1. /\ vm_globals' = globals /\ pending' = promised
        /\ functions' = functions \cup stores
        /\ UNCHANGED <<at, table, definitions, globals, lets, stores, promised>>
    BY DEF new_vm_with_state
  <1>2. SessionTypes' BY <1>1 DEF SessionTypes
  <1>3. StoresOK' BY <1>1 DEF StoresOK
  <1>4. TableOK' BY <1>1 DEF TableOK
  <1>5. RunOK' /\ PromisesOK' BY <1>1 DEF RunOK, PromisesOK, Few, Kept
  <1>. QED BY <1>2, <1>3, <1>4, <1>5

(* A store reaches the name that has its index, or no name at all.         *)
LEMMA IndexSet ==
  ASSUME SessionInv, phase = "run", NEW i \in 0 .. definitions - 1, Set(i),
         UNCHANGED <<table, definitions>>
  PROVE  /\ vm_globals' \in [Slots -> Objects \cup {NULL}]
         /\ pending' \in [Names -> Objects \cup {NULL}]
         /\ Few => Kept(pending, vm_globals)'
  <1>. USE DEF SessionInv
  <1>1. PICK o \in Objects :
          /\ vm_globals' = [vm_globals EXCEPT ![Slot(i)] = o]
          /\ pending' = [n \in Names |-> IF table[n] = i THEN o ELSE pending[n]]
    BY DEF Set
  <1>2. i \in Nat /\ Slot(i) \in Slots
    BY SlotsOfIndexes DEF SessionTypes
  <1>3. /\ vm_globals' \in [Slots -> Objects \cup {NULL}]
        /\ pending' \in [Names -> Objects \cup {NULL}]
    BY <1>1, <1>2 DEF SessionTypes
  <1>4. ASSUME Few, NEW n \in Names, pending'[n] # NULL
        PROVE  table[n] # NULL /\ vm_globals'[table[n]] = pending'[n]
    <2>1. i < GLOBALS_SIZE /\ Slot(i) = i
      BY <1>2, <1>4, SlotsOfIndexes, GlobalsSizePositive DEF Few, SessionTypes
    <2>2. CASE table[n] = i
      <3>1. pending'[n] = o BY <1>1, <2>2
      <3>2. vm_globals'[i] = o BY <1>1, <1>2, <2>1 DEF SessionTypes
      <3>3. i # NULL BY <1>2, NullIsNoNumber
      <3>. QED BY <2>2, <3>1, <3>2, <3>3
    <2>3. CASE table[n] # i
      <3>1. pending'[n] = pending[n] BY <1>1, <2>3
      <3>2. table[n] # NULL /\ vm_globals[table[n]] = pending[n]
        BY <1>4, <3>1 DEF RunOK, Kept
      <3>3. table[n] \in Slots
        BY <1>4, <3>2, GlobalsSizePositive DEF TableOK, SessionTypes, Few, Slots
      <3>4. vm_globals'[table[n]] = vm_globals[table[n]]
        BY <1>1, <2>1, <2>3, <3>3 DEF SessionTypes
      <3>. QED BY <3>1, <3>2, <3>4
    <2>. QED BY <2>2, <2>3
  <1>5. Few => Kept(pending, vm_globals)'
    BY <1>4 DEF Kept
  <1>. QED BY <1>3, <1>5

LEMMA RunVm == ASSUME SessionInv, run_vm PROVE SessionInv'
  <1>. USE DEF SessionInv
  <1>1. /\ phase = "run" /\ phase' = phase
        /\ UNCHANGED <<at, table, definitions, globals, stores, functions, promised>>
    BY DEF run_vm
  <1>2. PICK i \in lets \cup stores \cup functions : Set(i)
    BY DEF run_vm
  <1>3. lets' \subseteq lets
    BY DEF run_vm
  <1>4. /\ vm_globals' \in [Slots -> Objects \cup {NULL}]
        /\ pending' \in [Names -> Objects \cup {NULL}]
        /\ Few => Kept(pending, vm_globals)'
    BY <1>1, <1>2, IndexSet DEF StoresOK
  <1>5. SessionTypes' BY <1>1, <1>4 DEF SessionTypes
  <1>6. StoresOK' BY <1>1, <1>3 DEF StoresOK
  <1>7. TableOK' BY <1>1 DEF TableOK
  <1>8. RunOK' BY <1>1, <1>4 DEF RunOK, Few
  <1>9. PromisesOK' BY <1>1 DEF PromisesOK, Few, Kept
  <1>. QED BY <1>5, <1>6, <1>7, <1>8, <1>9

(* What the machine has kept is what is promised from now on.              *)
LEMMA VmSucceeds == ASSUME SessionInv, vm_succeeds PROVE SessionInv'
  <1>. USE DEF SessionInv
  <1>1. /\ phase = "run" /\ phase' # "run" /\ at' = 0
        /\ globals' = vm_globals /\ promised' = pending
        /\ lets' = {} /\ stores' = {}
        /\ UNCHANGED <<table, definitions, functions>>
    BY DEF vm_succeeds, Leave
  <1>2. SessionTypes' BY <1>1 DEF SessionTypes
  <1>3. StoresOK' BY <1>1 DEF StoresOK
  <1>4. TableOK' BY <1>1 DEF TableOK
  <1>5. RunOK' BY <1>1 DEF RunOK
  <1>6. PromisesOK' BY <1>1 DEF PromisesOK, RunOK, Few, Kept
  <1>. QED BY <1>2, <1>3, <1>4, <1>5, <1>6

----------------------------------------------------------------------------
LEMMA SessionBegins == SessionInit => SessionInv
  <1>. SUFFICES ASSUME SessionInit PROVE SessionInv OBVIOUS
  <1>. USE DEF SessionInit
  <1>1. SessionTypes BY DEF SessionTypes
  <1>2. TableOK /\ RunOK /\ StoresOK BY DEF TableOK, RunOK, StoresOK
  <1>3. PromisesOK BY DEF PromisesOK, Kept
  <1>. QED BY <1>1, <1>2, <1>3 DEF SessionInv

LEMMA SessionStep == SessionInv /\ [SessionNext]_replVars => SessionInv'
  <1>. SUFFICES ASSUME SessionInv, [SessionNext]_replVars PROVE SessionInv' OBVIOUS
  <1>1. CASE \E m \in ReplModes : start_repl(m) BY <1>1, StartRepl
  <1>2. CASE read_input BY <1>2, ReadInput
  <1>3. CASE parse_line BY <1>3, SameSession DEF parse_line
  <1>4. CASE start_line BY <1>4, StartLine
  <1>5. CASE interpret BY <1>5, Interpret
  <1>6. CASE compile_program BY <1>6, CompileProgram
  <1>7. CASE compile_within BY <1>7, CompileWithin
  <1>8. CASE compiler_fails BY <1>8, CompilerFails
  <1>9. CASE new_vm_with_state BY <1>9, NewMachine
  <1>10. CASE run_vm BY <1>10, RunVm
  <1>11. CASE vm_fails BY <1>11, VmFails
  <1>12. CASE vm_succeeds BY <1>12, VmSucceeds
  <1>13. CASE UNCHANGED replVars BY <1>13, SameSession DEF replVars
  <1>. QED BY <1>1, <1>2, <1>3, <1>4, <1>5, <1>6, <1>7, <1>8, <1>9, <1>10, <1>11, <1>12,
              <1>13
       DEF SessionNext, work_on_line

(* The invariant of a session (repl.c:77-121, vm.c:62-67): at every point  *)
(* of every line, what the machine's globals keep for the names and what   *)
(* the REPL's would, if the line failed there.                             *)
THEOREM SessionInvariant == SessionSpec => []SessionInv
  <1>1. SessionInit => SessionInv BY SessionBegins
  <1>2. SessionInv /\ [SessionNext]_replVars => SessionInv' BY SessionStep
  <1>. QED BY <1>1, <1>2, PTL DEF SessionSpec

(* At every prompt a compiled name refers to the object that its let or an *)
(* assignment, in any line or function, has given it last: for any names,  *)
(* objects, number of slots and lengths of lines (repl.c:91-113).          *)
THEOREM NamesKeep == SessionSpec => []NamesKeepTheirObjects
  <1>1. SessionInv => NamesKeepTheirObjects
    <2>. SUFFICES ASSUME SessionInv, definitions <= GLOBALS_SIZE,
                         NEW n \in Names, promised[n] # NULL
         PROVE  globals[Slot(table[n])] = promised[n]
      BY DEF NamesKeepTheirObjects
    <2>. USE DEF SessionInv
    <2>1. table[n] # NULL /\ globals[table[n]] = promised[n]
      BY DEF PromisesOK, Few, Kept
    <2>2. table[n] \in Nat /\ table[n] < GLOBALS_SIZE
      BY <2>1, GlobalsSizePositive DEF SessionTypes, TableOK
    <2>. QED BY <2>1, <2>2, SlotsOfIndexes
  <1>. QED BY <1>1, SessionInvariant, PTL

----------------------------------------------------------------------------
(* The session, and the parser in it *)

(* Every flag main takes for one chooses a mode.                           *)
LEMMA FlagsAreModes == \A flag : get_repl_mode(flag) \in ReplModes
  BY DEF get_repl_mode, Flags, ReplModes

(* A step of the program is one of the session or leaves it alone.         *)
LEMMA SessionPart == [CommandNext]_allVars => [SessionNext]_replVars
  <1>1. ASSUME main PROVE [SessionNext]_replVars
    <2>1. PICK argv \in Suite.argvs :
            \/ start_repl(IF argv = <<>> THEN "interpret" ELSE get_repl_mode(argv[1]))
            \/ UNCHANGED replVars
      BY <1>1 DEF main
    <2>2. (IF argv = <<>> THEN "interpret" ELSE get_repl_mode(argv[1])) \in ReplModes
      BY FlagsAreModes DEF ReplModes
    <2>. QED
      BY <2>1, <2>2 DEF SessionNext
  <1>2. repl_reads => SessionNext
    BY DEF repl_reads, SessionNext
  <1>3. repl_works => SessionNext
    BY DEF repl_works, SessionNext
  <1>4. lex \/ file_is_done \/ compile_file \/ save_file \/ read_binary => UNCHANGED replVars
    BY DEF lex, file_is_done, compile_file, save_file, read_binary
  <1>5. UNCHANGED allVars => UNCHANGED replVars
    BY DEF allVars
  <1>. QED
    BY <1>1, <1>2, <1>3, <1>4, <1>5 DEF CommandNext, process

(* A step of a session is one of the parser or leaves it alone.            *)
LEMMA ParserPart == [SessionNext]_replVars => [ParserNext]_parserVars
  <1>1. ASSUME NEW m, start_repl(m) PROVE UNCHANGED parserVars
    BY <1>1 DEF start_repl
  <1>2. read_input => ParserNext
    BY DEF read_input, ParserNext
  <1>3. parse_line => ParserNext
    BY DEF parse_line, ParserNext
  <1>4. start_line \/ interpret \/ compile_program \/ compile_within \/ compiler_fails
        \/ new_vm_with_state \/ run_vm \/ vm_fails \/ vm_succeeds => UNCHANGED parserVars
    BY DEF start_line, interpret, compile_program, compile_within, compiler_fails,
           new_vm_with_state, run_vm, vm_fails, vm_succeeds
  <1>5. UNCHANGED replVars => UNCHANGED parserVars
    BY DEF replVars
  <1>. QED
    BY <1>1, <1>2, <1>3, <1>4, <1>5 DEF SessionNext, work_on_line

(* To the parser a session is lines to be parsed, one after the other.     *)
THEOREM SessionsParse == SessionSpec => ParserSpec
  <1>1. SessionInit => ParserInit
    BY DEF SessionInit
  <1>. QED
    BY <1>1, ParserPart, PTL DEF SessionSpec, ParserSpec

(* The commands are, for the session, one session.                         *)
THEOREM CommandsAreSessions == CommandSpec => SessionSpec
  <1>1. CommandInit => SessionInit
    BY DEF CommandInit
  <1>. QED
    BY <1>1, SessionPart, PTL DEF CommandSpec, SessionSpec

----------------------------------------------------------------------------
(* The lexer and the files *)

(* What the program is given is of the kind InputsTyped says.              *)
Inputs ==
  /\ Texts[Suite.texts] \subseteq Seq(Characters)
  /\ Suite.bytecodes \subseteq Bytecodes

(* The sublanguage is chosen once.                                         *)
LEMMA InputsStay ==
  /\ CommandInit => Inputs
  /\ Inputs /\ [ParserNext]_parserVars => Inputs'
  <1>1. CommandInit => Inputs
    BY InputsTyped DEF CommandInit, SessionInit, ParserInit, Inputs, Suite
  <1>2. ASSUME [ParserNext]_parserVars PROVE suite' = suite
    BY <1>2 DEF ParserNext, parse, new_parser, lineVars, parserVars
  <1>. QED
    BY <1>1, <1>2 DEF Inputs, Suite

(* A step of the program is one of the lexer or leaves it alone.           *)
LEMMA LexerPart == Inputs /\ [CommandNext]_allVars => [LexerNext]_lexerVars
  <1>. SUFFICES ASSUME Inputs, [CommandNext]_allVars
       PROVE  [LexerNext]_lexerVars
    OBVIOUS
  <1>1. CASE main
    BY <1>1 DEF main, Inputs, LexerNext
  <1>2. CASE repl_reads
    BY <1>2 DEF repl_reads, Inputs, LexerNext
  <1>3. CASE lex
    BY <1>3 DEF lex, LexerNext
  <1>4. CASE file_is_done \/ save_file
    BY <1>4 DEF file_is_done, save_file, LexerNext
  <1>5. CASE repl_works \/ compile_file \/ read_binary
    BY <1>5 DEF repl_works, compile_file, read_binary
  <1>6. CASE UNCHANGED allVars
    BY <1>6 DEF allVars
  <1>. QED
    BY <1>1, <1>2, <1>3, <1>4, <1>5, <1>6 DEF CommandNext, process

(* A step of the program is one of the file or leaves it alone.            *)
LEMMA FilePart == Inputs /\ [CommandNext]_allVars => [FileNext]_fileVars
  <1>. SUFFICES ASSUME Inputs, [CommandNext]_allVars
       PROVE  [FileNext]_fileVars
    OBVIOUS
  <1>1. CASE main
    BY <1>1 DEF main, FileNext
  <1>2. CASE compile_file
    BY <1>2 DEF compile_file, Inputs, FileNext
  <1>3. CASE save_file
    BY <1>3 DEF save_file, FileNext
  <1>4. CASE read_binary
    BY <1>4 DEF read_binary, FileNext
  <1>5. CASE repl_reads \/ repl_works \/ lex \/ file_is_done
    BY <1>5 DEF repl_reads, repl_works, lex, file_is_done
  <1>6. CASE UNCHANGED allVars
    BY <1>6 DEF allVars
  <1>. QED
    BY <1>1, <1>2, <1>3, <1>4, <1>5, <1>6 DEF CommandNext, process

(* Whatever the commands, the lexer they use is the lexer and the binary   *)
(* one of them writes and another reads is the binary.                     *)
THEOREM InputsAreGiven == CommandSpec => []Inputs
  <1>. QED
    BY InputsStay, SessionPart, ParserPart, PTL DEF CommandSpec

(* To the lexer the commands are texts, read one after the other.          *)
THEOREM CommandsLex == CommandSpec => LexerSpec
  <1>1. CommandInit => LexerInit
    BY DEF CommandInit
  <1>. QED
    BY <1>1, LexerPart, InputsAreGiven, PTL DEF CommandSpec, LexerSpec

(* To the file the commands are writes and loads.                          *)
THEOREM CommandsKeepFiles == CommandSpec => FileSpec
  <1>1. CommandInit => FileInit
    BY DEF CommandInit
  <1>. QED
    BY <1>1, FilePart, InputsAreGiven, PTL DEF CommandSpec, FileSpec

----------------------------------------------------------------------------
(* In any sequence of commands: the parser's flag follows the nesting of   *)
(* loops, no missing node is silent, operators group by precedence and     *)
(* calls close their own brackets, names keep their objects, the tokens are *)
(* the longest ones, and a file is loaded as it was written.               *)
THEOREM TheProgramIsRight ==
  CommandSpec => /\ []TypeOK /\ []FlagFollowsNesting /\ []MissingIsReported
                 /\ []Grouping /\ []BracketsFollowCalls
                 /\ []NamesKeepTheirObjects
                 /\ []LexerTypeOK /\ TokensAreLongest
                 /\ []LoadedAsWritten /\ []CutFilesLoadAPrefix
  <1>1. CommandSpec => []TypeOK /\ []FlagFollowsNesting /\ []MissingIsReported
    BY CommandsAreSessions, SessionsParse, TypeCorrect, FlagIsNesting,
       MissingNodesAreReported
  <1>2. CommandSpec => []Grouping /\ []BracketsFollowCalls
    BY CommandsAreSessions, SessionsParse, OperatorsGroup, BracketsMatch
  <1>3. CommandSpec => []NamesKeepTheirObjects
    BY CommandsAreSessions, NamesKeep
  <1>4. CommandSpec => []LexerTypeOK /\ TokensAreLongest
    BY CommandsLex, LexerTypeCorrect, LexerScans
  <1>5. CommandSpec => []LoadedAsWritten /\ []CutFilesLoadAPrefix
    BY CommandsKeepFiles, FilesAreLoadedAsWritten, CutFilesAreLoadedInPart
  <1>. QED
    BY <1>1, <1>2, <1>3, <1>4, <1>5
=============================================================================
