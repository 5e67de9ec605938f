---------------------------- MODULE CommandLine ----------------------------
(***************************************************************************)
(* The commands a user runs one after the other (src/src/main.c): each is  *)
(* a process that starts a session, or reads a source file and evaluates   *)
(* or compiles it (src/src/file_reader/file_reader.c), or reads a binary.  *)
(* Only the binary is there for the next command.                          *)
(*                                                                         *)
(* What the parser and the compiler make of a source file is Parser's and  *)
(* Compiler's matter: here its tokens may parse or not, compile or not.    *)
(***************************************************************************)
EXTENDS Session, Lexer, BytecodeFile

CONSTANT Texts  \* sets of texts; Suite.texts says which a command may read

(* What the commands find: texts, and what a compilation can end with.     *)
ASSUME InputsTyped ==
  \A i \in DOMAIN Suites :
    /\ Texts[Suites[i].texts] \subseteq Seq(Characters)
    /\ Suites[i].bytecodes \subseteq Bytecodes

VARIABLES
  command,  \* what the process does, "none" when there is none
  commands  \* commands still to come

commandVars == <<command, commands>>
allVars == <<replVars, lexerVars, fileVars, commandVars>>

----------------------------------------------------------------------------
(* argv is what comes after the program's name.                            *)

Flags == [i \in {"-i", "-c", "-l", "-d"} |->
            CASE i = "-i" -> "interpret" [] i = "-c" -> "compile"
              [] i = "-l" -> "load"      [] i = "-d" -> "disassemble"]

get_repl_mode(flag) == IF flag \in DOMAIN Flags THEN Flags[flag] ELSE "interpret"

HasDash(a) == a \in DOMAIN Flags \cup {"-h", "-x"}

OnFile == [interpret |-> "eval_file", load |-> "load_file",
           disassemble |-> "disassemble_file", compile |-> "usage"]

(* What main does with them: the name of the function it calls.            *)
Dispatch(argv) ==
  CASE argv = <<>> -> "start_repl"
    [] Len(argv) = 1 -> IF argv[1] # "-h" /\ HasDash(argv[1]) THEN "start_repl" ELSE "usage"
    [] Len(argv) = 2 -> IF HasDash(argv[1]) THEN OnFile[get_repl_mode(argv[1])] ELSE "usage"
    [] Len(argv) = 3 -> IF get_repl_mode(argv[1]) = "interpret" THEN "eval_file" ELSE "compile_file"
    [] OTHER -> "usage"

main ==
  /\ command = "none" /\ commands > 0
  /\ commands' = commands - 1
  /\ \E argv \in Suite.argvs :
       \/ /\ Dispatch(argv) = "start_repl"
          /\ start_repl(IF argv = <<>> THEN "interpret" ELSE get_repl_mode(argv[1]))
          /\ command' = "start_repl"
          /\ UNCHANGED <<lexerVars, fileVars>>
       \/ /\ Dispatch(argv) \in {"eval_file", "compile_file"}
          /\ \E t \in Texts[Suite.texts] : new_file_lexer(t)
          /\ command' = Dispatch(argv)
          /\ UNCHANGED <<replVars, fileVars>>
       \/ /\ Dispatch(argv) \in {"load_file", "disassemble_file"}
          /\ open_binary
          /\ command' = IF io' = "read" THEN Dispatch(argv) ELSE "none"
          /\ UNCHANGED <<replVars, lexerVars>>
       \/ /\ Dispatch(argv) = "usage"
          /\ UNCHANGED <<replVars, lexerVars, fileVars, command>>

----------------------------------------------------------------------------
(* A session: every line is lexed, then parsed.                            *)

repl_reads ==
  /\ command = "start_repl"
  /\ read_input
  /\ \E t \in Texts[Suite.texts] : new_lexer(t)
  /\ UNCHANGED <<fileVars, commandVars>>

repl_works ==
  /\ command = "start_repl"
  /\ lexing = "ended"
  /\ work_on_line
  /\ UNCHANGED <<lexerVars, fileVars, commandVars>>

lex ==
  /\ next_token
  /\ UNCHANGED <<replVars, fileVars, commandVars>>

(* A source file: get_program_from_file, then eval_file prints a value and *)
(* compile_file, unless a step before has failed, saves bytecode.          *)
file_is_done ==
  /\ command \in {"eval_file", "compile_file"}
  /\ lexing \in {"ended", "dead"} /\ io = "idle"
  /\ command' = "none"
  /\ close_lexer
  /\ UNCHANGED <<replVars, fileVars, commands>>

compile_file ==
  /\ command = "compile_file" /\ lexing = "ended"
  /\ \E b \in Suite.bytecodes : save_to_file(b)
  /\ UNCHANGED <<replVars, lexerVars, commandVars>>

save_file ==
  /\ command = "compile_file"
  /\ save \/ cut_short
  /\ command' = IF io' = "idle" THEN "none" ELSE command
  /\ IF io' = "idle" THEN close_lexer ELSE UNCHANGED lexerVars
  /\ UNCHANGED <<replVars, commands>>

(* load_file, disassemble_file *)
read_binary ==
  /\ command \in {"load_file", "disassemble_file"}
  /\ get_bytecode_from_file \/ close_binary
  /\ command' = IF io' = "idle" THEN "none" ELSE command
  /\ UNCHANGED <<replVars, lexerVars, commands>>

----------------------------------------------------------------------------
CommandInit ==
  /\ SessionInit /\ LexerInit /\ FileInit
  /\ command = "none"
  /\ commands = Suite.commands

(* What a process does on its own.                                         *)
process ==
  \/ repl_works    \/ lex        \/ file_is_done
  \/ compile_file  \/ save_file  \/ read_binary

CommandNext == main \/ repl_reads \/ process
CommandSpec == CommandInit /\ [][CommandNext]_allVars

(* One thread: a process that has what it waits for goes on.               *)
FairCommandSpec == CommandSpec /\ WF_allVars(process)

----------------------------------------------------------------------------
(* Properties *)

(* Every line is lexed and parsed to its end, unless the process dies on   *)
(* the way: the lexer and the parser stop at the text's end whatever the   *)
(* text is.  What the line does then may take forever.                     *)
LinesAreParsed ==
  (phase = "parse") ~> (phase # "parse" \/ status = "dead" \/ lexing = "dead")

(* A source file is lexed to its end and a binary loaded to its end,       *)
(* however the file has been cut or whatever characters are in it.         *)
(* Evaluating a program, compiling it and running it are no steps of these *)
(* commands here.                                                          *)
FilesAreRead ==
  (command \notin {"none", "start_repl"}) ~> (command = "none")

=============================================================================
