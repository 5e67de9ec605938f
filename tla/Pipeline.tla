------------------------------ MODULE Pipeline ------------------------------
(***************************************************************************)
(* A program is compiled, then the machine runs its code: what `monkey -c` *)
(* and the tests of the machine do (src/src/vm/vm_test.c, run_vm_tests).   *)
(* The code is whatever Compiler makes of any small program.               *)
(***************************************************************************)
EXTENDS CompiledCode

CONSTANTS STACK_SIZE, MAX_FRAMES, GLOBALS_SIZE, MaxObjects

ASSUME SizesAssumption ==
  /\ STACK_SIZE \in Nat \ {0} /\ MAX_FRAMES \in Nat \ {0}
  /\ GLOBALS_SIZE \in Nat /\ MaxObjects \in Nat

VARIABLES heap, elements, stack, sp, globals, frames, status

VM == INSTANCE Machine

compiler == <<suite, tables, scopes, loops, is_void, todo, result, budget>>

machine  == <<heap, elements, stack, sp, globals, frames, status>>

RunInit == Init /\ VM!Init

RunNext ==
  \/ Next /\ UNCHANGED machine
  \/ Compiled /\ VM!Next /\ UNCHANGED compiler

RunSpec == RunInit /\ [][RunNext]_<<vars, machine>>

----------------------------------------------------------------------------

(***************************************************************************)
(* At every moment of a run every frame is at a place of its code, with as *)
(* many values on the stack as the code's own bookkeeping says: the calls  *)
(* and loops a frame has started leave what the compiler counts on,        *)
(* however they end.  A frame's values end where those of the next begin.  *)
(***************************************************************************)
Height(i) ==
  (IF i = Len(frames) THEN sp ELSE frames[i + 1].base)
    - frames[i].base - VM!Running(frames[i]).num_locals

DepthsAgree ==
  status = "OK" =>
    \A i \in 1..Len(frames) :
      [pos |-> frames[i].next, depth |-> Height(i)]
        \in Reached(VM!Instructions(frames[i]))

(***************************************************************************)
(* Built-in functions stay on the stack when they have been called         *)
(* (call_builtin_function).  Even so no instruction takes more than its    *)
(* operands: every frame has at least the values the compiler counts on.   *)
(***************************************************************************)
DepthsSuffice ==
  status = "OK" =>
    \A i \in 1..Len(frames) :
      \E s \in Reached(VM!Instructions(frames[i])) :
        s.pos = frames[i].next /\ s.depth <= Height(i)

(***************************************************************************)
(* The run of a compiled program ends in the program itself, not in some   *)
(* function or loop, and leaves nothing on the stack.                      *)
(***************************************************************************)
EndsInProgram == status = "DONE" => Len(frames) = 1 /\ sp = 0

(***************************************************************************)
(* Compiled code never makes the machine fail an assertion, take a value   *)
(* from an empty stack, leave a frame that is not there or read a captured *)
(* variable its closure does not have.                                     *)
(***************************************************************************)
NeverAstray == status \notin {"ABORT", "UNDEFINED"}

(* What the load at position p of frame i's code reads.                    *)
Loaded(i, p) ==
  LET code    == VM!Instructions(frames[i])
      operand == OperandAt(code, p, 1)
  IN  CASE OpAt(code, p) = "GET_LOCAL" -> stack[frames[i].base + operand + 1]
        [] OpAt(code, p) = "GET_FREE"  -> heap[frames[i].closure].free[operand + 1]
        [] OpAt(code, p) = "CURRENT_CLOSURE" -> frames[i].closure

(***************************************************************************)
(* While a loop's body runs, what it has captured is what the variables of *)
(* the code around it refer to: the same objects, so that an assignment in *)
(* the body, which overwrites the object, is one to the variable.  (The    *)
(* frame of the code around the body is right behind its LOOP; the loads   *)
(* come before the CLOSURE before that.)                                   *)
(***************************************************************************)
LoopsShareVariables ==
  status = "OK" =>
    \A i \in 1..Len(frames) - 1 :
      VM!Running(frames[i + 1]).kind = "loop" =>
        LET code == VM!Instructions(frames[i])
            free == heap[frames[i + 1].closure].free
            loop == frames[i].next - InstructionLength("LOOP")
            load[n \in Nat] == IF n = 0 THEN Before(code, loop)
                                        ELSE Before(code, load[n - 1])
        IN  \A n \in 1..Len(free) :
              free[Len(free) + 1 - n] = Loaded(i, load[n])

(***************************************************************************)
(* No step of a run changes a constant of the program: the list of known   *)
(* bugs in the README says that reassigning a captured variable once did.  *)
(***************************************************************************)
ConstantsKept ==
  [][heap # <<>> =>
       \A i \in 1..Len(constants) : heap'[i] = heap[i]]_<<vars, machine>>

(***************************************************************************)
(* An assignment to a captured variable writes no more than the object it  *)
(* overwrites has room for (vm.c asks whether it may, when the types       *)
(* differ, and says that no errors could be reproduced).                   *)
(***************************************************************************)
AssignmentsFit == status # "OVERRUN"

============================================================================
