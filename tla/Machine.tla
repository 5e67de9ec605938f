------------------------------ MODULE Machine ------------------------------
(***************************************************************************)
(* The virtual machine (src/src/vm/vm.c, src/src/vm/frame.c).              *)
(*                                                                         *)
(* A stack of references to objects, a stack of frames, the globals, and   *)
(* the bytecode it was given.  One action per kind of instruction, each    *)
(* with everything run_vm does for it.  The machine checks the room on the *)
(* stack when it pushes and the types of some operands.  Where it checks   *)
(* nothing and reads or writes what is not there, the run ends; its status *)
(* says why:                                                               *)
(*   UNDEFINED  a value, frame or captured variable that does not exist    *)
(*   UNSET      a variable that has not been given a value: a global holds *)
(*              NULL then, a local what some expression has left there     *)
(*   OUTSIDE    an element that does not exist                             *)
(*   OVERRUN    a write behind the end of an object                        *)
(*   CLOBBERED  a write over a closure that is running                     *)
(*   TOO_DEEP   a frame behind the end of the array of frames              *)
(*   TRAPPED    a remainder by zero                                        *)
(*   ABORT      a failed assertion                                         *)
(*                                                                         *)
(* Objects are references because variables share them: OP_SET_FREE        *)
(* overwrites the object a captured variable refers to.  A number or a     *)
(* boolean is known only by the object it was made in (`id`); what depends *)
(* on its value, a condition or an index, may go either way.  The          *)
(* constants are numbers; strings, to the machine one more type that can   *)
(* be added, compared and used as a key, are left out.                     *)
(***************************************************************************)
EXTENDS Code, Integers

CONSTANTS
  STACK_SIZE,    \* room on the value stack
  MAX_FRAMES,    \* room for frames
  GLOBALS_SIZE,  \* room for globals
  MaxObjects     \* bound: objects a run allocates

VARIABLES
  arrays,     \* the bytecode: arrays of code, arrays[1] the program's
  constants,  \* the constant pool
  heap,       \* every object allocated so far; a reference is its place
  elements,   \* elements[id]: the storage of an array or a hash
  stack,      \* what each slot of the stack holds
  sp,         \* slots in use
  globals,
  frames,     \* outermost first
  status      \* "LOADED" before the run, "OK" while it goes on, how it ended

bytecode == <<arrays, constants>>
machine  == <<heap, elements, stack, sp, globals, frames, status>>

NONE == 0  \* a reference that was never set

----------------------------------------------------------------------------
(* Objects *)

Types == {"NULL", "BOOLEAN", "NUMBER", "ERROR", "BUILTIN", "ARRAY", "HASH",
          "CLOSURE"}

(* sizeof_object; any two of them that differ here differ in the build.    *)
sizeof_object(type) ==
  CASE type = "NULL" -> 4
    [] type = "BOOLEAN" -> 8
    [] type \in {"NUMBER", "ERROR", "BUILTIN"} -> 16
    [] type = "ARRAY" -> 32
    [] type = "HASH" -> 40
    [] type = "CLOSURE" -> 824

(* `room` is what was allocated for the object, whatever it holds later.   *)
Object(type, id) ==
  [type |-> type, id |-> id, room |-> sizeof_object(type), body |-> 0, free |-> <<>>]

New(type) == Object(type, Len(heap) + 1)

(* A closure: the constant it runs (0 for the program) and what it has     *)
(* captured.                                                               *)
Closure(body, free) ==
  [Object("CLOSURE", 0) EXCEPT !.body = body, !.free = free]

(* get_hash_key: what has a key; the key of a negative number counts as    *)
(* none.                                                                   *)
Hashable == {"BOOLEAN", "NUMBER"}
Unhashable == Types \ {"BOOLEAN"}

Allocated == Len(heap) + 1

(* Reference number one past the constants: the local variable of          *)
(* OP_GET_BUILTIN whose address every built-in is pushed as.               *)
Definition == Len(constants) + 1

(* (The objects that are there from the start do not count.)               *)
MayAllocate == Allocated - (Definition + 1) <= MaxObjects

----------------------------------------------------------------------------
(* Frames *)

(* `given` are the locals that have a value.                               *)
new_frame(closure, base, given) ==
  [closure |-> closure, next |-> 0, base |-> base, given |-> given]

Frame == frames[Len(frames)]

(* The compiled function or loop a frame runs; the program is a function   *)
(* without locals.                                                         *)
Running(frame) ==
  IF heap[frame.closure].body = 0
  THEN [kind |-> "function", ins |-> 1, num_locals |-> 0, num_parameters |-> 0]
  ELSE constants[heap[frame.closure].body]

Instructions(frame) == arrays[Running(frame).ins]

OpOf(frame) == NameOf(Instructions(frame)[frame.next + 1])

Operand(i) == OperandAt(Instructions(Frame), Frame.next, i)

(* The run goes on with the instruction named `name`.                      *)
Executes(names) ==
  /\ status = "OK"
  /\ Frame.next < Len(Instructions(Frame))
  /\ OpOf(Frame) \in names

(* The frames once the current one goes on at position p, or behind the    *)
(* instruction it is at.                                                   *)
JumpedTo(p) == [frames EXCEPT ![Len(frames)].next = p]
Advanced == JumpedTo(Frame.next + InstructionLength(OpOf(Frame)))

----------------------------------------------------------------------------
(* The stack *)

(* The i-th value from the top.                                            *)
Value(i) == stack[sp - i + 1]

TypeOf(ref) == heap[ref].type

Stop(how) ==
  /\ status' = how
  /\ UNCHANGED <<heap, elements, stack, sp, globals, frames>>

(* stack_push of `ref` when `count` values have been taken, by which the   *)
(* frames become fs.                                                       *)
PushIn(fs, count, ref) ==
  IF sp - count >= STACK_SIZE
  THEN Stop("STACK_OVERFLOW")
  ELSE /\ stack' = [stack EXCEPT ![sp - count + 1] = ref]
       /\ sp' = sp - count + 1
       /\ frames' = fs
       /\ UNCHANGED <<heap, elements, globals, status>>

Push(count, ref) == PushIn(Advanced, count, ref)

(* The same with an object that is new.                                    *)
PushNew(count, object, contents) ==
  /\ MayAllocate
  /\ IF sp - count >= STACK_SIZE
     THEN Stop("STACK_OVERFLOW")
     ELSE /\ heap' = Append(heap, object)
          /\ elements' = Append(elements, contents)
          /\ stack' = [stack EXCEPT ![sp - count + 1] = Allocated]
          /\ sp' = sp - count + 1
          /\ frames' = Advanced
          /\ UNCHANGED <<globals, status>>

Pop ==
  /\ sp' = sp - 1
  /\ frames' = Advanced
  /\ UNCHANGED <<heap, elements, stack, globals, status>>

(* What an instruction does that takes `count` values and looks into those *)
(* whose places, from the top, are in `inspected`.                         *)
Taking(count, inspected, Does) ==
  IF sp < count \/ sp > STACK_SIZE THEN Stop("UNDEFINED")
  ELSE IF \E i \in inspected : Value(i) = NONE THEN Stop("UNSET")
  ELSE Does

----------------------------------------------------------------------------
(* Constants and operators *)

(* Mutant: the constant itself is pushed.                                  *)
GetConstantShared == Executes({"CONSTANT"}) /\ Push(0, Operand(1) + 1)

(* The constant is copied.                                                 *)
GetConstant ==
  /\ Executes({"CONSTANT"})
  /\ PushNew(0, heap[Operand(1) + 1], <<>>)

NewValue ==
  \/ Executes({"TRUE", "FALSE"}) /\ PushNew(0, New("BOOLEAN"), <<>>)
  \/ Executes({"NULL"}) /\ PushNew(0, New("NULL"), <<>>)

(* What an operator makes of operands of these types, or the error.        *)
Binary(op, left, right) ==
  IF left = right /\ left = "NUMBER" /\ op \notin {"AND", "OR"} THEN "NUMBER"
  ELSE IF left = right /\ left = "BOOLEAN" /\ op \in {"AND", "OR"} THEN "BOOLEAN"
  ELSE "UNSUPPORTED_OPERATION"

Comparison(op, left, right) ==
  IF left = right /\ left # "NUMBER" /\ op = "GREATER"
  THEN "UNSUPPORTED_OPERATION" ELSE "BOOLEAN"

Prefix(op, operand) ==
  IF op = "MINUS" /\ operand # "NUMBER" THEN "UNSUPPORTED_TYPE_FOR_OPERATION"
  ELSE IF op = "MINUS" THEN "NUMBER" ELSE "BOOLEAN"

Give(count, outcome) ==
  IF outcome \in Types THEN PushNew(count, New(outcome), <<>>) ELSE Stop(outcome)

BinaryOperation ==
  /\ Executes({"ADD", "SUB", "MUL", "DIV", "MOD", "RSHIFT", "LSHIFT",
               "BIT_AND", "BIT_OR", "BIT_XOR", "AND", "OR"})
  /\ LET outcome == Binary(OpOf(Frame), TypeOf(Value(2)), TypeOf(Value(1)))
     IN  Taking(2, {1, 2},
           \/ Give(2, outcome)
           \/ OpOf(Frame) = "MOD" /\ outcome = "NUMBER" /\ Stop("TRAPPED"))

ComparisonOperation ==
  /\ Executes({"EQ", "NOT_EQ", "GREATER"})
  /\ Taking(2, {1, 2},
            Give(2, Comparison(OpOf(Frame), TypeOf(Value(2)), TypeOf(Value(1)))))

PrefixOperation ==
  /\ Executes({"BANG", "MINUS"})
  /\ Taking(1, {1}, Give(1, Prefix(OpOf(Frame), TypeOf(Value(1)))))

DropTop == Executes({"POP"}) /\ Taking(1, {}, Pop)

----------------------------------------------------------------------------
(* Jumps *)

Jump ==
  /\ Executes({"JMP"})
  /\ frames' = JumpedTo(Operand(1))
  /\ UNCHANGED <<heap, elements, stack, sp, globals, status>>

(* is_truthy: what a condition of this type may be.                        *)
Truth(type) ==
  CASE type = "BOOLEAN" -> BOOLEAN
    [] type = "NULL"    -> {FALSE}
    [] OTHER            -> {TRUE}

JumpIfFalse ==
  /\ Executes({"JMP_IF_FALSE"})
  /\ Taking(1, {1},
       \E truth \in Truth(TypeOf(Value(1))) :
         /\ sp' = sp - 1
         /\ frames' = IF truth THEN Advanced ELSE JumpedTo(Operand(1))
         /\ UNCHANGED <<heap, elements, stack, globals, status>>)

----------------------------------------------------------------------------
(* Variables *)

GetGlobal == Executes({"GET_GLOBAL"}) /\ Push(0, globals[Operand(1)])

SetGlobal ==
  /\ Executes({"SET_GLOBAL"})
  /\ Taking(1, {},
       /\ globals' = [globals EXCEPT ![Operand(1)] = Value(1)]
       /\ sp' = sp - 1
       /\ frames' = Advanced
       /\ UNCHANGED <<heap, elements, stack, status>>)

Local(frame, index) == frame.base + index + 1

(* Mutant: the value is copied as constants are.                           *)
GetLocalCopied ==
  /\ Executes({"GET_LOCAL"})
  /\ LET ref == stack[Local(Frame, Operand(1))]
     IN  IF Operand(1) \notin Frame.given THEN Stop("UNSET")
         ELSE IF ref = NONE THEN Push(0, NONE)
         ELSE PushNew(0, heap[ref], <<>>)

GetLocal ==
  /\ Executes({"GET_LOCAL"})
  /\ IF Operand(1) \notin Frame.given THEN Stop("UNSET")
     ELSE IF sp >= STACK_SIZE THEN Stop("STACK_OVERFLOW")
     ELSE Push(0, stack[Local(Frame, Operand(1))])

SetLocal ==
  /\ Executes({"SET_LOCAL"})
  /\ Taking(1, {},
       /\ stack' = [stack EXCEPT ![Local(Frame, Operand(1))] = Value(1)]
       /\ sp' = sp - 1
       /\ frames' = [Advanced EXCEPT ![Len(frames)].given = @ \cup {Operand(1)}]
       /\ UNCHANGED <<heap, elements, globals, status>>)

Free == heap[Frame.closure].free

GetFree ==
  /\ Executes({"GET_FREE"})
  /\ IF Operand(1) < Len(Free) THEN Push(0, Free[Operand(1) + 1])
                               ELSE Stop("UNDEFINED")

(* The object the variable refers to is overwritten, byte by byte, by the  *)
(* new one, whatever was allocated for it, even if it is a closure that is *)
(* running.                                                                *)
SetFree ==
  LET target == Free[Operand(1) + 1]
      value  == heap[Value(1)]
  IN  /\ Executes({"SET_FREE"})
      /\ Taking(1, {1},
           IF Operand(1) >= Len(Free) THEN Stop("UNDEFINED")
           ELSE IF target = NONE THEN Stop("UNSET")
           ELSE IF value.type # "CLOSURE"
                   /\ \E i \in 1..Len(frames) : frames[i].closure = target
           THEN Stop("CLOBBERED")
           ELSE IF sizeof_object(value.type) > heap[target].room
           THEN Stop("OVERRUN")
           ELSE /\ heap' = [heap EXCEPT ![target] = [value EXCEPT !.room = heap[target].room]]
                /\ sp' = sp - 1
                /\ frames' = Advanced
                /\ UNCHANGED <<elements, stack, globals, status>>)

(* The built-in is copied to a local variable and its address is pushed.   *)
GetBuiltin ==
  /\ Executes({"GET_BUILTIN"})
  /\ IF sp >= STACK_SIZE
     THEN Stop("STACK_OVERFLOW")
     ELSE /\ heap' = [heap EXCEPT ![Definition] = Object("BUILTIN", Operand(1))]
          /\ stack' = [stack EXCEPT ![sp + 1] = Definition]
          /\ sp' = sp + 1
          /\ frames' = Advanced
          /\ UNCHANGED <<elements, globals, status>>

----------------------------------------------------------------------------
(* Arrays and hashes *)

(* The `count` values on top, the lowest first.                            *)
TopValues(count) == SubSeq(stack, sp - count + 1, sp)

MakeArray ==
  LET count == Operand(1)
  IN  /\ Executes({"ARRAY"})
      /\ Taking(count, {}, PushNew(count, New("ARRAY"), TopValues(count)))

(* Mutant: the operand is taken for the number of pairs.                   *)
MakeHashOfPairs ==
  LET count == 2 * Operand(1)
  IN  /\ Executes({"HASH"})
      /\ Taking(count, {}, PushNew(count, New("HASH"), TopValues(count)))

(* Pairs with equal keys are kept apart here; which of them a lookup finds *)
(* depends on values.                                                      *)
MakeHash ==
  LET count == Operand(1)
      keys  == {i \in 1..count : i % 2 = 0}
  IN  /\ Executes({"HASH"})
      /\ Taking(count, keys,
           \/ /\ \E i \in keys : TypeOf(Value(i)) \in Unhashable
              /\ Stop("UNHASHABLE_OBJECT")
           \/ /\ \A i \in keys : TypeOf(Value(i)) \in Hashable
              /\ PushNew(count, New("HASH"),
                         [i \in 1..count \div 2 |-> TopValues(count)[2 * i]]))

Stored(ref) == elements[heap[ref].id]

(* The largest index of an empty array is its length 0 minus 1, a size_t:  *)
(* every index is below it.                                                *)
Index ==
  LET left  == Value(2)
      index == Value(1)
      Found == \/ \E i \in 1..Len(Stored(left)) : Push(2, Stored(left)[i])
               \/ PushNew(2, New("NULL"), <<>>)
  IN  /\ Executes({"INDEX"})
      /\ Taking(2, {1, 2},
           CASE TypeOf(left) = "ARRAY" /\ TypeOf(index) = "NUMBER" ->
                  IF Stored(left) = <<>> THEN Stop("OUTSIDE") ELSE Found
             [] TypeOf(left) = "HASH" ->
                  \/ TypeOf(index) \in Unhashable /\ Stop("UNHASHABLE_OBJECT")
                  \/ TypeOf(index) \in Hashable /\ Found
             [] OTHER -> Stop("UNINDEXABLE_OBJECT"))

(* Element `i` of the array or hash becomes the value on top, which is     *)
(* also the result.                                                        *)
Assign(indexed, i) ==
  IF sp - 3 >= STACK_SIZE THEN Stop("STACK_OVERFLOW")
  ELSE /\ elements' = [elements EXCEPT ![heap[indexed].id] =
                         IF i > Len(@) THEN Append(@, Value(1))
                                       ELSE [@ EXCEPT ![i] = Value(1)]]
       /\ stack' = [stack EXCEPT ![sp - 2] = Value(1)]
       /\ sp' = sp - 2
       /\ frames' = Advanced
       /\ UNCHANGED <<heap, globals, status>>

(* The index of an array is not compared with its length.                  *)
ReassignIndex ==
  LET indexed == Value(3)
      index   == Value(2)
      length  == Len(Stored(indexed))
  IN  /\ Executes({"REASSIGN_INDEX"})
      /\ Taking(3, {2, 3},
           CASE TypeOf(indexed) = "ARRAY" ->
                  IF TypeOf(index) # "NUMBER" THEN Stop("UNUSABLE_AS_INDEX")
                  ELSE \/ \E i \in 1..length : Assign(indexed, i)
                       \/ Stop("OUTSIDE")
             [] TypeOf(indexed) = "HASH" ->
                  \/ TypeOf(index) \in Unhashable /\ Stop("UNUSABLE_AS_INDEX")
                  \/ /\ TypeOf(index) \in Hashable
                     /\ \E i \in 1..length + 1 : Assign(indexed, i)
             [] OTHER -> Stop("UNINDEXABLE_OBJECT"))

----------------------------------------------------------------------------
(* Functions and loops *)

(* The captured values are on the stack, the first one lowest.             *)
MakeClosure ==
  LET count == Operand(2)
  IN  /\ Executes({"CLOSURE"})
      /\ Taking(count, {},
                PushNew(count, Closure(Operand(1) + 1, TopValues(count)), <<>>))

CurrentClosure == Executes({"CURRENT_CLOSURE"}) /\ Push(0, Frame.closure)

(* push_frame does not look whether there is room.                         *)
Enter(frame, locals) ==
  IF Len(frames) = MAX_FRAMES THEN Stop("TOO_DEEP")
  ELSE /\ frames' = Append(Advanced, frame)
       /\ sp' = frame.base + locals
       /\ UNCHANGED <<heap, elements, stack, globals, status>>

(* The arguments become the first locals of the new frame.                 *)
call_closure(closure, count) ==
  LET callee == constants[heap[closure].body]
  IN  IF callee.kind # "function" THEN Stop("ABORT")
      ELSE IF callee.num_parameters # count
      THEN Stop("WRONG_NUMBER_OF_ARGUMENTS")
      ELSE Enter(new_frame(closure, sp - count, 0..count - 1), callee.num_locals)

(* What one of the built-in functions, it is left open which, makes of its *)
(* arguments: first, last and rest look into an array, push and shift make *)
(* one with another element.  The arguments leave the stack, the built-in  *)
(* does not.                                                               *)
call_builtin_function(count) ==
  LET first  == Value(count)
      stored == Stored(first)
  IN  \/ \E type \in {"NUMBER", "NULL", "ERROR"} : PushNew(count, New(type), <<>>)
      \/ /\ count \in {1, 2} /\ first # NONE /\ TypeOf(first) = "ARRAY"
         /\ \/ /\ count = 1 /\ stored # <<>>
               /\ \/ \E k \in {1, Len(stored)} : Push(count, stored[k])
                  \/ PushNew(count, New("ARRAY"), Tail(stored))
            \/ /\ count = 2
               /\ \E contents \in {Append(stored, Value(1)), <<Value(1)>> \o stored} :
                    PushNew(count, New("ARRAY"), contents)

Call ==
  LET count  == Operand(1)
      callee == Value(count + 1)
  IN  /\ Executes({"CALL"})
      /\ Taking(count + 1, {count + 1},
           CASE TypeOf(callee) = "BUILTIN" -> call_builtin_function(count)
             [] TypeOf(callee) = "CLOSURE" -> call_closure(callee, count)
             [] OTHER -> Stop("CALL_NON_FUNCTION"))

(* Leaving a frame: what is below its locals is the function that was      *)
(* called, and makes room for the result.  A frame that begins at the      *)
(* bottom of the stack has nothing below it: sp, a size_t, becomes 0 minus *)
(* 1, and the push that follows finds the stack full.                      *)
Caller == SubSeq(frames, 1, Len(frames) - 1)

Leavable == Frame.base > 0

Return ==
  /\ Executes({"RETURN"})
  /\ IF ~Leavable THEN Stop("STACK_OVERFLOW")
     ELSE /\ MayAllocate
          /\ heap' = Append(heap, New("NULL"))
          /\ elements' = Append(elements, <<>>)
          /\ stack' = [stack EXCEPT ![Frame.base] = Allocated]
          /\ sp' = Frame.base
          /\ frames' = Caller
          /\ UNCHANGED <<globals, status>>

(* Mutant: the function that was called stays on the stack.                *)
ReturnValueAbove ==
  /\ Executes({"RETURN_VALUE"})
  /\ Taking(1, {},
       IF ~Leavable THEN Stop("STACK_OVERFLOW")
       ELSE IF sp - 1 < Frame.base THEN Stop("UNDEFINED")
       ELSE /\ stack' = [stack EXCEPT ![Frame.base + 1] = Value(1)]
            /\ sp' = Frame.base + 1
            /\ frames' = Caller
            /\ UNCHANGED <<heap, elements, globals, status>>)

(* When the value came from below the frame, objects in use are freed.     *)
ReturnValue ==
  /\ Executes({"RETURN_VALUE"})
  /\ Taking(1, {},
       IF ~Leavable THEN Stop("STACK_OVERFLOW")
       ELSE IF sp - 1 < Frame.base THEN Stop("UNDEFINED")
       ELSE /\ stack' = [stack EXCEPT ![Frame.base] = Value(1)]
            /\ sp' = Frame.base
            /\ frames' = Caller
            /\ UNCHANGED <<heap, elements, globals, status>>)

Loop ==
  LET closure == Value(1)
      body    == constants[heap[closure].body]
  IN  /\ Executes({"LOOP"})
      /\ Taking(1, {1},
           IF TypeOf(closure) # "CLOSURE" \/ body.kind # "loop" THEN Stop("ABORT")
           ELSE Enter(new_frame(closure, sp - 1, {}), body.num_locals))

(* Mutant: the loop's locals stay on the stack.                            *)
LeaveLoopKeeping(fs) ==
  IF Len(frames) = 1 THEN Stop("UNDEFINED")
  ELSE /\ frames' = fs
       /\ UNCHANGED <<heap, elements, stack, sp, globals, status>>

(* Mutant: a loop is left like a function.                                 *)
LeaveLoopAsFunction(fs) ==
  IF Len(frames) = 1 THEN Stop("UNDEFINED")
  ELSE /\ frames' = fs
       /\ sp' = Frame.base - 1
       /\ UNCHANGED <<heap, elements, stack, globals, status>>

LeaveLoop(fs) ==
  IF Len(frames) = 1 THEN Stop("UNDEFINED")
  ELSE /\ frames' = fs
       /\ sp' = Frame.base
       /\ UNCHANGED <<heap, elements, stack, globals, status>>

Continue == Executes({"CONTINUE"}) /\ LeaveLoop(Caller)

(* Mutant: the jump is made, the frame stays.                              *)
BreakInside == Executes({"BREAK"}) /\ LeaveLoop(JumpedTo(Operand(1)))

(* The position is one of the code that runs the loop.                     *)
Break ==
  /\ Executes({"BREAK"})
  /\ LeaveLoop([Caller EXCEPT ![Len(Caller)].next = Operand(1)])

----------------------------------------------------------------------------

(* The constants of the pool, compiled functions and loops among them,     *)
(* come first; then the variable of OP_GET_BUILTIN and the program.        *)
Start ==
  /\ status = "LOADED"
  /\ status' = "OK"
  /\ heap' = [i \in 1..Len(constants) |-> Object("NUMBER", i)]
               \o <<Object("BUILTIN", 0), Closure(0, <<>>)>>
  /\ elements' = [i \in 1..Len(heap') |-> <<>>]
  /\ frames' = <<new_frame(Len(heap'), 0, {})>>
  /\ UNCHANGED <<stack, sp, globals>>

(* The run ends where the code of the current frame does.                  *)
End ==
  /\ status = "OK"
  /\ Frame.next >= Len(Instructions(Frame))
  /\ Stop("DONE")

Init ==
  /\ status = "LOADED"
  /\ heap = <<>> /\ elements = <<>> /\ frames = <<>>
  /\ stack = [i \in 1..STACK_SIZE |-> NONE]
  /\ sp = 0
  /\ globals = [i \in 0..GLOBALS_SIZE - 1 |-> NONE]

Step ==
  \/ GetConstant \/ NewValue
  \/ BinaryOperation \/ ComparisonOperation \/ PrefixOperation \/ DropTop
  \/ Jump \/ JumpIfFalse
  \/ GetGlobal \/ SetGlobal \/ GetLocal \/ SetLocal
  \/ GetFree \/ SetFree \/ GetBuiltin
  \/ MakeArray \/ MakeHash \/ Index \/ ReassignIndex
  \/ MakeClosure \/ CurrentClosure \/ Call
  \/ Return \/ ReturnValue
  \/ Loop \/ Continue \/ Break
  \/ End

Next == (Start \/ Step) /\ UNCHANGED bytecode

============================================================================
