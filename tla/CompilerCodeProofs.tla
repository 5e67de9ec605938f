------------------------- MODULE CompilerCodeProofs -------------------------
(***************************************************************************)
(* What the compiler's actions do to the code they write, for any program. *)
(*                                                                         *)
(* Code is described by its layout (Laid): where its instructions are,     *)
(* what operands the compiler meant, how many values are on the stack at   *)
(* each of them, and which jumps have no target yet.  Between two steps    *)
(* every array has a layout, and for everything left to do there is a      *)
(* state it finds and one it leaves (Core): how many scopes and loops are  *)
(* open, the depth of the stack, the flag for loops.  The actions in one   *)
(* scope are dealt with here, those that enter or leave scopes and loops,  *)
(* and the theorems, in CompilerProofs.                                    *)
(***************************************************************************)
EXTENDS CompiledCode, SequenceTheorems, FiniteSetTheorems, TLAPS

STP == INSTANCE SymbolTableProofs WITH MaxDefs <- 0, MaxDepth <- 0, resolved <- NULL

----------------------------------------------------------------------------
(* Instructions *)

OpSet == {OpNames[i] : i \in 1..OP_COUNT}

(* The opcodes are bytes, and reading one gives the instruction's name.    *)
LEMMA Opcodes ==
  /\ OP_COUNT = 43
  /\ \A op \in OpSet :
       /\ Opcode[op] \in 0..OP_COUNT - 1
       /\ NameOf(Opcode[op]) = op
  <1>1. OP_COUNT = 43
    BY DEF OP_COUNT, OpNames
  <1>2. ASSUME NEW op \in OpSet
        PROVE  Opcode[op] \in 0..OP_COUNT - 1 /\ NameOf(Opcode[op]) = op
    <2> DEFINE Is(i) == i \in 1..OP_COUNT /\ OpNames[i] = op
               c == CHOOSE i \in 1..OP_COUNT : OpNames[i] = op
    <2>1. c \in 1..OP_COUNT /\ OpNames[c] = op
      BY DEF OpSet
    <2>2. Opcode[op] = c - 1
      BY DEF Opcode, OpSet
    <2>. HIDE DEF c
    <2>3. QED
      BY <1>1, <2>1, <2>2 DEF NameOf
  <1>. QED
    BY <1>1, <1>2

LEMMA OpsExist ==
  /\ InfixOps \cup PrefixOps \subseteq OpSet
  /\ {"CONSTANT", "POP", "TRUE", "JMP_IF_FALSE", "JMP", "NULL", "GET_GLOBAL",
      "SET_GLOBAL", "ARRAY", "HASH", "INDEX", "CALL", "RETURN_VALUE", "RETURN",
      "GET_LOCAL", "SET_LOCAL", "GET_BUILTIN", "CLOSURE", "GET_FREE",
      "CURRENT_CLOSURE", "SET_FREE", "LOOP", "CONTINUE", "BREAK",
      "REASSIGN_INDEX"} \subseteq OpSet
  <1>1. \A i \in 1..43 : OpNames[i] \in OpSet
    BY Opcodes DEF OpSet
  <1>2. /\ OpNames[1] = "CONSTANT" /\ OpNames[2] = "ADD" /\ OpNames[3] = "POP"
        /\ OpNames[4] = "SUB" /\ OpNames[5] = "MUL" /\ OpNames[6] = "DIV"
        /\ OpNames[7] = "LSHIFT" /\ OpNames[8] = "RSHIFT" /\ OpNames[9] = "MOD"
        /\ OpNames[10] = "BIT_OR" /\ OpNames[11] = "BIT_AND" /\ OpNames[12] = "BIT_XOR"
        /\ OpNames[13] = "TRUE" /\ OpNames[15] = "EQ" /\ OpNames[16] = "NOT_EQ"
        /\ OpNames[17] = "GREATER" /\ OpNames[18] = "MINUS" /\ OpNames[19] = "BANG"
        /\ OpNames[20] = "JMP_IF_FALSE" /\ OpNames[21] = "JMP" /\ OpNames[22] = "NULL"
        /\ OpNames[23] = "GET_GLOBAL" /\ OpNames[24] = "SET_GLOBAL"
        /\ OpNames[25] = "ARRAY" /\ OpNames[26] = "HASH" /\ OpNames[27] = "INDEX"
        /\ OpNames[28] = "CALL" /\ OpNames[29] = "RETURN_VALUE"
        /\ OpNames[30] = "RETURN" /\ OpNames[31] = "GET_LOCAL"
        /\ OpNames[32] = "SET_LOCAL" /\ OpNames[33] = "GET_BUILTIN"
        /\ OpNames[34] = "CLOSURE" /\ OpNames[35] = "GET_FREE"
        /\ OpNames[36] = "CURRENT_CLOSURE" /\ OpNames[37] = "SET_FREE"
        /\ OpNames[38] = "LOOP" /\ OpNames[39] = "CONTINUE" /\ OpNames[40] = "BREAK"
        /\ OpNames[41] = "AND" /\ OpNames[42] = "OR" /\ OpNames[43] = "REASSIGN_INDEX"
    BY DEF OpNames
  <1>3. {1, 2, 3, 4, 5, 6, 7, 8, 9, 10, 11, 12, 13, 15, 16, 17, 18, 19, 20, 21, 22, 23,
         24, 25, 26, 27, 28, 29, 30, 31, 32, 33, 34, 35, 36, 37, 38, 39, 40, 41, 42, 43}
          \subseteq 1..43
    OBVIOUS
  <1>4. QED
    BY <1>1, <1>2, <1>3 DEF InfixOps, PrefixOps

(* What an instruction's operands are, and whether they fit.               *)
ArgsOK(op, args) ==
  /\ args \in Seq(Nat)
  /\ Len(args) = Len(Widths(op))
  /\ op = "CALL" => args[1] <= 255
  /\ op \in {"ARRAY", "HASH"} => args[1] <= 65535
  /\ op = "CLOSURE" => args[2] <= 255

LEMMA WidthCases ==
  ASSUME NEW op
  PROVE  /\ Widths(op) \in {<<>>, <<1>>, <<2>>, <<2, 1>>}
         /\ Widths(op) = <<2, 1>> <=> op = "CLOSURE"
  BY DEF Widths

(* The bytes of an instruction.                                            *)
High(v) == (v \div 256) % 256

Byte == 0..255

LEMMA Concatenated ==
  ASSUME NEW a \in Seq(Byte), NEW b \in Seq(Byte), NEW c \in Seq(Byte),
         NEW s, s = a \o b \o c
  PROVE  /\ s \in Seq(Byte)
         /\ Len(s) = Len(a) + Len(b) + Len(c)
         /\ \A k \in 1..Len(a) : s[k] = a[k]
         /\ \A k \in 1..Len(b) : s[Len(a) + k] = b[k]
         /\ \A k \in 1..Len(c) : s[Len(a) + Len(b) + k] = c[k]
  <1>1. /\ a \o b \in Seq(Byte)
        /\ Len(a \o b) = Len(a) + Len(b)
        /\ \A k \in 1..Len(a) + Len(b) : (a \o b)[k] = IF k <= Len(a) THEN a[k] ELSE b[k - Len(a)]
    BY ConcatProperties
  <1>2. /\ a \o b \o c \in Seq(Byte)
        /\ Len(a \o b \o c) = Len(a \o b) + Len(c)
        /\ \A k \in 1..Len(a \o b) + Len(c) :
             (a \o b \o c)[k] = IF k <= Len(a \o b) THEN (a \o b)[k] ELSE c[k - Len(a \o b)]
    BY <1>1, ConcatProperties
  <1>3. Len(a) \in Nat /\ Len(b) \in Nat /\ Len(c) \in Nat
    OBVIOUS
  <1>4. ASSUME NEW k \in 1..Len(b)
        PROVE  (a \o b \o c)[Len(a) + k] = b[k]
    <2>1. Len(a) + k \in 1..Len(a) + Len(b) /\ ~(Len(a) + k <= Len(a)) /\ Len(a) + k - Len(a) = k
      BY <1>3
    <2>. QED
      BY <2>1, <1>1, <1>2, <1>3
  <1>5. ASSUME NEW k \in 1..Len(c)
        PROVE  (a \o b \o c)[Len(a) + Len(b) + k] = c[k]
    <2>1. /\ Len(a) + Len(b) + k \in 1..Len(a \o b) + Len(c)
          /\ ~(Len(a) + Len(b) + k <= Len(a \o b))
          /\ Len(a) + Len(b) + k - Len(a \o b) = k
      BY <1>1, <1>3
    <2>. QED
      BY <2>1, <1>2, <1>3
  <1>. QED
    BY <1>1, <1>2, <1>3, <1>4, <1>5

LEMMA Made ==
  ASSUME NEW op \in OpSet, NEW args, ArgsOK(op, args)
  PROVE  LET ins == make_instruction(op, args)
         IN  /\ ins \in Seq(Byte)
             /\ Len(ins) = InstructionLength(op)
             /\ InstructionLength(op) \in 1..4
             /\ ins[1] = Opcode[op]
             /\ Widths(op) = <<1>> => ins[2] = args[1] % 256
             /\ Widths(op) \in {<<2>>, <<2, 1>>} => /\ ins[2] = High(args[1])
                                                    /\ ins[3] = args[1] % 256
             /\ Widths(op) = <<2, 1>> => ins[4] = args[2] % 256
  <1> DEFINE ins == make_instruction(op, args)
             o == Opcode[op]
             one == args[1] % 256
             two == args[2] % 256
             high == High(args[1])
  <1>0. o \in 0..255
    BY Opcodes
  <1>. HIDE DEF o
  <1>1. CASE Widths(op) = <<>>
    <2> DEFINE x == <<o>>
               y == <<>>
    <2>1. ins = x \o y \o y
      BY <1>1 DEF make_instruction, o
    <2>2. InstructionLength(op) = 1
      BY <1>1 DEF InstructionLength
    <2>3. x \in Seq(Byte) /\ y \in Seq(Byte) /\ Len(x) = 1 /\ Len(y) = 0 /\ x[1] = o
      BY <1>0 DEF Byte
    <2>. HIDE DEF ins, x, y
    <2>. QED
      <3>1. 1 \in 1..Len(x) /\ Len(x) + Len(y) + Len(y) = 1
        BY <2>3
      <3>2. ins \in Seq(Byte) /\ Len(ins) = 1 /\ ins[1] = o
        BY <3>1, <2>1, <2>3, Concatenated
      <3>. QED
        BY <3>2, <2>2, <1>1 DEF o, ins
  <1>2. CASE Widths(op) = <<1>>
    <2> DEFINE x == <<o>>
               y == <<one>>
               z == <<>>
    <2>0. args[1] \in Nat /\ Len(args) = 1
      BY <1>2 DEF ArgsOK
    <2>1. ins = x \o y \o z
      BY <1>2, <2>0 DEF make_instruction, OperandBytes, o
    <2>2. InstructionLength(op) = 2
      BY <1>2 DEF InstructionLength
    <2>3. one \in 0..255
      BY <2>0
    <2>. HIDE DEF one
    <2>4. /\ x \in Seq(Byte) /\ y \in Seq(Byte) /\ z \in Seq(Byte)
          /\ Len(x) = 1 /\ Len(y) = 1 /\ Len(z) = 0 /\ x[1] = o /\ y[1] = one
      BY <1>0, <2>3 DEF Byte
    <2>. HIDE DEF ins, x, y, z, o
    <2>5. /\ ins \in Seq(Byte) /\ Len(ins) = 2 /\ ins[1] = o /\ ins[2] = one
      <3>1. 1 \in 1..Len(x) /\ 1 \in 1..Len(y) /\ Len(x) + 1 = 2
        BY <2>4
      <3>2. /\ ins \in Seq(Byte)
            /\ Len(ins) = Len(x) + Len(y) + Len(z)
            /\ \A k \in 1..Len(x) : ins[k] = x[k]
            /\ \A k \in 1..Len(y) : ins[Len(x) + k] = y[k]
            /\ \A k \in 1..Len(z) : ins[Len(x) + Len(y) + k] = z[k]
        <4>1. x \in Seq(Byte) /\ y \in Seq(Byte) /\ z \in Seq(Byte)
          BY <2>4
        <4>. QED
          BY <2>1, <4>1, Concatenated
      <3>. QED
        BY <3>1, <3>2, <2>4
    <2>. QED
      BY <2>2, <2>5, <1>2 DEF o, one, ins
  <1>3. CASE Widths(op) = <<2>>
    <2> DEFINE x == <<o>>
               y == <<high, one>>
               z == <<>>
    <2>0. args[1] \in Nat /\ Len(args) = 1
      BY <1>3 DEF ArgsOK
    <2>1. ins = x \o y \o z
      BY <1>3, <2>0 DEF make_instruction, OperandBytes, o, High
    <2>2. InstructionLength(op) = 3
      BY <1>3 DEF InstructionLength
    <2>3. one \in 0..255 /\ high \in 0..255
      BY <2>0 DEF High
    <2>. HIDE DEF one, high
    <2>4. /\ x \in Seq(Byte) /\ y \in Seq(Byte) /\ z \in Seq(Byte)
          /\ Len(x) = 1 /\ Len(y) = 2 /\ Len(z) = 0 /\ x[1] = o /\ y[1] = high /\ y[2] = one
      BY <1>0, <2>3 DEF Byte
    <2>. HIDE DEF ins, x, y, z, o
    <2>5. /\ ins \in Seq(Byte) /\ Len(ins) = 3 /\ ins[1] = o /\ ins[2] = high /\ ins[3] = one
      <3>1. 1 \in 1..Len(x) /\ 1 \in 1..Len(y) /\ 2 \in 1..Len(y)
            /\ Len(x) + 1 = 2 /\ Len(x) + 2 = 3
        BY <2>4
      <3>2. /\ ins \in Seq(Byte)
            /\ Len(ins) = Len(x) + Len(y) + Len(z)
            /\ \A k \in 1..Len(x) : ins[k] = x[k]
            /\ \A k \in 1..Len(y) : ins[Len(x) + k] = y[k]
            /\ \A k \in 1..Len(z) : ins[Len(x) + Len(y) + k] = z[k]
        <4>1. x \in Seq(Byte) /\ y \in Seq(Byte) /\ z \in Seq(Byte)
          BY <2>4
        <4>. QED
          BY <2>1, <4>1, Concatenated
      <3>. QED
        BY <3>1, <3>2, <2>4
    <2>. QED
      BY <2>2, <2>5, <1>3 DEF o, one, high, ins
  <1>4. CASE Widths(op) = <<2, 1>>
    <2> DEFINE x == <<o>>
               y == <<high, one>>
               z == <<two>>
    <2>0. args[1] \in Nat /\ args[2] \in Nat /\ DOMAIN args = 1..2 /\ DOMAIN Widths(op) = 1..2
      <3>1. args \in Seq(Nat) /\ Len(args) = 2
        BY <1>4 DEF ArgsOK
      <3>. QED
        BY <3>1, <1>4
    <2>1. ins = x \o y \o z
      BY <1>4, <2>0 DEF make_instruction, OperandBytes, o, High
    <2>2. InstructionLength(op) = 4
      BY <1>4 DEF InstructionLength
    <2>3. one \in 0..255 /\ high \in 0..255 /\ two \in 0..255
      BY <2>0 DEF High
    <2>. HIDE DEF one, high, two
    <2>4. /\ x \in Seq(Byte) /\ y \in Seq(Byte) /\ z \in Seq(Byte)
          /\ Len(x) = 1 /\ Len(y) = 2 /\ Len(z) = 1
          /\ x[1] = o /\ y[1] = high /\ y[2] = one /\ z[1] = two
      BY <1>0, <2>3 DEF Byte
    <2>. HIDE DEF ins, x, y, z, o
    <2>5. /\ ins \in Seq(Byte) /\ Len(ins) = 4
          /\ ins[1] = o /\ ins[2] = high /\ ins[3] = one /\ ins[4] = two
      <3>1. 1 \in 1..Len(x) /\ 1 \in 1..Len(y) /\ 2 \in 1..Len(y) /\ 1 \in 1..Len(z)
            /\ Len(x) + 1 = 2 /\ Len(x) + 2 = 3 /\ Len(x) + Len(y) + 1 = 4
        BY <2>4
      <3>2. /\ ins \in Seq(Byte)
            /\ Len(ins) = Len(x) + Len(y) + Len(z)
            /\ \A k \in 1..Len(x) : ins[k] = x[k]
            /\ \A k \in 1..Len(y) : ins[Len(x) + k] = y[k]
            /\ \A k \in 1..Len(z) : ins[Len(x) + Len(y) + k] = z[k]
        <4>1. x \in Seq(Byte) /\ y \in Seq(Byte) /\ z \in Seq(Byte)
          BY <2>4
        <4>. QED
          BY <2>1, <4>1, Concatenated
      <3>. QED
        BY <3>1, <3>2, <2>4
    <2>. QED
      BY <2>2, <2>5, <1>4 DEF o, one, high, two, ins
  <1>5. QED
    BY <1>1, <1>2, <1>3, <1>4, WidthCases

LEMMA HighAndLow ==
  ASSUME NEW v \in Nat, v < 65536
  PROVE  High(v) * 256 + (v % 256) = v
  <1>1. v \div 256 \in Nat /\ v \div 256 < 256
    OBVIOUS
  <1>2. (v \div 256) % 256 = v \div 256
    BY <1>1
  <1>3. (v \div 256) * 256 + (v % 256) = v
    OBVIOUS
  <1>. QED
    BY <1>2, <1>3 DEF High

Bytes(code, p, op, args) ==
  \A k \in 1..InstructionLength(op) : code[p + k] = make_instruction(op, args)[k]

(* Reading an instruction back.                                            *)
LEMMA Read ==
  ASSUME NEW op \in OpSet, NEW args, ArgsOK(op, args), NEW code, NEW p \in Nat,
         Bytes(code, p, op, args)
  PROVE  /\ code[p + 1] = Opcode[op]
         /\ OpAt(code, p) = op
         /\ Widths(op) = <<2>> /\ args[1] < 65536 => OperandAt(code, p, 1) = args[1]
         /\ Widths(op) = <<1>> => OperandAt(code, p, 1) = args[1] % 256
         /\ op = "CLOSURE" => OperandAt(code, p, 2) = args[2]
  <1>1. /\ InstructionLength(op) \in 1..4
        /\ code[p + 1] = Opcode[op]
    BY Made DEF Bytes
  <1>2. NameOf(code[p + 1]) = op
    BY <1>1, Opcodes
  <1>3. ASSUME Widths(op) = << 2 >>, args[1] < 65536
        PROVE  OperandAt(code, p, 1) = args[1]
    <2>1. InstructionLength(op) = 3
      BY <1>3 DEF InstructionLength
    <2>2. /\ code[p + 2] = High(args[1]) /\ code[p + 3] = args[1] % 256
          /\ 2 \in 1..3 /\ 3 \in 1..3
      BY <1>3, <2>1, Made DEF Bytes
    <2>3. OperandAt(code, p, 1) = code[p + 2] * 256 + code[p + 3]
      BY <1>2, <1>3 DEF OperandAt
    <2>4. args[1] \in Nat
      BY <1>3 DEF ArgsOK
    <2>6. High(args[1]) * 256 + (args[1] % 256) = args[1]
      BY <1>3, <2>4, HighAndLow
    <2>. QED
      BY <2>2, <2>3, <2>6
  <1>4. ASSUME Widths(op) = << 1 >>
        PROVE  OperandAt(code, p, 1) = args[1] % 256
    <2>1. InstructionLength(op) = 2
      BY <1>4 DEF InstructionLength
    <2>2. code[p + 2] = args[1] % 256
      BY <1>4, <2>1, Made DEF Bytes
    <2>. QED
      BY <1>2, <1>4, <2>2 DEF OperandAt
  <1>5. ASSUME op = "CLOSURE"
        PROVE  OperandAt(code, p, 2) = args[2]
    <2>0. Widths(op) = <<2, 1>>
      BY <1>5, WidthCases
    <2>1. InstructionLength(op) = 4
      BY <2>0 DEF InstructionLength
    <2>2. code[p + 4] = args[2] % 256
      BY <2>0, <2>1, Made DEF Bytes
    <2>3. args[2] \in Nat /\ args[2] <= 255
      BY <1>5, <2>0 DEF ArgsOK
    <2>4. OperandAt(code, p, 2) = code[p + 4]
      BY <1>2, <2>0 DEF OperandAt
    <2>. QED
      BY <2>2, <2>3, <2>4
  <1>. QED
    BY <1>1, <1>2, <1>3, <1>4, <1>5 DEF OpAt

----------------------------------------------------------------------------
(* How a piece of code is laid out *)

Jumps == {"JMP", "JMP_IF_FALSE"}
Leavers == {"RETURN_VALUE", "RETURN", "CONTINUE", "BREAK"}

(* What CompiledCode's Taken and Left read from the code.                  *)
Takes(op, args) ==
  CASE op \in {"POP", "MINUS", "BANG", "JMP_IF_FALSE", "SET_GLOBAL",
               "SET_LOCAL", "SET_FREE", "LOOP", "RETURN_VALUE"} -> 1
    [] op \in {"ADD", "SUB", "MUL", "DIV", "LSHIFT", "RSHIFT", "MOD",
               "BIT_OR", "BIT_AND", "BIT_XOR", "AND", "OR", "EQ",
               "NOT_EQ", "GREATER", "INDEX"} -> 2
    [] op = "REASSIGN_INDEX" -> 3
    [] op \in {"ARRAY", "HASH"} -> args[1]
    [] op = "CALL" -> args[1] + 1
    [] op = "CLOSURE" -> args[2]
    [] OTHER -> 0

Leaves(op) ==
  IF op \in {"POP", "JMP", "JMP_IF_FALSE", "SET_GLOBAL", "SET_LOCAL",
             "SET_FREE", "LOOP"} THEN 0 ELSE 1

Falls(op) == op \notin {"JMP"} \cup Leavers

MayLeave(kind, op) ==
  /\ op \in {"CONTINUE", "BREAK"} => kind = "loop"
  /\ op \in {"RETURN", "RETURN_VALUE"} => kind = "function"

(* A layout of code: `at` the instructions by position, with the operands  *)
(* the compiler meant before they are cut to their bytes; `depth` how many *)
(* values are on the stack at each of them and at the end; `open` the      *)
(* jumps that have not been given a target yet.                            *)
Size(l, p) == InstructionLength(l.at[p].op)

(* The instruction at p is there, and the next one follows it.             *)
Written(code, l, p) ==
  /\ l.at[p].op \in OpSet
  /\ ArgsOK(l.at[p].op, l.at[p].args)
  /\ Bytes(code, p, l.at[p].op, l.at[p].args)
  /\ p + Size(l, p) \in DOMAIN l.depth
  /\ \A q \in DOMAIN l.depth : q <= p \/ q >= p + Size(l, p)

(* It finds the values it takes, and goes where their number is right.     *)
Flows(l, p) ==
  LET i == l.at[p]
  IN  /\ l.depth[p] >= Takes(i.op, i.args)
      /\ Falls(i.op) =>
           l.depth[p + Size(l, p)] = l.depth[p] - Takes(i.op, i.args) + Leaves(i.op)
      /\ i.op \in Jumps /\ p \notin l.open =>
           /\ i.args[1] \in DOMAIN l.depth
           /\ l.depth[i.args[1]] = l.depth[p] - Takes(i.op, i.args)
      /\ MayLeave(l.kind, i.op)

Laid(code, l) ==
  /\ code \in Seq(Byte)
  /\ l.size = Len(code)
  /\ \A p \in DOMAIN l.at : p \in Nat /\ p < l.size
  /\ DOMAIN l.depth = DOMAIN l.at \cup {l.size}
  /\ 0 \in DOMAIN l.depth /\ l.depth[0] = 0
  /\ \A p \in DOMAIN l.depth : l.depth[p] \in Nat
  /\ l.open \subseteq DOMAIN l.at
  /\ \A p \in l.open : l.at[p].op \in Jumps
  /\ \A p \in DOMAIN l.at : Written(code, l, p) /\ Flows(l, p)

(* No finished jump goes to the end of the code.                           *)
NoTarget(l) ==
  \A p \in DOMAIN l.at \ l.open : l.at[p].op \in Jumps => l.at[p].args[1] # l.size

(* The instruction at p is the last one, and nothing jumps behind it.      *)
IsLast(l, p) == p \in DOMAIN l.at /\ p + Size(l, p) = l.size
Final(l, p) == IsLast(l, p) /\ NoTarget(l)

(* Execution never gets to the end.                                        *)
Sealed(l) ==
  /\ l.open = {}
  /\ \E p \in DOMAIN l.at : Final(l, p) /\ ~Falls(l.at[p].op)

(* What the code around it still knows when code has been changed: the     *)
(* instructions that are not taken back, and the places up to m.           *)
Keeps(l, l2, m) ==
  /\ l2.kind = l.kind
  /\ \A p \in DOMAIN l.at : l.at[p].op # "POP" =>
       p \in DOMAIN l2.at /\ l2.at[p].op = l.at[p].op /\ l2.depth[p] = l.depth[p]
  /\ \A p \in DOMAIN l.depth : p <= m =>
       p \in DOMAIN l2.depth /\ l2.depth[p] = l.depth[p]

LEMMA TakesNat ==
  ASSUME NEW op \in OpSet, NEW args, ArgsOK(op, args)
  PROVE  Takes(op, args) \in Nat /\ Leaves(op) \in Nat
  <1>1. args \in Seq(Nat) /\ Len(args) = Len(Widths(op))
    BY DEF ArgsOK
  <1>2. CASE op \in {"ARRAY", "HASH", "CALL"}
    <2>1. Len(Widths(op)) = 1
      BY <1>2 DEF Widths
    <2>. QED
      BY <1>1, <1>2, <2>1 DEF Takes, Leaves
  <1>3. CASE op = "CLOSURE"
    <2>1. Len(Widths(op)) = 2
      BY <1>3 DEF Widths
    <2>. QED
      BY <1>1, <1>3, <2>1 DEF Takes, Leaves
  <1>4. CASE op \notin {"ARRAY", "HASH", "CALL", "CLOSURE"}
    BY <1>4 DEF Takes, Leaves
  <1>. QED
    BY <1>2, <1>3, <1>4

LEMMA LaidFacts ==
  ASSUME NEW code, NEW l, Laid(code, l)
  PROVE  /\ l.size \in Nat /\ l.size = Len(code)
         /\ \A p \in DOMAIN l.depth : p \in Nat /\ l.depth[p] \in Nat /\ p <= l.size
         /\ \A p \in DOMAIN l.at :
              /\ p \in Nat /\ p \in DOMAIN l.depth
              /\ Size(l, p) \in 1..4
              /\ p + Size(l, p) <= l.size
              /\ p < l.size
              /\ Takes(l.at[p].op, l.at[p].args) \in Nat
              /\ Leaves(l.at[p].op) \in Nat
              /\ l.at[p].op \in Jumps => l.at[p].args \in Seq(Nat) /\ Len(l.at[p].args) = 1
  <1>1. l.size \in Nat
    BY DEF Laid
  <1>2. ASSUME NEW p \in DOMAIN l.at
        PROVE  /\ p \in Nat /\ p \in DOMAIN l.depth
               /\ Size(l, p) \in 1..4
               /\ p + Size(l, p) \in DOMAIN l.depth
               /\ \A q \in DOMAIN l.depth : q <= p \/ q >= p + Size(l, p)
               /\ Takes(l.at[p].op, l.at[p].args) \in Nat
               /\ Leaves(l.at[p].op) \in Nat
               /\ l.at[p].op \in Jumps => l.at[p].args \in Seq(Nat) /\ Len(l.at[p].args) = 1
    <2>1. /\ l.at[p].op \in OpSet
          /\ ArgsOK(l.at[p].op, l.at[p].args)
          /\ p + Size(l, p) \in DOMAIN l.depth
          /\ \A q \in DOMAIN l.depth : q <= p \/ q >= p + Size(l, p)
      BY DEF Laid, Written
    <2>2. Size(l, p) \in 1..4
      BY <2>1, Made DEF Size
    <2>3. l.at[p].op \in Jumps => Len(Widths(l.at[p].op)) = 1
      BY DEF Jumps, Widths
    <2>. QED
      BY <2>1, <2>2, <2>3, TakesNat DEF Laid, ArgsOK
  <1>3. ASSUME NEW p \in DOMAIN l.at
        PROVE  p < l.size /\ p + Size(l, p) <= l.size
    BY <1>1, <1>2 DEF Laid
  <1>. QED
    BY <1>1, <1>2, <1>3 DEF Laid

(* What emitting an instruction does to a layout.                          *)
Emitted(l, l2, op, args, d, open) ==
  /\ l2.size = l.size + InstructionLength(op)
  /\ l2.kind = l.kind
  /\ DOMAIN l2.at = DOMAIN l.at \cup {l.size}
  /\ l2.at[l.size] = [op |-> op, args |-> args]
  /\ \A p \in DOMAIN l.at : l2.at[p] = l.at[p]
  /\ \A p \in DOMAIN l.depth : p \in DOMAIN l2.depth /\ l2.depth[p] = l.depth[p]
  /\ l2.depth[l2.size] = d
  /\ l2.open = l.open \cup (IF open THEN {l.size} ELSE {})

EmittedLay(l, op, args, d, open) ==
  [size  |-> l.size + InstructionLength(op),
   kind  |-> l.kind,
   at    |-> [p \in DOMAIN l.at \cup {l.size} |->
                IF p = l.size THEN [op |-> op, args |-> args] ELSE l.at[p]],
   depth |-> [p \in DOMAIN l.depth \cup {l.size + InstructionLength(op)} |->
                IF p \in DOMAIN l.depth THEN l.depth[p] ELSE d],
   open  |-> l.open \cup (IF open THEN {l.size} ELSE {})]

(* An instruction at the end.                                              *)
LEMMA EmitLaid ==
  ASSUME NEW code, NEW l, Laid(code, l),
         NEW op \in OpSet, NEW args, ArgsOK(op, args), NEW d \in Nat,
         NEW open \in BOOLEAN,
         MayLeave(l.kind, op),
         l.depth[l.size] >= Takes(op, args),
         Falls(op) => d = l.depth[l.size] - Takes(op, args) + Leaves(op),
         open => op \in Jumps,
         op \in Jumps /\ ~open =>
           args[1] \in DOMAIN l.depth /\ l.depth[args[1]] = l.depth[l.size] - Takes(op, args)
  PROVE  \E l2 : /\ Laid(code \o make_instruction(op, args), l2)
                 /\ Emitted(l, l2, op, args, d, open)
                 /\ NoTarget(l2)
  <1> DEFINE ins == make_instruction(op, args)
             code2 == code \o ins
             n == InstructionLength(op)
             end == l.size + n
             l2 == EmittedLay(l, op, args, d, open)
  <1>1. /\ ins \in Seq(Byte) /\ Len(ins) = n /\ n \in 1..4
    BY Made
  <1>2. /\ l.size \in Nat /\ l.size = Len(code) /\ code \in Seq(Byte)
        /\ \A p \in DOMAIN l.depth : p \in Nat /\ l.depth[p] \in Nat /\ p <= l.size
        /\ \A p \in DOMAIN l.at : /\ p \in Nat /\ p < l.size /\ p \in DOMAIN l.depth
                                 /\ Size(l, p) \in 1..4 /\ p + Size(l, p) <= l.size
                                 /\ Written(code, l, p) /\ Flows(l, p)
        /\ DOMAIN l.depth = DOMAIN l.at \cup {l.size}
        /\ l.open \subseteq DOMAIN l.at
        /\ \A p \in l.open : l.at[p].op \in Jumps
        /\ 0 \in DOMAIN l.depth /\ l.depth[0] = 0
    BY LaidFacts DEF Laid
  <1>3. /\ code2 \in Seq(Byte)
        /\ Len(code2) = end
        /\ \A k \in 1..Len(code) : code2[k] = code[k]
        /\ \A k \in 1..n : code2[l.size + k] = ins[k]
    <2>1. /\ code2 \in Seq(Byte)
          /\ Len(code2) = Len(code) + Len(ins)
          /\ \A k \in 1..Len(code) + Len(ins) :
               code2[k] = IF k <= Len(code) THEN code[k] ELSE ins[k - Len(code)]
      BY <1>1, <1>2, ConcatProperties
    <2>. HIDE DEF ins, code2, n
    <2>2. ASSUME NEW k \in 1..n
          PROVE  code2[l.size + k] = ins[k]
      <3>1. /\ l.size + k \in 1..Len(code) + Len(ins) /\ ~(l.size + k <= Len(code))
            /\ l.size + k - Len(code) = k
        BY <1>1, <1>2
      <3>2. \A j \in 1..Len(code) + Len(ins) :
              ~(j <= Len(code)) => code2[j] = ins[j - Len(code)]
        BY <2>1
      <3>3. PICK j \in 1..Len(code) + Len(ins) :
              j = l.size + k /\ ~(j <= Len(code)) /\ j - Len(code) = k
        BY <1>1, <1>2
      <3>4. code2[j] = ins[k]
        BY <3>2, <3>3
      <3>. QED
        BY <3>3, <3>4
    <2>. QED
      BY <1>1, <1>2, <2>1, <2>2
  <1>4. /\ l2.size = end /\ l2.kind = l.kind
        /\ DOMAIN l2.at = DOMAIN l.at \cup {l.size}
        /\ l2.at[l.size] = [op |-> op, args |-> args]
        /\ \A p \in DOMAIN l.at : l2.at[p] = l.at[p]
        /\ DOMAIN l2.depth = DOMAIN l.depth \cup {end}
        /\ \A p \in DOMAIN l.depth : l2.depth[p] = l.depth[p]
        /\ l2.depth[end] = d
        /\ l2.open = l.open \cup (IF open THEN {l.size} ELSE {})
    <2>1. end \notin DOMAIN l.depth /\ l.size \notin DOMAIN l.at
      BY <1>1, <1>2
    <2>. QED
      BY <2>1 DEF EmittedLay
  <1>. HIDE DEF l2, code2, ins, n
  <1>5. Emitted(l, l2, op, args, d, open)
    BY <1>4 DEF Emitted, n
  <1>6. ASSUME NEW p \in DOMAIN l2.at
        PROVE  Written(code2, l2, p) /\ Flows(l2, p)
    <2>1. CASE p \in DOMAIN l.at
      <3>1. /\ l2.at[p] = l.at[p] /\ Size(l2, p) = Size(l, p)
            /\ p + Size(l, p) \in DOMAIN l.depth
            /\ l2.depth[p] = l.depth[p]
            /\ l2.depth[p + Size(l, p)] = l.depth[p + Size(l, p)]
            /\ p # l.size
        BY <2>1, <1>2, <1>4 DEF Size, Written
      <3>2. ASSUME NEW k \in 1..Size(l, p)
            PROVE  code2[p + k] = code[p + k]
        <4>1. p \in Nat /\ Size(l, p) \in 1..4 /\ p + Size(l, p) <= Len(code)
          BY <2>1, <1>2
        <4>2. p + k \in 1..Len(code)
          <5>1. k \in Nat /\ 1 <= k /\ k <= Size(l, p)
            BY <3>2, <4>1
          <5>2. Len(code) \in Nat
            BY <1>2
          <5>. QED
            BY <4>1, <5>1, <5>2
        <4>. QED
          BY <4>2, <1>3
      <3>3. Bytes(code2, p, l.at[p].op, l.at[p].args)
        BY <3>2, <2>1, <1>2 DEF Written, Bytes, Size
      <3>4. \A q \in DOMAIN l2.depth : q <= p \/ q >= p + Size(l, p)
        BY <2>1, <1>1, <1>2, <1>4 DEF Written
      <3>5. Written(code2, l2, p)
        BY <3>1, <3>3, <3>4, <2>1, <1>2, <1>4 DEF Written
      <3>6. Flows(l2, p)
        BY <3>1, <2>1, <1>2, <1>4 DEF Flows
      <3>. QED
        BY <3>5, <3>6
    <2>2. CASE p = l.size
      <3>1. /\ l2.at[p].op = op /\ l2.at[p].args = args /\ Size(l2, p) = n
            /\ p + n = end /\ l2.depth[p] = l.depth[l.size]
        BY <2>2, <1>2, <1>4 DEF Size, n
      <3>2. Bytes(code2, p, op, args)
        BY <2>2, <1>3 DEF Bytes, n, ins
      <3>3. \A q \in DOMAIN l2.depth : q <= p \/ q >= p + n
        BY <2>2, <1>1, <1>2, <1>4
      <3>4. Written(code2, l2, p)
        BY <3>1, <3>2, <3>3, <2>2, <1>4 DEF Written
      <3>5. p \notin l2.open <=> ~open
        BY <2>2, <1>2, <1>4
      <3>6. Flows(l2, p)
        BY <3>1, <3>5, <2>2, <1>2, <1>4 DEF Flows
      <3>. QED
        BY <3>4, <3>6
    <2>. QED
      BY <2>1, <2>2, <1>4
  <1>7. Laid(code2, l2)
    <2>1. /\ \A p \in DOMAIN l2.at : p \in Nat /\ p < l2.size
          /\ DOMAIN l2.depth = DOMAIN l2.at \cup {l2.size}
          /\ 0 \in DOMAIN l2.depth /\ l2.depth[0] = 0
          /\ \A p \in DOMAIN l2.depth : l2.depth[p] \in Nat
      BY <1>1, <1>2, <1>4
    <2>2. /\ l2.open \subseteq DOMAIN l2.at
          /\ \A p \in l2.open : l2.at[p].op \in Jumps
      BY <1>2, <1>4
    <2>. QED
      BY <2>1, <2>2, <1>3, <1>4, <1>6 DEF Laid
  <1>8. NoTarget(l2)
    <2> SUFFICES ASSUME NEW p \in DOMAIN l2.at \ l2.open, l2.at[p].op \in Jumps
                 PROVE  l2.at[p].args[1] # end
      BY <1>4 DEF NoTarget
    <2>1. CASE p \in DOMAIN l.at
      <3>1. l.at[p].args[1] \in DOMAIN l.depth
        BY <2>1, <1>2, <1>4 DEF Flows
      <3>. QED
        BY <3>1, <2>1, <1>1, <1>2, <1>4
    <2>2. CASE p = l.size
      <3>1. args[1] \in DOMAIN l.depth
        BY <2>2, <1>4
      <3>. QED
        BY <3>1, <2>2, <1>1, <1>2, <1>4
    <2>. QED
      BY <2>1, <2>2, <1>4
  <1>. QED
    BY <1>5, <1>7, <1>8 DEF code2, ins

Shrunk(l) ==
  [size  |-> l.size - 1,
   kind  |-> l.kind,
   at    |-> [p \in DOMAIN l.at \ {l.size - 1} |-> l.at[p]],
   depth |-> [p \in DOMAIN l.depth \ {l.size} |-> l.depth[p]],
   open  |-> l.open]

(* Taking back the POP at the end.                                         *)
LEMMA PopLaid ==
  ASSUME NEW code, NEW l, Laid(code, l), NEW p \in Nat, Final(l, p), l.at[p].op = "POP"
  PROVE  \E l2 : /\ Laid(SubSeq(code, 1, Len(code) - 1), l2)
                 /\ l2.size = p /\ l.size = p + 1
                 /\ l2.depth[l2.size] = l.depth[l.size] + 1
                 /\ l2.open = l.open
                 /\ Keeps(l, l2, p)
                 /\ \A q \in DOMAIN l2.at : q \in DOMAIN l.at /\ l2.at[q] = l.at[q]
  <1> DEFINE code2 == SubSeq(code, 1, Len(code) - 1)
             l2 == Shrunk(l)
  <1>1. /\ l.size \in Nat /\ l.size = Len(code) /\ code \in Seq(Byte)
        /\ \A q \in DOMAIN l.depth : q \in Nat /\ l.depth[q] \in Nat /\ q <= l.size
        /\ \A q \in DOMAIN l.at : /\ q \in Nat /\ q < l.size /\ q \in DOMAIN l.depth
                                 /\ Size(l, q) \in 1..4 /\ q + Size(l, q) <= l.size
                                 /\ Written(code, l, q) /\ Flows(l, q)
        /\ DOMAIN l.depth = DOMAIN l.at \cup {l.size}
        /\ l.open \subseteq DOMAIN l.at
        /\ \A q \in l.open : l.at[q].op \in Jumps
        /\ 0 \in DOMAIN l.depth /\ l.depth[0] = 0
    BY LaidFacts DEF Laid
  <1>2. p \in DOMAIN l.at /\ l.size = p + 1 /\ p \notin l.open
    <2>1. InstructionLength("POP") = 1
      BY DEF InstructionLength, Widths
    <2>. QED
      BY <2>1, <1>1 DEF Final, IsLast, Size, Jumps
  <1>3. /\ code2 \in Seq(Byte) /\ Len(code2) = p
        /\ \A k \in 1..p : code2[k] = code[k]
    <2>1. Len(code) = p + 1 /\ Len(code) - 1 = p
      BY <1>1, <1>2
    <2>. QED
      BY <2>1, <1>1, SubSeqProperties
  <1>4. /\ l2.size = p /\ l2.kind = l.kind /\ l2.open = l.open
        /\ DOMAIN l2.at = DOMAIN l.at \ {p}
        /\ \A q \in DOMAIN l2.at : l2.at[q] = l.at[q]
        /\ DOMAIN l2.depth = DOMAIN l.depth \ {p + 1}
        /\ \A q \in DOMAIN l2.depth : l2.depth[q] = l.depth[q]
    BY <1>1, <1>2 DEF Shrunk
  <1>. HIDE DEF l2, code2
  <1>5. l.depth[p] = l.depth[l.size] + 1
    <2>1. /\ Takes("POP", l.at[p].args) = 1 /\ Leaves("POP") = 0 /\ Falls("POP")
      BY DEF Takes, Leaves, Falls, Leavers
    <2>. QED
      BY <2>1, <1>1, <1>2 DEF Flows, Final, IsLast
  <1>6. ASSUME NEW q \in DOMAIN l2.at
        PROVE  Written(code2, l2, q) /\ Flows(l2, q)
    <2>1. /\ q \in DOMAIN l.at /\ q # p /\ q < p
          /\ l2.at[q] = l.at[q] /\ Size(l2, q) = Size(l, q)
          /\ q + Size(l, q) \in DOMAIN l.depth /\ q + Size(l, q) <= p
      BY <1>1, <1>2, <1>4 DEF Size, Written
    <2>2. /\ q + Size(l, q) \in DOMAIN l2.depth
          /\ l2.depth[q] = l.depth[q]
          /\ l2.depth[q + Size(l, q)] = l.depth[q + Size(l, q)]
      BY <2>1, <1>1, <1>4
    <2>3. ASSUME NEW k \in 1..Size(l, q)
          PROVE  code2[q + k] = code[q + k]
      <3>1. q + k \in 1..p
        BY <2>1, <1>1
      <3>. QED
        BY <3>1, <1>3
    <2>4. Bytes(code2, q, l.at[q].op, l.at[q].args)
      BY <2>1, <2>3, <1>1 DEF Written, Bytes, Size
    <2>5. Written(code2, l2, q)
      BY <2>1, <2>2, <2>4, <1>1, <1>4 DEF Written
    <2>6. q \notin l.open /\ l.at[q].op \in Jumps => l.at[q].args[1] \in DOMAIN l2.depth
      BY <2>1, <1>1, <1>2, <1>4 DEF Flows, Final, NoTarget
    <2>7. Flows(l2, q)
      BY <2>1, <2>2, <2>6, <1>1, <1>4 DEF Flows
    <2>. QED
      BY <2>5, <2>7
  <1>7. Laid(code2, l2)
    <2>1. /\ \A q \in DOMAIN l2.at : q \in Nat /\ q < l2.size
          /\ DOMAIN l2.depth = DOMAIN l2.at \cup {l2.size}
          /\ 0 \in DOMAIN l2.depth /\ l2.depth[0] = 0
          /\ \A q \in DOMAIN l2.depth : l2.depth[q] \in Nat
      <3>1. \A q \in DOMAIN l.at : q # p => q < p /\ q # p + 1
        BY <1>1, <1>2
      <3>2. p + 1 \notin DOMAIN l.at /\ p \in DOMAIN l.at
        BY <1>1, <1>2
      <3>3. DOMAIN l2.depth = DOMAIN l2.at \cup {p}
        BY <3>2, <1>1, <1>2, <1>4
      <3>4. 0 \in DOMAIN l2.depth
        BY <1>1, <1>2, <1>4
      <3>. QED
        BY <3>1, <3>3, <3>4, <1>1, <1>4
    <2>2. /\ l2.open \subseteq DOMAIN l2.at
          /\ \A q \in l2.open : l2.at[q].op \in Jumps
      BY <1>1, <1>2, <1>4
    <2>. QED
      BY <2>1, <2>2, <1>3, <1>4, <1>6 DEF Laid
  <1>8. Keeps(l, l2, p)
    BY <1>1, <1>2, <1>4 DEF Keeps
  <1>. QED
    BY <1>1, <1>2, <1>4, <1>5, <1>7, <1>8 DEF code2

Relabelled(l, d) ==
  [size  |-> l.size,
   kind  |-> l.kind,
   at    |-> l.at,
   depth |-> [p \in DOMAIN l.depth |-> IF p = l.size THEN d ELSE l.depth[p]],
   open  |-> l.open]

(* Nothing gets to the end, so that the depth there may be any.            *)
LEMMA RelabelLaid ==
  ASSUME NEW code, NEW l, Laid(code, l), NEW p \in Nat, Final(l, p),
         ~Falls(l.at[p].op), NEW d \in Nat
  PROVE  \E l2 : /\ Laid(code, l2)
                 /\ l2.size = l.size
                 /\ l2.depth[l2.size] = d
                 /\ l2.open = l.open
                 /\ Keeps(l, l2, p)
                 /\ l2.at = l.at
  <1> DEFINE l2 == Relabelled(l, d)
  <1>1. /\ l.size \in Nat /\ l.size = Len(code) /\ code \in Seq(Byte)
        /\ \A q \in DOMAIN l.depth : q \in Nat /\ l.depth[q] \in Nat /\ q <= l.size
        /\ \A q \in DOMAIN l.at : /\ q \in Nat /\ q < l.size /\ q \in DOMAIN l.depth
                                 /\ Size(l, q) \in 1..4 /\ q + Size(l, q) <= l.size
                                 /\ Written(code, l, q) /\ Flows(l, q)
        /\ DOMAIN l.depth = DOMAIN l.at \cup {l.size}
        /\ l.open \subseteq DOMAIN l.at
        /\ \A q \in l.open : l.at[q].op \in Jumps
        /\ 0 \in DOMAIN l.depth /\ l.depth[0] = 0
    BY LaidFacts DEF Laid
  <1>2. /\ p \in DOMAIN l.at /\ p + Size(l, p) = l.size /\ NoTarget(l)
    BY DEF Final, IsLast
  <1>3. /\ l2.size = l.size /\ l2.kind = l.kind /\ l2.open = l.open /\ l2.at = l.at
        /\ DOMAIN l2.depth = DOMAIN l.depth
        /\ \A q \in DOMAIN l.depth : q # l.size => l2.depth[q] = l.depth[q]
        /\ l2.depth[l.size] = d
    BY <1>1 DEF Relabelled
  <1>. HIDE DEF l2
  <1>4. ASSUME NEW q \in DOMAIN l.at
        PROVE  Written(code, l2, q) /\ Flows(l2, q)
    <2>1. /\ l2.depth[q] = l.depth[q] /\ Size(l2, q) = Size(l, q)
          /\ q + Size(l, q) \in DOMAIN l.depth
      BY <1>1, <1>3 DEF Size, Written
    <2>2. Written(code, l2, q)
      BY <2>1, <1>1, <1>3 DEF Written
    <2>3. Falls(l.at[q].op) => q + Size(l, q) # l.size
      <3>1. ASSUME q + Size(l, q) = l.size
            PROVE  q = p
        <4>1. p <= q \/ p >= q + Size(l, q)
          BY <1>1, <1>2 DEF Written
        <4>2. q <= p \/ q >= p + Size(l, p)
          BY <1>1, <1>2 DEF Written
        <4>. QED
          BY <3>1, <4>1, <4>2, <1>1, <1>2
      <3>. QED
        BY <3>1
    <2>4. q \notin l.open /\ l.at[q].op \in Jumps => l.at[q].args[1] # l.size
      BY <1>2 DEF NoTarget
    <2>5. Flows(l2, q)
      BY <2>1, <2>3, <2>4, <1>1, <1>3 DEF Flows
    <2>. QED
      BY <2>2, <2>5
  <1>5. Laid(code, l2)
    <2>1. /\ 0 \in DOMAIN l2.depth /\ l2.depth[0] = 0
          /\ \A q \in DOMAIN l2.depth : l2.depth[q] \in Nat
      BY <1>1, <1>2, <1>3
    <2>. QED
      BY <2>1, <1>1, <1>3, <1>4 DEF Laid
  <1>6. Keeps(l, l2, p)
    BY <1>1, <1>2, <1>3 DEF Keeps
  <1>. QED
    BY <1>3, <1>5, <1>6

Retargeted(l, p, t) ==
  [size  |-> l.size,
   kind  |-> l.kind,
   at    |-> [q \in DOMAIN l.at |->
                IF q = p THEN [op |-> l.at[p].op, args |-> <<t>>] ELSE l.at[q]],
   depth |-> l.depth,
   open  |-> l.open \ {p}]

(* A jump or a break gets its target.                                      *)
LEMMA PatchLaid ==
  ASSUME NEW code, NEW l, Laid(code, l), NEW p \in DOMAIN l.at, NEW t \in Nat,
         l.at[p].op \in Jumps \cup {"BREAK"},
         l.at[p].op \in Jumps =>
           /\ t \in DOMAIN l.depth
           /\ l.depth[t] = l.depth[p] - Takes(l.at[p].op, l.at[p].args)
  PROVE  /\ Laid(change_operand(code, p, t), Retargeted(l, p, t))
         /\ ~Misplaced(code, p)
         /\ Len(change_operand(code, p, t)) = Len(code)
         /\ \A k \in 1..Len(code) : change_operand(code, p, t)[k] # code[k] =>
              k \in p + 2..p + Size(l, p)
  <1> DEFINE op == l.at[p].op
             ins == make_instruction(op, <<t>>)
             code2 == change_operand(code, p, t)
             l2 == Retargeted(l, p, t)
  <1>1. /\ l.size \in Nat /\ l.size = Len(code) /\ code \in Seq(Byte)
        /\ \A q \in DOMAIN l.depth : q \in Nat /\ l.depth[q] \in Nat /\ q <= l.size
        /\ \A q \in DOMAIN l.at : /\ q \in Nat /\ q < l.size /\ q \in DOMAIN l.depth
                                 /\ Size(l, q) \in 1..4 /\ q + Size(l, q) <= l.size
                                 /\ Written(code, l, q) /\ Flows(l, q)
        /\ DOMAIN l.depth = DOMAIN l.at \cup {l.size}
        /\ l.open \subseteq DOMAIN l.at
        /\ \A q \in l.open : l.at[q].op \in Jumps
        /\ 0 \in DOMAIN l.depth /\ l.depth[0] = 0
    BY LaidFacts DEF Laid
  <1>2. /\ op \in OpSet /\ ArgsOK(op, l.at[p].args)
        /\ code[p + 1] = Opcode[op] /\ NameOf(code[p + 1]) = op
    <2>1. Written(code, l, p)
      BY <1>1
    <2>2. OpAt(code, p) = op /\ code[p + 1] = Opcode[op]
      BY <2>1, <1>1, Read DEF Written
    <2>. QED
      BY <2>1, <2>2 DEF Written, OpAt
  <1>3. ArgsOK(op, <<t>>) /\ <<t>>[1] = t
    <2>1. Len(Widths(op)) = 1 /\ op \notin {"CALL", "ARRAY", "HASH", "CLOSURE"}
      BY DEF Jumps, Widths
    <2>2. <<t>> \in Seq(Nat) /\ Len(<<t>>) = 1
      OBVIOUS
    <2>. HIDE DEF op
    <2>. QED
      BY <2>1, <2>2 DEF ArgsOK
  <1>4. /\ ins \in Seq(Byte) /\ Len(ins) = Size(l, p) /\ ins[1] = Opcode[op]
        /\ InstructionLength(op) = Size(l, p)
    BY <1>2, <1>3, Made DEF Size
  <1>5. code2 = Overwrite(code, p, ins)
    BY <1>2 DEF change_operand
  <1>6. /\ code2 \in Seq(Byte) /\ Len(code2) = Len(code)
        /\ \A k \in 1..Len(code) :
             code2[k] = IF k \in p + 1..p + Size(l, p) THEN ins[k - p] ELSE code[k]
    <2>. HIDE DEF ins, code2
    <2>1. code2 = [k \in 1..Len(code) |->
                     IF k \in p + 1..p + Size(l, p) THEN ins[k - p] ELSE code[k]]
      BY <1>4, <1>5 DEF Overwrite
    <2>2. ASSUME NEW k \in 1..Len(code)
          PROVE  code2[k] \in Byte
      <3>1. CASE k \in p + 1..p + Size(l, p)
        <4>1. k - p \in 1..Len(ins)
          BY <3>1, <1>1, <1>4
        <4>2. ins[k - p] \in Byte
          BY <4>1, <1>4
        <4>. QED
          BY <4>2, <3>1, <2>1
      <3>2. CASE k \notin p + 1..p + Size(l, p)
        BY <3>2, <2>1, <1>1
      <3>. QED
        BY <3>1, <3>2
    <2>3. Len(code) \in Nat
      BY <1>1
    <2>4. code2 \in [1..Len(code) -> Byte]
      BY <2>1, <2>2
    <2>. QED
      BY <2>1, <2>3, <2>4
  <1>7. /\ l2.size = l.size /\ l2.kind = l.kind /\ l2.depth = l.depth
        /\ l2.open = l.open \ {p} /\ DOMAIN l2.at = DOMAIN l.at
        /\ \A q \in DOMAIN l.at : q # p => l2.at[q] = l.at[q]
        /\ l2.at[p].op = op /\ l2.at[p].args = <<t>>
    BY DEF Retargeted
  <1>. HIDE DEF l2, code2, ins
  <1>8. ASSUME NEW q \in DOMAIN l.at
        PROVE  Written(code2, l2, q) /\ Flows(l2, q)
    <2>1. /\ l2.at[q].op = l.at[q].op /\ Size(l2, q) = Size(l, q)
          /\ q + Size(l, q) \in DOMAIN l.depth
      BY <1>1, <1>7 DEF Size, Written
    <2>2. CASE q = p
      <3>1. ASSUME NEW k \in 1..Size(l, p)
            PROVE  code2[p + k] = ins[k]
        <4>0. p + k \in 1..Len(code) /\ p + k \in p + 1..p + Size(l, p) /\ p + k - p = k
          BY <1>1
        <4>1. \A j \in 1..Len(code) : j \in p + 1..p + Size(l, p) => code2[j] = ins[j - p]
          BY <1>6
        <4>2. code2[p + k] = ins[p + k - p]
          BY <4>0, <4>1, <1>1
        <4>. QED
          BY <4>0, <4>2
      <3>2. Bytes(code2, p, op, <<t>>)
        BY <3>1, <1>4 DEF Bytes, ins
      <3>3. Written(code2, l2, p)
        BY <2>1, <2>2, <3>2, <1>1, <1>2, <1>3, <1>7 DEF Written
      <3>4. op \in Jumps => Takes(op, <<t>>) = Takes(op, l.at[p].args)
        BY DEF Jumps, Takes
      <3>5. op = "BREAK" => /\ Takes(op, <<t>>) = Takes(op, l.at[p].args)
                            /\ ~Falls(op) /\ op \notin Jumps
        BY DEF Jumps, Takes, Falls, Leavers
      <3>6. Flows(l, p)
        BY <1>1
      <3>7. op \in Jumps \/ op = "BREAK"
        OBVIOUS
      <3>. HIDE DEF op
      <3>8. Takes(op, <<t>>) = Takes(op, l.at[p].args)
        BY <3>4, <3>5, <3>7
      <3>9. op \in Jumps => /\ t \in DOMAIN l.depth
                             /\ l.depth[t] = l.depth[p] - Takes(op, l.at[p].args)
        BY DEF op
      <3>10. Flows(l2, p)
        BY <3>6, <3>8, <3>9, <2>1, <2>2, <1>3, <1>7 DEF Flows, op
      <3>. QED
        BY <3>3, <3>10, <2>2
    <2>3. CASE q # p
      <3>1. ASSUME NEW k \in 1..Size(l, q)
            PROVE  code2[q + k] = code[q + k]
        <4>1. q + k \in 1..Len(code)
          BY <1>1
        <4>2. p + Size(l, p) \in DOMAIN l.depth /\ q \in DOMAIN l.depth /\ p \in DOMAIN l.depth
          BY <1>1 DEF Written
        <4>3. (q <= p \/ q >= p + Size(l, p)) /\ (p <= q \/ p >= q + Size(l, q))
          BY <4>2, <1>1 DEF Written
        <4>5. q \in Nat /\ p \in Nat /\ Size(l, p) \in Nat /\ Size(l, q) \in Nat
          BY <1>1
        <4>4. q + k \notin p + 1..p + Size(l, p)
          BY <4>3, <4>5, <2>3
        <4>. QED
          BY <4>1, <4>4, <1>6
      <3>2. Bytes(code2, q, l.at[q].op, l.at[q].args)
        BY <3>1, <1>1 DEF Written, Bytes, Size
      <3>3. Written(code2, l2, q)
        BY <2>1, <2>3, <3>2, <1>1, <1>7 DEF Written
      <3>4. Flows(l2, q)
        BY <2>1, <2>3, <1>1, <1>7 DEF Flows
      <3>. QED
        BY <3>3, <3>4
    <2>. QED
      BY <2>2, <2>3
  <1>9. Laid(code2, l2)
    <2>1. /\ l2.open \subseteq DOMAIN l2.at
          /\ \A q \in l2.open : l2.at[q].op \in Jumps
      BY <1>1, <1>7
    <2>2. /\ l2.size = Len(code2)
          /\ \A q \in DOMAIN l2.at : q \in Nat /\ q < l2.size
          /\ DOMAIN l2.depth = DOMAIN l2.at \cup {l2.size}
          /\ 0 \in DOMAIN l2.depth /\ l2.depth[0] = 0
          /\ \A q \in DOMAIN l2.depth : l2.depth[q] \in Nat
      BY <1>1, <1>6, <1>7
    <2>. QED
      BY <2>1, <2>2, <1>6, <1>7, <1>8 DEF Laid
  <1>10. ~Misplaced(code, p)
    <2>1. code[p + 1] \in 0..42 /\ OP_COUNT = 43
      BY <1>2, Opcodes
    <2>3. \A o \in 0..42 : ~(o = 43) /\ ~(o > 43)
      OBVIOUS
    <2>4. ~(code[p + 1] = OP_COUNT) /\ ~(code[p + 1] > OP_COUNT)
      BY <2>1, <2>3
    <2>5. p \in Nat /\ p < l.size
      BY <1>1
    <2>2. ~(p >= Len(code)) /\ ~(code[p + 1] = OP_COUNT) /\ ~(code[p + 1] > OP_COUNT)
      BY <2>4, <2>5, <1>1
    <2>. QED
      BY <2>2 DEF Misplaced, Spare, ChangeFault
  <1>11. ASSUME NEW k \in 1..Len(code), code2[k] # code[k]
         PROVE  k \in p + 2..p + Size(l, p)
    <2>1. k \in p + 1..p + Size(l, p)
      BY <1>6, <1>11
    <2>2. k # p + 1
      <3>1. ASSUME k = p + 1
            PROVE  FALSE
        <4>1. k - p = 1
          BY <3>1, <1>1
        <4>. QED
          BY <4>1, <3>1, <2>1, <1>2, <1>4, <1>6, <1>11
      <3>. QED
        BY <3>1
    <2>. QED
      BY <2>1, <2>2, <1>1
  <1>. QED
    BY <1>6, <1>9, <1>10, <1>11 DEF code2, l2

----------------------------------------------------------------------------
(* The last instruction *)

(* What may be last where a block ends: an instruction that is there.      *)
Ending == {"POP", "RETURN_VALUE", "CONTINUE", "BREAK"}

Fresh(last, l) == Final(l, last.pos) /\ l.at[last.pos].op = last.op

LEMMA KeepsTransitive ==
  ASSUME NEW l, NEW l2, NEW l3, NEW m, NEW m2, Keeps(l, l2, m), Keeps(l2, l3, m2),
         \A p \in DOMAIN l.depth : p <= m => p <= m2,
         \A p \in DOMAIN l2.at : l2.at[p].op = "POP" => p \notin DOMAIN l.at \/ l.at[p].op = "POP"
  PROVE  Keeps(l, l3, m)
  BY DEF Keeps

LEMMA EmittedKeeps ==
  ASSUME NEW code, NEW l, Laid(code, l), NEW l2, NEW op, NEW args, NEW d, NEW open, NEW m,
         Emitted(l, l2, op, args, d, open)
  PROVE  Keeps(l, l2, m)
  BY DEF Emitted, Keeps, Laid

(* The value of a block is needed: the POP goes, and if there is none the  *)
(* block never ends.                                                       *)
LEMMA ValueTaken ==
  ASSUME NEW e, NEW l, Laid(e.code, l), Fresh(e.last, l), e.last.op \in Ending
  PROVE  \E l2 : /\ Laid(remove_last_pop(e).code, l2)
                 /\ l2.depth[l2.size] = l.depth[l.size] + 1
                 /\ l2.open = l.open
                 /\ Keeps(l, l2, e.last.pos)
  <1> DEFINE p == e.last.pos
  <1>1. /\ p \in Nat /\ Final(l, p) /\ l.at[p].op = e.last.op /\ l.depth[l.size] \in Nat
    BY LaidFacts DEF Fresh, Final, IsLast, Laid
  <1>2. CASE e.last.op = "POP"
    <2>1. remove_last_pop(e).code = SubSeq(e.code, 1, Len(e.code) - 1)
      <3>1. remove_last_pop(e) = [e EXCEPT !.code = SubSeq(@, 1, Len(@) - 1), !.last = e.prev]
        BY <1>2 DEF remove_last_pop
      <3>. QED
        BY <3>1
    <2>. HIDE DEF p
    <2>2. l.at[p].op = "POP"
      BY <1>1, <1>2
    <2>3. \E l2 : /\ Laid(SubSeq(e.code, 1, Len(e.code) - 1), l2)
                 /\ l2.size = p /\ l.size = p + 1
                 /\ l2.depth[l2.size] = l.depth[l.size] + 1
                 /\ l2.open = l.open
                 /\ Keeps(l, l2, p)
      BY <1>1, <2>2, PopLaid
    <2>. QED
      BY <2>1, <2>3 DEF p
  <1>3. CASE e.last.op # "POP"
    <2>1. remove_last_pop(e).code = e.code /\ ~Falls(l.at[p].op)
      BY <1>1, <1>3 DEF remove_last_pop, Falls, Ending, Leavers
    <2>2. l.depth[l.size] + 1 \in Nat
      BY <1>1
    <2>. HIDE DEF p
    <2>3. \E l2 : /\ Laid(e.code, l2)
                 /\ l2.size = l.size
                 /\ l2.depth[l2.size] = l.depth[l.size] + 1
                 /\ l2.open = l.open
                 /\ Keeps(l, l2, p)
                 /\ l2.at = l.at
      BY <1>1, <2>1, <2>2, RelabelLaid
    <2>. QED
      BY <2>1, <2>3 DEF p
  <1>. QED
    BY <1>2, <1>3

Returned(l, p) ==
  [size  |-> l.size,
   kind  |-> l.kind,
   at    |-> [q \in DOMAIN l.at |->
                IF q = p THEN [op |-> "RETURN_VALUE", args |-> <<>>] ELSE l.at[q]],
   depth |-> l.depth,
   open  |-> l.open]

(* The POP at the end becomes a return.                                    *)
LEMMA ReplaceLaid ==
  ASSUME NEW code, NEW l, Laid(code, l), NEW p \in DOMAIN l.at,
         l.at[p].op = "POP", l.kind = "function"
  PROVE  Laid(Overwrite(code, p, make_instruction("RETURN_VALUE", <<>>)), Returned(l, p))
  <1> DEFINE op == "RETURN_VALUE"
             ins == make_instruction(op, <<>>)
             code2 == Overwrite(code, p, ins)
             l2 == Returned(l, p)
  <1>1. /\ l.size \in Nat /\ l.size = Len(code) /\ code \in Seq(Byte)
        /\ \A q \in DOMAIN l.depth : q \in Nat /\ l.depth[q] \in Nat /\ q <= l.size
        /\ \A q \in DOMAIN l.at : /\ q \in Nat /\ q < l.size /\ q \in DOMAIN l.depth
                                 /\ Size(l, q) \in 1..4 /\ q + Size(l, q) <= l.size
                                 /\ Written(code, l, q) /\ Flows(l, q)
        /\ DOMAIN l.depth = DOMAIN l.at \cup {l.size}
        /\ l.open \subseteq DOMAIN l.at
        /\ \A q \in l.open : l.at[q].op \in Jumps
        /\ 0 \in DOMAIN l.depth /\ l.depth[0] = 0
    BY LaidFacts DEF Laid
  <1>2. op \in OpSet /\ ArgsOK(op, <<>>)
    <2>1. Widths(op) = <<>>
      BY DEF Widths
    <2>. QED
      BY <2>1, OpsExist DEF ArgsOK
  <1>3. /\ InstructionLength(op) = 1 /\ InstructionLength("POP") = 1 /\ Size(l, p) = 1
    BY DEF InstructionLength, Widths, Size
  <1>4. ins \in Seq(Byte) /\ Len(ins) = 1 /\ ins[1] \in Byte
    <2>1. Opcode[op] \in Byte
      BY <1>2, Opcodes DEF Byte
    <2>2. ins \in Seq(Byte) /\ Len(ins) = 1 /\ ins[1] = Opcode[op]
      BY <1>2, <1>3, Made
    <2>. QED
      BY <2>1, <2>2
  <1>6. /\ code2 \in Seq(Byte) /\ Len(code2) = Len(code)
        /\ \A k \in 1..Len(code) : code2[k] = IF k = p + 1 THEN ins[1] ELSE code[k]
    <2>. HIDE DEF ins
    <2>1. code2 = [k \in 1..Len(code) |->
                     IF k \in p + 1..p + Len(ins) THEN ins[k - p] ELSE code[k]]
      BY DEF Overwrite
    <2>. HIDE DEF code2
    <2>2. ASSUME NEW k \in 1..Len(code)
          PROVE  code2[k] = (IF k = p + 1 THEN ins[1] ELSE code[k]) /\ code2[k] \in Byte
      <3>1. CASE k = p + 1
        <4>1. k \in p + 1..p + Len(ins) /\ k - p = 1
          BY <3>1, <1>1, <1>4
        <4>2. code2[k] = ins[k - p]
          BY <4>1, <2>1
        <4>3. ins[1] \in Byte
          BY <1>4
        <4>. QED
          BY <4>1, <4>2, <4>3, <3>1
      <3>2. CASE k # p + 1
        <4>1. k \notin p + 1..p + Len(ins)
          BY <3>2, <1>1, <1>4
        <4>. QED
          BY <4>1, <3>2, <2>1, <1>1
      <3>. QED
        BY <3>1, <3>2
    <2>3. Len(code) \in Nat
      BY <1>1
    <2>4. code2 \in [1..Len(code) -> Byte]
      BY <2>1, <2>2
    <2>. QED
      BY <2>1, <2>2, <2>3, <2>4
  <1>7. /\ l2.size = l.size /\ l2.kind = l.kind /\ l2.depth = l.depth
        /\ l2.open = l.open /\ DOMAIN l2.at = DOMAIN l.at
        /\ \A q \in DOMAIN l.at : q # p => l2.at[q] = l.at[q]
        /\ l2.at[p].op = op /\ l2.at[p].args = <<>>
    BY DEF Returned
  <1>. HIDE DEF l2, code2, ins
  <1>8. ASSUME NEW q \in DOMAIN l.at
        PROVE  Written(code2, l2, q) /\ Flows(l2, q)
    <2>1. /\ Size(l2, q) = Size(l, q)
          /\ q + Size(l, q) \in DOMAIN l.depth
      BY <1>1, <1>3, <1>7 DEF Size, Written
    <2>2. CASE q = p
      <3>1. code2[p + 1] = ins[1]
        <4>1. p + 1 \in 1..Len(code)
          BY <1>1
        <4>. QED
          BY <4>1, <1>6
      <3>2. Bytes(code2, p, op, <<>>)
        BY <3>1, <1>1, <1>3 DEF Bytes, ins
      <3>3. Written(code2, l2, p)
        BY <2>1, <2>2, <3>2, <1>1, <1>2, <1>7 DEF Written
      <3>4. /\ Takes(op, <<>>) = 1 /\ Takes("POP", l.at[p].args) = 1 /\ ~Falls(op)
            /\ op \notin Jumps /\ MayLeave("function", op)
        BY DEF Jumps, Takes, Falls, Leavers, MayLeave
      <3>5. l.depth[p] >= 1
        BY <3>4, <1>1 DEF Flows
      <3>6. Flows(l2, p)
        BY <3>4, <3>5, <1>7 DEF Flows
      <3>. QED
        BY <3>3, <3>6, <2>2
    <2>3. CASE q # p
      <3>1. ASSUME NEW k \in 1..Size(l, q)
            PROVE  code2[q + k] = code[q + k]
        <4>1. q + k \in 1..Len(code)
          BY <1>1
        <4>2. q \in DOMAIN l.depth /\ p \in DOMAIN l.depth
          BY <1>1 DEF Written
        <4>3. (q <= p \/ q >= p + Size(l, p)) /\ (p <= q \/ p >= q + Size(l, q))
          BY <4>2, <1>1 DEF Written
        <4>5. q \in Nat /\ p \in Nat /\ Size(l, p) \in Nat /\ Size(l, q) \in Nat
          BY <1>1
        <4>4. q + k # p + 1
          BY <4>3, <4>5, <2>3, <1>3
        <4>. QED
          BY <4>1, <4>4, <1>6
      <3>2. Bytes(code2, q, l.at[q].op, l.at[q].args)
        BY <3>1, <1>1 DEF Written, Bytes, Size
      <3>3. Written(code2, l2, q)
        BY <2>1, <2>3, <3>2, <1>1, <1>7 DEF Written
      <3>4. Flows(l2, q)
        BY <2>1, <2>3, <1>1, <1>7 DEF Flows
      <3>. QED
        BY <3>3, <3>4
    <2>. QED
      BY <2>2, <2>3
  <1>9. Laid(code2, l2)
    <2>1. /\ l2.open \subseteq DOMAIN l2.at
          /\ \A q \in l2.open : l2.at[q].op \in Jumps
      BY <1>1, <1>7 DEF Jumps
    <2>2. /\ l2.size = Len(code2)
          /\ \A q \in DOMAIN l2.at : q \in Nat /\ q < l2.size
          /\ DOMAIN l2.depth = DOMAIN l2.at \cup {l2.size}
          /\ 0 \in DOMAIN l2.depth /\ l2.depth[0] = 0
          /\ \A q \in DOMAIN l2.depth : l2.depth[q] \in Nat
      BY <1>1, <1>6, <1>7
    <2>. QED
      BY <2>1, <2>2, <1>6, <1>7, <1>8 DEF Laid
  <1>. QED
    BY <1>9 DEF code2, l2, ins

(* One more instruction, at which the code ends.                           *)
LEMMA SealLaid ==
  ASSUME NEW code, NEW l, Laid(code, l), NEW op \in {"RETURN", "CONTINUE"},
         MayLeave(l.kind, op), l.open = {}
  PROVE  \E l2 : /\ Laid(code \o make_instruction(op, <<>>), l2)
                 /\ Sealed(l2) /\ l2.kind = l.kind
                 /\ \A m : Keeps(l, l2, m)
  <1>1. op \in OpSet /\ ArgsOK(op, <<>>)
    <2>1. Widths(op) = <<>>
      BY DEF Widths
    <2>. QED
      BY <2>1, OpsExist DEF ArgsOK
  <1>2. /\ Takes(op, <<>>) = 0 /\ ~Falls(op) /\ op \notin Jumps
    BY DEF Takes, Falls, Leavers, Jumps
  <1>3. l.depth[l.size] \in Nat /\ l.depth[l.size] >= 0
    BY DEF Laid
  <1>4. PICK l2 : /\ Laid(code \o make_instruction(op, <<>>), l2)
                  /\ Emitted(l, l2, op, <<>>, 0, FALSE)
                  /\ NoTarget(l2)
    <2>1. /\ 0 \in Nat /\ FALSE \in BOOLEAN
          /\ l.depth[l.size] >= Takes(op, <<>>)
          /\ Falls(op) => 0 = l.depth[l.size] - Takes(op, <<>>) + Leaves(op)
          /\ FALSE => op \in Jumps
          /\ op \in Jumps /\ ~FALSE =>
               <<>>[1] \in DOMAIN l.depth /\ l.depth[<<>>[1]] = l.depth[l.size] - Takes(op, <<>>)
      BY <1>2, <1>3
    <2>. QED
      BY <2>1, <1>1, EmitLaid
  <1>5. Sealed(l2)
    BY <1>2, <1>4 DEF Sealed, Final, IsLast, Emitted, Size
  <1>6. \A m : Keeps(l, l2, m)
    BY <1>4, EmittedKeeps
  <1>. QED
    BY <1>4, <1>5, <1>6 DEF Emitted

(* The end of a function's body.                                           *)
LEMMA ReturningLaid ==
  ASSUME NEW e, NEW l, Laid(e.code, l), l.kind = "function", l.open = {},
         e.last.op \in Ending => Fresh(e.last, l)
  PROVE  \E l2 : /\ Laid(Returning(e).code, l2)
                 /\ Sealed(l2) /\ l2.kind = l.kind
                 /\ Keeps(l, l2, 0)
  <1>0. MayLeave(l.kind, "RETURN")
    BY DEF MayLeave
  <1>1. CASE e.last.op = "POP"
    <2> DEFINE p == e.last.pos
               code == Overwrite(e.code, p, make_instruction("RETURN_VALUE", <<>>))
               r == Returned(l, p)
    <2>1. p \in DOMAIN l.at /\ l.at[p].op = "POP"
      BY <1>1 DEF Fresh, Final, IsLast, Ending
    <2>2. Returning(e).code = code \o make_instruction("RETURN", <<>>)
      <3>1. Returning(e) = Emit([e EXCEPT !.code = Overwrite(@, p, make_instruction("RETURN_VALUE", <<>>))],
                                "RETURN", <<>>)
        BY <1>1 DEF Returning
      <3>. QED
        BY <3>1 DEF Emit
    <2>3. Laid(code, r) /\ r.kind = l.kind /\ r.open = l.open
      BY <2>1, ReplaceLaid DEF Returned
    <2>4. Keeps(l, r, 0)
      BY <2>1 DEF Keeps, Returned
    <2>5. \A q \in DOMAIN r.at : r.at[q].op # "POP" \/ (q \in DOMAIN l.at /\ l.at[q].op = "POP")
      <3>1. /\ DOMAIN r.at = DOMAIN l.at /\ r.at[p].op = "RETURN_VALUE"
            /\ \A q \in DOMAIN l.at : q # p => r.at[q] = l.at[q]
        BY <2>1 DEF Returned
      <3>. HIDE DEF r
      <3>. QED
        BY <3>1
    <2>. HIDE DEF code, r, p
    <2>6. PICK l2 : /\ Laid(code \o make_instruction("RETURN", <<>>), l2)
                    /\ Sealed(l2) /\ l2.kind = r.kind
                    /\ \A m : Keeps(r, l2, m)
      BY <2>3, <1>0, SealLaid
    <2>7. Keeps(l, l2, 0)
      BY <2>4, <2>5, <2>6, KeepsTransitive
    <2>. QED
      BY <2>2, <2>3, <2>6, <2>7
  <1>2. CASE e.last.op = "RETURN_VALUE"
    <2>1. Returning(e).code = e.code
      BY <1>2 DEF Returning
    <2>2. Sealed(l)
      BY <1>2 DEF Fresh, Final, Sealed, IsLast, Ending, Falls, Leavers
    <2>3. Keeps(l, l, 0)
      BY DEF Keeps
    <2>. QED
      BY <2>1, <2>2, <2>3
  <1>3. CASE e.last.op \notin {"POP", "RETURN_VALUE"}
    <2>1. Returning(e).code = e.code \o make_instruction("RETURN", <<>>)
      BY <1>3 DEF Returning, Emit
    <2>. QED
      BY <2>1, <1>0, SealLaid
  <1>. QED
    BY <1>1, <1>2, <1>3

(* The end of a loop's body.                                               *)
LEMMA ContinuingLaid ==
  ASSUME NEW e, NEW l, Laid(e.code, l), l.kind = "loop", l.open = {},
         e.last.op \in Ending => Fresh(e.last, l),
         NEW body, body = IF e.last.op = "CONTINUE" THEN e ELSE Emit(e, "CONTINUE", <<>>)
  PROVE  \E l2 : /\ Laid(body.code, l2)
                 /\ Sealed(l2) /\ l2.kind = l.kind
                 /\ Keeps(l, l2, 0)
  <1>1. CASE e.last.op = "CONTINUE"
    <2>2. Sealed(l)
      BY <1>1 DEF Fresh, Final, Sealed, IsLast, Ending, Falls, Leavers
    <2>3. Keeps(l, l, 0)
      BY DEF Keeps
    <2>. QED
      BY <1>1, <2>2, <2>3
  <1>2. CASE e.last.op # "CONTINUE"
    <2>1. body.code = e.code \o make_instruction("CONTINUE", <<>>)
      BY <1>2 DEF Emit
    <2>2. MayLeave(l.kind, "CONTINUE")
      BY DEF MayLeave
    <2>. QED
      BY <2>1, <2>2, SealLaid
  <1>. QED
    BY <1>1, <1>2

----------------------------------------------------------------------------
(* What the compiler knows between two steps of the walk *)

(* Where the walk is: how many scopes and loops are open, how many values  *)
(* are on the stack, whether the flag is up, whether it is in the update   *)
(* of a loop, and what is known of the last instruction: 2 that it ends a  *)
(* value, 1 that if it looks like the end of something then it is there.   *)
State == [level : Nat, loops : Nat, depth : Nat, void : BOOLEAN,
          update : BOOLEAN, end : 0..2]

St(level, looping, depth, void, update, end) ==
  [level |-> level, loops |-> looping, depth |-> depth, void |-> void,
   update |-> update, end |-> end]

(* The array of level s.level is laid out as ViewOf says; hm[m] is the     *)
(* array in which the breaks of the m-th open loop are, 0 before its body. *)
ViewOf(level, ss, lay) == lay[ss[level].ins]

Places == [loop : BOOLEAN, function : BOOLEAN, update : BOOLEAN]

PlaceOK(place, s, ss, lay, hm) ==
  /\ place \in Places
  /\ place.loop => /\ s.loops \in 1..Len(hm)
                   /\ hm[s.loops] = ss[s.level].ins
                   /\ ViewOf(s.level, ss, lay).kind = "loop"
  /\ place.function => ViewOf(s.level, ss, lay).kind = "function"
  /\ s.update => place.update

JumpAt(l, p, op, d) == p \in DOMAIN l.at /\ l.at[p].op = op /\ l.depth[p] = d
PlaceAt(l, p, d) == p \in DOMAIN l.depth /\ l.depth[p] = d
BreakAt(l, p) == p \in DOMAIN l.at /\ l.at[p].op = "BREAK"

Waits(m, hm) == m \in 1..Len(hm) /\ hm[m] = 0

----------------------------------------------------------------------------
(* What each thing left to do finds, s, and what it leaves, u              *)

ExpressionOK(it, s, u, ss, lay, hm) ==
  /\ PlaceOK(it.place, s, ss, lay, hm)
  /\ s.void = FALSE
  /\ it.name \in Names \cup {NULL}
  /\ it.kind \in {"value", "void"}
  /\ it.kind = "value" => u = St(s.level, s.loops, s.depth + 1, FALSE, s.update, 0)
  /\ it.kind = "void" => u = St(s.level, s.loops, s.depth, TRUE, s.update, 1)

BlockOK(it, s, u, ss, lay, hm) ==
  /\ it \in [do : {"block"}, place : Places, value : BOOLEAN, got : BOOLEAN]
  /\ PlaceOK(it.place, s, ss, lay, hm)
  /\ s.void = FALSE
  /\ s.end >= 1
  /\ it.got => s.end = 2
  /\ u = St(s.level, s.loops, s.depth, FALSE, s.update, IF it.value THEN 2 ELSE 1)

StatementOK(s, u) ==
  \/ /\ s.void = TRUE /\ s.end >= 1
     /\ u = St(s.level, s.loops, s.depth, FALSE, s.update, 1)
  \/ /\ s.void = FALSE /\ s.depth >= 1
     /\ u = St(s.level, s.loops, s.depth - 1, FALSE, s.update, 2)

SaveOK(it, s, u) ==
  /\ s.void = FALSE /\ s.depth >= 1
  /\ it.symbol.index \in Nat
  /\ u = St(s.level, s.loops, s.depth - 1, FALSE, s.update, 1)

Plain == OpSet \ (Jumps \cup Leavers \cup {"POP"})

EmitOK(it, s, u, ss, lay) ==
  /\ s.void = FALSE
  /\ it.op \in Plain \cup {"RETURN_VALUE"}
  /\ ArgsOK(it.op, it.operands)
  /\ s.depth >= Takes(it.op, it.operands)
  /\ it.op \in Plain =>
       u = St(s.level, s.loops, s.depth - Takes(it.op, it.operands) + Leaves(it.op),
              FALSE, s.update, 0)
  /\ it.op = "RETURN_VALUE" =>
       /\ ViewOf(s.level, ss, lay).kind = "function"
       /\ u = St(s.level, s.loops, s.depth - 1, FALSE, s.update, 2)

AssignOK(it, s, u) ==
  /\ s.void = FALSE /\ s.depth >= 1
  /\ it.symbol.scope \in {"GLOBAL", "LOCAL", "FREE"} /\ it.symbol.index \in Nat
  /\ u = St(s.level, s.loops, s.depth, FALSE, s.update, 0)

ConsequenceOK(it, s, u, ss, lay, hm) ==
  /\ PlaceOK(it.place, s, ss, lay, hm)
  /\ s.void = FALSE /\ s.depth >= 1
  /\ u = St(s.level, s.loops, s.depth, FALSE, s.update, 0)

AlternativeOK(it, s, u, ss, lay, hm) ==
  /\ PlaceOK(it.place, s, ss, lay, hm)
  /\ s.void = FALSE /\ s.end = 2
  /\ JumpAt(ViewOf(s.level, ss, lay), it.jump, "JMP_IF_FALSE", s.depth + 1)
  /\ u = St(s.level, s.loops, s.depth + 1, FALSE, s.update, 0)

EndIfOK(it, s, u, ss, lay) ==
  /\ s.void = FALSE /\ s.end = 2
  /\ JumpAt(ViewOf(s.level, ss, lay), it.jump, "JMP", s.depth + 1)
  /\ u = St(s.level, s.loops, s.depth + 1, FALSE, s.update, 0)

EndFunctionOK(s, u, ss, lay) ==
  /\ s.void = FALSE /\ s.update = FALSE /\ s.depth = 0 /\ s.end >= 1
  /\ s.level >= 2
  /\ ViewOf(s.level, ss, lay).kind = "function"
  /\ LET outer == ViewOf(s.level - 1, ss, lay)
     IN  u = St(s.level - 1, s.loops, outer.depth[outer.size] + 1, FALSE, FALSE, 0)

ConditionOK(it, s, u, ss, lay, hm) ==
  /\ PlaceOK(it.place, u, ss, lay, hm)
  /\ s.void = FALSE /\ s.update = FALSE
  /\ Waits(s.loops, hm)
  /\ u = St(s.level, s.loops - 1, s.depth, TRUE, FALSE, 1)

BodyOK(it, s, u, ss, lay, hm) ==
  /\ PlaceOK(it.place, u, ss, lay, hm)
  /\ s.void = FALSE /\ s.update = FALSE /\ s.depth >= 1
  /\ Waits(s.loops, hm)
  /\ PlaceAt(ViewOf(s.level, ss, lay), it.before, s.depth - 1)
  /\ u = St(s.level, s.loops - 1, s.depth - 1, TRUE, FALSE, 1)

EndBodyOK(it, s, u, ss, lay, hm) ==
  /\ PlaceOK(it.place, u, ss, lay, hm)
  /\ s.void = FALSE /\ s.update = FALSE /\ s.depth = 0 /\ s.end >= 1
  /\ s.level >= 2
  /\ s.loops \in 1..Len(hm) /\ hm[s.loops] = ss[s.level].ins
  /\ ViewOf(s.level, ss, lay).kind = "loop"
  /\ LET outer == ViewOf(s.level - 1, ss, lay)
         d     == outer.depth[outer.size]
     IN  /\ JumpAt(outer, it.jump, "JMP_IF_FALSE", d + 1)
         /\ PlaceAt(outer, it.before, d)
         /\ u = St(s.level - 1, s.loops - 1, d, TRUE, FALSE, 1)

EndLoopOK(it, s, u, ss, lay) ==
  /\ s.void = FALSE /\ s.update = TRUE
  /\ JumpAt(ViewOf(s.level, ss, lay), it.jump, "JMP_IF_FALSE", s.depth + 1)
  /\ PlaceAt(ViewOf(s.level, ss, lay), it.before, s.depth)
  /\ u = St(s.level, s.loops, s.depth, TRUE, FALSE, 1)
  /\ it.slot = s.level + 1 /\ it.slot <= Len(ss)
  /\ ss[it.slot].ins \in DOMAIN lay
  /\ \A level \in 1..s.level : ss[level].ins # ss[it.slot].ins
  /\ it.breaks \in Seq(Nat)
  /\ \A k \in 1..Len(it.breaks) : BreakAt(lay[ss[it.slot].ins], it.breaks[k])

Joined(it, s, u, ss, lay, hm) ==
  \/ it.do = "expression" /\ ExpressionOK(it, s, u, ss, lay, hm)
  \/ it.do = "block" /\ BlockOK(it, s, u, ss, lay, hm)
  \/ it.do = "expression_statement" /\ StatementOK(s, u)
  \/ it.do = "save" /\ SaveOK(it, s, u)
  \/ it.do = "emit" /\ EmitOK(it, s, u, ss, lay)
  \/ it.do = "assign" /\ AssignOK(it, s, u)
  \/ it.do = "consequence" /\ ConsequenceOK(it, s, u, ss, lay, hm)
  \/ it.do = "alternative" /\ AlternativeOK(it, s, u, ss, lay, hm)
  \/ it.do = "end_if" /\ EndIfOK(it, s, u, ss, lay)
  \/ it.do = "end_function" /\ EndFunctionOK(s, u, ss, lay)
  \/ it.do = "condition" /\ ConditionOK(it, s, u, ss, lay, hm)
  \/ it.do = "body" /\ BodyOK(it, s, u, ss, lay, hm)
  \/ it.do = "end_body" /\ EndBodyOK(it, s, u, ss, lay, hm)
  \/ it.do = "end_loop" /\ EndLoopOK(it, s, u, ss, lay)

(* What is left to do keeps its meaning when code grows: at levels below n *)
(* nothing has changed, level n keeps what Keeps says, and so do the loops *)
(* up to k.                                                                *)
Stays(n, k, m, ss, lay, hm, ss2, lay2, hm2) ==
  /\ \A level \in 1..n : ss2[level].ins = ss[level].ins
  /\ \A level \in 1..n - 1 : ViewOf(level, ss2, lay2) = ViewOf(level, ss, lay)
  /\ Keeps(ViewOf(n, ss, lay), ViewOf(n, ss2, lay2), m)
  /\ k <= Len(hm) /\ k <= Len(hm2)
  /\ \A j \in 1..k : hm2[j] = hm[j]

(* The same for the scope that has just been left, while the update of its *)
(* loop is compiled.                                                       *)
SlotsStay(ss, lay, ss2, lay2) ==
  /\ Len(ss2) = Len(ss) /\ DOMAIN lay2 = DOMAIN lay
  /\ \A level \in 1..Len(ss) : ss2[level].ins = ss[level].ins
  /\ \A c \in DOMAIN lay : \A p : BreakAt(lay[c], p) => BreakAt(lay2[c], p)

LEMMA KindStays ==
  ASSUME NEW n \in Nat, NEW k \in Nat, NEW m, NEW ss, NEW lay, NEW hm, NEW ss2, NEW lay2, NEW hm2,
         Stays(n, k, m, ss, lay, hm, ss2, lay2, hm2), NEW level \in 1..n
  PROVE  /\ ss2[level].ins = ss[level].ins
         /\ ViewOf(level, ss2, lay2).kind = ViewOf(level, ss, lay).kind
  BY DEF Stays, Keeps

LEMMA PlaceStays ==
  ASSUME NEW n \in Nat, NEW k \in Nat, NEW m, NEW ss, NEW lay, NEW hm \in Seq(Nat), NEW ss2, NEW lay2,
         NEW hm2 \in Seq(Nat),
         Stays(n, k, m, ss, lay, hm, ss2, lay2, hm2),
         NEW s \in State, s.level \in 1..n, s.loops <= k,
         NEW place, PlaceOK(place, s, ss, lay, hm)
  PROVE  PlaceOK(place, s, ss2, lay2, hm2)
  <1>1. /\ ss2[s.level].ins = ss[s.level].ins
        /\ ViewOf(s.level, ss2, lay2).kind = ViewOf(s.level, ss, lay).kind
    BY KindStays
  <1>2. s.loops \in 1..Len(hm) => s.loops \in 1..Len(hm2) /\ hm2[s.loops] = hm[s.loops]
    BY DEF Stays, State
  <1>. QED
    BY <1>1, <1>2 DEF PlaceOK

LEMMA JumpStays ==
  ASSUME NEW n \in Nat, NEW k \in Nat, NEW m, NEW ss, NEW lay, NEW hm, NEW ss2, NEW lay2, NEW hm2,
         Stays(n, k, m, ss, lay, hm, ss2, lay2, hm2),
         NEW level \in 1..n, NEW p, NEW op \in Jumps, NEW d,
         JumpAt(ViewOf(level, ss, lay), p, op, d)
  PROVE  JumpAt(ViewOf(level, ss2, lay2), p, op, d)
  <1>1. CASE level = n
    <2>1. op # "POP"
      BY DEF Jumps
    <2>. QED
      BY <1>1, <2>1 DEF Stays, Keeps, JumpAt
  <1>2. CASE level # n
    <2>1. level \in 1..n - 1
      BY <1>2
    <2>. QED
      BY <2>1 DEF Stays
  <1>. QED
    BY <1>1, <1>2

LEMMA MarkStays ==
  ASSUME NEW n \in Nat, NEW k \in Nat, NEW m, NEW ss, NEW lay, NEW hm, NEW ss2, NEW lay2, NEW hm2,
         Stays(n, k, m, ss, lay, hm, ss2, lay2, hm2),
         NEW level \in 1..n, NEW p, NEW d, level = n => p <= m,
         PlaceAt(ViewOf(level, ss, lay), p, d)
  PROVE  PlaceAt(ViewOf(level, ss2, lay2), p, d)
  <1>1. CASE level = n
    BY <1>1 DEF Stays, Keeps, PlaceAt
  <1>2. CASE level # n
    <2>1. level \in 1..n - 1
      BY <1>2
    <2>. QED
      BY <2>1 DEF Stays
  <1>. QED
    BY <1>1, <1>2

LEMMA ItemStays ==
  ASSUME NEW it, NEW s, NEW u, NEW n, NEW k, NEW m, NEW ss, NEW lay, NEW hm,
         NEW ss2, NEW lay2, NEW hm2,
         n \in Nat, k \in Nat, hm \in Seq(Nat), hm2 \in Seq(Nat),
         Stays(n, k, m, ss, lay, hm, ss2, lay2, hm2),
         s \in State, s.level \in 1..n, s.loops <= k,
         u \in State, u.level \in 1..n, u.loops <= k,
         s.update = TRUE => SlotsStay(ss, lay, ss2, lay2),
         it.do \in {"body", "end_loop"} /\ s.level = n => it.before <= m,
         Joined(it, s, u, ss, lay, hm)
  PROVE  Joined(it, s, u, ss2, lay2, hm2)
  <1>1. /\ ss2[s.level].ins = ss[s.level].ins
        /\ ViewOf(s.level, ss2, lay2).kind = ViewOf(s.level, ss, lay).kind
    BY KindStays
  <1>2. \A j \in 1..k : j \in 1..Len(hm2) /\ hm2[j] = hm[j]
    BY DEF Stays
  <1>3. s.loops \in Nat /\ (s.loops \in 1..Len(hm) => s.loops \in 1..Len(hm2) /\ hm2[s.loops] = hm[s.loops])
    BY <1>2 DEF State
  <1>4. \A place : PlaceOK(place, s, ss, lay, hm) => PlaceOK(place, s, ss2, lay2, hm2)
    BY PlaceStays
  <1>5. \A place : PlaceOK(place, u, ss, lay, hm) => PlaceOK(place, u, ss2, lay2, hm2)
    BY PlaceStays
  <1>6. s.level >= 2 => ViewOf(s.level - 1, ss2, lay2) = ViewOf(s.level - 1, ss, lay)
    BY DEF Stays, State
  <1>7. \A p, d : \A op \in Jumps : JumpAt(ViewOf(s.level, ss, lay), p, op, d)
                                     => JumpAt(ViewOf(s.level, ss2, lay2), p, op, d)
    BY JumpStays
  <1>8. \A p, d : (s.level = n => p <= m) /\ PlaceAt(ViewOf(s.level, ss, lay), p, d)
                  => PlaceAt(ViewOf(s.level, ss2, lay2), p, d)
    BY MarkStays
  <1>9. "JMP_IF_FALSE" \in Jumps /\ "JMP" \in Jumps
    BY DEF Jumps
  <1>10. CASE it.do = "expression" /\ ExpressionOK(it, s, u, ss, lay, hm)
    BY <1>10, <1>4 DEF Joined, ExpressionOK
  <1>11. CASE it.do = "block" /\ BlockOK(it, s, u, ss, lay, hm)
    BY <1>11, <1>4 DEF Joined, BlockOK
  <1>12. CASE it.do = "expression_statement" /\ StatementOK(s, u)
    BY <1>12 DEF Joined
  <1>13. CASE it.do = "save" /\ SaveOK(it, s, u)
    BY <1>13 DEF Joined
  <1>14. CASE it.do = "emit" /\ EmitOK(it, s, u, ss, lay)
    BY <1>14, <1>1 DEF Joined, EmitOK
  <1>15. CASE it.do = "assign" /\ AssignOK(it, s, u)
    BY <1>15 DEF Joined
  <1>16. CASE it.do = "consequence" /\ ConsequenceOK(it, s, u, ss, lay, hm)
    BY <1>16, <1>4 DEF Joined, ConsequenceOK
  <1>17. CASE it.do = "alternative" /\ AlternativeOK(it, s, u, ss, lay, hm)
    BY <1>17, <1>4, <1>7, <1>9 DEF Joined, AlternativeOK
  <1>18. CASE it.do = "end_if" /\ EndIfOK(it, s, u, ss, lay)
    BY <1>18, <1>7, <1>9 DEF Joined, EndIfOK
  <1>19. CASE it.do = "end_function" /\ EndFunctionOK(s, u, ss, lay)
    BY <1>19, <1>1, <1>6 DEF Joined, EndFunctionOK
  <1>20. CASE it.do = "condition" /\ ConditionOK(it, s, u, ss, lay, hm)
    BY <1>20, <1>3, <1>5 DEF Joined, ConditionOK, Waits
  <1>21. CASE it.do = "body" /\ BodyOK(it, s, u, ss, lay, hm)
    <2>1. PlaceAt(ViewOf(s.level, ss2, lay2), it.before, s.depth - 1)
      BY <1>21, <1>8 DEF BodyOK
    <2>. QED
      BY <1>21, <2>1, <1>3, <1>5 DEF Joined, BodyOK, Waits
  <1>22. CASE it.do = "end_body" /\ EndBodyOK(it, s, u, ss, lay, hm)
    BY <1>22, <1>1, <1>3, <1>5, <1>6 DEF Joined, EndBodyOK
  <1>23. CASE it.do = "end_loop" /\ EndLoopOK(it, s, u, ss, lay)
    <2>1. /\ JumpAt(ViewOf(s.level, ss2, lay2), it.jump, "JMP_IF_FALSE", s.depth + 1)
          /\ PlaceAt(ViewOf(s.level, ss2, lay2), it.before, s.depth)
      BY <1>23, <1>7, <1>8, <1>9 DEF EndLoopOK
    <2>2. SlotsStay(ss, lay, ss2, lay2)
      BY <1>23 DEF EndLoopOK
    <2>3. it.slot \in 1..Len(ss) /\ \A level \in 1..s.level : level \in 1..Len(ss)
      BY <1>23 DEF EndLoopOK, State
    <2>. QED
      BY <1>23, <2>1, <2>2, <2>3 DEF Joined, EndLoopOK, SlotsStay
  <1>. QED
    BY <1>10, <1>11, <1>12, <1>13, <1>14, <1>15, <1>16, <1>17, <1>18, <1>19, <1>20, <1>21,
       <1>22, <1>23 DEF Joined

----------------------------------------------------------------------------
(* The whole of what is known *)

IsSeq(s) == \E S : s \in Seq(S)

Mark == [op : OpSet, pos : Nat]
Slot == [ins : Nat, last : Mark, prev : Mark]

(* Item i of what is left to do finds g[i] and leaves g[i + 1].            *)
Chain(td, g, ss, lay, hm) ==
  /\ IsSeq(td) /\ g \in Seq(State) /\ Len(g) = Len(td) + 1
  /\ \A i \in 1..Len(td) : Joined(td[i], g[i], g[i + 1], ss, lay, hm)

(* Scopes and loops are only left, and so is an update.                    *)
Mono(g) ==
  \A i, j \in 1..Len(g) : i <= j =>
    /\ g[j].level <= g[i].level /\ g[j].loops <= g[i].loops
    /\ g[j].update = TRUE => g[i].update = TRUE

(* No place in the code of level n after p is needed.                      *)
Marked(p, td, g, n) ==
  \A i \in 1..Len(td) :
    td[i].do \in {"body", "end_loop"} /\ g[i].level = n => td[i].before <= p

Patching == {"alternative", "end_if", "end_body", "end_loop"}

(* Something is left to do for every jump without a target.                *)
OpenOK(td, g, ss, lay, n) ==
  \A level \in 1..n : \A p \in ViewOf(level, ss, lay).open :
    \E i \in 1..Len(td) :
      td[i].do \in Patching /\ td[i].jump = p /\ g[i + 1].level = level

EndOK(s, last, l, td, g, n) ==
  /\ s.end >= 1 /\ last.op \in Ending => Fresh(last, l) /\ Marked(last.pos, td, g, n)
  /\ s.end = 2 => last.op \in Ending

NowOK(s, last, l, td, g, n, ls, v) ==
  /\ s.level = n /\ s.loops = Len(ls) /\ s.void = v /\ s.depth = l.depth[l.size]
  /\ EndOK(s, last, l, td, g, n)

LaysOK(ar, lay) ==
  /\ IsSeq(ar)
  /\ DOMAIN lay = 1..Len(ar)
  /\ \A c \in 1..Len(ar) : Laid(ar[c], lay[c])

ScopesOK(n, ss, ar, lay) ==
  /\ ss \in Seq(Slot) /\ n \in 1..Len(ss)
  /\ \A level \in 1..n : ss[level].ins \in 1..Len(ar)
  /\ \A i, j \in 1..n : ss[i].ins = ss[j].ins => i = j
  /\ ss[1].ins = 1 /\ lay[1].kind = "main"

(* A finished body is not open, and it never runs off its end.             *)
PoolOK(cs, n, ss, lay) ==
  /\ IsSeq(cs)
  /\ \A i \in 1..Len(cs) : cs[i].kind # "value" =>
       /\ cs[i].kind \in {"function", "loop"}
       /\ cs[i].ins \in DOMAIN lay
       /\ \A level \in 1..n : ss[level].ins # cs[i].ins
       /\ lay[cs[i].ins].kind = cs[i].kind
       /\ Sealed(lay[cs[i].ins])

(* The breaks of the m-th open loop are in array hm[m].                    *)
HomesOK(ls, hm, lay) ==
  /\ ls \in Seq(Seq(Nat)) /\ hm \in Seq(Nat) /\ Len(hm) = Len(ls)
  /\ \A m \in 1..Len(ls) : \A k \in 1..Len(ls[Len(ls) + 1 - m]) :
       /\ hm[m] \in DOMAIN lay
       /\ BreakAt(lay[hm[m]], ls[Len(ls) + 1 - m][k])

Core(td, g, ss, ar, lay, cs, ls, hm, n, v) ==
  /\ LaysOK(ar, lay)
  /\ ScopesOK(n, ss, ar, lay)
  /\ PoolOK(cs, n, ss, lay)
  /\ HomesOK(ls, hm, lay)
  /\ Chain(td, g, ss, lay, hm)
  /\ Mono(g)
  /\ NowOK(g[1], ss[n].last, ViewOf(n, ss, lay), td, g, n, ls, v)
  /\ OpenOK(td, g, ss, lay, n)
  /\ g[Len(g)] = St(1, 0, 0, FALSE, FALSE, 1)

----------------------------------------------------------------------------
(* Replacing the first thing to do *)

LEMMA Items ==
  ASSUME NEW td, IsSeq(td), td # <<>>, NEW ys, IsSeq(ys)
  PROVE  /\ IsSeq(ys \o Tail(td))
         /\ Len(td) \in Nat \ {0} /\ Len(ys) \in Nat
         /\ Len(ys \o Tail(td)) = Len(ys) + Len(td) - 1
         /\ \A i \in 1..Len(ys) : (ys \o Tail(td))[i] = ys[i]
         /\ \A i \in 2..Len(td) : (ys \o Tail(td))[i + Len(ys) - 1] = td[i]
  <1>1. PICK S1 : td \in Seq(S1)
    BY DEF IsSeq
  <1>2. PICK S2 : ys \in Seq(S2)
    BY DEF IsSeq
  <1> DEFINE S == S1 \cup S2
             t == Tail(td)
             s == ys \o t
  <1>3. td \in Seq(S) /\ ys \in Seq(S)
    BY <1>1, <1>2, SeqMonotonic
  <1>4. /\ t \in Seq(S) /\ Len(t) = Len(td) - 1 /\ Len(td) \in Nat \ {0}
        /\ \A i \in 1..Len(t) : t[i] = td[i + 1]
    BY <1>3, HeadTailProperties, EmptySeq, LenProperties
  <1>. HIDE DEF S, t
  <1>5. /\ s \in Seq(S) /\ Len(s) = Len(ys) + Len(t) /\ Len(ys) \in Nat
        /\ \A i \in 1..Len(ys) + Len(t) : s[i] = IF i <= Len(ys) THEN ys[i] ELSE t[i - Len(ys)]
    BY <1>3, <1>4, ConcatProperties, LenProperties
  <1>. HIDE DEF s
  <1>6. ASSUME NEW i \in 2..Len(td)
        PROVE  s[i + Len(ys) - 1] = td[i]
    <2>1. /\ i + Len(ys) - 1 \in 1..Len(ys) + Len(t) /\ ~(i + Len(ys) - 1 <= Len(ys))
          /\ i + Len(ys) - 1 - Len(ys) = i - 1 /\ i - 1 \in 1..Len(t) /\ i - 1 + 1 = i
      BY <1>4, <1>5
    <2>2. s[i + Len(ys) - 1] = t[i - 1]
      BY <2>1, <1>5
    <2>3. t[i - 1] = td[i - 1 + 1]
      BY <2>1, <1>4
    <2>. QED
      BY <2>1, <2>2, <2>3
  <1>7. IsSeq(s)
    BY <1>5 DEF IsSeq
  <1>. QED
    BY <1>4, <1>5, <1>6, <1>7 DEF s, t

(* The states between the new first things to do, and then as they were.   *)
Follows(h, g) ==
  [j \in 1..Len(h) + Len(g) - 2 |->
     IF j <= Len(h) THEN h[j] ELSE g[j - Len(h) + 2]]

LEMMA FollowsFacts ==
  ASSUME NEW h \in Seq(State), NEW g \in Seq(State), Len(h) >= 1, Len(g) >= 2,
         h[Len(h)] = g[2]
  PROVE  /\ Follows(h, g) \in Seq(State) /\ Len(Follows(h, g)) = Len(h) + Len(g) - 2
         /\ \A i \in 1..Len(h) : Follows(h, g)[i] = h[i]
         /\ \A i \in 2..Len(g) : Follows(h, g)[i + Len(h) - 2] = g[i]
         /\ Follows(h, g)[1] = h[1]
         /\ Follows(h, g)[Len(h) + Len(g) - 2] = g[Len(g)]
  <1> DEFINE f == Follows(h, g)
             n == Len(h) + Len(g) - 2
  <1>1. n \in Nat /\ n >= 1 /\ Len(h) \in Nat /\ Len(g) \in Nat
    OBVIOUS
  <1>2. f = [j \in 1..n |-> IF j <= Len(h) THEN h[j] ELSE g[j - Len(h) + 2]]
    BY DEF Follows
  <1>. HIDE DEF f, n
  <1>3. ASSUME NEW j \in 1..n
        PROVE  f[j] \in State
    <2>1. CASE j <= Len(h)
      BY <2>1, <1>1, <1>2
    <2>2. CASE ~(j <= Len(h))
      <3>1. j - Len(h) + 2 \in 1..Len(g)
        BY <2>2, <1>1 DEF n
      <3>. QED
        BY <3>1, <2>2, <1>2
    <2>. QED
      BY <2>1, <2>2
  <1>4. f \in Seq(State) /\ Len(f) = n
    <2>1. f \in [1..n -> State]
      BY <1>2, <1>3
    <2>. QED
      BY <2>1, <1>1
  <1>5. \A i \in 1..Len(h) : i \in 1..n /\ f[i] = h[i]
    BY <1>1, <1>2 DEF n
  <1>6. ASSUME NEW i \in 2..Len(g)
        PROVE  f[i + Len(h) - 2] = g[i]
    <2>1. i + Len(h) - 2 \in 1..n /\ i + Len(h) - 2 - Len(h) + 2 = i
      BY <1>1 DEF n
    <2>2. f[i + Len(h) - 2] = IF i + Len(h) - 2 <= Len(h) THEN h[i + Len(h) - 2]
                                                          ELSE g[i + Len(h) - 2 - Len(h) + 2]
      BY <2>1, <1>2
    <2>3. CASE i = 2
      <3>1. i + Len(h) - 2 = Len(h)
        BY <2>3, <1>1
      <3>. QED
        BY <3>1, <2>2, <2>3, <1>1
    <2>4. CASE i # 2
      <3>1. ~(i + Len(h) - 2 <= Len(h))
        BY <2>4, <1>1
      <3>. QED
        BY <3>1, <2>1, <2>2
    <2>. QED
      BY <2>3, <2>4
  <1>7. f[n] = g[Len(g)]
    <2>1. Len(g) \in 2..Len(g) /\ Len(g) + Len(h) - 2 = n
      BY <1>1 DEF n
    <2>. QED
      BY <2>1, <1>6
  <1>8. f[1] = h[1]
    BY <1>1, <1>5
  <1>. QED
    BY <1>4, <1>5, <1>6, <1>7, <1>8 DEF f, n

LEMMA MonoFollows ==
  ASSUME NEW h \in Seq(State), NEW g \in Seq(State), Len(h) >= 1, Len(g) >= 2,
         h[Len(h)] = g[2], Mono(h), Mono(g)
  PROVE  Mono(Follows(h, g))
  <1> DEFINE f == Follows(h, g)
             n == Len(h) + Len(g) - 2
             Below(s, t) == /\ t.level <= s.level /\ t.loops <= s.loops
                            /\ t.update = TRUE => s.update = TRUE
  <1>1. /\ Len(f) = n
        /\ \A i \in 1..Len(h) : f[i] = h[i]
        /\ \A i \in 2..Len(g) : f[i + Len(h) - 2] = g[i]
        /\ Len(h) \in Nat /\ Len(g) \in Nat
    BY FollowsFacts
  <1>. HIDE DEF f
  <1>2. \A i, j \in 1..Len(h) : i <= j => Below(h[i], h[j])
    BY DEF Mono
  <1>3. \A i, j \in 1..Len(g) : i <= j => Below(g[i], g[j])
    BY DEF Mono
  <1>4. ASSUME NEW s \in State, NEW t \in State, NEW u \in State, Below(s, t), Below(t, u)
        PROVE  Below(s, u)
    <2>1. /\ {s.level, t.level, u.level} \subseteq Nat
          /\ {s.loops, t.loops, u.loops} \subseteq Nat
      BY DEF State
    <2>2. u.level <= s.level /\ u.loops <= s.loops
      BY <2>1, <1>4
    <2>. QED
      BY <2>2, <1>4
  <1>. HIDE DEF Below
  <1>5. ASSUME NEW i \in 1..n, NEW j \in 1..n, i <= j
        PROVE  Below(f[i], f[j])
    <2>1. CASE j <= Len(h)
      <3>1. i \in 1..Len(h) /\ j \in 1..Len(h)
        BY <2>1, <1>1, <1>5
      <3>2. f[i] = h[i] /\ f[j] = h[j]
        BY <3>1, <1>1
      <3>. QED
        BY <3>1, <3>2, <1>2, <1>5
    <2>2. CASE i > Len(h)
      <3> DEFINE a == i - Len(h) + 2
                 b == j - Len(h) + 2
      <3>1. a \in 2..Len(g) /\ b \in 2..Len(g) /\ a <= b /\ a + Len(h) - 2 = i /\ b + Len(h) - 2 = j
        BY <2>2, <1>1, <1>5
      <3>. HIDE DEF a, b
      <3>2. f[i] = g[a] /\ f[j] = g[b]
        BY <3>1, <1>1
      <3>3. a \in 1..Len(g) /\ b \in 1..Len(g)
        BY <3>1, <1>1
      <3>. QED
        BY <3>1, <3>2, <3>3, <1>3
    <2>3. CASE i <= Len(h) /\ j > Len(h)
      <3> DEFINE b == j - Len(h) + 2
      <3>1. b \in 2..Len(g) /\ b + Len(h) - 2 = j /\ i \in 1..Len(h) /\ Len(h) \in 1..Len(h)
            /\ 2 \in 1..Len(g) /\ b \in 1..Len(g) /\ 2 <= b /\ i <= Len(h)
        BY <2>3, <1>1, <1>5
      <3>. HIDE DEF b
      <3>2. f[i] = h[i] /\ f[j] = g[b]
        BY <3>1, <1>1
      <3>3. Below(h[i], h[Len(h)]) /\ Below(g[2], g[b])
        BY <3>1, <1>2, <1>3
      <3>4. h[i] \in State /\ h[Len(h)] \in State /\ g[b] \in State
        BY <3>1
      <3>. QED
        BY <3>2, <3>3, <3>4, <1>4
    <2>. QED
      BY <2>1, <2>2, <2>3, <1>1, <1>5
  <1>. QED
    BY <1>1, <1>5 DEF Mono, Below, f

(* What all of these lemmas need of the lists.                             *)
Replaces(td, g, ys, h) ==
  /\ IsSeq(td) /\ g \in Seq(State) /\ Len(g) = Len(td) + 1 /\ td # <<>>
  /\ IsSeq(ys) /\ h \in Seq(State) /\ Len(h) = Len(ys) + 1
  /\ h[Len(h)] = g[2]

RestMarked(p, td, g, n) ==
  \A i \in 2..Len(td) :
    td[i].do \in {"body", "end_loop"} /\ g[i].level = n => td[i].before <= p

(* The jumps that wait for a target: those that waited before, without the *)
(* one of the first thing to do, and those the new things have.            *)
StillOpen(open, l, td, g, ys, h, n) ==
  \A p \in open :
    \/ p \in l.open /\ ~(td[1].do \in Patching /\ td[1].jump = p /\ g[2].level = n)
    \/ \E i \in 1..Len(ys) : ys[i].do \in Patching /\ ys[i].jump = p /\ h[i + 1].level = n

Opened(td, g, ss, lay, n, ys, h, ss2, lay2, n2) ==
  \A level \in 1..n2 :
    \/ ViewOf(level, ss2, lay2).open = {}
    \/ /\ level \in 1..n
       /\ StillOpen(ViewOf(level, ss2, lay2).open, ViewOf(level, ss, lay), td, g, ys, h, level)

AllJoined(ys, h, ss, lay, hm) ==
  \A i \in 1..Len(ys) : Joined(ys[i], h[i], h[i + 1], ss, lay, hm)

(* t and f are td and g with the first thing to do replaced.              *)
Spliced(td, g, ys, h, t, f) ==
  /\ IsSeq(t) /\ f \in Seq(State) /\ Len(f) = Len(t) + 1
  /\ Len(td) \in Nat \ {0} /\ Len(ys) \in Nat
  /\ Len(t) = Len(ys) + Len(td) - 1
  /\ \A i \in 1..Len(ys) : i \in 1..Len(t) /\ t[i] = ys[i] /\ f[i] = h[i] /\ f[i + 1] = h[i + 1]
  /\ \A i \in 2..Len(td) :
       /\ i + Len(ys) - 1 \in 1..Len(t)
       /\ t[i + Len(ys) - 1] = td[i]
       /\ f[i + Len(ys) - 1] = g[i] /\ f[i + Len(ys) - 1 + 1] = g[i + 1]
  /\ \A j \in 1..Len(t) : j \in 1..Len(ys) \/ \E i \in 2..Len(td) : j = i + Len(ys) - 1
  /\ f[1] = h[1] /\ f[Len(f)] = g[Len(g)]

LEMMA Replaced ==
  ASSUME NEW td, NEW g, NEW ys, NEW h, Replaces(td, g, ys, h)
  PROVE  Spliced(td, g, ys, h, ys \o Tail(td), Follows(h, g))
  <1> DEFINE t == ys \o Tail(td)
             f == Follows(h, g)
  <1>1. /\ IsSeq(t)
        /\ Len(td) \in Nat \ {0} /\ Len(ys) \in Nat
        /\ Len(t) = Len(ys) + Len(td) - 1
        /\ \A i \in 1..Len(ys) : t[i] = ys[i]
        /\ \A i \in 2..Len(td) : t[i + Len(ys) - 1] = td[i]
    BY Items DEF Replaces
  <1>2. /\ h \in Seq(State) /\ g \in Seq(State) /\ Len(h) >= 1 /\ Len(g) >= 2
        /\ Len(h) = Len(ys) + 1 /\ Len(g) = Len(td) + 1 /\ h[Len(h)] = g[2]
    BY <1>1 DEF Replaces
  <1>3. /\ f \in Seq(State) /\ Len(f) = Len(h) + Len(g) - 2
        /\ \A i \in 1..Len(h) : f[i] = h[i]
        /\ \A i \in 2..Len(g) : f[i + Len(h) - 2] = g[i]
        /\ f[1] = h[1] /\ f[Len(h) + Len(g) - 2] = g[Len(g)]
    BY <1>2, FollowsFacts
  <1>. HIDE DEF t, f
  <1>4. Len(f) = Len(t) + 1
    BY <1>1, <1>2, <1>3
  <1>5. ASSUME NEW i \in 1..Len(ys)
        PROVE  i \in 1..Len(t) /\ f[i] = h[i] /\ f[i + 1] = h[i + 1]
    <2>1. i \in 1..Len(h) /\ i + 1 \in 1..Len(h) /\ i \in 1..Len(t)
      BY <1>1, <1>2
    <2>. QED
      BY <2>1, <1>3
  <1>6. ASSUME NEW i \in 2..Len(td)
        PROVE  /\ i + Len(ys) - 1 \in 1..Len(t)
               /\ f[i + Len(ys) - 1] = g[i] /\ f[i + Len(ys) - 1 + 1] = g[i + 1]
    <2>1. /\ i \in 2..Len(g) /\ i + 1 \in 2..Len(g)
          /\ i + Len(h) - 2 = i + Len(ys) - 1
          /\ i + 1 + Len(h) - 2 = i + Len(ys) - 1 + 1
          /\ i + Len(ys) - 1 \in 1..Len(t)
      BY <1>1, <1>2
    <2>2. f[i + Len(h) - 2] = g[i] /\ f[i + 1 + Len(h) - 2] = g[i + 1]
      BY <2>1, <1>3
    <2>. QED
      BY <2>1, <2>2
  <1>7. ASSUME NEW j \in 1..Len(t)
        PROVE  j \in 1..Len(ys) \/ \E i \in 2..Len(td) : j = i + Len(ys) - 1
    <2>1. CASE j <= Len(ys)
      BY <2>1, <1>1
    <2>2. CASE ~(j <= Len(ys))
      <3>1. j - Len(ys) + 1 \in 2..Len(td) /\ j = (j - Len(ys) + 1) + Len(ys) - 1
        BY <2>2, <1>1
      <3>. QED
        BY <3>1
    <2>. QED
      BY <2>1, <2>2
  <1>. QED
    BY <1>1, <1>3, <1>4, <1>5, <1>6, <1>7 DEF t, f, Spliced

LEMMA Between == \A a, b, c, d \in Nat : 1 <= a /\ a <= b /\ b <= c /\ c <= d => b \in 1..d
  OBVIOUS

LEMMA ChainFollows ==
  ASSUME NEW td, NEW g, NEW ys, NEW h, Replaces(td, g, ys, h),
         NEW n \in Nat, NEW k \in Nat, NEW m,
         NEW ss, NEW lay, NEW hm \in Seq(Nat), NEW ss2, NEW lay2, NEW hm2 \in Seq(Nat),
         Chain(td, g, ss, lay, hm), Mono(g), g[Len(g)].level >= 1,
         g[2].level <= n, g[2].loops <= k, g[2].update = TRUE => SlotsStay(ss, lay, ss2, lay2),
         Stays(n, k, m, ss, lay, hm, ss2, lay2, hm2),
         RestMarked(m, td, g, n), AllJoined(ys, h, ss2, lay2, hm2)
  PROVE  Chain(ys \o Tail(td), Follows(h, g), ss2, lay2, hm2)
  <1> DEFINE t == ys \o Tail(td)
             f == Follows(h, g)
  <1>1. /\ IsSeq(t) /\ f \in Seq(State) /\ Len(f) = Len(t) + 1
        /\ Len(td) \in Nat \ {0} /\ Len(ys) \in Nat
        /\ \A i \in 1..Len(ys) : t[i] = ys[i] /\ f[i] = h[i] /\ f[i + 1] = h[i + 1]
        /\ \A i \in 2..Len(td) : /\ t[i + Len(ys) - 1] = td[i]
                                 /\ f[i + Len(ys) - 1] = g[i] /\ f[i + Len(ys) - 1 + 1] = g[i + 1]
        /\ \A j \in 1..Len(t) : j \in 1..Len(ys) \/ \E i \in 2..Len(td) : j = i + Len(ys) - 1
    <2>1. Spliced(td, g, ys, h, t, f)
      BY Replaced
    <2>. HIDE DEF t, f
    <2>. QED
      BY ONLY <2>1 DEF Spliced
  <1>2. g \in Seq(State) /\ Len(g) = Len(td) + 1
    BY DEF Replaces
  <1>. HIDE DEF t, f
  <1>3. ASSUME NEW i \in 2..Len(g)
        PROVE  g[i] \in State /\ g[i].level \in 1..n /\ g[i].loops <= k /\ (g[i].update = TRUE => g[2].update = TRUE)
    <2>1. i \in 1..Len(g) /\ 2 \in 1..Len(g) /\ Len(g) \in 1..Len(g) /\ 2 <= i /\ i <= Len(g)
      BY <1>1, <1>2
    <2>2. /\ g[i].level <= g[2].level /\ g[i].loops <= g[2].loops
          /\ g[i].update = TRUE => g[2].update = TRUE
          /\ g[Len(g)].level <= g[i].level
      BY <2>1 DEF Mono
    <2>3. g[i] \in State /\ g[2] \in State /\ g[Len(g)] \in State
      BY <2>1, <1>2
    <2>4. /\ g[i].level \in Nat /\ g[2].level \in Nat /\ g[Len(g)].level \in Nat
          /\ g[i].loops \in Nat /\ g[2].loops \in Nat
      BY <2>3 DEF State
    <2>6. g[2].level <= n /\ g[2].loops <= k /\ g[Len(g)].level >= 1
      OBVIOUS
    <2>7. g[i].level \in 1..n
      BY <2>2, <2>4, <2>6, Between
    <2>8. g[i].loops <= k
      BY <2>2, <2>4, <2>6
    <2>5. g[i].level \in 1..n /\ g[i].loops <= k
      BY <2>7, <2>8
    <2>. QED
      BY <2>2, <2>3, <2>5
  <1>4. ASSUME NEW i \in 2..Len(td)
        PROVE  Joined(td[i], g[i], g[i + 1], ss2, lay2, hm2)
    <2>1. i \in 1..Len(td) /\ i \in 2..Len(g) /\ i + 1 \in 2..Len(g)
      BY <1>1, <1>2
    <2>2. Joined(td[i], g[i], g[i + 1], ss, lay, hm)
      BY <2>1 DEF Chain
    <2>3. /\ g[i] \in State /\ g[i].level \in 1..n /\ g[i].loops <= k /\ (g[i].update = TRUE => SlotsStay(ss, lay, ss2, lay2))
          /\ g[i + 1] \in State /\ g[i + 1].level \in 1..n /\ g[i + 1].loops <= k
      BY <2>1, <1>3
    <2>4. td[i].do \in {"body", "end_loop"} /\ g[i].level = n => td[i].before <= m
      BY DEF RestMarked
    <2> DEFINE s1 == g[i]
               u1 == g[i + 1]
               x1 == td[i]
    <2>5. /\ s1 \in State /\ s1.level \in 1..n /\ s1.loops <= k /\ (s1.update = TRUE => SlotsStay(ss, lay, ss2, lay2))
          /\ u1 \in State /\ u1.level \in 1..n /\ u1.loops <= k
          /\ x1.do \in {"body", "end_loop"} /\ s1.level = n => x1.before <= m
          /\ Joined(x1, s1, u1, ss, lay, hm)
      BY <2>2, <2>3, <2>4
    <2>. HIDE DEF s1, u1, x1
    <2>7. Joined(x1, s1, u1, ss2, lay2, hm2)
      BY <2>5, ItemStays
    <2>. QED
      BY <2>7 DEF s1, u1, x1
  <1>5. ASSUME NEW j \in 1..Len(t)
        PROVE  Joined(t[j], f[j], f[j + 1], ss2, lay2, hm2)
    <2>1. CASE j \in 1..Len(ys)
      BY <2>1, <1>1 DEF AllJoined
    <2>2. CASE \E i \in 2..Len(td) : j = i + Len(ys) - 1
      <3>1. PICK i \in 2..Len(td) : j = i + Len(ys) - 1
        BY <2>2
      <3>2. Joined(td[i], g[i], g[i + 1], ss2, lay2, hm2)
        BY <1>4
      <3>3. t[j] = td[i] /\ f[j] = g[i] /\ f[j + 1] = g[i + 1]
        BY <3>1, <1>1
      <3>. QED
        BY <3>2, <3>3
    <2>. QED
      BY <2>1, <2>2, <1>1
  <1>. QED
    BY <1>1, <1>5 DEF Chain, t, f

LEMMA MarkedFollows ==
  ASSUME NEW td, NEW g, NEW ys, NEW h, Replaces(td, g, ys, h), NEW p, NEW n,
         Marked(p, ys, h, n), RestMarked(p, td, g, n)
  PROVE  Marked(p, ys \o Tail(td), Follows(h, g), n)
  <1> DEFINE t == ys \o Tail(td)
             f == Follows(h, g)
  <1>1. /\ \A i \in 1..Len(ys) : t[i] = ys[i] /\ f[i] = h[i] /\ f[i + 1] = h[i + 1]
        /\ \A i \in 2..Len(td) : /\ t[i + Len(ys) - 1] = td[i]
                                 /\ f[i + Len(ys) - 1] = g[i] /\ f[i + Len(ys) - 1 + 1] = g[i + 1]
        /\ \A j \in 1..Len(t) : j \in 1..Len(ys) \/ \E i \in 2..Len(td) : j = i + Len(ys) - 1
    <2>1. Spliced(td, g, ys, h, t, f)
      BY Replaced
    <2>. HIDE DEF t, f
    <2>. QED
      BY ONLY <2>1 DEF Spliced
  <1>. HIDE DEF t, f
  <1>2. ASSUME NEW j \in 1..Len(t), t[j].do \in {"body", "end_loop"}, f[j].level = n
        PROVE  t[j].before <= p
    <2>1. CASE j \in 1..Len(ys)
      BY <2>1, <1>1, <1>2 DEF Marked
    <2>2. CASE \E i \in 2..Len(td) : j = i + Len(ys) - 1
      <3>1. PICK i \in 2..Len(td) : j = i + Len(ys) - 1
        BY <2>2
      <3>2. t[j] = td[i] /\ f[j] = g[i]
        BY <3>1, <1>1
      <3>. QED
        BY <3>2, <1>2 DEF RestMarked
    <2>. QED
      BY <2>1, <2>2, <1>1
  <1>. QED
    BY <1>2 DEF Marked, t, f

LEMMA OpenFollows ==
  ASSUME NEW td, NEW g, NEW ys, NEW h, Replaces(td, g, ys, h),
         NEW ss, NEW lay, NEW n, NEW ss2, NEW lay2, NEW n2,
         OpenOK(td, g, ss, lay, n),
         Opened(td, g, ss, lay, n, ys, h, ss2, lay2, n2)
  PROVE  OpenOK(ys \o Tail(td), Follows(h, g), ss2, lay2, n2)
  <1> DEFINE t == ys \o Tail(td)
             f == Follows(h, g)
  <1>1. /\ Len(td) \in Nat \ {0} /\ Len(ys) \in Nat
        /\ \A i \in 1..Len(ys) : i \in 1..Len(t) /\ t[i] = ys[i] /\ f[i + 1] = h[i + 1]
        /\ \A i \in 2..Len(td) : /\ i + Len(ys) - 1 \in 1..Len(t)
                                 /\ t[i + Len(ys) - 1] = td[i]
                                 /\ f[i + Len(ys) - 1 + 1] = g[i + 1]
    <2>1. Spliced(td, g, ys, h, t, f)
      BY Replaced
    <2>. HIDE DEF t, f
    <2>. QED
      BY ONLY <2>1 DEF Spliced
  <1>. HIDE DEF t, f
  <1>2. ASSUME NEW level \in 1..n2, NEW p \in ViewOf(level, ss2, lay2).open
        PROVE  \E i \in 1..Len(t) : t[i].do \in Patching /\ t[i].jump = p /\ f[i + 1].level = level
    <2>1. CASE \E i \in 1..Len(ys) :
                 ys[i].do \in Patching /\ ys[i].jump = p /\ h[i + 1].level = level
      BY <2>1, <1>1
    <2>2. CASE /\ level \in 1..n /\ p \in ViewOf(level, ss, lay).open
               /\ ~(td[1].do \in Patching /\ td[1].jump = p /\ g[2].level = level)
      <3>1. PICK i \in 1..Len(td) : td[i].do \in Patching /\ td[i].jump = p /\ g[i + 1].level = level
        BY <2>2 DEF OpenOK
      <3>2. i \in 2..Len(td)
        <4>1. i # 1
          BY <2>2, <3>1
        <4>. QED
          BY <4>1, <1>1
      <3> DEFINE j == i + Len(ys) - 1
      <3>3. j \in 1..Len(t) /\ t[j] = td[i] /\ f[j + 1] = g[i + 1]
        BY <3>2, <1>1
      <3>. HIDE DEF j
      <3>. QED
        BY <3>1, <3>3
    <2>. QED
      BY <2>1, <2>2, <1>2 DEF Opened, StillOpen
  <1>. QED
    BY <1>2 DEF OpenOK, t, f

(* The code of level n becomes what l2 lays out, and nothing else changes. *)
Rewritten(n, l2, ss, ar, lay, ss2, ar2, lay2) ==
  /\ ss2 \in Seq(Slot) /\ Len(ss2) = Len(ss)
  /\ \A level \in 1..Len(ss) : ss2[level].ins = ss[level].ins
  /\ IsSeq(ar2) /\ Len(ar2) = Len(ar)
  /\ \A c \in 1..Len(ar) : c # ss[n].ins => ar2[c] = ar[c]
  /\ Laid(ar2[ss[n].ins], l2)
  /\ DOMAIN lay2 = DOMAIN lay
  /\ \A c \in DOMAIN lay : c # ss[n].ins => lay2[c] = lay[c]
  /\ lay2[ss[n].ins] = l2

SameBelow(n, ss, lay, ss2, lay2) ==
  \A level \in 1..n : level # n => ViewOf(level, ss2, lay2) = ViewOf(level, ss, lay)

LEMMA RewrittenOK ==
  ASSUME NEW n, NEW l2, NEW ss, NEW ar, NEW lay, NEW ss2, NEW ar2, NEW lay2, NEW m,
         Rewritten(n, l2, ss, ar, lay, ss2, ar2, lay2),
         LaysOK(ar, lay), ScopesOK(n, ss, ar, lay), Keeps(ViewOf(n, ss, lay), l2, m)
  PROVE  /\ LaysOK(ar2, lay2) /\ ScopesOK(n, ss2, ar2, lay2)
         /\ SlotsStay(ss, lay, ss2, lay2)
         /\ ViewOf(n, ss2, lay2) = l2
         /\ SameBelow(n, ss, lay, ss2, lay2)
  <1>1. /\ ss \in Seq(Slot) /\ n \in 1..Len(ss) /\ Len(ss) \in Nat
        /\ \A level \in 1..n : ss[level].ins \in 1..Len(ar)
        /\ \A i, j \in 1..n : ss[i].ins = ss[j].ins => i = j
        /\ ss[1].ins = 1 /\ lay[1].kind = "main"
        /\ DOMAIN lay = 1..Len(ar)
        /\ \A c \in 1..Len(ar) : Laid(ar[c], lay[c])
    BY LenProperties DEF ScopesOK, LaysOK
  <1>2. LaysOK(ar2, lay2)
    BY <1>1 DEF LaysOK, Rewritten
  <1>3. /\ ViewOf(n, ss2, lay2) = l2
        /\ \A level \in 1..n : level # n => ViewOf(level, ss2, lay2) = ViewOf(level, ss, lay)
    <2>1. ViewOf(n, ss2, lay2) = l2
      BY <1>1 DEF Rewritten, ViewOf
    <2>2. ASSUME NEW level \in 1..n, level # n
          PROVE  ViewOf(level, ss2, lay2) = ViewOf(level, ss, lay)
      <3>1. level \in 1..n /\ level # n /\ level \in 1..Len(ss) /\ n \in 1..n
        BY <1>1, <2>2
      <3>2. ss[level].ins # ss[n].ins /\ ss[level].ins \in DOMAIN lay
        BY <3>1, <1>1
      <3>. QED
        BY <3>1, <3>2 DEF Rewritten, ViewOf
    <2>. QED
      BY <2>1, <2>2
  <1>4. \A c \in DOMAIN lay : lay2[c].kind = lay[c].kind
    BY DEF Rewritten, Keeps, ViewOf
  <1>5. ScopesOK(n, ss2, ar2, lay2)
    <2>1. \A level \in 1..n : level \in 1..Len(ss)
      BY <1>1
    <2>2. 1 \in 1..n /\ 1 \in DOMAIN lay
      <3>1. 1 \in 1..n
        BY <1>1
      <3>. QED
        BY <3>1, <1>1
    <2>3. ss2 \in Seq(Slot) /\ Len(ss2) = Len(ss) /\ Len(ar2) = Len(ar)
          /\ \A level \in 1..n : ss2[level].ins = ss[level].ins
      BY <2>1 DEF Rewritten
    <2>. QED
      BY <1>1, <1>4, <2>2, <2>3 DEF ScopesOK
  <1>6. SlotsStay(ss, lay, ss2, lay2)
    <2>1. ASSUME NEW c \in DOMAIN lay, NEW p, BreakAt(lay[c], p)
          PROVE  BreakAt(lay2[c], p)
      <3>1. CASE c = ss[n].ins
        BY <3>1, <2>1 DEF Rewritten, Keeps, ViewOf, BreakAt
      <3>2. CASE c # ss[n].ins
        BY <3>2, <2>1 DEF Rewritten
      <3>. QED
        BY <3>1, <3>2
    <2>. QED
      BY <2>1 DEF SlotsStay, Rewritten
  <1>. QED
    BY <1>2, <1>3, <1>5, <1>6 DEF SameBelow

LEMMA PoolStays ==
  ASSUME NEW n, NEW l2, NEW ss, NEW ar, NEW lay, NEW ss2, NEW ar2, NEW lay2, NEW m, NEW cs,
         Rewritten(n, l2, ss, ar, lay, ss2, ar2, lay2),
         LaysOK(ar, lay), ScopesOK(n, ss, ar, lay), Keeps(ViewOf(n, ss, lay), l2, m),
         PoolOK(cs, n, ss, lay)
  PROVE  PoolOK(cs, n, ss2, lay2)
  <1>1. n \in 1..Len(ss) /\ Len(ss) \in Nat
    BY LenProperties DEF ScopesOK
  <1>2. ASSUME NEW i \in 1..Len(cs), cs[i].kind # "value"
        PROVE  /\ cs[i].kind \in {"function", "loop"}
               /\ cs[i].ins \in DOMAIN lay2
               /\ \A level \in 1..n : ss2[level].ins # cs[i].ins
               /\ lay2[cs[i].ins].kind = cs[i].kind
               /\ Sealed(lay2[cs[i].ins])
    <2>1. /\ cs[i].kind \in {"function", "loop"}
          /\ cs[i].ins \in DOMAIN lay
          /\ \A level \in 1..n : ss[level].ins # cs[i].ins
          /\ lay[cs[i].ins].kind = cs[i].kind
          /\ Sealed(lay[cs[i].ins])
      BY <1>2 DEF PoolOK
    <2>2. \A level \in 1..n : ss2[level].ins = ss[level].ins
      BY <1>1 DEF Rewritten
    <2>3. cs[i].ins # ss[n].ins
      BY <2>1, <1>1
    <2>4. lay2[cs[i].ins] = lay[cs[i].ins]
      BY <2>1, <2>3 DEF Rewritten
    <2>. QED
      BY <2>1, <2>2, <2>4 DEF Rewritten
  <1>. QED
    BY <1>2 DEF PoolOK

LEMMA HomesStay ==
  ASSUME NEW ss, NEW lay, NEW ss2, NEW lay2, SlotsStay(ss, lay, ss2, lay2),
         NEW ls, NEW hm, HomesOK(ls, hm, lay)
  PROVE  HomesOK(ls, hm, lay2)
  BY DEF HomesOK, SlotsStay

(* The first thing to do writes code, on the level where it is, and is     *)
(* replaced by others on this level.                                       *)
EndsIn(s, last, l2, td, g, ys, h, n) ==
  /\ s.end >= 1 /\ last.op \in Ending =>
       Fresh(last, l2) /\ Marked(last.pos, ys, h, n) /\ RestMarked(last.pos, td, g, n)
  /\ s.end = 2 => last.op \in Ending

Advances(td, g, ss, ar, lay, cs, ls, hm, n, v, ys, h, l2, m, ss2, ar2, lay2, cs2, ls2, v2) ==
  /\ Core(td, g, ss, ar, lay, cs, ls, hm, n, v)
  /\ Replaces(td, g, ys, h) /\ Mono(h)
  /\ Keeps(ViewOf(n, ss, lay), l2, m) /\ RestMarked(m, td, g, n)
  /\ Rewritten(n, l2, ss, ar, lay, ss2, ar2, lay2)
  /\ PoolOK(cs2, n, ss2, lay2) /\ HomesOK(ls2, hm, lay2)
  /\ AllJoined(ys, h, ss2, lay2, hm)
  /\ h[1].level = n /\ h[1].loops = Len(ls2) /\ h[1].void = v2
  /\ h[1].depth = l2.depth[l2.size]
  /\ EndsIn(h[1], ss2[n].last, l2, td, g, ys, h, n)
  /\ StillOpen(l2.open, ViewOf(n, ss, lay), td, g, ys, h, n)
  /\ td[1].do \in Patching => g[2].level = n

LEMMA Advance ==
  ASSUME NEW td, NEW g, NEW ss, NEW ar, NEW lay, NEW cs, NEW ls, NEW hm, NEW n, NEW v,
         NEW ys, NEW h, NEW l2, NEW m, NEW ss2, NEW ar2, NEW lay2, NEW cs2, NEW ls2, NEW v2,
         Advances(td, g, ss, ar, lay, cs, ls, hm, n, v, ys, h, l2, m, ss2, ar2, lay2, cs2, ls2, v2)
  PROVE  Core(ys \o Tail(td), Follows(h, g), ss2, ar2, lay2, cs2, ls2, hm, n, v2)
  <1> DEFINE t == ys \o Tail(td)
             f == Follows(h, g)
             k == Len(hm)
  <1>1. /\ LaysOK(ar, lay) /\ ScopesOK(n, ss, ar, lay)
        /\ HomesOK(ls, hm, lay) /\ Chain(td, g, ss, lay, hm) /\ Mono(g)
        /\ NowOK(g[1], ss[n].last, ViewOf(n, ss, lay), td, g, n, ls, v)
        /\ OpenOK(td, g, ss, lay, n)
        /\ g[Len(g)] = St(1, 0, 0, FALSE, FALSE, 1)
        /\ Replaces(td, g, ys, h) /\ Mono(h)
        /\ Keeps(ViewOf(n, ss, lay), l2, m)
        /\ Rewritten(n, l2, ss, ar, lay, ss2, ar2, lay2)
        /\ PoolOK(cs2, n, ss2, lay2) /\ HomesOK(ls2, hm, lay2)
    BY DEF Core, Advances
  <1>2. /\ LaysOK(ar2, lay2) /\ ScopesOK(n, ss2, ar2, lay2)
        /\ SlotsStay(ss, lay, ss2, lay2)
        /\ ViewOf(n, ss2, lay2) = l2
        /\ SameBelow(n, ss, lay, ss2, lay2)
    <2>1. /\ Rewritten(n, l2, ss, ar, lay, ss2, ar2, lay2)
          /\ LaysOK(ar, lay) /\ ScopesOK(n, ss, ar, lay) /\ Keeps(ViewOf(n, ss, lay), l2, m)
      BY <1>1
    <2>. QED
      BY <2>1, RewrittenOK
  <1>3. n \in Nat /\ n >= 1 /\ k \in Nat /\ hm \in Seq(Nat) /\ n \in 1..Len(ss) /\ Len(ss) \in Nat
    <2>1. hm \in Seq(Nat) /\ ss \in Seq(Slot) /\ n \in 1..Len(ss)
      BY <1>1 DEF HomesOK, ScopesOK
    <2>. QED
      BY <2>1, LenProperties
  <1>4. /\ IsSeq(t) /\ f \in Seq(State) /\ Len(f) = Len(t) + 1
        /\ f[1] = h[1] /\ f[Len(f)] = g[Len(g)]
        /\ Len(td) \in Nat \ {0}
    <2>1. Spliced(td, g, ys, h, t, f)
      BY <1>1, Replaced
    <2>. HIDE DEF t, f
    <2>. QED
      BY <2>1 DEF Spliced
  <1>5. /\ g[2].level <= n /\ g[2].loops <= k /\ g[Len(g)].level >= 1
    <2>1. /\ g \in Seq(State) /\ Len(g) = Len(td) + 1
      BY <1>1 DEF Replaces
    <2>2. 1 \in 1..Len(g) /\ 2 \in 1..Len(g) /\ 1 <= 2
      BY <2>1, <1>4
    <2>3. g[2].level <= g[1].level /\ g[2].loops <= g[1].loops
      BY <2>2, <1>1 DEF Mono
    <2>4. g[1].level = n /\ g[1].loops = Len(ls)
      BY <1>1 DEF NowOK
    <2>5. Len(ls) = k
      BY <1>1 DEF HomesOK
    <2>6. g[Len(g)].level = 1
      BY <1>1 DEF St
    <2>. QED
      BY <2>3, <2>4, <2>5, <2>6
  <1>6. Stays(n, k, m, ss, lay, hm, ss2, lay2, hm)
    <2>1. \A level \in 1..n : ss2[level].ins = ss[level].ins
      BY <1>1, <1>3 DEF Rewritten
    <2>2. \A level \in 1..n - 1 : level \in 1..n /\ level # n
      BY <1>3
    <2>3. \A level \in 1..n - 1 : ViewOf(level, ss2, lay2) = ViewOf(level, ss, lay)
      BY <2>2, <1>2 DEF SameBelow
    <2>. QED
      BY <2>1, <2>3, <1>1, <1>2, <1>3 DEF Stays
  <1>7. Chain(t, f, ss2, lay2, hm)
    <2>1. RestMarked(m, td, g, n) /\ AllJoined(ys, h, ss2, lay2, hm)
      BY DEF Advances
    <2>. HIDE DEF k
    <2>. QED
      BY <2>1, <1>1, <1>2, <1>3, <1>5, <1>6, ChainFollows
  <1>8. Mono(f)
    <2>1. h \in Seq(State) /\ g \in Seq(State) /\ Len(h) >= 1 /\ Len(g) >= 2 /\ h[Len(h)] = g[2]
      <3>1. Len(ys) \in Nat
        BY <1>1, Replaced DEF Spliced
      <3>. QED
        BY <3>1, <1>1, <1>4 DEF Replaces
    <2>. QED
      BY <2>1, <1>1, MonoFollows
  <1>9. NowOK(f[1], ss2[n].last, ViewOf(n, ss2, lay2), t, f, n, ls2, v2)
    <2>1. h[1].end >= 1 /\ ss2[n].last.op \in Ending =>
            /\ Fresh(ss2[n].last, l2) /\ Marked(ss2[n].last.pos, t, f, n)
      BY <1>1, MarkedFollows DEF Advances, EndsIn
    <2>2. /\ h[1].end = 2 => ss2[n].last.op \in Ending
          /\ h[1].level = n /\ h[1].loops = Len(ls2) /\ h[1].void = v2
          /\ h[1].depth = l2.depth[l2.size]
      BY DEF Advances, EndsIn
    <2>. HIDE DEF f, t
    <2>. QED
      BY <2>1, <2>2, <1>2, <1>4 DEF NowOK, EndOK
  <1>10. OpenOK(t, f, ss2, lay2, n)
    <2>1. /\ StillOpen(l2.open, ViewOf(n, ss, lay), td, g, ys, h, n)
          /\ td[1].do \in Patching => g[2].level = n
      BY DEF Advances
    <2>2. ASSUME NEW level \in 1..n
          PROVE  StillOpen(ViewOf(level, ss2, lay2).open, ViewOf(level, ss, lay), td, g, ys, h, level)
      <3>1. CASE level = n
        BY <3>1, <2>1, <1>2
      <3>2. CASE level # n
        BY <3>2, <2>1, <1>2 DEF SameBelow, StillOpen
      <3>. QED
        BY <3>1, <3>2
    <2>3. Opened(td, g, ss, lay, n, ys, h, ss2, lay2, n)
      BY <2>2 DEF Opened
    <2>. QED
      BY <2>3, <1>1, OpenFollows
  <1>11. f[Len(f)] = St(1, 0, 0, FALSE, FALSE, 1)
    BY <1>1, <1>4
  <1>12. Core(t, f, ss2, ar2, lay2, cs2, ls2, hm, n, v2)
    <2>. HIDE DEF t, f
    <2>. QED
      BY <1>1, <1>2, <1>7, <1>8, <1>9, <1>10, <1>11 DEF Core
  <1>. QED
    BY <1>12 DEF t, f

----------------------------------------------------------------------------
(* The state of the compiler *)

Ctx(g, lay, hm) ==
  Core(todo, g, scopes, arrays, lay, constants, loops, hm, scope_index, is_void)

Known == \E g, lay, hm : Ctx(g, lay, hm)

LEMMA MarksWithin ==
  ASSUME NEW td, NEW g, NEW ss, NEW ar, NEW lay, NEW cs, NEW ls, NEW hm, NEW n, NEW v,
         Core(td, g, ss, ar, lay, cs, ls, hm, n, v)
  PROVE  Marked(ViewOf(n, ss, lay).size, td, g, n)
  <1>1. /\ LaysOK(ar, lay) /\ ScopesOK(n, ss, ar, lay) /\ Chain(td, g, ss, lay, hm)
    BY DEF Core
  <1>2. Laid(ar[ss[n].ins], ViewOf(n, ss, lay))
    BY <1>1 DEF LaysOK, ScopesOK, ViewOf
  <1>3. \A p \in DOMAIN ViewOf(n, ss, lay).depth : p <= ViewOf(n, ss, lay).size
    BY <1>2, LaidFacts
  <1>4. ASSUME NEW i \in 1..Len(td), td[i].do \in {"body", "end_loop"}, g[i].level = n
        PROVE  td[i].before <= ViewOf(n, ss, lay).size
    <2>1. Joined(td[i], g[i], g[i + 1], ss, lay, hm)
      BY <1>1 DEF Chain
    <2>2. BodyOK(td[i], g[i], g[i + 1], ss, lay, hm) \/ EndLoopOK(td[i], g[i], g[i + 1], ss, lay)
      BY <2>1, <1>4 DEF Joined
    <2>3. td[i].before \in DOMAIN ViewOf(n, ss, lay).depth
      BY <2>2, <1>4 DEF BodyOK, EndLoopOK, PlaceAt
    <2>. QED
      BY <2>3, <1>3
  <1>. QED
    BY <1>4 DEF Marked

LEMMA PoolGrows ==
  ASSUME NEW cs, NEW n, NEW ss, NEW lay, PoolOK(cs, n, ss, lay), NEW c, c.kind = "value"
  PROVE  PoolOK(Append(cs, c), n, ss, lay)
  <1>1. PICK S : cs \in Seq(S)
    BY DEF PoolOK, IsSeq
  <1> DEFINE T == S \cup {c}
             b == Append(cs, c)
  <1>2. cs \in Seq(T) /\ c \in T
    BY <1>1, SeqMonotonic
  <1>. HIDE DEF T
  <1>3. /\ b \in Seq(T) /\ Len(b) = Len(cs) + 1 /\ Len(cs) \in Nat
        /\ \A i \in 1..Len(cs) : b[i] = cs[i]
        /\ b[Len(cs) + 1] = c
    BY <1>2, AppendProperties, LenProperties
  <1>. HIDE DEF b
  <1>4. ASSUME NEW i \in 1..Len(b), b[i].kind # "value"
        PROVE  i \in 1..Len(cs) /\ b[i] = cs[i]
    <2>1. i # Len(cs) + 1
      BY <1>3, <1>4
    <2>2. i \in 1..Len(cs)
      BY <1>3, <2>1
    <2>. QED
      BY <2>2, <1>3
  <1>5. IsSeq(b)
    BY <1>3 DEF IsSeq
  <1>. QED
    BY <1>4, <1>5 DEF PoolOK, b

LEMMA Unwritten ==
  ASSUME NEW n, NEW ss, NEW ar, NEW lay, LaysOK(ar, lay), ScopesOK(n, ss, ar, lay), NEW m
  PROVE  /\ Rewritten(n, ViewOf(n, ss, lay), ss, ar, lay, ss, ar, lay)
         /\ Keeps(ViewOf(n, ss, lay), ViewOf(n, ss, lay), m)
  BY DEF LaysOK, ScopesOK, Rewritten, Keeps, ViewOf

(* What the lemmas about the actions know of the first thing to do.        *)
LEMMA Doing ==
  ASSUME NEW g, NEW lay, NEW hm, Ctx(g, lay, hm), todo # <<>>
  PROVE  /\ LaysOK(arrays, lay) /\ ScopesOK(scope_index, scopes, arrays, lay)
         /\ PoolOK(constants, scope_index, scopes, lay) /\ HomesOK(loops, hm, lay)
         /\ Mono(g) /\ IsSeq(todo) /\ g \in Seq(State) /\ Len(g) = Len(todo) + 1
         /\ Len(todo) \in Nat \ {0}
         /\ Head(todo) = todo[1]
         /\ Joined(todo[1], g[1], g[2], scopes, lay, hm)
         /\ g[1] \in State /\ g[2] \in State
         /\ NowOK(g[1], scopes[scope_index].last, ViewOf(scope_index, scopes, lay), todo, g,
                  scope_index, loops, is_void)
         /\ g[2].level <= g[1].level /\ g[2].loops <= g[1].loops
         /\ (g[2].update = TRUE => g[1].update = TRUE)
  <1>1. PICK S : todo \in Seq(S)
    BY DEF Ctx, Core, Chain, IsSeq
  <1>2. Len(todo) \in Nat \ {0} /\ Head(todo) = todo[1]
    BY <1>1, HeadTailProperties, EmptySeq, LenProperties
  <1>3. /\ g \in Seq(State) /\ Len(g) = Len(todo) + 1 /\ Mono(g) /\ IsSeq(todo)
    BY DEF Ctx, Core, Chain
  <1>4. 1 \in 1..Len(todo) /\ 1 \in 1..Len(g) /\ 2 \in 1..Len(g) /\ 1 + 1 = 2
    BY <1>2, <1>3
  <1>5. Joined(todo[1], g[1], g[2], scopes, lay, hm)
    <2>1. Joined(todo[1], g[1], g[1 + 1], scopes, lay, hm)
      BY <1>4 DEF Ctx, Core, Chain
    <2>. QED
      BY <2>1, <1>4
  <1>6. /\ g[2].level <= g[1].level /\ g[2].loops <= g[1].loops
        /\ (g[2].update = TRUE => g[1].update = TRUE)
    <2>1. 1 <= 2
      OBVIOUS
    <2>. QED
      BY <1>3, <1>4, <2>1 DEF Mono
  <1>7. g[1] \in State /\ g[2] \in State
    BY <1>3, <1>4
  <1>. QED
    BY <1>2, <1>3, <1>5, <1>6, <1>7 DEF Ctx, Core

Alike(s, u) ==
  /\ s.level = u.level /\ s.loops = u.loops /\ s.depth = u.depth
  /\ s.end = 0 \/ s.end = u.end \/ (s.end = 1 /\ u.end = 2)

Same(s, u) == Alike(s, u) /\ s.void = u.void

Markless(ys) == \A i \in 1..Len(ys) : ys[i].do \notin {"body", "end_loop"}

(* The first thing to do writes nothing.                                   *)
LEMMA Calm ==
  ASSUME NEW g, NEW lay, NEW hm, Ctx(g, lay, hm), todo # <<>>,
         NEW ys, NEW h, IsSeq(ys), h \in Seq(State), Len(h) = Len(ys) + 1, h[Len(h)] = g[2],
         Mono(h),
         AllJoined(ys, h, scopes, lay, hm),
         Alike(h[1], g[1]), h[1].void = is_void', h[1].end # 0 => Markless(ys),
         todo[1].do \notin Patching,
         Continue(ys), scope_index' = scope_index,
         UNCHANGED <<scopes, arrays, constants, loops>>
  PROVE  Known'
  <1> DEFINE n == scope_index
             l == ViewOf(scope_index, scopes, lay)
             last == scopes[scope_index].last
             v == is_void'
  <1>1. /\ LaysOK(arrays, lay) /\ ScopesOK(n, scopes, arrays, lay)
        /\ PoolOK(constants, n, scopes, lay) /\ HomesOK(loops, hm, lay)
        /\ IsSeq(todo) /\ g \in Seq(State) /\ Len(g) = Len(todo) + 1
        /\ g[1] \in State
        /\ NowOK(g[1], last, l, todo, g, n, loops, is_void)
        /\ Len(todo) \in Nat \ {0}
    BY Doing
  <1>2. Replaces(todo, g, ys, h)
    BY <1>1 DEF Replaces
  <1>3. \A i \in 2..Len(todo) : i \in 1..Len(todo)
    BY <1>1
  <1>4. Core(todo, g, scopes, arrays, lay, constants, loops, hm, n, is_void)
    BY DEF Ctx
  <1>5. Marked(l.size, todo, g, n)
    BY <1>4, MarksWithin
  <1>6. g[1].end \in 0..2 /\ (h[1].end >= 1 => g[1].end >= 1 /\ h[1].end # 0)
        /\ (h[1].end = 2 => g[1].end = 2)
    <2>1. g[1].end \in 0..2
      BY <1>1 DEF State
    <2>2. h[1].end = 0 \/ h[1].end = g[1].end \/ (h[1].end = 1 /\ g[1].end = 2)
      BY DEF Alike
    <2>. QED
      BY <2>1, <2>2
  <1>7. StillOpen(l.open, l, todo, g, ys, h, n)
    BY DEF StillOpen
  <1>8. EndsIn(h[1], last, l, todo, g, ys, h, n)
    <2>1. ASSUME h[1].end >= 1, last.op \in Ending
          PROVE  Fresh(last, l) /\ Marked(last.pos, ys, h, n) /\ RestMarked(last.pos, todo, g, n)
      <3>1. g[1].end >= 1 /\ h[1].end # 0
        BY <1>6, <2>1
      <3>2. Fresh(last, l) /\ Marked(last.pos, todo, g, n)
        BY <2>1, <3>1, <1>1 DEF NowOK, EndOK
      <3>3. Marked(last.pos, ys, h, n)
        BY <3>1 DEF Marked, Markless
      <3>. HIDE DEF last, n, l
      <3>. QED
        BY <3>2, <3>3, <1>3 DEF Marked, RestMarked
    <2>2. h[1].end = 2 => last.op \in Ending
      BY <1>1, <1>6 DEF NowOK, EndOK
    <2>. HIDE DEF last, n, l
    <2>. QED
      BY <2>1, <2>2 DEF EndsIn
  <1>10. h[1].level = n /\ h[1].loops = Len(loops) /\ h[1].void = v /\ h[1].depth = l.depth[l.size]
    BY <1>1 DEF NowOK, Alike
  <1>11. Rewritten(n, l, scopes, arrays, lay, scopes, arrays, lay) /\ Keeps(l, l, l.size)
    BY <1>1, Unwritten
  <1>12. RestMarked(l.size, todo, g, n)
    BY <1>3, <1>5 DEF Marked, RestMarked
  <1>13. Core(ys \o Tail(todo), Follows(h, g), scopes, arrays, lay, constants, loops, hm, n, v)
    <2>1. last = scopes[n].last /\ l = ViewOf(n, scopes, lay)
      OBVIOUS
    <2>2. todo[1].do \in Patching => g[2].level = n
      OBVIOUS
    <2>. HIDE DEF l, last, n, v
    <2>3. Advances(todo, g, scopes, arrays, lay, constants, loops, hm, n, is_void, ys, h, l, l.size,
                   scopes, arrays, lay, constants, loops, v)
      BY <1>1, <1>2, <1>4, <1>7, <1>8, <1>10, <1>11, <1>12, <2>1, <2>2 DEF Advances
    <2>. QED
      BY <2>3, Advance
  <1>14. Ctx(Follows(h, g), lay, hm)'
    BY <1>13 DEF Ctx, Continue, scope_index
  <1>. QED
    BY <1>14 DEF Known

LEMMA Quiet ==
  ASSUME NEW g, NEW lay, NEW hm, Ctx(g, lay, hm), todo # <<>>,
         NEW ys, NEW h, IsSeq(ys), h \in Seq(State), Len(h) = Len(ys) + 1, h[Len(h)] = g[2],
         Mono(h),
         AllJoined(ys, h, scopes, lay, hm),
         Same(h[1], g[1]), h[1].end # 0 => Markless(ys),
         todo[1].do \notin Patching,
         Continue(ys), scope_index' = scope_index,
         UNCHANGED <<scopes, arrays, constants, loops, is_void>>
  PROVE  Known'
  <1>1. g[1].void = is_void
    BY Doing DEF NowOK
  <1>2. Alike(h[1], g[1]) /\ h[1].void = is_void'
    BY <1>1 DEF Same
  <1>. QED
    BY <1>2, Calm

----------------------------------------------------------------------------
(* Short lists of things to do *)

Under(a, b) ==
  b.level <= a.level /\ b.loops <= a.loops /\ (b.update = TRUE => a.update = TRUE)

(* Doing ys from state a leads to state c by way of the states h.          *)
Path(ys, h, a, c, ss, lay, hm) ==
  /\ IsSeq(ys) /\ h \in Seq(State) /\ Len(h) = Len(ys) + 1
  /\ h[1] = a /\ h[Len(h)] = c
  /\ Mono(h)
  /\ AllJoined(ys, h, ss, lay, hm)

LEMMA UnderRefl ==
  ASSUME NEW a, a \in State
  PROVE  Under(a, a)
  BY DEF Under, State

LEMMA UnderTrans ==
  ASSUME NEW a, NEW b, NEW c, a \in State, b \in State, c \in State, Under(a, b), Under(b, c)
  PROVE  Under(a, c)
  <1>1. /\ {a.level, b.level, c.level} \subseteq Nat
        /\ {a.loops, b.loops, c.loops} \subseteq Nat
    BY DEF State
  <1>2. c.level <= a.level /\ c.loops <= a.loops
    BY <1>1 DEF Under
  <1>. QED
    BY <1>2 DEF Under

LEMMA MonoUnder ==
  ASSUME NEW h, \A i, j \in 1..Len(h) : i <= j => Under(h[i], h[j])
  PROVE  Mono(h)
  BY DEF Mono, Under

LEMMA PathNone ==
  ASSUME NEW a, a \in State, NEW ss, NEW lay, NEW hm
  PROVE  Path(<<>>, <<a>>, a, a, ss, lay, hm)
  <1>1. /\ IsSeq(<<>>) /\ <<a>> \in Seq(State) /\ Len(<<a>>) = 1 /\ Len(<<>>) = 0 /\ <<a>>[1] = a
    <2>1. <<>> \in Seq({})
      OBVIOUS
    <2>. QED
      BY <2>1 DEF IsSeq
  <1>2. Mono(<<a>>)
    BY <1>1, UnderRefl, MonoUnder
  <1>3. AllJoined(<<>>, <<a>>, ss, lay, hm)
    BY <1>1 DEF AllJoined
  <1>. QED
    BY <1>1, <1>2, <1>3 DEF Path

LEMMA PathOne ==
  ASSUME NEW x, NEW a, NEW b, a \in State, b \in State, Under(a, b),
         NEW ss, NEW lay, NEW hm, Joined(x, a, b, ss, lay, hm)
  PROVE  Path(<<x>>, <<a, b>>, a, b, ss, lay, hm)
  <1> DEFINE h == <<a, b>>
             ys == <<x>>
  <1>1. /\ IsSeq(ys) /\ h \in Seq(State) /\ Len(h) = 2 /\ Len(ys) = 1
        /\ h[1] = a /\ h[2] = b /\ ys[1] = x
    <2>1. ys \in Seq({x})
      OBVIOUS
    <2>2. IsSeq(ys)
      BY <2>1 DEF IsSeq
    <2>3. h \in Seq(State)
      OBVIOUS
    <2>4. Len(h) = 2 /\ Len(ys) = 1
      OBVIOUS
    <2>. QED
      BY <2>2, <2>3, <2>4
  <1>. HIDE DEF h, ys
  <1>2. Under(a, a) /\ Under(b, b)
    BY UnderRefl
  <1>3. \A i, j \in 1..Len(h) : i <= j => Under(h[i], h[j])
    BY <1>1, <1>2
  <1>4. Mono(h)
    BY <1>3, MonoUnder
  <1>5. AllJoined(ys, h, ss, lay, hm)
    <2>1. ASSUME NEW i \in 1..Len(ys)
          PROVE  Joined(ys[i], h[i], h[i + 1], ss, lay, hm)
      <3>1. i = 1 /\ i + 1 = 2
        BY <1>1
      <3>. QED
        BY <3>1, <1>1
    <2>. QED
      BY <2>1 DEF AllJoined
  <1>6. Path(ys, h, a, b, ss, lay, hm)
    BY <1>1, <1>4, <1>5 DEF Path
  <1>. QED
    BY <1>6 DEF ys, h

LEMMA PathTwo ==
  ASSUME NEW x, NEW y, NEW a, NEW b, NEW c, a \in State, b \in State, c \in State,
         Under(a, b), Under(b, c),
         NEW ss, NEW lay, NEW hm, Joined(x, a, b, ss, lay, hm), Joined(y, b, c, ss, lay, hm)
  PROVE  Path(<<x, y>>, <<a, b, c>>, a, c, ss, lay, hm)
  <1> DEFINE h == <<a, b, c>>
             ys == <<x, y>>
  <1>1. /\ IsSeq(ys) /\ h \in Seq(State) /\ Len(h) = 3 /\ Len(ys) = 2
        /\ h[1] = a /\ h[2] = b /\ h[3] = c /\ ys[1] = x /\ ys[2] = y
    <2>1. ys \in Seq({x, y})
      OBVIOUS
    <2>2. IsSeq(ys)
      BY <2>1 DEF IsSeq
    <2>3. h \in Seq(State)
      OBVIOUS
    <2>4. Len(h) = 3 /\ Len(ys) = 2
      OBVIOUS
    <2>. QED
      BY <2>2, <2>3, <2>4
  <1>. HIDE DEF h, ys
  <1>2. Under(a, a) /\ Under(b, b) /\ Under(c, c) /\ Under(a, c)
    BY UnderRefl, UnderTrans
  <1>3. \A i, j \in 1..Len(h) : i <= j => Under(h[i], h[j])
    BY <1>1, <1>2
  <1>4. Mono(h)
    BY <1>3, MonoUnder
  <1>5. AllJoined(ys, h, ss, lay, hm)
    <2>1. ASSUME NEW i \in 1..Len(ys)
          PROVE  Joined(ys[i], h[i], h[i + 1], ss, lay, hm)
      <3>1. \/ (i = 1 /\ i + 1 = 2) \/ (i = 2 /\ i + 1 = 3)
        BY <1>1
      <3>. QED
        BY <3>1, <1>1
    <2>. QED
      BY <2>1 DEF AllJoined
  <1>6. Path(ys, h, a, c, ss, lay, hm)
    BY <1>1, <1>4, <1>5 DEF Path
  <1>. QED
    BY <1>6 DEF ys, h

LEMMA PathThree ==
  ASSUME NEW x, NEW y, NEW z, NEW a, NEW b, NEW c, NEW d,
         a \in State, b \in State, c \in State, d \in State,
         Under(a, b), Under(b, c), Under(c, d),
         NEW ss, NEW lay, NEW hm,
         Joined(x, a, b, ss, lay, hm), Joined(y, b, c, ss, lay, hm), Joined(z, c, d, ss, lay, hm)
  PROVE  Path(<<x, y, z>>, <<a, b, c, d>>, a, d, ss, lay, hm)
  <1> DEFINE h == <<a, b, c, d>>
             ys == <<x, y, z>>
  <1>1. /\ IsSeq(ys) /\ h \in Seq(State) /\ Len(h) = 4 /\ Len(ys) = 3
        /\ h[1] = a /\ h[2] = b /\ h[3] = c /\ h[4] = d /\ ys[1] = x /\ ys[2] = y /\ ys[3] = z
    <2>1. ys \in Seq({x, y, z})
      OBVIOUS
    <2>2. IsSeq(ys)
      BY <2>1 DEF IsSeq
    <2>3. h \in Seq(State)
      OBVIOUS
    <2>4. Len(h) = 4 /\ Len(ys) = 3
      OBVIOUS
    <2>. QED
      BY <2>2, <2>3, <2>4
  <1>. HIDE DEF h, ys
  <1>2. /\ Under(a, a) /\ Under(b, b) /\ Under(c, c) /\ Under(d, d)
        /\ Under(a, c) /\ Under(b, d)
    BY UnderRefl, UnderTrans
  <1>21. Under(a, d)
    BY <1>2, UnderTrans
  <1>3. \A i, j \in 1..Len(h) : i <= j => Under(h[i], h[j])
    BY <1>1, <1>2, <1>21
  <1>4. Mono(h)
    BY <1>3, MonoUnder
  <1>5. AllJoined(ys, h, ss, lay, hm)
    <2>1. ASSUME NEW i \in 1..Len(ys)
          PROVE  Joined(ys[i], h[i], h[i + 1], ss, lay, hm)
      <3>1. \/ (i = 1 /\ i + 1 = 2) \/ (i = 2 /\ i + 1 = 3) \/ (i = 3 /\ i + 1 = 4)
        BY <1>1
      <3>. QED
        BY <3>1, <1>1
    <2>. QED
      BY <2>1 DEF AllJoined
  <1>6. Path(ys, h, a, d, ss, lay, hm)
    BY <1>1, <1>4, <1>5 DEF Path
  <1>. QED
    BY <1>6 DEF ys, h

(* States that differ in what is on the stack and in the last instruction. *)
LEMMA StOK ==
  ASSUME NEW n, NEW k, NEW d, NEW v, NEW up, NEW e,
         n \in Nat, k \in Nat, d \in Nat, v \in BOOLEAN, up \in BOOLEAN, e \in 0..2
  PROVE  /\ St(n, k, d, v, up, e) \in State
         /\ St(n, k, d, v, up, e).level = n /\ St(n, k, d, v, up, e).loops = k
         /\ St(n, k, d, v, up, e).depth = d /\ St(n, k, d, v, up, e).void = v
         /\ St(n, k, d, v, up, e).update = up /\ St(n, k, d, v, up, e).end = e
  BY DEF St, State

LEMMA UnderSame ==
  ASSUME NEW a, NEW b, a \in State, b \in State,
         b.level = a.level, b.loops = a.loops, b.update = a.update
  PROVE  Under(a, b)
  BY DEF Under, State

LEMMA StateFields ==
  ASSUME NEW s, s \in State
  PROVE  /\ s.level \in Nat /\ s.loops \in Nat /\ s.depth \in Nat
         /\ s.void \in BOOLEAN /\ s.update \in BOOLEAN /\ s.end \in 0..2
  BY DEF State

LEMMA QuietPath ==
  ASSUME NEW g, NEW lay, NEW hm, Ctx(g, lay, hm), todo # <<>>,
         NEW ys, NEW h, NEW a, Path(ys, h, a, g[2], scopes, lay, hm),
         Same(a, g[1]), a.end # 0 => Markless(ys),
         todo[1].do \notin Patching,
         Continue(ys), scope_index' = scope_index,
         UNCHANGED <<scopes, arrays, constants, loops, is_void>>
  PROVE  Known'
  BY Quiet DEF Path

----------------------------------------------------------------------------
(* Recursive functions *)

(* Every set of numbers that is not empty has a least element.             *)
LEMMA Least ==
  ASSUME NEW T \in SUBSET Nat, T # {}
  PROVE  \E m \in T : \A k \in T : m <= k
  <1>1. /\ STP!BuiltinsAssumption /\ STP!BoundsAssumption /\ STP!NullAssumption
    BY CompilerNamesAssumption, CompilerNullAssumption
    DEF STP!BuiltinsAssumption, STP!BoundsAssumption, STP!NullAssumption,
        STP!Symbol, ST!Symbol, STP!Scopes, ST!Scopes
  <1>. QED
    BY <1>1, STP!Least

(* f follows F from b on, up to n.                                         *)
Traces(f, n, b, F) ==
  /\ f[0] = b
  /\ \A k \in 1..n : f[k] = F[k][f[k - 1]]

LEMMA TraceTyped ==
  ASSUME NEW S, NEW b \in S, NEW F \in [Nat -> [S -> S]], NEW n \in Nat, NEW f, Traces(f, n, b, F)
  PROVE  \A k \in 0..n : f[k] \in S
  <1> DEFINE Bad == {k \in Nat : k <= n /\ f[k] \notin S}
  <1>1. SUFFICES ASSUME Bad # {}
                 PROVE  FALSE
    OBVIOUS
  <1>2. PICK m \in Bad : \A k \in Bad : m <= k
    BY <1>1, Least
  <1>3. m # 0
    BY DEF Traces
  <1>4. m - 1 \in 0..n /\ m \in 1..n /\ m \in Nat
    BY <1>3
  <1>5. f[m - 1] \in S
    BY <1>2, <1>4
  <1>6. f[m] = F[m][f[m - 1]]
    BY <1>4 DEF Traces
  <1>. QED
    BY <1>4, <1>5, <1>6

LEMMA TraceExists ==
  ASSUME NEW S, NEW b \in S, NEW F \in [Nat -> [S -> S]], NEW n \in Nat
  PROVE  \E f \in [0..n -> S] : Traces(f, n, b, F)
  <1> DEFINE Bad == {m \in Nat : ~\E f \in [0..m -> S] : Traces(f, m, b, F)}
  <1>1. SUFFICES ASSUME Bad # {}
                 PROVE  FALSE
    OBVIOUS
  <1>2. PICK m \in Bad : \A k \in Bad : m <= k
    BY <1>1, Least
  <1>3. m # 0
    <2>1. /\ [k \in 0..0 |-> b] \in [0..0 -> S] /\ [k \in 0..0 |-> b][0] = b /\ 1..0 = {}
      OBVIOUS
    <2>2. Traces([k \in 0..0 |-> b], 0, b, F)
      BY <2>1 DEF Traces
    <2>. QED
      BY <2>1, <2>2
  <1>4. m - 1 \in Nat /\ m - 1 \notin Bad
    BY <1>2, <1>3
  <1>5. PICK f \in [0..m - 1 -> S] : Traces(f, m - 1, b, F)
    BY <1>4
  <1> DEFINE g == [k \in 0..m |-> IF k = m THEN F[m][f[m - 1]] ELSE f[k]]
  <1>6. g \in [0..m -> S]
    <2>1. F[m][f[m - 1]] \in S
      BY <1>4
    <2>2. ASSUME NEW k \in 0..m, k # m
          PROVE  f[k] \in S
      <3>1. k \in 0..m - 1
        BY <2>2, <1>4
      <3>. QED
        BY <3>1
    <2>. QED
      BY <2>1, <2>2
  <1>7. g[0] = b /\ g[m] = F[m][f[m - 1]] /\ \A k \in 0..m - 1 : g[k] = f[k]
    BY <1>4, <1>5 DEF Traces
  <1>. HIDE DEF g
  <1>8. ASSUME NEW k \in 1..m
        PROVE  g[k] = F[k][g[k - 1]]
    <2>1. k - 1 \in 0..m - 1
      BY <1>4
    <2>2. CASE k = m
      BY <2>1, <2>2, <1>7
    <2>3. CASE k # m
      <3>1. k \in 1..m - 1 /\ k \in 0..m - 1
        BY <2>3, <1>4
      <3>. QED
        BY <2>1, <3>1, <1>5, <1>7 DEF Traces
    <2>. QED
      BY <2>2, <2>3
  <1>9. Traces(g, m, b, F)
    BY <1>7, <1>8 DEF Traces
  <1>. QED
    BY <1>2, <1>6, <1>9

LEMMA TraceUnique ==
  ASSUME NEW S, NEW b \in S, NEW F \in [Nat -> [S -> S]], NEW n \in Nat, NEW m \in Nat, n <= m,
         NEW f, Traces(f, n, b, F), NEW g, Traces(g, m, b, F)
  PROVE  f[n] = g[n]
  <1> DEFINE Bad == {k \in Nat : k <= n /\ f[k] # g[k]}
  <1>1. SUFFICES ASSUME Bad # {}
                 PROVE  FALSE
    OBVIOUS
  <1>2. PICK k \in Bad : \A j \in Bad : k <= j
    BY <1>1, Least
  <1>3. k # 0
    BY DEF Traces
  <1>4. k - 1 \in 0..n /\ k \in 1..n /\ k \in 1..m
    BY <1>3
  <1>5. f[k - 1] = g[k - 1]
    BY <1>2, <1>4
  <1>6. f[k] = F[k][f[k - 1]] /\ g[k] = F[k][g[k - 1]]
    BY <1>4 DEF Traces
  <1>. QED
    BY <1>5, <1>6

Recurses(f, b, F) == f[0] = b /\ \A n \in Nat : n # 0 => f[n] = F[n][f[n - 1]]

(* A recursion over the numbers has a solution.                            *)
LEMMA Recursion ==
  ASSUME NEW S, NEW b, NEW F, b \in S, F \in [Nat -> [S -> S]]
  PROVE  \E f : f \in [Nat -> S] /\ Recurses(f, b, F)
  <1> DEFINE T(n) == CHOOSE t \in [0..n -> S] : Traces(t, n, b, F)
             f == [n \in Nat |-> T(n)[n]]
  <1>1. ASSUME NEW n \in Nat
        PROVE  T(n) \in [0..n -> S] /\ Traces(T(n), n, b, F)
    BY TraceExists
  <1>. HIDE DEF T
  <1>2. ASSUME NEW n \in Nat
        PROVE  T(n)[n] \in S
    <2>1. n \in 0..n
      OBVIOUS
    <2>. QED
      BY <2>1, <1>1
  <1>3. f \in [Nat -> S] /\ \A n \in Nat : f[n] = T(n)[n]
    BY <1>2
  <1>. HIDE DEF f
  <1>4. f[0] = b
    BY <1>1, <1>3 DEF Traces
  <1>5. ASSUME NEW n \in Nat, n # 0
        PROVE  f[n] = F[n][f[n - 1]]
    <2>1. n - 1 \in Nat /\ n - 1 <= n /\ n \in 1..n
      BY <1>5
    <2>2. T(n)[n] = F[n][T(n)[n - 1]]
      BY <2>1, <1>1 DEF Traces
    <2>3. T(n - 1)[n - 1] = T(n)[n - 1]
      <3>1. Traces(T(n - 1), n - 1, b, F) /\ Traces(T(n), n, b, F)
        BY <2>1, <1>1
      <3>. QED
        BY <3>1, <2>1, TraceUnique
    <2>. QED
      BY <2>1, <2>2, <2>3, <1>3
  <1>. QED
    BY <1>3, <1>4, <1>5 DEF Recurses

----------------------------------------------------------------------------
(* The symbol tables: what SymbolTableProofs shows of their operations     *)

TablesOK(ts) == STP!StackOK(ts)

LEMMA Assumed ==
  STP!BuiltinsAssumption /\ STP!BoundsAssumption /\ STP!NullAssumption
  BY CompilerNamesAssumption, CompilerNullAssumption
  DEF STP!BuiltinsAssumption, STP!BoundsAssumption, STP!NullAssumption,
      STP!Symbol, ST!Symbol, STP!Scopes, ST!Scopes

LEMMA SameTables ==
  ASSUME NEW ts, NEW name
  PROVE  /\ ST!new_enclosed_symbol_table(ts) = STP!new_enclosed_symbol_table(ts)
         /\ ST!symbol_define(ts, name) = STP!symbol_define(ts, name)
         /\ ST!Defined(ts, name) = STP!Defined(ts, name)
         /\ ST!symbol_define_function_name(ts, name) = STP!symbol_define_function_name(ts, name)
         /\ ST!free_symbol_table(ts) = STP!free_symbol_table(ts)
         /\ ST!symbol_resolve(ts, name) = STP!symbol_resolve(ts, name)
         /\ ST!TablesAfterResolve(ts, name) = STP!TablesAfterResolve(ts, name)
         /\ ST!GlobalTable = STP!GlobalTable
         /\ ST!Table = STP!Table /\ ST!Symbol = STP!Symbol
         /\ ST!Top(ts) = STP!Top(ts)
  BY DEF ST!new_enclosed_symbol_table, STP!new_enclosed_symbol_table, ST!EmptyTable,
         STP!EmptyTable, ST!symbol_define, STP!symbol_define, ST!Defined, STP!Defined,
         ST!MkSymbol, STP!MkSymbol, ST!Put, STP!Put, ST!Top, STP!Top,
         ST!symbol_define_function_name, STP!symbol_define_function_name,
         ST!free_symbol_table, STP!free_symbol_table, ST!symbol_resolve,
         STP!symbol_resolve, ST!Knowing, STP!Knowing, ST!ResolvedAt, STP!ResolvedAt,
         ST!Holder, STP!Holder, ST!IsHolder, STP!IsHolder, ST!Capturable, STP!Capturable,
         ST!TablesAfterResolve, STP!TablesAfterResolve, ST!define_free, STP!define_free,
         ST!GlobalTable, STP!GlobalTable, ST!Table, STP!Table, ST!Symbol, STP!Symbol,
         ST!Scopes, STP!Scopes

LEMMA TablesFacts ==
  ASSUME NEW ts, TablesOK(ts)
  PROVE  /\ ts \in Seq(ST!Table) /\ Len(ts) \in Nat /\ Len(ts) >= 1
         /\ ST!Top(ts).num_definitions \in Nat
         /\ ST!Top(ts).free_symbols \in Seq(ST!Symbol)
         /\ IsFiniteSet(Names) => Len(ST!Top(ts).free_symbols) <= Cardinality(Names)
  <1>1. ts \in Seq(STP!Table) /\ Len(ts) >= 1
    BY DEF TablesOK, STP!StackOK
  <1>2. /\ Len(ts) \in Nat /\ Len(ts) \in 1..Len(ts) /\ ts[Len(ts)] \in STP!Table
    BY <1>1, LenProperties, ElementOfSeq
  <1>3. ST!Top(ts) = ts[Len(ts)]
    BY DEF ST!Top
  <1>4. ST!Table = STP!Table /\ ST!Symbol = STP!Symbol
    BY SameTables
  <1>5. /\ ts[Len(ts)].num_definitions \in Nat
        /\ ts[Len(ts)].free_symbols \in Seq(STP!Symbol)
    BY <1>2 DEF STP!Table
  <1>6. IsFiniteSet(Names) => Len(ts[Len(ts)].free_symbols) <= Cardinality(Names)
    <2>1. ASSUME STP!IsFiniteSet(Names)
          PROVE  \A i \in 1..Len(ts) : Len(ts[i].free_symbols) <= STP!Cardinality(Names)
      BY <2>1, Assumed, STP!CaptureCount DEF TablesOK
    <2>2. STP!Cardinality(Names) = Cardinality(Names)
      BY DEF STP!Cardinality, Cardinality
    <2>3. STP!IsFiniteSet(Names) <=> IsFiniteSet(Names)
      BY DEF STP!IsFiniteSet, IsFiniteSet
    <2>. QED
      BY <2>1, <2>2, <2>3, <1>2
  <1>. QED
    BY <1>1, <1>2, <1>3, <1>4, <1>5, <1>6

LEMMA DefineTables ==
  ASSUME NEW ts, TablesOK(ts), NEW name \in Names
  PROVE  /\ TablesOK(ST!symbol_define(ts, name))
         /\ Len(ST!symbol_define(ts, name)) = Len(ts)
         /\ ST!Defined(ts, name) \in ST!Symbol
  <1>1. STP!GoodStep(ts, STP!symbol_define(ts, name))
    BY Assumed, STP!SymbolDefineOK DEF TablesOK
  <1>2. /\ Len(STP!symbol_define(ts, name)) = Len(ts)
        /\ STP!Defined(ts, name) \in STP!Symbol
    BY Assumed, STP!DefineShape DEF TablesOK
  <1>. QED
    BY <1>1, <1>2, SameTables DEF STP!GoodStep, TablesOK

LEMMA ResolveTables ==
  ASSUME NEW ts, TablesOK(ts), NEW name \in Names
  PROVE  /\ TablesOK(ST!TablesAfterResolve(ts, name))
         /\ Len(ST!TablesAfterResolve(ts, name)) = Len(ts)
         /\ ST!symbol_resolve(ts, name) \in ST!Symbol \cup {NULL}
  <1>1. /\ STP!StackOK(STP!TablesAfterResolve(ts, name))
        /\ Len(STP!TablesAfterResolve(ts, name)) = Len(ts)
        /\ STP!symbol_resolve(ts, name) \in STP!Symbol \cup {NULL}
    BY Assumed, STP!ResolveOK DEF TablesOK
  <1>. QED
    BY <1>1, SameTables DEF TablesOK

LEMMA EncloseTables ==
  ASSUME NEW ts, TablesOK(ts)
  PROVE  /\ TablesOK(ST!new_enclosed_symbol_table(ts))
         /\ Len(ST!new_enclosed_symbol_table(ts)) = Len(ts) + 1
  <1>1. STP!GoodStep(ts, STP!new_enclosed_symbol_table(ts))
    BY Assumed, STP!EnterScopeOK DEF TablesOK
  <1>2. Len(ST!new_enclosed_symbol_table(ts)) = Len(ts) + 1
    BY TablesFacts DEF ST!new_enclosed_symbol_table
  <1>. QED
    BY <1>1, <1>2, SameTables DEF STP!GoodStep, TablesOK

LEMMA NameTables ==
  ASSUME NEW ts, TablesOK(ts), NEW name \in Names
  PROVE  LET us == ST!symbol_define_function_name(ST!new_enclosed_symbol_table(ts), name)
         IN  TablesOK(us) /\ Len(us) = Len(ts) + 1
  <1> DEFINE vs == ST!new_enclosed_symbol_table(ts)
             us == ST!symbol_define_function_name(vs, name)
  <1>1. STP!GoodStep(ts, STP!symbol_define_function_name(STP!new_enclosed_symbol_table(ts), name))
    BY Assumed, STP!EnterFunctionOK DEF TablesOK
  <1>2. vs = STP!new_enclosed_symbol_table(ts) /\ Len(vs) = Len(ts) + 1 /\ vs \in Seq(ST!Table)
    BY SameTables, EncloseTables, TablesFacts
  <1>. HIDE DEF vs
  <1>3. us = STP!symbol_define_function_name(vs, name)
    BY SameTables
  <1>4. Len(us) = Len(vs)
    <2>1. us = [vs EXCEPT ![Len(vs)] = ST!Put(ST!Top(vs), ST!MkSymbol(name, "FUNCTION", 0))]
      BY DEF ST!symbol_define_function_name
    <2>2. DOMAIN us = 1..Len(vs) /\ Len(vs) \in Nat
      BY <2>1, <1>2, LenProperties
    <2>. HIDE DEF us
    <2>3. us \in Seq(ST!Table)
      BY <1>1, <1>2, <1>3, TablesFacts DEF STP!GoodStep, TablesOK
    <2>. QED
      BY <2>2, <2>3, LenProperties
  <1>. QED
    BY <1>1, <1>2, <1>3, <1>4 DEF STP!GoodStep, TablesOK, vs

LEMMA FreeTables ==
  ASSUME NEW ts, TablesOK(ts), Len(ts) > 1
  PROVE  /\ TablesOK(ST!free_symbol_table(ts))
         /\ Len(ST!free_symbol_table(ts)) = Len(ts) - 1
  <1>1. STP!GoodStep(ts, STP!free_symbol_table(ts))
    BY Assumed, STP!LeaveScopeOK DEF TablesOK
  <1>2. Len(ST!free_symbol_table(ts)) = Len(ts) - 1
    <2>1. ts \in Seq(ST!Table) /\ Len(ts) \in Nat
      BY TablesFacts
    <2>2. 1 \in 1..Len(ts) + 1 /\ Len(ts) - 1 \in 0..Len(ts)
      BY <2>1
    <2>. QED
      BY <2>1, <2>2, SubSeqProperties DEF ST!free_symbol_table
  <1>. QED
    BY <1>1, <1>2, SameTables DEF STP!GoodStep, TablesOK

(* The table of a function literal: its own name, and its parameters.      *)
LEMMA FunctionTablesOK ==
  ASSUME TablesOK(tables), NEW name \in Names \cup {NULL}, NEW parameters, NEW N \in Nat,
         parameters \in [1..N -> Names]
  PROVE  /\ TablesOK(FunctionTables(name, parameters))
         /\ Len(FunctionTables(name, parameters)) = Len(tables) + 1
  <1> DEFINE S == {ts \in Seq(ST!Table) : TablesOK(ts) /\ Len(ts) = Len(tables) + 1}
             enclosed == ST!new_enclosed_symbol_table(tables)
             b == IF name = NULL THEN enclosed ELSE ST!symbol_define_function_name(enclosed, name)
             F == [n \in Nat |-> [ts \in S |-> IF n \in 1..N THEN ST!symbol_define(ts, parameters[n]) ELSE ts]]
             G(f, n) == IF n = 0 THEN b ELSE ST!symbol_define(f[n - 1], parameters[n])
             d == CHOOSE f : f = [n \in 0..N |-> G(f, n)]
  <1>0. Len(parameters) = N
    BY LenProperties
  <1>1. b \in S
    <2>1. TablesOK(b) /\ Len(b) = Len(tables) + 1
      BY EncloseTables, NameTables
    <2>. HIDE DEF b
    <2>. QED
      BY <2>1, TablesFacts
  <1>2. F \in [Nat -> [S -> S]]
    <2>1. ASSUME NEW n \in Nat, NEW ts \in S
          PROVE  (IF n \in 1..N THEN ST!symbol_define(ts, parameters[n]) ELSE ts) \in S
      <3>1. CASE n \in 1..N
        <4>1. /\ TablesOK(ST!symbol_define(ts, parameters[n]))
              /\ Len(ST!symbol_define(ts, parameters[n])) = Len(ts)
          BY <3>1, DefineTables
        <4>. QED
          BY <4>1, <3>1, TablesFacts
      <3>. QED
        BY <3>1
    <2>. HIDE DEF S
    <2>. QED
      BY <2>1
  <1>3. FunctionTables(name, parameters) = d[N]
    BY <1>0 DEF FunctionTables
  <1>4. PICK g \in [0..N -> S] : Traces(g, N, b, F)
    <2>. HIDE DEF S, b, F
    <2>. QED
      BY <1>1, <1>2, TraceExists
  <1>6. \E f : f = [n \in 0..N |-> G(f, n)]
    <2>1. \A n \in 0..N : g[n] \in S
      BY <1>4
    <2>2. ASSUME NEW n \in 0..N
          PROVE  g[n] = G(g, n)
      <3>1. CASE n = 0
        BY <3>1, <1>4 DEF Traces
      <3>2. CASE n # 0
        <4>1. n \in 1..N /\ n \in Nat /\ n - 1 \in 0..N
          BY <3>2
        <4>2. g[n] = F[n][g[n - 1]]
          BY <4>1, <1>4 DEF Traces
        <4>3. g[n - 1] \in S
          BY <4>1, <2>1
        <4>. HIDE DEF S
        <4>. QED
          BY <4>1, <4>2, <4>3, <3>2
      <3>. QED
        BY <3>1, <3>2
    <2>3. g = [n \in 0..N |-> g[n]]
      BY <1>4
    <2>4. g = [n \in 0..N |-> G(g, n)]
      BY <2>2, <2>3
    <2>. QED
      BY <2>4
  <1>7. d = [n \in 0..N |-> G(d, n)]
    BY <1>6
  <1>. HIDE DEF d
  <1>8. d[0] = b /\ \A n \in 1..N : d[n] = ST!symbol_define(d[n - 1], parameters[n])
    <2>1. ASSUME NEW n \in 1..N
          PROVE  d[n] = ST!symbol_define(d[n - 1], parameters[n])
      <3>1. n \in 0..N /\ n # 0
        OBVIOUS
      <3>. QED
        BY <3>1, <1>7
    <2>2. d[0] = b
      <3>. HIDE DEF b
      <3>. QED
        BY <1>7
    <2>. QED
      BY <2>1, <2>2
  <1>9. d[N] \in S
    <2> DEFINE Bad == {k \in Nat : k <= N /\ d[k] \notin S}
    <2>1. SUFFICES ASSUME Bad # {}
                   PROVE  FALSE
      <3>1. N \in Nat /\ N <= N
        OBVIOUS
      <3>. QED
        BY <3>1
    <2>2. PICK m \in Bad : \A k \in Bad : m <= k
      BY <2>1, Least
    <2>3. m # 0
      <3>. HIDE DEF b, S
      <3>. QED
        BY <1>1, <1>8
    <2>4. m - 1 \in Nat /\ m - 1 <= N /\ m \in 1..N /\ m \in Nat
      BY <2>3
    <2>5. d[m - 1] \in S
      BY <2>2, <2>4
    <2>6. d[m] = F[m][d[m - 1]]
      <3>. HIDE DEF S
      <3>. QED
        BY <2>4, <2>5, <1>8
    <2>. HIDE DEF S, F
    <2>. QED
      BY <2>4, <2>5, <2>6, <1>2
  <1>. QED
    BY <1>3, <1>9

----------------------------------------------------------------------------
(* Actions that write no code *)

(* The programs the proofs are about: they take no liberties (except that  *)
(* the name of a function may be stale), and no operand exceeds its bytes. *)
Prepared ==
  /\ suite \in DOMAIN Suites
  /\ Suite.liberties \subseteq {"stale_name"}
  /\ Suite.args <= 255
  /\ IsFiniteSet(Names) /\ Cardinality(Names) <= 255

LEMMA NoLiberties ==
  ASSUME Prepared
  PROVE  \A liberty : liberty # "stale_name" => ~May(liberty)
  BY DEF Prepared, May

(* The state s with another stack and another last instruction; the same  *)
(* with the flag up.                                                       *)
Moved(s, d, e) == St(s.level, s.loops, d, FALSE, s.update, e)
Raised(s, d, e) == St(s.level, s.loops, d, TRUE, s.update, e)

LEMMA MovedFacts ==
  ASSUME NEW s, NEW d, NEW e, s \in State, d \in Nat, e \in 0..2
  PROVE  /\ Moved(s, d, e) \in State
         /\ Moved(s, d, e).level = s.level /\ Moved(s, d, e).loops = s.loops
         /\ Moved(s, d, e).update = s.update /\ Moved(s, d, e).depth = d
         /\ Moved(s, d, e).void = FALSE /\ Moved(s, d, e).end = e
  BY DEF Moved, St, State

LEMMA RaisedFacts ==
  ASSUME NEW s, NEW d, NEW e, s \in State, d \in Nat, e \in 0..2
  PROVE  /\ Raised(s, d, e) \in State
         /\ Raised(s, d, e).level = s.level /\ Raised(s, d, e).loops = s.loops
         /\ Raised(s, d, e).update = s.update /\ Raised(s, d, e).depth = d
         /\ Raised(s, d, e).void = TRUE /\ Raised(s, d, e).end = e
  BY DEF Raised, St, State

LEMMA MovedPlace ==
  ASSUME NEW s, NEW u, u.level = s.level, u.loops = s.loops, u.update = s.update,
         NEW place, NEW ss, NEW lay, NEW hm, PlaceOK(place, s, ss, lay, hm)
  PROVE  PlaceOK(place, u, ss, lay, hm)
  BY DEF PlaceOK

LEMMA MovedTwice ==
  ASSUME NEW s, NEW u, u.level = s.level, u.loops = s.loops, u.update = s.update,
         NEW d, NEW e
  PROVE  Moved(u, d, e) = Moved(s, d, e) /\ Raised(u, d, e) = Raised(s, d, e)
  BY DEF Moved, Raised

LEMMA ExpressionJoined ==
  ASSUME NEW s, NEW place, NEW name, NEW it, NEW ss, NEW lay, NEW hm,
         it = [do |-> "expression", place |-> place, kind |-> "value", name |-> name],
         name \in Names \cup {NULL}, s \in State, s.void = FALSE, PlaceOK(place, s, ss, lay, hm)
  PROVE  Joined(it, s, Moved(s, s.depth + 1, 0), ss, lay, hm)
  BY DEF Joined, ExpressionOK, Moved

(* One list of things to do after the other.                               *)
Way(ys, a, c, ss, lay, hm) == \E h : Path(ys, h, a, c, ss, lay, hm)

LEMMA JoinedWays ==
  ASSUME NEW ys, NEW zs, NEW a, NEW b, NEW c, NEW ss, NEW lay, NEW hm,
         Way(ys, a, b, ss, lay, hm), Way(zs, b, c, ss, lay, hm)
  PROVE  Way(ys \o zs, a, c, ss, lay, hm)
  <1>1. PICK h : Path(ys, h, a, b, ss, lay, hm)
    BY DEF Way
  <1>2. PICK k : Path(zs, k, b, c, ss, lay, hm)
    BY DEF Way
  <1>3. PICK S1 : ys \in Seq(S1)
    BY <1>1 DEF Path, IsSeq
  <1>4. PICK S2 : zs \in Seq(S2)
    BY <1>2 DEF Path, IsSeq
  <1> DEFINE S == S1 \cup S2
             t == ys \o zs
             n == Len(ys)
             m == Len(zs)
             f == [i \in 1..n + m + 1 |-> IF i <= n THEN h[i] ELSE k[i - n]]
  <1>5. ys \in Seq(S) /\ zs \in Seq(S) /\ n \in Nat /\ m \in Nat
    BY <1>3, <1>4, SeqMonotonic, LenProperties
  <1>6. /\ t \in Seq(S) /\ Len(t) = n + m
        /\ \A i \in 1..n + m : t[i] = IF i <= n THEN ys[i] ELSE zs[i - n]
    BY <1>5, ConcatProperties
  <1>7. /\ h \in Seq(State) /\ Len(h) = n + 1 /\ h[1] = a /\ h[n + 1] = b
        /\ k \in Seq(State) /\ Len(k) = m + 1 /\ k[1] = b /\ k[m + 1] = c
    BY <1>1, <1>2 DEF Path
  <1>. HIDE DEF S, t, n, m
  <1>20. \A i \in 1..n + m + 1 : f[i] = IF i <= n THEN h[i] ELSE k[i - n]
    OBVIOUS
  <1>8. ASSUME NEW i \in 1..n + m + 1
        PROVE  f[i] \in State
    <2>1. CASE i <= n
      BY <2>1, <1>5, <1>7
    <2>2. CASE ~(i <= n)
      <3>1. i - n \in 1..Len(k)
        BY <2>2, <1>5, <1>7
      <3>. QED
        BY <3>1, <2>2, <1>7
    <2>. QED
      BY <2>1, <2>2
  <1>9. f \in Seq(State) /\ Len(f) = n + m + 1
    <2>1. n + m + 1 \in Nat
      BY <1>5
    <2>2. f \in [1..n + m + 1 -> State]
      BY <1>8
    <2>. HIDE DEF f
    <2>. QED
      BY <2>1, <2>2
  <1>10. ASSUME NEW i \in 1..n + 1
         PROVE  f[i] = h[i]
    <2>1. i \in 1..n + m + 1
      BY <1>5
    <2>2. CASE i <= n
      BY <2>1, <2>2
    <2>3. CASE ~(i <= n)
      <3>1. i = n + 1 /\ i - n = 1
        BY <2>3, <1>5
      <3>. QED
        BY <2>1, <2>3, <3>1, <1>7
    <2>. QED
      BY <2>2, <2>3
  <1>11. ASSUME NEW i \in 1..m + 1
         PROVE  f[i + n] = k[i]
    <2>1. i + n \in 1..n + m + 1 /\ ~(i + n <= n) /\ i + n - n = i
      BY <1>5
    <2>. HIDE DEF f
    <2>2. PICK j \in 1..n + m + 1 : j = i + n /\ ~(j <= n) /\ j - n = i
      BY <2>1, <1>5
    <2>3. f[j] = k[j - n]
      BY <2>2, <1>20
    <2>. QED
      BY <2>2, <2>3
  <1>. HIDE DEF f
  <1>12. f[1] = a /\ f[Len(f)] = c
    <2>1. 1 \in 1..n + 1 /\ m + 1 \in 1..m + 1 /\ m + 1 + n = n + m + 1
      BY <1>5
    <2>2. f[1] = h[1] /\ f[m + 1 + n] = k[m + 1]
      BY <2>1, <1>10, <1>11
    <2>. QED
      BY <2>1, <2>2, <1>7, <1>9
  <1>13. /\ \A i, j \in 1..n + 1 : i <= j => Under(h[i], h[j])
         /\ \A i, j \in 1..m + 1 : i <= j => Under(k[i], k[j])
    BY <1>1, <1>2, <1>7 DEF Path, Mono, Under
  <1>14. ASSUME NEW i \in 1..Len(f), NEW j \in 1..Len(f), i <= j
         PROVE  Under(f[i], f[j])
    <2>1. CASE j <= n
      <3>1. i \in 1..n + 1 /\ j \in 1..n + 1
        BY <2>1, <1>5, <1>9, <1>14
      <3>. QED
        BY <3>1, <1>10, <1>13, <1>14
    <2>2. CASE i > n
      <3>1. PICK x \in 1..m + 1 : i = x + n
        <4>1. i - n \in 1..m + 1 /\ i = (i - n) + n
          BY <2>2, <1>5, <1>9
        <4>. QED
          BY <4>1
      <3>2. PICK y \in 1..m + 1 : j = y + n
        <4>1. j - n \in 1..m + 1 /\ j = (j - n) + n
          BY <2>2, <1>5, <1>9, <1>14
        <4>. QED
          BY <4>1
      <3>3. x <= y
        BY <3>1, <3>2, <1>5, <1>14
      <3>4. f[i] = k[x] /\ f[j] = k[y]
        BY <3>1, <3>2, <1>11
      <3>. QED
        BY <3>3, <3>4, <1>13
    <2>3. CASE i <= n /\ ~(j <= n)
      <3>1. PICK y \in 1..m + 1 : j = y + n
        <4>1. j - n \in 1..m + 1 /\ j = (j - n) + n
          BY <2>3, <1>5, <1>9
        <4>. QED
          BY <4>1
      <3>2. i \in 1..n + 1 /\ n + 1 \in 1..n + 1 /\ i <= n + 1 /\ 1 \in 1..m + 1 /\ 1 <= y
        BY <2>3, <1>5, <1>9
      <3>3. f[i] = h[i] /\ f[j] = k[y]
        BY <3>1, <3>2, <1>10, <1>11
      <3>4. Under(h[i], b) /\ Under(b, k[y])
        BY <3>2, <1>7, <1>13
      <3>5. h[i] \in State /\ b \in State /\ k[y] \in State
        BY <3>2, <1>7
      <3>. QED
        BY <3>3, <3>4, <3>5, UnderTrans
    <2>. QED
      BY <2>1, <2>2, <2>3, <1>5, <1>9
  <1>15. Mono(f)
    BY <1>14, MonoUnder
  <1>16. ASSUME NEW i \in 1..Len(t)
         PROVE  Joined(t[i], f[i], f[i + 1], ss, lay, hm)
    <2>1. CASE i <= n
      <3>1. i \in 1..n /\ i \in 1..n + 1 /\ i + 1 \in 1..n + 1 /\ i \in 1..n + m
        BY <2>1, <1>5, <1>6
      <3>2. Joined(ys[i], h[i], h[i + 1], ss, lay, hm)
        BY <3>1, <1>1 DEF Path, AllJoined, n
      <3>3. t[i] = ys[i] /\ f[i] = h[i] /\ f[i + 1] = h[i + 1]
        BY <2>1, <3>1, <1>6, <1>10
      <3>. QED
        BY <3>2, <3>3
    <2>2. CASE ~(i <= n)
      <3>1. PICK x \in 1..m : i = x + n
        <4>1. i - n \in 1..m /\ i = (i - n) + n
          BY <2>2, <1>5, <1>6
        <4>. QED
          BY <4>1
      <3>2. x \in 1..m + 1 /\ x + 1 \in 1..m + 1 /\ i + 1 = (x + 1) + n /\ i \in 1..n + m /\ i - n = x
        BY <3>1, <1>5, <1>6
      <3>3. Joined(zs[x], k[x], k[x + 1], ss, lay, hm)
        BY <3>1, <1>2 DEF Path, AllJoined, m
      <3>4. t[i] = zs[x]
        BY <2>2, <3>2, <1>6
      <3>5. f[i] = k[x] /\ f[i + 1] = k[x + 1]
        BY <3>1, <3>2, <1>11
      <3>. QED
        BY <3>3, <3>4, <3>5
    <2>. QED
      BY <2>1, <2>2
  <1>17. AllJoined(t, f, ss, lay, hm)
    BY <1>16 DEF AllJoined
  <1>18. IsSeq(t) /\ Len(f) = Len(t) + 1
    BY <1>5, <1>6, <1>9 DEF IsSeq
  <1>19. Path(t, f, a, c, ss, lay, hm)
    BY <1>9, <1>12, <1>15, <1>17, <1>18 DEF Path
  <1>. QED
    BY <1>19 DEF Way, t

(* Things to do that depend on no place in the code.                       *)
LEMMA MarklessJoined ==
  ASSUME NEW ys, NEW zs, IsSeq(ys), IsSeq(zs), Markless(ys), Markless(zs)
  PROVE  Markless(ys \o zs)
  <1>1. PICK S1 : ys \in Seq(S1)
    BY DEF IsSeq
  <1>2. PICK S2 : zs \in Seq(S2)
    BY DEF IsSeq
  <1> DEFINE t == ys \o zs
  <1>3. /\ Len(t) = Len(ys) + Len(zs) /\ Len(ys) \in Nat /\ Len(zs) \in Nat
        /\ \A i \in 1..Len(ys) + Len(zs) : t[i] = IF i <= Len(ys) THEN ys[i] ELSE zs[i - Len(ys)]
    <2>1. ys \in Seq(S1 \cup S2) /\ zs \in Seq(S1 \cup S2)
      BY <1>1, <1>2, SeqMonotonic
    <2>. QED
      BY <2>1, ConcatProperties, LenProperties
  <1>. HIDE DEF t
  <1>4. ASSUME NEW i \in 1..Len(t)
        PROVE  t[i].do \notin {"body", "end_loop"}
    <2>1. CASE i <= Len(ys)
      <3>1. i \in 1..Len(ys)
        BY <2>1, <1>3
      <3>. QED
        BY <2>1, <3>1, <1>3 DEF Markless
    <2>2. CASE ~(i <= Len(ys))
      <3>1. i - Len(ys) \in 1..Len(zs) /\ i \in 1..Len(ys) + Len(zs)
        BY <2>2, <1>3
      <3>2. t[i] = zs[i - Len(ys)]
        BY <2>2, <3>1, <1>3
      <3>. QED
        BY <3>1, <3>2 DEF Markless
    <2>. QED
      BY <2>1, <2>2
  <1>. QED
    BY <1>4 DEF Markless, t

(* What an action of the walk starts from.                                 *)
LEMMA Begin ==
  ASSUME NEW g, NEW lay, NEW hm, Ctx(g, lay, hm), NEW step, Running(step)
  PROVE  /\ todo # <<>> /\ todo[1].do = step /\ Head(todo) = todo[1]
         /\ Joined(todo[1], g[1], g[2], scopes, lay, hm)
         /\ g[1] \in State /\ g[2] \in State
         /\ g[1].level \in Nat /\ g[1].loops \in Nat /\ g[1].depth \in Nat
         /\ g[1].void \in BOOLEAN /\ g[1].update \in BOOLEAN /\ g[1].end \in 0..2
         /\ g[1].void = FALSE => Moved(g[1], g[1].depth, g[1].end) = g[1]
  <1>1. todo # <<>>
    BY DEF Running
  <1>2. /\ Joined(todo[1], g[1], g[2], scopes, lay, hm) /\ Head(todo) = todo[1]
        /\ g[1] \in State /\ g[2] \in State
    BY <1>1, Doing
  <1>3. /\ g[1].level \in Nat /\ g[1].loops \in Nat /\ g[1].depth \in Nat
        /\ g[1].void \in BOOLEAN /\ g[1].update \in BOOLEAN /\ g[1].end \in 0..2
    BY <1>2, StateFields
  <1>4. g[1].void = FALSE => Moved(g[1], g[1].depth, g[1].end) = g[1]
    BY <1>2 DEF Moved, St, State
  <1>. QED
    BY <1>1, <1>2, <1>3, <1>4 DEF Running

LEMMA EndBlockOK ==
  ASSUME Prepared, Known, EndBlock
  PROVE  Known'
  <1>1. PICK g, lay, hm : Ctx(g, lay, hm)
    BY DEF Known
  <1>2. Running("block")
    BY DEF EndBlock
  <1>3. /\ todo # <<>> /\ todo[1].do = "block" /\ Head(todo) = todo[1]
        /\ Joined(todo[1], g[1], g[2], scopes, lay, hm)
        /\ g[1] \in State /\ g[2] \in State /\ g[1].end \in 0..2
    BY <1>1, <1>2, Begin
  <1>4. BlockOK(todo[1], g[1], g[2], scopes, lay, hm)
    BY <1>3 DEF Joined
  <1>5. Path(<<>>, <<g[2]>>, g[2], g[2], scopes, lay, hm)
    BY <1>3, PathNone
  <1>6. todo[1].value = TRUE => todo[1].got = TRUE
    <2>1. ~May("branch_without_value")
      BY NoLiberties
    <2>. QED
      BY <2>1, <1>3 DEF EndBlock
  <1>7. Same(g[2], g[1])
    <2>1. /\ g[2] = St(g[1].level, g[1].loops, g[1].depth, FALSE, g[1].update,
                       IF todo[1].value THEN 2 ELSE 1)
          /\ g[1].void = FALSE /\ g[1].end >= 1 /\ (todo[1].got => g[1].end = 2)
          /\ todo[1].value \in BOOLEAN /\ todo[1].got \in BOOLEAN
      BY <1>4 DEF BlockOK
    <2>2. g[1].end = 1 \/ g[1].end = 2
      BY <2>1, <1>3
    <2>3. g[2].end = IF todo[1].value THEN 2 ELSE 1
      BY <2>1 DEF St
    <2>4. g[2].end = g[1].end \/ (g[2].end = 1 /\ g[1].end = 2)
      BY <2>1, <2>2, <2>3, <1>6
    <2>. QED
      <3>1. g[2].level = g[1].level /\ g[2].loops = g[1].loops /\ g[2].depth = g[1].depth
        BY <2>1 DEF St
      <3>2. g[2].void = g[1].void
        <4>1. g[2].void = FALSE
          BY <2>1 DEF St
        <4>. QED
          BY <2>1, <4>1
      <3>. QED
        BY <2>4, <3>1, <3>2 DEF Same, Alike
  <1>8. Markless(<<>>)
    BY DEF Markless
  <1>9. /\ todo[1].do \notin Patching /\ Continue(<<>>) /\ scope_index' = scope_index
        /\ UNCHANGED <<scopes, arrays, constants, loops, is_void>>
    BY <1>3 DEF EndBlock, Patching, scope_index
  <1>. QED
    BY <1>1, <1>3, <1>5, <1>7, <1>8, <1>9, QuietPath

LEMMA QuietWay ==
  ASSUME NEW g, NEW lay, NEW hm, Ctx(g, lay, hm), todo # <<>>,
         NEW ys, NEW a, Way(ys, a, g[2], scopes, lay, hm),
         Same(a, g[1]), a.end # 0 => Markless(ys),
         todo[1].do \notin Patching,
         Continue(ys), scope_index' = scope_index,
         UNCHANGED <<scopes, arrays, constants, loops, is_void>>
  PROVE  Known'
  <1>1. PICK h : Path(ys, h, a, g[2], scopes, lay, hm)
    BY DEF Way
  <1>. QED
    BY <1>1, QuietPath

LEMMA WayOne ==
  ASSUME NEW x, NEW a, NEW b, a \in State, b \in State, Under(a, b),
         NEW ss, NEW lay, NEW hm, Joined(x, a, b, ss, lay, hm)
  PROVE  Way(<<x>>, a, b, ss, lay, hm) /\ IsSeq(<<x>>)
  <1>1. Path(<<x>>, <<a, b>>, a, b, ss, lay, hm)
    BY PathOne
  <1>. QED
    BY <1>1 DEF Way, Path

LEMMA WayTwo ==
  ASSUME NEW x, NEW y, NEW a, NEW b, NEW c, a \in State, b \in State, c \in State,
         Under(a, b), Under(b, c),
         NEW ss, NEW lay, NEW hm, Joined(x, a, b, ss, lay, hm), Joined(y, b, c, ss, lay, hm)
  PROVE  Way(<<x, y>>, a, c, ss, lay, hm) /\ IsSeq(<<x, y>>)
  <1>1. Path(<<x, y>>, <<a, b, c>>, a, c, ss, lay, hm)
    BY PathTwo
  <1>. QED
    BY <1>1 DEF Way, Path

LEMMA Few ==
  ASSUME NEW x, NEW y
  PROVE  /\ x.do \notin {"body", "end_loop"} => Markless(<<x>>)
         /\ x.do \notin {"body", "end_loop"} /\ y.do \notin {"body", "end_loop"} => Markless(<<x, y>>)
  <1>1. ASSUME x.do \notin {"body", "end_loop"}
        PROVE  Markless(<<x>>)
    <2>1. Len(<<x>>) = 1 /\ <<x>>[1] = x
      OBVIOUS
    <2>2. \A i \in 1..1 : i = 1
      OBVIOUS
    <2>. QED
      BY <1>1, <2>1, <2>2 DEF Markless
  <1>2. ASSUME x.do \notin {"body", "end_loop"}, y.do \notin {"body", "end_loop"}
        PROVE  Markless(<<x, y>>)
    <2>1. Len(<<x, y>>) = 2 /\ <<x, y>>[1] = x /\ <<x, y>>[2] = y
      OBVIOUS
    <2>2. \A i \in 1..2 : i = 1 \/ i = 2
      OBVIOUS
    <2>. QED
      BY <1>2, <2>1, <2>2 DEF Markless
  <1>. QED
    BY <1>1, <1>2

(* What is left of the block when a statement has been compiled.           *)
LEMMA BlockContinues ==
  ASSUME NEW it, NEW s, NEW u, NEW ss, NEW lay, NEW hm, BlockOK(it, s, u, ss, lay, hm),
         s \in State, u \in State, NEW got, got \in BOOLEAN, NEW e, e \in 1..2, got = TRUE => e = 2,
         NEW c, c = Moved(s, s.depth, e)
  PROVE  /\ Way(<<[it EXCEPT !.got = got]>>, c, u, ss, lay, hm)
         /\ IsSeq(<<[it EXCEPT !.got = got]>>) /\ Markless(<<[it EXCEPT !.got = got]>>)
  <1> DEFINE x == [it EXCEPT !.got = got]
  <1>1. /\ it \in [do : {"block"}, place : Places, value : BOOLEAN, got : BOOLEAN]
        /\ PlaceOK(it.place, s, ss, lay, hm) /\ s.void = FALSE
        /\ u = St(s.level, s.loops, s.depth, FALSE, s.update, IF it.value THEN 2 ELSE 1)
    BY DEF BlockOK
  <1>2. /\ x \in [do : {"block"}, place : Places, value : BOOLEAN, got : BOOLEAN]
        /\ x.do = "block" /\ x.place = it.place /\ x.value = it.value /\ x.got = got
    BY <1>1
  <1>. HIDE DEF x
  <1>3. s.depth \in Nat /\ e \in 0..2 /\ e >= 1
    BY DEF State
  <1>4. /\ c \in State /\ c.level = s.level /\ c.loops = s.loops /\ c.update = s.update
        /\ c.depth = s.depth /\ c.void = FALSE /\ c.end = e
    <2> DEFINE d == s.depth
    <2>1. /\ Moved(s, d, e) \in State
          /\ Moved(s, d, e).level = s.level /\ Moved(s, d, e).loops = s.loops
          /\ Moved(s, d, e).update = s.update /\ Moved(s, d, e).depth = d
          /\ Moved(s, d, e).void = FALSE /\ Moved(s, d, e).end = e
      <3>1. d \in Nat /\ e \in 0..2
        BY <1>3
      <3>. HIDE DEF d
      <3>. QED
        BY <3>1 DEF Moved, St, State
    <2>. QED
      BY <2>1
  <1>5. PlaceOK(x.place, c, ss, lay, hm)
    BY <1>1, <1>2, <1>4, MovedPlace
  <1>6. u = St(c.level, c.loops, c.depth, FALSE, c.update, IF x.value THEN 2 ELSE 1)
    BY <1>1, <1>2, <1>4
  <1>7. BlockOK(x, c, u, ss, lay, hm)
    BY <1>2, <1>3, <1>4, <1>5, <1>6 DEF BlockOK
  <1>8. Joined(x, c, u, ss, lay, hm)
    BY <1>2, <1>7 DEF Joined
  <1>9. Under(c, u)
    <2>1. u.level = s.level /\ u.loops = s.loops /\ u.update = s.update
      BY <1>1 DEF St
    <2>. QED
      BY <2>1, <1>4, UnderSame
  <1>10. Way(<<x>>, c, u, ss, lay, hm) /\ IsSeq(<<x>>)
    BY <1>4, <1>8, <1>9, WayOne
  <1>11. Markless(<<x>>)
    BY <1>2, Few
  <1>. QED
    BY <1>10, <1>11 DEF x

(* What the actions on a block start from.                                 *)
LEMMA InBlock ==
  ASSUME NEW g, NEW lay, NEW hm, Ctx(g, lay, hm), Running("block")
  PROVE  /\ BlockOK(todo[1], g[1], g[2], scopes, lay, hm)
         /\ PlaceOK(todo[1].place, g[1], scopes, lay, hm) /\ g[1].void = FALSE
         /\ todo[1].do \notin Patching
  <1>1. todo[1].do = "block" /\ Joined(todo[1], g[1], g[2], scopes, lay, hm)
    BY Begin
  <1>2. BlockOK(todo[1], g[1], g[2], scopes, lay, hm)
    BY <1>1 DEF Joined
  <1>. QED
    BY <1>1, <1>2 DEF BlockOK, Patching

LEMMA SameSelf ==
  ASSUME NEW s
  PROVE  Same(s, s)
  BY DEF Same, Alike

LEMMA ExpressionStatementOK ==
  ASSUME Known, NEW kind \in {"value", "void"}, ExpressionStatement(kind)
  PROVE  Known'
  <1>1. PICK g, lay, hm : Ctx(g, lay, hm)
    BY DEF Known
  <1>2. Running("block")
    BY DEF ExpressionStatement, NewStatement
  <1> DEFINE s == g[1]
             u == g[2]
             it == todo[1]
             x == Expression(Head(todo).place, kind)
             y == [do |-> "expression_statement"]
             b == IF kind = "value" THEN Moved(s, s.depth + 1, 0) ELSE Raised(s, s.depth, 1)
             e == IF kind = "value" THEN 2 ELSE 1
             c == Moved(s, s.depth, e)
             got == kind = "value"
  <1>3. /\ todo # <<>> /\ Head(todo) = todo[1] /\ s \in State /\ u \in State
        /\ s.depth \in Nat
    BY <1>1, <1>2, Begin
  <1>4. /\ BlockOK(it, s, u, scopes, lay, hm)
        /\ PlaceOK(it.place, s, scopes, lay, hm) /\ s.void = FALSE
        /\ it.do \notin Patching
    BY <1>1, <1>2, InBlock
  <1>5. /\ x.do = "expression" /\ x.place = it.place /\ x.kind = kind /\ x.name = NULL
        /\ y.do = "expression_statement"
    BY <1>3 DEF Expression
  <1>. HIDE DEF s, u, it, x, y
  <1>6. /\ b \in State /\ b.level = s.level /\ b.loops = s.loops /\ b.update = s.update
        /\ kind = "value" => b.depth = s.depth + 1 /\ b.void = FALSE
        /\ kind = "void" => b.depth = s.depth /\ b.void = TRUE /\ b.end = 1
    BY <1>3 DEF Moved, Raised, St, State
  <1>7. /\ c \in State /\ c.level = s.level /\ c.loops = s.loops /\ c.update = s.update
    BY <1>3 DEF Moved, St, State
  <1>8. Joined(x, s, b, scopes, lay, hm)
    BY <1>4, <1>5 DEF Joined, ExpressionOK, Moved, Raised
  <1>9. Joined(y, b, c, scopes, lay, hm)
    <2>1. CASE kind = "value"
      <3>1. b.depth - 1 = s.depth /\ b.depth >= 1 /\ b.void = FALSE
        BY <2>1, <1>3, <1>6
      <3>2. c = St(s.level, s.loops, s.depth, FALSE, s.update, 2)
        BY <2>1 DEF Moved
      <3>3. c = St(b.level, b.loops, b.depth - 1, FALSE, b.update, 2)
        BY <3>1, <3>2, <1>6
      <3>. HIDE DEF b, c
      <3>. QED
        BY <3>1, <3>3, <1>5 DEF Joined, StatementOK
    <2>2. CASE kind = "void"
      <3>1. b.depth = s.depth /\ b.end >= 1 /\ b.void = TRUE
        BY <2>2, <1>6
      <3>2. c = St(s.level, s.loops, s.depth, FALSE, s.update, 1)
        BY <2>2 DEF Moved
      <3>3. c = St(b.level, b.loops, b.depth, FALSE, b.update, 1)
        BY <3>1, <3>2, <1>6
      <3>. HIDE DEF b, c
      <3>. QED
        BY <3>1, <3>3, <1>5 DEF Joined, StatementOK
    <2>. QED
      BY <2>1, <2>2
  <1>10. Under(s, b) /\ Under(b, c)
    BY <1>3, <1>6, <1>7, UnderSame
  <1>11. /\ Way(Rest(got), c, u, scopes, lay, hm)
         /\ IsSeq(Rest(got)) /\ Markless(Rest(got))
    <2>1. /\ got \in BOOLEAN /\ e \in 1..2 /\ (got = TRUE => e = 2)
      OBVIOUS
    <2>2. Rest(got) = <<[it EXCEPT !.got = got]>>
      BY <1>3 DEF Rest, it
    <2>3. c = Moved(s, s.depth, e)
      OBVIOUS
    <2>. HIDE DEF got, e, c, b
    <2>4. /\ Way(<<[it EXCEPT !.got = got]>>, c, u, scopes, lay, hm)
          /\ IsSeq(<<[it EXCEPT !.got = got]>>) /\ Markless(<<[it EXCEPT !.got = got]>>)
      BY <2>1, <2>3, <1>3, <1>4, BlockContinues
    <2>. QED
      BY <2>2, <2>4
  <1>. HIDE DEF b, c
  <1>12. Way(<<x, y>>, s, c, scopes, lay, hm) /\ IsSeq(<<x, y>>)
    BY <1>3, <1>6, <1>7, <1>8, <1>9, <1>10, WayTwo
  <1>13. Markless(<<x, y>>)
    <2>1. x.do \notin {"body", "end_loop"} /\ y.do \notin {"body", "end_loop"}
      BY <1>5
    <2>. QED
      BY <2>1, Few
  <1> DEFINE ys == <<x, y>> \o Rest(got)
  <1>14. Way(ys, s, u, scopes, lay, hm) /\ Markless(ys)
    <2>. HIDE DEF got
    <2>. QED
      BY <1>11, <1>12, <1>13, JoinedWays, MarklessJoined
  <1>15. Continue(ys) /\ scope_index' = scope_index
        /\ UNCHANGED <<scopes, arrays, constants, loops, is_void>>
    BY DEF ExpressionStatement, scope_index, x, y
  <1>. HIDE DEF ys
  <1>. QED
    BY <1>1, <1>3, <1>4, <1>14, <1>15, QuietWay, SameSelf DEF s, u, it

(* A statement that leaves the stack as it was, and the rest of the block. *)
LEMMA BlockQuiet ==
  ASSUME NEW g, NEW lay, NEW hm, Ctx(g, lay, hm), Running("block"),
         NEW zs, NEW got, got \in BOOLEAN, NEW e, e \in 1..2, got = TRUE => e = 2,
         Way(zs, g[1], Moved(g[1], g[1].depth, e), scopes, lay, hm), IsSeq(zs), Markless(zs),
         Continue(zs \o Rest(got)), scope_index' = scope_index,
         UNCHANGED <<scopes, arrays, constants, loops, is_void>>
  PROVE  Known'
  <1> DEFINE s == g[1]
             u == g[2]
             it == todo[1]
             c == Moved(s, s.depth, e)
             ys == zs \o Rest(got)
  <1>3. /\ todo # <<>> /\ Head(todo) = todo[1] /\ s \in State /\ u \in State
    BY Begin
  <1>4. BlockOK(it, s, u, scopes, lay, hm) /\ it.do \notin Patching
    BY InBlock
  <1>11. /\ Way(Rest(got), c, u, scopes, lay, hm)
         /\ IsSeq(Rest(got)) /\ Markless(Rest(got))
    <2>2. Rest(got) = <<[it EXCEPT !.got = got]>>
      BY <1>3 DEF Rest, it
    <2>3. c = Moved(s, s.depth, e)
      OBVIOUS
    <2>. HIDE DEF c, s, u, it
    <2>4. /\ Way(<<[it EXCEPT !.got = got]>>, c, u, scopes, lay, hm)
          /\ IsSeq(<<[it EXCEPT !.got = got]>>) /\ Markless(<<[it EXCEPT !.got = got]>>)
      BY <2>3, <1>3, <1>4, BlockContinues
    <2>. QED
      BY <2>2, <2>4
  <1>12. Way(zs, s, c, scopes, lay, hm)
    OBVIOUS
  <1>14. Way(ys, s, u, scopes, lay, hm) /\ Markless(ys)
    <2>. HIDE DEF c, s, u
    <2>. QED
      BY <1>11, <1>12, JoinedWays, MarklessJoined
  <1>15. Continue(ys)
    OBVIOUS
  <1>. HIDE DEF ys
  <1>. QED
    BY <1>3, <1>4, <1>14, <1>15, QuietWay, SameSelf DEF s, u, it

LEMMA LetStatementOK ==
  ASSUME Known, TablesOK(tables), NEW name \in Names, LetStatement(name)
  PROVE  Known'
  <1>1. PICK g, lay, hm : Ctx(g, lay, hm)
    BY DEF Known
  <1>2. Running("block")
    BY DEF LetStatement, NewStatement
  <1> DEFINE s == g[1]
             it == todo[1]
             x == [Expression(Head(todo).place, "value") EXCEPT !.name = name]
             y == [do |-> "save", symbol |-> ST!Defined(tables, name)]
             b == Moved(s, s.depth + 1, 0)
             c == Moved(s, s.depth, 1)
             zs == <<x, y>>
  <1>3. /\ todo # <<>> /\ Head(todo) = todo[1] /\ s \in State /\ s.depth \in Nat
    BY <1>1, <1>2, Begin
  <1>4. /\ PlaceOK(it.place, s, scopes, lay, hm) /\ s.void = FALSE
    BY <1>1, <1>2, InBlock
  <1>5. /\ x.do = "expression" /\ x.place = it.place /\ x.kind = "value" /\ x.name = name
        /\ y.do = "save" /\ y.symbol = ST!Defined(tables, name)
    BY <1>3 DEF Expression
  <1>6. y.symbol.index \in Nat
    <2>1. ST!Defined(tables, name) \in ST!Symbol
      BY DefineTables
    <2>. QED
      BY <2>1 DEF ST!Symbol
  <1>7. /\ b \in State /\ b.level = s.level /\ b.loops = s.loops /\ b.update = s.update
        /\ b.depth = s.depth + 1 /\ b.void = FALSE
        /\ c \in State /\ c.level = s.level /\ c.loops = s.loops /\ c.update = s.update
    BY <1>3 DEF Moved, St, State
  <1>. HIDE DEF s, it, x, y
  <1>8. Joined(x, s, b, scopes, lay, hm)
    BY <1>4, <1>5 DEF Joined, ExpressionOK, Moved
  <1>9. Joined(y, b, c, scopes, lay, hm)
    <2>1. b.depth - 1 = s.depth /\ b.depth >= 1
      BY <1>3, <1>7
    <2>2. c = St(b.level, b.loops, b.depth - 1, FALSE, b.update, 1)
      BY <2>1, <1>7 DEF Moved
    <2>. HIDE DEF b, c
    <2>. QED
      BY <2>1, <2>2, <1>5, <1>6, <1>7 DEF Joined, SaveOK
  <1>10. Way(zs, s, c, scopes, lay, hm) /\ IsSeq(zs) /\ Markless(zs)
    <2>. HIDE DEF b, c
    <2>1. Under(s, b) /\ Under(b, c)
      BY <1>3, <1>7, UnderSame
    <2>2. x.do \notin {"body", "end_loop"} /\ y.do \notin {"body", "end_loop"}
      BY <1>5
    <2>. QED
      BY <2>1, <2>2, <1>3, <1>7, <1>8, <1>9, WayTwo, Few
  <1>11. Continue(zs \o Rest(FALSE)) /\ scope_index' = scope_index
         /\ UNCHANGED <<scopes, arrays, constants, loops, is_void>>
    <2>1. Len(ST!symbol_define(tables, name)) = Len(tables)
      BY DefineTables
    <2>. QED
      BY <2>1 DEF LetStatement, LetSteps, scope_index, x, y
  <1>12. Way(zs, g[1], Moved(g[1], g[1].depth, 1), scopes, lay, hm)
    BY <1>10 DEF s
  <1>. HIDE DEF zs
  <1>13. FALSE \in BOOLEAN /\ 1 \in 1..2 /\ (FALSE = TRUE => 1 = 2)
    OBVIOUS
  <1>. QED
    BY <1>1, <1>2, <1>10, <1>11, <1>12, <1>13, BlockQuiet

LEMMA ReturnStatementOK ==
  ASSUME Prepared, Known, ReturnStatement
  PROVE  Known'
  <1>1. PICK g, lay, hm : Ctx(g, lay, hm)
    BY DEF Known
  <1>2. Running("block")
    BY DEF ReturnStatement, NewStatement
  <1> DEFINE s == g[1]
             it == todo[1]
             x == Expression(Head(todo).place, "value")
             y == [do |-> "emit", op |-> "RETURN_VALUE", operands |-> <<>>]
             b == Moved(s, s.depth + 1, 0)
             c == Moved(s, s.depth, 2)
             zs == <<x, y>>
  <1>3. /\ todo # <<>> /\ Head(todo) = todo[1] /\ s \in State /\ s.depth \in Nat
    BY <1>1, <1>2, Begin
  <1>4. /\ PlaceOK(it.place, s, scopes, lay, hm) /\ s.void = FALSE
    BY <1>1, <1>2, InBlock
  <1>5. /\ x.do = "expression" /\ x.place = it.place /\ x.kind = "value" /\ x.name = NULL
        /\ y.do = "emit" /\ y.op = "RETURN_VALUE" /\ y.operands = <<>>
    BY <1>3 DEF Expression
  <1>6. ViewOf(s.level, scopes, lay).kind = "function"
    <2>1. ~May("stray_return")
      BY NoLiberties
    <2>2. it.place.function
      BY <2>1, <1>3 DEF ReturnStatement
    <2>. QED
      BY <2>2, <1>4 DEF PlaceOK
  <1>7. /\ b \in State /\ b.level = s.level /\ b.loops = s.loops /\ b.update = s.update
        /\ b.depth = s.depth + 1 /\ b.void = FALSE
        /\ c \in State /\ c.level = s.level /\ c.loops = s.loops /\ c.update = s.update
    BY <1>3 DEF Moved, St, State
  <1>. HIDE DEF s, it, x, y
  <1>8. Joined(x, s, b, scopes, lay, hm)
    BY <1>4, <1>5 DEF Joined, ExpressionOK, Moved
  <1>9. Joined(y, b, c, scopes, lay, hm)
    <2>1. b.depth - 1 = s.depth /\ b.depth >= 1
      BY <1>3, <1>7
    <2>2. c = St(b.level, b.loops, b.depth - 1, FALSE, b.update, 2)
      BY <2>1, <1>7 DEF Moved
    <2>3. ArgsOK("RETURN_VALUE", <<>>) /\ Takes("RETURN_VALUE", <<>>) = 1
          /\ "RETURN_VALUE" \notin Plain
      BY DEF ArgsOK, Widths, Takes, Plain, Leavers
    <2>. HIDE DEF b, c
    <2>. QED
      BY <2>1, <2>2, <2>3, <1>5, <1>6, <1>7 DEF Joined, EmitOK
  <1>10. Way(zs, s, c, scopes, lay, hm) /\ IsSeq(zs) /\ Markless(zs)
    <2>. HIDE DEF b, c
    <2>1. Under(s, b) /\ Under(b, c)
      BY <1>3, <1>7, UnderSame
    <2>2. x.do \notin {"body", "end_loop"} /\ y.do \notin {"body", "end_loop"}
      BY <1>5
    <2>. QED
      BY <2>1, <2>2, <1>3, <1>7, <1>8, <1>9, WayTwo, Few
  <1>11. Continue(zs \o Rest(TRUE)) /\ scope_index' = scope_index
         /\ UNCHANGED <<scopes, arrays, constants, loops, is_void>>
    BY DEF ReturnStatement, scope_index, x, y
  <1>12. Way(zs, g[1], Moved(g[1], g[1].depth, 2), scopes, lay, hm)
    BY <1>10 DEF s
  <1>. HIDE DEF zs
  <1>13. TRUE \in BOOLEAN /\ 2 \in 1..2 /\ (TRUE = TRUE => 2 = 2)
    OBVIOUS
  <1>. QED
    BY <1>1, <1>2, <1>10, <1>11, <1>12, <1>13, BlockQuiet

(* What the actions on an expression start from.                           *)
LEMMA InExpression ==
  ASSUME NEW g, NEW lay, NEW hm, Ctx(g, lay, hm), Running("expression")
  PROVE  /\ todo # <<>> /\ Head(todo) = todo[1]
         /\ g[1] \in State /\ g[2] \in State /\ g[1].depth \in Nat
         /\ PlaceOK(todo[1].place, g[1], scopes, lay, hm) /\ g[1].void = FALSE
         /\ todo[1].kind = "value" => g[2] = Moved(g[1], g[1].depth + 1, 0)
         /\ todo[1].kind = "void" => g[2] = Raised(g[1], g[1].depth, 1)
         /\ todo[1].do = "expression" /\ todo[1].do \notin Patching
         /\ todo[1].name \in Names \cup {NULL}
         /\ todo[1].kind \in {"value", "void"}
  <1>1. /\ todo # <<>> /\ Head(todo) = todo[1]
        /\ todo[1].do = "expression" /\ Joined(todo[1], g[1], g[2], scopes, lay, hm)
        /\ g[1] \in State /\ g[2] \in State /\ g[1].depth \in Nat
    BY Begin
  <1>2. ExpressionOK(todo[1], g[1], g[2], scopes, lay, hm)
    BY <1>1 DEF Joined
  <1>3. todo[1].do \notin Patching
    BY <1>1 DEF Patching
  <1>. QED
    BY <1>1, <1>2, <1>3 DEF ExpressionOK, Moved, Raised

(* The same state, of whose last instruction nothing is known.             *)
LEMMA Forgotten ==
  ASSUME NEW s, s \in State, s.void = FALSE
  PROVE  /\ Moved(s, s.depth, 0) \in State
         /\ Same(Moved(s, s.depth, 0), s) /\ Moved(s, s.depth, 0).end = 0
         /\ Moved(s, s.depth, 0).level = s.level /\ Moved(s, s.depth, 0).loops = s.loops
         /\ Moved(s, s.depth, 0).update = s.update /\ Moved(s, s.depth, 0).depth = s.depth
         /\ Moved(s, s.depth, 0).void = FALSE
  <1>1. /\ Moved(s, s.depth, 0) \in State
        /\ Moved(s, s.depth, 0).end = 0
        /\ Moved(s, s.depth, 0).level = s.level /\ Moved(s, s.depth, 0).loops = s.loops
        /\ Moved(s, s.depth, 0).update = s.update /\ Moved(s, s.depth, 0).depth = s.depth
        /\ Moved(s, s.depth, 0).void = FALSE
    BY DEF Moved, St, State
  <1>. QED
    BY <1>1 DEF Same, Alike

(* Expressions one after the other.                                        *)
LEMMA ManyWay ==
  ASSUME NEW s, s \in State, NEW place, NEW ss, NEW lay, NEW hm, PlaceOK(place, s, ss, lay, hm),
         NEW n, n \in Nat, NEW ys, ys = [i \in 1..n |-> Expression(place, "value")]
  PROVE  /\ Way(ys, Moved(s, s.depth, 0), Moved(s, s.depth + n, 0), ss, lay, hm)
         /\ IsSeq(ys) /\ Markless(ys)
  <1> DEFINE x == Expression(place, "value")
             h == [i \in 1..n + 1 |-> Moved(s, s.depth + i - 1, 0)]
  <1>1. s.depth \in Nat
    BY DEF State
  <1>2. ys \in Seq({x}) /\ Len(ys) = n /\ \A i \in 1..n : ys[i] = x
    OBVIOUS
  <1>3. x.do = "expression" /\ x.place = place /\ x.kind = "value" /\ x.name = NULL
    BY DEF Expression
  <1>4. ASSUME NEW d \in Nat
        PROVE  /\ Moved(s, d, 0) \in State
               /\ Moved(s, d, 0).level = s.level /\ Moved(s, d, 0).loops = s.loops
               /\ Moved(s, d, 0).update = s.update
               /\ Moved(s, d, 0).depth = d /\ Moved(s, d, 0).void = FALSE
    BY DEF Moved, St, State
  <1>5. \A i \in 1..n + 1 : h[i] = Moved(s, s.depth + i - 1, 0) /\ s.depth + i - 1 \in Nat
    BY <1>1
  <1>6. h \in Seq(State) /\ Len(h) = n + 1
    <2>1. h \in [1..n + 1 -> State]
      BY <1>4, <1>5
    <2>. HIDE DEF h
    <2>. QED
      BY <2>1
  <1>. HIDE DEF h, x
  <1>7. h[1] = Moved(s, s.depth, 0) /\ h[Len(h)] = Moved(s, s.depth + n, 0)
    <2>1. 1 \in 1..n + 1 /\ n + 1 \in 1..n + 1 /\ s.depth + 1 - 1 = s.depth
          /\ s.depth + (n + 1) - 1 = s.depth + n
      BY <1>1
    <2>. QED
      BY <2>1, <1>5, <1>6
  <1>8. Mono(h)
    <2>1. ASSUME NEW i \in 1..Len(h), NEW j \in 1..Len(h), i <= j
          PROVE  Under(h[i], h[j])
      <3>1. h[i] \in State /\ h[j] \in State
        BY <1>6
      <3>2. /\ h[i].level = s.level /\ h[i].loops = s.loops /\ h[i].update = s.update
            /\ h[j].level = s.level /\ h[j].loops = s.loops /\ h[j].update = s.update
        <4>1. i \in 1..n + 1 /\ j \in 1..n + 1
          BY <1>6
        <4>2. /\ h[i] = Moved(s, s.depth + i - 1, 0) /\ s.depth + i - 1 \in Nat
              /\ h[j] = Moved(s, s.depth + j - 1, 0) /\ s.depth + j - 1 \in Nat
          BY <4>1, <1>5
        <4>. QED
          BY <4>2, <1>4
      <3>. QED
        BY <3>1, <3>2, UnderSame
    <2>. QED
      BY <2>1, MonoUnder
  <1>9. ASSUME NEW i \in 1..n
        PROVE  Joined(ys[i], h[i], h[i + 1], ss, lay, hm)
    <2> DEFINE d == s.depth + i - 1
               a == Moved(s, d, 0)
    <2>1. /\ i \in 1..n + 1 /\ i + 1 \in 1..n + 1 /\ d \in Nat /\ s.depth + (i + 1) - 1 = d + 1
      BY <1>1
    <2>2. h[i] = a
      BY <2>1, <1>5
    <2>3. h[i + 1] = Moved(s, d + 1, 0)
      <3>1. h[i + 1] = Moved(s, s.depth + (i + 1) - 1, 0)
        BY <2>1, <1>5
      <3>. QED
        BY <3>1, <2>1
    <2>4. /\ a.level = s.level /\ a.loops = s.loops /\ a.update = s.update
          /\ a.depth = d /\ a.void = FALSE
      BY <2>1, <1>4
    <2>5. h[i + 1] = St(a.level, a.loops, a.depth + 1, FALSE, a.update, 0)
      BY <2>3, <2>4 DEF Moved
    <2>. HIDE DEF a
    <2>6. PlaceOK(place, a, ss, lay, hm)
      BY <2>4, MovedPlace
    <2>7. ExpressionOK(x, a, h[i + 1], ss, lay, hm)
      BY <2>4, <2>5, <2>6, <1>3 DEF ExpressionOK
    <2>. QED
      BY <2>2, <2>7, <1>2, <1>3 DEF Joined
  <1>10. AllJoined(ys, h, ss, lay, hm)
    BY <1>2, <1>9 DEF AllJoined
  <1>11. Markless(ys)
    BY <1>2, <1>3 DEF Markless
  <1>12. IsSeq(ys)
    BY <1>2 DEF IsSeq
  <1>13. Path(ys, h, Moved(s, s.depth, 0), Moved(s, s.depth + n, 0), ss, lay, hm)
    BY <1>2, <1>6, <1>7, <1>8, <1>10, <1>12 DEF Path
  <1>. QED
    BY <1>11, <1>12, <1>13 DEF Way

(* An instruction that takes the values of the expressions before it.      *)
LEMMA CompoundOK ==
  ASSUME Known, NEW form, NEW count \in Nat, NEW op \in Plain, NEW operands,
         ArgsOK(op, operands), Takes(op, operands) = count, Leaves(op) = 1,
         Compound(form, count, op, operands)
  PROVE  Known'
  <1>1. PICK g, lay, hm : Ctx(g, lay, hm)
    BY DEF Known
  <1>2. Running("expression") /\ Head(todo).kind = "value"
    BY DEF Compound, NewExpression
  <1> DEFINE s == g[1]
             it == todo[1]
             zs == Operands(count)
             y == [do |-> "emit", op |-> op, operands |-> operands]
             a == Moved(s, s.depth, 0)
             b == Moved(s, s.depth + count, 0)
             c == Moved(s, s.depth + 1, 0)
             ys == zs \o <<y>>
  <1>3. /\ todo # <<>> /\ Head(todo) = todo[1] /\ s \in State /\ s.depth \in Nat
        /\ PlaceOK(it.place, s, scopes, lay, hm) /\ s.void = FALSE
        /\ g[2] = c /\ it.do \notin Patching
    BY <1>1, <1>2, InExpression
  <1>4. /\ Way(zs, a, b, scopes, lay, hm) /\ IsSeq(zs) /\ Markless(zs)
    <2>1. zs = [i \in 1..count |-> Expression(it.place, "value")]
      BY <1>3 DEF Operands, Here
    <2>. HIDE DEF zs, s
    <2>. QED
      BY <2>1, <1>3, ManyWay
  <1>5. a \in State /\ a.end = 0 /\ Same(a, s)
    BY <1>3, Forgotten
  <1>6. /\ b \in State /\ b.level = s.level /\ b.loops = s.loops /\ b.update = s.update
        /\ b.depth = s.depth + count /\ b.void = FALSE
        /\ c \in State /\ c.level = s.level /\ c.loops = s.loops /\ c.update = s.update
    BY <1>3 DEF Moved, St, State
  <1>7. Joined(y, b, c, scopes, lay, hm)
    <2>1. b.depth - count + 1 = s.depth + 1 /\ b.depth >= count
      BY <1>3, <1>6
    <2>2. c = St(b.level, b.loops, b.depth - Takes(op, operands) + Leaves(op), FALSE, b.update, 0)
      BY <2>1, <1>6 DEF Moved
    <2>3. y.do = "emit" /\ y.op = op /\ y.operands = operands /\ op # "RETURN_VALUE"
      BY DEF Plain, Leavers
    <2>. HIDE DEF b, c, y
    <2>. QED
      BY <2>1, <2>2, <2>3, <1>6 DEF Joined, EmitOK
  <1>8. Way(<<y>>, b, c, scopes, lay, hm) /\ IsSeq(<<y>>) /\ Markless(<<y>>)
    <2>1. y.do \notin {"body", "end_loop"}
      OBVIOUS
    <2>2. Under(b, c)
      <3>. HIDE DEF b, c
      <3>. QED
        BY <1>6, UnderSame
    <2>. HIDE DEF b, c, y
    <2>. QED
      BY <2>1, <2>2, <1>6, <1>7, WayOne, Few
  <1>9. Way(ys, a, c, scopes, lay, hm)
    <2>. HIDE DEF a, b, c, zs, y
    <2>. QED
      BY <1>4, <1>8, JoinedWays
  <1>10. Continue(ys) /\ scope_index' = scope_index
         /\ UNCHANGED <<scopes, arrays, constants, loops, is_void>>
    BY DEF Compound, EmitStep, scope_index
  <1>11. Way(ys, a, g[2], scopes, lay, hm)
    BY <1>3, <1>9
  <1>12. Same(a, g[1])
    BY <1>5
  <1>. HIDE DEF ys, a
  <1>. QED
    BY <1>1, <1>3, <1>5, <1>10, <1>11, <1>12, QuietWay

LEMMA CompoundExpressionOK ==
  ASSUME Prepared, Known, CompoundExpression
  PROVE  Known'
  <1>1. \A op \in InfixOps : op \in Plain /\ ArgsOK(op, <<>>) /\ Takes(op, <<>>) = 2 /\ Leaves(op) = 1
    BY OpsExist DEF InfixOps, Plain, Jumps, Leavers, ArgsOK, Widths, Takes, Leaves
  <1>2. \A op \in PrefixOps : op \in Plain /\ ArgsOK(op, <<>>) /\ Takes(op, <<>>) = 1 /\ Leaves(op) = 1
    BY OpsExist DEF PrefixOps, Plain, Jumps, Leavers, ArgsOK, Widths, Takes, Leaves
  <1>3. /\ "INDEX" \in Plain /\ ArgsOK("INDEX", <<>>) /\ Takes("INDEX", <<>>) = 2
        /\ Leaves("INDEX") = 1
        /\ "REASSIGN_INDEX" \in Plain /\ ArgsOK("REASSIGN_INDEX", <<>>)
        /\ Takes("REASSIGN_INDEX", <<>>) = 3 /\ Leaves("REASSIGN_INDEX") = 1
    BY OpsExist DEF Plain, Jumps, Leavers, ArgsOK, Widths, Takes, Leaves
  <1>4. Suite.operators \subseteq InfixOps \cup PrefixOps /\ Suite.args \in Nat
    BY SuitesAssumption DEF Prepared, Suite
  <1>5. ASSUME NEW n \in 0..Suite.args
        PROVE  /\ "ARRAY" \in Plain /\ ArgsOK("ARRAY", <<n>>) /\ Takes("ARRAY", <<n>>) = n
               /\ Leaves("ARRAY") = 1
               /\ "CALL" \in Plain /\ ArgsOK("CALL", <<n>>) /\ Takes("CALL", <<n>>) = n + 1
               /\ Leaves("CALL") = 1
               /\ "HASH" \in Plain /\ ArgsOK("HASH", <<2 * n>>) /\ Takes("HASH", <<2 * n>>) = 2 * n
               /\ Leaves("HASH") = 1
    <2>1. n \in Nat /\ n <= 255 /\ 2 * n \in Nat
      BY <1>4 DEF Prepared
    <2>. QED
      BY <2>1, OpsExist DEF Plain, Jumps, Leavers, ArgsOK, Widths, Takes, Leaves
  <1>6. CASE \E op \in Suite.operators \ PrefixOps : Compound("infix", 2, op, <<>>)
    BY <1>1, <1>4, <1>6, CompoundOK
  <1>7. CASE \E op \in Suite.operators \cap PrefixOps : Compound("prefix", 1, op, <<>>)
    BY <1>2, <1>7, CompoundOK
  <1>8. CASE Compound("index", 2, "INDEX", <<>>)
    BY <1>3, <1>8, CompoundOK
  <1>9. CASE Compound("reassign_index", 3, "REASSIGN_INDEX", <<>>)
    BY <1>3, <1>9, CompoundOK
  <1>10. ASSUME NEW n \in 0..Suite.args, Compound("array", n, "ARRAY", <<n>>)
         PROVE  Known'
    <2>1. n \in Nat
      OBVIOUS
    <2>. QED
      BY <2>1, <1>5, <1>10, CompoundOK
  <1>11. ASSUME NEW n \in 0..Suite.args, Compound("call", n + 1, "CALL", <<n>>)
         PROVE  Known'
    <2>1. n + 1 \in Nat
      OBVIOUS
    <2>. QED
      BY <2>1, <1>5, <1>11, CompoundOK
  <1>12. ASSUME NEW n \in 0..Suite.args, Compound("hash", 2 * n, "HASH", <<HashElements(n)>>)
         PROVE  Known'
    <2>1. 2 * n \in Nat /\ HashElements(n) = 2 * n
      BY DEF HashElements
    <2>. QED
      BY <2>1, <1>5, <1>12, CompoundOK
  <1>13. ~May("duplicate_key")
    BY NoLiberties
  <1>. QED
    BY <1>6, <1>7, <1>8, <1>9, <1>10, <1>11, <1>12, <1>13 DEF CompoundExpression

(* The code that is being written.                                         *)
LEMMA Now ==
  ASSUME NEW g, NEW lay, NEW hm, Ctx(g, lay, hm), todo # <<>>
  PROVE  LET l == ViewOf(scope_index, scopes, lay)
         IN  /\ Laid(Current.code, l) /\ l.size = Len(Current.code) /\ l.size \in Nat
             /\ Current.code = arrays[scopes[scope_index].ins]
             /\ Current.last = scopes[scope_index].last
             /\ Current.prev = scopes[scope_index].prev
             /\ g[1].level = scope_index /\ g[1].loops = Len(loops) /\ g[1].void = is_void
             /\ g[1].depth = l.depth[l.size] /\ l.size \in DOMAIN l.depth
  <1>1. /\ LaysOK(arrays, lay) /\ ScopesOK(scope_index, scopes, arrays, lay)
        /\ NowOK(g[1], scopes[scope_index].last, ViewOf(scope_index, scopes, lay), todo, g,
                  scope_index, loops, is_void)
    BY Doing
  <1>2. /\ Current.code = arrays[scopes[scope_index].ins]
        /\ Current.last = scopes[scope_index].last
        /\ Current.prev = scopes[scope_index].prev
    BY DEF Current, At
  <1>3. Laid(Current.code, ViewOf(scope_index, scopes, lay))
    <2>1. scope_index \in 1..scope_index
      <3>1. scope_index \in 1..Len(scopes)
        BY <1>1 DEF ScopesOK
      <3>. QED
        BY <3>1
    <2>2. scopes[scope_index].ins \in 1..Len(arrays)
      BY <2>1, <1>1 DEF ScopesOK
    <2>. QED
      BY <2>2, <1>1, <1>2 DEF LaysOK, ViewOf
  <1>4. /\ ViewOf(scope_index, scopes, lay).size = Len(Current.code)
        /\ ViewOf(scope_index, scopes, lay).size \in Nat
    BY <1>3, LaidFacts
  <1>5. ViewOf(scope_index, scopes, lay).size \in DOMAIN ViewOf(scope_index, scopes, lay).depth
    BY <1>3 DEF Laid
  <1>. QED
    BY <1>1, <1>2, <1>3, <1>4, <1>5 DEF NowOK

LEMMA ReassignmentOK ==
  ASSUME Prepared, Known, TablesOK(tables), NEW name \in Names, Reassignment(name), result' = "OK"
  PROVE  Known'
  <1>1. PICK g, lay, hm : Ctx(g, lay, hm)
    BY DEF Known
  <1>2. Running("expression") /\ Head(todo).kind = "value"
    BY DEF Reassignment, NewExpression
  <1> DEFINE s == g[1]
             it == todo[1]
             symbol == ST!symbol_resolve(tables, name)
             x == Expression(Here, "value")
             y == [do |-> "assign", symbol |-> symbol]
             b == Moved(s, s.depth + 1, 0)
             ys == <<x, y>>
  <1>3. /\ todo # <<>> /\ Head(todo) = todo[1] /\ s \in State /\ s.depth \in Nat
        /\ PlaceOK(it.place, s, scopes, lay, hm) /\ s.void = FALSE
        /\ g[2] = b /\ it.do \notin Patching
    BY <1>1, <1>2, InExpression
  <1>4. symbol # NULL
    BY DEF Reassignment, Fail
  <1>5. symbol.scope \in {"GLOBAL", "LOCAL", "FREE"} /\ symbol.index \in Nat
    <2>1. symbol \in ST!Symbol
      BY <1>4, ResolveTables
    <2>2. symbol.scope \in ST!Scopes /\ symbol.index \in Nat
      BY <2>1 DEF ST!Symbol
    <2>3. ~May("assign_to_function")
      BY NoLiberties
    <2>4. symbol.scope \notin {"FUNCTION", "BUILTIN"}
      BY <2>3, <1>4 DEF Reassignment
    <2>. QED
      BY <2>2, <2>4 DEF ST!Scopes
  <1>6. /\ x.do = "expression" /\ x.place = it.place /\ x.kind = "value" /\ x.name = NULL
        /\ y.do = "assign" /\ y.symbol = symbol
    BY <1>3 DEF Expression, Here
  <1>7. /\ b \in State /\ b.level = s.level /\ b.loops = s.loops /\ b.update = s.update
        /\ b.depth = s.depth + 1 /\ b.void = FALSE /\ b.depth >= 1
    BY <1>3 DEF Moved, St, State
  <1>8. /\ Continue(ys) /\ scope_index' = scope_index
        /\ UNCHANGED <<scopes, arrays, constants, loops, is_void>>
    <2>1. Len(ST!TablesAfterResolve(tables, name)) = Len(tables)
      BY ResolveTables
    <2>. QED
      BY <2>1, <1>4 DEF Reassignment, scope_index
  <1>. HIDE DEF s, it, x, y, symbol
  <1>9. Joined(x, s, b, scopes, lay, hm)
    BY <1>3, <1>6 DEF Joined, ExpressionOK, Moved
  <1>10. Joined(y, b, b, scopes, lay, hm)
    <2>1. b = St(b.level, b.loops, b.depth, FALSE, b.update, 0)
      BY <1>7 DEF Moved
    <2>. HIDE DEF b
    <2>. QED
      BY <2>1, <1>5, <1>6, <1>7 DEF Joined, AssignOK
  <1>11. Way(ys, s, b, scopes, lay, hm) /\ Markless(ys)
    <2>. HIDE DEF b
    <2>1. Under(s, b) /\ Under(b, b)
      BY <1>3, <1>7, UnderSame
    <2>2. x.do \notin {"body", "end_loop"} /\ y.do \notin {"body", "end_loop"}
      BY <1>6
    <2>. QED
      BY <2>1, <2>2, <1>3, <1>7, <1>9, <1>10, WayTwo, Few
  <1>12. Way(ys, s, g[2], scopes, lay, hm)
    BY <1>3, <1>11
  <1>. HIDE DEF ys
  <1>. QED
    BY <1>1, <1>3, <1>8, <1>11, <1>12, QuietWay, SameSelf DEF s, it

LEMMA IfExpressionOK ==
  ASSUME Known, NEW hasElse, IfExpression(hasElse)
  PROVE  Known'
  <1>1. PICK g, lay, hm : Ctx(g, lay, hm)
    BY DEF Known
  <1>2. Running("expression") /\ Head(todo).kind = "value"
    BY DEF IfExpression, NewExpression
  <1> DEFINE s == g[1]
             it == todo[1]
             x == Expression(Here, "value")
             y == [do |-> "consequence", place |-> Here, hasElse |-> hasElse]
             b == Moved(s, s.depth + 1, 0)
             ys == <<x, y>>
  <1>3. /\ todo # <<>> /\ Head(todo) = todo[1] /\ s \in State /\ s.depth \in Nat
        /\ PlaceOK(it.place, s, scopes, lay, hm) /\ s.void = FALSE
        /\ g[2] = b /\ it.do \notin Patching
    BY <1>1, <1>2, InExpression
  <1>6. /\ x.do = "expression" /\ x.place = it.place /\ x.kind = "value" /\ x.name = NULL
        /\ y.do = "consequence" /\ y.place = it.place
    BY <1>3 DEF Expression, Here
  <1>7. /\ b \in State /\ b.level = s.level /\ b.loops = s.loops /\ b.update = s.update
        /\ b.depth = s.depth + 1 /\ b.void = FALSE /\ b.depth >= 1
    BY <1>3 DEF Moved, St, State
  <1>8. /\ Continue(ys) /\ scope_index' = scope_index
        /\ UNCHANGED <<scopes, arrays, constants, loops, is_void>>
    BY DEF IfExpression, scope_index
  <1>. HIDE DEF s, it, x, y
  <1>9. Joined(x, s, b, scopes, lay, hm)
    BY <1>3, <1>6 DEF Joined, ExpressionOK, Moved
  <1>10. Joined(y, b, b, scopes, lay, hm)
    <2>1. b = St(b.level, b.loops, b.depth, FALSE, b.update, 0)
      BY <1>7 DEF Moved
    <2>. HIDE DEF b
    <2>2. PlaceOK(y.place, b, scopes, lay, hm)
      BY <1>3, <1>6, <1>7, MovedPlace
    <2>. QED
      BY <2>1, <2>2, <1>6, <1>7 DEF Joined, ConsequenceOK
  <1>11. Way(ys, s, b, scopes, lay, hm) /\ Markless(ys)
    <2>. HIDE DEF b
    <2>1. Under(s, b) /\ Under(b, b)
      BY <1>3, <1>7, UnderSame
    <2>2. x.do \notin {"body", "end_loop"} /\ y.do \notin {"body", "end_loop"}
      BY <1>6
    <2>. QED
      BY <2>1, <2>2, <1>3, <1>7, <1>9, <1>10, WayTwo, Few
  <1>12. Way(ys, s, g[2], scopes, lay, hm)
    BY <1>3, <1>11
  <1>. HIDE DEF ys
  <1>. QED
    BY <1>1, <1>3, <1>8, <1>11, <1>12, QuietWay, SameSelf DEF s, it

(* A place where a break would leave another loop.                         *)
LEMMA Elsewhere ==
  ASSUME NEW place, NEW s, NEW u, NEW ss, NEW lay, NEW hm, PlaceOK(place, s, ss, lay, hm),
         u.level = s.level, ~u.update,
         NEW other, other \in Places, ~other.loop, other.function = place.function
  PROVE  PlaceOK(other, u, ss, lay, hm)
  BY DEF PlaceOK, Places

LEMMA ConditionActionOK ==
  ASSUME Known, Condition
  PROVE  Known'
  <1>1. PICK g, lay, hm : Ctx(g, lay, hm)
    BY DEF Known
  <1>2. Running("condition")
    BY DEF Condition
  <1> DEFINE s == g[1]
             u == g[2]
             it == todo[1]
             x == Expression([Here EXCEPT !.loop = FALSE], "value")
             y == [do |-> "body", place |-> Here, hasUpdate |-> Head(todo).hasUpdate,
                   before |-> Len(Current.code)]
             a == Moved(s, s.depth, 0)
             b == Moved(s, s.depth + 1, 0)
             ys == <<x, y>>
  <1>3. /\ todo # <<>> /\ Head(todo) = todo[1] /\ s \in State /\ u \in State /\ s.depth \in Nat
        /\ it.do = "condition" /\ Joined(it, s, u, scopes, lay, hm)
    BY <1>1, <1>2, Begin
  <1>4. ConditionOK(it, s, u, scopes, lay, hm) /\ it.do \notin Patching
    BY <1>3 DEF Joined, Patching
  <1>5. /\ PlaceOK(it.place, u, scopes, lay, hm)
        /\ s.void = FALSE /\ s.update = FALSE
        /\ Waits(s.loops, hm)
        /\ u = St(s.level, s.loops - 1, s.depth, TRUE, FALSE, 1)
    BY <1>4 DEF ConditionOK
  <1>6. /\ x.do = "expression" /\ x.place = [it.place EXCEPT !.loop = FALSE]
        /\ x.kind = "value" /\ x.name = NULL
        /\ y.do = "body" /\ y.place = it.place /\ y.before = Len(Current.code)
    BY <1>3 DEF Expression, Here
  <1>7. /\ a \in State /\ a.level = s.level /\ a.loops = s.loops /\ a.update = s.update
        /\ a.depth = s.depth /\ a.void = FALSE /\ a.end = 0 /\ Same(a, s)
    BY <1>3, <1>5, Forgotten
  <1>8. /\ b \in State /\ b.level = s.level /\ b.loops = s.loops /\ b.update = s.update
        /\ b.depth = s.depth + 1 /\ b.void = FALSE /\ b.depth >= 1 /\ b.depth - 1 = s.depth
    BY <1>3 DEF Moved, St, State
  <1>9. /\ u.level = s.level /\ u.loops = s.loops - 1 /\ u.update = FALSE
        /\ s.loops \in Nat /\ s.level \in Nat
    BY <1>3, <1>5 DEF St, State
  <1>10. PlaceAt(ViewOf(s.level, scopes, lay), y.before, s.depth)
    <2>1. /\ s.level = scope_index
          /\ y.before = ViewOf(scope_index, scopes, lay).size
          /\ s.depth = ViewOf(scope_index, scopes, lay).depth[ViewOf(scope_index, scopes, lay).size]
          /\ ViewOf(scope_index, scopes, lay).size \in DOMAIN ViewOf(scope_index, scopes, lay).depth
      BY <1>1, <1>3, <1>6, Now
    <2>. QED
      BY <2>1 DEF PlaceAt
  <1>11. /\ Continue(ys) /\ scope_index' = scope_index
         /\ UNCHANGED <<scopes, arrays, constants, loops, is_void>>
    BY DEF Condition, scope_index
  <1>. HIDE DEF s, u, it, x, y
  <1>12. Joined(x, a, b, scopes, lay, hm)
    <2>1. PlaceOK(x.place, a, scopes, lay, hm)
      <3>. HIDE DEF a
      <3>1. a.level = u.level /\ ~a.update
        BY <1>5, <1>7, <1>9
      <3>2. x.place \in Places /\ ~x.place.loop /\ x.place.function = it.place.function
        BY <1>5, <1>6 DEF PlaceOK, Places
      <3>. QED
        BY <3>1, <3>2, <1>5, Elsewhere
    <2>2. b = St(a.level, a.loops, a.depth + 1, FALSE, a.update, 0)
      BY <1>7 DEF Moved
    <2>. HIDE DEF a, b
    <2>. QED
      BY <2>1, <2>2, <1>6, <1>7 DEF Joined, ExpressionOK
  <1>13. Joined(y, b, u, scopes, lay, hm)
    <2>1. u = St(b.level, b.loops - 1, b.depth - 1, TRUE, FALSE, 1)
      BY <1>5, <1>8
    <2>2. PlaceAt(ViewOf(b.level, scopes, lay), y.before, b.depth - 1)
      BY <1>8, <1>10
    <2>3. b.update = FALSE /\ Waits(b.loops, hm)
      BY <1>5, <1>8
    <2>. HIDE DEF b
    <2>. QED
      BY <2>1, <2>2, <2>3, <1>5, <1>6, <1>8 DEF Joined, BodyOK
  <1>14. Way(ys, a, u, scopes, lay, hm)
    <2>. HIDE DEF a, b
    <2>1. Under(a, b)
      BY <1>7, <1>8, UnderSame
    <2>2. Under(b, u)
      BY <1>8, <1>9 DEF Under
    <2>. QED
      BY <2>1, <2>2, <1>3, <1>7, <1>8, <1>12, <1>13, WayTwo
  <1>15. Way(ys, a, g[2], scopes, lay, hm) /\ Same(a, g[1]) /\ todo[1].do \notin Patching
    BY <1>4, <1>7, <1>14 DEF u, s, it
  <1>. HIDE DEF ys, a
  <1>. QED
    BY <1>1, <1>3, <1>7, <1>11, <1>15, QuietWay

----------------------------------------------------------------------------
(* Actions that write to the code of the innermost scope *)

(* The layouts when the code of the innermost scope is laid out as l2.     *)
Redrawn(lay, l2) == [lay EXCEPT ![scopes[scope_index].ins] = l2]

LEMMA WriteOn ==
  ASSUME NEW g, NEW lay, NEW hm, Ctx(g, lay, hm), todo # <<>>,
         NEW e, e.last \in Mark, e.prev \in Mark, NEW l2, Laid(e.code, l2)
  PROVE  /\ Rewritten(scope_index, l2, scopes, arrays, lay, ScopesWith(scope_index, e),
                      ArraysWith(scope_index, e), Redrawn(lay, l2))
         /\ ScopesWith(scope_index, e)[scope_index].last = e.last
  <1> DEFINE n == scope_index
             ins == scopes[n].ins
             ss2 == ScopesWith(n, e)
             ar2 == ArraysWith(n, e)
             lay2 == Redrawn(lay, l2)
  <1>1. LaysOK(arrays, lay) /\ ScopesOK(n, scopes, arrays, lay)
    BY Doing
  <1>2. /\ scopes \in Seq(Slot) /\ n \in 1..Len(scopes) /\ ins \in 1..Len(arrays)
        /\ IsSeq(arrays) /\ DOMAIN lay = 1..Len(arrays)
    <2>1. n \in 1..n
      <3>1. n \in 1..Len(scopes)
        BY <1>1 DEF ScopesOK
      <3>. HIDE DEF n
      <3>. QED
        BY <3>1
    <2>. QED
      BY <1>1, <2>1 DEF ScopesOK, LaysOK
  <1>. HIDE DEF n
  <1>4. PICK S : arrays \in Seq(S)
    BY <1>2 DEF IsSeq
  <1>5. ar2 = [arrays EXCEPT ![ins] = e.code]
    BY DEF ArraysWith
  <1>6. /\ ar2 \in Seq(S \cup {e.code}) /\ Len(ar2) = Len(arrays)
        /\ ar2[ins] = e.code
        /\ \A c \in 1..Len(arrays) : c # ins => ar2[c] = arrays[c]
    <2>1. arrays \in Seq(S \cup {e.code}) /\ e.code \in S \cup {e.code}
      BY <1>4, SeqMonotonic
    <2>. HIDE DEF ins, ar2
    <2>. QED
      BY <2>1, <1>2, <1>5, ExceptSeq
  <1>7. /\ ss2 \in Seq(Slot) /\ Len(ss2) = Len(scopes)
        /\ \A level \in 1..Len(scopes) : ss2[level].ins = scopes[level].ins
        /\ ss2[n].last = e.last
    <2> DEFINE slot == [scopes[n] EXCEPT !.last = e.last, !.prev = e.prev]
    <2>1. ss2 = [scopes EXCEPT ![n] = slot]
      <3>1. ss2 = [scopes EXCEPT ![n].last = e.last, ![n].prev = e.prev]
        BY DEF ScopesWith
      <3>2. DOMAIN scopes = 1..Len(scopes)
        BY <1>2, LenProperties
      <3>. HIDE DEF ss2
      <3>. QED
        BY <3>1, <3>2, <1>2
    <2>2. scopes[n] \in Slot
      BY <1>2, ElementOfSeq
    <2>3. slot \in Slot /\ slot.ins = scopes[n].ins /\ slot.last = e.last
      BY <2>2 DEF Slot
    <2>. HIDE DEF slot, ss2
    <2>4. /\ ss2 \in Seq(Slot) /\ Len(ss2) = Len(scopes)
          /\ ss2[n] = slot
          /\ \A level \in 1..Len(scopes) : level # n => ss2[level] = scopes[level]
      BY <2>1, <2>3, <1>2, ExceptSeq
    <2>. QED
      BY <2>3, <2>4
  <1>8. /\ DOMAIN lay2 = DOMAIN lay
        /\ \A c \in DOMAIN lay : c # ins => lay2[c] = lay[c]
        /\ lay2[ins] = l2
    BY <1>2 DEF Redrawn, n
  <1>9. IsSeq(ar2)
    BY <1>6 DEF IsSeq
  <1>. HIDE DEF ss2, ar2, lay2
  <1>10. Laid(ar2[scopes[n].ins], l2)
    BY <1>6
  <1>11. Rewritten(n, l2, scopes, arrays, lay, ss2, ar2, lay2)
    BY <1>6, <1>7, <1>8, <1>9, <1>10 DEF Rewritten, ins
  <1>. QED
    BY <1>7, <1>11 DEF lay2, n, ss2, ar2

LEMMA WriteDoes ==
  ASSUME NEW g, NEW lay, NEW hm, Ctx(g, lay, hm), todo # <<>>,
         NEW e, e.last \in Mark, e.prev \in Mark, NEW l2, Laid(e.code, l2), Write(e)
  PROVE  /\ Rewritten(scope_index, l2, scopes, arrays, lay, scopes', arrays', Redrawn(lay, l2))
         /\ scopes'[scope_index].last = e.last
  <1>1. /\ scopes' = ScopesWith(scope_index, e) /\ arrays' = ArraysWith(scope_index, e)
    BY DEF Write
  <1>. QED
    BY <1>1, WriteOn

(* What a step has to show of the code e it writes.                        *)
Turning(g, lay, hm, e, l2, m, ys, h) ==
  /\ Ctx(g, lay, hm) /\ todo # <<>>
  /\ e.last \in Mark /\ e.prev \in Mark /\ Laid(e.code, l2)
  /\ Keeps(ViewOf(scope_index, scopes, lay), l2, m) /\ RestMarked(m, todo, g, scope_index)
  /\ h[1].level = scope_index /\ h[1].depth = l2.depth[l2.size]
  /\ EndsIn(h[1], e.last, l2, todo, g, ys, h, scope_index)
  /\ StillOpen(l2.open, ViewOf(scope_index, scopes, lay), todo, g, ys, h, scope_index)
  /\ todo[1].do \in Patching => g[2].level = scope_index

LEMMA WriteKeeps ==
  ASSUME NEW g, NEW lay, NEW hm, NEW e, NEW l2, NEW m, NEW ys, NEW h,
         Turning(g, lay, hm, e, l2, m, ys, h), Write(e)
  PROVE  /\ PoolOK(constants, scope_index, scopes', Redrawn(lay, l2))
         /\ HomesOK(loops, hm, Redrawn(lay, l2))
         /\ \A place, s : s.level = scope_index /\ PlaceOK(place, s, scopes, lay, hm)
                            => PlaceOK(place, s, scopes', Redrawn(lay, l2), hm)
         /\ ViewOf(scope_index, scopes', Redrawn(lay, l2)) = l2
         /\ l2.kind = ViewOf(scope_index, scopes, lay).kind
         /\ scopes'[scope_index].ins = scopes[scope_index].ins
  <1> DEFINE n == scope_index
             lay2 == Redrawn(lay, l2)
             ss2 == scopes'
             ar2 == arrays'
  <1>1. /\ Ctx(g, lay, hm) /\ todo # <<>> /\ e.last \in Mark /\ e.prev \in Mark
        /\ Laid(e.code, l2) /\ Keeps(ViewOf(n, scopes, lay), l2, m)
    BY DEF Turning
  <1>2. /\ LaysOK(arrays, lay) /\ ScopesOK(n, scopes, arrays, lay)
        /\ PoolOK(constants, n, scopes, lay) /\ HomesOK(loops, hm, lay)
    BY <1>1, Doing
  <1>3. Rewritten(n, l2, scopes, arrays, lay, ss2, ar2, lay2)
    BY <1>1, WriteDoes
  <1>. HIDE DEF n, lay2, ss2, ar2
  <1>4. /\ SlotsStay(scopes, lay, ss2, lay2) /\ ViewOf(n, ss2, lay2) = l2
    BY <1>1, <1>2, <1>3, RewrittenOK
  <1>5. PoolOK(constants, n, ss2, lay2)
    BY <1>1, <1>2, <1>3, PoolStays
  <1>6. HomesOK(loops, hm, lay2)
    BY <1>2, <1>4, HomesStay
  <1>7. ss2[n].ins = scopes[n].ins /\ l2.kind = ViewOf(n, scopes, lay).kind
    BY <1>1, <1>2, <1>3 DEF Rewritten, ScopesOK, Keeps
  <1>8. \A place, s : s.level = n /\ PlaceOK(place, s, scopes, lay, hm)
                            => PlaceOK(place, s, ss2, lay2, hm)
    BY <1>4, <1>7 DEF PlaceOK
  <1>. QED
    BY <1>4, <1>5, <1>6, <1>7, <1>8 DEF n, lay2, ss2

LEMMA Writing ==
  ASSUME NEW g, NEW lay, NEW hm, NEW e, NEW l2, NEW m, NEW ys, NEW h,
         Turning(g, lay, hm, e, l2, m, ys, h), Write(e), Continue(ys), scope_index' = scope_index,
         Path(ys, h, h[1], g[2], scopes', Redrawn(lay, l2), hm),
         h[1].loops = Len(loops'), h[1].void = is_void',
         PoolOK(constants', scope_index, scopes', Redrawn(lay, l2)),
         HomesOK(loops', hm, Redrawn(lay, l2))
  PROVE  Known'
  <1> DEFINE n == scope_index
             lay2 == Redrawn(lay, l2)
             ss2 == scopes'
             ar2 == arrays'
             cs2 == constants'
             ls2 == loops'
             v2 == is_void'
  <1>1. /\ Ctx(g, lay, hm) /\ todo # <<>> /\ e.last \in Mark /\ e.prev \in Mark
        /\ Laid(e.code, l2) /\ Keeps(ViewOf(n, scopes, lay), l2, m) /\ RestMarked(m, todo, g, n)
        /\ h[1].level = n /\ h[1].depth = l2.depth[l2.size]
        /\ EndsIn(h[1], e.last, l2, todo, g, ys, h, n)
        /\ StillOpen(l2.open, ViewOf(n, scopes, lay), todo, g, ys, h, n)
        /\ todo[1].do \in Patching => g[2].level = n
    BY DEF Turning
  <1>2. Core(todo, g, scopes, arrays, lay, constants, loops, hm, n, is_void)
    BY <1>1 DEF Ctx
  <1>3. Rewritten(n, l2, scopes, arrays, lay, ss2, ar2, lay2) /\ ss2[n].last = e.last
    BY <1>1, WriteDoes
  <1>4. IsSeq(todo) /\ g \in Seq(State) /\ Len(g) = Len(todo) + 1
    BY <1>1, Doing
  <1>5. Replaces(todo, g, ys, h) /\ Mono(h) /\ AllJoined(ys, h, ss2, lay2, hm)
    BY <1>1, <1>4 DEF Replaces, Path
  <1>6. /\ PoolOK(cs2, n, ss2, lay2) /\ HomesOK(ls2, hm, lay2)
        /\ h[1].loops = Len(ls2) /\ h[1].void = v2
    OBVIOUS
  <1>7. EndsIn(h[1], ss2[n].last, l2, todo, g, ys, h, n)
    BY <1>1, <1>3
  <1>8. Core(ys \o Tail(todo), Follows(h, g), ss2, ar2, lay2, cs2, ls2, hm, n, v2)
    <2>. HIDE DEF n, lay2, ss2, ar2, cs2, ls2, v2
    <2>1. Advances(todo, g, scopes, arrays, lay, constants, loops, hm, n, is_void, ys, h, l2, m,
                   ss2, ar2, lay2, cs2, ls2, v2)
      BY <1>1, <1>2, <1>3, <1>5, <1>6, <1>7 DEF Advances
    <2>. QED
      BY <2>1, Advance
  <1>9. scope_index' = n
    OBVIOUS
  <1>10. Core(todo', Follows(h, g), scopes', arrays', lay2, constants', loops', hm, scope_index', is_void')
    BY <1>8, <1>9 DEF Continue
  <1>. HIDE DEF lay2
  <1>11. \E g2, l3, h2 : Core(todo', g2, scopes', arrays', l3, constants', loops', h2, scope_index', is_void')
    BY <1>10
  <1>. QED
    BY <1>11 DEF Known, Ctx, scope_index

(* l2 is l with more code at the end.                                      *)
Grows(l, l2) ==
  /\ l2.kind = l.kind
  /\ \A p \in DOMAIN l.at : p \in DOMAIN l2.at /\ l2.at[p] = l.at[p]
  /\ \A p \in DOMAIN l.depth : p \in DOMAIN l2.depth /\ l2.depth[p] = l.depth[p]
  /\ l.size <= l2.size

LEMMA GrowsKeeps ==
  ASSUME NEW l, NEW l2, NEW m, NEW code, Laid(code, l), Grows(l, l2)
  PROVE  Keeps(l, l2, m)
  BY DEF Keeps, Grows, Laid

LEMMA GrowsOn ==
  ASSUME NEW l, NEW l2, NEW l3, Grows(l, l2), Grows(l2, l3),
         l.size \in Nat, l2.size \in Nat, l3.size \in Nat
  PROVE  Grows(l, l3)
  BY DEF Grows

(* e is code laid out as l with one more instruction, l2 its layout.       *)
Adds(e, l2, l, op, d) ==
  /\ Laid(e.code, l2) /\ Grows(l, l2)
  /\ e.last \in Mark /\ e.prev \in Mark
  /\ e.last.op = op /\ e.last.pos = l.size /\ Fresh(e.last, l2)
  /\ l2.depth[l2.size] = d
  /\ l2.open = l.open \cup (IF op \in Jumps THEN {l.size} ELSE {})
  /\ l.size \in DOMAIN l2.at /\ l2.at[l.size].op = op /\ l2.depth[l.size] = l.depth[l.size]

(* An instruction whose values are on the stack.                           *)
Fits(l, op, args, d) ==
  /\ op \in OpSet /\ ArgsOK(op, args) /\ d \in Nat
  /\ MayLeave(l.kind, op)
  /\ l.depth[l.size] >= Takes(op, args)
  /\ Falls(op) => d = l.depth[l.size] - Takes(op, args) + Leaves(op)

LEMMA EmitOn ==
  ASSUME NEW e, NEW l, Laid(e.code, l), e.last \in Mark,
         NEW op, NEW args, NEW d, Fits(l, op, args, d)
  PROVE  \E l2 : Adds(Emit(e, op, args), l2, l, op, d)
  <1> DEFINE f == Emit(e, op, args)
  <1>1. /\ op \in OpSet /\ ArgsOK(op, args) /\ d \in Nat
        /\ MayLeave(l.kind, op)
        /\ l.depth[l.size] >= Takes(op, args)
        /\ Falls(op) => d = l.depth[l.size] - Takes(op, args) + Leaves(op)
    BY DEF Fits
  <1>2. PICK open \in BOOLEAN : open <=> op \in Jumps
    OBVIOUS
  <1>3. PICK l2 : /\ Laid(e.code \o make_instruction(op, args), l2)
                  /\ Emitted(l, l2, op, args, d, open)
                  /\ NoTarget(l2)
    <2>1. /\ open => op \in Jumps
          /\ op \in Jumps /\ ~open =>
               args[1] \in DOMAIN l.depth /\ l.depth[args[1]] = l.depth[l.size] - Takes(op, args)
      BY <1>2
    <2>. QED
      BY <1>1, <2>1, EmitLaid
  <1>4. /\ f.code = e.code \o make_instruction(op, args)
        /\ f.last = [op |-> op, pos |-> Len(e.code)] /\ f.prev = e.last
    BY DEF Emit
  <1>5. l.size \in Nat /\ l.size = Len(e.code) /\ l.size \in DOMAIN l.depth
    BY LaidFacts DEF Laid
  <1>6. /\ f.last \in Mark /\ f.prev \in Mark /\ f.last.op = op /\ f.last.pos = l.size
    BY <1>1, <1>4, <1>5 DEF Mark
  <1>7. /\ l.size \in DOMAIN l2.at /\ l2.at[l.size].op = op /\ l2.depth[l.size] = l.depth[l.size]
        /\ l2.size = l.size + InstructionLength(op) /\ l2.depth[l2.size] = d
        /\ l2.open = l.open \cup (IF op \in Jumps THEN {l.size} ELSE {})
    BY <1>2, <1>3, <1>5 DEF Emitted
  <1>8. Fresh(f.last, l2)
    BY <1>3, <1>6, <1>7 DEF Fresh, Final, IsLast, Size
  <1>9. Grows(l, l2)
    <2>1. l.size <= l2.size
      BY <1>1, <1>5, <1>7, Made
    <2>. QED
      BY <2>1, <1>3 DEF Grows, Emitted
  <1>10. Laid(f.code, l2)
    BY <1>3, <1>4
  <1>. HIDE DEF f
  <1>11. Adds(f, l2, l, op, d)
    BY <1>6, <1>7, <1>8, <1>9, <1>10 DEF Adds
  <1>. QED
    BY <1>11 DEF f

(* More code at the end, and no jump among it.                             *)
Adding(g, lay, hm, e, l2) ==
  /\ Ctx(g, lay, hm) /\ todo # <<>> /\ todo[1].do \notin Patching
  /\ e.last \in Mark /\ e.prev \in Mark /\ Laid(e.code, l2)
  /\ Grows(ViewOf(scope_index, scopes, lay), l2)
  /\ l2.open = ViewOf(scope_index, scopes, lay).open
  /\ Fresh(e.last, l2) /\ e.last.pos >= ViewOf(scope_index, scopes, lay).size

(* Where the walk goes on.                                                 *)
GoesOn(a, e, l2) ==
  /\ a.level = scope_index /\ a.depth = l2.depth[l2.size]
  /\ a.end = 2 => e.last.op \in Ending

LEMMA AddingTurns ==
  ASSUME NEW g, NEW lay, NEW hm, NEW e, NEW l2, Adding(g, lay, hm, e, l2),
         NEW ys, NEW h, Markless(ys), GoesOn(h[1], e, l2)
  PROVE  Turning(g, lay, hm, e, l2, ViewOf(scope_index, scopes, lay).size, ys, h)
  <1> DEFINE n == scope_index
             l == ViewOf(n, scopes, lay)
  <1>1. /\ Ctx(g, lay, hm) /\ todo # <<>> /\ todo[1].do \notin Patching
        /\ e.last \in Mark /\ e.prev \in Mark /\ Laid(e.code, l2)
        /\ Grows(l, l2) /\ l2.open = l.open
        /\ Fresh(e.last, l2) /\ e.last.pos >= l.size
    BY DEF Adding
  <1>2. Laid(Current.code, l) /\ l.size \in Nat
    BY <1>1, Now
  <1>3. Core(todo, g, scopes, arrays, lay, constants, loops, hm, n, is_void)
    BY <1>1 DEF Ctx
  <1>4. Marked(l.size, todo, g, n)
    BY <1>3, MarksWithin
  <1>5. Chain(todo, g, scopes, lay, hm) /\ Len(todo) \in Nat
    BY <1>1, Doing DEF Ctx, Core
  <1>. HIDE DEF n, l
  <1>6. \A i \in 2..Len(todo) : i \in 1..Len(todo)
    BY <1>5
  <1>7. RestMarked(l.size, todo, g, n)
    BY <1>4, <1>6 DEF Marked, RestMarked
  <1>8. RestMarked(e.last.pos, todo, g, n)
    <2>1. ASSUME NEW i \in 2..Len(todo), todo[i].do \in {"body", "end_loop"}, g[i].level = n
          PROVE  todo[i].before <= e.last.pos
      <3>1. todo[i].before <= l.size
        BY <1>7, <2>1 DEF RestMarked
      <3>2. Joined(todo[i], g[i], g[i + 1], scopes, lay, hm)
        BY <1>5, <1>6 DEF Chain
      <3>3. todo[i].before \in DOMAIN l.depth
        BY <3>2, <2>1 DEF Joined, BodyOK, EndLoopOK, PlaceAt, l
      <3>4. todo[i].before \in Nat
        BY <3>3, <1>2, LaidFacts
      <3>5. e.last.pos \in Nat
        BY <1>1 DEF Mark
      <3>. QED
        BY <3>1, <3>4, <3>5, <1>1, <1>2
    <2>. QED
      BY <2>1 DEF RestMarked
  <1>9. Marked(e.last.pos, ys, h, n)
    BY DEF Marked, Markless
  <1>10. EndsIn(h[1], e.last, l2, todo, g, ys, h, n)
    BY <1>1, <1>8, <1>9 DEF EndsIn, GoesOn
  <1>11. StillOpen(l2.open, l, todo, g, ys, h, n)
    BY <1>1 DEF StillOpen
  <1>12. Keeps(l, l2, l.size)
    BY <1>1, <1>2, GrowsKeeps
  <1>. QED
    BY <1>1, <1>7, <1>10, <1>11, <1>12 DEF Turning, GoesOn, l, n

LEMMA EmitThen ==
  ASSUME NEW g, NEW lay, NEW hm, NEW e, NEW l2, Adding(g, lay, hm, e, l2),
         NEW ys, NEW a, Markless(ys), GoesOn(a, e, l2),
         Write(e), Continue(ys), scope_index' = scope_index,
         Way(ys, a, g[2], scopes', Redrawn(lay, l2), hm),
         a.loops = Len(loops'), a.void = is_void',
         PoolOK(constants', scope_index, scopes', Redrawn(lay, l2)),
         HomesOK(loops', hm, Redrawn(lay, l2))
  PROVE  Known'
  <1>1. PICK h : Path(ys, h, a, g[2], scopes', Redrawn(lay, l2), hm)
    BY DEF Way
  <1>2. h[1] = a
    BY <1>1 DEF Path
  <1>3. Turning(g, lay, hm, e, l2, ViewOf(scope_index, scopes, lay).size, ys, h)
    BY <1>2, AddingTurns
  <1>4. Path(ys, h, h[1], g[2], scopes', Redrawn(lay, l2), hm)
    BY <1>1, <1>2
  <1>. QED
    BY <1>2, <1>3, <1>4, Writing

(* Pool and loops as they were.                                            *)
LEMMA AddingKeeps ==
  ASSUME NEW g, NEW lay, NEW hm, NEW e, NEW l2, Adding(g, lay, hm, e, l2), Write(e)
  PROVE  /\ PoolOK(constants, scope_index, scopes', Redrawn(lay, l2))
         /\ HomesOK(loops, hm, Redrawn(lay, l2))
         /\ \A place, s : s.level = scope_index /\ PlaceOK(place, s, scopes, lay, hm)
                            => PlaceOK(place, s, scopes', Redrawn(lay, l2), hm)
         /\ ViewOf(scope_index, scopes', Redrawn(lay, l2)) = l2
         /\ l2.kind = ViewOf(scope_index, scopes, lay).kind
         /\ scopes'[scope_index].ins = scopes[scope_index].ins
  <1> DEFINE s == St(scope_index, 0, l2.depth[l2.size], FALSE, FALSE, 0)
             h == <<s>>
  <1>1. GoesOn(s, e, l2)
    BY DEF GoesOn, St
  <1>2. h[1] = s
    OBVIOUS
  <1>3. Markless(<<>>)
    BY DEF Markless
  <1>. HIDE DEF s, h
  <1>4. Turning(g, lay, hm, e, l2, ViewOf(scope_index, scopes, lay).size, <<>>, h)
    BY <1>1, <1>2, <1>3, AddingTurns
  <1>. QED
    BY <1>4, WriteKeeps

(* The code is all there was to do.                                        *)
LEMMA EmitOnly ==
  ASSUME NEW g, NEW lay, NEW hm, NEW e, NEW l2, Adding(g, lay, hm, e, l2),
         GoesOn(g[2], e, l2), g[2].loops = g[1].loops, g[2].void = is_void',
         Write(e), Continue(<<>>), scope_index' = scope_index, UNCHANGED loops,
         \/ UNCHANGED constants
         \/ \E c : c.kind = "value" /\ constants' = Append(constants, c)
  PROVE  Known'
  <1>1. /\ PoolOK(constants, scope_index, scopes', Redrawn(lay, l2))
        /\ HomesOK(loops, hm, Redrawn(lay, l2))
    BY AddingKeeps
  <1>2. Ctx(g, lay, hm) /\ todo # <<>>
    BY DEF Adding
  <1>3. g[2] \in State /\ g[2].loops = Len(loops)
    BY <1>2, Now, Doing
  <1>4. PoolOK(constants', scope_index, scopes', Redrawn(lay, l2))
    <2>1. CASE UNCHANGED constants
      BY <2>1, <1>1
    <2>2. CASE \E c : c.kind = "value" /\ constants' = Append(constants, c)
      BY <2>2, <1>1, PoolGrows
    <2>. QED
      BY <2>1, <2>2
  <1>5. Way(<<>>, g[2], g[2], scopes', Redrawn(lay, l2), hm)
    BY <1>3, PathNone DEF Way
  <1>6. Markless(<<>>)
    BY DEF Markless
  <1>7. g[2].loops = Len(loops') /\ HomesOK(loops', hm, Redrawn(lay, l2))
    BY <1>1, <1>3
  <1>. QED
    BY <1>4, <1>5, <1>6, <1>7, EmitThen

(* One instruction more, in the innermost scope.                           *)
LEMMA EmitHere ==
  ASSUME NEW g, NEW lay, NEW hm, Ctx(g, lay, hm), todo # <<>>, todo[1].do \notin Patching,
         NEW op, NEW args, NEW d, op \notin Jumps,
         Fits(ViewOf(scope_index, scopes, lay), op, args, d)
  PROVE  \E l2 : /\ Adding(g, lay, hm, Emit(Current, op, args), l2)
                 /\ Adds(Emit(Current, op, args), l2, ViewOf(scope_index, scopes, lay), op, d)
  <1> DEFINE l == ViewOf(scope_index, scopes, lay)
             e == Emit(Current, op, args)
  <1>1. Laid(Current.code, l) /\ l.size \in Nat
    BY Now
  <1>2. Current.last \in Mark
    <2>1. ScopesOK(scope_index, scopes, arrays, lay) /\ Current.last = scopes[scope_index].last
      BY Doing, Now
    <2>2. scopes[scope_index] \in Slot
      BY <2>1, ElementOfSeq DEF ScopesOK
    <2>. QED
      BY <2>1, <2>2 DEF Slot
  <1>3. PICK l2 : Adds(e, l2, l, op, d)
    <2>. HIDE DEF l
    <2>. QED
      BY <1>1, <1>2, EmitOn DEF l
  <1>. HIDE DEF l, e
  <1>4. Adding(g, lay, hm, e, l2)
    BY <1>1, <1>3 DEF Adding, Adds, l
  <1>. QED
    BY <1>3, <1>4 DEF l, e

(* One instruction is all there was to do.                                 *)
LEMMA EmitSimple ==
  ASSUME NEW g, NEW lay, NEW hm, Ctx(g, lay, hm), todo # <<>>, todo[1].do \notin Patching,
         NEW op, NEW args, op \notin Jumps,
         Fits(ViewOf(scope_index, scopes, lay), op, args, g[2].depth),
         g[2].level = g[1].level, g[2].loops = g[1].loops, g[2].void = is_void',
         g[2].end = 2 => op \in Ending,
         Write(Emit(Current, op, args)), Continue(<<>>), scope_index' = scope_index,
         UNCHANGED loops,
         \/ UNCHANGED constants
         \/ \E c : c.kind = "value" /\ constants' = Append(constants, c)
  PROVE  Known'
  <1> DEFINE e == Emit(Current, op, args)
             l == ViewOf(scope_index, scopes, lay)
  <1>1. PICK l2 : Adding(g, lay, hm, e, l2) /\ Adds(e, l2, l, op, g[2].depth)
    BY EmitHere
  <1>2. g[1].level = scope_index
    BY Now
  <1>. HIDE DEF l, e
  <1>3. GoesOn(g[2], e, l2)
    BY <1>1, <1>2 DEF GoesOn, Adds
  <1>4. Write(e)
    BY DEF e
  <1>. QED
    BY <1>1, <1>3, <1>4, EmitOnly

LEMMA EndExpressionStatementOK ==
  ASSUME Known, EndExpressionStatement
  PROVE  Known'
  <1>1. PICK g, lay, hm : Ctx(g, lay, hm)
    BY DEF Known
  <1>2. Running("expression_statement")
    BY DEF EndExpressionStatement
  <1> DEFINE s == g[1]
             u == g[2]
             l == ViewOf(scope_index, scopes, lay)
  <1>3. /\ todo # <<>> /\ s \in State /\ u \in State /\ s.depth \in Nat
        /\ todo[1].do = "expression_statement" /\ Joined(todo[1], s, u, scopes, lay, hm)
    BY <1>1, <1>2, Begin
  <1>4. StatementOK(s, u) /\ todo[1].do \notin Patching
    BY <1>3 DEF Joined, Patching
  <1>5. /\ s.level = scope_index /\ s.loops = Len(loops) /\ s.void = is_void
        /\ s.depth = l.depth[l.size]
    BY <1>1, <1>3, Now
  <1>6. /\ Continue(<<>>) /\ scope_index' = scope_index /\ is_void' = FALSE
        /\ UNCHANGED <<constants, loops>>
    BY DEF EndExpressionStatement, scope_index
  <1>7. CASE is_void = TRUE
    <2>1. /\ s.end >= 1 /\ u = St(s.level, s.loops, s.depth, FALSE, s.update, 1)
      BY <1>4, <1>5, <1>7 DEF StatementOK
    <2>2. UNCHANGED <<arrays, scopes>>
      BY <1>7 DEF EndExpressionStatement
    <2>3. /\ u.level = s.level /\ u.loops = s.loops /\ u.depth = s.depth
          /\ u.void = FALSE /\ u.end = 1
      BY <2>1 DEF St
    <2>4. Alike(u, s)
      <3>1. s.end = 1 \/ s.end = 2
        BY <2>1, <1>3 DEF State
      <3>. QED
        BY <3>1, <2>3 DEF Alike
    <2>5. Path(<<>>, <<u>>, u, u, scopes, lay, hm)
      BY <1>3, PathNone
    <2>6. /\ IsSeq(<<>>) /\ <<u>> \in Seq(State) /\ Len(<<u>>) = Len(<<>>) + 1 /\ Mono(<<u>>)
          /\ AllJoined(<<>>, <<u>>, scopes, lay, hm) /\ Markless(<<>>)
      BY <2>5 DEF Path, Markless
    <2> DEFINE h == <<u>>
    <2>7. h[1] = u /\ h[Len(h)] = g[2]
      OBVIOUS
    <2>8. u.void = is_void'
      BY <2>3, <1>6
    <2>. HIDE DEF u, s
    <2>9. /\ Alike(h[1], g[1]) /\ h[1].void = is_void' /\ (h[1].end # 0 => Markless(<<>>))
      BY <2>4, <2>6, <2>7, <2>8 DEF s
    <2>10. UNCHANGED <<scopes, arrays, constants, loops>>
      BY <2>2, <1>6
    <2>. HIDE DEF h
    <2>. QED
      BY <2>6, <2>7, <2>9, <2>10, <1>1, <1>3, <1>4, <1>6, Calm DEF h
  <1>8. CASE is_void = FALSE
    <2>1. s.depth >= 1 /\ u = St(s.level, s.loops, s.depth - 1, FALSE, s.update, 2)
      BY <1>4, <1>5, <1>8 DEF StatementOK
    <2>2. u.level = s.level /\ u.loops = s.loops /\ u.depth = s.depth - 1 /\ u.void = FALSE
      BY <2>1 DEF St
    <2>3. Fits(l, "POP", <<>>, u.depth)
      <3>1. s.depth - 1 \in Nat /\ u.depth = s.depth - 1 /\ l.depth[l.size] = s.depth
            /\ s.depth \in Nat /\ s.depth >= 1
        <4>1. s.depth \in Nat /\ s.depth >= 1
          BY <2>1, <1>3
        <4>2. s.depth - 1 \in Nat
          BY <4>1
        <4>3. u.depth = s.depth - 1
          BY <2>2
        <4>4. l.depth[l.size] = s.depth
          BY <1>5
        <4>. QED
          BY <4>1, <4>2, <4>3, <4>4
      <3>. HIDE DEF l, u, s
      <3>. QED
        BY <3>1, OpsExist DEF Fits, ArgsOK, Widths, MayLeave, Takes, Leaves, Falls, Leavers
    <2>4. Write(Emit(Current, "POP", <<>>))
      BY <1>8 DEF EndExpressionStatement
    <2>5. "POP" \notin Jumps /\ "POP" \in Ending
      BY DEF Jumps, Ending
    <2>6. u.void = is_void'
      BY <2>2, <1>6
    <2>. QED
      BY <2>2, <2>3, <2>4, <2>5, <2>6, <1>1, <1>3, <1>4, <1>6, EmitSimple
  <1>9. is_void \in BOOLEAN
    BY <1>3, <1>5 DEF State
  <1>. QED
    BY <1>7, <1>8, <1>9

(* What the actions that only emit start from.                             *)
LEMMA Emitting ==
  ASSUME NEW g, NEW lay, NEW hm, Ctx(g, lay, hm), NEW step, Running(step), step \notin Patching
  PROVE  /\ todo # <<>> /\ todo[1].do = step /\ Head(todo) = todo[1] /\ todo[1].do \notin Patching
         /\ g[1] \in State /\ g[2] \in State /\ g[1].depth \in Nat
         /\ Joined(todo[1], g[1], g[2], scopes, lay, hm)
         /\ g[1].level = scope_index /\ g[1].loops = Len(loops) /\ g[1].void = is_void
         /\ ViewOf(scope_index, scopes, lay).depth[ViewOf(scope_index, scopes, lay).size]
              = g[1].depth
  BY Begin, Now

(* A value more, or as many, or one less.                                  *)
LEMMA FitsPush ==
  ASSUME NEW l, NEW d, NEW op, NEW args, d \in Nat, l.depth[l.size] = d,
         ArgsOK(op, args),
         op \in {"TRUE", "NULL", "CONSTANT", "GET_GLOBAL", "GET_LOCAL", "GET_BUILTIN", "GET_FREE",
                 "CURRENT_CLOSURE"}
  PROVE  Fits(l, op, args, d + 1) /\ op \notin Jumps /\ op \notin Ending
  <1>1. /\ op \in OpSet /\ Takes(op, args) = 0 /\ Leaves(op) = 1 /\ MayLeave(l.kind, op)
        /\ op \notin Jumps /\ op \notin Ending
    BY OpsExist DEF Takes, Leaves, MayLeave, Jumps, Ending
  <1>2. d + 1 \in Nat /\ d >= 0 /\ d + 1 = d - 0 + 1
    OBVIOUS
  <1>. QED
    BY <1>1, <1>2 DEF Fits

LEMMA FitsPop ==
  ASSUME NEW l, NEW d, NEW op, NEW args, d \in Nat, d >= 1, l.depth[l.size] = d,
         ArgsOK(op, args),
         op \in {"POP", "SET_GLOBAL", "SET_LOCAL", "SET_FREE", "LOOP"}
  PROVE  Fits(l, op, args, d - 1) /\ op \notin Jumps /\ (op # "POP" => op \notin Ending)
  <1>1. /\ op \in OpSet /\ Takes(op, args) = 1 /\ Leaves(op) = 0 /\ MayLeave(l.kind, op)
        /\ op \notin Jumps /\ (op # "POP" => op \notin Ending)
    BY OpsExist DEF Takes, Leaves, MayLeave, Jumps, Ending
  <1>2. d - 1 \in Nat /\ d - 1 = d - 1 + 0
    OBVIOUS
  <1>. QED
    BY <1>1, <1>2 DEF Fits

LEMMA SaveSymbolOK ==
  ASSUME Known, SaveSymbol
  PROVE  Known'
  <1>1. PICK g, lay, hm : Ctx(g, lay, hm)
    BY DEF Known
  <1> DEFINE s == g[1]
             u == g[2]
             l == ViewOf(scope_index, scopes, lay)
  <1>2. Running("save") /\ "save" \notin Patching
    BY DEF SaveSymbol, Patching
  <1>3. /\ todo # <<>> /\ todo[1].do = "save" /\ Head(todo) = todo[1] /\ todo[1].do \notin Patching
        /\ s.depth \in Nat /\ Joined(todo[1], s, u, scopes, lay, hm)
        /\ s.void = is_void /\ l.depth[l.size] = s.depth
    BY <1>1, <1>2, Emitting
  <1>4. SaveOK(todo[1], s, u)
    BY <1>3 DEF Joined
  <1> DEFINE index == todo[1].symbol.index
  <1>5. s.depth >= 1 /\ u = St(s.level, s.loops, s.depth - 1, FALSE, s.update, 1) /\ index \in Nat
        /\ s.void = FALSE
    BY <1>4 DEF SaveOK
  <1>6. u.level = s.level /\ u.loops = s.loops /\ u.depth = s.depth - 1 /\ u.void = s.void
        /\ u.end # 2
    <2>1. u.level = s.level /\ u.loops = s.loops /\ u.depth = s.depth - 1 /\ u.void = FALSE
          /\ u.end = 1
      BY <1>5 DEF St
    <2>2. u.void = s.void
      BY <2>1, <1>5, Zenon
    <2>. QED
      BY <2>1, <2>2
  <1>7. PICK op \in {"SET_GLOBAL", "SET_LOCAL"} : Write(Emit(Current, op, <<index>>))
    <2>1. Write(Emit(Current, IF todo[1].symbol.scope = "GLOBAL" THEN "SET_GLOBAL"
                                                                ELSE "SET_LOCAL", <<index>>))
      BY <1>3 DEF SaveSymbol
    <2>. HIDE DEF index
    <2>2. CASE todo[1].symbol.scope = "GLOBAL"
      BY <2>1, <2>2
    <2>3. CASE todo[1].symbol.scope # "GLOBAL"
      BY <2>1, <2>3
    <2>. QED
      BY <2>2, <2>3
  <1>8. ArgsOK(op, <<index>>)
    BY <1>5 DEF ArgsOK, Widths
  <1>. HIDE DEF l, s, u, index
  <1>9. Fits(l, op, <<index>>, u.depth) /\ op \notin Jumps
    BY <1>3, <1>5, <1>6, <1>8, FitsPop
  <1>10. /\ Continue(<<>>) /\ scope_index' = scope_index
         /\ UNCHANGED <<constants, loops, is_void>>
    BY DEF SaveSymbol, scope_index
  <1>. QED
    BY <1>1, <1>3, <1>6, <1>7, <1>9, <1>10, EmitSimple DEF l, s, u

LEMMA EmitInstructionOK ==
  ASSUME Known, EmitInstruction
  PROVE  Known'
  <1>1. PICK g, lay, hm : Ctx(g, lay, hm)
    BY DEF Known
  <1> DEFINE s == g[1]
             u == g[2]
             l == ViewOf(scope_index, scopes, lay)
             op == todo[1].op
             args == todo[1].operands
  <1>2. Running("emit") /\ "emit" \notin Patching
    BY DEF EmitInstruction, Patching
  <1>3. /\ todo # <<>> /\ todo[1].do = "emit" /\ Head(todo) = todo[1] /\ todo[1].do \notin Patching
        /\ s \in State /\ u \in State
        /\ s.depth \in Nat /\ Joined(todo[1], s, u, scopes, lay, hm)
        /\ s.void = is_void /\ l.depth[l.size] = s.depth /\ s.level = scope_index
    BY <1>1, <1>2, Emitting
  <1>4. EmitOK(todo[1], s, u, scopes, lay)
    BY <1>3 DEF Joined
  <1>5. /\ s.void = FALSE /\ ArgsOK(op, args) /\ s.depth >= Takes(op, args)
        /\ op \in Plain \cup {"RETURN_VALUE"}
    BY <1>4 DEF EmitOK
  <1>6. Write(Emit(Current, op, args)) /\ Continue(<<>>) /\ scope_index' = scope_index
        /\ UNCHANGED <<constants, loops, is_void>>
    BY <1>3 DEF EmitInstruction, scope_index
  <1>7. /\ u.level = s.level /\ u.loops = s.loops /\ u.void = s.void
        /\ u.end = 2 => op \in Ending
        /\ Fits(l, op, args, u.depth) /\ op \notin Jumps
    <2>1. CASE op \in Plain
      <3> DEFINE d == s.depth - Takes(op, args) + Leaves(op)
      <3>1. u = St(s.level, s.loops, d, FALSE, s.update, 0)
        BY <2>1, <1>4 DEF EmitOK
      <3>2. u.level = s.level /\ u.loops = s.loops /\ u.depth = d /\ u.void = s.void /\ u.end # 2
        <4>1. u.level = s.level /\ u.loops = s.loops /\ u.depth = d /\ u.void = FALSE /\ u.end = 0
          BY <3>1 DEF St
        <4>2. u.void = s.void
          BY <4>1, <1>5, Zenon
        <4>. QED
          BY <4>1, <4>2
      <3>3. op \in OpSet /\ op \notin Jumps /\ op \notin Leavers
        BY <2>1 DEF Plain
      <3>4. MayLeave(l.kind, op)
        BY <3>3 DEF MayLeave, Leavers
      <3>5. u.depth \in Nat
        BY <1>3 DEF State
      <3>. HIDE DEF l, s, u, op, args
      <3>6. Fits(l, op, args, u.depth)
        BY <3>2, <3>3, <3>4, <3>5, <1>3, <1>5 DEF Fits
      <3>. QED
        BY <3>2, <3>3, <3>6
    <2>2. CASE op = "RETURN_VALUE"
      <3>1. u = St(s.level, s.loops, s.depth - 1, FALSE, s.update, 2)
            /\ ViewOf(s.level, scopes, lay).kind = "function"
        BY <2>2, <1>4 DEF EmitOK
      <3>2. u.level = s.level /\ u.loops = s.loops /\ u.depth = s.depth - 1 /\ u.void = s.void
        <4>1. u.level = s.level /\ u.loops = s.loops /\ u.depth = s.depth - 1 /\ u.void = FALSE
          BY <3>1 DEF St
        <4>2. u.void = s.void
          BY <4>1, <1>5, Zenon
        <4>. QED
          BY <4>1, <4>2
      <3>3. op \in OpSet /\ op \notin Jumps /\ op \in Ending /\ ~Falls(op)
        BY <2>2, OpsExist DEF Jumps, Ending, Falls, Leavers
      <3>4. MayLeave(l.kind, op)
        BY <2>2, <3>1, <1>3 DEF MayLeave
      <3>5. u.depth \in Nat
        BY <1>3 DEF State
      <3>. HIDE DEF l, s, u, op, args
      <3>6. Fits(l, op, args, u.depth)
        BY <3>2, <3>3, <3>4, <3>5, <1>3, <1>5 DEF Fits
      <3>. QED
        BY <3>2, <3>3, <3>6
    <2>. QED
      BY <2>1, <2>2, <1>5
  <1>. HIDE DEF l, s, u, op, args
  <1>. QED
    BY <1>1, <1>3, <1>6, <1>7, EmitSimple DEF l, s, u

(* A literal or a name: one value more.                                    *)
LEMMA PushOK ==
  ASSUME Known, Running("expression"), Head(todo).kind = "value",
         NEW op, NEW args, ArgsOK(op, args),
         op \in {"TRUE", "NULL", "CONSTANT", "GET_GLOBAL", "GET_LOCAL", "GET_BUILTIN", "GET_FREE",
                 "CURRENT_CLOSURE"},
         Write(Emit(Current, op, args)), Continue(<<>>), scope_index' = scope_index,
         UNCHANGED <<loops, is_void>>,
         \/ UNCHANGED constants
         \/ \E c : c.kind = "value" /\ constants' = Append(constants, c)
  PROVE  Known'
  <1>1. PICK g, lay, hm : Ctx(g, lay, hm)
    BY DEF Known
  <1> DEFINE s == g[1]
             u == g[2]
             l == ViewOf(scope_index, scopes, lay)
  <1>2. /\ todo # <<>> /\ s.depth \in Nat /\ s.void = FALSE /\ todo[1].do \notin Patching
        /\ u = Moved(s, s.depth + 1, 0)
    BY <1>1, InExpression
  <1>3. s.void = is_void /\ l.depth[l.size] = s.depth
    BY <1>1, <1>2, Now
  <1>4. u.level = s.level /\ u.loops = s.loops /\ u.depth = s.depth + 1 /\ u.void = s.void /\ u.end # 2
    <2>1. u.level = s.level /\ u.loops = s.loops /\ u.depth = s.depth + 1 /\ u.void = FALSE
          /\ u.end = 0
      BY <1>2 DEF Moved, St
    <2>2. u.void = s.void
      BY <2>1, <1>2, Zenon
    <2>. QED
      BY <2>1, <2>2
  <1>. HIDE DEF l, s, u
  <1>5. Fits(l, op, args, u.depth) /\ op \notin Jumps
    BY <1>2, <1>3, <1>4, FitsPush
  <1>6. u.void = is_void' /\ (u.end = 2 => op \in Ending)
    BY <1>3, <1>4
  <1>. QED
    BY <1>1, <1>2, <1>4, <1>5, <1>6, EmitSimple DEF l, s, u

LEMMA BooleanLiteralOK ==
  ASSUME Known, BooleanLiteral
  PROVE  Known'
  <1>1. ArgsOK("TRUE", <<>>)
    BY DEF ArgsOK, Widths
  <1>2. /\ Running("expression") /\ Head(todo).kind = "value"
        /\ Write(Emit(Current, "TRUE", <<>>)) /\ Continue(<<>>) /\ scope_index' = scope_index
        /\ UNCHANGED <<loops, is_void, constants>>
    BY DEF BooleanLiteral, NewExpression, scope_index
  <1>. QED
    BY <1>1, <1>2, PushOK

LEMMA ConstantLiteralOK ==
  ASSUME Known, ConstantLiteral
  PROVE  Known'
  <1>1. Len(constants) \in Nat
    <2>1. PICK g, lay, hm : Ctx(g, lay, hm)
      BY DEF Known
    <2>2. PoolOK(constants, scope_index, scopes, lay)
      BY <2>1 DEF Ctx, Core
    <2>. QED
      BY <2>2, LenProperties DEF PoolOK, IsSeq
  <1>2. ArgsOK("CONSTANT", <<Len(constants)>>)
    BY <1>1 DEF ArgsOK, Widths
  <1>3. /\ Running("expression") /\ Head(todo).kind = "value"
        /\ Write(Emit(Current, "CONSTANT", <<Len(constants)>>)) /\ Continue(<<>>)
        /\ scope_index' = scope_index
        /\ UNCHANGED <<loops, is_void>>
    BY DEF ConstantLiteral, NewExpression, scope_index
  <1>4. \E c : c.kind = "value" /\ constants' = Append(constants, c)
    BY DEF ConstantLiteral, Constant
  <1>. QED
    BY <1>2, <1>3, <1>4, PushOK

(* What load_symbol emits.                                                 *)
LEMMA LoadSymbol ==
  ASSUME NEW e, NEW symbol, symbol \in ST!Symbol
  PROVE  \E op \in {"GET_GLOBAL", "GET_LOCAL", "GET_BUILTIN", "GET_FREE", "CURRENT_CLOSURE"} : \E args :
           load_symbol(e, symbol) = Emit(e, op, args) /\ ArgsOK(op, args)
  <1>1. /\ symbol.scope \in {"GLOBAL", "LOCAL", "BUILTIN", "FREE", "FUNCTION"}
        /\ symbol.index \in Nat
    BY DEF ST!Symbol, ST!Scopes
  <1> DEFINE index == symbol.index
  <1>2. /\ \A op \in {"GET_GLOBAL", "GET_LOCAL", "GET_BUILTIN", "GET_FREE"} : ArgsOK(op, <<index>>)
        /\ ArgsOK("CURRENT_CLOSURE", <<>>)
    BY <1>1 DEF ArgsOK, Widths
  <1>. HIDE DEF index
  <1>3. CASE symbol.scope = "GLOBAL"
    <2>1. load_symbol(e, symbol) = Emit(e, "GET_GLOBAL", <<index>>)
      BY <1>3 DEF load_symbol, index
    <2>. QED
      BY <2>1, <1>2
  <1>4. CASE symbol.scope = "LOCAL"
    <2>1. load_symbol(e, symbol) = Emit(e, "GET_LOCAL", <<index>>)
      BY <1>4 DEF load_symbol, index
    <2>. QED
      BY <2>1, <1>2
  <1>5. CASE symbol.scope = "BUILTIN"
    <2>1. load_symbol(e, symbol) = Emit(e, "GET_BUILTIN", <<index>>)
      BY <1>5 DEF load_symbol, index
    <2>. QED
      BY <2>1, <1>2
  <1>6. CASE symbol.scope = "FREE"
    <2>1. load_symbol(e, symbol) = Emit(e, "GET_FREE", <<index>>)
      BY <1>6 DEF load_symbol, index
    <2>. QED
      BY <2>1, <1>2
  <1>7. CASE symbol.scope = "FUNCTION"
    <2>1. load_symbol(e, symbol) = Emit(e, "CURRENT_CLOSURE", <<>>)
      BY <1>7 DEF load_symbol
    <2>. QED
      BY <2>1, <1>2
  <1>. QED
    BY <1>1, <1>3, <1>4, <1>5, <1>6, <1>7

LEMMA IdentifierOK ==
  ASSUME Known, TablesOK(tables), NEW name \in Names, Identifier(name), result' = "OK"
  PROVE  Known'
  <1> DEFINE symbol == ST!symbol_resolve(tables, name)
  <1>1. /\ Running("expression") /\ Head(todo).kind = "value" /\ symbol # NULL
    BY DEF Identifier, NewExpression, Fail
  <1>2. symbol \in ST!Symbol
    BY <1>1, ResolveTables
  <1>3. /\ tables' = ST!TablesAfterResolve(tables, name)
        /\ Write(load_symbol(Current, symbol)) /\ Continue(<<>>)
        /\ UNCHANGED <<constants, loops, is_void>>
    BY <1>1 DEF Identifier
  <1>4. scope_index' = scope_index
    <2>1. Len(ST!TablesAfterResolve(tables, name)) = Len(tables)
      BY ResolveTables
    <2>. QED
      BY <2>1, <1>3 DEF scope_index
  <1>. HIDE DEF symbol
  <1>5. \E op \in {"GET_GLOBAL", "GET_LOCAL", "GET_BUILTIN", "GET_FREE", "CURRENT_CLOSURE"} : \E args :
           load_symbol(Current, symbol) = Emit(Current, op, args) /\ ArgsOK(op, args)
    BY <1>2, LoadSymbol
  <1>7. PICK op \in {"GET_GLOBAL", "GET_LOCAL", "GET_BUILTIN", "GET_FREE", "CURRENT_CLOSURE"} :
           \E args : load_symbol(Current, symbol) = Emit(Current, op, args) /\ ArgsOK(op, args)
    BY <1>5
  <1>8. PICK args : load_symbol(Current, symbol) = Emit(Current, op, args) /\ ArgsOK(op, args)
    BY <1>7
  <1>6. Write(Emit(Current, op, args))
    BY <1>3, <1>8
  <1>. QED
    BY <1>1, <1>3, <1>4, <1>8, <1>6, PushOK

(* The new value is stored, and loaded again: never an abort.              *)
LEMMA StoreOK ==
  ASSUME Known, Running("assign"), NEW set \in {"SET_GLOBAL", "SET_LOCAL", "SET_FREE"},
         NEW get \in {"GET_GLOBAL", "GET_LOCAL", "GET_FREE"}, NEW args, Len(args) = 1,
         args \in Seq(Nat),
         Write(Emit(Emit(Current, set, args), get, args)), Continue(<<>>),
         scope_index' = scope_index, UNCHANGED <<constants, loops, is_void>>
  PROVE  Known'
  <1>1. PICK g, lay, hm : Ctx(g, lay, hm)
    BY DEF Known
  <1> DEFINE s == g[1]
             u == g[2]
             l == ViewOf(scope_index, scopes, lay)
             e1 == Emit(Current, set, args)
             e2 == Emit(e1, get, args)
  <1>2. "assign" \notin Patching
    BY DEF Patching
  <1>3. /\ todo # <<>> /\ todo[1].do = "assign" /\ todo[1].do \notin Patching
        /\ s \in State /\ s.depth \in Nat /\ Joined(todo[1], s, u, scopes, lay, hm)
        /\ s.void = is_void /\ l.depth[l.size] = s.depth /\ s.level = scope_index
    BY <1>1, <1>2, Emitting
  <1>4. AssignOK(todo[1], s, u)
    BY <1>3 DEF Joined
  <1>5. s.depth >= 1 /\ u = St(s.level, s.loops, s.depth, FALSE, s.update, 0) /\ s.void = FALSE
    BY <1>4 DEF AssignOK
  <1>6. u.level = s.level /\ u.loops = s.loops /\ u.depth = s.depth /\ u.void = s.void /\ u.end # 2
    <2>1. u.level = s.level /\ u.loops = s.loops /\ u.depth = s.depth /\ u.void = FALSE
          /\ u.end = 0
      BY <1>5 DEF St
    <2>2. u.void = s.void
      BY <2>1, <1>5, Zenon
    <2>. QED
      BY <2>1, <2>2
  <1>7. ArgsOK(set, args) /\ ArgsOK(get, args)
    BY DEF ArgsOK, Widths
  <1> DEFINE d == s.depth - 1
  <1>8. d \in Nat /\ d + 1 = s.depth
    BY <1>3, <1>5
  <1>. HIDE DEF l, s, u
  <1>9. Fits(l, set, args, d) /\ set \notin Jumps
    BY <1>3, <1>5, <1>7, FitsPop
  <1>. HIDE DEF d
  <1>10. PICK l2 : Adding(g, lay, hm, e1, l2) /\ Adds(e1, l2, l, set, d)
    BY <1>1, <1>3, <1>9, EmitHere DEF l
  <1>11. /\ Laid(e1.code, l2) /\ Grows(l, l2) /\ e1.last \in Mark /\ l2.depth[l2.size] = d
         /\ l2.open = l.open
    BY <1>9, <1>10 DEF Adds
  <1>. HIDE DEF e1
  <1>12. Fits(l2, get, args, d + 1) /\ get \notin Jumps
    BY <1>7, <1>8, <1>11, FitsPush
  <1>13. Fits(l2, get, args, s.depth)
    BY <1>8, <1>12
  <1>14. PICK l3 : Adds(e2, l3, l2, get, s.depth)
    BY <1>11, <1>13, EmitOn
  <1>15. /\ Laid(e2.code, l3) /\ Grows(l2, l3) /\ e2.last \in Mark /\ e2.prev \in Mark
         /\ l3.depth[l3.size] = s.depth /\ l3.open = l2.open /\ Fresh(e2.last, l3)
         /\ e2.last.pos = l2.size
    BY <1>12, <1>14 DEF Adds
  <1>16. Grows(l, l3) /\ l2.size >= l.size
    <2>1. l.size \in Nat
      BY <1>1, <1>3, Now DEF l
    <2>2. l2.size \in Nat /\ l3.size \in Nat
      BY <1>11, <1>15, LaidFacts
    <2>3. l.size <= l2.size
      BY <1>11 DEF Grows
    <2>. QED
      BY <2>1, <2>2, <2>3, <1>11, <1>15, GrowsOn
  <1>. HIDE DEF e2
  <1>17. Adding(g, lay, hm, e2, l3)
    BY <1>1, <1>3, <1>11, <1>15, <1>16 DEF Adding, l
  <1>18. GoesOn(u, e2, l3)
    BY <1>3, <1>6, <1>15 DEF GoesOn
  <1>19. u.loops = s.loops /\ u.void = is_void'
    BY <1>3, <1>6
  <1>20. Write(e2)
    BY DEF e2, e1
  <1>. QED
    BY <1>17, <1>18, <1>19, <1>20, EmitOnly DEF s, u

LEMMA EndReassignmentOK ==
  ASSUME Known, EndReassignment
  PROVE  Known' /\ UNCHANGED <<result, tables>>
  <1>1. PICK g, lay, hm : Ctx(g, lay, hm)
    BY DEF Known
  <1>2. Running("assign") /\ "assign" \notin Patching
    BY DEF EndReassignment, Patching
  <1>3. /\ todo[1].do = "assign" /\ Head(todo) = todo[1]
        /\ Joined(todo[1], g[1], g[2], scopes, lay, hm)
    BY <1>1, <1>2, Emitting
  <1>4. AssignOK(todo[1], g[1], g[2])
    BY <1>3 DEF Joined
  <1> DEFINE symbol == todo[1].symbol
             args == <<symbol.index>>
  <1>5. symbol.scope \in {"GLOBAL", "LOCAL", "FREE"} /\ symbol.index \in Nat
    BY <1>4 DEF AssignOK
  <1>6. args \in Seq(Nat) /\ Len(args) = 1
    BY <1>5
  <1>7. symbol.scope \notin {"FUNCTION", "BUILTIN"}
    BY <1>5
  <1>8. /\ Continue(<<>>) /\ UNCHANGED <<tables, constants, loops, is_void, result>>
        /\ CASE symbol.scope = "GLOBAL" -> Write(Emit(Emit(Current, "SET_GLOBAL", args), "GET_GLOBAL", args))
             [] symbol.scope = "LOCAL" -> Write(Emit(Emit(Current, "SET_LOCAL", args), "GET_LOCAL", args))
             [] symbol.scope = "FREE" -> Write(Emit(Emit(Current, "SET_FREE", args), "GET_FREE", args))
    BY <1>3, <1>7 DEF EndReassignment
  <1>9. scope_index' = scope_index
    BY <1>8 DEF scope_index
  <1>. HIDE DEF symbol, args
  <1>10. \E set \in {"SET_GLOBAL", "SET_LOCAL", "SET_FREE"}, get \in {"GET_GLOBAL", "GET_LOCAL", "GET_FREE"} :
            Write(Emit(Emit(Current, set, args), get, args))
    <2>1. CASE symbol.scope = "GLOBAL"
      BY <2>1, <1>8
    <2>2. CASE symbol.scope = "LOCAL"
      BY <2>2, <1>8
    <2>3. CASE symbol.scope = "FREE"
      BY <2>3, <1>8
    <2>. QED
      BY <2>1, <2>2, <2>3, <1>5
  <1>11. UNCHANGED <<constants, loops, is_void>>
    BY <1>8
  <1>. QED
    BY <1>2, <1>6, <1>8, <1>9, <1>10, <1>11, StoreOK

(* A statement that jumps out of the body of a loop, and the rest of the   *)
(* block it is in.                                                         *)
LEMMA LeaveBody ==
  ASSUME Known, Running("block"), Head(todo).place.loop = TRUE,
         NEW op \in {"CONTINUE", "BREAK"}, NEW args, ArgsOK(op, args),
         Write(Emit(Current, op, args)), Continue(Rest(TRUE)), scope_index' = scope_index,
         UNCHANGED <<constants, is_void>>,
         \/ UNCHANGED loops
         \/ /\ op = "BREAK" /\ loops # <<>>
            /\ loops' = <<Append(Head(loops), BreakPosition(Current))>> \o Tail(loops)
  PROVE  Known'
  <1>1. PICK g, lay, hm : Ctx(g, lay, hm)
    BY DEF Known
  <1> DEFINE s == g[1]
             u == g[2]
             l == ViewOf(scope_index, scopes, lay)
             e == Emit(Current, op, args)
             a == Moved(s, s.depth, 2)
  <1>2. /\ todo # <<>> /\ Head(todo) = todo[1] /\ s \in State /\ u \in State /\ s.depth \in Nat
    BY <1>1, Begin
  <1>3. /\ BlockOK(todo[1], s, u, scopes, lay, hm) /\ PlaceOK(todo[1].place, s, scopes, lay, hm)
        /\ s.void = FALSE /\ todo[1].do \notin Patching
    BY <1>1, InBlock
  <1>4. /\ s.level = scope_index /\ s.loops = Len(loops) /\ s.void = is_void
        /\ s.depth = l.depth[l.size] /\ l.size = Len(Current.code)
    BY <1>1, <1>2, Now
  <1>5. /\ l.kind = "loop" /\ s.loops \in 1..Len(hm) /\ hm[s.loops] = scopes[scope_index].ins
    BY <1>2, <1>3, <1>4 DEF PlaceOK
  <1>6. /\ op \in OpSet /\ op \notin Jumps /\ op \in Ending /\ ~Falls(op) /\ Takes(op, args) = 0
    BY OpsExist DEF Jumps, Ending, Falls, Leavers, Takes
  <1>7. MayLeave(l.kind, op)
    BY <1>5 DEF MayLeave
  <1>. HIDE DEF l, s, u, e
  <1>8. Fits(l, op, args, s.depth)
    BY <1>2, <1>4, <1>6, <1>7 DEF Fits
  <1>9. PICK l2 : Adding(g, lay, hm, e, l2) /\ Adds(e, l2, l, op, s.depth)
    BY <1>1, <1>2, <1>3, <1>6, <1>8, EmitHere DEF l, e
  <1> DEFINE lay2 == Redrawn(lay, l2)
  <1>10. Write(e)
    BY DEF e
  <1>. HIDE DEF lay2
  <1>11. /\ PoolOK(constants, scope_index, scopes', lay2)
         /\ HomesOK(loops, hm, lay2)
         /\ \A place, t : t.level = scope_index /\ PlaceOK(place, t, scopes, lay, hm)
                            => PlaceOK(place, t, scopes', lay2, hm)
         /\ ViewOf(scope_index, scopes', lay2) = l2
         /\ scopes'[scope_index].ins = scopes[scope_index].ins
    BY <1>9, <1>10, AddingKeeps DEF lay2
  <1>12. BlockOK(todo[1], s, u, scopes', lay2, hm)
    <2>1. PlaceOK(todo[1].place, s, scopes', lay2, hm)
      BY <1>3, <1>4, <1>11
    <2>. QED
      BY <2>1, <1>3 DEF BlockOK
  <1>13. Rest(TRUE) = <<[todo[1] EXCEPT !.got = TRUE]>>
    BY <1>2 DEF Rest
  <1>14. Way(Rest(TRUE), a, u, scopes', lay2, hm) /\ Markless(Rest(TRUE))
    <2>1. TRUE \in BOOLEAN /\ 2 \in 1..2
      OBVIOUS
    <2>2. /\ Way(<<[todo[1] EXCEPT !.got = TRUE]>>, a, u, scopes', lay2, hm)
          /\ Markless(<<[todo[1] EXCEPT !.got = TRUE]>>)
      BY <2>1, <1>2, <1>12, BlockContinues
    <2>. QED
      BY <2>2, <1>13
  <1>15. a.level = s.level /\ a.loops = s.loops /\ a.depth = s.depth /\ a.void = is_void
    <2>1. a.level = s.level /\ a.loops = s.loops /\ a.depth = s.depth /\ a.void = FALSE
      BY DEF Moved, St
    <2>2. a.void = is_void
      BY <2>1, <1>3, <1>4, Zenon
    <2>. QED
      BY <2>1, <2>2
  <1>. HIDE DEF a
  <1>16. GoesOn(a, e, l2)
    BY <1>4, <1>6, <1>9, <1>15 DEF GoesOn, Adds
  <1>17. HomesOK(loops', hm, lay2) /\ Len(loops') = Len(loops)
    <2>1. CASE UNCHANGED loops
      BY <2>1, <1>11
    <2>2. CASE op = "BREAK" /\ loops # <<>>
               /\ loops' = <<Append(Head(loops), BreakPosition(Current))>> \o Tail(loops)
      <3>1. loops \in Seq(Seq(Nat)) /\ hm \in Seq(Nat) /\ Len(hm) = Len(loops)
        BY <1>11 DEF HomesOK
      <3>2. l.size \in Nat /\ BreakPosition(Current) = l.size
        BY <1>1, <1>2, <1>4, Now DEF BreakPosition, l
      <3>3. BreakAt(l2, l.size)
        BY <2>2, <1>9 DEF Adds, BreakAt
      <3> DEFINE N == Len(loops)
                 b == Append(Head(loops), l.size)
                 ls2 == <<b>> \o Tail(loops)
      <3>4. loops[1] \in Seq(Nat) /\ Head(loops) = loops[1] /\ N \in Nat /\ N >= 1
        BY <3>1, <2>2
      <3>5. /\ b \in Seq(Nat) /\ Len(b) = Len(loops[1]) + 1 /\ b[Len(loops[1]) + 1] = l.size
            /\ Len(loops[1]) \in Nat
            /\ \A k \in 1..Len(loops[1]) : b[k] = loops[1][k]
        BY <3>2, <3>4
      <3>. HIDE DEF b
      <3>6. /\ ls2 \in Seq(Seq(Nat)) /\ Len(ls2) = N /\ ls2[1] = b
            /\ \A i \in 2..N : ls2[i] = loops[i]
        BY <3>1, <3>4, <3>5
      <3>. HIDE DEF ls2, N
      <3>7. ASSUME NEW m \in 1..N, NEW k \in 1..Len(ls2[N + 1 - m])
            PROVE  hm[m] \in DOMAIN lay2 /\ BreakAt(lay2[hm[m]], ls2[N + 1 - m][k])
        <4> DEFINE i == N + 1 - m
        <4>1. i \in 1..N
          BY <3>4
        <4>2. \A j \in 1..Len(loops[i]) : /\ hm[m] \in DOMAIN lay2
                                          /\ BreakAt(lay2[hm[m]], loops[i][j])
          BY <1>11 DEF HomesOK, N
        <4>3. CASE i = 1 /\ k = Len(loops[1]) + 1
          <5>1. m = N
            BY <4>3, <3>4
          <5>2. hm[m] = scopes[scope_index].ins
            BY <5>1, <1>4, <1>5 DEF N
          <5>3. scopes[scope_index].ins \in DOMAIN lay /\ DOMAIN lay2 = DOMAIN lay
                /\ lay2[scopes[scope_index].ins] = l2
            <6>1. /\ LaysOK(arrays, lay) /\ ScopesOK(scope_index, scopes, arrays, lay)
              BY <1>1, <1>2, Doing
            <6>2. scopes[scope_index].ins \in DOMAIN lay
              BY <6>1 DEF LaysOK, ScopesOK
            <6>. QED
              BY <6>2 DEF lay2, Redrawn
          <5>4. ls2[i][k] = l.size
            BY <4>3, <3>5, <3>6
          <5>. QED
            BY <5>2, <5>3, <5>4, <3>3
        <4>4. CASE i = 1 /\ k # Len(loops[1]) + 1
          <5>1. k \in 1..Len(loops[1]) /\ ls2[i][k] = loops[i][k]
            <6>1. ls2[i] = b
              BY <4>4, <3>6
            <6>2. k \in 1..Len(b)
              BY <6>1
            <6>3. k \in 1..Len(loops[1])
              BY <6>2, <4>4, <3>5
            <6>. QED
              BY <6>1, <6>3, <4>4, <3>5
          <5>. QED
            BY <5>1, <4>2, <4>4
        <4>5. CASE i # 1
          <5>1. ls2[i] = loops[i]
            BY <4>1, <4>5, <3>4, <3>6
          <5>. QED
            BY <5>1, <4>2
        <4>. QED
          BY <4>3, <4>4, <4>5
      <3>8. loops' = ls2 /\ N = Len(loops)
        BY <2>2, <3>2 DEF ls2, b, N
      <3>9. \A m \in 1..Len(ls2) : \A k \in 1..Len(ls2[Len(ls2) + 1 - m]) :
               hm[m] \in DOMAIN lay2 /\ BreakAt(lay2[hm[m]], ls2[Len(ls2) + 1 - m][k])
        BY <3>6, <3>7
      <3>. QED
        BY <3>1, <3>6, <3>8, <3>9 DEF HomesOK
    <2>. QED
      BY <2>1, <2>2
  <1>18. a.loops = Len(loops') /\ a.void = is_void'
    BY <1>4, <1>15, <1>17
  <1>19. PoolOK(constants', scope_index, scopes', lay2)
    BY <1>11
  <1>. QED
    BY <1>9, <1>10, <1>14, <1>16, <1>17, <1>18, <1>19, EmitThen DEF u, lay2

LEMMA ContinueStatementOK ==
  ASSUME Prepared, Known, ContinueStatement, result' = "OK"
  PROVE  Known'
  <1>1. Running("block") /\ Head(todo).place.loop = TRUE
    <2>1. ~May("stray_break")
      BY NoLiberties
    <2>2. Head(todo).place.loop
      BY <2>1 DEF ContinueStatement
    <2>. QED
      BY <2>2 DEF ContinueStatement, NewStatement
  <1>2. /\ Write(Emit(Current, "CONTINUE", <<>>)) /\ Continue(Rest(TRUE))
        /\ UNCHANGED <<tables, constants, loops, is_void>>
    BY DEF ContinueStatement, Fail
  <1>3. scope_index' = scope_index
    BY <1>2 DEF scope_index
  <1>4. ArgsOK("CONTINUE", <<>>)
    BY DEF ArgsOK, Widths
  <1>5. UNCHANGED <<constants, is_void>> /\ UNCHANGED loops
    BY <1>2
  <1>. QED
    BY <1>1, <1>2, <1>3, <1>4, <1>5, LeaveBody

LEMMA BreakStatementOK ==
  ASSUME Prepared, Known, BreakStatement, result' = "OK"
  PROVE  Known'
  <1>1. Running("block") /\ Head(todo).place.loop = TRUE
    <2>1. ~May("stray_break")
      BY NoLiberties
    <2>2. Head(todo).place.loop
      BY <2>1 DEF BreakStatement
    <2>. QED
      BY <2>2 DEF BreakStatement, NewStatement
  <1>2. /\ loops # <<>>
        /\ Write(Emit(Current, "BREAK", <<JUMP_SENTINEL>>)) /\ Continue(Rest(TRUE))
        /\ loops' = <<Append(Head(loops), BreakPosition(Current))>> \o Tail(loops)
        /\ UNCHANGED <<tables, constants, is_void>>
    BY DEF BreakStatement, Fail
  <1>3. scope_index' = scope_index
    BY <1>2 DEF scope_index
  <1>4. ArgsOK("BREAK", <<JUMP_SENTINEL>>)
    BY DEF ArgsOK, Widths, JUMP_SENTINEL
  <1>5. UNCHANGED <<constants, is_void>>
    BY <1>2
  <1>. QED
    BY <1>1, <1>2, <1>3, <1>4, <1>5, LeaveBody

(* What the value of a block is taken from.                                *)
LEMMA ValueHere ==
  ASSUME NEW g, NEW lay, NEW hm, Ctx(g, lay, hm), todo # <<>>, g[1].end = 2
  PROVE  \E l1, m :
           /\ Laid(remove_last_pop(Current).code, l1)
           /\ l1.depth[l1.size] = g[1].depth + 1
           /\ l1.open = ViewOf(scope_index, scopes, lay).open
           /\ Keeps(ViewOf(scope_index, scopes, lay), l1, m)
           /\ RestMarked(m, todo, g, scope_index)
           /\ remove_last_pop(Current).last \in Mark /\ remove_last_pop(Current).prev \in Mark
  <1> DEFINE l == ViewOf(scope_index, scopes, lay)
             e == Current
             n == scope_index
             last == scopes[scope_index].last
  <1>1. /\ NowOK(g[1], last, l, todo, g, n, loops, is_void)
        /\ ScopesOK(n, scopes, arrays, lay) /\ Len(todo) \in Nat \ {0}
    BY Doing
  <1>2. /\ Laid(e.code, l) /\ e.last = last /\ e.prev = scopes[scope_index].prev
        /\ g[1].depth = l.depth[l.size]
    BY Now
  <1>3. last.op \in Ending /\ Fresh(last, l) /\ Marked(last.pos, todo, g, n)
    BY <1>1 DEF NowOK, EndOK
  <1>4. scopes[scope_index].last \in Mark /\ scopes[scope_index].prev \in Mark
    <2>1. scopes \in Seq(Slot) /\ scope_index \in 1..Len(scopes)
      BY <1>1 DEF ScopesOK
    <2>2. scopes[scope_index] \in Slot
      BY <2>1
    <2>. QED
      BY <2>2 DEF Slot
  <1>5. e = [code |-> e.code, last |-> e.last, prev |-> e.prev]
    BY DEF Current, At
  <1>. HIDE DEF l, e, n
  <1>6. RestMarked(last.pos, todo, g, n)
    BY <1>1, <1>3 DEF Marked, RestMarked
  <1>7. remove_last_pop(e).last \in Mark /\ remove_last_pop(e).prev \in Mark
    <2>1. CASE e.last.op = "POP"
      <3>1. remove_last_pop(e) = [e EXCEPT !.code = SubSeq(e.code, 1, Len(e.code) - 1), !.last = e.prev]
        BY <2>1 DEF remove_last_pop
      <3>2. remove_last_pop(e).last = e.prev /\ remove_last_pop(e).prev = e.prev
        BY <3>1, <1>5
      <3>. QED
        BY <3>2, <1>2, <1>4
    <2>2. CASE e.last.op # "POP"
      <3>1. remove_last_pop(e) = e
        BY <2>2 DEF remove_last_pop
      <3>. QED
        BY <3>1, <1>2, <1>4
    <2>. QED
      BY <2>1, <2>2
  <1>8. \E l1 : /\ Laid(remove_last_pop(e).code, l1)
                /\ l1.depth[l1.size] = l.depth[l.size] + 1
                /\ l1.open = l.open
                /\ Keeps(l, l1, e.last.pos)
    BY <1>2, <1>3, ValueTaken
  <1>. QED
    BY <1>2, <1>6, <1>7, <1>8 DEF l, e, n

(* A jump gets the end of the code as its target.                          *)
Patches(l, l2, p) ==
  /\ l2.size = l.size /\ l2.kind = l.kind /\ l2.depth = l.depth /\ l2.open = l.open \ {p}
  /\ DOMAIN l2.at = DOMAIN l.at
  /\ \A q \in DOMAIN l.at : l2.at[q].op = l.at[q].op

LEMMA PatchOn ==
  ASSUME NEW e, NEW l, Laid(e.code, l), NEW p, NEW op, NEW d, op \in Jumps, JumpAt(l, p, op, d),
         d \in Nat, op = "JMP" => l.depth[l.size] = d, op # "JMP" => l.depth[l.size] = d - 1,
         e = [code |-> e.code, last |-> e.last, prev |-> e.prev],
         NEW e2, e2 = Patched(e, p, Len(e.code))
  PROVE  \E l2 : /\ Laid(e2.code, l2) /\ Patches(l, l2, p)
                 /\ e2.last = e.last /\ e2.prev = e.prev
                 /\ e2 = [code |-> e2.code, last |-> e2.last, prev |-> e2.prev]
  <1> DEFINE t == Len(e.code)
             l2 == Retargeted(l, p, t)
  <1>1. t \in Nat /\ t = l.size /\ t \in DOMAIN l.depth
    BY LaidFacts DEF Laid
  <1>2. p \in DOMAIN l.at /\ l.at[p].op = op /\ l.depth[p] = d
    BY DEF JumpAt
  <1>3. Takes(op, l.at[p].args) = IF op = "JMP" THEN 0 ELSE 1
    BY DEF Jumps, Takes
  <1>4. l.depth[t] = l.depth[p] - Takes(l.at[p].op, l.at[p].args)
    <2>1. l.depth[t] = l.depth[l.size]
      BY <1>1
    <2>. HIDE DEF t
    <2>2. CASE op = "JMP"
      BY <2>1, <2>2, <1>2, <1>3
    <2>3. CASE op # "JMP"
      BY <2>1, <2>3, <1>2, <1>3
    <2>. QED
      BY <2>2, <2>3
  <1>5. e2 = [e EXCEPT !.code = change_operand(e.code, p, t)]
    BY DEF Patched
  <1>. HIDE DEF t
  <1>6. Laid(change_operand(e.code, p, t), l2)
    BY <1>1, <1>2, <1>4, PatchLaid
  <1>7. /\ e2.code = change_operand(e.code, p, t) /\ e2.last = e.last /\ e2.prev = e.prev
        /\ e2 = [code |-> e2.code, last |-> e2.last, prev |-> e2.prev]
    BY <1>5
  <1>8. Patches(l, l2, p)
    BY <1>2 DEF Patches, Retargeted
  <1>. HIDE DEF l2
  <1>. QED
    BY <1>6, <1>7, <1>8

LEMMA PatchesKeeps ==
  ASSUME NEW l, NEW l2, NEW p, Patches(l, l2, p), NEW m
  PROVE  Keeps(l, l2, m)
  BY DEF Patches, Keeps

LEMMA KeepsOn ==
  ASSUME NEW l, NEW l2, NEW l3, NEW m, Keeps(l, l2, m), Keeps(l2, l3, m)
  PROVE  Keeps(l, l3, m)
  BY DEF Keeps

LEMMA PatchesJump ==
  ASSUME NEW l, NEW l2, NEW p, Patches(l, l2, p), NEW q, NEW op, NEW d, JumpAt(l, q, op, d)
  PROVE  JumpAt(l2, q, op, d)
  BY DEF Patches, JumpAt

LEMMA GrowsJump ==
  ASSUME NEW l, NEW l2, NEW code, Laid(code, l), Grows(l, l2), NEW q, NEW op, NEW d, JumpAt(l, q, op, d)
  PROVE  JumpAt(l2, q, op, d)
  <1>1. DOMAIN l.at \subseteq DOMAIN l.depth
    BY DEF Laid
  <1>. QED
    BY <1>1 DEF Grows, JumpAt

LEMMA KeepsJump ==
  ASSUME NEW l, NEW l2, NEW m, Keeps(l, l2, m), NEW q, NEW op, op \in Jumps, NEW d, JumpAt(l, q, op, d)
  PROVE  JumpAt(l2, q, op, d)
  <1>1. op # "POP"
    BY DEF Jumps
  <1>. QED
    BY <1>1 DEF Keeps, JumpAt

(* The code goes on here, with things to do on this level.                 *)
LEMMA Branching ==
  ASSUME NEW g, NEW lay, NEW hm, NEW e, NEW l2, NEW m, NEW ys, NEW h,
         Turning(g, lay, hm, e, l2, m, ys, h), Write(e), Continue(ys), scope_index' = scope_index,
         Path(ys, h, h[1], g[2], scopes', Redrawn(lay, l2), hm),
         h[1].loops = g[1].loops, h[1].void = g[1].void, UNCHANGED <<constants, loops, is_void>>
  PROVE  Known'
  <1>1. Ctx(g, lay, hm) /\ todo # <<>>
    BY DEF Turning
  <1>2. g[1].loops = Len(loops) /\ g[1].void = is_void
    BY <1>1, Now
  <1>3. /\ PoolOK(constants, scope_index, scopes', Redrawn(lay, l2))
        /\ HomesOK(loops, hm, Redrawn(lay, l2))
    BY WriteKeeps
  <1>4. h[1].loops = Len(loops') /\ h[1].void = is_void'
    BY <1>2
  <1>5. PoolOK(constants', scope_index, scopes', Redrawn(lay, l2)) /\ HomesOK(loops', hm, Redrawn(lay, l2))
    BY <1>3
  <1>. QED
    BY <1>4, <1>5, Writing

(* Where the last instruction is none a block may end with.                *)
LEMMA EndsInside ==
  ASSUME NEW s, NEW last, s.end = 0 \/ (s.end = 1 /\ last.op \notin Ending),
         NEW l2, NEW td, NEW g, NEW ys, NEW h, NEW n
  PROVE  EndsIn(s, last, l2, td, g, ys, h, n)
  BY DEF EndsIn

LEMMA JumpsEnd == \A op \in Jumps : op \notin Ending
  BY DEF Jumps, Ending

LEMMA FitsJump ==
  ASSUME NEW l, NEW d, d \in Nat, NEW op, op \in Jumps,
         op = "JMP_IF_FALSE" => l.depth[l.size] = d + 1, l.depth[l.size] \in Nat
  PROVE  Fits(l, op, <<JUMP_SENTINEL>>, d)
  <1>1. op \in OpSet /\ MayLeave(l.kind, op)
    BY OpsExist DEF Jumps, MayLeave
  <1>2. ArgsOK(op, <<JUMP_SENTINEL>>)
    BY DEF ArgsOK, Widths, JUMP_SENTINEL, Jumps
  <1>3. CASE op = "JMP"
    <2>1. Takes(op, <<JUMP_SENTINEL>>) = 0 /\ ~Falls(op)
      BY <1>3 DEF Takes, Falls
    <2>. QED
      BY <2>1, <1>1, <1>2 DEF Fits
  <1>4. CASE op = "JMP_IF_FALSE"
    <2>1. Takes(op, <<JUMP_SENTINEL>>) = 1 /\ Leaves(op) = 0
      BY <1>4 DEF Takes, Leaves
    <2>2. d = l.depth[l.size] - 1 + 0 /\ l.depth[l.size] >= 1
      BY <1>4
    <2>. QED
      BY <2>1, <2>2, <1>1, <1>2 DEF Fits
  <1>. QED
    BY <1>3, <1>4 DEF Jumps

(* No place in the code that something depends on is behind its end.       *)
LEMMA RestWithin ==
  ASSUME NEW g, NEW lay, NEW hm, Ctx(g, lay, hm), todo # <<>>
  PROVE  RestMarked(ViewOf(scope_index, scopes, lay).size, todo, g, scope_index)
  <1> DEFINE n == scope_index
             l == ViewOf(n, scopes, lay)
  <1>1. Core(todo, g, scopes, arrays, lay, constants, loops, hm, n, is_void)
    BY DEF Ctx
  <1>2. Marked(l.size, todo, g, n)
    BY <1>1, MarksWithin
  <1>3. Len(todo) \in Nat \ {0}
    BY Doing
  <1>. HIDE DEF n, l
  <1>. QED
    BY <1>2, <1>3 DEF Marked, RestMarked, n, l

LEMMA ConsequenceStepOK ==
  ASSUME Known, Consequence
  PROVE  Known'
  <1>1. PICK g, lay, hm : Ctx(g, lay, hm)
    BY DEF Known
  <1> DEFINE s == g[1]
             u == g[2]
             n == scope_index
             l == ViewOf(scope_index, scopes, lay)
             place == todo[1].place
             d == s.depth - 1
             e == Emit(Current, "JMP_IF_FALSE", <<JUMP_SENTINEL>>)
             x == Block(place, TRUE)
             y == [do |-> "alternative", place |-> place, hasElse |-> todo[1].hasElse, jump |-> l.size]
             ys == <<x, y>>
             a == Moved(s, d, 1)
             b == Moved(s, d, 2)
             h == <<a, b, u>>
  <1>2. Running("consequence") /\ "consequence" \notin Patching
    BY DEF Consequence, Patching
  <1>3. /\ todo # <<>> /\ todo[1].do = "consequence" /\ todo[1].do \notin Patching
        /\ Head(todo) = todo[1] /\ s \in State /\ u \in State
        /\ s.depth \in Nat /\ Joined(todo[1], s, u, scopes, lay, hm)
        /\ l.depth[l.size] = s.depth /\ s.level = n
    BY <1>1, <1>2, Emitting
  <1>4. ConsequenceOK(todo[1], s, u, scopes, lay, hm)
    BY <1>3 DEF Joined
  <1>5. /\ PlaceOK(place, s, scopes, lay, hm) /\ s.void = FALSE /\ s.depth >= 1
        /\ u = Moved(s, s.depth, 0)
    BY <1>4 DEF ConsequenceOK, Moved
  <1>6. d \in Nat /\ d + 1 = s.depth
    BY <1>3, <1>5
  <1>7. /\ Laid(Current.code, l) /\ l.size = Len(Current.code) /\ l.size \in Nat
        /\ Current.last = scopes[scope_index].last
    BY <1>1, <1>3, Now
  <1>8. Current.last \in Mark
    <2>1. ScopesOK(n, scopes, arrays, lay)
      BY <1>1, <1>3, Doing
    <2>2. scopes[n] \in Slot
      BY <2>1 DEF ScopesOK
    <2>. QED
      BY <2>2, <1>7 DEF Slot
  <1>9. Write(e) /\ Continue(ys) /\ UNCHANGED <<tables, constants, loops, is_void>>
    BY <1>3, <1>7 DEF Consequence, Here
  <1>10. scope_index' = scope_index
    BY <1>9 DEF scope_index
  <1>11. /\ a.level = s.level /\ a.loops = s.loops /\ a.update = s.update /\ a.depth = d
         /\ a.void = FALSE /\ a.end = 1
         /\ b.level = s.level /\ b.loops = s.loops /\ b.update = s.update /\ b.depth = d
         /\ b.void = FALSE /\ b.end = 2
         /\ u.level = s.level /\ u.loops = s.loops /\ u.update = s.update
    BY <1>5 DEF Moved, St
  <1>12. a \in State /\ b \in State
    <2>1. s.level \in Nat /\ s.loops \in Nat /\ s.update \in BOOLEAN
      BY <1>3, StateFields
    <2>. HIDE DEF d
    <2>. QED
      BY <2>1, <1>6 DEF Moved, St, State
  <1>13. "JMP_IF_FALSE" \in Jumps /\ "JMP_IF_FALSE" \notin Ending
    BY DEF Jumps, Ending
  <1>14. /\ x = [do |-> "block", place |-> place, value |-> TRUE, got |-> FALSE]
         /\ y.do = "alternative" /\ y.place = place /\ y.jump = l.size
         /\ b = Moved(a, a.depth, 2) /\ u = Moved(b, b.depth + 1, 0)
    <2>1. b = Moved(a, d, 2)
      BY <1>11, MovedTwice
    <2>2. u = Moved(b, s.depth, 0)
      BY <1>5, <1>11, MovedTwice
    <2>. QED
      BY <2>1, <2>2, <1>6, <1>11 DEF Block
  <1>. HIDE DEF l, s, u, e, d, a, b, x, y, n, place
  <1>15. Fits(l, "JMP_IF_FALSE", <<JUMP_SENTINEL>>, d)
    BY <1>3, <1>6, <1>13, FitsJump
  <1>16. PICK l2 : Adds(e, l2, l, "JMP_IF_FALSE", d)
    BY <1>7, <1>8, <1>15, EmitOn DEF e
  <1>17. /\ Laid(e.code, l2) /\ Grows(l, l2) /\ e.last \in Mark /\ e.prev \in Mark
         /\ e.last.op = "JMP_IF_FALSE" /\ l2.depth[l2.size] = d /\ l2.open = l.open \cup {l.size}
         /\ JumpAt(l2, l.size, "JMP_IF_FALSE", s.depth)
    BY <1>3, <1>13, <1>16 DEF Adds, JumpAt
  <1> DEFINE lay2 == Redrawn(lay, l2)
  <1>18. ys[1] = x /\ ys[2] = y /\ Len(ys) = 2 /\ h[1] = a /\ h[2] = b /\ h[3] = u /\ Len(h) = 3
    OBVIOUS
  <1>. HIDE DEF ys, h
  <1>19. Turning(g, lay, hm, e, l2, l.size, ys, h)
    <2>1. Keeps(l, l2, l.size)
      BY <1>7, <1>17, GrowsKeeps
    <2>2. RestMarked(l.size, todo, g, n)
      BY <1>1, <1>3, RestWithin DEF l, n
    <2>3. EndsIn(h[1], e.last, l2, todo, g, ys, h, n)
      BY <1>11, <1>13, <1>17, <1>18, EndsInside
    <2>4. StillOpen(l2.open, l, todo, g, ys, h, n)
      <3>1. ASSUME NEW p, p \in l2.open
            PROVE  p \in l.open \/ (ys[2].do \in Patching /\ ys[2].jump = p /\ h[2 + 1].level = n)
        BY <3>1, <1>3, <1>11, <1>14, <1>17, <1>18 DEF Patching
      <3>2. 2 \in 1..Len(ys)
        BY <1>18
      <3>. QED
        BY <3>1, <3>2, <1>3 DEF StillOpen
    <2>5. h[1].level = n /\ h[1].depth = l2.depth[l2.size]
      BY <1>3, <1>11, <1>17, <1>18
    <2>. QED
      BY <2>1, <2>2, <2>3, <2>4, <2>5, <1>1, <1>3, <1>17 DEF Turning, l, n
  <1>20. /\ \A q, t : t.level = scope_index /\ PlaceOK(q, t, scopes, lay, hm)
                        => PlaceOK(q, t, scopes', lay2, hm)
         /\ ViewOf(scope_index, scopes', lay2) = l2
    BY <1>9, <1>19, WriteKeeps
  <1>. HIDE DEF lay2
  <1>21. PlaceOK(place, s, scopes', lay2, hm)
    BY <1>3, <1>5, <1>20 DEF n
  <1>22. PlaceOK(place, a, scopes', lay2, hm) /\ PlaceOK(place, b, scopes', lay2, hm)
    BY <1>11, <1>21, MovedPlace
  <1>23. Joined(x, a, b, scopes', lay2, hm)
    <2>1. x \in [do : {"block"}, place : Places, value : BOOLEAN, got : BOOLEAN]
      BY <1>14, <1>21 DEF PlaceOK
    <2>2. BlockOK(x, a, b, scopes', lay2, hm)
      BY <2>1, <1>11, <1>14, <1>22 DEF BlockOK, Moved
    <2>. QED
      BY <2>2, <1>14 DEF Joined
  <1>24. Joined(y, b, u, scopes', lay2, hm)
    <2>1. ViewOf(b.level, scopes', lay2) = l2
      BY <1>3, <1>11, <1>20 DEF n
    <2>2. JumpAt(l2, y.jump, "JMP_IF_FALSE", b.depth + 1)
      BY <1>6, <1>11, <1>14, <1>17
    <2>3. AlternativeOK(y, b, u, scopes', lay2, hm)
      BY <2>1, <2>2, <1>11, <1>14, <1>22 DEF AlternativeOK, Moved
    <2>. QED
      BY <2>3, <1>14 DEF Joined
  <1>25. Path(ys, h, h[1], u, scopes', lay2, hm)
    <2>1. Under(a, b) /\ Under(b, u)
      BY <1>3, <1>11, <1>12, UnderSame
    <2>2. Path(<<x, y>>, <<a, b, u>>, a, u, scopes', lay2, hm)
      BY <2>1, <1>3, <1>12, <1>23, <1>24, PathTwo
    <2>. QED
      BY <2>2, <1>18 DEF ys, h
  <1>26. h[1].loops = s.loops /\ h[1].void = s.void
    <2>1. h[1].void = s.void
      BY <1>5, <1>11, <1>18, Zenon
    <2>. QED
      BY <2>1, <1>11, <1>18
  <1>27. UNCHANGED <<constants, loops, is_void>>
    BY <1>9
  <1>. QED
    BY <1>9, <1>10, <1>19, <1>25, <1>26, <1>27, Branching DEF s, u, lay2

(* The end of the consequence: its value stays, a jump leads over the      *)
(* alternative, and the jump of the condition leads here.                  *)
Jumped(it) ==
  LET consequence == remove_last_pop(Current)
      jumped      == Emit(consequence, "JMP", <<JUMP_SENTINEL>>)
  IN  Patched(jumped, it.jump, Len(jumped.code))

JumpedLaid(g, lay, hm, e, l2, m, jump) ==
  LET l == ViewOf(scope_index, scopes, lay)
  IN  /\ Laid(e.code, l2) /\ Keeps(l, l2, m) /\ RestMarked(m, todo, g, scope_index)
      /\ JumpAt(l2, jump, "JMP", g[1].depth + 1) /\ l2.depth[l2.size] = g[1].depth
      /\ l2.open \subseteq (l.open \cup {jump}) \ {todo[1].jump}
      /\ e.last \in Mark /\ e.prev \in Mark /\ e.last.op = "JMP"

LEMMA JumpedOK ==
  ASSUME NEW g, NEW lay, NEW hm, Ctx(g, lay, hm), todo # <<>>, g[1].end = 2,
         JumpAt(ViewOf(scope_index, scopes, lay), todo[1].jump, "JMP_IF_FALSE", g[1].depth + 1)
  PROVE  \E l2, m : JumpedLaid(g, lay, hm, Jumped(todo[1]), l2, m, Len(remove_last_pop(Current).code))
  <1> DEFINE s == g[1]
             l == ViewOf(scope_index, scopes, lay)
             e1 == remove_last_pop(Current)
             e2 == Emit(e1, "JMP", <<JUMP_SENTINEL>>)
             e3 == Jumped(todo[1])
             p == todo[1].jump
             q == Len(e1.code)
  <1>1. PICK l1, m :
           /\ Laid(e1.code, l1) /\ l1.depth[l1.size] = s.depth + 1 /\ l1.open = l.open
           /\ Keeps(l, l1, m) /\ RestMarked(m, todo, g, scope_index)
           /\ e1.last \in Mark /\ e1.prev \in Mark
    BY ValueHere
  <1>2. s.depth \in Nat
    BY Doing DEF State
  <1>3. e3 = Patched(e2, p, Len(e2.code))
    BY DEF Jumped
  <1>4. e2 = [code |-> e2.code, last |-> e2.last, prev |-> e2.prev] /\ e2.prev = e1.last
    BY DEF Emit
  <1>5. /\ "JMP" \in Jumps /\ "JMP_IF_FALSE" \in Jumps /\ "JMP" # "JMP_IF_FALSE"
    BY DEF Jumps
  <1>6. q = l1.size
    BY <1>1 DEF Laid
  <1>7. JumpAt(l, p, "JMP_IF_FALSE", s.depth + 1)
    OBVIOUS
  <1>. HIDE DEF e1, e2, e3, s, l, p, q
  <1>8. Fits(l1, "JMP", <<JUMP_SENTINEL>>, s.depth)
    <2>1. l1.depth[l1.size] \in Nat
      BY <1>1, <1>2
    <2>. QED
      BY <2>1, <1>2, <1>5, FitsJump
  <1>9. PICK l2 : Adds(e2, l2, l1, "JMP", s.depth)
    BY <1>1, <1>8, EmitOn DEF e2
  <1>10. /\ Laid(e2.code, l2) /\ Grows(l1, l2) /\ e2.last \in Mark /\ e2.prev \in Mark
         /\ e2.last.op = "JMP" /\ l2.depth[l2.size] = s.depth /\ l2.open = l.open \cup {q}
         /\ JumpAt(l2, q, "JMP", s.depth + 1)
    BY <1>1, <1>5, <1>6, <1>9 DEF Adds, JumpAt
  <1>11. Keeps(l1, l2, m)
    BY <1>1, <1>10, GrowsKeeps
  <1>12. JumpAt(l2, p, "JMP_IF_FALSE", s.depth + 1)
    <2>1. JumpAt(l1, p, "JMP_IF_FALSE", s.depth + 1)
      BY <1>1, <1>5, <1>7, KeepsJump
    <2>. QED
      BY <2>1, <1>1, <1>10, GrowsJump
  <1>13. s.depth + 1 \in Nat /\ l2.depth[l2.size] = s.depth + 1 - 1
    BY <1>2, <1>5, <1>10
  <1>14. PICK l3 : Laid(e3.code, l3) /\ Patches(l2, l3, p) /\ e3.last = e2.last /\ e3.prev = e2.prev
    <2> DEFINE op == "JMP_IF_FALSE"
               d == s.depth + 1
    <2>1. /\ op \in Jumps /\ JumpAt(l2, p, op, d) /\ d \in Nat
          /\ op = "JMP" => l2.depth[l2.size] = d
          /\ op # "JMP" => l2.depth[l2.size] = d - 1
      <3>1. op # "JMP" /\ op \in Jumps
        BY <1>5
      <3>2. JumpAt(l2, p, op, d)
        BY <1>12
      <3>3. d \in Nat /\ l2.depth[l2.size] = d - 1
        BY <1>2, <1>13
      <3>. QED
        BY <3>1, <3>2, <3>3
    <2>. HIDE DEF op, d
    <2>2. Laid(e2.code, l2)
      BY <1>10
    <2>. QED
      BY <1>3, <1>4, <2>1, <2>2, PatchOn
  <1>15. Keeps(l, l3, m)
    <2>1. Keeps(l2, l3, m)
      BY <1>14, PatchesKeeps
    <2>. QED
      BY <2>1, <1>1, <1>11, KeepsOn
  <1>16. JumpAt(l3, q, "JMP", s.depth + 1)
    BY <1>10, <1>14, PatchesJump
  <1>17. l3.depth[l3.size] = s.depth /\ l3.open = (l.open \cup {q}) \ {p}
    BY <1>10, <1>14 DEF Patches
  <1>18. JumpedLaid(g, lay, hm, e3, l3, m, q)
    BY <1>1, <1>10, <1>14, <1>15, <1>16, <1>17 DEF JumpedLaid, s, l, p
  <1>. QED
    BY <1>18 DEF e3, q, e1

(* What the end of a branch starts from.                                   *)
LEMMA EndingBranch ==
  ASSUME NEW g, NEW lay, NEW hm, Ctx(g, lay, hm), NEW step, step \in {"alternative", "end_if"},
         Running(step)
  PROVE  /\ todo # <<>> /\ Head(todo) = todo[1] /\ g[1] \in State /\ g[2] \in State
         /\ todo[1].do = step /\ todo[1].do \in Patching
         /\ g[1].depth \in Nat /\ g[1].void = FALSE /\ g[1].end = 2
         /\ g[1].level = scope_index
         /\ g[2] = Moved(g[1], g[1].depth + 1, 0) /\ g[2].level = scope_index
         /\ JumpAt(ViewOf(scope_index, scopes, lay), todo[1].jump,
                   IF step = "end_if" THEN "JMP" ELSE "JMP_IF_FALSE", g[1].depth + 1)
         /\ step = "alternative" => PlaceOK(todo[1].place, g[1], scopes, lay, hm)
  <1>1. /\ todo # <<>> /\ todo[1].do = step /\ Head(todo) = todo[1]
        /\ Joined(todo[1], g[1], g[2], scopes, lay, hm)
        /\ g[1] \in State /\ g[2] \in State /\ g[1].depth \in Nat
    BY Begin
  <1>2. g[1].level = scope_index
    BY <1>1, Now
  <1>3. todo[1].do \in Patching
    BY <1>1 DEF Patching
  <1>4. CASE step = "alternative"
    <2>1. AlternativeOK(todo[1], g[1], g[2], scopes, lay, hm)
      BY <1>1, <1>4 DEF Joined
    <2>. QED
      BY <2>1, <1>1, <1>2, <1>3, <1>4 DEF AlternativeOK, Moved, St
  <1>5. CASE step = "end_if"
    <2>1. EndIfOK(todo[1], g[1], g[2], scopes, lay)
      BY <1>1, <1>5 DEF Joined
    <2>. QED
      BY <2>1, <1>1, <1>2, <1>3, <1>5 DEF EndIfOK, Moved, St
  <1>. QED
    BY <1>4, <1>5

(* Nothing is left to do here.                                             *)
LEMMA BranchDone ==
  ASSUME NEW g, NEW lay, NEW hm, Ctx(g, lay, hm), todo # <<>>,
         g[1] \in State, g[2] \in State, g[1].void = FALSE, g[1].level = scope_index,
         g[2] = Moved(g[1], g[1].depth + 1, 0),
         NEW e, NEW l2, NEW m, Laid(e.code, l2), e.last \in Mark, e.prev \in Mark,
         Keeps(ViewOf(scope_index, scopes, lay), l2, m), RestMarked(m, todo, g, scope_index),
         l2.depth[l2.size] = g[1].depth + 1,
         l2.open \subseteq ViewOf(scope_index, scopes, lay).open \ {todo[1].jump},
         Write(e), Continue(<<>>), scope_index' = scope_index,
         UNCHANGED <<constants, loops, is_void>>
  PROVE  Known'
  <1> DEFINE u == g[2]
             h == <<u>>
             l == ViewOf(scope_index, scopes, lay)
  <1>1. /\ u.level = g[1].level /\ u.loops = g[1].loops /\ u.depth = g[1].depth + 1
        /\ u.void = FALSE /\ u.end = 0
    BY DEF Moved, St
  <1>2. u.void = g[1].void
    BY <1>1, Zenon
  <1>3. h[1] = u /\ Len(h) = 1
    OBVIOUS
  <1>. HIDE DEF u, h, l
  <1>4. EndsIn(h[1], e.last, l2, todo, g, <<>>, h, scope_index)
    BY <1>1, <1>3, EndsInside
  <1>5. StillOpen(l2.open, l, todo, g, <<>>, h, scope_index)
    BY DEF StillOpen, l
  <1>6. Turning(g, lay, hm, e, l2, m, <<>>, h)
    BY <1>1, <1>3, <1>4, <1>5 DEF Turning, l, u
  <1>7. Path(<<>>, h, h[1], u, scopes', Redrawn(lay, l2), hm)
    <2>1. u \in State
      BY DEF u
    <2>2. Path(<<>>, <<u>>, u, u, scopes', Redrawn(lay, l2), hm)
      BY <2>1, PathNone
    <2>. QED
      BY <2>2, <1>3 DEF h
  <1>8. h[1].loops = g[1].loops /\ h[1].void = g[1].void
    BY <1>1, <1>2, <1>3
  <1>. QED
    BY <1>6, <1>7, <1>8, Branching DEF u

LEMMA EndIfStepOK ==
  ASSUME Known, EndIf
  PROVE  Known'
  <1>1. PICK g, lay, hm : Ctx(g, lay, hm)
    BY DEF Known
  <1> DEFINE s == g[1]
             u == g[2]
             l == ViewOf(scope_index, scopes, lay)
             e1 == remove_last_pop(Current)
             p == todo[1].jump
             e == Patched(e1, p, Len(e1.code))
  <1>2. Running("end_if")
    BY DEF EndIf
  <1>3. /\ todo # <<>> /\ Head(todo) = todo[1] /\ s \in State /\ u \in State
        /\ s.depth \in Nat /\ s.void = FALSE /\ s.end = 2
        /\ s.level = scope_index
        /\ u = Moved(s, s.depth + 1, 0)
    BY <1>1, <1>2, EndingBranch
  <1>4. JumpAt(l, p, "JMP", s.depth + 1)
    <2>1. JumpAt(l, p, IF "end_if" = "end_if" THEN "JMP" ELSE "JMP_IF_FALSE", s.depth + 1)
      BY <1>1, <1>2, EndingBranch
    <2>. QED
      BY <2>1
  <1>5. PICK l1, m :
           /\ Laid(e1.code, l1) /\ l1.depth[l1.size] = s.depth + 1 /\ l1.open = l.open
           /\ Keeps(l, l1, m) /\ RestMarked(m, todo, g, scope_index)
           /\ e1.last \in Mark /\ e1.prev \in Mark
    BY <1>1, <1>3, ValueHere
  <1>6. e1 = [code |-> e1.code, last |-> e1.last, prev |-> e1.prev]
    <2>1. Current = [code |-> Current.code, last |-> Current.last, prev |-> Current.prev]
      BY DEF Current, At
    <2>. QED
      BY <2>1 DEF remove_last_pop
  <1>7. Write(e) /\ Continue(<<>>) /\ UNCHANGED <<tables, constants, loops, is_void>>
    BY <1>3 DEF EndIf
  <1>8. scope_index' = scope_index
    BY <1>7 DEF scope_index
  <1>. HIDE DEF s, u, l, e1, p, e
  <1>9. "JMP" \in Jumps
    BY DEF Jumps
  <1>10. JumpAt(l1, p, "JMP", s.depth + 1)
    BY <1>4, <1>5, <1>9, KeepsJump
  <1>11. s.depth + 1 \in Nat /\ l1.depth[l1.size] = s.depth + 1
    BY <1>3, <1>5
  <1>12. PICK l2 : Laid(e.code, l2) /\ Patches(l1, l2, p) /\ e.last = e1.last /\ e.prev = e1.prev
    <2> DEFINE op == "JMP"
               d == s.depth + 1
    <2>1. /\ op \in Jumps /\ JumpAt(l1, p, op, d) /\ d \in Nat
          /\ op = "JMP" => l1.depth[l1.size] = d
          /\ op # "JMP" => l1.depth[l1.size] = d - 1
      BY <1>9, <1>10, <1>11
    <2>. HIDE DEF op, d
    <2>2. Laid(e1.code, l1)
      BY <1>5
    <2>. QED
      BY <1>6, <2>1, <2>2, PatchOn DEF e
  <1>13. Keeps(l, l2, m)
    <2>1. Keeps(l1, l2, m)
      BY <1>12, PatchesKeeps
    <2>. QED
      BY <2>1, <1>5, KeepsOn
  <1>14. l2.depth[l2.size] = s.depth + 1 /\ l2.open \subseteq l.open \ {p}
    BY <1>5, <1>12 DEF Patches
  <1>15. UNCHANGED <<constants, loops, is_void>>
    BY <1>7
  <1>16. e.last \in Mark /\ e.prev \in Mark
    BY <1>5, <1>12
  <1>. QED
    BY <1>1, <1>3, <1>5, <1>7, <1>8, <1>12, <1>13, <1>14, <1>15, <1>16, BranchDone DEF s, u, l, p

(* There is an alternative.                                                *)
LEMMA AlternativeBegins ==
  ASSUME Known, Alternative, Head(todo).hasElse
  PROVE  Known'
  <1>1. PICK g, lay, hm : Ctx(g, lay, hm)
    BY DEF Known
  <1> DEFINE s == g[1]
             u == g[2]
             n == scope_index
             l == ViewOf(scope_index, scopes, lay)
             place == todo[1].place
             p == todo[1].jump
             q == Len(remove_last_pop(Current).code)
             e == Jumped(todo[1])
             x == Block(place, TRUE)
             y == [do |-> "end_if", jump |-> q]
             ys == <<x, y>>
             a == Moved(s, s.depth, 1)
             b == Moved(s, s.depth, 2)
             h == <<a, b, u>>
  <1>2. Running("alternative")
    BY DEF Alternative
  <1>3. /\ todo # <<>> /\ Head(todo) = todo[1] /\ s \in State /\ u \in State
        /\ todo[1].do = "alternative" /\ todo[1].do \in Patching
        /\ s.depth \in Nat /\ s.void = FALSE /\ s.end = 2 /\ s.level = n
        /\ u = Moved(s, s.depth + 1, 0) /\ u.level = n
        /\ PlaceOK(place, s, scopes, lay, hm)
    BY <1>1, <1>2, EndingBranch
  <1>4. JumpAt(l, p, "JMP_IF_FALSE", s.depth + 1)
    <2>1. JumpAt(l, p, IF "alternative" = "end_if" THEN "JMP" ELSE "JMP_IF_FALSE", s.depth + 1)
      BY <1>1, <1>2, EndingBranch
    <2>. QED
      BY <2>1
  <1>5. PICK l2, m : JumpedLaid(g, lay, hm, e, l2, m, q)
    BY <1>1, <1>3, <1>4, JumpedOK
  <1>6. /\ Laid(e.code, l2) /\ Keeps(l, l2, m) /\ RestMarked(m, todo, g, n)
        /\ JumpAt(l2, q, "JMP", s.depth + 1) /\ l2.depth[l2.size] = s.depth
        /\ l2.open \subseteq (l.open \cup {q}) \ {p}
        /\ e.last \in Mark /\ e.prev \in Mark /\ e.last.op = "JMP"
    BY <1>5 DEF JumpedLaid
  <1>7. Write(e) /\ Continue(ys) /\ UNCHANGED <<tables, constants, loops, is_void>>
    BY <1>3 DEF Alternative, Here, Jumped
  <1>8. scope_index' = scope_index
    BY <1>7 DEF scope_index
  <1>9. /\ a.level = s.level /\ a.loops = s.loops /\ a.update = s.update /\ a.depth = s.depth
        /\ a.void = FALSE /\ a.end = 1
        /\ b.level = s.level /\ b.loops = s.loops /\ b.update = s.update /\ b.depth = s.depth
        /\ b.void = FALSE /\ b.end = 2
        /\ u.level = s.level /\ u.loops = s.loops /\ u.update = s.update
    BY <1>3 DEF Moved, St
  <1>10. a \in State /\ b \in State
    <2>1. s.level \in Nat /\ s.loops \in Nat /\ s.update \in BOOLEAN
      BY <1>3, StateFields
    <2>. QED
      BY <2>1, <1>3 DEF Moved, St, State
  <1>11. "JMP" \notin Ending /\ y.do \in Patching
    BY DEF Ending, Patching
  <1>12. /\ x = [do |-> "block", place |-> place, value |-> TRUE, got |-> FALSE]
         /\ y.do = "end_if" /\ y.jump = q
         /\ b = Moved(a, a.depth, 2) /\ u = Moved(b, b.depth + 1, 0)
    <2>1. b = Moved(a, s.depth, 2)
      BY <1>9, MovedTwice
    <2>2. u = Moved(b, s.depth + 1, 0)
      BY <1>3, <1>9, MovedTwice
    <2>. QED
      BY <2>1, <2>2, <1>9 DEF Block
  <1>. HIDE DEF l, s, u, e, a, b, x, y, n, place, p, q
  <1> DEFINE lay2 == Redrawn(lay, l2)
  <1>13. ys[1] = x /\ ys[2] = y /\ Len(ys) = 2 /\ h[1] = a /\ h[2] = b /\ h[3] = u /\ Len(h) = 3
    OBVIOUS
  <1>. HIDE DEF ys, h
  <1>14. Turning(g, lay, hm, e, l2, m, ys, h)
    <2>1. EndsIn(h[1], e.last, l2, todo, g, ys, h, n)
      BY <1>6, <1>9, <1>11, <1>13, EndsInside
    <2>2. StillOpen(l2.open, l, todo, g, ys, h, n)
      <3>1. ASSUME NEW r, r \in l2.open
            PROVE  (r \in l.open /\ todo[1].jump # r)
                   \/ (ys[2].do \in Patching /\ ys[2].jump = r /\ h[2 + 1].level = n)
        <4>1. CASE r \in l.open
          BY <4>1, <3>1, <1>6 DEF p
        <4>2. CASE r = q
          BY <4>2, <1>3, <1>11, <1>12, <1>13
        <4>. QED
          BY <4>1, <4>2, <3>1, <1>6
      <3>2. 2 \in 1..Len(ys)
        BY <1>13
      <3>. QED
        BY <3>1, <3>2 DEF StillOpen
    <2>3. h[1].level = n /\ h[1].depth = l2.depth[l2.size]
      BY <1>3, <1>6, <1>9, <1>13
    <2>. QED
      BY <2>1, <2>2, <2>3, <1>1, <1>3, <1>6 DEF Turning, l, n, u
  <1>15. /\ \A r, t : t.level = scope_index /\ PlaceOK(r, t, scopes, lay, hm)
                        => PlaceOK(r, t, scopes', lay2, hm)
         /\ ViewOf(scope_index, scopes', lay2) = l2
    BY <1>7, <1>14, WriteKeeps
  <1>. HIDE DEF lay2
  <1>16. PlaceOK(place, s, scopes', lay2, hm)
    BY <1>3, <1>15 DEF n
  <1>17. PlaceOK(place, a, scopes', lay2, hm) /\ PlaceOK(place, b, scopes', lay2, hm)
    BY <1>9, <1>16, MovedPlace
  <1>18. Joined(x, a, b, scopes', lay2, hm)
    <2>1. x \in [do : {"block"}, place : Places, value : BOOLEAN, got : BOOLEAN]
      BY <1>12, <1>16 DEF PlaceOK
    <2>2. BlockOK(x, a, b, scopes', lay2, hm)
      BY <2>1, <1>9, <1>12, <1>17 DEF BlockOK, Moved
    <2>. QED
      BY <2>2, <1>12 DEF Joined
  <1>19. Joined(y, b, u, scopes', lay2, hm)
    <2>1. ViewOf(b.level, scopes', lay2) = l2
      BY <1>3, <1>9, <1>15 DEF n
    <2>2. JumpAt(l2, y.jump, "JMP", b.depth + 1)
      BY <1>6, <1>9, <1>12
    <2>3. EndIfOK(y, b, u, scopes', lay2)
      BY <2>1, <2>2, <1>9, <1>12 DEF EndIfOK, Moved
    <2>. QED
      BY <2>3, <1>12 DEF Joined
  <1>20. Path(ys, h, h[1], u, scopes', lay2, hm)
    <2>1. Under(a, b) /\ Under(b, u)
      BY <1>3, <1>9, <1>10, UnderSame
    <2>2. Path(<<x, y>>, <<a, b, u>>, a, u, scopes', lay2, hm)
      BY <2>1, <1>3, <1>10, <1>18, <1>19, PathTwo
    <2>. QED
      BY <2>2, <1>13 DEF ys, h
  <1>21. h[1].loops = s.loops /\ h[1].void = s.void
    <2>1. h[1].void = s.void
      BY <1>3, <1>9, <1>13, Zenon
    <2>. QED
      BY <2>1, <1>9, <1>13
  <1>22. UNCHANGED <<constants, loops, is_void>>
    BY <1>7
  <1>. QED
    BY <1>7, <1>8, <1>14, <1>20, <1>21, <1>22, Branching DEF s, u, lay2

(* There is none: its value is null.                                       *)
LEMMA AlternativeMissing ==
  ASSUME Known, Alternative, ~Head(todo).hasElse
  PROVE  Known'
  <1>1. PICK g, lay, hm : Ctx(g, lay, hm)
    BY DEF Known
  <1> DEFINE s == g[1]
             u == g[2]
             l == ViewOf(scope_index, scopes, lay)
             p == todo[1].jump
             q == Len(remove_last_pop(Current).code)
             e3 == Jumped(todo[1])
             e4 == Emit(e3, "NULL", <<>>)
             e5 == Patched(e4, q, Len(e4.code))
  <1>2. Running("alternative")
    BY DEF Alternative
  <1>3. /\ todo # <<>> /\ Head(todo) = todo[1] /\ s \in State /\ u \in State
        /\ s.depth \in Nat /\ s.void = FALSE /\ s.end = 2 /\ s.level = scope_index
        /\ u = Moved(s, s.depth + 1, 0)
    BY <1>1, <1>2, EndingBranch
  <1>4. JumpAt(l, p, "JMP_IF_FALSE", s.depth + 1)
    <2>1. JumpAt(l, p, IF "alternative" = "end_if" THEN "JMP" ELSE "JMP_IF_FALSE", s.depth + 1)
      BY <1>1, <1>2, EndingBranch
    <2>. QED
      BY <2>1
  <1>5. PICK l3, m : JumpedLaid(g, lay, hm, e3, l3, m, q)
    BY <1>1, <1>3, <1>4, JumpedOK
  <1>6. /\ Laid(e3.code, l3) /\ Keeps(l, l3, m) /\ RestMarked(m, todo, g, scope_index)
        /\ JumpAt(l3, q, "JMP", s.depth + 1) /\ l3.depth[l3.size] = s.depth
        /\ l3.open \subseteq (l.open \cup {q}) \ {p}
        /\ e3.last \in Mark /\ e3.prev \in Mark
    BY <1>5 DEF JumpedLaid
  <1>7. Write(e5) /\ Continue(<<>>) /\ UNCHANGED <<tables, constants, loops, is_void>>
    BY <1>3 DEF Alternative, Jumped
  <1>8. scope_index' = scope_index
    BY <1>7 DEF scope_index
  <1>9. e4 = [code |-> e4.code, last |-> e4.last, prev |-> e4.prev]
    BY DEF Emit
  <1>10. ArgsOK("NULL", <<>>)
    BY DEF ArgsOK, Widths
  <1>. HIDE DEF s, u, l, p, q, e3
  <1> DEFINE d == s.depth + 1
  <1>11. "NULL" \notin Jumps
    BY DEF Jumps
  <1>12. d \in Nat
    BY <1>3
  <1>13. Fits(l3, "NULL", <<>>, d)
    BY <1>3, <1>6, <1>10, FitsPush
  <1>. HIDE DEF e4, e5, d
  <1>14. PICK l4 : Adds(e4, l4, l3, "NULL", d)
    BY <1>6, <1>13, EmitOn DEF e4
  <1>15. /\ Laid(e4.code, l4) /\ Grows(l3, l4) /\ e4.last \in Mark /\ e4.prev \in Mark
         /\ l4.depth[l4.size] = d /\ l4.open = l3.open
    BY <1>11, <1>14 DEF Adds
  <1>16. JumpAt(l4, q, "JMP", d)
    BY <1>6, <1>15, GrowsJump DEF d
  <1>17. PICK l5 : Laid(e5.code, l5) /\ Patches(l4, l5, q) /\ e5.last = e4.last /\ e5.prev = e4.prev
    <2> DEFINE op == "JMP"
    <2>1. /\ op \in Jumps /\ JumpAt(l4, q, op, d)
          /\ op = "JMP" => l4.depth[l4.size] = d
          /\ op # "JMP" => l4.depth[l4.size] = d - 1
      BY <1>15, <1>16 DEF Jumps
    <2>. HIDE DEF op
    <2>2. Laid(e4.code, l4)
      BY <1>15
    <2>. QED
      BY <1>9, <1>12, <2>1, <2>2, PatchOn DEF e5
  <1>18. Keeps(l, l5, m)
    <2>1. Keeps(l3, l4, m)
      BY <1>6, <1>15, GrowsKeeps
    <2>2. Keeps(l4, l5, m)
      BY <1>17, PatchesKeeps
    <2>. QED
      BY <2>1, <2>2, <1>6, KeepsOn
  <1>19. l5.depth[l5.size] = s.depth + 1 /\ l5.open \subseteq l.open \ {p}
    BY <1>6, <1>15, <1>17 DEF Patches, d
  <1>20. UNCHANGED <<constants, loops, is_void>>
    BY <1>7
  <1>21. e5.last \in Mark /\ e5.prev \in Mark
    BY <1>15, <1>17
  <1>. QED
    BY <1>1, <1>3, <1>6, <1>7, <1>8, <1>17, <1>18, <1>19, <1>20, <1>21, BranchDone DEF s, u, l, p

LEMMA AlternativeStepOK ==
  ASSUME Known, Alternative
  PROVE  Known'
  BY AlternativeBegins, AlternativeMissing

=============================================================================
