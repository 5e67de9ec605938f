-------------------------------- MODULE Code --------------------------------
(***************************************************************************)
(* The instruction format (src/src/code/code.c, src/src/big_endian).       *)
(*                                                                         *)
(* Code is a sequence of bytes: an opcode followed by its operands, two    *)
(* bytes high byte first or one byte.  Positions are those of the C code,  *)
(* counted from 0, so the byte at position p is code[p + 1].               *)
(***************************************************************************)
EXTENDS Naturals, Sequences

(* enum OpCode *)
OpNames ==
  << "CONSTANT", "ADD", "POP", "SUB", "MUL", "DIV", "LSHIFT", "RSHIFT", "MOD",
     "BIT_OR", "BIT_AND", "BIT_XOR", "TRUE", "FALSE", "EQ", "NOT_EQ",
     "GREATER", "MINUS", "BANG", "JMP_IF_FALSE", "JMP", "NULL", "GET_GLOBAL",
     "SET_GLOBAL", "ARRAY", "HASH", "INDEX", "CALL", "RETURN_VALUE", "RETURN",
     "GET_LOCAL", "SET_LOCAL", "GET_BUILTIN", "CLOSURE", "GET_FREE",
     "CURRENT_CLOSURE", "SET_FREE", "LOOP", "CONTINUE", "BREAK", "AND", "OR",
     "REASSIGN_INDEX" >>

OP_COUNT == Len(OpNames)

Opcode == [name \in {OpNames[i] : i \in 1..OP_COUNT} |->
             (CHOOSE i \in 1..OP_COUNT : OpNames[i] = name) - 1]

NameOf(byte) == OpNames[byte + 1]

(* definitions[].operand_widths *)
Widths(name) ==
  CASE name \in {"CONSTANT", "JMP_IF_FALSE", "JMP", "GET_GLOBAL",
                 "SET_GLOBAL", "ARRAY", "HASH"} -> <<2>>
    [] name \in {"CALL", "GET_LOCAL", "SET_LOCAL", "GET_BUILTIN", "GET_FREE",
                 "SET_FREE", "BREAK"} -> <<1>>
    [] name = "CLOSURE" -> <<2, 1>>
    [] OTHER -> <<>>

(* Mutant: a byte is not cut to its width.                                 *)
WideOperandBytes(width, value) ==
  IF width = 2 THEN <<(value \div 256) % 256, value % 256>> ELSE <<value>>

OperandBytes(width, value) ==
  IF width = 2 THEN <<(value \div 256) % 256, value % 256>>
               ELSE <<value % 256>>

(* Only as many operands as the opcode defines are encoded.                *)
make_instruction(name, operands) ==
  LET bytes(i) == IF i \in DOMAIN Widths(name) \cap DOMAIN operands
                  THEN OperandBytes(Widths(name)[i], operands[i]) ELSE <<>>
  IN  <<Opcode[name]>> \o bytes(1) \o bytes(2)

InstructionLength(name) ==
  1 + (IF Widths(name) = <<>> THEN 0
       ELSE IF Widths(name) = <<2, 1>> THEN 3 ELSE Widths(name)[1])

(* The operands of the instruction at position p.                          *)
OperandAt(code, p, i) ==
  LET name   == NameOf(code[p + 1])
      offset == p + 2 + (IF i = 2 THEN Widths(name)[1] ELSE 0)
  IN  IF Widths(name)[i] = 2 THEN code[offset] * 256 + code[offset + 1]
                             ELSE code[offset]

(* replace_instruction: the bytes of `ins` over those at position p.       *)
Overwrite(code, p, ins) ==
  [i \in 1..Len(code) |->
     IF i \in p + 1..p + Len(ins) THEN ins[i - p] ELSE code[i]]

============================================================================
