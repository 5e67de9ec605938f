---------------------------- MODULE BytecodeFile ----------------------------
(***************************************************************************)
(* Bytecode on disk: written by src/src/code/file_generator.c, read back   *)
(* by src/src/vm/file_loader.c, numbers of two bytes through               *)
(* src/src/big_endian/big_endian.c.                                        *)
(*                                                                         *)
(* A constant is written or read in a step.  A write that fails, or a      *)
(* process that is stopped, leaves some first part of what it has written. *)
(* The file's bytes are kept as they are, those of a number and of an      *)
(* instruction without what they stand for.                                *)
(***************************************************************************)
EXTENDS Integers, Sequences, SequencesExt

CONSTANTS
  ABSENT,  \* there is no file
  JUNK     \* a constant that the end of the file has cut: memory nobody set,
           \* or thousands of bytes that are EOF

VARIABLES
  disk,      \* the file's bytes
  io,        \* what the process is doing with it
  saved,     \* the bytecode that the last compilation has begun to write
  whole,     \* history: it has been written to its end
  constant,  \* constants written or read so far
  position,  \* bytes that have been read
  expected,  \* num_constants
  pool,      \* what has been read: the constants
  ins        \* and the program's instructions

fileVars == <<disk, io, saved, whole, constant, position, expected, pool, ins>>

BYTE == 256

----------------------------------------------------------------------------
(* big_endian.c.  The reader takes its two bytes for signed ones, so that  *)
(* a low byte of 128 or more covers the high one.                          *)

uint16_to_big_endian(n) == <<(n \div BYTE) % BYTE, n % BYTE>>

int8(b) == IF b >= BYTE \div 2 THEN b - BYTE ELSE b

(* Mutant: the high byte is not shifted into place.                        *)
unshifted_to_uint16(high, low) == high + low

big_endian_to_uint16(high, low) ==
  IF int8(low) < 0 THEN BYTE * BYTE + int8(low) ELSE high * BYTE + low

----------------------------------------------------------------------------
(* Writing *)

magic_number == <<77, 79, 78, 75, 69, 89>>   \* "MONKEY"

NUMBER_OBJ == 0
STRING_OBJ == 6
COMPILED_FUNCTION_OBJ == 12
COMPILED_LOOP_OBJ == 14
DOUBLE == 8   \* bytes

write_instructions(is) == uint16_to_big_endian(Len(is)) \o is

write_number_constant(c) == <<c.type>> \o c.value

write_string_constant(c) == <<c.type>> \o uint16_to_big_endian(Len(c.value)) \o c.value

write_function_constant(c) ==
  <<c.type>> \o uint16_to_big_endian(c.num_locals) \o <<c.num_parameters % BYTE>>
             \o write_instructions(c.instructions)

write_loop_constant(c) ==
  <<c.type>> \o uint16_to_big_endian(c.num_locals) \o write_instructions(c.instructions)

write_constant(c) ==
  CASE c.type = NUMBER_OBJ            -> write_number_constant(c)
    [] c.type = STRING_OBJ            -> write_string_constant(c)
    [] c.type = COMPILED_FUNCTION_OBJ -> write_function_constant(c)
    [] c.type = COMPILED_LOOP_OBJ     -> write_loop_constant(c)

Write(bytes) == disk' = disk \o bytes /\ UNCHANGED <<saved, whole, position, expected, pool, ins>>

(* fopen(filename, "wb"): what was there is gone.                          *)
save_to_file(b) ==
  /\ io = "idle"
  /\ io' = "magic"
  /\ disk' = <<>> /\ saved' = b /\ whole' = FALSE
  /\ constant' = 0
  /\ UNCHANGED <<position, expected, pool, ins>>

write_magic_number ==
  /\ io = "magic"
  /\ Write(magic_number \o uint16_to_big_endian(Len(saved.constants)))
  /\ io' = "constants"
  /\ UNCHANGED constant

write_constants ==
  /\ io = "constants" /\ constant < Len(saved.constants)
  /\ Write(write_constant(saved.constants[constant + 1]))
  /\ constant' = constant + 1
  /\ UNCHANGED io

write_program ==
  /\ io = "constants" /\ constant = Len(saved.constants)
  /\ Write(write_instructions(saved.instructions))
  /\ io' = "close"
  /\ UNCHANGED constant

close_file ==
  /\ io = "close"
  /\ whole' = TRUE
  /\ io' = "idle" /\ constant' = 0
  /\ UNCHANGED <<disk, saved, position, expected, pool, ins>>

Writing == io \in {"magic", "constants", "close"}

(* A write fails and the process exits, or it is stopped; what the library *)
(* had not passed on yet is lost.                                          *)
cut_short ==
  /\ Writing
  /\ \E n \in 0 .. Len(disk) : disk' = SubSeq(disk, 1, n)
  /\ io' = "idle" /\ constant' = 0
  /\ UNCHANGED <<saved, whole, position, expected, pool, ins>>

save == write_magic_number \/ write_constants \/ write_program \/ close_file

----------------------------------------------------------------------------
(* Reading.  fgetc(i) is the i-th byte from here; behind the last one it   *)
(* is EOF, of which an int8_t makes the same as of 255.                    *)

fgetc(i) == IF position + i \in DOMAIN disk THEN disk[position + i] ELSE BYTE - 1
Uint16(i) == big_endian_to_uint16(fgetc(i), fgetc(i + 1))
Bytes(i, n) == [k \in 1 .. n |-> fgetc(i + k - 1)]

Constant(c, size) == [value |-> c, size |-> size]

read_number_constant ==
  Constant([type |-> NUMBER_OBJ, value |-> Bytes(2, DOUBLE)], 1 + DOUBLE)

read_string_constant ==
  Constant([type |-> STRING_OBJ, value |-> Bytes(4, Uint16(2))], 3 + Uint16(2))

read_function_constant ==
  Constant([type |-> COMPILED_FUNCTION_OBJ, num_locals |-> Uint16(2),
            num_parameters |-> int8(fgetc(4)), instructions |-> Bytes(7, Uint16(5))],
           6 + Uint16(5))

read_loop_constant ==
  Constant([type |-> COMPILED_LOOP_OBJ, num_locals |-> Uint16(2),
            instructions |-> Bytes(6, Uint16(4))],
           5 + Uint16(4))

ConstantTypes == {NUMBER_OBJ, STRING_OBJ, COMPILED_FUNCTION_OBJ, COMPILED_LOOP_OBJ}

read_constant ==
  CASE fgetc(1) = NUMBER_OBJ            -> read_number_constant
    [] fgetc(1) = STRING_OBJ            -> read_string_constant
    [] fgetc(1) = COMPILED_FUNCTION_OBJ -> read_function_constant
    [] fgetc(1) = COMPILED_LOOP_OBJ     -> read_loop_constant

Exit == io' = "idle" /\ UNCHANGED <<constant, position, expected, pool, ins>>

(* open_source_file, the magic number and the number of constants.         *)
open_binary ==
  /\ io = "idle"
  /\ IF disk = ABSENT \/ ~IsPrefix(magic_number, disk) THEN Exit
     ELSE LET p == Len(magic_number)
          IN  /\ io' = "read"
              /\ position' = p + 2
              /\ expected' = Uint16(p + 1)
              /\ constant' = 0 /\ pool' = <<>> /\ ins' = <<>>
  /\ UNCHANGED <<disk, saved, whole>>

read_constants ==
  /\ io = "read" /\ constant < expected
  /\ IF fgetc(1) \in ConstantTypes
     THEN LET c == read_constant
          IN  /\ pool' = Append(pool, IF position + c.size <= Len(disk) THEN c.value ELSE JUNK)
              /\ position' = position + c.size
              /\ constant' = constant + 1
              /\ UNCHANGED io
     ELSE /\ io' = "dead"   \* "unknown constant value"
          /\ UNCHANGED <<pool, position, constant>>
  /\ UNCHANGED <<disk, saved, whole, expected, ins>>

(* Mutant: as many bytes as the file announces, as for a function.         *)
read_counted ==
  /\ io = "read" /\ constant = expected
  /\ ins' = Bytes(3, Uint16(1))
  /\ io' = "loaded"
  /\ UNCHANGED <<disk, saved, whole, constant, position, expected, pool>>

(* The number of instructions is read and ignored.  Bytes are read until   *)
(* one, as an int8_t, equals EOF.                                          *)
read_program ==
  /\ io = "read" /\ constant = expected
  /\ LET from == position + 2
         n == CHOOSE k \in 0 .. Len(disk) :
                /\ from + k + 1 \in DOMAIN disk => disk[from + k + 1] = BYTE - 1
                /\ \A i \in 1 .. k : from + i \in DOMAIN disk /\ disk[from + i] # BYTE - 1
     IN  ins' = [i \in 1 .. n |-> int8(disk[from + i])]
  /\ io' = "loaded"
  /\ UNCHANGED <<disk, saved, whole, constant, position, expected, pool>>

get_bytecode_from_file == read_constants \/ read_program

(* The machine has run the bytecode, or it has been printed.               *)
close_binary ==
  /\ io \in {"loaded", "dead"}
  /\ io' = "idle"
  /\ constant' = 0 /\ position' = 0 /\ expected' = 0 /\ pool' = <<>> /\ ins' = <<>>
  /\ UNCHANGED <<disk, saved, whole>>

FileInit ==
  /\ disk = ABSENT /\ io = "idle" /\ saved = ABSENT /\ whole = FALSE
  /\ constant = 0 /\ position = 0 /\ expected = 0 /\ pool = <<>> /\ ins = <<>>

(* What a compilation can end with.  The lexer lets no NUL into a string.  *)
Byte == 0 .. BYTE - 1

ConstantObjects ==
  [type : {NUMBER_OBJ}, value : {v \in Seq(Byte) : Len(v) = DOUBLE}]
  \cup [type : {STRING_OBJ}, value : Seq(Byte \ {0})]
  \cup [type : {COMPILED_FUNCTION_OBJ}, num_locals : Nat, num_parameters : Nat,
        instructions : Seq(Byte)]
  \cup [type : {COMPILED_LOOP_OBJ}, num_locals : Nat, instructions : Seq(Byte)]

Bytecodes == [constants : Seq(ConstantObjects), instructions : Seq(Byte)]

FileNext ==
  \/ \E b \in Bytecodes : save_to_file(b)
  \/ save \/ cut_short \/ open_binary \/ get_bytecode_from_file \/ close_binary

FileSpec == FileInit /\ [][FileNext]_fileVars

----------------------------------------------------------------------------
(* Properties *)

(* Numbers that fit two bytes and are read as they were written, and a     *)
(* program none of whose bytes is taken for EOF.                           *)
Readable(n) == n < BYTE * BYTE /\ n % BYTE < BYTE \div 2
ModestConstant(c) ==
  /\ c.type = STRING_OBJ => Readable(Len(c.value))
  /\ c.type \in {COMPILED_FUNCTION_OBJ, COMPILED_LOOP_OBJ} =>
       Readable(c.num_locals) /\ Readable(Len(c.instructions))
  /\ c.type = COMPILED_FUNCTION_OBJ => c.num_parameters < BYTE \div 2
Modest(b) ==
  /\ Readable(Len(b.constants))
  /\ \A i \in DOMAIN b.instructions : b.instructions[i] < BYTE \div 2
  /\ \A c \in ToSet(b.constants) : ModestConstant(c)

AsSaved == pool = saved.constants /\ ins = saved.instructions

(* What a file holds is what is read from it, constant for constant and    *)
(* byte for byte, in any mixture of the four kinds, where no count is read *)
(* through the sign of its low byte.                                       *)
LoadedAsWritten == io = "loaded" /\ whole /\ Modest(saved) => AsSaved

(* From a file that was cut anywhere, the machine gets the first part of   *)
(* the program that was written last, never of the one that was there      *)
(* before; and if it gets any of it, it has every constant as it was.      *)
CutFilesLoadAPrefix ==
  io = "loaded" /\ Modest(saved) =>
    IsPrefix(ins, saved.instructions) /\ (ins # <<>> => pool = saved.constants)

(* bytecode_format_specs.md:35 says of every count: "Any multi byte value  *)
(* is stored in big endian format."  Then any file that is whole would be  *)
(* read as it was written.                                                 *)
CountsAreBigEndian == io = "loaded" /\ whole => AsSaved

=============================================================================
