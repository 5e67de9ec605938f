------------------------- MODULE BytecodeFileProofs -------------------------
(***************************************************************************)
(* A file of bytecode is read back as it was written, and one that was cut *)
(* gives the first part of it, whatever the bytecode.                      *)
(***************************************************************************)
EXTENDS BytecodeFile, SequenceTheorems, TLAPS

(* What of these bytes the file d has from at on is as it should be.       *)
HasBytes(d, at, bytes) == \A i \in 1 .. Len(bytes) : at + i <= Len(d) => d[at + i] = bytes[i]

Header(b)   == magic_number \o uint16_to_big_endian(Len(b.constants))
Piece(b, k) == write_constant(b.constants[k])
Trailer(b)  == write_instructions(b.instructions)

(* The file d is the first part of one with m constants of b, of which the *)
(* k-th ends at off[k], and with b's instructions if there is a program.   *)
Laid(d, b, m, off, program) ==
  /\ HasBytes(d, 0, Header(b))
  /\ off[0] = 8
  /\ \A k \in 1 .. m : /\ off[k] = off[k - 1] + Len(Piece(b, k))
                       /\ HasBytes(d, off[k - 1], Piece(b, k))
  /\ \A k \in 0 .. m : off[k] <= off[m]
  /\ program => m = Len(b.constants) /\ HasBytes(d, off[m], Trailer(b))

End(b, m, off, program) == IF program THEN off[m] + Len(Trailer(b)) ELSE off[m]

----------------------------------------------------------------------------
(* Numbers of two bytes *)

LEMMA Numerals ==
  /\ BYTE = 256
  /\ NUMBER_OBJ = 0 /\ STRING_OBJ = 6 /\ COMPILED_FUNCTION_OBJ = 12 /\ COMPILED_LOOP_OBJ = 14
  /\ DOUBLE = 8
  /\ Byte = 0 .. 255
  BY DEF BYTE, NUMBER_OBJ, STRING_OBJ, COMPILED_FUNCTION_OBJ, COMPILED_LOOP_OBJ, DOUBLE, Byte

LEMMA TwoBytes ==
  ASSUME NEW n \in Nat
  PROVE  /\ uint16_to_big_endian(n) \in Seq(Byte)
         /\ Len(uint16_to_big_endian(n)) = 2
         /\ uint16_to_big_endian(n)[1] = (n \div 256) % 256
         /\ uint16_to_big_endian(n)[2] = n % 256
  BY Numerals DEF uint16_to_big_endian

(* A count that is written is the count that is read.                      *)
LEMMA BigEndian ==
  ASSUME NEW n \in Nat, Readable(n)
  PROVE  big_endian_to_uint16((n \div 256) % 256, n % 256) = n
  <1>1. n < 65536 /\ n % 256 < 128 BY Numerals DEF Readable
  <1>2. int8(n % 256) = n % 256 BY <1>1, Numerals DEF int8
  <1>3. (n \div 256) % 256 = n \div 256 BY <1>1
  <1>4. (n \div 256) * 256 + (n % 256) = n OBVIOUS
  <1>. QED BY <1>2, <1>3, <1>4, Numerals DEF big_endian_to_uint16

(* Two bytes make a count.                                                 *)
LEMMA Uint16Type ==
  ASSUME NEW high \in Byte, NEW low \in Byte
  PROVE  big_endian_to_uint16(high, low) \in Nat
  BY Numerals DEF big_endian_to_uint16, int8

(* EOF twice is the largest one.                                           *)
LEMMA EndIsLarge ==
  ASSUME NEW high \in Byte
  PROVE  big_endian_to_uint16(high, 255) = 65535
  BY Numerals DEF big_endian_to_uint16, int8

----------------------------------------------------------------------------
(* What a constant is made of *)

LEMMA Joined ==
  ASSUME NEW s \in Seq(Byte), NEW t \in Seq(Byte)
  PROVE  /\ s \o t \in Seq(Byte)
         /\ Len(s \o t) = Len(s) + Len(t) /\ Len(s) \in Nat /\ Len(t) \in Nat
         /\ \A i \in 1 .. Len(s) + Len(t) :
              (s \o t)[i] = IF i <= Len(s) THEN s[i] ELSE t[i - Len(s)]
  BY ConcatProperties, LenProperties

NumberPiece(c, w) ==
  /\ c = [type |-> NUMBER_OBJ, value |-> c.value]
  /\ c.value \in Seq(Byte) /\ Len(c.value) = 8
  /\ w \in Seq(Byte) /\ Len(w) = 9
  /\ w[1] = NUMBER_OBJ
  /\ \A i \in 1 .. 8 : w[1 + i] = c.value[i]

LEMMA PieceOfNumber ==
  ASSUME NEW c \in ConstantObjects, c.type = NUMBER_OBJ
  PROVE  NumberPiece(c, write_constant(c))
  <1>1. c \in [type : {NUMBER_OBJ}, value : {v \in Seq(Byte) : Len(v) = DOUBLE}]
    BY Numerals DEF ConstantObjects
  <1>2. /\ c = [type |-> NUMBER_OBJ, value |-> c.value]
        /\ c.value \in Seq(Byte) /\ Len(c.value) = 8
    BY <1>1, Numerals
  <1>3. write_constant(c) = <<c.type>> \o c.value
    BY Numerals DEF write_constant, write_number_constant
  <1>4. <<c.type>> \in Seq(Byte) /\ Len(<<c.type>>) = 1 /\ <<c.type>>[1] = NUMBER_OBJ
    BY Numerals
  <1>5. /\ <<c.type>> \o c.value \in Seq(Byte)
        /\ Len(<<c.type>> \o c.value) = 1 + Len(c.value)
        /\ \A i \in 1 .. 1 + Len(c.value) :
             (<<c.type>> \o c.value)[i] = IF i <= 1 THEN <<c.type>>[i] ELSE c.value[i - 1]
    <2>1. /\ <<c.type>> \o c.value \in Seq(Byte)
          /\ Len(<<c.type>> \o c.value) = Len(<<c.type>>) + Len(c.value)
          /\ \A i \in 1 .. Len(<<c.type>>) + Len(c.value) :
               (<<c.type>> \o c.value)[i] =
                  IF i <= Len(<<c.type>>) THEN <<c.type>>[i] ELSE c.value[i - Len(<<c.type>>)]
      BY <1>2, <1>4, Joined
    <2>. QED BY <1>4, <2>1
  <1>. QED BY <1>2, <1>3, <1>4, <1>5 DEF NumberPiece

StringPiece(c, w) ==
  /\ c = [type |-> STRING_OBJ, value |-> c.value]
  /\ c.value \in Seq(Byte) /\ Len(c.value) \in Nat
  /\ w \in Seq(Byte) /\ Len(w) = 3 + Len(c.value)
  /\ w[1] = STRING_OBJ
  /\ w[2] = (Len(c.value) \div 256) % 256
  /\ w[3] = Len(c.value) % 256
  /\ \A i \in 1 .. Len(c.value) : w[3 + i] = c.value[i]

LEMMA PieceOfString ==
  ASSUME NEW c \in ConstantObjects, c.type = STRING_OBJ
  PROVE  StringPiece(c, write_constant(c))
  <1>1. c \in [type : {STRING_OBJ}, value : Seq(Byte \ {0})]
    BY Numerals DEF ConstantObjects
  <1>2. /\ c = [type |-> STRING_OBJ, value |-> c.value] /\ c.value \in Seq(Byte \ {0})
    BY <1>1
  <1>3. c.value \in Seq(Byte) BY <1>2, SeqMonotonic
  <1>4. PICK n \in Nat : n = Len(c.value) BY <1>3, LenProperties
  <1>. DEFINE s == <<c.type>>
              t == uint16_to_big_endian(n)
  <1>5. write_constant(c) = (s \o t) \o c.value
    <2>1. write_constant(c) = write_string_constant(c) BY Numerals DEF write_constant
    <2>. QED BY <1>4, <2>1 DEF write_string_constant
  <1>6. s \in Seq(Byte) /\ Len(s) = 1 /\ s[1] = STRING_OBJ
    BY Numerals
  <1>7. t \in Seq(Byte) /\ Len(t) = 2 /\ t[1] = (n \div 256) % 256 /\ t[2] = n % 256
    BY TwoBytes
  <1>. HIDE DEF s, t
  <1>8. /\ s \o t \in Seq(Byte) /\ Len(s \o t) = 1 + Len(t)
        /\ \A i \in 1 .. 1 + Len(t) : (s \o t)[i] = IF i <= 1 THEN s[i] ELSE t[i - 1]
    <2>1. /\ s \o t \in Seq(Byte)
          /\ Len(s \o t) = Len(s) + Len(t)
          /\ \A i \in 1 .. Len(s) + Len(t) :
               (s \o t)[i] = IF i <= Len(s) THEN s[i] ELSE t[i - Len(s)]
      BY <1>6, <1>7, Joined
    <2>. QED BY <1>6, <2>1
  <1>. DEFINE h == s \o t
  <1>9. /\ h \in Seq(Byte) /\ Len(h) = 3
        /\ h[1] = STRING_OBJ /\ h[2] = t[1] /\ h[3] = t[2]
    BY <1>6, <1>7, <1>8
  <1>10. write_constant(c) = h \o c.value BY <1>5
  <1>. HIDE DEF h
  <1>11. /\ h \o c.value \in Seq(Byte) /\ Len(h \o c.value) = 3 + Len(c.value)
         /\ \A i \in 1 .. 3 + Len(c.value) :
              (h \o c.value)[i] = IF i <= 3 THEN h[i] ELSE c.value[i - 3]
    <2>1. /\ h \o c.value \in Seq(Byte)
          /\ Len(h \o c.value) = Len(h) + Len(c.value)
          /\ \A i \in 1 .. Len(h) + Len(c.value) :
               (h \o c.value)[i] = IF i <= Len(h) THEN h[i] ELSE c.value[i - Len(h)]
      BY <1>3, <1>9, Joined
    <2>. QED BY <1>9, <2>1
  <1>12. /\ Len(h \o c.value) = 3 + n
         /\ (h \o c.value)[1] = STRING_OBJ
         /\ (h \o c.value)[2] = t[1]
         /\ (h \o c.value)[3] = t[2]
    BY <1>4, <1>9, <1>11
  <1>13. ASSUME NEW i \in 1 .. n PROVE (h \o c.value)[3 + i] = c.value[i]
    <2>1. 3 + i \in 1 .. 3 + Len(c.value) /\ ~(3 + i <= 3) /\ 3 + i - 3 = i BY <1>4
    <2>. QED BY <1>11, <2>1
  <1>14. /\ write_constant(c)[2] = (n \div 256) % 256
         /\ write_constant(c)[3] = n % 256
    BY <1>7, <1>10, <1>12
  <1>. QED BY <1>2, <1>3, <1>4, <1>10, <1>11, <1>12, <1>13, <1>14 DEF StringPiece

(* The number of instructions, and they.                                   *)
LEMMA PieceOfInstructions ==
  ASSUME NEW is \in Seq(Byte)
  PROVE  /\ write_instructions(is) \in Seq(Byte)
         /\ Len(is) \in Nat /\ Len(write_instructions(is)) = 2 + Len(is)
         /\ write_instructions(is)[1] = (Len(is) \div 256) % 256
         /\ write_instructions(is)[2] = Len(is) % 256
         /\ \A i \in 1 .. Len(is) : write_instructions(is)[2 + i] = is[i]
  <1>1. PICK n \in Nat : n = Len(is) BY LenProperties
  <1>. DEFINE t == uint16_to_big_endian(n)
  <1>2. write_instructions(is) = t \o is BY <1>1 DEF write_instructions
  <1>3. t \in Seq(Byte) /\ Len(t) = 2 /\ t[1] = (n \div 256) % 256 /\ t[2] = n % 256
    BY TwoBytes
  <1>. HIDE DEF t
  <1>4. /\ t \o is \in Seq(Byte) /\ Len(t \o is) = 2 + Len(is)
         /\ \A i \in 1 .. 2 + Len(is) :
              (t \o is)[i] = IF i <= 2 THEN t[i] ELSE is[i - 2]
    <2>1. /\ t \o is \in Seq(Byte)
          /\ Len(t \o is) = Len(t) + Len(is)
          /\ \A i \in 1 .. Len(t) + Len(is) :
               (t \o is)[i] = IF i <= Len(t) THEN t[i] ELSE is[i - Len(t)]
      BY <1>3, Joined
    <2>. QED BY <1>3, <2>1
  <1>5. /\ Len(t \o is) = 2 + n
        /\ (t \o is)[1] = t[1] /\ (t \o is)[2] = t[2]
        /\ \A i \in 1 .. n : (t \o is)[2 + i] = is[i]
    BY <1>1, <1>3, <1>4
  <1>. QED BY <1>1, <1>2, <1>3, <1>4, <1>5

LoopPiece(c, w) ==
  /\ c = [type |-> COMPILED_LOOP_OBJ, num_locals |-> c.num_locals,
          instructions |-> c.instructions]
  /\ c.num_locals \in Nat
  /\ c.instructions \in Seq(Byte) /\ Len(c.instructions) \in Nat
  /\ w \in Seq(Byte)
  /\ Len(w) = 5 + Len(c.instructions)
  /\ w[1] = COMPILED_LOOP_OBJ
  /\ w[2] = (c.num_locals \div 256) % 256
  /\ w[3] = c.num_locals % 256
  /\ w[4] = (Len(c.instructions) \div 256) % 256
  /\ w[5] = Len(c.instructions) % 256
  /\ \A i \in 1 .. Len(c.instructions) : w[5 + i] = c.instructions[i]

LEMMA PieceOfLoop ==
  ASSUME NEW c \in ConstantObjects, c.type = COMPILED_LOOP_OBJ
  PROVE  LoopPiece(c, write_constant(c))
  <1>1. c \in [type : {COMPILED_LOOP_OBJ}, num_locals : Nat, instructions : Seq(Byte)]
    BY Numerals DEF ConstantObjects
  <1>2. /\ c = [type |-> COMPILED_LOOP_OBJ, num_locals |-> c.num_locals,
                instructions |-> c.instructions]
        /\ c.instructions \in Seq(Byte) /\ c.num_locals \in Nat
    BY <1>1
  <1>3. PICK n \in Nat : n = Len(c.instructions) BY <1>2, LenProperties
  <1>. DEFINE s == <<c.type>>
              t == uint16_to_big_endian(c.num_locals)
              w == write_instructions(c.instructions)
  <1>5. write_constant(c) = (s \o t) \o w
    <2>1. write_constant(c) = write_loop_constant(c) BY Numerals DEF write_constant
    <2>. QED BY <2>1 DEF write_loop_constant
  <1>6. s \in Seq(Byte) /\ Len(s) = 1 /\ s[1] = COMPILED_LOOP_OBJ
    BY Numerals
  <1>7. /\ t \in Seq(Byte) /\ Len(t) = 2
        /\ t[1] = (c.num_locals \div 256) % 256 /\ t[2] = c.num_locals % 256
    BY <1>2, TwoBytes
  <1>8. /\ w \in Seq(Byte) /\ Len(w) = 2 + n
        /\ w[1] = (n \div 256) % 256 /\ w[2] = n % 256
        /\ \A i \in 1 .. n : w[2 + i] = c.instructions[i]
    <2>1. /\ w \in Seq(Byte) /\ Len(w) = 2 + Len(c.instructions)
          /\ w[1] = (Len(c.instructions) \div 256) % 256 /\ w[2] = Len(c.instructions) % 256
          /\ \A i \in 1 .. Len(c.instructions) : w[2 + i] = c.instructions[i]
      BY <1>2, PieceOfInstructions
    <2>. QED BY <1>3, <2>1
  <1>. HIDE DEF s, t, w
  <1>9. /\ s \o t \in Seq(Byte) /\ Len(s \o t) = 1 + Len(t)
         /\ \A i \in 1 .. 1 + Len(t) :
              (s \o t)[i] = IF i <= 1 THEN s[i] ELSE t[i - 1]
    <2>1. /\ s \o t \in Seq(Byte)
          /\ Len(s \o t) = Len(s) + Len(t)
          /\ \A i \in 1 .. Len(s) + Len(t) :
               (s \o t)[i] = IF i <= Len(s) THEN s[i] ELSE t[i - Len(s)]
      BY <1>6, <1>7, Joined
    <2>. QED BY <1>6, <2>1
  <1>10. /\ s \o t \in Seq(Byte) /\ Len(s \o t) = 3
         /\ (s \o t)[1] = COMPILED_LOOP_OBJ /\ (s \o t)[2] = t[1] /\ (s \o t)[3] = t[2]
    BY <1>6, <1>7, <1>9
  <1>. DEFINE h == s \o t
  <1>11. /\ h \in Seq(Byte) /\ Len(h) = 3
         /\ h[1] = COMPILED_LOOP_OBJ /\ h[2] = t[1] /\ h[3] = t[2]
    BY <1>10
  <1>12. write_constant(c) = h \o w BY <1>5
  <1>. HIDE DEF h
  <1>13. /\ h \o w \in Seq(Byte) /\ Len(h \o w) = 3 + Len(w)
         /\ \A i \in 1 .. 3 + Len(w) :
              (h \o w)[i] = IF i <= 3 THEN h[i] ELSE w[i - 3]
    <2>1. /\ h \o w \in Seq(Byte)
          /\ Len(h \o w) = Len(h) + Len(w)
          /\ \A i \in 1 .. Len(h) + Len(w) :
               (h \o w)[i] = IF i <= Len(h) THEN h[i] ELSE w[i - Len(h)]
      BY <1>8, <1>11, Joined
    <2>. QED BY <1>11, <2>1
  <1>14. /\ Len(h \o w) = 5 + n
         /\ (h \o w)[1] = COMPILED_LOOP_OBJ
         /\ (h \o w)[2] = t[1]
         /\ (h \o w)[3] = t[2]
         /\ (h \o w)[4] = w[1]
         /\ (h \o w)[5] = w[2]
    BY <1>8, <1>11, <1>13
  <1>15. ASSUME NEW i \in 1 .. n PROVE (h \o w)[5 + i] = c.instructions[i]
    <2>1. 5 + i \in 1 .. 3 + Len(w) /\ ~(5 + i <= 3) /\ 5 + i - 3 = 2 + i BY <1>8
    <2>. QED BY <1>8, <1>13, <2>1
  <1>16. /\ write_constant(c)[2] = (c.num_locals \div 256) % 256
         /\ write_constant(c)[3] = c.num_locals % 256
         /\ write_constant(c)[4] = (n \div 256) % 256
         /\ write_constant(c)[5] = n % 256
    BY <1>7, <1>8, <1>12, <1>14
  <1>17. \A i \in 1 .. Len(c.instructions) : write_constant(c)[5 + i] = c.instructions[i]
    BY <1>3, <1>12, <1>15
  <1>18. /\ write_constant(c) \in Seq(Byte) /\ write_constant(c)[1] = COMPILED_LOOP_OBJ
         /\ Len(write_constant(c)) = 5 + Len(c.instructions) /\ Len(c.instructions) \in Nat
    BY <1>3, <1>12, <1>13, <1>14
  <1>. QED BY <1>2, <1>3, <1>16, <1>17, <1>18 DEF LoopPiece

FunctionPiece(c, w) ==
  /\ c = [type |-> COMPILED_FUNCTION_OBJ, num_locals |-> c.num_locals,
          num_parameters |-> c.num_parameters, instructions |-> c.instructions]
  /\ c.num_locals \in Nat /\ c.num_parameters \in Nat
  /\ c.instructions \in Seq(Byte) /\ Len(c.instructions) \in Nat
  /\ w \in Seq(Byte)
  /\ Len(w) = 6 + Len(c.instructions)
  /\ w[1] = COMPILED_FUNCTION_OBJ
  /\ w[2] = (c.num_locals \div 256) % 256
  /\ w[3] = c.num_locals % 256
  /\ w[4] = c.num_parameters % 256
  /\ w[5] = (Len(c.instructions) \div 256) % 256
  /\ w[6] = Len(c.instructions) % 256
  /\ \A i \in 1 .. Len(c.instructions) : w[6 + i] = c.instructions[i]

LEMMA PieceOfFunction ==
  ASSUME NEW c \in ConstantObjects, c.type = COMPILED_FUNCTION_OBJ
  PROVE  FunctionPiece(c, write_constant(c))
  <1>1. c \in [type : {COMPILED_FUNCTION_OBJ}, num_locals : Nat, num_parameters : Nat,
               instructions : Seq(Byte)]
    BY Numerals DEF ConstantObjects
  <1>2. /\ c = [type |-> COMPILED_FUNCTION_OBJ, num_locals |-> c.num_locals,
                num_parameters |-> c.num_parameters, instructions |-> c.instructions]
        /\ c.instructions \in Seq(Byte) /\ c.num_locals \in Nat /\ c.num_parameters \in Nat
    BY <1>1
  <1>3. PICK n \in Nat : n = Len(c.instructions) BY <1>2, LenProperties
  <1>4. PICK q \in Byte : q = c.num_parameters % 256
    <2>1. PICK k \in Nat : k = c.num_parameters BY <1>2
    <2>2. k % 256 \in 0 .. 255 BY <2>1
    <2>. QED BY <2>1, <2>2, Numerals
  <1>. DEFINE s == <<c.type>>
              t == uint16_to_big_endian(c.num_locals)
              r == <<q>>
              w == write_instructions(c.instructions)
  <1>5. write_constant(c) = ((s \o t) \o r) \o w
    <2>1. write_constant(c) = write_function_constant(c) BY Numerals DEF write_constant
    <2>. QED BY <1>4, <2>1, Numerals DEF write_function_constant
  <1>6. /\ s \in Seq(Byte) /\ Len(s) = 1 /\ s[1] = COMPILED_FUNCTION_OBJ
        /\ r \in Seq(Byte) /\ Len(r) = 1 /\ r[1] = q
    BY Numerals
  <1>7. /\ t \in Seq(Byte) /\ Len(t) = 2
        /\ t[1] = (c.num_locals \div 256) % 256 /\ t[2] = c.num_locals % 256
    BY <1>2, TwoBytes
  <1>8. /\ w \in Seq(Byte) /\ Len(w) = 2 + n
        /\ w[1] = (n \div 256) % 256 /\ w[2] = n % 256
        /\ \A i \in 1 .. n : w[2 + i] = c.instructions[i]
    <2>1. /\ w \in Seq(Byte) /\ Len(w) = 2 + Len(c.instructions)
          /\ w[1] = (Len(c.instructions) \div 256) % 256 /\ w[2] = Len(c.instructions) % 256
          /\ \A i \in 1 .. Len(c.instructions) : w[2 + i] = c.instructions[i]
      BY <1>2, PieceOfInstructions
    <2>. QED BY <1>3, <2>1
  <1>. HIDE DEF s, t, r, w
  <1>9. /\ s \o t \in Seq(Byte) /\ Len(s \o t) = 1 + Len(t)
         /\ \A i \in 1 .. 1 + Len(t) :
              (s \o t)[i] = IF i <= 1 THEN s[i] ELSE t[i - 1]
    <2>1. /\ s \o t \in Seq(Byte)
          /\ Len(s \o t) = Len(s) + Len(t)
          /\ \A i \in 1 .. Len(s) + Len(t) :
               (s \o t)[i] = IF i <= Len(s) THEN s[i] ELSE t[i - Len(s)]
      BY <1>6, <1>7, Joined
    <2>. QED BY <1>6, <2>1
  <1>10. /\ s \o t \in Seq(Byte) /\ Len(s \o t) = 3
         /\ (s \o t)[1] = COMPILED_FUNCTION_OBJ /\ (s \o t)[2] = t[1] /\ (s \o t)[3] = t[2]
    BY <1>6, <1>7, <1>9
  <1>11. /\ (s \o t) \o r \in Seq(Byte) /\ Len((s \o t) \o r) = 3 + Len(r)
         /\ \A i \in 1 .. 3 + Len(r) :
              ((s \o t) \o r)[i] = IF i <= 3 THEN (s \o t)[i] ELSE r[i - 3]
    <2>1. /\ (s \o t) \o r \in Seq(Byte)
          /\ Len((s \o t) \o r) = Len((s \o t)) + Len(r)
          /\ \A i \in 1 .. Len((s \o t)) + Len(r) :
               ((s \o t) \o r)[i] = IF i <= Len((s \o t)) THEN (s \o t)[i] ELSE r[i - Len((s \o t))]
      BY <1>6, <1>10, Joined
    <2>. QED BY <1>10, <2>1
  <1>. DEFINE h == (s \o t) \o r
  <1>12. /\ h \in Seq(Byte) /\ Len(h) = 4
         /\ h[1] = COMPILED_FUNCTION_OBJ /\ h[2] = t[1] /\ h[3] = t[2] /\ h[4] = q
    BY <1>6, <1>10, <1>11
  <1>13. write_constant(c) = h \o w BY <1>5
  <1>. HIDE DEF h
  <1>14. /\ h \o w \in Seq(Byte) /\ Len(h \o w) = 4 + Len(w)
         /\ \A i \in 1 .. 4 + Len(w) :
              (h \o w)[i] = IF i <= 4 THEN h[i] ELSE w[i - 4]
    <2>1. /\ h \o w \in Seq(Byte)
          /\ Len(h \o w) = Len(h) + Len(w)
          /\ \A i \in 1 .. Len(h) + Len(w) :
               (h \o w)[i] = IF i <= Len(h) THEN h[i] ELSE w[i - Len(h)]
      BY <1>8, <1>12, Joined
    <2>. QED BY <1>12, <2>1
  <1>15. /\ Len(h \o w) = 6 + n
         /\ (h \o w)[1] = COMPILED_FUNCTION_OBJ
         /\ (h \o w)[2] = t[1]
         /\ (h \o w)[3] = t[2]
         /\ (h \o w)[4] = q
         /\ (h \o w)[5] = w[1]
         /\ (h \o w)[6] = w[2]
    BY <1>8, <1>12, <1>14
  <1>16. ASSUME NEW i \in 1 .. n PROVE (h \o w)[6 + i] = c.instructions[i]
    <2>1. 6 + i \in 1 .. 4 + Len(w) /\ ~(6 + i <= 4) /\ 6 + i - 4 = 2 + i BY <1>8
    <2>. QED BY <1>8, <1>14, <2>1
  <1>17. /\ write_constant(c)[2] = (c.num_locals \div 256) % 256
         /\ write_constant(c)[3] = c.num_locals % 256
         /\ write_constant(c)[5] = (n \div 256) % 256
         /\ write_constant(c)[6] = n % 256
    BY <1>7, <1>8, <1>13, <1>15
  <1>18. \A i \in 1 .. Len(c.instructions) : write_constant(c)[6 + i] = c.instructions[i]
    BY <1>3, <1>13, <1>16
  <1>19. /\ write_constant(c) \in Seq(Byte) /\ write_constant(c)[1] = COMPILED_FUNCTION_OBJ
         /\ write_constant(c)[4] = c.num_parameters % 256
         /\ Len(write_constant(c)) = 6 + Len(c.instructions) /\ Len(c.instructions) \in Nat
    BY <1>3, <1>4, <1>13, <1>14, <1>15
  <1>. QED BY <1>2, <1>3, <1>17, <1>18, <1>19 DEF FunctionPiece

LEMMA PieceType ==
  ASSUME NEW c \in ConstantObjects
  PROVE  /\ c.type \in ConstantTypes
         /\ write_constant(c) \in Seq(Byte)
         /\ Len(write_constant(c)) \in Nat /\ Len(write_constant(c)) > 0
         /\ write_constant(c)[1] = c.type
  <1>1. c.type \in ConstantTypes BY DEF ConstantObjects, ConstantTypes
  <1>2. /\ write_constant(c) \in Seq(Byte)
        /\ Len(write_constant(c)) \in Nat /\ Len(write_constant(c)) > 0
        /\ write_constant(c)[1] = c.type
    <2>1. CASE c.type = NUMBER_OBJ
      <3>1. NumberPiece(c, write_constant(c)) BY <2>1, PieceOfNumber
      <3>2. 9 \in Nat /\ 9 > 0 BY <3>1 DEF NumberPiece
      <3>. QED BY <2>1, <3>1, <3>2 DEF NumberPiece
    <2>2. CASE c.type = STRING_OBJ
      <3>1. StringPiece(c, write_constant(c)) BY <2>2, PieceOfString
      <3>2. 3 + Len(c.value) \in Nat /\ 3 + Len(c.value) > 0 BY <3>1 DEF StringPiece
      <3>. QED BY <2>2, <3>1, <3>2 DEF StringPiece
    <2>3. CASE c.type = COMPILED_FUNCTION_OBJ
      <3>1. FunctionPiece(c, write_constant(c)) BY <2>3, PieceOfFunction
      <3>2. 6 + Len(c.instructions) \in Nat /\ 6 + Len(c.instructions) > 0 BY <3>1 DEF FunctionPiece
      <3>. QED BY <2>3, <3>1, <3>2 DEF FunctionPiece
    <2>4. CASE c.type = COMPILED_LOOP_OBJ
      <3>1. LoopPiece(c, write_constant(c)) BY <2>4, PieceOfLoop
      <3>2. 5 + Len(c.instructions) \in Nat /\ 5 + Len(c.instructions) > 0 BY <3>1 DEF LoopPiece
      <3>. QED BY <2>4, <3>1, <3>2 DEF LoopPiece
    <2>. QED BY <1>1, <2>1, <2>2, <2>3, <2>4 DEF ConstantTypes
  <1>. QED BY <1>1, <1>2

----------------------------------------------------------------------------
(* Reading a constant *)

LEMMA FileBytes ==
  ASSUME disk \in Seq(Byte), position \in Nat
  PROVE  /\ Len(disk) \in Nat
         /\ \A i \in Nat \ {0} :
              /\ fgetc(i) \in Byte
              /\ fgetc(i) = IF position + i <= Len(disk) THEN disk[position + i] ELSE 255
  <1>1. /\ Len(disk) \in Nat /\ DOMAIN disk = 1 .. Len(disk)
        /\ \A i \in 1 .. Len(disk) : disk[i] \in Byte
    OBVIOUS
  <1>2. ASSUME NEW i \in Nat \ {0}
        PROVE  /\ fgetc(i) \in Byte
               /\ fgetc(i) = IF position + i <= Len(disk) THEN disk[position + i] ELSE 255
    <2>1. position + i \in DOMAIN disk <=> position + i <= Len(disk) BY <1>1
    <2>2. fgetc(i) = IF position + i <= Len(disk) THEN disk[position + i] ELSE 255
      BY <2>1, Numerals DEF fgetc
    <2>3. position + i <= Len(disk) => disk[position + i] \in Byte BY <1>1
    <2>4. 255 \in Byte BY Numerals
    <2>. QED BY <2>2, <2>3, <2>4
  <1>. QED BY <1>1, <1>2

LEMMA ByteHeld ==
  ASSUME disk \in Seq(Byte), position \in Nat,
         NEW w \in Seq(Byte), HasBytes(disk, position, w),
         NEW i \in 1 .. Len(w), position + i <= Len(disk)
  PROVE  fgetc(i) = w[i]
  <1>1. i \in Nat \ {0} BY LenProperties
  <1>2. disk[position + i] = w[i] BY DEF HasBytes
  <1>. QED BY <1>1, <1>2, FileBytes

(* What follows the first bytes of what is written is read as it is.       *)
LEMMA BytesHeld ==
  ASSUME disk \in Seq(Byte), position \in Nat,
         NEW w \in Seq(Byte), HasBytes(disk, position, w),
         NEW v \in Seq(Byte), NEW at \in Nat, at + Len(v) <= Len(w),
         \A i \in 1 .. Len(v) : w[at + i] = v[i],
         position + at + Len(v) <= Len(disk)
  PROVE  Bytes(at + 1, Len(v)) = v
  <1>1. Len(v) \in Nat /\ Len(w) \in Nat /\ Len(disk) \in Nat BY LenProperties
  <1>2. ASSUME NEW k \in 1 .. Len(v) PROVE fgetc(at + 1 + k - 1) = v[k]
    <2>1. PICK i \in 1 .. Len(w) : i = at + k BY <1>1
    <2>2. position + i <= Len(disk) BY <1>1, <2>1
    <2>3. fgetc(i) = w[i] BY <2>2, ByteHeld
    <2>4. at + 1 + k - 1 = i BY <2>1
    <2>. QED BY <2>1, <2>3, <2>4
  <1>3. v = [k \in 1 .. Len(v) |-> v[k]] OBVIOUS
  <1>. QED BY <1>2, <1>3 DEF Bytes

(* So is a count.                                                          *)
LEMMA CountHeld ==
  ASSUME disk \in Seq(Byte), position \in Nat,
         NEW w \in Seq(Byte), HasBytes(disk, position, w),
         NEW i \in Nat \ {0}, i + 1 <= Len(w), position + i + 1 <= Len(disk),
         NEW n \in Nat, Readable(n), w[i] = (n \div 256) % 256, w[i + 1] = n % 256
  PROVE  Uint16(i) = n
  <1>1. Len(w) \in Nat /\ Len(disk) \in Nat BY LenProperties
  <1>2. PICK j \in Nat \ {0} : j = i + 1 OBVIOUS
  <1>3. i \in 1 .. Len(w) /\ position + i <= Len(disk) BY <1>1
  <1>4. j \in 1 .. Len(w) /\ position + j <= Len(disk) BY <1>1, <1>2
  <1>5. fgetc(i) = w[i] BY <1>3, ByteHeld
  <1>6. fgetc(j) = w[j] BY <1>4, ByteHeld
  <1>7. Uint16(i) = big_endian_to_uint16((n \div 256) % 256, n % 256)
    BY <1>2, <1>5, <1>6 DEF Uint16
  <1>. QED BY <1>7, BigEndian

LEMMA CountType ==
  ASSUME disk \in Seq(Byte), position \in Nat, NEW i \in Nat \ {0}
  PROVE  Uint16(i) \in Nat
  <1>1. fgetc(i) \in Byte BY FileBytes
  <1>2. fgetc(i + 1) \in Byte
    <2>1. i + 1 \in Nat \ {0} OBVIOUS
    <2>. QED BY <2>1, FileBytes
  <1>. QED BY <1>1, <1>2, Uint16Type DEF Uint16

(* It reads w, which is there whole, to the constant c, or ends behind the *)
(* end of the file.                                                        *)
ReadsAs(c, w) ==
  /\ fgetc(1) \in ConstantTypes
  /\ read_constant.size \in Nat
  /\ position + read_constant.size <= Len(disk) => /\ read_constant.value = c
                                                   /\ read_constant.size = Len(w)
  /\ position + Len(w) <= Len(disk) => read_constant.size = Len(w)

LEMMA ReadsNumber ==
  ASSUME disk \in Seq(Byte), position \in Nat, position + 1 <= Len(disk),
         NEW c \in ConstantObjects, c.type = NUMBER_OBJ,
         HasBytes(disk, position, write_constant(c))
  PROVE  ReadsAs(c, write_constant(c))
  <1>20. NumberPiece(c, write_constant(c)) BY PieceOfNumber
  <1>1. PICK w \in Seq(Byte) : w = write_constant(c) /\ NumberPiece(c, w)
    BY <1>20 DEF NumberPiece
  <1>2. PICK v \in Seq(Byte) : v = c.value BY <1>1 DEF NumberPiece
  <1>3. /\ c = [type |-> NUMBER_OBJ, value |-> v] /\ Len(v) = 8
        /\ Len(w) = 9 /\ w[1] = NUMBER_OBJ /\ \A i \in 1 .. 8 : w[1 + i] = v[i]
    BY <1>1, <1>2 DEF NumberPiece
  <1>4. fgetc(1) = NUMBER_OBJ
    <2>1. 1 \in 1 .. Len(w) BY <1>3
    <2>. QED BY <1>1, <1>3, <2>1, ByteHeld
  <1>5. /\ read_constant = read_number_constant
        /\ read_constant.size = 9
        /\ read_constant.value = [type |-> NUMBER_OBJ, value |-> Bytes(2, 8)]
    BY <1>4, Numerals DEF read_constant, read_number_constant, Constant
  <1>6. ASSUME position + 9 <= Len(disk) PROVE Bytes(2, 8) = v
    <2>1. /\ 1 + Len(v) <= Len(w) /\ \A i \in 1 .. Len(v) : w[1 + i] = v[i]
          /\ position + 1 + Len(v) <= Len(disk)
      BY <1>3, <1>6
    <2>2. Bytes(1 + 1, Len(v)) = v BY <1>1, <2>1, BytesHeld
    <2>. QED BY <1>3, <2>2
  <1>. QED BY <1>1, <1>3, <1>4, <1>5, <1>6 DEF ReadsAs, ConstantTypes

LEMMA ReadsString ==
  ASSUME disk \in Seq(Byte), position \in Nat, position + 1 <= Len(disk),
         NEW c \in ConstantObjects, c.type = STRING_OBJ, ModestConstant(c),
         HasBytes(disk, position, write_constant(c))
  PROVE  ReadsAs(c, write_constant(c))
  <1>20. StringPiece(c, write_constant(c)) BY PieceOfString
  <1>1. PICK w \in Seq(Byte) : w = write_constant(c) /\ StringPiece(c, w)
    BY <1>20 DEF StringPiece
  <1>2. PICK v \in Seq(Byte) : v = c.value BY <1>1 DEF StringPiece
  <1>3. PICK n \in Nat : n = Len(v) BY <1>2, LenProperties
  <1>4. /\ c = [type |-> STRING_OBJ, value |-> v] /\ Readable(n)
        /\ Len(w) = 3 + n /\ w[1] = STRING_OBJ
        /\ w[2] = (n \div 256) % 256 /\ w[2 + 1] = n % 256
        /\ \A i \in 1 .. n : w[3 + i] = v[i]
    <2>1. 2 + 1 = 3 OBVIOUS
    <2>2. Readable(n) BY <1>2, <1>3 DEF ModestConstant
    <2>3. /\ c = [type |-> STRING_OBJ, value |-> c.value]
          /\ Len(w) = 3 + Len(c.value) /\ w[1] = STRING_OBJ
          /\ w[2] = (Len(c.value) \div 256) % 256 /\ w[3] = Len(c.value) % 256
          /\ \A i \in 1 .. Len(c.value) : w[3 + i] = c.value[i]
      BY <1>1 DEF StringPiece
    <2>. QED BY <1>2, <1>3, <2>1, <2>2, <2>3
  <1>5. fgetc(1) = STRING_OBJ
    <2>1. 1 \in 1 .. Len(w) BY <1>4
    <2>. QED BY <1>1, <1>4, <2>1, ByteHeld
  <1>6. PICK u \in Nat : u = Uint16(2) BY CountType
  <1>7. /\ read_constant = read_string_constant
        /\ read_constant.size = 3 + u
        /\ read_constant.value = [type |-> STRING_OBJ, value |-> Bytes(4, u)]
    BY <1>5, <1>6, Numerals DEF read_constant, read_string_constant, Constant
  <1>8. ASSUME position + 3 <= Len(disk) PROVE u = n
    <2>1. 2 + 1 <= Len(w) /\ position + 2 + 1 <= Len(disk) BY <1>4, <1>8
    <2>2. /\ Readable(n) /\ w[2] = (n \div 256) % 256 /\ w[2 + 1] = n % 256
          /\ HasBytes(disk, position, w)
      BY <1>1, <1>4
    <2>3. Uint16(2) = n BY <2>1, <2>2, CountHeld
    <2>. QED BY <1>6, <2>3
  <1>9. ASSUME position + 3 + n <= Len(disk) PROVE Bytes(4, n) = v
    <2>1. /\ 3 + Len(v) <= Len(w) /\ \A i \in 1 .. Len(v) : w[3 + i] = v[i]
          /\ position + 3 + Len(v) <= Len(disk)
      BY <1>3, <1>4, <1>9
    <2>2. Bytes(3 + 1, Len(v)) = v BY <1>1, <2>1, BytesHeld
    <2>. QED BY <1>3, <2>2
  <1>10. Len(disk) \in Nat BY LenProperties
  <1>11. ASSUME position + (3 + u) <= Len(disk) \/ position + (3 + n) <= Len(disk)
         PROVE  position + 3 <= Len(disk) /\ u = n /\ position + 3 + n <= Len(disk)
    <2>1. position + 3 <= Len(disk) BY <1>10, <1>11
    <2>2. u = n BY <2>1, <1>8
    <2>. QED BY <2>1, <2>2, <1>10, <1>11
  <1>. QED BY <1>1, <1>4, <1>5, <1>7, <1>9, <1>11 DEF ReadsAs, ConstantTypes

LEMMA ReadsLoop ==
  ASSUME disk \in Seq(Byte), position \in Nat, position + 1 <= Len(disk),
         NEW c \in ConstantObjects, c.type = COMPILED_LOOP_OBJ, ModestConstant(c),
         HasBytes(disk, position, write_constant(c))
  PROVE  ReadsAs(c, write_constant(c))
  <1>20. LoopPiece(c, write_constant(c)) BY PieceOfLoop
  <1>1. PICK w \in Seq(Byte) : w = write_constant(c) /\ LoopPiece(c, w)
    BY <1>20 DEF LoopPiece
  <1>2. PICK v \in Seq(Byte) : v = c.instructions BY <1>1 DEF LoopPiece
  <1>3. PICK n \in Nat : n = Len(v) BY <1>2, LenProperties
  <1>12. PICK l \in Nat : l = c.num_locals BY <1>1 DEF LoopPiece
  <1>4. /\ c = [type |-> COMPILED_LOOP_OBJ, num_locals |-> l, instructions |-> v]
        /\ Readable(n) /\ Readable(l)
        /\ Len(w) = 5 + n /\ w[1] = COMPILED_LOOP_OBJ
        /\ w[2] = (l \div 256) % 256 /\ w[2 + 1] = l % 256
        /\ w[4] = (n \div 256) % 256 /\ w[4 + 1] = n % 256
        /\ \A i \in 1 .. n : w[5 + i] = v[i]
    <2>1. 2 + 1 = 3 /\ 4 + 1 = 5 OBVIOUS
    <2>2. Readable(n) /\ Readable(l) BY <1>2, <1>3, <1>12 DEF ModestConstant
    <2>3. /\ c = [type |-> COMPILED_LOOP_OBJ, num_locals |-> c.num_locals,
                  instructions |-> c.instructions]
          /\ Len(w) = 5 + Len(c.instructions) /\ w[1] = COMPILED_LOOP_OBJ
          /\ w[2] = (c.num_locals \div 256) % 256 /\ w[3] = c.num_locals % 256
          /\ w[4] = (Len(c.instructions) \div 256) % 256
          /\ w[5] = Len(c.instructions) % 256
          /\ \A i \in 1 .. Len(c.instructions) : w[5 + i] = c.instructions[i]
      BY <1>1 DEF LoopPiece
    <2>. QED BY <1>2, <1>3, <1>12, <2>1, <2>2, <2>3
  <1>5. fgetc(1) = COMPILED_LOOP_OBJ
    <2>1. 1 \in 1 .. Len(w) BY <1>4
    <2>. QED BY <1>1, <1>4, <2>1, ByteHeld
  <1>6. PICK u \in Nat : u = Uint16(4) BY CountType
  <1>7. /\ read_constant = read_loop_constant
        /\ read_constant.size = 5 + u
        /\ read_constant.value = [type |-> COMPILED_LOOP_OBJ, num_locals |-> Uint16(2),
                                  instructions |-> Bytes(6, u)]
    BY <1>5, <1>6, Numerals DEF read_constant, read_loop_constant, Constant
  <1>8. ASSUME position + 5 <= Len(disk) PROVE u = n /\ Uint16(2) = l
    <2>1. 4 + 1 <= Len(w) /\ position + 4 + 1 <= Len(disk) BY <1>4, <1>8
    <2>2. 2 + 1 <= Len(w) /\ position + 2 + 1 <= Len(disk)
      <3>1. Len(disk) \in Nat BY LenProperties
      <3>. QED BY <1>4, <1>8, <3>1
    <2>3. u = n
      <3>1. /\ Readable(n) /\ w[4] = (n \div 256) % 256 /\ w[4 + 1] = n % 256
            /\ 4 + 1 <= Len(w) /\ position + 4 + 1 <= Len(disk)
            /\ HasBytes(disk, position, w)
        BY <1>1, <1>4, <2>1
      <3>2. Uint16(4) = n BY <3>1, CountHeld
      <3>. QED BY <1>6, <3>2
    <2>4. Uint16(2) = l
      <3>1. /\ Readable(l) /\ w[2] = (l \div 256) % 256 /\ w[2 + 1] = l % 256
            /\ 2 + 1 <= Len(w) /\ position + 2 + 1 <= Len(disk)
            /\ HasBytes(disk, position, w)
        BY <1>1, <1>4, <2>2
      <3>2. Uint16(2) = l BY <3>1, CountHeld
      <3>. QED BY <3>2
    <2>. QED BY <2>3, <2>4
  <1>9. ASSUME position + 5 + n <= Len(disk) PROVE Bytes(6, n) = v
    <2>1. /\ 5 + Len(v) <= Len(w) /\ \A i \in 1 .. Len(v) : w[5 + i] = v[i]
          /\ position + 5 + Len(v) <= Len(disk)
      BY <1>3, <1>4, <1>9
    <2>2. Bytes(5 + 1, Len(v)) = v BY <1>1, <2>1, BytesHeld
    <2>. QED BY <1>3, <2>2
  <1>10. Len(disk) \in Nat BY LenProperties
  <1>11. ASSUME position + (5 + u) <= Len(disk) \/ position + (5 + n) <= Len(disk)
         PROVE  u = n /\ Uint16(2) = l /\ position + 5 + n <= Len(disk)
    <2>1. position + 5 <= Len(disk) BY <1>10, <1>11
    <2>2. u = n /\ Uint16(2) = l BY <2>1, <1>8
    <2>. QED BY <2>1, <2>2, <1>10, <1>11
  <1>14. position + read_constant.size <= Len(disk)
           => read_constant.value = c /\ read_constant.size = Len(w)
    BY <1>4, <1>7, <1>9, <1>11
  <1>15. position + Len(w) <= Len(disk) => read_constant.size = Len(w)
    BY <1>4, <1>7, <1>11
  <1>16. read_constant.size \in Nat /\ fgetc(1) \in ConstantTypes
    BY <1>5, <1>7 DEF ConstantTypes
  <1>. QED BY <1>1, <1>14, <1>15, <1>16 DEF ReadsAs

LEMMA ReadsFunction ==
  ASSUME disk \in Seq(Byte), position \in Nat, position + 1 <= Len(disk),
         NEW c \in ConstantObjects, c.type = COMPILED_FUNCTION_OBJ, ModestConstant(c),
         HasBytes(disk, position, write_constant(c))
  PROVE  ReadsAs(c, write_constant(c))
  <1>0. c.num_parameters < 128
    <2>1. c.num_parameters < BYTE \div 2 BY DEF ModestConstant
    <2>2. BYTE \div 2 = 128 BY Numerals
    <2>. QED BY <2>1, <2>2
  <1>20. FunctionPiece(c, write_constant(c)) BY PieceOfFunction
  <1>1. PICK w \in Seq(Byte) : w = write_constant(c) /\ FunctionPiece(c, w)
    BY <1>20 DEF FunctionPiece
  <1>2. PICK v \in Seq(Byte) : v = c.instructions BY <1>1 DEF FunctionPiece
  <1>3. PICK n \in Nat : n = Len(v) BY <1>2, LenProperties
  <1>12. PICK l \in Nat : l = c.num_locals BY <1>1 DEF FunctionPiece
  <1>13. PICK q \in Nat : q = c.num_parameters BY <1>1 DEF FunctionPiece
  <1>4. /\ c = [type |-> COMPILED_FUNCTION_OBJ, num_locals |-> l, num_parameters |-> q,
                instructions |-> v]
        /\ Readable(n) /\ Readable(l) /\ q < 128
        /\ Len(w) = 6 + n /\ w[1] = COMPILED_FUNCTION_OBJ
        /\ w[2] = (l \div 256) % 256 /\ w[2 + 1] = l % 256
        /\ w[4] = q
        /\ w[5] = (n \div 256) % 256 /\ w[5 + 1] = n % 256
        /\ \A i \in 1 .. n : w[6 + i] = v[i]
    <2>1. 2 + 1 = 3 /\ 5 + 1 = 6 OBVIOUS
    <2>2. Readable(n) /\ Readable(l) BY <1>2, <1>3, <1>12 DEF ModestConstant
    <2>3. /\ c = [type |-> COMPILED_FUNCTION_OBJ, num_locals |-> c.num_locals,
                  num_parameters |-> c.num_parameters, instructions |-> c.instructions]
          /\ Len(w) = 6 + Len(c.instructions) /\ w[1] = COMPILED_FUNCTION_OBJ
          /\ w[2] = (c.num_locals \div 256) % 256 /\ w[3] = c.num_locals % 256
          /\ w[4] = c.num_parameters % 256
          /\ w[5] = (Len(c.instructions) \div 256) % 256
          /\ w[6] = Len(c.instructions) % 256
          /\ \A i \in 1 .. Len(c.instructions) : w[6 + i] = c.instructions[i]
      BY <1>1 DEF FunctionPiece
    <2>4. q < 128 /\ q % 256 = q
      <3>1. q < 128 BY <1>0, <1>13
      <3>. QED BY <3>1
    <2>. QED BY <1>2, <1>3, <1>12, <1>13, <2>1, <2>2, <2>3, <2>4
  <1>5. fgetc(1) = COMPILED_FUNCTION_OBJ
    <2>1. 1 \in 1 .. Len(w) BY <1>4
    <2>. QED BY <1>1, <1>4, <2>1, ByteHeld
  <1>6. PICK u \in Nat : u = Uint16(5) BY CountType
  <1>7. /\ read_constant = read_function_constant
        /\ read_constant.size = 6 + u
        /\ read_constant.value = [type |-> COMPILED_FUNCTION_OBJ, num_locals |-> Uint16(2),
                                  num_parameters |-> int8(fgetc(4)),
                                  instructions |-> Bytes(7, u)]
    BY <1>5, <1>6, Numerals DEF read_constant, read_function_constant, Constant
  <1>8. ASSUME position + 6 <= Len(disk)
        PROVE  u = n /\ Uint16(2) = l /\ int8(fgetc(4)) = q
    <2>1. 5 + 1 <= Len(w) /\ position + 5 + 1 <= Len(disk) BY <1>4, <1>8
    <2>5. /\ 2 + 1 <= Len(w) /\ position + 2 + 1 <= Len(disk)
          /\ 4 \in 1 .. Len(w) /\ position + 4 <= Len(disk)
      <3>1. Len(disk) \in Nat BY LenProperties
      <3>2. Len(w) = 6 + n BY <1>4
      <3>3. 2 + 1 <= Len(w) /\ 4 \in 1 .. Len(w) BY <3>2
      <3>4. position + 2 + 1 <= Len(disk) /\ position + 4 <= Len(disk) BY <1>8, <3>1
      <3>. QED BY <3>3, <3>4
    <2>3. u = n
      <3>1. /\ Readable(n) /\ w[5] = (n \div 256) % 256 /\ w[5 + 1] = n % 256
            /\ 5 + 1 <= Len(w) /\ position + 5 + 1 <= Len(disk)
            /\ HasBytes(disk, position, w)
        BY <1>1, <1>4, <2>1
      <3>2. Uint16(5) = n BY <3>1, CountHeld
      <3>. QED BY <1>6, <3>2
    <2>4. Uint16(2) = l
      <3>1. /\ Readable(l) /\ w[2] = (l \div 256) % 256 /\ w[2 + 1] = l % 256
            /\ 2 + 1 <= Len(w) /\ position + 2 + 1 <= Len(disk)
            /\ HasBytes(disk, position, w)
        BY <1>1, <1>4, <2>5
      <3>2. Uint16(2) = l BY <3>1, CountHeld
      <3>. QED BY <3>2
    <2>6. fgetc(4) = q BY <1>1, <1>4, <2>5, ByteHeld
    <2>7. int8(q) = q BY <1>4, Numerals DEF int8
    <2>. QED BY <2>3, <2>4, <2>6, <2>7
  <1>9. ASSUME position + 6 + n <= Len(disk) PROVE Bytes(7, n) = v
    <2>1. /\ 6 + Len(v) <= Len(w) /\ \A i \in 1 .. Len(v) : w[6 + i] = v[i]
          /\ position + 6 + Len(v) <= Len(disk)
      BY <1>3, <1>4, <1>9
    <2>2. Bytes(6 + 1, Len(v)) = v BY <1>1, <2>1, BytesHeld
    <2>. QED BY <1>3, <2>2
  <1>10. Len(disk) \in Nat BY LenProperties
  <1>11. ASSUME position + (6 + u) <= Len(disk) \/ position + (6 + n) <= Len(disk)
         PROVE  u = n /\ Uint16(2) = l /\ int8(fgetc(4)) = q /\ position + 6 + n <= Len(disk)
    <2>1. position + 6 <= Len(disk) BY <1>10, <1>11
    <2>2. u = n /\ Uint16(2) = l /\ int8(fgetc(4)) = q BY <2>1, <1>8
    <2>. QED BY <2>1, <2>2, <1>10, <1>11
  <1>14. position + read_constant.size <= Len(disk)
           => read_constant.value = c /\ read_constant.size = Len(w)
    BY <1>4, <1>7, <1>9, <1>11
  <1>15. position + Len(w) <= Len(disk) => read_constant.size = Len(w)
    BY <1>4, <1>7, <1>11
  <1>16. read_constant.size \in Nat /\ fgetc(1) \in ConstantTypes
    BY <1>5, <1>7 DEF ConstantTypes
  <1>. QED BY <1>1, <1>14, <1>15, <1>16 DEF ReadsAs

(* A constant that is there whole is read as it was written.               *)
LEMMA ReadsConstant ==
  ASSUME disk \in Seq(Byte), position \in Nat, position + 1 <= Len(disk),
         NEW c \in ConstantObjects, ModestConstant(c),
         HasBytes(disk, position, write_constant(c))
  PROVE  /\ ReadsAs(c, write_constant(c))
         /\ write_constant(c) \in Seq(Byte)
         /\ Len(write_constant(c)) \in Nat
  <1>1. c.type \in {NUMBER_OBJ, STRING_OBJ, COMPILED_FUNCTION_OBJ, COMPILED_LOOP_OBJ}
    BY DEF ConstantObjects
  <1>2. ReadsAs(c, write_constant(c))
    BY <1>1, ReadsNumber, ReadsString, ReadsLoop, ReadsFunction
  <1>. QED BY <1>2, PieceType

----------------------------------------------------------------------------
(* The invariant *)

(* What is read so far is what was written.                                *)
Intact(m, off) ==
  /\ constant \in 0 .. m
  /\ position = off[constant] /\ position <= Len(disk)
  /\ expected = Len(saved.constants)
  /\ pool \in Seq(ConstantObjects) /\ Len(pool) = constant
  /\ \A i \in 1 .. constant : pool[i] = saved.constants[i]

(* Or the reader is behind the end of a file that was cut.                 *)
Behind == ~whole /\ position \in Nat /\ position > Len(disk)

Loaded ==
  /\ IsPrefix(ins, saved.instructions)
  /\ ins # <<>> => pool = saved.constants
  /\ whole => AsSaved

OnDisk(m, off, program) ==
  /\ Laid(disk, saved, m, off, program)
  /\ Len(disk) <= End(saved, m, off, program)
  /\ whole => program /\ Len(disk) = End(saved, m, off, program)
  /\ Writing => ~whole
  /\ io = "magic" => disk = <<>> /\ constant = 0
  /\ io = "constants" => m = constant /\ ~program /\ Len(disk) = off[m]
  /\ io = "close" => program /\ Len(disk) = End(saved, m, off, program)
  /\ io = "read" /\ Modest(saved) => Intact(m, off) \/ Behind
  /\ io = "loaded" /\ Modest(saved) => Loaded

FileInv ==
  /\ io \in {"idle", "magic", "constants", "close", "read", "loaded", "dead"}
  /\ io \notin {"read", "loaded", "dead"} => position = 0
  /\ \/ io = "idle" /\ disk = ABSENT
     \/ /\ disk \in Seq(Byte) /\ saved \in Bytecodes
        /\ \E m \in 0 .. Len(saved.constants), program \in BOOLEAN :
             \E off \in [0 .. m -> Nat] : OnDisk(m, off, program)

----------------------------------------------------------------------------
(* Writing and cutting *)

LEMMA BytecodeType ==
  ASSUME NEW b \in Bytecodes
  PROVE  /\ b.constants \in Seq(ConstantObjects) /\ b.instructions \in Seq(Byte)
         /\ Len(b.constants) \in Nat
         /\ \A k \in 1 .. Len(b.constants) :
              /\ b.constants[k] \in ConstantObjects
              /\ Piece(b, k) \in Seq(Byte) /\ Len(Piece(b, k)) \in Nat
         /\ Trailer(b) \in Seq(Byte) /\ Len(Trailer(b)) = 2 + Len(b.instructions)
         /\ Len(b.instructions) \in Nat
  <1>1. /\ b.constants \in Seq(ConstantObjects) /\ b.instructions \in Seq(Byte)
    BY DEF Bytecodes
  <1>2. Len(b.constants) \in Nat /\ Len(b.instructions) \in Nat BY <1>1, LenProperties
  <1>3. ASSUME NEW k \in 1 .. Len(b.constants)
        PROVE  /\ b.constants[k] \in ConstantObjects
               /\ Piece(b, k) \in Seq(Byte) /\ Len(Piece(b, k)) \in Nat
    <2>1. b.constants[k] \in ConstantObjects BY <1>1
    <2>. QED BY <2>1, PieceType DEF Piece
  <1>4. Trailer(b) \in Seq(Byte) /\ Len(Trailer(b)) = 2 + Len(b.instructions)
    BY <1>1, PieceOfInstructions DEF Trailer
  <1>. QED BY <1>1, <1>2, <1>3, <1>4

LEMMA HeaderPiece ==
  ASSUME NEW b \in Bytecodes
  PROVE  /\ Header(b) \in Seq(Byte) /\ Len(Header(b)) = 8
         /\ Header(b)[7] = (Len(b.constants) \div 256) % 256
         /\ Header(b)[7 + 1] = Len(b.constants) % 256
         /\ \A i \in 1 .. 6 : Header(b)[i] = magic_number[i]
  <1>1. PICK n \in Nat : n = Len(b.constants) BY BytecodeType
  <1>. DEFINE t == uint16_to_big_endian(n)
              s == magic_number
  <1>2. Header(b) = s \o t BY <1>1 DEF Header
  <1>3. t \in Seq(Byte) /\ Len(t) = 2 /\ t[1] = (n \div 256) % 256 /\ t[2] = n % 256
    BY TwoBytes
  <1>4. s \in Seq(Byte) /\ Len(s) = 6 BY Numerals DEF magic_number
  <1>. HIDE DEF t, s
  <1>5. /\ s \o t \in Seq(Byte)
        /\ Len(s \o t) = Len(s) + Len(t)
        /\ \A i \in 1 .. Len(s) + Len(t) :
             (s \o t)[i] = IF i <= Len(s) THEN s[i] ELSE t[i - Len(s)]
    BY <1>3, <1>4, Joined
  <1>6. /\ s \o t \in Seq(Byte) /\ Len(s \o t) = 8
        /\ (s \o t)[7] = t[1] /\ (s \o t)[7 + 1] = t[2]
        /\ \A i \in 1 .. 6 : (s \o t)[i] = s[i]
    BY <1>3, <1>4, <1>5
  <1>. QED BY <1>1, <1>2, <1>3, <1>6 DEF s

LEMMA HoldsInPrefix ==
  ASSUME NEW d \in Seq(Byte), NEW e \in Seq(Byte), Len(e) <= Len(d),
         \A i \in 1 .. Len(e) : e[i] = d[i],
         NEW w \in Seq(Byte), NEW at \in Nat, HasBytes(d, at, w)
  PROVE  HasBytes(e, at, w)
  <1>1. Len(d) \in Nat /\ Len(e) \in Nat /\ Len(w) \in Nat BY LenProperties
  <1>2. ASSUME NEW i \in 1 .. Len(w), at + i <= Len(e) PROVE e[at + i] = w[i]
    <2>1. at + i \in 1 .. Len(e) /\ at + i <= Len(d) BY <1>1, <1>2
    <2>. QED BY <2>1 DEF HasBytes
  <1>. QED BY <1>2 DEF HasBytes

LEMMA HoldsBelow ==
  ASSUME NEW d \in Seq(Byte), NEW x \in Seq(Byte),
         NEW w \in Seq(Byte), NEW at \in Nat, at + Len(w) <= Len(d), HasBytes(d, at, w)
  PROVE  HasBytes(d \o x, at, w)
  <1>1. Len(d) \in Nat /\ Len(w) \in Nat BY LenProperties
  <1>2. ASSUME NEW i \in 1 .. Len(w) PROVE (d \o x)[at + i] = w[i]
    <2>1. PICK j \in 1 .. Len(d) : j = at + i BY <1>1
    <2>2. (d \o x)[j] = d[j] BY <1>1, <2>1, Joined
    <2>3. d[at + i] = w[i]
      <3>1. at + i <= Len(d) BY <1>1
      <3>. QED BY <3>1 DEF HasBytes
    <2>. QED BY <2>1, <2>2, <2>3
  <1>. QED BY <1>2 DEF HasBytes

LEMMA HoldsBehind ==
  ASSUME NEW d \in Seq(Byte), NEW w \in Seq(Byte)
  PROVE  /\ HasBytes(d \o w, Len(d), w)
         /\ d \o w \in Seq(Byte) /\ Len(d \o w) = Len(d) + Len(w)
  <1>1. /\ d \o w \in Seq(Byte) /\ Len(d \o w) = Len(d) + Len(w)
        /\ \A i \in 1 .. Len(d) + Len(w) :
             (d \o w)[i] = IF i <= Len(d) THEN d[i] ELSE w[i - Len(d)]
    BY Joined
  <1>2. Len(d) \in Nat /\ Len(w) \in Nat BY LenProperties
  <1>3. ASSUME NEW i \in 1 .. Len(w) PROVE (d \o w)[Len(d) + i] = w[i]
    <2>1. /\ Len(d) + i \in 1 .. Len(d) + Len(w) /\ ~(Len(d) + i <= Len(d))
          /\ Len(d) + i - Len(d) = i
      BY <1>2
    <2>. QED BY <1>1, <2>1
  <1>. QED BY <1>1, <1>3 DEF HasBytes

LEMMA LaidInPrefix ==
  ASSUME NEW d \in Seq(Byte), NEW e \in Seq(Byte), Len(e) <= Len(d),
         \A i \in 1 .. Len(e) : e[i] = d[i],
         NEW b \in Bytecodes, NEW m \in 0 .. Len(b.constants), NEW program \in BOOLEAN,
         NEW off \in [0 .. m -> Nat], Laid(d, b, m, off, program)
  PROVE  Laid(e, b, m, off, program)
  <1>1. HasBytes(e, 0, Header(b)) BY HeaderPiece, HoldsInPrefix DEF Laid
  <1>2. ASSUME NEW k \in 1 .. m PROVE HasBytes(e, off[k - 1], Piece(b, k))
    <2>1. k \in 1 .. Len(b.constants) /\ off[k - 1] \in Nat BY BytecodeType
    <2>2. Piece(b, k) \in Seq(Byte) BY <2>1, BytecodeType
    <2>3. HasBytes(d, off[k - 1], Piece(b, k)) BY DEF Laid
    <2>. QED BY <2>1, <2>2, <2>3, HoldsInPrefix
  <1>3. ASSUME program PROVE HasBytes(e, off[m], Trailer(b))
    <2>1. off[m] \in Nat /\ Trailer(b) \in Seq(Byte) BY BytecodeType
    <2>2. HasBytes(d, off[m], Trailer(b)) BY <1>3 DEF Laid
    <2>. QED BY <2>1, <2>2, HoldsInPrefix
  <1>. QED BY <1>1, <1>2, <1>3 DEF Laid

(* What a file holds so far stays where it is when more is written.        *)
LEMMA LaidBelow ==
  ASSUME NEW d \in Seq(Byte), NEW x \in Seq(Byte),
         NEW b \in Bytecodes, NEW m \in 0 .. Len(b.constants),
         NEW off \in [0 .. m -> Nat], Laid(d, b, m, off, FALSE), Len(d) = off[m]
  PROVE  Laid(d \o x, b, m, off, FALSE)
  <1>1. /\ off[0] = 8 /\ 0 \in 0 .. m /\ off[0] <= off[m] /\ HasBytes(d, 0, Header(b))
        /\ \A k \in 0 .. m : off[k] <= off[m]
    BY DEF Laid
  <1>2. HasBytes(d \o x, 0, Header(b))
    <2>1. Header(b) \in Seq(Byte) /\ 0 + Len(Header(b)) <= Len(d)
      <3>1. Header(b) \in Seq(Byte) /\ Len(Header(b)) = 8 BY HeaderPiece
      <3>2. 0 + 8 = 8 /\ 8 <= Len(d) BY <1>1
      <3>. QED BY <3>1, <3>2
    <2>. QED BY <1>1, <2>1, HoldsBelow
  <1>3. ASSUME NEW k \in 1 .. m PROVE HasBytes(d \o x, off[k - 1], Piece(b, k))
    <2>1. k \in 1 .. Len(b.constants) /\ k \in 0 .. m /\ off[k - 1] \in Nat BY BytecodeType
    <2>2. Piece(b, k) \in Seq(Byte) BY <2>1, BytecodeType
    <2>3. HasBytes(d, off[k - 1], Piece(b, k)) /\ off[k] = off[k - 1] + Len(Piece(b, k))
      BY DEF Laid
    <2>4. off[k - 1] + Len(Piece(b, k)) <= Len(d) BY <1>1, <2>1, <2>3
    <2>. QED BY <2>1, <2>2, <2>3, <2>4, HoldsBelow
  <1>. QED BY <1>2, <1>3 DEF Laid

LEMMA AddPiece ==
  ASSUME NEW d \in Seq(Byte), NEW b \in Bytecodes, NEW m \in Nat, m < Len(b.constants),
         NEW off \in [0 .. m -> Nat], Laid(d, b, m, off, FALSE), Len(d) = off[m]
  PROVE  /\ d \o Piece(b, m + 1) \in Seq(Byte)
         /\ \E o \in [0 .. m + 1 -> Nat] :
              /\ Laid(d \o Piece(b, m + 1), b, m + 1, o, FALSE)
              /\ Len(d \o Piece(b, m + 1)) = o[m + 1]
  <1>1. /\ m + 1 \in 1 .. Len(b.constants) /\ m \in 0 .. Len(b.constants) /\ m + 1 \in Nat
        /\ off[m] \in Nat
    BY BytecodeType
  <1>2. PICK w \in Seq(Byte) : w = Piece(b, m + 1) /\ Len(w) \in Nat BY <1>1, BytecodeType
  <1>3. /\ d \o w \in Seq(Byte) /\ Len(d \o w) = off[m] + Len(w)
        /\ HasBytes(d \o w, off[m], w)
    BY HoldsBehind
  <1>4. Laid(d \o w, b, m, off, FALSE) BY <1>1, LaidBelow
  <1>5. PICK n \in Nat : n = m + 1 BY <1>1
  <1>6. PICK o \in [0 .. n -> Nat] :
          /\ o[n] = off[m] + Len(w)
          /\ \A k \in 0 .. m : o[k] = off[k]
    <2>. DEFINE f == [k \in 0 .. n |-> IF k = n THEN off[m] + Len(w) ELSE off[k]]
    <2>1. f \in [0 .. n -> Nat] BY <1>1, <1>2, <1>5
    <2>2. f[n] = off[m] + Len(w) /\ \A k \in 0 .. m : f[k] = off[k] BY <1>5
    <2>. QED BY <2>1, <2>2
  <1>7. o[0] = 8 BY <1>4, <1>6 DEF Laid
  <1>8. ASSUME NEW k \in 1 .. n
        PROVE  o[k] = o[k - 1] + Len(Piece(b, k)) /\ HasBytes(d \o w, o[k - 1], Piece(b, k))
    <2>1. CASE k = n
      <3>1. k - 1 = m /\ o[k - 1] = off[m] BY <1>5, <1>6, <2>1
      <3>. QED BY <1>2, <1>3, <1>5, <1>6, <2>1, <3>1
    <2>2. CASE k # n
      <3>1. k \in 1 .. m /\ k \in 0 .. m /\ k - 1 \in 0 .. m BY <1>5, <2>2
      <3>2. o[k] = off[k] /\ o[k - 1] = off[k - 1] BY <1>6, <3>1
      <3>. QED BY <1>4, <3>1, <3>2 DEF Laid
    <2>. QED BY <2>1, <2>2
  <1>9. ASSUME NEW k \in 0 .. n PROVE o[k] <= o[n]
    <2>1. CASE k = n BY <1>6, <2>1
    <2>2. CASE k # n
      <3>1. k \in 0 .. m BY <1>5, <2>2
      <3>2. o[k] = off[k] /\ off[k] <= off[m] /\ off[k] \in Nat BY <1>4, <1>6, <3>1 DEF Laid
      <3>. QED BY <1>1, <1>2, <1>6, <3>2
    <2>. QED BY <2>1, <2>2
  <1>10. Laid(d \o w, b, n, o, FALSE) BY <1>4, <1>7, <1>8, <1>9 DEF Laid
  <1>. QED BY <1>2, <1>3, <1>5, <1>6, <1>10

LEMMA AddTrailer ==
  ASSUME NEW d \in Seq(Byte), NEW b \in Bytecodes, NEW m \in 0 .. Len(b.constants),
         m = Len(b.constants),
         NEW off \in [0 .. m -> Nat], Laid(d, b, m, off, FALSE), Len(d) = off[m]
  PROVE  /\ d \o Trailer(b) \in Seq(Byte)
         /\ Laid(d \o Trailer(b), b, m, off, TRUE)
         /\ Len(d \o Trailer(b)) = End(b, m, off, TRUE)
  <1>1. Trailer(b) \in Seq(Byte) BY BytecodeType
  <1>2. /\ d \o Trailer(b) \in Seq(Byte) /\ Len(d \o Trailer(b)) = off[m] + Len(Trailer(b))
        /\ HasBytes(d \o Trailer(b), off[m], Trailer(b))
    BY <1>1, HoldsBehind
  <1>3. Laid(d \o Trailer(b), b, m, off, FALSE) BY <1>1, LaidBelow
  <1>. QED BY <1>2, <1>3 DEF Laid, End

LEMMA AddHeader ==
  ASSUME NEW b \in Bytecodes, NEW d \in Seq(Byte), d = <<>> \/ d = Header(b)
  PROVE  \E off \in [0 .. 0 -> Nat] : Laid(d, b, 0, off, FALSE) /\ off[0] = 8
  <1>. DEFINE f == [k \in 0 .. 0 |-> 8]
  <1>1. f \in [0 .. 0 -> Nat] /\ f[0] = 8 OBVIOUS
  <1>2. \A k \in 0 .. 0 : f[k] <= f[0] OBVIOUS
  <1>. HIDE DEF f
  <1>3. Header(b) \in Seq(Byte) /\ Len(Header(b)) = 8 BY HeaderPiece
  <1>4. HasBytes(d, 0, Header(b))
    <2>1. CASE d = <<>> BY <1>3, <2>1 DEF HasBytes
    <2>2. CASE d = Header(b) BY <1>3, <2>2 DEF HasBytes
    <2>. QED BY <2>1, <2>2
  <1>5. Laid(d, b, 0, f, FALSE) BY <1>1, <1>2, <1>4 DEF Laid
  <1>. QED BY <1>1, <1>5

----------------------------------------------------------------------------
(* The steps of the writer *)

LEMMA Begins ==
  ASSUME FileInv, NEW b \in Bytecodes, save_to_file(b)
  PROVE  FileInv'
  <1>1. /\ io' = "magic" /\ disk' = <<>> /\ saved' = b /\ whole' = FALSE /\ constant' = 0
        /\ position' = 0
    BY DEF save_to_file, FileInv
  <1>2. PICK m \in 0 .. Len(b.constants) : m = 0 BY BytecodeType
  <1>3. PICK d \in Seq(Byte) : d = <<>> /\ Len(d) = 0
    <2>1. <<>> \in Seq(Byte) /\ Len(<<>>) = 0 OBVIOUS
    <2>. QED BY <2>1
  <1>4. PICK off \in [0 .. m -> Nat] : Laid(d, b, m, off, FALSE) /\ off[0] = 8
    BY <1>2, <1>3, AddHeader
  <1>5. OnDisk(m, off, FALSE)'
    <2>1. Laid(disk', saved', m, off, FALSE) BY <1>1, <1>3, <1>4
    <2>2. Len(disk') <= End(saved', m, off, FALSE) BY <1>1, <1>2, <1>3, <1>4 DEF End
    <2>. QED BY <1>1, <2>1, <2>2 DEF OnDisk
  <1>6. disk' \in Seq(Byte) /\ saved' \in Bytecodes BY <1>1
  <1>. QED BY <1>1, <1>5, <1>6 DEF FileInv

(* A writer has the file open.                                             *)
LEMMA BinaryOpened ==
  ASSUME FileInv, io # "idle"
  PROVE  /\ disk \in Seq(Byte) /\ saved \in Bytecodes
         /\ Len(disk) \in Nat /\ Len(saved.constants) \in Nat
         /\ \E m \in 0 .. Len(saved.constants), program \in BOOLEAN :
              \E off \in [0 .. m -> Nat] : OnDisk(m, off, program)
  BY BytecodeType DEF FileInv

LEMMA WritesMagic ==
  ASSUME FileInv, write_magic_number
  PROVE  FileInv'
  <1>1. /\ io = "magic" /\ io' = "constants" /\ disk' = disk \o Header(saved)
        /\ UNCHANGED <<saved, whole, position, constant>>
    BY DEF write_magic_number, Write, Header
  <1>2. disk \in Seq(Byte) /\ saved \in Bytecodes /\ position = 0 BY <1>1, BinaryOpened DEF FileInv
  <1>3. disk = <<>> /\ constant = 0 /\ ~whole
    <2>1. PICK m \in 0 .. Len(saved.constants), program \in BOOLEAN :
            \E off \in [0 .. m -> Nat] : OnDisk(m, off, program)
      BY <1>1, BinaryOpened
    <2>. QED BY <1>1, <2>1 DEF OnDisk, Writing
  <1>4. PICK d \in Seq(Byte) : d = Header(saved) /\ disk' = d /\ Len(d) = 8
    <2>1. Header(saved) \in Seq(Byte) /\ Len(Header(saved)) = 8 BY <1>2, HeaderPiece
    <2>2. <<>> \o Header(saved) = Header(saved) BY <2>1, ConcatEmptySeq
    <2>. QED BY <1>1, <1>3, <2>1, <2>2
  <1>5. PICK b \in Bytecodes : b = saved BY <1>2
  <1>6. PICK m \in 0 .. Len(b.constants) : m = 0 BY BytecodeType
  <1>7. PICK off \in [0 .. m -> Nat] : Laid(d, b, m, off, FALSE) /\ off[0] = 8
    BY <1>4, <1>5, <1>6, AddHeader
  <1>8. OnDisk(m, off, FALSE)'
    <2>1. Laid(disk', saved', m, off, FALSE) BY <1>1, <1>4, <1>5, <1>7
    <2>2. Len(disk') = off[m] BY <1>4, <1>6, <1>7
    <2>3. End(saved', m, off, FALSE) = off[m] BY DEF End
    <2>4. Len(disk') <= off[m] BY <2>2
    <2>. QED BY <1>1, <1>3, <1>6, <2>1, <2>2, <2>3, <2>4 DEF OnDisk
  <1>9. disk' \in Seq(Byte) /\ saved' \in Bytecodes /\ position' = 0 BY <1>1, <1>2, <1>4
  <1>. QED BY <1>1, <1>5, <1>8, <1>9 DEF FileInv

LEMMA WritesConstant ==
  ASSUME FileInv, write_constants
  PROVE  FileInv'
  <1>1. /\ io = "constants" /\ io' = "constants" /\ constant < Len(saved.constants)
        /\ disk' = disk \o Piece(saved, constant + 1) /\ constant' = constant + 1
        /\ UNCHANGED <<saved, whole, position>>
    BY DEF write_constants, Write, Piece
  <1>2. position = 0 BY <1>1 DEF FileInv
  <1>3. PICK d \in Seq(Byte), b \in Bytecodes : d = disk /\ b = saved BY <1>1, BinaryOpened
  <1>4. PICK m \in 0 .. Len(saved.constants), program \in BOOLEAN :
          \E off \in [0 .. m -> Nat] : OnDisk(m, off, program)
    BY <1>1, BinaryOpened
  <1>5. PICK off \in [0 .. m -> Nat] : OnDisk(m, off, program) BY <1>4
  <1>6. /\ m = constant /\ ~program /\ Len(d) = off[m] /\ Laid(d, b, m, off, FALSE) /\ ~whole
        /\ m \in Nat /\ m < Len(b.constants)
    <2>1. program = FALSE BY <1>1, <1>5 DEF OnDisk
    <2>2. m \in Nat BY <1>3, BytecodeType
    <2>. QED BY <1>1, <1>3, <1>5, <2>1, <2>2 DEF OnDisk, Writing
  <1>7. /\ d \o Piece(b, m + 1) \in Seq(Byte)
        /\ \E o \in [0 .. m + 1 -> Nat] : /\ Laid(d \o Piece(b, m + 1), b, m + 1, o, FALSE)
                                          /\ Len(d \o Piece(b, m + 1)) = o[m + 1]
    BY <1>6, AddPiece
  <1>8. PICK n \in 0 .. Len(b.constants) : n = m + 1 BY <1>6, BytecodeType
  <1>9. PICK e \in Seq(Byte) : e = d \o Piece(b, n) /\ disk' = e
    BY <1>1, <1>3, <1>6, <1>7, <1>8
  <1>10. PICK o \in [0 .. n -> Nat] : Laid(e, b, n, o, FALSE) /\ Len(e) = o[n]
    BY <1>7, <1>8, <1>9
  <1>11. OnDisk(n, o, FALSE)'
    <2>1. Laid(disk', saved', n, o, FALSE) BY <1>1, <1>3, <1>9, <1>10
    <2>2. Len(disk') = o[n] /\ o[n] \in Nat BY <1>8, <1>9, <1>10, BytecodeType
    <2>3. End(saved', n, o, FALSE) = o[n] BY DEF End
    <2>4. Len(disk') <= o[n] BY <2>2
    <2>. QED BY <1>1, <1>6, <1>8, <2>1, <2>2, <2>3, <2>4 DEF OnDisk
  <1>12. disk' \in Seq(Byte) /\ saved' = b /\ position' = 0 BY <1>1, <1>2, <1>3, <1>9
  <1>. QED BY <1>1, <1>11, <1>12 DEF FileInv

LEMMA WritesProgram ==
  ASSUME FileInv, write_program
  PROVE  FileInv'
  <1>1. /\ io = "constants" /\ io' = "close" /\ constant = Len(saved.constants)
        /\ disk' = disk \o Trailer(saved) /\ UNCHANGED <<saved, whole, position, constant>>
    BY DEF write_program, Write, Trailer
  <1>2. position = 0 BY <1>1 DEF FileInv
  <1>3. PICK d \in Seq(Byte), b \in Bytecodes : d = disk /\ b = saved BY <1>1, BinaryOpened
  <1>4. PICK m \in 0 .. Len(saved.constants), program \in BOOLEAN :
          \E off \in [0 .. m -> Nat] : OnDisk(m, off, program)
    BY <1>1, BinaryOpened
  <1>5. PICK off \in [0 .. m -> Nat] : OnDisk(m, off, program) BY <1>4
  <1>6. /\ m = Len(b.constants) /\ Len(d) = off[m] /\ Laid(d, b, m, off, FALSE) /\ ~whole
    <2>1. program = FALSE BY <1>1, <1>5 DEF OnDisk
    <2>. QED BY <1>1, <1>3, <1>5, <2>1 DEF OnDisk, Writing
  <1>7. PICK e \in Seq(Byte) : /\ disk' = e
                               /\ Laid(e, b, m, off, TRUE)
                               /\ Len(e) = End(b, m, off, TRUE)
    <2>1. m \in 0 .. Len(b.constants) BY <1>3
    <2>. QED BY <1>1, <1>3, <1>6, <2>1, AddTrailer
  <1>8. OnDisk(m, off, TRUE)'
    <2>1. Laid(disk', saved', m, off, TRUE) BY <1>1, <1>3, <1>7
    <2>2. Len(disk') = End(saved', m, off, TRUE) BY <1>1, <1>3, <1>7
    <2>3. Len(e) <= Len(e)
      <3>1. Len(e) \in Nat BY LenProperties
      <3>. QED BY <3>1
    <2>4. Len(disk') <= End(saved', m, off, TRUE) BY <1>7, <2>2, <2>3
    <2>. QED BY <1>1, <1>6, <2>1, <2>2, <2>4 DEF OnDisk
  <1>9. disk' \in Seq(Byte) /\ saved' = b /\ position' = 0 /\ m \in 0 .. Len(saved'.constants)
    BY <1>1, <1>2, <1>3, <1>7
  <1>. QED BY <1>1, <1>8, <1>9 DEF FileInv

LEMMA Closes ==
  ASSUME FileInv, close_file
  PROVE  FileInv'
  <1>1. /\ io = "close" /\ io' = "idle" /\ whole' = TRUE
        /\ UNCHANGED <<disk, saved, position>>
    BY DEF close_file
  <1>2. position = 0 /\ disk \in Seq(Byte) /\ saved \in Bytecodes BY <1>1, BinaryOpened DEF FileInv
  <1>4. PICK m \in 0 .. Len(saved.constants), program \in BOOLEAN :
          \E off \in [0 .. m -> Nat] : OnDisk(m, off, program)
    BY <1>1, BinaryOpened
  <1>5. PICK off \in [0 .. m -> Nat] : OnDisk(m, off, program) BY <1>4
  <1>8. OnDisk(m, off, program)'
    <2>1. Laid(disk', saved', m, off, program) BY <1>1, <1>5 DEF OnDisk
    <2>2. /\ Len(disk') = End(saved', m, off, program) /\ program
          /\ Len(disk') <= End(saved', m, off, program)
      BY <1>1, <1>5 DEF OnDisk
    <2>. QED BY <1>1, <2>1, <2>2 DEF OnDisk, Writing
  <1>9. disk' \in Seq(Byte) /\ saved' = saved /\ saved' \in Bytecodes /\ position' = 0
        /\ m \in 0 .. Len(saved'.constants)
    BY <1>1, <1>2
  <1>. QED BY <1>1, <1>8, <1>9 DEF FileInv

LEMMA CutsShort ==
  ASSUME FileInv, cut_short
  PROVE  FileInv'
  <1>1. /\ io \in {"magic", "constants", "close"} /\ io' = "idle"
        /\ UNCHANGED <<saved, whole, position>>
        /\ \E n \in 0 .. Len(disk) : disk' = SubSeq(disk, 1, n)
    BY DEF cut_short, Writing
  <1>2. position = 0 BY <1>1 DEF FileInv
  <1>3. PICK d \in Seq(Byte), b \in Bytecodes : d = disk /\ b = saved BY <1>1, BinaryOpened
  <1>4. PICK m \in 0 .. Len(saved.constants), program \in BOOLEAN :
          \E off \in [0 .. m -> Nat] : OnDisk(m, off, program)
    BY <1>1, BinaryOpened
  <1>5. PICK off \in [0 .. m -> Nat] : OnDisk(m, off, program) BY <1>4
  <1>6. Laid(d, b, m, off, program) /\ Len(d) <= End(b, m, off, program) /\ ~whole
    BY <1>1, <1>3, <1>5 DEF OnDisk, Writing
  <1>7. PICK e \in Seq(Byte) : /\ disk' = e /\ Len(e) <= Len(d)
                               /\ \A i \in 1 .. Len(e) : e[i] = d[i]
    <2>1. PICK n \in 0 .. Len(d) : disk' = SubSeq(d, 1, n) BY <1>1, <1>3
    <2>2. Len(d) \in Nat /\ \A i \in 1 .. n : d[i] \in Byte BY LenProperties
    <2>3. /\ SubSeq(d, 1, n) \in Seq(Byte)
          /\ Len(SubSeq(d, 1, n)) = IF 1 <= n THEN n - 1 + 1 ELSE 0
          /\ \A i \in 1 .. n - 1 + 1 : SubSeq(d, 1, n)[i] = d[1 + i - 1]
      BY <2>2, SubSeqProperties
    <2>4. n - 1 + 1 = n /\ \A i \in 1 .. n : 1 + i - 1 = i BY <2>2
    <2>5. Len(SubSeq(d, 1, n)) = n BY <2>2, <2>3
    <2>6. n <= Len(d) BY <2>2
    <2>. QED BY <2>1, <2>3, <2>4, <2>5, <2>6
  <1>8. Laid(e, b, m, off, program)
    <2>1. m \in 0 .. Len(b.constants) BY <1>3
    <2>. QED BY <1>6, <1>7, <2>1, LaidInPrefix
  <1>9. Len(e) <= End(b, m, off, program)
    <2>1. Len(e) \in Nat /\ Len(d) \in Nat /\ off[m] \in Nat /\ Len(Trailer(b)) \in Nat
      BY <1>3, BytecodeType, LenProperties
    <2>2. End(b, m, off, program) \in Int BY <2>1 DEF End
    <2>. QED BY <1>6, <1>7, <2>1, <2>2
  <1>10. OnDisk(m, off, program)'
    <2>1. Laid(disk', saved', m, off, program) BY <1>1, <1>3, <1>7, <1>8
    <2>2. Len(disk') <= End(saved', m, off, program) BY <1>1, <1>3, <1>7, <1>9
    <2>. QED BY <1>1, <1>6, <2>1, <2>2 DEF OnDisk, Writing
  <1>11. disk' \in Seq(Byte) /\ saved' = b /\ position' = 0 /\ m \in 0 .. Len(saved'.constants)
    BY <1>1, <1>2, <1>3, <1>7
  <1>. QED BY <1>1, <1>10, <1>11 DEF FileInv

----------------------------------------------------------------------------
(* The steps of the reader *)

(* Where the file is as long as it was written to be.                      *)
LEMMA EndOfLaid ==
  ASSUME NEW d \in Seq(Byte), NEW b \in Bytecodes, NEW m \in 0 .. Len(b.constants),
         NEW program \in BOOLEAN, NEW off \in [0 .. m -> Nat], Laid(d, b, m, off, program)
  PROVE  /\ m \in Nat /\ m <= Len(b.constants) /\ off[m] \in Nat /\ off[m] >= 8 /\ off[0] = 8
         /\ End(b, m, off, program) \in Nat /\ off[m] <= End(b, m, off, program)
         /\ ~program => End(b, m, off, program) = off[m]
         /\ program => /\ m = Len(b.constants)
                       /\ End(b, m, off, program) = off[m] + 2 + Len(b.instructions)
  <1>1. m \in Nat /\ m <= Len(b.constants) /\ Len(b.instructions) \in Nat BY BytecodeType
  <1>2. off[m] \in Nat /\ 0 \in 0 .. m BY <1>1
  <1>3. off[0] = 8 /\ off[0] <= off[m] /\ (program => m = Len(b.constants))
    BY <1>2 DEF Laid
  <1>4. Len(Trailer(b)) = 2 + Len(b.instructions) BY BytecodeType
  <1>5. CASE program
    <2>1. End(b, m, off, program) = off[m] + (2 + Len(b.instructions))
      BY <1>4, <1>5 DEF End
    <2>2. PICK z \in Nat, l \in Nat : z = off[m] /\ l = Len(b.instructions) BY <1>1, <1>2
    <2>3. z + (2 + l) = z + 2 + l /\ z + (2 + l) \in Nat /\ z <= z + (2 + l) OBVIOUS
    <2>. QED BY <1>1, <1>2, <1>3, <1>5, <2>1, <2>2, <2>3
  <1>6. CASE ~program BY <1>1, <1>2, <1>3, <1>6 DEF End
  <1>. QED BY <1>5, <1>6

LEMMA OpensBinary ==
  ASSUME FileInv, open_binary
  PROVE  FileInv'
  <1>1. io = "idle" /\ position = 0 /\ UNCHANGED <<disk, saved, whole>>
    BY DEF open_binary, FileInv
  <1>2. CASE disk = ABSENT \/ ~IsPrefix(magic_number, disk)
    <2>1. io' = "idle" /\ position' = 0 BY <1>1, <1>2 DEF open_binary, Exit
    <2>2. CASE disk = ABSENT BY <1>1, <2>1, <2>2 DEF FileInv
    <2>3. CASE disk # ABSENT
      <3>1. PICK m \in 0 .. Len(saved.constants), program \in BOOLEAN :
              \E off \in [0 .. m -> Nat] : OnDisk(m, off, program)
        BY <2>3 DEF FileInv
      <3>2. PICK off \in [0 .. m -> Nat] : OnDisk(m, off, program) BY <3>1
      <3>3. OnDisk(m, off, program)' BY <1>1, <2>1, <3>2 DEF OnDisk, Writing
      <3>4. /\ disk' \in Seq(Byte) /\ saved' \in Bytecodes /\ m \in 0 .. Len(saved'.constants)
        BY <1>1, <2>3 DEF FileInv
      <3>. QED BY <2>1, <3>3, <3>4 DEF FileInv
    <2>. QED BY <2>2, <2>3
  <1>3. CASE disk # ABSENT /\ IsPrefix(magic_number, disk)
    <2>1. Len(magic_number) = 6 BY DEF magic_number
    <2>2. /\ io' = "read" /\ position' = 8 /\ expected' = Uint16(7) /\ constant' = 0
          /\ pool' = <<>>
      BY <1>3, <2>1 DEF open_binary
    <2>3. PICK d \in Seq(Byte), b \in Bytecodes : d = disk /\ b = saved
      BY <1>3 DEF FileInv
    <2>4. PICK m \in 0 .. Len(saved.constants), program \in BOOLEAN :
            \E off \in [0 .. m -> Nat] : OnDisk(m, off, program)
      BY <1>3 DEF FileInv
    <2>5. PICK off \in [0 .. m -> Nat] : OnDisk(m, off, program) BY <2>4
    <2>6. /\ Laid(d, b, m, off, program) /\ Len(d) <= End(b, m, off, program)
          /\ whole => Len(d) = End(b, m, off, program)
      BY <2>3, <2>5 DEF OnDisk
    <2>7. /\ m \in 0 .. Len(b.constants) /\ off[0] = 8 /\ off[m] >= 8 /\ off[m] \in Nat
          /\ off[m] <= End(b, m, off, program) /\ End(b, m, off, program) \in Nat
          /\ Len(d) \in Nat
      <3>1. m \in 0 .. Len(b.constants) BY <2>3
      <3>2. Len(d) \in Nat BY LenProperties
      <3>. QED BY <2>6, <3>1, <3>2, EndOfLaid
    <2>8. ASSUME Modest(saved) PROVE (Intact(m, off) \/ Behind)'
      <3>1. CASE Len(d) >= 8
        <4>0. PICK n \in Nat : n = Len(b.constants) BY BytecodeType
        <4>1. PICK w \in Seq(Byte) :
                /\ w = Header(b) /\ Len(w) = 8
                /\ w[7] = (n \div 256) % 256 /\ w[7 + 1] = n % 256
          BY <4>0, HeaderPiece
        <4>2. /\ disk \in Seq(Byte) /\ position \in Nat /\ HasBytes(disk, position, w)
              /\ 7 + 1 <= Len(w) /\ position + 7 + 1 <= Len(disk) /\ Readable(n)
              /\ 7 \in Nat \ {0}
          BY <1>1, <2>3, <2>6, <2>8, <3>1, <4>0, <4>1 DEF Laid, Modest
        <4>3. Uint16(7) = n
          <5>1. w[7] = (n \div 256) % 256 /\ w[7 + 1] = n % 256 BY <4>1
          <5>2. PICK i \in Nat \ {0} : i = 7 OBVIOUS
          <5>3. /\ w[i] = (n \div 256) % 256 /\ w[i + 1] = n % 256
                /\ i + 1 <= Len(w) /\ position + i + 1 <= Len(disk)
            BY <4>2, <5>1, <5>2
          <5>4. Uint16(i) = n BY <4>2, <5>3, CountHeld
          <5>. QED BY <5>2, <5>4
        <4>4. expected' = Len(saved'.constants) BY <1>1, <2>2, <2>3, <4>0, <4>3
        <4>5. constant' \in 0 .. m /\ position' = off[constant'] /\ position' <= Len(disk')
          BY <1>1, <2>2, <2>3, <2>7, <3>1
        <4>6. /\ pool' \in Seq(ConstantObjects) /\ Len(pool') = constant'
              /\ \A i \in 1 .. constant' : pool'[i] = saved'.constants[i]
          BY <2>2
        <4>. QED BY <4>4, <4>5, <4>6 DEF Intact
      <3>2. CASE ~(Len(d) >= 8)
        <4>1. ~whole BY <2>6, <2>7, <3>2
        <4>2. position' \in Nat /\ position' > Len(disk') BY <1>1, <2>2, <2>3, <2>7, <3>2
        <4>. QED BY <1>1, <4>1, <4>2 DEF Behind
      <3>. QED BY <3>1, <3>2
    <2>9. OnDisk(m, off, program)'
      <3>1. Laid(disk', saved', m, off, program) BY <1>1, <2>3, <2>6
      <3>2. /\ Len(disk') <= End(saved', m, off, program)
            /\ whole' => program /\ Len(disk') = End(saved', m, off, program)
        BY <1>1, <2>3, <2>5, <2>6 DEF OnDisk
      <3>3. Modest(saved') => (Intact(m, off) \/ Behind)' BY <1>1, <2>8
      <3>. QED BY <2>2, <3>1, <3>2, <3>3 DEF OnDisk, Writing
    <2>10. /\ disk' \in Seq(Byte) /\ saved' \in Bytecodes /\ m \in 0 .. Len(saved'.constants)
      BY <1>1, <2>3
    <2>. QED BY <2>2, <2>9, <2>10 DEF FileInv
  <1>. QED BY <1>2, <1>3

LEMMA ReadsConstants ==
  ASSUME FileInv, read_constants
  PROVE  FileInv'
  <1>1. /\ io = "read" /\ constant < expected
        /\ UNCHANGED <<disk, saved, whole, expected>>
    BY DEF read_constants
  <1>2. PICK d \in Seq(Byte), b \in Bytecodes : d = disk /\ b = saved BY <1>1, BinaryOpened
  <1>3. PICK m \in 0 .. Len(saved.constants), program \in BOOLEAN :
          \E off \in [0 .. m -> Nat] : OnDisk(m, off, program)
    BY <1>1, BinaryOpened
  <1>4. PICK off \in [0 .. m -> Nat] : OnDisk(m, off, program) BY <1>3
  <1>5. /\ Laid(d, b, m, off, program) /\ Len(d) <= End(b, m, off, program)
        /\ whole => program /\ Len(d) = End(b, m, off, program)
    BY <1>2, <1>4 DEF OnDisk
  <1>6. /\ m \in 0 .. Len(b.constants) /\ off[m] \in Nat /\ Len(d) \in Nat
        /\ off[m] <= End(b, m, off, program) /\ End(b, m, off, program) \in Nat
        /\ ~program => End(b, m, off, program) = off[m]
        /\ program => m = Len(b.constants)
        /\ Len(b.constants) \in Nat
    <2>1. m \in 0 .. Len(b.constants) BY <1>2
    <2>2. Len(d) \in Nat /\ Len(b.constants) \in Nat BY BytecodeType, LenProperties
    <2>. QED BY <1>5, <2>1, <2>2, EndOfLaid
  <1>7. /\ disk' \in Seq(Byte) /\ saved' \in Bytecodes /\ m \in 0 .. Len(saved'.constants)
        /\ io' \in {"read", "dead"}
    BY <1>1, <1>2 DEF read_constants
  <1>8. ASSUME Modest(saved), io' = "read" PROVE (Intact(m, off) \/ Behind)'
    <2>1. /\ fgetc(1) \in ConstantTypes
          /\ pool' = Append(pool, IF position + read_constant.size <= Len(disk)
                                  THEN read_constant.value ELSE JUNK)
          /\ position' = position + read_constant.size
          /\ constant' = constant + 1
      BY <1>8 DEF read_constants
    <2>2. Intact(m, off) \/ Behind BY <1>1, <1>4, <1>8 DEF OnDisk
    <2>3. position \in Nat
      BY <2>2 DEF Intact, Behind
    <2>4. position + 1 <= Len(disk)
      <3>1. ASSUME ~(position + 1 <= Len(disk)) PROVE FALSE
        <4>1. fgetc(1) = 255 BY <1>2, <2>3, <3>1, FileBytes
        <4>. QED BY <2>1, <4>1, Numerals DEF ConstantTypes
      <3>. QED BY <3>1
    <2>5. Intact(m, off) BY <1>2, <1>6, <2>2, <2>3, <2>4 DEF Behind
    <2>6. /\ constant \in 0 .. m /\ position = off[constant] /\ expected = Len(b.constants)
          /\ pool \in Seq(ConstantObjects) /\ Len(pool) = constant
          /\ \A i \in 1 .. constant : pool[i] = b.constants[i]
      BY <1>2, <2>5 DEF Intact
    <2>7. constant < m
      <3>1. CASE program BY <1>1, <1>6, <2>6, <3>1
      <3>2. CASE ~program
        <4>1. off[constant] < off[m] BY <1>2, <1>5, <1>6, <2>3, <2>4, <2>6, <3>2
        <4>. QED BY <1>6, <2>6, <4>1
      <3>. QED BY <3>1, <3>2
    <2>8. PICK k \in 1 .. m : k = constant + 1 BY <1>6, <2>6, <2>7
    <2>9. k \in 1 .. Len(b.constants) /\ k - 1 = constant /\ k \in 0 .. m
      BY <1>6, <2>6, <2>8
    <2>10. PICK c \in ConstantObjects : c = b.constants[k] BY <2>9, BytecodeType
    <2>11. PICK w \in Seq(Byte) : w = write_constant(c) /\ Len(w) \in Nat BY PieceType
    <2>12. /\ off[k] = off[k - 1] + Len(w) /\ HasBytes(d, off[k - 1], w) /\ off[k] <= off[m]
      BY <1>5, <2>8, <2>9, <2>10, <2>11 DEF Laid, Piece
    <2>13. ModestConstant(c)
      <3>1. c \in ToSet(b.constants)
        <4>1. k \in DOMAIN b.constants BY <2>9, BytecodeType
        <4>. QED BY <2>10, <4>1 DEF ToSet
      <3>. QED BY <1>2, <1>8, <3>1 DEF Modest
    <2>14. ReadsAs(c, w)
      <3>1. HasBytes(disk, position, write_constant(c)) BY <1>2, <2>6, <2>9, <2>11, <2>12
      <3>. QED BY <1>2, <2>3, <2>4, <2>11, <2>13, <3>1, ReadsConstant
    <2>15. CASE position + read_constant.size <= Len(disk)
      <3>1. read_constant.value = c /\ read_constant.size = Len(w)
        BY <2>14, <2>15 DEF ReadsAs
      <3>2. pool' = Append(pool, c) /\ position' = off[k] /\ constant' = k
        BY <2>1, <2>6, <2>8, <2>9, <2>12, <2>15, <3>1
      <3>3. /\ pool' \in Seq(ConstantObjects) /\ Len(pool') = constant'
            /\ \A i \in 1 .. constant' : pool'[i] = saved'.constants[i]
        <4>1. /\ Append(pool, c) \in Seq(ConstantObjects)
              /\ Len(Append(pool, c)) = Len(pool) + 1
              /\ \A i \in 1 .. Len(pool) : Append(pool, c)[i] = pool[i]
              /\ Append(pool, c)[Len(pool) + 1] = c
          BY <2>6, AppendProperties
        <4>2. ASSUME NEW i \in 1 .. k PROVE Append(pool, c)[i] = b.constants[i]
          <5>1. CASE i = k BY <2>6, <2>8, <2>10, <4>1, <5>1
          <5>2. CASE i # k
            <6>1. i \in 1 .. constant BY <2>8, <2>6, <5>2
            <6>. QED BY <2>6, <4>1, <6>1
          <5>. QED BY <5>1, <5>2
        <4>3. Len(Append(pool, c)) = k BY <2>6, <2>8, <4>1
        <4>. QED BY <1>1, <1>2, <3>2, <4>1, <4>2, <4>3
      <3>4. /\ constant' \in 0 .. m /\ position' = off[constant'] /\ position' <= Len(disk')
            /\ expected' = Len(saved'.constants)
        BY <1>1, <1>2, <2>1, <2>6, <2>9, <2>15, <3>2
      <3>. QED BY <3>3, <3>4 DEF Intact
    <2>16. CASE ~(position + read_constant.size <= Len(disk))
      <3>1. read_constant.size \in Nat BY <2>14 DEF ReadsAs
      <3>2. position' \in Nat /\ position' > Len(disk')
        BY <1>1, <1>2, <1>6, <2>1, <2>3, <2>16, <3>1
      <3>3. ASSUME whole PROVE FALSE
        <4>1. position + Len(w) <= Len(disk)
          <5>1. Len(d) = End(b, m, off, program) BY <1>5, <3>3
          <5>2. position = off[k - 1] BY <2>6, <2>9
          <5>3. off[k] <= Len(d)
            <6>1. off[k] \in Nat BY <2>9
            <6>. QED BY <1>6, <2>12, <5>1, <6>1
          <5>. QED BY <1>2, <2>12, <5>2, <5>3
        <4>2. read_constant.size = Len(w) BY <2>14, <4>1 DEF ReadsAs
        <4>. QED BY <2>16, <4>1, <4>2
      <3>. QED BY <1>1, <3>2, <3>3 DEF Behind
    <2>. QED BY <2>15, <2>16
  <1>9. OnDisk(m, off, program)'
    <2>1. Laid(disk', saved', m, off, program) BY <1>1, <1>2, <1>5
    <2>2. /\ Len(disk') <= End(saved', m, off, program)
          /\ whole' => program /\ Len(disk') = End(saved', m, off, program)
      BY <1>1, <1>2, <1>5
    <2>3. io' = "read" /\ Modest(saved') => (Intact(m, off) \/ Behind)' BY <1>1, <1>8
    <2>. QED BY <1>7, <2>1, <2>2, <2>3 DEF OnDisk, Writing
  <1>. QED BY <1>7, <1>9 DEF FileInv

LEMMA ReadsProgram ==
  ASSUME FileInv, read_program
  PROVE  FileInv'
  <1>1. /\ io = "read" /\ constant = expected /\ io' = "loaded"
        /\ UNCHANGED <<disk, saved, whole, pool>>
    BY DEF read_program
  <1>2. PICK d \in Seq(Byte), b \in Bytecodes : d = disk /\ b = saved BY <1>1, BinaryOpened
  <1>3. PICK m \in 0 .. Len(saved.constants), program \in BOOLEAN :
          \E off \in [0 .. m -> Nat] : OnDisk(m, off, program)
    BY <1>1, BinaryOpened
  <1>4. PICK off \in [0 .. m -> Nat] : OnDisk(m, off, program) BY <1>3
  <1>5. /\ Laid(d, b, m, off, program) /\ Len(d) <= End(b, m, off, program)
        /\ whole => program /\ Len(d) = End(b, m, off, program)
    BY <1>2, <1>4 DEF OnDisk
  <1>6. /\ m \in 0 .. Len(b.constants) /\ off[m] \in Nat /\ Len(d) \in Nat
        /\ off[m] <= End(b, m, off, program) /\ End(b, m, off, program) \in Nat
        /\ ~program => End(b, m, off, program) = off[m]
        /\ program => /\ m = Len(b.constants)
                      /\ End(b, m, off, program) = off[m] + 2 + Len(b.instructions)
        /\ Len(b.constants) \in Nat /\ Len(b.instructions) \in Nat
        /\ b.instructions \in Seq(Byte) /\ b.constants \in Seq(ConstantObjects)
        /\ DOMAIN d = 1 .. Len(d)
    <2>1. m \in 0 .. Len(b.constants) BY <1>2
    <2>2. Len(d) \in Nat /\ Len(b.constants) \in Nat /\ Len(b.instructions) \in Nat
          /\ b.instructions \in Seq(Byte) /\ b.constants \in Seq(ConstantObjects)
          /\ DOMAIN d = 1 .. Len(d)
      BY BytecodeType, LenProperties
    <2>. QED BY <1>5, <2>1, <2>2, EndOfLaid
  <1>7. ASSUME Modest(saved) PROVE Loaded'
    <2>1. Intact(m, off) \/ Behind BY <1>1, <1>4, <1>7 DEF OnDisk
    <2>2. position \in Nat
      BY <2>1 DEF Intact, Behind
    <2>3. PICK from \in Nat : from = position + 2 BY <2>2
    <2>. DEFINE Ends(k) ==
           /\ from + k + 1 \in DOMAIN disk => disk[from + k + 1] = BYTE - 1
           /\ \A i \in 1 .. k : from + i \in DOMAIN disk /\ disk[from + i] # BYTE - 1
                n == CHOOSE k \in 0 .. Len(disk) : Ends(k)
    <2>4. ins' = [i \in 1 .. n |-> int8(disk[from + i])] BY <2>3 DEF read_program
    <2>. HIDE DEF n
    <2>5. ASSUME \E k \in 0 .. Len(disk) : Ends(k)
          PROVE  n \in 0 .. Len(disk) /\ Ends(n)
      BY <2>5 DEF n
    <2>. HIDE DEF Ends
    <2>6. CASE position + 2 >= Len(disk)
      <3>1. Ends(0) BY <1>2, <1>6, <2>3, <2>6 DEF Ends
      <3>2. 0 \in 0 .. Len(disk) BY <1>2, <1>6
      <3>3. PICK q \in 0 .. Len(disk) : q = n /\ Ends(q) BY <2>5, <3>1, <3>2
      <3>4. q = 0
        <4>1. ASSUME q # 0 PROVE FALSE
          <5>1. 1 \in 1 .. q BY <1>2, <1>6, <4>1
          <5>2. from + 1 \in 1 .. Len(disk) BY <1>2, <1>6, <3>3, <5>1 DEF Ends
          <5>. QED BY <1>2, <1>6, <2>3, <2>6, <5>2
        <4>. QED BY <4>1
      <3>5. ins' = <<>> BY <2>4, <3>3, <3>4
      <3>6. IsPrefix(<<>>, b.instructions)
        <4>1. SubSeq(b.instructions, 1, 0) = <<>> /\ SubSeq(<<>>, 1, 0) = <<>>
          BY <1>6, SubSeqEmpty, EmptySeq
        <4>. QED BY <1>6, <4>1 DEF IsPrefix
      <3>7. ASSUME whole PROVE AsSaved'
        <4>1. Intact(m, off) BY <2>1, <3>7 DEF Behind
        <4>2. program /\ constant = m /\ m = Len(b.constants)
          BY <1>1, <1>2, <1>5, <1>6, <3>7, <4>1 DEF Intact
        <4>3. Len(b.instructions) = 0
          <5>1. PICK z \in Nat, l \in Nat : z = off[m] /\ l = Len(b.instructions) BY <1>6
          <5>2. position = z BY <4>1, <4>2, <5>1 DEF Intact
          <5>3. Len(d) = z + 2 + l BY <1>5, <1>6, <3>7, <4>2, <5>1
          <5>4. z + 2 >= z + 2 + l BY <1>2, <2>6, <5>2, <5>3
          <5>. QED BY <5>1, <5>4
        <4>4. b.instructions = <<>> BY <1>6, <4>3, EmptySeq
        <4>5. pool = b.constants
          BY <1>2, <1>6, <4>1, <4>2, SeqEqual DEF Intact
        <4>. QED BY <1>1, <1>2, <3>5, <4>4, <4>5 DEF AsSaved
      <3>. QED BY <1>1, <1>2, <3>5, <3>6, <3>7 DEF Loaded
    <2>7. CASE position + 2 < Len(disk)
      <3>1. Intact(m, off) BY <1>2, <1>6, <2>1, <2>2, <2>7 DEF Behind
      <3>2. /\ constant \in 0 .. m /\ position = off[constant] /\ constant = Len(b.constants)
            /\ pool \in Seq(ConstantObjects) /\ Len(pool) = constant
            /\ \A i \in 1 .. constant : pool[i] = b.constants[i]
        BY <1>1, <1>2, <3>1 DEF Intact
      <3>3. constant = m /\ m = Len(b.constants) /\ position = off[m] BY <1>6, <3>2
      <3>4. program BY <1>2, <1>5, <1>6, <2>7, <3>3
      <3>5. pool = b.constants BY <1>6, <3>2, SeqEqual
      <3>6. PICK l \in Nat : l = Len(b.instructions) BY <1>6
      <3>7. ASSUME NEW i \in 1 .. l, from + i <= Len(disk)
            PROVE  disk[from + i] = b.instructions[i]
        <4>1. HasBytes(d, off[m], Trailer(b)) BY <1>5, <3>4 DEF Laid
        <4>2. /\ Len(Trailer(b)) = 2 + l /\ Trailer(b)[2 + i] = b.instructions[i]
          BY <1>6, <3>6, PieceOfInstructions DEF Trailer
        <4>3. PICK j \in 1 .. Len(Trailer(b)) : j = 2 + i BY <4>2
        <4>4. off[m] + j = from + i
          <5>1. PICK z \in Nat : z = off[m] BY <1>6
          <5>2. from = z + 2 BY <2>3, <3>3, <5>1
          <5>. QED BY <3>6, <4>3, <5>1, <5>2
        <4>. QED BY <1>2, <3>7, <4>1, <4>2, <4>3, <4>4 DEF HasBytes
      <3>8. ASSUME NEW i \in 1 .. l
            PROVE  /\ b.instructions[i] \in 0 .. 127
                   /\ b.instructions[i] # BYTE - 1
                   /\ int8(b.instructions[i]) = b.instructions[i]
        <4>1. i \in DOMAIN b.instructions /\ b.instructions[i] \in Byte BY <1>6, <3>6
        <4>2. b.instructions[i] < BYTE \div 2 BY <1>2, <1>7, <4>1 DEF Modest
        <4>3. PICK x \in 0 .. 255 : x = b.instructions[i] BY <4>1, Numerals
        <4>4. x < 256 \div 2 BY <4>2, <4>3, Numerals
        <4>5. x \in 0 .. 127 /\ x # 255 BY <4>4
        <4>6. int8(x) = x BY <4>4, Numerals DEF int8
        <4>. QED BY <4>3, <4>5, <4>6, Numerals
      <3>9. PICK r \in 0 .. l : from + r = Len(disk)
        <4>1. Len(d) <= from + l BY <1>5, <1>6, <2>3, <3>3, <3>4, <3>6
        <4>2. Len(d) - from \in 0 .. l BY <1>2, <1>6, <2>3, <2>7, <3>6, <4>1
        <4>3. from + (Len(d) - from) = Len(d) BY <1>6, <2>3
        <4>. QED BY <1>2, <4>2, <4>3
      <3>10. Ends(r)
        <4>1. ~(from + r + 1 \in DOMAIN disk) BY <1>2, <1>6, <3>9
        <4>2. ASSUME NEW i \in 1 .. r
              PROVE  from + i \in DOMAIN disk /\ disk[from + i] # BYTE - 1
          <5>1. i \in 1 .. l /\ from + i <= Len(disk) /\ from + i \in 1 .. Len(disk)
            BY <2>3, <3>9
          <5>. QED BY <1>2, <1>6, <3>7, <3>8, <5>1
        <4>. QED BY <4>1, <4>2 DEF Ends
      <3>11. r \in 0 .. Len(disk) BY <2>3, <3>9
      <3>12. PICK q \in 0 .. Len(disk) : q = n /\ Ends(q) BY <2>5, <3>10, <3>11
      <3>13. q = r
        <4>1. ASSUME q > r PROVE FALSE
          <5>1. r + 1 \in 1 .. q BY <3>9, <4>1
          <5>2. from + (r + 1) \in 1 .. Len(disk) BY <1>2, <1>6, <3>12, <5>1 DEF Ends
          <5>. QED BY <1>2, <1>6, <2>3, <3>9, <5>2
        <4>2. ASSUME q < r PROVE FALSE
          <5>1. PICK i \in 1 .. l : i = q + 1 BY <3>9, <4>2
          <5>2. from + i <= Len(disk) /\ from + i \in 1 .. Len(disk) /\ from + q + 1 = from + i
            BY <2>3, <3>9, <4>2, <5>1
          <5>3. disk[from + i] = BYTE - 1 BY <1>2, <1>6, <3>12, <5>2 DEF Ends
          <5>. QED BY <3>7, <3>8, <5>2, <5>3
        <4>. QED BY <3>9, <4>1, <4>2
      <3>14. /\ ins' \in Seq(Byte) /\ Len(ins') = r
             /\ \A i \in 1 .. r : ins'[i] = b.instructions[i]
        <4>1. ins' = [i \in 1 .. r |-> int8(disk[from + i])] BY <2>4, <3>12, <3>13
        <4>2. ASSUME NEW i \in 1 .. r
              PROVE  int8(disk[from + i]) = b.instructions[i] /\ b.instructions[i] \in Byte
          <5>1. i \in 1 .. l /\ from + i <= Len(disk) BY <2>3, <3>9
          <5>. QED BY <3>7, <3>8, <5>1, Numerals
        <4>3. ins' = [i \in 1 .. r |-> b.instructions[i]] BY <4>1, <4>2
        <4>4. r \in Nat BY <3>9
        <4>. QED BY <4>2, <4>3, <4>4
      <3>15. IsPrefix(ins', b.instructions)
        <4>1. r <= l /\ r \in Nat BY <3>9
        <4>2. \A i \in 1 .. r : ins'[i] \in Byte /\ b.instructions[i] \in Byte BY <3>14
        <4>3. /\ SubSeq(ins', 1, r) \in Seq(Byte)
              /\ Len(SubSeq(ins', 1, r)) = IF 1 <= r THEN r - 1 + 1 ELSE 0
              /\ \A i \in 1 .. r - 1 + 1 : SubSeq(ins', 1, r)[i] = ins'[1 + i - 1]
          BY <3>14, <4>1, <4>2, SubSeqProperties
        <4>4. /\ SubSeq(b.instructions, 1, r) \in Seq(Byte)
              /\ Len(SubSeq(b.instructions, 1, r)) = IF 1 <= r THEN r - 1 + 1 ELSE 0
              /\ \A i \in 1 .. r - 1 + 1 :
                   SubSeq(b.instructions, 1, r)[i] = b.instructions[1 + i - 1]
          BY <1>6, <4>1, <4>2, SubSeqProperties
        <4>5. r - 1 + 1 = r /\ \A i \in 1 .. r : 1 + i - 1 = i BY <4>1
        <4>6. /\ Len(SubSeq(ins', 1, r)) = Len(SubSeq(b.instructions, 1, r))
              /\ Len(SubSeq(ins', 1, r)) = r
          BY <4>1, <4>3, <4>4
        <4>7. \A i \in 1 .. Len(SubSeq(ins', 1, r)) :
                SubSeq(ins', 1, r)[i] = SubSeq(b.instructions, 1, r)[i]
          BY <3>14, <4>3, <4>4, <4>5, <4>6
        <4>8. SubSeq(ins', 1, r) = SubSeq(b.instructions, 1, r)
          BY <4>3, <4>4, <4>6, <4>7, SeqEqual
        <4>. QED BY <3>6, <3>14, <4>1, <4>8 DEF IsPrefix
      <3>16. ASSUME whole PROVE ins' = b.instructions
        <4>1. r = l
          <5>1. PICK z \in Nat : z = off[m] BY <1>6
          <5>2. from = z + 2 BY <2>3, <3>3, <5>1
          <5>3. Len(d) = z + 2 + l BY <1>5, <1>6, <3>4, <3>6, <3>16, <5>1
          <5>. QED BY <1>2, <3>9, <5>2, <5>3
        <4>. QED BY <1>6, <3>6, <3>14, <4>1, SeqEqual
      <3>. QED BY <1>1, <1>2, <3>5, <3>15, <3>16 DEF Loaded, AsSaved
    <2>. QED BY <1>2, <1>6, <2>2, <2>6, <2>7
  <1>8. OnDisk(m, off, program)'
    <2>1. Laid(disk', saved', m, off, program) BY <1>1, <1>2, <1>5
    <2>2. /\ Len(disk') <= End(saved', m, off, program)
          /\ whole' => program /\ Len(disk') = End(saved', m, off, program)
      BY <1>1, <1>2, <1>5
    <2>3. Modest(saved') => Loaded' BY <1>1, <1>7
    <2>. QED BY <1>1, <2>1, <2>2, <2>3 DEF OnDisk, Writing
  <1>9. /\ disk' \in Seq(Byte) /\ saved' \in Bytecodes /\ m \in 0 .. Len(saved'.constants)
    BY <1>1, <1>2
  <1>. QED BY <1>1, <1>8, <1>9 DEF FileInv

LEMMA ClosesBinary ==
  ASSUME FileInv, close_binary
  PROVE  FileInv'
  <1>1. /\ io \in {"loaded", "dead"} /\ io' = "idle" /\ position' = 0
        /\ UNCHANGED <<disk, saved, whole>>
    BY DEF close_binary
  <1>2. disk \in Seq(Byte) /\ saved \in Bytecodes BY <1>1, BinaryOpened
  <1>3. PICK m \in 0 .. Len(saved.constants), program \in BOOLEAN :
          \E off \in [0 .. m -> Nat] : OnDisk(m, off, program)
    BY <1>1, BinaryOpened
  <1>4. PICK off \in [0 .. m -> Nat] : OnDisk(m, off, program) BY <1>3
  <1>5. OnDisk(m, off, program)' BY <1>1, <1>4 DEF OnDisk, Writing
  <1>6. /\ disk' \in Seq(Byte) /\ saved' \in Bytecodes /\ m \in 0 .. Len(saved'.constants)
    BY <1>1, <1>2
  <1>. QED BY <1>1, <1>5, <1>6 DEF FileInv

LEMMA FileStutters ==
  ASSUME FileInv, UNCHANGED fileVars
  PROVE  FileInv'
  <1>1. UNCHANGED <<disk, io, saved, whole, constant, position, expected, pool, ins>>
    BY DEF fileVars
  <1>2. ASSUME NEW m \in 0 .. Len(saved.constants), NEW program \in BOOLEAN,
               NEW off \in [0 .. m -> Nat], OnDisk(m, off, program)
        PROVE  OnDisk(m, off, program)'
    BY <1>1, <1>2 DEF OnDisk, Intact, Behind, Loaded, AsSaved, Writing
  <1>. QED BY <1>1, <1>2 DEF FileInv

----------------------------------------------------------------------------
(* The theorems *)

(* What is on disk, at every step of the writer and the reader and after   *)
(* every interruption, is the first part of what the last compilation      *)
(* writes (file_generator.c:20-34); what the reader has got of it is as it *)
(* was written, or lies behind the end of the file (file_loader.c:138-189).*)
THEOREM FileInvariant == FileSpec => []FileInv
  <1>1. FileInit => FileInv BY DEF FileInit, FileInv
  <1>2. FileInv /\ [FileNext]_fileVars => FileInv'
    BY Begins, WritesMagic, WritesConstant, WritesProgram, Closes, CutsShort, OpensBinary,
       ReadsConstants, ReadsProgram, ClosesBinary, FileStutters
       DEF FileNext, save, get_bytecode_from_file
  <1>. QED BY <1>1, <1>2, PTL DEF FileSpec

(* For any bytecode whose counts fit two bytes and are not read through a  *)
(* sign, and whose program has no byte that is taken for EOF: what has     *)
(* been written whole is loaded as it was.                                 *)
THEOREM FilesAreLoadedAsWritten == FileSpec => []LoadedAsWritten
  <1>1. FileInv => LoadedAsWritten
    BY DEF FileInv, OnDisk, Loaded, LoadedAsWritten
  <1>. QED BY <1>1, FileInvariant, PTL

(* And from one that was cut at any byte, the first part of its program    *)
(* is loaded, with all of the constants if it is not empty.                *)
THEOREM CutFilesAreLoadedInPart == FileSpec => []CutFilesLoadAPrefix
  <1>1. FileInv => CutFilesLoadAPrefix
    BY DEF FileInv, OnDisk, Loaded, CutFilesLoadAPrefix
  <1>. QED BY <1>1, FileInvariant, PTL

=============================================================================
