---------------------------- MODULE LexerProofs ----------------------------
(***************************************************************************)
(* The lexer returns the longest tokens of any text, in order, from a      *)
(* string or from a file read through buffers of any size.                 *)
(***************************************************************************)
EXTENDS Lexer, SequenceTheorems, TLAPS

(* The character behind the first k ones.                                  *)
CharAt(k) == IF k < Len(text) THEN text[k + 1] ELSE NUL

(* The buffer is the part of the text that ends at offset; a file whose    *)
(* end has not been met has filled it, so that it is never empty then.     *)
BufferOK ==
  /\ text \in Seq(Characters) /\ input \in Seq(Characters)
  /\ file \in BOOLEAN /\ feof \in BOOLEAN
  /\ offset \in 0 .. Len(text) /\ Len(input) <= offset
  /\ \A i \in 1 .. Len(input) : input[i] = text[offset - Len(input) + i]
  /\ read_position \in 1 .. Len(input) + 1
  /\ ~file \/ feof => offset = Len(text)
  /\ file => Len(input) <= Buffer
  /\ file /\ ~feof => Len(input) = Buffer
  /\ read_position = Len(input) + 1 => ~file \/ feof
  /\ ch = IF read_position <= Len(input) THEN input[read_position] ELSE NUL

(* No character of a text is the NUL that stands behind them.              *)
LEMMA NoCharacter == NUL \notin Characters
  BY DEF NUL, Characters, Letters, Digits, Doubles, Singles, Quote

(* Where the lexer is in the text, without the buffer.                     *)
LEMMA Position ==
  ASSUME BufferOK
  PROVE  /\ Consumed \in 0 .. Len(text) /\ Len(text) \in Nat
         /\ ch = CharAt(Consumed)
         /\ ch = NUL <=> Consumed = Len(text)
         /\ Consumed = Len(text) => ~file \/ feof
         /\ ch # NUL => ch \in Characters
  <1>1. /\ Len(text) \in Nat /\ Len(input) \in Nat /\ offset \in Nat
        /\ \A i \in 1 .. Len(text) : text[i] \in Characters
    BY DEF BufferOK
  <1>2. CASE read_position <= Len(input)
    <2>1. Consumed = offset - Len(input) + (read_position - 1)
      BY <1>1, <1>2 DEF BufferOK, Consumed, Min2
    <2>2. Consumed + 1 \in 1 .. Len(text) /\ ch = text[Consumed + 1]
      BY <1>1, <1>2, <2>1 DEF BufferOK
    <2>3. ch \in Characters /\ ch # NUL BY <1>1, <2>2, NoCharacter
    <2>4. Consumed \in Int BY <1>1, <2>1 DEF BufferOK
    <2>5. Consumed \in 0 .. Len(text) /\ Consumed < Len(text) BY <1>1, <2>2, <2>4
    <2>. QED BY <1>1, <2>2, <2>3, <2>5 DEF CharAt
  <1>3. CASE read_position = Len(input) + 1
    <2>1. Consumed = offset BY <1>1, <1>3 DEF BufferOK, Consumed, Min2
    <2>2. offset = Len(text) /\ ch = NUL /\ (~file \/ feof)
      BY <1>1, <1>3 DEF BufferOK
    <2>. QED BY <1>1, <2>1, <2>2 DEF CharAt
  <1>. QED BY <1>1, <1>2, <1>3 DEF BufferOK

(* fread: the characters behind the first buffer follow it.                *)
LEMMA Refill ==
  ASSUME BufferOK, refill, UNCHANGED <<text, file>>, file, ~feof,
         read_position = Len(input)
  PROVE  BufferOK' /\ Consumed' = Consumed + 1
  <1>1. /\ Len(text) \in Nat /\ Len(input) \in Nat /\ offset \in Nat
        /\ offset <= Len(text) /\ Buffer \in Nat /\ Buffer > 0 /\ Len(input) = Buffer
        /\ \A i \in 1 .. Len(text) : text[i] \in Characters
    BY BufferPositive DEF BufferOK
  <1>. DEFINE m == Min2(offset + Buffer, Len(text))
  <1>2. /\ m \in Nat /\ offset <= m /\ m <= Len(text) /\ m <= offset + Buffer
        /\ m < offset + Buffer => m = Len(text)
    BY <1>1 DEF Min2
  <1>3. Chunk = SubSeq(text, offset + 1, m) BY DEF Chunk
  <1>. HIDE DEF m
  <1>4. /\ Chunk \in Seq(Characters) /\ Len(Chunk) = m - offset
        /\ \A i \in 1 .. m - offset : Chunk[i] = text[offset + i]
    <2>1. \A i \in offset + 1 .. m : text[i] \in Characters BY <1>1, <1>2
    <2>2. /\ SubSeq(text, offset + 1, m) \in Seq(Characters)
          /\ Len(SubSeq(text, offset + 1, m))
               = IF offset + 1 <= m THEN m - (offset + 1) + 1 ELSE 0
          /\ \A i \in 1 .. m - (offset + 1) + 1 :
               SubSeq(text, offset + 1, m)[i] = text[offset + 1 + i - 1]
      BY <1>1, <1>2, <2>1, SubSeqProperties
    <2>3. Len(SubSeq(text, offset + 1, m)) = m - offset BY <2>2, <1>1, <1>2
    <2>4. \A i \in 1 .. m - offset : SubSeq(text, offset + 1, m)[i] = text[offset + i]
      <3>1. \A i \in 1 .. m - offset : offset + 1 + i - 1 = offset + i BY <1>1, <1>2
      <3>2. m - (offset + 1) + 1 = m - offset BY <1>1, <1>2
      <3>. QED BY <2>2, <3>1, <3>2
    <2>. QED BY <2>2, <2>3, <2>4, <1>3
  <1>5. Chunk = <<>> <=> m = offset BY <1>1, <1>2, <1>4
  <1>6. /\ input' = Chunk /\ offset' = m /\ feof' = (m - offset < Buffer)
        /\ ch' = (IF Chunk = <<>> THEN NUL ELSE Chunk[1]) /\ read_position' = 1
        /\ text' = text /\ file' = file
    BY <1>1, <1>2, <1>4 DEF refill
  <1>7. BufferOK'
    <2>1. input' \in Seq(Characters) /\ Len(input') = m - offset BY <1>4, <1>6
    <2>2. \A i \in 1 .. Len(input)' : input'[i] = text'[offset' - Len(input)' + i]
      <3>1. offset' - Len(input)' = offset BY <1>1, <1>2, <1>6, <2>1
      <3>. QED BY <1>4, <1>6, <2>1, <3>1
    <2>3. text' \in Seq(Characters) /\ file' \in BOOLEAN /\ feof' \in BOOLEAN
      BY <1>6 DEF BufferOK
    <2>4. offset' \in 0 .. Len(text') /\ Len(input') <= offset'
      BY <1>1, <1>2, <1>6, <2>1
    <2>5. /\ feof' => offset' = Len(text')
          /\ Len(input') <= Buffer
          /\ ~feof' => Len(input') = Buffer
      <3>1. /\ m - offset < Buffer => m = Len(text)
            /\ m - offset <= Buffer
            /\ ~(m - offset < Buffer) => m - offset = Buffer
        BY <1>1, <1>2
      <3>. QED BY <3>1, <1>6, <2>1
    <2>8. /\ read_position' \in 1 .. Len(input') + 1
          /\ read_position' = Len(input') + 1 => feof'
      <3>1. 1 \in 1 .. m - offset + 1 /\ (1 = m - offset + 1 => m - offset < Buffer)
        BY <1>1, <1>2
      <3>. QED BY <3>1, <1>6, <2>1
    <2>6. ch' = IF read_position' <= Len(input') THEN input'[read_position'] ELSE NUL
      BY <1>1, <1>2, <1>5, <1>6, <2>1
    <2>7. file' BY <1>6
    <2>. QED BY <2>1, <2>2, <2>3, <2>4, <2>5, <2>6, <2>7, <2>8
         DEF BufferOK
  <1>8. Consumed = offset - 1 BY <1>1 DEF Consumed, Min2
  <1>9. Consumed' = offset
    BY <1>1, <1>2, <1>4, <1>6 DEF Consumed, Min2
  <1>. QED BY <1>1, <1>7, <1>8, <1>9

(* A character is read: the next one of the text, wherever it is.          *)
LEMMA ReadChar ==
  ASSUME BufferOK, UNCHANGED <<text, file>>, NEW e \in BOOLEAN, read_char_after(e),
         feof => e, e => feof \/ ~file \/ offset = Len(text)
  PROVE  /\ BufferOK'
         /\ Consumed' = IF Consumed < Len(text) THEN Consumed + 1 ELSE Consumed
  <1>1. /\ Len(text) \in Nat /\ Len(input) \in Nat /\ offset \in Nat
        /\ read_position \in Nat
    BY DEF BufferOK
  <1>2. CASE read_position < Len(input)
    <2>1. /\ ch' = input[read_position + 1] /\ read_position' = read_position + 1
          /\ feof' = e /\ UNCHANGED <<input, offset>>
      BY <1>2 DEF read_char_after
    <2>2. BufferOK' BY <1>1, <1>2, <2>1 DEF BufferOK
    <2>3. Consumed = offset - Len(input) + (read_position - 1)
      BY <1>1, <1>2 DEF Consumed, Min2, BufferOK
    <2>4. Consumed' = offset - Len(input) + read_position
      BY <1>1, <1>2, <2>1 DEF Consumed, Min2, BufferOK
    <2>5. Consumed < Len(text) BY <1>1, <1>2, <2>3 DEF BufferOK
    <2>. QED BY <1>1, <2>2, <2>3, <2>4, <2>5
  <1>3. CASE ~(read_position < Len(input)) /\ file /\ ~e
    <2>1. read_position = Len(input)
      BY <1>1, <1>3 DEF BufferOK
    <2>2. refill BY <1>3 DEF read_char_after
    <2>3. BufferOK' /\ Consumed' = Consumed + 1 BY <1>3, <2>1, <2>2, Refill
    <2>4. Consumed < Len(text)
      BY <1>1, <1>3, <2>1, BufferPositive DEF BufferOK, Consumed, Min2
    <2>. QED BY <2>3, <2>4
  <1>4. CASE ~(read_position < Len(input)) /\ ~(file /\ ~e)
    <2>1. /\ ch' = NUL /\ read_position' = Min2(read_position + 1, Len(input) + 1)
          /\ feof' = e /\ UNCHANGED <<input, offset>>
      BY <1>4 DEF read_char_after
    <2>2. offset = Len(text) BY <1>4 DEF BufferOK
    <2>3. read_position' = Len(input) + 1 BY <1>1, <1>4, <2>1 DEF Min2, BufferOK
    <2>4. BufferOK' BY <1>1, <1>4, <2>1, <2>2, <2>3 DEF BufferOK
    <2>5. Consumed' = offset BY <1>1, <2>1, <2>3 DEF Consumed, Min2
    <2>6. CASE read_position = Len(input)
      <3>1. Consumed = offset - 1 BY <1>1, <2>6, BufferPositive DEF Consumed, Min2, BufferOK
      <3>. QED BY <1>1, <2>2, <2>4, <2>5, <3>1
    <2>7. CASE read_position = Len(input) + 1
      <3>1. Consumed = offset BY <1>1, <2>7 DEF Consumed, Min2
      <3>. QED BY <1>1, <2>2, <2>4, <2>5, <3>1
    <2>8. read_position = Len(input) \/ read_position = Len(input) + 1
      BY <1>1, <1>4 DEF BufferOK
    <2>. QED BY <2>6, <2>7, <2>8
  <1>. QED BY <1>2, <1>3, <1>4

(* A look at the next character, and what it may find out on the way.      *)
LEMMA PeekChar ==
  ASSUME BufferOK, Consumed < Len(text)
  PROVE  peek_char = CharAt(Consumed + 1)
  <1>1. /\ Len(text) \in Nat /\ Len(input) \in Nat /\ offset \in Nat
        /\ read_position \in Nat
    BY DEF BufferOK
  <1>2. read_position <= Len(input)
    BY <1>1 DEF BufferOK, Consumed, Min2
  <1>3. Consumed = offset - Len(input) + (read_position - 1)
    BY <1>1, <1>2 DEF Consumed, Min2, BufferOK
  <1>4. CASE read_position < Len(input)
    <2>1. peek_char = text[Consumed + 2]
      BY <1>1, <1>3, <1>4 DEF BufferOK, peek_char
    <2>. QED BY <1>1, <1>3, <1>4, <2>1 DEF BufferOK, CharAt
  <1>5. CASE read_position = Len(input)
    <2>1. Consumed + 1 = offset BY <1>1, <1>3, <1>5
    <2>. QED BY <1>1, <1>5, <2>1 DEF BufferOK, peek_char, CharAt
  <1>. QED BY <1>1, <1>2, <1>4, <1>5

LEMMA Peeked ==
  ASSUME BufferOK
  PROVE  \E e \in BOOLEAN : /\ e = FeofAfterPeek
                            /\ feof => e
                            /\ e => feof \/ ~file \/ offset = Len(text)
  <1>1. /\ FeofAfterPeek \in BOOLEAN
        /\ feof => FeofAfterPeek
        /\ FeofAfterPeek => feof \/ ~file \/ offset = Len(text)
    BY DEF BufferOK, FeofAfterPeek
  <1>2. CASE FeofAfterPeek = TRUE BY <1>1, <1>2
  <1>3. CASE FeofAfterPeek = FALSE BY <1>1, <1>3
  <1>. QED BY <1>1, <1>2, <1>3

(* The end of the file may be found out by a look at it.                   *)
LEMMA EndSeen ==
  ASSUME BufferOK, UNCHANGED <<text, file, offset, input, read_position, ch>>,
         feof' = feof \/ feof' = FeofAfterPeek
  PROVE  BufferOK' /\ Consumed' = Consumed
  BY DEF BufferOK, FeofAfterPeek, Consumed, Min2

----------------------------------------------------------------------------
(* What the scanner promises of the text at a position.                    *)

Blank == " "
Spaces == {Blank}

LEMMA SameSets ==
  /\ Scanned!Letters = Letters /\ Scanned!Digits = Digits /\ Scanned!Pairs = Doubles
  /\ Scanned!Singles = Singles /\ Scanned!Quote = Quote /\ Scanned!Spaces = Spaces
  BY DEF Scanned!Letters, Letters, Scanned!Digits, Digits, Scanned!Pairs, Doubles,
         Scanned!Singles, Singles, Scanned!Quote, Quote, Scanned!Spaces, Spaces, Blank

(* There is one number of characters that a run can have.                  *)
LEMMA RunIs ==
  ASSUME text \in Seq(Characters), NEW S, NEW p \in Nat \ {0}, NEW n \in 0 .. Len(text),
         \A i \in p .. p + n - 1 : i \in DOMAIN text /\ text[i] \in S,
         p + n \in DOMAIN text => text[p + n] \notin S
  PROVE  Scanned!Run(p, S) = n
  <1>. DEFINE Is(k) == /\ \A i \in p .. p + k - 1 : i \in DOMAIN text /\ text[i] \in S
                       /\ p + k \in DOMAIN text => text[p + k] \notin S
  <1>1. Is(n) OBVIOUS
  <1>2. ASSUME NEW k \in 0 .. Len(text), Is(k) PROVE k = n
    <2>1. ~(k < n)
      <3>1. SUFFICES ASSUME k < n PROVE FALSE OBVIOUS
      <3>2. p + k \in p .. p + n - 1 BY <3>1
      <3>. QED BY <3>2, <1>1, <1>2
    <2>2. ~(n < k)
      <3>1. SUFFICES ASSUME n < k PROVE FALSE OBVIOUS
      <3>2. p + n \in p .. p + k - 1 BY <3>1
      <3>. QED BY <3>2, <1>1, <1>2
    <2>. QED BY <2>1, <2>2
  <1>3. Scanned!Run(p, S) = CHOOSE k \in 0 .. Len(text) : Is(k) BY DEF Scanned!Run
  <1>. HIDE DEF Is
  <1>. QED BY <1>1, <1>2, <1>3

Lexeme(t, n) == [token |-> t, size |-> n]
From(p, n) == SubSeq(text, p, p + n - 1)
HasAt(p, S) == p \in DOMAIN text /\ text[p] \in S
Hexes == (Letters \ {"_"}) \cup Digits
Numbers == Digits \cup {"."}
Insides == Characters \ {Quote}

LEMMA Lexemes ==
  ASSUME text \in Seq(Characters), NEW p \in 1 .. Len(text)
  PROVE  /\ text[p] \in Letters =>
              LET n == Scanned!Run(p, Letters)
              IN  Scanned!Lexeme(p) = Lexeme(Token(lookup_ident(From(p, n)), From(p, n)), n)
         /\ text[p] \in Doubles =>
              LET d == Scanned!Second(text[p])
              IN  Scanned!Lexeme(p) =
                    IF HasAt(p + 1, {d}) THEN Lexeme(Token("pair", <<text[p], d>>), 2)
                                    ELSE Lexeme(Token("single", <<text[p]>>), 1)
         /\ text[p] \in Singles =>
              Scanned!Lexeme(p) = Lexeme(Token("single", <<text[p]>>), 1)
         /\ text[p] = Quote =>
              LET n == Scanned!Run(p + 1, Insides)
              IN  Scanned!Lexeme(p) =
                    Lexeme(Token("STRING", From(p + 1, n)),
                            n + IF HasAt(p + 1 + n, {Quote}) THEN 2 ELSE 1)
         /\ text[p] = "0" /\ HasAt(p + 1, {"x"}) =>
              LET n == Scanned!Run(p + 2, Hexes)
              IN  Scanned!Lexeme(p) = Lexeme(Token("HEX", From(p + 2, n)), n + 2)
         /\ text[p] = "0" /\ HasAt(p + 1, {"b"}) =>
              LET n == Scanned!Run(p + 2, Numbers)
              IN  Scanned!Lexeme(p) = Lexeme(Token("BINARY", From(p + 2, n)), n + 2)
         /\ text[p] \in Digits /\ ~(text[p] = "0" /\ HasAt(p + 1, Letters)) =>
              LET n == Scanned!Run(p, Numbers)
              IN  Scanned!Lexeme(p) = Lexeme(Token("NUMBER", From(p, n)), n)
         /\ text[p] \in {".", "#"} =>
              Scanned!Lexeme(p) = Lexeme(Token("ILLEGAL", <<text[p]>>), 1)
  <1>. DEFINE c == text[p]
              one == {Scanned!Second(c)}
              word == Scanned!Run(p, Letters)
              number == Scanned!Run(p, Numbers)
              hex == Scanned!Run(p + 2, Hexes)
              bits == Scanned!Run(p + 2, Numbers)
              inside == Scanned!Run(p + 1, Insides)
  <1>1. \A q, S : Scanned!HasAt(q, S) <=> HasAt(q, S) BY DEF HasAt, Scanned!HasAt
  <1>2. Scanned!Letters \cup Scanned!Digits \cup Scanned!Spaces \cup Scanned!Pairs
          \cup Scanned!Singles \cup {".", "#"} = Insides
    BY SameSets
       DEF Insides, Characters, Letters, Digits, Doubles, Singles, Quote, Spaces, Blank
  <1>3. \A q, n : Scanned!From(q, n) = From(q, n) BY DEF From, Scanned!From
  <1>4. \A type, w : Scanned!Token(type, w) = Token(type, w) BY DEF Token, Scanned!Token
  <1>5. \A w : Scanned!Word(w) = Token(lookup_ident(w), w)
    BY <1>4 DEF Scanned!Word, lookup_ident
  <1>6. Scanned!Lexeme(p) =
          CASE c \in Letters -> Lexeme(Token(lookup_ident(From(p, word)), From(p, word)), word)
            [] c \in Doubles /\ HasAt(p + 1, one) ->
                 Lexeme(Token("pair", <<c, Scanned!Second(c)>>), 2)
            [] c \in Doubles /\ ~HasAt(p + 1, one) -> Lexeme(Token("single", <<c>>), 1)
            [] c \in Singles -> Lexeme(Token("single", <<c>>), 1)
            [] c = Quote -> Lexeme(Token("STRING", From(p + 1, inside)),
                                   inside + IF HasAt(p + 1 + inside, {Quote}) THEN 2 ELSE 1)
            [] c = "0" /\ HasAt(p + 1, {"x"}) -> Lexeme(Token("HEX", From(p + 2, hex)), hex + 2)
            [] c = "0" /\ HasAt(p + 1, {"b"}) -> Lexeme(Token("BINARY", From(p + 2, bits)), bits + 2)
            [] c \in Digits /\ ~(c = "0" /\ HasAt(p + 1, Letters)) ->
                 Lexeme(Token("NUMBER", From(p, number)), number)
            [] OTHER -> Lexeme(Token("ILLEGAL", <<c>>), 1)
    BY <1>1, <1>2, <1>3, <1>4, <1>5, SameSets
       DEF Scanned!Lexeme, Lexeme, Hexes, Numbers
  <1>7. /\ HasAt(p + 1, {"x"}) \/ HasAt(p + 1, {"b"}) => HasAt(p + 1, Letters)
        /\ ~(HasAt(p + 1, {"x"}) /\ HasAt(p + 1, {"b"}))
    BY DEF HasAt, Letters
  <1>. HIDE DEF word, number, hex, bits, inside, one
  <1>8. c \in Letters => c \notin Doubles \cup Singles \cup {Quote} \cup Digits
    BY DEF Letters, Doubles, Singles, Quote, Digits
  <1>9. c \in Doubles => c \notin Letters \cup Singles \cup {Quote} \cup Digits
    BY DEF Letters, Doubles, Singles, Quote, Digits
  <1>10. c \in Singles => c \notin Letters \cup Doubles \cup {Quote} \cup Digits
    BY DEF Letters, Doubles, Singles, Quote, Digits
  <1>11. c = Quote => c \notin Letters \cup Singles \cup Doubles \cup Digits
    BY DEF Letters, Doubles, Singles, Quote, Digits
  <1>12. c \in Digits => c \notin Letters \cup Singles \cup Doubles \cup {Quote}
    BY DEF Letters, Doubles, Singles, Quote, Digits
  <1>13. c = "0" => c \in Digits BY DEF Digits
  <1>14. c \in {".", "#"} => c \notin Letters \cup Singles \cup Doubles \cup {Quote} \cup Digits
    BY DEF Letters, Doubles, Singles, Quote, Digits
  <1>. HIDE DEF c, Scanned!Lexeme, Scanned!Second
  <1>15. c \in Letters =>
           Scanned!Lexeme(p) = Lexeme(Token(lookup_ident(From(p, word)), From(p, word)), word)
    BY <1>6, <1>8, <1>13
  <1>16. c \in Doubles =>
           Scanned!Lexeme(p) = IF HasAt(p + 1, one)
                               THEN Lexeme(Token("pair", <<c, Scanned!Second(c)>>), 2)
                               ELSE Lexeme(Token("single", <<c>>), 1)
    BY <1>6, <1>9, <1>13
  <1>17. c \in Singles => Scanned!Lexeme(p) = Lexeme(Token("single", <<c>>), 1)
    BY <1>6, <1>10, <1>13
  <1>18. c = Quote =>
           Scanned!Lexeme(p) =
             Lexeme(Token("STRING", From(p + 1, inside)),
                    inside + IF HasAt(p + 1 + inside, {Quote}) THEN 2 ELSE 1)
    BY <1>6, <1>11, <1>13
  <1>19. c = "0" /\ HasAt(p + 1, {"x"}) =>
           Scanned!Lexeme(p) = Lexeme(Token("HEX", From(p + 2, hex)), hex + 2)
    BY <1>6, <1>7, <1>12, <1>13
  <1>20. c = "0" /\ HasAt(p + 1, {"b"}) =>
           Scanned!Lexeme(p) = Lexeme(Token("BINARY", From(p + 2, bits)), bits + 2)
    BY <1>6, <1>7, <1>12, <1>13
  <1>21. c \in Digits /\ ~(c = "0" /\ HasAt(p + 1, Letters)) =>
           Scanned!Lexeme(p) = Lexeme(Token("NUMBER", From(p, number)), number)
    BY <1>6, <1>7, <1>12, <1>13
  <1>22. c \in {".", "#"} => Scanned!Lexeme(p) = Lexeme(Token("ILLEGAL", <<c>>), 1)
    BY <1>6, <1>13, <1>14
  <1>. QED BY <1>15, <1>16, <1>17, <1>18, <1>19, <1>20, <1>21, <1>22
       DEF c, one, word, number, hex, bits, inside

----------------------------------------------------------------------------
(* The invariant *)

(* The literal is the text from q up to the current character.             *)
Collected(q) ==
  /\ q \in 1 .. Consumed + 1
  /\ literal = SubSeq(text, q, Consumed)
  /\ \A i \in q .. Consumed : Takes(reading, text[i])

Readings == {"nothing", "pair", "mark", "identifier", "number", "hex", "binary", "string"}

(* The token under way begins at p, behind the blanks after the last one.  *)
Under(p) ==
  /\ p \in begun + 1 .. Consumed + 1
  /\ \A i \in begun + 1 .. p - 1 : text[i] = Blank
  /\ reading = "nothing" => p = Consumed + 1 /\ literal = <<>>
  /\ reading # "nothing" => p \in 1 .. Len(text)
  /\ reading = "pair" => /\ p = Consumed /\ text[p] \in Doubles
                         /\ HasAt(p + 1, {Scanned!Second(text[p])})
                         /\ literal = <<text[p], text[p + 1]>>
  /\ reading = "mark" => /\ p = Consumed /\ text[p] = "0" /\ HasAt(p + 1, {"x", "b"})
                         /\ literal = <<>>
  /\ reading = "identifier" => text[p] \in Letters /\ Collected(p)
  /\ reading = "number" => /\ text[p] \in Digits /\ ~(text[p] = "0" /\ HasAt(p + 1, Letters))
                           /\ Collected(p)
  /\ reading = "hex" => text[p] = "0" /\ HasAt(p + 1, {"x"}) /\ Collected(p + 2)
  /\ reading = "binary" => text[p] = "0" /\ HasAt(p + 1, {"b"}) /\ Collected(p + 2)
  /\ reading = "string" => text[p] = Quote /\ Collected(p + 1)

LexerInv ==
  /\ BufferOK
  /\ lexing \in {"idle", "running", "ended", "dead"}
  /\ reading \in Readings
  /\ begun \in 0 .. Consumed
  /\ literal \in Seq(Characters) /\ Len(literal) <= Literal
  /\ lexing = "running" => \E p \in 1 .. Len(text) + 1 : Under(p)

Running == LexerInv /\ lexing = "running" /\ UNCHANGED <<text, file>>
Unseen == UNCHANGED <<text, begun, tokens>> /\ lexing # "ended" /\ lexing' # "ended"

LEMMA Here ==
  ASSUME LexerInv
  PROVE  /\ Consumed \in 0 .. Len(text) /\ Len(text) \in Nat /\ DOMAIN text = 1 .. Len(text)
         /\ \A i \in 1 .. Len(text) : text[i] \in Characters /\ text[i] # NUL
         /\ ch # NUL => Consumed + 1 \in 1 .. Len(text) /\ ch = text[Consumed + 1]
                        /\ ch \in Characters
         /\ ch = NUL <=> Consumed = Len(text)
         /\ Consumed = Len(text) => ~file \/ feof
         /\ begun \in Nat
  <1>1. BufferOK /\ begun \in 0 .. Consumed BY DEF LexerInv
  <1>2. /\ Consumed \in 0 .. Len(text) /\ Len(text) \in Nat /\ ch = CharAt(Consumed)
        /\ ch = NUL <=> Consumed = Len(text)
        /\ Consumed = Len(text) => ~file \/ feof
        /\ ch # NUL => ch \in Characters
    BY <1>1, Position
  <1>3. /\ DOMAIN text = 1 .. Len(text)
        /\ \A i \in 1 .. Len(text) : text[i] \in Characters
    BY <1>1 DEF BufferOK
  <1>4. \A i \in 1 .. Len(text) : text[i] # NUL BY <1>3, NoCharacter
  <1>5. ch # NUL => Consumed + 1 \in 1 .. Len(text) /\ ch = text[Consumed + 1]
    BY <1>2 DEF CharAt
  <1>6. begun \in Nat BY <1>1, <1>2
  <1>7. Consumed \in 0 .. Len(text) /\ Len(text) \in Nat /\ DOMAIN text = 1 .. Len(text)
    BY <1>2, <1>3
  <1>8. \A i \in 1 .. Len(text) : text[i] \in Characters /\ text[i] # NUL BY <1>3, <1>4
  <1>. QED BY <1>2, <1>5, <1>6, <1>7, <1>8

(* The blanks before a token are those the scanner passes over.            *)
LEMMA Blanks ==
  ASSUME LexerInv, NEW p \in 1 .. Len(text) + 1, Under(p),
         p \in DOMAIN text => text[p] # Blank
  PROVE  begun + 1 + Scanned!Run(begun + 1, Spaces) = p
  <1>1. /\ begun \in Nat /\ Len(text) \in Nat /\ text \in Seq(Characters)
        /\ DOMAIN text = 1 .. Len(text)
    BY Here DEF LexerInv, BufferOK
  <1>2. /\ p \in Int /\ p >= begun + 1 /\ p <= Len(text) + 1
        /\ \A i \in begun + 1 .. p - 1 : text[i] = Blank
    <2>1. Consumed \in Int BY Here
    <2>2. p \in begun + 1 .. Consumed + 1 /\ \A i \in begun + 1 .. p - 1 : text[i] = Blank
      BY DEF Under
    <2>. QED BY <1>1, <2>1, <2>2
  <1>. DEFINE n == p - (begun + 1)
  <1>3. n \in 0 .. Len(text) /\ begun + 1 \in Nat \ {0} /\ begun + 1 + n = p
    BY <1>1, <1>2
  <1>4. \A i \in begun + 1 .. begun + 1 + n - 1 : i \in DOMAIN text /\ text[i] \in Spaces
    BY <1>1, <1>2 DEF Spaces
  <1>5. begun + 1 + n \in DOMAIN text => text[begun + 1 + n] \notin Spaces
    BY <1>3 DEF Spaces
  <1>. HIDE DEF n
  <1>6. Scanned!Run(begun + 1, Spaces) = n BY <1>1, <1>3, <1>4, <1>5, RunIs
  <1>. QED BY <1>3, <1>6

(* A token has been returned: it is the one the scanner finds.             *)
LEMMA Emitted ==
  ASSUME Running, BufferOK', lexing' = "running", NEW p \in 1 .. Len(text), Under(p),
         text[p] # Blank, NEW t, Emit(t),
         NEW k \in 0 .. Len(text), Consumed' = k, begun' = k,
         NEW n, Scanned!Lexeme(p) = Lexeme(t, n), k + 1 = p + n
  PROVE  LexerInv' /\ Scanned!Scan
  <1>1. /\ LexerInv /\ text' = text /\ tokens' = Append(tokens, t)
        /\ reading' = "nothing" /\ literal' = <<>>
    BY DEF Running, Emit
  <1>2. Len(text) \in Nat BY <1>1, Here
  <1>3. LexerInv'
    <2>1. literal' \in Seq(Characters) /\ Len(literal') <= Literal
      BY <1>1, LiteralHoldsPairs
    <2>2. PICK q \in 1 .. Len(text) + 1 : q = k + 1 BY <1>2
    <2>3. Under(q)'
      <3>1. /\ q \in k + 1 .. k + 1 /\ (\A i \in k + 1 .. q - 1 : text[i] = Blank)
        BY <1>2, <2>2
      <3>. QED BY <1>1, <2>2, <3>1 DEF Under
    <2>4. begun' \in 0 .. Consumed' BY <1>2
    <2>5. reading' \in Readings BY <1>1 DEF Readings
    <2>6. \E r \in 1 .. Len(text') + 1 : Under(r)' BY <1>1, <2>3
    <2>. QED BY <2>1, <2>4, <2>5, <2>6 DEF LexerInv
  <1>4. Scanned!Scan
    <2>1. begun + 1 + Scanned!Run(begun + 1, Spaces) = p BY <1>1, Blanks
    <2>2. p \in DOMAIN text BY <1>1, Here
    <2>3. /\ Scanned!Lexeme(p).token = t /\ Scanned!Lexeme(p).size = n BY DEF Lexeme
    <2>4. lexing # "ended" /\ lexing' # "ended" BY DEF Running
    <2>5. begun' + 1 = p + Scanned!Lexeme(p).size BY <2>3
    <2>6. Scanned!Spaces = Spaces BY SameSets
    <2>. QED BY <1>1, <2>1, <2>2, <2>3, <2>4, <2>5, <2>6 DEF Scanned!Scan
  <1>. QED BY <1>3, <1>4

(* The token goes on: nothing is seen of it yet.                           *)
LEMMA GoesOn ==
  ASSUME Running, BufferOK', NEW p, p \in 1 .. Len(text) + 1, Under(p)',
         UNCHANGED <<begun, tokens, lexing>>, reading' \in Readings, begun \in 0 .. Consumed',
         literal' \in Seq(Characters), Len(literal') <= Literal
  PROVE  LexerInv' /\ Unseen
  BY DEF Running, Unseen, LexerInv

LEMMA SkipWhitespace ==
  ASSUME Running, skip_whitespace
  PROVE  LexerInv' /\ Unseen
  <1>1. /\ LexerInv /\ BufferOK /\ ch = Blank /\ text' = text /\ file' = file
        /\ read_char_after(feof) /\ feof \in BOOLEAN /\ reading = "nothing"
        /\ UNCHANGED <<reading, literal, tokens, begun, lexing>>
    BY DEF Running, skip_whitespace, read_char, LexerInv, BufferOK, Blank
  <1>2. ch # NUL BY <1>1 DEF NUL, Blank
  <1>3. /\ Consumed + 1 \in 1 .. Len(text) /\ text[Consumed + 1] = Blank
        /\ Len(text) \in Nat /\ Consumed \in 0 .. Len(text) /\ begun \in Nat
    BY <1>1, <1>2, Here
  <1>4. BufferOK' /\ Consumed' = Consumed + 1 BY <1>1, <1>3, ReadChar
  <1>5. PICK p \in 1 .. Len(text) + 1 : Under(p) BY <1>1 DEF Running, LexerInv
  <1>6. PICK q \in 1 .. Len(text) + 1 : q = p + 1 BY <1>1, <1>3, <1>5 DEF Under
  <1>7. Under(q)'
    <2>1. /\ p = Consumed + 1 /\ literal = <<>> /\ begun + 1 <= p
          /\ \A i \in begun + 1 .. p - 1 : text[i] = Blank
      BY <1>1, <1>3, <1>5 DEF Under
    <2>2. \A i \in begun + 1 .. q - 1 : text[i] = Blank BY <1>3, <1>6, <2>1
    <2>3. q \in begun + 1 .. Consumed' + 1 /\ q = Consumed' + 1
      BY <1>3, <1>4, <1>6, <2>1
    <2>. QED BY <1>1, <2>1, <2>2, <2>3 DEF Under
  <1>8. begun \in 0 .. Consumed' BY <1>1, <1>3, <1>4 DEF LexerInv
  <1>. QED BY <1>1, <1>4, <1>7, <1>8, GoesOn DEF LexerInv

LEMMA EmitsHere ==
  ASSUME Running, NEW p \in 1 .. Len(text), Under(p), text[p] # Blank, NEW t, EmitHere(t),
         NEW n, Scanned!Lexeme(p) = Lexeme(t, n), Consumed + 1 = p + n
  PROVE  LexerInv' /\ Scanned!Scan
  <1>1. /\ BufferOK /\ LexerInv /\ Emit(t) /\ lexing' = "running" /\ begun' = Consumed
        /\ UNCHANGED <<text, file, offset, input, read_position, ch, feof>>
    BY DEF Running, EmitHere, LexerInv
  <1>2. BufferOK' /\ Consumed' = Consumed BY <1>1, EndSeen
  <1>3. PICK k \in 0 .. Len(text) : k = Consumed BY <1>1, Here
  <1>. QED BY <1>1, <1>2, <1>3, Emitted

LEMMA EmitsAfter ==
  ASSUME Running, NEW p \in 1 .. Len(text), Under(p), text[p] # Blank, ch # NUL,
         NEW e \in BOOLEAN, feof => e, e => feof \/ ~file \/ offset = Len(text),
         NEW t, EmitAfter(t, e),
         NEW n, Scanned!Lexeme(p) = Lexeme(t, n), Consumed + 2 = p + n
  PROVE  LexerInv' /\ Scanned!Scan
  <1>1. /\ BufferOK /\ LexerInv /\ Emit(t) /\ lexing' = "running" /\ begun' = Consumed + 1
        /\ UNCHANGED <<text, file>> /\ read_char_after(e)
    BY DEF Running, EmitAfter, LexerInv
  <1>2. Consumed \in 0 .. Len(text) /\ Len(text) \in Nat /\ Consumed < Len(text)
    BY <1>1, Here
  <1>3. BufferOK' /\ Consumed' = Consumed + 1 BY <1>1, <1>2, ReadChar
  <1>4. PICK k \in 0 .. Len(text) : k = Consumed + 1 BY <1>2
  <1>5. k + 1 = p + n BY <1>2, <1>4
  <1>. QED BY <1>1, <1>3, <1>4, <1>5, Emitted

(* A token begins at the current character.                                *)
LEMMA First ==
  ASSUME LexerInv, lexing = "running", reading = "nothing"
  PROVE  /\ Under(Consumed + 1) /\ literal = <<>>
         /\ ch # NUL => Consumed + 1 \in 1 .. Len(text) /\ text[Consumed + 1] = ch
  <1>1. PICK p \in 1 .. Len(text) + 1 : Under(p) BY DEF LexerInv
  <1>2. p = Consumed + 1 /\ literal = <<>> BY <1>1 DEF Under
  <1>3. ch # NUL => Consumed + 1 \in 1 .. Len(text) /\ text[Consumed + 1] = ch BY Here
  <1>. QED BY <1>1, <1>2, <1>3

LEMMA PeekIs ==
  ASSUME LexerInv, ch # NUL, NEW S, NUL \notin S
  PROVE  peek_char \in S <=> HasAt(Consumed + 2, S)
  <1>1. /\ Consumed \in 0 .. Len(text) /\ Len(text) \in Nat /\ Consumed < Len(text)
        /\ DOMAIN text = 1 .. Len(text)
    BY Here
  <1>2. peek_char = CharAt(Consumed + 1) BY <1>1, PeekChar DEF LexerInv
  <1>3. CASE Consumed + 1 < Len(text)
    <2>1. peek_char = text[Consumed + 2] /\ Consumed + 2 \in DOMAIN text
      BY <1>1, <1>2, <1>3 DEF CharAt
    <2>. QED BY <2>1 DEF HasAt
  <1>4. CASE ~(Consumed + 1 < Len(text))
    <2>1. peek_char = NUL /\ Consumed + 2 \notin DOMAIN text BY <1>1, <1>2, <1>4 DEF CharAt
    <2>. QED BY <2>1 DEF HasAt
  <1>. QED BY <1>3, <1>4

LEMMA KindsOfCharacters ==
  /\ NUL \notin Letters \cup Digits \cup Doubles \cup Singles \cup {Quote, Blank}
  /\ Blank \notin Letters \cup Digits \cup Doubles \cup Singles \cup {Quote, NUL}
  /\ Letters \cup Digits \cup Doubles \cup Singles \cup {Quote, Blank, ".", "#"} = Characters
  /\ \A c \in Doubles : /\ Scanned!Second(c) = (IF c = "!" THEN "=" ELSE c)
                        /\ Scanned!Second(c) \in Characters /\ Scanned!Second(c) # NUL
  /\ "0" \in Digits /\ {"x", "b"} \subseteq Letters /\ ".0" # NUL
  <1>1. NUL \notin Letters \cup Digits \cup Doubles \cup Singles \cup {Quote, Blank}
    BY DEF NUL, Letters, Digits, Doubles, Singles, Quote, Blank
  <1>2. Blank \notin Letters \cup Digits \cup Doubles \cup Singles \cup {Quote, NUL}
    BY DEF NUL, Letters, Digits, Doubles, Singles, Quote, Blank
  <1>3. Letters \cup Digits \cup Doubles \cup Singles \cup {Quote, Blank, ".", "#"} = Characters
    BY DEF Characters, Blank
  <1>4. ASSUME NEW c \in Doubles
        PROVE  /\ Scanned!Second(c) = (IF c = "!" THEN "=" ELSE c)
               /\ Scanned!Second(c) \in Doubles
    BY DEF Scanned!Second, Doubles
  <1>5. "0" \in Digits /\ {"x", "b"} \subseteq Letters /\ ".0" # NUL
    BY DEF Digits, Letters, NUL
  <1>. QED BY <1>1, <1>2, <1>3, <1>4, <1>5

LEMMA NextOperator ==
  ASSUME Running, next_operator
  PROVE  LexerInv' /\ (Scanned!Scan \/ Unseen)
  <1>1. /\ LexerInv /\ BufferOK /\ lexing = "running" /\ reading = "nothing"
        /\ UNCHANGED <<text, file>> /\ text \in Seq(Characters) /\ feof \in BOOLEAN
    BY DEF Running, next_operator, LexerInv, BufferOK
  <1>2. ch \in Singles \/ ch \in Doubles BY DEF next_operator
  <1>3. ch # NUL /\ ch # Blank BY <1>2, KindsOfCharacters
  <1>4. PICK p \in 1 .. Len(text) : p = Consumed + 1 BY <1>1, <1>3, Here
  <1>5. Under(p) /\ text[p] = ch BY <1>1, <1>3, <1>4, First
  <1>6. Consumed \in Nat BY <1>1, Here
  <1>7. Consumed + 2 = p + 1 BY <1>4, <1>6
  <1>8. PICK e \in BOOLEAN :
          /\ e = FeofAfterPeek
          /\ feof => e
          /\ e => feof \/ ~file \/ offset = Len(text)
    BY <1>1, Peeked
  <1>9. CASE ch \in Singles /\ EmitAfter(Token("single", <<ch>>), feof)
    <2>1. Scanned!Lexeme(p) = Lexeme(Token("single", <<ch>>), 1) BY <1>1, <1>5, <1>9, Lexemes
    <2>. QED BY <1>1, <1>3, <1>5, <1>7, <1>9, <2>1, EmitsAfter
  <1>10. CASE /\ ch \in Doubles
              /\ IF peek_char = (IF ch = "!" THEN "=" ELSE ch)
                 THEN /\ read_char_after(FeofAfterPeek)
                      /\ reading' = "pair" /\ literal' = <<ch, peek_char>>
                      /\ UNCHANGED <<tokens, begun, lexing>>
                 ELSE EmitAfter(Token("single", <<ch>>), FeofAfterPeek)
    <2>1. PICK d \in Characters :
            /\ d = Scanned!Second(ch)
            /\ d # NUL
            /\ d = IF ch = "!" THEN "=" ELSE ch
      BY <1>10, KindsOfCharacters
    <2>2. peek_char = d <=> HasAt(p + 1, {d})
      <3>1. NUL \notin {d} BY <2>1
      <3>. QED BY <1>1, <1>3, <1>7, <3>1, PeekIs
    <2>3. Scanned!Lexeme(p) = IF HasAt(p + 1, {d}) THEN Lexeme(Token("pair", <<ch, d>>), 2)
                                                  ELSE Lexeme(Token("single", <<ch>>), 1)
      BY <1>1, <1>5, <1>10, <2>1, Lexemes
    <2>4. CASE peek_char = d
      <3>1. /\ read_char_after(e)
            /\ reading' = "pair" /\ literal' = <<ch, d>>
            /\ UNCHANGED <<tokens, begun, lexing>>
        BY <1>8, <1>10, <2>1, <2>4 DEF read_char_after
      <3>2. BufferOK' /\ Consumed' = Consumed + 1
        <4>1. Consumed < Len(text) BY <1>4, <1>6
        <4>. QED BY <1>1, <1>8, <3>1, <4>1, ReadChar
      <3>3. Under(p)'
        <4>1. /\ p \in begun + 1 .. Consumed + 1 /\ begun \in Nat
              /\ \A i \in begun + 1 .. p - 1 : text[i] = Blank
          BY <1>1, <1>5, Here DEF Under
        <4>2. p \in begun' + 1 .. Consumed' + 1 /\ p = Consumed'
          BY <1>4, <1>6, <3>1, <3>2, <4>1
        <4>3. HasAt(p + 1, {d})' /\ text[p + 1] = d
          BY <1>1, <2>2, <2>4 DEF HasAt
        <4>4. literal' = <<text[p], text[p + 1]>> BY <1>5, <3>1, <4>3
        <4>5. text'[p] \in Doubles /\ d = Scanned!Second(text'[p]) BY <1>1, <1>5, <1>10, <2>1
        <4>6. \A i \in begun' + 1 .. p - 1 : text'[i] = Blank BY <1>1, <3>1, <4>1
        <4>. QED BY <1>1, <3>1, <4>2, <4>3, <4>4, <4>5, <4>6 DEF Under
      <3>4. literal' \in Seq(Characters) /\ Len(literal') <= Literal
        <4>1. ch \in Characters BY <1>10, KindsOfCharacters
        <4>. QED BY <2>1, <3>1, <4>1, LiteralHoldsPairs
      <3>5. begun \in 0 .. Consumed' BY <1>1, <1>6, <3>2 DEF LexerInv
      <3>6. reading' \in Readings BY <3>1 DEF Readings
      <3>7. p \in 1 .. Len(text) + 1 OBVIOUS
      <3>. QED BY <3>1, <3>2, <3>3, <3>4, <3>5, <3>6, <3>7, GoesOn
    <2>5. CASE peek_char # d
      <3>1. EmitAfter(Token("single", <<ch>>), e) 
        BY <1>8, <1>10, <2>1, <2>5 DEF EmitAfter, read_char_after
      <3>2. Scanned!Lexeme(p) = Lexeme(Token("single", <<ch>>), 1) BY <2>2, <2>3, <2>5
      <3>. QED BY <1>1, <1>3, <1>5, <1>7, <1>8, <3>1, <3>2, EmitsAfter
    <2>. QED BY <2>4, <2>5
  <1>. QED BY <1>9, <1>10 DEF next_operator

LEMMA SecondOfPair ==
  ASSUME Running, second_of_pair
  PROVE  LexerInv' /\ Scanned!Scan
  <1>1. /\ LexerInv /\ lexing = "running" /\ reading = "pair" /\ feof \in BOOLEAN
        /\ text \in Seq(Characters) /\ EmitAfter(Token("pair", literal), feof)
    BY DEF Running, second_of_pair, LexerInv, BufferOK
  <1>2. PICK p \in 1 .. Len(text) + 1 : Under(p) BY <1>1 DEF LexerInv
  <1>3. /\ p \in 1 .. Len(text) /\ p = Consumed /\ text[p] \in Doubles
        /\ HasAt(p + 1, {Scanned!Second(text[p])}) /\ literal = <<text[p], text[p + 1]>>
    BY <1>1, <1>2 DEF Under
  <1>4. /\ ch # NUL /\ Consumed \in Nat
    <2>1. p + 1 \in DOMAIN text BY <1>3 DEF HasAt
    <2>2. p + 1 \in 1 .. Len(text) /\ Len(text) \in Nat BY <1>1, <2>1, Here
    <2>3. Consumed # Len(text) BY <1>3, <2>2
    <2>4. ch # NUL BY <1>1, <2>3, Here
    <2>. QED BY <1>1, <2>4, Here
  <1>5. Scanned!Lexeme(p) = Lexeme(Token("pair", literal), 2)
    <2>1. text[p + 1] = Scanned!Second(text[p]) BY <1>3 DEF HasAt
    <2>. QED BY <1>1, <1>3, <2>1, Lexemes
  <1>6. text[p] # Blank BY <1>3, KindsOfCharacters
  <1>7. Consumed + 2 = p + 2 BY <1>3
  <1>. QED BY <1>1, <1>2, <1>3, <1>4, <1>5, <1>6, <1>7, EmitsAfter

LEMMA WhatLoopsTake ==
  ASSUME NEW c
  PROVE  /\ Takes("identifier", c) <=> c \in Letters
         /\ Takes("number", c) <=> c \in Numbers
         /\ Takes("binary", c) <=> c \in Numbers
         /\ Takes("hex", c) <=> c \in Hexes
         /\ Takes("string", c) <=> c \notin {Quote, NUL}
         /\ ~Takes("nothing", c) /\ ~Takes("pair", c) /\ ~Takes("mark", c)
  <1>. HIDE DEF Letters, Digits, Quote, NUL
  <1>1. Takes("identifier", c) <=> c \in Letters BY DEF Takes
  <1>2. Takes("number", c) <=> c \in Numbers BY DEF Takes, Numbers
  <1>3. Takes("binary", c) <=> c \in Numbers BY DEF Takes, Numbers
  <1>4. Takes("hex", c) <=> c \in Hexes BY DEF Takes, Hexes
  <1>5. Takes("string", c) <=> c \notin {Quote, NUL} BY DEF Takes
  <1>6. ~Takes("nothing", c) /\ ~Takes("pair", c) /\ ~Takes("mark", c) BY DEF Takes
  <1>. QED BY <1>1, <1>2, <1>3, <1>4, <1>5, <1>6

(* A literal grows by the character that is current.                       *)
LEMMA Collects ==
  ASSUME LexerInv, Takes(reading, ch), ch # NUL, literal' = Append(literal, ch),
         Consumed' = Consumed + 1, UNCHANGED <<text, reading>>, NEW q \in Nat, Collected(q)
  PROVE  Collected(q)'
  <1>1. /\ Consumed \in 0 .. Len(text) /\ Len(text) \in Nat /\ text \in Seq(Characters)
        /\ Consumed + 1 \in 1 .. Len(text) /\ ch = text[Consumed + 1]
    BY Here DEF LexerInv, BufferOK
  <1>2. PICK k \in Nat : k = Consumed BY <1>1
  <1>3. /\ q \in 1 .. k + 1 /\ literal = SubSeq(text, q, k)
        /\ \A i \in q .. k : Takes(reading, text[i])
    BY <1>2 DEF Collected
  <1>4. literal' = SubSeq(text, q, k + 1)
    <2>1. q \in 1 .. Len(text) /\ k + 1 \in q .. Len(text) BY <1>1, <1>2, <1>3
    <2>2. SubSeq(text, q, k + 1) = SubSeq(text, q, (k + 1) - 1) \o <<text[k + 1]>>
      BY <1>1, <2>1, SubSeqRecursiveSecond
    <2>3. (k + 1) - 1 = k BY <1>2
    <2>4. literal \in Seq(Characters) /\ ch \in Characters BY Here DEF LexerInv
    <2>5. Append(literal, ch) = literal \o <<ch>> BY <2>4
    <2>. QED BY <1>1, <1>2, <1>3, <2>2, <2>3, <2>5
  <1>5. \A i \in q .. k + 1 : Takes(reading, text[i])
    <2>1. \A i \in q .. k + 1 : i \in q .. k \/ i = k + 1 BY <1>2, <1>3
    <2>. QED BY <1>1, <1>2, <1>3, <2>1
  <1>6. q \in 1 .. k + 2 BY <1>2, <1>3
  <1>. QED BY <1>2, <1>4, <1>5, <1>6 DEF Collected

(* And ends where the run of characters it takes does.                     *)
LEMMA RunEnds ==
  ASSUME LexerInv, NEW q \in Nat, Collected(q), ~Takes(reading, ch),
         NEW S, \A c \in Characters : Takes(reading, c) <=> c \in S
  PROVE  /\ Scanned!Run(q, S) \in 0 .. Len(text)
         /\ q + Scanned!Run(q, S) = Consumed + 1
         /\ From(q, Scanned!Run(q, S)) = literal
  <1>1. /\ Consumed \in 0 .. Len(text) /\ Len(text) \in Nat /\ text \in Seq(Characters)
        /\ DOMAIN text = 1 .. Len(text)
        /\ \A i \in 1 .. Len(text) : text[i] \in Characters
    BY Here DEF LexerInv, BufferOK
  <1>2. PICK k \in 0 .. Len(text) : k = Consumed BY <1>1
  <1>3. /\ q \in 1 .. k + 1 /\ literal = SubSeq(text, q, k)
        /\ \A i \in q .. k : Takes(reading, text[i])
    BY <1>2 DEF Collected
  <1>4. PICK n \in 0 .. Len(text) : q + n = k + 1
    <2>1. k + 1 - q \in 0 .. Len(text) /\ q + (k + 1 - q) = k + 1 BY <1>1, <1>2, <1>3
    <2>. QED BY <2>1
  <1>5. \A i \in q .. q + n - 1 : i \in DOMAIN text /\ text[i] \in S
    <2>1. \A i \in q .. q + n - 1 : i \in q .. k /\ i \in 1 .. Len(text)
      BY <1>1, <1>2, <1>3, <1>4
    <2>. QED BY <1>1, <1>3, <2>1
  <1>6. q + n \in DOMAIN text => text[q + n] \notin S
    <2>1. SUFFICES ASSUME k + 1 \in 1 .. Len(text) PROVE text[k + 1] \notin S
      BY <1>1, <1>4
    <2>2. k < Len(text) BY <1>1, <1>2, <2>1
    <2>3. ch # NUL
      <3>1. Consumed < Len(text) BY <1>2, <2>2
      <3>2. Consumed \in Int /\ Len(text) \in Int BY <1>1
      <3>3. Consumed # Len(text) BY <3>1, <3>2
      <3>. QED BY <3>3, Here
    <2>4. ch = text[k + 1] /\ ch \in Characters BY <1>2, <2>3, Here
    <2>. QED BY <2>4
  <1>7. q \in Nat \ {0} BY <1>3
  <1>8. Scanned!Run(q, S) = n BY <1>1, <1>5, <1>6, <1>7, RunIs
  <1>9. q + n - 1 = k BY <1>2, <1>4
  <1>. QED BY <1>2, <1>3, <1>4, <1>8, <1>9 DEF From

LEMMA ReadLiteral ==
  ASSUME Running, read_literal
  PROVE  LexerInv' /\ Unseen
  <1>1. /\ LexerInv /\ lexing = "running" /\ UNCHANGED <<text, file>>
        /\ BufferOK /\ feof \in BOOLEAN
        /\ Takes(reading, ch) /\ UNCHANGED <<reading, tokens, begun>>
    BY DEF Running, read_literal, LexerInv, BufferOK
  <1>2. PICK p \in 1 .. Len(text) + 1 : Under(p) BY <1>1 DEF LexerInv
  <1>3. ch # NUL /\ reading \notin {"nothing", "pair", "mark"}
    <2>1. NUL \notin Letters \cup Numbers \cup Hexes BY KindsOfCharacters DEF Numbers, Hexes, NUL
    <2>. QED BY <1>1, <2>1, WhatLoopsTake DEF LexerInv, Readings
  <1>4. /\ Consumed < Len(text) /\ Consumed \in 0 .. Len(text) /\ Len(text) \in Nat
        /\ ch \in Characters /\ begun \in Nat
    BY <1>1, <1>3, Here
  <1>5. CASE /\ Len(literal) + 1 < Literal
             /\ literal' = Append(literal, ch) /\ read_char /\ UNCHANGED lexing
    <2>1. BufferOK' /\ Consumed' = Consumed + 1
      <3>1. read_char_after(feof) BY <1>5 DEF read_char
      <3>. QED BY <1>1, <1>4, <3>1, ReadChar
    <2>2. \A q \in Nat : Collected(q) => Collected(q)'
      BY <1>1, <1>3, <1>5, <2>1, Collects
    <2>3. Under(p)'
      <3>1. p \in Nat /\ p + 1 \in Nat /\ p + 2 \in Nat BY <1>4
      <3>2. p \in begun' + 1 .. Consumed' + 1 BY <1>1, <1>2, <1>4, <2>1 DEF Under
      <3>. QED BY <1>1, <1>2, <1>3, <2>2, <3>1, <3>2 DEF Under, HasAt
    <2>4. literal' \in Seq(Characters) /\ Len(literal') <= Literal
      BY <1>1, <1>4, <1>5, LiteralHoldsPairs DEF LexerInv
    <2>5. begun \in 0 .. Consumed' BY <1>1, <1>4, <2>1 DEF LexerInv
    <2>6. reading' \in Readings BY <1>1 DEF LexerInv
    <2>. QED BY <1>1, <1>5, <2>1, <2>3, <2>4, <2>5, <2>6, GoesOn
  <1>6. CASE lexing' = "dead" /\ UNCHANGED <<literal, offset, feof, input, read_position, ch>>
    <2>1. BufferOK' /\ Consumed' = Consumed BY <1>1, <1>6, EndSeen
    <2>. QED BY <1>1, <1>6, <2>1 DEF LexerInv, Unseen
  <1>. QED BY <1>5, <1>6 DEF read_literal

LEMMA MarkOfNumber ==
  ASSUME Running, mark_of_number
  PROVE  LexerInv' /\ Unseen
  <1>1. /\ LexerInv /\ lexing = "running" /\ UNCHANGED <<text, file>>
        /\ BufferOK /\ feof \in BOOLEAN /\ text \in Seq(Characters)
        /\ reading = "mark" /\ read_char_after(feof)
        /\ reading' = (IF ch = "x" THEN "hex" ELSE "binary") /\ literal' = <<>>
        /\ UNCHANGED <<tokens, begun, lexing>>
    BY DEF Running, mark_of_number, Start, read_char, LexerInv, BufferOK
  <1>2. PICK p \in 1 .. Len(text) + 1 : Under(p) BY <1>1 DEF LexerInv
  <1>3. /\ p \in 1 .. Len(text) /\ p = Consumed /\ text[p] = "0"
        /\ HasAt(p + 1, {"x", "b"}) /\ p \in begun + 1 .. Consumed + 1
        /\ \A i \in begun + 1 .. p - 1 : text[i] = Blank
    BY <1>1, <1>2 DEF Under
  <1>4. /\ Len(text) \in Nat /\ DOMAIN text = 1 .. Len(text) /\ begun \in Nat BY <1>1, Here
  <1>5. p + 1 \in 1 .. Len(text) /\ text[p + 1] \in {"x", "b"} BY <1>3, <1>4 DEF HasAt
  <1>6. ch = text[p + 1]
    <2>1. Consumed < Len(text) BY <1>3, <1>4, <1>5
    <2>2. Consumed \in Int /\ Len(text) \in Int BY <1>3, <1>4
    <2>4. Consumed # Len(text) BY <2>1, <2>2
    <2>3. ch # NUL BY <1>1, <2>4, Here
    <2>. QED BY <1>1, <1>3, <2>3, Here
  <1>7. BufferOK' /\ Consumed' = Consumed + 1
    <2>1. Consumed < Len(text) BY <1>3, <1>4, <1>5
    <2>. QED BY <1>1, <2>1, ReadChar
  <1>8. Collected(p + 2)'
    <2>1. /\ Consumed' = p + 1 /\ p + 2 \in 1 .. Consumed' + 1 /\ p + 1 < p + 2
          /\ \A i \in p + 2 .. p + 1 : FALSE
      BY <1>3, <1>4, <1>7
    <2>2. SubSeq(text, p + 2, p + 1) = <<>> BY <1>4, <2>1, SubSeqEmpty
    <2>. QED BY <1>1, <2>1, <2>2 DEF Collected
  <1>9. Under(p)'
    <2>1. p \in begun' + 1 .. Consumed' + 1 BY <1>1, <1>3, <1>4, <1>7
    <2>2. \/ reading' = "hex" /\ HasAt(p + 1, {"x"})'
          \/ reading' = "binary" /\ HasAt(p + 1, {"b"})'
      <3>1. text'[p + 1] = ch /\ p + 1 \in DOMAIN text' BY <1>1, <1>4, <1>5, <1>6
      <3>2. CASE ch = "x"
        <4>1. reading' = "hex" BY <1>1, <3>2
        <4>2. HasAt(p + 1, {"x"})' BY <3>1, <3>2 DEF HasAt
        <4>. QED BY <4>1, <4>2
      <3>3. CASE ch = "b"
        <4>1. reading' = "binary" BY <1>1, <3>3
        <4>2. HasAt(p + 1, {"b"})' BY <3>1, <3>3 DEF HasAt
        <4>. QED BY <4>1, <4>2
      <3>. QED BY <1>5, <1>6, <3>2, <3>3
    <2>. QED BY <1>1, <1>3, <1>8, <2>1, <2>2 DEF Under
  <1>10. /\ reading' \in Readings /\ begun \in 0 .. Consumed'
         /\ literal' \in Seq(Characters) /\ Len(literal') <= Literal
    BY <1>1, <1>3, <1>4, <1>7, LiteralHoldsPairs DEF Readings
  <1>. QED BY <1>1, <1>7, <1>9, <1>10, GoesOn

LEMMA NextLiteral ==
  ASSUME Running, next_literal
  PROVE  LexerInv' /\ Unseen
  <1>1. /\ LexerInv /\ lexing = "running" /\ UNCHANGED <<text, file>>
        /\ BufferOK /\ feof \in BOOLEAN /\ text \in Seq(Characters)
        /\ reading = "nothing"
    BY DEF Running, next_literal, LexerInv, BufferOK
  <1>2. /\ Len(text) \in Nat /\ DOMAIN text = 1 .. Len(text) /\ begun \in Nat
        /\ Consumed \in 0 .. Len(text)
    BY <1>1, Here
  <1>3. ch # NUL
    <2>1. ch \in Letters \cup Digits \cup {Quote} BY KindsOfCharacters DEF next_literal
    <2>. QED BY <2>1, KindsOfCharacters
  <1>4. PICK p \in 1 .. Len(text) : p = Consumed + 1 /\ text[p] = ch BY <1>1, <1>3, First
  <1>5. /\ Under(p) /\ p \in begun + 1 .. Consumed + 1
        /\ \A i \in begun + 1 .. p - 1 : text[i] = Blank
    BY <1>1, <1>4, First DEF Under
  <1>6. PICK e \in BOOLEAN :
          /\ e = FeofAfterPeek
          /\ feof => e
          /\ e => feof \/ ~file \/ offset = Len(text)
    BY <1>1, Peeked
  <1>7. ASSUME NEW loop, Start(loop), loop \in Readings, BufferOK', Under(p)',
               Consumed' \in {Consumed, Consumed + 1}
        PROVE  LexerInv' /\ Unseen
    <2>1. /\ reading' = loop /\ literal' = <<>> /\ UNCHANGED <<tokens, begun, lexing>>
      BY <1>7 DEF Start
    <2>2. literal' \in Seq(Characters) /\ Len(literal') <= Literal
      BY <2>1, LiteralHoldsPairs
    <2>3. begun \in 0 .. Consumed' BY <1>1, <1>2, <1>7 DEF LexerInv
    <2>4. p \in 1 .. Len(text) + 1 BY <1>2
    <2>. QED BY <1>1, <1>7, <2>1, <2>2, <2>3, <2>4, GoesOn
  (* Nothing is collected yet. *)
  <1>8. ASSUME NEW k \in Nat, NEW q \in Nat, literal' = <<>>, Consumed' = k, q = k + 1
        PROVE  Collected(q)'
    <2>1. k < q /\ q \in 1 .. k + 1 BY <1>8
    <2>2. SubSeq(text, q, k) = <<>> BY <2>1, SubSeqEmpty
    <2>3. \A i \in q .. k : FALSE BY <2>1
    <2>. QED BY <1>1, <1>8, <2>1, <2>2, <2>3 DEF Collected
  <1>14. PICK c \in Nat : c = Consumed /\ p = c + 1 BY <1>2, <1>4
  <1>9. CASE /\ ch \in Letters /\ Start("identifier")
             /\ UNCHANGED <<offset, feof, input, read_position, ch>>
    <2>1. BufferOK' /\ Consumed' = Consumed BY <1>1, <1>9, EndSeen
    <2>2. reading' = "identifier" /\ literal' = <<>> /\ begun' = begun BY <1>9 DEF Start
    <2>3. Collected(p)' BY <1>8, <1>14, <2>1, <2>2
    <2>4. text'[p] \in Letters BY <1>1, <1>4, <1>9
    <2>5. Under(p)' BY <1>1, <1>5, <2>1, <2>2, <2>3, <2>4 DEF Under
    <2>. QED BY <1>7, <1>9, <2>1, <2>5 DEF Readings
  <1>10. CASE ch = Quote /\ read_char /\ Start("string")
    <2>1. BufferOK' /\ Consumed' = Consumed + 1
      <3>1. read_char_after(feof) BY <1>10 DEF read_char
      <3>2. Consumed < Len(text) BY <1>2, <1>4
      <3>. QED BY <1>1, <3>1, <3>2, ReadChar
    <2>2. reading' = "string" /\ literal' = <<>> /\ begun' = begun BY <1>10 DEF Start
    <2>3. Collected(p + 1)'
      <3>1. Consumed' = p /\ p \in Nat /\ p + 1 \in Nat BY <1>14, <2>1
      <3>. QED BY <1>8, <2>2, <3>1
    <2>4. text'[p] = Quote BY <1>1, <1>4, <1>10
    <2>5. p \in begun' + 1 .. Consumed' + 1 BY <1>2, <1>5, <2>1, <2>2
    <2>6. Under(p)' BY <1>1, <1>5, <2>2, <2>3, <2>4, <2>5 DEF Under
    <2>. QED BY <1>7, <1>10, <2>1, <2>6 DEF Readings
  <1>11. CASE /\ ch \in Digits /\ ~(ch = "0" /\ peek_char \in Letters)
              /\ Start("number")
              /\ feof' = (IF ch = "0" THEN FeofAfterPeek ELSE feof)
              /\ UNCHANGED <<offset, input, read_position, ch>>
    <2>1. BufferOK' /\ Consumed' = Consumed BY <1>1, <1>11, EndSeen
    <2>2. reading' = "number" /\ literal' = <<>> /\ begun' = begun BY <1>11 DEF Start
    <2>3. Collected(p)' BY <1>8, <1>14, <2>1, <2>2
    <2>4. /\ text'[p] \in Digits
          /\ ~(text'[p] = "0" /\ HasAt(p + 1, Letters)')
      <3>1. peek_char \in Letters <=> HasAt(Consumed + 2, Letters)
        BY <1>1, <1>3, KindsOfCharacters, PeekIs
      <3>2. Consumed + 2 = p + 1 BY <1>2, <1>4
      <3>3. HasAt(p + 1, Letters)' <=> HasAt(p + 1, Letters) BY <1>1 DEF HasAt
      <3>. QED BY <1>1, <1>4, <1>11, <3>1, <3>2, <3>3
    <2>5. Under(p)' BY <1>1, <1>5, <2>1, <2>2, <2>3, <2>4 DEF Under
    <2>. QED BY <1>7, <1>11, <2>1, <2>5 DEF Readings
  <1>12. CASE /\ ch = "0" /\ peek_char \in {"x", "b"}
              /\ read_char_after(FeofAfterPeek) /\ Start("mark")
    <2>1. BufferOK' /\ Consumed' = Consumed + 1
      <3>1. read_char_after(e) BY <1>6, <1>12 DEF read_char_after
      <3>2. Consumed < Len(text) BY <1>2, <1>4
      <3>. QED BY <1>1, <1>6, <3>1, <3>2, ReadChar
    <2>2. reading' = "mark" /\ literal' = <<>> /\ begun' = begun BY <1>12 DEF Start
    <2>3. HasAt(p + 1, {"x", "b"})'
      <3>1. NUL \notin {"x", "b"} BY KindsOfCharacters
      <3>2. HasAt(Consumed + 2, {"x", "b"}) BY <1>1, <1>3, <1>12, <3>1, PeekIs
      <3>3. Consumed + 2 = p + 1 BY <1>2, <1>4
      <3>. QED BY <1>1, <3>2, <3>3 DEF HasAt
    <2>4. text'[p] = "0" /\ p = Consumed' BY <1>1, <1>4, <1>12, <2>1
    <2>5. p \in begun' + 1 .. Consumed' + 1 BY <1>2, <1>5, <2>1, <2>2
    <2>6. Under(p)' BY <1>1, <1>5, <2>2, <2>3, <2>4, <2>5 DEF Under
    <2>. QED BY <1>7, <1>12, <2>1, <2>6 DEF Readings
  <1>13. CASE /\ lexing' = "dead"
              /\ UNCHANGED <<offset, feof, input, read_position, ch, reading, literal,
                             tokens, begun>>
    <2>1. BufferOK' /\ Consumed' = Consumed BY <1>1, <1>13, EndSeen
    <2>. QED BY <1>1, <1>13, <2>1 DEF LexerInv, Unseen
  <1>. QED BY <1>9, <1>10, <1>11, <1>12, <1>13 DEF next_literal

LEMMA EndOfLiteral ==
  ASSUME Running, end_of_literal
  PROVE  LexerInv' /\ Scanned!Scan
  <1>1. /\ LexerInv /\ lexing = "running" /\ UNCHANGED <<text, file>>
        /\ BufferOK /\ feof \in BOOLEAN /\ text \in Seq(Characters)
        /\ ~Takes(reading, ch)
    BY DEF Running, end_of_literal, Leaves, LexerInv, BufferOK
  <1>2. PICK p \in 1 .. Len(text) + 1 : Under(p) BY <1>1 DEF LexerInv
  <1>3. /\ Len(text) \in Nat /\ Consumed \in 0 .. Len(text) BY <1>1, Here
  <1>4. /\ \A c \in Digits \cup Letters \cup {Quote} : c # Blank
        /\ "0" \in Digits
    BY KindsOfCharacters
  <1>5. CASE reading = "identifier" /\ EmitHere(Token(lookup_ident(literal), literal))
    <2>1. p \in 1 .. Len(text) /\ text[p] \in Letters /\ Collected(p)
      BY <1>2, <1>5 DEF Under
    <2>2. PICK n : n = Scanned!Run(p, Letters) OBVIOUS
    <2>3. p + n = Consumed + 1 /\ From(p, n) = literal
      BY <1>1, <1>5, <2>1, <2>2, WhatLoopsTake, RunEnds
    <2>4. Scanned!Lexeme(p) = Lexeme(Token(lookup_ident(literal), literal), n)
      BY <1>1, <2>1, <2>2, <2>3, Lexemes
    <2>. QED BY <1>2, <1>4, <1>5, <2>1, <2>3, <2>4, EmitsHere
  <1>6. CASE reading = "number" /\ EmitHere(Token("NUMBER", literal))
    <2>1. /\ p \in 1 .. Len(text) /\ text[p] \in Digits /\ Collected(p)
          /\ ~(text[p] = "0" /\ HasAt(p + 1, Letters))
      BY <1>2, <1>6 DEF Under
    <2>2. PICK n : n = Scanned!Run(p, Numbers) OBVIOUS
    <2>3. p + n = Consumed + 1 /\ From(p, n) = literal
      BY <1>1, <1>6, <2>1, <2>2, WhatLoopsTake, RunEnds
    <2>4. Scanned!Lexeme(p) = Lexeme(Token("NUMBER", literal), n)
      BY <1>1, <2>1, <2>2, <2>3, Lexemes
    <2>. QED BY <1>2, <1>4, <1>6, <2>1, <2>3, <2>4, EmitsHere
  <1>7. CASE reading = "hex" /\ EmitHere(Token("HEX", literal))
    <2>1. /\ p \in 1 .. Len(text) /\ text[p] = "0" /\ HasAt(p + 1, {"x"}) /\ Collected(p + 2)
      BY <1>2, <1>7 DEF Under
    <2>2. PICK n : n = Scanned!Run(p + 2, Hexes) OBVIOUS
    <2>3. p + 2 + n = Consumed + 1 /\ From(p + 2, n) = literal /\ n \in 0 .. Len(text)
      BY <1>1, <1>7, <2>1, <2>2, WhatLoopsTake, RunEnds
    <2>4. Scanned!Lexeme(p) = Lexeme(Token("HEX", literal), n + 2)
      BY <1>1, <2>1, <2>2, <2>3, Lexemes
    <2>5. Consumed + 1 = p + (n + 2) BY <1>3, <2>3
    <2>. QED BY <1>2, <1>4, <1>7, <2>1, <2>4, <2>5, EmitsHere
  <1>8. CASE reading = "binary" /\ EmitHere(Token("BINARY", literal))
    <2>1. /\ p \in 1 .. Len(text) /\ text[p] = "0" /\ HasAt(p + 1, {"b"}) /\ Collected(p + 2)
      BY <1>2, <1>8 DEF Under
    <2>2. PICK n : n = Scanned!Run(p + 2, Numbers) OBVIOUS
    <2>3. p + 2 + n = Consumed + 1 /\ From(p + 2, n) = literal /\ n \in 0 .. Len(text)
      BY <1>1, <1>8, <2>1, <2>2, WhatLoopsTake, RunEnds
    <2>4. Scanned!Lexeme(p) = Lexeme(Token("BINARY", literal), n + 2)
      BY <1>1, <2>1, <2>2, <2>3, Lexemes
    <2>5. Consumed + 1 = p + (n + 2) BY <1>3, <2>3
    <2>. QED BY <1>2, <1>4, <1>8, <2>1, <2>4, <2>5, EmitsHere
  <1>9. ASSUME reading = "string"
        PROVE  /\ p \in 1 .. Len(text) /\ text[p] = Quote
               /\ \E n \in 0 .. Len(text) :
                    /\ p + 1 + n = Consumed + 1
                    /\ Scanned!Lexeme(p) =
                         Lexeme(Token("STRING", literal),
                                n + IF HasAt(Consumed + 1, {Quote}) THEN 2 ELSE 1)
    <2>1. /\ p \in 1 .. Len(text) /\ text[p] = Quote /\ Collected(p + 1)
      BY <1>2, <1>9 DEF Under
    <2>2. \A c \in Characters : Takes("string", c) <=> c \in Insides
      BY WhatLoopsTake, NoCharacter DEF Insides
    <2>3. PICK n : n = Scanned!Run(p + 1, Insides) OBVIOUS
    <2>4. p + 1 + n = Consumed + 1 /\ From(p + 1, n) = literal /\ n \in 0 .. Len(text)
      BY <1>1, <1>9, <2>1, <2>2, <2>3, RunEnds
    <2>5. Scanned!Lexeme(p) =
            Lexeme(Token("STRING", literal), n + IF HasAt(Consumed + 1, {Quote}) THEN 2 ELSE 1)
      BY <1>1, <2>1, <2>3, <2>4, Lexemes
    <2>. QED BY <2>1, <2>4, <2>5
  <1>10. CASE reading = "string" /\ ch = Quote /\ EmitAfter(Token("STRING", literal), feof)
    <2>1. ch # NUL BY <1>10, KindsOfCharacters
    <2>2. HasAt(Consumed + 1, {Quote}) BY <1>1, <1>3, <1>10, <2>1, Here DEF HasAt
    <2>3. PICK n \in 0 .. Len(text) :
            /\ p + 1 + n = Consumed + 1
            /\ Scanned!Lexeme(p) = Lexeme(Token("STRING", literal), n + 2)
      BY <1>9, <1>10, <2>2
    <2>4. Consumed + 2 = p + (n + 2) BY <1>3, <2>3
    <2>5. p \in 1 .. Len(text) /\ text[p] # Blank BY <1>4, <1>9, <1>10
    <2>. QED BY <1>1, <1>2, <1>10, <2>1, <2>3, <2>4, <2>5, EmitsAfter
  <1>11. CASE /\ reading = "string" /\ ch = NUL /\ read_char
              /\ Emit(Token("STRING", literal)) /\ begun' = Consumed /\ UNCHANGED lexing
    <2>1. Consumed = Len(text) BY <1>1, <1>11, Here
    <2>2. BufferOK' /\ Consumed' = Consumed
      <3>1. read_char_after(feof) BY <1>11 DEF read_char
      <3>2. ~(Consumed < Len(text)) BY <1>3, <2>1
      <3>. QED BY <1>1, <3>1, <3>2, ReadChar
    <2>3. ~HasAt(Consumed + 1, {Quote}) BY <1>1, <1>3, <2>1, Here DEF HasAt
    <2>4. PICK n \in 0 .. Len(text) :
            /\ p + 1 + n = Consumed + 1
            /\ Scanned!Lexeme(p) = Lexeme(Token("STRING", literal), n + 1)
      BY <1>9, <1>11, <2>3
    <2>5. PICK k \in 0 .. Len(text) : k = Consumed BY <1>3
    <2>6. k + 1 = p + (n + 1) BY <1>3, <2>4, <2>5
    <2>7. p \in 1 .. Len(text) /\ text[p] # Blank BY <1>4, <1>9, <1>11
    <2>8. lexing' = "running" /\ begun' = k /\ Consumed' = k BY <1>1, <1>11, <2>2, <2>5
    <2>. QED BY <1>2, <1>11, <2>2, <2>4, <2>6, <2>7, <2>8, Emitted
  <1>. QED BY <1>5, <1>6, <1>7, <1>8, <1>10, <1>11 DEF end_of_literal

LEMMA EndOrIllegal ==
  ASSUME Running, end_or_illegal
  PROVE  LexerInv' /\ Scanned!Scan
  <1>1. /\ LexerInv /\ lexing = "running" /\ UNCHANGED <<text, file>>
        /\ BufferOK /\ feof \in BOOLEAN /\ text \in Seq(Characters)
        /\ reading = "nothing"
    BY DEF Running, end_or_illegal, LexerInv, BufferOK
  <1>2. ch \notin {Blank, Quote} \cup Letters \cup Digits \cup Singles \cup Doubles
    BY DEF end_or_illegal, Blank
  <1>3. PICK p \in 1 .. Len(text) + 1 : p = Consumed + 1 /\ Under(p)
    <2>1. Consumed + 1 \in 1 .. Len(text) + 1 BY <1>1, Here
    <2>. QED BY <1>1, <2>1, First
  <1>4. /\ Len(text) \in Nat /\ DOMAIN text = 1 .. Len(text) /\ Consumed \in 0 .. Len(text)
    BY <1>1, Here
  <1>5. ASSUME p \in 1 .. Len(text)
        PROVE  /\ text[p] = ch /\ ch # NUL /\ text[p] # Blank
               /\ Scanned!Lexeme(p) = Lexeme(Token("ILLEGAL", <<ch>>), 1)
    <2>1. Consumed < Len(text) BY <1>3, <1>4, <1>5
    <2>2. Consumed \in Int /\ Len(text) \in Int BY <1>4
    <2>3. Consumed # Len(text) BY <2>1, <2>2
    <2>4. ch # NUL /\ text[p] = ch /\ ch \in Characters BY <1>1, <1>3, <2>3, Here
    <2>5. ch \in {".", "#"} /\ ch # Blank BY <1>2, <2>4, KindsOfCharacters
    <2>. QED BY <1>1, <1>5, <2>4, <2>5, Lexemes
  <1>6. CASE /\ ~file \/ feof
             /\ Emit(Token("END_OF_FILE", <<>>))
             /\ lexing' = "ended"
             /\ UNCHANGED <<offset, feof, input, read_position, ch, begun>>
    <2>1. BufferOK' /\ Consumed' = Consumed BY <1>1, <1>6, EndSeen
    <2>2. /\ tokens' = Append(tokens, Token("END_OF_FILE", <<>>))
          /\ reading' = "nothing" /\ literal' = <<>>
      BY <1>6 DEF Emit
    <2>3. LexerInv'
      <3>1. literal' \in Seq(Characters) /\ Len(literal') <= Literal
        BY <2>2, LiteralHoldsPairs
      <3>. QED BY <1>1, <1>6, <2>1, <2>2, <3>1 DEF LexerInv, Readings
    <2>4. Scanned!Scan
      <3>1. begun + 1 + Scanned!Run(begun + 1, Scanned!Spaces) = p
        BY <1>1, <1>3, <1>4, <1>5, Blanks, SameSets
      <3>2. p \in DOMAIN text => Scanned!Lexeme(p).token.type = "ILLEGAL"
        BY <1>4, <1>5 DEF Lexeme, Token
      <3>3. Scanned!End
        BY <1>6, <2>2 DEF Scanned!End, Scanned!Token, Token
      <3>4. lexing # "ended" /\ text' = text /\ begun' + 1 = begun + 1 BY <1>1, <1>6
      <3>. QED BY <3>1, <3>2, <3>3, <3>4 DEF Scanned!Scan
    <2>. QED BY <2>3, <2>4
  <1>7. CASE file /\ ~feof /\ EmitAfter(Token("ILLEGAL", <<ch>>), feof)
    <2>1. Consumed # Len(text) BY <1>1, <1>7, Here
    <2>2. p \in 1 .. Len(text)
      <3>1. Consumed \in Int /\ Len(text) \in Int /\ Consumed <= Len(text) BY <1>4
      <3>2. Consumed < Len(text) BY <3>1, <2>1
      <3>. QED BY <1>3, <1>4, <3>2
    <2>3. Consumed + 2 = p + 1 BY <1>3, <1>4
    <2>. QED BY <1>1, <1>3, <1>5, <1>7, <2>2, <2>3, EmitsAfter
  <1>. QED BY <1>6, <1>7 DEF end_or_illegal

LEMMA TextOpened ==
  ASSUME NEW t \in Seq(Characters), NEW n \in 0 .. Len(t), NEW from_file \in BOOLEAN,
         Open(t, n, from_file),
         ~from_file => n = Len(t),
         from_file => n <= Buffer,
         from_file /\ n < Buffer => n = Len(t)
  PROVE  LexerInv' /\ Scanned!Begin
  <1>2. /\ text' = t /\ file' = from_file /\ offset' = n /\ input' = SubSeq(t, 1, n)
        /\ feof' = (from_file /\ n < Buffer)
        /\ ch' = (IF n = 0 THEN NUL ELSE t[1])
        /\ read_position' = 1 /\ reading' = "nothing" /\ literal' = <<>>
        /\ tokens' = <<>> /\ begun' = 0 /\ lexing' = "running"
    BY DEF Open
  <1>3. /\ input' \in Seq(Characters) /\ Len(input') = n
        /\ \A i \in 1 .. n : input'[i] = t[i]
        /\ Len(t) \in Nat /\ n \in Nat
    <2>1. Len(t) \in Nat /\ \A i \in 1 .. n : t[i] \in Characters OBVIOUS
    <2>2. /\ SubSeq(t, 1, n) \in Seq(Characters)
          /\ Len(SubSeq(t, 1, n)) = IF 1 <= n THEN n - 1 + 1 ELSE 0
          /\ \A i \in 1 .. n - 1 + 1 : SubSeq(t, 1, n)[i] = t[1 + i - 1]
      BY <2>1, SubSeqProperties
    <2>3. n - 1 + 1 = n /\ \A i \in 1 .. n : 1 + i - 1 = i BY <2>1
    <2>4. Len(SubSeq(t, 1, n)) = n BY <2>1, <2>2
    <2>. QED BY <1>2, <2>1, <2>2, <2>3, <2>4
  <1>4. BufferOK'
    <2>1. \A i \in 1 .. Len(input') : input'[i] = text'[offset' - Len(input') + i]
      <3>1. \A i \in 1 .. n : n - n + i = i BY <1>3
      <3>. QED BY <1>2, <1>3, <3>1
    <2>2. /\ read_position' \in 1 .. Len(input') + 1
          /\ ch' = IF read_position' <= Len(input') THEN input'[read_position'] ELSE NUL
      BY <1>2, <1>3
    <2>3. /\ ~file' \/ feof' => offset' = Len(text')
          /\ file' => Len(input') <= Buffer
          /\ file' /\ ~feof' => Len(input') = Buffer
          /\ read_position' = Len(input') + 1 => ~file' \/ feof'
      <3>1. /\ text' = t /\ offset' = n /\ Len(input') = n /\ read_position' = 1
            /\ file' = from_file
        BY <1>2, <1>3
      <3>2. n \in Nat /\ Buffer \in Nat /\ Buffer > 0 BY <1>3, BufferPositive
      <3>3. CASE ~from_file BY <3>1, <3>3
      <3>4. CASE from_file
        <4>1. feof' = (n < Buffer) BY <1>2, <3>4
        <4>2. n < Buffer => n = Len(t) BY <3>4
        <4>3. n <= Buffer BY <3>4
        <4>4. ~(n < Buffer) => n = Buffer BY <3>2, <4>3
        <4>5. 1 = n + 1 => n < Buffer BY <3>2
        <4>6. feof' => n = Len(t) BY <4>1, <4>2
        <4>7. ~feof' => n = Buffer BY <4>1, <4>4
        <4>8. 1 = n + 1 => feof' BY <4>1, <4>5
        <4>. QED BY <3>1, <3>4, <4>3, <4>6, <4>7, <4>8
      <3>. QED BY <3>3, <3>4
    <2>4. /\ text' \in Seq(Characters) /\ file' \in BOOLEAN /\ feof' \in BOOLEAN
          /\ offset' \in 0 .. Len(text') /\ Len(input') <= offset'
      BY <1>2, <1>3
    <2>. QED BY <1>3, <2>1, <2>2, <2>3, <2>4 DEF BufferOK
  <1>5. Consumed' = 0
    BY <1>2, <1>3 DEF Consumed, Min2
  <1>6. PICK p \in 1 .. Len(t) + 1 : p = 1 BY <1>3
  <1>7. Under(p)' BY <1>2, <1>5, <1>6 DEF Under
  <1>8. LexerInv'
    <2>1. literal' \in Seq(Characters) /\ Len(literal') <= Literal
      BY <1>2, LiteralHoldsPairs
    <2>. QED BY <1>2, <1>4, <1>5, <1>7, <2>1 DEF LexerInv, Readings
  <1>9. Scanned!Begin BY <1>2 DEF Scanned!Begin
  <1>. QED BY <1>8, <1>9

LEMMA LexerOpens ==
  ASSUME NEW t \in Seq(Characters), new_lexer(t) \/ new_file_lexer(t)
  PROVE  LexerInv' /\ Scanned!Begin
  <1>1. Len(t) \in Nat BY LenProperties
  <1>2. CASE new_lexer(t)
    <2>1. PICK n \in 0 .. Len(t) : n = Len(t) BY <1>1
    <2>2. Open(t, n, FALSE) BY <1>2, <2>1 DEF new_lexer
    <2>. QED BY <2>1, <2>2, TextOpened
  <1>3. CASE new_file_lexer(t)
    <2>1. PICK n \in 0 .. Len(t) : /\ n = Min2(Buffer, Len(t))
                                   /\ n <= Buffer
                                   /\ n < Buffer => n = Len(t)
      BY <1>1, BufferPositive DEF Min2
    <2>2. Open(t, n, TRUE) BY <1>3, <2>1 DEF new_file_lexer
    <2>. QED BY <2>1, <2>2, TextOpened
  <1>. QED BY <1>2, <1>3

(* There is no lexer: at the start, and when the process is gone.          *)
LEMMA LexerCloses ==
  /\ LexerInit => LexerInv /\ Scanned!Init
  /\ close_lexer => LexerInv' /\ Scanned!Begin
  <1>1. ASSUME LexerInit PROVE LexerInv /\ Scanned!Init
    <2>1. /\ text = <<>> /\ input = <<>> /\ literal = <<>> /\ Len(text) = 0 /\ Len(input) = 0
      BY <1>1 DEF LexerInit
    <2>2. BufferOK
      <3>1. /\ file = FALSE /\ feof = FALSE /\ offset = 0 /\ read_position = 1 /\ ch = NUL
        BY <1>1 DEF LexerInit
      <3>2. text \in Seq(Characters) /\ input \in Seq(Characters) BY <2>1
      <3>3. \A i \in 1 .. Len(input) : input[i] = text[offset - Len(input) + i] BY <2>1
      <3>4. /\ offset \in 0 .. Len(text) /\ Len(input) <= offset
            /\ read_position \in 1 .. Len(input) + 1
            /\ ~(read_position <= Len(input))
        BY <2>1, <3>1
      <3>5. ~file /\ file \in BOOLEAN /\ feof \in BOOLEAN /\ offset = Len(text)
        BY <2>1, <3>1
      <3>. QED BY <3>1, <3>2, <3>3, <3>4, <3>5 DEF BufferOK
    <2>3. Consumed = 0 BY <1>1, <2>1 DEF LexerInit, Consumed, Min2
    <2>4. literal \in Seq(Characters) /\ Len(literal) <= Literal BY <2>1, LiteralHoldsPairs
    <2>. QED BY <1>1, <2>2, <2>3, <2>4 DEF LexerInit, LexerInv, Readings, Scanned!Init
  <1>2. ASSUME close_lexer PROVE LexerInv' /\ Scanned!Begin
    <2>1. /\ text' = <<>> /\ input' = <<>> /\ literal' = <<>>
          /\ Len(text') = 0 /\ Len(input') = 0
      BY <1>2 DEF close_lexer
    <2>2. BufferOK'
      <3>1. /\ file' = FALSE /\ feof' = FALSE /\ offset' = 0 /\ read_position' = 1
            /\ ch' = NUL
        BY <1>2 DEF close_lexer
      <3>2. text' \in Seq(Characters) /\ input' \in Seq(Characters) BY <2>1
      <3>3. \A i \in 1 .. Len(input') : input'[i] = text'[offset' - Len(input') + i]
        BY <2>1
      <3>4. /\ offset' \in 0 .. Len(text') /\ Len(input') <= offset'
            /\ read_position' \in 1 .. Len(input') + 1
            /\ ~(read_position' <= Len(input'))
        BY <2>1, <3>1
      <3>5. ~file' /\ file' \in BOOLEAN /\ feof' \in BOOLEAN /\ offset' = Len(text')
        BY <2>1, <3>1
      <3>. QED BY <3>1, <3>2, <3>3, <3>4, <3>5 DEF BufferOK
    <2>3. Consumed' = 0 BY <1>2, <2>1 DEF close_lexer, Consumed, Min2
    <2>4. literal' \in Seq(Characters) /\ Len(literal') <= Literal
      BY <2>1, LiteralHoldsPairs
    <2>. QED BY <1>2, <2>2, <2>3, <2>4 DEF close_lexer, LexerInv, Readings, Scanned!Begin
  <1>. QED BY <1>1, <1>2

----------------------------------------------------------------------------
(* The theorems *)

LEMMA LexerStutters ==
  ASSUME LexerInv, UNCHANGED lexerVars
  PROVE  LexerInv'
  <1>1. UNCHANGED <<text, file, offset, feof, input, read_position, ch, reading, literal,
                    begun, lexing>>
    BY DEF lexerVars
  <1>2. BufferOK' BY <1>1 DEF LexerInv, BufferOK
  <1>3. Consumed' = Consumed BY <1>1 DEF Consumed
  <1>4. ASSUME NEW p \in 1 .. Len(text) + 1, Under(p)
        PROVE  Under(p)'
    BY <1>1, <1>3, <1>4 DEF Under, Collected, HasAt
  <1>5. lexing' = "running" => \E p \in 1 .. Len(text') + 1 : Under(p)'
    BY <1>1, <1>4 DEF LexerInv
  <1>. QED BY <1>1, <1>2, <1>3, <1>5 DEF LexerInv

(* Every step of the lexer keeps its place and is one of the scanner's, or *)
(* is not seen by it.                                                      *)
LEMMA LexerStep ==
  LexerInv /\ [LexerNext]_lexerVars
    => LexerInv' /\ [Scanned!Begin \/ Scanned!Scan]_(Scanned!scannerVars)
  <1>. SUFFICES ASSUME LexerInv, [LexerNext]_lexerVars
       PROVE  LexerInv' /\ [Scanned!Begin \/ Scanned!Scan]_(Scanned!scannerVars)
    OBVIOUS
  <1>1. CASE next_token
    <2>1. Running BY <1>1 DEF next_token, Running
    <2>2. LexerInv' /\ (Scanned!Scan \/ Unseen)
      BY <1>1, <2>1, SkipWhitespace, NextOperator, SecondOfPair, NextLiteral, MarkOfNumber,
         ReadLiteral, EndOfLiteral, EndOrIllegal
         DEF next_token
    <2>3. Unseen => UNCHANGED Scanned!scannerVars BY DEF Unseen, Scanned!scannerVars
    <2>. QED BY <2>2, <2>3
  <1>2. CASE close_lexer BY <1>2, LexerCloses
  <1>3. CASE \E t \in Seq(Characters) : new_lexer(t) \/ new_file_lexer(t)
    BY <1>3, LexerOpens
  <1>4. CASE UNCHANGED lexerVars
    <2>1. LexerInv' BY <1>4, LexerStutters
    <2>2. UNCHANGED Scanned!scannerVars BY <1>4 DEF lexerVars, Scanned!scannerVars
    <2>. QED BY <2>1, <2>2
  <1>. QED BY <1>1, <1>2, <1>3, <1>4 DEF LexerNext

(* Where the lexer is, at every step of every token, and whichever buffer  *)
(* it is in (lexer.c:21-78).                                               *)
THEOREM LexerInvariant == LexerSpec => []LexerInv
  <1>1. LexerInit => LexerInv BY LexerCloses
  <1>2. LexerInv /\ [LexerNext]_lexerVars => LexerInv' BY LexerStep
  <1>. QED BY <1>1, <1>2, PTL DEF LexerSpec

(* The buffer is the part of the text that was read last, and the current  *)
(* character the one the lexer has come to; what it keeps fits.            *)
THEOREM LexerTypeCorrect == LexerSpec => []LexerTypeOK
  <1>1. LexerInv => LexerTypeOK
    <2>. SUFFICES ASSUME LexerInv PROVE LexerTypeOK OBVIOUS
    <2>1. /\ text \in Seq(Characters) /\ input \in Seq(Characters)
          /\ Len(text) \in Nat /\ Len(input) \in Nat
          /\ offset \in 0 .. Len(text) /\ Len(input) <= offset
          /\ \A i \in 1 .. Len(input) : input[i] = text[offset - Len(input) + i]
          /\ \A i \in 1 .. Len(text) : text[i] \in Characters
      BY DEF LexerInv, BufferOK
    <2>2. input = SubSeq(text, offset - Len(input) + 1, offset)
      <3>1. PICK m \in Nat : m = offset - Len(input) + 1 BY <2>1
      <3>2. \A i \in m .. offset : text[i] \in Characters BY <2>1, <3>1
      <3>3. /\ SubSeq(text, m, offset) \in Seq(Characters)
            /\ Len(SubSeq(text, m, offset)) = IF m <= offset THEN offset - m + 1 ELSE 0
            /\ \A i \in 1 .. offset - m + 1 : SubSeq(text, m, offset)[i] = text[m + i - 1]
        BY <2>1, <3>1, <3>2, SubSeqProperties
      <3>4. /\ offset - m + 1 = Len(input)
            /\ \A i \in 1 .. Len(input) : m + i - 1 = offset - Len(input) + i
        BY <2>1, <3>1
      <3>5. Len(SubSeq(text, m, offset)) = Len(input) BY <2>1, <3>1, <3>3
      <3>6. \A i \in 1 .. Len(input) : input[i] = SubSeq(text, m, offset)[i]
        BY <2>1, <3>3, <3>4
      <3>7. input = SubSeq(text, m, offset) BY <2>1, <3>3, <3>5, <3>6, SeqEqual
      <3>. QED BY <3>1, <3>7
    <2>3. ch = IF read_position \in DOMAIN input THEN input[read_position] ELSE NUL
      BY <2>1 DEF LexerInv, BufferOK
    <2>4. begun \in 0 .. Len(text) /\ begun <= Consumed BY Here DEF LexerInv
    <2>. QED BY <2>2, <2>3, <2>4 DEF LexerTypeOK, LexerInv, BufferOK
  <1>. QED BY <1>1, LexerInvariant, PTL

(* From a string or from a file, whatever the size of the buffers and      *)
(* wherever they cut a token, the lexer is a scanner: its tokens are the   *)
(* longest ones of the text, in order (lexer.c:123-343).                   *)
THEOREM LexerScans == LexerSpec => TokensAreLongest
  <1>1. LexerInit => Scanned!Init BY LexerCloses
  <1>2. LexerInv /\ [LexerNext]_lexerVars
          => [Scanned!Begin \/ Scanned!Scan]_(Scanned!scannerVars)
    BY LexerStep
  <1>. QED BY <1>1, <1>2, LexerInvariant, PTL DEF LexerSpec, TokensAreLongest, Scanned!Spec

=============================================================================
