------------------------------- MODULE Lexer -------------------------------
(***************************************************************************)
(* The lexer (src/src/lexer/lexer.c), on a string or on a file that it     *)
(* reads a buffer at a time.                                               *)
(*                                                                         *)
(* A step reads at most one character, and a character can be the first of *)
(* the next buffer.  Of the memory behind the first buffer, which nothing  *)
(* ends (lexer.c:31-33), it is assumed that it holds a NUL, as it does in  *)
(* the build; the buffers after it are cleared first.                      *)
(***************************************************************************)
EXTENDS Integers, Sequences, FiniteSets

CONSTANTS
  Buffer,   \* characters in a buffer: MAX_LEN
  Literal   \* characters in the array of a token's literal: MAX_LEN as well

ASSUME BufferPositive == Buffer \in Nat \ {0}
ASSUME LiteralHoldsPairs == Literal \in Nat /\ Literal >= 2

VARIABLES
  text,           \* what is to be read
  file,           \* from a file
  offset,         \* characters of it that fread has returned
  feof,           \* the end of the file has been met
  input,          \* the buffer
  read_position,  \* characters of it that have been read
  ch,             \* the current character
  reading,        \* the loop that is under way
  literal,        \* what it has collected
  tokens,         \* tokens returned
  begun,          \* history: characters before the token under way
  lexing          \* "idle", "running", "ended", or "dead": an assertion failed,
                  \* or a literal does not fit

lexerVars == <<text, file, offset, feof, input, read_position, ch, reading, literal,
               tokens, begun, lexing>>

NUL == "nul"

Letters == {"a", "f", "i", "x", "b", "_"}
Digits  == {"0", "1"}
Doubles == {"=", "!", "<", ">", "&", "|"}
Singles == {";", "+"}
Quote   == "'"
Characters == Letters \cup Digits \cup Doubles \cup Singles \cup {Quote, " ", ".", "#"}

Min2(m, n) == IF m < n THEN m ELSE n

(* fread: the next characters of the file; a short count is the end.       *)
Chunk == SubSeq(text, offset + 1, Min2(offset + Buffer, Len(text)))

(* Characters read before the current one.                                 *)
Consumed == offset - Len(input) + Min2(read_position - 1, Len(input))

----------------------------------------------------------------------------
(* Reading.  e is feof as it is by now.                                    *)

(* Mutant: the position stays behind the character that is current.        *)
refill_behind ==
  /\ input' = Chunk
  /\ offset' = offset + Len(Chunk)
  /\ feof' = (Len(Chunk) < Buffer)
  /\ ch' = IF Chunk = <<>> THEN NUL ELSE Chunk[1]
  /\ read_position' = 0

refill ==
  /\ input' = Chunk
  /\ offset' = offset + Len(Chunk)
  /\ feof' = (Len(Chunk) < Buffer)
  /\ ch' = IF Chunk = <<>> THEN NUL ELSE Chunk[1]
  /\ read_position' = 1

read_char_after(e) ==
  IF read_position < Len(input)
  THEN /\ ch' = input[read_position + 1]
       /\ read_position' = read_position + 1
       /\ feof' = e
       /\ UNCHANGED <<input, offset>>
  ELSE IF file /\ ~e THEN refill
  ELSE /\ ch' = NUL
       /\ read_position' = Min2(read_position + 1, Len(input) + 1)
       /\ feof' = e
       /\ UNCHANGED <<input, offset>>

read_char == read_char_after(feof)

(* Mutant: no look past the end of the buffer.                             *)
peek_char_in_buffer ==
  IF read_position < Len(input) THEN input[read_position + 1] ELSE NUL

(* The next character, taken out of the file and put back when the buffer  *)
(* is used up.  At the end of the file there is none, and feof is set.     *)
peek_char ==
  IF read_position < Len(input) THEN input[read_position + 1]
  ELSE IF file /\ ~feof /\ offset < Len(text) THEN text[offset + 1]
  ELSE NUL

FeofAfterPeek ==
  feof \/ (read_position >= Len(input) /\ file /\ offset >= Len(text))

----------------------------------------------------------------------------
(* next_token *)

Token(type, word) == [type |-> type, literal |-> word]

Emit(t) ==
  /\ tokens' = Append(tokens, t)
  /\ reading' = "nothing"
  /\ literal' = <<>>

(* The token is returned at the current character.                         *)
EmitHere(t) ==
  /\ Emit(t)
  /\ begun' = Consumed
  /\ UNCHANGED <<offset, feof, input, read_position, ch, lexing>>

(* The current character is the last of the token.                         *)
EmitAfter(t, e) ==
  /\ read_char_after(e)
  /\ Emit(t)
  /\ begun' = Consumed + 1
  /\ UNCHANGED lexing

Start(loop) == reading' = loop /\ literal' = <<>> /\ UNCHANGED <<tokens, begun, lexing>>

skip_whitespace ==
  /\ reading = "nothing" /\ ch = " "
  /\ read_char
  /\ UNCHANGED <<reading, literal, tokens, begun, lexing>>

(* An operator of one character, or the first of two.                      *)
next_operator ==
  /\ reading = "nothing"
  /\ \/ /\ ch \in Singles
        /\ EmitAfter(Token("single", <<ch>>), feof)
     \/ /\ ch \in Doubles
        /\ IF peek_char = (IF ch = "!" THEN "=" ELSE ch)
           THEN /\ read_char_after(FeofAfterPeek)
                /\ reading' = "pair" /\ literal' = <<ch, peek_char>>
                /\ UNCHANGED <<tokens, begun, lexing>>
           ELSE EmitAfter(Token("single", <<ch>>), FeofAfterPeek)

second_of_pair ==
  /\ reading = "pair"
  /\ EmitAfter(Token("pair", literal), feof)

(* A literal begins: identifiers and numbers with their first character,   *)
(* strings after the quote, hexadecimal and binary numbers after the mark  *)
(* that the character behind the zero is.                                  *)
next_literal ==
  /\ reading = "nothing"
  /\ \/ ch \in Letters /\ Start("identifier")
        /\ UNCHANGED <<offset, feof, input, read_position, ch>>
     \/ ch = Quote /\ read_char /\ Start("string")
     \/ /\ ch \in Digits /\ ~(ch = "0" /\ peek_char \in Letters)
        /\ Start("number")
        /\ feof' = IF ch = "0" THEN FeofAfterPeek ELSE feof
        /\ UNCHANGED <<offset, input, read_position, ch>>
     \/ /\ ch = "0" /\ peek_char \in {"x", "b"}
        /\ read_char_after(FeofAfterPeek)
        /\ Start("mark")
     \/ /\ ch = "0" /\ peek_char \in Letters \ {"x", "b"}
        /\ lexing' = "dead"
        /\ UNCHANGED <<offset, feof, input, read_position, ch, reading, literal,
                       tokens, begun>>

mark_of_number ==
  /\ reading = "mark"
  /\ read_char
  /\ Start(IF ch = "x" THEN "hex" ELSE "binary")

(* What a loop takes.                                                      *)
Takes(loop, c) ==
  CASE loop = "identifier" -> c \in Letters
    [] loop \in {"number", "binary"} -> c \in Digits \cup {"."}
    [] loop = "hex"        -> c \in (Letters \ {"_"}) \cup Digits
    [] loop = "string"     -> c \notin {Quote, NUL}
    [] OTHER               -> FALSE

(* Mutant: at the end of the text a loop goes on, and reads nothing.       *)
LeavesInside(loop, c) == ~Takes(loop, c) /\ c # NUL
Leaves(loop, c) == ~Takes(loop, c)

(* read_identifier, read_number, read_hex, read_string: one more character *)
(* for the literal, which is not compared with the room there is: one with *)
(* as many as the array has runs over its end, if only with its NUL.       *)
read_literal ==
  /\ Takes(reading, ch)
  /\ IF Len(literal) + 1 < Literal
     THEN /\ literal' = Append(literal, ch)
          /\ read_char
          /\ UNCHANGED lexing
     ELSE /\ lexing' = "dead"
          /\ UNCHANGED <<literal, offset, feof, input, read_position, ch>>
  /\ UNCHANGED <<reading, tokens, begun>>

(* lookup_ident, with one keyword for all.                                 *)
lookup_ident(w) == IF w = <<"i", "f">> THEN "IF" ELSE "IDENT"

end_of_literal ==
  /\ reading \in {"identifier", "number", "hex", "binary", "string"}
  /\ Leaves(reading, ch)
  /\ \/ reading = "identifier" /\ EmitHere(Token(lookup_ident(literal), literal))
     \/ reading = "number" /\ EmitHere(Token("NUMBER", literal))
     \/ reading = "hex"    /\ EmitHere(Token("HEX", literal))
     \/ reading = "binary" /\ EmitHere(Token("BINARY", literal))
     \/ reading = "string" /\ ch = Quote /\ EmitAfter(Token("STRING", literal), feof)
     \/ /\ reading = "string" /\ ch = NUL
        /\ read_char
        /\ Emit(Token("STRING", literal))
        /\ begun' = Consumed
        /\ UNCHANGED lexing

(* Any other character ends a string, and ends a file once its last buffer *)
(* has been read, wherever in that buffer it is.                           *)
end_or_illegal ==
  /\ reading = "nothing"
  /\ ch \notin {" ", Quote} \cup Letters \cup Digits \cup Singles \cup Doubles
  /\ IF ~file \/ feof
     THEN /\ Emit(Token("END_OF_FILE", <<>>))
          /\ lexing' = "ended"
          /\ UNCHANGED <<offset, feof, input, read_position, ch, begun>>
     ELSE EmitAfter(Token("ILLEGAL", <<ch>>), feof)

----------------------------------------------------------------------------
LexerInit ==
  /\ text = <<>> /\ file = FALSE /\ offset = 0 /\ feof = FALSE
  /\ input = <<>> /\ read_position = 1 /\ ch = NUL
  /\ reading = "nothing" /\ literal = <<>> /\ tokens = <<>> /\ begun = 0
  /\ lexing = "idle"

(* The whole of t is the input, or the first n characters of it are.       *)
Open(t, n, from_file) ==
  /\ lexing # "running"
  /\ text' = t
  /\ file' = from_file
  /\ offset' = n
  /\ input' = SubSeq(t, 1, n)
  /\ feof' = (from_file /\ n < Buffer)
  /\ ch' = IF n = 0 THEN NUL ELSE t[1]
  /\ read_position' = 1
  /\ reading' = "nothing" /\ literal' = <<>> /\ tokens' = <<>> /\ begun' = 0
  /\ lexing' = "running"

new_lexer(t) == Open(t, Len(t), FALSE)
new_file_lexer(t) == Open(t, Min2(Buffer, Len(t)), TRUE)

next_token ==
  /\ lexing = "running"
  /\ \/ skip_whitespace  \/ next_operator   \/ second_of_pair
     \/ next_literal     \/ mark_of_number  \/ read_literal
     \/ end_of_literal   \/ end_or_illegal
  /\ UNCHANGED <<text, file>>

(* The process that reads is gone, and its lexer with it.                  *)
close_lexer ==
  /\ text' = <<>> /\ file' = FALSE /\ offset' = 0 /\ feof' = FALSE
  /\ input' = <<>> /\ read_position' = 1 /\ ch' = NUL
  /\ reading' = "nothing" /\ literal' = <<>> /\ tokens' = <<>> /\ begun' = 0
  /\ lexing' = "idle"

LexerNext ==
  \/ next_token
  \/ close_lexer
  \/ \E t \in Seq(Characters) : new_lexer(t) \/ new_file_lexer(t)

LexerSpec == LexerInit /\ [][LexerNext]_lexerVars

----------------------------------------------------------------------------
(* Properties *)

(* The buffer holds the characters of the text before offset and the       *)
(* current one is where the lexer has read to; NUL only stands behind      *)
(* them.                                                                   *)
LexerTypeOK ==
  /\ lexing \in {"idle", "running", "ended", "dead"}
  /\ input = SubSeq(text, offset - Len(input) + 1, offset)
  /\ file => Len(input) <= Buffer
  /\ ch = (IF read_position \in DOMAIN input THEN input[read_position] ELSE NUL)
  /\ Len(literal) <= Literal
  /\ begun \in 0 .. Len(text) /\ begun <= Consumed

(* Whether the text comes from a string or from a file, and wherever the   *)
(* buffers of a file cut a word, an operator of two characters or the mark *)
(* of a number in two, the tokens are the longest ones of the text, in     *)
(* order, with no character skipped or read twice; only a character that   *)
(* starts no token can end them early.                                     *)
Scanned == INSTANCE Scanner WITH pos <- begun + 1, ended <- lexing = "ended"
TokensAreLongest == Scanned!Spec

=============================================================================
