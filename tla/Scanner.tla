------------------------------ MODULE Scanner ------------------------------
(***************************************************************************)
(* What the lexer promises: the tokens of a text are the longest ones, one *)
(* after the other, wherever the text comes from and however it is cut     *)
(* into pieces on the way.  A character that starts no token is either     *)
(* reported or taken for the end of the text.                              *)
(***************************************************************************)
EXTENDS Integers, Sequences, FiniteSets

VARIABLES
  text,    \* a sequence of characters
  pos,     \* where the next token is looked for
  tokens,  \* those found so far
  ended    \* the last of them is END_OF_FILE

scannerVars == <<text, pos, tokens, ended>>

Letters == {"a", "f", "i", "x", "b", "_"}
Digits  == {"0", "1"}
Spaces  == {" "}
Pairs   == {"=", "!", "<", ">", "&", "|"}   \* "==" and "!=" ...
Singles == {";", "+"}
Quote   == "'"

Second(c) == IF c = "!" THEN "=" ELSE c

(* How many characters from p on are in S.                                 *)
Run(p, S) ==
  CHOOSE n \in 0 .. Len(text) :
    /\ \A i \in p .. p + n - 1 : i \in DOMAIN text /\ text[i] \in S
    /\ p + n \in DOMAIN text => text[p + n] \notin S

Token(type, literal) == [type |-> type, literal |-> literal]
Word(w) == Token(IF w = <<"i", "f">> THEN "IF" ELSE "IDENT", w)

From(p, n) == SubSeq(text, p, p + n - 1)
HasAt(p, S) == p \in DOMAIN text /\ text[p] \in S

(* The token at p and the characters it takes.                             *)
Lexeme(p) ==
  LET c == text[p]
      word == Run(p, Letters)
      number == Run(p, Digits \cup {"."})
      hex == Run(p + 2, (Letters \ {"_"}) \cup Digits)
      bits == Run(p + 2, Digits \cup {"."})
      inside == Run(p + 1, Letters \cup Digits \cup Spaces \cup Pairs \cup Singles \cup {".", "#"})
  IN  CASE c \in Letters -> [token |-> Word(From(p, word)), size |-> word]
        [] c \in Pairs /\ HasAt(p + 1, {Second(c)}) ->
             [token |-> Token("pair", <<c, Second(c)>>), size |-> 2]
        [] c \in Pairs /\ ~HasAt(p + 1, {Second(c)}) ->
             [token |-> Token("single", <<c>>), size |-> 1]
        [] c \in Singles -> [token |-> Token("single", <<c>>), size |-> 1]
        [] c = Quote -> [token |-> Token("STRING", From(p + 1, inside)),
                         size |-> inside + IF HasAt(p + 1 + inside, {Quote}) THEN 2 ELSE 1]
        [] c = "0" /\ HasAt(p + 1, {"x"}) ->
             [token |-> Token("HEX", From(p + 2, hex)), size |-> hex + 2]
        [] c = "0" /\ HasAt(p + 1, {"b"}) ->
             [token |-> Token("BINARY", From(p + 2, bits)), size |-> bits + 2]
        [] c \in Digits /\ ~(c = "0" /\ HasAt(p + 1, Letters)) ->
             [token |-> Token("NUMBER", From(p, number)), size |-> number]
        [] OTHER -> [token |-> Token("ILLEGAL", <<c>>), size |-> 1]

Init == pos = 1 /\ tokens = <<>> /\ ended = FALSE

End == tokens' = Append(tokens, Token("END_OF_FILE", <<>>)) /\ ended' = TRUE

Scan ==
  LET p == pos + Run(pos, Spaces)
  IN  /\ ~ended
      /\ UNCHANGED text
      /\ \/ /\ p \in DOMAIN text
            /\ tokens' = Append(tokens, Lexeme(p).token)
            /\ pos' = p + Lexeme(p).size
            /\ UNCHANGED ended
         \/ /\ p \in DOMAIN text => Lexeme(p).token.type = "ILLEGAL"
            /\ End
            /\ UNCHANGED pos

(* Another text.                                                           *)
Begin == pos' = 1 /\ tokens' = <<>> /\ ended' = FALSE

Spec == Init /\ [][Begin \/ Scan]_scannerVars

=============================================================================
