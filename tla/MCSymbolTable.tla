--------------------------- MODULE MCSymbolTable ---------------------------
(***************************************************************************)
(* SymbolTable on a small instance: two ordinary names and one built-in    *)
(* that can be shadowed, a few definitions per table, nested functions.    *)
(***************************************************************************)
EXTENDS SymbolTable

CONSTANTS x, y, len

MCPosition == [b \in {len} |-> 0]

============================================================================
