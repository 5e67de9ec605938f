------------------------- MODULE SymbolTableProofs -------------------------
(***************************************************************************)
(* Theorems about SymbolTable, for every set of names, every bound and     *)
(* every nesting depth.                                                    *)
(*                                                                         *)
(* The argument is about a stack of tables, not about the specification:   *)
(* StackOK says what is true of every stack, one lemma per operation of    *)
(* symbol_table.c shows that the operation keeps it, and the theorems      *)
(* about Spec follow.  The compiler's actions use the same operators, so   *)
(* the lemmas serve it too.                                                *)
(*                                                                         *)
(* The last part shows that SymbolTable implements LexicalScope: whatever  *)
(* tables capture, shadow or define again, a name means what the program's *)
(* text says.                                                              *)
(***************************************************************************)
EXTENDS SymbolTable, FiniteSetTheorems, SequenceTheorems, WellFoundedInduction, TLAPS

(* A captured name stays known to its table: define_free puts it in the    *)
(* map, and the map never loses a name.  This is why a second lookup of    *)
(* the name does not capture it again.                                     *)
CapturesKnownIn(table) ==
  \A k \in 1..Len(table.free_symbols) :
    table.store[table.free_symbols[k].name] # NULL

TableOK(table) ==
  /\ StoreSoundIn(table)
  /\ CaptureOnceIn(table)
  /\ CapturesKnownIn(table)
  /\ SlotsInjectiveIn(table)

StackOK(ts) ==
  /\ ts \in Seq(Table)
  /\ Len(ts) >= 1
  /\ \A i \in 1..Len(ts) : TableOK(ts[i])
  /\ ScopesSound(ts)
  /\ ChainSound(ts)

(* The inductive invariant *)
IInv == StackOK(tables) /\ resolved \in Symbol \cup {NULL}

----------------------------------------------------------------------------
(* One table *)

(* The fields of a table have the types symbol_table.h gives them.         *)
LEMMA TableFields ==
  ASSUME NEW t \in Table
  PROVE  /\ t.store \in [Names -> Symbol \cup {NULL}]
         /\ t.num_definitions \in Nat
         /\ t.free_symbols \in Seq(Symbol)
         /\ Len(t.free_symbols) \in Nat
         /\ \A k \in 1..Len(t.free_symbols) : t.free_symbols[k] \in Symbol
  BY DEF Table

(* A symbol a table has is one every later version of the table has.       *)
LEMMA ExtendsKeepsSlots ==
  ASSUME NEW t \in Table, NEW u \in Table, NEW s \in Symbol,
         HasSlot(t, s), Extends(t, u)
  PROVE  HasSlot(u, s)
  <1>1. /\ s.index \in Nat
        /\ t.num_definitions \in Nat /\ u.num_definitions \in Nat
        /\ Len(t.free_symbols) \in Nat /\ Len(u.free_symbols) \in Nat
    BY TableFields DEF Symbol
  <1>2. ASSUME s.scope \in {"GLOBAL", "LOCAL"}
        PROVE  s.index < u.num_definitions
    BY <1>1, <1>2 DEF HasSlot, Extends
  <1>3. ASSUME s.scope = "FREE"
        PROVE  /\ s.index < Len(u.free_symbols)
               /\ u.free_symbols[s.index + 1].name = s.name
    <2>1. /\ s.index < Len(t.free_symbols)
          /\ t.free_symbols[s.index + 1].name = s.name
      BY <1>3 DEF HasSlot
    <2>2. s.index + 1 \in 1..Len(t.free_symbols)
      BY <2>1, <1>1
    <2>3. u.free_symbols[s.index + 1] = t.free_symbols[s.index + 1]
      BY <2>2 DEF Extends
    <2>4. QED
      BY <2>1, <2>3, <1>1 DEF Extends
  <1>4. QED
    BY <1>2, <1>3 DEF HasSlot

(* Putting the names aside, symbols made by the code are symbols.          *)
LEMMA MkSymbolType ==
  ASSUME NEW n \in Names, NEW c \in Scopes, NEW i \in Nat
  PROVE  /\ MkSymbol(n, c, i) \in Symbol
         /\ MkSymbol(n, c, i).name = n
         /\ MkSymbol(n, c, i).scope = c
         /\ MkSymbol(n, c, i).index = i
         /\ MkSymbol(n, c, i) # NULL
  BY NullAssumption DEF MkSymbol, Symbol

(* Opening a scope starts from a table with nothing in it.                 *)
LEMMA EmptyTableOK ==
  /\ EmptyTable \in Table
  /\ TableOK(EmptyTable)
  /\ EmptyTable.store = [n \in Names |-> NULL]
  /\ EmptyTable.num_definitions = 0
  /\ EmptyTable.free_symbols = <<>>
  /\ Len(EmptyTable.free_symbols) = 0
  <1>1. EmptyTable \in Table
    BY EmptySeq DEF EmptyTable, Table
  <1>2. Len(EmptyTable.free_symbols) = 0
    BY DEF EmptyTable
  <1>3. QED
    BY <1>1, <1>2 DEF EmptyTable, TableOK, StoreSoundIn, CaptureOnceIn,
                      CapturesKnownIn, SlotsInjectiveIn

(* Capturing a name the table does not know keeps the table sound, extends *)
(* it, and makes the new symbol one it has (define_free).                  *)
LEMMA DefineFreeOK ==
  ASSUME NEW t \in Table, TableOK(t), NEW s \in Symbol,
         t.store[s.name] = NULL
  PROVE  LET u == define_free(t, s)
             c == MkSymbol(s.name, "FREE", Len(t.free_symbols))
         IN  /\ u \in Table
             /\ u.store = [t.store EXCEPT ![s.name] = c]
             /\ u.num_definitions = t.num_definitions
             /\ u.free_symbols = Append(t.free_symbols, s)
             /\ TableOK(u)
             /\ Extends(t, u)
             /\ HasSlot(u, c)
  <1> DEFINE u == define_free(t, s)
             c == MkSymbol(s.name, "FREE", Len(t.free_symbols))
             F == t.free_symbols
  <1>0. s.name \in Names
    BY DEF Symbol
  <1>1. /\ c \in Symbol
        /\ c.name = s.name /\ c.scope = "FREE" /\ c.index = Len(F)
        /\ c # NULL
    BY <1>0, MkSymbolType, TableFields DEF Scopes
  <1>2. /\ u.store = [t.store EXCEPT ![s.name] = c]
        /\ u.num_definitions = t.num_definitions
        /\ u.free_symbols = Append(F, s)
        /\ u \in Table
    <2>1. u = [store |-> [t.store EXCEPT ![s.name] = c],
               num_definitions |-> t.num_definitions,
               free_symbols |-> Append(F, s)]
      <3>1. t = [store |-> t.store, num_definitions |-> t.num_definitions,
                 free_symbols |-> F]
        BY DEF Table
      <3>2. Put(t, c) = [store |-> [t.store EXCEPT ![s.name] = c],
                         num_definitions |-> t.num_definitions,
                         free_symbols |-> F]
        BY <3>1, <1>1 DEF Put
      <3>3. u = [Put(t, c) EXCEPT !.free_symbols = Append(F, s)]
        <4>1. u = [Put(t, c) EXCEPT !.free_symbols
                                      = Append(Put(t, c).free_symbols, s)]
          BY DEF define_free
        <4>2. Put(t, c).free_symbols = F
          BY <3>2
        <4>3. QED
          BY <4>1, <4>2
      <3> DEFINE A == [t.store EXCEPT ![s.name] = c]
                 B == t.num_definitions
                 X == Append(F, s)
      <3> HIDE DEF u, c, F, A, B, X
      <3>4. u = [[store |-> A, num_definitions |-> B, free_symbols |-> F]
                   EXCEPT !.free_symbols = X]
        BY <3>2, <3>3 DEF A, B, X
      <3>5. u = [store |-> A, num_definitions |-> B, free_symbols |-> X]
        BY <3>4
      <3>6. QED
        BY <3>5 DEF A, B, X
    <2>2. [t.store EXCEPT ![s.name] = c] \in [Names -> Symbol \cup {NULL}]
      BY <1>0, <1>1, TableFields
    <2>3. Append(F, s) \in Seq(Symbol)
      BY TableFields, AppendProperties
    <2>4. QED
      BY <2>1, <2>2, <2>3, TableFields DEF Table
  <1>3. /\ Len(u.free_symbols) = Len(F) + 1
        /\ \A k \in 1..Len(F) : u.free_symbols[k] = F[k]
        /\ u.free_symbols[Len(F) + 1] = s
    BY <1>2, TableFields, AppendProperties
  <1>4. Extends(t, u)
    BY <1>2, <1>3, TableFields DEF Extends
  <1>5. HasSlot(u, c)
    BY <1>1, <1>3, TableFields DEF HasSlot
  <1>6. \A n \in Names : u.store[n] = IF n = s.name THEN c ELSE t.store[n]
    BY <1>0, <1>2, TableFields
  <1>7. StoreSoundIn(u)
    <2> SUFFICES ASSUME NEW n \in Names, u.store[n] # NULL
                 PROVE  u.store[n].name = n /\ HasSlot(u, u.store[n])
      BY DEF StoreSoundIn
    <2>1. CASE n = s.name
      BY <2>1, <1>1, <1>5, <1>6
    <2>2. CASE n # s.name
      <3>1. u.store[n] = t.store[n] /\ t.store[n] \in Symbol
        BY <2>2, <1>6, TableFields
      <3>2. t.store[n].name = n /\ HasSlot(t, t.store[n])
        BY <3>1 DEF TableOK, StoreSoundIn
      <3>3. QED
        BY <3>1, <3>2, <1>2, <1>4, ExtendsKeepsSlots
    <2>3. QED
      BY <2>1, <2>2
  <1>8. CaptureOnceIn(u)
    <2>1. \A k \in 1..Len(F) : F[k].name # s.name
      BY DEF TableOK, CapturesKnownIn
    <2>2. \A j, k \in 1..Len(F) : F[j].name = F[k].name => j = k
      BY DEF TableOK, CaptureOnceIn
    <2>3. ASSUME NEW j \in 1..Len(F) + 1, NEW k \in 1..Len(F) + 1,
                 u.free_symbols[j].name = u.free_symbols[k].name
          PROVE  j = k
      <3>1. /\ j \in 1..Len(F) \/ j = Len(F) + 1
            /\ k \in 1..Len(F) \/ k = Len(F) + 1
        BY TableFields
      <3> HIDE DEF u, F
      <3>2. QED
        BY <3>1, <2>1, <2>2, <2>3, <1>3
    <2>4. QED
      BY <2>3, <1>3 DEF CaptureOnceIn
  <1>9. CapturesKnownIn(u)
    <2> SUFFICES ASSUME NEW k \in 1..Len(u.free_symbols)
                 PROVE  u.store[u.free_symbols[k].name] # NULL
      BY DEF CapturesKnownIn
    <2>1. CASE k = Len(F) + 1
      BY <2>1, <1>0, <1>1, <1>3, <1>6
    <2>2. CASE k \in 1..Len(F)
      <3>1. F[k].name \in Names /\ t.store[F[k].name] # NULL
        BY <2>2, TableFields DEF TableOK, CapturesKnownIn, Symbol
      <3>2. QED
        BY <3>1, <2>2, <1>1, <1>3, <1>6
    <2>3. QED
      BY <2>1, <2>2, <1>3, TableFields
  <1>10. SlotsInjectiveIn(u)
    <2> SUFFICES ASSUME NEW m \in Names, NEW n \in Names, m # n,
                        u.store[m] # NULL, u.store[n] # NULL,
                        u.store[m].scope = u.store[n].scope,
                        u.store[m].scope \in {"GLOBAL", "LOCAL", "FREE"},
                        u.store[m].index = u.store[n].index
                 PROVE  FALSE
      BY DEF SlotsInjectiveIn
    <2>1. m # s.name /\ n # s.name
      <3>1. ASSUME NEW p \in Names, p # s.name, t.store[p] # NULL,
                   t.store[p].scope = "FREE"
            PROVE  t.store[p].index < Len(F)
        BY <3>1 DEF TableOK, StoreSoundIn, HasSlot
      <3>2. \A p \in Names : t.store[p] # NULL => t.store[p].index \in Nat
        BY TableFields DEF Symbol
      <3>3. QED
        BY <3>1, <3>2, <1>1, <1>6, TableFields
    <2>2. u.store[m] = t.store[m] /\ u.store[n] = t.store[n]
      BY <2>1, <1>6
    <2>3. QED
      BY <2>2 DEF TableOK, SlotsInjectiveIn
  <1>11. QED
    BY <1>2, <1>4, <1>5, <1>7, <1>8, <1>9, <1>10 DEF TableOK

(* Binding a name to a slot no other name of the table has keeps the table *)
(* sound and extends it: the case of the two symbol_define functions that  *)
(* capture nothing.                                                        *)
LEMMA PutOK ==
  ASSUME NEW t \in Table, TableOK(t), NEW s \in Symbol, NEW u \in Table,
         u.store = [t.store EXCEPT ![s.name] = s],
         u.free_symbols = t.free_symbols,
         u.num_definitions >= t.num_definitions,
         HasSlot(u, s),
         \A n \in Names : /\ t.store[n] # NULL
                          /\ t.store[n].scope = s.scope
                          /\ s.scope \in {"GLOBAL", "LOCAL", "FREE"}
                          => t.store[n].index # s.index
  PROVE  TableOK(u) /\ Extends(t, u)
  <1>0. s.name \in Names /\ s # NULL
    BY NullAssumption DEF Symbol
  <1>1. Extends(t, u)
    BY TableFields DEF Extends
  <1>2. \A n \in Names : u.store[n] = IF n = s.name THEN s ELSE t.store[n]
    BY <1>0, TableFields
  <1>3. StoreSoundIn(u)
    <2> SUFFICES ASSUME NEW n \in Names, u.store[n] # NULL
                 PROVE  u.store[n].name = n /\ HasSlot(u, u.store[n])
      BY DEF StoreSoundIn
    <2>1. CASE n = s.name
      BY <2>1, <1>2
    <2>2. CASE n # s.name
      <3>1. u.store[n] = t.store[n] /\ t.store[n] \in Symbol
        BY <2>2, <1>2, TableFields
      <3>2. t.store[n].name = n /\ HasSlot(t, t.store[n])
        BY <3>1 DEF TableOK, StoreSoundIn
      <3>3. QED
        BY <3>1, <3>2, <1>1, ExtendsKeepsSlots
    <2>3. QED
      BY <2>1, <2>2
  <1>4. CaptureOnceIn(u)
    BY DEF TableOK, CaptureOnceIn
  <1>5. CapturesKnownIn(u)
    <2> SUFFICES ASSUME NEW k \in 1..Len(t.free_symbols)
                 PROVE  u.store[t.free_symbols[k].name] # NULL
      BY DEF CapturesKnownIn
    <2>1. /\ t.free_symbols[k].name \in Names
          /\ t.store[t.free_symbols[k].name] # NULL
      BY TableFields DEF TableOK, CapturesKnownIn, Symbol
    <2>2. QED
      BY <2>1, <1>0, <1>2
  <1>6. SlotsInjectiveIn(u)
    <2> SUFFICES ASSUME NEW m \in Names, NEW n \in Names, m # n,
                        u.store[m] # NULL, u.store[n] # NULL,
                        u.store[m].scope = u.store[n].scope,
                        u.store[m].scope \in {"GLOBAL", "LOCAL", "FREE"},
                        u.store[m].index = u.store[n].index
                 PROVE  FALSE
      BY DEF SlotsInjectiveIn
    <2>1. m # s.name /\ n # s.name
      BY <1>2
    <2>2. u.store[m] = t.store[m] /\ u.store[n] = t.store[n]
      BY <2>1, <1>2
    <2>3. QED
      BY <2>2 DEF TableOK, SlotsInjectiveIn
  <1>7. QED
    BY <1>1, <1>3, <1>4, <1>5, <1>6 DEF TableOK

(* symbol_define on the table itself.                                      *)
LEMMA DefineOK ==
  ASSUME NEW t \in Table, TableOK(t), NEW n \in Names,
         NEW c \in {"GLOBAL", "LOCAL"}
  PROVE  LET s == MkSymbol(n, c, t.num_definitions)
             u == [Put(t, s) EXCEPT !.num_definitions = @ + 1]
         IN  /\ u \in Table
             /\ u.store = [t.store EXCEPT ![n] = s]
             /\ u.num_definitions = t.num_definitions + 1
             /\ u.free_symbols = t.free_symbols
             /\ TableOK(u)
             /\ Extends(t, u)
             /\ s \in Symbol
             /\ HasSlot(u, s)
  <1> DEFINE s == MkSymbol(n, c, t.num_definitions)
             u == [Put(t, s) EXCEPT !.num_definitions = @ + 1]
             A == [t.store EXCEPT ![n] = s]
             B == t.num_definitions
             F == t.free_symbols
  <1>1. /\ s \in Symbol
        /\ s.name = n /\ s.scope = c /\ s.index = B
    BY MkSymbolType, TableFields DEF Scopes
  <1>2. u = [store |-> A, num_definitions |-> B + 1, free_symbols |-> F]
    <2>1. t = [store |-> t.store, num_definitions |-> B, free_symbols |-> F]
      BY DEF Table
    <2>2. Put(t, s) = [store |-> A, num_definitions |-> B, free_symbols |-> F]
      <3> HIDE DEF s, B, F
      <3>1. Put(t, s) = [t EXCEPT !.store[n] = s]
        BY <1>1 DEF Put
      <3>2. QED
        BY <2>1, <3>1
    <2> HIDE DEF s, A, B, F
    <2>3. u = [[store |-> A, num_definitions |-> B, free_symbols |-> F]
                 EXCEPT !.num_definitions = @ + 1]
      BY <2>2
    <2>4. QED
      BY <2>3
  <1>3. u \in Table /\ u.store = A /\ u.free_symbols = F
        /\ u.num_definitions = B + 1
    <2>1. A \in [Names -> Symbol \cup {NULL}] /\ B + 1 \in Nat
          /\ F \in Seq(Symbol)
      BY <1>1, TableFields
    <2> HIDE DEF s, u, A, B, F
    <2>2. QED
      BY <1>2, <2>1 DEF Table
  <1>4. HasSlot(u, s)
    <2> HIDE DEF s, u
    <2>1. QED
      BY <1>1, <1>3, TableFields DEF HasSlot
  <1>5. \A m \in Names : t.store[m] # NULL /\ t.store[m].scope = c
                           => t.store[m].index # B
    <2>1. \A m \in Names : t.store[m] # NULL => t.store[m].index \in Nat
      BY TableFields DEF Symbol
    <2>2. QED
      BY <2>1, TableFields DEF TableOK, StoreSoundIn, HasSlot
  <1>6. TableOK(u) /\ Extends(t, u)
    <2> HIDE DEF s, u
    <2>1. u.num_definitions >= t.num_definitions
      BY <1>3, TableFields
    <2>2. QED
      BY <1>1, <1>3, <1>4, <1>5, <2>1, PutOK
  <1>7. QED
    BY <1>1, <1>3, <1>4, <1>6

(* symbol_define_function_name on the table itself.                        *)
LEMMA DefineFunctionNameOK ==
  ASSUME NEW t \in Table, TableOK(t), NEW n \in Names
  PROVE  LET s == MkSymbol(n, "FUNCTION", 0)
             u == Put(t, s)
         IN  /\ u \in Table
             /\ u.store = [t.store EXCEPT ![n] = s]
             /\ u.free_symbols = t.free_symbols
             /\ TableOK(u)
             /\ Extends(t, u)
             /\ s \in Symbol
  <1> DEFINE s == MkSymbol(n, "FUNCTION", 0)
             u == Put(t, s)
             A == [t.store EXCEPT ![n] = s]
             B == t.num_definitions
             F == t.free_symbols
  <1>1. /\ s \in Symbol
        /\ s.name = n /\ s.scope = "FUNCTION" /\ s.index = 0
    BY MkSymbolType DEF Scopes
  <1>2. u = [store |-> A, num_definitions |-> B, free_symbols |-> F]
    <2>1. t = [store |-> t.store, num_definitions |-> B, free_symbols |-> F]
      BY DEF Table
    <2> HIDE DEF s, B, F
    <2>2. Put(t, s) = [t EXCEPT !.store[n] = s]
      BY <1>1 DEF Put
    <2>3. QED
      BY <2>1, <2>2
  <1>3. u \in Table /\ u.store = A /\ u.free_symbols = F
        /\ u.num_definitions = B
    <2>1. A \in [Names -> Symbol \cup {NULL}] /\ B \in Nat
          /\ F \in Seq(Symbol)
      BY <1>1, TableFields
    <2> HIDE DEF s, u, A, B, F
    <2>2. QED
      BY <1>2, <2>1 DEF Table
  <1> HIDE DEF s, u
  <1>4. HasSlot(u, s)
    BY <1>1 DEF HasSlot
  <1>5. TableOK(u) /\ Extends(t, u)
    <2>1. u.num_definitions >= t.num_definitions
      BY <1>3, TableFields
    <2>2. QED
      BY <1>1, <1>3, <1>4, <2>1, PutOK
  <1>6. QED
    BY <1>1, <1>3, <1>5 DEF s, u

----------------------------------------------------------------------------
(* The stack of tables *)

LEMMA StackFields ==
  ASSUME NEW ts \in Seq(Table)
  PROVE  /\ Len(ts) \in Nat
         /\ DOMAIN ts = 1..Len(ts)
         /\ \A i \in 1..Len(ts) : ts[i] \in Table
  BY LenProperties, ElementOfSeq

(* Changing the current table into one that extends it and captures        *)
(* nothing new keeps the stack sound.                                      *)
LEMMA ReplaceTopOK ==
  ASSUME NEW ts, StackOK(ts), NEW u \in Table, TableOK(u),
         Extends(Top(ts), u), u.free_symbols = Top(ts).free_symbols,
         \A n \in Names : u.store[n] # NULL
                            => u.store[n].scope \in ScopesAt(Len(ts))
  PROVE  LET us == [ts EXCEPT ![Len(ts)] = u]
         IN  /\ StackOK(us)
             /\ Len(us) = Len(ts)
             /\ \A i \in 1..Len(ts) : us[i] = IF i = Len(ts) THEN u ELSE ts[i]
  <1> DEFINE us == [ts EXCEPT ![Len(ts)] = u]
  <1>1. ts \in Seq(Table) /\ Len(ts) \in Nat /\ Len(ts) >= 1
    BY StackFields DEF StackOK
  <1>2. /\ us \in Seq(Table)
        /\ Len(us) = Len(ts)
        /\ \A i \in 1..Len(ts) : us[i] = IF i = Len(ts) THEN u ELSE ts[i]
    BY <1>1, ExceptSeq
  <1> HIDE DEF us
  <1>3. \A i \in 1..Len(us) : TableOK(us[i])
    BY <1>2 DEF StackOK
  <1>4. ScopesSound(us)
    BY <1>2 DEF StackOK, ScopesSound
  <1>5. ChainSound(us)
    <2> SUFFICES ASSUME NEW i \in 2..Len(us),
                        NEW k \in 1..Len(us[i].free_symbols)
                 PROVE  /\ Capturable(us[i].free_symbols[k])
                        /\ us[i].free_symbols[k].scope \in ScopesAt(i - 1)
                        /\ HasSlot(us[i - 1], us[i].free_symbols[k])
      BY DEF ChainSound
    <2>1. us[i].free_symbols = ts[i].free_symbols /\ us[i - 1] = ts[i - 1]
      BY <1>1, <1>2 DEF Top
    <2>2. QED
      BY <2>1, <1>2 DEF StackOK, ChainSound
  <1>6. QED
    BY <1>1, <1>2, <1>3, <1>4, <1>5 DEF StackOK, us

(* Opening a table that has captured nothing keeps the stack sound.        *)
LEMMA PushOK ==
  ASSUME NEW ts, StackOK(ts), NEW u \in Table, TableOK(u),
         Len(u.free_symbols) = 0,
         \A n \in Names : u.store[n] # NULL
                            => u.store[n].scope \in {"LOCAL", "FREE", "FUNCTION"}
  PROVE  LET us == Append(ts, u)
         IN  /\ StackOK(us)
             /\ Len(us) = Len(ts) + 1
             /\ \A i \in 1..Len(ts) : us[i] = ts[i]
  <1> DEFINE us == Append(ts, u)
  <1>1. ts \in Seq(Table) /\ Len(ts) \in Nat /\ Len(ts) >= 1
    BY StackFields DEF StackOK
  <1>2. /\ us \in Seq(Table)
        /\ Len(us) = Len(ts) + 1
        /\ \A i \in 1..Len(ts) : us[i] = ts[i]
        /\ us[Len(ts) + 1] = u
    BY <1>1, AppendProperties
  <1> HIDE DEF us
  <1>3. \A i \in 1..Len(us) : i \in 1..Len(ts) \/ i = Len(ts) + 1
    BY <1>1, <1>2
  <1>4. \A i \in 1..Len(us) : TableOK(us[i])
    BY <1>2, <1>3 DEF StackOK
  <1>5. ScopesSound(us)
    <2>1. Len(ts) + 1 # 1
      BY <1>1
    <2>2. QED
      BY <1>2, <1>3, <2>1 DEF StackOK, ScopesSound, ScopesAt
  <1>6. ChainSound(us)
    <2> SUFFICES ASSUME NEW i \in 2..Len(us),
                        NEW k \in 1..Len(us[i].free_symbols)
                 PROVE  /\ Capturable(us[i].free_symbols[k])
                        /\ us[i].free_symbols[k].scope \in ScopesAt(i - 1)
                        /\ HasSlot(us[i - 1], us[i].free_symbols[k])
      BY DEF ChainSound
    <2>1. i \in 2..Len(ts)
      BY <1>1, <1>2
    <2>2. us[i] = ts[i] /\ us[i - 1] = ts[i - 1]
      BY <2>1, <1>1, <1>2
    <2>3. QED
      BY <2>1, <2>2 DEF StackOK, ChainSound
  <1>7. QED
    BY <1>1, <1>2, <1>4, <1>5, <1>6 DEF StackOK, us

(* Closing a table other than the global one keeps the stack sound.        *)
LEMMA PopOK ==
  ASSUME NEW ts, StackOK(ts), Len(ts) > 1
  PROVE  LET us == free_symbol_table(ts)
         IN  /\ StackOK(us)
             /\ Len(us) = Len(ts) - 1
             /\ \A i \in 1..Len(us) : us[i] = ts[i]
  <1> DEFINE us == free_symbol_table(ts)
  <1>1. ts \in Seq(Table) /\ Len(ts) \in Nat /\ Len(ts) - 1 \in Nat
    BY StackFields DEF StackOK
  <1>2. /\ us \in Seq(Table)
        /\ Len(us) = Len(ts) - 1
        /\ \A i \in 1..Len(us) : us[i] = ts[i]
    <2>1. \A i \in 1..Len(ts) - 1 : ts[i] \in Table
      BY <1>1, StackFields
    <2>2. QED
      BY <1>1, <2>1, SubSeqProperties DEF free_symbol_table
  <1> HIDE DEF us
  <1>3. \A i \in 1..Len(us) : TableOK(us[i])
    BY <1>1, <1>2 DEF StackOK
  <1>4. ScopesSound(us)
    BY <1>1, <1>2 DEF StackOK, ScopesSound
  <1>5. ChainSound(us)
    <2> SUFFICES ASSUME NEW i \in 2..Len(us),
                        NEW k \in 1..Len(us[i].free_symbols)
                 PROVE  /\ Capturable(us[i].free_symbols[k])
                        /\ us[i].free_symbols[k].scope \in ScopesAt(i - 1)
                        /\ HasSlot(us[i - 1], us[i].free_symbols[k])
      BY DEF ChainSound
    <2>1. us[i] = ts[i] /\ us[i - 1] = ts[i - 1] /\ i \in 2..Len(ts)
      BY <1>1, <1>2
    <2>2. QED
      BY <2>1 DEF StackOK, ChainSound
  <1>6. QED
    BY <1>1, <1>2, <1>3, <1>4, <1>5 DEF StackOK, us

(* Every set of positions that is not empty has a last one: symbol_resolve *)
(* finds the innermost table that knows the name.                          *)
LEMMA HolderIsInnermost ==
  ASSUME NEW ts \in Seq(Table), NEW name, Knowing(ts, name) # {}
  PROVE  IsHolder(ts, name, Holder(ts, name))
  <1> DEFINE K == Knowing(ts, name)
             From(i) == {j \in K : j >= i}
             Tails == {From(i) : i \in K}
  <1>1. IsFiniteSet(K) /\ K \subseteq Nat
    <2>1. K \subseteq 1..Len(ts) /\ Len(ts) \in Nat
      BY StackFields DEF Knowing
    <2>2. IsFiniteSet(1..Len(ts))
      BY <2>1, FS_Interval
    <2> HIDE DEF K
    <2>3. IsFiniteSet(K)
      BY <2>1, <2>2, FS_Subset
    <2>4. QED
      BY <2>1, <2>3
  <1>2. IsWellFoundedOn(StrictSubsetOrdering(K), FiniteSubsetsOf(K))
    BY FS_StrictSubsetOrderingWellFounded
  <1>3. Tails \subseteq FiniteSubsetsOf(K) /\ Tails # {}
    <2>1. \A i \in K : From(i) \subseteq K /\ IsFiniteSet(From(i))
      BY <1>1, FS_Subset
    <2>2. QED
      BY <2>1 DEF FiniteSubsetsOf
  <1>4. PICK T \in Tails : \A U \in Tails : <<U, T>> \notin StrictSubsetOrdering(K)
    <2> HIDE DEF Tails, K
    <2>1. QED
      BY <1>2, <1>3, WFMin
  <1>5. PICK k \in K : T = From(k)
    BY <1>4
  <1>6. \A i \in K : i <= k
    <2> SUFFICES ASSUME NEW i \in K, i > k
                 PROVE  FALSE
      BY <1>1
    <2>1. From(i) \subseteq From(k) /\ k \in From(k) /\ k \notin From(i)
      BY <1>1
    <2>2. <<From(i), From(k)>> \in StrictSubsetOrdering(K)
      <3>1. From(i) \in SUBSET K /\ From(k) \in SUBSET K /\ From(i) # From(k)
        BY <2>1
      <3> HIDE DEF From, K
      <3>2. QED
        BY <2>1, <3>1 DEF StrictSubsetOrdering
    <2>3. QED
      BY <2>2, <1>4, <1>5
  <1>7. IsHolder(ts, name, k)
    BY <1>6 DEF IsHolder
  <1>8. QED
    BY <1>7 DEF Holder, IsHolder

(* A lookup keeps the stack sound, whatever tables it has to capture the   *)
(* name in, and no table loses a slot.  The symbol it returns is one the   *)
(* current table has, or a global or built-in one.                         *)
LEMMA ResolveOK ==
  ASSUME NEW ts, StackOK(ts), NEW name \in Names
  PROVE  LET us == TablesAfterResolve(ts, name)
         IN  /\ StackOK(us)
             /\ Len(us) = Len(ts)
             /\ \A i \in 1..Len(ts) : Extends(ts[i], us[i])
             /\ symbol_resolve(ts, name) \in Symbol \cup {NULL}
  <1> DEFINE us == TablesAfterResolve(ts, name)
             k == Holder(ts, name)
             found == ts[k].store[name]
             R(i) == ResolvedAt(ts, name, i)
  <1>1. /\ ts \in Seq(Table) /\ Len(ts) \in Nat /\ Len(ts) >= 1
        /\ \A i \in 1..Len(ts) : ts[i] \in Table /\ TableOK(ts[i])
    BY StackFields DEF StackOK
  <1>2. \A i \in 1..Len(ts) : Extends(ts[i], ts[i])
    BY <1>1, TableFields DEF Extends
  <1>3. CASE Knowing(ts, name) = {}
    BY <1>1, <1>2, <1>3 DEF TablesAfterResolve, symbol_resolve
  <1>4. CASE Knowing(ts, name) # {}
    <2>1. /\ k \in 1..Len(ts)
          /\ found \in Symbol
          /\ found.name = name
          /\ found.scope \in ScopesAt(k)
          /\ HasSlot(ts[k], found)
          /\ \A i \in 1..Len(ts) : i > k => ts[i].store[name] = NULL
      <3>1. IsHolder(ts, name, k)
        BY <1>1, <1>4, HolderIsInnermost
      <3>2. /\ k \in 1..Len(ts) /\ found # NULL
            /\ \A i \in 1..Len(ts) : i > k => ts[i].store[name] = NULL
        BY <1>1, <3>1 DEF IsHolder, Knowing
      <3>3. found \in Symbol /\ found.name = name /\ HasSlot(ts[k], found)
        BY <3>2, <1>1, TableFields DEF TableOK, StoreSoundIn
      <3>4. QED
        BY <3>2, <3>3 DEF StackOK, ScopesSound
    <2>2. CASE ~Capturable(found)
      <3>1. us = ts
        BY <1>4, <2>2 DEF TablesAfterResolve
      <3>2. symbol_resolve(ts, name) = found
        BY <1>4, <2>2 DEF symbol_resolve, ResolvedAt
      <3>3. QED
        BY <3>1, <3>2, <1>2, <2>1
    <2>3. CASE Capturable(found)
      <3> DEFINE C(i) == MkSymbol(name, "FREE", Len(ts[i].free_symbols))
      <3>1. /\ us = [i \in 1..Len(ts) |->
                       IF i <= k THEN ts[i] ELSE define_free(ts[i], R(i - 1))]
            /\ R(k) = found
            /\ \A i \in 1..Len(ts) : i > k => R(i) = C(i)
        BY <1>4, <2>1, <2>3 DEF TablesAfterResolve, ResolvedAt
      <3>2. \A i \in 1..Len(ts) :
              /\ C(i) \in Symbol /\ C(i).name = name
              /\ C(i).scope = "FREE" /\ C(i) # NULL
        BY <1>1, TableFields, MkSymbolType DEF Scopes
      <3>3. k # 1
        BY <2>1, <2>3 DEF ScopesAt, Capturable
      <3>4. \A i \in k..Len(ts) :
              R(i) \in Symbol /\ R(i).name = name /\ Capturable(R(i))
              /\ R(i).scope \in ScopesAt(i)
        <4> SUFFICES ASSUME NEW i \in k..Len(ts)
                     PROVE  R(i) \in Symbol /\ R(i).name = name
                            /\ Capturable(R(i)) /\ R(i).scope \in ScopesAt(i)
          OBVIOUS
        <4>1. CASE i = k
          BY <4>1, <2>1, <2>3, <3>1
        <4>2. CASE i # k
          <5>1. i \in 1..Len(ts) /\ i > k /\ i # 1
            BY <4>2, <2>1, <1>1
          <5>2. R(i) = C(i)
            BY <5>1, <3>1
          <5>3. QED
            BY <5>1, <5>2, <3>2 DEF Capturable, ScopesAt
        <4>3. QED
          BY <4>1, <4>2
      <3>k. k \in Nat /\ \A i \in 1..Len(ts) : i \in Nat /\ (i <= k \/ i > k)
        BY <2>1, <1>1
      <3> HIDE DEF us, k, found, R, C
      <3>5. ASSUME NEW i \in 1..Len(ts), i <= k
            PROVE  /\ us[i] = ts[i]
                   /\ us[i] \in Table /\ TableOK(us[i])
                   /\ Extends(ts[i], us[i])
        BY <3>5, <3>1, <1>1, <1>2
      <3>6. ASSUME NEW i \in 1..Len(ts), i > k
            PROVE  /\ us[i] \in Table /\ TableOK(us[i])
                   /\ Extends(ts[i], us[i])
                   /\ us[i].store = [ts[i].store EXCEPT ![name] = C(i)]
                   /\ us[i].free_symbols
                        = Append(ts[i].free_symbols, R(i - 1))
                   /\ HasSlot(us[i], R(i))
        <4>1. us[i] = define_free(ts[i], R(i - 1)) /\ R(i) = C(i)
          BY <3>6, <3>1, <2>1, <1>1
        <4>2. R(i - 1) \in Symbol /\ R(i - 1).name = name
          <5>1. i - 1 \in k..Len(ts)
            BY <3>6, <2>1, <1>1
          <5>2. QED
            BY <5>1, <3>4
        <4>3. ts[i].store[R(i - 1).name] = NULL
          BY <4>2, <2>1, <3>6 DEF k, found
        <4>4. QED
          BY <4>1, <4>2, <4>3, <1>1, DefineFreeOK DEF C
      <3>7. us \in Seq(Table) /\ Len(us) = Len(ts)
        <4>1. \A i \in 1..Len(ts) : us[i] \in Table
          BY <3>5, <3>6, <3>k
        <4>2. us \in [1..Len(ts) -> Table]
          BY <4>1, <3>1
        <4>3. QED
          BY <4>2, <1>1
      <3>8. \A i \in 1..Len(ts) : TableOK(us[i]) /\ Extends(ts[i], us[i])
        BY <3>5, <3>6, <3>k
      <3>9. ScopesSound(us)
        <4> SUFFICES ASSUME NEW i \in 1..Len(ts), NEW n \in Names,
                            us[i].store[n] # NULL
                     PROVE  us[i].store[n].scope \in ScopesAt(i)
          BY <3>7 DEF ScopesSound
        <4>1. CASE i <= k \/ n # name
          <5>1. us[i].store[n] = ts[i].store[n]
            <6>1. CASE i <= k
              BY <6>1, <3>5
            <6>2. CASE i > k
              <7>1. n # name /\ ts[i].store \in [Names -> Symbol \cup {NULL}]
                BY <6>2, <4>1, <3>k, <1>1, TableFields
              <7>2. QED
                BY <6>2, <7>1, <3>6
            <6>3. QED
              BY <6>1, <6>2, <3>k
          <5>2. QED
            BY <5>1 DEF StackOK, ScopesSound
        <4>2. CASE i > k /\ n = name
          <5>1. us[i].store[n] = C(i)
            <6>1. ts[i].store \in [Names -> Symbol \cup {NULL}]
              BY <1>1, TableFields
            <6>2. QED
              BY <6>1, <4>2, <3>6
          <5>2. i # 1
            BY <4>2, <2>1
          <5>3. QED
            BY <5>1, <5>2, <3>2 DEF ScopesAt
        <4>3. QED
          BY <4>1, <4>2, <2>1, <1>1
      <3>10. ChainSound(us)
        <4> SUFFICES ASSUME NEW i \in 2..Len(ts),
                            NEW j \in 1..Len(us[i].free_symbols)
                     PROVE  /\ Capturable(us[i].free_symbols[j])
                            /\ us[i].free_symbols[j].scope \in ScopesAt(i - 1)
                            /\ HasSlot(us[i - 1], us[i].free_symbols[j])
          BY <3>7 DEF ChainSound
        <4>0. /\ i \in 1..Len(ts) /\ i - 1 \in 1..Len(ts)
              /\ ts[i] \in Table /\ us[i - 1] \in Table /\ ts[i - 1] \in Table
              /\ Extends(ts[i - 1], us[i - 1])
          <5>1. i \in 1..Len(ts) /\ i - 1 \in 1..Len(ts)
            BY <1>1
          <5>2. QED
            BY <5>1, <1>1, <3>5, <3>6, <3>k
        <4>1. CASE j \in 1..Len(ts[i].free_symbols)
          <5>1. us[i].free_symbols[j] = ts[i].free_symbols[j]
            BY <4>0, <4>1, <3>8 DEF Extends
          <5>2. /\ Capturable(ts[i].free_symbols[j])
                /\ ts[i].free_symbols[j].scope \in ScopesAt(i - 1)
                /\ HasSlot(ts[i - 1], ts[i].free_symbols[j])
            BY <4>1 DEF StackOK, ChainSound
          <5>3. ts[i].free_symbols[j] \in Symbol
            BY <4>0, <4>1, TableFields
          <5>4. HasSlot(us[i - 1], ts[i].free_symbols[j])
            BY <5>2, <5>3, <4>0, ExtendsKeepsSlots
          <5>5. QED
            BY <5>1, <5>2, <5>4
        <4>2. CASE j \notin 1..Len(ts[i].free_symbols)
          <5>1. i > k
            BY <4>0, <4>2, <3>5, <3>k
          <5>2. /\ R(i - 1) \in Symbol /\ Capturable(R(i - 1))
                /\ R(i - 1).scope \in ScopesAt(i - 1)
            <6>1. i - 1 \in k..Len(ts)
              BY <5>1, <4>0, <2>1, <1>1
            <6>2. QED
              BY <6>1, <3>4
          <5>3. us[i].free_symbols[j] = R(i - 1)
            <6>1. us[i].free_symbols = Append(ts[i].free_symbols, R(i - 1))
              BY <5>1, <4>0, <3>6
            <6>2. /\ ts[i].free_symbols \in Seq(Symbol)
                  /\ Len(ts[i].free_symbols) \in Nat
              BY <4>0, TableFields
            <6>3. /\ Len(us[i].free_symbols) = Len(ts[i].free_symbols) + 1
                  /\ us[i].free_symbols[Len(ts[i].free_symbols) + 1] = R(i - 1)
              BY <6>1, <6>2, <5>2, AppendProperties
            <6>4. j = Len(ts[i].free_symbols) + 1
              BY <6>2, <6>3, <4>2
            <6>5. QED
              BY <6>3, <6>4
          <5>4. HasSlot(us[i - 1], R(i - 1))
            <6>1. CASE i - 1 > k
              BY <6>1, <4>0, <3>6
            <6>2. CASE i - 1 = k
              <7>1. us[i - 1] = ts[k] /\ R(i - 1) = found
                BY <6>2, <4>0, <3>5, <3>1
              <7>2. QED
                BY <7>1, <2>1
            <6>3. QED
              BY <6>1, <6>2, <5>1, <4>0, <2>1
          <5>5. QED
            BY <5>2, <5>3, <5>4
        <4>3. QED
          BY <4>1, <4>2
      <3>11. symbol_resolve(ts, name) \in Symbol
        <4>1. Len(ts) \in k..Len(ts)
          BY <1>1, <2>1
        <4>2. QED
          BY <4>1, <1>4, <3>4 DEF symbol_resolve, R
      <3>12. QED
        BY <1>1, <3>7, <3>8, <3>9, <3>10, <3>11 DEF StackOK, us
    <2>4. QED
      BY <2>2, <2>3
  <1>5. QED
    BY <1>3, <1>4

(* What a step may do to a stack of tables: keep it sound, and keep in     *)
(* every table that stays open what the table has given out.               *)
GoodStep(ts, us) ==
  /\ StackOK(us)
  /\ \A i \in 1..Len(ts) : i \in 1..Len(us) => Extends(ts[i], us[i])

LEMMA ExtendsReflexive ==
  ASSUME NEW t \in Table
  PROVE  Extends(t, t)
  BY TableFields DEF Extends

(* symbol_define on the current table.                                     *)
LEMMA SymbolDefineOK ==
  ASSUME NEW ts, StackOK(ts), NEW name \in Names
  PROVE  GoodStep(ts, symbol_define(ts, name))
  <1> DEFINE t == Top(ts)
             c == IF Len(ts) = 1 THEN "GLOBAL" ELSE "LOCAL"
             s == MkSymbol(name, c, t.num_definitions)
             u == [Put(t, s) EXCEPT !.num_definitions = @ + 1]
             us == [ts EXCEPT ![Len(ts)] = u]
  <1>1. /\ ts \in Seq(Table) /\ Len(ts) \in Nat /\ Len(ts) \in 1..Len(ts)
        /\ t \in Table /\ TableOK(t) /\ t = ts[Len(ts)]
        /\ \A i \in 1..Len(ts) : ts[i] \in Table
    BY StackFields DEF StackOK, Top
  <1>2. symbol_define(ts, name) = us
    <2>1. Defined(ts, name) = s
      BY DEF Defined
    <2>2. QED
      BY <2>1 DEF symbol_define
  <1>3. c \in {"GLOBAL", "LOCAL"}
    OBVIOUS
  <1>4. /\ u \in Table /\ TableOK(u) /\ Extends(t, u)
        /\ u.free_symbols = t.free_symbols
        /\ u.store = [t.store EXCEPT ![name] = s]
    <2> HIDE DEF t, c
    <2>1. /\ t \in Table /\ TableOK(t)
          /\ c \in {"GLOBAL", "LOCAL"}
      BY <1>1, <1>3
    <2>2. QED
      BY <2>1, DefineOK
  <1>5. s.scope = c
    BY DEF MkSymbol
  <1>6. \A n \in Names : u.store[n] # NULL => u.store[n].scope \in ScopesAt(Len(ts))
    <2>1. c \in ScopesAt(Len(ts))
      BY <1>1 DEF ScopesAt
    <2>2. \A n \in Names : t.store[n] # NULL
                             => t.store[n].scope \in ScopesAt(Len(ts))
      BY <1>1 DEF StackOK, ScopesSound
    <2> HIDE DEF t, c, s, u
    <2>3. t.store \in [Names -> Symbol \cup {NULL}]
      BY <1>1, TableFields
    <2>4. QED
      BY <2>1, <2>2, <2>3, <1>4, <1>5
  <1>7. /\ StackOK(us)
        /\ Len(us) = Len(ts)
        /\ \A i \in 1..Len(ts) : us[i] = IF i = Len(ts) THEN u ELSE ts[i]
    <2> HIDE DEF u, s, c
    <2>1. QED
      BY <1>1, <1>4, <1>6, ReplaceTopOK
  <1> HIDE DEF us, u, t
  <1>8. QED
    BY <1>1, <1>2, <1>4, <1>7, ExtendsReflexive DEF GoodStep

(* Opening a table for a loop body or an unnamed function.                 *)
LEMMA EnterScopeOK ==
  ASSUME NEW ts, StackOK(ts)
  PROVE  GoodStep(ts, new_enclosed_symbol_table(ts))
  <1>1. /\ ts \in Seq(Table) /\ Len(ts) \in Nat
        /\ \A i \in 1..Len(ts) : ts[i] \in Table
    BY StackFields DEF StackOK
  <1>2. /\ StackOK(Append(ts, EmptyTable))
        /\ \A i \in 1..Len(ts) : Append(ts, EmptyTable)[i] = ts[i]
    BY EmptyTableOK, PushOK
  <1>3. QED
    BY <1>1, <1>2, ExtendsReflexive DEF GoodStep, new_enclosed_symbol_table

(* Opening a table for a function a let names.                             *)
LEMMA EnterFunctionOK ==
  ASSUME NEW ts, StackOK(ts), NEW name \in Names
  PROVE  GoodStep(ts, symbol_define_function_name(new_enclosed_symbol_table(ts),
                                                  name))
  <1> DEFINE s == MkSymbol(name, "FUNCTION", 0)
             u == Put(EmptyTable, s)
             vs == Append(ts, EmptyTable)
             us == [vs EXCEPT ![Len(vs)] = u]
  <1>1. /\ ts \in Seq(Table) /\ Len(ts) \in Nat
        /\ \A i \in 1..Len(ts) : ts[i] \in Table
    BY StackFields DEF StackOK
  <1>2. /\ u \in Table /\ TableOK(u) /\ Extends(EmptyTable, u)
        /\ u.free_symbols = EmptyTable.free_symbols
        /\ u.store = [EmptyTable.store EXCEPT ![name] = s]
    BY EmptyTableOK, DefineFunctionNameOK
  <1>3. /\ StackOK(vs)
        /\ Len(vs) = Len(ts) + 1
        /\ \A i \in 1..Len(ts) : vs[i] = ts[i]
        /\ Top(vs) = EmptyTable
    <2>1. Top(vs) = EmptyTable
      BY <1>1, EmptyTableOK, AppendProperties DEF Top
    <2>2. QED
      BY <2>1, EmptyTableOK, PushOK
  <1>4. symbol_define_function_name(vs, name) = us
    BY <1>3 DEF symbol_define_function_name, Top
  <1>5. \A n \in Names : u.store[n] # NULL => u.store[n].scope \in ScopesAt(Len(vs))
    <2>1. Len(ts) >= 1
      BY DEF StackOK
    <2>2. "FUNCTION" \in ScopesAt(Len(vs)) /\ s.scope = "FUNCTION"
      BY <1>1, <1>3, <2>1 DEF ScopesAt, MkSymbol
    <2> HIDE DEF s, u, vs
    <2>3. QED
      BY <2>2, <1>2, EmptyTableOK
  <1> HIDE DEF s, u, vs
  <1>6. /\ StackOK(us)
        /\ Len(us) = Len(vs)
        /\ \A i \in 1..Len(vs) : us[i] = IF i = Len(vs) THEN u ELSE vs[i]
    BY <1>2, <1>3, <1>5, ReplaceTopOK
  <1>7. \A i \in 1..Len(ts) : us[i] = ts[i]
    BY <1>1, <1>3, <1>6
  <1>8. StackOK(us) /\ \A i \in 1..Len(ts) : Extends(ts[i], us[i])
    <2> HIDE DEF us
    <2>1. QED
      BY <1>1, <1>6, <1>7, ExtendsReflexive
  <1>9. QED
    BY <1>4, <1>8 DEF GoodStep, new_enclosed_symbol_table, vs

(* Closing a table.                                                        *)
LEMMA LeaveScopeOK ==
  ASSUME NEW ts, StackOK(ts), Len(ts) > 1
  PROVE  GoodStep(ts, free_symbol_table(ts))
  <1>1. /\ ts \in Seq(Table) /\ Len(ts) \in Nat
        /\ \A i \in 1..Len(ts) : ts[i] \in Table
    BY StackFields DEF StackOK
  <1>2. QED
    BY <1>1, PopOK, ExtendsReflexive DEF GoodStep

(* The tables a compilation starts with are sound.                         *)
LEMMA InitOK == Init => IInv
  <1> SUFFICES ASSUME Init
               PROVE  IInv
    OBVIOUS
  <1> DEFINE g == GlobalTable
             A == [n \in Names |-> IF n \in Builtins
                                   THEN MkSymbol(n, "BUILTIN", Position[n])
                                   ELSE NULL]
  <1>1. g = [store |-> A, num_definitions |-> 0, free_symbols |-> <<>>]
    BY DEF GlobalTable, EmptyTable
  <1>2. \A n \in Builtins :
          /\ MkSymbol(n, "BUILTIN", Position[n]) \in Symbol
          /\ MkSymbol(n, "BUILTIN", Position[n]).name = n
          /\ MkSymbol(n, "BUILTIN", Position[n]).scope = "BUILTIN"
    <2>1. \A n \in Builtins : n \in Names /\ Position[n] \in Nat
      BY BuiltinsAssumption
    <2>2. "BUILTIN" \in Scopes
      BY DEF Scopes
    <2>3. TAKE n \in Builtins
    <2>4. QED
      BY <2>1, <2>2, MkSymbolType
  <1>3. A \in [Names -> Symbol \cup {NULL}]
        /\ \A n \in Names : A[n] # NULL => A[n].name = n /\ A[n].scope = "BUILTIN"
    BY <1>2
  <1> HIDE DEF g, A
  <1>4. /\ g \in Table /\ g.store = A
        /\ g.num_definitions = 0 /\ g.free_symbols = <<>>
        /\ Len(g.free_symbols) = 0
    BY <1>1, <1>3, EmptySeq DEF Table
  <1>5. TableOK(g)
    BY <1>3, <1>4 DEF TableOK, StoreSoundIn, HasSlot, CaptureOnceIn,
                      CapturesKnownIn, SlotsInjectiveIn
  <1>6. /\ tables = <<g>> /\ tables \in Seq(Table) /\ Len(tables) = 1
        /\ tables[1] = g
    BY <1>4 DEF Init, g
  <1>7. ScopesSound(tables)
    BY <1>3, <1>4, <1>6 DEF ScopesSound, ScopesAt
  <1>8. ChainSound(tables)
    BY <1>6 DEF ChainSound
  <1>9. QED
    BY <1>5, <1>6, <1>7, <1>8 DEF IInv, StackOK, Init

(* Every step keeps the invariant, and keeps what open tables gave out.    *)
LEMMA StepOK ==
  ASSUME IInv, [Next]_vars
  PROVE  IInv' /\ GoodStep(tables, tables')
  <1> USE DEF IInv
  <1>1. ASSUME NEW name \in Names, Define(name)
        PROVE  IInv' /\ GoodStep(tables, tables')
    BY <1>1, SymbolDefineOK DEF Define, GoodStep
  <1>2. ASSUME NEW name \in Names, Resolve(name)
        PROVE  IInv' /\ GoodStep(tables, tables')
    <2>1. /\ tables' = TablesAfterResolve(tables, name)
          /\ resolved' = symbol_resolve(tables, name)
      BY <1>2 DEF Resolve
    <2>2. QED
      BY <2>1, ResolveOK DEF GoodStep
  <1>3. ASSUME NEW name \in Names, EnterFunction(name)
        PROVE  IInv' /\ GoodStep(tables, tables')
    BY <1>3, EnterFunctionOK DEF EnterFunction, GoodStep
  <1>4. ASSUME EnterScope
        PROVE  IInv' /\ GoodStep(tables, tables')
    BY <1>4, EnterScopeOK DEF EnterScope, GoodStep
  <1>5. ASSUME LeaveScope
        PROVE  IInv' /\ GoodStep(tables, tables')
    BY <1>5, LeaveScopeOK DEF LeaveScope, GoodStep
  <1>6. CASE UNCHANGED vars
    <2>1. tables' = tables /\ resolved' = resolved
      BY <1>6 DEF vars
    <2>2. \A i \in 1..Len(tables) : tables[i] \in Table
      BY StackFields DEF StackOK
    <2>3. GoodStep(tables, tables')
      BY <2>1, <2>2, ExtendsReflexive DEF GoodStep
    <2>4. QED
      BY <2>1, <2>3 DEF GoodStep
  <1>7. QED
    BY <1>1, <1>2, <1>3, <1>4, <1>5, <1>6 DEF Next

(* The inductive invariant holds in every reachable state.                 *)
THEOREM Invariance == Spec => []IInv
  <1>1. IInv /\ [Next]_vars => IInv'
    BY StepOK
  <1>2. QED
    BY InitOK, <1>1, PTL DEF Spec

(* The tables and lookup results always have their types, and the global   *)
(* table is never closed.                                                  *)
THEOREM TypeCorrect == Spec => []TypeOK
  <1>1. IInv => TypeOK
    BY DEF IInv, StackOK, TypeOK
  <1>2. QED
    BY Invariance, <1>1, PTL

(* Whatever a table's map holds can be emitted as an operand: the slot or  *)
(* the capture behind it exists.                                           *)
THEOREM StoreIsSound == Spec => []StoreSound
  <1>1. IInv => StoreSound
    BY DEF IInv, StackOK, TableOK, StoreSound
  <1>2. QED
    BY Invariance, <1>1, PTL

(* Every captured variable is one the enclosing function can load, at      *)
(* every nesting depth.                                                    *)
THEOREM CaptureChainHolds == Spec => []CaptureChain
  <1>1. IInv => CaptureChain
    BY DEF IInv, StackOK, CaptureChain
  <1>2. QED
    BY Invariance, <1>1, PTL

(* No function captures a name twice.                                      *)
THEOREM CapturesAreDistinct == Spec => []CaptureOnce
  <1>1. IInv => CaptureOnce
    BY DEF IInv, StackOK, TableOK, CaptureOnce
  <1>2. QED
    BY Invariance, <1>1, PTL

(* Distinct names of one function never share a slot.                      *)
THEOREM SlotsAreDistinct == Spec => []SlotsInjective
  <1>1. IInv => SlotsInjective
    BY DEF IInv, StackOK, TableOK, SlotsInjective
  <1>2. QED
    BY Invariance, <1>1, PTL

(* An open table never takes back a slot or a capture.                     *)
THEOREM SlotsAreKept == Spec => SlotsKept
  <1>1. IInv /\ [Next]_vars
          => [\A i \in 1..Len(tables) :
                i \in 1..Len(tables') => Extends(tables[i], tables'[i])]_vars
    BY StepOK DEF GoodStep
  <1>2. QED
    BY Invariance, <1>1, PTL DEF Spec, SlotsKept

(* The capture list of a function is never longer than the number of       *)
(* distinct names of the program: the 100 entries of free_symbols suffice  *)
(* for every program with at most 100 names, at any nesting depth.         *)
CaptureBound ==
  \A i \in 1..Len(tables) :
    Len(tables[i].free_symbols) <= Cardinality(Names)

LEMMA CaptureCount ==
  ASSUME IsFiniteSet(Names), NEW ts, StackOK(ts), NEW i \in 1..Len(ts)
  PROVE  Len(ts[i].free_symbols) <= Cardinality(Names)
  <1> DEFINE F == ts[i].free_symbols
             f == [k \in 1..Len(F) |-> F[k].name]
  <1>1. ts[i] \in Table /\ CaptureOnceIn(ts[i])
    BY StackFields DEF StackOK, TableOK
  <1>2. Len(F) \in Nat /\ \A k \in 1..Len(F) : F[k].name \in Names
    BY <1>1, TableFields DEF Symbol
  <1>3. f \in Injection(1..Len(F), Names)
    BY <1>1, <1>2 DEF CaptureOnceIn, Injection, IsInjective
  <1>4. Cardinality(1..Len(F)) = Len(F)
    <2>1. PICK n \in Nat : n = Len(F)
      BY <1>2
    <2>2. 1 \in Int /\ n \in Int
      OBVIOUS
    <2>3. Cardinality(1..n) = IF 1 > n THEN 0 ELSE n - 1 + 1
      BY <2>2, FS_Interval
    <2>4. QED
      BY <2>1, <2>3
  <1>5. QED
    BY <1>3, <1>4, FS_Injection

(* Every reachable table keeps that bound (symbol_table.c:23-27).          *)
THEOREM CapturesAreBounded ==
  ASSUME IsFiniteSet(Names)
  PROVE  Spec => []CaptureBound
  <1>1. IInv => CaptureBound
    BY CaptureCount DEF IInv, CaptureBound
  <1>2. QED
    BY Invariance, <1>1, PTL

----------------------------------------------------------------------------
(* The refinement of LexicalScope.  The abstract state is computed from    *)
(* the tables by following captures outwards (Meaning, Visible), so the    *)
(* lemmas come in three groups: what that recursion computes; that tables  *)
(* which only gain slots and captures keep every meaning; and what each    *)
(* operation of symbol_table.c does to the meanings.  Facts about every    *)
(* table of the stack are proved by the least table they fail for.         *)

(* Meaning's body.                                                         *)
MeaningAt(ts, f, i) ==
  [symbol \in Symbol |->
     IF Captured(ts, i, symbol)
     THEN f[i - 1][ts[i].free_symbols[symbol.index + 1]]
     ELSE [level |-> IF Capturable(symbol) THEN i ELSE 1,
           scope |-> symbol.scope,
           index |-> symbol.index]]

IsMeaning(ts, f) == f = [i \in 1..Len(ts) |-> MeaningAt(ts, f, i)]

(* A recursive function is chosen among the solutions of its equation.     *)
LEMMA MeaningChosen ==
  ASSUME NEW ts
  PROVE  Meaning(ts) = CHOOSE f : IsMeaning(ts, f)
  BY DEF Meaning, IsMeaning, MeaningAt

(* Every set of numbers that is not empty has a least element.             *)
LEMMA Least ==
  ASSUME NEW T \in SUBSET Nat, T # {}
  PROVE  \E m \in T : \A k \in T : m <= k
  <1>. DEFINE R == OpToRel(<, Nat)
  <1>1. IsWellFoundedOn(R, Nat) BY NatLessThanWellFounded
  <1>. HIDE DEF R
  <1>2. PICK m \in T : \A k \in T : ~(<<k, m>> \in R) BY <1>1, WFMin
  <1>3. \A k \in T : ~(k < m) BY <1>2 DEF R, OpToRel
  <1>. QED BY <1>3

(* What MeaningAt says of table i depends on what f says of table i - 1.   *)
LEMMA MeaningIsLocal ==
  ASSUME NEW ts, NEW f, NEW g, NEW i \in Nat,
         i > 1 => f[i - 1] = g[i - 1]
  PROVE  MeaningAt(ts, f, i) = MeaningAt(ts, g, i)
  BY DEF MeaningAt, Captured

(* Up to any table the equation of Meaning has a solution: the solution up *)
(* to the table before it, and one more value.                             *)
LEMMA MeaningExists ==
  ASSUME NEW ts, NEW n \in Nat
  PROVE  \E f : f = [i \in 1..n |-> MeaningAt(ts, f, i)]
  <1> DEFINE Bad == {m \in Nat : ~\E f : f = [i \in 1..m |-> MeaningAt(ts, f, i)]}
  <1>1. SUFFICES ASSUME Bad # {}
                 PROVE  FALSE
    OBVIOUS
  <1>2. PICK m \in Bad : \A k \in Bad : m <= k
    BY <1>1, Least
  <1>3. m # 0
    <2>1. <<>> = [i \in 1..0 |-> MeaningAt(ts, <<>>, i)]
      OBVIOUS
    <2>. QED
      BY <2>1
  <1>4. m - 1 \in Nat /\ m - 1 \notin Bad
    BY <1>2, <1>3
  <1>5. PICK f : f = [i \in 1..m - 1 |-> MeaningAt(ts, f, i)]
    BY <1>4
  <1> DEFINE g == [i \in 1..m |-> IF i = m THEN MeaningAt(ts, f, m) ELSE f[i]]
  <1>6. ASSUME NEW i \in 1..m
        PROVE  g[i] = MeaningAt(ts, g, i)
    <2>1. i > 1 => i - 1 \in 1..m /\ i - 1 # m
      BY <1>4
    <2>2. i > 1 => g[i - 1] = f[i - 1]
      BY <2>1
    <2>3. MeaningAt(ts, g, i) = MeaningAt(ts, f, i)
      <3> HIDE DEF g
      <3>. QED
        BY <2>2, MeaningIsLocal
    <2>4. i # m => f[i] = MeaningAt(ts, f, i)
      <3>1. i # m => i \in 1..m - 1
        BY <1>4
      <3>. QED
        BY <3>1, <1>5
    <2>. QED
      BY <2>3, <2>4
  <1>7. g = [i \in 1..m |-> MeaningAt(ts, g, i)]
    <2>1. g = [i \in 1..m |-> g[i]]
      OBVIOUS
    <2> HIDE DEF g
    <2>. QED
      BY <2>1, <1>6
  <1>. QED
    BY <1>2, <1>7

(* Meaning is a solution of its equation.                                  *)
LEMMA MeaningUnfolds ==
  ASSUME NEW ts, Len(ts) \in Nat
  PROVE  Meaning(ts) = [i \in 1..Len(ts) |-> MeaningAt(ts, Meaning(ts), i)]
  <1>1. \E f : IsMeaning(ts, f)
    BY MeaningExists DEF IsMeaning
  <1>2. IsMeaning(ts, Meaning(ts))
    BY <1>1, MeaningChosen
  <1>. QED
    BY <1>2 DEF IsMeaning

Own(i, symbol) ==
  [level |-> IF Capturable(symbol) THEN i ELSE 1,
   scope |-> symbol.scope,
   index |-> symbol.index]

(* What a symbol stands for: what the symbol captured for it stands for in *)
(* the enclosing table, or itself.                                         *)
LEMMA MeaningOf ==
  ASSUME NEW ts \in Seq(Table), NEW i \in 1..Len(ts), NEW s \in Symbol
  PROVE  /\ Captured(ts, i, s)
              => Meaning(ts)[i][s]
                   = Meaning(ts)[i - 1][ts[i].free_symbols[s.index + 1]]
         /\ ~Captured(ts, i, s) => Meaning(ts)[i][s] = Own(i, s)
  <1>1. Len(ts) \in Nat
    BY StackFields
  <1>2. Meaning(ts)[i] = MeaningAt(ts, Meaning(ts), i)
    BY <1>1, MeaningUnfolds
  <1>. QED
    BY <1>2 DEF MeaningAt, Own

(* Tables up to the n-th that only gain slots and captures.                *)
Grown(ts, us, n) ==
  /\ n \in 0..Len(ts) /\ n \in 0..Len(us)
  /\ \A i \in 1..n : Extends(ts[i], us[i])

(* A symbol a table has keeps its meaning in tables that have only gained  *)
(* slots and captures, however many lookups and definitions there were.    *)
LEMMA MeaningKept ==
  ASSUME NEW ts, StackOK(ts), NEW us, StackOK(us),
         NEW n, Grown(ts, us, n), NEW i \in 1..n,
         NEW s \in Symbol, HasSlot(ts[i], s)
  PROVE  Meaning(us)[i][s] = Meaning(ts)[i][s]
  <1>0. /\ ts \in Seq(Table) /\ Len(ts) \in Nat
        /\ us \in Seq(Table) /\ Len(us) \in Nat
        /\ \A j \in 1..Len(ts) : ts[j] \in Table
        /\ \A j \in 1..Len(us) : us[j] \in Table
    BY StackFields DEF StackOK
  <1>n. n \in Nat /\ n <= Len(ts) /\ n <= Len(us)
    BY <1>0 DEF Grown
  <1> DEFINE Bad == {j \in 1..n : \E c \in Symbol :
                       HasSlot(ts[j], c) /\ Meaning(us)[j][c] # Meaning(ts)[j][c]}
  <1>1. SUFFICES ASSUME Bad # {}
                 PROVE  FALSE
    OBVIOUS
  <1>2. Bad \in SUBSET Nat
    BY <1>n
  <1> HIDE DEF Bad
  <1>3. PICK m \in Bad : \A k \in Bad : m <= k
    BY <1>1, <1>2, Least
  <1>4. m \in 1..n /\ m \in 1..Len(ts) /\ m \in 1..Len(us)
    BY <1>n DEF Bad
  <1>5. PICK c \in Symbol : HasSlot(ts[m], c) /\ Meaning(us)[m][c] # Meaning(ts)[m][c]
    BY DEF Bad
  <1>6. /\ Extends(ts[m], us[m])
        /\ c.index \in Nat
        /\ Len(ts[m].free_symbols) \in Nat /\ Len(us[m].free_symbols) \in Nat
    BY <1>0, <1>4, TableFields DEF Grown, Symbol
  <1>7. Captured(ts, m, c) <=> c.scope = "FREE" /\ m > 1
    BY <1>5 DEF HasSlot, Captured
  <1>8. Captured(us, m, c) <=> c.scope = "FREE" /\ m > 1
    BY <1>5, <1>6 DEF HasSlot, Captured, Extends
  <1>9. CASE Captured(ts, m, c)
    <2>1. /\ c.index + 1 \in 1..Len(ts[m].free_symbols)
          /\ m \in 2..Len(ts)
      BY <1>9, <1>4, <1>6 DEF Captured
    <2>2. PICK d \in Symbol : d = ts[m].free_symbols[c.index + 1]
      BY <2>1, <1>0, <1>4, TableFields
    <2>3. us[m].free_symbols[c.index + 1] = d
      BY <2>1, <2>2, <1>6 DEF Extends
    <2>4. HasSlot(ts[m - 1], d)
      BY <2>1, <2>2 DEF StackOK, ChainSound
    <2>5. /\ Meaning(ts)[m][c] = Meaning(ts)[m - 1][d]
          /\ Meaning(us)[m][c] = Meaning(us)[m - 1][d]
      BY <1>0, <1>4, <1>7, <1>8, <1>9, <2>2, <2>3, MeaningOf
    <2>6. m - 1 \in 1..n /\ ~(m <= m - 1)
      BY <2>1, <1>4, <1>n
    <2>7. m - 1 \notin Bad
      BY <2>6, <1>3
    <2>. QED
      BY <2>4, <2>5, <2>6, <2>7, <1>5 DEF Bad
  <1>10. CASE ~Captured(ts, m, c)
    BY <1>0, <1>4, <1>5, <1>7, <1>8, <1>10, MeaningOf
  <1>. QED
    BY <1>9, <1>10

(* The innermost table that knows the name decides.                        *)
LEMMA VisibleAt ==
  ASSUME NEW ts \in Seq(Table), NEW i \in 1..Len(ts), NEW name \in Names,
         NEW k \in 1..i, ts[k].store[name] # NULL,
         \A j \in 1..i : j > k => ts[j].store[name] = NULL
  PROVE  Visible(ts, i, name) = Meaning(ts)[k][ts[k].store[name]]
  <1> DEFINE known == {j \in 1..i : ts[j].store[name] # NULL}
             last == CHOOSE j \in known : \A l \in known : l <= j
  <1>0. i \in Nat /\ k \in Nat
    BY StackFields
  <1>1. k \in known /\ \A l \in known : l <= k
    BY <1>0
  <1>2. known \subseteq Nat
    BY <1>0
  <1>3. Visible(ts, i, name) = IF known = {} THEN NULL ELSE Meaning(ts)[last][ts[last].store[name]]
    BY DEF Visible
  <1> HIDE DEF known
  <1>4. last = k
    <2>1. last \in known /\ \A l \in known : l <= last
      BY <1>1
    <2> HIDE DEF last
    <2>. QED
      BY <2>1, <1>1, <1>2
  <1> HIDE DEF last
  <1>. QED
    BY <1>1, <1>3, <1>4

(* A name no table knows means nothing.                                    *)
LEMMA VisibleNowhere ==
  ASSUME NEW ts, NEW i, NEW name,
         \A j \in 1..i : ts[j].store[name] = NULL
  PROVE  Visible(ts, i, name) = NULL
  BY DEF Visible

(* Visible, as an operator on the set of tables that know the name.        *)
MeaningIn(ts, name, known) ==
  LET k == CHOOSE j \in known : \A l \in known : l <= j
  IN  IF known = {} THEN NULL ELSE Meaning(ts)[k][ts[k].store[name]]

(* A name the table itself does not know means what it means around it.    *)
LEMMA VisibleOutside ==
  ASSUME NEW ts, NEW i \in Nat, i >= 1, NEW name,
         ts[i].store[name] = NULL
  PROVE  Visible(ts, i, name) = Visible(ts, i - 1, name)
  <1>1. {j \in 1..i : ts[j].store[name] # NULL}
          = {j \in 1..i - 1 : ts[j].store[name] # NULL}
    <2>1. \A j : j \in 1..i <=> j \in 1..i - 1 \/ j = i
      OBVIOUS
    <2>. QED
      BY <2>1
  <1> DEFINE K(j) == {l \in 1..j : ts[l].store[name] # NULL}
  <1>2. /\ Visible(ts, i, name) = MeaningIn(ts, name, K(i))
        /\ Visible(ts, i - 1, name) = MeaningIn(ts, name, K(i - 1))
    BY DEF Visible, MeaningIn
  <1>3. K(i) = K(i - 1)
    BY <1>1
  <1> HIDE DEF K
  <1>. QED
    BY <1>2, <1>3

(* A name the table itself knows means what its symbol stands for.         *)
LEMMA VisibleHere ==
  ASSUME NEW ts \in Seq(Table), NEW i \in 1..Len(ts), NEW name \in Names,
         ts[i].store[name] # NULL
  PROVE  Visible(ts, i, name) = Meaning(ts)[i][ts[i].store[name]]
  <1>1. i \in Nat /\ i \in 1..i /\ \A j \in 1..i : ~(j > i)
    BY StackFields
  <1>. QED
    BY <1>1, VisibleAt

(* A name no table up to the n-th binds anew keeps its meaning.            *)
LEMMA VisibleKept ==
  ASSUME NEW ts, StackOK(ts), NEW us, StackOK(us),
         NEW n, Grown(ts, us, n), NEW name \in Names,
         \A j \in 1..n : us[j].store[name] = ts[j].store[name],
         NEW i \in 1..n
  PROVE  Visible(us, i, name) = Visible(ts, i, name)
  <1>0. /\ ts \in Seq(Table) /\ Len(ts) \in Nat
        /\ us \in Seq(Table) /\ Len(us) \in Nat
        /\ \A j \in 1..Len(ts) : ts[j] \in Table /\ StoreSoundIn(ts[j])
    BY StackFields DEF StackOK, TableOK
  <1>n. n \in Nat /\ n <= Len(ts) /\ n <= Len(us)
    BY <1>0 DEF Grown
  <1> DEFINE Bad == {j \in 1..n : Visible(us, j, name) # Visible(ts, j, name)}
  <1>1. SUFFICES ASSUME Bad # {}
                 PROVE  FALSE
    OBVIOUS
  <1>2. Bad \in SUBSET Nat
    BY <1>n
  <1> HIDE DEF Bad
  <1>3. PICK m \in Bad : \A k \in Bad : m <= k
    BY <1>1, <1>2, Least
  <1>4. /\ m \in 1..n /\ m \in 1..Len(ts) /\ m \in 1..Len(us)
        /\ Visible(us, m, name) # Visible(ts, m, name)
    BY <1>n DEF Bad
  <1>5. CASE ts[m].store[name] # NULL
    <2>1. PICK s \in Symbol : s = ts[m].store[name] /\ HasSlot(ts[m], s)
      BY <1>0, <1>4, <1>5, TableFields DEF StoreSoundIn
    <2>2. Meaning(us)[m][s] = Meaning(ts)[m][s]
      BY <2>1, <1>4, MeaningKept
    <2>3. /\ Visible(ts, m, name) = Meaning(ts)[m][s]
          /\ Visible(us, m, name) = Meaning(us)[m][s]
      BY <1>0, <1>4, <1>5, <2>1, VisibleHere
    <2>. QED
      BY <1>4, <2>2, <2>3
  <1>6. CASE ts[m].store[name] = NULL
    <2>1. /\ Visible(ts, m, name) = Visible(ts, m - 1, name)
          /\ Visible(us, m, name) = Visible(us, m - 1, name)
      BY <1>4, <1>6, <1>n, VisibleOutside
    <2>2. CASE m = 1
      <3>1. \A j \in 1..m - 1 : FALSE
        BY <2>2
      <3>. QED
        BY <3>1, <2>1, <1>4, VisibleNowhere
    <2>3. CASE m # 1
      <3>1. m - 1 \in 1..n /\ ~(m <= m - 1)
        BY <2>3, <1>4, <1>n
      <3>. QED
        BY <3>1, <1>3, <1>4, <2>1 DEF Bad
    <2>. QED
      BY <2>2, <2>3
  <1>. QED
    BY <1>5, <1>6

----------------------------------------------------------------------------
(* What each operation does to what the tables stand for                   *)

EnvOf(ts)       == [i \in 1..Len(ts) |-> [n \in Names |-> Visible(ts, i, n)]]
DefsOf(ts)      == [i \in 1..Len(ts) |-> ts[i].num_definitions]
AnswerOf(ts, s) == IF s = NULL THEN NULL ELSE Meaning(ts)[Len(ts)][s]

(* The abstract state has a level for each table.                          *)
LEMMA LengthsKept ==
  ASSUME NEW ts, Len(ts) \in Nat
  PROVE  Len(EnvOf(ts)) = Len(ts) /\ Len(DefsOf(ts)) = Len(ts)
  BY DEF EnvOf, DefsOf

(* What symbol_define does to each table.                                  *)
LEMMA DefineShape ==
  ASSUME NEW ts, StackOK(ts), NEW name \in Names
  PROVE  LET us == symbol_define(ts, name)
             s  == Defined(ts, name)
         IN  /\ Len(us) = Len(ts)
             /\ \A i \in 1..Len(ts) : i # Len(ts) => us[i] = ts[i]
             /\ us[Len(ts)].store = [ts[Len(ts)].store EXCEPT ![name] = s]
             /\ us[Len(ts)].num_definitions = ts[Len(ts)].num_definitions + 1
             /\ s \in Symbol
  <1> DEFINE L == Len(ts)
             t == Top(ts)
             c == IF Len(ts) = 1 THEN "GLOBAL" ELSE "LOCAL"
             s == MkSymbol(name, c, t.num_definitions)
             u == [Put(t, s) EXCEPT !.num_definitions = @ + 1]
  <1>1. /\ ts \in Seq(Table) /\ L \in Nat /\ L \in 1..L
        /\ t \in Table /\ TableOK(t) /\ t = ts[L]
    BY StackFields DEF StackOK, Top
  <1>2. Defined(ts, name) = s
    BY DEF Defined
  <1>3. symbol_define(ts, name) = [ts EXCEPT ![L] = u]
    BY <1>2 DEF symbol_define
  <1>4. c \in {"GLOBAL", "LOCAL"}
    OBVIOUS
  <1>5. /\ u \in Table /\ s \in Symbol
        /\ u.store = [t.store EXCEPT ![name] = s]
        /\ u.num_definitions = t.num_definitions + 1
    <2> HIDE DEF t, c
    <2>1. /\ t \in Table /\ TableOK(t)
          /\ c \in {"GLOBAL", "LOCAL"}
      BY <1>1, <1>4
    <2>. QED
      BY <2>1, DefineOK
  <1> HIDE DEF u, s, c, t
  <1>6. /\ Len([ts EXCEPT ![L] = u]) = L
        /\ \A i \in 1..L : [ts EXCEPT ![L] = u][i] = IF i = L THEN u ELSE ts[i]
    BY <1>1, <1>5, ExceptSeq
  <1>. QED
    BY <1>1, <1>2, <1>3, <1>5, <1>6

(* symbol_define binds the name at the current level and nowhere else.     *)
LEMMA DefineImplements ==
  ASSUME NEW ts, StackOK(ts), NEW name \in Names
  PROVE  LET us == symbol_define(ts, name)
             L  == Len(ts)
         IN  /\ EnvOf(us) = [EnvOf(ts) EXCEPT ![L][name] =
                               Lexical!Definition(L, IF L = 1 THEN "GLOBAL" ELSE "LOCAL",
                                                  DefsOf(ts)[L])]
             /\ DefsOf(us) = [DefsOf(ts) EXCEPT ![L] = @ + 1]
  <1> DEFINE us == symbol_define(ts, name)
             L  == Len(ts)
             s  == Defined(ts, name)
             d  == Lexical!Definition(L, IF L = 1 THEN "GLOBAL" ELSE "LOCAL",
                                      DefsOf(ts)[L])
  <1>1. /\ ts \in Seq(Table) /\ L \in Nat /\ L \in 1..L /\ L >= 1
        /\ \A i \in 1..L : ts[i] \in Table
    BY StackFields DEF StackOK
  <1>2. /\ StackOK(us) /\ us \in Seq(Table)
        /\ \A i \in 1..L : i \in 1..Len(us) => Extends(ts[i], us[i])
    BY SymbolDefineOK DEF GoodStep, StackOK
  <1>3. /\ Len(us) = L
        /\ \A i \in 1..L : i # L => us[i] = ts[i]
        /\ us[L].store = [ts[L].store EXCEPT ![name] = s]
        /\ us[L].num_definitions = ts[L].num_definitions + 1
        /\ s \in Symbol
    BY DefineShape
  <1>4. s.scope = (IF L = 1 THEN "GLOBAL" ELSE "LOCAL")
        /\ s.index = ts[L].num_definitions
    BY DEF Defined, MkSymbol, Top
  <1>5. DefsOf(ts)[L] = ts[L].num_definitions
    BY <1>1 DEF DefsOf
  <1> HIDE DEF us, L, s
  <1>6. Grown(ts, us, L)
    BY <1>1, <1>2, <1>3 DEF Grown, L
  <1>7. \A n \in Names : us[L].store[n] = IF n = name THEN s ELSE ts[L].store[n]
    BY <1>1, <1>3, TableFields
  <1>8. ASSUME NEW i \in 1..L, NEW n \in Names, i # L \/ n # name
        PROVE  Visible(us, i, n) = Visible(ts, i, n)
    <2>1. CASE n # name
      <3>1. \A j \in 1..L : us[j].store[n] = ts[j].store[n]
        BY <1>3, <1>7, <2>1
      <3>. QED
        BY <3>1, <1>2, <1>6, VisibleKept
    <2>2. CASE i # L
      <3>1. i \in 1..L - 1 /\ L - 1 \in Nat
        BY <2>2, <1>1
      <3>2. Grown(ts, us, L - 1)
        BY <3>1, <1>6, <1>1 DEF Grown
      <3>3. \A j \in 1..L - 1 : us[j].store[n] = ts[j].store[n]
        BY <1>1, <1>3
      <3>. QED
        BY <3>1, <3>2, <3>3, <1>2, VisibleKept
    <2>. QED
      BY <2>1, <2>2, <1>8
  <1>9. Visible(us, L, name) = d
    <2>1. us[L].store[name] = s /\ s # NULL /\ L \in 1..Len(us)
      BY <1>1, <1>3, <1>7, NullAssumption
    <2>2. Visible(us, L, name) = Meaning(us)[L][s]
      BY <2>1, <1>2, VisibleHere
    <2>3. ~Captured(us, L, s)
      BY <1>4 DEF Captured
    <2>4. Meaning(us)[L][s] = Own(L, s)
      BY <2>3, <1>1, <1>2, <1>3, MeaningOf
    <2>5. Own(L, s) = [level |-> L, scope |-> IF L = 1 THEN "GLOBAL" ELSE "LOCAL",
                       index |-> ts[L].num_definitions]
      BY <1>1, <1>4 DEF Own, Capturable
    <2>. QED
      BY <2>2, <2>4, <2>5, <1>5 DEF Lexical!Definition
  <1> HIDE DEF d
  <1>10. EnvOf(us) = [EnvOf(ts) EXCEPT ![L][name] = d]
    <2>1. /\ EnvOf(ts) = [i \in 1..L |-> [n \in Names |-> Visible(ts, i, n)]]
          /\ EnvOf(us) = [i \in 1..L |-> [n \in Names |-> Visible(us, i, n)]]
      BY <1>3 DEF EnvOf, L
    <2>2. ASSUME NEW i \in 1..L, i # L
          PROVE  EnvOf(us)[i] = EnvOf(ts)[i]
      BY <2>1, <2>2, <1>8
    <2>3. EnvOf(us)[L] = [EnvOf(ts)[L] EXCEPT ![name] = d]
      <3>1. /\ EnvOf(us)[L] = [n \in Names |-> Visible(us, L, n)]
            /\ EnvOf(ts)[L] = [n \in Names |-> Visible(ts, L, n)]
        BY <2>1, <1>1
      <3>2. \A n \in Names : Visible(us, L, n) = IF n = name THEN d ELSE Visible(ts, L, n)
        BY <1>1, <1>8, <1>9
      <3>. QED
        BY <3>1, <3>2
    <2>4. [EnvOf(ts) EXCEPT ![L][name] = d]
            = [i \in 1..L |-> IF i = L THEN [EnvOf(ts)[L] EXCEPT ![name] = d]
                                        ELSE EnvOf(ts)[i]]
      BY <2>1
    <2>5. EnvOf(us) = [i \in 1..L |-> EnvOf(us)[i]]
      BY <2>1
    <2>. QED
      BY <2>2, <2>3, <2>4, <2>5
  <1>11. DefsOf(us) = [DefsOf(ts) EXCEPT ![L] = @ + 1]
    BY <1>1, <1>3 DEF DefsOf, L
  <1>. QED
    BY <1>10, <1>11 DEF us, d, L

(* Append, as a function.                                                  *)
LEMMA AppendIs ==
  ASSUME NEW n \in Nat, NEW f, f = [i \in 1..n |-> f[i]], NEW e
  PROVE  Append(f, e) = [i \in 1..n + 1 |-> IF i = n + 1 THEN e ELSE f[i]]
  <1> DEFINE S == {f[i] : i \in 1..n} \cup {e}
             a == Append(f, e)
  <1>1. f \in [1..n -> S]
    BY Zenon
  <1>2. f \in Seq(S) /\ e \in S /\ Len(f) = n
    BY <1>1
  <1> HIDE DEF S
  <1>3. /\ a \in Seq(S) /\ Len(a) = Len(f) + 1
        /\ \A i \in 1..Len(f) : a[i] = f[i]
        /\ a[Len(f) + 1] = e
    BY <1>2, AppendProperties
  <1>4. a = [i \in 1..n + 1 |-> a[i]]
    BY <1>2, <1>3
  <1> HIDE DEF a
  <1>5. \A i \in 1..n + 1 : a[i] = IF i = n + 1 THEN e ELSE f[i]
    BY <1>2, <1>3
  <1>6. a = [i \in 1..n + 1 |-> IF i = n + 1 THEN e ELSE f[i]]
    BY <1>4, <1>5
  <1>. QED
    BY <1>6 DEF a

(* A prefix, as a function.                                                *)
LEMMA CutIs ==
  ASSUME NEW n \in Nat, NEW f, f = [i \in 1..n |-> f[i]], NEW m \in 0..n
  PROVE  SubSeq(f, 1, m) = [i \in 1..m |-> f[i]]
  <1> DEFINE S == {f[i] : i \in 1..n}
             a == SubSeq(f, 1, m)
  <1>1. f \in [1..n -> S]
    BY Zenon
  <1>2. f \in Seq(S) /\ Len(f) = n
    BY <1>1
  <1>3. \A i \in 1..m : f[i] \in S
    OBVIOUS
  <1> HIDE DEF S
  <1>4. /\ a \in Seq(S) /\ Len(a) = m
        /\ \A i \in 1..m : a[i] = f[i]
    BY <1>2, <1>3, SubSeqProperties
  <1>5. a = [i \in 1..m |-> a[i]]
    BY <1>4
  <1> HIDE DEF a
  <1>6. a = [i \in 1..m |-> f[i]]
    BY <1>4, <1>5
  <1>. QED
    BY <1>6 DEF a

(* A new table starts with the meanings of the table around it, but for    *)
(* the function it is the body of.                                         *)
LEMMA OpenImplements ==
  ASSUME NEW ts, StackOK(ts), NEW us, StackOK(us),
         Len(us) = Len(ts) + 1,
         \A i \in 1..Len(ts) : us[i] = ts[i],
         us[Len(ts) + 1].num_definitions = 0,
         NEW own \in SUBSET Names,
         \A n \in Names : us[Len(ts) + 1].store[n]
                              = IF n \in own THEN MkSymbol(n, "FUNCTION", 0) ELSE NULL
  PROVE  /\ EnvOf(us) = Append(EnvOf(ts),
                               [n \in Names |->
                                  IF n \in own
                                  THEN Lexical!Definition(Len(ts) + 1, "FUNCTION", 0)
                                  ELSE EnvOf(ts)[Len(ts)][n]])
         /\ DefsOf(us) = Append(DefsOf(ts), 0)
  <1> DEFINE L == Len(ts)
             e == [n \in Names |-> IF n \in own
                                   THEN Lexical!Definition(L + 1, "FUNCTION", 0)
                                   ELSE EnvOf(ts)[L][n]]
  <1>1. /\ ts \in Seq(Table) /\ us \in Seq(Table)
        /\ L \in Nat /\ L >= 1 /\ L \in 1..L
        /\ \A i \in 1..L : ts[i] \in Table /\ Extends(ts[i], ts[i])
    BY StackFields, ExtendsReflexive DEF StackOK
  <1> HIDE DEF L
  <1>2. Len(us) = L + 1 /\ \A i \in 1..L : us[i] = ts[i]
    BY DEF L
  <1>3. Grown(ts, us, L)
    BY <1>1, <1>2 DEF Grown, L
  <1>4. ASSUME NEW i \in 1..L, NEW n \in Names
        PROVE  Visible(us, i, n) = Visible(ts, i, n)
    BY <1>2, <1>3, VisibleKept
  <1>5. ASSUME NEW n \in Names
        PROVE  Visible(us, L + 1, n) = e[n]
    <2>1. us[L + 1].store[n] = IF n \in own THEN MkSymbol(n, "FUNCTION", 0) ELSE NULL
      BY <1>2
    <2>2. L + 1 \in 1..Len(us) /\ L + 1 \in Nat /\ L + 1 >= 1 /\ L + 1 - 1 = L
      BY <1>1, <1>2
    <2>3. CASE n \in own
      <3>1. PICK s \in Symbol : /\ s = MkSymbol(n, "FUNCTION", 0) /\ s # NULL
                                /\ s.scope = "FUNCTION" /\ s.index = 0
        BY MkSymbolType DEF Scopes
      <3>2. us[L + 1].store[n] = s
        BY <2>1, <2>3, <3>1
      <3>3. Visible(us, L + 1, n) = Meaning(us)[L + 1][s]
        BY <3>1, <3>2, <2>2, <1>1, VisibleHere
      <3>4. ~Captured(us, L + 1, s)
        BY <3>1 DEF Captured
      <3>5. Meaning(us)[L + 1][s] = Own(L + 1, s)
        BY <3>4, <2>2, <1>1, MeaningOf
      <3>6. Own(L + 1, s) = [level |-> L + 1, scope |-> "FUNCTION", index |-> 0]
        BY <3>1 DEF Own, Capturable
      <3>. QED
        BY <2>3, <3>3, <3>5, <3>6 DEF Lexical!Definition
    <2>4. CASE n \notin own
      <3>1. us[L + 1].store[n] = NULL
        BY <2>1, <2>4
      <3>2. Visible(us, L + 1, n) = Visible(us, L, n)
        <4>1. Visible(us, L + 1, n) = Visible(us, (L + 1) - 1, n)
          BY <3>1, <2>2, VisibleOutside
        <4>2. (L + 1) - 1 = L
          BY <1>1
        <4>. QED
          BY <4>1, <4>2
      <3>3. Visible(us, L, n) = Visible(ts, L, n)
        BY <1>1, <1>4
      <3>4. EnvOf(ts)[L][n] = Visible(ts, L, n)
        BY <1>1 DEF EnvOf, L
      <3>. QED
        BY <2>4, <3>2, <3>3, <3>4
    <2>. QED
      BY <2>3, <2>4
  <1>6. e = [n \in Names |-> e[n]]
    OBVIOUS
  <1> HIDE DEF e
  <1>7. EnvOf(us) = Append(EnvOf(ts), e)
    <2>1. /\ EnvOf(ts) = [i \in 1..L |-> [n \in Names |-> Visible(ts, i, n)]]
          /\ EnvOf(us) = [i \in 1..L + 1 |-> [n \in Names |-> Visible(us, i, n)]]
      BY <1>2 DEF EnvOf, L
    <2>2. EnvOf(ts) = [i \in 1..L |-> EnvOf(ts)[i]]
      BY <2>1
    <2>3. Append(EnvOf(ts), e)
            = [i \in 1..L + 1 |-> IF i = L + 1 THEN e ELSE EnvOf(ts)[i]]
      BY <1>1, <2>2, AppendIs
    <2>4. EnvOf(us)[L + 1] = e
      <3>1. EnvOf(us)[L + 1] = [n \in Names |-> Visible(us, L + 1, n)]
        BY <2>1, <1>1
      <3>. QED
        BY <3>1, <1>5, <1>6
    <2>5. ASSUME NEW i \in 1..L
          PROVE  EnvOf(us)[i] = EnvOf(ts)[i]
      <3>1. i \in 1..L + 1
        BY <1>1
      <3>. QED
        BY <2>1, <1>4, <3>1
    <2>6. \A i \in 1..L + 1 : EnvOf(us)[i] = IF i = L + 1 THEN e ELSE EnvOf(ts)[i]
      <3>1. \A i \in 1..L + 1 : i = L + 1 \/ i \in 1..L
        BY <1>1
      <3>. QED
        BY <2>4, <2>5, <3>1
    <2>7. EnvOf(us) = [i \in 1..L + 1 |-> EnvOf(us)[i]]
      BY <2>1
    <2>. QED
      BY <2>3, <2>6, <2>7
  <1>8. DefsOf(us) = Append(DefsOf(ts), 0)
    <2>1. /\ DefsOf(ts) = [i \in 1..L |-> ts[i].num_definitions]
          /\ DefsOf(us) = [i \in 1..L + 1 |-> us[i].num_definitions]
      BY <1>2 DEF DefsOf, L
    <2>2. DefsOf(ts) = [i \in 1..L |-> DefsOf(ts)[i]]
      BY <2>1
    <2>3. Append(DefsOf(ts), 0)
            = [i \in 1..L + 1 |-> IF i = L + 1 THEN 0 ELSE DefsOf(ts)[i]]
      BY <1>1, <2>2, AppendIs
    <2>4. us[L + 1].num_definitions = 0
      BY <1>2
    <2>5. \A i \in 1..L + 1 : i = L + 1 \/ i \in 1..L
      BY <1>1
    <2>6. ASSUME NEW i \in 1..L + 1
          PROVE  DefsOf(us)[i] = IF i = L + 1 THEN 0 ELSE DefsOf(ts)[i]
      BY <2>1, <2>4, <2>5, <1>2
    <2>7. DefsOf(us) = [i \in 1..L + 1 |-> DefsOf(us)[i]]
      BY <2>1
    <2>. QED
      BY <2>3, <2>6, <2>7
  <1>. QED
    BY <1>7, <1>8 DEF e, L

(* Closing a table leaves the meanings of the others as they are.          *)
LEMMA CloseImplements ==
  ASSUME NEW ts, StackOK(ts), Len(ts) > 1
  PROVE  LET us == free_symbol_table(ts)
         IN  /\ EnvOf(us)  = SubSeq(EnvOf(ts), 1, Len(ts) - 1)
             /\ DefsOf(us) = SubSeq(DefsOf(ts), 1, Len(ts) - 1)
  <1> DEFINE L  == Len(ts)
             us == free_symbol_table(ts)
  <1>1. /\ ts \in Seq(Table) /\ L \in Nat /\ L - 1 \in 0..L
        /\ \A i \in 1..L : ts[i] \in Table /\ Extends(ts[i], ts[i])
    BY StackFields, ExtendsReflexive DEF StackOK
  <1>2. /\ StackOK(us) /\ Len(us) = L - 1
        /\ \A i \in 1..Len(us) : us[i] = ts[i]
    BY PopOK
  <1> HIDE DEF us, L
  <1>3. Grown(ts, us, L - 1)
    BY <1>1, <1>2 DEF Grown, L
  <1>4. ASSUME NEW i \in 1..L - 1, NEW n \in Names
        PROVE  Visible(us, i, n) = Visible(ts, i, n)
    BY <1>2, <1>3, VisibleKept
  <1>5. /\ EnvOf(ts) = [i \in 1..L |-> [n \in Names |-> Visible(ts, i, n)]]
        /\ EnvOf(us) = [i \in 1..L - 1 |-> [n \in Names |-> Visible(us, i, n)]]
        /\ DefsOf(ts) = [i \in 1..L |-> ts[i].num_definitions]
        /\ DefsOf(us) = [i \in 1..L - 1 |-> us[i].num_definitions]
    BY <1>2 DEF EnvOf, DefsOf, L
  <1>6. /\ EnvOf(ts) = [i \in 1..L |-> EnvOf(ts)[i]]
        /\ DefsOf(ts) = [i \in 1..L |-> DefsOf(ts)[i]]
    BY <1>5
  <1>7. /\ SubSeq(EnvOf(ts), 1, L - 1) = [i \in 1..L - 1 |-> EnvOf(ts)[i]]
        /\ SubSeq(DefsOf(ts), 1, L - 1) = [i \in 1..L - 1 |-> DefsOf(ts)[i]]
    BY <1>1, <1>6, CutIs
  <1>8. \A i \in 1..L - 1 : i \in 1..L /\ us[i] = ts[i]
    BY <1>1, <1>2
  <1>9. ASSUME NEW i \in 1..L - 1
        PROVE  EnvOf(us)[i] = EnvOf(ts)[i] /\ DefsOf(us)[i] = DefsOf(ts)[i]
    BY <1>4, <1>5, <1>8
  <1>10. /\ EnvOf(us) = [i \in 1..L - 1 |-> EnvOf(us)[i]]
         /\ DefsOf(us) = [i \in 1..L - 1 |-> DefsOf(us)[i]]
    BY <1>5
  <1>. QED
    BY <1>7, <1>9, <1>10 DEF us, L

(* What a lookup that captures does to each table (TablesAfterResolve).    *)
LEMMA CaptureShape ==
  ASSUME NEW ts, StackOK(ts), NEW name \in Names, Knowing(ts, name) # {}
  PROVE  LET k == Holder(ts, name)
         IN  /\ k \in 1..Len(ts)
             /\ ts[k].store[name] \in Symbol
             /\ ts[k].store[name] # NULL
             /\ ts[k].store[name].scope \in ScopesAt(k)
             /\ \A j \in 1..Len(ts) : j > k => ts[j].store[name] = NULL
  <1> DEFINE k == Holder(ts, name)
  <1>1. /\ ts \in Seq(Table) /\ Len(ts) \in Nat
        /\ \A i \in 1..Len(ts) : ts[i] \in Table
    BY StackFields DEF StackOK
  <1>2. IsHolder(ts, name, k)
    BY <1>1, HolderIsInnermost
  <1> HIDE DEF k
  <1>3. /\ k \in 1..Len(ts) /\ ts[k].store[name] # NULL
        /\ \A j \in 1..Len(ts) : j > k => ts[j].store[name] = NULL
    BY <1>1, <1>2 DEF IsHolder, Knowing
  <1>4. ts[k].store[name] \in Symbol
    BY <1>1, <1>3, TableFields
  <1>5. ts[k].store[name].scope \in ScopesAt(k)
    BY <1>3 DEF StackOK, ScopesSound
  <1>. QED
    BY <1>3, <1>4, <1>5 DEF k

(* symbol_resolve answers what the name means, and its captures change no  *)
(* meaning: a table that captures a name captures what the name means in   *)
(* the table around it.                                                    *)
LEMMA LookupImplements ==
  ASSUME NEW ts, StackOK(ts), NEW name \in Names
  PROVE  LET us == TablesAfterResolve(ts, name)
         IN  /\ EnvOf(us)  = EnvOf(ts)
             /\ DefsOf(us) = DefsOf(ts)
             /\ AnswerOf(us, symbol_resolve(ts, name)) = EnvOf(ts)[Len(ts)][name]
  <1> DEFINE L  == Len(ts)
             us == TablesAfterResolve(ts, name)
             k  == Holder(ts, name)
             found == ts[k].store[name]
             R(i) == ResolvedAt(ts, name, i)
             C(i) == MkSymbol(name, "FREE", Len(ts[i].free_symbols))
  <1>1. /\ ts \in Seq(Table) /\ L \in Nat /\ L \in 1..L
        /\ \A i \in 1..L : ts[i] \in Table /\ TableOK(ts[i])
    BY StackFields DEF StackOK
  <1>2. EnvOf(ts)[L][name] = Visible(ts, L, name)
    BY <1>1 DEF EnvOf
  <1>3. CASE Knowing(ts, name) = {}
    <2>1. us = ts /\ symbol_resolve(ts, name) = NULL
      BY <1>3 DEF TablesAfterResolve, symbol_resolve
    <2>2. Visible(ts, L, name) = NULL
      BY <1>3, VisibleNowhere DEF Knowing
    <2>. QED
      BY <2>1, <2>2, <1>2 DEF AnswerOf
  <1>4. CASE Knowing(ts, name) # {}
    <2>1. /\ k \in 1..L /\ found \in Symbol /\ found # NULL
          /\ found.scope \in ScopesAt(k)
          /\ \A j \in 1..L : j > k => ts[j].store[name] = NULL
      BY <1>4, CaptureShape
    <2>2. CASE ~Capturable(found)
      <3>1. us = ts /\ symbol_resolve(ts, name) = found
        BY <1>4, <2>2 DEF TablesAfterResolve, symbol_resolve, ResolvedAt
      <3> HIDE DEF L, us, k, found
      <3>2. Visible(ts, L, name) = Meaning(ts)[k][found]
        BY <1>1, <2>1, VisibleAt DEF found, L
      <3>3. \A i \in 1..L : ~Captured(ts, i, found)
        BY <2>2 DEF Captured, Capturable
      <3>4. Meaning(ts)[k][found] = Own(k, found) /\ Meaning(ts)[L][found] = Own(L, found)
        BY <1>1, <2>1, <3>3, MeaningOf DEF L
      <3>5. Own(k, found) = Own(L, found)
        BY <2>2 DEF Own
      <3>. QED
        BY <3>1, <3>2, <3>4, <3>5, <1>2, <2>1 DEF AnswerOf, us, L
    <2>3. CASE Capturable(found)
      <3>1. /\ us = [i \in 1..L |-> IF i <= k THEN ts[i] ELSE define_free(ts[i], R(i - 1))]
            /\ R(k) = found
            /\ \A i \in 1..L : i > k => R(i) = C(i)
            /\ symbol_resolve(ts, name) = R(L)
        BY <1>4, <2>1, <2>3 DEF TablesAfterResolve, ResolvedAt, symbol_resolve
      <3>2. /\ StackOK(us) /\ Len(us) = L
            /\ \A i \in 1..L : Extends(ts[i], us[i])
        BY ResolveOK
      <3>3. found.name = name
        BY <1>1, <2>1 DEF TableOK, StoreSoundIn
      <3>4. \A i \in 1..L : /\ C(i) \in Symbol /\ C(i).name = name /\ C(i) # NULL
                              /\ C(i).scope = "FREE"
                              /\ C(i).index = Len(ts[i].free_symbols)
        BY <1>1, TableFields, MkSymbolType DEF Scopes
      <3>5. k \in Nat /\ \A i \in 1..L : i \in Nat /\ (i <= k \/ i > k)
        BY <1>1, <2>1
      <3> HIDE DEF us, k, found, R, C, L
      <3>6. ASSUME NEW i \in 1..L, i <= k
            PROVE  us[i] = ts[i]
        BY <3>1, <3>6
      <3>7. ASSUME NEW i \in 1..L, i > k
            PROVE  i - 1 \in 1..L /\ i - 1 >= k /\ R(i - 1) \in Symbol /\ R(i - 1).name = name
        <4>1. i - 1 \in 1..L /\ i - 1 >= k /\ (i - 1 = k \/ i - 1 > k)
          BY <3>7, <2>1, <1>1
        <4>. QED
          BY <4>1, <2>1, <3>1, <3>3, <3>4
      <3>8. ASSUME NEW i \in 1..L, i > k
            PROVE  /\ us[i].store = [ts[i].store EXCEPT ![name] = C(i)]
                   /\ us[i].num_definitions = ts[i].num_definitions
                   /\ us[i].free_symbols = Append(ts[i].free_symbols, R(i - 1))
        <4>1. us[i] = define_free(ts[i], R(i - 1))
          BY <3>8, <3>1, <3>5
        <4>2. ts[i].store[R(i - 1).name] = NULL
          BY <3>7, <3>8, <2>1
        <4>3. R(i - 1) \in Symbol /\ R(i - 1).name = name
          BY <3>7, <3>8
        <4>4. PICK s \in Symbol : s = R(i - 1) /\ s.name = name
          BY <4>3
        <4>5. /\ us[i].store = [ts[i].store EXCEPT ![s.name]
                                  = MkSymbol(s.name, "FREE", Len(ts[i].free_symbols))]
              /\ us[i].num_definitions = ts[i].num_definitions
              /\ us[i].free_symbols = Append(ts[i].free_symbols, s)
          <5>1. ts[i] \in Table /\ TableOK(ts[i]) /\ ts[i].store[s.name] = NULL
            BY <4>2, <4>4, <1>1
          <5>2. us[i] = define_free(ts[i], s)
            BY <4>1, <4>4
          <5>. QED
            BY <5>1, <5>2, DefineFreeOK
        <4>. QED
          BY <4>4, <4>5 DEF C
      <3>9. Grown(ts, us, L)
        BY <3>2, <1>1 DEF Grown, L
      <3>10. us \in Seq(Table) /\ \A i \in 1..L : us[i] \in Table
        BY <3>2, StackFields DEF StackOK
      (* What the current call returned is what the table now holds. *)
      <3>11. ASSUME NEW i \in 1..L, i >= k
             PROVE  us[i].store[name] = R(i) /\ R(i) # NULL /\ R(i) \in Symbol
        <4>1. CASE i = k
          BY <4>1, <3>1, <3>5, <3>6, <2>1 DEF found
        <4>2. CASE i # k
          <5>1. i > k
            BY <4>2, <3>5, <3>11
          <5>2. us[i].store[name] = C(i)
            <6>1. ts[i].store \in [Names -> Symbol \cup {NULL}]
              BY <1>1, TableFields
            <6>. QED
              BY <6>1, <5>1, <3>8
          <5>. QED
            BY <5>1, <5>2, <3>1, <3>4
        <4>. QED
          BY <4>1, <4>2
      <3>12. ASSUME NEW i \in 1..L, NEW n \in Names, i <= k \/ n # name
             PROVE  us[i].store[n] = ts[i].store[n]
        <4>1. ts[i].store \in [Names -> Symbol \cup {NULL}]
          BY <1>1, TableFields
        <4>. QED
          BY <4>1, <3>5, <3>6, <3>8, <3>12
      <3>13. ASSUME NEW i \in 1..L, i > k
             PROVE  /\ Visible(us, i, name) = Visible(us, i - 1, name)
                    /\ Visible(ts, i, name) = Visible(ts, i - 1, name)
        <4> DEFINE F == ts[i].free_symbols
        <4>1. /\ i - 1 \in 1..L /\ i - 1 >= k /\ i >= k /\ i \in Nat /\ i > 1
              /\ R(i - 1) \in Symbol
          BY <3>7, <3>13, <3>5
        <4>2. R(i) = C(i) /\ us[i].store[name] = C(i) /\ us[i].store[name] # NULL
          BY <3>1, <3>11, <3>13, <4>1
        <4>3. Visible(us, i, name) = Meaning(us)[i][C(i)]
          BY <4>2, <3>2, <3>10, VisibleHere
        <4>4. /\ F \in Seq(Symbol) /\ Len(F) \in Nat
              /\ us[i].free_symbols = Append(F, R(i - 1))
          BY <1>1, <3>8, <3>13, TableFields
        <4>5. /\ Len(us[i].free_symbols) = Len(F) + 1
              /\ us[i].free_symbols[Len(F) + 1] = R(i - 1)
          BY <4>1, <4>4, AppendProperties
        <4>6. C(i) \in Symbol /\ C(i).scope = "FREE" /\ C(i).index = Len(F)
          BY <3>4
        <4> HIDE DEF F
        <4>7. Captured(us, i, C(i))
          BY <4>1, <4>4, <4>5, <4>6 DEF Captured
        <4>8. Meaning(us)[i][C(i)] = Meaning(us)[i - 1][R(i - 1)]
          <5>1. Meaning(us)[i][C(i)]
                  = Meaning(us)[i - 1][us[i].free_symbols[C(i).index + 1]]
            BY <4>6, <4>7, <3>2, <3>10, MeaningOf
          <5>. QED
            BY <5>1, <4>5, <4>6
        <4>9. Visible(us, i - 1, name) = Meaning(us)[i - 1][R(i - 1)]
          <5>1. us[i - 1].store[name] = R(i - 1) /\ R(i - 1) # NULL
            BY <4>1, <3>11
          <5>. QED
            BY <5>1, <4>1, <3>2, <3>10, VisibleHere
        <4>10. Visible(ts, i, name) = Visible(ts, i - 1, name)
          BY <4>1, <2>1, <3>13, VisibleOutside
        <4>. QED
          BY <4>3, <4>8, <4>9, <4>10
      <3>14. ASSUME NEW i \in 1..L, NEW n \in Names
             PROVE  Visible(us, i, n) = Visible(ts, i, n)
        <4>1. CASE n # name
          BY <4>1, <3>2, <3>9, <3>12, VisibleKept
        <4>2. CASE n = name
          <5> DEFINE Bad == {j \in 1..L : Visible(us, j, name) # Visible(ts, j, name)}
          <5>1. SUFFICES ASSUME Bad # {}
                         PROVE  FALSE
            BY <4>2
          <5>2. Bad \in SUBSET Nat
            BY <1>1
          <5> HIDE DEF Bad
          <5>3. PICK m \in Bad : \A j \in Bad : m <= j
            BY <5>1, <5>2, Least
          <5>4. m \in 1..L /\ Visible(us, m, name) # Visible(ts, m, name)
            BY DEF Bad
          <5>5. CASE m <= k
            <6>1. Grown(ts, us, k) /\ m \in 1..k
              BY <5>4, <5>5, <3>5, <3>9, <2>1, <1>1 DEF Grown
            <6>2. \A j \in 1..k : us[j].store[name] = ts[j].store[name]
              BY <3>12, <2>1, <1>1
            <6>. QED
              BY <6>1, <6>2, <5>4, <3>2, VisibleKept
          <5>6. CASE m > k
            <6>1. m - 1 \in 1..L /\ ~(m <= m - 1)
              BY <5>4, <5>6, <3>7, <3>5
            <6>2. m - 1 \notin Bad
              BY <6>1, <5>3
            <6>3. Visible(us, m - 1, name) = Visible(ts, m - 1, name)
              BY <6>1, <6>2 DEF Bad
            <6>. QED
              BY <6>3, <5>4, <5>6, <3>13
          <5>. QED
            BY <5>4, <5>5, <5>6, <3>5
        <4>. QED
          BY <4>1, <4>2
      <3>15. EnvOf(us) = EnvOf(ts)
        BY <3>2, <3>14 DEF EnvOf, L
      <3>16. DefsOf(us) = DefsOf(ts)
        <4>1. \A i \in 1..L : us[i].num_definitions = ts[i].num_definitions
          BY <3>5, <3>6, <3>8
        <4>. QED
          BY <4>1, <3>2 DEF DefsOf, L
      <3>17. AnswerOf(us, symbol_resolve(ts, name)) = Visible(ts, L, name)
        <4>1. L >= k
          BY <2>1, <1>1
        <4>2. us[L].store[name] = R(L) /\ R(L) # NULL
          BY <4>1, <3>11, <1>1
        <4>3. Visible(us, L, name) = Meaning(us)[L][R(L)]
          BY <4>2, <3>2, <3>10, <1>1, VisibleHere
        <4>. QED
          BY <4>2, <4>3, <3>1, <3>2, <3>14, <1>1 DEF AnswerOf
      <3>. QED
        BY <3>15, <3>16, <3>17, <1>2 DEF us, L
    <2>. QED
      BY <2>2, <2>3
  <1>. QED
    BY <1>3, <1>4

----------------------------------------------------------------------------

(* The first table stands for the first level.                             *)
LEMMA LexicalInit == Init => Lexical!Init
  <1> SUFFICES ASSUME Init
               PROVE  Lexical!Init
    OBVIOUS
  <1> DEFINE g == GlobalTable
  <1>1. IInv
    BY InitOK
  <1>2. /\ tables = <<g>> /\ resolved = NULL /\ Len(tables) = 1 /\ tables[1] = g
        /\ tables \in Seq(Table) /\ 1 \in 1..Len(tables)
    BY <1>1 DEF Init, IInv, StackOK
  <1>3. /\ g.num_definitions = 0
        /\ \A n \in Names : g.store[n] = IF n \in Builtins
                                         THEN MkSymbol(n, "BUILTIN", Position[n])
                                         ELSE NULL
    BY DEF GlobalTable, EmptyTable
  <1> HIDE DEF g
  <1>4. ASSUME NEW n \in Names
        PROVE  Visible(tables, 1, n) = IF n \in Builtins
                                       THEN Lexical!Definition(1, "BUILTIN", Position[n])
                                       ELSE NULL
    <2>1. CASE n \in Builtins
      <3>1. PICK s \in Symbol : /\ s = MkSymbol(n, "BUILTIN", Position[n]) /\ s # NULL
                                /\ s.scope = "BUILTIN" /\ s.index = Position[n]
        BY <2>1, BuiltinsAssumption, MkSymbolType DEF Scopes
      <3>2. tables[1].store[n] = s
        BY <2>1, <3>1, <1>2, <1>3
      <3>3. Visible(tables, 1, n) = Meaning(tables)[1][s]
        BY <3>1, <3>2, <1>2, VisibleHere
      <3>4. ~Captured(tables, 1, s)
        BY <3>1 DEF Captured
      <3>5. Meaning(tables)[1][s] = Own(1, s)
        BY <3>4, <1>2, MeaningOf
      <3>6. Own(1, s) = [level |-> 1, scope |-> "BUILTIN", index |-> Position[n]]
        BY <3>1 DEF Own, Capturable
      <3>. QED
        BY <2>1, <3>3, <3>5, <3>6 DEF Lexical!Definition
    <2>2. CASE n \notin Builtins
      <3>1. \A j \in 1..1 : tables[j].store[n] = NULL
        BY <2>2, <1>2, <1>3
      <3>. QED
        BY <2>2, <3>1, VisibleNowhere
    <2>. QED
      BY <2>1, <2>2
  <1>5. EnvOf(tables) = <<[n \in Names |-> IF n \in Builtins
                                           THEN Lexical!Definition(1, "BUILTIN", Position[n])
                                           ELSE NULL]>>
    BY <1>2, <1>4 DEF EnvOf
  <1>6. DefsOf(tables) = <<0>>
    BY <1>2, <1>3 DEF DefsOf
  <1>. QED
    BY <1>2, <1>5, <1>6 DEF Lexical!Init, EnvOf, DefsOf

(* Every step of the tables is a step of LexicalScope, or changes nothing. *)
LEMMA LexicalStep ==
  ASSUME IInv, [Next]_vars
  PROVE  [Lexical!Next]_(Lexical!vars)
  <1> DEFINE L == Len(tables)
  <1>1. /\ StackOK(tables) /\ L \in Nat /\ L >= 1 /\ L \in 1..L
        /\ Len(EnvOf(tables)) = L
        /\ tables \in Seq(Table)
        /\ \A i \in 1..L : tables[i] \in Table
        /\ DefsOf(tables)[L] = Top(tables).num_definitions
    <2>1. /\ StackOK(tables) /\ tables \in Seq(Table) /\ L \in Nat /\ L >= 1
          /\ \A i \in 1..L : tables[i] \in Table
      BY StackFields DEF IInv, StackOK
    <2>. QED
      BY <2>1, LengthsKept DEF DefsOf, Top
  <1>2. ASSUME NEW name \in Names, Define(name)
        PROVE  Lexical!Define(name)
    <2>1. /\ EnvOf(tables') = [EnvOf(tables) EXCEPT ![L][name] =
                                 Lexical!Definition(L, IF L = 1 THEN "GLOBAL" ELSE "LOCAL",
                                                    DefsOf(tables)[L])]
          /\ DefsOf(tables') = [DefsOf(tables) EXCEPT ![L] = @ + 1]
      BY <1>1, <1>2, DefineImplements DEF Define
    <2>2. DefsOf(tables)[L] < MaxDefs
      BY <1>1, <1>2 DEF Define
    <2>3. resolved' = NULL
      BY <1>2 DEF Define
    <2>. QED
      BY <2>1, <2>2, <2>3, <1>1
      DEF Lexical!Define, Lexical!Bind, Lexical!Level, EnvOf, DefsOf
  <1>3. ASSUME NEW name \in Names, Resolve(name)
        PROVE  Lexical!Lookup(name)
    <2>1. /\ EnvOf(tables')  = EnvOf(tables)
          /\ DefsOf(tables') = DefsOf(tables)
          /\ AnswerOf(tables', resolved') = EnvOf(tables)[L][name]
      BY <1>1, <1>3, LookupImplements DEF Resolve
    <2>. QED
      BY <2>1, <1>1 DEF Lexical!Lookup, Lexical!Level, EnvOf, DefsOf, AnswerOf
  <1>4. ASSUME NEW name \in Names, EnterFunction(name)
        PROVE  Lexical!Open({name})
    <2> DEFINE vs == new_enclosed_symbol_table(tables)
               u  == Put(EmptyTable, MkSymbol(name, "FUNCTION", 0))
               us == symbol_define_function_name(vs, name)
    <2>1. L < MaxDepth /\ tables' = us /\ resolved' = NULL
      BY <1>4 DEF EnterFunction
    <2>2. StackOK(us)
      BY <1>1, EnterFunctionOK DEF GoodStep
    <2>3. /\ vs = Append(tables, EmptyTable) /\ vs \in Seq(Table)
          /\ Len(vs) = L + 1 /\ vs[L + 1] = EmptyTable
          /\ \A i \in 1..L : vs[i] = tables[i]
      BY <1>1, EmptyTableOK, AppendProperties DEF new_enclosed_symbol_table
    <2>4. us = [vs EXCEPT ![L + 1] = u]
      BY <2>3 DEF symbol_define_function_name, Top
    <2>5. /\ u \in Table /\ u.num_definitions = 0
          /\ u.store = [EmptyTable.store EXCEPT ![name] = MkSymbol(name, "FUNCTION", 0)]
      <3>1. /\ u \in Table
            /\ u.store = [EmptyTable.store EXCEPT ![name] = MkSymbol(name, "FUNCTION", 0)]
        BY EmptyTableOK, DefineFunctionNameOK
      <3>2. u.num_definitions = 0
        BY DEF Put, EmptyTable
      <3>. QED
        BY <3>1, <3>2
    <2>6. /\ Len(us) = L + 1 /\ us[L + 1] = u
          /\ \A i \in 1..L : us[i] = tables[i]
      <3> HIDE DEF u, vs, us
      <3>1. L + 1 \in 1..Len(vs)
        BY <1>1, <2>3
      <3>2. /\ Len([vs EXCEPT ![L + 1] = u]) = Len(vs)
            /\ \A i \in 1..Len(vs) : [vs EXCEPT ![L + 1] = u][i] = IF i = L + 1 THEN u ELSE vs[i]
        <4>1. vs \in Seq(Table) /\ u \in Table
          BY <2>3, <2>5
        <4>. QED
          BY <4>1, <3>1, ExceptSeq
      <3>. QED
        BY <3>1, <3>2, <2>3, <2>4, <1>1
    <2>7. \A n \in Names : u.store[n] = IF n \in {name} THEN MkSymbol(n, "FUNCTION", 0) ELSE NULL
      BY <2>5, EmptyTableOK
    <2> HIDE DEF u, vs, us
    <2>8. /\ EnvOf(us) = Append(EnvOf(tables),
                               [n \in Names |->
                                  IF n \in {name}
                                  THEN Lexical!Definition(L + 1, "FUNCTION", 0)
                                  ELSE EnvOf(tables)[L][n]])
          /\ DefsOf(us) = Append(DefsOf(tables), 0)
      <3>1. PICK own \in SUBSET Names : own = {name}
        OBVIOUS
      <3>2. /\ Len(us) = Len(tables) + 1
            /\ \A i \in 1..Len(tables) : us[i] = tables[i]
            /\ us[Len(tables) + 1].num_definitions = 0
            /\ \A n \in Names : us[Len(tables) + 1].store[n]
                                 = IF n \in own THEN MkSymbol(n, "FUNCTION", 0) ELSE NULL
        BY <2>5, <2>6, <2>7, <3>1
      <3> HIDE DEF L
      <3>3. /\ EnvOf(us) = Append(EnvOf(tables),
                               [n \in Names |->
                                  IF n \in own
                                  THEN Lexical!Definition(Len(tables) + 1, "FUNCTION", 0)
                                  ELSE EnvOf(tables)[Len(tables)][n]])
            /\ DefsOf(us) = Append(DefsOf(tables), 0)
        BY <1>1, <2>2, <3>2, OpenImplements
      <3>. QED
        BY <3>1, <3>3 DEF L
    <2>9. /\ EnvOf(tables') = Append(EnvOf(tables),
                               [n \in Names |->
                                  IF n \in {name}
                                  THEN Lexical!Definition(L + 1, "FUNCTION", 0)
                                  ELSE EnvOf(tables)[L][n]])
          /\ DefsOf(tables') = Append(DefsOf(tables), 0)
      BY <2>1, <2>8
    <2>. QED
      BY <2>1, <2>9, <1>1 DEF Lexical!Open, Lexical!Level, EnvOf, DefsOf
  <1>5. ASSUME EnterScope
        PROVE  Lexical!Open({})
    <2> DEFINE us == new_enclosed_symbol_table(tables)
    <2>1. L < MaxDepth /\ tables' = us /\ resolved' = NULL
      BY <1>5 DEF EnterScope
    <2>2. StackOK(us)
      BY <1>1, EnterScopeOK DEF GoodStep
    <2>3. /\ us = Append(tables, EmptyTable) /\ us \in Seq(Table)
          /\ Len(us) = L + 1 /\ us[L + 1] = EmptyTable
          /\ \A i \in 1..L : us[i] = tables[i]
      BY <1>1, EmptyTableOK, AppendProperties DEF new_enclosed_symbol_table
    <2> HIDE DEF us
    <2>4. us[L + 1].num_definitions = 0
      BY <2>3, EmptyTableOK
    <2>5. \A n \in Names :
            us[L + 1].store[n] = IF n \in {} THEN MkSymbol(n, "FUNCTION", 0) ELSE NULL
      BY <2>3, EmptyTableOK
    <2>8. /\ EnvOf(us) = Append(EnvOf(tables),
                               [n \in Names |->
                                  IF n \in {}
                                  THEN Lexical!Definition(L + 1, "FUNCTION", 0)
                                  ELSE EnvOf(tables)[L][n]])
          /\ DefsOf(us) = Append(DefsOf(tables), 0)
      <3>1. PICK own \in SUBSET Names : own = {}
        OBVIOUS
      <3>2. /\ Len(us) = Len(tables) + 1
            /\ \A i \in 1..Len(tables) : us[i] = tables[i]
            /\ us[Len(tables) + 1].num_definitions = 0
            /\ \A n \in Names : us[Len(tables) + 1].store[n]
                                 = IF n \in own THEN MkSymbol(n, "FUNCTION", 0) ELSE NULL
        BY <2>3, <2>4, <2>5, <3>1
      <3> HIDE DEF L
      <3>3. /\ EnvOf(us) = Append(EnvOf(tables),
                               [n \in Names |->
                                  IF n \in own
                                  THEN Lexical!Definition(Len(tables) + 1, "FUNCTION", 0)
                                  ELSE EnvOf(tables)[Len(tables)][n]])
            /\ DefsOf(us) = Append(DefsOf(tables), 0)
        BY <1>1, <2>2, <3>2, OpenImplements
      <3>. QED
        BY <3>1, <3>3 DEF L
    <2>9. /\ EnvOf(tables') = Append(EnvOf(tables),
                               [n \in Names |->
                                  IF n \in {}
                                  THEN Lexical!Definition(L + 1, "FUNCTION", 0)
                                  ELSE EnvOf(tables)[L][n]])
          /\ DefsOf(tables') = Append(DefsOf(tables), 0)
      BY <2>1, <2>8
    <2>. QED
      BY <2>1, <2>9, <1>1 DEF Lexical!Open, Lexical!Level, EnvOf, DefsOf
  <1>6. ASSUME LeaveScope
        PROVE  Lexical!Close
    <2>1. /\ EnvOf(tables') = SubSeq(EnvOf(tables), 1, L - 1)
          /\ DefsOf(tables') = SubSeq(DefsOf(tables), 1, L - 1)
      BY <1>1, <1>6, CloseImplements DEF LeaveScope
    <2>2. L > 1 /\ resolved' = NULL
      BY <1>6 DEF LeaveScope
    <2>. QED
      BY <2>1, <2>2, <1>1 DEF Lexical!Close, Lexical!Level, EnvOf, DefsOf
  <1>7. CASE UNCHANGED vars
    BY <1>7 DEF vars, Lexical!vars
  <1>8. CASE Next
    <2>1. Lexical!Next
      BY <1>8, <1>2, <1>3, <1>4, <1>5, <1>6 DEF Next, Lexical!Next
    <2>. QED
      BY <2>1
  <1>. QED
    BY <1>7, <1>8

(* Whatever the tables capture on the way (symbol_table.c:56-72), a name  *)
(* means what the nearest definition around its use says: every operation  *)
(* is one of LexicalScope, or changes nothing there.                       *)
THEOREM LexicalScopingHolds == Spec => LexicalScoping
  <1>1. Init => Lexical!Init
    BY LexicalInit
  <1>2. IInv /\ [Next]_vars => [Lexical!Next]_(Lexical!vars)
    BY LexicalStep
  <1>. QED
    BY Invariance, <1>1, <1>2, PTL DEF Spec, LexicalScoping, Lexical!Spec

=============================================================================
