-------------------------- MODULE EvaluatorProofs --------------------------
(***************************************************************************)
(* Theorems about Evaluator, for any programs, however large, and any      *)
(* number of environments, arrays and calls.                               *)
(*                                                                         *)
(* A value that has been returned, stored or kept is one of Values; what a *)
(* node of the program may return is Results.  The invariant says of the   *)
(* nodes that they are a program, of every call under way how far it is    *)
(* (Stage) and what it waits for (Asked), and that the call above it is    *)
(* evaluating just that (Serves).                                          *)
(***************************************************************************)
EXTENDS Evaluator, SequenceTheorems, WellFoundedInduction, TLAPS

----------------------------------------------------------------------------
(* Recursion along environments *)

(* Every set of numbers that is not empty has a least element.             *)
LEMMA Least ==
  ASSUME NEW T \in SUBSET Nat, T # {}
  PROVE  \E m \in T : \A k \in T : m <= k
  <1>. DEFINE R == OpToRel(<, Nat)
  <1>1. IsWellFoundedOn(R, Nat)
    BY NatLessThanWellFounded
  <1>. HIDE DEF R
  <1>2. PICK m \in T : \A k \in T : ~(<<k, m>> \in R)
    BY <1>1, WFMin
  <1>3. \A k \in T : ~(k < m)
    BY <1>2 DEF R, OpToRel
  <1>. QED
    BY <1>3

(* Environments are made inside older ones.                                *)
Ordered(es) ==
  /\ Len(es) \in Nat
  /\ \A e \in 1..Len(es) : es[e].outer \in 0..(e - 1)

MakersAt(es, f, d) ==
  IF d <= 1 THEN <<>> ELSE Append(f[es[d].outer], es[d].of)

LEMMA MakersUnfold ==
  ASSUME NEW es, Ordered(es)
  PROVE  Makers(es) = [d \in 0..Len(es) |-> MakersAt(es, Makers(es), d)]
  <1>. DEFINE Bad == {m \in Nat : /\ m <= Len(es)
                                  /\ ~\E f : f = [d \in 0..m |-> MakersAt(es, f, d)]}
  <1>1. ASSUME Bad # {}
        PROVE  FALSE
    <2>1. PICK m \in Bad : \A k \in Bad : m <= k
      BY <1>1, Least
    <2>2. m # 0
      <3>. DEFINE z == [d \in 0..0 |-> <<>>]
      <3>1. z = [d \in 0..0 |-> MakersAt(es, z, d)]
        BY DEF MakersAt
      <3>. QED
        BY <3>1
    <2>3. m - 1 \in Nat /\ m - 1 \notin Bad
      BY <2>1, <2>2
    <2>4. PICK f : f = [d \in 0..m - 1 |-> MakersAt(es, f, d)]
      BY <2>3
    <2>. DEFINE g == [d \in 0..m |-> IF d = m THEN MakersAt(es, f, m) ELSE f[d]]
    <2>5. ASSUME NEW d \in 0..m
          PROVE  g[d] = MakersAt(es, g, d)
      <3>1. d > 1 => es[d].outer \in 0..m - 1
        BY <2>1, <2>3 DEF Ordered
      <3>2. d > 1 => g[es[d].outer] = f[es[d].outer]
        BY <3>1
      <3>3. MakersAt(es, g, d) = MakersAt(es, f, d)
        <4>. HIDE DEF g
        <4>. QED
          BY <3>2 DEF MakersAt
      <3>4. d # m => f[d] = MakersAt(es, f, d)
        <4>1. d # m => d \in 0..m - 1
          BY <2>3
        <4>. QED
          BY <4>1, <2>4
      <3>. QED
        BY <3>3, <3>4
    <2>6. g = [d \in 0..m |-> MakersAt(es, g, d)]
      <3>1. g = [d \in 0..m |-> g[d]]
        OBVIOUS
      <3>. HIDE DEF g
      <3>. QED
        BY <3>1, <2>5
    <2>. QED
      BY <2>1, <2>6
  <1>2. \E f : f = [d \in 0..Len(es) |-> MakersAt(es, f, d)]
    BY <1>1 DEF Ordered
  <1>3. Makers(es) = CHOOSE f : f = [d \in 0..Len(es) |-> MakersAt(es, f, d)]
    BY DEF Makers, MakersAt
  <1>. QED
    BY <1>2, <1>3

(* Who has made the environments from e outwards.                          *)
LEMMA MadeByUnfolds ==
  ASSUME NEW es, Ordered(es), NEW e \in 1..Len(es)
  PROVE  MadeBy(es, e) = IF e = 1 THEN <<>>
                         ELSE Append(MadeBy(es, es[e].outer), es[e].of)
  <1>1. e \in 0..Len(es)
    BY DEF Ordered
  <1>2. Makers(es)[e] = MakersAt(es, Makers(es), e)
    BY <1>1, MakersUnfold
  <1>. QED
    BY <1>2 DEF MadeBy, MakersAt, Ordered

HoldersAt(es, name, f, d) ==
  IF d = 0 THEN 0
  ELSE IF es[d].store[name] # Missing THEN d
  ELSE f[es[d].outer]

LEMMA HoldersUnfold ==
  ASSUME NEW es, Ordered(es), NEW name
  PROVE  Holders(es, name)
           = [d \in 0..Len(es) |-> HoldersAt(es, name, Holders(es, name), d)]
  <1>. DEFINE Bad == {m \in Nat : /\ m <= Len(es)
                                  /\ ~\E f : f = [d \in 0..m |-> HoldersAt(es, name, f, d)]}
  <1>1. ASSUME Bad # {}
        PROVE  FALSE
    <2>1. PICK m \in Bad : \A k \in Bad : m <= k
      BY <1>1, Least
    <2>2. m # 0
      <3>. DEFINE z == [d \in 0..0 |-> 0]
      <3>1. z = [d \in 0..0 |-> HoldersAt(es, name, z, d)]
        BY DEF HoldersAt
      <3>. QED
        BY <3>1
    <2>3. m - 1 \in Nat /\ m - 1 \notin Bad
      BY <2>1, <2>2
    <2>4. PICK f : f = [d \in 0..m - 1 |-> HoldersAt(es, name, f, d)]
      BY <2>3
    <2>. DEFINE g == [d \in 0..m |-> IF d = m THEN HoldersAt(es, name, f, m) ELSE f[d]]
    <2>5. ASSUME NEW d \in 0..m
          PROVE  g[d] = HoldersAt(es, name, g, d)
      <3>1. d > 0 => es[d].outer \in 0..m - 1
        BY <2>1, <2>3 DEF Ordered
      <3>2. d > 0 => g[es[d].outer] = f[es[d].outer]
        BY <3>1
      <3>3. HoldersAt(es, name, g, d) = HoldersAt(es, name, f, d)
        <4>. HIDE DEF g
        <4>. QED
          BY <3>2 DEF HoldersAt
      <3>4. d # m => f[d] = HoldersAt(es, name, f, d)
        <4>1. d # m => d \in 0..m - 1
          BY <2>3
        <4>. QED
          BY <4>1, <2>4
      <3>. QED
        BY <3>3, <3>4
    <2>6. g = [d \in 0..m |-> HoldersAt(es, name, g, d)]
      <3>1. g = [d \in 0..m |-> g[d]]
        OBVIOUS
      <3>. HIDE DEF g
      <3>. QED
        BY <3>1, <2>5
    <2>. QED
      BY <2>1, <2>6
  <1>2. \E f : f = [d \in 0..Len(es) |-> HoldersAt(es, name, f, d)]
    BY <1>1 DEF Ordered
  <1>3. Holders(es, name)
          = CHOOSE f : f = [d \in 0..Len(es) |-> HoldersAt(es, name, f, d)]
    BY DEF Holders, HoldersAt
  <1>. QED
    BY <1>2, <1>3

(* Where env_get finds a name.                                             *)
LEMMA HolderUnfolds ==
  ASSUME NEW es, Ordered(es), NEW name, NEW e \in 0..Len(es)
  PROVE  HolderIn(es, e, name) = IF e = 0 THEN 0
                                 ELSE IF es[e].store[name] # Missing THEN e
                                 ELSE HolderIn(es, es[e].outer, name)
  <1>1. Holders(es, name)[e] = HoldersAt(es, name, Holders(es, name), e)
    BY HoldersUnfold
  <1>. QED
    BY <1>1 DEF HolderIn, HoldersAt

(* It is found nowhere, or in an environment that has it.                  *)
LEMMA HolderHolds ==
  ASSUME NEW es, Ordered(es), NEW name, NEW e \in 0..Len(es)
  PROVE  \/ HolderIn(es, e, name) = 0
         \/ /\ HolderIn(es, e, name) \in 1..Len(es)
            /\ es[HolderIn(es, e, name)].store[name] # Missing
  <1>. DEFINE Good(d) == \/ HolderIn(es, d, name) = 0
                         \/ /\ HolderIn(es, d, name) \in 1..Len(es)
                            /\ es[HolderIn(es, d, name)].store[name] # Missing
              Bad == {d \in 0..Len(es) : ~Good(d)}
  <1>1. ASSUME Bad # {}
        PROVE  FALSE
    <2>1. Bad \in SUBSET Nat
      BY DEF Ordered
    <2>2. PICK d \in Bad : \A k \in Bad : d <= k
      <3>. HIDE DEF Bad
      <3>. QED
        BY <1>1, <2>1, Least
    <2>3. d # 0
      BY HolderUnfolds DEF Ordered
    <2>4. /\ d \in 1..Len(es) /\ es[d].outer \in 0..Len(es) /\ ~(d <= es[d].outer)
          /\ Len(es) \in Nat
      BY <2>3 DEF Ordered
    <2>5. es[d].outer \notin Bad
      BY <2>2, <2>4
    <2>6. Good(es[d].outer)
      BY <2>4, <2>5
    <2>7. HolderIn(es, d, name) = IF es[d].store[name] # Missing THEN d
                                  ELSE HolderIn(es, es[d].outer, name)
      BY <2>3, <2>4, HolderUnfolds
    <2>. QED
      BY <2>4, <2>6, <2>7
  <1>. QED
    BY <1>1

(* Two chains of environments of which one may be longer.                  *)
SameChain(es, us) ==
  /\ Ordered(es) /\ Ordered(us) /\ Len(es) <= Len(us)
  /\ \A e \in 1..Len(es) : us[e].outer = es[e].outer /\ us[e].of = es[e].of

(* Making an environment leaves those that exist as they are.              *)
LEMMA MadeBySame ==
  ASSUME NEW es, NEW us, SameChain(es, us), NEW e \in 1..Len(es)
  PROVE  MadeBy(us, e) = MadeBy(es, e)
  <1>. DEFINE Bad == {d \in 1..Len(es) : MadeBy(us, d) # MadeBy(es, d)}
  <1>1. ASSUME Bad # {}
        PROVE  FALSE
    <2>1. Bad \in SUBSET Nat
      BY DEF SameChain, Ordered
    <2>2. PICK d \in Bad : \A k \in Bad : d <= k
      <3>. HIDE DEF Bad
      <3>. QED
        BY <1>1, <2>1, Least
    <2>3. /\ d \in 1..Len(es) /\ d \in 1..Len(us) /\ Ordered(es) /\ Ordered(us)
          /\ us[d].outer = es[d].outer /\ us[d].of = es[d].of
      BY DEF SameChain, Ordered
    <2>4. /\ MadeBy(es, d) = IF d = 1 THEN <<>> ELSE Append(MadeBy(es, es[d].outer), es[d].of)
          /\ MadeBy(us, d) = IF d = 1 THEN <<>> ELSE Append(MadeBy(us, us[d].outer), us[d].of)
      BY <2>3, MadeByUnfolds
    <2>5. MadeBy(us, es[d].outer) # MadeBy(es, es[d].outer)
      BY <2>3, <2>4
    <2>6. es[d].outer \in 0..Len(es) /\ ~(d <= es[d].outer)
      BY <2>3 DEF Ordered
    <2>7. es[d].outer = 0
      <3>1. es[d].outer \notin Bad
        BY <2>2, <2>6
      <3>. QED
        BY <2>5, <2>6, <3>1 DEF SameChain, Ordered
    <2>8. MadeBy(es, 0) = <<>> /\ MadeBy(us, 0) = <<>>
      <3>1. Makers(es)[0] = MakersAt(es, Makers(es), 0)
        BY <2>3, MakersUnfold DEF Ordered
      <3>2. Makers(us)[0] = MakersAt(us, Makers(us), 0)
        BY <2>3, MakersUnfold DEF Ordered
      <3>. QED
        BY <3>1, <3>2 DEF MadeBy, MakersAt
    <2>. QED
      BY <2>5, <2>7, <2>8
  <1>. QED
    BY <1>1

(* A name is found where it was as long as no variable gains or loses its  *)
(* value.                                                                  *)
LEMMA HolderSame ==
  ASSUME NEW es, NEW us, SameChain(es, us), NEW name,
         \A e \in 1..Len(es) : es[e].store[name] # Missing <=> us[e].store[name] # Missing,
         NEW e \in 0..Len(es)
  PROVE  HolderIn(us, e, name) = HolderIn(es, e, name)
  <1>. DEFINE Bad == {d \in 0..Len(es) : HolderIn(us, d, name) # HolderIn(es, d, name)}
  <1>1. ASSUME Bad # {}
        PROVE  FALSE
    <2>1. Bad \in SUBSET Nat
      BY DEF SameChain, Ordered
    <2>2. PICK d \in Bad : \A k \in Bad : d <= k
      <3>. HIDE DEF Bad
      <3>. QED
        BY <1>1, <2>1, Least
    <2>3. /\ d \in 0..Len(es) /\ d \in 0..Len(us) /\ Ordered(es) /\ Ordered(us)
      BY DEF SameChain, Ordered
    <2>4. /\ HolderIn(es, d, name) = IF d = 0 THEN 0
                                     ELSE IF es[d].store[name] # Missing THEN d
                                     ELSE HolderIn(es, es[d].outer, name)
          /\ HolderIn(us, d, name) = IF d = 0 THEN 0
                                     ELSE IF us[d].store[name] # Missing THEN d
                                     ELSE HolderIn(us, us[d].outer, name)
      BY <2>3, HolderUnfolds
    <2>5. d \in 1..Len(es) /\ us[d].outer = es[d].outer
      BY <2>3, <2>4 DEF SameChain, Ordered
    <2>6. es[d].outer \in 0..Len(es) /\ ~(d <= es[d].outer)
      BY <2>3, <2>5 DEF Ordered
    <2>7. es[d].outer \notin Bad
      BY <2>2, <2>6
    <2>. QED
      BY <2>4, <2>5, <2>6, <2>7
  <1>. QED
    BY <1>1

OuterAt(es, e, f, l) ==
  IF l = 0 THEN e ELSE IF f[l - 1] = 0 THEN 0 ELSE es[f[l - 1]].outer

LEMMA OuterUnfolds ==
  ASSUME NEW es, NEW e, NEW l \in 0..MaxEnvs
  PROVE  Outer(es, e)[l] = OuterAt(es, e, Outer(es, e), l)
  <1>. DEFINE Bad == {m \in Nat : ~\E f : f = [d \in 0..m |-> OuterAt(es, e, f, d)]}
  <1>1. ASSUME Bad # {}
        PROVE  FALSE
    <2>1. PICK m \in Bad : \A k \in Bad : m <= k
      BY <1>1, Least
    <2>2. m # 0
      <3>. DEFINE z == [d \in 0..0 |-> e]
      <3>1. z = [d \in 0..0 |-> OuterAt(es, e, z, d)]
        BY DEF OuterAt
      <3>. QED
        BY <3>1
    <2>3. m - 1 \in Nat /\ m - 1 \notin Bad
      BY <2>1, <2>2
    <2>4. PICK f : f = [d \in 0..m - 1 |-> OuterAt(es, e, f, d)]
      BY <2>3
    <2>. DEFINE g == [d \in 0..m |-> IF d = m THEN OuterAt(es, e, f, m) ELSE f[d]]
    <2>5. ASSUME NEW d \in 0..m
          PROVE  g[d] = OuterAt(es, e, g, d)
      <3>1. d > 0 => d - 1 \in 0..m /\ d - 1 # m
        BY <2>3
      <3>2. d > 0 => g[d - 1] = f[d - 1]
        BY <3>1
      <3>3. OuterAt(es, e, g, d) = OuterAt(es, e, f, d)
        <4>. HIDE DEF g
        <4>. QED
          BY <3>2 DEF OuterAt
      <3>4. d # m => f[d] = OuterAt(es, e, f, d)
        <4>1. d # m => d \in 0..m - 1
          BY <2>3
        <4>. QED
          BY <4>1, <2>4
      <3>. QED
        BY <3>3, <3>4
    <2>6. g = [d \in 0..m |-> OuterAt(es, e, g, d)]
      <3>1. g = [d \in 0..m |-> g[d]]
        OBVIOUS
      <3>. HIDE DEF g
      <3>. QED
        BY <3>1, <2>5
    <2>. QED
      BY <2>1, <2>6
  <1>2. \E f : f = [d \in 0..MaxEnvs |-> OuterAt(es, e, f, d)]
    BY <1>1, BoundsNatural
  <1>3. Outer(es, e) = CHOOSE f : f = [d \in 0..MaxEnvs |-> OuterAt(es, e, f, d)]
    BY DEF Outer, OuterAt
  <1>4. Outer(es, e) = [d \in 0..MaxEnvs |-> OuterAt(es, e, Outer(es, e), d)]
    BY <1>2, <1>3
  <1>. QED
    BY <1>4

(* What set_ident reaches at the two levels that resolve_ident finds.      *)
LEMMA Levels ==
  ASSUME NEW es, NEW e
  PROVE  /\ Outer(es, e)[0] = e
         /\ MaxEnvs > 0 /\ e # 0 => Outer(es, e)[1] = es[e].outer
  <1>1. Outer(es, e)[0] = e
    <2>1. 0 \in 0..MaxEnvs
      BY BoundsNatural
    <2>. QED
      BY <2>1, OuterUnfolds DEF OuterAt
  <1>2. MaxEnvs > 0 => Outer(es, e)[1] = OuterAt(es, e, Outer(es, e), 1)
    <2>1. MaxEnvs > 0 => 1 \in 0..MaxEnvs
      BY BoundsNatural
    <2>. QED
      BY <2>1, OuterUnfolds
  <1>. QED
    BY <1>1, <1>2 DEF OuterAt

----------------------------------------------------------------------------
(* The invariant *)

Roles     == {"program", "block", "statement", "operand", "array", "let"}
Forms     == AllForms \cup {"program", "block", Unmet}
NodeNames == Names \cup {NULL} \cup UNION {Suites[i].operators : i \in DOMAIN Suites}

NodeRec == [form : Forms, role : Roles, name : NodeNames, kids : Seq(Nat),
            open : BOOLEAN, within : Seq(Nat)]

Inside(ns, n, form) ==
  IF form \in Scopes THEN Append(ns[n].within, n) ELSE ns[n].within

InsideFunction(ns, n) ==
  \E i \in DOMAIN ns[n].within : ns[ns[n].within[i]].form = "function"

(* A node has a form its place allows (FormsAt).                           *)
FormFits(ns, n) ==
  LET form == ns[n].form
      role == ns[n].role
  IN  /\ form \in {"program", "block"} \/ role \in {"program", "block"} => form = role
      /\ form \in AllForms =>
           /\ role = "let"     => form = "let"
           /\ role = "array"   => form = "array"
           /\ role = "operand" => form \notin {"let", "return", "break", "continue"}
      /\ form \in {"ident", "let", "reassign", "reassign_index"} => ns[n].name \in Names
      /\ form = "function" => ns[n].name \in Names \cup {NULL}

(* Its children have the roles it gives them, and are in the same loops    *)
(* and functions or in one more.                                           *)
KidsFit(ns, n) ==
  LET form == ns[n].form
      kids == ns[n].kids
  IN  /\ \A i \in DOMAIN kids :
           kids[i] \in 1..Len(ns) /\ ns[kids[i]].within = Inside(ns, n, form)
      /\ form \in AllForms => [i \in DOMAIN kids |-> ns[kids[i]].role] \in Arms(form)
      /\ form \in {"program", "block"} => \A i \in DOMAIN kids : ns[kids[i]].role = "statement"

ScopesFit(ns, n) ==
  \A i \in DOMAIN ns[n].within :
    ns[n].within[i] \in 1..Len(ns) /\ ns[ns[n].within[i]].form \in Scopes

NodesOK(ns) ==
  /\ ns \in Seq(NodeRec)
  /\ \A n \in 1..Len(ns) : FormFits(ns, n) /\ KidsFit(ns, n) /\ ScopesFit(ns, n)

(* A function value holds environments made by the loops and functions     *)
(* around the function's text.                                             *)
Closures(ns, es) ==
  {c \in (1..Len(ns)) \X (1..Len(es)) :
     ns[c[1]].form = "function" /\ MadeBy(es, c[2]) = ns[c[1]].within}

Containers(h) == {Container(t, r) : t \in {"array", "hash"}, r \in 1..Len(h)}

Scalars == {Number, String, Null, Missing} \cup {Boolean(b) : b \in BOOLEAN}
             \cup {Builtin(b) : b \in BuiltinNames}

Plains(ns, es, h) ==
  Scalars \cup {Function(c[1], c[2]) : c \in Closures(ns, es)} \cup Containers(h)

(* The program has an if or a loop for a value; a break or a continue in a *)
(* function; an assignment to a name; one to an element.                   *)
Blocky(ns) == \E n \in 1..Len(ns) : ns[n].form \in Control /\ ns[n].role = "operand"

Jumpy(ns) ==
  \E n, m \in 1..Len(ns) :
    /\ ns[n].form \in {"break", "continue"} /\ ns[m].form = "function"
    /\ \E i \in DOMAIN ns[n].within : ns[n].within[i] = m

Named(ns, name) ==
  \E n \in 1..Len(ns) : ns[n].form = "reassign" /\ ns[n].name = name

Indexed(ns) ==
  \E n \in 1..Len(ns) : ns[n].form \in {"reassign_index", "reassign_element"}

(* What a return object may hold; the return objects; what is a value.     *)
Held(ns, es, h) ==
  Plains(ns, es, h) \cup (IF Blocky(ns) \/ Jumpy(ns) THEN {Break, Continue} ELSE {})

Layers(ns) == IF Blocky(ns) THEN 1..MaxLayers ELSE {1}

Wrappers(ns, es, h) == {Wrapped(v, l) : v \in Held(ns, es, h), l \in Layers(ns)}

Values(ns, es, h) ==
  Held(ns, es, h) \cup (IF Blocky(ns) THEN Wrappers(ns, es, h) ELSE {})

(* What a variable and what an array or a hash may hold.                   *)
Cells(ns, es, h) == Values(ns, es, h) \cup {Error}

Elements(ns, es, h) == Values(ns, es, h) \cup (IF Indexed(ns) THEN {Error} ELSE {})

EnvRec(ns, es, h) == [store : [Names -> Cells(ns, es, h)], outer : Nat, of : Nat]

(* Errors are stored by assignments only, to this name or to an element.   *)
StoresOK(ns, es) ==
  \A e \in 1..Len(es), name \in Names : es[e].store[name] = Error => Named(ns, name)

EnvsOK(ns, es, h) ==
  /\ es \in Seq(EnvRec(ns, es, h))
  /\ Len(es) \in Nat \ {0} /\ (Len(es) > 1 => Len(es) <= MaxEnvs)
  /\ \A e \in 1..Len(es) : es[e].outer \in 0..(e - 1) /\ es[e].of \in 0..Len(ns)

World(ns, es, h) ==
  /\ NodesOK(ns)
  /\ EnvsOK(ns, es, h)
  /\ h \in Seq(Seq(Elements(ns, es, h)))
  /\ StoresOK(ns, es)

(* What the evaluation of a node may return.                               *)
Ends(ns, es, h, n) ==
  Values(ns, es, h) \cup {Error} \cup Wrappers(ns, es, h)
    \cup (IF InsideFunction(ns, n) THEN {} ELSE {Break, Continue})

Results(ns, es, h, n) ==
  LET role == ns[n].role
  IN  CASE role = "array" -> {Container("array", r) : r \in 1..Len(h)} \cup {Error}
        [] role \in {"operand", "let"} -> Values(ns, es, h) \cup {Error}
        [] OTHER -> Ends(ns, es, h, n)

(* What a call keeps: a loop the value of its last iteration.              *)
Kept(ns, es, h, n) ==
  Values(ns, es, h) \cup {Error} \cup (IF InsideFunction(ns, n) THEN {} ELSE {Continue})

FrameRec(ns, es, h) ==
  [node : 1..Len(ns), env : 1..Len(es), inner : 0..Len(es), at : Nat,
   vals : Seq(Values(ns, es, h) \cup {Error, Continue})]

(* How far a call is, and what it has kept.                                *)
Stage(ns, es, h, f) ==
  LET form == ns[f.node].form
      n    == Len(ns[f.node].kids)
  IN  \/ form \in {"program", "block"} /\ f.at <= n
      \/ form \in {"let", "return", "bang", "minus"} /\ f.at = 1
      \/ form = "infix" /\ f.at = 1 /\ f.vals = <<>>
      \/ form = "infix" /\ f.at = 2
           /\ \E v \in Values(ns, es, h) \cup {Error} : f.vals = <<v>>
      \/ form = "index" /\ f.at = 1 /\ f.vals = <<>>
      \/ form = "index" /\ f.at = 2 /\ \E v \in Containers(h) : f.vals = <<v>>
      \/ form \in {"if", "if_else"} /\ f.at \in 1..2
      \/ form = "call" /\ f.at = n + 1
      \/ form \in {"call", "array", "hash"} /\ f.at \in 1..n
           /\ f.vals \in Seq(Values(ns, es, h)) /\ Len(f.vals) = f.at - 1
      \/ form \in Loops /\ f.at \in 1..6 /\ f.inner # 0
           /\ f.vals \in Seq(Kept(ns, es, h, f.node))
      \/ form \in {"reassign", "reassign_index", "reassign_element"}
           /\ f.at = 1 /\ f.vals = <<>>
      \/ form \in {"reassign", "reassign_index", "reassign_element"} /\ f.at = 2
           /\ \E v \in Values(ns, es, h) \cup {Error} : f.vals = <<v>>

FrameOK(ns, es, h, f) ==
  /\ MadeBy(es, f.env) = ns[f.node].within
  /\ f.inner # 0 => MadeBy(es, f.inner) = Append(ns[f.node].within, f.node)
  /\ IF f.at = 0 THEN f.vals = <<>> ELSE Stage(ns, es, h, f)

(* The role of the node a call is waiting for.                             *)
Asked(ns, f) ==
  LET form == ns[f.node].form
      at   == f.at
  IN  CASE at = 0 -> "none"
        [] at > 0 /\ form \in {"program", "block"} -> "statement"
        [] at > 0 /\ form \in {"let", "return", "bang", "minus", "infix", "index",
                               "array", "hash"} -> "operand"
        [] at > 0 /\ form \in {"if", "if_else"} -> IF at = 1 THEN "operand" ELSE "block"
        [] at > 0 /\ form = "call" ->
             IF at <= Len(ns[f.node].kids) THEN "operand" ELSE "block"
        [] at > 0 /\ form \in Loops ->
             (IF at = 1 THEN "let" ELSE IF at \in {2, 4} THEN "operand"
              ELSE IF at = 5 THEN "block" ELSE IF at = 6 THEN "statement" ELSE "none")
        [] at > 0 /\ form \in {"reassign", "reassign_index", "reassign_element"} ->
             (IF at = 1 THEN "operand"
              ELSE IF form = "reassign_element" THEN "array" ELSE "none")
        [] OTHER -> "none"

(* The evaluation of node n is what call f is waiting for.                 *)
Serves(ns, f, n) ==
  /\ n \in 1..Len(ns) /\ ns[n].role = Asked(ns, f)
  /\ \/ InsideFunction(ns, f.node)
     \/ ns[f.node].form = "call" /\ Asked(ns, f) = "block"
     => InsideFunction(ns, n)

Calls(ns, es, h, fs) ==
  /\ fs \in Seq(FrameRec(ns, es, h))
  /\ \A i \in 1..Len(fs) : FrameOK(ns, es, h, fs[i])
  /\ \A i \in 1..Len(fs) - 1 : Serves(ns, fs[i], fs[i + 1].node)

AnyResult(ns, es, h) ==
  Values(ns, es, h) \cup {Error, Break, Continue, Nothing}
    \cup Wrappers(ns, es, h)

Returned(ns, es, h, fs, r) ==
  /\ r \in AnyResult(ns, es, h)
  /\ fs # <<>> /\ Asked(ns, fs[Len(fs)]) \notin {"none", "let"} =>
       \E n \in 1..Len(ns) :
         Serves(ns, fs[Len(fs)], n) /\ r \in Results(ns, es, h, n)

(* The search of resolve_ident is at the variable's environment or the one *)
(* around it.                                                              *)
Searching(ns, fs) ==
  /\ fs # <<>> /\ fs[Len(fs)].at = 2
  /\ ns[fs[Len(fs)].node].form \in {"reassign", "reassign_index"}

Searched(es, f, name, sr) ==
  \E e \in 1..Len(es), l \in 0..MaxEnvs :
    /\ sr = <<[env |-> e, level |-> l]>>
    /\ \/ e = f.env /\ l = 0
       \/ /\ e = es[f.env].outer /\ es[f.env].store[name] = Missing
          /\ (l = 1 \/ es[e].store[name] = Missing)

Searches(ns, es, fs, sr) ==
  Searching(ns, fs) => Searched(es, fs[Len(fs)], ns[fs[Len(fs)].node].name, sr)

IInv ==
  /\ suite \in DOMAIN Suites
  /\ status \in {"running", "done", "dead"}
  /\ World(nodes, envs, heap)
  /\ Calls(nodes, envs, heap, frames)
  /\ Returned(nodes, envs, heap, frames, ret)
  /\ status = "running" => Searches(nodes, envs, frames, search)

----------------------------------------------------------------------------
(* Objects *)

(* The type tells the kinds of objects apart.                              *)
LEMMA Types ==
  /\ Number.type = "number"   /\ String.type = "string"    /\ Null.type = "null"
  /\ Error.type = "error"     /\ Break.type = "break"      /\ Continue.type = "continue"
  /\ Missing.type = "missing" /\ Nothing.type = "nothing"
  /\ \A b : Boolean(b).type = "boolean" /\ Boolean(b).value = b
  /\ \A b : Builtin(b).type = "builtin" /\ Builtin(b).fn = b
  /\ \A v, l : /\ Wrapped(v, l).type = "return"
               /\ Wrapped(v, l).wrapped = v /\ Wrapped(v, l).layers = l
  /\ \A n, e : /\ Function(n, e).type = "function"
               /\ Function(n, e).node = n /\ Function(n, e).env = e
  /\ \A t, r : Container(t, r).type = t /\ Container(t, r).ref = r
  BY DEF Number, String, Null, Error, Break, Continue, Missing, Nothing, Boolean,
         Builtin, Wrapped, Function, Container

(* What a value is, by its type.                                           *)
Kind(ns, es, h, v) ==
  \/ v.type = "number" /\ v = Number
  \/ v.type = "string" /\ v = String
  \/ v.type = "null" /\ v = Null
  \/ v.type = "missing" /\ v = Missing
  \/ v.type = "boolean" /\ \E b \in BOOLEAN : v = Boolean(b)
  \/ v.type = "builtin" /\ v.fn \in BuiltinNames /\ v = Builtin(v.fn)
  \/ /\ v.type = "function" /\ <<v.node, v.env>> \in Closures(ns, es)
     /\ v = Function(v.node, v.env)
  \/ /\ v.type \in {"array", "hash"} /\ v.ref \in 1..Len(h)
     /\ v = Container(v.type, v.ref)
  \/ /\ v.type = "break" /\ v = Break /\ (Blocky(ns) \/ Jumpy(ns))
  \/ /\ v.type = "continue" /\ v = Continue /\ (Blocky(ns) \/ Jumpy(ns))
  \/ /\ v.type = "return" /\ Blocky(ns) /\ v.wrapped \in Held(ns, es, h)
     /\ v.layers \in Layers(ns) /\ v = Wrapped(v.wrapped, v.layers)

PlainKind(ns, es, h, v) ==
  Kind(ns, es, h, v) /\ v.type \notin {"break", "continue", "return"}

LEMMA PlainKinds ==
  ASSUME NEW ns, NEW es, NEW h, NEW v \in Plains(ns, es, h)
  PROVE  PlainKind(ns, es, h, v)
  <1>1. CASE v \in {Number, String, Null, Missing}
    BY <1>1, Types DEF Kind, PlainKind
  <1>2. CASE v \in {Boolean(b) : b \in BOOLEAN}
    BY <1>2, Types DEF Kind, PlainKind
  <1>3. CASE v \in {Builtin(b) : b \in BuiltinNames}
    <2>1. PICK b \in BuiltinNames : v = Builtin(b)
      BY <1>3
    <2>2. v.type = "builtin" /\ v.fn = b
      BY <2>1, Types
    <2>. QED
      BY <2>1, <2>2 DEF Kind, PlainKind
  <1>4. CASE v \in {Function(c[1], c[2]) : c \in Closures(ns, es)}
    <2>1. PICK c \in Closures(ns, es) : v = Function(c[1], c[2])
      BY <1>4
    <2>2. v.type = "function" /\ v.node = c[1] /\ v.env = c[2]
      BY <2>1, Types
    <2>3. c = <<c[1], c[2]>>
      BY DEF Closures
    <2>. QED
      BY <2>1, <2>2, <2>3 DEF Kind, PlainKind
  <1>5. CASE v \in Containers(h)
    <2>1. PICK t \in {"array", "hash"}, r \in 1..Len(h) : v = Container(t, r)
      BY <1>5 DEF Containers
    <2>2. v.type = t /\ v.ref = r
      BY <2>1, Types
    <2>. QED
      BY <2>1, <2>2 DEF Kind, PlainKind
  <1>. QED
    BY <1>1, <1>2, <1>3, <1>4, <1>5 DEF Plains, Scalars

LEMMA Kinds ==
  ASSUME NEW ns, NEW es, NEW h, NEW v \in Values(ns, es, h)
  PROVE  Kind(ns, es, h, v)
  <1>1. CASE v \in Plains(ns, es, h)
    BY <1>1, PlainKinds DEF PlainKind
  <1>2. CASE v \in {Break, Continue} /\ (Blocky(ns) \/ Jumpy(ns))
    BY <1>2, Types DEF Kind
  <1>3. CASE v \in Wrappers(ns, es, h) /\ Blocky(ns)
    <2>1. PICK w \in Held(ns, es, h), l \in Layers(ns) : v = Wrapped(w, l)
      BY <1>3 DEF Wrappers
    <2>2. v.type = "return" /\ v.wrapped = w /\ v.layers = l
      BY <2>1, Types
    <2>. QED
      BY <1>3, <2>1, <2>2 DEF Kind
  <1>. QED
    BY <1>1, <1>2, <1>3 DEF Values, Held

(* And the other way round.                                                *)
LEMMA Members ==
  ASSUME NEW ns, NEW es, NEW h
  PROVE  /\ {Number, String, Null, Missing} \subseteq Values(ns, es, h)
         /\ \A b \in BOOLEAN : Boolean(b) \in Values(ns, es, h)
         /\ \A b \in BuiltinNames : Builtin(b) \in Values(ns, es, h)
         /\ \A c \in Closures(ns, es) : Function(c[1], c[2]) \in Values(ns, es, h)
         /\ Containers(h) \subseteq Values(ns, es, h)
         /\ \A t \in {"array", "hash"}, r \in 1..Len(h) :
              Container(t, r) \in Containers(h)
  <1>1. Plains(ns, es, h) \subseteq Values(ns, es, h)
    BY DEF Values, Held
  <1>2. /\ {Number, String, Null, Missing} \subseteq Plains(ns, es, h)
        /\ \A b \in BOOLEAN : Boolean(b) \in Plains(ns, es, h)
        /\ \A b \in BuiltinNames : Builtin(b) \in Plains(ns, es, h)
        /\ \A c \in Closures(ns, es) : Function(c[1], c[2]) \in Plains(ns, es, h)
        /\ Containers(h) \subseteq Plains(ns, es, h)
        /\ \A t \in {"array", "hash"}, r \in 1..Len(h) :
             Container(t, r) \in Containers(h)
    BY DEF Plains, Scalars, Containers
  <1>. QED
    BY <1>1, <1>2

(* No value is an error, or no value.                                      *)
LEMMA NoError ==
  ASSUME NEW ns, NEW es, NEW h, NEW v \in Values(ns, es, h)
  PROVE  v.type \notin {"error", "nothing"} /\ v \notin {Error, Nothing}
  <1>1. Kind(ns, es, h, v)
    BY Kinds
  <1>2. v.type \notin {"error", "nothing"}
    BY <1>1 DEF Kind
  <1>. QED
    BY <1>2, Types

(* Nor is there one in a wrapper.                                          *)
LEMMA HeldPlain ==
  ASSUME NEW ns, NEW es, NEW h, NEW v \in Held(ns, es, h)
  PROVE  v.type \notin {"error", "nothing", "return"} /\ v \notin {Error, Nothing}
  <1>1. v \in Values(ns, es, h)
    BY DEF Values
  <1>2. CASE v \in Plains(ns, es, h)
    BY <1>1, <1>2, NoError, PlainKinds DEF PlainKind
  <1>3. CASE v \in {Break, Continue}
    BY <1>3, Types
  <1>. QED
    BY <1>2, <1>3 DEF Held

(* Taking off a wrapper and putting one on.                                *)
LEMMA Unwrapped ==
  ASSUME NEW ns, NEW es, NEW h, NEW v \in Values(ns, es, h) \cup {Error} \cup Wrappers(ns, es, h)
  PROVE  /\ unwrap_return_value(v) \in Values(ns, es, h) \cup {Error}
         /\ v.type = "return" => unwrap_return_value(v) \in Values(ns, es, h)
  <1>1. CASE v \in Wrappers(ns, es, h)
    <2>1. PICK w \in Held(ns, es, h), l \in Layers(ns) : v = Wrapped(w, l)
      BY <1>1 DEF Wrappers
    <2>2. v.type = "return" /\ v.wrapped = w /\ v.layers = l
      BY <2>1, Types
    <2>3. CASE l = 1
      <3>1. unwrap_return_value(v) = w
        BY <2>2, <2>3 DEF unwrap_return_value
      <3>. QED
        BY <3>1 DEF Values
    <2>4. CASE l # 1
      <3>1. Blocky(ns) /\ l - 1 \in Layers(ns)
        BY <2>4, BoundsNatural DEF Layers
      <3>2. unwrap_return_value(v) = Wrapped(w, l - 1)
        BY <2>2, <2>4 DEF unwrap_return_value
      <3>3. Wrapped(w, l - 1) \in Wrappers(ns, es, h)
        BY <3>1 DEF Wrappers
      <3>. QED
        BY <3>1, <3>2, <3>3 DEF Values
    <2>. QED
      BY <2>3, <2>4
  <1>2. CASE v \in Values(ns, es, h) /\ v.type = "return"
    <2>1. Kind(ns, es, h, v)
      BY <1>2, Kinds
    <2>2. v.wrapped \in Held(ns, es, h) /\ v.layers \in Layers(ns)
          /\ v = Wrapped(v.wrapped, v.layers)
      BY <1>2, <2>1 DEF Kind
    <2>3. v \in Wrappers(ns, es, h)
      BY <2>2 DEF Wrappers
    <2>. QED
      BY <1>1, <2>3
  <1>3. CASE v \in Values(ns, es, h) \cup {Error} /\ v.type # "return"
    BY <1>3 DEF unwrap_return_value
  <1>4. Error.type # "return"
    BY Types
  <1>. QED
    BY <1>1, <1>2, <1>3, <1>4

LEMMA Wraps ==
  ASSUME NEW ns, NEW es, NEW h, NEW v \in Values(ns, es, h),
         v.type = "return" => v.layers < MaxLayers
  PROVE  ReturnValue(v) \in Wrappers(ns, es, h)
  <1>1. Kind(ns, es, h, v)
    BY Kinds
  <1>2. CASE v.type = "return"
    <2>1. /\ v.wrapped \in Held(ns, es, h) /\ v.layers \in Layers(ns) /\ Blocky(ns)
      BY <1>1, <1>2 DEF Kind
    <2>2. v.layers + 1 \in Layers(ns)
      BY <1>2, <2>1, BoundsNatural DEF Layers
    <2>. QED
      BY <1>2, <2>1, <2>2 DEF Wrappers, ReturnValue
  <1>3. CASE v.type # "return"
    <2>1. v \in Held(ns, es, h)
      <3>1. v \notin Wrappers(ns, es, h)
        BY <1>3, Types DEF Wrappers
      <3>. QED
        BY <3>1 DEF Values
    <2>2. 1 \in Layers(ns)
      BY BoundsNatural DEF Layers
    <2>. QED
      BY <1>3, <2>1, <2>2 DEF Wrappers, ReturnValue
  <1>. QED
    BY <1>2, <1>3

----------------------------------------------------------------------------
(* What only grows *)

Grown(ns, es, h, ms, us, g) ==
  /\ Len(ns) \in Nat /\ Len(ms) \in Nat /\ Len(ns) <= Len(ms)
  /\ \A n \in 1..Len(ns) :
       /\ ms[n].role = ns[n].role /\ ms[n].within = ns[n].within
       /\ ns[n].form # Unmet =>
            /\ ms[n].form = ns[n].form /\ ms[n].name = ns[n].name
            /\ Len(ns[n].kids) <= Len(ms[n].kids)
            /\ ns[n].form \notin {"program", "block"} => ms[n].kids = ns[n].kids
  /\ SameChain(es, us)
  /\ Len(h) \in Nat /\ Len(g) \in Nat /\ Len(h) <= Len(g)

(* What is a value stays one as the world grows.                           *)
LEMMA GrownValues ==
  ASSUME NEW ns, NEW es, NEW h, NEW ms, NEW us, NEW g, Grown(ns, es, h, ms, us, g)
  PROVE  /\ Values(ns, es, h) \subseteq Values(ms, us, g)
         /\ Closures(ns, es) \subseteq Closures(ms, us)
         /\ Containers(h) \subseteq Containers(g)
         /\ Wrappers(ns, es, h) \subseteq Wrappers(ms, us, g)
         /\ Cells(ns, es, h) \subseteq Cells(ms, us, g)
         /\ Elements(ns, es, h) \subseteq Elements(ms, us, g)
         /\ \A name : Named(ns, name) => Named(ms, name)
  <1>1. ASSUME NEW c \in Closures(ns, es)
        PROVE  c \in Closures(ms, us)
    <2>1. c \in (1..Len(ns)) \X (1..Len(es)) /\ c[1] \in 1..Len(ns) /\ c[2] \in 1..Len(es)
      BY DEF Closures
    <2>2. c \in (1..Len(ms)) \X (1..Len(us))
      BY <2>1 DEF Grown, SameChain, Ordered
    <2>3. MadeBy(us, c[2]) = MadeBy(es, c[2])
      BY <2>1, MadeBySame DEF Grown
    <2>4. ns[c[1]].form = "function" /\ MadeBy(es, c[2]) = ns[c[1]].within
      BY DEF Closures
    <2>5. ms[c[1]].form = "function" /\ ms[c[1]].within = ns[c[1]].within
      BY <2>1, <2>4 DEF Grown, Unmet
    <2>. QED
      BY <2>2, <2>3, <2>4, <2>5 DEF Closures
  <1>2. Containers(h) \subseteq Containers(g)
    BY DEF Containers, Grown
  <1>3. Blocky(ns) => Blocky(ms)
    <2>1. ASSUME Blocky(ns)
          PROVE  Blocky(ms)
      <3>1. PICK n \in 1..Len(ns) : ns[n].form \in Control /\ ns[n].role = "operand"
        BY <2>1 DEF Blocky
      <3>2. n \in 1..Len(ms) /\ ms[n].role = "operand" /\ ms[n].form = ns[n].form
        BY <3>1 DEF Grown, Control, Loops, Unmet
      <3>. QED
        BY <3>1, <3>2 DEF Blocky
    <2>. QED
      BY <2>1
  <1>4. Jumpy(ns) => Jumpy(ms)
    <2>1. ASSUME Jumpy(ns)
          PROVE  Jumpy(ms)
      <3>1. PICK n, m \in 1..Len(ns) :
              /\ ns[n].form \in {"break", "continue"} /\ ns[m].form = "function"
              /\ \E i \in DOMAIN ns[n].within : ns[n].within[i] = m
        BY <2>1 DEF Jumpy
      <3>2. /\ n \in 1..Len(ms) /\ ms[n].within = ns[n].within /\ ms[n].form = ns[n].form
            /\ m \in 1..Len(ms) /\ ms[m].form = ns[m].form
        BY <3>1 DEF Grown, Unmet
      <3>. QED
        BY <3>1, <3>2 DEF Jumpy
    <2>. QED
      BY <2>1
  <1>5. Held(ns, es, h) \subseteq Held(ms, us, g)
    BY <1>1, <1>2, <1>3, <1>4 DEF Held, Plains
  <1>6. Layers(ns) \subseteq Layers(ms)
    BY <1>3, BoundsNatural DEF Layers
  <1>7. Wrappers(ns, es, h) \subseteq Wrappers(ms, us, g)
    BY <1>5, <1>6 DEF Wrappers
  <1>8. Values(ns, es, h) \subseteq Values(ms, us, g)
    BY <1>3, <1>5, <1>7 DEF Values
  <1>9. Cells(ns, es, h) \subseteq Cells(ms, us, g)
    BY <1>8 DEF Cells
  <1>10. Indexed(ns) => Indexed(ms)
    <2>1. ASSUME Indexed(ns)
          PROVE  Indexed(ms)
      <3>1. PICK n \in 1..Len(ns) : ns[n].form \in {"reassign_index", "reassign_element"}
        BY <2>1 DEF Indexed
      <3>2. n \in 1..Len(ms) /\ ms[n].form = ns[n].form
        BY <3>1 DEF Grown, Unmet
      <3>. QED
        BY <3>1, <3>2 DEF Indexed
    <2>. QED
      BY <2>1
  <1>11. Elements(ns, es, h) \subseteq Elements(ms, us, g)
    BY <1>8, <1>10 DEF Elements
  <1>12. ASSUME NEW name, Named(ns, name)
         PROVE  Named(ms, name)
    <2>1. PICK n \in 1..Len(ns) : ns[n].form = "reassign" /\ ns[n].name = name
      BY <1>12 DEF Named
    <2>2. n \in 1..Len(ms) /\ ms[n].form = ns[n].form /\ ms[n].name = ns[n].name
      BY <2>1 DEF Grown, Unmet
    <2>. QED
      BY <2>1, <2>2 DEF Named
  <1>. QED
    BY <1>1, <1>2, <1>7, <1>8, <1>9, <1>11, <1>12

(* Where a node is in the program does not change.                         *)
LEMMA GrownInside ==
  ASSUME NEW ns, NEW es, NEW h, NEW ms, NEW us, NEW g, Grown(ns, es, h, ms, us, g),
         NEW n \in 1..Len(ns), ScopesFit(ns, n)
  PROVE  InsideFunction(ms, n) <=> InsideFunction(ns, n)
  <1>1. ms[n].within = ns[n].within
    BY DEF Grown
  <1>2. ASSUME NEW i \in DOMAIN ns[n].within
        PROVE  ms[ns[n].within[i]].form = ns[ns[n].within[i]].form
    <2>1. ns[n].within[i] \in 1..Len(ns) /\ ns[ns[n].within[i]].form # Unmet
      BY DEF ScopesFit, Scopes, Loops, Unmet
    <2>. QED
      BY <2>1 DEF Grown
  <1>. QED
    BY <1>1, <1>2 DEF InsideFunction

(* Nor is what a node may return taken from it.                            *)
LEMMA GrownResults ==
  ASSUME NEW ns, NEW es, NEW h, NEW ms, NEW us, NEW g, Grown(ns, es, h, ms, us, g),
         NEW n \in 1..Len(ns), ScopesFit(ns, n)
  PROVE  /\ Results(ns, es, h, n) \subseteq Results(ms, us, g, n)
         /\ Kept(ns, es, h, n) \subseteq Kept(ms, us, g, n)
         /\ AnyResult(ns, es, h) \subseteq AnyResult(ms, us, g)
  <1>1. Values(ns, es, h) \subseteq Values(ms, us, g)
          /\ Wrappers(ns, es, h) \subseteq Wrappers(ms, us, g)
    BY GrownValues
  <1>2. InsideFunction(ms, n) <=> InsideFunction(ns, n)
    BY GrownInside
  <1>3. Ends(ns, es, h, n) \subseteq Ends(ms, us, g, n)
    BY <1>1, <1>2 DEF Ends
  <1>4. {Container("array", r) : r \in 1..Len(h)} \subseteq {Container("array", r) : r \in 1..Len(g)}
    BY DEF Grown
  <1>5. ms[n].role = ns[n].role
    BY DEF Grown
  <1>6. Results(ns, es, h, n) \subseteq Results(ms, us, g, n)
    BY <1>1, <1>3, <1>4, <1>5 DEF Results
  <1>7. Kept(ns, es, h, n) \subseteq Kept(ms, us, g, n)
    BY <1>1, <1>2 DEF Kept
  <1>8. AnyResult(ns, es, h) \subseteq AnyResult(ms, us, g)
    BY <1>1 DEF AnyResult
  <1>. QED
    BY <1>6, <1>7, <1>8

(* A call that is in order stays so.                                       *)
LEMMA GrownFrame ==
  ASSUME NEW ns, NEW es, NEW h, NEW ms, NEW us, NEW g, Grown(ns, es, h, ms, us, g),
         NEW f \in FrameRec(ns, es, h), ScopesFit(ns, f.node), FrameOK(ns, es, h, f)
  PROVE  f \in FrameRec(ms, us, g) /\ FrameOK(ms, us, g, f)
  <1>1. /\ f.node \in 1..Len(ns) /\ f.env \in 1..Len(es) /\ f.inner \in 0..Len(es)
        /\ f.at \in Nat /\ f.vals \in Seq(Values(ns, es, h) \cup {Error, Continue})
    BY DEF FrameRec
  <1>2. /\ Values(ns, es, h) \subseteq Values(ms, us, g)
        /\ Containers(h) \subseteq Containers(g)
        /\ Kept(ns, es, h, f.node) \subseteq Kept(ms, us, g, f.node)
    BY <1>1, GrownValues, GrownResults
  <1>3. /\ \A q \in Seq(Values(ns, es, h)) : q \in Seq(Values(ms, us, g))
        /\ \A q \in Seq(Kept(ns, es, h, f.node)) : q \in Seq(Kept(ms, us, g, f.node))
        /\ Seq(Values(ns, es, h) \cup {Error, Continue})
              \subseteq Seq(Values(ms, us, g) \cup {Error, Continue})
    BY <1>2, SeqMonotonic
  <1>4. /\ f.node \in 1..Len(ms) /\ f.env \in 1..Len(us) /\ f.inner \in 0..Len(us)
        /\ f.vals \in Seq(Values(ms, us, g) \cup {Error, Continue})
    <2>1. f.node \in 1..Len(ms)
      BY <1>1 DEF Grown
    <2>2. Len(es) \in Nat /\ Len(us) \in Nat /\ Len(es) <= Len(us)
      BY DEF Grown, SameChain, Ordered
    <2>3. f.env \in 1..Len(us) /\ f.inner \in 0..Len(us)
      BY <1>1, <2>2
    <2>4. f.vals \in Seq(Values(ms, us, g) \cup {Error, Continue})
      BY <1>1, <1>3
    <2>. QED
      BY <2>1, <2>3, <2>4
  <1>5. f \in FrameRec(ms, us, g)
    BY <1>4 DEF FrameRec
  <1>6. MadeBy(us, f.env) = MadeBy(es, f.env)
    BY <1>1, MadeBySame DEF Grown
  <1>7. f.inner # 0 => MadeBy(us, f.inner) = MadeBy(es, f.inner)
    <2>1. f.inner # 0 => f.inner \in 1..Len(es)
      BY <1>1 DEF Grown, SameChain, Ordered
    <2>. QED
      BY <2>1, MadeBySame DEF Grown
  <1>8. ms[f.node].within = ns[f.node].within
    BY <1>1 DEF Grown
  <1>9. ASSUME Stage(ns, es, h, f)
        PROVE  Stage(ms, us, g, f)
    <2>. DEFINE form == ns[f.node].form
                n == Len(ns[f.node].kids)
                m == Len(ms[f.node].kids)
    <2>1. form # Unmet
      BY <1>9 DEF Stage, Loops, Unmet
    <2>2. ms[f.node].form = form /\ n <= m
      BY <1>1, <2>1 DEF Grown
    <2>3. form \notin {"program", "block"} => m = n
      BY <1>1, <2>1 DEF Grown
    <2>4. CASE form \in {"program", "block"} /\ f.at <= n
      <3>1. n \in Int /\ m \in Int => f.at <= m
        BY <1>1, <2>2, <2>4
      <3>2. f.at <= m
        BY <1>1, <2>2, <2>4, <3>1
      <3>. QED
        BY <2>2, <2>4, <3>2 DEF Stage
    <2>5. CASE form \in {"let", "return", "bang", "minus"} /\ f.at = 1
      BY <2>2, <2>5 DEF Stage
    <2>6. CASE form = "infix" /\ f.at = 1 /\ f.vals = <<>>
      BY <2>2, <2>6 DEF Stage
    <2>7. CASE /\ form = "infix" /\ f.at = 2
               /\ \E v \in Values(ns, es, h) \cup {Error} : f.vals = <<v>>
      BY <1>2, <2>2, <2>7 DEF Stage
    <2>8. CASE form = "index" /\ f.at = 1 /\ f.vals = <<>>
      BY <2>2, <2>8 DEF Stage
    <2>9. CASE form = "index" /\ f.at = 2 /\ \E v \in Containers(h) : f.vals = <<v>>
      BY <1>2, <2>2, <2>9 DEF Stage
    <2>10. CASE form \in {"if", "if_else"} /\ f.at \in 1..2
      BY <2>2, <2>10 DEF Stage
    <2>11. CASE form = "call" /\ f.at = n + 1
      BY <2>2, <2>3, <2>11 DEF Stage
    <2>12. CASE /\ form \in {"call", "array", "hash"} /\ f.at \in 1..n
                /\ f.vals \in Seq(Values(ns, es, h)) /\ Len(f.vals) = f.at - 1
      <3>1. f.at \in 1..m /\ f.vals \in Seq(Values(ms, us, g)) /\ Len(f.vals) = f.at - 1
        BY <1>3, <2>3, <2>12
      <3>. QED
        BY <2>2, <2>12, <3>1 DEF Stage
    <2>13. CASE /\ form \in Loops /\ f.at \in 1..6 /\ f.inner # 0
                /\ f.vals \in Seq(Kept(ns, es, h, f.node))
      <3>1. f.vals \in Seq(Kept(ms, us, g, f.node))
        BY <1>3, <2>13
      <3>. QED
        BY <2>2, <2>13, <3>1 DEF Stage
    <2>14. CASE /\ form \in {"reassign", "reassign_index", "reassign_element"}
                /\ f.at = 1 /\ f.vals = <<>>
      BY <2>2, <2>14 DEF Stage
    <2>15. CASE /\ form \in {"reassign", "reassign_index", "reassign_element"} /\ f.at = 2
                /\ \E v \in Values(ns, es, h) \cup {Error} : f.vals = <<v>>
      BY <1>2, <2>2, <2>15 DEF Stage
    <2>. QED
      BY <1>9, <2>4, <2>5, <2>6, <2>7, <2>8, <2>9, <2>10, <2>11, <2>12, <2>13, <2>14,
         <2>15 DEF Stage
  <1>. QED
    BY <1>5, <1>6, <1>7, <1>8, <1>9 DEF FrameOK

(* A call goes on waiting for what it has waited for.                      *)
LEMMA GrownServes ==
  ASSUME NEW ns, NEW es, NEW h, NEW ms, NEW us, NEW g, Grown(ns, es, h, ms, us, g),
         \A n \in 1..Len(ns) : ScopesFit(ns, n),
         NEW f \in FrameRec(ns, es, h), FrameOK(ns, es, h, f)
  PROVE  /\ Asked(ms, f) = Asked(ns, f)
         /\ \A n \in 1..Len(ns) : Serves(ns, f, n) => Serves(ms, f, n)
  <1>1. f.node \in 1..Len(ns) /\ f.at \in Nat
    BY DEF FrameRec
  <1>2. f.at # 0 => ns[f.node].form # Unmet
    BY DEF FrameOK, Stage, Loops, Unmet
  <1>3. f.at # 0 => /\ ms[f.node].form = ns[f.node].form
                    /\ ns[f.node].form = "call" => ms[f.node].kids = ns[f.node].kids
    BY <1>1, <1>2 DEF Grown
  <1>4. Asked(ms, f) = Asked(ns, f)
    <2>1. CASE f.at = 0
      BY <2>1 DEF Asked
    <2>2. CASE f.at # 0 /\ ns[f.node].form = "call"
      <3>1. ms[f.node].form = "call" /\ Len(ms[f.node].kids) = Len(ns[f.node].kids)
        BY <1>3, <2>2
      <3>. QED
        BY <1>1, <2>2, <3>1 DEF Asked, Loops
    <2>3. CASE f.at # 0 /\ ns[f.node].form # "call"
      BY <1>1, <1>3, <2>3 DEF Asked
    <2>. QED
      BY <2>1, <2>2, <2>3
  <1>5. ASSUME NEW n \in 1..Len(ns), Serves(ns, f, n)
        PROVE  Serves(ms, f, n)
    <2>1. n \in 1..Len(ms) /\ ms[n].role = ns[n].role
      BY DEF Grown
    <2>2. ScopesFit(ns, n) /\ ScopesFit(ns, f.node)
      BY <1>1
    <2>3. /\ InsideFunction(ms, n) <=> InsideFunction(ns, n)
          /\ InsideFunction(ms, f.node) <=> InsideFunction(ns, f.node)
      BY <1>1, <2>2, GrownInside
    <2>4. Asked(ns, f) = "block" => f.at # 0
      BY DEF Asked
    <2>. QED
      BY <1>3, <1>4, <1>5, <2>1, <2>3, <2>4 DEF Serves
  <1>. QED
    BY <1>4, <1>5

LEMMA GrownCalls ==
  ASSUME NEW ns, NEW es, NEW h, NEW ms, NEW us, NEW g, Grown(ns, es, h, ms, us, g),
         \A n \in 1..Len(ns) : ScopesFit(ns, n),
         NEW fs, Calls(ns, es, h, fs)
  PROVE  Calls(ms, us, g, fs)
  <1>1. /\ fs \in Seq(FrameRec(ns, es, h)) /\ Len(fs) \in Nat
        /\ fs = [i \in 1..Len(fs) |-> fs[i]]
    BY LenProperties, IsASeq DEF Calls
  <1>2. ASSUME NEW i \in 1..Len(fs)
        PROVE  /\ fs[i] \in FrameRec(ns, es, h) /\ FrameOK(ns, es, h, fs[i])
               /\ fs[i].node \in 1..Len(ns)
    <2>1. fs[i] \in FrameRec(ns, es, h)
      BY <1>1, ElementOfSeq
    <2>. QED
      BY <2>1 DEF Calls, FrameRec
  <1>3. ASSUME NEW i \in 1..Len(fs)
        PROVE  fs[i] \in FrameRec(ms, us, g) /\ FrameOK(ms, us, g, fs[i])
    BY <1>2, GrownFrame
  <1>4. fs \in Seq(FrameRec(ms, us, g))
    BY <1>1, <1>3, IsASeq
  <1>5. ASSUME NEW i \in 1..Len(fs) - 1
        PROVE  Serves(ms, fs[i], fs[i + 1].node)
    <2>1. i \in 1..Len(fs) /\ i + 1 \in 1..Len(fs)
      BY <1>1
    <2>2. fs[i + 1].node \in 1..Len(ns) /\ Serves(ns, fs[i], fs[i + 1].node)
      BY <1>2, <2>1 DEF Calls
    <2>. QED
      BY <1>2, <2>1, <2>2, GrownServes
  <1>. QED
    BY <1>3, <1>4, <1>5 DEF Calls

LEMMA GrownReturned ==
  ASSUME NEW ns, NEW es, NEW h, NEW ms, NEW us, NEW g, Grown(ns, es, h, ms, us, g),
         \A n \in 1..Len(ns) : ScopesFit(ns, n),
         NEW fs, Calls(ns, es, h, fs), NEW r, Returned(ns, es, h, fs, r)
  PROVE  Returned(ms, us, g, fs, r)
  <1>1. r \in AnyResult(ms, us, g)
    BY GrownValues DEF Returned, AnyResult
  <1>2. ASSUME fs # <<>>
        PROVE  /\ fs[Len(fs)] \in FrameRec(ns, es, h)
               /\ FrameOK(ns, es, h, fs[Len(fs)])
    <2>1. Len(fs) \in 1..Len(fs)
      BY <1>2, EmptySeq, LenProperties DEF Calls
    <2>. QED
      BY <2>1, ElementOfSeq DEF Calls
  <1>3. ASSUME fs # <<>>, Asked(ms, fs[Len(fs)]) \notin {"none", "let"}
        PROVE  \E n \in 1..Len(ms) :
                 Serves(ms, fs[Len(fs)], n) /\ r \in Results(ms, us, g, n)
    <2>1. Asked(ms, fs[Len(fs)]) = Asked(ns, fs[Len(fs)])
      BY <1>2, <1>3, GrownServes
    <2>2. PICK n \in 1..Len(ns) : Serves(ns, fs[Len(fs)], n) /\ r \in Results(ns, es, h, n)
      BY <1>3, <2>1 DEF Returned
    <2>3. Serves(ms, fs[Len(fs)], n)
      BY <1>2, <1>3, <2>2, GrownServes
    <2>4. r \in Results(ms, us, g, n)
      BY <2>2, GrownResults
    <2>5. n \in 1..Len(ms)
      BY DEF Grown
    <2>. QED
      BY <2>3, <2>4, <2>5
  <1>. QED
    BY <1>1, <1>3 DEF Returned

----------------------------------------------------------------------------
(* Calls and returns *)

(* The innermost call.                                                     *)
LEMMA TopFrame ==
  ASSUME NEW ns, NEW es, NEW h, NEW fs, Calls(ns, es, h, fs), fs # <<>>
  PROVE  /\ Len(fs) \in Nat \ {0} /\ Len(fs) \in 1..Len(fs)
         /\ fs[Len(fs)] \in FrameRec(ns, es, h) /\ FrameOK(ns, es, h, fs[Len(fs)])
         /\ fs[Len(fs)].node \in 1..Len(ns) /\ fs[Len(fs)].env \in 1..Len(es)
         /\ fs[Len(fs)].inner \in 0..Len(es) /\ fs[Len(fs)].at \in Nat
         /\ fs[Len(fs)].vals \in Seq(Values(ns, es, h) \cup {Error, Continue})
  <1>1. Len(fs) \in Nat \ {0}
    BY EmptySeq DEF Calls
  <1>2. Len(fs) \in 1..Len(fs)
    BY <1>1
  <1>3. fs[Len(fs)] \in FrameRec(ns, es, h)
    BY <1>2, ElementOfSeq DEF Calls
  <1>. QED
    BY <1>1, <1>2, <1>3 DEF Calls, FrameRec

(* A call that waits for something is not searching.                       *)
LEMMA ServesRole ==
  ASSUME NEW ns, NodesOK(ns), NEW f, NEW n \in 1..Len(ns), Serves(ns, f, n)
  PROVE  Asked(ns, f) # "none" /\ ns[n].role = Asked(ns, f) /\ ns[n].role \in Roles
  <1>1. ns[n] \in NodeRec
    BY ElementOfSeq DEF NodesOK
  <1>. QED
    BY <1>1 DEF Serves, NodeRec, Roles

LEMMA ResultsKnown ==
  ASSUME NEW ns, NEW es, NEW h, NEW n
  PROVE  Results(ns, es, h, n) \subseteq AnyResult(ns, es, h)
  <1>1. {Container("array", r) : r \in 1..Len(h)} \subseteq Values(ns, es, h)
    BY Members
  <1>2. Ends(ns, es, h, n) \subseteq AnyResult(ns, es, h)
    BY DEF Ends, AnyResult
  <1>3. Values(ns, es, h) \cup {Error} \subseteq AnyResult(ns, es, h)
    BY DEF AnyResult
  <1>. QED
    BY <1>1, <1>2, <1>3 DEF Results

Above(fs) == SubSeq(fs, 1, Len(fs) - 1)

(* A call that returns what its node may return.                           *)
LEMMA GiveOK ==
  ASSUME NEW ns, NEW es, NEW h, NodesOK(ns), NEW fs, Calls(ns, es, h, fs), fs # <<>>,
         NEW v \in Results(ns, es, h, fs[Len(fs)].node)
  PROVE  /\ Calls(ns, es, h, Above(fs))
         /\ Returned(ns, es, h, Above(fs), v)
         /\ ~Searching(ns, Above(fs))
  <1>. DEFINE gs == Above(fs)
              l == Len(fs) - 1
  <1>1. /\ Len(fs) \in Nat \ {0} /\ fs \in Seq(FrameRec(ns, es, h)) /\ l \in Nat
        /\ fs[Len(fs)].node \in 1..Len(ns)
    <2>1. Len(fs) \in Nat \ {0} /\ fs[Len(fs)].node \in 1..Len(ns)
      BY TopFrame
    <2>. QED
      BY <2>1 DEF Calls
  <1>2. \A i \in 1..l : fs[i] \in FrameRec(ns, es, h)
    <2>1. \A i \in 1..l : i \in 1..Len(fs)
      BY <1>1
    <2>. QED
      BY <1>1, <2>1, ElementOfSeq
  <1>3. /\ gs \in Seq(FrameRec(ns, es, h)) /\ Len(gs) = l
        /\ \A i \in 1..l : gs[i] = fs[i]
    <2>1. 1 \in Int /\ l \in Int
      BY <1>1
    <2>2. /\ SubSeq(fs, 1, l) \in Seq(FrameRec(ns, es, h))
          /\ Len(SubSeq(fs, 1, l)) = IF 1 <= l THEN l - 1 + 1 ELSE 0
          /\ \A i \in 1..l - 1 + 1 : SubSeq(fs, 1, l)[i] = fs[1 + i - 1]
      BY <1>2, <2>1, SubSeqProperties
    <2>3. gs = SubSeq(fs, 1, l)
      BY DEF Above
    <2>. HIDE DEF gs
    <2>4. Len(gs) = l
      <3>1. l \in Nat
        BY <1>1
      <3>. HIDE DEF l
      <3>2. (IF 1 <= l THEN l - 1 + 1 ELSE 0) = l
        BY <3>1
      <3>. QED
        BY <2>2, <2>3, <3>2
    <2>5. ASSUME NEW i \in 1..l
          PROVE  gs[i] = fs[i]
      <3>1. i \in 1..l - 1 + 1 /\ 1 + i - 1 = i
        BY <1>1
      <3>. QED
        BY <2>2, <2>3, <3>1
    <2>. QED
      BY <2>2, <2>3, <2>4, <2>5
  <1>. HIDE DEF gs
  <1>4. Calls(ns, es, h, gs)
    <2>1. \A i \in 1..Len(gs) : FrameOK(ns, es, h, gs[i])
      BY <1>1, <1>3 DEF Calls
    <2>2. ASSUME NEW i \in 1..Len(gs) - 1
          PROVE  Serves(ns, gs[i], gs[i + 1].node)
      <3>1. i \in 1..Len(fs) - 1 /\ i \in 1..l /\ i + 1 \in 1..l
        BY <1>1, <1>3
      <3>. QED
        BY <1>3, <3>1 DEF Calls
    <2>. QED
      BY <1>3, <2>1, <2>2 DEF Calls
  <1>5. gs # <<>> => /\ l \in 1..Len(fs) - 1
                     /\ gs[Len(gs)] = fs[l]
                     /\ Serves(ns, gs[Len(gs)], fs[Len(fs)].node)
    <2>1. gs # <<>> => Len(gs) \in Nat \ {0}
      BY <1>3, EmptySeq
    <2>2. gs # <<>> => l \in 1..Len(fs) - 1 /\ l + 1 = Len(fs)
      BY <1>1, <1>3, <2>1
    <2>3. gs # <<>> => Serves(ns, fs[l], fs[l + 1].node)
      BY <2>2 DEF Calls
    <2>. QED
      BY <1>3, <2>2, <2>3
  <1>6. Returned(ns, es, h, gs, v)
    <2>1. v \in AnyResult(ns, es, h)
      BY ResultsKnown
    <2>2. gs # <<>> => \E n \in 1..Len(ns) :
                         Serves(ns, gs[Len(gs)], n) /\ v \in Results(ns, es, h, n)
      BY <1>1, <1>5
    <2>. HIDE DEF gs
    <2>. QED
      BY <2>1, <2>2 DEF Returned
  <1>7. ~Searching(ns, gs)
    <2>1. gs # <<>> => Asked(ns, gs[Len(gs)]) # "none"
      BY <1>1, <1>5, ServesRole
    <2>. QED
      BY <2>1 DEF Searching, Asked, Loops
  <1>. QED
    BY <1>4, <1>6, <1>7 DEF gs

(* The top call goes on.                                                   *)
IsTop(gs, fs, f) == gs = [fs EXCEPT ![Len(fs)] = f]

(* The innermost call alone changes.                                       *)
LEMMA TopMoves ==
  ASSUME NEW ns, NEW es, NEW h, NEW fs, Calls(ns, es, h, fs), fs # <<>>,
         NEW f, f \in FrameRec(ns, es, h), FrameOK(ns, es, h, f),
         f.node = fs[Len(fs)].node,
         NEW gs, IsTop(gs, fs, f)
  PROVE  Calls(ns, es, h, gs) /\ Len(gs) = Len(fs) /\ gs # <<>> /\ gs[Len(gs)] = f
  <1>1. /\ Len(fs) \in Nat \ {0} /\ Len(fs) \in 1..Len(fs)
        /\ fs \in Seq(FrameRec(ns, es, h))
    BY TopFrame DEF Calls
  <1>2. /\ gs \in Seq(FrameRec(ns, es, h)) /\ Len(gs) = Len(fs)
        /\ \A j \in 1..Len(fs) : gs[j] = IF j = Len(fs) THEN f ELSE fs[j]
    <2>. DEFINE us == [fs EXCEPT ![Len(fs)] = f]
    <2>1. /\ us \in Seq(FrameRec(ns, es, h)) /\ Len(us) = Len(fs)
          /\ \A j \in 1..Len(fs) : us[j] = IF j = Len(fs) THEN f ELSE fs[j]
      BY <1>1, ExceptSeq
    <2>2. gs = us
      BY DEF IsTop
    <2>. HIDE DEF us
    <2>. QED
      BY <2>1, <2>2
  <1>3. gs # <<>> /\ gs[Len(gs)] = f
    <2>1. gs # <<>>
      BY <1>1, <1>2, EmptySeq
    <2>. QED
      BY <1>1, <1>2, <2>1
  <1>4. \A i \in 1..Len(gs) : FrameOK(ns, es, h, gs[i])
    BY <1>2 DEF Calls
  <1>5. ASSUME NEW i \in 1..Len(gs) - 1
        PROVE  Serves(ns, gs[i], gs[i + 1].node)
    <2>1. i \in 1..Len(fs) - 1 /\ i \in 1..Len(fs) /\ i + 1 \in 1..Len(fs) /\ i # Len(fs)
      BY <1>1, <1>2
    <2>2. gs[i] = fs[i] /\ gs[i + 1].node = fs[i + 1].node
      BY <1>2, <2>1
    <2>. QED
      BY <2>1, <2>2 DEF Calls
  <1>6. Calls(ns, es, h, gs)
    BY <1>2, <1>4, <1>5 DEF Calls
  <1>. QED
    BY <1>2, <1>3, <1>6

(* What call f may evaluate next, and where.                               *)
CanCall(ns, es, f, n, e) ==
  n \in 1..Len(ns) /\ e \in 1..Len(es) /\ MadeBy(es, e) = ns[n].within /\ Serves(ns, f, n)

(* It calls eval for what it is waiting for.                               *)
LEMMA Pushed ==
  ASSUME NEW ns, NEW es, NEW h, NodesOK(ns), NEW fs, Calls(ns, es, h, fs), fs # <<>>,
         NEW n, NEW e, CanCall(ns, es, fs[Len(fs)], n, e)
  PROVE  LET gs == Append(fs, Frame(n, e))
         IN  /\ Calls(ns, es, h, gs) /\ Returned(ns, es, h, gs, Nothing)
             /\ ~Searching(ns, gs)
  <1>. DEFINE f == Frame(n, e)
              gs == Append(fs, f)
  <1>. USE DEF CanCall
  <1>1. /\ Len(fs) \in Nat \ {0} /\ fs \in Seq(FrameRec(ns, es, h))
    BY TopFrame DEF Calls
  <1>2. f \in FrameRec(ns, es, h) /\ FrameOK(ns, es, h, f) /\ f.at = 0 /\ f.node = n
    <2>1. <<>> \in Seq(Values(ns, es, h) \cup {Error, Continue})
      BY EmptySeq
    <2>2. f \in FrameRec(ns, es, h)
      BY <2>1 DEF Frame, FrameRec
    <2>. QED
      BY <2>2 DEF Frame, FrameOK
  <1>. HIDE DEF f
  <1>3. /\ gs \in Seq(FrameRec(ns, es, h)) /\ gs # <<>> /\ Len(gs) = Len(fs) + 1
        /\ \A i \in 1..Len(fs) : gs[i] = fs[i]
        /\ gs[Len(fs) + 1] = f
    BY <1>1, <1>2, AppendProperties
  <1>. HIDE DEF gs
  <1>4. \A i \in 1..Len(gs) : FrameOK(ns, es, h, gs[i])
    <2>1. \A i \in 1..Len(gs) : i \in 1..Len(fs) \/ i = Len(fs) + 1
      BY <1>1, <1>3
    <2>. QED
      BY <1>2, <1>3, <2>1 DEF Calls
  <1>5. ASSUME NEW i \in 1..Len(gs) - 1
        PROVE  Serves(ns, gs[i], gs[i + 1].node)
    <2>1. CASE i = Len(fs)
      BY <1>1, <1>2, <1>3, <2>1
    <2>2. CASE i # Len(fs)
      <3>1. i \in 1..Len(fs) - 1 /\ i \in 1..Len(fs) /\ i + 1 \in 1..Len(fs)
        BY <1>1, <1>3, <2>2
      <3>. QED
        BY <1>3, <3>1 DEF Calls
    <2>. QED
      BY <2>1, <2>2
  <1>6. Calls(ns, es, h, gs)
    BY <1>3, <1>4, <1>5 DEF Calls
  <1>7. gs[Len(gs)] = f
    BY <1>3
  <1>8. Returned(ns, es, h, gs, Nothing)
    BY <1>2, <1>7 DEF Returned, Asked, AnyResult
  <1>9. ~Searching(ns, gs)
    BY <1>2, <1>7 DEF Searching
  <1>. QED
    BY <1>6, <1>8, <1>9 DEF gs, f

----------------------------------------------------------------------------
(* The children of a node *)

LoopRoles == {"let", "operand", "statement", "block"}

LEMMA ArmsOfFor ==
  ASSUME NEW arms \in Arms("for")
  PROVE  arms \in Seq(LoopRoles) /\ Len(arms) \in Nat \ {0} /\ arms[Len(arms)] = "block"
  <1>1. Arms("for") = {i \o c \o u \o <<"block">> :
                         i \in Optional("let"), c \in Optional("operand"),
                         u \in Optional("statement")}
    BY DEF Arms
  <1>2. PICK i \in Optional("let"), c \in Optional("operand"), u \in Optional("statement") :
          arms = i \o c \o u \o <<"block">>
    BY <1>1
  <1>3. i \in Seq(LoopRoles) /\ c \in Seq(LoopRoles) /\ u \in Seq(LoopRoles)
    <2>1. ASSUME NEW role \in LoopRoles, NEW q \in Optional(role)
          PROVE  q \in Seq(LoopRoles)
      <3>1. CASE q = <<>>
        BY <3>1, EmptySeq
      <3>2. CASE q = <<role>>
        BY <3>2
      <3>. QED
        BY <2>1, <3>1, <3>2 DEF Optional
    <2>2. {"let", "operand", "statement"} \subseteq LoopRoles
      BY DEF LoopRoles
    <2>. QED
      BY <2>1, <2>2
  <1>4. i \o c \in Seq(LoopRoles)
    BY <1>3, ConcatProperties
  <1>5. (i \o c) \o u \in Seq(LoopRoles)
    BY <1>3, <1>4, ConcatProperties
  <1>. DEFINE q == (i \o c) \o u
  <1>6. arms = q \o <<"block">>
    BY <1>2
  <1>7. q \in Seq(LoopRoles) /\ Len(q) \in Nat
    BY <1>5, LenProperties
  <1>. HIDE DEF q
  <1>8. q \o <<"block">> = Append(q, "block")
    BY <1>7, AppendIsConcat DEF LoopRoles
  <1>9. /\ Append(q, "block") \in Seq(LoopRoles)
        /\ Len(Append(q, "block")) = Len(q) + 1
        /\ Append(q, "block")[Len(q) + 1] = "block"
    BY <1>7, AppendProperties DEF LoopRoles
  <1>. QED
    BY <1>6, <1>7, <1>8, <1>9

Role(ns, n, i) == ns[ns[n].kids[i]].role

(* How many children there are, and their roles.                           *)
LEMMA Arity ==
  ASSUME NEW ns, NEW n, ns[n].kids \in Seq(Nat), KidsFit(ns, n)
  PROVE  LET form == ns[n].form
             len  == Len(ns[n].kids)
         IN  /\ form \in {"let", "return", "bang", "minus"} =>
                  len = 1 /\ Role(ns, n, 1) = "operand"
             /\ form \in {"infix", "index"} =>
                  len = 2 /\ Role(ns, n, 1) = "operand" /\ Role(ns, n, 2) = "operand"
             /\ form = "if" =>
                  len = 2 /\ Role(ns, n, 1) = "operand" /\ Role(ns, n, 2) = "block"
             /\ form = "if_else" =>
                  /\ len = 3 /\ Role(ns, n, 1) = "operand"
                  /\ Role(ns, n, 2) = "block" /\ Role(ns, n, 3) = "block"
             /\ form = "function" => len = 1 /\ Role(ns, n, 1) = "block"
             /\ form = "call" => len >= 1
             /\ form \in {"call", "array", "hash"} =>
                  \A i \in 1..len : Role(ns, n, i) = "operand"
             /\ form \in {"reassign", "reassign_index"} => len = 1 /\ Role(ns, n, 1) = "operand"
             /\ form = "reassign_element" =>
                  len = 2 /\ Role(ns, n, 1) = "operand" /\ Role(ns, n, 2) = "array"
             /\ form \in Loops => \E i \in 1..len : Role(ns, n, i) = "block"
  <1>. DEFINE form == ns[n].form
              kids == ns[n].kids
              roles == [i \in DOMAIN kids |-> ns[kids[i]].role]
  <1>1. DOMAIN kids = 1..Len(kids) /\ Len(kids) \in Nat
    BY LenProperties
  <1>2. DOMAIN roles = 1..Len(kids) /\ \A i \in 1..Len(kids) : roles[i] = Role(ns, n, i)
    BY <1>1 DEF Role
  <1>3. form \in AllForms => roles \in Arms(form)
    BY DEF KidsFit
  <1>. HIDE DEF roles
  <1>4. ASSUME NEW k \in Nat, DOMAIN roles = 1..k
        PROVE  Len(kids) = k
    BY <1>1, <1>2, <1>4
  <1>5. ASSUME form \in {"let", "return", "bang", "minus"}
        PROVE  Len(kids) = 1 /\ Role(ns, n, 1) = "operand"
    <2>1. roles = <<"operand">>
      BY <1>3, <1>5 DEF Arms, AllForms
    <2>2. DOMAIN roles = 1..1
      BY <2>1
    <2>3. Len(kids) = 1
      BY <1>4, <2>2
    <2>. QED
      BY <1>2, <2>1, <2>3
  <1>6. ASSUME form \in {"infix", "index"}
        PROVE  Len(kids) = 2 /\ Role(ns, n, 1) = "operand" /\ Role(ns, n, 2) = "operand"
    <2>1. roles = <<"operand", "operand">>
      BY <1>3, <1>6 DEF Arms, AllForms
    <2>2. DOMAIN roles = 1..2
      BY <2>1
    <2>3. Len(kids) = 2
      BY <1>4, <2>2
    <2>. QED
      BY <1>2, <2>1, <2>3
  <1>7. ASSUME form = "if"
        PROVE  Len(kids) = 2 /\ Role(ns, n, 1) = "operand" /\ Role(ns, n, 2) = "block"
    <2>1. roles = <<"operand", "block">>
      BY <1>3, <1>7 DEF Arms, AllForms
    <2>2. DOMAIN roles = 1..2
      BY <2>1
    <2>3. Len(kids) = 2
      BY <1>4, <2>2
    <2>. QED
      BY <1>2, <2>1, <2>3
  <1>8. ASSUME form = "if_else"
        PROVE  /\ Len(kids) = 3 /\ Role(ns, n, 1) = "operand"
               /\ Role(ns, n, 2) = "block" /\ Role(ns, n, 3) = "block"
    <2>1. roles = <<"operand", "block", "block">>
      BY <1>3, <1>8 DEF Arms, AllForms
    <2>2. DOMAIN roles = 1..3
      BY <2>1
    <2>3. Len(kids) = 3
      BY <1>4, <2>2
    <2>. QED
      BY <1>2, <2>1, <2>3
  <1>9. ASSUME form = "function"
        PROVE  Len(kids) = 1 /\ Role(ns, n, 1) = "block"
    <2>1. roles = <<"block">>
      BY <1>3, <1>9 DEF Arms, AllForms
    <2>2. DOMAIN roles = 1..1
      BY <2>1
    <2>3. Len(kids) = 1
      BY <1>4, <2>2
    <2>. QED
      BY <1>2, <2>1, <2>3
  <1>10. ASSUME form \in {"call", "array", "hash"}
         PROVE  /\ \A i \in 1..Len(kids) : Role(ns, n, i) = "operand"
                /\ form = "call" => Len(kids) >= 1
    <2>1. PICK m \in 0..MaxArgs : roles = Repeat("operand", IF form = "call" THEN m + 1
                                                           ELSE IF form = "array" THEN m
                                                           ELSE 2 * m)
      BY <1>3, <1>10 DEF Arms, AllForms
    <2>2. m \in Nat
      BY BoundsNatural
    <2>3. \A i \in DOMAIN roles : roles[i] = "operand"
      BY <2>1 DEF Repeat
    <2>4. form = "call" => DOMAIN roles = 1..m + 1
      BY <2>1 DEF Repeat
    <2>5. form = "call" => Len(kids) = m + 1
      <3>1. m + 1 \in Nat
        BY <2>2
      <3>. QED
        BY <1>4, <2>4, <3>1
    <2>. QED
      BY <1>2, <2>2, <2>3, <2>5
  <1>11. ASSUME form \in {"reassign", "reassign_index"}
         PROVE  Len(kids) = 1 /\ Role(ns, n, 1) = "operand"
    <2>1. roles = <<"operand">>
      BY <1>3, <1>11 DEF Arms, AllForms
    <2>2. DOMAIN roles = 1..1
      BY <2>1
    <2>3. Len(kids) = 1
      BY <1>4, <2>2
    <2>. QED
      BY <1>2, <2>1, <2>3
  <1>12. ASSUME form = "reassign_element"
         PROVE  Len(kids) = 2 /\ Role(ns, n, 1) = "operand" /\ Role(ns, n, 2) = "array"
    <2>1. roles = <<"operand", "array">>
      BY <1>3, <1>12 DEF Arms, AllForms
    <2>2. DOMAIN roles = 1..2
      BY <2>1
    <2>3. Len(kids) = 2
      BY <1>4, <2>2
    <2>. QED
      BY <1>2, <2>1, <2>3
  <1>13. ASSUME form \in Loops
         PROVE  \E i \in 1..Len(kids) : Role(ns, n, i) = "block"
    <2>1. CASE form = "while"
      <3>1. roles = <<"operand", "block">>
        BY <1>3, <2>1 DEF Arms, AllForms
      <3>2. 2 \in DOMAIN roles /\ roles[2] = "block"
        BY <3>1
      <3>. QED
        BY <1>2, <3>2
    <2>2. CASE form = "for"
      <3>1. roles \in Arms("for")
        BY <1>3, <2>2 DEF AllForms
      <3>2. roles \in Seq(LoopRoles) /\ Len(roles) \in Nat \ {0} /\ roles[Len(roles)] = "block"
        BY <3>1, ArmsOfFor
      <3>3. Len(roles) \in DOMAIN roles
        BY <3>2, LenProperties
      <3>. QED
        BY <1>2, <3>2, <3>3
    <2>. QED
      BY <1>13, <2>1, <2>2 DEF Loops
  <1>. QED
    BY <1>5, <1>6, <1>7, <1>8, <1>9, <1>10, <1>11, <1>12, <1>13


----------------------------------------------------------------------------
(* The state *)

(* What holds while the innermost call evaluates a node of one of forms.   *)
Now(forms) ==
  /\ frames # <<>> /\ depth = Len(frames) /\ status = "running"
  /\ Top = frames[Len(frames)]
  /\ Top \in FrameRec(nodes, envs, heap) /\ FrameOK(nodes, envs, heap, Top)
  /\ Top.node \in 1..Len(nodes) /\ Top.env \in 1..Len(envs)
  /\ Top.inner \in 0..Len(envs) /\ Top.at \in Nat
  /\ Top.vals \in Seq(Values(nodes, envs, heap) \cup {Error, Continue})
  /\ Here = nodes[Top.node] /\ Here \in NodeRec /\ Here.form \in forms
  /\ FormFits(nodes, Top.node) /\ KidsFit(nodes, Top.node) /\ ScopesFit(nodes, Top.node)

(* What a step that finds its form at the innermost call may rely on.      *)
LEMMA Running ==
  ASSUME IInv, NEW forms, In(forms)
  PROVE  Now(forms)
  <1>1. /\ Calls(nodes, envs, heap, frames) /\ NodesOK(nodes)
        /\ status = "running" /\ depth > 0 /\ Here.form \in forms
    BY DEF IInv, World, In
  <1>2. frames # <<>> /\ depth = Len(frames) /\ Top = frames[Len(frames)]
    <2>1. depth = Len(frames) /\ Top = frames[Len(frames)]
      BY DEF depth, Top
    <2>. QED
      BY <1>1, <2>1, EmptySeq
  <1>3. /\ Top \in FrameRec(nodes, envs, heap) /\ FrameOK(nodes, envs, heap, Top)
        /\ Top.node \in 1..Len(nodes) /\ Top.env \in 1..Len(envs)
        /\ Top.inner \in 0..Len(envs) /\ Top.at \in Nat
        /\ Top.vals \in Seq(Values(nodes, envs, heap) \cup {Error, Continue})
    BY <1>1, <1>2, TopFrame
  <1>4. Here = nodes[Top.node] /\ nodes[Top.node] \in NodeRec
    <2>1. nodes[Top.node] \in NodeRec
      BY <1>1, <1>3, ElementOfSeq DEF NodesOK
    <2>. QED
      BY <2>1 DEF Here
  <1>5. FormFits(nodes, Top.node) /\ KidsFit(nodes, Top.node) /\ ScopesFit(nodes, Top.node)
    BY <1>1, <1>3 DEF NodesOK
  <1>. QED
    BY <1>1, <1>2, <1>3, <1>4, <1>5 DEF Now

LEMMA GrownRefl ==
  ASSUME NEW ns, NEW es, NEW h, World(ns, es, h)
  PROVE  Grown(ns, es, h, ns, es, h)
  <1>1. Len(ns) \in Nat /\ Len(es) \in Nat /\ Len(h) \in Nat
    BY LenProperties DEF World, NodesOK, EnvsOK
  <1>2. SameChain(es, es)
    BY <1>1 DEF SameChain, Ordered, World, EnvsOK
  <1>. QED
    BY <1>1, <1>2 DEF Grown

(* The program, the environments and the arrays of the next state.         *)
NewWorld ==
  /\ suite' = suite
  /\ World(nodes', envs', heap')
  /\ Grown(nodes, envs, heap, nodes', envs', heap')

(* A step that touches neither program, environments nor arrays.           *)
LEMMA SameWorld ==
  ASSUME IInv, UNCHANGED <<suite, nodes, envs, heap>>
  PROVE  NewWorld
  <1>1. World(nodes, envs, heap)
    BY DEF IInv
  <1>2. Grown(nodes, envs, heap, nodes, envs, heap)
    BY <1>1, GrownRefl
  <1>. QED
    BY <1>1, <1>2 DEF NewWorld

(* What the invariant says of the calls is kept as the world grows.        *)
LEMMA Stays ==
  ASSUME IInv, NewWorld
  PROVE  /\ Calls(nodes', envs', heap', frames)
         /\ Returned(nodes', envs', heap', frames, ret)
         /\ NodesOK(nodes') /\ suite' \in DOMAIN Suites
  <1>1. \A n \in 1..Len(nodes) : ScopesFit(nodes, n)
    BY DEF IInv, World, NodesOK
  <1>2. /\ Calls(nodes, envs, heap, frames) /\ Returned(nodes, envs, heap, frames, ret)
        /\ Grown(nodes, envs, heap, nodes', envs', heap')
    BY DEF IInv, NewWorld
  <1>3. Calls(nodes', envs', heap', frames)
    BY <1>1, <1>2, GrownCalls
  <1>4. Returned(nodes', envs', heap', frames, ret)
    BY <1>1, <1>2, GrownReturned
  <1>. QED
    BY <1>3, <1>4 DEF NewWorld, World, IInv

(* The innermost call returns.                                             *)
LEMMA GivesIn ==
  ASSUME IInv, NewWorld, frames # <<>>, NEW v, Give(v), UNCHANGED status,
         v \in Results(nodes', envs', heap', Top.node)
  PROVE  IInv'
  <1>1. Calls(nodes', envs', heap', frames) /\ NodesOK(nodes') /\ suite' \in DOMAIN Suites
    BY Stays
  <1>2. frames' = Above(frames) /\ ret' = v /\ Top = frames[Len(frames)]
    BY DEF Give, Above, depth, Top
  <1>3. v \in Results(nodes', envs', heap', frames[Len(frames)].node)
    BY <1>2
  <1>4. /\ Calls(nodes', envs', heap', Above(frames))
        /\ Returned(nodes', envs', heap', Above(frames), v)
        /\ ~Searching(nodes', Above(frames))
    BY <1>1, <1>3, GiveOK
  <1>. QED
    BY <1>1, <1>2, <1>4 DEF IInv, NewWorld, Searches

(* The run is over, or cannot go on.                                       *)
LEMMA DiesIn ==
  ASSUME IInv, NewWorld, Die
  PROVE  IInv'
  <1>1. /\ Calls(nodes', envs', heap', frames) /\ suite' \in DOMAIN Suites
        /\ Returned(nodes', envs', heap', frames, ret)
    BY Stays
  <1>. QED
    BY <1>1 DEF IInv, NewWorld, Die

LEMMA FinishesIn ==
  ASSUME IInv, NewWorld, NEW v \in AnyResult(nodes', envs', heap'), Finish(v)
  PROVE  IInv'
  <1>1. suite' \in DOMAIN Suites
    BY Stays
  <1>2. frames' = <<>> /\ Len(<<>>) = 0 /\ \A S : <<>> \in Seq(S)
    BY EmptySeq DEF Finish
  <1>3. Calls(nodes', envs', heap', <<>>) /\ Returned(nodes', envs', heap', <<>>, v)
    BY <1>2 DEF Calls, Returned
  <1>. QED
    BY <1>1, <1>2, <1>3 DEF IInv, NewWorld, Finish

(* A call f at another point.                                              *)
Moved(f, at, inner, vals) ==
  [node |-> f.node, env |-> f.env, inner |-> inner, at |-> at, vals |-> vals]

CanMove(ns, es, h, f, at, inner, vals) ==
  /\ at \in Nat /\ at # 0
  /\ inner \in 0..Len(es)
  /\ inner # 0 => MadeBy(es, inner) = Append(ns[f.node].within, f.node)
  /\ vals \in Seq(Values(ns, es, h) \cup {Error, Continue})
  /\ Stage(ns, es, h, Moved(f, at, inner, vals))

LEMMA MovedFrame ==
  ASSUME NEW ns, NEW es, NEW h, NEW f, f \in FrameRec(ns, es, h), FrameOK(ns, es, h, f),
         NEW at, NEW inner, NEW vals, CanMove(ns, es, h, f, at, inner, vals)
  PROVE  /\ Moved(f, at, inner, vals) \in FrameRec(ns, es, h)
         /\ FrameOK(ns, es, h, Moved(f, at, inner, vals))
         /\ Moved(f, at, inner, vals).node = f.node
  <1>1. Moved(f, at, inner, vals) \in FrameRec(ns, es, h)
    BY DEF CanMove, Moved, FrameRec
  <1>2. /\ Moved(f, at, inner, vals).node = f.node /\ Moved(f, at, inner, vals).env = f.env
        /\ Moved(f, at, inner, vals).inner = inner /\ Moved(f, at, inner, vals).at = at
    BY DEF Moved
  <1>. QED
    BY <1>1, <1>2 DEF FrameOK, CanMove

(* What EXCEPT makes of a call.                                            *)
LEMMA RecordIs ==
  ASSUME NEW a, NEW b, NEW c, NEW d, NEW r, NEW g,
         g \in [node : {a}, env : {b}, inner : {c}, at : {d}, vals : {r}]
  PROVE  g = [node |-> a, env |-> b, inner |-> c, at |-> d, vals |-> r]
  OBVIOUS

IsMoved(f, at, inner, vals) ==
  /\ [f EXCEPT !.at = at, !.inner = inner, !.vals = vals] = Moved(f, at, inner, vals)
  /\ [[f EXCEPT !.at = at] EXCEPT !.vals = vals] = Moved(f, at, f.inner, vals)
  /\ [[f EXCEPT !.at = at] EXCEPT !.inner = inner] = Moved(f, at, inner, f.vals)

LEMMA MovedIs ==
  ASSUME NEW ns, NEW es, NEW h, NEW f, f \in FrameRec(ns, es, h),
         NEW at, NEW inner, NEW vals
  PROVE  IsMoved(f, at, inner, vals)
  <1>. DEFINE g == [f EXCEPT !.at = at, !.inner = inner, !.vals = vals]
              k == [f EXCEPT !.at = at]
              m == [k EXCEPT !.vals = vals]
              p == [k EXCEPT !.inner = inner]
              Vals == Seq(Values(ns, es, h) \cup {Error, Continue})
  <1>1. PICK A, B, C, D : f \in [node : A, env : B, inner : C, at : D, vals : Vals]
    BY DEF FrameRec
  <1>. HIDE DEF Vals
  <1>2. g \in [node : {f.node}, env : {f.env}, inner : {inner}, at : {at}, vals : {vals}]
    BY <1>1
  <1>3. k \in [node : {f.node}, env : {f.env}, inner : {f.inner}, at : {at}, vals : Vals]
    BY <1>1
  <1>. HIDE DEF g, k
  <1>4. m \in [node : {f.node}, env : {f.env}, inner : {f.inner}, at : {at}, vals : {vals}]
    BY <1>3
  <1>7. p \in [node : {f.node}, env : {f.env}, inner : {inner}, at : {at}, vals : {f.vals}]
    <2>1. k.vals = f.vals
      BY <1>1 DEF k
    <2>. QED
      BY <1>3, <2>1
  <1>. HIDE DEF m, p
  <1>5. g = [node |-> f.node, env |-> f.env, inner |-> inner, at |-> at, vals |-> vals]
    BY <1>2, RecordIs
  <1>6. m = [node |-> f.node, env |-> f.env, inner |-> f.inner, at |-> at, vals |-> vals]
    BY <1>4, RecordIs
  <1>8. p = [node |-> f.node, env |-> f.env, inner |-> inner, at |-> at, vals |-> f.vals]
    BY <1>7, RecordIs
  <1>. QED
    BY <1>5, <1>6, <1>8 DEF g, k, m, p, Moved, IsMoved

MovesTo(ns, es, h, fs, at, inner, vals, gs) ==
  /\ CanMove(ns, es, h, fs[Len(fs)], at, inner, vals)
  /\ IsTop(gs, fs, Moved(fs[Len(fs)], at, inner, vals))

LEMMA Moves ==
  ASSUME NEW ns, NEW es, NEW h, NEW fs, Calls(ns, es, h, fs), fs # <<>>,
         NEW at, NEW inner, NEW vals, NEW gs, MovesTo(ns, es, h, fs, at, inner, vals, gs)
  PROVE  /\ Calls(ns, es, h, gs) /\ gs # <<>> /\ Len(gs) = Len(fs)
         /\ gs[Len(gs)] = Moved(fs[Len(fs)], at, inner, vals)
  <1>. DEFINE f == fs[Len(fs)]
              m == Moved(f, at, inner, vals)
  <1>1. f \in FrameRec(ns, es, h) /\ FrameOK(ns, es, h, f)
    BY TopFrame
  <1>2. m \in FrameRec(ns, es, h) /\ FrameOK(ns, es, h, m) /\ m.node = fs[Len(fs)].node
    <2>1. CanMove(ns, es, h, f, at, inner, vals)
      BY DEF MovesTo
    <2>. HIDE DEF f
    <2>2. /\ Moved(f, at, inner, vals) \in FrameRec(ns, es, h)
          /\ FrameOK(ns, es, h, Moved(f, at, inner, vals))
          /\ Moved(f, at, inner, vals).node = f.node
      BY <1>1, <2>1, MovedFrame
    <2>. QED
      BY <2>2 DEF f
  <1>3. IsTop(gs, fs, m)
    BY DEF MovesTo
  <1>. HIDE DEF m
  <1>4. Calls(ns, es, h, gs) /\ gs # <<>> /\ Len(gs) = Len(fs) /\ gs[Len(gs)] = m
    BY <1>2, <1>3, TopMoves
  <1>. QED
    BY <1>4 DEF m

(* The innermost call goes on and calls eval at once.                      *)
LEMMA MovesAndCalls ==
  ASSUME NEW ns, NEW es, NEW h, NodesOK(ns), NEW fs, Calls(ns, es, h, fs), fs # <<>>,
         NEW at, NEW inner, NEW vals, CanMove(ns, es, h, fs[Len(fs)], at, inner, vals),
         NEW n, NEW e, CanCall(ns, es, Moved(fs[Len(fs)], at, inner, vals), n, e),
         NEW us, IsTop(us, fs, Moved(fs[Len(fs)], at, inner, vals)),
         NEW gs, gs = Append(us, Frame(n, e))
  PROVE  /\ Calls(ns, es, h, gs) /\ Returned(ns, es, h, gs, Nothing)
         /\ ~Searching(ns, gs)
  <1>1. /\ Calls(ns, es, h, us) /\ us # <<>>
        /\ us[Len(us)] = Moved(fs[Len(fs)], at, inner, vals)
    <2>1. MovesTo(ns, es, h, fs, at, inner, vals, us)
      BY DEF MovesTo
    <2>. QED
      BY <2>1, Moves
  <1>2. CanCall(ns, es, us[Len(us)], n, e)
    BY <1>1
  <1>. QED
    BY <1>1, <1>2, Pushed

(* The innermost call goes on at another step.                             *)
LEMMA GoesIn ==
  ASSUME IInv, NewWorld, frames # <<>>, NEW at, NEW inner, NEW vals,
         CanMove(nodes', envs', heap', Top, at, inner, vals),
         GoTo(at, inner, vals),
         Asked(nodes', Moved(Top, at, inner, vals)) \in {"none", "let"},
         status' \in {"running", "done", "dead"},
         \/ nodes'[Top.node].form \notin {"reassign", "reassign_index"}
         \/ Searched(envs', Moved(Top, at, inner, vals), nodes'[Top.node].name, search')
  PROVE  IInv'
  <1>. DEFINE f == Moved(Top, at, inner, vals)
  <1>1. Calls(nodes', envs', heap', frames) /\ NodesOK(nodes') /\ suite' \in DOMAIN Suites
    BY Stays
  <1>2. Top = frames[Len(frames)] /\ depth = Len(frames)
    BY DEF Top, depth
  <1>3. Top \in FrameRec(nodes', envs', heap')
    BY <1>1, <1>2, TopFrame
  <1>4. IsTop(frames', frames, f) /\ ret' = Nothing
    <2>1. [Top EXCEPT !.at = at, !.inner = inner, !.vals = vals] = f
      <3>1. IsMoved(Top, at, inner, vals)
        BY <1>3, MovedIs
      <3>. QED
        BY <3>1 DEF IsMoved
    <2>. QED
      BY <1>2, <2>1 DEF GoTo, IsTop
  <1>5. /\ Calls(nodes', envs', heap', frames') /\ frames' # <<>>
        /\ frames'[Len(frames')] = f
    <2>1. MovesTo(nodes', envs', heap', frames, at, inner, vals, frames')
      BY <1>2, <1>4 DEF MovesTo
    <2>2. frames'[Len(frames')] = Moved(frames[Len(frames)], at, inner, vals)
          /\ Calls(nodes', envs', heap', frames') /\ frames' # <<>>
      BY <1>1, <2>1, Moves
    <2>. QED
      BY <1>2, <2>2
  <1>6. Asked(nodes', frames'[Len(frames')]) \in {"none", "let"}
    BY <1>5
  <1>7. f.node = Top.node
    BY DEF Moved
  <1>. HIDE DEF f
  <1>8. Returned(nodes', envs', heap', frames', ret')
    BY <1>4, <1>6 DEF Returned, AnyResult
  <1>9. Searches(nodes', envs', frames', search')
    BY <1>5, <1>7 DEF Searches, Searching, f
  <1>. QED
    BY <1>1, <1>5, <1>8, <1>9 DEF IInv, NewWorld

(* The innermost call calls eval.                                          *)
LEMMA CallsIn ==
  ASSUME IInv, NewWorld, frames # <<>>, NEW at, NEW inner, NEW vals,
         CanMove(nodes', envs', heap', Top, at, inner, vals),
         NEW n, NEW e, CanCall(nodes', envs', Moved(Top, at, inner, vals), n, e),
         status' \in {"running", "done", "dead"}, ret' = Nothing,
         NEW us, IsTop(us, frames, Moved(Top, at, inner, vals)),
         frames' = Append(us, Frame(n, e))
  PROVE  IInv'
  <1>1. Calls(nodes', envs', heap', frames) /\ NodesOK(nodes') /\ suite' \in DOMAIN Suites
    BY Stays
  <1>2. Top = frames[Len(frames)]
    BY DEF Top, depth
  <1>3. /\ Calls(nodes', envs', heap', frames')
        /\ Returned(nodes', envs', heap', frames', Nothing)
        /\ ~Searching(nodes', frames')
    BY <1>1, <1>2, MovesAndCalls
  <1>. QED
    BY <1>1, <1>3 DEF IInv, NewWorld, Searches

(* What EXCEPT makes of the calls.                                         *)
LEMMA TopMovedIs ==
  ASSUME NEW ns, NEW es, NEW h, NEW fs, Calls(ns, es, h, fs), fs # <<>>,
         NEW at, NEW vals
  PROVE  IsTop([fs EXCEPT ![Len(fs)].at = at, ![Len(fs)].vals = vals], fs,
               Moved(fs[Len(fs)], at, fs[Len(fs)].inner, vals))
  <1>. DEFINE k == Len(fs)
              f == fs[k]
              g == [f EXCEPT !.at = at]
              us == [fs EXCEPT ![k] = g]
              m == [g EXCEPT !.vals = vals]
  <1>1. k \in DOMAIN fs /\ f \in FrameRec(ns, es, h)
    BY TopFrame, LenProperties DEF Calls
  <1>2. m = Moved(f, at, f.inner, vals)
    <2>1. IsMoved(f, at, f.inner, vals)
      <3>. HIDE DEF f
      <3>. QED
        BY <1>1, MovedIs
    <2>. QED
      BY <2>1 DEF IsMoved
  <1>3. [fs EXCEPT ![k].at = at] = us
    <2>. HIDE DEF k
    <2>. QED
      OBVIOUS
  <1>4. [fs EXCEPT ![k].at = at, ![k].vals = vals]
          = [[fs EXCEPT ![k].at = at] EXCEPT ![k].vals = vals]
    <2>. HIDE DEF k
    <2>. QED
      OBVIOUS
  <1>. HIDE DEF g
  <1>5. us[k] = g
    <2>. HIDE DEF k
    <2>. QED
      BY <1>1
  <1>. HIDE DEF m
  <1>6. [us EXCEPT ![k] = m] = [fs EXCEPT ![k] = m]
    <2>. HIDE DEF k
    <2>. QED
      BY <1>1
  <1>7. [us EXCEPT ![k].vals = vals] = [us EXCEPT ![k] = m]
    <2>. HIDE DEF us, k
    <2>1. [us EXCEPT ![k].vals = vals] = [us EXCEPT ![k] = [us[k] EXCEPT !.vals = vals]]
      OBVIOUS
    <2>. QED
      BY <1>5, <2>1 DEF m
  <1>. QED
    BY <1>2, <1>3, <1>4, <1>6, <1>7 DEF IsTop

LEMMA TopEntersIs ==
  ASSUME NEW ns, NEW es, NEW h, NEW fs, Calls(ns, es, h, fs), fs # <<>>,
         NEW at, NEW inner
  PROVE  IsTop([fs EXCEPT ![Len(fs)].at = at, ![Len(fs)].inner = inner], fs,
               Moved(fs[Len(fs)], at, inner, fs[Len(fs)].vals))
  <1>. DEFINE k == Len(fs)
              f == fs[k]
              g == [f EXCEPT !.at = at]
              us == [fs EXCEPT ![k] = g]
              m == [g EXCEPT !.inner = inner]
  <1>1. k \in DOMAIN fs /\ f \in FrameRec(ns, es, h)
    BY TopFrame, LenProperties DEF Calls
  <1>2. m = Moved(f, at, inner, f.vals)
    <2>1. IsMoved(f, at, inner, f.vals)
      <3>. HIDE DEF f
      <3>. QED
        BY <1>1, MovedIs
    <2>. QED
      BY <2>1 DEF IsMoved
  <1>3. [fs EXCEPT ![k].at = at] = us
    <2>. HIDE DEF k
    <2>. QED
      OBVIOUS
  <1>4. [fs EXCEPT ![k].at = at, ![k].inner = inner]
          = [[fs EXCEPT ![k].at = at] EXCEPT ![k].inner = inner]
    <2>. HIDE DEF k
    <2>. QED
      OBVIOUS
  <1>. HIDE DEF g
  <1>5. us[k] = g
    <2>. HIDE DEF k
    <2>. QED
      BY <1>1
  <1>. HIDE DEF m
  <1>6. [us EXCEPT ![k] = m] = [fs EXCEPT ![k] = m]
    <2>. HIDE DEF k
    <2>. QED
      BY <1>1
  <1>7. [us EXCEPT ![k].inner = inner] = [us EXCEPT ![k] = m]
    <2>. HIDE DEF us, k
    <2>1. [us EXCEPT ![k].inner = inner] = [us EXCEPT ![k] = [us[k] EXCEPT !.inner = inner]]
      OBVIOUS
    <2>. QED
      BY <1>5, <2>1 DEF m
  <1>. QED
    BY <1>2, <1>3, <1>4, <1>6, <1>7 DEF IsTop

(* The same where the call is made with Enter.                             *)
LEMMA EntersIn ==
  ASSUME IInv, NewWorld, frames # <<>>, NEW at, NEW vals, NEW n, NEW e,
         CanMove(nodes', envs', heap', Top, at, Top.inner, vals),
         CanCall(nodes', envs', Moved(Top, at, Top.inner, vals), n, e),
         status' \in {"running", "done", "dead"},
         Enter(n, e, at, vals)
  PROVE  IInv'
  <1>. DEFINE us == [frames EXCEPT ![Len(frames)].at = at, ![Len(frames)].vals = vals]
  <1>1. Calls(nodes', envs', heap', frames)
    BY Stays
  <1>2. Top = frames[Len(frames)] /\ depth = Len(frames)
    BY DEF Top, depth
  <1>3. IsTop(us, frames, Moved(Top, at, Top.inner, vals))
    BY <1>1, <1>2, TopMovedIs
  <1>4. ret' = Nothing /\ frames' = Append(us, Frame(n, e))
    BY <1>2 DEF Enter
  <1>. HIDE DEF us
  <1>. QED
    BY <1>3, <1>4, CallsIn

(* A turn that leaves the program, the environments and the arrays alone.  *)
KeepWorld == UNCHANGED <<suite, nodes, envs, heap>>

(* What a node may return, by its form.                                    *)
Operands == AllForms \ (Control \cup {"array", "return", "break", "continue"})

Allowed(ns, es, h, n) ==
  LET form == ns[n].form
  IN  CASE form = "array"      -> {Container("array", r) : r \in 1..Len(h)} \cup {Error}
        [] form \in Operands   -> Values(ns, es, h) \cup {Error}
        [] OTHER               -> Ends(ns, es, h, n)

LEMMA AllowedIs ==
  ASSUME NEW ns, NEW es, NEW h, NEW n
  PROVE  /\ ns[n].form = "array" =>
              Allowed(ns, es, h, n) = {Container("array", r) : r \in 1..Len(h)} \cup {Error}
         /\ ns[n].form \in Operands =>
              Allowed(ns, es, h, n) = Values(ns, es, h) \cup {Error}
         /\ ns[n].form \in {"program", "block", "return", "break", "continue"} \cup Control =>
              Allowed(ns, es, h, n) = Ends(ns, es, h, n)
  <1>1. /\ "array" \notin Operands
        /\ \A f \in {"program", "block", "return", "break", "continue"} \cup Control :
             f \notin Operands /\ f # "array"
    BY DEF Operands, Control, Loops, AllForms
  <1>. QED
    BY <1>1 DEF Allowed

(* In the place of a value an if or a loop may return any of its ends.     *)
LEMMA BlockyEnds ==
  ASSUME NEW ns, NEW es, NEW h, NEW n, Blocky(ns)
  PROVE  Ends(ns, es, h, n) \subseteq Values(ns, es, h) \cup {Error}
  <1>1. {Break, Continue} \subseteq Values(ns, es, h)
    BY DEF Values, Held
  <1>2. Wrappers(ns, es, h) \subseteq Values(ns, es, h)
    BY DEF Values
  <1>. QED
    BY <1>1, <1>2 DEF Ends

(* What a form returns is allowed where the form is.                       *)
LEMMA MayReturn ==
  ASSUME NEW ns, NEW es, NEW h, NEW n \in 1..Len(ns), ns[n] \in NodeRec, FormFits(ns, n),
         ns[n].form # Unmet
  PROVE  Allowed(ns, es, h, n) \subseteq Results(ns, es, h, n)
  <1>. DEFINE form == ns[n].form
              role == ns[n].role
  <1>1. form \in AllForms \cup {"program", "block"} /\ role \in Roles
    BY DEF NodeRec, Forms
  <1>2. Values(ns, es, h) \cup {Error} \subseteq Ends(ns, es, h, n)
    BY DEF Ends
  <1>3. {Container("array", r) : r \in 1..Len(h)} \subseteq Values(ns, es, h)
    BY Members
  <1>4. /\ form = "array" \/ form \in Operands
             \/ form \in {"program", "block", "return", "break", "continue"} \cup Control
    BY <1>1 DEF Operands
  <1>5. Allowed(ns, es, h, n) \subseteq Ends(ns, es, h, n)
    BY <1>2, <1>3, <1>4, AllowedIs
  <1>6. CASE role \in {"program", "block", "statement"}
    <2>1. Results(ns, es, h, n) = Ends(ns, es, h, n)
      BY <1>6 DEF Results
    <2>. QED
      BY <1>5, <2>1
  <1>7. CASE role = "array"
    <2>1. form = "array"
      BY <1>1, <1>7 DEF FormFits
    <2>. QED
      BY <1>7, <2>1, AllowedIs DEF Results
  <1>8. CASE role \in {"operand", "let"}
    <2>1. Results(ns, es, h, n) = Values(ns, es, h) \cup {Error}
      BY <1>8 DEF Results
    <2>2. form \in AllForms
      BY <1>1, <1>8 DEF FormFits
    <2>3. \/ form = "array" \/ form \in Operands
          \/ form \in Control /\ role = "operand"
      BY <1>8, <2>2 DEF FormFits, Operands, Control, Loops, AllForms
    <2>4. CASE form = "array" \/ form \in Operands
      BY <1>3, <2>1, <2>4, AllowedIs
    <2>5. CASE form \in Control /\ role = "operand"
      <3>1. Blocky(ns)
        BY <2>5 DEF Blocky
      <3>2. Ends(ns, es, h, n) \subseteq Values(ns, es, h) \cup {Error}
        BY <3>1, BlockyEnds
      <3>. QED
        BY <1>5, <2>1, <3>2
    <2>. QED
      BY <2>3, <2>4, <2>5
  <1>. QED
    BY <1>1, <1>6, <1>7, <1>8 DEF Roles

(* A step that only returns a value its form may return.                   *)
LEMMA Returns ==
  ASSUME IInv, NEW forms, Now(forms), Unmet \notin forms, KeepWorld,
         NEW v, Give(v), UNCHANGED status,
         v \in Allowed(nodes, envs, heap, Top.node)
  PROVE  IInv'
  <1>1. NewWorld
    BY SameWorld DEF KeepWorld
  <1>2. v \in Results(nodes, envs, heap, Top.node)
    BY MayReturn DEF Now
  <1>3. v \in Results(nodes', envs', heap', Top.node)
    BY <1>2 DEF KeepWorld
  <1>4. frames # <<>>
    BY DEF Now
  <1>. QED
    BY <1>1, <1>3, <1>4, GivesIn

LEMMA Dies ==
  ASSUME IInv, KeepWorld, Die
  PROVE  IInv'
  BY SameWorld, DiesIn DEF KeepWorld

(* What the innermost call has received.                                   *)
LEMMA Received ==
  ASSUME IInv, NEW forms, Now(forms)
  PROVE  LET asked == Asked(nodes, Top)
             known == Values(nodes, envs, heap)
         IN  /\ asked = "operand" => ret \in known \cup {Error}
             /\ asked = "array" =>
                  ret \in {Container("array", r) : r \in 1..Len(heap)} \cup {Error}
             /\ asked \in {"statement", "block"} =>
                  /\ ret \in known \cup {Error, Break, Continue} \cup Wrappers(nodes, envs, heap)
                  /\ ret \in Ends(nodes, envs, heap, Top.node)
                  /\ Here.form = "call" =>
                       ret \in known \cup {Error} \cup Wrappers(nodes, envs, heap)
  <1>. DEFINE asked == Asked(nodes, Top)
              known == Values(nodes, envs, heap)
              wrapped == Wrappers(nodes, envs, heap)
  <1>1. /\ frames # <<>> /\ Top = frames[Len(frames)] /\ Here = nodes[Top.node]
        /\ Returned(nodes, envs, heap, frames, ret)
    BY DEF Now, IInv
  <1>2. ASSUME asked \in {"operand", "array", "statement", "block"}
        PROVE  \E n \in 1..Len(nodes) :
                 Serves(nodes, Top, n) /\ ret \in Results(nodes, envs, heap, n)
    BY <1>1, <1>2 DEF Returned
  <1>3. ASSUME asked \in {"operand", "array"}
        PROVE  /\ asked = "operand" => ret \in known \cup {Error}
               /\ asked = "array" =>
                  ret \in {Container("array", r) : r \in 1..Len(heap)} \cup {Error}
    <2>1. PICK n \in 1..Len(nodes) : Serves(nodes, Top, n) /\ ret \in Results(nodes, envs, heap, n)
      BY <1>2, <1>3
    <2>2. nodes[n].role = asked
      BY <2>1 DEF Serves
    <2>. QED
      BY <1>3, <2>1, <2>2 DEF Results
  <1>4. ASSUME asked \in {"statement", "block"}
        PROVE  /\ ret \in known \cup {Error, Break, Continue} \cup wrapped
               /\ ret \in Ends(nodes, envs, heap, Top.node)
               /\ Here.form = "call" => ret \in known \cup {Error} \cup wrapped
    <2>1. PICK n \in 1..Len(nodes) : Serves(nodes, Top, n) /\ ret \in Results(nodes, envs, heap, n)
      BY <1>2, <1>4
    <2>2. nodes[n].role = asked
      BY <2>1 DEF Serves
    <2>3. ret \in Ends(nodes, envs, heap, n)
      BY <1>4, <2>1, <2>2 DEF Results
    <2>4. InsideFunction(nodes, Top.node) => InsideFunction(nodes, n)
      BY <2>1 DEF Serves
    <2>5. Here.form = "call" => InsideFunction(nodes, n)
      <3>1. Here.form = "call" => asked = "block"
        BY <1>1, <1>4 DEF Asked, Loops
      <3>. QED
        BY <1>1, <2>1, <3>1 DEF Serves
    <2>6. ret \in known \cup {Error, Break, Continue} \cup wrapped
      BY <2>3 DEF Ends
    <2>7. ret \in Ends(nodes, envs, heap, Top.node)
      <3>1. Ends(nodes, envs, heap, n) \subseteq Ends(nodes, envs, heap, Top.node)
        BY <2>4 DEF Ends
      <3>. QED
        BY <2>3, <3>1
    <2>8. Here.form = "call" => ret \in known \cup {Error} \cup wrapped
      BY <2>3, <2>5 DEF Ends
    <2>. QED
      BY <2>6, <2>7, <2>8
  <1>. QED
    BY <1>3, <1>4

LEMMA MovedFields ==
  \A f, at, inner, vals :
    /\ Moved(f, at, inner, vals).node = f.node /\ Moved(f, at, inner, vals).env = f.env
    /\ Moved(f, at, inner, vals).inner = inner /\ Moved(f, at, inner, vals).at = at
    /\ Moved(f, at, inner, vals).vals = vals
  BY DEF Moved

(* Inside the code of a function, as far down as it goes.                  *)
LEMMA InsideAppend ==
  ASSUME NEW ns, NEW n, NEW m, ns[n].within \in Seq(Nat), n \in Nat,
         ns[m].within = Inside(ns, n, ns[n].form)
  PROVE  /\ InsideFunction(ns, n) => InsideFunction(ns, m)
         /\ ns[n].form = "function" => InsideFunction(ns, m)
  <1>. DEFINE w == ns[n].within
              q == Append(w, n)
  <1>1. /\ Len(w) \in Nat /\ DOMAIN w = 1..Len(w)
        /\ Len(q) = Len(w) + 1 /\ DOMAIN q = 1..Len(w) + 1
        /\ \A i \in 1..Len(w) : q[i] = w[i]
        /\ q[Len(w) + 1] = n
    <2>1. q \in Seq(Nat)
      BY AppendProperties
    <2>. QED
      BY <2>1, AppendProperties, LenProperties
  <1>2. CASE ns[n].form \in Scopes
    <2>1. ns[m].within = q
      BY <1>2 DEF Inside
    <2>. HIDE DEF q, w
    <2>2. (\E i \in DOMAIN w : ns[w[i]].form = "function")
            => \E i \in DOMAIN q : ns[q[i]].form = "function"
      BY <1>1
    <2>3. ns[n].form = "function" => \E i \in DOMAIN q : ns[q[i]].form = "function"
      BY <1>1
    <2>. QED
      BY <2>1, <2>2, <2>3 DEF InsideFunction, w
  <1>3. CASE ns[n].form \notin Scopes
    <2>1. ns[m].within = w
      BY <1>3 DEF Inside
    <2>. QED
      BY <1>3, <2>1 DEF InsideFunction, Scopes
  <1>. QED
    BY <1>2, <1>3

(* A child has the role that is waited for.                                *)
LEMMA KidServes ==
  ASSUME NEW ns, NEW f, NEW i, f.node \in 1..Len(ns), ns[f.node] \in NodeRec,
         KidsFit(ns, f.node),
         i \in 1..Len(ns[f.node].kids), Role(ns, f.node, i) = Asked(ns, f),
         ns[f.node].form = "call" => Asked(ns, f) # "block"
  PROVE  /\ Serves(ns, f, ns[f.node].kids[i])
         /\ ns[f.node].kids[i] \in 1..Len(ns)
         /\ ns[ns[f.node].kids[i]].within = Inside(ns, f.node, ns[f.node].form)
  <1>. DEFINE k == ns[f.node].kids[i]
  <1>1. i \in DOMAIN ns[f.node].kids
    <2>1. ns[f.node].kids \in Seq(Nat)
      BY DEF NodeRec
    <2>. QED
      BY <2>1, LenProperties
  <1>2. k \in 1..Len(ns) /\ ns[k].within = Inside(ns, f.node, ns[f.node].form)
    BY <1>1 DEF KidsFit
  <1>3. ns[f.node].within \in Seq(Nat) /\ f.node \in Nat
    BY DEF NodeRec
  <1>4. InsideFunction(ns, f.node) => InsideFunction(ns, k)
    BY <1>2, <1>3, InsideAppend
  <1>5. ns[k].role = Asked(ns, f)
    BY DEF Role
  <1>. HIDE DEF k
  <1>6. Serves(ns, f, k)
    BY <1>2, <1>4, <1>5 DEF Serves
  <1>. QED
    BY <1>2, <1>6 DEF k

(* The innermost call evaluates one of its children, where it is itself.   *)
LEMMA Asks ==
  ASSUME IInv, NEW forms, Now(forms), forms \cap Scopes = {}, KeepWorld,
         UNCHANGED status,
         NEW i, NEW at, NEW vals, i \in 1..Len(Here.kids),
         CanMove(nodes, envs, heap, Top, at, Top.inner, vals),
         Role(nodes, Top.node, i) = Asked(nodes, Moved(Top, at, Top.inner, vals)),
         Here.form = "call" => Asked(nodes, Moved(Top, at, Top.inner, vals)) # "block",
         Enter(Kid(i), Top.env, at, vals)
  PROVE  IInv'
  <1>. DEFINE f == Moved(Top, at, Top.inner, vals)
  <1>1. f.node = Top.node /\ Here = nodes[Top.node] /\ frames # <<>>
        /\ Top.node \in 1..Len(nodes) /\ nodes[Top.node] \in NodeRec
        /\ KidsFit(nodes, Top.node) /\ Top.env \in 1..Len(envs)
        /\ MadeBy(envs, Top.env) = nodes[Top.node].within
        /\ Here.form \in forms
    BY MovedFields DEF Now, FrameOK
  <1>2. /\ i \in 1..Len(nodes[f.node].kids) /\ Role(nodes, f.node, i) = Asked(nodes, f)
        /\ nodes[f.node].form = "call" => Asked(nodes, f) # "block"
        /\ f.node \in 1..Len(nodes) /\ nodes[f.node] \in NodeRec /\ KidsFit(nodes, f.node)
    BY <1>1
  <1>. HIDE DEF f
  <1>3. /\ Serves(nodes, f, nodes[f.node].kids[i]) /\ nodes[f.node].kids[i] \in 1..Len(nodes)
        /\ nodes[nodes[f.node].kids[i]].within = Inside(nodes, f.node, nodes[f.node].form)
    BY <1>2, KidServes
  <1>4. Kid(i) = nodes[f.node].kids[i]
    BY <1>1 DEF Kid
  <1>5. nodes[f.node].form \notin Scopes
    BY <1>1
  <1>6. CanCall(nodes, envs, f, Kid(i), Top.env)
    BY <1>1, <1>3, <1>4, <1>5 DEF CanCall, Inside
  <1>7. NewWorld
    BY SameWorld DEF KeepWorld
  <1>8. CanCall(nodes', envs', Moved(Top, at, Top.inner, vals), Kid(i), Top.env)
    BY <1>6 DEF KeepWorld, f
  <1>9. CanMove(nodes', envs', heap', Top, at, Top.inner, vals)
    BY DEF KeepWorld
  <1>10. status' \in {"running", "done", "dead"}
    BY DEF IInv
  <1>. QED
    BY <1>1, <1>7, <1>8, <1>9, <1>10, EntersIn

(* A loop evaluates one of its children in its own environment.            *)
LEMMA AsksInside ==
  ASSUME IInv, NEW forms, Now(forms), forms \subseteq Loops, KeepWorld,
         UNCHANGED status,
         NEW i, NEW at, NEW vals, i \in 1..Len(Here.kids), Top.inner # 0,
         CanMove(nodes, envs, heap, Top, at, Top.inner, vals),
         Role(nodes, Top.node, i) = Asked(nodes, Moved(Top, at, Top.inner, vals)),
         Enter(Kid(i), Top.inner, at, vals)
  PROVE  IInv'
  <1>. DEFINE f == Moved(Top, at, Top.inner, vals)
  <1>1. f.node = Top.node /\ Here = nodes[Top.node] /\ frames # <<>>
        /\ Top.node \in 1..Len(nodes) /\ nodes[Top.node] \in NodeRec
        /\ KidsFit(nodes, Top.node) /\ Top.inner \in 0..Len(envs)
        /\ MadeBy(envs, Top.inner) = Append(nodes[Top.node].within, Top.node)
        /\ Here.form \in forms
    BY MovedFields DEF Now, FrameOK
  <1>2. /\ i \in 1..Len(nodes[f.node].kids) /\ Role(nodes, f.node, i) = Asked(nodes, f)
        /\ nodes[f.node].form # "call" /\ nodes[f.node].form \in Scopes
        /\ f.node \in 1..Len(nodes) /\ nodes[f.node] \in NodeRec /\ KidsFit(nodes, f.node)
    BY <1>1 DEF Loops, Scopes
  <1>. HIDE DEF f
  <1>3. /\ Serves(nodes, f, nodes[f.node].kids[i]) /\ nodes[f.node].kids[i] \in 1..Len(nodes)
        /\ nodes[nodes[f.node].kids[i]].within = Inside(nodes, f.node, nodes[f.node].form)
    BY <1>2, KidServes
  <1>4. Kid(i) = nodes[f.node].kids[i]
    BY <1>1 DEF Kid
  <1>5. Top.inner \in 1..Len(envs)
    <2>1. Len(envs) \in Nat
      BY DEF IInv, World, EnvsOK
    <2>. QED
      BY <1>1, <2>1
  <1>6. CanCall(nodes, envs, f, Kid(i), Top.inner)
    BY <1>1, <1>2, <1>3, <1>4, <1>5 DEF CanCall, Inside
  <1>7. NewWorld
    BY SameWorld DEF KeepWorld
  <1>8. CanCall(nodes', envs', Moved(Top, at, Top.inner, vals), Kid(i), Top.inner)
    BY <1>6 DEF KeepWorld, f
  <1>9. CanMove(nodes', envs', heap', Top, at, Top.inner, vals)
    BY DEF KeepWorld
  <1>10. status' \in {"running", "done", "dead"}
    BY DEF IInv
  <1>. QED
    BY <1>1, <1>7, <1>8, <1>9, <1>10, EntersIn

(* A loop goes on without evaluating anything.                             *)
LEMMA Goes ==
  ASSUME IInv, NEW forms, Now(forms), forms \subseteq Loops, KeepWorld,
         UNCHANGED status, NEW vals, Top.inner # 0,
         vals \in Seq(Kept(nodes, envs, heap, Top.node)),
         GoTo(3, Top.inner, vals)
  PROVE  IInv'
  <1>. DEFINE f == Moved(Top, 3, Top.inner, vals)
  <1>1. Here = nodes[Top.node] /\ frames # <<>> /\ nodes[Top.node].form \in Loops
        /\ Top.inner \in 0..Len(envs) /\ FrameOK(nodes, envs, heap, Top)
    BY DEF Now
  <1>2. f.node = Top.node /\ f.at = 3 /\ f.inner = Top.inner /\ f.vals = vals
    BY MovedFields
  <1>. HIDE DEF f
  <1>3. vals \in Seq(Values(nodes, envs, heap) \cup {Error, Continue})
    <2>1. Kept(nodes, envs, heap, Top.node) \subseteq Values(nodes, envs, heap) \cup {Error, Continue}
      BY DEF Kept
    <2>. QED
      BY <2>1, SeqMonotonic
  <1>4. Stage(nodes, envs, heap, f)
    BY <1>1, <1>2 DEF Stage
  <1>5. CanMove(nodes, envs, heap, Top, 3, Top.inner, vals)
    BY <1>1, <1>3, <1>4 DEF CanMove, FrameOK, f
  <1>6. Asked(nodes, f) = "none"
    BY <1>1, <1>2 DEF Asked, Loops
  <1>7. NewWorld
    BY SameWorld DEF KeepWorld
  <1>8. CanMove(nodes', envs', heap', Top, 3, Top.inner, vals)
    BY <1>5 DEF KeepWorld
  <1>9. Asked(nodes', Moved(Top, 3, Top.inner, vals)) \in {"none", "let"}
    BY <1>6 DEF KeepWorld, f
  <1>10. status' \in {"running", "done", "dead"}
    BY DEF IInv
  <1>11. nodes'[Top.node].form \notin {"reassign", "reassign_index"}
    BY <1>1 DEF KeepWorld, Loops
  <1>. QED
    BY <1>1, <1>7, <1>8, <1>9, <1>10, <1>11, GoesIn

(* What was received, by its type.                                         *)
LEMMA Sorted ==
  ASSUME NEW ns, NEW es, NEW h, NEW r,
         r \in Values(ns, es, h) \cup {Error, Break, Continue} \cup Wrappers(ns, es, h)
  PROVE  /\ is_error(r) <=> r = Error
         /\ r.type = "return" => unwrap_return_value(r) \in Values(ns, es, h)
         /\ r.type = "break" => r = Break
         /\ r.type = "continue" => r = Continue
         /\ r.type \notin {"error", "return", "break", "continue"} => r \in Values(ns, es, h)
  <1>1. CASE r \in Values(ns, es, h)
    <2>1. r.type # "error" /\ r # Error
      BY <1>1, NoError
    <2>2. /\ r.type = "break" => r = Break
          /\ r.type = "continue" => r = Continue
      <3>1. Kind(ns, es, h, r)
        BY <1>1, Kinds
      <3>. QED
        BY <3>1 DEF Kind
    <2>3. r.type = "return" => unwrap_return_value(r) \in Values(ns, es, h)
      BY <1>1, Unwrapped
    <2>. QED
      BY <1>1, <2>1, <2>2, <2>3 DEF is_error
  <1>2. CASE r \in {Error, Break, Continue}
    BY <1>2, Types DEF is_error
  <1>3. CASE r \in Wrappers(ns, es, h)
    <2>1. PICK v \in Held(ns, es, h), l \in Layers(ns) : r = Wrapped(v, l)
      BY <1>3 DEF Wrappers
    <2>2. r.type = "return" /\ r # Error
      BY <2>1, Types
    <2>3. unwrap_return_value(r) \in Values(ns, es, h)
      BY <1>3, <2>2, Unwrapped
    <2>. QED
      BY <2>2, <2>3 DEF is_error
  <1>. QED
    BY <1>1, <1>2, <1>3

(* An operand is an error or a value.                                      *)
LEMMA Operand ==
  ASSUME IInv, NEW forms, Now(forms), Asked(nodes, Top) = "operand"
  PROVE  /\ is_error(ret) <=> ret = Error
         /\ ret \in Values(nodes, envs, heap) \cup {Error}
         /\ ~is_error(ret) => ret \in Values(nodes, envs, heap)
  <1>1. ret \in Values(nodes, envs, heap) \cup {Error}
    BY Received
  <1>2. is_error(ret) <=> ret = Error
    BY <1>1, Sorted
  <1>. QED
    BY <1>1, <1>2

----------------------------------------------------------------------------
(* Statements *)

(* A block goes on to its next statement.                                  *)
LEMMA PassOK ==
  ASSUME IInv, NEW forms, Now(forms), forms \subseteq {"program", "block"}, KeepWorld,
         UNCHANGED status, Top.at < Len(Here.kids), Pass
  PROVE  IInv'
  <1>. DEFINE f == Moved(Top, Top.at + 1, Top.inner, <<>>)
  <1>1. /\ Here = nodes[Top.node] /\ Here.form \in forms /\ Top.at \in Nat
        /\ FrameOK(nodes, envs, heap, Top) /\ Top.inner \in 0..Len(envs)
        /\ KidsFit(nodes, Top.node) /\ Here \in NodeRec
    BY DEF Now
  <1>2. Len(Here.kids) \in Nat /\ DOMAIN Here.kids = 1..Len(Here.kids)
    <2>1. Here.kids \in Seq(Nat)
      BY <1>1 DEF NodeRec
    <2>. QED
      BY <2>1, LenProperties
  <1>3. Top.at + 1 \in 1..Len(Here.kids) /\ Top.at + 1 \in Nat /\ Top.at + 1 # 0
    BY <1>1, <1>2
  <1>4. /\ f.node = Top.node /\ f.at = Top.at + 1 /\ f.inner = Top.inner /\ f.vals = <<>>
    BY MovedFields
  <1>. HIDE DEF f
  <1>5. Stage(nodes, envs, heap, f)
    <2>1. nodes[f.node] = Here
      BY <1>1, <1>4
    <2>2. nodes[f.node].form \in {"program", "block"}
      BY <1>1, <2>1
    <2>3. Top.at + 1 <= Len(Here.kids)
      BY <1>3
    <2>4. f.at <= Len(nodes[f.node].kids)
      BY <1>4, <2>1, <2>3
    <2>. QED
      BY <2>2, <2>4 DEF Stage
  <1>6. <<>> \in Seq(Values(nodes, envs, heap) \cup {Error, Continue})
    BY EmptySeq
  <1>7. CanMove(nodes, envs, heap, Top, Top.at + 1, Top.inner, <<>>)
    BY <1>1, <1>3, <1>5, <1>6 DEF CanMove, FrameOK, f
  <1>8. Asked(nodes, f) = "statement"
    BY <1>1, <1>3, <1>4 DEF Asked, Loops
  <1>9. Role(nodes, Top.node, Top.at + 1) = "statement"
    BY <1>1, <1>2, <1>3 DEF KidsFit, Role
  <1>10. forms \cap Scopes = {} /\ Here.form # "call"
    BY <1>1 DEF Scopes, Loops
  <1>11. Enter(Kid(Top.at + 1), Top.env, Top.at + 1, <<>>)
    BY DEF Pass
  <1>. QED
    BY <1>3, <1>7, <1>8, <1>9, <1>10, <1>11, Asks DEF f

LEMMA BlockStep ==
  ASSUME IInv, eval_block_statement
  PROVE  IInv'
  <1>1. Now({"block"}) /\ KeepWorld
    BY Running DEF eval_block_statement, KeepRest, KeepWorld
  <1>2. Here = nodes[Top.node] /\ Here.form = "block" /\ Top.at \in Nat
    BY <1>1 DEF Now
  <1>3. Allowed(nodes, envs, heap, Top.node) = Ends(nodes, envs, heap, Top.node)
    BY <1>2, AllowedIs
  <1>4. Top.at > 0 => Asked(nodes, Top) = "statement"
    BY <1>2 DEF Asked, Loops
  <1>5. Top.at > 0 => ret \in Allowed(nodes, envs, heap, Top.node)
    BY <1>1, <1>3, <1>4, Received
  <1>6. Missing \in Allowed(nodes, envs, heap, Top.node)
    BY <1>3, Members DEF Ends
  <1>7. CASE Top.at > 0 /\ IsJump(ret)
    <2>1. Give(ret) /\ UNCHANGED status
      BY <1>7 DEF eval_block_statement, Run
    <2>2. Unmet \notin {"block"}
      BY DEF Unmet
    <2>. QED
      BY <1>1, <1>5, <1>7, <2>1, <2>2, Returns
  <1>8. CASE ~(Top.at > 0 /\ IsJump(ret))
    <2>1. NextStatement
      BY <1>8 DEF eval_block_statement
    <2>2. CASE Top.at < Len(Here.kids)
      <3>1. Pass /\ UNCHANGED status
        BY <2>1, <2>2 DEF NextStatement
      <3>. QED
        BY <1>1, <2>2, <3>1, PassOK
    <2>3. CASE ~(Top.at < Len(Here.kids))
      <3>1. IF Top.at = 0 THEN GiveUninitialised ELSE Run(ret)
        BY <2>1, <2>3 DEF NextStatement
      <3>2. CASE Die
        BY <1>1, <3>2, Dies
      <3>3. ASSUME ~Die
            PROVE  \E v \in Allowed(nodes, envs, heap, Top.node) : Give(v) /\ UNCHANGED status
        BY <1>2, <1>5, <1>6, <3>1, <3>3 DEF GiveUninitialised, Run
      <3>4. Unmet \notin {"block"}
        BY DEF Unmet
      <3>. QED
        BY <1>1, <3>2, <3>3, <3>4, Returns
    <2>. QED
      BY <2>2, <2>3
  <1>. QED
    BY <1>7, <1>8

LEMMA Finishes ==
  ASSUME IInv, KeepWorld, NEW v \in AnyResult(nodes, envs, heap), Finish(v)
  PROVE  IInv'
  <1>1. NewWorld
    BY SameWorld DEF KeepWorld
  <1>2. v \in AnyResult(nodes', envs', heap')
    BY DEF KeepWorld
  <1>. QED
    BY <1>1, <1>2, FinishesIn

LEMMA ProgramStep ==
  ASSUME IInv, eval_program
  PROVE  IInv'
  <1>. DEFINE known == Values(nodes, envs, heap)
  <1>1. Now({"program"}) /\ KeepWorld
    BY Running DEF eval_program, KeepRest, KeepWorld
  <1>2. Here = nodes[Top.node] /\ Here.form = "program" /\ Top.at \in Nat
    BY <1>1 DEF Now
  <1>3. Top.at > 0 => Asked(nodes, Top) = "statement"
    BY <1>2 DEF Asked, Loops
  <1>4. Top.at > 0 =>
          ret \in known \cup {Error, Break, Continue} \cup Wrappers(nodes, envs, heap)
    BY <1>1, <1>3, Received
  <1>5. Top.at > 0 => ret \in AnyResult(nodes, envs, heap)
    BY <1>4 DEF AnyResult
  <1>6. Missing \in AnyResult(nodes, envs, heap)
    BY Members DEF AnyResult
  <1>7. Top.at > 0 /\ ret.type = "return" =>
          unwrap_return_value(ret) \in AnyResult(nodes, envs, heap)
    <2>1. Top.at > 0 /\ ret.type = "return" => unwrap_return_value(ret) \in known
      BY <1>4, Sorted
    <2>. QED
      BY <2>1 DEF AnyResult
  <1>8. \/ Top.at > 0 /\ ret.type = "return" /\ Finish(unwrap_return_value(ret))
        \/ Top.at > 0 /\ Finish(ret)
        \/ Top.at < Len(Here.kids) /\ Pass /\ UNCHANGED status
        \/ Finish(Missing)
        \/ Die
    BY <1>2 DEF eval_program
  <1>9. CASE Top.at < Len(Here.kids) /\ Pass /\ UNCHANGED status
    BY <1>1, <1>9, PassOK
  <1>10. CASE Die
    BY <1>1, <1>10, Dies
  <1>11. CASE \E v \in AnyResult(nodes, envs, heap) : Finish(v)
    BY <1>1, <1>11, Finishes
  <1>. QED
    BY <1>5, <1>6, <1>7, <1>8, <1>9, <1>10, <1>11

(* The first of the calls that most forms make.                            *)
FirstForms ==
  {"let", "return", "bang", "minus", "index", "if", "if_else",
   "reassign", "reassign_index", "reassign_element"}

(* The first call of a form that has one operand first.                    *)
LEMMA FirstAsk ==
  ASSUME IInv, NEW forms, Now(forms), forms \subseteq FirstForms, KeepWorld,
         UNCHANGED status, Made(0), Proceed
  PROVE  IInv'
  <1>. DEFINE f == Moved(Top, 1, Top.inner, <<>>)
  <1>1. /\ Here = nodes[Top.node] /\ Here.form \in FirstForms /\ Top.at = 0
        /\ FrameOK(nodes, envs, heap, Top) /\ Top.inner \in 0..Len(envs)
        /\ KidsFit(nodes, Top.node) /\ Here \in NodeRec
    BY DEF Now, Made
  <1>2. /\ f.node = Top.node /\ f.at = 1 /\ f.inner = Top.inner /\ f.vals = <<>>
    BY MovedFields
  <1>3. Enter(Kid(1), Top.env, 1, <<>>)
    BY <1>1 DEF Proceed, Ask, Got, Made
  <1>. HIDE DEF f
  <1>4. nodes[f.node] = Here
    BY <1>1, <1>2
  <1>5. /\ Len(Here.kids) >= 1 /\ Len(Here.kids) \in Nat
        /\ Role(nodes, Top.node, 1) = "operand"
    <2>1. Here.kids \in Seq(Nat) /\ Len(Here.kids) \in Nat
      BY <1>1, LenProperties DEF NodeRec
    <2>2. CASE Here.form \in {"let", "return", "bang", "minus", "reassign", "reassign_index"}
      <3>1. Len(Here.kids) = 1 /\ Role(nodes, Top.node, 1) = "operand"
        BY <1>1, <2>1, <2>2, Arity
      <3>. QED
        BY <2>1, <3>1
    <2>3. CASE Here.form \in {"index", "if", "reassign_element"}
      <3>1. Len(Here.kids) = 2 /\ Role(nodes, Top.node, 1) = "operand"
        BY <1>1, <2>1, <2>3, Arity
      <3>. QED
        BY <2>1, <3>1
    <2>4. CASE Here.form = "if_else"
      <3>1. Len(Here.kids) = 3 /\ Role(nodes, Top.node, 1) = "operand"
        BY <1>1, <2>1, <2>4, Arity
      <3>. QED
        BY <2>1, <3>1
    <2>. QED
      BY <1>1, <2>2, <2>3, <2>4 DEF FirstForms
  <1>6. Stage(nodes, envs, heap, f)
    BY <1>1, <1>2, <1>4 DEF Stage, FirstForms
  <1>7. <<>> \in Seq(Values(nodes, envs, heap) \cup {Error, Continue})
    BY EmptySeq
  <1>8. CanMove(nodes, envs, heap, Top, 1, Top.inner, <<>>)
    BY <1>1, <1>6, <1>7 DEF CanMove, FrameOK, f
  <1>9. Role(nodes, Top.node, 1) = Asked(nodes, f)
    <2>1. Here.form \in {"let", "return", "bang", "minus", "index", "if", "if_else"}
            => Asked(nodes, f) = "operand"
      BY <1>2, <1>4 DEF Asked, Loops
    <2>2. Here.form \in {"reassign", "reassign_index", "reassign_element"}
            => Asked(nodes, f) = "operand"
      BY <1>2, <1>4 DEF Asked, Loops
    <2>. QED
      BY <1>1, <1>5, <2>1, <2>2 DEF FirstForms
  <1>10. forms \cap Scopes = {} /\ Here.form # "call" /\ 1 \in 1..Len(Here.kids)
    BY <1>1, <1>5 DEF FirstForms, Scopes, Loops
  <1>. QED
    BY <1>3, <1>8, <1>9, <1>10, Asks DEF f

LEMMA ReturnStep ==
  ASSUME IInv, eval_return_statement
  PROVE  IInv'
  <1>1. Now({"return"}) /\ KeepWorld /\ UNCHANGED status
    BY Running DEF eval_return_statement, KeepRest, KeepWorld
  <1>2. Here = nodes[Top.node] /\ Here.form = "return"
    BY <1>1 DEF Now
  <1>3. CASE Made(0) /\ Proceed
    BY <1>1, <1>3, FirstAsk DEF FirstForms
  <1>4. CASE /\ Made(1) /\ Give(IF is_error(ret) THEN ret ELSE ReturnValue(ret))
             /\ ret.type = "return" => ret.layers < MaxLayers
    <2>1. Asked(nodes, Top) = "operand"
      BY <1>2, <1>4 DEF Made, Asked, Loops
    <2>2. \/ ret = Error
          \/ ~is_error(ret) /\ ret \in Values(nodes, envs, heap)
      <3>1. /\ is_error(ret) <=> ret = Error
            /\ ret \in Values(nodes, envs, heap) \cup {Error}
            /\ ~is_error(ret) => ret \in Values(nodes, envs, heap)
        BY <1>1, <2>1, Operand
      <3>. QED
        BY <3>1 DEF is_error
    <2>3. Allowed(nodes, envs, heap, Top.node) = Ends(nodes, envs, heap, Top.node)
      BY <1>2, AllowedIs
    <2>4. is_error(Error)
      BY Types DEF is_error
    <2>5. ~is_error(ret) => ReturnValue(ret) \in Wrappers(nodes, envs, heap)
      BY <1>4, <2>2, <2>4, Wraps
    <2>7. (IF is_error(ret) THEN ret ELSE ReturnValue(ret)) \in Allowed(nodes, envs, heap, Top.node)
      BY <2>2, <2>3, <2>4, <2>5 DEF Ends
    <2>6. Unmet \notin {"return"}
      BY DEF Unmet
    <2>. QED
      BY <1>1, <1>4, <2>6, <2>7, Returns
  <1>. QED
    BY <1>3, <1>4 DEF eval_return_statement

LEMMA BreakStep ==
  ASSUME IInv, eval_break_statement \/ eval_continue_statement
  PROVE  IInv'
  <1>1. Now({"break", "continue"}) /\ KeepWorld /\ UNCHANGED status
    <2>1. In({"break", "continue"})
      BY DEF eval_break_statement, eval_continue_statement, In
    <2>. QED
      BY <2>1, Running DEF eval_break_statement, eval_continue_statement, KeepRest, KeepWorld, Run
  <1>2. /\ Here = nodes[Top.node] /\ Here.form \in {"break", "continue"}
        /\ ScopesFit(nodes, Top.node) /\ Top.node \in 1..Len(nodes)
    BY <1>1 DEF Now
  <1>3. InsideFunction(nodes, Top.node) => {Break, Continue} \subseteq Values(nodes, envs, heap)
    <2>1. InsideFunction(nodes, Top.node) => Jumpy(nodes)
      BY <1>2 DEF InsideFunction, ScopesFit, Jumpy
    <2>. QED
      BY <2>1 DEF Values, Held
  <1>4. Allowed(nodes, envs, heap, Top.node) = Ends(nodes, envs, heap, Top.node)
    BY <1>2, AllowedIs
  <1>5. {Break, Continue} \subseteq Allowed(nodes, envs, heap, Top.node)
    BY <1>3, <1>4 DEF Ends
  <1>6. Give(Break) \/ Give(Continue)
    BY DEF eval_break_statement, eval_continue_statement, Run
  <1>7. Unmet \notin {"break", "continue"}
    BY DEF Unmet
  <1>8. PICK v \in {Break, Continue} : Give(v)
    BY <1>6
  <1>9. v \in Allowed(nodes, envs, heap, Top.node)
    BY <1>5
  <1>. QED
    BY <1>1, <1>7, <1>8, <1>9, Returns

(* A condition's value decides.                                            *)
LEMMA IfStep ==
  ASSUME IInv, eval_if_expression
  PROVE  IInv'
  <1>1. Now({"if", "if_else"}) /\ KeepWorld /\ UNCHANGED status
    BY Running DEF eval_if_expression, KeepRest, KeepWorld
  <1>2. /\ Here = nodes[Top.node] /\ Here.form \in {"if", "if_else"}
        /\ FrameOK(nodes, envs, heap, Top) /\ Top.inner \in 0..Len(envs)
        /\ KidsFit(nodes, Top.node) /\ Here \in NodeRec
    BY <1>1 DEF Now
  <1>3. Allowed(nodes, envs, heap, Top.node) = Ends(nodes, envs, heap, Top.node)
    BY <1>2, AllowedIs DEF Control
  <1>4. Unmet \notin {"if", "if_else"} /\ {"if", "if_else"} \cap Scopes = {}
    BY DEF Unmet, Scopes, Loops
  <1>5. CASE Made(0) /\ Proceed
    BY <1>1, <1>5, FirstAsk DEF FirstForms
  <1>6. CASE /\ Made(1)
             /\ Give(ret) \/ Give(Missing)
    <2>1. Asked(nodes, Top) = "operand"
      BY <1>2, <1>6 DEF Made, Asked, Loops
    <2>2. ret \in Values(nodes, envs, heap) \cup {Error}
      BY <1>1, <2>1, Operand
    <2>3. {ret, Missing} \subseteq Allowed(nodes, envs, heap, Top.node)
      BY <1>3, <2>2, Members DEF Ends
    <2>4. PICK v \in {ret, Missing} : Give(v)
      BY <1>6
    <2>5. v \in Allowed(nodes, envs, heap, Top.node)
      BY <2>3
    <2>. QED
      BY <1>1, <1>4, <2>4, <2>5, Returns
  <1>7. CASE Made(2) /\ Give(ret)
    <2>1. Asked(nodes, Top) = "block"
      BY <1>2, <1>7 DEF Made, Asked, Loops
    <2>2. ret \in Allowed(nodes, envs, heap, Top.node)
      BY <1>1, <1>3, <2>1, Received
    <2>. QED
      BY <1>1, <1>4, <1>7, <2>2, Returns
  <1>8. CASE /\ Made(1)
             /\ \/ Proceed
                \/ Here.form = "if_else" /\ Enter(Kid(3), Top.env, 2, <<>>)
    <2>1. PICK i, vals : /\ Enter(Kid(i), Top.env, 2, vals)
                         /\ \/ i = 2 /\ vals = Append(Top.vals, ret)
                            \/ i = 3 /\ vals = <<>> /\ Here.form = "if_else"
      <3>1. CASE Proceed
        <4>1. Top.at = 1
          BY <1>8 DEF Made
        <4>2. Got = Append(Top.vals, ret)
          BY <4>1 DEF Got, Made
        <4>3. Enter(Kid(2), Top.env, 2, Got)
          BY <3>1, <4>1 DEF Proceed, Ask
        <4>. QED
          BY <4>2, <4>3
      <3>2. CASE Here.form = "if_else" /\ Enter(Kid(3), Top.env, 2, <<>>)
        BY <3>2
      <3>. QED
        BY <1>8, <3>1, <3>2
    <2>. DEFINE f == Moved(Top, 2, Top.inner, vals)
    <2>2. f.node = Top.node /\ f.at = 2 /\ f.inner = Top.inner /\ f.vals = vals
      BY MovedFields
    <2>. HIDE DEF f
    <2>3. nodes[f.node] = Here
      BY <1>2, <2>2
    <2>4. i \in 1..Len(Here.kids) /\ Role(nodes, Top.node, i) = "block"
      <3>1. nodes[Top.node].kids \in Seq(Nat)
        BY <1>2 DEF NodeRec
      <3>2. /\ Here.form = "if" =>
                 Len(Here.kids) = 2 /\ Role(nodes, Top.node, 2) = "block"
            /\ Here.form = "if_else" =>
                 /\ Len(Here.kids) = 3 /\ Role(nodes, Top.node, 2) = "block"
                 /\ Role(nodes, Top.node, 3) = "block"
        BY <1>2, <3>1, Arity
      <3>3. CASE Here.form = "if"
        <4>1. i = 2 /\ Len(Here.kids) = 2 /\ Role(nodes, Top.node, 2) = "block"
          BY <2>1, <3>2, <3>3
        <4>2. 2 \in 1..Len(Here.kids)
          BY <4>1
        <4>. QED
          BY <4>1, <4>2
      <3>4. CASE Here.form = "if_else"
        <4>1. CASE i = 2
          <5>1. Len(Here.kids) = 3 /\ Role(nodes, Top.node, 2) = "block"
            BY <3>2, <3>4
          <5>2. 2 \in 1..Len(Here.kids)
            BY <5>1
          <5>. QED
            BY <4>1, <5>1, <5>2
        <4>2. CASE i = 3
          <5>1. Len(Here.kids) = 3 /\ Role(nodes, Top.node, 3) = "block"
            BY <3>2, <3>4
          <5>2. 3 \in 1..Len(Here.kids)
            BY <5>1
          <5>. QED
            BY <4>2, <5>1, <5>2
        <4>. QED
          BY <2>1, <4>1, <4>2
      <3>. QED
        BY <1>2, <3>3, <3>4
    <2>5. vals \in Seq(Values(nodes, envs, heap) \cup {Error, Continue})
      <3>1. Asked(nodes, Top) = "operand"
        BY <1>2, <1>8 DEF Made, Asked, Loops
      <3>2. ret \in Values(nodes, envs, heap) \cup {Error, Continue}
        BY <1>1, <3>1, Operand
      <3>3. Top.vals \in Seq(Values(nodes, envs, heap) \cup {Error, Continue})
        BY <1>1 DEF Now
      <3>4. /\ Append(Top.vals, ret) \in Seq(Values(nodes, envs, heap) \cup {Error, Continue})
            /\ <<>> \in Seq(Values(nodes, envs, heap) \cup {Error, Continue})
        BY <3>2, <3>3, AppendProperties, EmptySeq
      <3>. QED
        BY <2>1, <3>4
    <2>6. Stage(nodes, envs, heap, f)
      BY <1>2, <2>2, <2>3 DEF Stage, Loops
    <2>7. CanMove(nodes, envs, heap, Top, 2, Top.inner, vals)
      BY <1>2, <2>5, <2>6 DEF CanMove, FrameOK, f
    <2>8. Asked(nodes, f) = "block"
      BY <1>2, <2>2, <2>3 DEF Asked, Loops
    <2>9. Here.form # "call"
      BY <1>2
    <2>. QED
      BY <1>1, <1>4, <2>1, <2>4, <2>7, <2>8, <2>9, Asks DEF f
  <1>. QED
    BY <1>5, <1>6, <1>7, <1>8 DEF eval_if_expression

----------------------------------------------------------------------------
(* Literals, identifiers, operators *)

LEMMA LiteralStep ==
  ASSUME IInv, eval_literal
  PROVE  IInv'
  <1>. DEFINE forms == {"number", "string", "true", "false"}
  <1>1. Now(forms) /\ KeepWorld
    BY Running DEF eval_literal, KeepRest, KeepWorld
  <1>2. /\ Here = nodes[Top.node] /\ Here.form \in forms
    BY <1>1 DEF Now
  <1>3. Allowed(nodes, envs, heap, Top.node) = Values(nodes, envs, heap) \cup {Error}
    BY <1>2, AllowedIs DEF Operands, AllForms, Control, Loops
  <1>4. /\ {Number, String} \subseteq Values(nodes, envs, heap)
        /\ \A b \in BOOLEAN : Boolean(b) \in Values(nodes, envs, heap)
    BY Members
  <1>5. PICK v \in {Number, String} \cup {Boolean(b) : b \in BOOLEAN} : Run(v)
    <2>1. (Here.form = "true") \in BOOLEAN
      OBVIOUS
    <2>2. Run(Number) \/ Run(String) \/ Run(Boolean(Here.form = "true"))
      BY <1>2 DEF eval_literal
    <2>. QED
      BY <2>1, <2>2
  <1>6. v \in Allowed(nodes, envs, heap, Top.node)
    BY <1>3, <1>4, <1>5
  <1>7. Give(v) /\ UNCHANGED status /\ Unmet \notin forms
    BY <1>5 DEF Run, Unmet
  <1>. HIDE DEF forms
  <1>. QED
    BY <1>1, <1>6, <1>7, Returns

LEMMA FunctionStep ==
  ASSUME IInv, eval_function_literal
  PROVE  IInv'
  <1>1. Now({"function"}) /\ KeepWorld
    BY Running DEF eval_function_literal, KeepRest, KeepWorld
  <1>2. /\ Here = nodes[Top.node] /\ Here.form = "function"
        /\ Top.node \in 1..Len(nodes) /\ Top.env \in 1..Len(envs)
        /\ MadeBy(envs, Top.env) = nodes[Top.node].within
    BY <1>1 DEF Now, FrameOK
  <1>3. Allowed(nodes, envs, heap, Top.node) = Values(nodes, envs, heap) \cup {Error}
    BY <1>2, AllowedIs DEF Operands, AllForms, Control, Loops
  <1>4. <<Top.node, Top.env>> \in Closures(nodes, envs)
    BY <1>2 DEF Closures
  <1>5. Function(Top.node, Top.env) \in Values(nodes, envs, heap)
    BY <1>4, Members
  <1>6. Give(Function(Top.node, Top.env)) /\ UNCHANGED status /\ Unmet \notin {"function"}
    BY DEF eval_function_literal, Run, Unmet
  <1>. QED
    BY <1>1, <1>3, <1>5, <1>6, Returns

(* What a variable holds is a value, or an error.                          *)
LEMMA Stored ==
  ASSUME NEW ns, NEW es, NEW h, EnvsOK(ns, es, h), NEW e \in 1..Len(es), NEW name \in Names
  PROVE  es[e].store[name] \in Cells(ns, es, h)
  <1>1. es[e] \in EnvRec(ns, es, h)
    BY ElementOfSeq DEF EnvsOK
  <1>. QED
    BY <1>1 DEF EnvRec

LEMMA OrderedEnvs ==
  ASSUME NEW ns, NEW es, NEW h, EnvsOK(ns, es, h)
  PROVE  Ordered(es)
  BY DEF Ordered, EnvsOK

(* What env_get finds is one, too.                                         *)
LEMMA Read ==
  ASSUME NEW ns, NEW es, NEW h, EnvsOK(ns, es, h), NEW e \in 1..Len(es), NEW name \in Names
  PROVE  env_get(es, e, name) \in Cells(ns, es, h)
  <1>1. e \in 0..Len(es) /\ Ordered(es)
    BY OrderedEnvs DEF EnvsOK
  <1>2. HolderIn(es, e, name) = 0 \/ HolderIn(es, e, name) \in 1..Len(es)
    BY <1>1, HolderHolds
  <1>3. CASE HolderIn(es, e, name) = 0
    BY <1>3, Members DEF env_get, Cells
  <1>4. CASE HolderIn(es, e, name) \in 1..Len(es) /\ HolderIn(es, e, name) # 0
    <2>1. es[HolderIn(es, e, name)].store[name] \in Cells(ns, es, h)
      BY <1>4, Stored
    <2>. QED
      BY <1>4, <2>1 DEF env_get
  <1>. QED
    BY <1>2, <1>3, <1>4

LEMMA IdentifierStep ==
  ASSUME IInv, eval_identifier
  PROVE  IInv'
  <1>. DEFINE value == env_get(envs, Top.env, Here.name)
              v == IF Here.name \in BuiltinNames THEN Builtin(Here.name)
                   ELSE IF value = Missing THEN Error ELSE value
  <1>1. Now({"ident"}) /\ KeepWorld
    BY Running DEF eval_identifier, KeepRest, KeepWorld
  <1>2. /\ Here = nodes[Top.node] /\ Here.form = "ident" /\ Here.name \in Names
        /\ Top.env \in 1..Len(envs) /\ EnvsOK(nodes, envs, heap)
    BY <1>1 DEF Now, FormFits, IInv, World
  <1>3. Allowed(nodes, envs, heap, Top.node) = Values(nodes, envs, heap) \cup {Error}
    BY <1>2, AllowedIs DEF Operands, AllForms, Control, Loops
  <1>4. value \in Cells(nodes, envs, heap)
    BY <1>2, Read
  <1>5. v \in Values(nodes, envs, heap) \cup {Error}
    <2>. HIDE DEF value
    <2>. QED
      BY <1>4, Members DEF Cells
  <1>6. Give(v) /\ UNCHANGED status /\ Unmet \notin {"ident"}
    BY DEF eval_identifier, Run, Unmet
  <1>. HIDE DEF v
  <1>. QED
    BY <1>1, <1>3, <1>5, <1>6, Returns

LEMMA PrefixStep ==
  ASSUME IInv, eval_prefix_expression
  PROVE  IInv'
  <1>1. Now({"bang", "minus"}) /\ KeepWorld
    BY Running DEF eval_prefix_expression, KeepRest, KeepWorld
  <1>2. /\ Here = nodes[Top.node] /\ Here.form \in {"bang", "minus"}
    BY <1>1 DEF Now
  <1>3. Allowed(nodes, envs, heap, Top.node) = Values(nodes, envs, heap) \cup {Error}
    BY <1>2, AllowedIs DEF Operands, AllForms, Control, Loops
  <1>4. CASE Made(0) /\ Proceed /\ UNCHANGED status
    BY <1>1, <1>4, FirstAsk DEF FirstForms
  <1>5. CASE Die
    BY <1>1, <1>5, Dies
  <1>6. CASE /\ Made(1)
             /\ \E v \in IF is_error(ret) THEN {ret}
                         ELSE IF Here.form = "bang" THEN Negation(ret)
                         ELSE IF ret.type = "number" THEN {Number} ELSE {Error} :
                  Run(v)
    <2>1. Asked(nodes, Top) = "operand"
      BY <1>2, <1>6 DEF Made, Asked, Loops
    <2>2. ret \in Values(nodes, envs, heap) \cup {Error}
      BY <1>1, <2>1, Operand
    <2>3. ~is_error(ret) => ret \in Values(nodes, envs, heap)
      BY <1>1, <2>1, Operand
    <2>4. /\ Number \in Values(nodes, envs, heap)
          /\ \A b \in BOOLEAN : Boolean(b) \in Values(nodes, envs, heap)
      BY Members
    <2>5. ~is_error(ret) => Negation(ret) \subseteq Values(nodes, envs, heap)
      <3>1. CASE ret.type = "boolean" /\ ~is_error(ret)
        <4>1. Kind(nodes, envs, heap, ret)
          BY <2>3, <3>1, Kinds
        <4>2. PICK b \in BOOLEAN : ret = Boolean(b)
          BY <3>1, <4>1 DEF Kind
        <4>3. Boolean(~ret.value) \in Values(nodes, envs, heap)
          <5>1. (~ret.value) \in BOOLEAN
            OBVIOUS
          <5>. QED
            BY <2>4, <5>1
        <4>. QED
          BY <3>1, <4>3 DEF Negation
      <3>2. CASE ret.type # "boolean"
        BY <2>4, <3>2 DEF Negation
      <3>. QED
        BY <3>1, <3>2
    <2>6. PICK v : Run(v) /\ v \in Values(nodes, envs, heap) \cup {Error}
      BY <1>6, <2>2, <2>4, <2>5
    <2>7. Give(v) /\ UNCHANGED status /\ Unmet \notin {"bang", "minus"}
      BY <2>6 DEF Run, Unmet
    <2>. QED
      BY <1>1, <1>3, <2>6, <2>7, Returns
  <1>. QED
    BY <1>4, <1>5, <1>6 DEF eval_prefix_expression

(* What an operator makes of two operands.                                 *)
LEMMA InfixKnown ==
  ASSUME NEW op, NEW l, NEW r
  PROVE  InfixResults(op, l, r)
           \subseteq {Number, String, Error} \cup {Boolean(b) : b \in BOOLEAN}
  <1>1. AnyBoolean \subseteq {Boolean(b) : b \in BOOLEAN}
    BY DEF AnyBoolean
  <1>2. \A p, q : Boolean(p = q) \in {Boolean(b) : b \in BOOLEAN}
    OBVIOUS
  <1>3. \A p, q : Boolean(p /\ q) \in {Boolean(b) : b \in BOOLEAN}
    OBVIOUS
  <1>. QED
    BY <1>1, <1>2, <1>3 DEF InfixResults

LEMMA InfixStep ==
  ASSUME IInv, eval_infix_expression
  PROVE  IInv'
  <1>. DEFINE known == Values(nodes, envs, heap)
              f(at, vals) == Moved(Top, at, Top.inner, vals)
  <1>1. Now({"infix"}) /\ KeepWorld
    BY Running DEF eval_infix_expression, KeepRest, KeepWorld
  <1>2. /\ Here = nodes[Top.node] /\ Here.form = "infix"
        /\ FrameOK(nodes, envs, heap, Top) /\ Top.inner \in 0..Len(envs)
        /\ KidsFit(nodes, Top.node) /\ Here \in NodeRec
    BY <1>1 DEF Now
  <1>3. Allowed(nodes, envs, heap, Top.node) = known \cup {Error}
    BY <1>2, AllowedIs DEF Operands, AllForms, Control, Loops
  <1>4. /\ Len(Here.kids) = 2
        /\ Role(nodes, Top.node, 1) = "operand" /\ Role(nodes, Top.node, 2) = "operand"
    <2>1. nodes[Top.node].kids \in Seq(Nat)
      BY <1>2 DEF NodeRec
    <2>. QED
      BY <1>2, <2>1, Arity
  <1>5. 1 \in 1..Len(Here.kids) /\ 2 \in 1..Len(Here.kids)
    BY <1>4
  <1>6. /\ \A at, vals : f(at, vals).node = Top.node /\ f(at, vals).at = at
        /\ \A at, vals : f(at, vals).vals = vals
    BY MovedFields
  <1>. HIDE DEF f
  <1>7. \A vals : \A at \in {1, 2} : Asked(nodes, f(at, vals)) = "operand"
    BY <1>2, <1>6 DEF Asked, Loops
  <1>8. Here.form # "call" /\ {"infix"} \cap Scopes = {} /\ Unmet \notin {"infix"}
    BY <1>2 DEF Scopes, Loops, Unmet
  <1>9. CASE Made(0) /\ Ask(Kid(2)) /\ UNCHANGED status
    <2>1. Enter(Kid(2), Top.env, 1, <<>>)
      BY <1>9 DEF Ask, Made, Got
    <2>2. Stage(nodes, envs, heap, f(1, <<>>))
      BY <1>2, <1>6 DEF Stage, Loops
    <2>3. <<>> \in Seq(known \cup {Error, Continue})
      BY EmptySeq
    <2>4. CanMove(nodes, envs, heap, Top, 1, Top.inner, <<>>)
      BY <1>2, <2>2, <2>3 DEF CanMove, FrameOK, f
    <2>5. Role(nodes, Top.node, 2) = Asked(nodes, Moved(Top, 1, Top.inner, <<>>))
      BY <1>4, <1>7 DEF f
    <2>. QED
      BY <1>1, <1>5, <1>8, <1>9, <2>1, <2>4, <2>5, Asks
  <1>10. Made(1) \/ Made(2) => Asked(nodes, Top) = "operand"
    BY <1>2 DEF Made, Asked, Loops
  <1>11. Made(1) \/ Made(2) => /\ ret \in known \cup {Error}
                               /\ ~is_error(ret) => ret \in known
    BY <1>1, <1>10, Operand
  <1>12. CASE Made(1) /\ Ask(Kid(1)) /\ UNCHANGED status
    <2>1. Top.vals = <<>>
      BY <1>2, <1>12 DEF FrameOK, Stage, Made, Loops
    <2>2. Enter(Kid(1), Top.env, 2, <<ret>>)
      <3>1. Got = Append(<<>>, ret)
        BY <1>12, <2>1 DEF Made, Got
      <3>2. Got = <<ret>>
        BY <3>1
      <3>. QED
        BY <1>12, <3>2 DEF Ask, Made
    <2>3. Stage(nodes, envs, heap, f(2, <<ret>>))
      BY <1>2, <1>6, <1>11, <1>12 DEF Stage, Loops
    <2>4. <<ret>> \in Seq(known \cup {Error, Continue})
      BY <1>11, <1>12
    <2>5. CanMove(nodes, envs, heap, Top, 2, Top.inner, <<ret>>)
      BY <1>2, <2>3, <2>4 DEF CanMove, FrameOK, f
    <2>6. Role(nodes, Top.node, 1) = Asked(nodes, Moved(Top, 2, Top.inner, <<ret>>))
      BY <1>4, <1>7 DEF f
    <2>. QED
      BY <1>1, <1>5, <1>8, <1>12, <2>2, <2>5, <2>6, Asks
  <1>13. CASE Die
    BY <1>1, <1>13, Dies
  <1>14. CASE /\ Made(2)
              /\ \/ Run(ret)
                 \/ Run(Top.vals[1])
                 \/ \E v \in InfixResults(Here.name, ret, Top.vals[1]) : Run(v)
    <2>1. Top.vals[1] \in known \cup {Error}
      <3>1. PICK v \in known \cup {Error} : Top.vals = <<v>>
        BY <1>2, <1>14 DEF FrameOK, Stage, Made, Loops
      <3>. QED
        BY <3>1
    <2>2. {Number, String, Error} \cup {Boolean(b) : b \in BOOLEAN} \subseteq known \cup {Error}
      BY Members
    <2>3. InfixResults(Here.name, ret, Top.vals[1]) \subseteq known \cup {Error}
      BY <2>2, InfixKnown
    <2>4. PICK v : Run(v) /\ v \in known \cup {Error}
      BY <1>11, <1>14, <2>1, <2>3
    <2>5. Give(v) /\ UNCHANGED status
      BY <2>4 DEF Run
    <2>. QED
      BY <1>1, <1>3, <1>8, <2>4, <2>5, Returns
  <1>. QED
    BY <1>9, <1>12, <1>13, <1>14 DEF eval_infix_expression

----------------------------------------------------------------------------
(* Indices *)

LEMMA Element ==
  ASSUME NEW ns, NEW es, NEW h, World(ns, es, h), NEW r, r \in 1..Len(h)
  PROVE  /\ h[r] \in Seq(Elements(ns, es, h))
         /\ \A i \in DOMAIN h[r] : /\ h[r][i] \in Elements(ns, es, h)
                                  /\ h[r][i] \in Values(ns, es, h) \cup {Error}
  <1>1. h[r] \in Seq(Elements(ns, es, h))
    BY ElementOfSeq DEF World
  <1>2. DOMAIN h[r] = 1..Len(h[r])
    BY <1>1, LenProperties
  <1>3. Elements(ns, es, h) \subseteq Values(ns, es, h) \cup {Error}
    BY DEF Elements
  <1>. QED
    BY <1>1, <1>2, <1>3, ElementOfSeq

(* Values may be elements.                                                 *)
LEMMA ElementValues ==
  ASSUME NEW ns, NEW es, NEW h
  PROVE  /\ Values(ns, es, h) \subseteq Elements(ns, es, h)
         /\ \A q \in Seq(Values(ns, es, h)) : q \in Seq(Elements(ns, es, h))
  <1>1. Values(ns, es, h) \subseteq Elements(ns, es, h)
    BY DEF Elements
  <1>. QED
    BY <1>1, SeqMonotonic

LEMMA IndexStep ==
  ASSUME IInv, eval_index_expression
  PROVE  IInv'
  <1>. DEFINE known == Values(nodes, envs, heap)
              left == Top.vals[1]
  <1>1. Now({"index"}) /\ KeepWorld
    BY Running DEF eval_index_expression, KeepRest, KeepWorld
  <1>2. /\ Here = nodes[Top.node] /\ Here.form = "index"
        /\ FrameOK(nodes, envs, heap, Top) /\ Top.inner \in 0..Len(envs)
        /\ KidsFit(nodes, Top.node) /\ Here \in NodeRec /\ World(nodes, envs, heap)
    BY <1>1 DEF Now, IInv
  <1>3. Allowed(nodes, envs, heap, Top.node) = known \cup {Error}
    BY <1>2, AllowedIs DEF Operands, AllForms, Control, Loops
  <1>4. Here.form # "call" /\ {"index"} \cap Scopes = {} /\ Unmet \notin {"index"}
    BY <1>2 DEF Scopes, Loops, Unmet
  <1>5. Made(1) \/ Made(2) => /\ ret \in known \cup {Error}
                              /\ ~is_error(ret) => ret \in known
    <2>1. Made(1) \/ Made(2) => Asked(nodes, Top) = "operand"
      BY <1>2 DEF Made, Asked, Loops
    <2>. QED
      BY <1>1, <2>1, Operand
  <1>6. CASE Made(0) /\ Proceed /\ UNCHANGED status
    BY <1>1, <1>6, FirstAsk DEF FirstForms
  <1>7. CASE Die
    BY <1>1, <1>7, Dies
  <1>8. CASE \E v \in known \cup {Error} : Run(v)
    <2>1. PICK v \in known \cup {Error} : Run(v)
      BY <1>8
    <2>2. Give(v) /\ UNCHANGED status
      BY <2>1 DEF Run
    <2>. QED
      BY <1>1, <1>3, <1>4, <2>1, <2>2, Returns
  <1>9. CASE /\ Made(1) /\ Proceed /\ UNCHANGED status
             /\ ret.type \in {"array", "hash"}
    <2>. DEFINE f == Moved(Top, 2, Top.inner, <<ret>>)
    <2>1. Top.vals = <<>>
      BY <1>2, <1>9 DEF FrameOK, Stage, Made, Loops
    <2>2. Enter(Kid(2), Top.env, 2, <<ret>>)
      <3>1. Got = Append(<<>>, ret)
        BY <1>9, <2>1 DEF Made, Got
      <3>2. Got = <<ret>>
        BY <3>1
      <3>. QED
        BY <1>9, <3>2 DEF Proceed, Ask, Made
    <2>3. ret \in Containers(heap)
      <3>1. ret \in known
        BY <1>5, <1>9 DEF is_error
      <3>2. Kind(nodes, envs, heap, ret)
        BY <3>1, Kinds
      <3>. QED
        BY <1>9, <3>2, Members DEF Kind
    <2>4. f.node = Top.node /\ f.at = 2 /\ f.inner = Top.inner /\ f.vals = <<ret>>
      BY MovedFields
    <2>. HIDE DEF f
    <2>5. nodes[f.node] = Here
      BY <1>2, <2>4
    <2>6. Stage(nodes, envs, heap, f)
      BY <1>2, <2>3, <2>4, <2>5 DEF Stage, Loops
    <2>7. <<ret>> \in Seq(known \cup {Error, Continue})
      BY <1>5, <1>9
    <2>8. CanMove(nodes, envs, heap, Top, 2, Top.inner, <<ret>>)
      BY <1>2, <2>6, <2>7 DEF CanMove, FrameOK, f
    <2>9. Len(Here.kids) = 2 /\ Role(nodes, Top.node, 2) = "operand"
      <3>1. nodes[Top.node].kids \in Seq(Nat)
        BY <1>2 DEF NodeRec
      <3>. QED
        BY <1>2, <3>1, Arity
    <2>10. 2 \in 1..Len(Here.kids)
      BY <2>9
    <2>11. Role(nodes, Top.node, 2) = Asked(nodes, Moved(Top, 2, Top.inner, <<ret>>))
      <3>1. Asked(nodes, f) = "operand"
        BY <1>2, <2>4, <2>5 DEF Asked, Loops
      <3>. QED
        BY <2>9, <3>1 DEF f
    <2>. QED
      BY <1>1, <1>4, <1>9, <2>2, <2>8, <2>10, <2>11, Asks
  <1>10. Made(2) => left.type \in {"array", "hash"} /\ left.ref \in 1..Len(heap)
    <2>1. ASSUME Made(2)
          PROVE  \E v \in Containers(heap) : Top.vals = <<v>>
      BY <1>2, <2>1 DEF FrameOK, Stage, Made, Loops
    <2>2. Made(2) => left \in Containers(heap)
      BY <2>1
    <2>. HIDE DEF left
    <2>3. ASSUME left \in Containers(heap)
          PROVE  left.type \in {"array", "hash"} /\ left.ref \in 1..Len(heap)
      <3>1. PICK t \in {"array", "hash"}, r \in 1..Len(heap) : left = Container(t, r)
        BY <2>3 DEF Containers
      <3>. QED
        BY <3>1, Types
    <2>. QED
      BY <2>2, <2>3
  <1>11. Made(2) => \A i \in DOMAIN heap[left.ref] : heap[left.ref][i] \in known \cup {Error}
    BY <1>2, <1>10, Element
  <1>12. Null \in known
    BY Members
  <1>13. ASSUME Made(2),
                \/ Run(Error)
                \/ ArrayIndexing(heap[left.ref])
                \/ \E v \in {Null} \cup {heap[left.ref][i] : i \in DOMAIN heap[left.ref]} : Run(v)
         PROVE  Die \/ \E v \in known \cup {Error} : Run(v)
    <2>. HIDE DEF left, known
    <2>1. CASE Run(Error)
      BY <2>1
    <2>2. CASE ArrayIndexing(heap[left.ref])
      BY <1>11, <1>12, <1>13, <2>2 DEF ArrayIndexing
    <2>3. CASE \E v \in {Null} \cup {heap[left.ref][i] : i \in DOMAIN heap[left.ref]} : Run(v)
      BY <1>11, <1>12, <1>13, <2>3
    <2>. QED
      BY <1>13, <2>1, <2>2, <2>3
  <1>14. \/ Made(0) /\ Proceed /\ UNCHANGED status
         \/ Die
         \/ Run(Error)
         \/ /\ Made(1) /\ Proceed /\ UNCHANGED status
            /\ ret.type \in {"array", "hash"}
         \/ Made(2) /\ (\/ ArrayIndexing(heap[left.ref])
                        \/ \E v \in {Null} \cup {heap[left.ref][i] : i \in DOMAIN heap[left.ref]} :
                             Run(v))
    BY DEF eval_index_expression
  <1>. QED
    BY <1>6, <1>7, <1>8, <1>9, <1>13, <1>14

----------------------------------------------------------------------------
(* Loops *)

(* A part of a loop is one of its children.                                *)
LEMMA PartIs ==
  ASSUME NEW forms, Now(forms), NEW role
  PROVE  /\ \/ Part(role) = 0
            \/ \E i \in 1..Len(Here.kids) :
                 Part(role) = Kid(i) /\ Role(nodes, Top.node, i) = role
         /\ (\E i \in 1..Len(Here.kids) : Role(nodes, Top.node, i) = role) =>
              \E i \in 1..Len(Here.kids) :
                Part(role) = Kid(i) /\ Role(nodes, Top.node, i) = role
  <1>. DEFINE parts == {i \in DOMAIN Here.kids : nodes[Kid(i)].role = role}
  <1>1. Here = nodes[Top.node] /\ Here.kids \in Seq(Nat)
    BY DEF Now, NodeRec
  <1>2. DOMAIN Here.kids = 1..Len(Here.kids)
    BY <1>1, LenProperties
  <1>3. \A i \in 1..Len(Here.kids) : i \in parts <=> Role(nodes, Top.node, i) = role
    BY <1>1, <1>2 DEF Role, Kid
  <1>4. \A i \in parts : i \in 1..Len(Here.kids)
    BY <1>2
  <1>5. Part(role) = IF parts = {} THEN 0 ELSE Kid(CHOOSE i \in parts : TRUE)
    BY DEF Part
  <1>. HIDE DEF parts
  <1>6. parts # {} => (CHOOSE i \in parts : TRUE) \in parts
    OBVIOUS
  <1>. QED
    BY <1>3, <1>4, <1>5, <1>6

(* A part of a loop is evaluated.                                          *)
LEMMA LoopAsks ==
  ASSUME IInv, Now(Loops), KeepWorld, UNCHANGED status, Top.at # 0,
         NEW role, NEW at, NEW vals,
         \/ role = "operand" /\ at \in {2, 4}
         \/ role = "block" /\ at = 5
         \/ role = "statement" /\ at = 6,
         Part(role) # 0 \/ role = "block",
         vals \in Seq(Kept(nodes, envs, heap, Top.node)),
         Enter(Part(role), Top.inner, at, vals)
  PROVE  IInv'
  <1>. DEFINE f == Moved(Top, at, Top.inner, vals)
  <1>1. /\ Here = nodes[Top.node] /\ Here.form \in Loops
        /\ FrameOK(nodes, envs, heap, Top) /\ Top.inner \in 0..Len(envs)
        /\ KidsFit(nodes, Top.node) /\ Here \in NodeRec
    BY DEF Now
  <1>2. Top.inner # 0
    BY <1>1 DEF FrameOK, Stage, Loops
  <1>3. f.node = Top.node /\ f.at = at /\ f.inner = Top.inner /\ f.vals = vals
    BY MovedFields
  <1>. HIDE DEF f
  <1>4. nodes[f.node] = Here
    BY <1>1, <1>3
  <1>5. at \in 1..6 /\ at \in Nat /\ at # 0
    OBVIOUS
  <1>6. PICK i \in 1..Len(Here.kids) : Part(role) = Kid(i) /\ Role(nodes, Top.node, i) = role
    <2>1. \E i \in 1..Len(Here.kids) : Role(nodes, Top.node, i) = "block"
      <3>1. nodes[Top.node].kids \in Seq(Nat)
        BY <1>1 DEF NodeRec
      <3>. QED
        BY <1>1, <3>1, Arity
    <2>. QED
      BY <2>1, PartIs
  <1>7. Stage(nodes, envs, heap, f)
    BY <1>1, <1>2, <1>3, <1>4, <1>5 DEF Stage
  <1>8. vals \in Seq(Values(nodes, envs, heap) \cup {Error, Continue})
    <2>1. Kept(nodes, envs, heap, Top.node) \subseteq Values(nodes, envs, heap) \cup {Error, Continue}
      BY DEF Kept
    <2>. QED
      BY <2>1, SeqMonotonic
  <1>9. CanMove(nodes, envs, heap, Top, at, Top.inner, vals)
    BY <1>1, <1>5, <1>7, <1>8 DEF CanMove, FrameOK, f
  <1>10. Asked(nodes, f) = role
    <2>1. Asked(nodes, f) = IF at = 1 THEN "let" ELSE IF at \in {2, 4} THEN "operand"
                            ELSE IF at = 5 THEN "block" ELSE IF at = 6 THEN "statement" ELSE "none"
      BY <1>1, <1>3, <1>4, <1>5 DEF Asked, Loops
    <2>. QED
      BY <2>1
  <1>11. Role(nodes, Top.node, i) = Asked(nodes, Moved(Top, at, Top.inner, vals))
    BY <1>6, <1>10 DEF f
  <1>12. Enter(Kid(i), Top.inner, at, vals)
    BY <1>6
  <1>. QED
    BY <1>2, <1>6, <1>9, <1>11, <1>12, AsksInside

(* What a loop under way has kept, and what it may return.                 *)
LEMMA LoopNow ==
  ASSUME IInv, Now(Loops), Top.at # 0
  PROVE  /\ Top.inner # 0 /\ Top.vals \in Seq(Kept(nodes, envs, heap, Top.node))
         /\ Allowed(nodes, envs, heap, Top.node) = Ends(nodes, envs, heap, Top.node)
         /\ Unmet \notin Loops /\ Loops \subseteq Loops
         /\ <<>> \in Seq(Kept(nodes, envs, heap, Top.node))
         /\ {Missing, Error} \subseteq Ends(nodes, envs, heap, Top.node)
         /\ Kept(nodes, envs, heap, Top.node) \subseteq Ends(nodes, envs, heap, Top.node)
         /\ Top.at \in {2, 4} => Asked(nodes, Top) = "operand"
         /\ Top.at = 5 => Asked(nodes, Top) = "block"
  <1>1. Here = nodes[Top.node] /\ Here.form \in Loops /\ FrameOK(nodes, envs, heap, Top)
    BY DEF Now
  <1>2. Top.inner # 0 /\ Top.vals \in Seq(Kept(nodes, envs, heap, Top.node)) /\ Top.at \in 1..6
    BY <1>1 DEF FrameOK, Stage, Loops
  <1>3. Allowed(nodes, envs, heap, Top.node) = Ends(nodes, envs, heap, Top.node)
    BY <1>1, AllowedIs DEF Control
  <1>4. Unmet \notin Loops
    BY DEF Unmet, Loops
  <1>5. <<>> \in Seq(Kept(nodes, envs, heap, Top.node))
    BY EmptySeq
  <1>6. {Missing, Error} \subseteq Ends(nodes, envs, heap, Top.node)
    BY Members DEF Ends
  <1>7. Kept(nodes, envs, heap, Top.node) \subseteq Ends(nodes, envs, heap, Top.node)
    BY DEF Ends, Kept
  <1>8. Asked(nodes, Top) = IF Top.at = 1 THEN "let" ELSE IF Top.at \in {2, 4} THEN "operand"
                            ELSE IF Top.at = 5 THEN "block" ELSE IF Top.at = 6 THEN "statement"
                            ELSE "none"
    BY <1>1, <1>2 DEF Asked, Loops
  <1>. QED
    BY <1>2, <1>3, <1>4, <1>5, <1>6, <1>7, <1>8

(* A loop returns.                                                         *)
LEMMA LoopReturns ==
  ASSUME IInv, Now(Loops), KeepWorld, Top.at # 0,
         NEW v \in Ends(nodes, envs, heap, Top.node), Run(v)
  PROVE  IInv'
  <1>1. Give(v) /\ UNCHANGED status
    BY DEF Run
  <1>2. v \in Allowed(nodes, envs, heap, Top.node) /\ Unmet \notin Loops
    BY LoopNow
  <1>. QED
    BY <1>1, <1>2, Returns

LEMMA CheckStep ==
  ASSUME IInv, CheckCondition
  PROVE  IInv'
  <1>1. Now(Loops) /\ KeepWorld
    BY Running DEF CheckCondition, KeepRest, KeepWorld
  <1>2. Top.at # 0
    BY DEF CheckCondition, Made
  <1>3. Top.inner # 0 /\ Top.vals \in Seq(Kept(nodes, envs, heap, Top.node))
    BY <1>1, <1>2, LoopNow
  <1>4. CASE GoTo(3, Top.inner, <<>>) /\ UNCHANGED status
    <2>1. <<>> \in Seq(Kept(nodes, envs, heap, Top.node)) /\ Loops \subseteq Loops
      BY <1>1, <1>2, LoopNow
    <2>. QED
      BY <1>1, <1>3, <1>4, <2>1, Goes
  <1>5. CASE Condition # 0 /\ EnterInner(Condition, 2) /\ UNCHANGED status
    BY <1>1, <1>2, <1>3, <1>5, LoopAsks DEF EnterInner, Condition
  <1>6. CASE Die
    BY <1>1, <1>6, Dies
  <1>7. CASE Run(Error)
    BY <1>1, <1>2, <1>7, LoopNow, LoopReturns
  <1>. QED
    BY <1>4, <1>5, <1>6, <1>7 DEF CheckCondition

LEMMA TestStep ==
  ASSUME IInv, TestCondition
  PROVE  IInv'
  <1>1. Now(Loops) /\ KeepWorld
    BY Running DEF TestCondition, KeepRest, KeepWorld
  <1>2. Top.at # 0
    <2>1. Made(3) \/ Made(4)
      BY DEF TestCondition
    <2>. QED
      BY <2>1 DEF Made
  <1>3. Top.inner # 0 /\ Top.vals \in Seq(Kept(nodes, envs, heap, Top.node))
    BY <1>1, <1>2, LoopNow
  <1>4. CASE EnterInner(Body, 5) /\ UNCHANGED status
    BY <1>1, <1>2, <1>3, <1>4, LoopAsks DEF EnterInner, Body
  <1>5. CASE Condition # 0 /\ EnterInner(Condition, 4) /\ UNCHANGED status
    BY <1>1, <1>2, <1>3, <1>5, LoopAsks DEF EnterInner, Condition
  <1>6. CASE Die
    BY <1>1, <1>6, Dies
  <1>7. CASE Run(Missing)
    BY <1>1, <1>2, <1>7, LoopNow, LoopReturns
  <1>8. CASE Top.vals # <<>> /\ Run(Top.vals[1])
    <2>1. 1 \in 1..Len(Top.vals)
      BY <1>3, <1>8, EmptySeq, LenProperties
    <2>2. Top.vals[1] \in Kept(nodes, envs, heap, Top.node)
      BY <1>3, <2>1, ElementOfSeq
    <2>3. Top.vals[1] \in Ends(nodes, envs, heap, Top.node)
      BY <1>1, <1>2, <2>2, LoopNow
    <2>. QED
      BY <1>1, <1>2, <1>8, <2>3, LoopReturns
  <1>. QED
    BY <1>4, <1>5, <1>6, <1>7, <1>8 DEF TestCondition, GiveUninitialised, Run

LEMMA EndStep ==
  ASSUME IInv, EndIteration
  PROVE  IInv'
  <1>1. Now(Loops) /\ KeepWorld /\ UNCHANGED status
    BY Running DEF EndIteration, KeepRest, KeepWorld
  <1>2. Top.at # 0
    BY DEF EndIteration, Made
  <1>3. /\ Top.inner # 0 /\ Top.vals \in Seq(Kept(nodes, envs, heap, Top.node))
        /\ Loops \subseteq Loops
    BY <1>1, <1>2, LoopNow
  <1>4. CASE Made(6) /\ GoTo(3, Top.inner, Top.vals)
    BY <1>1, <1>3, <1>4, Goes
  <1>5. CASE /\ Made(5)
             /\ CASE ret.type \in {"return", "break"} -> Give(ret)
                  [] ret.type = "continue" -> GoTo(3, Top.inner, <<ret>>)
                  [] OTHER -> IF Update = 0 THEN GoTo(3, Top.inner, <<ret>>)
                              ELSE Enter(Update, Top.inner, 6, <<ret>>)
    <2>1. Asked(nodes, Top) = "block"
      BY <1>1, <1>2, <1>5, LoopNow DEF Made
    <2>2. ret \in Ends(nodes, envs, heap, Top.node)
      BY <1>1, <2>1, Received
    <2>3. ret.type \notin {"return", "break"} => ret \in Kept(nodes, envs, heap, Top.node)
      <3>1. ASSUME NEW v \in Wrappers(nodes, envs, heap)
            PROVE  v.type = "return"
        BY Types DEF Wrappers
      <3>2. Break.type = "break"
        BY Types
      <3>. QED
        BY <2>2, <3>1, <3>2 DEF Ends, Kept
    <2>4. ret.type \notin {"return", "break"} => <<ret>> \in Seq(Kept(nodes, envs, heap, Top.node))
      BY <2>3
    <2>5. CASE ret.type \in {"return", "break"}
      <3>1. Run(ret)
        BY <1>1, <1>5, <2>5 DEF Run
      <3>. QED
        BY <1>1, <1>2, <2>2, <3>1, LoopReturns
    <2>6. CASE ret.type \notin {"return", "break"} /\ GoTo(3, Top.inner, <<ret>>)
      BY <1>1, <1>3, <2>4, <2>6, Goes
    <2>7. CASE /\ ret.type \notin {"return", "break"}
               /\ Update # 0 /\ Enter(Update, Top.inner, 6, <<ret>>)
      BY <1>1, <1>2, <2>4, <2>7, LoopAsks DEF Update
    <2>. QED
      BY <1>5, <2>5, <2>6, <2>7
  <1>. QED
    BY <1>4, <1>5 DEF EndIteration

----------------------------------------------------------------------------
(* Changes of the world *)

(* Environments and arrays of the old world are such of the new one.       *)
LEMMA Lifts ==
  ASSUME NEW ns, NEW es, NEW h, NEW ms, NEW us, NEW g, Grown(ns, es, h, ms, us, g)
  PROVE  /\ EnvRec(ns, es, h) \subseteq EnvRec(ms, us, g)
         /\ Seq(EnvRec(ns, es, h)) \subseteq Seq(EnvRec(ms, us, g))
         /\ Seq(Seq(Elements(ns, es, h))) \subseteq Seq(Seq(Elements(ms, us, g)))
  <1>1. /\ Cells(ns, es, h) \subseteq Cells(ms, us, g)
        /\ Elements(ns, es, h) \subseteq Elements(ms, us, g)
    BY GrownValues
  <1>2. EnvRec(ns, es, h) \subseteq EnvRec(ms, us, g)
    <2>1. [Names -> Cells(ns, es, h)] \subseteq [Names -> Cells(ms, us, g)]
      BY <1>1
    <2>. QED
      BY <2>1 DEF EnvRec
  <1>3. Seq(Elements(ns, es, h)) \subseteq Seq(Elements(ms, us, g))
    BY <1>1, SeqMonotonic
  <1>4. Seq(EnvRec(ns, es, h)) \subseteq Seq(EnvRec(ms, us, g))
    BY <1>2, SeqMonotonic
  <1>5. Seq(Seq(Elements(ns, es, h))) \subseteq Seq(Seq(Elements(ms, us, g)))
    BY <1>3, SeqMonotonic
  <1>. QED
    BY <1>2, <1>4, <1>5

LEMMA WorldLens ==
  ASSUME NEW ns, NEW es, NEW h, World(ns, es, h)
  PROVE  /\ Len(ns) \in Nat /\ Len(es) \in Nat \ {0} /\ Len(h) \in Nat
         /\ Ordered(es) /\ SameChain(es, es)
         /\ es \in Seq(EnvRec(ns, es, h)) /\ h \in Seq(Seq(Elements(ns, es, h)))
  <1>1. Len(ns) \in Nat /\ Len(es) \in Nat \ {0} /\ Len(h) \in Nat
    BY LenProperties DEF World, NodesOK, EnvsOK
  <1>. QED
    BY <1>1 DEF World, EnvsOK, Ordered, SameChain

(* A variable gets a value.                                                *)
IsStored(us, es, e, name, v) == us = [es EXCEPT ![e].store[name] = v]

(* A variable is given a value.                                            *)
LEMMA StoreOK ==
  ASSUME NEW ns, NEW es, NEW h, World(ns, es, h), NEW e \in 1..Len(es), NEW name \in Names,
         NEW v \in Cells(ns, es, h), v = Error => Named(ns, name),
         NEW us, IsStored(us, es, e, name, v)
  PROVE  /\ World(ns, us, h) /\ Grown(ns, es, h, ns, us, h)
         /\ Len(us) = Len(es)
         /\ \A d \in 1..Len(es) :
              /\ us[d].outer = es[d].outer /\ us[d].of = es[d].of
              /\ \A n \in Names : us[d].store[n] = IF d = e /\ n = name THEN v
                                                   ELSE es[d].store[n]
  <1>. DEFINE rec == [es[e] EXCEPT !.store[name] = v]
              ts == [es EXCEPT ![e] = rec]
  <1>1. /\ Len(ns) \in Nat /\ Len(es) \in Nat \ {0} /\ Len(h) \in Nat
        /\ es \in Seq(EnvRec(ns, es, h)) /\ h \in Seq(Seq(Elements(ns, es, h)))
        /\ DOMAIN es = 1..Len(es)
    BY WorldLens, LenProperties
  <1>2. es[e] \in EnvRec(ns, es, h)
    BY <1>1, ElementOfSeq
  <1>3. /\ rec \in EnvRec(ns, es, h)
        /\ rec.outer = es[e].outer /\ rec.of = es[e].of
        /\ \A n \in Names : rec.store[n] = IF n = name THEN v ELSE es[e].store[n]
    BY <1>2 DEF EnvRec
  <1>4. us = ts
    <2>. HIDE DEF rec
    <2>1. [es EXCEPT ![e].store[name] = v]
            = [es EXCEPT ![e] = [es[e] EXCEPT !.store[name] = v]]
      BY <1>1
    <2>. QED
      BY <2>1 DEF rec, IsStored
  <1>. HIDE DEF rec
  <1>5. /\ ts \in Seq(EnvRec(ns, es, h)) /\ Len(ts) = Len(es)
        /\ \A d \in 1..Len(es) : ts[d] = IF d = e THEN rec ELSE es[d]
    BY <1>1, <1>3, ExceptSeq
  <1>. HIDE DEF ts
  <1>6. \A d \in 1..Len(es) :
          /\ us[d].outer = es[d].outer /\ us[d].of = es[d].of
          /\ \A n \in Names : us[d].store[n] = IF d = e /\ n = name THEN v ELSE es[d].store[n]
    BY <1>3, <1>4, <1>5
  <1>7. Len(us) = Len(es)
    BY <1>4, <1>5
  <1>8. SameChain(es, us)
    BY <1>1, <1>6, <1>7 DEF SameChain, Ordered, World, EnvsOK
  <1>9. Grown(ns, es, h, ns, us, h)
    BY <1>1, <1>8 DEF Grown
  <1>10. /\ us \in Seq(EnvRec(ns, us, h)) /\ h \in Seq(Seq(Elements(ns, us, h)))
    <2>1. /\ Seq(EnvRec(ns, es, h)) \subseteq Seq(EnvRec(ns, us, h))
          /\ Seq(Seq(Elements(ns, es, h))) \subseteq Seq(Seq(Elements(ns, us, h)))
      BY <1>9, Lifts
    <2>2. us \in Seq(EnvRec(ns, es, h))
      BY <1>4, <1>5
    <2>. QED
      BY <1>1, <2>1, <2>2
  <1>11. EnvsOK(ns, us, h)
    BY <1>1, <1>6, <1>7, <1>10 DEF EnvsOK, World
  <1>12. StoresOK(ns, us)
    BY <1>6, <1>7 DEF StoresOK, World
  <1>13. World(ns, us, h)
    BY <1>10, <1>11, <1>12 DEF World
  <1>. QED
    BY <1>6, <1>7, <1>9, <1>13

IsAppended(g, h, q) == g = Append(h, q)

(* An environment is made inside another one.                              *)
LEMMA EnvAppendOK ==
  ASSUME NEW ns, NEW es, NEW h, World(ns, es, h), Len(es) < MaxEnvs,
         NEW store \in [Names -> Values(ns, es, h)], NEW outer \in 1..Len(es),
         NEW of \in 1..Len(ns), NEW us,
         IsAppended(us, es, [store |-> store, outer |-> outer, of |-> of])
  PROVE  /\ World(ns, us, h) /\ Grown(ns, es, h, ns, us, h)
         /\ Len(us) = Len(es) + 1
         /\ MadeBy(us, Len(es) + 1) = Append(MadeBy(es, outer), of)
  <1>. DEFINE rec == [store |-> store, outer |-> outer, of |-> of]
              ts == Append(es, rec)
  <1>1. /\ Len(ns) \in Nat /\ Len(es) \in Nat \ {0} /\ Len(h) \in Nat
        /\ es \in Seq(EnvRec(ns, es, h)) /\ h \in Seq(Seq(Elements(ns, es, h)))
    BY WorldLens
  <1>2. /\ rec \in EnvRec(ns, es, h) /\ rec.outer = outer /\ rec.of = of
        /\ rec.store = store
    BY <1>1 DEF EnvRec, Cells
  <1>. HIDE DEF rec
  <1>3. /\ ts \in Seq(EnvRec(ns, es, h)) /\ Len(ts) = Len(es) + 1
        /\ \A d \in 1..Len(es) : ts[d] = es[d]
        /\ ts[Len(es) + 1] = rec
    BY <1>1, <1>2, AppendProperties
  <1>4. us = ts
    BY DEF rec, IsAppended
  <1>. HIDE DEF ts
  <1>5. \A d \in 1..Len(us) :
          us[d].outer \in 0..(d - 1) /\ us[d].of \in 0..Len(ns)
    <2>1. \A d \in 1..Len(us) : d \in 1..Len(es) \/ d = Len(es) + 1
      BY <1>1, <1>3, <1>4
    <2>2. \A d \in 1..Len(es) : us[d].outer \in 0..(d - 1) /\ us[d].of \in 0..Len(ns)
      BY <1>3, <1>4 DEF World, EnvsOK
    <2>3. us[Len(es) + 1].outer \in 0..(Len(es) + 1 - 1) /\ us[Len(es) + 1].of \in 0..Len(ns)
      BY <1>1, <1>2, <1>3, <1>4
    <2>. QED
      BY <2>1, <2>2, <2>3
  <1>6. Len(us) = Len(es) + 1 /\ Len(us) \in Nat /\ MaxEnvs \in Nat /\ Len(us) <= MaxEnvs
    BY <1>1, <1>3, <1>4, BoundsNatural
  <1>7. SameChain(es, us) /\ Ordered(us) /\ Ordered(es)
    <2>1. Ordered(es)
      BY WorldLens
    <2>2. Ordered(us)
      BY <1>5, <1>6 DEF Ordered
    <2>3. \A d \in 1..Len(es) : us[d].outer = es[d].outer /\ us[d].of = es[d].of
      BY <1>3, <1>4
    <2>4. Len(es) <= Len(us)
      BY <1>1, <1>6
    <2>. QED
      BY <2>1, <2>2, <2>3, <2>4 DEF SameChain
  <1>8. Grown(ns, es, h, ns, us, h)
    BY <1>1, <1>7 DEF Grown
  <1>9. /\ us \in Seq(EnvRec(ns, us, h)) /\ h \in Seq(Seq(Elements(ns, us, h)))
    BY <1>1, <1>3, <1>4, <1>8, Lifts
  <1>10. EnvsOK(ns, us, h)
    BY <1>1, <1>5, <1>6, <1>9 DEF EnvsOK
  <1>11. World(ns, us, h)
    <2>1. \A d \in 1..Len(us) : d \in 1..Len(es) \/ d = Len(es) + 1
      BY <1>1, <1>3, <1>4
    <2>2. ASSUME NEW d \in 1..Len(us), NEW name \in Names, us[d].store[name] = Error
          PROVE  Named(ns, name)
      <3>1. CASE d \in 1..Len(es)
        BY <1>3, <1>4, <2>2, <3>1 DEF World, StoresOK
      <3>2. d # Len(es) + 1
        <4>1. store[name] # Error
          BY NoError
        <4>. QED
          BY <1>2, <1>3, <1>4, <2>2, <4>1
      <3>. QED
        BY <2>1, <3>1, <3>2
    <2>. QED
      BY <1>9, <1>10, <2>2 DEF World, StoresOK
  <1>12. MadeBy(us, Len(es) + 1) = Append(MadeBy(es, outer), of)
    <2>1. Len(es) + 1 \in 1..Len(us) /\ Len(es) + 1 # 1
      BY <1>1, <1>6
    <2>2. MadeBy(us, Len(es) + 1)
            = Append(MadeBy(us, us[Len(es) + 1].outer), us[Len(es) + 1].of)
      BY <1>7, <2>1, MadeByUnfolds
    <2>3. us[Len(es) + 1].outer = outer /\ us[Len(es) + 1].of = of
      BY <1>2, <1>3, <1>4
    <2>4. MadeBy(us, outer) = MadeBy(es, outer)
      BY <1>7, MadeBySame
    <2>. QED
      BY <2>2, <2>3, <2>4
  <1>. QED
    BY <1>6, <1>8, <1>11, <1>12

(* An array or a hash is made.                                             *)
LEMMA HeapAppendOK ==
  ASSUME NEW ns, NEW es, NEW h, World(ns, es, h), NEW q \in Seq(Elements(ns, es, h)),
         NEW g, IsAppended(g, h, q)
  PROVE  World(ns, es, g) /\ Grown(ns, es, h, ns, es, g) /\ Len(g) = Len(h) + 1
  <1>1. /\ Len(ns) \in Nat /\ Len(es) \in Nat \ {0} /\ Len(h) \in Nat /\ SameChain(es, es)
        /\ es \in Seq(EnvRec(ns, es, h)) /\ h \in Seq(Seq(Elements(ns, es, h)))
    BY WorldLens
  <1>2. g \in Seq(Seq(Elements(ns, es, h))) /\ Len(g) = Len(h) + 1
    BY <1>1, AppendProperties DEF IsAppended
  <1>3. Grown(ns, es, h, ns, es, g)
    BY <1>1, <1>2 DEF Grown
  <1>4. es \in Seq(EnvRec(ns, es, g)) /\ g \in Seq(Seq(Elements(ns, es, g)))
    BY <1>1, <1>2, <1>3, Lifts
  <1>5. World(ns, es, g)
    BY <1>4 DEF World, EnvsOK
  <1>. QED
    BY <1>2, <1>3, <1>5

(* An element of an array gets a value.                                    *)
IsPut(g, h, r, i, v) == g = [h EXCEPT ![r][i] = v]

(* An element is given a value.                                            *)
LEMMA HeapSetOK ==
  ASSUME NEW ns, NEW es, NEW h, World(ns, es, h), NEW r \in 1..Len(h),
         NEW i \in DOMAIN h[r], NEW v \in Elements(ns, es, h),
         NEW g, IsPut(g, h, r, i, v)
  PROVE  World(ns, es, g) /\ Grown(ns, es, h, ns, es, g) /\ Len(g) = Len(h)
  <1>. DEFINE q == [h[r] EXCEPT ![i] = v]
              k == [h EXCEPT ![r] = q]
  <1>1. /\ Len(ns) \in Nat /\ Len(es) \in Nat \ {0} /\ Len(h) \in Nat /\ SameChain(es, es)
        /\ es \in Seq(EnvRec(ns, es, h)) /\ h \in Seq(Seq(Elements(ns, es, h)))
    BY WorldLens
  <1>2. h[r] \in Seq(Elements(ns, es, h)) /\ i \in 1..Len(h[r])
    BY Element, LenProperties
  <1>3. q \in Seq(Elements(ns, es, h))
    BY <1>2, ExceptSeq
  <1>4. g = k
    BY DEF IsPut
  <1>. HIDE DEF q
  <1>5. k \in Seq(Seq(Elements(ns, es, h))) /\ Len(k) = Len(h)
    BY <1>1, <1>3, ExceptSeq
  <1>. HIDE DEF k
  <1>6. g \in Seq(Seq(Elements(ns, es, h))) /\ Len(g) = Len(h)
    BY <1>4, <1>5
  <1>7. Grown(ns, es, h, ns, es, g)
    BY <1>1, <1>6 DEF Grown
  <1>8. es \in Seq(EnvRec(ns, es, g)) /\ g \in Seq(Seq(Elements(ns, es, g)))
    <2>1. /\ Seq(EnvRec(ns, es, h)) \subseteq Seq(EnvRec(ns, es, g))
          /\ Seq(Seq(Elements(ns, es, h))) \subseteq Seq(Seq(Elements(ns, es, g)))
      BY <1>7, Lifts
    <2>. QED
      BY <1>1, <1>6, <2>1
  <1>9. World(ns, es, g)
    BY <1>8 DEF World, EnvsOK
  <1>. QED
    BY <1>6, <1>7, <1>9

----------------------------------------------------------------------------
(* Variables *)

LEMMA LetStep ==
  ASSUME IInv, eval_let_statement
  PROVE  IInv'
  <1>. DEFINE known == Values(nodes, envs, heap)
  <1>1. Now({"let"}) /\ UNCHANGED <<suite, nodes, heap, status>>
    BY Running DEF eval_let_statement
  <1>2. /\ Here = nodes[Top.node] /\ Here.form = "let" /\ Here.name \in Names
        /\ Top.env \in 1..Len(envs) /\ frames # <<>> /\ Here \in NodeRec
        /\ FormFits(nodes, Top.node) /\ World(nodes, envs, heap)
        /\ Top.node \in 1..Len(nodes)
    BY <1>1 DEF Now, FormFits, IInv
  <1>3. Allowed(nodes, envs, heap, Top.node) = known \cup {Error}
    BY <1>2, AllowedIs DEF Operands, AllForms, Control, Loops
  <1>4. Unmet \notin {"let"}
    BY DEF Unmet
  <1>5. Made(1) => /\ ret \in known \cup {Error}
                   /\ ~is_error(ret) => ret \in known
    <2>1. Made(1) => Asked(nodes, Top) = "operand"
      BY <1>2 DEF Made, Asked, Loops
    <2>. QED
      BY <1>1, <2>1, Operand
  <1>6. CASE Made(0) /\ Proceed /\ UNCHANGED envs
    <2>1. KeepWorld
      BY <1>1, <1>6 DEF KeepWorld
    <2>. QED
      BY <1>1, <1>6, <2>1, FirstAsk DEF FirstForms
  <1>7. CASE Made(1) /\ Give(ret) /\ UNCHANGED envs
    <2>1. KeepWorld
      BY <1>1, <1>7 DEF KeepWorld
    <2>. QED
      BY <1>1, <1>3, <1>4, <1>5, <1>7, <2>1, Returns
  <1>8. CASE /\ Made(1) /\ ~is_error(ret)
             /\ envs' = [envs EXCEPT ![Top.env].store[Here.name] = ret]
             /\ Give(Missing)
    <2>1. World(nodes, envs', heap) /\ Grown(nodes, envs, heap, nodes, envs', heap)
      <3>1. ret \in Cells(nodes, envs, heap) /\ ret # Error
        BY <1>5, <1>8, NoError DEF Cells
      <3>2. IsStored(envs', envs, Top.env, Here.name, ret)
        BY <1>8 DEF IsStored
      <3>. QED
        BY <1>2, <3>1, <3>2, StoreOK
    <2>2. NewWorld
      BY <1>1, <2>1 DEF NewWorld
    <2>3. Missing \in Results(nodes, envs', heap, Top.node)
      <3>1. Allowed(nodes, envs', heap, Top.node) \subseteq Results(nodes, envs', heap, Top.node)
        BY <1>2, MayReturn DEF Unmet
      <3>2. Allowed(nodes, envs', heap, Top.node) = Values(nodes, envs', heap) \cup {Error}
        BY <1>2, AllowedIs DEF Operands, AllForms, Control, Loops
      <3>3. Missing \in Values(nodes, envs', heap)
        BY Members
      <3>. QED
        BY <3>1, <3>2, <3>3
    <2>4. Missing \in Results(nodes', envs', heap', Top.node)
      BY <1>1, <2>3
    <2>. QED
      BY <1>1, <1>2, <1>8, <2>2, <2>4, GivesIn
  <1>. QED
    BY <1>6, <1>7, <1>8 DEF eval_let_statement

----------------------------------------------------------------------------
(* Assignments *)

LEMMA StartStep ==
  ASSUME IInv, StartReassignment
  PROVE  IInv'
  <1>. DEFINE forms == {"reassign", "reassign_index", "reassign_element"}
              known == Values(nodes, envs, heap)
  <1>1. Now(forms) /\ KeepWorld /\ UNCHANGED status
    BY Running DEF StartReassignment, KeepWorld
  <1>2. /\ Here = nodes[Top.node] /\ Here.form \in forms
        /\ FrameOK(nodes, envs, heap, Top) /\ Top.inner \in 0..Len(envs)
        /\ Top.env \in 1..Len(envs) /\ frames # <<>>
        /\ KidsFit(nodes, Top.node) /\ Here \in NodeRec
    BY <1>1 DEF Now
  <1>3. CASE Made(0) /\ Proceed
    BY <1>1, <1>3, FirstAsk DEF FirstForms
  <1>4. Made(1) => Top.vals = <<>> /\ Top.at = 1
    BY <1>2 DEF FrameOK, Stage, Made, Loops
  <1>5. Made(1) => ret \in known \cup {Error}
    <2>1. Made(1) => Asked(nodes, Top) = "operand"
      BY <1>2 DEF Made, Asked, Loops
    <2>. QED
      BY <1>1, <2>1, Received
  <1>6. Made(1) => <<ret>> \in Seq(known \cup {Error, Continue})
    BY <1>5
  <1>7. ASSUME Made(1), NEW inner, inner \in {0, Top.inner}
        PROVE  /\ CanMove(nodes, envs, heap, Top, 2, inner, <<ret>>)
               /\ Here.form = "reassign_element" =>
                    Asked(nodes, Moved(Top, 2, inner, <<ret>>)) = "array"
               /\ Here.form # "reassign_element" =>
                    Asked(nodes, Moved(Top, 2, inner, <<ret>>)) = "none"
    <2>. DEFINE f == Moved(Top, 2, inner, <<ret>>)
    <2>1. f.node = Top.node /\ f.at = 2 /\ f.inner = inner /\ f.vals = <<ret>>
      BY MovedFields
    <2>. HIDE DEF f
    <2>2. nodes[f.node] = Here
      BY <1>2, <2>1
    <2>3. Stage(nodes, envs, heap, f)
      BY <1>2, <1>5, <1>7, <2>1, <2>2 DEF Stage, Loops
    <2>4. inner \in 0..Len(envs)
      <3>1. Len(envs) \in Nat
        BY WorldLens DEF IInv
      <3>. QED
        BY <1>2, <1>7, <3>1
    <2>5. inner # 0 => MadeBy(envs, inner) = Append(nodes[Top.node].within, Top.node)
      BY <1>2, <1>7 DEF FrameOK
    <2>6. CanMove(nodes, envs, heap, Top, 2, inner, <<ret>>)
      BY <1>6, <1>7, <2>3, <2>4, <2>5 DEF CanMove, f
    <2>7. Asked(nodes, f) = IF Here.form = "reassign_element" THEN "array" ELSE "none"
      BY <1>2, <2>1, <2>2 DEF Asked, Loops
    <2>. QED
      BY <2>6, <2>7 DEF f
  <1>8. CASE Made(1) /\ Here.form = "reassign_element" /\ Proceed
    <2>1. Enter(Kid(2), Top.env, 2, <<ret>>)
      <3>1. Got = Append(<<>>, ret)
        <4>1. Top.vals = <<>> /\ Top.at = 1
          BY <1>4, <1>8
        <4>. QED
          BY <4>1 DEF Made, Got
      <3>2. Got = <<ret>>
        BY <3>1
      <3>. QED
        BY <1>8, <3>2 DEF Proceed, Ask, Made
    <2>2. Len(Here.kids) = 2 /\ Role(nodes, Top.node, 2) = "array"
      <3>1. nodes[Top.node].kids \in Seq(Nat)
        BY <1>2 DEF NodeRec
      <3>. QED
        BY <1>2, <1>8, <3>1, Arity
    <2>3. 2 \in 1..Len(Here.kids)
      BY <2>2
    <2>4. /\ CanMove(nodes, envs, heap, Top, 2, Top.inner, <<ret>>)
          /\ Asked(nodes, Moved(Top, 2, Top.inner, <<ret>>)) = "array"
      BY <1>7, <1>8
    <2>5. Here.form # "call" /\ forms \cap Scopes = {}
      BY <1>2 DEF Scopes, Loops
    <2>. HIDE DEF forms
    <2>. QED
      BY <1>1, <2>1, <2>2, <2>3, <2>4, <2>5, Asks
  <1>9. CASE /\ Made(1) /\ Here.form # "reassign_element"
             /\ GoTo(2, 0, <<ret>>)
             /\ search' = <<[env |-> Top.env, level |-> 0]>>
    <2>1. /\ CanMove(nodes, envs, heap, Top, 2, 0, <<ret>>)
          /\ Asked(nodes, Moved(Top, 2, 0, <<ret>>)) = "none"
      BY <1>7, <1>9
    <2>2. Searched(envs, Moved(Top, 2, 0, <<ret>>), nodes[Top.node].name, search')
      <3>. DEFINE f == Moved(Top, 2, 0, <<ret>>)
      <3>1. f.env = Top.env /\ 0 \in 0..MaxEnvs
        BY MovedFields, BoundsNatural
      <3>. HIDE DEF f
      <3>2. Searched(envs, f, nodes[Top.node].name, search')
        BY <1>2, <1>9, <3>1 DEF Searched
      <3>. QED
        BY <3>2 DEF f
    <2>3. NewWorld
      BY <1>1, SameWorld DEF KeepWorld
    <2>4. /\ CanMove(nodes', envs', heap', Top, 2, 0, <<ret>>)
          /\ Asked(nodes', Moved(Top, 2, 0, <<ret>>)) \in {"none", "let"}
          /\ Searched(envs', Moved(Top, 2, 0, <<ret>>), nodes'[Top.node].name, search')
      BY <1>1, <2>1, <2>2 DEF KeepWorld
    <2>5. status' \in {"running", "done", "dead"}
      BY <1>1 DEF IInv
    <2>. QED
      BY <1>2, <1>9, <2>3, <2>4, <2>5, GoesIn
  <1>. QED
    BY <1>3, <1>8, <1>9 DEF StartReassignment

(* The search is where reads find the variable, or one step before it, and *)
(* the level is what set_ident needs.                                      *)
LEMMA SearchAt ==
  ASSUME IInv, Now({"reassign", "reassign_index"}), Made(2)
  PROVE  LET here  == search[1]
             found == envs[here.env].store[Here.name]
         IN  /\ here.env \in 1..Len(envs) /\ here.level \in 0..MaxEnvs
             /\ \/ here.env = Top.env /\ here.level = 0
                \/ /\ here.env = envs[Top.env].outer
                   /\ envs[Top.env].store[Here.name] = Missing
             /\ found # Missing => /\ Outwards(Top.env, here.level) = here.env
                                   /\ HolderIn(envs, Top.env, Here.name) = here.env
  <1>. DEFINE here  == search[1]
              found == envs[here.env].store[Here.name]
  <1>1. /\ Top = frames[Len(frames)] /\ frames # <<>> /\ Here = nodes[Top.node]
        /\ Here.form \in {"reassign", "reassign_index"} /\ Top.at = 2
        /\ status = "running" /\ Searches(nodes, envs, frames, search)
        /\ World(nodes, envs, heap) /\ Top.env \in 1..Len(envs)
    BY DEF Now, Made, IInv
  <1>2. Searched(envs, Top, Here.name, search)
    BY <1>1 DEF Searches, Searching
  <1>3. PICK e \in 1..Len(envs), l \in 0..MaxEnvs :
          /\ search = <<[env |-> e, level |-> l]>>
          /\ \/ e = Top.env /\ l = 0
             \/ /\ e = envs[Top.env].outer /\ envs[Top.env].store[Here.name] = Missing
                /\ (l = 1 \/ envs[e].store[Here.name] = Missing)
    BY <1>2 DEF Searched
  <1>4. here.env = e /\ here.level = l
    BY <1>3
  <1>. HIDE DEF here
  <1>5. /\ Outer(envs, Top.env)[0] = Top.env
        /\ MaxEnvs > 0 => Outer(envs, Top.env)[1] = envs[Top.env].outer
    <2>1. Len(envs) \in Nat
      BY <1>1, WorldLens
    <2>2. Top.env # 0
      BY <1>1, <2>1
    <2>. QED
      BY <2>2, Levels
  <1>6. ASSUME envs[e].store[Here.name] # Missing
        PROVE  Outwards(Top.env, l) = e
    <2>1. CASE e = Top.env /\ l = 0
      BY <1>5, <2>1 DEF Outwards
    <2>2. CASE e = envs[Top.env].outer /\ l = 1
      <3>1. MaxEnvs > 0
        BY <2>2, BoundsNatural
      <3>. QED
        BY <1>5, <2>2, <3>1 DEF Outwards
    <2>. QED
      BY <1>3, <1>6, <2>1, <2>2
  <1>7. ASSUME envs[e].store[Here.name] # Missing
        PROVE  HolderIn(envs, Top.env, Here.name) = e
    <2>1. Ordered(envs) /\ Len(envs) \in Nat
      BY <1>1, WorldLens
    <2>2. \A d \in 1..Len(envs) :
            HolderIn(envs, d, Here.name) = IF envs[d].store[Here.name] # Missing THEN d
                                           ELSE HolderIn(envs, envs[d].outer, Here.name)
      <3>1. \A d \in 1..Len(envs) : d \in 0..Len(envs) /\ d # 0
        BY <2>1
      <3>. QED
        BY <2>1, <3>1, HolderUnfolds
    <2>3. HolderIn(envs, e, Here.name) = e
      BY <1>7, <2>2
    <2>4. CASE e = Top.env
      BY <2>3, <2>4
    <2>5. CASE e = envs[Top.env].outer /\ envs[Top.env].store[Here.name] = Missing
      BY <1>1, <2>2, <2>3, <2>5
    <2>. QED
      BY <1>3, <2>4, <2>5
  <1>8. \/ e = Top.env /\ l = 0
        \/ e = envs[Top.env].outer /\ envs[Top.env].store[Here.name] = Missing
    BY <1>3
  <1>. QED
    BY <1>3, <1>4, <1>6, <1>7, <1>8 DEF here

(* An assignment to an element of an array that is there.                  *)
LEMMA AssignElementOK ==
  ASSUME IInv, frames # <<>>, UNCHANGED <<suite, nodes, envs>>,
         NEW array, array \in {Container("array", r) : r \in 1..Len(heap)},
         NEW value \in Values(nodes, envs, heap) \cup {Error}, Top.node \in 1..Len(nodes),
         nodes[Top.node] \in NodeRec, FormFits(nodes, Top.node),
         nodes[Top.node].form \in {"reassign_index", "reassign_element"},
         AssignElement(array, value)
  PROVE  IInv'
  <1>1. World(nodes, envs, heap)
    BY DEF IInv
  <1>2. PICK r \in 1..Len(heap) : array = Container("array", r) /\ array.ref = r
    BY Types
  <1>3. CASE Die /\ UNCHANGED heap
    <2>1. KeepWorld
      BY <1>3 DEF KeepWorld
    <2>. QED
      BY <1>3, <2>1, Dies
  <1>4. CASE /\ \E i \in DOMAIN heap[array.ref] : heap' = [heap EXCEPT ![array.ref][i] = value]
             /\ Run(array)
    <2>1. PICK i \in DOMAIN heap[r] : IsPut(heap', heap, r, i, value)
      BY <1>2, <1>4 DEF IsPut
    <2>2. /\ World(nodes, envs, heap') /\ Grown(nodes, envs, heap, nodes, envs, heap')
          /\ Len(heap') = Len(heap)
      <3>1. value \in Elements(nodes, envs, heap)
        BY DEF Elements, Indexed
      <3>. QED
        BY <1>1, <2>1, <3>1, HeapSetOK
    <2>3. NewWorld
      BY <2>2 DEF NewWorld
    <2>4. Allowed(nodes, envs, heap', Top.node) = Values(nodes, envs, heap') \cup {Error}
      BY AllowedIs DEF Operands, AllForms, Control, Loops
    <2>5. array \in Values(nodes, envs, heap')
      BY <1>2, <2>2, Members
    <2>6. array \in Results(nodes, envs, heap', Top.node)
      <3>1. Allowed(nodes, envs, heap', Top.node) \subseteq Results(nodes, envs, heap', Top.node)
        BY MayReturn DEF Unmet
      <3>. QED
        BY <2>4, <2>5, <3>1
    <2>7. array \in Results(nodes', envs', heap', Top.node)
      BY <2>6
    <2>8. Give(array) /\ UNCHANGED status
      BY <1>4 DEF Run
    <2>. QED
      BY <2>3, <2>7, <2>8, GivesIn
  <1>. QED
    BY <1>3, <1>4 DEF AssignElement

LEMMA ElementStep ==
  ASSUME IInv, ReassignElement
  PROVE  IInv'
  <1>1. Now({"reassign_element"}) /\ Made(2)
    BY Running DEF ReassignElement
  <1>2. /\ Here = nodes[Top.node] /\ Here.form = "reassign_element" /\ Here \in NodeRec
        /\ FrameOK(nodes, envs, heap, Top) /\ frames # <<>> /\ FormFits(nodes, Top.node)
        /\ Top.node \in 1..Len(nodes)
    BY <1>1 DEF Now
  <1>3. Asked(nodes, Top) = "array"
    BY <1>1, <1>2 DEF Made, Asked, Loops
  <1>4. ret \in {Container("array", r) : r \in 1..Len(heap)} \cup {Error}
    BY <1>1, <1>3, Received
  <1>5. Top.vals[1] \in Values(nodes, envs, heap) \cup {Error}
    <2>1. PICK v \in Values(nodes, envs, heap) \cup {Error} : Top.vals = <<v>>
      BY <1>1, <1>2 DEF FrameOK, Stage, Made, Loops
    <2>. QED
      BY <2>1
  <1>6. CASE Die /\ UNCHANGED heap
    <2>1. KeepWorld
      BY <1>6 DEF KeepWorld, ReassignElement
    <2>. QED
      BY <1>6, <2>1, Dies
  <1>7. CASE ~is_error(ret) /\ AssignElement(ret, Top.vals[1])
    <2>1. ret \in {Container("array", r) : r \in 1..Len(heap)}
      BY <1>4, <1>7, Types DEF is_error
    <2>2. UNCHANGED <<suite, nodes, envs>>
      BY DEF ReassignElement
    <2>3. nodes[Top.node].form \in {"reassign_index", "reassign_element"}
      BY <1>2
    <2>. QED
      BY <1>2, <1>5, <1>7, <2>1, <2>2, <2>3, AssignElementOK
  <1>. QED
    BY <1>6, <1>7 DEF ReassignElement

LEMMA ResolveStep ==
  ASSUME IInv, resolve_ident
  PROVE  IInv'
  <1>. DEFINE known == Values(nodes, envs, heap)
              here  == search[1]
              found == envs[here.env].store[Here.name]
              outer == envs[Top.env].outer
              next  == IF here.level = MaxEnvs THEN 1 ELSE here.level + 1
  <1>1. Now({"reassign", "reassign_index"}) /\ Made(2) /\ UNCHANGED <<suite, nodes>>
    BY Running DEF resolve_ident
  <1>2. /\ Here = nodes[Top.node] /\ Here.form \in {"reassign", "reassign_index"}
        /\ Here \in NodeRec /\ Here.name \in Names
        /\ FrameOK(nodes, envs, heap, Top) /\ frames # <<>> /\ FormFits(nodes, Top.node)
        /\ Top.node \in 1..Len(nodes) /\ Top.env \in 1..Len(envs) /\ World(nodes, envs, heap) /\ EnvsOK(nodes, envs, heap)
        /\ Top = frames[Len(frames)] /\ status = "running"
    BY <1>1 DEF Now, FormFits, IInv, World
  <1>3. /\ here.env \in 1..Len(envs) /\ here.level \in 0..MaxEnvs
        /\ \/ here.env = Top.env /\ here.level = 0
           \/ here.env = outer /\ envs[Top.env].store[Here.name] = Missing
        /\ found # Missing => Outwards(Top.env, here.level) = here.env
    BY <1>1, SearchAt
  <1>4. Top.vals[1] \in known \cup {Error}
    <2>1. PICK v \in known \cup {Error} : Top.vals = <<v>>
      <3>1. Top.at = 2 /\ Stage(nodes, envs, heap, Top)
        BY <1>1, <1>2 DEF FrameOK, Made
      <3>2. nodes[Top.node].form \in {"reassign", "reassign_index"}
        BY <1>2
      <3>. HIDE DEF known
      <3>. QED
        BY <3>1, <3>2 DEF Stage, Loops, known
    <2>. QED
      BY <2>1
  <1>5. found \in known \cup {Error}
    BY <1>2, <1>3, Stored DEF Cells
  <1>6. \A es, h : Allowed(nodes, es, h, Top.node) = Values(nodes, es, h) \cup {Error}
    BY <1>2, AllowedIs DEF Operands, AllForms, Control, Loops
  <1>7. Unmet \notin {"reassign", "reassign_index"}
    BY DEF Unmet
  <1>8. ASSUME KeepWorld, Run(Error)
        PROVE  IInv'
    <2>1. Error \in Allowed(nodes, envs, heap, Top.node)
      BY <1>6
    <2>2. Give(Error) /\ UNCHANGED status
      BY <1>8 DEF Run
    <2>. QED
      BY <1>1, <1>7, <1>8, <2>1, <2>2, Returns
  <1>9. CASE /\ found # Missing /\ Here.form = "reassign"
             /\ set_ident(Here.name, Top.env, here.level, Top.vals[1]) /\ Plain(Missing)
    <2>1. IsStored(envs', envs, here.env, Here.name, Top.vals[1])
      BY <1>3, <1>9 DEF set_ident, IsStored
    <2>2. World(nodes, envs', heap) /\ Grown(nodes, envs, heap, nodes, envs', heap)
      <3>. DEFINE e == here.env
                  name == Here.name
                  v == Top.vals[1]
                  us == envs'
      <3>1. /\ World(nodes, envs, heap) /\ e \in 1..Len(envs) /\ name \in Names
            /\ v \in Cells(nodes, envs, heap) /\ Named(nodes, name)
            /\ IsStored(us, envs, e, name, v)
        BY <1>2, <1>3, <1>4, <1>9, <2>1 DEF Cells, Named
      <3>. HIDE DEF e, name, v, us
      <3>2. World(nodes, us, heap) /\ Grown(nodes, envs, heap, nodes, us, heap)
        BY <3>1, StoreOK
      <3>. QED
        BY <3>2 DEF us
    <2>3. UNCHANGED heap /\ Give(Missing) /\ UNCHANGED status
      BY <1>9 DEF Plain, Run
    <2>4. NewWorld
      BY <1>1, <2>2, <2>3 DEF NewWorld
    <2>5. Missing \in Results(nodes, envs', heap, Top.node)
      <3>1. Allowed(nodes, envs', heap, Top.node) \subseteq Results(nodes, envs', heap, Top.node)
        BY <1>2, MayReturn DEF Unmet
      <3>2. Missing \in Values(nodes, envs', heap)
        BY Members
      <3>. QED
        BY <1>6, <3>1, <3>2
    <2>6. Missing \in Results(nodes', envs', heap', Top.node)
      BY <1>1, <2>3, <2>5
    <2>. QED
      BY <1>2, <2>3, <2>4, <2>6, GivesIn
  <1>10. CASE /\ found # Missing /\ Here.form # "reassign"
              /\ IF found.type = "array" THEN AssignElement(found, Top.vals[1]) ELSE Plain(Error)
              /\ UNCHANGED envs
    <2>1. CASE found.type = "array" /\ AssignElement(found, Top.vals[1])
      <3>1. Kind(nodes, envs, heap, found)
        <4>1. found \in known
          BY <1>5, <2>1, Types
        <4>. QED
          BY <4>1, Kinds
      <3>2. found \in {Container("array", r) : r \in 1..Len(heap)}
        <4>1. found.type = "array"
          BY <2>1
        <4>. HIDE DEF found
        <4>. QED
          BY <3>1, <4>1 DEF Kind
      <3>3. /\ nodes[Top.node] \in NodeRec
            /\ nodes[Top.node].form \in {"reassign_index", "reassign_element"}
        BY <1>2, <1>10
      <3>. HIDE DEF found
      <3>. QED
        BY <1>1, <1>2, <1>4, <1>10, <2>1, <3>2, <3>3, AssignElementOK
    <2>2. CASE Plain(Error)
      <3>1. KeepWorld /\ Run(Error)
        BY <1>1, <1>10, <2>2 DEF Plain, KeepWorld
      <3>. QED
        BY <1>8, <3>1
    <2>. QED
      BY <1>10, <2>1, <2>2
  <1>11. CASE Run(Error) /\ UNCHANGED <<envs, heap>>
    <2>1. KeepWorld
      BY <1>1, <1>11 DEF KeepWorld
    <2>. QED
      BY <1>8, <1>11, <2>1
  <1>12. CASE /\ found = Missing /\ outer # 0
              /\ search' = <<[env |-> outer, level |-> next]>>
              /\ UNCHANGED <<frames, ret, status, envs, heap>>
    <2>1. outer \in 1..Len(envs) /\ Len(envs) > 1 /\ Len(envs) <= MaxEnvs /\ MaxEnvs \in Nat
      <3>1. outer \in 0..Top.env - 1 /\ Len(envs) \in Nat
        BY <1>2, WorldLens DEF EnvsOK
      <3>2. outer \in 1..Len(envs) /\ Len(envs) > 1
        BY <1>2, <1>12, <3>1
      <3>. QED
        BY <1>2, <3>2, BoundsNatural DEF EnvsOK
    <2>2. next \in 0..MaxEnvs
      BY <1>3, <2>1
    <2>3. envs[Top.env].store[Here.name] = Missing
      BY <1>3, <1>12
    <2>4. next = 1 \/ envs[outer].store[Here.name] = Missing
      BY <1>3, <1>12, <2>1
    <2>5. Searched(envs, Top, Here.name, search')
      <3>. HIDE DEF outer, next
      <3>1. search' = <<[env |-> outer, level |-> next]>>
        BY <1>12
      <3>2. outer = envs[Top.env].outer
        BY DEF outer
      <3>. QED
        BY <2>1, <2>2, <2>3, <2>4, <3>1, <3>2 DEF Searched
    <2>6. Searches(nodes, envs, frames, search')
      BY <1>2, <2>5 DEF Searches
    <2>. QED
      BY <1>1, <1>12, <2>6 DEF IInv
  <1>. QED
    BY <1>9, <1>10, <1>11, <1>12 DEF resolve_ident, Reassign, SearchedNext

----------------------------------------------------------------------------
(* Arrays and hashes *)

Lists == {"call", "array", "hash"}

(* What has been received so far.                                          *)
LEMMA GotOK ==
  ASSUME IInv, Now(Lists), Top.at <= Len(Here.kids)
  PROVE  /\ Top.at > 0 => /\ ret \in Values(nodes, envs, heap) \cup {Error}
                          /\ is_error(ret) <=> ret = Error
         /\ Top.at > 0 => Asked(nodes, Top) = "operand"
         /\ (Top.at > 0 => ~is_error(ret)) =>
              Got \in Seq(Values(nodes, envs, heap)) /\ Len(Got) = Top.at
  <1>1. /\ Here = nodes[Top.node] /\ Here.form \in Lists /\ Top.at \in Nat
        /\ FrameOK(nodes, envs, heap, Top) /\ Here \in NodeRec
    BY DEF Now
  <1>2. Len(Here.kids) \in Nat
    BY <1>1, LenProperties DEF NodeRec
  <1>3. Top.at > 0 => Asked(nodes, Top) = "operand"
    BY <1>1 DEF Asked, Loops, Lists
  <1>4. Top.at > 0 => /\ ret \in Values(nodes, envs, heap) \cup {Error}
                      /\ is_error(ret) <=> ret = Error
                      /\ ~is_error(ret) => ret \in Values(nodes, envs, heap)
    BY <1>3, Operand
  <1>5. CASE Top.at = 0
    <2>1. Got = <<>>
      BY <1>5 DEF Got, Made
    <2>. QED
      BY <1>5, <2>1, EmptySeq
  <1>6. CASE Top.at > 0
    <2>1. Top.at # Len(Here.kids) + 1 /\ Top.at # 0
      BY <1>1, <1>2, <1>6
    <2>2. Top.vals \in Seq(Values(nodes, envs, heap)) /\ Len(Top.vals) = Top.at - 1
      BY <1>1, <2>1 DEF FrameOK, Stage, Loops, Lists
    <2>3. Got = Append(Top.vals, ret)
      BY <2>1 DEF Got, Made
    <2>4. ~is_error(ret) => /\ Append(Top.vals, ret) \in Seq(Values(nodes, envs, heap))
                            /\ Len(Append(Top.vals, ret)) = Len(Top.vals) + 1
      BY <1>4, <1>6, <2>2, AppendProperties
    <2>5. ~is_error(ret) => Got \in Seq(Values(nodes, envs, heap)) /\ Len(Got) = Top.at
      BY <1>1, <2>2, <2>3, <2>4
    <2>. QED
      BY <1>3, <1>4, <1>6, <2>5
  <1>. QED
    BY <1>1, <1>5, <1>6

(* The next element, argument or pair is evaluated.                        *)
LEMMA NextOperand ==
  ASSUME IInv, Now(Lists), Top.at < Len(Here.kids), Top.at > 0 => ~is_error(ret),
         KeepWorld, UNCHANGED status, Proceed
  PROVE  IInv'
  <1>. DEFINE at == Top.at + 1
              f == Moved(Top, at, Top.inner, Got)
  <1>1. /\ Here = nodes[Top.node] /\ Here.form \in Lists /\ Top.at \in Nat
        /\ FrameOK(nodes, envs, heap, Top) /\ Here \in NodeRec
        /\ Top.inner \in 0..Len(envs) /\ KidsFit(nodes, Top.node)
    BY DEF Now
  <1>2. Here.kids \in Seq(Nat) /\ Len(Here.kids) \in Nat
    BY <1>1, LenProperties DEF NodeRec
  <1>3. Got \in Seq(Values(nodes, envs, heap)) /\ Len(Got) = Top.at
    <2>1. Top.at <= Len(Here.kids)
      BY <1>1, <1>2
    <2>. HIDE DEF f, at
    <2>. QED
      BY <2>1, GotOK
  <1>4. at \in 1..Len(Here.kids) /\ at \in Nat /\ at # 0 /\ Len(Got) = at - 1
    BY <1>1, <1>2, <1>3
  <1>5. f.node = Top.node /\ f.at = at /\ f.inner = Top.inner /\ f.vals = Got
    BY MovedFields
  <1>6. Enter(Kid(at), Top.env, at, Got)
    BY DEF Proceed, Ask
  <1>. HIDE DEF f, at
  <1>7. nodes[f.node] = Here
    BY <1>1, <1>5
  <1>8. Stage(nodes, envs, heap, f)
    BY <1>1, <1>3, <1>4, <1>5, <1>7 DEF Stage, Lists
  <1>9. Got \in Seq(Values(nodes, envs, heap) \cup {Error, Continue})
    <2>1. Values(nodes, envs, heap) \subseteq Values(nodes, envs, heap) \cup {Error, Continue}
      OBVIOUS
    <2>. QED
      BY <1>3, <2>1, SeqMonotonic
  <1>10. CanMove(nodes, envs, heap, Top, at, Top.inner, Got)
    BY <1>1, <1>4, <1>8, <1>9 DEF CanMove, FrameOK, f
  <1>11. Asked(nodes, f) = "operand"
    <2>1. f.at > 0 /\ f.at <= Len(nodes[f.node].kids)
      BY <1>2, <1>4, <1>5, <1>7
    <2>. QED
      BY <1>1, <1>5, <1>7, <2>1 DEF Asked, Loops, Lists
  <1>12. Role(nodes, Top.node, at) = "operand"
    BY <1>1, <1>2, <1>4, Arity DEF Lists
  <1>13. /\ Role(nodes, Top.node, at) = Asked(nodes, Moved(Top, at, Top.inner, Got))
         /\ Asked(nodes, Moved(Top, at, Top.inner, Got)) # "block"
    BY <1>11, <1>12 DEF f
  <1>14. Lists \cap Scopes = {}
    BY DEF Lists, Scopes, Loops
  <1>. QED
    BY <1>4, <1>6, <1>10, <1>13, <1>14, Asks

(* What lists and calls may return.                                        *)
LEMMA ListNow ==
  ASSUME IInv, Now(Lists)
  PROVE  /\ frames # <<>> /\ Here = nodes[Top.node] /\ Here \in NodeRec
         /\ Top.node \in 1..Len(nodes)
         /\ FormFits(nodes, Top.node) /\ Unmet \notin Lists
         /\ \A es, h : Error \in Allowed(nodes, es, h, Top.node)
         /\ Here.form # "array" =>
              \A es, h : Allowed(nodes, es, h, Top.node) = Values(nodes, es, h) \cup {Error}
         /\ \A es, h : \A r \in 1..Len(h) :
              Container("array", r) \in Allowed(nodes, es, h, Top.node)
  <1>1. /\ frames # <<>> /\ Here = nodes[Top.node] /\ Here \in NodeRec
        /\ FormFits(nodes, Top.node) /\ Here.form \in Lists /\ Top.node \in 1..Len(nodes)
    BY DEF Now
  <1>2. Unmet \notin Lists
    BY DEF Lists, Unmet
  <1>3. ASSUME NEW es, NEW h, Here.form = "array"
        PROVE  Allowed(nodes, es, h, Top.node)
                 = {Container("array", r) : r \in 1..Len(h)} \cup {Error}
    BY <1>1, <1>3, AllowedIs
  <1>4. ASSUME NEW es, NEW h, Here.form # "array"
        PROVE  Allowed(nodes, es, h, Top.node) = Values(nodes, es, h) \cup {Error}
    BY <1>1, <1>4, AllowedIs DEF Operands, AllForms, Control, Loops, Lists
  <1>5. ASSUME NEW es, NEW h, NEW r \in 1..Len(h)
        PROVE  Container("array", r) \in Values(nodes, es, h)
    BY Members
  <1>6. ASSUME NEW es, NEW h
        PROVE  /\ Error \in Allowed(nodes, es, h, Top.node)
               /\ \A r \in 1..Len(h) : Container("array", r) \in Allowed(nodes, es, h, Top.node)
    BY <1>3, <1>4, <1>5
  <1>. QED
    BY <1>1, <1>2, <1>4, <1>6

(* An array, or the value of a hash literal or a call, is made.            *)
LEMMA ContainerMade ==
  ASSUME IInv, Now(Lists), UNCHANGED <<suite, nodes, envs>>,
         NEW type, type = "array" \/ (type = "hash" /\ Here.form = "hash"),
         NEW elements \in Seq(Elements(nodes, envs, heap)),
         NewContainer(type, elements)
  PROVE  IInv'
  <1>1. World(nodes, envs, heap)
    BY DEF IInv
  <1>2. heap' = Append(heap, elements) /\ Give(Container(type, Len(heap) + 1)) /\ UNCHANGED status
    BY DEF NewContainer, Run
  <1>3. /\ World(nodes, envs, heap') /\ Grown(nodes, envs, heap, nodes, envs, heap')
        /\ Len(heap') = Len(heap) + 1
    <2>1. IsAppended(heap', heap, elements)
      BY <1>2 DEF IsAppended
    <2>. QED
      BY <1>1, <2>1, HeapAppendOK
  <1>4. NewWorld
    BY <1>3 DEF NewWorld
  <1>5. Len(heap) + 1 \in 1..Len(heap')
    BY <1>1, <1>3, WorldLens
  <1>6. Container(type, Len(heap) + 1) \in Allowed(nodes, envs, heap', Top.node)
    <2>1. CASE type = "array"
      BY <1>5, <2>1, ListNow
    <2>2. CASE type = "hash" /\ Here.form = "hash"
      <3>1. Container("hash", Len(heap) + 1) \in Values(nodes, envs, heap')
        BY <1>5, Members
      <3>2. Allowed(nodes, envs, heap', Top.node) = Values(nodes, envs, heap') \cup {Error}
        BY <2>2, ListNow
      <3>. QED
        BY <2>2, <3>1, <3>2
    <2>. QED
      BY <2>1, <2>2
  <1>7. Container(type, Len(heap) + 1) \in Results(nodes, envs, heap', Top.node)
    <2>1. /\ nodes[Top.node].form # Unmet /\ nodes[Top.node] \in NodeRec
          /\ FormFits(nodes, Top.node) /\ Top.node \in 1..Len(nodes)
      <3>1. Here.form \in Lists /\ Here = nodes[Top.node]
        BY DEF Now
      <3>. QED
        BY <3>1, ListNow
    <2>. QED
      BY <1>6, <2>1, MayReturn
  <1>8. Container(type, Len(heap) + 1) \in Results(nodes', envs', heap', Top.node)
    BY <1>7
  <1>9. frames # <<>>
    BY ListNow
  <1>. QED
    BY <1>2, <1>4, <1>8, <1>9, GivesIn

(* An error, or no more than a value, is returned and nothing changes.     *)
LEMMA ListReturns ==
  ASSUME IInv, Now(Lists), KeepWorld, NEW v, Run(v),
         v = Error \/ (Here.form # "array" /\ v \in Values(nodes, envs, heap))
  PROVE  IInv'
  <1>1. v \in Allowed(nodes, envs, heap, Top.node)
    BY ListNow
  <1>2. Give(v) /\ UNCHANGED status /\ Unmet \notin Lists
    BY ListNow DEF Run
  <1>. QED
    BY <1>1, <1>2, Returns

LEMMA ArrayStep ==
  ASSUME IInv, eval_array_literal
  PROVE  IInv'
  <1>1. In(Lists)
    BY DEF eval_array_literal, In, Lists
  <1>2. Now(Lists) /\ UNCHANGED <<suite, nodes, envs>>
    BY <1>1, Running DEF eval_array_literal
  <1>3. Top.at <= Len(Here.kids) /\ Top.at \in Nat /\ Len(Here.kids) \in Nat
    <2>1. /\ Here = nodes[Top.node] /\ Here.form = "array" /\ Top.at \in Nat
          /\ FrameOK(nodes, envs, heap, Top) /\ Here \in NodeRec
      BY <1>2 DEF Now, eval_array_literal, In
    <2>2. Len(Here.kids) \in Nat
      BY <2>1, LenProperties DEF NodeRec
    <2>3. Top.at # 0 => Top.at \in 1..Len(Here.kids)
      BY <2>1 DEF FrameOK, Stage, Loops
    <2>. QED
      BY <2>1, <2>2, <2>3
  <1>4. CASE Top.at > 0 /\ is_error(ret) /\ Plain(ret)
    <2>1. ret = Error
      BY <1>2, <1>3, <1>4, GotOK
    <2>2. KeepWorld /\ Run(ret)
      BY <1>2, <1>4 DEF Plain, KeepWorld
    <2>. QED
      BY <1>2, <2>1, <2>2, ListReturns
  <1>5. CASE /\ ~(Top.at > 0 /\ is_error(ret))
             /\ Top.at < Len(Here.kids) /\ Proceed /\ UNCHANGED <<heap, status>>
    <2>1. KeepWorld
      BY <1>2, <1>5 DEF KeepWorld
    <2>. QED
      BY <1>2, <1>5, <2>1, NextOperand
  <1>6. CASE ~(Top.at > 0 /\ is_error(ret)) /\ NewContainer("array", Got)
    <2>1. Got \in Seq(Elements(nodes, envs, heap))
      BY <1>2, <1>3, <1>6, GotOK, ElementValues
    <2>. QED
      BY <1>2, <1>6, <2>1, ContainerMade
  <1>. QED
    BY <1>4, <1>5, <1>6 DEF eval_array_literal

LEMMA HashStep ==
  ASSUME IInv, eval_hash_literal
  PROVE  IInv'
  <1>. DEFINE known == Values(nodes, envs, heap)
              n == Len(Got) \div 2
              values == [i \in 1..n |-> Got[2 * i]]
  <1>1. In(Lists)
    BY DEF eval_hash_literal, In, Lists
  <1>2. Now(Lists) /\ UNCHANGED <<suite, nodes, envs>> /\ Here.form = "hash"
    BY <1>1, Running DEF eval_hash_literal, In
  <1>3. Top.at <= Len(Here.kids) /\ Top.at \in Nat /\ Len(Here.kids) \in Nat
    <2>1. /\ Here = nodes[Top.node] /\ Here.form = "hash" /\ Top.at \in Nat
          /\ FrameOK(nodes, envs, heap, Top) /\ Here \in NodeRec
      BY <1>2 DEF Now
    <2>2. Len(Here.kids) \in Nat
      BY <2>1, LenProperties DEF NodeRec
    <2>3. Top.at # 0 => Top.at \in 1..Len(Here.kids)
      BY <2>1 DEF FrameOK, Stage, Loops
    <2>. QED
      BY <2>1, <2>2, <2>3
  <1>4. CASE Top.at > 0 /\ is_error(ret) /\ Plain(ret)
    <2>1. ret = Error
      BY <1>2, <1>3, <1>4, GotOK
    <2>2. KeepWorld /\ Run(ret)
      BY <1>2, <1>4 DEF Plain, KeepWorld
    <2>. QED
      BY <1>2, <2>1, <2>2, ListReturns
  <1>5. CASE Die /\ UNCHANGED heap
    <2>1. KeepWorld
      BY <1>2, <1>5 DEF KeepWorld
    <2>. QED
      BY <1>5, <2>1, Dies
  <1>6. CASE Plain(Error)
    <2>1. KeepWorld /\ Run(Error)
      BY <1>2, <1>6 DEF Plain, KeepWorld
    <2>. QED
      BY <1>2, <2>1, ListReturns
  <1>7. CASE /\ ~(Top.at > 0 /\ is_error(ret))
             /\ Top.at < Len(Here.kids) /\ Proceed /\ UNCHANGED <<heap, status>>
    <2>1. KeepWorld
      BY <1>2, <1>7 DEF KeepWorld
    <2>. QED
      BY <1>2, <1>7, <2>1, NextOperand
  <1>8. CASE ~(Top.at > 0 /\ is_error(ret)) /\ NewContainer("hash", values)
    <2>1. Got \in Seq(known) /\ Len(Got) \in Nat
      BY <1>2, <1>3, <1>8, GotOK
    <2>2. n \in Nat /\ \A i \in 1..n : 2 * i \in 1..Len(Got)
      BY <2>1
    <2>3. \A i \in 1..n : Got[2 * i] \in known
      BY <2>1, <2>2, ElementOfSeq
    <2>. HIDE DEF n, known
    <2>4. values \in Seq(known)
      BY <2>2, <2>3, IsASeq
    <2>. HIDE DEF values
    <2>5. values \in Seq(Elements(nodes, envs, heap))
      BY <2>4, ElementValues DEF known
    <2>. QED
      BY <1>2, <1>8, <2>5, ContainerMade
  <1>. QED
    BY <1>4, <1>5, <1>6, <1>7, <1>8 DEF eval_hash_literal

----------------------------------------------------------------------------
(* Calls of functions *)

LEMMA BuiltinStep ==
  ASSUME IInv, Now(Lists), Here.form = "call", UNCHANGED <<suite, nodes, envs>>,
         NEW fn \in BuiltinNames, NEW args \in Seq(Values(nodes, envs, heap)),
         CallBuiltin(fn, args)
  PROVE  IInv'
  <1>. DEFINE known == Values(nodes, envs, heap)
              cells == Elements(nodes, envs, heap)
              elements == heap[args[1].ref]
  <1>1. World(nodes, envs, heap) /\ Len(args) \in Nat
    BY LenProperties DEF IInv
  <1>2. \A i \in 1..Len(args) : args[i] \in known
    BY ElementOfSeq
  <1>3. ASSUME KeepWorld, NEW v \in known \cup {Error}, Run(v)
        PROVE  IInv'
    BY <1>3, ListReturns
  <1>4. ASSUME NEW v \in known \cup {Error}, Plain(v)
        PROVE  IInv'
    <2>1. KeepWorld /\ Run(v)
      BY <1>4 DEF Plain, KeepWorld
    <2>. QED
      BY <1>3, <2>1
  <1>5. {Null, Number} \subseteq known
    BY Members
  <1>6. CASE \E v \in {Error, Null, Number} : Plain(v)
    BY <1>4, <1>5, <1>6
  <1>7. CASE Die /\ UNCHANGED heap
    <2>1. KeepWorld
      BY <1>7 DEF KeepWorld
    <2>. QED
      BY <1>7, <2>1, Dies
  <1>8. ASSUME Len(args) >= 1, args[1].type = "array"
        PROVE  elements \in Seq(cells)
    <2>1. args[1] \in known
      BY <1>1, <1>2, <1>8
    <2>2. Kind(nodes, envs, heap, args[1])
      BY <2>1, Kinds
    <2>3. args[1].ref \in 1..Len(heap)
      BY <1>8, <2>2 DEF Kind
    <2>. QED
      BY <1>1, <2>3, Element
  <1>9. CASE /\ fn \in {"first", "last"} /\ elements # <<>>
             /\ Len(args) >= 1 /\ args[1].type = "array"
             /\ Plain(elements[1]) \/ Plain(elements[Len(elements)])
    <2>1. elements \in Seq(cells)
      BY <1>8, <1>9
    <2>2. Len(elements) \in Nat \ {0}
      BY <1>9, <2>1, EmptySeq, LenProperties
    <2>3. 1 \in 1..Len(elements) /\ Len(elements) \in 1..Len(elements)
      BY <2>2
    <2>. HIDE DEF elements
    <2>4. elements[1] \in known \cup {Error} /\ elements[Len(elements)] \in known \cup {Error}
      <3>1. elements[1] \in cells /\ elements[Len(elements)] \in cells
        BY <2>1, <2>3, ElementOfSeq
      <3>. QED
        BY <3>1 DEF Elements
    <2>. QED
      BY <1>4, <1>9, <2>4
  <1>10. CASE /\ fn \in {"push", "shift", "rest"} /\ fn = "rest" => elements # <<>>
              /\ Len(args) = IF fn = "rest" THEN 1 ELSE 2
              /\ args[1].type = "array"
              /\ \/ fn = "push" /\ NewContainer("array", elements \o <<args[2]>>)
                 \/ fn = "shift" /\ NewContainer("array", <<args[2]>> \o elements)
                 \/ fn = "rest" /\ NewContainer("array", Tail(elements))
    <2>1. elements \in Seq(cells)
      BY <1>8, <1>10
    <2>2. fn # "rest" => <<args[2]>> \in Seq(cells)
      <3>1. fn # "rest" => args[2] \in known
        BY <1>2, <1>10
      <3>2. known \subseteq cells
        BY ElementValues
      <3>. QED
        BY <3>1, <3>2
    <2>. HIDE DEF elements, cells
    <2>3. fn # "rest" => /\ elements \o <<args[2]>> \in Seq(cells)
                         /\ <<args[2]>> \o elements \in Seq(cells)
      BY <2>1, <2>2, ConcatProperties
    <2>4. fn = "rest" => Tail(elements) \in Seq(cells)
      BY <1>10, <2>1, HeadTailProperties
    <2>5. PICK q \in Seq(cells) : NewContainer("array", q)
      BY <1>10, <2>3, <2>4
    <2>. QED
      BY <2>5, ContainerMade DEF cells
  <1>11. \/ \E v \in {Error, Null, Number} : Plain(v)
         \/ Die /\ UNCHANGED heap
         \/ /\ fn \in {"first", "last"} /\ elements # <<>>
            /\ Len(args) >= 1 /\ args[1].type = "array"
            /\ Plain(elements[1]) \/ Plain(elements[Len(elements)])
         \/ /\ fn \in {"push", "shift", "rest"} /\ fn = "rest" => elements # <<>>
            /\ Len(args) = IF fn = "rest" THEN 1 ELSE 2
            /\ args[1].type = "array"
            /\ \/ fn = "push" /\ NewContainer("array", elements \o <<args[2]>>)
               \/ fn = "shift" /\ NewContainer("array", <<args[2]>> \o elements)
               \/ fn = "rest" /\ NewContainer("array", Tail(elements))
    <2>. HIDE DEF elements
    <2>. DEFINE m == Len(args)
                k == IF fn \in {"push", "shift"} THEN 2
                     ELSE IF fn = "puts" /\ m > 0 THEN m ELSE 1
                usual == m = k /\ fn # "puts" /\ args[1].type = "array"
                empty == fn \in {"first", "last", "rest"} /\ elements = <<>>
    <2>1. CASE m # k
      <3>1. Plain(Error)
        BY <2>1 DEF CallBuiltin
      <3>. QED
        BY <3>1
    <2>2. CASE m = k /\ ~usual
      <3>1. Plain(Error) \/ Plain(Null) \/ Plain(Number) \/ (Die /\ UNCHANGED heap)
        BY <2>2 DEF CallBuiltin
      <3>. QED
        BY <3>1
    <2>3. CASE usual /\ (empty \/ fn = "len")
      <3>1. Plain(Null) \/ Plain(Number) \/ (Die /\ UNCHANGED heap)
        BY <2>3 DEF CallBuiltin, elements
      <3>. QED
        BY <3>1
    <2>4. CASE usual /\ ~empty /\ fn # "len"
      <3>1. \/ Die /\ UNCHANGED heap
            \/ fn = "first" /\ Plain(elements[1])
            \/ fn = "last" /\ Plain(elements[Len(elements)])
            \/ fn = "push" /\ NewContainer("array", elements \o <<args[2]>>)
            \/ fn = "shift" /\ NewContainer("array", <<args[2]>> \o elements)
            \/ fn = "rest" /\ NewContainer("array", Tail(elements))
        BY <2>4 DEF CallBuiltin, elements, BuiltinNames
      <3>2. m = IF fn \in {"push", "shift"} THEN 2 ELSE 1
        BY <2>4
      <3>. QED
        BY <2>4, <3>1, <3>2
    <2>. QED
      BY <2>1, <2>2, <2>3, <2>4
  <1>. HIDE DEF elements, known, cells
  <1>. QED
    BY <1>6, <1>7, <1>9, <1>10, <1>11

(* The body of a function is evaluated in the environment that is made for *)
(* it, inside the one the function literal was evaluated in.               *)
LEMMA ApplyStep ==
  ASSUME IInv, Now(Lists), Here.form = "call", Top.at = Len(Here.kids),
         UNCHANGED <<suite, nodes, heap>>,
         NEW fn, fn.type = "function", fn \in Values(nodes, envs, heap),
         NEW args \in Seq(Values(nodes, envs, heap)),
         ApplyFunction(fn, args)
  PROVE  IInv'
  <1>. DEFINE known == Values(nodes, envs, heap)
              at == Top.at + 1
              f == Moved(Top, at, Top.inner, <<>>)
              body == nodes[fn.node].kids[1]
              new == Len(envs) + 1
  <1>1. /\ Here = nodes[Top.node] /\ Top.at \in Nat /\ frames # <<>>
        /\ FrameOK(nodes, envs, heap, Top) /\ Here \in NodeRec
        /\ Top.inner \in 0..Len(envs) /\ World(nodes, envs, heap) /\ NodesOK(nodes)
        /\ Len(envs) \in Nat
    BY WorldLens DEF Now, IInv, World
  <1>2. /\ fn.node \in 1..Len(nodes) /\ fn.env \in 1..Len(envs)
        /\ nodes[fn.node].form = "function" /\ MadeBy(envs, fn.env) = nodes[fn.node].within
    <2>1. Kind(nodes, envs, heap, fn)
      BY Kinds
    <2>2. <<fn.node, fn.env>> \in Closures(nodes, envs)
      BY <2>1 DEF Kind
    <2>. QED
      BY <2>2 DEF Closures
  <1>3. CASE Run(Error) /\ UNCHANGED envs
    <2>1. KeepWorld
      BY <1>3 DEF KeepWorld
    <2>. QED
      BY <1>3, <2>1, ListReturns
  <1>4. CASE /\ Len(args) = (IF nodes[fn.node].name = NULL THEN 0 ELSE 1)
             /\ extend_function_env(fn, args)
             /\ Enter(body, new, at, <<>>)
             /\ UNCHANGED status
    <2>1. Parameters(fn, args) \in [Names -> known]
      <3>1. ASSUME NEW n \in Names
            PROVE  (IF nodes[fn.node].name = n THEN args[1] ELSE Missing) \in known
        <4>1. nodes[fn.node].name = n => Len(args) = 1
          BY <1>4, NoNameIsNone
        <4>2. nodes[fn.node].name = n => args[1] \in known
          <5>1. Len(args) = 1 => 1 \in 1..Len(args)
            OBVIOUS
          <5>. QED
            BY <4>1, <5>1, ElementOfSeq
        <4>3. Missing \in known
          BY Members
        <4>. QED
          BY <4>2, <4>3
      <3>. HIDE DEF known
      <3>. QED
        BY <3>1 DEF Parameters
    <2>2. /\ Len(envs) < MaxEnvs
          /\ IsAppended(envs', envs, [store |-> Parameters(fn, args), outer |-> fn.env,
                                      of |-> fn.node])
      BY <1>4 DEF extend_function_env, NewEnvironment, IsAppended
    <2>3. /\ World(nodes, envs', heap) /\ Grown(nodes, envs, heap, nodes, envs', heap)
          /\ Len(envs') = Len(envs) + 1
          /\ MadeBy(envs', Len(envs) + 1) = Append(MadeBy(envs, fn.env), fn.node)
      <3>. DEFINE store == Parameters(fn, args)
                  outer == fn.env
                  of == fn.node
                  us == envs'
      <3>1. /\ store \in [Names -> Values(nodes, envs, heap)] /\ outer \in 1..Len(envs)
            /\ of \in 1..Len(nodes) /\ World(nodes, envs, heap) /\ Len(envs) < MaxEnvs
            /\ IsAppended(us, envs, [store |-> store, outer |-> outer, of |-> of])
        BY <1>1, <1>2, <2>1, <2>2
      <3>. HIDE DEF store, outer, of, us
      <3>2. /\ World(nodes, us, heap) /\ Grown(nodes, envs, heap, nodes, us, heap)
            /\ Len(us) = Len(envs) + 1
            /\ MadeBy(us, Len(envs) + 1) = Append(MadeBy(envs, outer), of)
        BY <3>1, EnvAppendOK
      <3>. QED
        BY <3>2 DEF outer, of, us
    <2>4. NewWorld
      BY <2>3 DEF NewWorld
    <2>5. f.node = Top.node /\ f.at = at /\ f.inner = Top.inner /\ f.vals = <<>>
      BY MovedFields
    <2>. HIDE DEF f
    <2>6. nodes[f.node] = Here
      BY <1>1, <2>5
    <2>7. at = Len(Here.kids) + 1 /\ at \in Nat /\ at # 0
      BY <1>1
    <2>8. Stage(nodes, envs', heap, f)
      BY <2>5, <2>6, <2>7 DEF Stage
    <2>9. CanMove(nodes, envs', heap, Top, at, Top.inner, <<>>)
      <3>1. Top.inner \in 0..Len(envs')
        BY <1>1, <2>3
      <3>2. Top.inner # 0 => MadeBy(envs', Top.inner) = Append(nodes[Top.node].within, Top.node)
        <4>1. Top.inner # 0 => Top.inner \in 1..Len(envs)
          BY <1>1
        <4>2. Top.inner # 0 => MadeBy(envs', Top.inner) = MadeBy(envs, Top.inner)
          BY <2>3, <4>1, MadeBySame DEF Grown
        <4>. QED
          BY <1>1, <4>2 DEF FrameOK
      <3>3. <<>> \in Seq(Values(nodes, envs', heap) \cup {Error, Continue})
        BY EmptySeq
      <3>. QED
        BY <2>7, <2>8, <3>1, <3>2, <3>3 DEF CanMove, f
    <2>10. Asked(nodes, f) = "block"
      <3>1. f.at > 0 /\ ~(f.at <= Len(nodes[f.node].kids))
        BY <2>5, <2>6, <2>7
      <3>. QED
        BY <2>6, <3>1 DEF Asked, Loops
    <2>11. /\ nodes[fn.node] \in NodeRec /\ KidsFit(nodes, fn.node)
           /\ nodes[fn.node].kids \in Seq(Nat) /\ nodes[fn.node].within \in Seq(Nat)
           /\ fn.node \in Nat
      <3>1. nodes[fn.node] \in NodeRec /\ KidsFit(nodes, fn.node)
        BY <1>1, <1>2, ElementOfSeq DEF NodesOK
      <3>. QED
        BY <1>2, <3>1 DEF NodeRec
    <2>12. /\ body \in 1..Len(nodes) /\ nodes[body].role = "block"
           /\ nodes[body].within = Append(nodes[fn.node].within, fn.node)
           /\ InsideFunction(nodes, body)
      <3>1. Len(nodes[fn.node].kids) = 1 /\ Role(nodes, fn.node, 1) = "block"
        BY <1>2, <2>11, Arity
      <3>2. 1 \in DOMAIN nodes[fn.node].kids
        BY <2>11, <3>1, LenProperties
      <3>3. body \in 1..Len(nodes) /\ nodes[body].within = Inside(nodes, fn.node, "function")
        BY <1>2, <2>11, <3>2 DEF KidsFit
      <3>4. nodes[body].role = "block"
        BY <3>1 DEF Role
      <3>. HIDE DEF body
      <3>5. InsideFunction(nodes, body)
        BY <1>2, <2>11, <3>3, InsideAppend
      <3>. QED
        BY <3>3, <3>4, <3>5 DEF Inside, Scopes
    <2>. HIDE DEF body
    <2>13. Serves(nodes, f, body)
      BY <2>10, <2>12 DEF Serves
    <2>14. CanCall(nodes, envs', f, body, new)
      <3>1. new \in 1..Len(envs')
        BY <1>1, <2>3
      <3>. QED
        BY <1>2, <2>3, <2>12, <2>13, <3>1 DEF CanCall
    <2>15. /\ CanMove(nodes', envs', heap', Top, at, Top.inner, <<>>)
           /\ CanCall(nodes', envs', Moved(Top, at, Top.inner, <<>>), body, new)
      BY <2>9, <2>14 DEF f
    <2>16. status' \in {"running", "done", "dead"}
      BY <1>4 DEF IInv
    <2>. HIDE DEF at, new
    <2>. QED
      BY <1>1, <1>4, <2>4, <2>15, <2>16, EntersIn
  <1>. QED
    BY <1>3, <1>4 DEF ApplyFunction

LEMMA CallStep ==
  ASSUME IInv, eval_function_call
  PROVE  IInv'
  <1>. DEFINE known == Values(nodes, envs, heap)
              n == Len(Here.kids)
              fn == Got[1]
              args == Tail(Got)
  <1>1. In(Lists)
    BY DEF eval_function_call, In, Lists
  <1>2. Now(Lists) /\ UNCHANGED <<suite, nodes>> /\ Here.form = "call"
    BY <1>1, Running DEF eval_function_call, In
  <1>3. /\ Here = nodes[Top.node] /\ Top.at \in Nat /\ n \in Nat /\ n >= 1
    <2>1. /\ Here = nodes[Top.node] /\ Top.at \in Nat /\ Here \in NodeRec
          /\ KidsFit(nodes, Top.node)
      BY <1>2 DEF Now
    <2>2. Here.kids \in Seq(Nat) /\ n \in Nat
      BY <2>1, LenProperties DEF NodeRec
    <2>3. n >= 1
      BY <1>2, <2>1, <2>2, Arity
    <2>. QED
      BY <2>1, <2>2, <2>3
  <1>. HIDE DEF n
  <1>4. CASE Die /\ UNCHANGED <<envs, heap>>
    <2>1. KeepWorld
      BY <1>2, <1>4 DEF KeepWorld
    <2>. QED
      BY <1>4, <2>1, Dies
  <1>5. ASSUME NEW v \in known \cup {Error}, Run(v), UNCHANGED <<envs, heap>>
        PROVE  IInv'
    <2>1. KeepWorld
      BY <1>2, <1>5 DEF KeepWorld
    <2>. QED
      BY <1>2, <1>5, <2>1, ListReturns
  <1>6. ASSUME Top.at > 0, Top.at <= n, is_error(ret), Run(ret), UNCHANGED <<envs, heap>>
        PROVE  IInv'
    <2>1. ret \in known \cup {Error}
      BY <1>2, <1>6, GotOK DEF n
    <2>. QED
      BY <1>5, <1>6, <2>1
  <1>7. CASE /\ Top.at < n
             /\ IF Top.at > 0 /\ is_error(ret)
                THEN IF Made(1) THEN Run(ret) ELSE Die
                ELSE Proceed /\ UNCHANGED status
             /\ UNCHANGED <<envs, heap>>
    <2>1. CASE Top.at > 0 /\ is_error(ret)
      <3>1. Run(ret) \/ Die
        BY <1>7, <2>1
      <3>2. Top.at <= n
        BY <1>3, <1>7
      <3>. QED
        BY <1>4, <1>6, <1>7, <2>1, <3>1, <3>2
    <2>2. CASE ~(Top.at > 0 /\ is_error(ret))
      <3>1. Proceed /\ UNCHANGED status /\ (Top.at > 0 => ~is_error(ret))
        BY <1>7, <2>2
      <3>2. KeepWorld
        BY <1>2, <1>7 DEF KeepWorld
      <3>. QED
        BY <1>2, <1>7, <3>1, <3>2, NextOperand DEF n
    <2>. QED
      BY <2>1, <2>2
  <1>8. CASE /\ Made(n)
             /\ IF is_error(ret) THEN (IF n = 1 THEN Run(ret) ELSE Die) /\ UNCHANGED <<envs, heap>>
                ELSE IF fn = Missing THEN Die /\ UNCHANGED <<envs, heap>>
                ELSE CASE fn.type = "builtin"  -> CallBuiltin(fn.fn, args) /\ UNCHANGED envs
                       [] fn.type = "function" -> ApplyFunction(fn, args) /\ UNCHANGED heap
                       [] OTHER -> Run(Error) /\ UNCHANGED <<envs, heap>>
    <2>1. Top.at = n /\ Top.at > 0 /\ Top.at <= n
      BY <1>3, <1>8 DEF Made
    <2>2. CASE is_error(ret)
      <3>1. (Run(ret) \/ Die) /\ UNCHANGED <<envs, heap>>
        BY <1>8, <2>2
      <3>. QED
        BY <1>4, <1>6, <2>1, <2>2, <3>1
    <2>3. CASE ~is_error(ret)
      <3>1. Got \in Seq(known) /\ Len(Got) = n
        BY <1>2, <2>1, <2>3, GotOK DEF n
      <3>2. fn \in known
        <4>1. 1 \in 1..Len(Got)
          BY <1>3, <3>1
        <4>. QED
          BY <3>1, <4>1, ElementOfSeq
      <3>3. args \in Seq(known)
        <4>1. Got # <<>>
          BY <1>3, <3>1, EmptySeq
        <4>. HIDE DEF known
        <4>. QED
          BY <3>1, <4>1, HeadTailProperties
      <3>. HIDE DEF fn, args
      <3>4. CASE Run(Error) /\ UNCHANGED <<envs, heap>>
        BY <1>5, <3>4
      <3>5. CASE fn.type = "builtin" /\ CallBuiltin(fn.fn, args) /\ UNCHANGED envs
        <4>1. fn.fn \in BuiltinNames
          <5>1. Kind(nodes, envs, heap, fn)
            BY <3>2, Kinds
          <5>. QED
            BY <3>5, <5>1 DEF Kind
        <4>. QED
          BY <1>2, <3>3, <3>5, <4>1, BuiltinStep
      <3>6. CASE fn.type = "function" /\ ApplyFunction(fn, args) /\ UNCHANGED heap
        <4>1. Top.at = Len(Here.kids)
          BY <2>1 DEF n
        <4>. QED
          BY <1>2, <3>2, <3>3, <3>6, <4>1, ApplyStep
      <3>. QED
        BY <1>4, <1>8, <2>3, <3>4, <3>5, <3>6
    <2>. QED
      BY <2>2, <2>3
  <1>9. CASE /\ Made(n + 1)
             /\ IF ret = Missing THEN Die ELSE Run(unwrap_return_value(ret))
             /\ UNCHANGED <<envs, heap>>
    <2>1. Asked(nodes, Top) = "block"
      <3>1. Top.at > 0 /\ ~(Top.at <= Len(nodes[Top.node].kids))
        BY <1>3, <1>9 DEF Made, n
      <3>. QED
        BY <1>2, <1>3, <3>1 DEF Asked, Loops
    <2>2. ret \in known \cup {Error} \cup Wrappers(nodes, envs, heap)
      BY <1>2, <2>1, Received
    <2>3. unwrap_return_value(ret) \in known \cup {Error}
      BY <2>2, Unwrapped
    <2>. QED
      BY <1>4, <1>5, <1>9, <2>3
  <1>. QED
    BY <1>7, <1>8, <1>9 DEF eval_function_call, n

(* A loop has an environment of its own, in which its initialization runs. *)
LEMMA LoopStep ==
  ASSUME IInv, StartLoop
  PROVE  IInv'
  <1>. DEFINE new == Len(envs) + 1
              f == Moved(Top, 1, new, <<>>)
              init == Part("let")
  <1>1. Now(Loops) /\ Made(0) /\ UNCHANGED <<suite, nodes, heap, search, status>>
    BY Running DEF StartLoop
  <1>2. /\ Here = nodes[Top.node] /\ Here.form \in Loops
        /\ FrameOK(nodes, envs, heap, Top) /\ frames # <<>> /\ depth = Len(frames)
        /\ Top.node \in 1..Len(nodes) /\ Top.env \in 1..Len(envs)
        /\ Top = frames[Len(frames)]
        /\ KidsFit(nodes, Top.node) /\ Here \in NodeRec
        /\ World(nodes, envs, heap) /\ Len(envs) \in Nat
    BY <1>1, WorldLens DEF Now, IInv
  <1>3. Top.vals = <<>>
    BY <1>1, <1>2 DEF FrameOK, Made
  <1>4. /\ World(nodes, envs', heap) /\ Grown(nodes, envs, heap, nodes, envs', heap)
        /\ Len(envs') = new
        /\ MadeBy(envs', new) = Append(nodes[Top.node].within, Top.node)
    <2>1. NoNames \in [Names -> Values(nodes, envs, heap)]
      BY Members DEF NoNames
    <2>2. /\ Len(envs) < MaxEnvs
          /\ IsAppended(envs', envs, [store |-> NoNames, outer |-> Top.env, of |-> Top.node])
      BY DEF StartLoop, NewEnvironment, IsAppended
    <2>3. /\ World(nodes, envs', heap) /\ Grown(nodes, envs, heap, nodes, envs', heap)
          /\ Len(envs') = Len(envs) + 1
          /\ MadeBy(envs', Len(envs) + 1) = Append(MadeBy(envs, Top.env), Top.node)
      <3>. DEFINE store == NoNames
                  outer == Top.env
                  of == Top.node
                  us == envs'
      <3>1. /\ store \in [Names -> Values(nodes, envs, heap)] /\ outer \in 1..Len(envs)
            /\ of \in 1..Len(nodes) /\ World(nodes, envs, heap) /\ Len(envs) < MaxEnvs
            /\ IsAppended(us, envs, [store |-> store, outer |-> outer, of |-> of])
        BY <1>2, <2>1, <2>2
      <3>. HIDE DEF store, outer, of, us
      <3>2. /\ World(nodes, us, heap) /\ Grown(nodes, envs, heap, nodes, us, heap)
            /\ Len(us) = Len(envs) + 1
            /\ MadeBy(us, Len(envs) + 1) = Append(MadeBy(envs, outer), of)
        BY <3>1, EnvAppendOK
      <3>. QED
        BY <3>2 DEF outer, of, us
    <2>. QED
      BY <1>2, <2>3 DEF FrameOK
  <1>5. NewWorld
    BY <1>1, <1>4 DEF NewWorld
  <1>6. f.node = Top.node /\ f.at = 1 /\ f.inner = new /\ f.vals = <<>>
    BY MovedFields
  <1>. HIDE DEF f
  <1>7. nodes[f.node] = Here
    BY <1>2, <1>6
  <1>8. Stage(nodes, envs', heap, f)
    <2>1. f.inner # 0 /\ f.vals \in Seq(Kept(nodes, envs', heap, f.node))
      BY <1>2, <1>6, EmptySeq
    <2>. QED
      BY <1>2, <1>6, <1>7, <2>1 DEF Stage
  <1>9. CanMove(nodes, envs', heap, Top, 1, new, <<>>)
    <2>1. <<>> \in Seq(Values(nodes, envs', heap) \cup {Error, Continue})
      BY EmptySeq
    <2>2. new \in 0..Len(envs')
      BY <1>2, <1>4
    <2>. QED
      BY <1>4, <1>8, <2>1, <2>2 DEF CanMove, f
  <1>10. Asked(nodes, f) = "let"
    BY <1>2, <1>6, <1>7 DEF Asked, Loops
  <1>11. /\ CanMove(nodes', envs', heap', Top, 1, new, <<>>)
         /\ Asked(nodes', Moved(Top, 1, new, <<>>)) = "let"
         /\ status' \in {"running", "done", "dead"}
         /\ nodes'[Top.node].form \notin {"reassign", "reassign_index"}
    BY <1>1, <1>2, <1>9, <1>10 DEF f, IInv, Loops
  <1>12. CASE init = 0
    <2>1. GoTo(1, new, <<>>)
      BY <1>12 DEF StartLoop
    <2>. HIDE DEF new
    <2>. QED
      BY <1>2, <1>5, <1>11, <2>1, GoesIn
  <1>13. CASE init # 0
    <2>. DEFINE us == [frames EXCEPT ![Len(frames)].at = 1, ![Len(frames)].inner = new]
    <2>1. frames' = Append(us, Frame(init, new)) /\ ret' = Nothing
      BY <1>2, <1>13 DEF StartLoop
    <2>2. IsTop(us, frames, Moved(Top, 1, new, <<>>))
      <3>1. IsTop(us, frames, Moved(Top, 1, new, Top.vals))
        BY <1>2, TopEntersIs DEF IInv
      <3>. QED
        BY <1>3, <3>1
    <2>3. PICK i \in 1..Len(Here.kids) : init = Kid(i) /\ Role(nodes, Top.node, i) = "let"
      BY <1>1, <1>13, PartIs
    <2>4. /\ Serves(nodes, f, init) /\ init \in 1..Len(nodes)
          /\ nodes[init].within = Inside(nodes, Top.node, nodes[Top.node].form)
      <3>1. /\ f.node \in 1..Len(nodes) /\ nodes[f.node] \in NodeRec /\ KidsFit(nodes, f.node)
            /\ i \in 1..Len(nodes[f.node].kids) /\ Role(nodes, f.node, i) = Asked(nodes, f)
            /\ nodes[f.node].form # "call" /\ init = nodes[f.node].kids[i]
        BY <1>2, <1>6, <1>7, <1>10, <2>3 DEF Kid, Loops
      <3>. HIDE DEF init
      <3>2. /\ Serves(nodes, f, nodes[f.node].kids[i]) /\ nodes[f.node].kids[i] \in 1..Len(nodes)
            /\ nodes[nodes[f.node].kids[i]].within = Inside(nodes, f.node, nodes[f.node].form)
        BY <3>1, KidServes
      <3>. QED
        BY <1>6, <3>1, <3>2
    <2>. HIDE DEF init
    <2>5. CanCall(nodes, envs', f, init, new)
      <3>1. new \in 1..Len(envs')
        BY <1>2, <1>4
      <3>2. nodes[init].within = Append(nodes[Top.node].within, Top.node)
        BY <1>2, <2>4 DEF Inside, Scopes
      <3>. QED
        BY <1>4, <2>4, <3>1, <3>2 DEF CanCall
    <2>6. CanCall(nodes', envs', Moved(Top, 1, new, <<>>), init, new)
      BY <1>1, <2>5 DEF f
    <2>. HIDE DEF us, new
    <2>. QED
      BY <1>2, <1>5, <1>11, <2>1, <2>2, <2>6, CallsIn
  <1>. QED
    BY <1>12, <1>13


----------------------------------------------------------------------------
(* Meeting the program *)

ChildRoles == Roles \ {"program"}

(* Node n of ns changes and gets children q, which have none themselves.   *)
Extends(ns, ms, n, q) ==
  /\ ms \in Seq(NodeRec) /\ Len(ns) \in Nat /\ Len(q) \in Nat
  /\ Len(ms) = Len(ns) + Len(q) /\ n \in 1..Len(ns)
  /\ \A i \in 1..Len(ns) : i # n => ms[i] = ns[i]
  /\ ms[n].role = ns[n].role /\ ms[n].within = ns[n].within
  /\ ns[n].form # Unmet => /\ ms[n].form = ns[n].form /\ ns[n].form \in {"program", "block"}
                           /\ ms[n].name = ns[n].name
                           /\ Len(ns[n].kids) <= Len(ms[n].kids)
  /\ \A i \in 1..Len(q) :
       /\ ms[Len(ns) + i] = q[i] /\ q[i].kids = <<>>
       /\ q[i].role \in ChildRoles
       /\ q[i].form = IF q[i].role = "block" THEN "block" ELSE Unmet
       /\ q[i].within = Inside(ms, n, ms[n].form)

(* A program that gets nodes has grown,                                    *)
LEMMA ExtendsGrown ==
  ASSUME NEW ns, NEW es, NEW h, World(ns, es, h), NEW ms, NEW n, NEW q, Extends(ns, ms, n, q)
  PROVE  Grown(ns, es, h, ms, es, h)
  <1>1. /\ Len(ns) \in Nat /\ Len(ms) \in Nat /\ Len(ns) <= Len(ms)
        /\ SameChain(es, es) /\ Len(h) \in Nat
    BY WorldLens DEF Extends
  <1>2. ASSUME NEW i \in 1..Len(ns)
        PROVE  /\ ms[i].role = ns[i].role /\ ms[i].within = ns[i].within
               /\ ns[i].form # Unmet =>
                    /\ ms[i].form = ns[i].form /\ ms[i].name = ns[i].name
                    /\ Len(ns[i].kids) <= Len(ms[i].kids)
                    /\ ns[i].form \notin {"program", "block"} => ms[i].kids = ns[i].kids
    <2>1. CASE i = n
      BY <2>1 DEF Extends
    <2>2. CASE i # n
      <3>1. Len(ns[i].kids) \in Nat
        <4>1. ns[i] \in NodeRec
          BY ElementOfSeq DEF World, NodesOK
        <4>. QED
          BY <4>1, LenProperties DEF NodeRec
      <3>. QED
        BY <2>2, <3>1 DEF Extends
    <2>. QED
      BY <2>1, <2>2
  <1>. QED
    BY <1>1, <1>2 DEF Grown

(* and the environments and arrays are still in order.                     *)
LEMMA GrownWorld ==
  ASSUME NEW ns, NEW es, NEW h, World(ns, es, h), NEW ms, Grown(ns, es, h, ms, es, h),
         NodesOK(ms)
  PROVE  World(ms, es, h)
  <1>1. /\ es \in Seq(EnvRec(ms, es, h)) /\ h \in Seq(Seq(Elements(ms, es, h)))
    BY Lifts DEF World, EnvsOK
  <1>2. \A e \in 1..Len(es) : es[e].of \in 0..Len(ms)
    BY DEF World, EnvsOK, Grown
  <1>3. StoresOK(ms, es)
    BY GrownValues DEF World, StoresOK
  <1>. QED
    BY <1>1, <1>2, <1>3 DEF World, EnvsOK

(* The program with the new nodes is one.                                  *)
LEMMA ExtendsOK ==
  ASSUME NEW ns, NEW es, NEW h, World(ns, es, h), NEW ms, NEW n, NEW q, Extends(ns, ms, n, q),
         ms[n].form \in AllForms \cup {"program", "block"},
         FormFits(ms, n), KidsFit(ms, n)
  PROVE  World(ms, es, h)
  <1>1. Grown(ns, es, h, ms, es, h)
    BY ExtendsGrown
  <1>2. NodesOK(ns) /\ ns \in Seq(NodeRec) /\ n \in 1..Len(ns) /\ Len(ns) \in Nat
        /\ Len(ms) \in Nat /\ Len(ns) <= Len(ms)
    BY <1>1 DEF World, NodesOK, Extends, Grown
  <1>3. Unmet \notin Scopes /\ Unmet \notin AllForms
    BY DEF Scopes, Loops, Unmet, AllForms
  <1>4. ASSUME NEW i \in 1..Len(ns)
        PROVE  ScopesFit(ms, i)
    <2>1. ScopesFit(ns, i) /\ ms[i].within = ns[i].within
      BY <1>1, <1>2 DEF NodesOK, Grown
    <2>2. ASSUME NEW j \in DOMAIN ns[i].within
          PROVE  /\ ns[i].within[j] \in 1..Len(ms)
                 /\ ms[ns[i].within[j]].form \in Scopes
      <3>. DEFINE w == ns[i].within[j]
      <3>1. w \in 1..Len(ns) /\ ns[w].form \in Scopes
        BY <2>1 DEF ScopesFit
      <3>. HIDE DEF w
      <3>2. ms[w].form = ns[w].form
        BY <1>1, <1>3, <3>1 DEF Grown
      <3>3. w \in 1..Len(ms)
        BY <1>2, <3>1
      <3>. QED
        BY <3>1, <3>2, <3>3 DEF w
    <2>. QED
      BY <2>1, <2>2 DEF ScopesFit
  <1>5. ASSUME NEW i \in 1..Len(ns), i # n
        PROVE  FormFits(ms, i) /\ KidsFit(ms, i)
    <2>1. ms[i] = ns[i] /\ FormFits(ns, i) /\ KidsFit(ns, i) /\ ScopesFit(ns, i)
      BY <1>2, <1>5 DEF Extends, NodesOK
    <2>2. InsideFunction(ms, i) <=> InsideFunction(ns, i)
      BY <1>1, <2>1, GrownInside
    <2>3. FormFits(ms, i)
      BY <2>1, <2>2 DEF FormFits
    <2>4. \A j \in DOMAIN ns[i].kids :
            /\ ns[i].kids[j] \in 1..Len(ms)
            /\ ms[ns[i].kids[j]].within = ns[ns[i].kids[j]].within
            /\ ms[ns[i].kids[j]].role = ns[ns[i].kids[j]].role
      <3>1. \A j \in DOMAIN ns[i].kids : ns[i].kids[j] \in 1..Len(ns)
        BY <2>1 DEF KidsFit
      <3>. QED
        BY <1>1, <1>2, <3>1 DEF Grown
    <2>5. [j \in DOMAIN ns[i].kids |-> ms[ns[i].kids[j]].role]
            = [j \in DOMAIN ns[i].kids |-> ns[ns[i].kids[j]].role]
      BY <2>4
    <2>6. KidsFit(ms, i)
      <3>1. Inside(ms, i, ms[i].form) = Inside(ns, i, ns[i].form)
        BY <2>1 DEF Inside
      <3>2. ms[i].form \in AllForms =>
              [j \in DOMAIN ms[i].kids |-> ms[ms[i].kids[j]].role] \in Arms(ms[i].form)
        <4>1. ns[i].form \in AllForms =>
                [j \in DOMAIN ns[i].kids |-> ns[ns[i].kids[j]].role] \in Arms(ns[i].form)
          BY <2>1 DEF KidsFit
        <4>. QED
          BY <2>1, <2>5, <4>1
      <3>3. ms[i].form \in {"program", "block"} =>
              \A j \in DOMAIN ms[i].kids : ms[ms[i].kids[j]].role = "statement"
        BY <2>1, <2>4 DEF KidsFit
      <3>4. \A j \in DOMAIN ms[i].kids :
              /\ ms[i].kids[j] \in 1..Len(ms)
              /\ ms[ms[i].kids[j]].within = Inside(ms, i, ms[i].form)
        BY <2>1, <2>4, <3>1 DEF KidsFit
      <3>. QED
        BY <3>2, <3>3, <3>4 DEF KidsFit
    <2>. QED
      BY <2>3, <2>6
  <1>6. ASSUME NEW i \in 1..Len(q)
        PROVE  FormFits(ms, Len(ns) + i) /\ KidsFit(ms, Len(ns) + i) /\ ScopesFit(ms, Len(ns) + i)
    <2>. DEFINE c == Len(ns) + i
    <2>1. /\ ms[c].kids = <<>> /\ ms[c].role \in ChildRoles
          /\ ms[c].form = IF ms[c].role = "block" THEN "block" ELSE Unmet
          /\ ms[c].within = Inside(ms, n, ms[n].form)
      BY DEF Extends
    <2>. HIDE DEF c
    <2>2. ms[c].form \notin AllForms /\ ms[c].form \notin {"ident", "let", "reassign",
                                                 "reassign_index", "function"}
      BY <2>1 DEF AllForms, Unmet
    <2>3. FormFits(ms, c)
      BY <2>1, <2>2 DEF FormFits, ChildRoles, Unmet
    <2>4. DOMAIN ms[c].kids = {}
      BY <2>1
    <2>5. KidsFit(ms, c)
      BY <2>2, <2>4 DEF KidsFit
    <2>6. ScopesFit(ms, c)
      <3>1. ScopesFit(ms, n) /\ n \in 1..Len(ms) /\ n \in Nat
        BY <1>2, <1>4
      <3>2. ms[n].within \in Seq(Nat)
        <4>1. ms[n] \in NodeRec
          BY <3>1, ElementOfSeq DEF Extends
        <4>. QED
          BY <4>1 DEF NodeRec
      <3>3. CASE ms[n].form \notin Scopes
        BY <2>1, <3>1, <3>3 DEF Inside, ScopesFit
      <3>4. CASE ms[n].form \in Scopes
        <4>1. ms[c].within = Append(ms[n].within, n)
          BY <2>1, <3>4 DEF Inside
        <4>2. ASSUME NEW j \in DOMAIN ms[c].within
              PROVE  ms[c].within[j] = n \/ (j \in DOMAIN ms[n].within
                                             /\ ms[c].within[j] = ms[n].within[j])
          BY <3>1, <3>2, <4>1, <4>2, AppendProperties
        <4>. QED
          BY <3>1, <3>4, <4>2 DEF ScopesFit
      <3>. QED
        BY <3>3, <3>4
    <2>. QED
      BY <2>3, <2>5, <2>6 DEF c
  <1>7. NodesOK(ms)
    <2>1. ms \in Seq(NodeRec)
      BY DEF Extends
    <2>2. ASSUME NEW i \in 1..Len(ms)
          PROVE  FormFits(ms, i) /\ KidsFit(ms, i) /\ ScopesFit(ms, i)
      <3>1. CASE i \in 1..Len(ns)
        BY <1>4, <1>5, <3>1
      <3>2. CASE i \notin 1..Len(ns)
        <4>1. Len(q) \in Nat /\ Len(ms) = Len(ns) + Len(q)
          BY DEF Extends
        <4>2. i - Len(ns) \in 1..Len(q)
          BY <1>2, <3>2, <4>1
        <4>3. Len(ns) + (i - Len(ns)) = i
          BY <1>2
        <4>. QED
          BY <1>6, <4>2, <4>3
      <3>. QED
        BY <3>1, <3>2
    <2>. QED
      BY <2>1, <2>2 DEF NodesOK
  <1>. QED
    BY <1>1, <1>7, GrownWorld


(* The children of a node have roles.                                      *)
LEMMA ArmsKnown ==
  ASSUME NEW form \in AllForms, NEW arms \in Arms(form)
  PROVE  arms \in Seq(ChildRoles)
  <1>1. \A n \in Nat : Repeat("operand", n) \in Seq(ChildRoles)
    BY DEF Repeat, ChildRoles, Roles
  <1>2. CASE form = "for"
    <2>1. arms \in Seq(LoopRoles)
      BY <1>2, ArmsOfFor
    <2>2. LoopRoles \subseteq ChildRoles
      BY DEF LoopRoles, ChildRoles, Roles
    <2>. QED
      BY <2>1, <2>2, SeqMonotonic
  <1>3. CASE form \in {"call", "array", "hash"}
    <2>1. PICK n \in Nat : arms = Repeat("operand", n)
      <3>1. \A k \in 0..MaxArgs : k \in Nat /\ k + 1 \in Nat /\ 2 * k \in Nat
        BY BoundsNatural
      <3>2. CASE form = "call"
        <4>1. arms \in {Repeat("operand", n + 1) : n \in 0..MaxArgs}
          BY <3>2 DEF Arms
        <4>. QED
          BY <3>1, <4>1
      <3>3. CASE form = "array"
        <4>1. arms \in {Repeat("operand", n) : n \in 0..MaxArgs}
          BY <3>3 DEF Arms
        <4>. QED
          BY <3>1, <4>1
      <3>4. CASE form = "hash"
        <4>1. arms \in {Repeat("operand", 2 * n) : n \in 0..MaxArgs}
          BY <3>4 DEF Arms
        <4>. QED
          BY <3>1, <4>1
      <3>. QED
        BY <1>3, <3>2, <3>3, <3>4
    <2>. QED
      BY <1>1, <2>1
  <1>4. CASE form \notin {"for", "call", "array", "hash"}
    <2>1. arms \in {<<>>, <<"operand">>, <<"block">>, <<"operand", "operand">>,
                    <<"operand", "block">>, <<"operand", "block", "block">>,
                    <<"operand", "array">>}
      BY <1>4 DEF Arms
    <2>2. "operand" \in ChildRoles /\ "block" \in ChildRoles /\ "array" \in ChildRoles
      BY DEF ChildRoles, Roles
    <2>. HIDE DEF ChildRoles
    <2>3. /\ <<>> \in Seq(ChildRoles)
          /\ \A a \in ChildRoles : <<a>> \in Seq(ChildRoles)
          /\ \A a, b \in ChildRoles : <<a, b>> \in Seq(ChildRoles)
          /\ \A a, b, c \in ChildRoles : <<a, b, c>> \in Seq(ChildRoles)
      OBVIOUS
    <2>. QED
      BY <2>1, <2>2, <2>3
  <1>. QED
    BY <1>2, <1>3, <1>4

(* What the evaluator meets is a node that may stand there.                *)
LEMMA MetFits ==
  ASSUME suite \in DOMAIN Suites, NEW n,
         nodes[n] \in NodeRec, FormFits(nodes, n), nodes[n].form = Unmet,
         NEW f, f \in FormsAt(n), NEW name, name \in NamesOf(f)
  PROVE  /\ f \in AllForms /\ name \in NodeNames
         /\ LET role == nodes[n].role
            IN  /\ role \notin {"program", "block"}
                /\ role = "let"     => f = "let"
                /\ role = "array"   => f = "array"
                /\ role = "operand" => f \notin {"let", "return", "break", "continue"}
         /\ f \in {"ident", "let", "reassign", "reassign_index"} => name \in Names
         /\ f = "function" => name \in Names \cup {NULL}
  <1>. DEFINE role == nodes[n].role
              values == Suite.forms \ {"let", "return", "break", "continue"}
  <1>1. /\ Suite.forms \subseteq AllForms /\ Suite.names \subseteq Names
        /\ Suite = Suites[suite]
    BY SuitesKnown DEF Suite
  <1>2. role \in {"let", "array", "operand", "statement"}
    <2>1. role \in Roles
      BY DEF NodeRec
    <2>2. role \notin {"program", "block"}
      BY DEF FormFits, Unmet
    <2>. QED
      BY <2>1, <2>2 DEF Roles
  <1>3. /\ role = "let" => f = "let"
        /\ role = "array" => f = "array"
        /\ role = "operand" => f \in values
        /\ role = "statement" => f \in Suite.forms
    BY DEF FormsAt
  <1>4. f \in AllForms
    <2>1. "let" \in AllForms /\ "array" \in AllForms
      BY DEF AllForms
    <2>. HIDE DEF role
    <2>. QED
      BY <1>1, <1>2, <1>3, <2>1
  <1>5. /\ f \in {"ident", "let", "reassign", "reassign_index"} => name \in Names
        /\ f = "function" => name \in Names \cup {NULL}
    BY <1>1 DEF NamesOf
  <1>6. name \in NodeNames
    <2>1. name \in Suite.names \cup {NULL} \cup Suite.operators
      BY DEF NamesOf
    <2>2. Suite.operators \in {Suites[i].operators : i \in DOMAIN Suites}
      BY <1>1
    <2>3. \A o \in Suite.operators : o \in UNION {Suites[i].operators : i \in DOMAIN Suites}
      BY <2>2
    <2>. QED
      BY <1>1, <2>1, <2>3 DEF NodeNames
  <1>. QED
    BY <1>2, <1>3, <1>4, <1>5, <1>6


MetNode(r, f, name, kids) ==
  [[[r EXCEPT !.form = f] EXCEPT !.name = name] EXCEPT !.kids = kids]

(* What EXCEPT makes of a node.                                            *)
LEMMA NodeIs ==
  ASSUME NEW r \in NodeRec, NEW f \in Forms, NEW name \in NodeNames, NEW kids \in Seq(Nat)
  PROVE  LET s == MetNode(r, f, name, kids)
         IN  /\ s \in NodeRec /\ s.form = f /\ s.name = name /\ s.kids = kids
             /\ s.role = r.role /\ s.within = r.within /\ s.open = r.open
  BY DEF NodeRec, MetNode

IsMet(q, n, f, name, kids) ==
  [q EXCEPT ![n].form = f, ![n].name = name, ![n].kids = kids]
    = [q EXCEPT ![n] = MetNode(q[n], f, name, kids)]

(* Three changes of one node are one.                                      *)
LEMMA PutThrice ==
  ASSUME NEW S, NEW q \in Seq(S), NEW n, NEW f, NEW name, NEW kids
  PROVE  IsMet(q, n, f, name, kids)
  <1>. DEFINE a == [q EXCEPT ![n].form = f]
              b == [a EXCEPT ![n].name = name]
              c == [b EXCEPT ![n].kids = kids]
              x == [q[n] EXCEPT !.form = f]
              y == [x EXCEPT !.name = name]
              z == [y EXCEPT !.kids = kids]
  <1>1. CASE n \in DOMAIN q
    <2>1. a = [q EXCEPT ![n] = x]
      OBVIOUS
    <2>2. a[n] = x /\ n \in DOMAIN a
      <3>. HIDE DEF x
      <3>. QED
        BY <1>1, <2>1
    <2>3. b = [q EXCEPT ![n] = y]
      <3>1. b = [a EXCEPT ![n] = [a[n] EXCEPT !.name = name]]
        <4>. HIDE DEF a
        <4>. QED
          OBVIOUS
      <3>2. b = [a EXCEPT ![n] = y]
        BY <2>2, <3>1
      <3>. HIDE DEF y, x, b
      <3>3. [[q EXCEPT ![n] = x] EXCEPT ![n] = y] = [q EXCEPT ![n] = y]
        BY <1>1
      <3>. QED
        BY <2>1, <3>2, <3>3
    <2>4. b[n] = y /\ n \in DOMAIN b
      <3>. HIDE DEF y, b
      <3>. QED
        BY <1>1, <2>3
    <2>5. c = [q EXCEPT ![n] = z]
      <3>1. c = [b EXCEPT ![n] = [b[n] EXCEPT !.kids = kids]]
        <4>. HIDE DEF b
        <4>. QED
          OBVIOUS
      <3>2. c = [b EXCEPT ![n] = z]
        BY <2>4, <3>1
      <3>. HIDE DEF y, z, b, c
      <3>3. [[q EXCEPT ![n] = y] EXCEPT ![n] = z] = [q EXCEPT ![n] = z]
        BY <1>1
      <3>. QED
        BY <2>3, <3>2, <3>3
    <2>. QED
      BY <2>5 DEF IsMet, MetNode
  <1>2. CASE n \notin DOMAIN q
    BY <1>2 DEF IsMet
  <1>. QED
    BY <1>1, <1>2

(* The program after Meet.                                                 *)
Child(ns, n, f, role) == Node(IF role = "block" THEN "block" ELSE Unmet, role, Inside(ns, n, f))

Children(ns, n, f, arms) == [i \in DOMAIN arms |-> Child(ns, n, f, arms[i])]

Met(ns, n, f, name, arms) ==
  [ns EXCEPT ![n].form = f, ![n].name = name, ![n].kids = [i \in DOMAIN arms |-> Len(ns) + i]]
    \o Children(ns, n, f, arms)

LEMMA ChildIs ==
  ASSUME NEW ns, NEW n \in Nat, ns[n] \in NodeRec, NEW f, NEW role \in ChildRoles
  PROVE  LET c == Child(ns, n, f, role)
         IN  /\ c \in NodeRec /\ c.kids = <<>> /\ c.role = role
             /\ c.form = IF role = "block" THEN "block" ELSE Unmet
             /\ c.within = Inside(ns, n, f)
  <1>1. Inside(ns, n, f) \in Seq(Nat)
    <2>1. ns[n].within \in Seq(Nat)
      BY DEF NodeRec
    <2>. QED
      BY <2>1, AppendProperties DEF Inside
  <1>2. role \in Roles /\ {"block", Unmet} \subseteq Forms /\ NULL \in NodeNames
    BY DEF ChildRoles, Forms, NodeNames
  <1>. DEFINE form == IF role = "block" THEN "block" ELSE Unmet
  <1>3. form \in Forms
    BY <1>2
  <1>4. <<>> \in Seq(Nat)
    OBVIOUS
  <1>. HIDE DEF form
  <1>5. LET c == Node(form, role, Inside(ns, n, f))
        IN  /\ c \in NodeRec /\ c.kids = <<>> /\ c.role = role
            /\ c.form = form /\ c.within = Inside(ns, n, f)
    BY <1>1, <1>2, <1>3, <1>4 DEF Node, NodeRec
  <1>. QED
    BY <1>5 DEF Child, form

(* Meet gives one node its form and its children.                          *)
LEMMA MetExtends ==
  ASSUME NEW ns \in Seq(NodeRec), NEW n \in 1..Len(ns), ns[n].form = Unmet,
         NEW f \in AllForms, NEW name \in NodeNames, NEW arms \in Seq(ChildRoles)
  PROVE  LET ms == Met(ns, n, f, name, arms)
             q == Children(ns, n, f, arms)
         IN  /\ Extends(ns, ms, n, q)
             /\ ms[n].form = f /\ ms[n].name = name
             /\ ms[n].kids = [i \in DOMAIN arms |-> Len(ns) + i]
             /\ Len(q) = Len(arms)
             /\ \A i \in 1..Len(arms) : q[i].role = arms[i]
  <1>. DEFINE kids == [i \in DOMAIN arms |-> Len(ns) + i]
              q == Children(ns, n, f, arms)
              z == MetNode(ns[n], f, name, kids)
              a == [ns EXCEPT ![n] = z]
              ms == a \o q
  <1>1. Len(ns) \in Nat /\ Len(arms) \in Nat /\ DOMAIN arms = 1..Len(arms) /\ n \in Nat
        /\ DOMAIN ns = 1..Len(ns)
    BY LenProperties
  <1>2. kids \in Seq(Nat)
    BY <1>1
  <1>3. ns[n] \in NodeRec
    BY ElementOfSeq
  <1>4. f \in Forms
    BY DEF Forms
  <1>5. /\ z \in NodeRec /\ z.form = f /\ z.name = name /\ z.kids = kids
        /\ z.role = ns[n].role /\ z.within = ns[n].within
    <2>. HIDE DEF kids
    <2>. QED
      BY <1>2, <1>3, <1>4, NodeIs
  <1>6. /\ a \in Seq(NodeRec) /\ Len(a) = Len(ns) /\ a[n] = z
        /\ \A i \in 1..Len(ns) : i # n => a[i] = ns[i]
    <2>. HIDE DEF z
    <2>. QED
      BY <1>1, <1>5, ExceptSeq
  <1>7. \A i \in 1..Len(arms) :
          /\ q[i] \in NodeRec /\ q[i].kids = <<>> /\ q[i].role = arms[i]
          /\ arms[i] \in ChildRoles
          /\ q[i].form = IF arms[i] = "block" THEN "block" ELSE Unmet
          /\ q[i].within = Inside(ns, n, f)
    BY <1>1, <1>3, ChildIs, ElementOfSeq DEF Children
  <1>8. q \in Seq(NodeRec) /\ Len(q) = Len(arms)
    BY <1>1, <1>7 DEF Children
  <1>9. Met(ns, n, f, name, arms) = ms
    <2>1. a = [ns EXCEPT ![n].form = f, ![n].name = name, ![n].kids = kids]
      <3>. HIDE DEF kids
      <3>1. IsMet(ns, n, f, name, kids)
        BY PutThrice
      <3>. QED
        BY <3>1 DEF IsMet
    <2>. QED
      BY <2>1 DEF Met
  <1>. HIDE DEF a, q, z, kids
  <1>10. /\ ms \in Seq(NodeRec) /\ Len(ms) = Len(ns) + Len(arms)
         /\ \A i \in 1..Len(ns) : ms[i] = a[i]
         /\ \A i \in 1..Len(arms) : ms[Len(ns) + i] = q[i]
    <2>1. /\ ms \in Seq(NodeRec) /\ Len(ms) = Len(a) + Len(q)
          /\ \A i \in 1..Len(a) + Len(q) : ms[i] = IF i <= Len(a) THEN a[i] ELSE q[i - Len(a)]
      <3>1. a \in Seq(NodeRec) /\ q \in Seq(NodeRec)
        BY <1>6, <1>8
      <3>. HIDE DEF NodeRec
      <3>. QED
        BY ONLY <3>1, ConcatProperties
    <2>2. \A i \in 1..Len(ns) : i \in 1..Len(a) + Len(q) /\ i <= Len(a)
      BY <1>1, <1>6, <1>8
    <2>3. \A i \in 1..Len(arms) : /\ Len(ns) + i \in 1..Len(a) + Len(q) /\ ~(Len(ns) + i <= Len(a))
                                  /\ (Len(ns) + i) - Len(a) = i
      BY <1>1, <1>6, <1>8
    <2>. HIDE DEF ms
    <2>. QED
      BY <1>6, <1>8, <2>1, <2>2, <2>3
  <1>. HIDE DEF ms
  <1>11. ms[n] = z
    BY <1>6, <1>10
  <1>12. Inside(ms, n, ms[n].form) = Inside(ns, n, f)
    BY <1>5, <1>11 DEF Inside
  <1>13. Extends(ns, ms, n, q)
    BY <1>1, <1>5, <1>6, <1>7, <1>8, <1>10, <1>11, <1>12 DEF Extends
  <1>. QED
    BY <1>5, <1>7, <1>8, <1>9, <1>11, <1>13 DEF q, kids


(* The search goes on undisturbed when the program grows at a node that is *)
(* no assignment.                                                          *)
LEMMA GrowsIn ==
  ASSUME IInv, NEW forms, Now(forms), forms \cap {"reassign", "reassign_index"} = {},
         UNCHANGED <<suite, envs, heap, frames, ret, search, status>>,
         World(nodes', envs, heap), Grown(nodes, envs, heap, nodes', envs, heap),
         Top.at = 0 \/ nodes'[Top.node].form \notin {"reassign", "reassign_index"}
  PROVE  IInv'
  <1>1. NewWorld
    BY DEF NewWorld
  <1>2. /\ Calls(nodes', envs', heap', frames)
        /\ Returned(nodes', envs', heap', frames, ret)
        /\ suite' \in DOMAIN Suites
    BY <1>1, Stays
  <1>3. Top = frames[Len(frames)]
    BY DEF Now
  <1>4. ~Searching(nodes', frames)
    BY <1>3 DEF Searching
  <1>5. /\ Calls(nodes', envs', heap', frames')
        /\ Returned(nodes', envs', heap', frames', ret')
        /\ Searches(nodes', envs', frames', search')
    BY <1>2, <1>4 DEF Searches
  <1>6. status' \in {"running", "done", "dead"}
    BY DEF IInv
  <1>. QED
    BY <1>1, <1>2, <1>5, <1>6 DEF IInv, NewWorld

LEMMA MeetStep ==
  ASSUME IInv, Meet
  PROVE  IInv'
  <1>1. /\ Now({Unmet}) /\ UNCHANGED <<suite, envs, heap, frames, ret, search, status>>
        /\ suite \in DOMAIN Suites
    BY Running DEF Meet, IInv
  <1>. DEFINE n == Top.node
  <1>2. /\ Here = nodes[n] /\ nodes[n] \in NodeRec /\ FormFits(nodes, n) /\ ScopesFit(nodes, n)
        /\ nodes[n].form = Unmet /\ n \in 1..Len(nodes) /\ World(nodes, envs, heap)
        /\ FrameOK(nodes, envs, heap, Top) /\ nodes \in Seq(NodeRec)
    BY <1>1 DEF Now, IInv, World, NodesOK
  <1>3. Top.at = 0
    BY <1>2 DEF FrameOK, Stage, Unmet, Loops
  <1>4. PICK f \in FormsAt(n) : \E name \in NamesOf(f), arms \in Arms(f) :
               nodes' = Met(nodes, n, f, name, arms)
    <2>1. PICK f \in FormsAt(n) : \E name \in NamesOf(f), arms \in Arms(f) :
             nodes' = [nodes EXCEPT ![n].form = f, ![n].name = name,
                                    ![n].kids = [i \in DOMAIN arms |-> Len(nodes) + i]]
                        \o [i \in DOMAIN arms |->
                              Node(IF arms[i] = "block" THEN "block" ELSE Unmet, arms[i],
                                   Within(n, f))]
      BY DEF Meet
    <2>2. Within(n, f) = Inside(nodes, n, f)
      BY DEF Within, Inside
    <2>. QED
      BY <2>1, <2>2 DEF Met, Child, Children
  <1>5. PICK name \in NamesOf(f), arms \in Arms(f) : nodes' = Met(nodes, n, f, name, arms)
    BY <1>4
  <1>. DEFINE role == nodes[n].role
  <1>6. /\ f \in AllForms /\ name \in NodeNames
        /\ role \notin {"program", "block"}
        /\ role = "let"     => f = "let"
        /\ role = "array"   => f = "array"
        /\ role = "operand" => f \notin {"let", "return", "break", "continue"}
        /\ f \in {"ident", "let", "reassign", "reassign_index"} => name \in Names
        /\ f = "function" => name \in Names \cup {NULL}
    <2>. HIDE DEF n
    <2>. QED
      BY <1>1, <1>2, MetFits
  <1>7. arms \in Seq(ChildRoles)
    BY <1>6, ArmsKnown
  <1>. DEFINE ms == nodes'
              q == Children(nodes, n, f, arms)
  <1>8. /\ Extends(nodes, ms, n, q)
        /\ ms[n].form = f /\ ms[n].name = name
        /\ ms[n].kids = [i \in DOMAIN arms |-> Len(nodes) + i]
        /\ Len(q) = Len(arms)
        /\ \A i \in 1..Len(arms) : q[i].role = arms[i]
    <2>. HIDE DEF n
    <2>. QED
      BY <1>2, <1>5, <1>6, <1>7, MetExtends
  <1>. HIDE DEF q, ms
  <1>9. Grown(nodes, envs, heap, ms, envs, heap)
    BY <1>2, <1>8, ExtendsGrown
  <1>10. FormFits(ms, n)
    <2>1. ms[n].role = role
      BY <1>8 DEF Extends
    <2>2. f \notin {"program", "block"}
      BY <1>6 DEF AllForms
    <2>. HIDE DEF n, role
    <2>. QED
      BY <1>6, <1>8, <2>1, <2>2 DEF FormFits
  <1>11. KidsFit(ms, n)
    <2>1. /\ Len(nodes) \in Nat /\ Len(ms) = Len(nodes) + Len(arms) /\ Len(arms) \in Nat
          /\ DOMAIN arms = 1..Len(arms)
      BY <1>7, <1>8, LenProperties DEF Extends
    <2>2. \A i \in 1..Len(arms) :
            /\ ms[Len(nodes) + i].role = arms[i]
            /\ ms[Len(nodes) + i].within = Inside(ms, n, ms[n].form)
      <3>. HIDE DEF n
      <3>1. \A i \in 1..Len(q) : /\ ms[Len(nodes) + i] = q[i]
                                 /\ q[i].within = Inside(ms, n, ms[n].form)
        BY <1>8 DEF Extends
      <3>. QED
        BY <1>8, <3>1
    <2>3. DOMAIN ms[n].kids = 1..Len(arms)
      BY <1>8, <2>1
    <2>4. \A i \in 1..Len(arms) :
            /\ ms[n].kids[i] = Len(nodes) + i /\ ms[n].kids[i] \in 1..Len(ms)
      BY <1>8, <2>1
    <2>5. [i \in DOMAIN ms[n].kids |-> ms[ms[n].kids[i]].role] = arms
      <3>1. arms = [i \in 1..Len(arms) |-> arms[i]]
        BY <1>7, <2>1
      <3>2. [i \in 1..Len(arms) |-> ms[ms[n].kids[i]].role] = [i \in 1..Len(arms) |-> arms[i]]
        BY <2>2, <2>4
      <3>. QED
        BY <2>3, <3>1, <3>2
    <2>6. f \notin {"program", "block"}
      BY <1>6 DEF AllForms
    <2>7. [i \in DOMAIN ms[n].kids |-> ms[ms[n].kids[i]].role] \in Arms(ms[n].form)
      BY <1>8, <2>5
    <2>8. \A i \in DOMAIN ms[n].kids :
            ms[n].kids[i] \in 1..Len(ms) /\ ms[ms[n].kids[i]].within = Inside(ms, n, ms[n].form)
      BY <2>2, <2>3, <2>4
    <2>. HIDE DEF n
    <2>. QED
      BY <1>8, <2>6, <2>7, <2>8 DEF KidsFit
  <1>12. World(ms, envs, heap)
    BY <1>2, <1>6, <1>8, <1>10, <1>11, ExtendsOK
  <1>13. {Unmet} \cap {"reassign", "reassign_index"} = {}
    BY DEF Unmet
  <1>14. World(nodes', envs, heap) /\ Grown(nodes, envs, heap, nodes', envs, heap)
    BY <1>9, <1>12 DEF ms
  <1>. QED
    BY <1>1, <1>3, <1>13, <1>14, GrowsIn


IsPutNode(ms, ns, n, r) == ms = [ns EXCEPT ![n] = r]

(* A block ends, or gets a statement.                                      *)
Blocks(ns, ms, n, r, q, a) ==
  /\ IsPutNode(a, ns, n, r)
  /\ \/ q = <<>> /\ ms = a /\ r = [ns[n] EXCEPT !.open = FALSE]
     \/ /\ q = <<Node(Unmet, "statement", ns[n].within)>>
        /\ ms = Append(a, Node(Unmet, "statement", ns[n].within))
        /\ r = [ns[n] EXCEPT !.kids = Append(@, Len(ns) + 1)]

(* MeetStatement ends a block or gives it a child.                         *)
LEMMA StatementExtends ==
  ASSUME NEW ns \in Seq(NodeRec), NEW n \in 1..Len(ns), ns[n].form \in {"program", "block"},
         NEW r, NEW q, NEW a, NEW ms, Blocks(ns, ms, n, r, q, a)
  PROVE  /\ Extends(ns, ms, n, q) /\ ms[n].form = ns[n].form
         /\ \/ ms[n].kids = ns[n].kids
            \/ /\ ms[n].kids = Append(ns[n].kids, Len(ns) + 1)
               /\ Len(ms) = Len(ns) + 1 /\ ms[Len(ns) + 1].role = "statement"
               /\ ms[Len(ns) + 1].within = ns[n].within
  <1>. DEFINE c == Node(Unmet, "statement", ns[n].within)
  <1>1. Len(ns) \in Nat /\ n \in Nat /\ ns[n] \in NodeRec /\ ns[n].kids \in Seq(Nat)
        /\ ns[n].within \in Seq(Nat) /\ Len(ns[n].kids) \in Nat /\ DOMAIN ns = 1..Len(ns)
    <2>1. ns[n] \in NodeRec
      BY ElementOfSeq
    <2>. QED
      BY <2>1, LenProperties DEF NodeRec
  <1>2. /\ r \in NodeRec /\ r.form = ns[n].form /\ r.role = ns[n].role
        /\ r.within = ns[n].within /\ r.name = ns[n].name
        /\ r.kids = ns[n].kids \/ (r.kids = Append(ns[n].kids, Len(ns) + 1) /\ ms = Append(a, c))
        /\ Len(ns[n].kids) <= Len(r.kids)
    <2>1. CASE q = <<>> /\ ms = a /\ r = [ns[n] EXCEPT !.open = FALSE]
      <3>1. r \in NodeRec /\ r.form = ns[n].form /\ r.role = ns[n].role
            /\ r.within = ns[n].within /\ r.name = ns[n].name /\ r.kids = ns[n].kids
        BY <1>1, <2>1 DEF NodeRec
      <3>. QED
        BY <1>1, <3>1
    <2>2. CASE /\ ms = Append(a, c)
               /\ r = [ns[n] EXCEPT !.kids = Append(@, Len(ns) + 1)]
      <3>. DEFINE kids == Append(ns[n].kids, Len(ns) + 1)
      <3>1. kids \in Seq(Nat) /\ Len(kids) = Len(ns[n].kids) + 1
        BY <1>1
      <3>2. r = [ns[n] EXCEPT !.kids = kids]
        BY <2>2
      <3>. HIDE DEF kids
      <3>3. r \in NodeRec /\ r.form = ns[n].form /\ r.role = ns[n].role
            /\ r.within = ns[n].within /\ r.name = ns[n].name /\ r.kids = kids
        BY <1>1, <3>1, <3>2 DEF NodeRec
      <3>4. Len(ns[n].kids) <= Len(r.kids)
        BY <1>1, <3>1, <3>3
      <3>. QED
        BY <2>2, <3>3, <3>4 DEF kids
    <2>. QED
      BY <2>1, <2>2 DEF Blocks
  <1>3. /\ a \in Seq(NodeRec) /\ Len(a) = Len(ns) /\ a[n] = r
        /\ \A i \in 1..Len(ns) : i # n => a[i] = ns[i]
    BY <1>1, <1>2, ExceptSeq DEF IsPutNode, Blocks
  <1>4. /\ c \in NodeRec /\ c.kids = <<>> /\ c.role = "statement" /\ c.form = Unmet
        /\ c.within = ns[n].within /\ "statement" \in ChildRoles
    <2>1. /\ Unmet \in Forms /\ "statement" \in Roles /\ NULL \in NodeNames
          /\ <<>> \in Seq(Nat) /\ "statement" \in ChildRoles
      BY DEF Forms, Roles, NodeNames, ChildRoles
    <2>. QED
      BY <1>1, <2>1 DEF Node, NodeRec
  <1>5. r.form \notin Scopes /\ Inside(ns, n, r.form) = ns[n].within
    BY <1>2 DEF Inside, Scopes, Loops
  <1>. HIDE DEF c
  <1>6. CASE q = <<>> /\ ms = a /\ r = [ns[n] EXCEPT !.open = FALSE]
    <2>1. Len(q) = 0 /\ r.kids = ns[n].kids
      <3>1. r.kids = ns[n].kids
        BY <1>1, <1>6 DEF NodeRec
      <3>. QED
        BY <1>6, <3>1
    <2>. HIDE <1>6
    <2>2. ms = a
      BY <1>6
    <2>3. Extends(ns, a, n, q)
      BY <1>1, <1>2, <1>3, <2>1 DEF Extends
    <2>. QED
      BY <1>2, <1>3, <2>1, <2>2, <2>3
  <1>7. CASE q = <<c>> /\ ms = Append(a, c) /\ r.kids = Append(ns[n].kids, Len(ns) + 1)
    <2>. DEFINE g == Append(a, c)
    <2>1. /\ g \in Seq(NodeRec) /\ Len(g) = Len(ns) + 1
          /\ \A i \in 1..Len(ns) : g[i] = a[i]
          /\ g[Len(ns) + 1] = c
      <3>1. /\ g \in Seq(NodeRec) /\ Len(g) = Len(a) + 1
            /\ \A i \in 1..Len(a) : g[i] = a[i]
            /\ g[Len(a) + 1] = c
        <4>1. a \in Seq(NodeRec) /\ c \in NodeRec
          BY <1>3, <1>4
        <4>. HIDE DEF NodeRec
        <4>. QED
          BY ONLY <4>1, AppendProperties
      <3>. HIDE DEF g
      <3>. QED
        BY <1>3, <3>1
    <2>2. Len(q) = 1 /\ q[1] = c /\ ms = g
      BY <1>7
    <2>. HIDE DEF g
    <2>3. g[n] = r /\ Inside(g, n, g[n].form) = ns[n].within
      <3>1. g[n] = r
        BY <1>3, <2>1
      <3>. QED
        BY <1>2, <1>5, <3>1 DEF Inside
    <2>4. Extends(ns, g, n, q)
      <3>1. \A i \in 1..Len(q) : q[i] = c /\ g[Len(ns) + i] = c
        BY <2>1, <2>2
      <3>2. \A i \in 1..Len(ns) : i # n => g[i] = ns[i]
        BY <1>3, <2>1
      <3>3. \A i \in 1..Len(q) :
              /\ g[Len(ns) + i] = q[i] /\ q[i].kids = <<>>
              /\ q[i].role \in ChildRoles
              /\ q[i].form = IF q[i].role = "block" THEN "block" ELSE Unmet
              /\ q[i].within = Inside(g, n, g[n].form)
        BY <1>4, <2>3, <3>1
      <3>. QED
        BY <1>1, <1>2, <2>1, <2>2, <2>3, <3>2, <3>3 DEF Extends
    <2>. QED
      BY <1>2, <1>4, <1>7, <2>1, <2>2, <2>3, <2>4
  <1>8. \/ q = <<>> /\ ms = a /\ r = [ns[n] EXCEPT !.open = FALSE]
        \/ q = <<c>> /\ ms = Append(a, c) /\ r.kids = Append(ns[n].kids, Len(ns) + 1)
    <2>1. r = [ns[n] EXCEPT !.kids = Append(@, Len(ns) + 1)]
            => r.kids = Append(ns[n].kids, Len(ns) + 1)
      BY <1>1 DEF NodeRec
    <2>. QED
      BY <2>1 DEF c, Blocks
  <1>. QED
    BY <1>6, <1>7, <1>8

LEMMA StatementStep ==
  ASSUME IInv, MeetStatement
  PROVE  IInv'
  <1>. DEFINE forms == {"program", "block"}
              n == Top.node
  <1>1. Now(forms) /\ UNCHANGED <<suite, envs, heap, frames, ret, search, status>>
    BY Running DEF MeetStatement
  <1>2. /\ Here = nodes[n] /\ nodes[n] \in NodeRec /\ FormFits(nodes, n) /\ KidsFit(nodes, n)
        /\ ScopesFit(nodes, n)
        /\ nodes[n].form \in forms /\ n \in 1..Len(nodes) /\ World(nodes, envs, heap)
        /\ nodes \in Seq(NodeRec) /\ nodes[n].kids \in Seq(Nat) /\ Len(nodes) \in Nat
    BY <1>1, LenProperties DEF Now, IInv, World, NodesOK, NodeRec
  <1>. DEFINE c == Node(Unmet, "statement", nodes[n].within)
  <1>3. PICK r, q, a : Blocks(nodes, nodes', n, r, q, a)
    <2>1. CASE nodes' = [nodes EXCEPT ![n].open = FALSE]
      <3>. DEFINE r == [nodes[n] EXCEPT !.open = FALSE]
      <3>1. nodes' = [nodes EXCEPT ![n] = r]
        BY <2>1
      <3>2. IsPutNode(nodes', nodes, n, r)
        BY <3>1 DEF IsPutNode
      <3>. HIDE DEF n
      <3>3. Blocks(nodes, nodes', n, r, <<>>, nodes')
        BY <3>2 DEF Blocks
      <3>. QED
        BY <3>3
    <2>2. CASE nodes' = Append([nodes EXCEPT ![n].kids = Append(@, Len(nodes) + 1)], c)
      <3>. DEFINE r == [nodes[n] EXCEPT !.kids = Append(@, Len(nodes) + 1)]
                  a == [nodes EXCEPT ![n] = r]
      <3>1. nodes' = Append(a, c)
        BY <2>2
      <3>2. IsPutNode(a, nodes, n, r)
        BY DEF IsPutNode
      <3>. HIDE DEF n, a
      <3>3. Blocks(nodes, nodes', n, r, <<c>>, a)
        BY <3>1, <3>2 DEF Blocks
      <3>. QED
        BY <3>3
    <2>. QED
      BY <1>2, <2>1, <2>2 DEF MeetStatement
  <1>. DEFINE ms == nodes'
  <1>4. /\ Extends(nodes, ms, n, q) /\ ms[n].form = nodes[n].form
        /\ \/ ms[n].kids = nodes[n].kids
           \/ /\ ms[n].kids = Append(nodes[n].kids, Len(nodes) + 1)
              /\ Len(ms) = Len(nodes) + 1 /\ ms[Len(nodes) + 1].role = "statement"
              /\ ms[Len(nodes) + 1].within = nodes[n].within
    <2>. HIDE DEF n
    <2>. QED
      BY <1>2, <1>3, StatementExtends
  <1>. HIDE DEF ms
  <1>5. Grown(nodes, envs, heap, ms, envs, heap)
    BY <1>2, <1>4, ExtendsGrown
  <1>6. ms[n].role = nodes[n].role /\ ms[n].within = nodes[n].within
    BY <1>4 DEF Extends
  <1>7. FormFits(ms, n)
    <2>1. ms[n].form \notin AllForms
          /\ ms[n].form \notin {"ident", "let", "reassign", "reassign_index", "function"}
      BY <1>2, <1>4 DEF AllForms
    <2>2. ms[n].form = ms[n].role
      BY <1>2, <1>4, <1>6 DEF FormFits
    <2>. HIDE DEF n
    <2>. QED
      BY <2>1, <2>2 DEF FormFits
  <1>8. KidsFit(ms, n)
    <2>1. ms[n].form \notin AllForms /\ Inside(ms, n, ms[n].form) = nodes[n].within
      BY <1>2, <1>4, <1>6 DEF AllForms, Inside, Scopes, Loops
    <2>2. ASSUME NEW k \in 1..Len(nodes), nodes[k].within = nodes[n].within,
                 nodes[k].role = "statement"
          PROVE  k \in 1..Len(ms) /\ ms[k].within = nodes[n].within /\ ms[k].role = "statement"
      BY <1>2, <1>5, <2>2 DEF Grown
    <2>3. \A i \in DOMAIN nodes[n].kids :
            /\ nodes[n].kids[i] \in 1..Len(nodes)
            /\ nodes[nodes[n].kids[i]].within = nodes[n].within
            /\ nodes[nodes[n].kids[i]].role = "statement"
      BY <1>2 DEF KidsFit, Inside, Scopes, Loops
    <2>4. \A i \in DOMAIN ms[n].kids :
            /\ ms[n].kids[i] \in 1..Len(ms)
            /\ ms[ms[n].kids[i]].within = nodes[n].within
            /\ ms[ms[n].kids[i]].role = "statement"
      <3>1. CASE ms[n].kids = nodes[n].kids
        BY <2>2, <2>3, <3>1
      <3>2. CASE /\ ms[n].kids = Append(nodes[n].kids, Len(nodes) + 1)
                 /\ Len(ms) = Len(nodes) + 1 /\ ms[Len(nodes) + 1].role = "statement"
                 /\ ms[Len(nodes) + 1].within = nodes[n].within
        <4>1. ASSUME NEW i \in DOMAIN ms[n].kids
              PROVE  \/ ms[n].kids[i] = Len(nodes) + 1
                     \/ i \in DOMAIN nodes[n].kids /\ ms[n].kids[i] = nodes[n].kids[i]
          BY <1>2, <3>2, AppendProperties
        <4>2. Len(nodes) + 1 \in 1..Len(ms)
          BY <1>2, <3>2
        <4>. QED
          BY <2>2, <2>3, <3>2, <4>1, <4>2
      <3>. QED
        BY <1>4, <3>1, <3>2
    <2>. HIDE DEF n
    <2>. QED
      BY <2>1, <2>4 DEF KidsFit
  <1>9. World(ms, envs, heap)
    BY <1>2, <1>4, <1>5, <1>7, <1>8, ExtendsOK
  <1>10. World(nodes', envs, heap) /\ Grown(nodes, envs, heap, nodes', envs, heap)
         /\ nodes'[Top.node].form \notin {"reassign", "reassign_index"}
         /\ forms \cap {"reassign", "reassign_index"} = {}
    BY <1>2, <1>4, <1>5, <1>9 DEF ms
  <1>. HIDE DEF forms
  <1>. QED
    BY <1>1, <1>10, GrowsIn


----------------------------------------------------------------------------
(* The invariant holds *)

(* A run starts within the invariant.                                      *)
LEMMA InitIInv ==
  ASSUME Init
  PROVE  IInv
  <1>. DEFINE first == Node("program", "program", <<>>)
              ns == <<first>>
              env == [store |-> NoNames, outer |-> 0, of |-> 0]
              es == <<env>>
              f == Frame(1, 1)
  <1>1. /\ first.form = "program" /\ first.role = "program" /\ first.kids = <<>>
        /\ first.within = <<>> /\ first \in NodeRec
    <2>1. "program" \in Forms /\ "program" \in Roles /\ NULL \in NodeNames /\ <<>> \in Seq(Nat)
      BY DEF Forms, Roles, NodeNames
    <2>. QED
      BY <2>1 DEF Node, NodeRec
  <1>. HIDE DEF first
  <1>2. Len(ns) = 1 /\ ns[1] = first /\ ns \in Seq(NodeRec)
    BY <1>1
  <1>. HIDE DEF ns
  <1>3. NodesOK(ns)
    <2>1. /\ ns[1].form = "program" /\ ns[1].role = "program" /\ ns[1].kids = <<>>
          /\ ns[1].within = <<>>
      BY <1>1, <1>2
    <2>2. FormFits(ns, 1)
      BY <2>1 DEF FormFits, AllForms
    <2>3. KidsFit(ns, 1)
      <3>1. "program" \notin AllForms /\ DOMAIN ns[1].kids = {}
        BY <2>1 DEF AllForms
      <3>. QED
        BY <2>1, <3>1 DEF KidsFit
    <2>4. ScopesFit(ns, 1)
      BY <2>1 DEF ScopesFit
    <2>. QED
      BY <1>2, <2>2, <2>3, <2>4 DEF NodesOK
  <1>4. EnvsOK(ns, es, <<>>)
    <2>1. NoNames \in [Names -> Cells(ns, es, <<>>)]
      <3>. HIDE DEF es
      <3>. QED
        BY Members DEF NoNames, Cells
    <2>. DEFINE Rec == EnvRec(ns, es, <<>>)
    <2>2. env \in Rec
      <3>. HIDE DEF es
      <3>. QED
        BY <2>1 DEF EnvRec
    <2>. HIDE DEF Rec
    <2>3. es \in Seq(Rec) /\ Len(es) = 1 /\ es[1].outer = 0 /\ es[1].of = 0
      <3>1. env.outer = 0 /\ env.of = 0
        OBVIOUS
      <3>. HIDE DEF env
      <3>. QED
        BY <2>2, <3>1
    <2>. HIDE DEF es
    <2>4. \A e \in 1..Len(es) : es[e].outer \in 0..(e - 1) /\ es[e].of \in 0..Len(ns)
      BY <1>2, <2>3
    <2>. QED
      BY <2>3, <2>4 DEF EnvsOK, Rec
  <1>5. Len(es) = 1 /\ es[1].store = NoNames
    OBVIOUS
  <1>. HIDE DEF es
  <1>6. World(ns, es, <<>>)
    <2>1. Missing # Error
      BY Types
    <2>2. StoresOK(ns, es)
      BY <1>5, <2>1 DEF StoresOK, NoNames
    <2>. QED
      BY <1>3, <1>4, <2>2, EmptySeq DEF World
  <1>7. Calls(ns, es, <<>>, <<f>>)
    <2>1. f.node = 1 /\ f.env = 1 /\ f.inner = 0 /\ f.at = 0 /\ f.vals = <<>>
      BY DEF Frame
    <2>2. f \in FrameRec(ns, es, <<>>)
      <3>1. <<>> \in Seq(Values(ns, es, <<>>) \cup {Error, Continue})
        BY EmptySeq
      <3>. QED
        BY <1>2, <1>5, <3>1 DEF Frame, FrameRec
    <2>3. MadeBy(es, 1) = <<>>
      <3>1. Ordered(es)
        BY <1>4, OrderedEnvs
      <3>. QED
        BY <1>5, <3>1, MadeByUnfolds
    <2>4. FrameOK(ns, es, <<>>, f)
      BY <1>1, <1>2, <2>1, <2>3 DEF FrameOK
    <2>. HIDE DEF f
    <2>5. <<f>> \in Seq(FrameRec(ns, es, <<>>)) /\ Len(<<f>>) = 1 /\ <<f>>[1] = f
      BY <2>2
    <2>. QED
      BY <2>4, <2>5 DEF Calls
  <1>8. Returned(ns, es, <<>>, <<f>>, Nothing) /\ ~Searching(ns, <<f>>)
    <2>1. f.at = 0
      BY DEF Frame
    <2>. HIDE DEF f
    <2>2. Len(<<f>>) = 1 /\ <<f>>[1] = f
      OBVIOUS
    <2>3. Asked(ns, f) = "none"
      BY <2>1 DEF Asked
    <2>. QED
      BY <2>1, <2>2, <2>3 DEF Returned, AnyResult, Searching
  <1>9. /\ nodes = ns /\ envs = es /\ heap = <<>> /\ frames = <<f>> /\ ret = Nothing
        /\ suite \in DOMAIN Suites /\ status = "running"
    BY DEF Init, ns, es, first
  <1>. HIDE DEF f
  <1>. QED
    BY <1>6, <1>7, <1>8, <1>9 DEF IInv, Searches

LEMMA StutterStep ==
  ASSUME IInv, UNCHANGED vars
  PROVE  IInv'
  BY DEF IInv, vars, World, Calls, Returned, Searches, NodesOK, EnvsOK, StoresOK

(* No step leads out of the invariant.                                     *)
LEMMA Inductive ==
  ASSUME IInv, [Next]_vars
  PROVE  IInv'
  <1>1. CASE Meet
    BY <1>1, MeetStep
  <1>2. CASE MeetStatement
    BY <1>2, StatementStep
  <1>3. CASE eval_program
    BY <1>3, ProgramStep
  <1>4. CASE eval_block_statement
    BY <1>4, BlockStep
  <1>5. CASE eval_let_statement
    BY <1>5, LetStep
  <1>6. CASE eval_return_statement
    BY <1>6, ReturnStep
  <1>7. CASE eval_break_statement \/ eval_continue_statement
    BY <1>7, BreakStep
  <1>8. CASE eval_literal
    BY <1>8, LiteralStep
  <1>9. CASE eval_identifier
    BY <1>9, IdentifierStep
  <1>10. CASE eval_prefix_expression
    BY <1>10, PrefixStep
  <1>11. CASE eval_infix_expression
    BY <1>11, InfixStep
  <1>12. CASE eval_if_expression
    BY <1>12, IfStep
  <1>13. CASE eval_function_literal
    BY <1>13, FunctionStep
  <1>14. CASE eval_function_call
    BY <1>14, CallStep
  <1>15. CASE eval_array_literal
    BY <1>15, ArrayStep
  <1>16. CASE eval_hash_literal
    BY <1>16, HashStep
  <1>17. CASE eval_index_expression
    BY <1>17, IndexStep
  <1>18. CASE StartLoop
    BY <1>18, LoopStep
  <1>19. CASE CheckCondition
    BY <1>19, CheckStep
  <1>20. CASE TestCondition
    BY <1>20, TestStep
  <1>21. CASE EndIteration
    BY <1>21, EndStep
  <1>22. CASE StartReassignment
    BY <1>22, StartStep
  <1>23. CASE resolve_ident
    BY <1>23, ResolveStep
  <1>24. CASE ReassignElement
    BY <1>24, ElementStep
  <1>25. CASE UNCHANGED vars
    BY <1>25, StutterStep
  <1>. QED
    BY <1>1, <1>2, <1>3, <1>4, <1>5, <1>6, <1>7, <1>8, <1>9, <1>10, <1>11, <1>12,
       <1>13, <1>14, <1>15, <1>16, <1>17, <1>18, <1>19, <1>20, <1>21, <1>22, <1>23,
       <1>24, <1>25 DEF Next


----------------------------------------------------------------------------
(* The theorems *)

(* Every run stays within it.                                              *)
LEMMA Invariant ==
  Spec => []IInv
  <1>1. Init => IInv
    BY InitIInv
  <1>2. IInv /\ [Next]_vars => IInv'
    BY Inductive
  <1>. QED
    BY <1>1, <1>2, PTL DEF Spec

(* Whatever the program, the state stays well-formed: every node,          *)
(* environment, array and hash that is referred to exists (evaluator.c has *)
(* no other memory), and environments are made inside older ones.          *)
THEOREM StateWellFormed ==
  Spec => []TypeOK
  <1>1. ASSUME IInv
        PROVE  TypeOK
    <2>. DEFINE known == Objects(Len(nodes), Len(envs))
                returned == known \cup {Wrapped(v, l) : v \in known \ {Error}, l \in 1..MaxLayers}
                plains == Plains(nodes, envs, heap)
                values == Values(nodes, envs, heap)
    <2>1. /\ World(nodes, envs, heap) /\ Calls(nodes, envs, heap, frames)
          /\ Returned(nodes, envs, heap, frames, ret)
      BY <1>1 DEF IInv
    <2>2. /\ Len(nodes) \in Nat /\ Len(envs) \in Nat /\ Len(heap) \in Nat
          /\ DOMAIN nodes = 1..Len(nodes) /\ DOMAIN envs = 1..Len(envs)
          /\ DOMAIN heap = 1..Len(heap) /\ DOMAIN frames = 1..Len(frames)
          /\ EnvsOK(nodes, envs, heap) /\ envs \in Seq(EnvRec(nodes, envs, heap))
      BY <2>1, LenProperties DEF World, EnvsOK, NodesOK, Calls
    <2>3. plains \subseteq known
      <3>1. \A c \in Closures(nodes, envs) : Function(c[1], c[2]) \in known
        <4>1. \A m \in 1..Len(nodes), d \in 1..Len(envs) : Function(m, d) \in known
          BY DEF Objects
        <4>. HIDE DEF known
        <4>. QED
          BY <4>1 DEF Closures
      <3>2. Containers(heap) \subseteq known
        BY <2>2 DEF Containers, Objects
      <3>3. Scalars \subseteq known
        BY DEF Scalars, Objects
      <3>. HIDE DEF known
      <3>. QED
        BY <3>1, <3>2, <3>3 DEF Plains
    <2>4. {Error, Break, Continue} \subseteq known
      BY DEF Objects
    <2>. HIDE DEF known
    <2>10. Held(nodes, envs, heap) \subseteq known \ {Error}
      BY <2>3, <2>4, HeldPlain DEF Held
    <2>11. Wrappers(nodes, envs, heap) \subseteq returned
      <3>1. Layers(nodes) \subseteq 1..MaxLayers
        BY BoundsNatural DEF Layers
      <3>. QED
        BY <2>10, <3>1 DEF Wrappers
    <2>12. values \cup {Error} \subseteq returned
      BY <2>4, <2>10, <2>11 DEF Values
    <2>. HIDE DEF values, returned
    <2>5. ASSUME NEW e \in DOMAIN envs
          PROVE  /\ envs[e].outer \in 0..(e - 1) /\ envs[e].of \in 0..Len(nodes)
                 /\ \A n \in Names : envs[e].store[n] \in returned
      <3>1. \A n \in Names : envs[e].store[n] \in values \cup {Error}
        BY <2>2, Stored DEF values, Cells
      <3>. QED
        BY <2>2, <2>12, <3>1 DEF EnvsOK
    <2>6. ASSUME NEW r \in DOMAIN heap, NEW i \in DOMAIN heap[r]
          PROVE  heap[r][i] \in returned
      <3>1. heap[r][i] \in values \cup {Error}
        BY <2>1, <2>2, Element DEF values
      <3>. QED
        BY <2>12, <3>1
    <2>7. ASSUME NEW i \in DOMAIN frames
          PROVE  /\ frames[i].node \in DOMAIN nodes /\ frames[i].env \in DOMAIN envs
                 /\ frames[i].inner \in 0..Len(envs)
                 /\ \A j \in DOMAIN frames[i].vals : frames[i].vals[j] \in returned
      <3>1. frames[i] \in FrameRec(nodes, envs, heap)
        BY <2>1, <2>2, ElementOfSeq DEF Calls
      <3>2. frames[i].vals \in Seq(values \cup {Error, Continue})
        BY <3>1 DEF FrameRec, values
      <3>3. \A j \in DOMAIN frames[i].vals : frames[i].vals[j] \in values \cup {Error, Continue}
        BY <3>2, ElementOfSeq, LenProperties
      <3>4. Continue \in returned
        BY <2>4 DEF returned
      <3>. QED
        BY <2>2, <2>12, <3>1, <3>3, <3>4 DEF FrameRec
    <2>8. ret \in returned \cup {Nothing}
      <3>1. ret \in values \cup {Error, Break, Continue, Nothing} \cup Wrappers(nodes, envs, heap)
        BY <2>1 DEF Returned, AnyResult, values
      <3>2. {Break, Continue} \subseteq returned
        BY <2>4 DEF returned
      <3>. QED
        BY <2>11, <2>12, <3>1, <3>2
    <2>9. status \in {"running", "done", "dead"}
      BY <1>1 DEF IInv
    <2>. QED
      BY <2>5, <2>6, <2>7, <2>8, <2>9 DEF TypeOK, known, returned
  <1>. QED
    BY <1>1, Invariant, PTL

(* Scoping is lexical: however a call of eval came about, it works in a    *)
(* chain of environments made by just the loops and functions around the   *)
(* code in the text, and a function value holds the chain of the place     *)
(* where it is written (eval_function_literal, extend_function_env).       *)
THEOREM ScopingIsLexical ==
  Spec => []LexicalEnvironments
  <1>1. ASSUME IInv
        PROVE  LexicalEnvironments
    <2>1. /\ World(nodes, envs, heap) /\ Calls(nodes, envs, heap, frames)
          /\ EnvsOK(nodes, envs, heap)
      BY <1>1 DEF IInv, World
    <2>2. DOMAIN envs = 1..Len(envs) /\ DOMAIN frames = 1..Len(frames)
      BY <2>1, LenProperties DEF EnvsOK, Calls
    <2>3. \A i \in DOMAIN frames : FrameOK(nodes, envs, heap, frames[i])
      BY <2>1, <2>2 DEF Calls
    <2>4. ASSUME NEW e \in DOMAIN envs, NEW name \in Names,
                 envs[e].store[name].type = "function"
          PROVE  MadeBy(envs, envs[e].store[name].env)
                   = nodes[envs[e].store[name].node].within
      <3>. DEFINE v == envs[e].store[name]
      <3>1. v \in Values(nodes, envs, heap) \cup {Error}
        BY <2>1, <2>2, Stored DEF Cells
      <3>2. v.type = "function"
        BY <2>4
      <3>. HIDE DEF v
      <3>3. <<v.node, v.env>> \in Closures(nodes, envs)
        <4>1. Kind(nodes, envs, heap, v)
          BY <3>1, <3>2, Kinds, Types
        <4>. QED
          BY <3>2, <4>1 DEF Kind
      <3>4. MadeBy(envs, v.env) = nodes[v.node].within
        BY <3>3 DEF Closures
      <3>. QED
        BY <3>4 DEF v
    <2>. QED
      BY <2>3, <2>4 DEF LexicalEnvironments, FrameOK
  <1>. QED
    BY <1>1, Invariant, PTL

(* What eval returns to tell how a statement ended becomes the value of a  *)
(* variable, an array or a hash in these ways only, whatever the program:  *)
(* an error by an assignment to this name or to an element, a break, a     *)
(* continue or a return object by an if or a loop in the place of a value, *)
(* a break or a continue by a function that has one in a loop of its own.  *)
THEOREM KeptJumpsAreExcused ==
  Spec => []JumpsAreExcused
  <1>1. ASSUME IInv
        PROVE  JumpsAreExcused
    <2>. DEFINE stored == Values(nodes, envs, heap) \cup {Error}
    <2>1. World(nodes, envs, heap) /\ EnvsOK(nodes, envs, heap) /\ StoresOK(nodes, envs)
      BY <1>1 DEF IInv, World
    <2>2. /\ DOMAIN envs = 1..Len(envs) /\ DOMAIN heap = 1..Len(heap)
          /\ DOMAIN nodes = 1..Len(nodes)
      BY <2>1, LenProperties DEF EnvsOK, World, NodesOK
    <2>3. Blocky(nodes) => BlockAsOperand
      BY <2>2 DEF Blocky, BlockAsOperand
    <2>4. Jumpy(nodes) => JumpInFunction
      BY <2>2 DEF Jumpy, JumpInFunction, InFunction
    <2>5. \A name : Named(nodes, name) => Assigned(name)
      BY <2>2 DEF Named, Assigned
    <2>6. Indexed(nodes) => ElementAssigned
      BY <2>2 DEF Indexed, ElementAssigned
    <2>7. ASSUME NEW v \in stored
          PROVE  Excused(v) /\ (is_error(v) => v = Error)
      <3>1. CASE v = Error
        BY <3>1, Types DEF Excused
      <3>2. CASE v \in Values(nodes, envs, heap)
        <4>1. Kind(nodes, envs, heap, v) /\ v.type # "error"
          BY <3>2, Kinds, NoError
        <4>2. v.type = "return" => BlockAsOperand
          BY <2>3, <4>1 DEF Kind
        <4>3. v.type \in {"break", "continue"} => BlockAsOperand \/ JumpInFunction
          BY <2>3, <2>4, <4>1 DEF Kind
        <4>. QED
          BY <4>1, <4>2, <4>3 DEF Excused, is_error
      <3>. QED
        BY <3>1, <3>2
    <2>8. ASSUME NEW e \in DOMAIN envs, NEW n \in Names
          PROVE  /\ is_error(envs[e].store[n]) => Assigned(n)
                 /\ Excused(envs[e].store[n])
      <3>1. envs[e].store[n] \in stored
        BY <2>1, <2>2, Stored DEF Cells
      <3>2. envs[e].store[n] = Error => Named(nodes, n)
        BY <2>1, <2>2 DEF StoresOK
      <3>. HIDE DEF stored
      <3>. QED
        BY <2>5, <2>7, <3>1, <3>2
    <2>9. ASSUME NEW r \in DOMAIN heap, NEW i \in DOMAIN heap[r]
          PROVE  /\ is_error(heap[r][i]) => ElementAssigned
                 /\ Excused(heap[r][i])
      <3>1. heap[r][i] \in Elements(nodes, envs, heap) /\ heap[r][i] \in stored
        BY <2>1, <2>2, Element
      <3>2. heap[r][i] = Error => Indexed(nodes)
        BY <3>1, NoError DEF Elements
      <3>. HIDE DEF stored
      <3>. QED
        BY <2>6, <2>7, <3>1, <3>2
    <2>. QED
      BY <2>8, <2>9 DEF JumpsAreExcused
  <1>. QED
    BY <1>1, Invariant, PTL


(* A name is found no further in than the search for it starts.            *)
LEMMA HolderBelow ==
  ASSUME NEW es, Ordered(es), NEW name, NEW e \in 0..Len(es)
  PROVE  HolderIn(es, e, name) \in 0..e
  <1>. DEFINE Bad == {d \in 0..Len(es) : HolderIn(es, d, name) \notin 0..d}
  <1>1. ASSUME Bad # {}
        PROVE  FALSE
    <2>1. Bad \in SUBSET Nat
      BY DEF Ordered
    <2>2. PICK d \in Bad : \A k \in Bad : d <= k
      <3>. HIDE DEF Bad
      <3>. QED
        BY <1>1, <2>1, Least
    <2>3. d # 0
      BY HolderUnfolds DEF Ordered
    <2>4. /\ d \in 1..Len(es) /\ es[d].outer \in 0..Len(es) /\ es[d].outer < d
          /\ Len(es) \in Nat
      BY <2>3 DEF Ordered
    <2>5. es[d].outer \notin Bad
      BY <2>2, <2>4
    <2>6. HolderIn(es, es[d].outer, name) \in 0..es[d].outer
      BY <2>4, <2>5
    <2>7. HolderIn(es, d, name) = IF es[d].store[name] # Missing THEN d
                                  ELSE HolderIn(es, es[d].outer, name)
      BY <2>3, <2>4, HolderUnfolds
    <2>. QED
      BY <2>4, <2>6, <2>7
  <1>. QED
    BY <1>1

(* A variable that loses its value is passed over.                         *)
LEMMA HolderWithout ==
  ASSUME NEW es, NEW us, SameChain(es, us), NEW name, NEW e \in 1..Len(es),
         es[e].store[name] # Missing, us[e].store[name] = Missing,
         \A d \in 1..Len(es) : d # e => (es[d].store[name] # Missing
                                           <=> us[d].store[name] # Missing),
         NEW d \in 0..Len(es)
  PROVE  HolderIn(us, d, name) = IF HolderIn(es, d, name) = e
                                 THEN HolderIn(es, es[e].outer, name)
                                 ELSE HolderIn(es, d, name)
  <1>. DEFINE Found(c) == IF HolderIn(es, c, name) = e THEN HolderIn(es, es[e].outer, name)
                        ELSE HolderIn(es, c, name)
              Bad == {c \in 0..Len(es) : HolderIn(us, c, name) # Found(c)}
  <1>1. ASSUME Bad # {}
        PROVE  FALSE
    <2>1. Bad \in SUBSET Nat
      BY DEF SameChain, Ordered
    <2>2. PICK c \in Bad : \A k \in Bad : c <= k
      <3>. HIDE DEF Bad
      <3>. QED
        BY <1>1, <2>1, Least
    <2>3. c \in 0..Len(es) /\ c \in 0..Len(us) /\ Ordered(es) /\ Ordered(us) /\ Len(es) \in Nat
      BY DEF SameChain, Ordered
    <2>4. /\ HolderIn(es, c, name) = IF c = 0 THEN 0
                                     ELSE IF es[c].store[name] # Missing THEN c
                                     ELSE HolderIn(es, es[c].outer, name)
          /\ HolderIn(us, c, name) = IF c = 0 THEN 0
                                     ELSE IF us[c].store[name] # Missing THEN c
                                     ELSE HolderIn(us, us[c].outer, name)
      BY <2>3, HolderUnfolds
    <2>5. c \in 1..Len(es) /\ us[c].outer = es[c].outer
      BY <2>3, <2>4 DEF SameChain, Ordered
    <2>6. es[c].outer \in 0..Len(es) /\ ~(c <= es[c].outer)
      BY <2>3, <2>5 DEF Ordered
    <2>7. HolderIn(us, es[c].outer, name) = Found(es[c].outer)
      BY <2>2, <2>6
    <2>. HIDE DEF Bad
    <2>8. HolderIn(us, c, name) # Found(c)
      BY DEF Bad
    <2>9. CASE c = e
      <3>1. HolderIn(es, es[e].outer, name) # e
        <4>1. HolderIn(es, es[e].outer, name) \in 0..es[e].outer
          BY <2>3, <2>6, <2>9, HolderBelow
        <4>. QED
          BY <2>3, <2>6, <2>9, <4>1
      <3>. QED
        BY <2>4, <2>5, <2>7, <2>8, <2>9, <3>1
    <2>10. CASE c # e
      BY <2>4, <2>5, <2>7, <2>8, <2>10
    <2>. QED
      BY <2>9, <2>10
  <1>. QED
    BY <1>1

(* What reads find after an assignment to a variable that has a value.     *)
LEMMA ReadsAfter ==
  ASSUME NEW ns, NEW es, NEW h, World(ns, es, h), NEW e \in 1..Len(es), NEW name \in Names,
         NEW v \in Cells(ns, es, h), Named(ns, name), es[e].store[name] # Missing,
         NEW us, IsStored(us, es, e, name, v)
  PROVE  \A d \in 1..Len(es), n \in Names :
           env_get(us, d, n) = IF n = name /\ HolderIn(es, d, n) = e
                               THEN IF v # Missing THEN v
                                    ELSE env_get(es, es[e].outer, n)
                               ELSE env_get(es, d, n)
  <1>1. /\ Grown(ns, es, h, ns, us, h)
        /\ \A d \in 1..Len(es) : \A n \in Names :
             us[d].store[n] = IF d = e /\ n = name THEN v ELSE es[d].store[n]
    BY StoreOK
  <1>2. SameChain(es, us) /\ Ordered(es) /\ Len(es) \in Nat
    BY <1>1, WorldLens DEF Grown
  <1>3. ASSUME NEW d \in 1..Len(es), NEW n \in Names
        PROVE  env_get(us, d, n) = IF n = name /\ HolderIn(es, d, n) = e
                                   THEN IF v # Missing THEN v
                                        ELSE env_get(es, es[e].outer, n)
                                   ELSE env_get(es, d, n)
    <2>. DEFINE holder == HolderIn(es, d, n)
                outer  == HolderIn(es, es[e].outer, n)
    <2>1. d \in 0..Len(es) /\ e # 0 /\ es[e].outer \in 0..Len(es) /\ es[e].outer < e
      BY <1>2 DEF Ordered
    <2>2. /\ holder = 0 \/ holder \in 1..Len(es)
          /\ outer = 0 \/ outer \in 1..Len(es)
      BY <1>2, <2>1, HolderHolds
    <2>3. HolderIn(us, d, n) = IF n = name /\ v = Missing /\ holder = e THEN outer ELSE holder
      <3>1. CASE n = name /\ v = Missing
        <4>1. us[e].store[name] = Missing /\ es[e].store[name] # Missing
          BY <1>1, <3>1
        <4>2. \A c \in 1..Len(es) : c # e => (es[c].store[name] # Missing
                                               <=> us[c].store[name] # Missing)
          BY <1>1
        <4>. HIDE DEF holder, outer
        <4>3. HolderIn(us, d, name) = IF HolderIn(es, d, name) = e
                                      THEN HolderIn(es, es[e].outer, name)
                                      ELSE HolderIn(es, d, name)
          BY <1>2, <2>1, <4>1, <4>2, HolderWithout
        <4>. QED
          BY <3>1, <4>3 DEF holder, outer
      <3>2. CASE ~(n = name /\ v = Missing)
        <4>1. \A c \in 1..Len(es) : es[c].store[n] # Missing <=> us[c].store[n] # Missing
          BY <1>1, <3>2
        <4>2. HolderIn(us, d, n) = HolderIn(es, d, n)
          BY <1>2, <2>1, <4>1, HolderSame
        <4>. QED
          BY <3>2, <4>2
      <3>. QED
        BY <3>1, <3>2
    <2>4. outer # e
      <3>1. outer \in 0..es[e].outer
        BY <1>2, <2>1, HolderBelow
      <3>. HIDE DEF outer
      <3>. QED
        BY <1>2, <2>1, <3>1 DEF Ordered
    <2>5. /\ env_get(us, d, n) = IF HolderIn(us, d, n) = 0 THEN Missing
                                 ELSE us[HolderIn(us, d, n)].store[n]
          /\ env_get(es, d, n) = IF holder = 0 THEN Missing ELSE es[holder].store[n]
          /\ env_get(es, es[e].outer, n) = IF outer = 0 THEN Missing ELSE es[outer].store[n]
      BY DEF env_get
    <2>6. /\ holder # 0 => us[holder].store[n] = IF holder = e /\ n = name THEN v
                                                 ELSE es[holder].store[n]
          /\ outer # 0 => us[outer].store[n] = es[outer].store[n]
      BY <1>1, <2>2, <2>4
    <2>. HIDE DEF holder, outer
    <2>7. env_get(us, d, n) = IF n = name /\ holder = e
                              THEN IF v # Missing THEN v ELSE env_get(es, es[e].outer, n)
                              ELSE env_get(es, d, n)
      BY <2>1, <2>3, <2>5, <2>6
    <2>. QED
      BY <2>7 DEF holder
  <1>. QED
    BY <1>3

(* The only step that ends a search with the assignment done.              *)
LEMMA AssignmentStep ==
  ASSUME IInv, Next, In({"reassign"}), search # <<>>, search' = <<>>, ret' = Missing
  PROVE  /\ Top.vals[1] \in Cells(nodes, envs, heap) /\ Named(nodes, Here.name)
         /\ HolderIn(envs, Top.env, Here.name) \in 1..Len(envs) /\ Here.name \in Names
         /\ envs[HolderIn(envs, Top.env, Here.name)].store[Here.name] # Missing
         /\ IsStored(envs', envs, HolderIn(envs, Top.env, Here.name), Here.name, Top.vals[1])
  <1>1. Here.form = "reassign"
    BY DEF In
  <1>2. resolve_ident
    <2>1. ASSUME NEW forms, "reassign" \notin forms, In(forms)
          PROVE  FALSE
      BY <1>1, <2>1 DEF In
    <2>2. StartReassignment => search' # <<>>
      <3>1. search' # search
        OBVIOUS
      <3>2. \A x : <<x>> # <<>>
        OBVIOUS
      <3>. QED
        BY <3>1, <3>2 DEF StartReassignment
    <2>3. ~ReassignElement /\ ~eval_program /\ ~eval_block_statement /\ ~eval_let_statement
          /\ ~eval_return_statement /\ ~eval_break_statement /\ ~eval_continue_statement
          /\ ~eval_literal /\ ~eval_identifier /\ ~eval_prefix_expression
          /\ ~eval_infix_expression /\ ~eval_if_expression /\ ~eval_function_literal
          /\ ~eval_function_call /\ ~eval_array_literal /\ ~eval_hash_literal
          /\ ~eval_index_expression /\ ~StartLoop /\ ~CheckCondition /\ ~TestCondition
          /\ ~EndIteration
      <3>1. ~ReassignElement /\ ~StartLoop
        BY <1>1 DEF In, ReassignElement, StartLoop, Loops
      <3>2. ~CheckCondition /\ ~TestCondition /\ ~EndIteration
        BY <1>1 DEF In, CheckCondition, TestCondition, EndIteration, Loops
      <3>3. ~eval_program /\ ~eval_block_statement /\ ~eval_let_statement
        BY <1>1 DEF In, eval_program, eval_block_statement, eval_let_statement
      <3>4. ~eval_return_statement /\ ~eval_break_statement /\ ~eval_continue_statement
        BY <1>1 DEF In, eval_return_statement, eval_break_statement, eval_continue_statement
      <3>5. ~eval_literal /\ ~eval_identifier /\ ~eval_prefix_expression
        BY <1>1 DEF In, eval_literal, eval_identifier, eval_prefix_expression
      <3>6. ~eval_infix_expression /\ ~eval_if_expression /\ ~eval_function_literal
        BY <1>1 DEF In, eval_infix_expression, eval_if_expression, eval_function_literal
      <3>7. ~eval_function_call /\ ~eval_array_literal /\ ~eval_hash_literal
            /\ ~eval_index_expression
        BY <1>1 DEF In, eval_function_call, eval_array_literal, eval_hash_literal,
                    eval_index_expression
      <3>. QED
        BY <3>1, <3>2, <3>3, <3>4, <3>5, <3>6, <3>7
    <2>4. ~Meet /\ ~MeetStatement
      BY <1>1 DEF In, Meet, MeetStatement, Unmet
    <2>. QED
      BY <2>2, <2>3, <2>4 DEF Next
  <1>3. Now({"reassign", "reassign_index"}) /\ Made(2)
    BY <1>2, Running DEF resolve_ident
  <1>4. /\ Here = nodes[Top.node] /\ FrameOK(nodes, envs, heap, Top)
        /\ FormFits(nodes, Top.node) /\ World(nodes, envs, heap)
        /\ Top.node \in 1..Len(nodes)
    BY <1>3 DEF Now, IInv
  <1>5. Top.vals[1] \in Cells(nodes, envs, heap) /\ Named(nodes, Here.name)
    <2>1. \E v \in Values(nodes, envs, heap) \cup {Error} : Top.vals = <<v>>
      BY <1>1, <1>3, <1>4 DEF Made, FrameOK, Stage, Loops
    <2>. QED
      BY <1>1, <1>4, <2>1 DEF Cells, Named
  <1>6. Here.name \in Names
    BY <1>1, <1>4 DEF FormFits
  <1>. DEFINE here == search[1]
              found == envs[here.env].store[Here.name]
  <1>7. /\ here.env \in 1..Len(envs)
        /\ found # Missing => /\ Outwards(Top.env, here.level) = here.env
                              /\ HolderIn(envs, Top.env, Here.name) = here.env
    BY <1>3, SearchAt
  <1>8. found # Missing
    <2>1. found = Missing => ret' = Error \/ search' # <<>>
      <3>1. \A x : <<x>> # <<>>
        OBVIOUS
      <3>. QED
        BY <1>2, <3>1 DEF resolve_ident, Run, Give
    <2>2. Error # Missing
      BY Types
    <2>. QED
      BY <2>1, <2>2
  <1>9. set_ident(Here.name, Top.env, here.level, Top.vals[1])
    BY <1>1, <1>2, <1>8 DEF resolve_ident, Reassign
  <1>10. IsStored(envs', envs, here.env, Here.name, Top.vals[1])
    BY <1>7, <1>8, <1>9 DEF set_ident, IsStored
  <1>. QED
    BY <1>5, <1>6, <1>7, <1>8, <1>10

(* An assignment, whose variable resolve_ident finds and set_ident reaches *)
(* by counting environments, changes just the reads (env_get) that find    *)
(* this variable: they give the new value, or go on outwards past NULL.    *)
THEOREM AssignmentsAreRead ==
  Spec => AssignsWhereRead
  <1>. DEFINE target == HolderIn(envs, Top.env, Here.name)
              v == Top.vals[1]
              name == Here.name
              Step == In({"reassign"}) /\ search # <<>> /\ search' = <<>> /\ ret' = Missing
              Reads == \A e \in DOMAIN envs : \A n \in Names :
                         env_get(envs', e, n) =
                           IF n = name /\ HolderIn(envs, e, n) = target
                           THEN IF v # Missing THEN v
                                ELSE env_get(envs, envs[target].outer, n)
                           ELSE env_get(envs, e, n)
  <1>1. ASSUME IInv, [Next]_vars
        PROVE  [Step => Reads]_vars
    <2>1. CASE UNCHANGED vars
      BY <2>1
    <2>2. CASE Next
      <3>1. SUFFICES ASSUME Step
                     PROVE  Reads
        OBVIOUS
      <3>2. /\ v \in Cells(nodes, envs, heap) /\ Named(nodes, name)
            /\ target \in 1..Len(envs) /\ name \in Names
            /\ envs[target].store[name] # Missing
            /\ IsStored(envs', envs, target, name, v)
        BY <1>1, <2>2, <3>1, AssignmentStep
      <3>3. World(nodes, envs, heap) /\ DOMAIN envs = 1..Len(envs)
        BY <1>1, WorldLens, LenProperties DEF IInv
      <3>. HIDE DEF target, v, name
      <3>4. \A d \in 1..Len(envs), n \in Names :
              env_get(envs', d, n) = IF n = name /\ HolderIn(envs, d, n) = target
                                     THEN IF v # Missing THEN v
                                          ELSE env_get(envs, envs[target].outer, n)
                                     ELSE env_get(envs, d, n)
        BY <3>2, <3>3, ReadsAfter
      <3>. QED
        BY <3>3, <3>4
    <2>. QED
      BY <1>1, <2>1, <2>2
  <1>. QED
    BY <1>1, Invariant, PTL DEF Spec, AssignsWhereRead


=============================================================================
