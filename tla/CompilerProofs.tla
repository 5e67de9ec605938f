--------------------------- MODULE CompilerProofs ---------------------------
(***************************************************************************)
(* The compiler's invariant, and what it shows of compiled code.           *)
(*                                                                         *)
(* The programs are those of Prepared: they take no liberties (but that a  *)
(* function's name may be stale), and have at most 255 arguments and names *)
(* so that these fit their operands of one byte.  What is said of jumps    *)
(* needs that two bytes hold every position (Short).                       *)
(***************************************************************************)
EXTENDS CompilerCodeProofs

----------------------------------------------------------------------------
(* Loops are entered *)

LEMMA StaysSame ==
  ASSUME NEW n, NEW k, NEW m, NEW ss, NEW lay, NEW hm, NEW hm2, n \in Nat,
         k <= Len(hm), k <= Len(hm2), \A j \in 1..k : hm2[j] = hm[j]
  PROVE  Stays(n, k, m, ss, lay, hm, ss, lay, hm2) /\ SlotsStay(ss, lay, ss, lay)
  BY DEF Stays, SlotsStay, Keeps

(* One loop more, without breaks: its body has no array yet.               *)
LEMMA HomesEnter ==
  ASSUME NEW ls, NEW hm, NEW lay, HomesOK(ls, hm, lay)
  PROVE  /\ HomesOK(enter_loop(ls), Append(hm, 0), lay)
         /\ Len(enter_loop(ls)) = Len(ls) + 1 /\ Len(ls) \in Nat /\ Len(hm) = Len(ls)
         /\ Append(hm, 0) \in Seq(Nat) /\ Len(Append(hm, 0)) = Len(ls) + 1
         /\ Append(hm, 0)[Len(ls) + 1] = 0
         /\ \A j \in 1..Len(ls) : Append(hm, 0)[j] = hm[j]
  <1> DEFINE N == Len(ls)
             ls2 == enter_loop(ls)
             hm2 == Append(hm, 0)
  <1>1. /\ ls \in Seq(Seq(Nat)) /\ hm \in Seq(Nat) /\ Len(hm) = N /\ N \in Nat
        /\ \A m \in 1..N : \A k \in 1..Len(ls[N + 1 - m]) :
             hm[m] \in DOMAIN lay /\ BreakAt(lay[hm[m]], ls[N + 1 - m][k])
    BY DEF HomesOK
  <1>2. /\ hm2 \in Seq(Nat) /\ Len(hm2) = N + 1 /\ hm2[N + 1] = 0
        /\ \A j \in 1..N : hm2[j] = hm[j]
    BY <1>1
  <1>3. ls2 = << <<>> >> \o ls
    BY DEF enter_loop
  <1>4. << <<>> >> \in Seq(Seq(Nat)) /\ Len(<< <<>> >>) = 1 /\ << <<>> >>[1] = <<>>
    OBVIOUS
  <1>5. /\ ls2 \in Seq(Seq(Nat)) /\ Len(ls2) = N + 1 /\ ls2[1] = <<>>
        /\ \A i \in 1..N : ls2[i + 1] = ls[i]
    <2> DEFINE one == << <<>> >>
               S == Seq(Nat)
    <2>1. one \in Seq(S) /\ Len(one) = 1 /\ one[1] = <<>> /\ ls2 = one \o ls /\ ls \in Seq(S)
      BY <1>1, <1>3, <1>4
    <2>. HIDE DEF one, ls2, S, N
    <2>2. /\ ls2 \in Seq(S) /\ Len(ls2) = Len(one) + Len(ls)
          /\ \A i \in 1..Len(one) + Len(ls) :
                ls2[i] = IF i <= Len(one) THEN one[i] ELSE ls[i - Len(one)]
      BY <2>1, ConcatProperties
    <2>3. N \in Nat /\ N = Len(ls)
      BY <1>1 DEF N
    <2>4. ls2[1] = <<>> /\ Len(ls2) = N + 1
      BY <2>1, <2>2, <2>3
    <2>5. ASSUME NEW i \in 1..N
          PROVE  ls2[i + 1] = ls[i]
      <3>1. i + 1 \in 1..Len(one) + Len(ls) /\ ~(i + 1 <= Len(one)) /\ (i + 1) - Len(one) = i
        BY <2>1, <2>3
      <3>. QED
        BY <3>1, <2>2
    <2>. QED
      BY <2>2, <2>4, <2>5 DEF S
  <1>. HIDE DEF N, ls2, hm2
  <1>0. N \in Nat
    BY <1>1
  <1>6. ASSUME NEW m \in 1..N + 1
        PROVE  \A k \in 1..Len(ls2[Len(ls2) + 1 - m]) :
                 hm2[m] \in DOMAIN lay /\ BreakAt(lay[hm2[m]], ls2[Len(ls2) + 1 - m][k])
    <2>1. CASE m = N + 1
      <3>1. Len(ls2) + 1 - m = 1
        BY <2>1, <1>0, <1>5
      <3>2. Len(ls2[1]) = 0
        BY <1>5
      <3>. QED
        BY <3>1, <3>2
    <2>2. CASE m # N + 1
      <3> DEFINE i == N + 1 - m
      <3>1. m \in 1..N
        BY <2>2, <1>0
      <3>2. i \in 1..N
        BY <3>1, <1>0
      <3>3. Len(ls2) + 1 - m = i + 1
        BY <3>1, <1>0, <1>5
      <3>4. \A k \in 1..Len(ls[i]) : hm[m] \in DOMAIN lay /\ BreakAt(lay[hm[m]], ls[i][k])
        BY <3>1, <1>1
      <3>. HIDE DEF i
      <3>5. ls2[Len(ls2) + 1 - m] = ls[i] /\ hm2[m] = hm[m]
        BY <3>1, <3>2, <3>3, <1>2, <1>5
      <3>. QED
        BY <3>4, <3>5
    <2>. QED
      BY <2>1, <2>2
  <1>7. HomesOK(ls2, hm2, lay)
    <2>1. 1..Len(ls2) = 1..N + 1
      BY <1>5
    <2>. QED
      BY <2>1, <1>2, <1>5, <1>6 DEF HomesOK
  <1>. QED
    BY <1>1, <1>2, <1>5, <1>7 DEF N, ls2, hm2

LEMMA LoopBegins ==
  ASSUME NEW g, NEW lay, NEW hm, Ctx(g, lay, hm), todo # <<>>, todo[1].do \notin Patching,
         NEW hm2, hm2 = Append(hm, 0),
         NEW ys, NEW c, Way(ys, c, g[2], scopes, lay, hm2),
         c.level = g[1].level, c.loops = g[1].loops + 1, c.depth = g[1].depth, c.void = g[1].void,
         c.end = 0, g[2].loops = g[1].loops,
         Continue(ys), scope_index' = scope_index, loops' = enter_loop(loops),
         UNCHANGED <<scopes, arrays, constants, is_void>>
  PROVE  Known'
  <1> DEFINE n == scope_index
             l == ViewOf(scope_index, scopes, lay)
             N == Len(loops)
  <1>1. PICK h : Path(ys, h, c, g[2], scopes, lay, hm2)
    BY DEF Way
  <1>2. /\ IsSeq(ys) /\ h \in Seq(State) /\ Len(h) = Len(ys) + 1 /\ h[1] = c
        /\ h[Len(h)] = g[2] /\ Mono(h) /\ AllJoined(ys, h, scopes, lay, hm2)
    BY <1>1 DEF Path
  <1>3. /\ LaysOK(arrays, lay) /\ ScopesOK(n, scopes, arrays, lay)
        /\ PoolOK(constants, n, scopes, lay) /\ HomesOK(loops, hm, lay)
        /\ IsSeq(todo) /\ g \in Seq(State) /\ Len(g) = Len(todo) + 1
        /\ g[1] \in State /\ g[2] \in State /\ Mono(g) /\ Len(todo) \in Nat \ {0}
        /\ g[2].level <= g[1].level
        /\ NowOK(g[1], scopes[n].last, l, todo, g, n, loops, is_void)
    BY Doing
  <1>4. /\ Chain(todo, g, scopes, lay, hm) /\ OpenOK(todo, g, scopes, lay, n)
        /\ g[Len(g)] = St(1, 0, 0, FALSE, FALSE, 1)
    BY DEF Ctx, Core
  <1>5. /\ HomesOK(enter_loop(loops), hm2, lay)
        /\ Len(enter_loop(loops)) = N + 1 /\ N \in Nat /\ Len(hm) = N
        /\ hm2 \in Seq(Nat) /\ Len(hm2) = N + 1
        /\ \A j \in 1..N : hm2[j] = hm[j]
    BY <1>3, HomesEnter
  <1>6. g[1].level = n /\ g[1].loops = N /\ g[1].void = is_void /\ g[1].depth = l.depth[l.size]
    BY <1>3 DEF NowOK
  <1>7. n \in Nat /\ hm \in Seq(Nat)
    BY <1>3 DEF ScopesOK, HomesOK
  <1>8. RestMarked(l.size, todo, g, n)
    BY RestWithin
  <1>. HIDE DEF n, l, N
  <1>9. Replaces(todo, g, ys, h)
    BY <1>2, <1>3 DEF Replaces
  <1>10. Stays(n, N, l.size, scopes, lay, hm, scopes, lay, hm2) /\ SlotsStay(scopes, lay, scopes, lay)
    <2>1. N <= Len(hm) /\ N <= Len(hm2)
      BY <1>5
    <2>. QED
      BY <2>1, <1>5, <1>7, StaysSame
  <1>11. Chain(ys \o Tail(todo), Follows(h, g), scopes, lay, hm2)
    <2>1. g[Len(g)].level >= 1
      BY <1>4 DEF St
    <2>2. g[2].level <= n /\ g[2].loops <= N
      BY <1>3, <1>5, <1>6
    <2>. QED
      BY <2>1, <2>2, <1>2, <1>3, <1>4, <1>5, <1>7, <1>8, <1>9, <1>10, ChainFollows
  <1>12. Spliced(todo, g, ys, h, ys \o Tail(todo), Follows(h, g))
    BY <1>9, Replaced
  <1>13. /\ Follows(h, g)[1] = c /\ Follows(h, g)[Len(Follows(h, g))] = g[Len(g)]
    BY <1>2, <1>12 DEF Spliced
  <1>14. Mono(Follows(h, g))
    <2>1. Len(h) >= 1 /\ Len(g) >= 2
      BY <1>3, <1>12, <1>2 DEF Spliced
    <2>. QED
      BY <2>1, <1>2, <1>3, MonoFollows
  <1>15. OpenOK(ys \o Tail(todo), Follows(h, g), scopes, lay, n)
    <2>1. Opened(todo, g, scopes, lay, n, ys, h, scopes, lay, n)
      BY DEF Opened, StillOpen
    <2>. QED
      BY <2>1, <1>4, <1>9, OpenFollows
  <1>16. NowOK(c, scopes[n].last, l, ys \o Tail(todo), Follows(h, g), n, enter_loop(loops), is_void)
    <2>1. c.void = is_void
      BY <1>6
    <2>. QED
      BY <2>1, <1>5, <1>6 DEF NowOK, EndOK
  <1>17. Core(ys \o Tail(todo), Follows(h, g), scopes, arrays, lay, constants, enter_loop(loops), hm2, n,
              is_void)
    BY <1>3, <1>4, <1>5, <1>11, <1>13, <1>14, <1>15, <1>16 DEF Core, l, n
  <1>18. Ctx(Follows(h, g), lay, hm2)'
    BY <1>17 DEF Ctx, Continue, scope_index, n
  <1>. QED
    BY <1>18 DEF Known

(* One loop more is open, without an array.                                *)
OneMore(hm, hm2) ==
  Len(hm2) = Len(hm) + 1 /\ hm2[Len(hm) + 1] = 0 /\ \A j \in 1..Len(hm) : hm2[j] = hm[j]

(* What the loop finds when its condition is about to be compiled.         *)
LEMMA ConditionJoined ==
  ASSUME NEW s, s \in State, NEW place, NEW ss, NEW lay, NEW hm, PlaceOK(place, s, ss, lay, hm),
         ~s.update, s.loops = Len(hm),
         NEW hm2, OneMore(hm, hm2),
         NEW t, t \in State, t.level = s.level, t.loops = s.loops + 1, t.depth = s.depth,
         ~t.void, ~t.update,
         NEW u, u = Raised(s, s.depth, 1),
         NEW it, it.do = "condition", it.place = place
  PROVE  /\ Joined(it, t, u, ss, lay, hm2) /\ PlaceOK(place, s, ss, lay, hm2) /\ Under(t, u)
         /\ u.loops = s.loops
  <1>1. s.loops \in Nat /\ s.level \in Nat /\ s.depth \in Nat
    BY StateFields
  <1>2. PlaceOK(place, s, ss, lay, hm2)
    <2>1. s.loops \in 1..Len(hm) => s.loops \in 1..Len(hm2) /\ hm2[s.loops] = hm[s.loops]
      BY <1>1 DEF OneMore
    <2>. QED
      BY <2>1 DEF PlaceOK
  <1>0. s.update = FALSE /\ t.void = FALSE /\ t.update = FALSE
    BY StateFields
  <1>3. u = St(s.level, s.loops, s.depth, TRUE, FALSE, 1)
    <2>1. u = St(s.level, s.loops, s.depth, TRUE, s.update, 1)
      BY DEF Raised
    <2>. QED
      BY <2>1, <1>0, Zenon
  <1>4. u.level = s.level /\ u.loops = s.loops /\ u.update = FALSE
    BY <1>3 DEF St
  <1>5. u.update = s.update
    BY <1>0, <1>4, Zenon
  <1>6. PlaceOK(place, u, ss, lay, hm2)
    BY <1>2, <1>4, <1>5, MovedPlace
  <1>7. Waits(t.loops, hm2)
    BY <1>1 DEF Waits, OneMore
  <1>8. t.loops - 1 = s.loops
    BY <1>1
  <1>9. u = St(t.level, t.loops - 1, t.depth, TRUE, FALSE, 1)
    BY <1>3, <1>8
  <1>10. ConditionOK(it, t, u, ss, lay, hm2)
    BY <1>0, <1>6, <1>7, <1>9 DEF ConditionOK
  <1>11. Under(t, u)
    BY <1>0, <1>1, <1>4 DEF Under
  <1>. QED
    BY <1>2, <1>4, <1>10, <1>11 DEF Joined

LoopCondition(place, hasUpdate) ==
  [do |-> "condition", place |-> place, hasUpdate |-> hasUpdate]

(* What the actions that enter a loop start from.                          *)
LEMMA LoopStarts ==
  ASSUME Prepared, NEW g, NEW lay, NEW hm, Ctx(g, lay, hm), NEW form, NEW initialization,
         NEW tablesAfter, NEW hasUpdate, Loop(form, initialization, tablesAfter, hasUpdate),
         Len(tablesAfter) = Len(tables)
  PROVE  /\ todo # <<>> /\ Head(todo) = todo[1] /\ todo[1].do \notin Patching
         /\ g[1] \in State /\ g[2] \in State
         /\ PlaceOK(todo[1].place, g[1], scopes, lay, hm)
         /\ g[1].void = FALSE /\ g[1].update = FALSE /\ g[1].loops = Len(hm)
         /\ g[2] = Raised(g[1], g[1].depth, 1)
         /\ Continue(initialization \o <<LoopCondition(todo[1].place, hasUpdate)>>)
         /\ scope_index' = scope_index /\ loops' = enter_loop(loops)
         /\ UNCHANGED <<scopes, arrays, constants, is_void>>
         /\ HomesOK(loops, hm, lay)
  <1>1. Running("expression")
    BY DEF Loop
  <1>2. ~May("loop_as_value") /\ ~May("scope_in_update")
    BY NoLiberties
  <1>3. /\ todo # <<>> /\ Head(todo) = todo[1] /\ g[1] \in State /\ g[2] \in State
        /\ PlaceOK(todo[1].place, g[1], scopes, lay, hm) /\ g[1].void = FALSE
        /\ todo[1].kind = "void" => g[2] = Raised(g[1], g[1].depth, 1)
        /\ todo[1].do \notin Patching
    BY <1>1, InExpression
  <1>4. todo[1].kind = "void" /\ ~todo[1].place.update
    BY <1>2, <1>3 DEF Loop, Here
  <1>5. g[1].update = FALSE
    <2>1. g[1].update \in BOOLEAN
      BY <1>3, StateFields
    <2>2. g[1].update => todo[1].place.update
      BY <1>3 DEF PlaceOK
    <2>. QED
      BY <2>1, <2>2, <1>4
  <1>6. g[1].loops = Len(loops) /\ HomesOK(loops, hm, lay)
    BY <1>3, Now, Doing
  <1>7. g[1].loops = Len(hm)
    BY <1>6 DEF HomesOK
  <1>8. scope_index' = scope_index
    BY DEF Loop, scope_index
  <1>9. /\ Continue(initialization \o <<LoopCondition(todo[1].place, hasUpdate)>>)
        /\ loops' = enter_loop(loops) /\ UNCHANGED <<scopes, arrays, constants, is_void>>
    BY <1>3 DEF Loop, Here, LoopCondition
  <1>. QED
    BY <1>3, <1>4, <1>5, <1>6, <1>7, <1>8, <1>9

LEMMA WhileLoopOK ==
  ASSUME Prepared, Known, WhileLoop
  PROVE  Known'
  <1>1. PICK g, lay, hm : Ctx(g, lay, hm)
    BY DEF Known
  <1> DEFINE s == g[1]
             u == g[2]
             it == LoopCondition(todo[1].place, FALSE)
             ys == <<>> \o <<it>>
             t == St(s.level, s.loops + 1, s.depth, FALSE, FALSE, 0)
             hm2 == Append(hm, 0)
  <1>2. Loop("while", <<>>, tables, FALSE) /\ Len(tables) = Len(tables)
    BY DEF WhileLoop
  <1>3. /\ todo # <<>> /\ Head(todo) = todo[1] /\ todo[1].do \notin Patching
        /\ s \in State /\ u \in State /\ PlaceOK(todo[1].place, s, scopes, lay, hm)
        /\ s.void = FALSE /\ s.update = FALSE /\ s.loops = Len(hm)
        /\ u = Raised(s, s.depth, 1) /\ Continue(ys)
        /\ scope_index' = scope_index /\ loops' = enter_loop(loops)
        /\ UNCHANGED <<scopes, arrays, constants, is_void>>
        /\ HomesOK(loops, hm, lay)
    BY <1>1, <1>2, LoopStarts
  <1>4. s.level \in Nat /\ s.loops \in Nat /\ s.depth \in Nat
    BY <1>3, StateFields
  <1>5. /\ t \in State /\ t.level = s.level /\ t.loops = s.loops + 1 /\ t.depth = s.depth
        /\ t.void = FALSE /\ t.update = FALSE /\ t.end = 0
    BY <1>4 DEF St, State
  <1>6. t.void = s.void
    BY <1>3, <1>5, Zenon
  <1>7. OneMore(hm, hm2)
    <2>1. Len(hm) = Len(loops)
      BY <1>3 DEF HomesOK
    <2>. QED
      BY <2>1, <1>3, HomesEnter DEF OneMore
  <1>8. it.do = "condition" /\ it.place = todo[1].place
    BY DEF LoopCondition
  <1>. HIDE DEF s, u, it, t, hm2
  <1>9. Joined(it, t, u, scopes, lay, hm2) /\ Under(t, u) /\ u.loops = s.loops
    BY <1>3, <1>5, <1>7, <1>8, ConditionJoined
  <1>10. Way(<<it>>, t, u, scopes, lay, hm2)
    BY <1>3, <1>5, <1>9, WayOne
  <1>11. Continue(<<it>>)
    <2>1. ys = <<it>>
      OBVIOUS
    <2>. QED
      BY <2>1, <1>3
  <1>. QED
    BY <1>1, <1>3, <1>5, <1>6, <1>9, <1>10, <1>11, LoopBegins DEF s, u, hm2

LEMMA ForLoopOK ==
  ASSUME Prepared, Known, TablesOK(tables), NEW name \in Names, NEW hasUpdate, ForLoop(name, hasUpdate)
  PROVE  Known'
  <1>1. PICK g, lay, hm : Ctx(g, lay, hm)
    BY DEF Known
  <1> DEFINE s == g[1]
             u == g[2]
             place == todo[1].place
             it == LoopCondition(place, hasUpdate)
             x == [Expression([place EXCEPT !.loop = FALSE], "value") EXCEPT !.name = name]
             y == [do |-> "save", symbol |-> ST!Defined(tables, name)]
             t == St(s.level, s.loops + 1, s.depth, FALSE, FALSE, 0)
             t1 == Moved(t, s.depth + 1, 0)
             t2 == Moved(t, s.depth, 1)
             hm2 == Append(hm, 0)
             init == LetSteps([place EXCEPT !.loop = FALSE], name)
  <1>2. /\ Loop("for", LetSteps([Here EXCEPT !.loop = FALSE], name), ST!symbol_define(tables, name),
                hasUpdate)
        /\ Len(ST!symbol_define(tables, name)) = Len(tables)
    BY DefineTables DEF ForLoop
  <1>3. /\ todo # <<>> /\ Head(todo) = todo[1] /\ todo[1].do \notin Patching
        /\ s \in State /\ u \in State /\ PlaceOK(place, s, scopes, lay, hm)
        /\ s.void = FALSE /\ s.update = FALSE /\ s.loops = Len(hm)
        /\ u = Raised(s, s.depth, 1)
        /\ Continue(LetSteps([Here EXCEPT !.loop = FALSE], name) \o <<it>>)
        /\ scope_index' = scope_index /\ loops' = enter_loop(loops)
        /\ UNCHANGED <<scopes, arrays, constants, is_void>>
        /\ HomesOK(loops, hm, lay)
    BY <1>1, <1>2, LoopStarts
  <1>4. s.level \in Nat /\ s.loops \in Nat /\ s.depth \in Nat
    BY <1>3, StateFields
  <1>5. /\ t \in State /\ t.level = s.level /\ t.loops = s.loops + 1 /\ t.depth = s.depth
        /\ t.void = FALSE /\ t.update = FALSE /\ t.end = 0
    BY <1>4 DEF St, State
  <1>6. t.void = s.void
    BY <1>3, <1>5, Zenon
  <1>7. OneMore(hm, hm2)
    <2>1. Len(hm) = Len(loops)
      BY <1>3 DEF HomesOK
    <2>. QED
      BY <2>1, <1>3, HomesEnter DEF OneMore
  <1>8. it.do = "condition" /\ it.place = place
    BY DEF LoopCondition
  <1>9. /\ x.do = "expression" /\ x.place = [place EXCEPT !.loop = FALSE] /\ x.kind = "value"
        /\ x.name = name /\ y.do = "save" /\ y.symbol = ST!Defined(tables, name)
    BY DEF Expression
  <1>10. y.symbol.index \in Nat
    <2>1. ST!Defined(tables, name) \in ST!Symbol
      BY DefineTables
    <2>. QED
      BY <2>1 DEF ST!Symbol
  <1>. HIDE DEF s, u, it, x, y
  <1>11. /\ t1 \in State /\ t1.level = t.level /\ t1.loops = t.loops /\ t1.update = FALSE
         /\ t1.depth = s.depth + 1 /\ t1.void = FALSE
         /\ t2 \in State /\ t2.level = t.level /\ t2.loops = t.loops /\ t2.update = FALSE
         /\ t2.depth = s.depth /\ t2.void = FALSE
    BY <1>4 DEF t, Moved, St, State
  <1>12. t1.update = t.update /\ t2.update = t.update /\ t2.update = t1.update
    BY <1>5, <1>11, Zenon
  <1>13. init = <<x, y>> /\ Continue(init \o <<it>>)
    BY <1>3 DEF LetSteps, Here, x, y
  <1>. HIDE DEF t, hm2, place, init
  <1>14. /\ Joined(it, t2, u, scopes, lay, hm2) /\ PlaceOK(place, s, scopes, lay, hm2)
         /\ Under(t2, u) /\ u.loops = s.loops
    <2>1. t2.level = s.level /\ t2.loops = s.loops + 1 /\ t2.depth = s.depth
      BY <1>5, <1>11
    <2>. HIDE DEF t1, t2
    <2>. QED
      <3>1. /\ s \in State /\ PlaceOK(place, s, scopes, lay, hm) /\ ~s.update /\ s.loops = Len(hm)
            /\ u = Raised(s, s.depth, 1)
        BY <1>3 DEF place
      <3>2. t2 \in State /\ ~t2.void /\ ~t2.update
        BY <1>11
      <3>. QED
        BY <2>1, <3>1, <3>2, <1>7, <1>8, ConditionJoined
  <1>15. Joined(x, t, t1, scopes, lay, hm2)
    <2>1. PlaceOK(x.place, t, scopes, lay, hm2)
      <3>1. t.level = s.level /\ ~t.update
        BY <1>5
      <3>2. x.place \in Places /\ ~x.place.loop /\ x.place.function = place.function
        BY <1>9, <1>14 DEF PlaceOK, Places
      <3>. QED
        BY <3>1, <3>2, <1>14, Elsewhere
    <2>2. t1 = St(t.level, t.loops, t.depth + 1, FALSE, t.update, 0)
      BY <1>5 DEF Moved
    <2>. HIDE DEF t1
    <2>. QED
      BY <2>1, <2>2, <1>5, <1>9 DEF Joined, ExpressionOK
  <1>16. Joined(y, t1, t2, scopes, lay, hm2)
    <2>1. t1.depth - 1 = s.depth /\ t1.depth >= 1
      BY <1>4, <1>11
    <2>2. t2 = St(t1.level, t1.loops, t1.depth - 1, FALSE, t1.update, 1)
      <3>1. t2 = St(t.level, t.loops, s.depth, FALSE, t.update, 1)
        BY DEF Moved
      <3>. HIDE DEF t1, t2
      <3>. QED
        BY <3>1, <2>1, <1>11, <1>12
    <2>. HIDE DEF t1, t2
    <2>. QED
      BY <2>1, <2>2, <1>9, <1>10, <1>11 DEF Joined, SaveOK
  <1>. HIDE DEF t1, t2
  <1>17. Way(init, t, t2, scopes, lay, hm2)
    <2>1. Under(t, t1) /\ Under(t1, t2)
      BY <1>5, <1>11, <1>12, UnderSame
    <2>2. Way(<<x, y>>, t, t2, scopes, lay, hm2)
      BY <2>1, <1>5, <1>11, <1>15, <1>16, WayTwo
    <2>. QED
      BY <2>2, <1>13
  <1>18. Way(<<it>>, t2, u, scopes, lay, hm2)
    BY <1>3, <1>11, <1>14, WayOne
  <1>19. Way(init \o <<it>>, t, u, scopes, lay, hm2)
    BY <1>17, <1>18, JoinedWays
  <1>. QED
    BY <1>1, <1>3, <1>5, <1>6, <1>13, <1>14, <1>19, LoopBegins DEF s, u, hm2

----------------------------------------------------------------------------
(* Scopes are entered *)

Blank(kind) ==
  [size |-> 0, kind |-> kind, at |-> [p \in {} |-> p], depth |-> [p \in {0} |-> 0], open |-> {}]

(* The layouts when there is one more array, for code of the given kind.   *)
Widened(lay, n, kind) == [c \in 1..n + 1 |-> IF c = n + 1 THEN Blank(kind) ELSE lay[c]]

LEMMA BlankLaid ==
  ASSUME NEW kind
  PROVE  /\ Laid(<<>>, Blank(kind)) /\ Blank(kind).open = {} /\ Blank(kind).size = 0
         /\ Blank(kind).depth[0] = 0 /\ Blank(kind).kind = kind
  <1>1. <<>> \in Seq(Byte) /\ Len(<<>>) = 0
    OBVIOUS
  <1> DEFINE l == Blank(kind)
  <1>2. /\ l.size = 0 /\ l.kind = kind /\ DOMAIN l.at = {} /\ DOMAIN l.depth = {0} /\ l.depth[0] = 0
        /\ l.open = {}
    BY DEF Blank
  <1>. HIDE DEF l
  <1>. QED
    BY <1>1, <1>2 DEF Laid, l

(* The scopes with one more on top.                                        *)
LEMMA EnteredScopes ==
  ASSUME NEW ss, ss \in Seq(Slot), scope_index \in 1..Len(ss), NEW ins, ins \in Nat
  PROVE  /\ Entered(ss, ins) \in Seq(Slot) /\ scope_index + 1 <= Len(Entered(ss, ins))
         /\ \A i \in 1..scope_index : Entered(ss, ins)[i] = ss[i]
         /\ Entered(ss, ins)[scope_index + 1] = [ins |-> ins, last |-> Nothing, prev |-> Nothing]
  <1> DEFINE n == scope_index
             a == SubSeq(ss, 1, n)
             x == [ins |-> ins, last |-> Nothing, prev |-> Nothing]
             b == <<x>>
             c == SubSeq(ss, n + 2, Len(ss))
             ab == a \o b
             t == ab \o c
  <1>1. x \in Slot
    BY OpsExist DEF Slot, Nothing, Mark
  <1>. HIDE DEF n, x
  <1>2. n \in Nat /\ n >= 1 /\ n <= Len(ss) /\ Len(ss) \in Nat
    BY LenProperties DEF n
  <1>3. a \in Seq(Slot) /\ Len(a) = n /\ \A i \in 1..n : a[i] = ss[i]
    BY <1>2, SubSeqProperties
  <1>4. b \in Seq(Slot) /\ Len(b) = 1 /\ b[1] = x
    BY <1>1
  <1>5. c \in Seq(Slot)
    <2>1. \A i \in (n + 2)..Len(ss) : ss[i] \in Slot
      BY <1>2
    <2>. QED
      BY <2>1, <1>2, SubSeqProperties
  <1>. HIDE DEF a, b, c
  <1>6. /\ ab \in Seq(Slot) /\ Len(ab) = n + 1
        /\ \A i \in 1..n + 1 : ab[i] = IF i <= n THEN a[i] ELSE b[i - n]
    <2>1. /\ ab \in Seq(Slot) /\ Len(ab) = Len(a) + Len(b)
          /\ \A i \in 1..Len(a) + Len(b) : ab[i] = IF i <= Len(a) THEN a[i] ELSE b[i - Len(a)]
      BY <1>3, <1>4, ConcatProperties
    <2>2. Len(a) = n /\ Len(b) = 1
      BY <1>3, <1>4
    <2>. HIDE DEF ab
    <2>. QED
      BY <2>1, <2>2
  <1>. HIDE DEF ab
  <1>7. Len(c) \in Nat
    BY <1>5, LenProperties
  <1>8. /\ t \in Seq(Slot) /\ Len(t) = n + 1 + Len(c)
        /\ \A i \in 1..n + 1 + Len(c) : t[i] = IF i <= n + 1 THEN ab[i] ELSE c[i - (n + 1)]
    BY <1>5, <1>6, ConcatProperties
  <1>. HIDE DEF t
  <1>9. \A i \in 1..n + 1 : t[i] = ab[i]
    BY <1>2, <1>7, <1>8
  <1>10. \A i \in 1..n : t[i] = ss[i]
    BY <1>2, <1>3, <1>6, <1>9
  <1>11. t[n + 1] = x
    <2>1. n + 1 \in 1..n + 1 /\ ~(n + 1 <= n) /\ (n + 1) - n = 1
      BY <1>2
    <2>2. ab[n + 1] = b[1]
      BY <2>1, <1>6
    <2>. QED
      BY <2>1, <2>2, <1>4, <1>9
  <1>12. n + 1 <= Len(t)
    BY <1>2, <1>7, <1>8
  <1>13. t = Entered(ss, ins)
    BY DEF Entered, t, ab, a, b, c, n, x
  <1>. QED
    BY <1>8, <1>10, <1>11, <1>12, <1>13 DEF n, x

(* A new scope, and nothing else has changed.                              *)
Deeper(n, ss, ar, lay, cs, kind, ss2, ar2, lay2) ==
  /\ LaysOK(ar2, lay2) /\ ScopesOK(n + 1, ss2, ar2, lay2) /\ PoolOK(cs, n + 1, ss2, lay2)
  /\ \A level \in 1..n : /\ ss2[level] = ss[level]
                         /\ ViewOf(level, ss2, lay2) = ViewOf(level, ss, lay)
  /\ ss2[n + 1] = [ins |-> Len(ar) + 1, last |-> Nothing, prev |-> Nothing]
  /\ ViewOf(n + 1, ss2, lay2) = Blank(kind)
  /\ \A c \in DOMAIN lay : c \in DOMAIN lay2 /\ lay2[c] = lay[c]
  /\ Len(ar) + 1 \notin DOMAIN lay /\ Len(ar) + 1 \in DOMAIN lay2
  /\ lay2[Len(ar) + 1] = Blank(kind)
  /\ Len(ar) \in Nat

(* What is known of the code does not change, and there is a new array.    *)
LEMMA EnteredOK ==
  ASSUME NEW n, n = scope_index, NEW ss, NEW ar, NEW lay, LaysOK(ar, lay), ScopesOK(n, ss, ar, lay),
         NEW cs, PoolOK(cs, n, ss, lay), NEW kind,
         NEW ss2, ss2 = Entered(ss, Len(ar) + 1), NEW ar2, ar2 = Append(ar, <<>>),
         NEW lay2, lay2 = Widened(lay, Len(ar), kind)
  PROVE  Deeper(n, ss, ar, lay, cs, kind, ss2, ar2, lay2)
  <1> DEFINE N == Len(ar)
  <1>1. /\ IsSeq(ar) /\ DOMAIN lay = 1..N /\ \A c \in 1..N : Laid(ar[c], lay[c])
    BY DEF LaysOK
  <1>2. PICK S : ar \in Seq(S)
    BY <1>1 DEF IsSeq
  <1> DEFINE S2 == S \cup {<<>>}
  <1>3. N \in Nat /\ ar \in Seq(S2) /\ <<>> \in S2
    BY <1>2, LenProperties, SeqMonotonic
  <1>. HIDE DEF S2
  <1>4. /\ IsSeq(ar2) /\ Len(ar2) = N + 1 /\ ar2[N + 1] = <<>>
        /\ \A c \in 1..N : ar2[c] = ar[c]
    <2>1. /\ ar2 \in Seq(S2) /\ Len(ar2) = N + 1 /\ ar2[N + 1] = <<>>
          /\ \A c \in 1..N : ar2[c] = ar[c]
      BY <1>3, AppendProperties
    <2>. QED
      BY <2>1 DEF IsSeq
  <1>. HIDE DEF N
  <1>5. /\ DOMAIN lay2 = 1..N + 1 /\ lay2[N + 1] = Blank(kind)
        /\ \A c \in 1..N : lay2[c] = lay[c]
    BY <1>3 DEF Widened, N
  <1>6. LaysOK(ar2, lay2)
    <2>1. ASSUME NEW c \in 1..N + 1
          PROVE  Laid(ar2[c], lay2[c])
      <3>1. CASE c = N + 1
        BY <3>1, <1>4, <1>5, BlankLaid
      <3>2. CASE c # N + 1
        <4>1. c \in 1..N
          BY <3>2, <1>3
        <4>. QED
          BY <4>1, <1>1, <1>4, <1>5
      <3>. QED
        BY <3>1, <3>2
    <2>. QED
      BY <2>1, <1>4, <1>5 DEF LaysOK
  <1>7. /\ ss \in Seq(Slot) /\ n \in 1..Len(ss)
        /\ \A level \in 1..n : ss[level].ins \in 1..N
        /\ \A i, j \in 1..n : ss[i].ins = ss[j].ins => i = j
        /\ ss[1].ins = 1 /\ lay[1].kind = "main"
    BY DEF ScopesOK, N
  <1>8. n \in Nat /\ n >= 1
    BY <1>7, LenProperties
  <1>9. /\ ss2 \in Seq(Slot) /\ n + 1 <= Len(ss2)
        /\ \A i \in 1..n : ss2[i] = ss[i]
        /\ ss2[n + 1] = [ins |-> N + 1, last |-> Nothing, prev |-> Nothing]
    <2>1. N + 1 \in Nat
      BY <1>3
    <2>. QED
      BY <2>1, <1>7, EnteredScopes DEF N
  <1>10. ss2[n + 1].ins = N + 1
    BY <1>9
  <1>11. n + 1 \in 1..Len(ss2)
    BY <1>8, <1>9
  <1>12. \A level \in 1..n : ss2[level].ins \in 1..N /\ ss2[level].ins # N + 1
    BY <1>3, <1>7, <1>9
  <1>13. \A level \in 1..n + 1 : level \in 1..n \/ level = n + 1
    BY <1>8
  <1>14. \A i, j \in 1..n + 1 : ss2[i].ins = ss2[j].ins => i = j
    <2>. SUFFICES ASSUME NEW i \in 1..n + 1, NEW j \in 1..n + 1, ss2[i].ins = ss2[j].ins
                  PROVE  i = j
      OBVIOUS
    <2>1. CASE i \in 1..n /\ j \in 1..n
      BY <2>1, <1>7, <1>9
    <2>2. CASE i \in 1..n /\ j = n + 1
      BY <2>2, <1>10, <1>12
    <2>3. CASE i = n + 1 /\ j \in 1..n
      BY <2>3, <1>10, <1>12
    <2>4. CASE i = n + 1 /\ j = n + 1
      BY <2>4
    <2>. QED
      BY <2>1, <2>2, <2>3, <2>4, <1>13
  <1>15. \A level \in 1..n + 1 : ss2[level].ins \in 1..N + 1
    BY <1>3, <1>10, <1>12, <1>13
  <1>16. ss2[1].ins = 1 /\ lay2[1].kind = "main"
    <2>1. 1 \in 1..n /\ 1 \in 1..N
      BY <1>7, <1>8
    <2>. QED
      BY <2>1, <1>5, <1>7, <1>9
  <1>17. ScopesOK(n + 1, ss2, ar2, lay2)
    BY <1>4, <1>9, <1>11, <1>14, <1>15, <1>16 DEF ScopesOK
  <1>18. PoolOK(cs, n + 1, ss2, lay2)
    <2>1. IsSeq(cs)
      BY DEF PoolOK
    <2>2. ASSUME NEW i \in 1..Len(cs), cs[i].kind # "value"
          PROVE  /\ cs[i].kind \in {"function", "loop"} /\ cs[i].ins \in DOMAIN lay2
                 /\ \A level \in 1..n + 1 : ss2[level].ins # cs[i].ins
                 /\ lay2[cs[i].ins].kind = cs[i].kind /\ Sealed(lay2[cs[i].ins])
      <3>1. /\ cs[i].kind \in {"function", "loop"} /\ cs[i].ins \in DOMAIN lay
            /\ \A level \in 1..n : ss[level].ins # cs[i].ins
            /\ lay[cs[i].ins].kind = cs[i].kind /\ Sealed(lay[cs[i].ins])
        BY <2>2 DEF PoolOK
      <3>2. cs[i].ins \in 1..N /\ cs[i].ins # N + 1 /\ cs[i].ins \in 1..N + 1
        BY <3>1, <1>1, <1>3 DEF N
      <3>. QED
        BY <3>1, <3>2, <1>5, <1>9, <1>10, <1>13
    <2>. QED
      BY <2>1, <2>2 DEF PoolOK
  <1>19. \A level \in 1..n : ViewOf(level, ss2, lay2) = ViewOf(level, ss, lay)
    BY <1>5, <1>7, <1>9 DEF ViewOf
  <1>20. ViewOf(n + 1, ss2, lay2) = Blank(kind)
    BY <1>5, <1>10 DEF ViewOf
  <1>21. \A c \in DOMAIN lay : c \in DOMAIN lay2 /\ lay2[c] = lay[c]
    BY <1>1, <1>3, <1>5 DEF N
  <1>22. N + 1 \notin DOMAIN lay /\ N + 1 \in DOMAIN lay2
    BY <1>1, <1>3, <1>5 DEF N
  <1>. QED
    BY <1>3, <1>5, <1>6, <1>9, <1>17, <1>18, <1>19, <1>20, <1>21, <1>22 DEF N, Deeper

(* The places of the breaks stay where they are.                           *)
LEMMA HomesWiden ==
  ASSUME NEW ls, NEW hm, NEW lay, HomesOK(ls, hm, lay),
         NEW lay2, \A c \in DOMAIN lay : c \in DOMAIN lay2 /\ lay2[c] = lay[c]
  PROVE  HomesOK(ls, hm, lay2)
  BY DEF HomesOK

(* The innermost loop, which has no breaks yet, gets its array.            *)
Homed(hm, c) == [hm EXCEPT ![Len(hm)] = c]

LEMMA HomesSet ==
  ASSUME NEW ls, NEW hm, NEW lay, HomesOK(ls, hm, lay), hm # <<>>, hm[Len(hm)] = 0, 0 \notin DOMAIN lay,
         NEW c, c \in Nat, NEW hm2, hm2 = Homed(hm, c)
  PROVE  /\ HomesOK(ls, hm2, lay) /\ hm2 \in Seq(Nat) /\ Len(hm2) = Len(hm) /\ Len(hm) \in Nat
         /\ Len(hm) = Len(ls) /\ Len(hm) >= 1
         /\ hm2[Len(hm)] = c /\ \A j \in 1..Len(hm) - 1 : hm2[j] = hm[j]
  <1>1. /\ ls \in Seq(Seq(Nat)) /\ hm \in Seq(Nat) /\ Len(hm) = Len(ls) /\ Len(ls) \in Nat
        /\ \A m \in 1..Len(ls) : \A k \in 1..Len(ls[Len(ls) + 1 - m]) :
             hm[m] \in DOMAIN lay /\ BreakAt(lay[hm[m]], ls[Len(ls) + 1 - m][k])
    BY DEF HomesOK
  <1>2. Len(hm) >= 1
    BY <1>1
  <1>3. /\ hm2 \in Seq(Nat) /\ Len(hm2) = Len(hm) /\ hm2[Len(hm)] = c
        /\ \A j \in 1..Len(hm) : j # Len(hm) => hm2[j] = hm[j]
    BY <1>1, <1>2 DEF Homed
  <1>4. ASSUME NEW m \in 1..Len(ls), NEW k \in 1..Len(ls[Len(ls) + 1 - m])
        PROVE  hm2[m] \in DOMAIN lay /\ BreakAt(lay[hm2[m]], ls[Len(ls) + 1 - m][k])
    <2>1. hm[m] \in DOMAIN lay /\ BreakAt(lay[hm[m]], ls[Len(ls) + 1 - m][k])
      BY <1>1, <1>4
    <2>2. m # Len(hm)
      BY <2>1
    <2>3. hm2[m] = hm[m]
      BY <2>2, <1>1, <1>3
    <2>. QED
      BY <2>1, <2>3
  <1>5. HomesOK(ls, hm2, lay)
    BY <1>1, <1>3, <1>4 DEF HomesOK
  <1>6. \A j \in 1..Len(hm) - 1 : j \in 1..Len(hm) /\ j # Len(hm)
    BY <1>1
  <1>. QED
    BY <1>1, <1>2, <1>3, <1>5, <1>6

(* A scope is entered, when the code around it has become l2.              *)
LEMMA Enters ==
  ASSUME NEW g, NEW lay, NEW hm, Ctx(g, lay, hm), todo # <<>>, todo[1].do \notin Patching,
         NEW n, n = scope_index, NEW l2, NEW ss1, NEW ar1, NEW lay1, NEW m,
         Rewritten(n, l2, scopes, arrays, lay, ss1, ar1, lay1),
         Keeps(ViewOf(n, scopes, lay), l2, m), RestMarked(m, todo, g, n),
         NEW ys, NEW h, StillOpen(l2.open, ViewOf(n, scopes, lay), todo, g, ys, h, n),
         NEW kind, NEW lay2, lay2 = Widened(lay1, Len(ar1), kind),
         NEW k, k \in Nat, NEW hm2, HomesOK(loops, hm2, lay),
         k <= Len(hm), k <= Len(hm2), \A j \in 1..k : hm2[j] = hm[j],
         g[2].loops <= k, g[2].update # TRUE,
         Path(ys, h, St(n + 1, Len(loops), 0, FALSE, FALSE, 1), g[2], scopes', lay2, hm2),
         Continue(ys), scope_index' = n + 1,
         arrays' = Append(ar1, <<>>), scopes' = Entered(ss1, Len(ar1) + 1),
         UNCHANGED <<constants, loops, is_void>>, is_void = FALSE
  PROVE  Known'
  <1> DEFINE l == ViewOf(n, scopes, lay)
             first == St(n + 1, Len(loops), 0, FALSE, FALSE, 1)
             ss2 == scopes'
             ar2 == arrays'
  <1>2. /\ IsSeq(ys) /\ h \in Seq(State) /\ Len(h) = Len(ys) + 1 /\ h[1] = first
        /\ h[Len(h)] = g[2] /\ Mono(h) /\ AllJoined(ys, h, ss2, lay2, hm2)
    BY DEF Path
  <1>3. /\ LaysOK(arrays, lay) /\ ScopesOK(n, scopes, arrays, lay)
        /\ PoolOK(constants, n, scopes, lay) /\ HomesOK(loops, hm, lay)
        /\ IsSeq(todo) /\ g \in Seq(State) /\ Len(g) = Len(todo) + 1
        /\ g[1] \in State /\ g[2] \in State /\ Mono(g) /\ Len(todo) \in Nat \ {0}
        /\ g[2].level <= g[1].level
        /\ NowOK(g[1], scopes[n].last, l, todo, g, n, loops, is_void)
    BY Doing
  <1>4. /\ Chain(todo, g, scopes, lay, hm) /\ OpenOK(todo, g, scopes, lay, n)
        /\ g[Len(g)] = St(1, 0, 0, FALSE, FALSE, 1)
    BY DEF Ctx, Core
  <1>5. /\ LaysOK(ar1, lay1) /\ ScopesOK(n, ss1, ar1, lay1) /\ PoolOK(constants, n, ss1, lay1)
        /\ SlotsStay(scopes, lay, ss1, lay1) /\ ViewOf(n, ss1, lay1) = l2
        /\ SameBelow(n, scopes, lay, ss1, lay1)
    BY <1>3, RewrittenOK, PoolStays
  <1>6. /\ LaysOK(ar2, lay2) /\ ScopesOK(n + 1, ss2, ar2, lay2) /\ PoolOK(constants, n + 1, ss2, lay2)
        /\ \A level \in 1..n : /\ ss2[level] = ss1[level]
                               /\ ViewOf(level, ss2, lay2) = ViewOf(level, ss1, lay1)
        /\ ss2[n + 1] = [ins |-> Len(ar1) + 1, last |-> Nothing, prev |-> Nothing]
        /\ ViewOf(n + 1, ss2, lay2) = Blank(kind)
        /\ \A a \in DOMAIN lay1 : a \in DOMAIN lay2 /\ lay2[a] = lay1[a]
    <2>1. n = scope_index /\ ss2 = Entered(ss1, Len(ar1) + 1) /\ ar2 = Append(ar1, <<>>)
      OBVIOUS
    <2>. HIDE DEF ss2, ar2
    <2>2. Deeper(n, ss1, ar1, lay1, constants, kind, ss2, ar2, lay2)
      BY <2>1, <1>5, EnteredOK
    <2>. QED
      BY <2>2 DEF Deeper
  <1>7. n \in Nat /\ n >= 1 /\ hm \in Seq(Nat) /\ hm2 \in Seq(Nat) /\ n <= Len(scopes) /\ Len(loops) \in Nat
        /\ Len(scopes) \in Nat
    BY <1>3, LenProperties DEF ScopesOK, HomesOK
  <1>8. HomesOK(loops, hm2, lay2)
    <2>1. HomesOK(loops, hm2, lay1)
      BY <1>5, HomesStay
    <2>. QED
      BY <2>1, <1>6, HomesWiden
  <1>9. g[1].level = n
    BY <1>3 DEF NowOK
  <1>. HIDE DEF l, first, ss2, ar2
  <1>10. Replaces(todo, g, ys, h)
    BY <1>2, <1>3 DEF Replaces
  <1>11. Stays(n, k, m, scopes, lay, hm, ss2, lay2, hm2)
    <2>1. \A level \in 1..n : ss2[level].ins = scopes[level].ins
      BY <1>5, <1>6, <1>7 DEF SlotsStay
    <2>2. \A level \in 1..n - 1 : ViewOf(level, ss2, lay2) = ViewOf(level, scopes, lay)
      BY <1>5, <1>6, <1>7 DEF SameBelow
    <2>3. ViewOf(n, ss2, lay2) = l2
      BY <1>5, <1>6, <1>7
    <2>. QED
      BY <2>1, <2>2, <2>3 DEF Stays
  <1>12. Chain(ys \o Tail(todo), Follows(h, g), ss2, lay2, hm2)
    <2>1. g[Len(g)].level >= 1
      BY <1>4 DEF St
    <2>2. g[2].level <= n
      BY <1>3, <1>9
    <2>. QED
      BY <2>1, <2>2, <1>2, <1>3, <1>4, <1>7, <1>10, <1>11, ChainFollows
  <1>13. Spliced(todo, g, ys, h, ys \o Tail(todo), Follows(h, g))
    BY <1>10, Replaced
  <1>14. /\ Follows(h, g)[1] = first /\ Follows(h, g)[Len(Follows(h, g))] = g[Len(g)]
    BY <1>2, <1>13 DEF Spliced
  <1>15. Mono(Follows(h, g))
    <2>1. Len(h) >= 1 /\ Len(g) >= 2
      BY <1>3, <1>13, <1>2 DEF Spliced
    <2>. QED
      BY <2>1, <1>2, <1>3, MonoFollows
  <1>16. OpenOK(ys \o Tail(todo), Follows(h, g), ss2, lay2, n + 1)
    <2>1. ASSUME NEW level \in 1..n + 1
          PROVE  \/ ViewOf(level, ss2, lay2).open = {}
                 \/ /\ level \in 1..n
                    /\ StillOpen(ViewOf(level, ss2, lay2).open, ViewOf(level, scopes, lay), todo, g, ys, h,
                                 level)
      <3>1. CASE level = n + 1
        BY <3>1, <1>6, BlankLaid
      <3>2. CASE level = n
        <4>1. n \in 1..n
          BY <1>7
        <4>2. ViewOf(n, ss2, lay2) = l2
          BY <4>1, <1>5, <1>6
        <4>. QED
          BY <4>1, <4>2, <3>2
      <3>3. CASE level \in 1..n /\ level # n
        <4>1. ViewOf(level, ss2, lay2) = ViewOf(level, scopes, lay)
          BY <3>3, <1>5, <1>6 DEF SameBelow
        <4>. QED
          BY <4>1, <3>3 DEF StillOpen
      <3>. QED
        BY <3>1, <3>2, <3>3, <1>7
    <2>2. Opened(todo, g, scopes, lay, n, ys, h, ss2, lay2, n + 1)
      BY <2>1 DEF Opened
    <2>. QED
      BY <2>2, <1>4, <1>10, OpenFollows
  <1>17. NowOK(first, ss2[n + 1].last, ViewOf(n + 1, ss2, lay2), ys \o Tail(todo), Follows(h, g), n + 1, loops,
               is_void)
    <2>1. /\ first.level = n + 1 /\ first.loops = Len(loops) /\ first.depth = 0 /\ first.void = FALSE /\ first.end = 1
      BY DEF first, St
    <2>2. first.void = is_void
      BY <2>1, Zenon
    <2>3. ss2[n + 1].last.op = "CONSTANT"
      BY <1>6 DEF Nothing
    <2>4. Blank(kind).depth[Blank(kind).size] = 0
      BY BlankLaid
    <2>. QED
      BY <2>1, <2>2, <2>3, <2>4, <1>6 DEF NowOK, EndOK, Ending
  <1>18. Core(ys \o Tail(todo), Follows(h, g), ss2, ar2, lay2, constants, loops, hm2, n + 1, is_void)
    BY <1>4, <1>6, <1>8, <1>12, <1>14, <1>15, <1>16, <1>17 DEF Core
  <1>19. Ctx(Follows(h, g), lay2, hm2)'
    BY <1>18 DEF Ctx, Continue, ss2, ar2
  <1>. QED
    BY <1>19 DEF Known

(* What is there when a scope has been entered.                            *)
LEMMA EntersInto ==
  ASSUME NEW g, NEW lay, NEW hm, Ctx(g, lay, hm), todo # <<>>,
         NEW n, n = scope_index, NEW l2, NEW ss1, NEW ar1, NEW lay1, NEW m,
         Rewritten(n, l2, scopes, arrays, lay, ss1, ar1, lay1),
         Keeps(ViewOf(n, scopes, lay), l2, m),
         NEW kind, NEW lay2, lay2 = Widened(lay1, Len(ar1), kind),
         NEW ss2, ss2 = Entered(ss1, Len(Append(ar1, <<>>)))
  PROVE  /\ ss2 = Entered(ss1, Len(ar1) + 1)
         /\ ViewOf(n + 1, ss2, lay2).kind = kind /\ ViewOf(n, ss2, lay2) = l2
         /\ \A level \in 1..n : ss2[level].ins = scopes[level].ins
         /\ \A level \in 1..n - 1 : ViewOf(level, ss2, lay2) = ViewOf(level, scopes, lay)
         /\ ss2[n + 1].ins = Len(ar1) + 1 /\ Len(ar1) \in Nat
         /\ 0 \notin DOMAIN lay
         /\ n \in Nat /\ n >= 1
  <1>1. /\ LaysOK(arrays, lay) /\ ScopesOK(n, scopes, arrays, lay) /\ PoolOK(constants, n, scopes, lay)
    BY Doing
  <1>2. /\ LaysOK(ar1, lay1) /\ ScopesOK(n, ss1, ar1, lay1) /\ PoolOK(constants, n, ss1, lay1)
        /\ SlotsStay(scopes, lay, ss1, lay1) /\ ViewOf(n, ss1, lay1) = l2
        /\ SameBelow(n, scopes, lay, ss1, lay1)
    BY <1>1, RewrittenOK, PoolStays
  <1>3. Len(Append(ar1, <<>>)) = Len(ar1) + 1
    <2>1. IsSeq(ar1)
      BY <1>2 DEF LaysOK
    <2>2. PICK S : ar1 \in Seq(S)
      BY <2>1 DEF IsSeq
    <2> DEFINE S2 == S \cup {<<>>}
    <2>3. ar1 \in Seq(S2) /\ <<>> \in S2
      BY <2>2, SeqMonotonic
    <2>. HIDE DEF S2
    <2>. QED
      BY <2>3, AppendProperties
  <1>4. ss2 = Entered(ss1, Len(ar1) + 1)
    BY <1>3
  <1> DEFINE ar2 == Append(ar1, <<>>)
  <1>5. Deeper(n, ss1, ar1, lay1, constants, kind, ss2, ar2, lay2)
    BY <1>2, <1>4, EnteredOK
  <1>. HIDE DEF ar2
  <1>6. /\ \A level \in 1..n : ss2[level] = ss1[level] /\ ViewOf(level, ss2, lay2) = ViewOf(level, ss1, lay1)
        /\ ss2[n + 1] = [ins |-> Len(ar1) + 1, last |-> Nothing, prev |-> Nothing]
        /\ ViewOf(n + 1, ss2, lay2) = Blank(kind) /\ Len(ar1) \in Nat
    BY <1>5 DEF Deeper
  <1>7. n \in Nat /\ n >= 1 /\ n <= Len(scopes) /\ Len(scopes) \in Nat
    BY <1>1, LenProperties DEF ScopesOK
  <1>8. \A level \in 1..n : ss2[level].ins = scopes[level].ins
    BY <1>2, <1>6, <1>7 DEF SlotsStay
  <1>9. ViewOf(n, ss2, lay2) = l2
    BY <1>2, <1>6, <1>7
  <1>10. 0 \notin DOMAIN lay
    BY <1>1 DEF LaysOK
  <1>11. Blank(kind).kind = kind
    BY BlankLaid
  <1>12. ss2[n + 1].ins = Len(ar1) + 1
    BY <1>6
  <1>13. \A level \in 1..n - 1 : ViewOf(level, ss2, lay2) = ViewOf(level, scopes, lay)
    BY <1>2, <1>6, <1>7 DEF SameBelow
  <1>. QED
    BY <1>13, <1>4, <1>6, <1>7, <1>8, <1>9, <1>10, <1>11, <1>12

LEMMA FunctionLiteralOK ==
  ASSUME Prepared, Known, TablesOK(tables), NEW name \in Names \cup {NULL}, NEW parameters \in Parameters,
         FunctionLiteral(name, parameters)
  PROVE  Known' /\ TablesOK(tables')
  <1>1. PICK g, lay, hm : Ctx(g, lay, hm)
    BY DEF Known
  <1> DEFINE n == scope_index
             s == g[1]
             u == g[2]
             l == ViewOf(n, scopes, lay)
             k == Len(hm)
             c == St(n + 1, Len(loops), 0, FALSE, FALSE, 1)
             x == Block(Place(FALSE, TRUE), FALSE)
             y == [do |-> "end_function", parameters |-> Len(parameters)]
             ys == <<x, y>>
             lay2 == Widened(lay, Len(arrays), "function")
  <1>2. PICK N \in Nat : parameters \in [1..N -> Names]
    <2>1. Suite.args \subseteq Suite.args /\ \A j \in 0..Suite.args : j \in Nat
      OBVIOUS
    <2>2. PICK j \in 0..Suite.args : parameters \in [1..j -> Names]
      BY DEF Parameters
    <2>. QED
      BY <2>1, <2>2
  <1>3. TablesOK(tables') /\ Len(tables') = Len(tables) + 1
    BY <1>2, FunctionTablesOK DEF FunctionLiteral
  <1>4. scope_index' = n + 1
    BY <1>3 DEF scope_index
  <1>5. Running("expression") /\ Head(todo).kind = "value" /\ ~May("scope_in_update")
    BY NoLiberties DEF FunctionLiteral, NewExpression
  <1>6. /\ todo # <<>> /\ Head(todo) = todo[1] /\ s \in State /\ u \in State
        /\ PlaceOK(todo[1].place, s, scopes, lay, hm) /\ s.void = FALSE
        /\ todo[1].kind = "value" => u = Moved(s, s.depth + 1, 0)
        /\ todo[1].do \notin Patching
    BY <1>1, <1>5, InExpression
  <1>7. u = Moved(s, s.depth + 1, 0) /\ ~todo[1].place.update
    BY <1>5, <1>6 DEF FunctionLiteral, Here
  <1>8. s.update = FALSE
    <2>1. s.update \in BOOLEAN
      BY <1>6, StateFields
    <2>2. s.update => todo[1].place.update
      BY <1>6 DEF PlaceOK
    <2>. QED
      BY <2>1, <2>2, <1>7
  <1>9. /\ s.level = n /\ s.loops = Len(loops) /\ s.void = is_void /\ s.depth = l.depth[l.size]
    BY <1>1, <1>6, Now
  <1>10. HomesOK(loops, hm, lay) /\ Len(hm) = Len(loops) /\ Len(loops) \in Nat
    <2>1. HomesOK(loops, hm, lay)
      BY <1>1, <1>6, Doing
    <2>. QED
      BY <2>1, LenProperties DEF HomesOK
  <1>11. LaysOK(arrays, lay) /\ ScopesOK(n, scopes, arrays, lay)
    BY <1>1, <1>6, Doing
  <1>12. Rewritten(n, l, scopes, arrays, lay, scopes, arrays, lay) /\ Keeps(l, l, l.size)
    BY <1>11, Unwritten
  <1>13. RestMarked(l.size, todo, g, n)
    BY <1>1, <1>6, RestWithin
  <1>14. /\ arrays' = Append(arrays, <<>>) /\ scopes' = Entered(scopes, Len(Append(arrays, <<>>)))
         /\ Continue(ys) /\ UNCHANGED <<constants, loops, is_void>>
    BY DEF FunctionLiteral
  <1>. HIDE DEF n, s, u, l, k, c, x, y, ys, lay2
  <1>15. /\ scopes' = Entered(scopes, Len(arrays) + 1)
         /\ ViewOf(n + 1, scopes', lay2).kind = "function" /\ ViewOf(n, scopes', lay2) = l
         /\ n \in Nat /\ n >= 1
    <2>1. n = scope_index /\ lay2 = Widened(lay, Len(arrays), "function")
      BY DEF n, lay2
    <2>2. Keeps(ViewOf(n, scopes, lay), l, l.size)
      BY <1>12 DEF l
    <2>. QED
      BY <2>1, <2>2, <1>1, <1>6, <1>12, <1>14, EntersInto
  <1>16. /\ c \in State /\ c.level = n + 1 /\ c.loops = Len(loops) /\ c.depth = 0 /\ c.void = FALSE
         /\ c.update = FALSE /\ c.end = 1
    <2>1. n + 1 \in Nat /\ 0 \in Nat /\ FALSE \in BOOLEAN /\ 1 \in 0..2
      BY <1>15
    <2>. QED
      BY <2>1, <1>10 DEF c, St, State
  <1>17. u = St(n, Len(loops), l.depth[l.size] + 1, FALSE, FALSE, 0)
    <2>1. u = St(s.level, s.loops, s.depth + 1, FALSE, s.update, 0)
      BY <1>7 DEF Moved
    <2>. QED
      BY <2>1, <1>8, <1>9, Zenon
  <1>18. u.level = n /\ u.loops = Len(loops) /\ u.update = FALSE
    BY <1>17 DEF St
  <1>19. Joined(x, c, c, scopes', lay2, hm)
    <2>1. /\ x = [do |-> "block", place |-> Place(FALSE, TRUE), value |-> FALSE, got |-> FALSE]
          /\ Place(FALSE, TRUE) = [loop |-> FALSE, function |-> TRUE, update |-> FALSE]
      BY DEF x, Block, Place
    <2>2. Place(FALSE, TRUE) \in Places /\ ~Place(FALSE, TRUE).loop
      <3> DEFINE place == Place(FALSE, TRUE)
      <3>1. place = [loop |-> FALSE, function |-> TRUE, update |-> FALSE]
        BY <2>1
      <3>2. ~place.loop /\ place \in Places
        BY DEF Place, Places
      <3>. QED
        BY <3>2
    <2>3. PlaceOK(Place(FALSE, TRUE), c, scopes', lay2, hm)
      BY <2>2, <1>15, <1>16 DEF PlaceOK
    <2>4. /\ x \in [do : {"block"}, place : Places, value : BOOLEAN, got : BOOLEAN]
          /\ x.do = "block" /\ x.place = Place(FALSE, TRUE) /\ x.value = FALSE /\ x.got = FALSE
      BY <2>1, <2>2
    <2>5. c = St(c.level, c.loops, c.depth, FALSE, c.update, 1)
      <3>1. c = St(c.level, c.loops, c.depth, FALSE, FALSE, 1)
        BY <1>16 DEF c
      <3>. QED
        BY <3>1, <1>16, Zenon
    <2>6. BlockOK(x, c, c, scopes', lay2, hm)
      <3>1. (IF x.value THEN 2 ELSE 1) = 1 /\ ~x.got
        BY <2>4, Zenon
      <3>2. c = St(c.level, c.loops, c.depth, FALSE, c.update, IF x.value THEN 2 ELSE 1)
        BY <3>1, <2>5
      <3>. QED
        <4>1. c.end >= 1 /\ c.void = FALSE
          BY <1>16
        <4>2. PlaceOK(x.place, c, scopes', lay2, hm)
          BY <2>3, <2>4
        <4>. QED
          BY <3>1, <3>2, <4>1, <4>2, <2>4, Zenon DEF BlockOK
    <2>. QED
      BY <2>4, <2>6 DEF Joined
  <1>20. Joined(y, c, u, scopes', lay2, hm)
    <2>1. c.level - 1 = n /\ c.level >= 2
      BY <1>15, <1>16
    <2>2. u = St(c.level - 1, c.loops, l.depth[l.size] + 1, FALSE, FALSE, 0)
      BY <2>1, <1>16, <1>17
    <2>3. ViewOf(c.level - 1, scopes', lay2) = l /\ ViewOf(c.level, scopes', lay2).kind = "function"
      BY <2>1, <1>15, <1>16
    <2>4. EndFunctionOK(c, u, scopes', lay2)
      <3> DEFINE outer == ViewOf(c.level - 1, scopes', lay2)
      <3>1. outer = l
        BY <2>3
      <3>2. u = St(c.level - 1, c.loops, outer.depth[outer.size] + 1, FALSE, FALSE, 0)
        BY <2>2, <3>1
      <3>3. c.end >= 1 /\ c.void = FALSE /\ c.update = FALSE /\ c.depth = 0
        BY <1>16
      <3>. QED
        BY <3>2, <3>3, <2>1, <2>3, Zenon DEF EndFunctionOK
    <2>. QED
      BY <2>4 DEF Joined, y
  <1>21. Way(ys, c, u, scopes', lay2, hm)
    <2>1. Under(c, c) /\ Under(c, u)
      <3>1. n <= n + 1 /\ Len(loops) <= Len(loops) /\ n + 1 <= n + 1
        BY <1>10, <1>15
      <3>. QED
        BY <3>1, <1>16, <1>18 DEF Under
    <2>. QED
      BY <2>1, <1>6, <1>16, <1>19, <1>20, WayTwo DEF ys
  <1>22. PICK h : Path(ys, h, c, u, scopes', lay2, hm)
    BY <1>21 DEF Way
  <1>23. StillOpen(l.open, l, todo, g, ys, h, n)
    BY <1>6 DEF StillOpen
  <1>24. Known'
    <2>1. n = scope_index /\ lay2 = Widened(lay, Len(arrays), "function") /\ scope_index' = n + 1
      BY <1>4 DEF n, lay2
    <2>2. Keeps(ViewOf(n, scopes, lay), l, l.size) /\ StillOpen(l.open, ViewOf(n, scopes, lay), todo, g, ys, h, n)
      BY <1>12, <1>23 DEF l
    <2>3. k \in Nat /\ k <= Len(hm) /\ \A j \in 1..k : hm[j] = hm[j]
      BY <1>10 DEF k
    <2>4. g[2].loops <= k /\ g[2].update # TRUE
      <3>1. u.loops <= k
        BY <1>10, <1>18 DEF k
      <3>2. u.update # TRUE
        BY <1>18
      <3>. QED
        BY <3>1, <3>2 DEF u
    <2>5. Path(ys, h, St(n + 1, Len(loops), 0, FALSE, FALSE, 1), g[2], scopes', lay2, hm)
      BY <1>22 DEF c, u
    <2>6. is_void = FALSE
      BY <1>6, <1>9, Zenon
    <2>. QED
      BY <2>1, <2>2, <2>3, <2>4, <2>5, <2>6, <1>1, <1>6, <1>10, <1>12, <1>13, <1>14, <1>15, Enters
  <1>. QED
    BY <1>3, <1>24

(* The body of a loop is directly in it.                                   *)
LEMMA BodyPlace ==
  ASSUME NEW c, NEW ss, NEW lay, NEW hm, c.loops \in 1..Len(hm), hm[c.loops] = ss[c.level].ins,
         ViewOf(c.level, ss, lay).kind = "loop", ~c.update
  PROVE  /\ PlaceOK(Place(TRUE, FALSE), c, ss, lay, hm)
         /\ Place(TRUE, FALSE) \in Places
  <1>1. /\ Place(TRUE, FALSE) \in Places /\ ~Place(TRUE, FALSE).function
    BY DEF Place, Places
  <1>. QED
    BY <1>1 DEF PlaceOK

(* A block whose value is not used, at the beginning of a scope.           *)
Begins(c, n, k) == c = St(n, k, 0, FALSE, FALSE, 1)

LEMMA BlockBegins ==
  ASSUME NEW c, NEW place, NEW ss, NEW lay, NEW hm, PlaceOK(place, c, ss, lay, hm), place \in Places,
         NEW n, NEW k, Begins(c, n, k)
  PROVE  Joined(Block(place, FALSE), c, c, ss, lay, hm)
  <1> DEFINE x == Block(place, FALSE)
  <1>1. /\ c.level = n /\ c.loops = k /\ c.depth = 0 /\ c.void = FALSE /\ c.update = FALSE /\ c.end = 1
    BY DEF Begins, St
  <1>2. /\ x \in [do : {"block"}, place : Places, value : BOOLEAN, got : BOOLEAN]
        /\ x.do = "block" /\ x.place = place /\ x.value = FALSE /\ x.got = FALSE
    BY DEF Block
  <1>3. c = St(c.level, c.loops, c.depth, FALSE, c.update, 1)
    BY <1>1, Zenon DEF Begins
  <1>. HIDE DEF x
  <1>4. (IF x.value THEN 2 ELSE 1) = 1 /\ ~x.got
    BY <1>2, Zenon
  <1>5. c = St(c.level, c.loops, c.depth, FALSE, c.update, IF x.value THEN 2 ELSE 1)
    BY <1>3, <1>4
  <1>6. c.end >= 1 /\ c.void = FALSE
    <2>1. c.end >= 1
      <3>1. c.end = 1
        BY <1>1
      <3>. QED
        BY <3>1
    <2>2. c.void = FALSE
      BY <1>1
    <2>. QED
      BY <2>1, <2>2
  <1>7. PlaceOK(x.place, c, ss, lay, hm)
    BY <1>2
  <1>8. BlockOK(x, c, c, ss, lay, hm)
    BY <1>2, <1>4, <1>5, <1>6, <1>7, Zenon DEF BlockOK
  <1>. QED
    BY <1>2, <1>8 DEF Joined, x

LEMMA LoopBodyOK ==
  ASSUME Known, TablesOK(tables), LoopBody
  PROVE  Known' /\ TablesOK(tables')
  <1>1. PICK g, lay, hm : Ctx(g, lay, hm)
    BY DEF Known
  <1> DEFINE n == scope_index
             s == g[1]
             u == g[2]
             l == ViewOf(scope_index, scopes, lay)
             d == s.depth - 1
             k == Len(hm) - 1
             e == Emit(Current, "JMP_IF_FALSE", <<JUMP_SENTINEL>>)
             c == St(n + 1, Len(loops), 0, FALSE, FALSE, 1)
             it == todo[1]
             x == Block(Place(TRUE, FALSE), FALSE)
             y == [do |-> "end_body", place |-> it.place, hasUpdate |-> it.hasUpdate,
                   before |-> it.before, jump |-> l.size]
             ys == <<x, y>>
             ss1 == ScopesWith(n, e)
             ar1 == ArraysWith(n, e)
  <1>2. Running("body") /\ "body" \notin Patching
    BY DEF LoopBody, Patching
  <1>3. /\ todo # <<>> /\ it.do = "body" /\ it.do \notin Patching
        /\ Head(todo) = it /\ s \in State /\ u \in State
        /\ s.depth \in Nat /\ Joined(it, s, u, scopes, lay, hm)
        /\ l.depth[l.size] = s.depth /\ s.level = n /\ s.loops = Len(loops) /\ s.void = is_void
    BY <1>1, <1>2, Emitting
  <1>4. BodyOK(it, s, u, scopes, lay, hm)
    BY <1>3 DEF Joined
  <1>5. /\ PlaceOK(it.place, u, scopes, lay, hm) /\ s.void = FALSE /\ s.depth >= 1
        /\ Waits(s.loops, hm) /\ PlaceAt(l, it.before, s.depth - 1)
        /\ u = St(s.level, s.loops - 1, s.depth - 1, TRUE, FALSE, 1)
    BY <1>3, <1>4 DEF BodyOK
  <1>6. d \in Nat /\ d + 1 = s.depth
    BY <1>3, <1>5
  <1>7. /\ Laid(Current.code, l) /\ l.size = Len(Current.code) /\ l.size \in Nat
        /\ Current.last = scopes[scope_index].last
    BY <1>1, <1>3, Now
  <1>8. Current.last \in Mark
    <2>1. ScopesOK(n, scopes, arrays, lay)
      BY <1>1, <1>3, Doing
    <2>2. scopes[n] \in Slot
      BY <2>1 DEF ScopesOK
    <2>. QED
      BY <2>2, <1>7 DEF Slot
  <1>9. HomesOK(loops, hm, lay)
    BY <1>1, <1>3, Doing
  <1>10. /\ hm \in Seq(Nat) /\ Len(hm) = Len(loops) /\ Len(hm) \in Nat
    BY <1>9, LenProperties DEF HomesOK
  <1>11. Len(hm) >= 1 /\ hm # <<>> /\ hm[Len(hm)] = 0 /\ k \in Nat /\ k + 1 = Len(hm)
    BY <1>3, <1>5, <1>10 DEF Waits
  <1>12. tables' = ST!new_enclosed_symbol_table(tables)
    BY DEF LoopBody
  <1>13. TablesOK(tables') /\ Len(tables') = Len(tables) + 1
    BY <1>12, EncloseTables
  <1>14. scope_index' = n + 1
    BY <1>13 DEF scope_index
  <1>15. /\ arrays' = Append(ar1, <<>>) /\ scopes' = Entered(ss1, Len(Append(ar1, <<>>)))
         /\ UNCHANGED <<constants, loops, is_void>>
    BY DEF LoopBody
  <1>16. Continue(ys)
    BY <1>3, <1>7 DEF LoopBody, Here
  <1>17. "JMP_IF_FALSE" \in Jumps
    BY DEF Jumps
  <1>18. /\ x = Block(Place(TRUE, FALSE), FALSE) /\ y.do = "end_body" /\ y.place = it.place
         /\ y.before = it.before /\ y.jump = l.size
    OBVIOUS
  <1>. HIDE DEF n, s, u, l, d, k, e, c, it, x, y, ss1, ar1
  <1>19. Fits(l, "JMP_IF_FALSE", <<JUMP_SENTINEL>>, d)
    BY <1>3, <1>6, <1>17, FitsJump
  <1>20. PICK l2 : Adds(e, l2, l, "JMP_IF_FALSE", d)
    BY <1>7, <1>8, <1>19, EmitOn DEF e
  <1>21. /\ Laid(e.code, l2) /\ Grows(l, l2) /\ e.last \in Mark /\ e.prev \in Mark
         /\ l2.depth[l2.size] = d /\ l2.open = l.open \cup {l.size}
         /\ JumpAt(l2, l.size, "JMP_IF_FALSE", s.depth)
    BY <1>3, <1>17, <1>20 DEF Adds, JumpAt
  <1> DEFINE lay1 == Redrawn(lay, l2)
             lay2 == Widened(lay1, Len(ar1), "loop")
             new == Len(ar1) + 1
             hm2 == Homed(hm, new)
  <1>22. Rewritten(n, l2, scopes, arrays, lay, ss1, ar1, lay1)
    BY <1>1, <1>3, <1>21, WriteOn DEF n, it, ss1, ar1
  <1>23. Keeps(l, l2, l.size)
    BY <1>7, <1>21, GrowsKeeps
  <1>24. RestMarked(l.size, todo, g, n)
    BY <1>1, <1>3, RestWithin DEF l, n, it
  <1>. HIDE DEF lay1
  <1>25. /\ scopes' = Entered(ss1, Len(ar1) + 1)
         /\ ViewOf(n + 1, scopes', lay2).kind = "loop" /\ ViewOf(n, scopes', lay2) = l2
         /\ \A level \in 1..n : scopes'[level].ins = scopes[level].ins
         /\ \A level \in 1..n - 1 : ViewOf(level, scopes', lay2) = ViewOf(level, scopes, lay)
         /\ scopes'[n + 1].ins = new /\ new \in Nat
         /\ 0 \notin DOMAIN lay
         /\ n \in Nat /\ n >= 1
    <2>1. n = scope_index /\ lay2 = Widened(lay1, Len(ar1), "loop")
      BY DEF n
    <2>2. Keeps(ViewOf(n, scopes, lay), l2, l.size)
      BY <1>23 DEF l, n
    <2>3. scopes' = Entered(ss1, Len(Append(ar1, <<>>)))
      BY <1>15
    <2>. HIDE DEF lay2
    <2>4. /\ scopes' = Entered(ss1, Len(ar1) + 1)
          /\ ViewOf(n + 1, scopes', lay2).kind = "loop" /\ ViewOf(n, scopes', lay2) = l2
          /\ \A level \in 1..n : scopes'[level].ins = scopes[level].ins
          /\ \A level \in 1..n - 1 : ViewOf(level, scopes', lay2) = ViewOf(level, scopes, lay)
          /\ scopes'[n + 1].ins = Len(ar1) + 1 /\ Len(ar1) \in Nat
          /\ 0 \notin DOMAIN lay
          /\ n \in Nat /\ n >= 1
      BY <2>1, <2>2, <2>3, <1>1, <1>3, <1>22, EntersInto
    <2>. QED
      BY <2>4
  <1>26. /\ HomesOK(loops, hm2, lay) /\ hm2 \in Seq(Nat) /\ Len(hm2) = Len(hm)
         /\ hm2[Len(hm)] = new /\ \A j \in 1..Len(hm) - 1 : hm2[j] = hm[j]
    <2>1. hm2 = Homed(hm, new)
      OBVIOUS
    <2>2. new \in Nat /\ 0 \notin DOMAIN lay
      BY <1>25
    <2>. HIDE DEF hm2, new
    <2>. QED
      BY <2>1, <2>2, <1>9, <1>11, HomesSet
  <1>27. k <= Len(hm) /\ k <= Len(hm2) /\ \A j \in 1..k : hm2[j] = hm[j]
    BY <1>10, <1>11, <1>26
  <1>. HIDE DEF lay2, hm2, new
  <1>28. /\ c \in State /\ c.level = n + 1 /\ c.loops = Len(loops) /\ c.depth = 0 /\ c.void = FALSE
         /\ c.update = FALSE /\ c.end = 1
    BY <1>10, <1>25 DEF c, St, State
  <1>29. u.level = n /\ u.loops = k /\ u.update = FALSE /\ u = St(n, k, d, TRUE, FALSE, 1)
    <2>1. s.loops - 1 = k
      BY <1>3, <1>10, <1>11
    <2>2. u = St(n, k, d, TRUE, FALSE, 1)
      BY <2>1, <1>3, <1>5 DEF d
    <2>. QED
      BY <2>2 DEF St
  <1>30. PlaceOK(it.place, u, scopes', lay2, hm2)
    <2>1. Stays(n, k, l.size, scopes, lay, hm, scopes', lay2, hm2)
      BY <1>23, <1>25, <1>27 DEF Stays, l, n
    <2>2. u.level \in 1..n /\ u.loops <= k
      BY <1>11, <1>25, <1>29
    <2>3. n \in Nat /\ k \in Nat /\ hm \in Seq(Nat) /\ hm2 \in Seq(Nat) /\ u \in State
      BY <1>3, <1>10, <1>11, <1>25, <1>26
    <2>4. PlaceOK(it.place, u, scopes, lay, hm)
      BY <1>5
    <2>. QED
      BY <2>1, <2>2, <2>3, <2>4, PlaceStays
  <1>31. Joined(x, c, c, scopes', lay2, hm2)
    <2>1. c.loops = Len(hm) /\ Len(hm) \in 1..Len(hm2)
      BY <1>10, <1>11, <1>26, <1>28
    <2>2. hm2[c.loops] = scopes'[c.level].ins /\ ViewOf(c.level, scopes', lay2).kind = "loop" /\ ~c.update
      BY <2>1, <1>25, <1>26, <1>28
    <2>3. PlaceOK(Place(TRUE, FALSE), c, scopes', lay2, hm2) /\ Place(TRUE, FALSE) \in Places
      BY <2>1, <2>2, BodyPlace
    <2>4. Begins(c, n + 1, Len(loops))
      BY DEF c, Begins
    <2>. QED
      BY <2>3, <2>4, <1>18, BlockBegins
  <1>32. Joined(y, c, u, scopes', lay2, hm2)
    <2>1. c.level - 1 = n /\ c.level >= 2 /\ c.loops - 1 = k
      <3>1. n \in Nat /\ n >= 1 /\ k \in Nat /\ k + 1 = Len(loops)
        BY <1>10, <1>11, <1>25
      <3>2. c.level = n + 1 /\ c.loops = k + 1
        BY <3>1, <1>28
      <3>. QED
        BY <3>1, <3>2
    <2>2. c.loops = Len(hm) /\ Len(hm) \in 1..Len(hm2)
      BY <1>10, <1>11, <1>26, <1>28
    <2>3. hm2[c.loops] = scopes'[c.level].ins /\ ViewOf(c.level, scopes', lay2).kind = "loop"
      BY <2>2, <1>25, <1>26, <1>28
    <2> DEFINE outer == ViewOf(c.level - 1, scopes', lay2)
    <2>4. outer = l2
      BY <2>1, <1>25
    <2>. HIDE DEF outer
    <2>5. JumpAt(outer, y.jump, "JMP_IF_FALSE", outer.depth[outer.size] + 1)
      BY <2>4, <1>6, <1>18, <1>21
    <2>6. PlaceAt(outer, y.before, outer.depth[outer.size])
      BY <2>4, <1>5, <1>18, <1>21 DEF PlaceAt, Grows, d
    <2>7. u = St(c.level - 1, c.loops - 1, outer.depth[outer.size], TRUE, FALSE, 1)
      BY <2>1, <2>4, <1>21, <1>29
    <2>8. PlaceOK(y.place, u, scopes', lay2, hm2)
      BY <1>18, <1>30
    <2>9. c.end >= 1 /\ c.void = FALSE /\ c.update = FALSE /\ c.depth = 0 /\ c.loops \in 1..Len(hm2)
      BY <2>2, <1>28
    <2>10. EndBodyOK(y, c, u, scopes', lay2, hm2)
      BY <2>1, <2>3, <2>5, <2>6, <2>7, <2>8, <2>9, Zenon DEF EndBodyOK, outer
    <2>. QED
      BY <2>10, <1>18 DEF Joined
  <1>33. Way(ys, c, u, scopes', lay2, hm2)
    <2>1. Under(c, c) /\ Under(c, u)
      <3>1. n <= n + 1 /\ k <= Len(loops) /\ n + 1 <= n + 1 /\ Len(loops) <= Len(loops)
        BY <1>10, <1>11, <1>25
      <3>. QED
        BY <3>1, <1>28, <1>29 DEF Under
    <2>. QED
      BY <2>1, <1>3, <1>28, <1>31, <1>32, WayTwo
  <1>34. PICK h : Path(ys, h, c, u, scopes', lay2, hm2)
    BY <1>33 DEF Way
  <1>35. StillOpen(l2.open, l, todo, g, ys, h, n)
    <2>1. Len(ys) = 2 /\ ys[2] = y /\ 2 \in 1..Len(ys)
      OBVIOUS
    <2>2. h[2 + 1] = u
      BY <2>1, <1>34 DEF Path
    <2>. HIDE DEF ys
    <2>3. ASSUME NEW p, p \in l2.open
          PROVE  p \in l.open \/ (ys[2].do \in Patching /\ ys[2].jump = p /\ h[2 + 1].level = n)
      BY <2>1, <2>2, <2>3, <1>18, <1>21, <1>29 DEF Patching
    <2>. QED
      BY <2>1, <2>3, <1>3 DEF StillOpen, it
  <1>36. Known'
    <2>1. n = scope_index /\ lay2 = Widened(lay1, Len(ar1), "loop") /\ scope_index' = n + 1
      BY <1>14 DEF n, lay2
    <2>2. /\ Keeps(ViewOf(n, scopes, lay), l2, l.size)
          /\ StillOpen(l2.open, ViewOf(n, scopes, lay), todo, g, ys, h, n)
      BY <1>23, <1>35 DEF l, n
    <2>3. g[2].loops <= k /\ g[2].update # TRUE
      <3>1. u.loops <= k
        BY <1>11, <1>29
      <3>2. u.update # TRUE
        BY <1>29
      <3>. QED
        BY <3>1, <3>2 DEF u
    <2>4. Path(ys, h, St(n + 1, Len(loops), 0, FALSE, FALSE, 1), g[2], scopes', lay2, hm2)
      BY <1>34 DEF c, u
    <2>5. is_void = FALSE
      BY <1>3, <1>5, Zenon
    <2>6. todo[1].do \notin Patching
      BY <1>3 DEF it
    <2>. HIDE DEF ys
    <2>. QED
      <3>1. /\ arrays' = Append(ar1, <<>>) /\ scopes' = Entered(ss1, Len(ar1) + 1)
            /\ UNCHANGED <<constants, loops, is_void>>
        BY <1>15, <1>25
      <3>2. k \in Nat /\ HomesOK(loops, hm2, lay) /\ todo # <<>>
        BY <1>3, <1>11, <1>26
      <3>. QED
        BY <3>1, <3>2, <2>1, <2>2, <2>3, <2>4, <2>5, <2>6, <1>1, <1>16, <1>22, <1>24, <1>27, Enters
  <1>. QED
    BY <1>13, <1>36

----------------------------------------------------------------------------
(* Scopes are left *)

Pieces == [code : Seq(Byte), last : Mark, prev : Mark]

LEMMA EmitPiece ==
  ASSUME NEW e \in Pieces, NEW op \in OpSet, NEW args, ArgsOK(op, args)
  PROVE  Emit(e, op, args) \in Pieces
  <1>1. e.code \in Seq(Byte) /\ e.last \in Mark
    BY DEF Pieces
  <1>2. make_instruction(op, args) \in Seq(Byte)
    BY Made
  <1>3. e.code \o make_instruction(op, args) \in Seq(Byte) /\ Len(e.code) \in Nat
    BY <1>1, <1>2, ConcatProperties, LenProperties
  <1>. QED
    BY <1>1, <1>3 DEF Emit, Pieces, Mark

(* More code, with n values more on the stack at its end.                  *)
Loads(r, l, l2, n) ==
  /\ r \in Pieces /\ Laid(r.code, l2) /\ Grows(l, l2) /\ l2.open = l.open
  /\ l2.depth[l2.size] = l.depth[l.size] + n

LEMMA LoadsOne ==
  ASSUME NEW r, NEW l, NEW l2, NEW n, n \in Nat, Loads(r, l, l2, n), NEW code, Laid(code, l),
         NEW symbol, symbol \in ST!Symbol
  PROVE  \E l3 : Loads(load_symbol(r, symbol), l, l3, n + 1)
  <1>1. /\ r \in Pieces /\ Laid(r.code, l2) /\ Grows(l, l2) /\ l2.open = l.open
        /\ l2.depth[l2.size] = l.depth[l.size] + n
    BY DEF Loads
  <1>2. PICK op \in {"GET_GLOBAL", "GET_LOCAL", "GET_BUILTIN", "GET_FREE", "CURRENT_CLOSURE"} : \E args :
          load_symbol(r, symbol) = Emit(r, op, args) /\ ArgsOK(op, args)
    BY LoadSymbol
  <1>3. PICK args : load_symbol(r, symbol) = Emit(r, op, args) /\ ArgsOK(op, args)
    BY <1>2
  <1> DEFINE d == l.depth[l.size] + n
  <1>4. l.size \in Nat /\ l2.size \in Nat /\ l.depth[l.size] \in Nat
    <2>1. l.size \in DOMAIN l.depth
      BY DEF Laid
    <2>. QED
      BY <2>1, <1>1, LaidFacts
  <1>5. d \in Nat /\ d + 1 = l.depth[l.size] + (n + 1)
    BY <1>4
  <1>. HIDE DEF d
  <1>6. Fits(l2, op, args, d + 1) /\ op \notin Jumps
    <2>1. l2.depth[l2.size] = d
      BY <1>1 DEF d
    <2>. QED
      BY <2>1, <1>2, <1>3, <1>5, FitsPush
  <1>7. r.last \in Mark
    BY <1>1 DEF Pieces
  <1>8. PICK l3 : Adds(Emit(r, op, args), l3, l2, op, d + 1)
    BY <1>1, <1>6, <1>7, EmitOn
  <1>9. /\ Laid(Emit(r, op, args).code, l3) /\ Grows(l2, l3) /\ l3.open = l.open
        /\ l3.depth[l3.size] = l.depth[l.size] + (n + 1)
    BY <1>1, <1>5, <1>6, <1>8 DEF Adds
  <1>10. l3.size \in Nat
    BY <1>9, LaidFacts
  <1>11. Grows(l, l3)
    BY <1>1, <1>4, <1>9, <1>10, GrowsOn
  <1>12. Emit(r, op, args) \in Pieces
    <2>1. op \in OpSet
      BY <1>6 DEF Fits
    <2>. QED
      BY <2>1, <1>1, <1>3, EmitPiece
  <1>. QED
    BY <1>3, <1>9, <1>11, <1>12 DEF Loads

(* What the enclosing code does before it makes a closure.                 *)
LEMMA LoadingAdds ==
  ASSUME NEW e, e \in Pieces, NEW l, Laid(e.code, l), NEW captured, captured \in Seq(ST!Symbol),
         NEW kept, kept = 1..Len(captured)
  PROVE  \E l2 : Loads(Loading(e, captured, kept), l, l2, Len(captured))
  <1> DEFINE N == Len(captured)
             S == Pieces
             F == [n \in Nat |-> [r \in S |-> IF n \in 1..N THEN load_symbol(r, captured[n]) ELSE r]]
             G(f, n) == IF n = 0 THEN e
                        ELSE IF n \in kept THEN load_symbol(f[n - 1], captured[n]) ELSE f[n - 1]
             d == CHOOSE f : f = [n \in 0..N |-> G(f, n)]
  <1>1. N \in Nat /\ \A n \in 1..N : captured[n] \in ST!Symbol
    BY LenProperties
  <1>2. F \in [Nat -> [S -> S]]
    <2>1. ASSUME NEW n \in Nat, NEW r \in S
          PROVE  (IF n \in 1..N THEN load_symbol(r, captured[n]) ELSE r) \in S
      <3>1. CASE n \in 1..N
        <4>1. PICK op \in {"GET_GLOBAL", "GET_LOCAL", "GET_BUILTIN", "GET_FREE", "CURRENT_CLOSURE"} :
                \E args : load_symbol(r, captured[n]) = Emit(r, op, args) /\ ArgsOK(op, args)
          BY <3>1, <1>1, LoadSymbol
        <4>2. op \in OpSet
          BY <4>1, OpsExist
        <4>. QED
          BY <3>1, <4>1, <4>2, EmitPiece
      <3>. QED
        BY <3>1
    <2>. HIDE DEF S
    <2>. QED
      BY <2>1
  <1>3. Loading(e, captured, kept) = d[N]
    BY DEF Loading
  <1>4. PICK g \in [0..N -> S] : Traces(g, N, e, F)
    <2>1. e \in S
      OBVIOUS
    <2>. HIDE DEF S, F
    <2>. QED
      BY <2>1, <1>1, <1>2, TraceExists
  <1>5. \E f : f = [n \in 0..N |-> G(f, n)]
    <2>1. \A n \in 0..N : g[n] \in S
      BY <1>4
    <2>2. ASSUME NEW n \in 0..N
          PROVE  g[n] = G(g, n)
      <3>1. CASE n = 0
        BY <3>1, <1>4 DEF Traces
      <3>2. CASE n # 0
        <4>1. n \in 1..N /\ n \in Nat /\ n - 1 \in 0..N
          BY <3>2, <1>1
        <4>2. g[n] = F[n][g[n - 1]]
          BY <4>1, <1>4 DEF Traces
        <4>3. g[n - 1] \in S
          BY <4>1, <2>1
        <4>. HIDE DEF S
        <4>4. g[n] = load_symbol(g[n - 1], captured[n])
          BY <4>1, <4>2, <4>3
        <4>. QED
          BY <4>1, <4>4, <3>2
      <3>. QED
        BY <3>1, <3>2
    <2>3. g = [n \in 0..N |-> g[n]]
      BY <1>4
    <2>4. g = [n \in 0..N |-> G(g, n)]
      BY <2>2, <2>3
    <2>. QED
      BY <2>4
  <1>6. d = [n \in 0..N |-> G(d, n)]
    BY <1>5
  <1>. HIDE DEF d
  <1>7. d[0] = e /\ \A n \in 1..N : d[n] = load_symbol(d[n - 1], captured[n])
    <2>1. ASSUME NEW n \in 1..N
          PROVE  d[n] = load_symbol(d[n - 1], captured[n])
      <3>1. n \in 0..N /\ n # 0 /\ n \in kept
        BY <1>1
      <3>. QED
        BY <3>1, <1>6
    <2>2. d[0] = e
      BY <1>1, <1>6
    <2>. QED
      BY <2>1, <2>2
  <1>. HIDE DEF S, F, N
  <1> DEFINE P(k) == \E l2 : Loads(d[k], l, l2, k)
  <1>8. P(0)
    <2>1. Grows(l, l) /\ l.depth[l.size] = l.depth[l.size] + 0
      <3>1. l.size \in Nat /\ l.size \in DOMAIN l.depth
        BY LaidFacts DEF Laid
      <3>2. l.depth[l.size] \in Nat
        BY <3>1, LaidFacts
      <3>. QED
        BY <3>1, <3>2 DEF Grows
    <2>2. Loads(d[0], l, l, 0)
      BY <2>1, <1>7 DEF Loads
    <2>. QED
      BY <2>2
  <1>9. ASSUME NEW k \in 1..N, P(k - 1)
        PROVE  P(k)
    <2>1. k - 1 \in Nat /\ (k - 1) + 1 = k /\ captured[k] \in ST!Symbol
      BY <1>1
    <2>2. PICK l2 : Loads(d[k - 1], l, l2, k - 1)
      BY <1>9
    <2>3. d[k] = load_symbol(d[k - 1], captured[k])
      BY <1>7
    <2>4. \E l3 : Loads(load_symbol(d[k - 1], captured[k]), l, l3, (k - 1) + 1)
      BY <2>1, <2>2, LoadsOne
    <2>. QED
      BY <2>1, <2>3, <2>4
  <1>10. P(N)
    <2>. HIDE DEF P
    <2> DEFINE Bad == {k \in Nat : k <= N /\ ~P(k)}
    <2>1. SUFFICES ASSUME Bad # {}
                   PROVE  FALSE
      <3>1. N \in Nat /\ N <= N
        BY <1>1
      <3>. QED
        BY <3>1
    <2>2. PICK m \in Bad : \A k \in Bad : m <= k
      BY <2>1, Least
    <2>3. m # 0
      BY <2>2, <1>8
    <2>4. m \in 1..N /\ m - 1 \in Nat /\ m - 1 <= N /\ ~(m <= m - 1)
      BY <2>2, <2>3, <1>1
    <2>5. P(m - 1)
      BY <2>2, <2>4
    <2>6. P(m)
      BY <2>4, <2>5, <1>9
    <2>. QED
      BY <2>2, <2>6
  <1>. QED
    BY <1>3, <1>10 DEF N

(* The code of an open scope is replaced.                                  *)
LEMMA RewriteAt ==
  ASSUME NEW n, NEW ss, NEW ar, NEW lay, LaysOK(ar, lay), ScopesOK(n, ss, ar, lay),
         NEW ss2, ss2 \in Seq(Slot), Len(ss2) = Len(ss),
         \A level \in 1..Len(ss) : ss2[level].ins = ss[level].ins,
         NEW code, NEW l2, Laid(code, l2),
         NEW ar2, ar2 = [ar EXCEPT ![ss[n].ins] = code],
         NEW lay2, lay2 = [lay EXCEPT ![ss[n].ins] = l2]
  PROVE  Rewritten(n, l2, ss, ar, lay, ss2, ar2, lay2)
  <1> DEFINE ins == ss[n].ins
  <1>1. /\ ss \in Seq(Slot) /\ n \in 1..Len(ss) /\ ins \in 1..Len(ar)
        /\ IsSeq(ar) /\ DOMAIN lay = 1..Len(ar)
    <2>1. n \in 1..Len(ss) /\ \A level \in 1..n : ss[level].ins \in 1..Len(ar)
      BY DEF ScopesOK
    <2>2. n \in 1..n
      BY <2>1
    <2>. QED
      BY <2>1, <2>2 DEF ScopesOK, LaysOK
  <1>2. PICK S : ar \in Seq(S)
    BY <1>1 DEF IsSeq
  <1>3. /\ ar2 \in Seq(S \cup {code}) /\ Len(ar2) = Len(ar)
        /\ ar2[ins] = code
        /\ \A c \in 1..Len(ar) : c # ins => ar2[c] = ar[c]
    <2>1. ar \in Seq(S \cup {code}) /\ code \in S \cup {code}
      BY <1>2, SeqMonotonic
    <2> DEFINE ar3 == [ar EXCEPT ![ins] = code]
    <2>2. ar2 = ar3
      OBVIOUS
    <2>3. ins \in 1..Len(ar)
      BY <1>1
    <2>. HIDE DEF ins
    <2>4. /\ ar3 \in Seq(S \cup {code}) /\ Len(ar3) = Len(ar)
          /\ ar3[ins] = code
          /\ \A c \in 1..Len(ar) : c # ins => ar3[c] = ar[c]
      BY <2>1, <2>3, ExceptSeq
    <2>. HIDE DEF ar3
    <2>. QED
      BY <2>2, <2>4
  <1>4. /\ DOMAIN lay2 = DOMAIN lay
        /\ \A c \in DOMAIN lay : c # ins => lay2[c] = lay[c]
        /\ lay2[ins] = l2
    BY <1>1
  <1>5. IsSeq(ar2)
    BY <1>3 DEF IsSeq
  <1>6. Laid(ar2[ss[n].ins], l2)
    BY <1>3
  <1>. QED
    BY <1>3, <1>4, <1>5, <1>6 DEF Rewritten

(* The last two instructions of an open scope are replaced.                *)
LEMMA SlotsWith ==
  ASSUME NEW n, scopes \in Seq(Slot), n \in 1..Len(scopes), NEW e, e.last \in Mark, e.prev \in Mark,
         NEW ss2, ss2 = ScopesWith(n, e)
  PROVE  /\ ss2 \in Seq(Slot) /\ Len(ss2) = Len(scopes)
         /\ \A level \in 1..Len(scopes) : ss2[level].ins = scopes[level].ins
         /\ ss2[n].last = e.last
  <1> DEFINE slot == [scopes[n] EXCEPT !.last = e.last, !.prev = e.prev]
  <1>1. ss2 = [scopes EXCEPT ![n] = slot]
    <2>1. ss2 = [scopes EXCEPT ![n].last = e.last, ![n].prev = e.prev]
      BY DEF ScopesWith
    <2>2. DOMAIN scopes = 1..Len(scopes)
      BY LenProperties
    <2>. QED
      BY <2>1, <2>2
  <1>2. scopes[n] \in Slot
    BY ElementOfSeq
  <1>3. slot \in Slot /\ slot.ins = scopes[n].ins /\ slot.last = e.last
    BY <1>2 DEF Slot
  <1>. HIDE DEF slot
  <1>4. /\ ss2 \in Seq(Slot) /\ Len(ss2) = Len(scopes)
        /\ ss2[n] = slot
        /\ \A level \in 1..Len(scopes) : level # n => ss2[level] = scopes[level]
    BY <1>1, <1>3, ExceptSeq
  <1>. QED
    BY <1>3, <1>4

(* A body that is finished becomes a constant.                             *)
LEMMA PoolSealed ==
  ASSUME NEW cs, NEW n, NEW ss, NEW ar, NEW lay, PoolOK(cs, n, ss, lay), ScopesOK(n, ss, ar, lay),
         LaysOK(ar, lay), n >= 2,
         NEW c, c.kind \in {"function", "loop"}, c.ins = ss[n].ins,
         ViewOf(n, ss, lay).kind = c.kind, Sealed(ViewOf(n, ss, lay))
  PROVE  PoolOK(Append(cs, c), n - 1, ss, lay) /\ ScopesOK(n - 1, ss, ar, lay)
  <1>1. PICK S : cs \in Seq(S)
    BY DEF PoolOK, IsSeq
  <1> DEFINE T == S \cup {c}
             b == Append(cs, c)
  <1>2. cs \in Seq(T) /\ c \in T
    BY <1>1, SeqMonotonic
  <1>. HIDE DEF T
  <1>3. /\ b \in Seq(T) /\ Len(b) = Len(cs) + 1 /\ Len(cs) \in Nat
        /\ \A i \in 1..Len(cs) : b[i] = cs[i]
        /\ b[Len(cs) + 1] = c
    BY <1>2, AppendProperties, LenProperties
  <1>. HIDE DEF b
  <1>4. /\ ss \in Seq(Slot) /\ n \in 1..Len(ss)
        /\ \A level \in 1..n : ss[level].ins \in 1..Len(ar)
        /\ \A i, j \in 1..n : ss[i].ins = ss[j].ins => i = j
    BY DEF ScopesOK
  <1>5. n \in Nat /\ n \in 1..n /\ n - 1 \in 1..Len(ss)
    BY <1>4, LenProperties
  <1>6. \A level \in 1..n - 1 : level \in 1..n /\ level # n
    BY <1>5
  <1>7. c.ins \in DOMAIN lay /\ \A level \in 1..n - 1 : ss[level].ins # c.ins
    BY <1>4, <1>5, <1>6 DEF LaysOK
  <1>8. ASSUME NEW i \in 1..Len(b), b[i].kind # "value"
        PROVE  /\ b[i].kind \in {"function", "loop"} /\ b[i].ins \in DOMAIN lay
               /\ \A level \in 1..n - 1 : ss[level].ins # b[i].ins
               /\ lay[b[i].ins].kind = b[i].kind /\ Sealed(lay[b[i].ins])
    <2>1. CASE i = Len(cs) + 1
      <3>1. b[i] = c
        BY <2>1, <1>3
      <3>2. lay[c.ins].kind = c.kind /\ Sealed(lay[c.ins])
        BY DEF ViewOf
      <3>. QED
        BY <3>1, <3>2, <1>7
    <2>2. CASE i # Len(cs) + 1
      <3>1. i \in 1..Len(cs)
        BY <2>2, <1>3
      <3>2. b[i] = cs[i]
        BY <3>1, <1>3
      <3>3. /\ cs[i].kind \in {"function", "loop"} /\ cs[i].ins \in DOMAIN lay
            /\ \A level \in 1..n : ss[level].ins # cs[i].ins
            /\ lay[cs[i].ins].kind = cs[i].kind /\ Sealed(lay[cs[i].ins])
        BY <3>1, <3>2, <1>8 DEF PoolOK
      <3>. QED
        BY <3>2, <3>3, <1>6
    <2>. QED
      BY <2>1, <2>2
  <1>9. IsSeq(b)
    BY <1>3 DEF IsSeq
  <1>10. PoolOK(b, n - 1, ss, lay)
    BY <1>8, <1>9 DEF PoolOK
  <1>11. ScopesOK(n - 1, ss, ar, lay)
    BY <1>4, <1>5, <1>6 DEF ScopesOK
  <1>. QED
    BY <1>10, <1>11 DEF b

(* The innermost scope is closed: its code is laid out as l1, the code     *)
(* around it as l2.                                                        *)
Shallower(n, l2, ss, lay, cs2, ss2, ar2, lay2) ==
  /\ LaysOK(ar2, lay2) /\ ScopesOK(n - 1, ss2, ar2, lay2) /\ PoolOK(cs2, n - 1, ss2, lay2)
  /\ SlotsStay(ss, lay, ss2, lay2)
  /\ ViewOf(n - 1, ss2, lay2) = l2
  /\ \A level \in 1..n - 2 : ViewOf(level, ss2, lay2) = ViewOf(level, ss, lay)
  /\ \A level \in 1..n - 1 : ss2[level].ins = ss[level].ins

LEMMA SlotsStayOn ==
  ASSUME NEW ss, NEW lay, NEW ss1, NEW lay1, NEW ss2, NEW lay2, SlotsStay(ss, lay, ss1, lay1),
         SlotsStay(ss1, lay1, ss2, lay2)
  PROVE  SlotsStay(ss, lay, ss2, lay2)
  BY DEF SlotsStay

(* inner is the finished code of the scope, c the constant it becomes,     *)
(* outer the code around it.                                               *)
Closes(n, lay, inner, l1, outer, l2, m, c) ==
  /\ Laid(inner.code, l1) /\ Sealed(l1) /\ l1.kind = ViewOf(n, scopes, lay).kind
  /\ Keeps(ViewOf(n, scopes, lay), l1, 0)
  /\ outer.last \in Mark /\ outer.prev \in Mark /\ Laid(outer.code, l2)
  /\ Keeps(ViewOf(n - 1, scopes, lay), l2, m)
  /\ c.kind \in {"function", "loop"} /\ c.kind = l1.kind /\ c.ins = scopes[n].ins

LeftAs(n, lay, inner, l1, outer, l2, ss2, ar2, lay2) ==
  /\ ss2 = ScopesWith(n - 1, outer)
  /\ ar2 = [arrays EXCEPT ![scopes[n].ins] = inner.code, ![scopes[n - 1].ins] = outer.code]
  /\ lay2 = [lay EXCEPT ![scopes[n].ins] = l1, ![scopes[n - 1].ins] = l2]

LEMMA LeavesOK ==
  ASSUME NEW g, NEW lay, NEW hm, Ctx(g, lay, hm), todo # <<>>, NEW n, n = scope_index, n >= 2,
         NEW inner, NEW l1, NEW outer, NEW l2, NEW m, NEW c,
         Closes(n, lay, inner, l1, outer, l2, m, c),
         NEW ss2, NEW ar2, NEW lay2, LeftAs(n, lay, inner, l1, outer, l2, ss2, ar2, lay2)
  PROVE  /\ Shallower(n, l2, scopes, lay, Append(constants, c), ss2, ar2, lay2)
         /\ ss2[n - 1].last = outer.last
         /\ n \in Nat /\ n - 1 \in Nat /\ n - 1 >= 1
  <1>0. /\ Laid(inner.code, l1) /\ Sealed(l1) /\ l1.kind = ViewOf(n, scopes, lay).kind
        /\ Keeps(ViewOf(n, scopes, lay), l1, 0)
        /\ outer.last \in Mark /\ outer.prev \in Mark /\ Laid(outer.code, l2)
        /\ Keeps(ViewOf(n - 1, scopes, lay), l2, m)
        /\ c.kind \in {"function", "loop"} /\ c.kind = l1.kind /\ c.ins = scopes[n].ins
    BY DEF Closes
  <1>0a. /\ ss2 = ScopesWith(n - 1, outer)
         /\ ar2 = [arrays EXCEPT ![scopes[n].ins] = inner.code, ![scopes[n - 1].ins] = outer.code]
         /\ lay2 = [lay EXCEPT ![scopes[n].ins] = l1, ![scopes[n - 1].ins] = l2]
    BY DEF LeftAs
  <1> DEFINE ar1 == [arrays EXCEPT ![scopes[n].ins] = inner.code]
             lay1 == [lay EXCEPT ![scopes[n].ins] = l1]
             cs2 == Append(constants, c)
  <1>1. /\ LaysOK(arrays, lay) /\ ScopesOK(n, scopes, arrays, lay)
        /\ PoolOK(constants, n, scopes, lay)
    BY Doing
  <1>2. /\ scopes \in Seq(Slot) /\ n \in 1..Len(scopes) /\ n \in Nat /\ n - 1 \in Nat /\ n - 1 >= 1
        /\ n - 1 \in 1..Len(scopes)
    <2>1. scopes \in Seq(Slot) /\ n \in 1..Len(scopes)
      BY <1>1 DEF ScopesOK
    <2>2. Len(scopes) \in Nat
      BY <2>1, LenProperties
    <2>. QED
      BY <2>1, <2>2
  <1>3. Rewritten(n, l1, scopes, arrays, lay, scopes, ar1, lay1)
    <2>1. \A level \in 1..Len(scopes) : scopes[level].ins = scopes[level].ins
      OBVIOUS
    <2>2. ar1 = [arrays EXCEPT ![scopes[n].ins] = inner.code] /\ lay1 = [lay EXCEPT ![scopes[n].ins] = l1]
      OBVIOUS
    <2>. HIDE DEF ar1, lay1
    <2>. QED
      BY <2>1, <2>2, <1>0, <1>1, <1>2, RewriteAt
  <1>4. ar2 = [ar1 EXCEPT ![scopes[n - 1].ins] = outer.code]
    BY <1>0a
  <1>5. lay2 = [lay1 EXCEPT ![scopes[n - 1].ins] = l2]
    BY <1>0a
  <1>. HIDE DEF ar1, lay1
  <1>6. /\ LaysOK(ar1, lay1) /\ ScopesOK(n, scopes, ar1, lay1) /\ SlotsStay(scopes, lay, scopes, lay1)
        /\ ViewOf(n, scopes, lay1) = l1 /\ SameBelow(n, scopes, lay, scopes, lay1)
        /\ PoolOK(constants, n, scopes, lay1)
    BY <1>0, <1>1, <1>3, RewrittenOK, PoolStays
  <1>7. PoolOK(cs2, n - 1, scopes, lay1) /\ ScopesOK(n - 1, scopes, ar1, lay1)
    <2>1. ViewOf(n, scopes, lay1).kind = c.kind /\ Sealed(ViewOf(n, scopes, lay1))
      BY <1>0, <1>6
    <2>. QED
      BY <2>1, <1>0, <1>6, PoolSealed
  <1>8. /\ ss2 \in Seq(Slot) /\ Len(ss2) = Len(scopes)
        /\ \A level \in 1..Len(scopes) : ss2[level].ins = scopes[level].ins
        /\ ss2[n - 1].last = outer.last
    <2> DEFINE k == n - 1
    <2>1. k \in 1..Len(scopes) /\ scopes \in Seq(Slot) /\ ss2 = ScopesWith(k, outer)
      BY <1>0a, <1>2
    <2>. HIDE DEF k
    <2>2. /\ ss2 \in Seq(Slot) /\ Len(ss2) = Len(scopes)
          /\ \A level \in 1..Len(scopes) : ss2[level].ins = scopes[level].ins
          /\ ss2[k].last = outer.last
      BY <2>1, <1>0, SlotsWith
    <2>. QED
      BY <2>2 DEF k
  <1>9. Rewritten(n - 1, l2, scopes, ar1, lay1, ss2, ar2, lay2)
    BY <1>0, <1>4, <1>5, <1>6, <1>7, <1>8, RewriteAt
  <1>10. \A level \in 1..n - 1 : level \in 1..n /\ level # n
    BY <1>2
  <1>11. n - 1 \in 1..n - 1
    BY <1>2
  <1>12. ViewOf(n - 1, scopes, lay1) = ViewOf(n - 1, scopes, lay)
    BY <1>6, <1>10, <1>11 DEF SameBelow
  <1>13. /\ LaysOK(ar2, lay2) /\ ScopesOK(n - 1, ss2, ar2, lay2)
         /\ SlotsStay(scopes, lay1, ss2, lay2) /\ ViewOf(n - 1, ss2, lay2) = l2
         /\ SameBelow(n - 1, scopes, lay1, ss2, lay2)
         /\ PoolOK(cs2, n - 1, ss2, lay2)
    <2>1. Keeps(ViewOf(n - 1, scopes, lay1), l2, m)
      BY <1>0, <1>12
    <2>. HIDE DEF cs2
    <2>. QED
      BY <2>1, <1>6, <1>7, <1>9, RewrittenOK, PoolStays
  <1>14. SlotsStay(scopes, lay, ss2, lay2)
    BY <1>6, <1>13, SlotsStayOn
  <1>15. \A level \in 1..n - 2 : ViewOf(level, ss2, lay2) = ViewOf(level, scopes, lay)
    <2>1. ASSUME NEW level \in 1..n - 2
          PROVE  ViewOf(level, ss2, lay2) = ViewOf(level, scopes, lay)
      <3>1. level \in 1..n /\ level # n /\ level \in 1..n - 1 /\ level # n - 1
        BY <1>2
      <3>. QED
        BY <3>1, <1>6, <1>13 DEF SameBelow
    <2>. QED
      BY <2>1
  <1>16. \A level \in 1..n - 1 : ss2[level].ins = scopes[level].ins
    <2>1. \A level \in 1..n - 1 : level \in 1..Len(scopes)
      BY <1>2, LenProperties
    <2>. QED
      BY <2>1, <1>8
  <1>. HIDE DEF cs2
  <1>17. Shallower(n, l2, scopes, lay, cs2, ss2, ar2, lay2)
    BY <1>13, <1>14, <1>15, <1>16 DEF Shallower
  <1>. QED
    BY <1>2, <1>8, <1>17 DEF cs2

(* When a scope is about to be left, no jump in it waits for a target.     *)
LEMMA InnerClosed ==
  ASSUME NEW g, NEW lay, NEW hm, Ctx(g, lay, hm), todo # <<>>, NEW n, n = scope_index,
         g[2].level < n
  PROVE  ViewOf(n, scopes, lay).open = {}
  <1>1. /\ OpenOK(todo, g, scopes, lay, n) /\ ScopesOK(n, scopes, arrays, lay)
    BY DEF Ctx, Core
  <1>2. /\ Mono(g) /\ g \in Seq(State) /\ Len(g) = Len(todo) + 1 /\ Len(todo) \in Nat \ {0}
    BY Doing
  <1>3. n \in 1..n
    BY <1>1, LenProperties DEF ScopesOK
  <1>4. ASSUME NEW p \in ViewOf(n, scopes, lay).open
        PROVE  FALSE
    <2>1. PICK i \in 1..Len(todo) : g[i + 1].level = n
      BY <1>1, <1>3 DEF OpenOK
    <2>2. 2 \in 1..Len(g) /\ i + 1 \in 1..Len(g) /\ 2 <= i + 1
      BY <1>2
    <2>3. g[i + 1].level <= g[2].level
      BY <2>2, <1>2 DEF Mono
    <2>4. g[2] \in State
      BY <2>2, <1>2
    <2>. QED
      BY <2>1, <2>3, <2>4, <1>3, StateFields
  <1>. QED
    BY <1>4

(* No place in the code around it that something depends on is behind the  *)
(* end of this code.                                                       *)
LEMMA OuterWithin ==
  ASSUME NEW g, NEW lay, NEW hm, Ctx(g, lay, hm), todo # <<>>, NEW k, k \in 1..scope_index
  PROVE  /\ RestMarked(ViewOf(k, scopes, lay).size, todo, g, k)
         /\ Laid(arrays[scopes[k].ins], ViewOf(k, scopes, lay))
  <1>1. /\ LaysOK(arrays, lay) /\ ScopesOK(scope_index, scopes, arrays, lay) /\ Chain(todo, g, scopes, lay, hm)
    BY DEF Ctx, Core
  <1>2. Laid(arrays[scopes[k].ins], ViewOf(k, scopes, lay))
    BY <1>1 DEF LaysOK, ScopesOK, ViewOf
  <1>3. \A p \in DOMAIN ViewOf(k, scopes, lay).depth : p <= ViewOf(k, scopes, lay).size
    BY <1>2, LaidFacts
  <1>4. ASSUME NEW i \in 1..Len(todo), todo[i].do \in {"body", "end_loop"}, g[i].level = k
        PROVE  todo[i].before <= ViewOf(k, scopes, lay).size
    <2>1. Joined(todo[i], g[i], g[i + 1], scopes, lay, hm)
      BY <1>1 DEF Chain
    <2>2. BodyOK(todo[i], g[i], g[i + 1], scopes, lay, hm) \/ EndLoopOK(todo[i], g[i], g[i + 1], scopes, lay)
      BY <2>1, <1>4 DEF Joined
    <2>3. todo[i].before \in DOMAIN ViewOf(k, scopes, lay).depth
      BY <2>2, <1>4 DEF BodyOK, EndLoopOK, PlaceAt
    <2>. QED
      BY <2>3, <1>3
  <1>5. \A i \in 2..Len(todo) : i \in 1..Len(todo)
    OBVIOUS
  <1>. QED
    BY <1>2, <1>4, <1>5 DEF RestMarked

(* The loops up to k are the same.                                         *)
Agree(hm, hm2, k) ==
  k <= Len(hm) /\ k <= Len(hm2) /\ \A j \in 1..k : hm2[j] = hm[j]

(* State a is that of level b, where no block can end yet.                 *)
Lands(a, b, l, ls, v, ss) ==
  /\ a.level = b /\ a.loops = Len(ls) /\ a.void = v
  /\ a.depth = l.depth[l.size] /\ ss[b].last.op \notin Ending /\ a.end # 2

LEMMA LeavesTo ==
  ASSUME NEW g, NEW lay, NEW hm, Ctx(g, lay, hm), todo # <<>>,
         NEW n, n = scope_index, NEW b, b = n - 1, b \in 1..n, NEW l2, NEW lay2,
         Shallower(n, l2, scopes, lay, constants', scopes', arrays', lay2),
         NEW m, Keeps(ViewOf(b, scopes, lay), l2, m), RestMarked(m, todo, g, b),
         NEW ys, NEW h, NEW hm2, Path(ys, h, h[1], g[2], scopes', lay2, hm2),
         StillOpen(l2.open, ViewOf(b, scopes, lay), todo, g, ys, h, b),
         g[2].level = b, g[2].update # TRUE,
         NEW k, k \in Nat, HomesOK(loops', hm2, lay2),
         Agree(hm, hm2, k), g[2].loops <= k,
         Lands(h[1], b, l2, loops', is_void', scopes'),
         Continue(ys), scope_index' = b
  PROVE  Known'
  <1>0. k <= Len(hm) /\ k <= Len(hm2) /\ \A j \in 1..k : hm2[j] = hm[j]
    BY DEF Agree
  <1>0a. /\ h[1].level = b /\ h[1].loops = Len(loops') /\ h[1].void = is_void'
         /\ h[1].depth = l2.depth[l2.size] /\ scopes'[b].last.op \notin Ending /\ h[1].end # 2
    BY Zenon DEF Lands
  <1> DEFINE ss2 == scopes'
             ar2 == arrays'
             cs2 == constants'
             first == h[1]
             t == ys \o Tail(todo)
             f == Follows(h, g)
  <1>1. /\ LaysOK(ar2, lay2) /\ ScopesOK(n - 1, ss2, ar2, lay2) /\ PoolOK(cs2, n - 1, ss2, lay2)
        /\ SlotsStay(scopes, lay, ss2, lay2)
        /\ ViewOf(n - 1, ss2, lay2) = l2
        /\ \A level \in 1..n - 2 : ViewOf(level, ss2, lay2) = ViewOf(level, scopes, lay)
        /\ \A level \in 1..n - 1 : ss2[level].ins = scopes[level].ins
    BY DEF Shallower
  <1>2. /\ IsSeq(ys) /\ h \in Seq(State) /\ Len(h) = Len(ys) + 1
        /\ h[Len(h)] = g[2] /\ Mono(h) /\ AllJoined(ys, h, ss2, lay2, hm2)
    BY DEF Path
  <1>3. /\ HomesOK(loops, hm, lay) /\ ScopesOK(n, scopes, arrays, lay)
        /\ IsSeq(todo) /\ g \in Seq(State) /\ Len(g) = Len(todo) + 1
        /\ g[1] \in State /\ g[2] \in State /\ Mono(g) /\ Len(todo) \in Nat \ {0}
    BY Doing
  <1>4. /\ Chain(todo, g, scopes, lay, hm) /\ OpenOK(todo, g, scopes, lay, n)
        /\ g[Len(g)] = St(1, 0, 0, FALSE, FALSE, 1)
    BY DEF Ctx, Core
  <1>5. n \in Nat /\ b \in Nat /\ b >= 1 /\ hm \in Seq(Nat) /\ hm2 \in Seq(Nat) /\ n - 2 = b - 1
        /\ b \in 1..b
    <2>1. n \in Nat
      BY <1>3, LenProperties DEF ScopesOK
    <2>. QED
      BY <2>1, <1>3 DEF HomesOK
  <1>6. /\ ScopesOK(b, ss2, ar2, lay2) /\ PoolOK(cs2, b, ss2, lay2)
        /\ ViewOf(b, ss2, lay2) = l2
        /\ \A level \in 1..b - 1 : ViewOf(level, ss2, lay2) = ViewOf(level, scopes, lay)
        /\ \A level \in 1..b : ss2[level].ins = scopes[level].ins
    BY <1>1, <1>5
  <1>. HIDE DEF ss2, ar2, cs2, first
  <1>7. Replaces(todo, g, ys, h)
    BY <1>2, <1>3 DEF Replaces
  <1>8. Stays(b, k, m, scopes, lay, hm, ss2, lay2, hm2)
    BY <1>0, <1>6 DEF Stays
  <1>9. Chain(t, f, ss2, lay2, hm2)
    <2>1. g[Len(g)].level >= 1
      BY <1>4 DEF St
    <2>2. g[2].level <= b
      BY <1>5
    <2>. QED
      BY <2>1, <2>2, <1>1, <1>2, <1>3, <1>4, <1>5, <1>7, <1>8, ChainFollows
  <1>10. Spliced(todo, g, ys, h, t, f)
    BY <1>7, Replaced
  <1>11. /\ f[1] = first /\ f[Len(f)] = g[Len(g)]
    BY <1>10 DEF Spliced, first
  <1>12. Mono(f)
    <2>1. Len(h) >= 1 /\ Len(g) >= 2
      BY <1>3, <1>10, <1>2 DEF Spliced
    <2>. QED
      BY <2>1, <1>2, <1>3, MonoFollows
  <1>. HIDE DEF t, f
  <1>13. OpenOK(t, f, ss2, lay2, b)
    <2>1. ASSUME NEW level \in 1..b
          PROVE  /\ level \in 1..n
                 /\ StillOpen(ViewOf(level, ss2, lay2).open, ViewOf(level, scopes, lay), todo, g, ys, h,
                              level)
      <3>1. level \in 1..n
        BY <1>5
      <3>2. CASE level = b
        BY <3>1, <3>2, <1>6
      <3>3. CASE level # b
        <4>1. level \in 1..b - 1
          BY <3>3, <1>5
        <4>2. ViewOf(level, ss2, lay2) = ViewOf(level, scopes, lay)
          BY <4>1, <1>6
        <4>. QED
          BY <4>2, <3>1, <3>3 DEF StillOpen
      <3>. QED
        BY <3>2, <3>3
    <2>2. Opened(todo, g, scopes, lay, n, ys, h, ss2, lay2, b)
      BY <2>1 DEF Opened
    <2>. QED
      BY <2>2, <1>4, <1>7, OpenFollows DEF t, f
  <1>14. NowOK(first, ss2[b].last, ViewOf(b, ss2, lay2), t, f, b, loops', is_void')
    <2>1. ss2[b].last.op \notin Ending
      BY <1>0a DEF ss2
    <2>2. EndOK(first, ss2[b].last, ViewOf(b, ss2, lay2), t, f, b)
      BY <2>1, <1>0a DEF EndOK, first
    <2>3. first.level = b /\ first.loops = Len(loops') /\ first.depth = l2.depth[l2.size]
      BY <1>0a DEF first
    <2>4. first.void = is_void'
      BY <1>0a DEF first
    <2>. QED
      BY <2>2, <2>3, <2>4, <1>6, Zenon DEF NowOK
  <1>15. Core(t, f, ss2, ar2, lay2, cs2, loops', hm2, b, is_void')
    BY <1>1, <1>4, <1>6, <1>9, <1>11, <1>12, <1>13, <1>14 DEF Core
  <1>16. Ctx(f, lay2, hm2)'
    BY <1>15 DEF Ctx, Continue, ss2, ar2, cs2, t
  <1>. QED
    BY <1>16 DEF Known

(* No table is freed before it is read.                                    *)
LEMMA AllKept ==
  ASSUME Prepared, NEW kept, kept \in Intact
  PROVE  kept = 1..Len(ST!Top(tables).free_symbols)
  <1>1. ~May("freed_table")
    BY NoLiberties
  <1>. QED
    BY <1>1 DEF Intact, Captures

(* The code of an open scope.                                              *)
LEMMA PieceAt ==
  ASSUME NEW n, NEW lay, LaysOK(arrays, lay), ScopesOK(n, scopes, arrays, lay), NEW b, b \in 1..n
  PROVE  /\ At(b) \in Pieces /\ Laid(At(b).code, ViewOf(b, scopes, lay))
         /\ At(b).last = scopes[b].last
         /\ ViewOf(b, scopes, lay).size \in Nat
  <1>1. scopes[b] \in Slot /\ scopes[b].ins \in 1..Len(arrays)
    BY DEF ScopesOK
  <1>2. Laid(arrays[scopes[b].ins], lay[scopes[b].ins])
    BY <1>1 DEF LaysOK
  <1>3. arrays[scopes[b].ins] \in Seq(Byte)
    BY <1>2 DEF Laid
  <1>4. At(b) = [code |-> arrays[scopes[b].ins], last |-> scopes[b].last, prev |-> scopes[b].prev]
    BY DEF At
  <1>5. ViewOf(b, scopes, lay).size \in Nat
    BY <1>2, LaidFacts DEF ViewOf
  <1>. QED
    BY <1>1, <1>2, <1>3, <1>4, <1>5 DEF Pieces, Slot, ViewOf

LEMMA FitsClosure ==
  ASSUME NEW l, NEW d, NEW c, NEW k, d \in Nat, c \in Nat, k \in Nat, k <= 255,
         l.depth[l.size] = d + k
  PROVE  /\ Fits(l, "CLOSURE", <<c, k>>, d + 1) /\ "CLOSURE" \in OpSet
         /\ ArgsOK("CLOSURE", <<c, k>>) /\ "CLOSURE" \notin Jumps /\ "CLOSURE" \notin Ending
  <1>1. "CLOSURE" \in OpSet /\ Widths("CLOSURE") = <<2, 1>>
    BY OpsExist, WidthCases
  <1>2. ArgsOK("CLOSURE", <<c, k>>)
    BY <1>1 DEF ArgsOK
  <1>3. Takes("CLOSURE", <<c, k>>) = k /\ Leaves("CLOSURE") = 1
    BY DEF Takes, Leaves
  <1>4. MayLeave(l.kind, "CLOSURE")
    BY DEF MayLeave
  <1>5. (d + k) - k + 1 = d + 1 /\ d + k >= k /\ d + 1 \in Nat
    OBVIOUS
  <1>. QED
    BY <1>1, <1>2, <1>3, <1>4, <1>5 DEF Fits, Jumps, Ending

(* What the enclosing code gets when a scope is closed.                    *)
LEMMA ClosedAdds ==
  ASSUME NEW e, e \in Pieces, NEW l, Laid(e.code, l), TablesOK(tables), IsSeq(constants),
         IsFiniteSet(Names), Cardinality(Names) <= 255,
         NEW kept, kept = 1..Len(ST!Top(tables).free_symbols)
  PROVE  /\ \E l2 : Loads(Closed(e, kept), l, l2, 1)
         /\ Closed(e, kept).last.op = "CLOSURE"
  <1> DEFINE captured == ST!Top(tables).free_symbols
             r == Loading(e, captured, kept)
             k == Len(captured)
             cl == Closed(e, kept)
             d == l.depth[l.size]
             arg == <<Len(constants), Len(captured)>>
  <1>1. captured \in Seq(ST!Symbol) /\ k <= Cardinality(Names)
    BY TablesFacts
  <1>2. k \in Nat /\ k <= 255
    <2>1. Cardinality(Names) \in Nat
      BY FS_CardinalityType
    <2>2. k \in Nat
      BY <1>1, LenProperties
    <2>. HIDE DEF k
    <2>. QED
      BY <1>1, <2>1, <2>2
  <1>3. Len(constants) \in Nat
    BY LenProperties DEF IsSeq
  <1>4. cl = Emit(r, "CLOSURE", arg)
    BY DEF Closed
  <1>. HIDE DEF captured
  <1>5. kept = 1..Len(captured)
    BY DEF captured
  <1>6. \E l1 : Loads(Loading(e, captured, kept), l, l1, Len(captured))
    BY <1>1, <1>5, LoadingAdds
  <1>7. PICK l1 : Loads(r, l, l1, k)
    BY <1>6
  <1>8. arg = <<Len(constants), k>>
    OBVIOUS
  <1>. HIDE DEF r, k, cl, arg
  <1>9. /\ r \in Pieces /\ Laid(r.code, l1) /\ Grows(l, l1) /\ l1.open = l.open
        /\ l1.depth[l1.size] = d + k
    BY <1>7 DEF Loads
  <1>10. d \in Nat /\ l.size \in Nat /\ l1.size \in Nat
    <2>1. l.size \in DOMAIN l.depth /\ \A p \in DOMAIN l.depth : l.depth[p] \in Nat
      BY DEF Laid
    <2>. QED
      BY <2>1, <1>9, LaidFacts
  <1>. HIDE DEF d
  <1>11. /\ Fits(l1, "CLOSURE", arg, d + 1) /\ "CLOSURE" \in OpSet /\ ArgsOK("CLOSURE", arg)
         /\ "CLOSURE" \notin Jumps
    BY <1>2, <1>3, <1>8, <1>9, <1>10, FitsClosure
  <1>12. r.last \in Mark
    BY <1>9 DEF Pieces
  <1>13. PICK l2 : Adds(Emit(r, "CLOSURE", arg), l2, l1, "CLOSURE", d + 1)
    BY <1>9, <1>11, <1>12, EmitOn
  <1>14. /\ Laid(cl.code, l2) /\ Grows(l1, l2) /\ l2.depth[l2.size] = d + 1 /\ l2.open = l1.open
         /\ cl.last.op = "CLOSURE"
    BY <1>4, <1>11, <1>13 DEF Adds
  <1>15. cl \in Pieces
    BY <1>4, <1>9, <1>11, EmitPiece
  <1>16. Grows(l, l2)
    <2>1. l2.size \in Nat
      BY <1>14, LaidFacts
    <2>. QED
      BY <2>1, <1>9, <1>10, <1>14, GrowsOn
  <1>17. Loads(cl, l, l2, 1)
    BY <1>9, <1>14, <1>15, <1>16 DEF Loads, d
  <1>. QED
    BY <1>14, <1>17 DEF cl

(* The two pieces of code a scope is left with.                            *)
TwoPieces(n, b, lay, inner, l1, outer, l2, m, kind) ==
  /\ Laid(inner.code, l1) /\ Sealed(l1) /\ l1.kind = ViewOf(n, scopes, lay).kind
  /\ Keeps(ViewOf(n, scopes, lay), l1, 0)
  /\ outer \in Pieces /\ Laid(outer.code, l2)
  /\ Keeps(ViewOf(b, scopes, lay), l2, m)
  /\ kind \in {"function", "loop"} /\ kind = l1.kind

LEMMA LeaveDoes ==
  ASSUME NEW g, NEW lay, NEW hm, Ctx(g, lay, hm), todo # <<>>, TablesOK(tables),
         NEW n, n = scope_index, NEW b, b = n - 1, b >= 1,
         NEW inner, NEW l1, NEW outer, NEW l2, NEW m, NEW kind,
         TwoPieces(n, b, lay, inner, l1, outer, l2, m, kind), NEW parameters,
         Leave(kind, parameters, inner, outer)
  PROVE  /\ TablesOK(tables') /\ scope_index' = b /\ b \in 1..n
         /\ \E lay2 : /\ Shallower(n, l2, scopes, lay, constants', scopes', arrays', lay2)
                      /\ scopes'[b].last = outer.last
  <1> DEFINE c == Constant(kind, scopes[n].ins, ST!Top(tables).num_definitions, parameters)
             lay2 == [lay EXCEPT ![scopes[n].ins] = l1, ![scopes[n - 1].ins] = l2]
  <1>1. Len(tables) \in Nat /\ n = Len(tables)
    BY TablesFacts DEF scope_index
  <1>2. n \in Nat /\ n >= 2 /\ n > 1 /\ b \in 1..n
    BY <1>1
  <1>3. TablesOK(tables') /\ Len(tables') = Len(tables) - 1
    <2>1. tables' = ST!free_symbol_table(tables)
      BY DEF Leave
    <2>2. Len(tables) > 1
      BY <1>1, <1>2
    <2>. QED
      BY <2>1, <2>2, FreeTables
  <1>4. scope_index' = b
    BY <1>1, <1>3 DEF scope_index
  <1>5. /\ arrays' = [arrays EXCEPT ![scopes[n].ins] = inner.code, ![scopes[n - 1].ins] = outer.code]
        /\ scopes' = ScopesWith(n - 1, outer)
        /\ constants' = Append(constants, c)
    BY DEF Leave
  <1>6. c.kind = kind /\ c.ins = scopes[n].ins
    BY DEF Constant
  <1>7. outer.last \in Mark /\ outer.prev \in Mark
    BY DEF Pieces, TwoPieces
  <1>8. LeftAs(n, lay, inner, l1, outer, l2, scopes', arrays', lay2)
    BY <1>5 DEF LeftAs
  <1>9. Closes(n, lay, inner, l1, outer, l2, m, c)
    BY <1>6, <1>7 DEF Closes, TwoPieces
  <1>. HIDE DEF c, lay2
  <1>11. /\ Shallower(n, l2, scopes, lay, Append(constants, c), scopes', arrays', lay2)
         /\ scopes'[n - 1].last = outer.last
    BY <1>2, <1>8, <1>9, LeavesOK
  <1>. QED
    BY <1>2, <1>3, <1>4, <1>5, <1>11

(* What the end of a scope starts from.                                    *)
LEMMA EndingScope ==
  ASSUME NEW g, NEW lay, NEW hm, Ctx(g, lay, hm), NEW step, Running(step),
         step \in {"end_function", "end_body"}
  PROVE  /\ todo # <<>> /\ Head(todo) = todo[1] /\ todo[1].do = step
         /\ g[1] \in State /\ g[2] \in State
         /\ Joined(todo[1], g[1], g[2], scopes, lay, hm)
         /\ g[1].level = scope_index /\ g[1].loops = Len(loops) /\ g[1].void = is_void
         /\ g[1].end >= 1 => (Current.last.op \in Ending => Fresh(Current.last, ViewOf(scope_index, scopes, lay)))
         /\ LaysOK(arrays, lay) /\ ScopesOK(scope_index, scopes, arrays, lay)
         /\ IsSeq(constants) /\ HomesOK(loops, hm, lay)
         /\ Laid(Current.code, ViewOf(scope_index, scopes, lay))
  <1>1. /\ todo # <<>> /\ Head(todo) = todo[1] /\ todo[1].do = step
        /\ g[1] \in State /\ g[2] \in State
        /\ Joined(todo[1], g[1], g[2], scopes, lay, hm)
    BY Begin
  <1>2. /\ g[1].level = scope_index /\ g[1].loops = Len(loops) /\ g[1].void = is_void
        /\ Laid(Current.code, ViewOf(scope_index, scopes, lay))
        /\ Current.last = scopes[scope_index].last
    BY <1>1, Now
  <1>3. /\ LaysOK(arrays, lay) /\ ScopesOK(scope_index, scopes, arrays, lay)
        /\ HomesOK(loops, hm, lay) /\ PoolOK(constants, scope_index, scopes, lay)
        /\ NowOK(g[1], scopes[scope_index].last, ViewOf(scope_index, scopes, lay), todo, g,
                  scope_index, loops, is_void)
    BY <1>1, Doing
  <1>4. g[1].end >= 1 => (Current.last.op \in Ending => Fresh(Current.last, ViewOf(scope_index, scopes, lay)))
    BY <1>2, <1>3 DEF NowOK, EndOK
  <1>5. IsSeq(constants)
    BY <1>3 DEF PoolOK
  <1>. QED
    BY <1>1, <1>2, <1>3, <1>4, <1>5

LEMMA EndFunctionStepOK ==
  ASSUME Prepared, Known, TablesOK(tables), EndFunction
  PROVE  Known' /\ TablesOK(tables')
  <1>1. PICK g, lay, hm : Ctx(g, lay, hm)
    BY DEF Known
  <1>2. PICK kept \in Intact : Leave("function", Head(todo).parameters, Returning(Current),
                                     Closed(At(scope_index - 1), kept))
    BY DEF EndFunction
  <1> DEFINE n == scope_index
             b == scope_index - 1
             s == g[1]
             u == g[2]
             l == ViewOf(scope_index, scopes, lay)
             lb == ViewOf(b, scopes, lay)
             inner == Returning(Current)
             outer == Closed(At(b), kept)
  <1>3. Running("end_function") /\ "end_function" \in {"end_function", "end_body"}
    BY DEF EndFunction
  <1>4. /\ todo # <<>> /\ Head(todo) = todo[1] /\ todo[1].do = "end_function"
        /\ s \in State /\ u \in State
        /\ Joined(todo[1], s, u, scopes, lay, hm)
        /\ s.level = n /\ s.loops = Len(loops) /\ s.void = is_void
        /\ s.end >= 1 => (Current.last.op \in Ending => Fresh(Current.last, l))
        /\ LaysOK(arrays, lay) /\ ScopesOK(n, scopes, arrays, lay)
        /\ IsSeq(constants) /\ HomesOK(loops, hm, lay)
        /\ Laid(Current.code, l)
    BY <1>1, <1>3, EndingScope
  <1>5. EndFunctionOK(s, u, scopes, lay)
    BY <1>4 DEF Joined
  <1>6. /\ s.void = FALSE /\ s.end >= 1 /\ s.level >= 2
        /\ ViewOf(s.level, scopes, lay).kind = "function"
        /\ LET o == ViewOf(s.level - 1, scopes, lay)
           IN  u = St(s.level - 1, s.loops, o.depth[o.size] + 1, FALSE, FALSE, 0)
    BY <1>5, Zenon DEF EndFunctionOK
  <1>7. n \in Nat /\ n >= 2 /\ b \in 1..n /\ b >= 1 /\ b < n /\ s.level - 1 = b
    <2>1. n \in Nat
      BY TablesFacts DEF scope_index
    <2>2. n >= 2
      BY <1>4, <1>6
    <2>. QED
      BY <2>1, <2>2, <1>4
  <1>8. l.kind = "function" /\ u = St(b, Len(loops), lb.depth[lb.size] + 1, FALSE, FALSE, 0)
    <2>1. l.kind = "function"
      BY <1>4, <1>6
    <2>2. ViewOf(s.level - 1, scopes, lay) = lb
      BY <1>7
    <2>. QED
      BY <2>1, <2>2, <1>4, <1>6, <1>7
  <1>9. /\ u.level = b /\ u.loops = Len(loops) /\ u.depth = lb.depth[lb.size] + 1
        /\ u.void = FALSE /\ u.update = FALSE /\ u.end = 0
    BY <1>8 DEF St
  <1>10. l.open = {}
    BY <1>1, <1>4, <1>7, <1>9, InnerClosed
  <1>11. PICK l1 : Laid(inner.code, l1) /\ Sealed(l1) /\ l1.kind = l.kind /\ Keeps(l, l1, 0)
    BY <1>4, <1>6, <1>8, <1>10, ReturningLaid
  <1>12. kept = 1..Len(ST!Top(tables).free_symbols)
    BY AllKept
  <1>13. At(b) \in Pieces /\ Laid(At(b).code, lb)
    BY <1>4, <1>7, PieceAt
  <1>14. IsFiniteSet(Names) /\ Cardinality(Names) <= 255
    BY DEF Prepared
  <1>15. (\E l2 : Loads(outer, lb, l2, 1)) /\ outer.last.op = "CLOSURE"
    BY <1>4, <1>12, <1>13, <1>14, ClosedAdds
  <1>16. PICK l2 : Loads(outer, lb, l2, 1)
    BY <1>15
  <1>17. Leave("function", todo[1].parameters, inner, outer)
    BY <1>2, <1>4
  <1>18. Continue(<<>>) /\ UNCHANGED <<loops, is_void>>
    BY DEF EndFunction
  <1>19. n = scope_index /\ b = n - 1
    OBVIOUS
  <1>. HIDE DEF n, b, s, u, l, lb, inner, outer
  <1>20. /\ outer \in Pieces /\ Laid(outer.code, l2) /\ Grows(lb, l2) /\ l2.open = lb.open
         /\ l2.depth[l2.size] = lb.depth[lb.size] + 1
    BY <1>16 DEF Loads
  <1>21. Keeps(lb, l2, lb.size)
    BY <1>13, <1>20, GrowsKeeps
  <1>22. /\ TablesOK(tables') /\ scope_index' = b /\ b \in 1..n
         /\ \E lay2 : /\ Shallower(n, l2, scopes, lay, constants', scopes', arrays', lay2)
                      /\ scopes'[b].last = outer.last
    <2>1. l1.kind = ViewOf(n, scopes, lay).kind /\ Keeps(ViewOf(n, scopes, lay), l1, 0)
      BY <1>11, <1>19 DEF l
    <2>2. Keeps(ViewOf(b, scopes, lay), l2, lb.size)
      BY <1>21 DEF lb
    <2>3. "function" = l1.kind
      BY <1>8, <1>11
    <2> DEFINE kind == "function"
    <2>4. TwoPieces(n, b, lay, inner, l1, outer, l2, lb.size, kind)
      BY <2>1, <2>2, <2>3, <1>11, <1>20 DEF TwoPieces
    <2>5. Leave(kind, todo[1].parameters, inner, outer)
      BY <1>17
    <2>. HIDE DEF kind
    <2>. QED
      BY <2>4, <2>5, <1>1, <1>4, <1>7, <1>19, LeaveDoes
  <1>23. PICK lay2 : /\ Shallower(n, l2, scopes, lay, constants', scopes', arrays', lay2)
                     /\ scopes'[b].last = outer.last
    BY <1>22
  <1>24. Path(<<>>, <<u>>, u, u, scopes', lay2, hm)
    BY <1>4, PathNone
  <1>25. StillOpen(l2.open, lb, todo, g, <<>>, <<u>>, b)
    BY <1>4, <1>20 DEF StillOpen, Patching
  <1>26. RestMarked(lb.size, todo, g, b)
    <2>1. b \in 1..scope_index
      BY <1>19, <1>22
    <2>. QED
      BY <2>1, <1>1, <1>4, OuterWithin DEF lb
  <1>27. HomesOK(loops', hm, lay2) /\ Len(hm) \in Nat /\ Len(hm) = Len(loops)
    <2>1. SlotsStay(scopes, lay, scopes', lay2)
      BY <1>23 DEF Shallower
    <2>2. HomesOK(loops, hm, lay2)
      BY <2>1, <1>4, HomesStay
    <2>3. loops' = loops
      BY <1>18
    <2>4. Len(hm) \in Nat /\ Len(hm) = Len(loops)
      BY <1>4, LenProperties DEF HomesOK
    <2>. QED
      BY <2>2, <2>3, <2>4
  <1>28. Known'
    <2> DEFINE h == <<u>>
               k == Len(hm)
    <2>1. h[1] = u
      OBVIOUS
    <2>2. Path(<<>>, h, h[1], g[2], scopes', lay2, hm)
      BY <1>24 DEF u
    <2>3. StillOpen(l2.open, ViewOf(b, scopes, lay), todo, g, <<>>, h, b)
      BY <1>25 DEF lb
    <2>4. Keeps(ViewOf(b, scopes, lay), l2, lb.size)
      BY <1>21 DEF lb
    <2>5. g[2].level = b /\ g[2].update # TRUE
      <3>1. u.level = b /\ u.update # TRUE
        BY <1>9
      <3>. QED
        BY <3>1 DEF u
    <2>6. k \in Nat /\ k <= Len(hm) /\ (\A j \in 1..k : hm[j] = hm[j])
      BY <1>27
    <2>6a. g[2].loops <= k
      <3>1. u.loops = k
        BY <1>9, <1>27
      <3>. QED
        BY <3>1, <2>6 DEF u
    <2>7. h[1].level = b /\ h[1].depth = l2.depth[l2.size] /\ h[1].end # 2
      BY <1>9, <1>20, <2>1
    <2>7a. h[1].loops = Len(loops')
      BY <1>9, <1>18, <2>1
    <2>7b. h[1].void = is_void'
      <3>1. is_void = FALSE
        BY <1>4, <1>6, Zenon
      <3>2. is_void' = FALSE
        BY <3>1, <1>18
      <3>3. h[1].void = FALSE
        BY <1>9, <2>1
      <3>. QED
        BY <3>2, <3>3, Zenon
    <2>8. scopes'[b].last.op \notin Ending
      BY <1>15, <1>23 DEF Ending, outer
    <2>9. Agree(hm, hm, k)
      BY <2>6 DEF Agree
    <2>. HIDE DEF h, k
    <2>10. Lands(h[1], b, l2, loops', is_void', scopes')
      BY <2>7, <2>7a, <2>7b, <2>8, Zenon DEF Lands
    <2>. QED
      BY <2>2, <2>3, <2>4, <2>5, <2>6, <2>6a, <2>9, <2>10, <1>1, <1>4, <1>18, <1>19, <1>22,
         <1>23, <1>26, <1>27, LeavesTo
  <1>. QED
    BY <1>22, <1>28

(* The innermost loop is left.                                             *)
LEMMA HomesLeave ==
  ASSUME NEW ls, NEW hm, NEW lay, HomesOK(ls, hm, lay), ls # <<>>
  PROVE  \E hm2 : /\ HomesOK(Tail(ls), hm2, lay) /\ hm2 \in Seq(Nat)
                  /\ Len(hm2) + 1 = Len(hm) /\ Len(hm2) \in Nat /\ Len(hm2) = Len(Tail(ls))
                  /\ Len(hm) = Len(ls)
                  /\ \A j \in 1..Len(hm2) : hm2[j] = hm[j]
                  /\ Head(ls) \in Seq(Nat)
                  /\ \A k \in 1..Len(Head(ls)) :
                       hm[Len(hm)] \in DOMAIN lay /\ BreakAt(lay[hm[Len(hm)]], Head(ls)[k])
  <1> DEFINE n == Len(ls)
             t == Tail(ls)
             hm2 == SubSeq(hm, 1, n - 1)
  <1>1. ls \in Seq(Seq(Nat)) /\ hm \in Seq(Nat) /\ Len(hm) = n
    BY DEF HomesOK
  <1>2. n \in Nat /\ n >= 1
    BY <1>1, LenProperties, EmptySeq
  <1>3. t \in Seq(Seq(Nat)) /\ Len(t) = n - 1 /\ \A i \in 1..n - 1 : t[i] = ls[i + 1]
    BY <1>1, HeadTailProperties
  <1>4. Head(ls) = ls[1] /\ ls[1] \in Seq(Nat)
    BY <1>1, <1>2
  <1>5. hm2 \in Seq(Nat) /\ Len(hm2) = n - 1 /\ \A j \in 1..n - 1 : hm2[j] = hm[j]
    <2>1. n - 1 \in 0..n
      BY <1>2
    <2>2. 1 \in 1..n + 1
      BY <1>2
    <2>. QED
      BY <1>1, <1>2, <2>1, <2>2, SubSeqProperties
  <1>6. \A m \in 1..n : \A k \in 1..Len(ls[n + 1 - m]) :
          hm[m] \in DOMAIN lay /\ BreakAt(lay[hm[m]], ls[n + 1 - m][k])
    BY DEF HomesOK
  <1>7. n + 1 - n = 1 /\ n \in 1..n /\ (n - 1) + 1 = n /\ n - 1 \in Nat
    BY <1>2
  <1>8. \A k \in 1..Len(Head(ls)) : hm[n] \in DOMAIN lay /\ BreakAt(lay[hm[n]], Head(ls)[k])
    BY <1>4, <1>6, <1>7
  <1>. HIDE DEF n, t, hm2
  <1>9. HomesOK(t, hm2, lay)
    <2>1. ASSUME NEW m \in 1..Len(t), NEW k \in 1..Len(t[Len(t) + 1 - m])
          PROVE  hm2[m] \in DOMAIN lay /\ BreakAt(lay[hm2[m]], t[Len(t) + 1 - m][k])
      <3>1. m \in 1..n /\ m \in 1..n - 1 /\ Len(t) + 1 - m \in 1..n - 1 /\ (Len(t) + 1 - m) + 1 = n + 1 - m
        BY <1>2, <1>3
      <3>2. t[Len(t) + 1 - m] = ls[n + 1 - m]
        BY <3>1, <1>3
      <3>3. hm2[m] = hm[m]
        BY <3>1, <1>5
      <3>. QED
        BY <3>1, <3>2, <3>3, <2>1, <1>6
    <2>. QED
      BY <2>1, <1>3, <1>5 DEF HomesOK
  <1>10. Len(hm2) + 1 = Len(hm) /\ Len(hm2) \in Nat /\ Len(hm2) = Len(t) /\ \A j \in 1..Len(hm2) : hm2[j] = hm[j]
    BY <1>1, <1>3, <1>5, <1>7
  <1>. QED
    BY <1>1, <1>4, <1>5, <1>8, <1>9, <1>10 DEF t, n

(* The instruction that runs a loop takes its closure.                     *)
LEMMA LoopAdds ==
  ASSUME NEW r, NEW l, NEW l2, NEW code, Laid(code, l), Loads(r, l, l2, 1)
  PROVE  /\ \E l3 : Loads(Emit(r, "LOOP", <<>>), l, l3, 0)
         /\ Emit(r, "LOOP", <<>>).last.op = "LOOP" /\ "LOOP" \notin Ending
  <1> DEFINE d == l.depth[l.size]
             e == Emit(r, "LOOP", <<>>)
  <1>1. /\ r \in Pieces /\ Laid(r.code, l2) /\ Grows(l, l2) /\ l2.open = l.open
        /\ l2.depth[l2.size] = d + 1 /\ r.last \in Mark
    BY DEF Loads, Pieces
  <1>2. d \in Nat /\ l.size \in Nat /\ l2.size \in Nat /\ d + 1 \in Nat /\ d + 1 >= 1 /\ (d + 1) - 1 = d
    <2>1. l.size \in DOMAIN l.depth /\ \A p \in DOMAIN l.depth : l.depth[p] \in Nat
      BY DEF Laid
    <2>2. d \in Nat
      BY <2>1
    <2>3. l.size \in Nat
      BY LaidFacts
    <2>4. l2.size \in Nat
      BY <1>1, LaidFacts
    <2>. HIDE DEF d
    <2>. QED
      BY <2>2, <2>3, <2>4
  <1>3. "LOOP" \in OpSet /\ ArgsOK("LOOP", <<>>)
    <2>1. "LOOP" \in OpSet
      BY OpsExist
    <2>. QED
      BY <2>1 DEF ArgsOK, Widths
  <1>. HIDE DEF d
  <1>4. Fits(l2, "LOOP", <<>>, (d + 1) - 1) /\ "LOOP" \notin Jumps
    <2> DEFINE dd == d + 1
               op == "LOOP"
    <2>1. dd \in Nat /\ dd >= 1 /\ l2.depth[l2.size] = dd
      BY <1>1, <1>2
    <2>2. ArgsOK(op, <<>>) /\ op \in {"POP", "SET_GLOBAL", "SET_LOCAL", "SET_FREE", "LOOP"}
      BY <1>3
    <2>. HIDE DEF dd, op
    <2>3. Fits(l2, op, <<>>, dd - 1) /\ op \notin Jumps
      BY <2>1, <2>2, FitsPop
    <2>. QED
      BY <2>3 DEF op, dd
  <1>5. Fits(l2, "LOOP", <<>>, d)
    BY <1>2, <1>4
  <1>6. PICK l3 : Adds(e, l3, l2, "LOOP", d)
    BY <1>1, <1>5, EmitOn
  <1>7. /\ Laid(e.code, l3) /\ Grows(l2, l3) /\ l3.depth[l3.size] = d /\ l3.open = l2.open
        /\ e.last.op = "LOOP"
    BY <1>4, <1>6 DEF Adds
  <1>8. e \in Pieces
    BY <1>1, <1>3, EmitPiece
  <1>. HIDE DEF e
  <1>9. Grows(l, l3)
    <2>1. l3.size \in Nat
      BY <1>7, LaidFacts
    <2>. QED
      BY <2>1, <1>1, <1>2, <1>7, GrowsOn
  <1>10. Loads(e, l, l3, 0)
    <2>1. l3.depth[l3.size] = d + 0 /\ l3.open = l.open
      BY <1>1, <1>2, <1>7
    <2>. QED
      BY <2>1, <1>7, <1>8, <1>9 DEF Loads, d
  <1>11. "LOOP" \notin Ending
    BY DEF Ending
  <1>. QED
    BY <1>7, <1>10, <1>11 DEF e

(* The update of a loop is compiled in its place.                          *)
LEMMA UpdatePlace ==
  ASSUME NEW place, NEW u, NEW ss, NEW lay, NEW hm, PlaceOK(place, u, ss, lay, hm),
         NEW c, c.level = u.level, c.loops = u.loops
  PROVE  PlaceOK([place EXCEPT !.update = TRUE], c, ss, lay, hm)
  <1> DEFINE q == [place EXCEPT !.update = TRUE]
  <1>1. place \in Places
    BY DEF PlaceOK
  <1>2. q \in Places /\ q.loop = place.loop /\ q.function = place.function /\ q.update
    BY <1>1 DEF Places
  <1>3. q.loop \in BOOLEAN /\ q.function \in BOOLEAN
    BY <1>2 DEF Places
  <1>. HIDE DEF q
  <1>4. q.loop => c.loops \in 1..Len(hm) /\ hm[c.loops] = ss[c.level].ins /\ ViewOf(c.level, ss, lay).kind = "loop"
    BY <1>2 DEF PlaceOK
  <1>5. q.function => ViewOf(c.level, ss, lay).kind = "function"
    BY <1>2 DEF PlaceOK
  <1>6. PlaceOK(q, c, ss, lay, hm)
    BY <1>2, <1>4, <1>5 DEF PlaceOK
  <1>. QED
    BY <1>6 DEF q

UpdateSteps(place, hasUpdate) ==
  IF ~hasUpdate THEN <<>>
  ELSE <<Expression([place EXCEPT !.update = TRUE], "value"), [do |-> "expression_statement"]>>

LEMMA MovedHere ==
  ASSUME NEW c, c \in State, c.depth \in Nat
  PROVE  /\ Moved(c, c.depth + 1, 0) \in State
         /\ Moved(c, c.depth + 1, 0).level = c.level /\ Moved(c, c.depth + 1, 0).loops = c.loops
         /\ Moved(c, c.depth + 1, 0).update = c.update /\ Moved(c, c.depth + 1, 0).void = FALSE
         /\ Moved(c, c.depth + 1, 0).depth = c.depth + 1
         /\ Moved(c, c.depth, 2) \in State
         /\ Moved(c, c.depth, 2).level = c.level /\ Moved(c, c.depth, 2).loops = c.loops
         /\ Moved(c, c.depth, 2).update = c.update /\ Moved(c, c.depth, 2).depth = c.depth
  <1>1. \A d, e : d \in Nat /\ e \in 0..2 =>
          /\ Moved(c, d, e) \in State
          /\ Moved(c, d, e).level = c.level /\ Moved(c, d, e).loops = c.loops
          /\ Moved(c, d, e).update = c.update /\ Moved(c, d, e).depth = d
          /\ Moved(c, d, e).void = FALSE
    <2>1. ASSUME NEW d, NEW e, d \in Nat, e \in 0..2
          PROVE  /\ Moved(c, d, e) \in State
                 /\ Moved(c, d, e).level = c.level /\ Moved(c, d, e).loops = c.loops
                 /\ Moved(c, d, e).update = c.update /\ Moved(c, d, e).depth = d
                 /\ Moved(c, d, e).void = FALSE
      BY <2>1, StateFields DEF Moved, St, State
    <2>. QED
      BY <2>1
  <1>2. c.depth + 1 \in Nat /\ 0 \in 0..2 /\ 2 \in 0..2
    OBVIOUS
  <1>. QED
    BY <1>1, <1>2

LEMMA UpdateWay ==
  ASSUME NEW place, NEW hasUpdate, NEW u, NEW ss, NEW lay, NEW hm, PlaceOK(place, u, ss, lay, hm),
         NEW c, c \in State, c.level = u.level, c.loops = u.loops, ~c.void, c = Moved(c, c.depth, 0)
  PROVE  /\ \E e \in 0..2 : Way(UpdateSteps(place, hasUpdate), c, Moved(c, c.depth, e), ss, lay, hm)
         /\ IsSeq(UpdateSteps(place, hasUpdate)) /\ Len(UpdateSteps(place, hasUpdate)) \in Nat
  <1> DEFINE q == [place EXCEPT !.update = TRUE]
             x == Expression(q, "value")
             y == [do |-> "expression_statement"]
             ys == UpdateSteps(place, hasUpdate)
             c1 == Moved(c, c.depth + 1, 0)
             c2 == Moved(c, c.depth, 2)
  <1>3. c \in State
    OBVIOUS
  <1>1. CASE ~hasUpdate
    <2>1. ys = <<>>
      BY <1>1 DEF UpdateSteps
    <2>2. Path(<<>>, <<c>>, c, c, ss, lay, hm)
      BY PathNone
    <2>3. Way(<<>>, c, Moved(c, c.depth, 0), ss, lay, hm)
      BY <2>2 DEF Way
    <2>4. IsSeq(<<>>) /\ Len(<<>>) \in Nat
      BY EmptySeq DEF IsSeq
    <2>5. 0 \in 0..2
      OBVIOUS
    <2>. HIDE DEF ys
    <2>6. \E e \in 0..2 : Way(ys, c, Moved(c, c.depth, e), ss, lay, hm)
      BY <2>1, <2>3, <2>5
    <2>. QED
      BY <2>1, <2>4, <2>6 DEF ys
  <1>2. CASE hasUpdate
    <2>1. ys = <<x, y>>
      BY <1>2 DEF UpdateSteps
    <2>2. c.depth \in Nat /\ c.depth + 1 \in Nat
      BY StateFields
    <2>3. /\ c1 \in State /\ c1.level = c.level /\ c1.loops = c.loops /\ c1.update = c.update
          /\ c1.depth = c.depth + 1 /\ c1.void = FALSE
      BY ONLY <2>2, <1>3, MovedHere
    <2>4. /\ c2 \in State /\ c2.level = c.level /\ c2.loops = c.loops /\ c2.update = c.update
          /\ c2.depth = c.depth
      BY ONLY <2>2, <1>3, MovedHere
    <2>5. PlaceOK(q, c, ss, lay, hm)
      BY UpdatePlace
    <2>6. Joined(x, c, c1, ss, lay, hm)
      <3>1. x = [do |-> "expression", place |-> q, kind |-> "value", name |-> NULL]
        BY DEF Expression
      <3>2. c.void = FALSE
        BY StateFields
      <3>3. NULL \in Names \cup {NULL}
        OBVIOUS
      <3>. HIDE DEF x, q
      <3>. QED
        BY <3>1, <3>2, <3>3, <2>5, ExpressionJoined
    <2>7. Joined(y, c1, c2, ss, lay, hm)
      <3>1. c1.depth >= 1 /\ c1.depth - 1 = c.depth
        BY <2>2, <2>3
      <3>2. c2 = St(c1.level, c1.loops, c1.depth - 1, FALSE, c1.update, 2)
        <4>1. c2 = St(c.level, c.loops, c.depth, FALSE, c.update, 2)
          BY DEF Moved
        <4>. HIDE DEF c1, c2
        <4>. QED
          BY <4>1, <3>1, <2>3, Zenon
      <3>3. StatementOK(c1, c2)
        <4>. HIDE DEF c1, c2
        <4>. QED
          BY <2>3, <3>1, <3>2 DEF StatementOK
      <3>4. y.do = "expression_statement"
        OBVIOUS
      <3>. QED
        BY <3>3, <3>4 DEF Joined
    <2>8. Under(c, c1) /\ Under(c1, c2)
      BY <2>3, <2>4, UnderSame
    <2>. HIDE DEF x, y, c1, c2, ys
    <2>9. Way(<<x, y>>, c, c2, ss, lay, hm) /\ IsSeq(<<x, y>>)
      BY <2>3, <2>4, <2>6, <2>7, <2>8, WayTwo
    <2>10. Len(<<x, y>>) \in Nat /\ 2 \in 0..2
      OBVIOUS
    <2>11. \E e \in 0..2 : Way(ys, c, Moved(c, c.depth, e), ss, lay, hm)
      BY <2>1, <2>9, <2>10 DEF c2
    <2>. QED
      BY <2>1, <2>9, <2>10, <2>11 DEF ys
  <1>. QED
    BY <1>1, <1>2

(* What is to do when the body of a loop has become a constant.            *)
LoopEnds(z, n, b, k, d, l, c, u) ==
  /\ z.do = "end_loop" /\ z.slot = n /\ n = b + 1 /\ n \in Nat /\ b \in Nat
  /\ JumpAt(l, z.jump, "JMP_IF_FALSE", d + 1) /\ PlaceAt(l, z.before, d)
  /\ c.level = b /\ c.loops = k /\ c.depth = d /\ c.void = FALSE /\ c.update = TRUE
  /\ u = St(b, k, d, TRUE, FALSE, 1)

BreaksAt(breaks, l) == breaks \in Seq(Nat) /\ \A j \in 1..Len(breaks) : BreakAt(l, breaks[j])

LEMMA EndLoopJoined ==
  ASSUME NEW n, NEW lay, LaysOK(arrays, lay), ScopesOK(n, scopes, arrays, lay),
         NEW l, NEW cs2, NEW ss2, NEW ar2, NEW lay2, Shallower(n, l, scopes, lay, cs2, ss2, ar2, lay2),
         NEW z, NEW b, NEW k, NEW d, NEW c, NEW u, LoopEnds(z, n, b, k, d, l, c, u),
         BreaksAt(z.breaks, ViewOf(n, scopes, lay)), NEW hm2
  PROVE  Joined(z, c, u, ss2, lay2, hm2)
  <1>1. /\ z.do = "end_loop" /\ z.slot = n /\ n = b + 1 /\ n \in Nat /\ b \in Nat
        /\ JumpAt(l, z.jump, "JMP_IF_FALSE", d + 1) /\ PlaceAt(l, z.before, d)
        /\ c.level = b /\ c.loops = k /\ c.depth = d /\ c.void = FALSE /\ c.update = TRUE
        /\ u = St(b, k, d, TRUE, FALSE, 1)
    BY DEF LoopEnds
  <1>2. /\ scopes \in Seq(Slot) /\ n \in 1..Len(scopes)
        /\ \A level \in 1..n : scopes[level].ins \in 1..Len(arrays)
        /\ \A i, j \in 1..n : scopes[i].ins = scopes[j].ins => i = j
        /\ DOMAIN lay = 1..Len(arrays)
    BY DEF ScopesOK, LaysOK
  <1>3. SlotsStay(scopes, lay, ss2, lay2)
    BY DEF Shallower
  <1>4. ViewOf(b, ss2, lay2) = l
    <2>1. n - 1 = b
      BY <1>1
    <2>. QED
      BY <2>1 DEF Shallower
  <1>5. /\ Len(ss2) = Len(scopes) /\ DOMAIN lay2 = DOMAIN lay
        /\ \A level \in 1..Len(scopes) : ss2[level].ins = scopes[level].ins
    BY <1>3 DEF SlotsStay
  <1>6. Len(scopes) \in Nat /\ \A level \in 1..b : level \in 1..n /\ level \in 1..Len(scopes) /\ level # n
    <2>1. Len(scopes) \in Nat
      BY <1>2, LenProperties
    <2>. QED
      BY <2>1, <1>1, <1>2
  <1>7. n \in 1..n
    BY <1>2
  <1>8. ss2[n].ins = scopes[n].ins /\ ss2[n].ins \in DOMAIN lay2 /\ n <= Len(ss2)
    BY <1>2, <1>5, <1>7
  <1>9. \A level \in 1..b : ss2[level].ins # ss2[n].ins
    BY <1>2, <1>5, <1>6, <1>7, <1>8
  <1>10. \A j \in 1..Len(z.breaks) : BreakAt(lay2[ss2[n].ins], z.breaks[j])
    <2>1. \A p : BreakAt(lay[scopes[n].ins], p) => BreakAt(lay2[scopes[n].ins], p)
      BY <1>2, <1>3, <1>7 DEF SlotsStay
    <2>. QED
      BY <2>1, <1>8 DEF BreaksAt, ViewOf
  <1>11. EndLoopOK(z, c, u, ss2, lay2)
    <2>1. JumpAt(ViewOf(c.level, ss2, lay2), z.jump, "JMP_IF_FALSE", c.depth + 1)
      BY <1>1, <1>4
    <2>2. PlaceAt(ViewOf(c.level, ss2, lay2), z.before, c.depth)
      BY <1>1, <1>4
    <2>3. u = St(c.level, c.loops, c.depth, TRUE, FALSE, 1)
      BY <1>1
    <2>4. z.slot = c.level + 1 /\ z.slot <= Len(ss2)
      BY <1>1, <1>8
    <2>5. ss2[z.slot].ins \in DOMAIN lay2 /\ (\A level \in 1..c.level : ss2[level].ins # ss2[z.slot].ins)
      BY <1>1, <1>8, <1>9
    <2>6. z.breaks \in Seq(Nat) /\ \A j \in 1..Len(z.breaks) : BreakAt(lay2[ss2[z.slot].ins], z.breaks[j])
      BY <1>1, <1>10 DEF BreaksAt
    <2>7. c.void = FALSE /\ c.update = TRUE
      BY <1>1
    <2>. QED
      BY <2>1, <2>2, <2>3, <2>4, <2>5, <2>6, <2>7, Zenon DEF EndLoopOK
  <1>. QED
    BY <1>1, <1>11 DEF Joined

LEMMA EndLoopBodyStepOK ==
  ASSUME Prepared, Known, TablesOK(tables), EndLoopBody
  PROVE  Known' /\ TablesOK(tables')
  <1>1. PICK g, lay, hm : Ctx(g, lay, hm)
    BY DEF Known
  <1> DEFINE body == IF Current.last.op = "CONTINUE" THEN Current ELSE Emit(Current, "CONTINUE", <<>>)
             n == scope_index
             b == scope_index - 1
             s == g[1]
             u == g[2]
             it == todo[1]
             l == ViewOf(scope_index, scopes, lay)
             lb == ViewOf(b, scopes, lay)
  <1>2. PICK kept \in Intact : Leave("loop", 0, body, Emit(Closed(At(scope_index - 1), kept), "LOOP", <<>>))
    BY DEF EndLoopBody
  <1> DEFINE closed == Closed(At(b), kept)
             outer == Emit(closed, "LOOP", <<>>)
             z == [do |-> "end_loop", before |-> it.before, jump |-> it.jump,
                   breaks |-> Head(loops), slot |-> n]
             ups == UpdateSteps(it.place, it.hasUpdate)
             ys == ups \o <<z>>
  <1>3. Running("end_body") /\ "end_body" \in {"end_function", "end_body"}
    BY DEF EndLoopBody
  <1>4. /\ todo # <<>> /\ Head(todo) = it /\ it.do = "end_body"
        /\ s \in State /\ u \in State
        /\ Joined(it, s, u, scopes, lay, hm)
        /\ s.level = n /\ s.loops = Len(loops) /\ s.void = is_void
        /\ s.end >= 1 => (Current.last.op \in Ending => Fresh(Current.last, l))
        /\ LaysOK(arrays, lay) /\ ScopesOK(n, scopes, arrays, lay)
        /\ IsSeq(constants) /\ HomesOK(loops, hm, lay)
        /\ Laid(Current.code, l)
    BY <1>1, <1>3, EndingScope
  <1>5. EndBodyOK(it, s, u, scopes, lay, hm)
    BY <1>4 DEF Joined
  <1>6. /\ PlaceOK(it.place, u, scopes, lay, hm)
        /\ s.void = FALSE /\ s.end >= 1 /\ s.level >= 2
        /\ s.loops \in 1..Len(hm) /\ hm[s.loops] = scopes[s.level].ins
        /\ ViewOf(s.level, scopes, lay).kind = "loop"
        /\ LET o == ViewOf(s.level - 1, scopes, lay)
               d == o.depth[o.size]
           IN  /\ JumpAt(o, it.jump, "JMP_IF_FALSE", d + 1)
               /\ PlaceAt(o, it.before, d)
               /\ u = St(s.level - 1, s.loops - 1, d, TRUE, FALSE, 1)
    BY <1>5, Zenon DEF EndBodyOK
  <1>7. n \in Nat /\ n >= 2 /\ b \in 1..n /\ b >= 1 /\ b < n /\ s.level - 1 = b /\ b \in Nat /\ n = b + 1
    <2>1. n \in Nat
      BY TablesFacts DEF scope_index
    <2>2. n >= 2
      BY <1>4, <1>6
    <2>. QED
      BY <2>1, <2>2, <1>4
  <1> DEFINE d == lb.depth[lb.size]
             k == Len(loops) - 1
  <1>8. /\ l.kind = "loop" /\ u = St(b, k, d, TRUE, FALSE, 1)
        /\ JumpAt(lb, it.jump, "JMP_IF_FALSE", d + 1) /\ PlaceAt(lb, it.before, d)
    <2>1. l.kind = "loop"
      BY <1>4, <1>6
    <2>2. ViewOf(s.level - 1, scopes, lay) = lb
      BY <1>7
    <2>3. u = St(s.level - 1, s.loops - 1, d, TRUE, FALSE, 1)
      BY <2>2, <1>6
    <2>4. u = St(b, k, d, TRUE, FALSE, 1)
      BY <2>3, <1>4, <1>7
    <2>. QED
      BY <2>1, <2>2, <2>4, <1>6
  <1>9. /\ u.level = b /\ u.loops = k /\ u.depth = d
        /\ u.void = TRUE /\ u.update = FALSE /\ u.end = 1
    BY <1>8 DEF St
  <1>10. l.open = {}
    BY <1>1, <1>4, <1>7, <1>9, InnerClosed
  <1>10a. body = IF Current.last.op = "CONTINUE" THEN Current ELSE Emit(Current, "CONTINUE", <<>>)
    OBVIOUS
  <1>11. PICK l1 : Laid(body.code, l1) /\ Sealed(l1) /\ l1.kind = l.kind /\ Keeps(l, l1, 0)
    <2>. HIDE DEF body
    <2>. QED
      BY <1>4, <1>6, <1>8, <1>10, <1>10a, ContinuingLaid
  <1>12. kept = 1..Len(ST!Top(tables).free_symbols)
    BY AllKept
  <1>13. At(b) \in Pieces /\ Laid(At(b).code, lb)
    BY <1>4, <1>7, PieceAt
  <1>14. IsFiniteSet(Names) /\ Cardinality(Names) <= 255
    BY DEF Prepared
  <1>15. \E l2 : Loads(closed, lb, l2, 1)
    BY <1>4, <1>12, <1>13, <1>14, ClosedAdds
  <1>16. PICK l2 : Loads(closed, lb, l2, 1)
    BY <1>15
  <1>17. (\E l3 : Loads(outer, lb, l3, 0)) /\ outer.last.op \notin Ending
    <2>. HIDE DEF closed, lb
    <2>1. /\ \E l3 : Loads(Emit(closed, "LOOP", <<>>), lb, l3, 0)
          /\ Emit(closed, "LOOP", <<>>).last.op = "LOOP" /\ "LOOP" \notin Ending
      BY <1>13, <1>16, LoopAdds
    <2>. QED
      BY <2>1
  <1>18. PICK l3 : Loads(outer, lb, l3, 0)
    BY <1>17
  <1>19. Leave("loop", 0, body, outer)
    BY <1>2
  <1>20. Continue(ys) /\ UNCHANGED <<is_void>> /\ loops' = Tail(loops)
    <2>1. Head(todo) = it
      BY <1>4
    <2>2. UNCHANGED is_void /\ loops' = Tail(loops)
      BY DEF EndLoopBody
    <2>3. Continue((IF ~Head(todo).hasUpdate THEN <<>>
                    ELSE <<Expression([Here EXCEPT !.update = TRUE], "value"),
                           [do |-> "expression_statement"]>>) \o
                   <<[do |-> "end_loop", before |-> Head(todo).before,
                      jump |-> Head(todo).jump, breaks |-> Head(loops),
                      slot |-> scope_index]>>)
      BY Zenon DEF EndLoopBody
    <2>4. Continue(ys)
      BY <2>1, <2>3 DEF UpdateSteps, Here
    <2>. QED
      BY <2>2, <2>4
  <1>21. n = scope_index /\ b = n - 1
    OBVIOUS
  <1>22. z.do = "end_loop" /\ z.before = it.before /\ z.jump = it.jump /\ z.breaks = Head(loops) /\ z.slot = n
    OBVIOUS
  <1>23. d \in Nat /\ lb.size \in DOMAIN lb.depth
    <2>1. lb.size \in DOMAIN lb.depth /\ \A p \in DOMAIN lb.depth : lb.depth[p] \in Nat
      BY <1>13 DEF Laid
    <2>. QED
      BY <2>1
  <1>. HIDE DEF body, n, b, s, u, it, l, lb, closed, outer, z, ups, d, k
  <1>24. /\ outer \in Pieces /\ Laid(outer.code, l3) /\ Grows(lb, l3) /\ l3.open = lb.open
         /\ l3.depth[l3.size] = d
    <2>1. l3.depth[l3.size] = d + 0
      BY <1>18 DEF Loads, d
    <2>2. l3.depth[l3.size] = d
      BY <2>1, <1>23
    <2>. QED
      BY <2>2, <1>18 DEF Loads
  <1>25. Keeps(lb, l3, lb.size)
    BY <1>13, <1>24, GrowsKeeps
  <1>26. /\ TablesOK(tables') /\ scope_index' = b /\ b \in 1..n
         /\ \E lay2 : /\ Shallower(n, l3, scopes, lay, constants', scopes', arrays', lay2)
                      /\ scopes'[b].last = outer.last
    <2>1. l1.kind = ViewOf(n, scopes, lay).kind /\ Keeps(ViewOf(n, scopes, lay), l1, 0)
      BY <1>11, <1>21 DEF l
    <2>2. Keeps(ViewOf(b, scopes, lay), l3, lb.size)
      BY <1>25 DEF lb
    <2>3. "loop" = l1.kind
      BY <1>8, <1>11
    <2> DEFINE kind == "loop"
               params == 0
    <2>4. TwoPieces(n, b, lay, body, l1, outer, l3, lb.size, kind)
      BY <2>1, <2>2, <2>3, <1>11, <1>24 DEF TwoPieces
    <2>5. Leave(kind, params, body, outer)
      BY <1>19
    <2>. HIDE DEF kind, params
    <2>6. todo # <<>>
      BY <1>4
    <2>. QED
      BY <2>4, <2>5, <2>6, <1>1, <1>7, <1>21, LeaveDoes
  <1>27. PICK lay2 : /\ Shallower(n, l3, scopes, lay, constants', scopes', arrays', lay2)
                     /\ scopes'[b].last = outer.last
    BY <1>26
  <1>28. loops # <<>> /\ Len(loops) \in Nat /\ Len(loops) >= 1
    <2>1. Len(hm) = Len(loops) /\ Len(loops) \in Nat
      BY <1>4, LenProperties DEF HomesOK
    <2>2. Len(loops) >= 1
      BY <2>1, <1>6
    <2>3. loops # <<>>
      BY <2>2
    <2>. QED
      BY <2>1, <2>2, <2>3
  <1>29. PICK hm2 : /\ HomesOK(Tail(loops), hm2, lay) /\ hm2 \in Seq(Nat)
                    /\ Len(hm2) + 1 = Len(hm) /\ Len(hm2) \in Nat /\ Len(hm2) = Len(Tail(loops))
                    /\ Len(hm) = Len(loops)
                    /\ \A j \in 1..Len(hm2) : hm2[j] = hm[j]
                    /\ Head(loops) \in Seq(Nat)
                    /\ \A j \in 1..Len(Head(loops)) :
                         hm[Len(hm)] \in DOMAIN lay /\ BreakAt(lay[hm[Len(hm)]], Head(loops)[j])
    BY <1>4, <1>28, HomesLeave
  <1>30. k = Len(hm2) /\ k \in Nat /\ k <= Len(hm) /\ hm \in Seq(Nat)
    <2>1. hm \in Seq(Nat)
      BY <1>4 DEF HomesOK
    <2>. QED
      BY <2>1, <1>28, <1>29 DEF k
  <1>31. BreaksAt(z.breaks, ViewOf(n, scopes, lay))
    <2>1. hm[Len(hm)] = scopes[n].ins
      BY <1>4, <1>6, <1>29
    <2>. QED
      BY <2>1, <1>22, <1>29 DEF BreaksAt, ViewOf
  <1>32. SlotsStay(scopes, lay, scopes', lay2)
    BY <1>27 DEF Shallower
  <1>33. HomesOK(loops', hm2, lay2)
    BY <1>20, <1>29, <1>32, HomesStay
  <1>34. PlaceOK(it.place, u, scopes', lay2, hm2)
    <2>1. Stays(b, k, lb.size, scopes, lay, hm, scopes', lay2, hm2)
      <3>1. /\ ViewOf(n - 1, scopes', lay2) = l3
            /\ \A level \in 1..n - 2 : ViewOf(level, scopes', lay2) = ViewOf(level, scopes, lay)
            /\ \A level \in 1..n - 1 : scopes'[level].ins = scopes[level].ins
        BY <1>27 DEF Shallower
      <3>2. n - 1 = b /\ n - 2 = b - 1
        BY <1>7
      <3>3. Keeps(ViewOf(b, scopes, lay), ViewOf(b, scopes', lay2), lb.size)
        BY <3>1, <3>2, <1>25 DEF lb
      <3>4. \A level \in 1..b : scopes'[level].ins = scopes[level].ins
        BY <3>1, <3>2
      <3>5. \A level \in 1..b - 1 : ViewOf(level, scopes', lay2) = ViewOf(level, scopes, lay)
        BY <3>1, <3>2
      <3>6. k <= Len(hm) /\ k <= Len(hm2)
        BY <1>30
      <3>7. \A j \in 1..k : hm2[j] = hm[j]
        BY <1>29, <1>30
      <3>. QED
        BY <3>3, <3>4, <3>5, <3>6, <3>7, Zenon DEF Stays
    <2>2. u.level \in 1..b /\ u.loops <= k
      BY <1>7, <1>9, <1>30
    <2>3. b \in Nat /\ k \in Nat /\ hm \in Seq(Nat) /\ hm2 \in Seq(Nat) /\ u \in State
      BY <1>4, <1>7, <1>29, <1>30
    <2>4. PlaceOK(it.place, u, scopes, lay, hm)
      BY <1>6
    <2>. QED
      BY ONLY <2>1, <2>2, <2>3, <2>4, PlaceStays
  <1> DEFINE c == St(b, k, d, FALSE, TRUE, 0)
  <1>35. /\ c \in State /\ c.level = b /\ c.loops = k /\ c.depth = d /\ c.void = FALSE
         /\ c.update = TRUE /\ c.end = 0
    <2>1. FALSE \in BOOLEAN /\ TRUE \in BOOLEAN /\ 0 \in 0..2
      OBVIOUS
    <2>. QED
      BY <2>1, <1>7, <1>23, <1>30 DEF St, State
  <1>36. c = Moved(c, c.depth, 0)
    <2>1. Moved(c, c.depth, 0) = St(c.level, c.loops, c.depth, FALSE, c.update, 0)
      BY DEF Moved
    <2>2. c.update = TRUE
      BY <1>35
    <2>3. St(c.level, c.loops, c.depth, FALSE, c.update, 0) = St(b, k, d, FALSE, TRUE, 0)
      BY <2>2, <1>35, Zenon
    <2>. QED
      BY <2>1, <2>3
  <1>. HIDE DEF c
  <1>37. /\ \E e \in 0..2 : Way(ups, c, Moved(c, c.depth, e), scopes', lay2, hm2)
         /\ IsSeq(ups) /\ Len(ups) \in Nat
    <2>1. ~c.void /\ c.level = u.level /\ c.loops = u.loops
      BY <1>9, <1>35
    <2>. QED
      BY <2>1, <1>34, <1>35, <1>36, UpdateWay DEF ups
  <1>38. PICK e \in 0..2 : Way(ups, c, Moved(c, c.depth, e), scopes', lay2, hm2)
    BY <1>37
  <1> DEFINE c2 == Moved(c, c.depth, e)
  <1>39. /\ c2 \in State /\ c2.level = b /\ c2.loops = k /\ c2.depth = d /\ c2.void = FALSE
         /\ c2.update = TRUE
    <2>1. e \in 0..2
      OBVIOUS
    <2>2. c.update = TRUE
      BY <1>35
    <2>3. c2 = St(b, k, d, FALSE, c.update, e)
      BY <1>35 DEF Moved
    <2>4. c2 = St(b, k, d, FALSE, TRUE, e)
      BY <2>2, <2>3, Zenon
    <2>5. FALSE \in BOOLEAN /\ TRUE \in BOOLEAN
      OBVIOUS
    <2>. HIDE DEF c2
    <2>. QED
      BY <2>1, <2>4, <2>5, <1>7, <1>23, <1>30 DEF St, State
  <1>. HIDE DEF c2
  <1>40. Joined(z, c2, u, scopes', lay2, hm2)
    <2>1. JumpAt(l3, z.jump, "JMP_IF_FALSE", d + 1)
      <3>1. JumpAt(lb, z.jump, "JMP_IF_FALSE", d + 1)
        BY <1>8, <1>22
      <3> DEFINE op == "JMP_IF_FALSE"
                 dd == d + 1
      <3>2. JumpAt(lb, z.jump, op, dd)
        BY <3>1
      <3>. HIDE DEF op, dd
      <3>3. JumpAt(l3, z.jump, op, dd)
        BY <3>2, <1>13, <1>24, GrowsJump
      <3>. QED
        BY <3>3 DEF op, dd
    <2>2. PlaceAt(l3, z.before, d)
      BY <1>8, <1>22, <1>24 DEF PlaceAt, Grows
    <2>3. LoopEnds(z, n, b, k, d, l3, c2, u)
      BY <2>1, <2>2, <1>7, <1>8, <1>22, <1>39, Zenon DEF LoopEnds
    <2>. QED
      BY <2>3, <1>4, <1>27, <1>31, EndLoopJoined
  <1>41. Way(<<z>>, c2, u, scopes', lay2, hm2)
    <2>1. Under(c2, u)
      <3>1. u.level <= c2.level /\ u.loops <= c2.loops
        BY <1>7, <1>9, <1>30, <1>39
      <3>2. u.update # TRUE
        BY <1>9
      <3>. QED
        BY <3>1, <3>2 DEF Under
    <2>. QED
      BY <2>1, <1>4, <1>39, <1>40, WayOne
  <1>42. Way(ys, c, u, scopes', lay2, hm2)
    BY <1>38, <1>41, JoinedWays DEF c2
  <1>43. PICK h : Path(ys, h, c, u, scopes', lay2, hm2)
    BY <1>42 DEF Way
  <1>44. ys[Len(ys)] = z /\ Len(ys) \in 1..Len(ys) /\ h[Len(ys) + 1] = u /\ h[1] = c
    <2>1. IsSeq(<<z>>) /\ Len(<<z>>) = 1 /\ <<z>>[1] = z
      <3>1. <<z>> \in Seq({z}) /\ Len(<<z>>) = 1 /\ <<z>>[1] = z
        OBVIOUS
      <3>. QED
        BY <3>1 DEF IsSeq
    <2>2. PICK S : ups \in Seq(S)
      BY <1>37 DEF IsSeq
    <2>3. ys = Append(ups, z)
      BY <2>2
    <2>4. ups \in Seq(S \cup {z})
      BY <2>2, SeqDef
    <2>5. Len(ys) = Len(ups) + 1 /\ ys[Len(ups) + 1] = z
      <3>. HIDE DEF ys
      <3>. QED
        BY <2>3, <2>4, AppendProperties
    <2>6. h[1] = c /\ h[Len(ys) + 1] = u
      BY <1>43 DEF Path
    <2>7. Len(ups) \in Nat
      BY <1>37
    <2>. HIDE DEF ys
    <2>. QED
      BY <2>5, <2>6, <2>7
  <1>. HIDE DEF ys
  <1>45. StillOpen(l3.open, lb, todo, g, ys, h, b)
    <2>1. z.do \in Patching /\ z.jump = it.jump /\ u.level = b
      BY <1>9, <1>22 DEF Patching
    <2>2. ys[Len(ys)].do \in Patching /\ ys[Len(ys)].jump = it.jump /\ h[Len(ys) + 1].level = b
      BY <2>1, <1>44
    <2>. QED
      BY <2>2, <1>24, <1>44 DEF StillOpen, it
  <1>46. RestMarked(lb.size, todo, g, b)
    <2>1. b \in 1..scope_index
      BY <1>21, <1>26
    <2>. QED
      BY <2>1, <1>1, <1>4, OuterWithin DEF lb
  <1>47. Known'
    <2>1. Path(ys, h, h[1], g[2], scopes', lay2, hm2)
      BY <1>43, <1>44 DEF u
    <2>2. StillOpen(l3.open, ViewOf(b, scopes, lay), todo, g, ys, h, b)
      BY <1>45 DEF lb
    <2>3. Keeps(ViewOf(b, scopes, lay), l3, lb.size)
      BY <1>25 DEF lb
    <2>4. g[2].level = b /\ g[2].update # TRUE /\ g[2].loops <= k
      <3>1. u.level = b /\ u.loops <= k
        BY <1>9, <1>30
      <3>2. u.update # TRUE
        BY <1>9
      <3>. QED
        BY <3>1, <3>2 DEF u
    <2>5. k \in Nat /\ k <= Len(hm) /\ k <= Len(hm2) /\ (\A j \in 1..k : hm2[j] = hm[j])
      BY <1>29, <1>30
    <2>6. h[1].level = b /\ h[1].depth = l3.depth[l3.size] /\ h[1].end # 2
      BY <1>24, <1>35, <1>44
    <2>7. h[1].loops = Len(loops')
      BY <1>20, <1>29, <1>30, <1>35, <1>44
    <2>8. h[1].void = is_void'
      <3>1. is_void = FALSE
        BY <1>4, <1>6, Zenon
      <3>2. is_void' = FALSE
        BY <3>1, <1>20
      <3>3. h[1].void = FALSE
        BY <1>35, <1>44
      <3>. QED
        BY <3>2, <3>3, Zenon
    <2>9. scopes'[b].last.op \notin Ending
      BY <1>17, <1>27
    <2>10. todo # <<>>
      BY <1>4
    <2>11. Ctx(g, lay, hm) /\ n = scope_index /\ b = n - 1 /\ b \in 1..n /\ scope_index' = b
      BY <1>1, <1>21, <1>26
    <2>12. Shallower(n, l3, scopes, lay, constants', scopes', arrays', lay2)
      BY <1>27
    <2>13. Agree(hm, hm2, k)
      BY <2>5, Zenon DEF Agree
    <2>14. Lands(h[1], b, l3, loops', is_void', scopes')
      BY <2>6, <2>7, <2>8, <2>9, Zenon DEF Lands
    <2>15. k \in Nat
      BY <2>5
    <2>. QED
      BY ONLY <2>1, <2>2, <2>3, <2>4, <2>10, <2>11, <2>12, <2>13, <2>14, <2>15, <1>20,
         <1>33, <1>46, LeavesTo
  <1>. QED
    BY <1>26, <1>47

----------------------------------------------------------------------------
(* Loops are left *)

(* Code with the same instructions, of which only breaks have changed.     *)
SameOps(l, l2) ==
  /\ l2.size = l.size /\ l2.kind = l.kind /\ l2.depth = l.depth /\ l2.open = l.open
  /\ DOMAIN l2.at = DOMAIN l.at
  /\ \A p \in DOMAIN l.at : l2.at[p].op = l.at[p].op
  /\ \A p \in DOMAIN l.at : l.at[p].op # "BREAK" => l2.at[p] = l.at[p]

OnlyBreaks(code, c, l) ==
  /\ Len(c) = Len(code)
  /\ \A k \in 1..Len(code) : c[k] # code[k] =>
       \E p \in DOMAIN l.at : l.at[p].op = "BREAK" /\ k = p + 2

Redirected(code, l, c) == OnlyBreaks(code, c, l) /\ \E l2 : Laid(c, l2) /\ SameOps(l, l2)

LEMMA RedirectedOne ==
  ASSUME NEW code, NEW l, NEW c, Redirected(code, l, c), Laid(code, l), NEW p, BreakAt(l, p), NEW t \in Nat
  PROVE  /\ Redirected(code, l, change_operand(c, p, t)) /\ ~Misplaced(c, p)
         /\ change_operand(c, p, t) \in Seq(Byte)
  <1> DEFINE c2 == change_operand(c, p, t)
  <1>1. PICK l2 : Laid(c, l2) /\ SameOps(l, l2)
    BY DEF Redirected
  <1> DEFINE l3 == Retargeted(l2, p, t)
  <1>2. p \in DOMAIN l.at /\ l.at[p].op = "BREAK"
    BY DEF BreakAt
  <1>3. p \in DOMAIN l2.at /\ l2.at[p].op = "BREAK"
    BY <1>1, <1>2 DEF SameOps
  <1>4. "BREAK" \notin Jumps /\ l2.at[p].op \in Jumps \cup {"BREAK"} /\ l2.at[p].op \notin Jumps
    BY <1>3 DEF Jumps
  <1>5. /\ Laid(c2, l3) /\ ~Misplaced(c, p) /\ Len(c2) = Len(c)
        /\ \A k \in 1..Len(c) : c2[k] # c[k] => k \in p + 2..p + Size(l2, p)
    BY <1>1, <1>3, <1>4, PatchLaid
  <1>6. p \notin l2.open
    BY <1>1, <1>4 DEF Laid
  <1>7. SameOps(l, l3)
    <2>1. /\ l3.size = l2.size /\ l3.kind = l2.kind /\ l3.depth = l2.depth /\ l3.open = l2.open \ {p}
          /\ DOMAIN l3.at = DOMAIN l2.at
          /\ \A q \in DOMAIN l2.at : l3.at[q].op = l2.at[q].op
          /\ \A q \in DOMAIN l2.at : q # p => l3.at[q] = l2.at[q]
      BY DEF Retargeted
    <2>2. l3.open = l2.open
      BY <2>1, <1>6
    <2>. HIDE DEF l3
    <2>3. \A q \in DOMAIN l.at : l.at[q].op # "BREAK" => l3.at[q] = l.at[q]
      BY <2>1, <1>1, <1>2 DEF SameOps
    <2>4. \A q \in DOMAIN l.at : l3.at[q].op = l.at[q].op
      BY <2>1, <1>1 DEF SameOps
    <2>. QED
      BY <2>1, <2>2, <2>3, <2>4, <1>1 DEF SameOps
  <1>8. Size(l2, p) = 2 /\ p \in Nat
    <2>1. Widths("BREAK") = <<1>>
      BY DEF Widths
    <2>2. InstructionLength("BREAK") = 2
      BY <2>1 DEF InstructionLength
    <2>3. p \in Nat
      BY <1>1, <1>3, LaidFacts
    <2>. QED
      BY <2>2, <2>3, <1>3 DEF Size
  <1>. HIDE DEF c2, l3
  <1>9. OnlyBreaks(code, c2, l)
    <2>1. Len(c) = Len(code) /\ OnlyBreaks(code, c, l)
      BY DEF Redirected, OnlyBreaks
    <2>2. ASSUME NEW k \in 1..Len(code), c2[k] # code[k]
          PROVE  \E q \in DOMAIN l.at : l.at[q].op = "BREAK" /\ k = q + 2
      <3>1. CASE c2[k] = c[k]
        BY <2>1, <2>2, <3>1 DEF OnlyBreaks
      <3>2. CASE c2[k] # c[k]
        <4>1. k \in p + 2..p + Size(l2, p)
          BY <2>1, <3>2, <1>5
        <4>2. k \in p + 2..p + 2
          BY <4>1, <1>8
        <4>3. k = p + 2
          BY <4>2, <1>8
        <4>. QED
          BY <4>3, <1>2
      <3>. QED
        BY <3>1, <3>2
    <2>. QED
      BY <2>1, <2>2, <1>5 DEF OnlyBreaks
  <1>10. c2 \in Seq(Byte)
    BY <1>5 DEF Laid
  <1>11. Redirected(code, l, c2)
    BY <1>5, <1>7, <1>9 DEF Redirected
  <1>. QED
    BY <1>5, <1>10, <1>11 DEF c2

LEMMA ExceptCode ==
  ASSUME NEW r, NEW x, r = [code |-> x, fault |-> {}], NEW c
  PROVE  [r EXCEPT !.code = c] = [code |-> c, fault |-> {}]
  OBVIOUS

(* The breaks of a loop get their target, and the compiler survives it.    *)
LEMMA PatchBreaksLaid ==
  ASSUME NEW code, NEW l, Laid(code, l), NEW breaks, BreaksAt(breaks, l), NEW t \in Nat
  PROVE  LET patch == PatchBreaks(code, breaks, t)
         IN  patch.fault = {} /\ Redirected(code, l, patch.code)
  <1> DEFINE N == Len(breaks)
             S == {r \in [code : Seq(Byte), fault : {{}}] : Redirected(code, l, r.code)}
             step(r, n) == [code |-> change_operand(r.code, breaks[n], t), fault |-> {}]
             F == [n \in Nat |-> [r \in S |-> IF n \in 1..N THEN step(r, n) ELSE r]]
             b == [code |-> code, fault |-> {}]
             G(f, n) == LET patch == f[n - 1]
                            p     == breaks[n]
                        IN  IF n < 1 THEN [code |-> code, fault |-> {}]
                            ELSE IF "ABORT" \in patch.fault THEN patch
                            ELSE IF Misplaced(patch.code, p)
                                 THEN [patch EXCEPT !.fault = @ \cup ChangeFault(patch.code, p)]
                            ELSE [patch EXCEPT !.code = change_operand(@, p, t)]
             d == CHOOSE f : f = [n \in 0..N |-> G(f, n)]
  <1>1. N \in Nat /\ \A n \in 1..N : BreakAt(l, breaks[n])
    BY LenProperties DEF BreaksAt
  <1>2. ASSUME NEW n \in 1..N, NEW r \in S
        PROVE  step(r, n) \in S /\ ~Misplaced(r.code, breaks[n]) /\ r.fault = {}
               /\ [r EXCEPT !.code = change_operand(@, breaks[n], t)] = step(r, n)
    <2>1. Redirected(code, l, r.code) /\ r.fault = {} /\ r \in [code : Seq(Byte), fault : {{}}]
      OBVIOUS
    <2>2. BreakAt(l, breaks[n])
      BY <1>1
    <2>3. /\ Redirected(code, l, change_operand(r.code, breaks[n], t))
          /\ ~Misplaced(r.code, breaks[n])
          /\ change_operand(r.code, breaks[n], t) \in Seq(Byte)
      BY <2>1, <2>2, RedirectedOne
    <2> DEFINE c == change_operand(r.code, breaks[n], t)
    <2>4. r = [code |-> r.code, fault |-> {}]
      BY <2>1
    <2>5. [r EXCEPT !.code = change_operand(@, breaks[n], t)] = [r EXCEPT !.code = c]
      OBVIOUS
    <2>6. step(r, n) = [code |-> c, fault |-> {}]
      OBVIOUS
    <2>. HIDE DEF c, step
    <2>7. [r EXCEPT !.code = c] = [code |-> c, fault |-> {}]
      BY ONLY <2>4, ExceptCode
    <2>8. c \in Seq(Byte) /\ Redirected(code, l, c)
      BY <2>3 DEF c
    <2>9. step(r, n) \in S
      BY <2>6, <2>8
    <2>. QED
      BY <2>1, <2>3, <2>5, <2>6, <2>7, <2>9
  <1>3. b \in S
    <2>1. SameOps(l, l)
      BY DEF SameOps
    <2>2. OnlyBreaks(code, code, l)
      BY DEF OnlyBreaks
    <2>3. Redirected(code, l, code) /\ code \in Seq(Byte)
      BY <2>1, <2>2 DEF Redirected, Laid
    <2>. QED
      BY <2>3
  <1>. HIDE DEF S
  <1>4. F \in [Nat -> [S -> S]]
    <2>1. ASSUME NEW n \in Nat, NEW r \in S
          PROVE  (IF n \in 1..N THEN step(r, n) ELSE r) \in S
      BY <1>2
    <2>. HIDE DEF step
    <2>. QED
      BY <2>1
  <1>5. PatchBreaks(code, breaks, t) = d[N]
    BY DEF PatchBreaks, PatchFrom
  <1>. HIDE DEF b
  <1>6. PICK g \in [0..N -> S] : Traces(g, N, b, F)
    <2>. HIDE DEF F
    <2>. QED
      BY <1>1, <1>3, <1>4, TraceExists
  <1>7. \E f : f = [n \in 0..N |-> G(f, n)]
    <2>1. \A n \in 0..N : g[n] \in S
      BY <1>6
    <2>2. ASSUME NEW n \in 0..N
          PROVE  g[n] = G(g, n)
      <3>1. CASE n = 0
        BY <3>1, <1>6 DEF Traces, b
      <3>2. CASE n # 0
        <4>1. n \in 1..N /\ n \in Nat /\ n - 1 \in 0..N /\ ~(n < 1)
          BY <3>2, <1>1
        <4>2. g[n] = F[n][g[n - 1]]
          BY <4>1, <1>6 DEF Traces
        <4>3. g[n - 1] \in S
          BY <4>1, <2>1
        <4>4. g[n] = step(g[n - 1], n)
          <5>. HIDE DEF step
          <5>. QED
            BY <4>1, <4>2, <4>3
        <4>5. /\ ~Misplaced(g[n - 1].code, breaks[n]) /\ g[n - 1].fault = {}
              /\ [g[n - 1] EXCEPT !.code = change_operand(@, breaks[n], t)] = step(g[n - 1], n)
          BY <4>1, <4>3, <1>2
        <4>. QED
          <5>1. G(g, n) = [g[n - 1] EXCEPT !.code = change_operand(@, breaks[n], t)]
            BY <4>1, <4>5
          <5>. QED
            BY <5>1, <4>4, <4>5
      <3>. QED
        BY <3>1, <3>2
    <2>3. g = [n \in 0..N |-> g[n]]
      BY <1>6
    <2>4. g = [n \in 0..N |-> G(g, n)]
      <3>. HIDE DEF G
      <3>. QED
        BY <2>2, <2>3
    <2>. QED
      BY <2>4
  <1>8. d = [n \in 0..N |-> G(d, n)]
    BY <1>7
  <1>. HIDE DEF d, F, N, step
  <1>9. d[0] = b
    <2>1. 0 \in 0..N
      BY <1>1
    <2>. QED
      BY <2>1, <1>8 DEF b
  <1>10. ASSUME NEW k \in 1..N, d[k - 1] \in S
         PROVE  d[k] \in S
    <2>1. k \in 0..N /\ ~(k < 1)
      BY <1>1
    <2>2. d[k] = G(d, k)
      <3>. HIDE DEF G
      <3>. QED
        BY <2>1, <1>8
    <2>3. /\ ~Misplaced(d[k - 1].code, breaks[k]) /\ d[k - 1].fault = {}
          /\ [d[k - 1] EXCEPT !.code = change_operand(@, breaks[k], t)] = step(d[k - 1], k)
          /\ step(d[k - 1], k) \in S
      BY <1>2, <1>10
    <2>4. G(d, k) = [d[k - 1] EXCEPT !.code = change_operand(@, breaks[k], t)]
      BY <2>1, <2>3
    <2>. QED
      BY <2>2, <2>3, <2>4
  <1>. HIDE DEF G
  <1>11. d[N] \in S
    <2> DEFINE Bad == {k \in Nat : k <= N /\ d[k] \notin S}
    <2>1. SUFFICES ASSUME Bad # {}
                   PROVE  FALSE
      <3>1. N \in Nat /\ N <= N
        BY <1>1
      <3>. QED
        BY <3>1
    <2>2. PICK m \in Bad : \A k \in Bad : m <= k
      BY <2>1, Least
    <2>3. m # 0
      BY <2>2, <1>3, <1>9
    <2>4. m \in 1..N /\ m - 1 \in Nat /\ m - 1 <= N /\ ~(m <= m - 1)
      BY <2>2, <2>3, <1>1
    <2>5. d[m - 1] \in S
      BY <2>2, <2>4
    <2>6. d[m] \in S
      BY <2>4, <2>5, <1>10
    <2>. QED
      BY <2>2, <2>6
  <1>. QED
    BY <1>5, <1>11 DEF S

LEMMA SameOpsFacts ==
  ASSUME NEW l, NEW l2, SameOps(l, l2)
  PROVE  /\ l2.kind = l.kind
         /\ Sealed(l) => Sealed(l2)
         /\ \A p : BreakAt(l, p) => BreakAt(l2, p)
  <1>1. /\ l2.size = l.size /\ l2.kind = l.kind /\ l2.depth = l.depth /\ l2.open = l.open
        /\ DOMAIN l2.at = DOMAIN l.at
        /\ \A p \in DOMAIN l.at : l2.at[p].op = l.at[p].op
        /\ \A p \in DOMAIN l.at : l.at[p].op # "BREAK" => l2.at[p] = l.at[p]
    BY DEF SameOps
  <1>2. NoTarget(l) => NoTarget(l2)
    <2>1. "BREAK" \notin Jumps
      BY DEF Jumps
    <2>2. ASSUME NoTarget(l), NEW p \in DOMAIN l2.at \ l2.open, l2.at[p].op \in Jumps
          PROVE  l2.at[p].args[1] # l2.size
      <3>1. p \in DOMAIN l.at \ l.open /\ l.at[p].op \in Jumps
        BY <1>1, <2>2
      <3>2. l2.at[p] = l.at[p]
        BY <3>1, <2>1, <1>1
      <3>. QED
        BY <3>1, <3>2, <2>2, <1>1 DEF NoTarget
    <2>. QED
      BY <2>2 DEF NoTarget
  <1>3. \A p \in DOMAIN l.at : Final(l, p) => Final(l2, p)
    BY <1>1, <1>2 DEF Final, IsLast, Size
  <1>4. ASSUME Sealed(l)
        PROVE  Sealed(l2)
    <2>1. PICK p \in DOMAIN l.at : Final(l, p) /\ ~Falls(l.at[p].op)
      BY <1>4 DEF Sealed
    <2>2. Final(l2, p) /\ ~Falls(l2.at[p].op) /\ p \in DOMAIN l2.at
      BY <2>1, <1>1, <1>3
    <2>3. l2.open = {}
      BY <1>1, <1>4 DEF Sealed
    <2>. QED
      BY <2>2, <2>3 DEF Sealed
  <1>5. \A p : BreakAt(l, p) => BreakAt(l2, p)
    BY <1>1 DEF BreakAt
  <1>. QED
    BY <1>1, <1>4, <1>5

(* Code that is not open, of which breaks have changed.                    *)
FinishedChanges(n, c, code, l3, ss, ar, lay, ar2, lay2) ==
  /\ c \in DOMAIN lay /\ \A level \in 1..n : ss[level].ins # c
  /\ Laid(code, l3) /\ SameOps(lay[c], l3)
  /\ ar2 = [ar EXCEPT ![c] = code] /\ lay2 = [lay EXCEPT ![c] = l3]

LEMMA RedirectedLays ==
  ASSUME NEW n, NEW c, NEW code, NEW l3, NEW ss, NEW ar, NEW lay, NEW ar2, NEW lay2,
         FinishedChanges(n, c, code, l3, ss, ar, lay, ar2, lay2), LaysOK(ar, lay), ScopesOK(n, ss, ar, lay)
  PROVE  /\ LaysOK(ar2, lay2) /\ ScopesOK(n, ss, ar2, lay2)
         /\ DOMAIN lay2 = DOMAIN lay
         /\ \A level \in 1..n : ViewOf(level, ss, lay2) = ViewOf(level, ss, lay)
         /\ \A x \in DOMAIN lay : /\ lay2[x].kind = lay[x].kind
                                  /\ Sealed(lay[x]) => Sealed(lay2[x])
                                  /\ \A p : BreakAt(lay[x], p) => BreakAt(lay2[x], p)
         /\ SlotsStay(ss, lay, ss, lay2)
  <1>1. /\ c \in DOMAIN lay /\ \A level \in 1..n : ss[level].ins # c
        /\ Laid(code, l3) /\ SameOps(lay[c], l3)
        /\ ar2 = [ar EXCEPT ![c] = code] /\ lay2 = [lay EXCEPT ![c] = l3]
    BY DEF FinishedChanges
  <1>2. /\ IsSeq(ar) /\ DOMAIN lay = 1..Len(ar) /\ \A x \in 1..Len(ar) : Laid(ar[x], lay[x])
    BY DEF LaysOK
  <1>3. PICK S : ar \in Seq(S)
    BY <1>2 DEF IsSeq
  <1>4. ar \in Seq(S \cup {code}) /\ code \in S \cup {code}
    BY <1>3, SeqDef
  <1>5. /\ ar2 \in Seq(S \cup {code}) /\ Len(ar2) = Len(ar)
        /\ \A x \in 1..Len(ar) : ar2[x] = IF x = c THEN code ELSE ar[x]
    <2>1. c \in 1..Len(ar)
      BY <1>1, <1>2
    <2>. QED
      BY <2>1, <1>1, <1>4, ExceptSeq
  <1>6. DOMAIN lay2 = DOMAIN lay /\ \A x \in DOMAIN lay : lay2[x] = IF x = c THEN l3 ELSE lay[x]
    BY <1>1
  <1>7. IsSeq(ar2)
    BY <1>5 DEF IsSeq
  <1>8. LaysOK(ar2, lay2)
    <2>1. DOMAIN lay2 = 1..Len(ar2)
      BY <1>2, <1>5, <1>6
    <2>2. \A x \in 1..Len(ar2) : Laid(ar2[x], lay2[x])
      BY <1>1, <1>2, <1>5, <1>6
    <2>. QED
      BY <2>1, <2>2, <1>7 DEF LaysOK
  <1>9. \A x \in DOMAIN lay : /\ lay2[x].kind = lay[x].kind
                              /\ Sealed(lay[x]) => Sealed(lay2[x])
                              /\ \A p : BreakAt(lay[x], p) => BreakAt(lay2[x], p)
    <2>1. ASSUME NEW x \in DOMAIN lay
          PROVE  /\ lay2[x].kind = lay[x].kind
                 /\ Sealed(lay[x]) => Sealed(lay2[x])
                 /\ \A p : BreakAt(lay[x], p) => BreakAt(lay2[x], p)
      <3>1. CASE x = c
        <4>1. lay2[x] = l3
          BY <3>1, <1>6
        <4>. QED
          BY <4>1, <3>1, <1>1, SameOpsFacts
      <3>2. CASE x # c
        <4>1. lay2[x] = lay[x]
          BY <3>2, <1>6
        <4>. QED
          BY <4>1
      <3>. QED
        BY <3>1, <3>2
    <2>. QED
      BY <2>1
  <1>10. ScopesOK(n, ss, ar2, lay2)
    <2>1. /\ ss \in Seq(Slot) /\ n \in 1..Len(ss)
          /\ \A level \in 1..n : ss[level].ins \in 1..Len(ar)
          /\ \A i, j \in 1..n : ss[i].ins = ss[j].ins => i = j
          /\ ss[1].ins = 1 /\ lay[1].kind = "main"
      BY DEF ScopesOK
    <2>2. 1 \in DOMAIN lay
      <3>1. Len(ss) \in Nat
        BY <2>1, LenProperties
      <3>2. 1 \in 1..n
        BY <2>1, <3>1
      <3>. QED
        BY <3>2, <2>1, <1>2
    <2>3. lay2[1].kind = "main"
      BY <2>1, <2>2, <1>9
    <2>. QED
      BY <2>1, <2>3, <1>5 DEF ScopesOK
  <1>11. \A level \in 1..n : ViewOf(level, ss, lay2) = ViewOf(level, ss, lay)
    <2>1. \A level \in 1..n : ss[level].ins \in DOMAIN lay
      BY <1>2 DEF ScopesOK
    <2>. QED
      BY <2>1, <1>1, <1>6 DEF ViewOf
  <1>12. SlotsStay(ss, lay, ss, lay2)
    BY <1>6, <1>9 DEF SlotsStay
  <1>. QED
    BY <1>6, <1>8, <1>9, <1>10, <1>11, <1>12

(* All that is left to do stays what it was.                               *)
LEMMA CoreRedirected ==
  ASSUME NEW td, NEW g, NEW ss, NEW ar, NEW lay, NEW cs, NEW ls, NEW hm, NEW n, NEW v,
         Core(td, g, ss, ar, lay, cs, ls, hm, n, v),
         NEW c, NEW code, NEW l3, NEW ar2, NEW lay2, FinishedChanges(n, c, code, l3, ss, ar, lay, ar2, lay2)
  PROVE  Core(td, g, ss, ar2, lay2, cs, ls, hm, n, v)
  <1>1. /\ LaysOK(ar, lay) /\ ScopesOK(n, ss, ar, lay) /\ PoolOK(cs, n, ss, lay)
        /\ HomesOK(ls, hm, lay) /\ Chain(td, g, ss, lay, hm) /\ Mono(g)
        /\ NowOK(g[1], ss[n].last, ViewOf(n, ss, lay), td, g, n, ls, v)
        /\ OpenOK(td, g, ss, lay, n)
        /\ g[Len(g)] = St(1, 0, 0, FALSE, FALSE, 1)
    BY DEF Core
  <1>2. /\ LaysOK(ar2, lay2) /\ ScopesOK(n, ss, ar2, lay2)
        /\ DOMAIN lay2 = DOMAIN lay
        /\ \A level \in 1..n : ViewOf(level, ss, lay2) = ViewOf(level, ss, lay)
        /\ \A x \in DOMAIN lay : /\ lay2[x].kind = lay[x].kind
                                 /\ Sealed(lay[x]) => Sealed(lay2[x])
                                 /\ \A p : BreakAt(lay[x], p) => BreakAt(lay2[x], p)
        /\ SlotsStay(ss, lay, ss, lay2)
    BY <1>1, RedirectedLays
  <1>3. n \in Nat /\ n >= 1 /\ n \in 1..n
    BY <1>1, LenProperties DEF ScopesOK
  <1>4. PoolOK(cs, n, ss, lay2)
    <2>1. ASSUME NEW i \in 1..Len(cs), cs[i].kind # "value"
          PROVE  /\ cs[i].kind \in {"function", "loop"}
                 /\ cs[i].ins \in DOMAIN lay2
                 /\ \A level \in 1..n : ss[level].ins # cs[i].ins
                 /\ lay2[cs[i].ins].kind = cs[i].kind
                 /\ Sealed(lay2[cs[i].ins])
      <3>1. /\ cs[i].kind \in {"function", "loop"}
            /\ cs[i].ins \in DOMAIN lay
            /\ \A level \in 1..n : ss[level].ins # cs[i].ins
            /\ lay[cs[i].ins].kind = cs[i].kind
            /\ Sealed(lay[cs[i].ins])
        BY <2>1, <1>1 DEF PoolOK
      <3>. QED
        BY <3>1, <1>2
    <2>. QED
      BY <2>1, <1>1 DEF PoolOK
  <1>5. HomesOK(ls, hm, lay2)
    BY <1>1, <1>2, HomesStay
  <1>6. hm \in Seq(Nat) /\ Len(hm) = Len(ls) /\ Len(hm) \in Nat
    BY <1>1, LenProperties DEF HomesOK
  <1>7. Marked(ViewOf(n, ss, lay).size, td, g, n)
    BY MarksWithin
  <1> DEFINE k == Len(hm)
             m == ViewOf(n, ss, lay).size
  <1>8. Stays(n, k, m, ss, lay, hm, ss, lay2, hm)
    <2>1. ViewOf(n, ss, lay2) = ViewOf(n, ss, lay)
      BY <1>2, <1>3
    <2>2. Keeps(ViewOf(n, ss, lay), ViewOf(n, ss, lay2), m)
      BY <2>1 DEF Keeps
    <2>3. \A level \in 1..n - 1 : level \in 1..n
      BY <1>3
    <2>4. \A level \in 1..n - 1 : ViewOf(level, ss, lay2) = ViewOf(level, ss, lay)
      BY <2>3, <1>2
    <2>5. k <= Len(hm)
      BY <1>6
    <2>. QED
      BY <2>2, <2>4, <2>5 DEF Stays
  <1>9. /\ IsSeq(td) /\ g \in Seq(State) /\ Len(g) = Len(td) + 1 /\ Len(td) \in Nat
        /\ \A i \in 1..Len(td) : Joined(td[i], g[i], g[i + 1], ss, lay, hm)
    BY <1>1, LenProperties DEF Chain, IsSeq
  <1>10. g[1].level = n /\ g[1].loops = Len(ls)
    BY <1>1 DEF NowOK
  <1>11. g[Len(g)].level = 1
    BY <1>1 DEF St
  <1>12. ASSUME NEW i \in 1..Len(g)
         PROVE  g[i] \in State /\ g[i].level \in 1..n /\ g[i].loops <= k
    <2>1. g[i] \in State
      BY <1>9
    <2>2. 1 \in 1..Len(g) /\ Len(g) \in 1..Len(g) /\ 1 <= i /\ i <= Len(g)
      BY <1>9
    <2>3. g[i].level <= g[1].level /\ g[i].loops <= g[1].loops /\ g[Len(g)].level <= g[i].level
      BY <2>2, <1>1 DEF Mono
    <2>4. g[i].level \in Nat
      BY <2>1, StateFields
    <2>. QED
      BY <2>1, <2>3, <2>4, <1>3, <1>6, <1>10, <1>11
  <1>. HIDE DEF k, m
  <1>13. Chain(td, g, ss, lay2, hm)
    <2>1. ASSUME NEW i \in 1..Len(td)
          PROVE  Joined(td[i], g[i], g[i + 1], ss, lay2, hm)
      <3> DEFINE it == td[i]
                 s == g[i]
                 u == g[i + 1]
      <3>1. i \in 1..Len(g) /\ i + 1 \in 1..Len(g)
        BY <1>9
      <3>2. /\ s \in State /\ s.level \in 1..n /\ s.loops <= k
            /\ u \in State /\ u.level \in 1..n /\ u.loops <= k
        BY <3>1, <1>12
      <3>3. it.do \in {"body", "end_loop"} /\ s.level = n => it.before <= m
        BY <1>7 DEF Marked, m
      <3>4. Joined(it, s, u, ss, lay, hm)
        BY <1>9
      <3>5. s.update = TRUE => SlotsStay(ss, lay, ss, lay2)
        BY <1>2
      <3>6. n \in Nat /\ k \in Nat /\ hm \in Seq(Nat)
        BY <1>3, <1>6 DEF k
      <3>. HIDE DEF it, s, u
      <3>7. Joined(it, s, u, ss, lay2, hm)
        BY ONLY <3>2, <3>3, <3>4, <3>5, <3>6, <1>8, ItemStays
      <3>. QED
        BY <3>7 DEF it, s, u
    <2>. QED
      BY <2>1, <1>9 DEF Chain
  <1>14. ViewOf(n, ss, lay2) = ViewOf(n, ss, lay)
    BY <1>2, <1>3
  <1>15. OpenOK(td, g, ss, lay2, n)
    BY <1>1, <1>2 DEF OpenOK
  <1>16. NowOK(g[1], ss[n].last, ViewOf(n, ss, lay2), td, g, n, ls, v)
    BY <1>1, <1>14
  <1>. QED
    BY <1>1, <1>2, <1>4, <1>5, <1>13, <1>15, <1>16 DEF Core

(* A jump back to a place that is known.                                   *)
LEMMA JumpBack ==
  ASSUME NEW e, NEW l, Laid(e.code, l), e.last \in Mark, NEW p, NEW d, PlaceAt(l, p, d),
         l.depth[l.size] = d, NEW e2, e2 = Emit(e, "JMP", <<p>>)
  PROVE  \E l2 : /\ Laid(e2.code, l2) /\ Grows(l, l2) /\ l2.open = l.open
                 /\ l2.depth[l2.size] = d
                 /\ e2.last \in Mark /\ e2.prev \in Mark /\ e2.last.op = "JMP"
                 /\ e2 = [code |-> e2.code, last |-> e2.last, prev |-> e2.prev]
  <1> DEFINE op == "JMP"
             args == <<p>>
             open == FALSE
  <1>1. op \in OpSet /\ op \in Jumps /\ ~Falls(op) /\ MayLeave(l.kind, op)
    BY OpsExist DEF Jumps, Falls, MayLeave, Leavers
  <1>2. p \in DOMAIN l.depth /\ l.depth[p] = d /\ p \in Nat /\ d \in Nat
    BY LaidFacts DEF PlaceAt
  <1>3. ArgsOK(op, args) /\ args[1] = p
    <2>1. args \in Seq(Nat) /\ Len(args) = 1 /\ args[1] = p
      BY <1>2
    <2>2. Widths(op) = <<2>>
      BY DEF Widths
    <2>. QED
      BY <2>1, <2>2 DEF ArgsOK
  <1>4. Takes(op, args) = 0
    BY DEF Takes
  <1>5. l.size \in Nat /\ l.size = Len(e.code)
    BY LaidFacts
  <1>6. e2 = Emit(e, op, args) /\ open \in BOOLEAN /\ ~open
    OBVIOUS
  <1>7. op = "JMP"
    OBVIOUS
  <1>. HIDE DEF op, args, open
  <1>8. /\ l.depth[l.size] >= Takes(op, args)
        /\ l.depth[args[1]] = l.depth[l.size] - Takes(op, args)
    BY <1>2, <1>3, <1>4
  <1>9. PICK l2 : /\ Laid(e.code \o make_instruction(op, args), l2)
                  /\ Emitted(l, l2, op, args, d, open)
                  /\ NoTarget(l2)
    <2>1. open => op \in Jumps
      BY <1>1
    <2>2. Falls(op) => d = l.depth[l.size] - Takes(op, args) + Leaves(op)
      BY <1>1
    <2>3. op \in Jumps /\ ~open =>
            args[1] \in DOMAIN l.depth /\ l.depth[args[1]] = l.depth[l.size] - Takes(op, args)
      BY <1>2, <1>3, <1>8
    <2>. QED
      BY <1>1, <1>2, <1>3, <1>6, <1>8, <2>1, <2>2, <2>3, EmitLaid
  <1>10. /\ e2.code = e.code \o make_instruction(op, args)
         /\ e2.last = [op |-> op, pos |-> Len(e.code)] /\ e2.prev = e.last
         /\ e2 = [code |-> e2.code, last |-> e2.last, prev |-> e2.prev]
    <2>1. e2 = [code |-> e.code \o make_instruction(op, args),
                last |-> [op |-> op, pos |-> Len(e.code)], prev |-> e.last]
      BY <1>6 DEF Emit
    <2>. QED
      BY ONLY <2>1
  <1>11. e2.last \in Mark /\ e2.prev \in Mark /\ e2.last.op = op
    BY <1>1, <1>5, <1>10 DEF Mark
  <1>12. l2.open = l.open /\ l2.depth[l2.size] = d
    BY <1>6, <1>9 DEF Emitted
  <1>13. Grows(l, l2)
    <2>1. l2.size = l.size + InstructionLength(op) /\ InstructionLength(op) \in 1..4
      BY <1>1, <1>3, <1>9, Made DEF Emitted
    <2>2. l.size <= l2.size
      BY <2>1, <1>5
    <2>. QED
      BY <2>2, <1>9 DEF Grows, Emitted
  <1>. QED
    BY <1>7, <1>9, <1>10, <1>11, <1>12, <1>13

(* What the enclosing code does when the loop is complete: a jump back to  *)
(* the condition, and the jump that leaves the loop leads behind it.       *)
Looped(e, before, jump) ==
  LET jumped == Emit(e, "JMP", <<before>>)
  IN  Patched(jumped, jump, Len(jumped.code))

LoopedLaid(e, l, l2, jump, d) ==
  /\ Laid(e.code, l2) /\ Keeps(l, l2, l.size) /\ l2.depth[l2.size] = d
  /\ l2.open = l.open \ {jump}
  /\ e.last \in Mark /\ e.prev \in Mark /\ e.last.op \notin Ending

LEMMA LoopedOK ==
  ASSUME NEW e, NEW l, Laid(e.code, l), e.last \in Mark, NEW before, NEW jump, NEW d, d \in Nat,
         PlaceAt(l, before, d), l.depth[l.size] = d, JumpAt(l, jump, "JMP_IF_FALSE", d + 1)
  PROVE  \E l2 : LoopedLaid(Looped(e, before, jump), l, l2, jump, d)
  <1> DEFINE e2 == Emit(e, "JMP", <<before>>)
             e3 == Patched(e2, jump, Len(e2.code))
             op == "JMP_IF_FALSE"
             k == d + 1
  <1>1. PICK l1 : /\ Laid(e2.code, l1) /\ Grows(l, l1) /\ l1.open = l.open
                  /\ l1.depth[l1.size] = d
                  /\ e2.last \in Mark /\ e2.prev \in Mark /\ e2.last.op = "JMP"
                  /\ e2 = [code |-> e2.code, last |-> e2.last, prev |-> e2.prev]
    <2>1. e2 = Emit(e, "JMP", <<before>>)
      OBVIOUS
    <2>. HIDE DEF e2
    <2>. QED
      BY <2>1, JumpBack
  <1>2. JumpAt(l, jump, op, k)
    OBVIOUS
  <1>3. op \in Jumps /\ op # "JMP" /\ k \in Nat /\ d = k - 1 /\ "JMP" \notin Ending
    BY DEF Jumps, Ending
  <1>4. e3 = Patched(e2, jump, Len(e2.code)) /\ Looped(e, before, jump) = e3
    BY DEF Looped
  <1>. HIDE DEF e2, e3, op, k
  <1>5. JumpAt(l1, jump, op, k)
    BY <1>1, <1>2, GrowsJump
  <1>6. PICK l2 : Laid(e3.code, l2) /\ Patches(l1, l2, jump) /\ e3.last = e2.last /\ e3.prev = e2.prev
    <2>1. /\ Laid(e2.code, l1) /\ op \in Jumps /\ JumpAt(l1, jump, op, k) /\ k \in Nat
          /\ op = "JMP" => l1.depth[l1.size] = k
          /\ op # "JMP" => l1.depth[l1.size] = k - 1
      BY <1>1, <1>3, <1>5
    <2>. QED
      BY <2>1, <1>1, <1>4, PatchOn
  <1>7. Keeps(l, l2, l.size)
    <2>1. Keeps(l, l1, l.size)
      BY <1>1, GrowsKeeps
    <2>2. Keeps(l1, l2, l.size)
      BY <1>6, PatchesKeeps
    <2>. QED
      BY <2>1, <2>2, KeepsOn
  <1>8. l2.depth[l2.size] = d /\ l2.open = l.open \ {jump}
    BY <1>1, <1>6 DEF Patches
  <1>9. LoopedLaid(e3, l, l2, jump, d)
    BY <1>1, <1>3, <1>6, <1>7, <1>8 DEF LoopedLaid
  <1>. QED
    BY <1>4, <1>9

LEMMA TwoExcepts ==
  ASSUME NEW f, NEW i, NEW j, i # j, NEW a, NEW b
  PROVE  [[f EXCEPT ![i] = a] EXCEPT ![j] = b] = [[f EXCEPT ![j] = b] EXCEPT ![i] = a]
  OBVIOUS

LEMMA NothingToDo ==
  ASSUME NEW td, NEW g, IsSeq(td), g \in Seq(State), Len(g) = Len(td) + 1, td # <<>>,
         NEW u, u = g[2], u \in State, NEW h, h = <<u>>, NEW ss, NEW lay, NEW hm
  PROVE  /\ Replaces(td, g, <<>>, h) /\ Mono(h) /\ AllJoined(<<>>, h, ss, lay, hm) /\ h[1] = u
  <1>1. Path(<<>>, <<u>>, u, u, ss, lay, hm)
    BY PathNone
  <1>2. /\ IsSeq(<<>>) /\ h \in Seq(State) /\ Len(h) = Len(<<>>) + 1 /\ h[1] = u /\ h[Len(h)] = u
        /\ Mono(h) /\ AllJoined(<<>>, h, ss, lay, hm)
    BY <1>1 DEF Path
  <1>. QED
    BY <1>2 DEF Replaces

(* What the end of a loop starts from.                                     *)
Looping2(g, lay, hm, l, d, it, c) ==
  /\ todo # <<>> /\ it = Head(todo) /\ it = todo[1] /\ it.do \in Patching
  /\ g[1] \in State /\ g[2] \in State /\ g[1].level = scope_index /\ g[1].depth = d /\ d \in Nat
  /\ g[1].loops = Len(loops)
  /\ l = ViewOf(scope_index, scopes, lay) /\ Laid(Current.code, l) /\ Current.last \in Mark
  /\ l.depth[l.size] = d
  /\ JumpAt(l, it.jump, "JMP_IF_FALSE", d + 1) /\ PlaceAt(l, it.before, d)
  /\ g[2] = St(scope_index, Len(loops), d, TRUE, FALSE, 1)
  /\ c = scopes[it.slot].ins
  /\ c \in DOMAIN lay /\ (\A level \in 1..scope_index : scopes[level].ins # c)
  /\ BreaksAt(it.breaks, lay[c]) /\ Laid(arrays[c], lay[c])
  /\ scopes \in Seq(Slot) /\ scope_index \in 1..Len(scopes) /\ scope_index \in Nat

LEMMA EndingLoop ==
  ASSUME NEW g, NEW lay, NEW hm, Ctx(g, lay, hm), Running("end_loop"),
         NEW l, l = ViewOf(scope_index, scopes, lay), NEW d, d = g[1].depth,
         NEW it, it = Head(todo), NEW c, c = scopes[it.slot].ins
  PROVE  Looping2(g, lay, hm, l, d, it, c)
  <1>1. /\ todo # <<>> /\ todo[1].do = "end_loop" /\ Head(todo) = todo[1]
        /\ Joined(todo[1], g[1], g[2], scopes, lay, hm)
        /\ g[1] \in State /\ g[2] \in State /\ g[1].depth \in Nat
    BY Begin
  <1>2. EndLoopOK(it, g[1], g[2], scopes, lay)
    BY <1>1 DEF Joined
  <1>3. /\ Laid(Current.code, l) /\ Current.last = scopes[scope_index].last
        /\ g[1].level = scope_index /\ g[1].loops = Len(loops) /\ l.depth[l.size] = d
    BY <1>1, Now
  <1>4. LaysOK(arrays, lay) /\ ScopesOK(scope_index, scopes, arrays, lay)
    BY <1>1, Doing
  <1>5. scopes \in Seq(Slot) /\ scope_index \in 1..Len(scopes)
    BY <1>4 DEF ScopesOK
  <1>6. Current.last \in Mark
    <2>1. scopes[scope_index] \in Slot
      BY <1>5, ElementOfSeq
    <2>. QED
      BY <2>1, <1>3 DEF Slot
  <1>7. scope_index \in Nat
    BY <1>1, <1>3, StateFields
  <1>8. /\ JumpAt(l, it.jump, "JMP_IF_FALSE", d + 1) /\ PlaceAt(l, it.before, d)
        /\ g[2] = St(scope_index, Len(loops), d, TRUE, FALSE, 1)
    <2>1. /\ JumpAt(ViewOf(g[1].level, scopes, lay), it.jump, "JMP_IF_FALSE", g[1].depth + 1)
          /\ PlaceAt(ViewOf(g[1].level, scopes, lay), it.before, g[1].depth)
          /\ g[2] = St(g[1].level, g[1].loops, g[1].depth, TRUE, FALSE, 1)
      BY <1>2, Zenon DEF EndLoopOK
    <2>. QED
      BY <2>1, <1>3
  <1>9. /\ c \in DOMAIN lay /\ (\A level \in 1..scope_index : scopes[level].ins # c)
        /\ it.breaks \in Seq(Nat)
        /\ \A k \in 1..Len(it.breaks) : BreakAt(lay[c], it.breaks[k])
    <2>1. /\ scopes[it.slot].ins \in DOMAIN lay
          /\ \A level \in 1..g[1].level : scopes[level].ins # scopes[it.slot].ins
          /\ it.breaks \in Seq(Nat)
          /\ \A k \in 1..Len(it.breaks) : BreakAt(lay[scopes[it.slot].ins], it.breaks[k])
      BY <1>2, Zenon DEF EndLoopOK
    <2>. QED
      BY <2>1, <1>3
  <1>10. Laid(arrays[c], lay[c])
    BY <1>4, <1>9 DEF LaysOK
  <1>11. it.do \in Patching /\ it = todo[1]
    BY <1>1 DEF Patching
  <1>12. BreaksAt(it.breaks, lay[c])
    BY <1>9 DEF BreaksAt
  <1>. QED
    BY <1>1, <1>3, <1>5, <1>6, <1>7, <1>8, <1>9, <1>10, <1>11, <1>12, Zenon DEF Looping2

LEMMA EndLoopStepOK ==
  ASSUME Known, EndLoop
  PROVE  Known' /\ UNCHANGED <<result, tables, constants>>
  <1>1. PICK g, lay, hm : Ctx(g, lay, hm)
    BY DEF Known
  <1> DEFINE n == scope_index
             it == Head(todo)
             l == ViewOf(scope_index, scopes, lay)
             d == g[1].depth
             c == scopes[it.slot].ins
             jumped == Emit(Current, "JMP", <<it.before>>)
             t == Len(jumped.code)
             e == Patched(jumped, it.jump, t)
             patch == PatchBreaks(arrays[c], it.breaks, t)
             u == g[2]
             h == <<u>>
  <1>2. Running("end_loop")
    BY DEF EndLoop
  <1>3. Looping2(g, lay, hm, l, d, it, c)
    BY <1>1, <1>2, EndingLoop
  <1>4. /\ patch.fault = {} =>
             /\ arrays' = [[arrays EXCEPT ![scopes[n].ins] = e.code] EXCEPT ![c] = patch.code]
             /\ scopes' = ScopesWith(n, e) /\ is_void' = TRUE
             /\ Continue(<<>>) /\ UNCHANGED <<tables, constants, loops, result>>
    BY DEF EndLoop, ArraysWith
  <1>5. e = Looped(Current, it.before, it.jump) /\ u = g[2] /\ h = <<u>> /\ n = scope_index
    BY DEF Looped
  <1>. HIDE DEF n, it, l, d, c, t, e, patch, jumped, u, h
  <1>6. /\ todo # <<>> /\ it = todo[1] /\ it.do \in Patching
        /\ u \in State /\ g[1].level = n /\ d \in Nat
        /\ l = ViewOf(n, scopes, lay) /\ Laid(Current.code, l) /\ Current.last \in Mark
        /\ l.depth[l.size] = d
        /\ JumpAt(l, it.jump, "JMP_IF_FALSE", d + 1) /\ PlaceAt(l, it.before, d)
        /\ u = St(n, Len(loops), d, TRUE, FALSE, 1)
        /\ c \in DOMAIN lay /\ (\A level \in 1..n : scopes[level].ins # c)
        /\ BreaksAt(it.breaks, lay[c]) /\ Laid(arrays[c], lay[c])
        /\ scopes \in Seq(Slot) /\ n \in 1..Len(scopes) /\ n \in Nat
    BY <1>3, <1>5 DEF Looping2
  <1>7. PICK l2 : LoopedLaid(e, l, l2, it.jump, d)
    BY <1>5, <1>6, LoopedOK
  <1>8. t \in Nat
    <2> DEFINE e2 == Emit(Current, "JMP", <<it.before>>)
    <2>1. e2 = Emit(Current, "JMP", <<it.before>>)
      OBVIOUS
    <2>2. t = Len(e2.code)
      BY DEF t, jumped
    <2>. HIDE DEF e2
    <2>3. \E l1 : Laid(e2.code, l1)
      BY <1>6, <2>1, JumpBack
    <2>. QED
      BY <2>2, <2>3, LaidFacts
  <1>9. patch.fault = {} /\ Redirected(arrays[c], lay[c], patch.code)
    BY <1>6, <1>8, PatchBreaksLaid DEF patch
  <1>10. PICK l3 : Laid(patch.code, l3) /\ SameOps(lay[c], l3)
    BY <1>9 DEF Redirected
  <1> DEFINE code == patch.code
             ar1 == [arrays EXCEPT ![c] = code]
             lay1 == [lay EXCEPT ![c] = l3]
             b == scopes[n].ins
             ar2 == [ar1 EXCEPT ![b] = e.code]
             lay2 == [lay1 EXCEPT ![b] = l2]
             ss2 == ScopesWith(n, e)
  <1>11. FinishedChanges(n, c, code, l3, scopes, arrays, lay, ar1, lay1)
    BY <1>6, <1>10 DEF FinishedChanges
  <1>12. Core(todo, g, scopes, arrays, lay, constants, loops, hm, n, is_void)
    BY <1>1, <1>5 DEF Ctx
  <1>13. arrays' = ar2
    <2>1. b # c
      <3>1. n \in 1..n
        BY <1>6
      <3>. QED
        BY <3>1, <1>6
    <2>2. arrays' = [[arrays EXCEPT ![b] = e.code] EXCEPT ![c] = code]
      BY <1>4, <1>9
    <2>. QED
      BY <2>1, <2>2, TwoExcepts
  <1>14. /\ scopes' = ss2 /\ is_void' = TRUE
         /\ Continue(<<>>) /\ UNCHANGED <<tables, constants, loops, result>>
    BY <1>4, <1>9
  <1>15. /\ ar2 = [ar1 EXCEPT ![scopes[n].ins] = e.code] /\ lay2 = [lay1 EXCEPT ![scopes[n].ins] = l2]
         /\ ss2 = ScopesWith(n, e)
    OBVIOUS
  <1>. HIDE DEF code, ar1, lay1, b, ar2, lay2, ss2
  <1>16. Core(todo, g, scopes, ar1, lay1, constants, loops, hm, n, is_void)
    BY <1>11, <1>12, CoreRedirected
  <1>17. /\ LaysOK(ar1, lay1) /\ ScopesOK(n, scopes, ar1, lay1) /\ PoolOK(constants, n, scopes, lay1)
         /\ HomesOK(loops, hm, lay1)
    BY <1>16 DEF Core
  <1>18. ViewOf(n, scopes, lay1) = l
    <2>1. LaysOK(arrays, lay) /\ ScopesOK(n, scopes, arrays, lay)
      BY <1>12 DEF Core
    <2>2. \A level \in 1..n : ViewOf(level, scopes, lay1) = ViewOf(level, scopes, lay)
      BY <2>1, <1>11, RedirectedLays
    <2>3. n \in 1..n
      BY <1>6
    <2>. QED
      BY <2>2, <2>3, <1>6
  <1>19. /\ Laid(e.code, l2) /\ Keeps(l, l2, l.size) /\ l2.depth[l2.size] = d
         /\ l2.open = l.open \ {it.jump}
         /\ e.last \in Mark /\ e.prev \in Mark /\ e.last.op \notin Ending
    BY <1>7 DEF LoopedLaid
  <1>20. /\ ss2 \in Seq(Slot) /\ Len(ss2) = Len(scopes)
         /\ \A level \in 1..Len(scopes) : ss2[level].ins = scopes[level].ins
         /\ ss2[n].last = e.last
    BY <1>6, <1>15, <1>19, SlotsWith
  <1>21. Rewritten(n, l2, scopes, ar1, lay1, ss2, ar2, lay2)
    BY <1>15, <1>17, <1>19, <1>20, RewriteAt
  <1>22. Keeps(ViewOf(n, scopes, lay1), l2, l.size)
    BY <1>18, <1>19
  <1>23. PoolOK(constants, n, ss2, lay2)
    BY <1>17, <1>21, <1>22, PoolStays
  <1>24. HomesOK(loops, hm, lay2)
    <2>1. SlotsStay(scopes, lay1, ss2, lay2)
      BY <1>17, <1>21, <1>22, RewrittenOK
    <2>. QED
      BY <2>1, <1>17, HomesStay
  <1>25. IsSeq(todo) /\ g \in Seq(State) /\ Len(g) = Len(todo) + 1
    BY <1>1, <1>6, Doing
  <1>26. Replaces(todo, g, <<>>, h) /\ Mono(h) /\ AllJoined(<<>>, h, ss2, lay2, hm) /\ h[1] = u
    BY <1>5, <1>6, <1>25, NothingToDo
  <1>27. /\ u.level = n /\ u.loops = Len(loops) /\ u.depth = d /\ u.end = 1 /\ u.void = TRUE
    BY <1>6 DEF St
  <1>28. RestMarked(l.size, todo, g, n)
    BY <1>1, <1>5, <1>6, RestWithin
  <1>29. StillOpen(l2.open, ViewOf(n, scopes, lay1), todo, g, <<>>, h, n)
    BY <1>6, <1>18, <1>19 DEF StillOpen
  <1>30. EndsIn(u, ss2[n].last, l2, todo, g, <<>>, h, n)
    BY <1>19, <1>20, <1>27, EndsInside
  <1> DEFINE v == TRUE
             ys == <<>>
  <1>31. u.void = v /\ v = TRUE /\ h[1] = u /\ ys = <<>>
    BY <1>26, <1>27
  <1>32. Core(ys \o Tail(todo), Follows(h, g), ss2, ar2, lay2, constants, loops, hm, n, v)
    <2>0. /\ Replaces(todo, g, ys, h) /\ AllJoined(ys, h, ss2, lay2, hm)
          /\ StillOpen(l2.open, ViewOf(n, scopes, lay1), todo, g, ys, h, n)
          /\ EndsIn(h[1], ss2[n].last, l2, todo, g, ys, h, n)
      BY <1>26, <1>29, <1>30, <1>31
    <2>. HIDE DEF v, ys
    <2>1. /\ h[1].level = n /\ h[1].loops = Len(loops) /\ h[1].void = v
          /\ h[1].depth = l2.depth[l2.size]
      BY <1>19, <1>27, <1>31
    <2>2. todo[1].do \in Patching => g[2].level = n
      BY <1>5, <1>27
    <2>3. Advances(todo, g, scopes, ar1, lay1, constants, loops, hm, n, is_void, ys, h, l2, l.size,
                   ss2, ar2, lay2, constants, loops, v)
      BY <2>0, <2>1, <2>2, <1>16, <1>21, <1>22, <1>23, <1>24, <1>26, <1>28 DEF Advances
    <2>. QED
      BY <2>3, Advance
  <1>33. scope_index' = n
    BY <1>5, <1>14 DEF scope_index
  <1>34. Core(todo', Follows(h, g), scopes', arrays', lay2, constants', loops', hm, scope_index', is_void')
    <2>1. todo' = ys \o Tail(todo)
      BY <1>14, <1>31 DEF Continue
    <2>. HIDE DEF ys, v
    <2>2. is_void' = v
      BY <1>14, <1>31
    <2>. QED
      BY <2>1, <2>2, <1>13, <1>14, <1>32, <1>33
  <1>35. \E g2, lay3, hm2 : Core(todo', g2, scopes', arrays', lay3, constants', loops', hm2, scope_index', is_void')
    BY <1>34
  <1>36. Known'
    BY <1>35 DEF Known, Ctx, scope_index
  <1>. QED
    BY <1>14, <1>36

----------------------------------------------------------------------------
(* The invariant *)

LEMMA InitTables ==
  ASSUME tables = <<ST!GlobalTable>>
  PROVE  TablesOK(tables) /\ Len(tables) = 1
  <1>1. tables = <<STP!GlobalTable>>
    BY SameTables
  <1>2. STP!Init
    BY <1>1 DEF STP!Init
  <1>3. STP!IInv
    BY <1>2, Assumed, STP!InitOK
  <1>4. Len(tables) = 1
    OBVIOUS
  <1>. QED
    BY <1>3, <1>4 DEF STP!IInv, TablesOK

(* At the beginning a block, the program, is to be compiled, and there is  *)
(* no code.                                                                *)
LEMMA InitCore ==
  ASSUME NEW x, x = Block(Place(FALSE, FALSE), FALSE), NEW td, td = <<x>>,
         NEW c, c = St(1, 0, 0, FALSE, FALSE, 1), NEW g, g = <<c, c>>,
         NEW lay, lay = <<Blank("main")>>, NEW ar, ar = << <<>> >>,
         NEW ss, ss = <<[ins |-> 1, last |-> Nothing, prev |-> Nothing]>>,
         NEW e, e = <<>>
  PROVE  Core(td, g, ss, ar, lay, e, e, e, 1, FALSE)
  <1>1. Nothing \in Mark /\ Nothing.op \notin Ending
    BY OpsExist DEF Nothing, Mark, Ending
  <1>2. ss \in Seq(Slot) /\ Len(ss) = 1 /\ ss[1].ins = 1 /\ ss[1].last = Nothing
    BY <1>1 DEF Slot
  <1>3. /\ c \in State /\ c.level = 1 /\ c.loops = 0 /\ c.depth = 0 /\ c.void = FALSE
        /\ c.update = FALSE /\ c.end = 1
    BY DEF St, State
  <1>4. /\ lay[1] = Blank("main") /\ DOMAIN lay = 1..1 /\ Len(ar) = 1 /\ ar[1] = <<>> /\ IsSeq(ar)
    <2>1. ar \in Seq({<<>>}) /\ Len(ar) = 1 /\ ar[1] = <<>>
      OBVIOUS
    <2>2. IsSeq(ar)
      BY ONLY <2>1 DEF IsSeq
    <2>. QED
      BY <2>1, <2>2
  <1> DEFINE b == Blank("main")
  <1>5. Laid(<<>>, b) /\ b.open = {} /\ b.size = 0 /\ b.depth[0] = 0 /\ b.kind = "main"
    BY BlankLaid
  <1>6. lay[1] = b
    BY <1>4
  <1>. HIDE DEF b
  <1>7. LaysOK(ar, lay)
    BY <1>4, <1>5, <1>6 DEF LaysOK
  <1>8. ScopesOK(1, ss, ar, lay)
    <2>1. \A level \in 1..1 : level = 1
      OBVIOUS
    <2>. QED
      BY <2>1, <1>2, <1>4, <1>5, <1>6 DEF ScopesOK
  <1>9. e \in Seq(Nat) /\ e \in Seq(Seq(Nat)) /\ Len(e) = 0 /\ IsSeq(e)
    BY DEF IsSeq
  <1>10. PoolOK(e, 1, ss, lay)
    BY <1>9 DEF PoolOK
  <1>11. HomesOK(e, e, lay)
    BY <1>9 DEF HomesOK
  <1>12. ViewOf(1, ss, lay) = b
    BY <1>2, <1>6 DEF ViewOf
  <1>13. PlaceOK(Place(FALSE, FALSE), c, ss, lay, e) /\ Place(FALSE, FALSE) \in Places
    <2>1. /\ Place(FALSE, FALSE) \in Places /\ ~Place(FALSE, FALSE).function
          /\ ~Place(FALSE, FALSE).loop
      BY DEF Place, Places
    <2>2. ~c.update
      BY <1>3
    <2>. QED
      BY <2>1, <2>2 DEF PlaceOK
  <1>14. Joined(x, c, c, ss, lay, e)
    <2> DEFINE n == 1
               k == 0
               place == Place(FALSE, FALSE)
    <2>1. Begins(c, n, k)
      BY DEF Begins
    <2>2. PlaceOK(place, c, ss, lay, e) /\ place \in Places /\ x = Block(place, FALSE)
      BY <1>13
    <2>. HIDE DEF n, k, place
    <2>. QED
      BY <2>1, <2>2, BlockBegins
  <1>15. Path(td, g, c, c, ss, lay, e)
    BY <1>3, <1>14, UnderRefl, PathOne
  <1>16. /\ IsSeq(td) /\ g \in Seq(State) /\ Len(g) = Len(td) + 1 /\ Mono(g)
         /\ AllJoined(td, g, ss, lay, e) /\ g[1] = c /\ g[Len(g)] = c
    BY <1>15 DEF Path
  <1>17. Chain(td, g, ss, lay, e)
    BY <1>16 DEF Chain, AllJoined
  <1>18. NowOK(c, Nothing, b, td, g, 1, e, FALSE)
    <2>1. EndOK(c, Nothing, b, td, g, 1)
      <3>1. Nothing.op \notin Ending /\ c.end # 2
        <4>1. c.end = 1
          BY <1>3
        <4>2. c.end # 2
          BY ONLY <4>1
        <4>. QED
          BY <4>2, <1>1
      <3>. QED
        BY ONLY <3>1 DEF EndOK
    <2>. QED
      BY <2>1, <1>3, <1>5, <1>9 DEF NowOK
  <1>19. OpenOK(td, g, ss, lay, 1)
    <2>1. \A level \in 1..1 : ViewOf(level, ss, lay) = b
      BY <1>12
    <2>. QED
      BY <2>1, <1>5 DEF OpenOK
  <1>20. NowOK(g[1], ss[1].last, ViewOf(1, ss, lay), td, g, 1, e, FALSE)
    BY <1>2, <1>12, <1>16, <1>18
  <1>21. g[Len(g)] = St(1, 0, 0, FALSE, FALSE, 1)
    BY <1>16
  <1>. HIDE DEF b
  <1>. QED
    BY <1>7, <1>8, <1>10, <1>11, <1>16, <1>17, <1>19, <1>20, <1>21, Zenon DEF Core

LEMMA InitKnown == Init => Known /\ TablesOK(tables)
  <1>. SUFFICES ASSUME Init
                PROVE  Known /\ TablesOK(tables)
    OBVIOUS
  <1>1. TablesOK(tables) /\ scope_index = 1
    BY InitTables DEF Init, scope_index
  <1> DEFINE x == Block(Place(FALSE, FALSE), FALSE)
             c == St(1, 0, 0, FALSE, FALSE, 1)
             g == <<c, c>>
             lay == <<Blank("main")>>
             e == <<>>
  <1>2. /\ todo = <<x>> /\ arrays = << e >> /\ constants = e /\ loops = e /\ is_void = FALSE
        /\ scopes = <<[ins |-> 1, last |-> Nothing, prev |-> Nothing]>>
        /\ x = Block(Place(FALSE, FALSE), FALSE) /\ c = St(1, 0, 0, FALSE, FALSE, 1)
        /\ g = <<c, c>> /\ lay = <<Blank("main")>> /\ e = <<>> /\ << e >> = << <<>> >>
    BY DEF Init
  <1>. HIDE DEF x, c, g, lay, e
  <1>3. Core(todo, g, scopes, arrays, lay, e, e, e, 1, FALSE)
    BY <1>2, InitCore
  <1>4. Core(todo, g, scopes, arrays, lay, constants, loops, e, scope_index, is_void)
    BY <1>1, <1>2, <1>3
  <1>. QED
    BY <1>1, <1>4 DEF Known, Ctx

(* How a step ends: what is known stays known, or the program has an error *)
(* and nothing is compiled any more.                                       *)
Errors == {"UNKNOWN_IDENTIFIER", "BREAK_OUTSIDE_LOOP", "CONTINUE_OUTSIDE_LOOP",
           "UNINDEXABLE_TYPE"}

Goes == result' = "OK" /\ Known' /\ TablesOK(tables')

Fails ==
  /\ result' \in Errors
  /\ UNCHANGED <<tables, scopes, arrays, constants, loops, is_void>>

Ready == Prepared /\ Known /\ TablesOK(tables)

LEMMA StepRuns == Step => result = "OK"
  BY DEF Step, Statement, Literal, Assignment, Branch, Function, Looping, CompoundExpression,
         EndBlock, ExpressionStatement, EndExpressionStatement, LetStatement, SaveSymbol,
         ReturnStatement, EmitInstruction, ContinueStatement, BreakStatement, BooleanLiteral,
         ConstantLiteral, Identifier, Compound, Reassignment, EndReassignment, UnindexableTarget, IfExpression,
         Consequence, Alternative, EndIf, FunctionLiteral, EndFunction, WhileLoop, ForLoop, Loop,
         Condition, LoopBody, EndLoopBody, EndLoop, NewStatement, NewExpression, Running

LEMMA StatementKnown ==
  ASSUME Ready, Statement, result = "OK"
  PROVE  Goes \/ Fails
  <1>1. Prepared /\ Known /\ TablesOK(tables)
    BY DEF Ready
  <1>2. CASE EndBlock
    <2>1. UNCHANGED <<tables, result>>
      BY <1>2 DEF EndBlock
    <2>. QED
      BY <1>1, <1>2, <2>1, EndBlockOK DEF Goes
  <1>3. ASSUME NEW kind \in {"value", "void"}, ExpressionStatement(kind)
        PROVE  Goes
    <2>1. UNCHANGED <<tables, result>>
      BY <1>3 DEF ExpressionStatement
    <2>. QED
      BY <1>1, <1>3, <2>1, ExpressionStatementOK DEF Goes
  <1>4. CASE EndExpressionStatement
    <2>1. UNCHANGED <<tables, result>>
      BY <1>4 DEF EndExpressionStatement
    <2>. QED
      BY <1>1, <1>4, <2>1, EndExpressionStatementOK DEF Goes
  <1>5. ASSUME NEW name \in Names, LetStatement(name)
        PROVE  Goes
    <2>1. tables' = ST!symbol_define(tables, name) /\ UNCHANGED result
      BY <1>5 DEF LetStatement
    <2>2. TablesOK(tables')
      BY <1>1, <2>1, DefineTables
    <2>. QED
      BY <1>1, <1>5, <2>1, <2>2, LetStatementOK DEF Goes
  <1>6. CASE SaveSymbol
    <2>1. UNCHANGED <<tables, result>>
      BY <1>6 DEF SaveSymbol
    <2>. QED
      BY <1>1, <1>6, <2>1, SaveSymbolOK DEF Goes
  <1>7. CASE ReturnStatement
    <2>1. UNCHANGED <<tables, result>>
      BY <1>7 DEF ReturnStatement
    <2>. QED
      BY <1>1, <1>7, <2>1, ReturnStatementOK DEF Goes
  <1>8. CASE EmitInstruction
    <2>1. UNCHANGED <<tables, result>>
      BY <1>8 DEF EmitInstruction
    <2>. QED
      BY <1>1, <1>8, <2>1, EmitInstructionOK DEF Goes
  <1>9. CASE ContinueStatement
    <2>1. Fail("CONTINUE_OUTSIDE_LOOP") \/ UNCHANGED <<tables, result>>
      BY <1>9 DEF ContinueStatement
    <2>2. CASE Fail("CONTINUE_OUTSIDE_LOOP")
      BY <2>2 DEF Fail, Fails, Errors
    <2>3. CASE UNCHANGED <<tables, result>>
      BY <1>1, <1>9, <2>3, ContinueStatementOK DEF Goes
    <2>. QED
      BY <2>1, <2>2, <2>3
  <1>10. CASE BreakStatement
    <2>1. Fail("BREAK_OUTSIDE_LOOP") \/ UNCHANGED <<tables, result>>
      BY <1>10 DEF BreakStatement
    <2>2. CASE Fail("BREAK_OUTSIDE_LOOP")
      BY <2>2 DEF Fail, Fails, Errors
    <2>3. CASE UNCHANGED <<tables, result>>
      BY <1>1, <1>10, <2>3, BreakStatementOK DEF Goes
    <2>. QED
      BY <2>1, <2>2, <2>3
  <1>. QED
    BY <1>2, <1>3, <1>4, <1>5, <1>6, <1>7, <1>8, <1>9, <1>10 DEF Statement

LEMMA ExpressionKnown ==
  ASSUME Ready, Literal \/ CompoundExpression \/ Assignment, result = "OK"
  PROVE  Goes \/ Fails
  <1>1. Prepared /\ Known /\ TablesOK(tables)
    BY DEF Ready
  <1>2. CASE BooleanLiteral
    <2>1. UNCHANGED <<tables, result>>
      BY <1>2 DEF BooleanLiteral
    <2>. QED
      BY <1>1, <1>2, <2>1, BooleanLiteralOK DEF Goes
  <1>3. CASE ConstantLiteral
    <2>1. UNCHANGED <<tables, result>>
      BY <1>3 DEF ConstantLiteral
    <2>. QED
      BY <1>1, <1>3, <2>1, ConstantLiteralOK DEF Goes
  <1>4. ASSUME NEW name \in Names, Identifier(name)
        PROVE  Goes \/ Fails
    <2>1. \/ Fail("UNKNOWN_IDENTIFIER")
          \/ tables' = ST!TablesAfterResolve(tables, name) /\ UNCHANGED result
      BY <1>4 DEF Identifier
    <2>2. CASE Fail("UNKNOWN_IDENTIFIER")
      BY <2>2 DEF Fail, Fails, Errors
    <2>3. CASE tables' = ST!TablesAfterResolve(tables, name) /\ UNCHANGED result
      <3>1. TablesOK(tables')
        BY <1>1, <2>3, ResolveTables
      <3>. QED
        BY <1>1, <1>4, <2>3, <3>1, IdentifierOK DEF Goes
    <2>. QED
      BY <2>1, <2>2, <2>3
  <1>5. CASE CompoundExpression
    <2>1. UNCHANGED <<tables, result>>
      BY <1>5 DEF CompoundExpression, Compound
    <2>. QED
      BY <1>1, <1>5, <2>1, CompoundExpressionOK DEF Goes
  <1>6. ASSUME NEW name \in Names, Reassignment(name)
        PROVE  Goes \/ Fails
    <2>1. \/ Fail("UNKNOWN_IDENTIFIER")
          \/ tables' = ST!TablesAfterResolve(tables, name) /\ UNCHANGED result
      BY <1>6 DEF Reassignment
    <2>2. CASE Fail("UNKNOWN_IDENTIFIER")
      BY <2>2 DEF Fail, Fails, Errors
    <2>3. CASE tables' = ST!TablesAfterResolve(tables, name) /\ UNCHANGED result
      <3>1. TablesOK(tables')
        BY <1>1, <2>3, ResolveTables
      <3>. QED
        BY <1>1, <1>6, <2>3, <3>1, ReassignmentOK DEF Goes
    <2>. QED
      BY <2>1, <2>2, <2>3
  <1>7. CASE EndReassignment
    BY <1>1, <1>7, EndReassignmentOK DEF Goes
  <1>8. CASE UnindexableTarget
    BY <1>8 DEF UnindexableTarget, Fail, Fails, Errors
  <1>. QED
    BY <1>2, <1>3, <1>4, <1>5, <1>6, <1>7, <1>8 DEF Literal, Assignment

LEMMA BranchKnown ==
  ASSUME Ready, Branch \/ Function \/ Looping, result = "OK"
  PROVE  Goes
  <1>1. Prepared /\ Known /\ TablesOK(tables)
    BY DEF Ready
  <1>2. ASSUME NEW hasElse \in BOOLEAN, IfExpression(hasElse)
        PROVE  Goes
    <2>1. UNCHANGED <<tables, result>>
      BY <1>2 DEF IfExpression
    <2>. QED
      BY <1>1, <1>2, <2>1, IfExpressionOK DEF Goes
  <1>3. CASE Consequence
    <2>1. UNCHANGED <<tables, result>>
      BY <1>3 DEF Consequence
    <2>. QED
      BY <1>1, <1>3, <2>1, ConsequenceStepOK DEF Goes
  <1>4. CASE Alternative
    <2>1. UNCHANGED <<tables, result>>
      BY <1>4 DEF Alternative
    <2>. QED
      BY <1>1, <1>4, <2>1, AlternativeStepOK DEF Goes
  <1>5. CASE EndIf
    <2>1. UNCHANGED <<tables, result>>
      BY <1>5 DEF EndIf
    <2>. QED
      BY <1>1, <1>5, <2>1, EndIfStepOK DEF Goes
  <1>6. ASSUME NEW name \in Names \cup {NULL}, NEW parameters \in Parameters,
               FunctionLiteral(name, parameters)
        PROVE  Goes
    <2>1. UNCHANGED result
      BY <1>6 DEF FunctionLiteral
    <2>. QED
      BY <1>1, <1>6, <2>1, FunctionLiteralOK DEF Goes
  <1>7. CASE EndFunction
    <2>1. UNCHANGED result
      BY <1>7 DEF EndFunction
    <2>. QED
      BY <1>1, <1>7, <2>1, EndFunctionStepOK DEF Goes
  <1>8. CASE WhileLoop
    <2>1. UNCHANGED <<tables, result>>
      BY <1>8 DEF WhileLoop, Loop
    <2>. QED
      BY <1>1, <1>8, <2>1, WhileLoopOK DEF Goes
  <1>9. ASSUME NEW name \in Names, NEW hasUpdate \in BOOLEAN, ForLoop(name, hasUpdate)
        PROVE  Goes
    <2>1. tables' = ST!symbol_define(tables, name) /\ UNCHANGED result
      BY <1>9 DEF ForLoop, Loop
    <2>2. TablesOK(tables')
      BY <1>1, <2>1, DefineTables
    <2>. QED
      BY <1>1, <1>9, <2>1, <2>2, ForLoopOK DEF Goes
  <1>10. CASE Condition
    <2>1. UNCHANGED <<tables, result>>
      BY <1>10 DEF Condition
    <2>. QED
      BY <1>1, <1>10, <2>1, ConditionActionOK DEF Goes
  <1>11. CASE LoopBody
    <2>1. UNCHANGED result
      BY <1>11 DEF LoopBody
    <2>. QED
      BY <1>1, <1>11, <2>1, LoopBodyOK DEF Goes
  <1>12. CASE EndLoopBody
    <2>1. UNCHANGED result
      BY <1>12 DEF EndLoopBody
    <2>. QED
      BY <1>1, <1>12, <2>1, EndLoopBodyStepOK DEF Goes
  <1>13. CASE EndLoop
    BY <1>1, <1>13, EndLoopStepOK DEF Goes
  <1>. QED
    BY <1>2, <1>3, <1>4, <1>5, <1>6, <1>7, <1>8, <1>9, <1>10, <1>11, <1>12, <1>13
    DEF Branch, Function, Looping

(* Every step of a prepared program goes on from what is known, or reports *)
(* an error of the program.                                                *)
LEMMA StepKnown ==
  ASSUME Ready, Step
  PROVE  Goes \/ Fails
  <1>1. result = "OK"
    BY StepRuns
  <1>2. Statement \/ (Literal \/ CompoundExpression \/ Assignment) \/ (Branch \/ Function \/ Looping)
    BY DEF Step
  <1>. QED
    BY <1>1, <1>2, StatementKnown, ExpressionKnown, BranchKnown

LEMMA StepBudget ==
  ASSUME Step, UNCHANGED suite, budget \in 0..Suite.nodes, Suite.nodes \in Nat
  PROVE  budget' \in 0..Suite'.nodes
  <1>1. Suite'.nodes = Suite.nodes
    BY DEF Suite
  <1>2. budget' = budget \/ \E cost \in {0, 1} : Spend(cost)
    <2>1. CASE Statement
      BY <2>1 DEF Statement, EndBlock, ExpressionStatement, EndExpressionStatement, LetStatement,
         SaveSymbol, ReturnStatement, EmitInstruction, ContinueStatement, BreakStatement,
         NewStatement
    <2>2. CASE Literal \/ CompoundExpression \/ Assignment
      BY <2>2 DEF Literal, CompoundExpression, Assignment, BooleanLiteral, ConstantLiteral, Identifier,
         Compound, Reassignment, EndReassignment, UnindexableTarget, NewExpression
    <2>3. CASE Branch \/ Function \/ Looping
      BY <2>3 DEF Branch, Function, Looping, IfExpression, Consequence, Alternative, EndIf,
         FunctionLiteral, EndFunction, WhileLoop, ForLoop, Loop, Condition, LoopBody, EndLoopBody,
         EndLoop, NewExpression
    <2>. QED
      BY <2>1, <2>2, <2>3 DEF Step
  <1>. QED
    BY <1>1, <1>2 DEF Spend

(* The inductive invariant.                                                *)
IInv ==
  /\ Prepared /\ TypeOK /\ TablesOK(tables)
  /\ result \in {"OK"} \cup Errors
  /\ result = "OK" => Known

(* What is known gives the types.                                          *)
CodeTypes ==
  /\ \A i \in 1..Len(tables) : tables[i] \in ST!Table
  /\ \A i \in 1..Len(arrays) : arrays[i] \in Seq(0..255)
  /\ scope_index \in 1..Len(scopes)
  /\ \A i, j \in 1..scope_index :
       /\ scopes[i].ins \in 1..Len(arrays)
       /\ scopes[i].ins = scopes[j].ins => i = j
  /\ \A i \in 1..Len(constants) :
       constants[i].kind # "value" => constants[i].ins \in 1..Len(arrays)
  /\ loops \in Seq(Seq(Nat))
  /\ is_void \in BOOLEAN

LEMMA KnownTypes ==
  ASSUME Known, TablesOK(tables)
  PROVE  CodeTypes
  <1>1. PICK g, lay, hm : Ctx(g, lay, hm)
    BY DEF Known
  <1>2. /\ LaysOK(arrays, lay) /\ ScopesOK(scope_index, scopes, arrays, lay)
        /\ PoolOK(constants, scope_index, scopes, lay) /\ HomesOK(loops, hm, lay)
        /\ Chain(todo, g, scopes, lay, hm)
        /\ NowOK(g[1], scopes[scope_index].last, ViewOf(scope_index, scopes, lay), todo, g,
                 scope_index, loops, is_void)
    BY <1>1 DEF Ctx, Core
  <1>3. \A i \in 1..Len(tables) : tables[i] \in ST!Table
    BY TablesFacts, ElementOfSeq
  <1>4. \A i \in 1..Len(arrays) : arrays[i] \in Seq(0..255)
    BY <1>2 DEF LaysOK, Laid, Byte
  <1>5. /\ scope_index \in 1..Len(scopes)
        /\ \A i \in 1..scope_index : scopes[i].ins \in 1..Len(arrays)
        /\ \A i, j \in 1..scope_index : scopes[i].ins = scopes[j].ins => i = j
    BY <1>2 DEF ScopesOK
  <1>6. \A i \in 1..Len(constants) :
          constants[i].kind # "value" => constants[i].ins \in 1..Len(arrays)
    BY <1>2 DEF PoolOK, LaysOK
  <1>7. loops \in Seq(Seq(Nat))
    BY <1>2 DEF HomesOK
  <1>8. is_void \in BOOLEAN
    <2>1. g \in Seq(State) /\ Len(g) = Len(todo) + 1 /\ Len(todo) \in Nat
      BY <1>2, LenProperties DEF Chain, IsSeq
    <2>2. 1 \in 1..Len(g)
      BY <2>1
    <2>3. g[1] \in State
      BY <2>1, <2>2, ElementOfSeq
    <2>4. is_void = g[1].void
      BY <1>2 DEF NowOK
    <2>. QED
      BY <2>3, <2>4, StateFields
  <1>. QED
    BY <1>3, <1>4, <1>5, <1>6, <1>7, <1>8 DEF CodeTypes

LEMMA TypesSplit ==
  TypeOK <=> /\ CodeTypes
             /\ result \in {"OK", "UNKNOWN_IDENTIFIER", "BREAK_OUTSIDE_LOOP",
                            "CONTINUE_OUTSIDE_LOOP", "UNINDEXABLE_TYPE", "ABORT", "UNDEFINED"}
             /\ budget \in 0..Suite.nodes
  BY DEF TypeOK, CodeTypes

LEMMA KnownTypesNext == (Known /\ TablesOK(tables))' => CodeTypes'
  <1>1. Known /\ TablesOK(tables) => CodeTypes
    BY KnownTypes
  <1>. QED
    BY <1>1, PTL

LEMMA TypesSplitNext ==
  CodeTypes' /\ (result \in {"OK", "UNKNOWN_IDENTIFIER", "BREAK_OUTSIDE_LOOP",
                            "CONTINUE_OUTSIDE_LOOP", "UNINDEXABLE_TYPE", "ABORT", "UNDEFINED"})'
    /\ (budget \in 0..Suite.nodes)' => TypeOK'
  BY TypesSplit, PTL

LEMMA NodesNat ==
  ASSUME suite \in DOMAIN Suites
  PROVE  Suite.nodes \in Nat
  BY SuitesAssumption DEF Suite

LEMMA InitInv ==
  ASSUME Init, Prepared
  PROVE  IInv
  <1>1. Known /\ TablesOK(tables)
    BY InitKnown
  <1>2. CodeTypes
    BY <1>1, KnownTypes
  <1>3. result = "OK" /\ budget = Suite.nodes /\ Suite.nodes \in Nat
    BY NodesNat DEF Init, Prepared
  <1>4. TypeOK
    BY <1>2, <1>3, TypesSplit
  <1>. QED
    BY <1>1, <1>3, <1>4 DEF IInv

LEMMA PreparedStays ==
  ASSUME Prepared, UNCHANGED suite
  PROVE  Prepared'
  BY DEF Prepared, Suite

LEMMA StepInv ==
  ASSUME IInv, [Next]_vars
  PROVE  IInv'
  <1>1. Prepared /\ TypeOK /\ TablesOK(tables) /\ (result = "OK" => Known)
        /\ result \in {"OK"} \cup Errors
    BY DEF IInv
  <1>2. CodeTypes /\ budget \in 0..Suite.nodes /\ Suite.nodes \in Nat
    BY <1>1, TypesSplit, NodesNat DEF Prepared
  <1>3. CASE UNCHANGED vars
    <2>1. UNCHANGED <<suite, tables, scopes, arrays, constants, loops, is_void, todo, result, budget>>
      BY <1>3 DEF vars
    <2>2. Prepared'
      BY <1>1, <2>1, PreparedStays
    <2>3. TypeOK'
      BY <1>1, <2>1 DEF TypeOK, scope_index, Suite
    <2>4. TablesOK(tables') /\ result' \in {"OK"} \cup Errors
      BY <1>1, <2>1
    <2>5. result' = "OK" => Known'
      BY <1>1, <2>1 DEF Known, Ctx, scope_index
    <2>. QED
      BY <2>2, <2>3, <2>4, <2>5 DEF IInv
  <1>4. CASE Next
    <2>1. Step /\ UNCHANGED suite
      BY <1>4 DEF Next
    <2>2. Ready /\ result = "OK"
      BY <1>1, <2>1, StepRuns DEF Ready
    <2>3. Prepared'
      BY <1>1, <2>1, PreparedStays
    <2>4. budget' \in 0..Suite'.nodes
      BY <1>2, <2>1, StepBudget
    <2>5. CASE Goes
      <3>1. result' = "OK" /\ Known' /\ TablesOK(tables')
        BY <2>5 DEF Goes
      <3>2. CodeTypes'
        BY <3>1, KnownTypesNext
      <3>3. TypeOK'
        BY <2>4, <3>1, <3>2, TypesSplitNext
      <3>. QED
        BY <2>3, <3>1, <3>3 DEF IInv
    <2>6. CASE Fails
      <3>1. result' \in Errors /\ UNCHANGED <<tables, scopes, arrays, constants, loops, is_void>>
        BY <2>6 DEF Fails
      <3>2. CodeTypes'
        BY <1>2, <3>1 DEF CodeTypes, scope_index
      <3>3. TypeOK'
        <4>1. result' \in {"OK", "UNKNOWN_IDENTIFIER", "BREAK_OUTSIDE_LOOP",
                           "CONTINUE_OUTSIDE_LOOP", "UNINDEXABLE_TYPE", "ABORT", "UNDEFINED"}
          BY <3>1 DEF Errors
        <4>. QED
          BY <2>4, <3>2, <4>1, TypesSplitNext
      <3>4. TablesOK(tables')
        BY <1>1, <3>1
      <3>5. result' # "OK"
        BY <3>1 DEF Errors
      <3>. QED
        BY <2>3, <3>1, <3>3, <3>4, <3>5 DEF IInv
    <2>. QED
      BY <2>1, <2>2, <2>5, <2>6, StepKnown
  <1>. QED
    BY <1>3, <1>4

(***************************************************************************)
(* The invariant holds of every compilation of such a program: as long as  *)
(* no error is reported, the code of every scope is laid out, and what is  *)
(* left to do finds the scopes, the stack, the jumps and the breaks it     *)
(* counts on (compile, compile_expression and what they call).             *)
(***************************************************************************)
THEOREM CompilerInvariance == Spec /\ Prepared => []IInv
  <1>1. Init /\ Prepared => IInv
    BY InitInv
  <1>2. IInv /\ [Next]_vars => IInv'
    BY StepInv
  <1>. QED
    BY <1>1, <1>2, PTL DEF Spec

(***************************************************************************)
(* The compiler's state has its types, and the open scopes own different   *)
(* arrays (enter_compiler_scope, leave_compiler_scope).                    *)
(***************************************************************************)
THEOREM CompilerTypes == Spec /\ Prepared => []TypeOK
  <1>1. IInv => TypeOK
    BY DEF IInv
  <1>. QED
    BY <1>1, CompilerInvariance, PTL

(***************************************************************************)
(* The compiler neither fails an assertion nor writes behind its arrays:   *)
(* change_operand_ex always finds an instruction where it is to patch one, *)
(* also for the breaks that are patched through a slot of scopes that has  *)
(* been left.                                                              *)
(***************************************************************************)
THEOREM CompilerNeverDies == Spec /\ Prepared => []NeverDies
  <1>1. IInv => NeverDies
    BY DEF IInv, NeverDies, Errors
  <1>. QED
    BY <1>1, CompilerInvariance, PTL

LEMMA NestingHolds ==
  ASSUME IInv
  PROVE  NestingClosed
  <1>. SUFFICES ASSUME Compiled
                PROVE  Len(tables) = 1 /\ loops = <<>> /\ ~is_void
    BY DEF NestingClosed
  <1>1. result = "OK" /\ todo = <<>> /\ Known
    BY DEF Compiled, IInv
  <1>2. PICK g, lay, hm : Ctx(g, lay, hm)
    BY <1>1 DEF Known
  <1>3. /\ HomesOK(loops, hm, lay) /\ Chain(todo, g, scopes, lay, hm)
        /\ NowOK(g[1], scopes[scope_index].last, ViewOf(scope_index, scopes, lay), todo, g,
                 scope_index, loops, is_void)
        /\ g[Len(g)] = St(1, 0, 0, FALSE, FALSE, 1)
    BY <1>2 DEF Ctx, Core
  <1>4. Len(g) = 1
    BY <1>1, <1>3 DEF Chain
  <1>5. g[1] = St(1, 0, 0, FALSE, FALSE, 1)
    BY <1>3, <1>4
  <1>6. g[1].level = 1 /\ g[1].loops = 0 /\ g[1].void = FALSE
    BY <1>5 DEF St
  <1>7. g[1].level = scope_index /\ g[1].loops = Len(loops) /\ g[1].void = is_void
    BY <1>3 DEF NowOK
  <1>8. loops \in Seq(Seq(Nat))
    BY <1>3 DEF HomesOK
  <1>9. Len(loops) = 0
    BY <1>6, <1>7
  <1>10. loops = <<>>
    BY <1>8, <1>9, EmptySeq
  <1>11. scope_index = 1
    BY <1>6, <1>7
  <1>12. is_void = FALSE
    BY <1>6, <1>7, Zenon
  <1>. QED
    BY <1>10, <1>11, <1>12 DEF scope_index

(***************************************************************************)
(* A compilation that succeeds has left every scope and loop it entered,   *)
(* and the flag is_void_expression is down.                                *)
(***************************************************************************)
THEOREM NestingIsClosed == Spec /\ Prepared => []NestingClosed
  BY NestingHolds, CompilerInvariance, PTL

----------------------------------------------------------------------------
(* Reading the code again: where instructions start *)

LEMMA Lengths ==
  ASSUME NEW op
  PROVE  InstructionLength(op) \in 1..4
  <1>1. Widths(op) \in {<<>>, <<1>>, <<2>>, <<2, 1>>}
    BY WidthCases
  <1>2. CASE Widths(op) = <<>>
    BY <1>2 DEF InstructionLength
  <1>3. CASE Widths(op) = <<1>>
    BY <1>3 DEF InstructionLength
  <1>4. CASE Widths(op) = <<2>>
    BY <1>4 DEF InstructionLength
  <1>5. CASE Widths(op) = <<2, 1>>
    BY <1>5 DEF InstructionLength
  <1>. QED
    BY <1>1, <1>2, <1>3, <1>4, <1>5

(* From where decoding goes on after position p.                           *)
NextOf(code, p) == p + InstructionLength(NameOf(code[p + 1]))

(* The positions decoding comes to from p on.                              *)
Decodes(f, code) ==
  \A p \in Nat : f[p] = IF p >= Len(code) THEN {p} ELSE {p} \cup f[NextOf(code, p)]

LEMMA NextNat ==
  ASSUME NEW code, NEW p, p \in Nat
  PROVE  NextOf(code, p) \in Nat /\ NextOf(code, p) > p
  <1>1. InstructionLength(NameOf(code[p + 1])) \in 1..4
    BY Lengths
  <1>. QED
    BY <1>1 DEF NextOf

(* There is a function that decodes: as many steps as there are bytes are  *)
(* enough.                                                                 *)
LEMMA Decoding ==
  ASSUME NEW code, Len(code) \in Nat
  PROVE  \E f \in [Nat -> SUBSET Nat] : Decodes(f, code)
  <1> DEFINE Lists == [Nat -> SUBSET Nat]
             start == [p \in Nat |-> {p}]
             Nx(r) == [p \in Nat |-> IF p >= Len(code) THEN {p} ELSE {p} \cup r[NextOf(code, p)]]
             Walk == [n \in Nat |-> [r \in Lists |-> Nx(r)]]
             N == Len(code)
  <1>1. start \in Lists
    OBVIOUS
  <1>2. ASSUME NEW r \in Lists
        PROVE  Nx(r) \in Lists
    <2>1. ASSUME NEW p \in Nat
          PROVE  (IF p >= Len(code) THEN {p} ELSE {p} \cup r[NextOf(code, p)]) \in SUBSET Nat
      <3>1. NextOf(code, p) \in Nat
        BY NextNat
      <3>2. r[NextOf(code, p)] \in SUBSET Nat
        BY <3>1
      <3>. QED
        BY <3>2
    <2>. QED
      BY <2>1
  <1>3. Walk \in [Nat -> [Lists -> Lists]]
    <2>. HIDE DEF Lists, Nx
    <2>. QED
      BY <1>2
  <1>4. PICK h : h \in [Nat -> Lists] /\ Recurses(h, start, Walk)
    <2>. HIDE DEF Lists, start, Walk
    <2>. QED
      BY ONLY <1>1, <1>3, Recursion
  <1>5. ASSUME NEW n \in Nat, n # 0
        PROVE  h[n] = Nx(h[n - 1])
    <2>1. n - 1 \in Nat
      BY <1>5
    <2>2. h[n - 1] \in Lists /\ h[n] = Walk[n][h[n - 1]]
      BY <2>1, <1>4, <1>5 DEF Recurses
    <2>. HIDE DEF Lists, Nx
    <2>. QED
      BY <2>2
  <1>6. ASSUME NEW n \in Nat, NEW p \in Nat
        PROVE  h[n + 1][p] = IF p >= N THEN {p} ELSE {p} \cup h[n][NextOf(code, p)]
    <2> DEFINE m == n + 1
    <2>1. m \in Nat /\ m # 0 /\ m - 1 = n
      OBVIOUS
    <2>. HIDE DEF m, Nx
    <2>2. h[m] = Nx(h[n])
      BY <2>1, <1>5
    <2>3. h[m][p] = IF p >= N THEN {p} ELSE {p} \cup h[n][NextOf(code, p)]
      BY <2>2 DEF Nx
    <2>. QED
      BY <2>3 DEF m
  <1>7. ASSUME NEW p \in Nat
        PROVE  h[0][p] = {p}
    BY <1>4 DEF Recurses
  <1>. HIDE DEF Lists, start, Nx, Walk
  <1> DEFINE P(n) == \A p \in Nat : N <= p + n => h[n + 1][p] = h[n][p]
  <1>8. P(0)
    <2>1. ASSUME NEW p \in Nat, N <= p + 0
          PROVE  h[0 + 1][p] = h[0][p]
      <3>1. p >= N
        BY <2>1
      <3>2. h[0 + 1][p] = {p}
        BY <1>6, <3>1
      <3>. QED
        BY <3>2, <1>7
    <2>. QED
      BY <2>1
  <1>9. ASSUME NEW n \in Nat, P(n)
        PROVE  P(n + 1)
    <2> DEFINE m == n + 1
    <2>1. m \in Nat
      OBVIOUS
    <2>2. ASSUME NEW p \in Nat, N <= p + m
          PROVE  h[m + 1][p] = h[m][p]
      <3> DEFINE q == NextOf(code, p)
      <3>1. q \in Nat /\ q > p
        BY NextNat
      <3>2. h[m][p] = IF p >= N THEN {p} ELSE {p} \cup h[n][q]
        BY <1>6
      <3>3. h[m + 1][p] = IF p >= N THEN {p} ELSE {p} \cup h[m][q]
        BY <1>6, <2>1
      <3>. HIDE DEF q
      <3>4. N <= q + n
        BY <2>2, <3>1
      <3>5. h[m][q] = h[n][q]
        BY <3>1, <3>4, <1>9
      <3>. QED
        BY <3>2, <3>3, <3>5
    <2>. QED
      BY <2>2
  <1>10. P(N)
    <2>. HIDE DEF P
    <2> DEFINE Bad == {k \in Nat : ~P(k)}
    <2>1. SUFFICES ASSUME Bad # {}
                   PROVE  FALSE
      BY <2>1
    <2>2. PICK m \in Bad : \A k \in Bad : m <= k
      BY <2>1, Least
    <2>3. m # 0
      BY <2>2, <1>8
    <2>4. m - 1 \in Nat /\ ~(m <= m - 1) /\ (m - 1) + 1 = m
      BY <2>2, <2>3
    <2>5. P(m - 1)
      BY <2>2, <2>4
    <2>6. P((m - 1) + 1)
      BY <2>4, <2>5, <1>9
    <2>. QED
      BY <2>2, <2>4, <2>6
  <1>11. ASSUME NEW p \in Nat
         PROVE  h[N][p] = IF p >= N THEN {p} ELSE {p} \cup h[N][NextOf(code, p)]
    <2>1. N <= p + N
      OBVIOUS
    <2>2. h[N + 1][p] = h[N][p]
      BY <2>1, <1>10
    <2>. QED
      BY <2>2, <1>6
  <1>12. h[N] \in [Nat -> SUBSET Nat]
    BY <1>4 DEF Lists
  <1>13. Decodes(h[N], code)
    BY <1>11 DEF Decodes
  <1>. QED
    BY <1>12, <1>13

LEMMA StartsDecode ==
  ASSUME NEW code, Len(code) \in Nat
  PROVE  \E f \in [Nat -> SUBSET Nat] : Decodes(f, code) /\ Starts(code) = f[0]
  <1> DEFINE G(f, p) == IF p >= Len(code) THEN {p}
                        ELSE {p} \cup f[p + InstructionLength(NameOf(code[p + 1]))]
             d == CHOOSE f : f = [p \in Nat |-> G(f, p)]
  <1>1. PICK g \in [Nat -> SUBSET Nat] : Decodes(g, code)
    BY Decoding
  <1>2. g = [p \in Nat |-> G(g, p)]
    <2>1. \A p \in Nat : g[p] = G(g, p)
      BY <1>1 DEF Decodes, NextOf
    <2>2. g = [p \in Nat |-> g[p]]
      OBVIOUS
    <2>. HIDE DEF G
    <2>. QED
      BY <2>1, <2>2
  <1>3. d = [p \in Nat |-> G(d, p)]
    <2>. HIDE DEF G
    <2>1. \E f : f = [p \in Nat |-> G(f, p)]
      BY <1>2
    <2>. QED
      BY <2>1
  <1>4. Starts(code) = d[0]
    BY DEF Starts
  <1>. HIDE DEF d
  <1>5. \A p \in Nat : d[p] = G(d, p)
    <2>. HIDE DEF G
    <2>. QED
      BY <1>3
  <1>6. Decodes(d, code)
    BY <1>5 DEF Decodes, NextOf
  <1> DEFINE P(p) == d[p] \in SUBSET Nat
             Bad == {k \in Nat : \E p \in Nat : Len(code) - p = k /\ ~P(p)}
  <1>7. ASSUME NEW p \in Nat
        PROVE  P(p)
    <2>1. CASE p >= Len(code)
      BY <2>1, <1>6 DEF Decodes
    <2>2. CASE p < Len(code)
      <3>1. SUFFICES ASSUME ~P(p)
                     PROVE  FALSE
        OBVIOUS
      <3>2. Bad # {}
        <4>1. Len(code) - p \in Nat
          BY <2>2
        <4>. QED
          BY <3>1, <4>1
      <3>3. PICK k \in Bad : \A j \in Bad : k <= j
        BY <3>2, Least
      <3>4. PICK q \in Nat : Len(code) - q = k /\ ~P(q)
        BY <3>3
      <3> DEFINE n == NextOf(code, q)
      <3>5. n \in Nat /\ n > q
        BY NextNat
      <3>6. d[q] = IF q >= Len(code) THEN {q} ELSE {q} \cup d[n]
        BY <1>6 DEF Decodes
      <3>. HIDE DEF n
      <3>7. ~P(n)
        BY <3>4, <3>6
      <3>8. Len(code) > n
        <4>1. SUFFICES ASSUME n >= Len(code)
                       PROVE  P(n)
          BY <3>5, <3>7
        <4>2. d[n] = {n}
          BY <4>1, <3>5, <1>6 DEF Decodes
        <4>. QED
          BY <4>2, <3>5
      <3>9. Len(code) - n \in Bad
        <4>1. Len(code) - n \in Nat
          BY <3>5, <3>8
        <4>. QED
          BY <4>1, <3>5, <3>7
      <3>10. k <= Len(code) - n
        <4>. HIDE DEF Bad
        <4>. QED
          BY <3>3, <3>9
      <3>. QED
        BY ONLY <3>4, <3>5, <3>8, <3>10, Len(code) \in Nat
    <2>. QED
      BY <2>1, <2>2
  <1>8. d \in [Nat -> SUBSET Nat]
    <2>. HIDE DEF G
    <2>1. d = [p \in Nat |-> d[p]]
      BY <1>3
    <2>. QED
      BY <2>1, <1>7
  <1>. QED
    BY <1>4, <1>6, <1>8

LEMMA LaidNames ==
  ASSUME NEW code, NEW l, Laid(code, l), NEW p, p \in DOMAIN l.at
  PROVE  OpAt(code, p) = l.at[p].op /\ NextOf(code, p) = p + Size(l, p)
  <1>1. p \in Nat /\ Written(code, l, p)
    BY DEF Laid
  <1>2. OpAt(code, p) = l.at[p].op
    BY <1>1, Read DEF Written
  <1>. QED
    BY <1>2 DEF NextOf, OpAt, Size

(* Decoding code that has been laid out comes to its instructions and to   *)
(* its end.                                                                *)
LEMMA LaidStarts ==
  ASSUME NEW code, NEW l, Laid(code, l)
  PROVE  Starts(code) = DOMAIN l.depth
  <1>1. /\ l.size \in Nat /\ l.size = Len(code)
        /\ \A p \in DOMAIN l.depth : p \in Nat /\ p <= l.size
        /\ \A p \in DOMAIN l.at : p < l.size
    BY LaidFacts
  <1>2. PICK f \in [Nat -> SUBSET Nat] : Decodes(f, code) /\ Starts(code) = f[0]
    BY <1>1, StartsDecode
  <1> DEFINE Onward(p) == {q \in DOMAIN l.depth : q >= p}
             P(p) == f[p] = Onward(p)
             Bad == {k \in Nat : \E p \in DOMAIN l.depth : l.size - p = k /\ ~P(p)}
  <1>3. P(l.size)
    <2>1. f[l.size] = {l.size}
      BY <1>1, <1>2 DEF Decodes
    <2>2. l.size \in DOMAIN l.depth
      BY DEF Laid
    <2>3. ASSUME NEW q, q \in DOMAIN l.depth, q >= l.size
          PROVE  q = l.size
      BY <2>3, <1>1
    <2>. QED
      BY <2>1, <2>2, <2>3, <1>1
  <1>4. ASSUME NEW p \in DOMAIN l.at, P(p + Size(l, p))
        PROVE  P(p)
    <2> DEFINE n == p + Size(l, p)
    <2>1. /\ p \in Nat /\ p < l.size /\ n \in DOMAIN l.depth /\ p \in DOMAIN l.depth
          /\ \A q \in DOMAIN l.depth : q <= p \/ q >= n
      BY LaidFacts DEF Laid, Written
    <2>2. n \in Nat /\ n > p
      <3>1. Size(l, p) \in 1..4
        BY LaidFacts
      <3>. QED
        BY <3>1, <2>1
    <2>3. NextOf(code, p) = n
      BY LaidNames
    <2>4. f[n] = Onward(n)
      BY <1>4
    <2>. HIDE DEF n
    <2>5. f[p] = {p} \cup f[n]
      BY <1>1, <1>2, <2>1, <2>3 DEF Decodes
    <2>6. ASSUME NEW q, q \in DOMAIN l.depth
          PROVE  q >= p <=> q = p \/ q >= n
      <3>1. q \in Nat
        BY <2>6, <1>1
      <3>2. q <= p \/ q >= n
        BY <2>6, <2>1
      <3>. QED
        BY ONLY <3>1, <3>2, <2>1, <2>2
    <2>7. {p} \cup Onward(n) = Onward(p)
      BY <2>1, <2>6
    <2>. QED
      BY <2>4, <2>5, <2>7
  <1>5. ASSUME NEW p \in DOMAIN l.depth
        PROVE  P(p)
    <2>. HIDE DEF P
    <2>1. SUFFICES ASSUME ~P(p)
                   PROVE  FALSE
      OBVIOUS
    <2>2. Bad # {}
      <3>1. l.size - p \in Nat
        BY <1>1
      <3>. QED
        BY <3>1, <2>1
    <2>3. PICK k \in Bad : \A j \in Bad : k <= j
      BY <2>2, Least
    <2>4. PICK q \in DOMAIN l.depth : l.size - q = k /\ ~P(q)
      BY <2>3
    <2>5. q \in DOMAIN l.at
      BY <2>4, <1>3 DEF Laid
    <2> DEFINE n == q + Size(l, q)
    <2>6. /\ q \in Nat /\ n \in DOMAIN l.depth /\ n \in Nat /\ n > q /\ n <= l.size
      <3>1. Size(l, q) \in 1..4 /\ q \in Nat /\ q + Size(l, q) <= l.size
        BY <2>5, LaidFacts
      <3>2. q + Size(l, q) \in DOMAIN l.depth
        BY <2>5 DEF Laid, Written
      <3>. QED
        BY <3>1, <3>2
    <2>7. ~P(n)
      BY <2>4, <2>5, <1>4
    <2>. HIDE DEF n
    <2>8. l.size - n \in Bad
      <3>1. l.size - n \in Nat
        BY <2>6, <1>1
      <3>. QED
        BY <3>1, <2>6, <2>7
    <2>9. k <= l.size - n
      <3>. HIDE DEF Bad
      <3>. QED
        BY <2>3, <2>8
    <2>. QED
      BY ONLY <2>4, <2>6, <2>9, <1>1
  <1>6. 0 \in DOMAIN l.depth
    BY DEF Laid
  <1>7. Onward(0) = DOMAIN l.depth
    BY <1>1
  <1>. QED
    BY <1>2, <1>5, <1>6, <1>7

LEMMA LaidInstructions ==
  ASSUME NEW code, NEW l, Laid(code, l)
  PROVE  Instructions(code) = DOMAIN l.at
  <1>1. Starts(code) = DOMAIN l.depth
    BY LaidStarts
  <1>2. \A p \in DOMAIN l.at : p # l.size
    <2>1. l.size \in Nat /\ \A p \in DOMAIN l.at : p \in Nat /\ p < l.size
      BY LaidFacts
    <2>. QED
      BY <2>1
  <1>. QED
    BY <1>1, <1>2 DEF Instructions, Laid

LEMMA LaidPositions ==
  ASSUME NEW code, NEW l, Laid(code, l), NEW names
  PROVE  PositionsOf(code, names) = {p \in DOMAIN l.at : l.at[p].op \in names}
  BY LaidInstructions, LaidNames DEF PositionsOf

(* What an instruction takes is what the compiler meant it to take.        *)
LEMMA LaidTaken ==
  ASSUME NEW code, NEW l, Laid(code, l), NEW p, p \in DOMAIN l.at
  PROVE  /\ Taken(code, p) = Takes(l.at[p].op, l.at[p].args)
         /\ Left(code, p) = Leaves(l.at[p].op)
  <1> DEFINE op == l.at[p].op
             args == l.at[p].args
  <1>1. /\ p \in Nat /\ op \in OpSet /\ ArgsOK(op, args) /\ Bytes(code, p, op, args)
    BY DEF Laid, Written
  <1>2. OpAt(code, p) = op
    BY LaidNames
  <1>3. op \in {"ARRAY", "HASH"} => OperandAt(code, p, 1) = args[1]
    <2>1. op \in {"ARRAY", "HASH"} => Widths(op) = <<2>>
      BY DEF Widths
    <2>2. op \in {"ARRAY", "HASH"} => Len(args) = 1 /\ args[1] <= 65535 /\ args \in Seq(Nat)
      <3>1. Len(<<2>>) = 1
        OBVIOUS
      <3>. QED
        BY <1>1, <2>1, <3>1 DEF ArgsOK
    <2>3. op \in {"ARRAY", "HASH"} => args[1] < 65536
      <3>1. ASSUME op \in {"ARRAY", "HASH"}
            PROVE  args[1] \in Nat
        <4>1. args \in Seq(Nat) /\ Len(args) = 1
          BY <3>1, <2>2
        <4>2. 1 \in 1..Len(args)
          BY <4>1
        <4>. HIDE DEF args
        <4>3. \A k \in 1..Len(args) : args[k] \in Nat
          BY <4>1
        <4>. QED
          BY <4>1, <4>2, <4>3
      <3>. QED
        BY <3>1, <2>2
    <2>. HIDE DEF op, args
    <2>. QED
      BY <1>1, <2>1, <2>3, Read
  <1>4. op = "CALL" => OperandAt(code, p, 1) = args[1]
    <2>1. op = "CALL" => Widths(op) = <<1>>
      BY DEF Widths
    <2>2. op = "CALL" => args \in Seq(Nat) /\ Len(args) = 1 /\ args[1] <= 255
      <3>1. Len(<<1>>) = 1
        OBVIOUS
      <3>. QED
        BY <1>1, <2>1, <3>1 DEF ArgsOK
    <2>3. op = "CALL" => args[1] % 256 = args[1]
      <3>1. ASSUME op = "CALL"
            PROVE  args[1] \in Nat /\ args[1] <= 255
        <4>1. args \in Seq(Nat) /\ Len(args) = 1 /\ args[1] <= 255
          BY <3>1, <2>2
        <4>2. 1 \in 1..Len(args)
          BY <4>1
        <4>. HIDE DEF args
        <4>3. \A k \in 1..Len(args) : args[k] \in Nat
          BY ONLY <4>1
        <4>. QED
          BY <4>1, <4>2, <4>3
      <3>. HIDE DEF args
      <3>. QED
        BY <3>1
    <2>. HIDE DEF op, args
    <2>4. op = "CALL" => OperandAt(code, p, 1) = args[1] % 256
      BY <1>1, <2>1, Read
    <2>. QED
      BY <2>3, <2>4
  <1>5. op = "CLOSURE" => OperandAt(code, p, 2) = args[2]
    <2>. HIDE DEF op, args
    <2>. QED
      BY <1>1, Read
  <1>6. Left(code, p) = Leaves(op)
    BY <1>2 DEF Left, Leaves
  <1>7. Taken(code, p) = Takes(op, args)
    <2>. HIDE DEF op, args
    <2>. QED
      BY <1>2, <1>3, <1>4, <1>5 DEF Taken, Takes
  <1>. QED
    BY <1>6, <1>7

----------------------------------------------------------------------------
(* Running the code: the places that can be reached                        *)

Start == [pos |-> 0, depth |-> 0]

(* Execution does not leave W.                                             *)
ClosedUnder(code, W) == Start \in W /\ \A s \in W : After(code, s) \subseteq W

LEMMA ReachedIn ==
  ASSUME NEW code, Len(code) \in Nat, NEW W, ClosedUnder(code, W)
  PROVE  Reached(code) \subseteq W
  <1> DEFINE S0 == [seen : SUBSET W, new : SUBSET W]
             b0 == [seen |-> {Start}, new |-> {Start}]
             Nx(r) == LET next == UNION {After(code, s) : s \in r.new} \ r.seen
                      IN  [seen |-> r.seen \cup next, new |-> next]
             F0 == [n \in Nat |-> [r \in S0 |-> Nx(r)]]
             G(f, n) == IF n = 0 THEN b0 ELSE Nx(f[n - 1])
             d == CHOOSE f : f = [n \in Nat |-> G(f, n)]
             N == Len(code) + 1
  <1>1. b0 \in S0
    BY DEF ClosedUnder
  <1>2. ASSUME NEW r, r \in S0
        PROVE  Nx(r) \in S0
    <2> DEFINE next == UNION {After(code, s) : s \in r.new} \ r.seen
    <2>1. next \in SUBSET W
      BY <1>2 DEF ClosedUnder
    <2>. HIDE DEF next
    <2>2. [seen |-> r.seen \cup next, new |-> next] \in S0
      BY <2>1, <1>2
    <2>. QED
      BY <2>2 DEF next
  <1>3. F0 \in [Nat -> [S0 -> S0]]
    <2>. HIDE DEF S0, Nx
    <2>. QED
      BY <1>2
  <1>4. PICK h : h \in [Nat -> S0] /\ Recurses(h, b0, F0)
    <2>. HIDE DEF S0, b0, F0
    <2>. QED
      BY ONLY <1>1, <1>3, Recursion
  <1>5. h = [n \in Nat |-> G(h, n)]
    <2>1. ASSUME NEW n \in Nat
          PROVE  h[n] = G(h, n)
      <3>1. CASE n = 0
        BY <3>1, <1>4 DEF Recurses
      <3>2. CASE n # 0
        <4>. HIDE DEF S0, Nx
        <4>1. n - 1 \in Nat
          BY <3>2
        <4>2. h[n - 1] \in S0 /\ h[n] = F0[n][h[n - 1]]
          BY <4>1, <3>2, <1>4 DEF Recurses
        <4>. QED
          BY <4>2, <3>2
      <3>. QED
        BY <3>1, <3>2
    <2>. HIDE DEF G
    <2>. QED
      BY <2>1, <1>4
  <1>6. d = [n \in Nat |-> G(d, n)]
    <2>. HIDE DEF G
    <2>1. \E f : f = [n \in Nat |-> G(f, n)]
      BY <1>5
    <2>. QED
      BY <2>1
  <1>7. Reached(code) = d[N].seen
    BY DEF Reached, Start
  <1>. HIDE DEF d, S0
  <1>8. d[0] \in S0
    <2>1. d[0] = b0
      BY <1>6
    <2>. QED
      BY <2>1, <1>1
  <1>9. ASSUME NEW n \in Nat, n # 0, d[n - 1] \in S0
        PROVE  d[n] \in S0
    <2>. HIDE DEF Nx, b0
    <2>1. d[n] = Nx(d[n - 1])
      BY <1>6, <1>9
    <2>. QED
      BY <2>1, <1>2, <1>9
  <1> DEFINE Bad == {k \in Nat : d[k] \notin S0}
  <1>10. ASSUME NEW n \in Nat
         PROVE  d[n] \in S0
    <2>1. SUFFICES ASSUME Bad # {}
                   PROVE  FALSE
      BY <2>1
    <2>2. PICK m \in Bad : \A k \in Bad : m <= k
      BY <2>1, Least
    <2>3. m \in Nat /\ m # 0 /\ d[m] \notin S0
      BY <2>2, <1>8
    <2>4. m - 1 \in Nat /\ ~(m <= m - 1)
      BY <2>3
    <2>5. d[m - 1] \in S0
      BY <2>2, <2>4
    <2>. QED
      BY <2>3, <2>5, <1>9
  <1>11. d[N] \in S0
    BY <1>10
  <1>. QED
    BY <1>7, <1>11 DEF S0

(* Code whose jumps all have a target, which two bytes can hold.           *)
Whole(code, l) == Laid(code, l) /\ l.open = {} /\ Len(code) < 65536

Spot(l, p) == [pos |-> p, depth |-> l.depth[p]]

(* Finished jumps go where the compiler meant them to go.                  *)
LEMMA WholeJump ==
  ASSUME NEW code, NEW l, Whole(code, l), NEW p, p \in DOMAIN l.at, l.at[p].op \in Jumps
  PROVE  /\ OperandAt(code, p, 1) = l.at[p].args[1]
         /\ OperandAt(code, p, 1) \in DOMAIN l.depth
         /\ l.depth[OperandAt(code, p, 1)] = l.depth[p] - Takes(l.at[p].op, l.at[p].args)
         /\ NoTarget(l) => OperandAt(code, p, 1) # l.size
  <1> DEFINE op == l.at[p].op
             args == l.at[p].args
  <1>1. Laid(code, l) /\ l.open = {} /\ Len(code) < 65536
    BY DEF Whole
  <1>2. p \in Nat /\ Written(code, l, p) /\ Flows(l, p)
    BY <1>1 DEF Laid
  <1>3. /\ args[1] \in DOMAIN l.depth
        /\ l.depth[args[1]] = l.depth[p] - Takes(op, args)
        /\ NoTarget(l) => args[1] # l.size
    BY <1>1, <1>2 DEF Flows, NoTarget
  <1>4. args[1] \in Nat /\ args[1] < 65536
    <2>1. args[1] \in Nat /\ args[1] <= l.size /\ l.size = Len(code) /\ l.size \in Nat
      BY <1>1, <1>3, LaidFacts
    <2>. HIDE DEF args
    <2>. QED
      BY ONLY <2>1, <1>1
  <1>5. op \in OpSet /\ ArgsOK(op, args) /\ Bytes(code, p, op, args) /\ Widths(op) = <<2>>
    <2>1. Widths(op) = <<2>>
      BY DEF Jumps, Widths
    <2>. QED
      BY <2>1, <1>2 DEF Written
  <1>. HIDE DEF op, args
  <1>6. OperandAt(code, p, 1) = args[1]
    BY ONLY <1>2, <1>4, <1>5, Read
  <1>. QED
    BY <1>3, <1>6 DEF op, args

(* Nothing but the last instruction comes to the end.                      *)
LEMMA NeverEnds ==
  ASSUME NEW code, NEW l, Laid(code, l), Sealed(l), NEW p, p \in DOMAIN l.at, Falls(l.at[p].op)
  PROVE  p + Size(l, p) # l.size /\ NoTarget(l) /\ 0 \in DOMAIN l.at
  <1>1. PICK q \in DOMAIN l.at : Final(l, q) /\ ~Falls(l.at[q].op)
    BY DEF Sealed
  <1>2. q + Size(l, q) = l.size /\ NoTarget(l) /\ p # q
    BY <1>1 DEF Final, IsLast
  <1>3. /\ p \in Nat /\ q \in Nat /\ p < l.size /\ q < l.size /\ l.size \in Nat
        /\ p \in DOMAIN l.depth /\ q \in DOMAIN l.depth
    BY LaidFacts
  <1>4. (q <= p \/ q >= p + Size(l, p)) /\ (p <= q \/ p >= q + Size(l, q))
    BY <1>3 DEF Laid, Written
  <1>5. p + Size(l, p) # l.size
    BY <1>2, <1>3, <1>4
  <1>6. 0 \in DOMAIN l.at
    BY <1>3 DEF Laid
  <1>. QED
    BY <1>2, <1>5, <1>6

LEMMA SealedBegins ==
  ASSUME NEW code, NEW l, Laid(code, l), Sealed(l)
  PROVE  0 \in DOMAIN l.at /\ NoTarget(l)
  <1>1. PICK q \in DOMAIN l.at : Final(l, q)
    BY DEF Sealed
  <1>2. q \in Nat /\ q < l.size /\ l.size \in Nat
    BY LaidFacts
  <1>. QED
    BY <1>1, <1>2 DEF Final, Laid

(* One step from a place with the depth the layout gives it goes to such a *)
(* place again.                                                            *)
LEMMA WholeAfter ==
  ASSUME NEW code, NEW l, Whole(code, l), NEW p, p \in DOMAIN l.at, NEW t, t \in After(code, Spot(l, p))
  PROVE  /\ t.pos \in DOMAIN l.depth /\ t = Spot(l, t.pos)
         /\ Sealed(l) => t.pos \in DOMAIN l.at
  <1> DEFINE op == l.at[p].op
             args == l.at[p].args
             d == l.depth[p] - Takes(op, args) + Leaves(op)
             next == p + Size(l, p)
  <1>1. Laid(code, l) /\ l.open = {} /\ Len(code) < 65536
    BY DEF Whole
  <1>2. OpAt(code, p) = op /\ p + InstructionLength(OpAt(code, p)) = next
    BY <1>1, LaidNames DEF Size
  <1>3. Taken(code, p) = Takes(op, args) /\ Left(code, p) = Leaves(op)
    BY <1>1, LaidTaken
  <1>4. PICK q : q \in Targets(code, p) /\ t = [pos |-> q, depth |-> d]
    <2>. HIDE DEF op, args
    <2>. QED
      BY <1>3 DEF After, Spot
  <1>5. t.pos = q
    BY <1>4
  <1>6. CASE op \in Jumps /\ q = OperandAt(code, p, 1)
    <2>1. /\ q \in DOMAIN l.depth /\ l.depth[q] = l.depth[p] - Takes(op, args)
          /\ NoTarget(l) => q # l.size
      BY <1>6, WholeJump
    <2>2. Leaves(op) = 0 /\ Takes(op, args) \in Nat
      <3>1. Takes(op, args) \in Nat
        BY <1>1, LaidFacts
      <3>. QED
        BY <3>1, <1>6 DEF Leaves, Jumps
    <2>3. l.depth[p] \in Nat
      BY <1>1, LaidFacts
    <2>4. d = l.depth[q]
      <3>. HIDE DEF op, args
      <3>. QED
        BY <2>1, <2>2, <2>3
    <2>5. Sealed(l) => q \in DOMAIN l.at
      BY <1>1, <2>1, SealedBegins DEF Laid
    <2>. QED
      BY <1>4, <1>5, <2>1, <2>4, <2>5 DEF Spot
  <1>7. CASE Falls(op) /\ q = next
    <2>1. next \in DOMAIN l.depth /\ l.depth[next] = d
      BY <1>1, <1>7 DEF Laid, Written, Flows
    <2>2. Sealed(l) => next \in DOMAIN l.at
      <3>1. Sealed(l) => next # l.size
        BY <1>1, <1>7, NeverEnds
      <3>. QED
        BY <1>1, <2>1, <3>1 DEF Laid
    <2>. QED
      BY <1>4, <1>5, <1>7, <2>1, <2>2 DEF Spot
  <1>8. (op \in Jumps /\ q = OperandAt(code, p, 1)) \/ (Falls(op) /\ q = next)
    <2>. HIDE DEF op, next
    <2>. QED
      BY <1>2, <1>4 DEF Targets, Falls, Jumps, Leavers
  <1>. QED
    BY <1>6, <1>7, <1>8

(* The places that can be reached are places of the layout, and are come   *)
(* to with the depth it gives them; code that is sealed does not end.      *)
LEMMA WholeReached ==
  ASSUME NEW code, NEW l, Whole(code, l), NEW s, s \in Reached(code)
  PROVE  /\ s.pos \in DOMAIN l.depth /\ s.depth = l.depth[s.pos]
         /\ Sealed(l) => s.pos \in DOMAIN l.at
  <1> DEFINE D == IF Sealed(l) THEN DOMAIN l.at ELSE DOMAIN l.depth
             W == {Spot(l, p) : p \in D}
  <1>1. Laid(code, l) /\ Len(code) \in Nat /\ Len(code) = l.size
    BY LaidFacts DEF Whole
  <1>2. D \subseteq DOMAIN l.depth
    BY <1>1 DEF Laid
  <1>3. Start \in W
    <2>1. 0 \in DOMAIN l.depth /\ l.depth[0] = 0
      BY <1>1 DEF Laid
    <2>2. 0 \in D
      BY <1>1, <2>1, SealedBegins
    <2>. HIDE DEF D
    <2>. QED
      BY <2>1, <2>2 DEF Start, Spot
  <1>4. ASSUME NEW x \in W
        PROVE  After(code, x) \subseteq W
    <2>1. PICK p \in D : x = Spot(l, p)
      OBVIOUS
    <2>2. CASE p \in DOMAIN l.at
      <3>1. ASSUME NEW t \in After(code, x)
            PROVE  t \in W
        <4>1. t.pos \in D /\ t = Spot(l, t.pos)
          BY <2>1, <2>2, <3>1, WholeAfter
        <4>. HIDE DEF D
        <4>. QED
          BY <4>1
      <3>. QED
        BY <3>1
    <2>3. CASE p \notin DOMAIN l.at
      <3>1. x.pos = l.size
        BY <1>1, <1>2, <2>1, <2>3 DEF Laid, Spot
      <3>2. After(code, x) = {}
        BY <3>1, <1>1 DEF After
      <3>. QED
        BY <3>2
    <2>. QED
      BY <2>2, <2>3
  <1>5. ClosedUnder(code, W)
    <2>. HIDE DEF W
    <2>. QED
      BY <1>3, <1>4 DEF ClosedUnder
  <1>6. s \in W
    <2>. HIDE DEF W
    <2>. QED
      BY <1>1, <1>5, ReachedIn
  <1>7. PICK p \in D : s = Spot(l, p)
    BY <1>6
  <1>. QED
    BY <1>2, <1>7 DEF Spot

----------------------------------------------------------------------------
(* What is compiled                                                        *)

(* No array of code is so long that the two bytes of a jump cannot hold    *)
(* every position in it.  (The compiler does not look.)                    *)
Short == \A c \in 1..Len(arrays) : Len(arrays[c]) < 65536

(* Every array of the program is laid out without an open jump, the        *)
(* program ends with an empty stack, and the bodies never end.             *)
Finished(lay) ==
  /\ \A c \in Codes : c \in 1..Len(arrays) /\ Laid(arrays[c], lay[c]) /\ lay[c].open = {}
  /\ lay[Main].kind = "main" /\ lay[Main].depth[lay[Main].size] = 0
  /\ \A i \in Bodies :
       LET l == lay[constants[i].ins]
       IN  Sealed(l) /\ l.kind = constants[i].kind /\ l.kind \in {"function", "loop"}

LEMMA FinishedLays ==
  ASSUME IInv, Compiled
  PROVE  \E lay : Finished(lay)
  <1>1. result = "OK" /\ todo = <<>> /\ Known
    BY DEF Compiled, IInv
  <1>2. PICK g, lay, hm : Ctx(g, lay, hm)
    BY <1>1 DEF Known
  <1>3. /\ Chain(todo, g, scopes, lay, hm)
        /\ NowOK(g[1], scopes[scope_index].last, ViewOf(scope_index, scopes, lay), todo, g,
                 scope_index, loops, is_void)
        /\ g[Len(g)] = St(1, 0, 0, FALSE, FALSE, 1)
        /\ OpenOK(todo, g, scopes, lay, scope_index)
        /\ LaysOK(arrays, lay) /\ ScopesOK(scope_index, scopes, arrays, lay)
        /\ PoolOK(constants, scope_index, scopes, lay)
    BY <1>2 DEF Ctx, Core
  <1>4. Len(g) = 1 /\ Len(todo) = 0
    BY <1>1, <1>3 DEF Chain
  <1>5. g[1] = St(1, 0, 0, FALSE, FALSE, 1)
    BY <1>3, <1>4
  <1>6. g[1].level = 1 /\ g[1].depth = 0
    BY <1>5 DEF St
  <1>7. scope_index = 1
    BY <1>3, <1>6 DEF NowOK
  <1>8. scopes[1].ins = 1 /\ lay[1].kind = "main" /\ 1 \in 1..Len(arrays)
    BY <1>3, <1>7 DEF ScopesOK
  <1>9. ViewOf(1, scopes, lay) = lay[1]
    BY <1>8 DEF ViewOf
  <1>10. lay[1].depth[lay[1].size] = 0
    BY <1>3, <1>6, <1>7, <1>9 DEF NowOK
  <1>11. lay[1].open = {}
    <2>1. 1..Len(todo) = {}
      BY <1>4
    <2>. QED
      BY <2>1, <1>3, <1>7, <1>9 DEF OpenOK
  <1>12. ASSUME NEW i \in Bodies
         PROVE  /\ constants[i].ins \in 1..Len(arrays)
                /\ Sealed(lay[constants[i].ins])
                /\ lay[constants[i].ins].kind = constants[i].kind
                /\ constants[i].kind \in {"function", "loop"}
    BY <1>3 DEF PoolOK, LaysOK, Bodies
  <1>13. ASSUME NEW c \in Codes
         PROVE  c \in 1..Len(arrays) /\ Laid(arrays[c], lay[c]) /\ lay[c].open = {}
    <2>1. CASE c = 1
      BY <2>1, <1>3, <1>8, <1>11 DEF LaysOK
    <2>2. CASE c # 1
      <3>1. PICK i \in Bodies : c = constants[i].ins
        BY <2>2 DEF Codes, Main
      <3>. QED
        BY <3>1, <1>3, <1>12 DEF LaysOK, Sealed
    <2>. QED
      BY <2>1, <2>2
  <1>14. Finished(lay)
    BY <1>8, <1>10, <1>12, <1>13 DEF Finished, Main
  <1>. QED
    BY <1>14

LEMMA FinishedWhole ==
  ASSUME NEW lay, Finished(lay), Short, NEW c \in Codes
  PROVE  Whole(arrays[c], lay[c])
  BY DEF Finished, Short, Whole

(* Every jump lands at an instruction of its own code or at its end.       *)
LEMMA JumpsHold ==
  ASSUME IInv, Short
  PROVE  JumpsLand
  <1>. SUFFICES ASSUME Compiled, NEW c \in Codes
                PROVE  /\ Len(arrays[c]) \in Starts(arrays[c])
                       /\ \A p \in PositionsOf(arrays[c], {"JMP", "JMP_IF_FALSE"}) :
                            OperandAt(arrays[c], p, 1) \in Starts(arrays[c])
    BY DEF JumpsLand
  <1>1. PICK lay : Finished(lay)
    BY FinishedLays
  <1> DEFINE code == arrays[c]
             l == lay[c]
  <1>2. Whole(code, l)
    BY <1>1, FinishedWhole
  <1>. HIDE DEF code, l
  <1>3. Laid(code, l)
    BY <1>2 DEF Whole
  <1>4. Starts(code) = DOMAIN l.depth
    BY <1>3, LaidStarts
  <1>5. Len(code) \in Starts(code)
    BY <1>3, <1>4 DEF Laid
  <1>6. ASSUME NEW p \in PositionsOf(code, {"JMP", "JMP_IF_FALSE"})
        PROVE  OperandAt(code, p, 1) \in Starts(code)
    <2>1. p \in DOMAIN l.at /\ l.at[p].op \in Jumps
      BY <1>3, LaidPositions DEF Jumps
    <2>. QED
      BY <2>1, <1>2, <1>4, WholeJump
  <1>. QED
    BY <1>5, <1>6 DEF code

(* The stack is balanced.                                                  *)
LEMMA BalanceHolds ==
  ASSUME IInv, Short
  PROVE  StackBalanced
  <1>. SUFFICES ASSUME Compiled, NEW c \in Codes
                PROVE  /\ \A s \in Reached(arrays[c]) :
                            s.pos < Len(arrays[c]) => s.depth >= Taken(arrays[c], s.pos)
                       /\ \A s, t \in Reached(arrays[c]) : s.pos = t.pos => s.depth = t.depth
                       /\ c = Main => \A s \in Reached(arrays[c]) :
                                        s.pos = Len(arrays[c]) => s.depth = 0
    BY DEF StackBalanced
  <1>1. PICK lay : Finished(lay)
    BY FinishedLays
  <1> DEFINE code == arrays[c]
             l == lay[c]
  <1>2. Whole(code, l)
    BY <1>1, FinishedWhole
  <1>3. c = Main => l.depth[l.size] = 0
    BY <1>1 DEF Finished
  <1>. HIDE DEF code, l
  <1>4. Laid(code, l)
    BY <1>2 DEF Whole
  <1>5. l.size = Len(code) /\ l.size \in Nat
    BY <1>4, LaidFacts
  <1>6. \A s \in Reached(code) : s.pos \in DOMAIN l.depth /\ s.depth = l.depth[s.pos]
    BY <1>2, WholeReached
  <1>7. ASSUME NEW s \in Reached(code), s.pos < Len(code)
        PROVE  s.depth >= Taken(code, s.pos)
    <2>1. s.pos \in DOMAIN l.at
      BY <1>4, <1>5, <1>6, <1>7 DEF Laid
    <2>2. Taken(code, s.pos) = Takes(l.at[s.pos].op, l.at[s.pos].args)
      BY <2>1, <1>4, LaidTaken
    <2>3. l.depth[s.pos] >= Takes(l.at[s.pos].op, l.at[s.pos].args)
      BY <2>1, <1>4 DEF Laid, Flows
    <2>. QED
      BY <2>2, <2>3, <1>6
  <1>8. \A s, t \in Reached(code) : s.pos = t.pos => s.depth = t.depth
    BY <1>6
  <1>9. c = Main => \A s \in Reached(code) : s.pos = Len(code) => s.depth = 0
    BY <1>3, <1>5, <1>6
  <1>. QED
    BY <1>7, <1>8, <1>9 DEF code

(* Frames are left the way they are entered.                               *)
LEMMA FramesHold ==
  ASSUME IInv, Short
  PROVE  FramesLeft
  <1>. SUFFICES ASSUME Compiled
                PROVE  /\ Leaving(arrays[Main]) = {}
                       /\ \A i \in Bodies :
                            LET code  == arrays[constants[i].ins]
                                reach == {s.pos : s \in Reached(code)}
                            IN  /\ Len(code) \notin reach
                                /\ \A p \in Leaving(code) \cap reach :
                                     OpAt(code, p) \in IF constants[i].kind = "loop"
                                                       THEN {"CONTINUE", "BREAK"}
                                                       ELSE {"RETURN", "RETURN_VALUE"}
    BY DEF FramesLeft
  <1>1. PICK lay : Finished(lay)
    BY FinishedLays
  <1>2. ASSUME NEW code, NEW l, Laid(code, l), NEW p \in Leaving(code)
        PROVE  MayLeave(l.kind, OpAt(code, p)) /\ OpAt(code, p) \in Leavers
    <2>1. p \in DOMAIN l.at /\ l.at[p].op \in Leavers
      BY <1>2, LaidPositions DEF Leaving, Leavers
    <2>2. MayLeave(l.kind, l.at[p].op)
      BY <2>1, <1>2 DEF Laid, Flows
    <2>. QED
      BY <2>1, <2>2, <1>2, LaidNames
  <1>3. Leaving(arrays[Main]) = {}
    <2>1. Laid(arrays[Main], lay[Main]) /\ lay[Main].kind = "main"
      BY <1>1 DEF Finished, Codes
    <2>2. \A p \in Leaving(arrays[Main]) :
            MayLeave("main", OpAt(arrays[Main], p)) /\ OpAt(arrays[Main], p) \in Leavers
      BY <2>1, <1>2
    <2>. QED
      BY <2>2 DEF MayLeave, Leavers
  <1>4. ASSUME NEW i \in Bodies, NEW code, code = arrays[constants[i].ins]
        PROVE  /\ \A s \in Reached(code) : s.pos # Len(code)
               /\ \A p \in Leaving(code) :
                    OpAt(code, p) \in IF constants[i].kind = "loop"
                                      THEN {"CONTINUE", "BREAK"}
                                      ELSE {"RETURN", "RETURN_VALUE"}
    <2> DEFINE l == lay[constants[i].ins]
    <2>1. constants[i].ins \in Codes
      BY DEF Codes
    <2>2. Whole(code, l)
      BY <2>1, <1>1, <1>4, FinishedWhole
    <2>3. Sealed(l) /\ l.kind = constants[i].kind /\ l.kind \in {"function", "loop"}
      BY <1>1 DEF Finished
    <2>. HIDE DEF l
    <2>4. Laid(code, l)
      BY <2>2 DEF Whole
    <2>5. ASSUME NEW s \in Reached(code)
          PROVE  s.pos # Len(code)
      <3>1. s.pos \in DOMAIN l.at
        BY <2>2, <2>3, WholeReached
      <3>. QED
        BY <3>1, <2>4, LaidFacts
    <2>6. ASSUME NEW p \in Leaving(code)
          PROVE  OpAt(code, p) \in IF constants[i].kind = "loop"
                                   THEN {"CONTINUE", "BREAK"}
                                   ELSE {"RETURN", "RETURN_VALUE"}
      <3>1. MayLeave(l.kind, OpAt(code, p)) /\ OpAt(code, p) \in Leavers
        BY <2>4, <1>2
      <3>. QED
        BY <3>1, <2>3 DEF MayLeave, Leavers
    <2>. QED
      BY <2>5, <2>6
  <1>. QED
    BY <1>3, <1>4

(***************************************************************************)
(* Every jump of compiled code lands at the start of an instruction of its *)
(* own code, or at its end.                                                *)
(***************************************************************************)
THEOREM JumpsAlwaysLand == Spec /\ Prepared => [](Short => JumpsLand)
  <1>1. IInv => (Short => JumpsLand)
    BY JumpsHold
  <1>. QED
    BY <1>1, CompilerInvariance, PTL

(***************************************************************************)
(* Compiled code finds on the stack what its instructions take, comes to   *)
(* each place with one depth only, and leaves the program's stack empty.   *)
(***************************************************************************)
THEOREM StackIsBalanced == Spec /\ Prepared => [](Short => StackBalanced)
  <1>1. IInv => (Short => StackBalanced)
    BY BalanceHolds
  <1>. QED
    BY <1>1, CompilerInvariance, PTL

(***************************************************************************)
(* A function is left by a return, a loop's body by a continue or a break, *)
(* the program by its end: whatever way execution goes.                    *)
(***************************************************************************)
THEOREM FramesAreLeft == Spec /\ Prepared => [](Short => FramesLeft)
  <1>1. IInv => (Short => FramesLeft)
    BY FramesHold
  <1>. QED
    BY <1>1, CompilerInvariance, PTL

----------------------------------------------------------------------------
(* Finished code                                                           *)

(* No code but that of the scopes that are open is written to, and no      *)
(* constant is.                                                            *)
OnlyOpen ==
  /\ \A i \in 1..Len(constants) : constants'[i] = constants[i]
  /\ \A c \in 1..Len(arrays) :
       (\A level \in 1..scope_index : scopes[level].ins # c) => arrays'[c] = arrays[c]

(* What most actions do to the code.                                       *)
WritesHere ==
  /\ constants' = constants \/ \E c : constants' = Append(constants, c)
  /\ arrays' = arrays \/ \E e : Write(e)

Shaped == IsSeq(arrays) /\ IsSeq(constants) /\ scope_index \in 1..Len(scopes)

LEMMA ReadyShaped ==
  ASSUME Ready
  PROVE  Shaped
  <1>1. PICK g, lay, hm : Ctx(g, lay, hm)
    BY DEF Ready, Known
  <1>. QED
    BY <1>1 DEF Ctx, Core, LaysOK, PoolOK, ScopesOK, Shaped

LEMMA AppendedKeeps ==
  ASSUME NEW s, IsSeq(s), NEW x
  PROVE  Len(s) \in Nat /\ \A i \in 1..Len(s) : Append(s, x)[i] = s[i]
  <1>1. PICK S : s \in Seq(S)
    BY DEF IsSeq
  <1> DEFINE T == S \cup {x}
  <1>2. s \in Seq(T) /\ x \in T
    BY <1>1
  <1>. HIDE DEF T
  <1>. QED
    BY <1>2, AppendProperties

LEMMA ConstantsStay ==
  ASSUME Shaped, constants' = constants \/ \E c : constants' = Append(constants, c)
  PROVE  \A i \in 1..Len(constants) : constants'[i] = constants[i]
  BY AppendedKeeps DEF Shaped

LEMMA ExceptOther ==
  ASSUME NEW f, NEW i, NEW a, NEW c, c # i
  PROVE  [f EXCEPT ![i] = a][c] = f[c]
  OBVIOUS

LEMMA SequenceOther ==
  ASSUME NEW s, IsSeq(s), NEW i, NEW a, NEW c \in 1..Len(s), c # i
  PROVE  [s EXCEPT ![i] = a][c] = s[c]
  <1>1. PICK S : s \in Seq(S)
    BY DEF IsSeq
  <1>2. DOMAIN s = 1..Len(s)
    BY <1>1
  <1>. QED
    BY <1>2

LEMMA WritesOnlyOpen ==
  ASSUME Shaped, WritesHere
  PROVE  OnlyOpen
  <1>1. \A i \in 1..Len(constants) : constants'[i] = constants[i]
    BY ConstantsStay DEF WritesHere
  <1>2. ASSUME NEW c \in 1..Len(arrays), \A level \in 1..scope_index : scopes[level].ins # c
        PROVE  arrays'[c] = arrays[c]
    <2>1. CASE arrays' = arrays
      BY <2>1
    <2>2. CASE \E e : Write(e)
      <3>1. PICK e : arrays' = [arrays EXCEPT ![scopes[scope_index].ins] = e.code]
        BY <2>2 DEF Write, ArraysWith
      <3>2. scopes[scope_index].ins # c /\ IsSeq(arrays)
        BY <1>2 DEF Shaped
      <3>. QED
        BY <3>1, <3>2, SequenceOther
    <2>. QED
      BY <2>1, <2>2 DEF WritesHere
  <1>. QED
    BY <1>1, <1>2 DEF OnlyOpen

LEMMA StatementWrites ==
  ASSUME Statement
  PROVE  WritesHere
  <1>1. CASE EndBlock
    BY <1>1 DEF EndBlock, WritesHere
  <1>2. CASE \E kind \in {"value", "void"} : ExpressionStatement(kind)
    BY <1>2 DEF ExpressionStatement, WritesHere
  <1>3. CASE EndExpressionStatement
    BY <1>3 DEF EndExpressionStatement, WritesHere
  <1>4. CASE \E name \in Names : LetStatement(name)
    BY <1>4 DEF LetStatement, WritesHere
  <1>5. CASE SaveSymbol
    BY <1>5 DEF SaveSymbol, WritesHere
  <1>6. CASE ReturnStatement
    BY <1>6 DEF ReturnStatement, WritesHere
  <1>7. CASE EmitInstruction
    BY <1>7 DEF EmitInstruction, WritesHere
  <1>8. CASE ContinueStatement
    BY <1>8 DEF ContinueStatement, Fail, WritesHere
  <1>9. CASE BreakStatement
    BY <1>9 DEF BreakStatement, Fail, WritesHere
  <1>. QED
    BY <1>1, <1>2, <1>3, <1>4, <1>5, <1>6, <1>7, <1>8, <1>9 DEF Statement

LEMMA ExpressionWrites ==
  ASSUME Known, Literal \/ CompoundExpression \/ Assignment \/ Branch
  PROVE  WritesHere
  <1>1. CASE BooleanLiteral
    BY <1>1 DEF BooleanLiteral, WritesHere
  <1>2. CASE ConstantLiteral
    BY <1>2 DEF ConstantLiteral, WritesHere
  <1>3. CASE \E name \in Names : Identifier(name)
    BY <1>3 DEF Identifier, Fail, WritesHere
  <1>4. CASE CompoundExpression
    <2>1. UNCHANGED <<arrays, constants>>
      BY <1>4 DEF CompoundExpression, Compound
    <2>. QED
      BY <2>1 DEF WritesHere
  <1>5. CASE \E name \in Names : Reassignment(name)
    BY <1>5 DEF Reassignment, Fail, WritesHere
  <1>6. CASE EndReassignment
    <2> DEFINE symbol == Head(todo).symbol
               Store(set, get) ==
                 Write(Emit(Emit(Current, set, <<symbol.index>>), get, <<symbol.index>>))
    <2>1. CASE symbol.scope \in {"FUNCTION", "BUILTIN"}
      BY <1>6, <2>1 DEF EndReassignment, Fail, WritesHere
    <2>2. CASE symbol.scope \notin {"FUNCTION", "BUILTIN"}
      <3>. HIDE DEF Store
      <3>2. PICK g, lay, hm : Ctx(g, lay, hm)
        BY DEF Known
      <3>3. Running("assign")
        BY <1>6 DEF EndReassignment
      <3>4. /\ todo[1].do = "assign" /\ Head(todo) = todo[1]
            /\ Joined(todo[1], g[1], g[2], scopes, lay, hm)
        BY <3>2, <3>3, Begin
      <3>5. symbol.scope \in {"GLOBAL", "LOCAL", "FREE"}
        BY <3>4 DEF Joined, AssignOK
      <3>1. /\ CASE symbol.scope = "GLOBAL" -> Store("SET_GLOBAL", "GET_GLOBAL")
                 [] symbol.scope = "LOCAL"  -> Store("SET_LOCAL", "GET_LOCAL")
                 [] symbol.scope = "FREE"   -> Store("SET_FREE", "GET_FREE")
            /\ UNCHANGED constants
        BY <1>6, <2>2 DEF EndReassignment, Store
      <3>. QED
        BY <3>1, <3>5 DEF Store, WritesHere
    <2>. QED
      BY <2>1, <2>2
  <1>7. CASE \E hasElse \in BOOLEAN : IfExpression(hasElse)
    BY <1>7 DEF IfExpression, WritesHere
  <1>8. CASE Consequence
    BY <1>8 DEF Consequence, WritesHere
  <1>9. CASE Alternative
    BY <1>9 DEF Alternative, WritesHere
  <1>10. CASE EndIf
    BY <1>10 DEF EndIf, WritesHere
  <1>11. CASE UnindexableTarget
    BY <1>11 DEF UnindexableTarget, Fail, WritesHere
  <1>. QED
    BY <1>1, <1>2, <1>3, <1>4, <1>5, <1>6, <1>7, <1>8, <1>9, <1>10, <1>11
       DEF Literal, Assignment, Branch

(* A scope that is entered gets an array of its own.                       *)
LEMMA EnterOnlyOpen ==
  ASSUME Shaped, UNCHANGED constants, NEW s, IsSeq(s), Len(s) = Len(arrays),
         \A c \in 1..Len(arrays) : c # scopes[scope_index].ins => s[c] = arrays[c],
         NEW x, arrays' = Append(s, x)
  PROVE  OnlyOpen
  <1>1. \A c \in 1..Len(arrays) : Append(s, x)[c] = s[c]
    BY AppendedKeeps
  <1>2. scope_index \in 1..scope_index
    BY DEF Shaped
  <1>. QED
    BY <1>1, <1>2 DEF OnlyOpen

(* A scope that is left: its code and that of the enclosing scope.         *)
LEMMA LeaveOnlyOpen ==
  ASSUME Shaped, scope_index >= 2, NEW kind, NEW parameters, NEW inner, NEW outer,
         Leave(kind, parameters, inner, outer)
  PROVE  OnlyOpen
  <1>1. \A i \in 1..Len(constants) : constants'[i] = constants[i]
    BY ConstantsStay DEF Leave
  <1>2. ASSUME NEW c \in 1..Len(arrays), \A level \in 1..scope_index : scopes[level].ins # c
        PROVE  arrays'[c] = arrays[c]
    <2> DEFINE i == scopes[scope_index].ins
               j == scopes[scope_index - 1].ins
    <2>1. arrays' = [arrays EXCEPT ![i] = inner.code, ![j] = outer.code]
      BY DEF Leave
    <2>2. i # c /\ j # c /\ IsSeq(arrays)
      <3>1. scope_index \in 1..scope_index /\ scope_index - 1 \in 1..scope_index
        BY DEF Shaped
      <3>. QED
        BY <3>1, <1>2 DEF Shaped
    <2>. HIDE DEF i, j
    <2>3. PICK S : arrays \in Seq(S)
      BY <2>2 DEF IsSeq
    <2>4. DOMAIN arrays = 1..Len(arrays)
      BY <2>3
    <2>. QED
      BY <2>1, <2>2, <2>4
  <1>. QED
    BY <1>1, <1>2 DEF OnlyOpen

LEMMA EndFunctionOnlyOpen ==
  ASSUME Shaped, scope_index >= 2, EndFunction \/ EndLoopBody
  PROVE  OnlyOpen
  <1>1. \E kind, parameters, inner, outer : Leave(kind, parameters, inner, outer)
    <2>1. CASE EndFunction
      BY <2>1 DEF EndFunction
    <2>2. CASE EndLoopBody
      BY <2>2 DEF EndLoopBody
    <2>. QED
      BY <2>1, <2>2
  <1>. QED
    BY <1>1, LeaveOnlyOpen

LEMMA LeavingInside ==
  ASSUME Known, Running("end_function") \/ Running("end_body")
  PROVE  scope_index >= 2
  <1>1. PICK g, lay, hm : Ctx(g, lay, hm)
    BY DEF Known
  <1>2. PICK step \in {"end_function", "end_body"} : Running(step)
    OBVIOUS
  <1>3. todo[1].do = step /\ Joined(todo[1], g[1], g[2], scopes, lay, hm)
    BY <1>1, <1>2, Begin
  <1>4. EndFunctionOK(g[1], g[2], scopes, lay) \/ EndBodyOK(todo[1], g[1], g[2], scopes, lay, hm)
    BY <1>3 DEF Joined
  <1>5. g[1].level >= 2
    BY <1>4 DEF EndFunctionOK, EndBodyOK
  <1>6. g[1].level = scope_index
    BY <1>1 DEF Ctx, Core, NowOK
  <1>. QED
    BY <1>5, <1>6

LEMMA ExceptIsSeq ==
  ASSUME NEW S, NEW s \in Seq(S), NEW i, NEW a, NEW t, t = [s EXCEPT ![i] = a]
  PROVE  IsSeq(t) /\ Len(t) = Len(s)
  <1> DEFINE T == S \cup {a}
             n == Len(s)
  <1>1. n \in Nat /\ DOMAIN s = 1..n /\ \A k \in 1..n : s[k] \in S
    OBVIOUS
  <1>2. DOMAIN t = 1..n /\ \A k \in 1..n : t[k] \in T
    BY <1>1
  <1>3. t = [k \in 1..n |-> t[k]]
    BY <1>2
  <1>. HIDE DEF T, n
  <1>4. t \in [1..n -> T]
    BY <1>2, <1>3
  <1>5. t \in Seq(T)
    BY <1>1, <1>4, SeqDef
  <1>6. Len(t) = n
    BY <1>1, <1>2, <1>5, LenProperties
  <1>. QED
    BY <1>5, <1>6 DEF IsSeq, n

(* All actions but the end of a loop.                                      *)
LEMMA StepOnlyOpen ==
  ASSUME Ready, Step, ~EndLoop
  PROVE  OnlyOpen
  <1>1. Shaped /\ Known
    BY ReadyShaped DEF Ready
  <1>2. CASE Statement
    BY <1>1, <1>2, StatementWrites, WritesOnlyOpen
  <1>3. CASE Literal \/ CompoundExpression \/ Assignment \/ Branch
    BY <1>1, <1>3, ExpressionWrites, WritesOnlyOpen
  <1>4. CASE \E name \in Names \cup {NULL}, parameters \in Parameters :
               FunctionLiteral(name, parameters)
    <2>1. UNCHANGED constants /\ arrays' = Append(arrays, <<>>)
      BY <1>4 DEF FunctionLiteral
    <2>. QED
      BY <1>1, <2>1, EnterOnlyOpen DEF Shaped
  <1>5. CASE EndFunction
    <2>1. Running("end_function")
      BY <1>5 DEF EndFunction
    <2>. QED
      BY <1>1, <1>5, <2>1, LeavingInside, EndFunctionOnlyOpen
  <1>6. CASE WhileLoop \/ \E name \in Names, hasUpdate \in BOOLEAN : ForLoop(name, hasUpdate)
    <2>1. UNCHANGED <<arrays, constants>>
      BY <1>6 DEF WhileLoop, ForLoop, Loop
    <2>. QED
      BY <1>1, <2>1, WritesOnlyOpen DEF WritesHere
  <1>7. CASE Condition
    <2>1. UNCHANGED <<arrays, constants>>
      BY <1>7 DEF Condition
    <2>. QED
      BY <1>1, <2>1, WritesOnlyOpen DEF WritesHere
  <1>8. CASE LoopBody
    <2> DEFINE e == Emit(Current, "JMP_IF_FALSE", <<JUMP_SENTINEL>>)
               s == ArraysWith(scope_index, e)
    <2>1. UNCHANGED constants /\ arrays' = Append(s, <<>>)
      BY <1>8 DEF LoopBody
    <2>2. PICK S : arrays \in Seq(S)
      BY <1>1 DEF Shaped, IsSeq
    <2>3. IsSeq(s) /\ Len(s) = Len(arrays)
      <3>1. s = [arrays EXCEPT ![scopes[scope_index].ins] = e.code]
        BY DEF ArraysWith
      <3> DEFINE code == e.code
                 at == scopes[scope_index].ins
      <3>. HIDE DEF e, s, code, at
      <3>2. s = [arrays EXCEPT ![at] = code]
        BY <3>1 DEF code, at
      <3>. QED
        BY ONLY <2>2, <3>2, ExceptIsSeq
    <2>4. \A c \in 1..Len(arrays) : c # scopes[scope_index].ins => s[c] = arrays[c]
      <3>1. s = [arrays EXCEPT ![scopes[scope_index].ins] = e.code]
        BY DEF ArraysWith
      <3>. HIDE DEF e, s
      <3>. QED
        BY <1>1, <3>1, SequenceOther DEF Shaped
    <2>. HIDE DEF s
    <2>. QED
      BY <1>1, <2>1, <2>3, <2>4, EnterOnlyOpen
  <1>9. CASE EndLoopBody
    <2>1. Running("end_body")
      BY <1>9 DEF EndLoopBody
    <2>. QED
      BY <1>1, <1>9, <2>1, LeavingInside, EndFunctionOnlyOpen
  <1>. QED
    BY <1>2, <1>3, <1>4, <1>5, <1>6, <1>7, <1>8, <1>9 DEF Step, Function, Looping

(* In code that is not open, only the targets of breaks may change.        *)
BreaksOnly ==
  /\ \A i \in 1..Len(constants) : constants'[i] = constants[i]
  /\ \A x \in 1..Len(arrays) :
       (\A level \in 1..scope_index : scopes[level].ins # x) =>
         \/ arrays'[x] = arrays[x]
         \/ \E l : Laid(arrays[x], l) /\ OnlyBreaks(arrays[x], arrays'[x], l)

LEMMA EndLoopBreaksOnly ==
  ASSUME Known, EndLoop
  PROVE  BreaksOnly
  <1>1. PICK g, lay, hm : Ctx(g, lay, hm)
    BY DEF Known
  <1> DEFINE n == scope_index
             it == Head(todo)
             l == ViewOf(scope_index, scopes, lay)
             d == g[1].depth
             c == scopes[it.slot].ins
             jumped == Emit(Current, "JMP", <<it.before>>)
             t == Len(jumped.code)
             e == Patched(jumped, it.jump, t)
             patch == PatchBreaks(arrays[c], it.breaks, t)
  <1>2. Running("end_loop")
    BY DEF EndLoop
  <1>3. Looping2(g, lay, hm, l, d, it, c)
    BY <1>1, <1>2, EndingLoop
  <1>4. patch.fault = {} =>
          arrays' = [[arrays EXCEPT ![scopes[n].ins] = e.code] EXCEPT ![c] = patch.code]
    BY DEF EndLoop, ArraysWith
  <1>. HIDE DEF n, it, l, d, c, t, e, patch, jumped
  <1>5. /\ Laid(Current.code, l) /\ Current.last \in Mark /\ l.depth[l.size] = d
        /\ PlaceAt(l, it.before, d)
        /\ c \in DOMAIN lay /\ (\A level \in 1..scope_index : scopes[level].ins # c)
        /\ BreaksAt(it.breaks, lay[c]) /\ Laid(arrays[c], lay[c])
        /\ scope_index \in 1..Len(scopes)
    BY <1>3 DEF Looping2
  <1>6. t \in Nat
    <2> DEFINE e2 == Emit(Current, "JMP", <<it.before>>)
    <2>1. e2 = Emit(Current, "JMP", <<it.before>>)
      OBVIOUS
    <2>2. t = Len(e2.code)
      BY DEF t, jumped
    <2>. HIDE DEF e2
    <2>3. \E l1 : Laid(e2.code, l1)
      BY <1>5, <2>1, JumpBack
    <2>. QED
      BY <2>2, <2>3, LaidFacts
  <1>7. patch.fault = {} /\ Redirected(arrays[c], lay[c], patch.code)
    BY <1>5, <1>6, PatchBreaksLaid DEF patch
  <1>8. UNCHANGED constants
    BY EndLoopStepOK
  <1>9. DOMAIN lay = 1..Len(arrays) /\ IsSeq(arrays)
    BY <1>1 DEF Ctx, Core, LaysOK
  <1>10. PICK S : arrays \in Seq(S)
    BY <1>9 DEF IsSeq
  <1>11. DOMAIN arrays = 1..Len(arrays)
    BY <1>10
  <1> DEFINE b == scopes[n].ins
  <1>12. \A x \in 1..Len(arrays) : x # b =>
           arrays'[x] = IF x = c THEN patch.code ELSE arrays[x]
    <2>1. arrays' = [[arrays EXCEPT ![b] = e.code] EXCEPT ![c] = patch.code]
      BY <1>4, <1>7
    <2>. HIDE DEF b
    <2>. QED
      BY <2>1, <1>11
  <1>13. ASSUME NEW x \in 1..Len(arrays), \A level \in 1..scope_index : scopes[level].ins # x
         PROVE  \/ arrays'[x] = arrays[x]
                \/ \E ll : Laid(arrays[x], ll) /\ OnlyBreaks(arrays[x], arrays'[x], ll)
    <2>1. x # b
      <3>1. scope_index \in 1..scope_index
        BY <1>5
      <3>. QED
        BY <3>1, <1>13 DEF n
    <2>2. CASE x # c
      BY <2>1, <2>2, <1>12
    <2>3. CASE x = c
      <3>1. arrays'[x] = patch.code
        BY <2>1, <2>3, <1>12
      <3>2. OnlyBreaks(arrays[x], arrays'[x], lay[x]) /\ Laid(arrays[x], lay[x])
        BY <3>1, <2>3, <1>5, <1>7 DEF Redirected
      <3>. QED
        BY <3>2
    <2>. QED
      BY <2>2, <2>3
  <1>. QED
    BY <1>8, <1>13 DEF BreaksOnly

LEMMA StepBreaksOnly ==
  ASSUME Ready, Step
  PROVE  BreaksOnly
  <1>1. CASE EndLoop
    BY <1>1, EndLoopBreaksOnly DEF Ready
  <1>2. CASE ~EndLoop
    BY <1>2, StepOnlyOpen DEF OnlyOpen, BreaksOnly
  <1>. QED
    BY <1>1, <1>2

FinishedStep ==
  \A i \in Bodies :
    LET c == constants[i].ins
        written == {p \in 1..Len(arrays[c]) : arrays'[c][p] # arrays[c][p]}
    IN  /\ constants'[i] = constants[i]
        /\ Len(arrays'[c]) = Len(arrays[c])
        /\ \A p \in written : \E b \in PositionsOf(arrays[c], {"BREAK"}) : p = b + 2

LEMMA FinishedStays ==
  ASSUME Ready, Step
  PROVE  FinishedStep
  <1>1. PICK g, lay, hm : Ctx(g, lay, hm)
    BY DEF Ready, Known
  <1>2. PoolOK(constants, scope_index, scopes, lay) /\ DOMAIN lay = 1..Len(arrays)
    BY <1>1 DEF Ctx, Core, LaysOK
  <1>3. ASSUME NEW i \in Bodies, NEW c, c = constants[i].ins
        PROVE  /\ constants'[i] = constants[i]
               /\ Len(arrays'[c]) = Len(arrays[c])
               /\ \A p \in 1..Len(arrays[c]) : arrays'[c][p] # arrays[c][p] =>
                    \E b \in PositionsOf(arrays[c], {"BREAK"}) : p = b + 2
    <2>1. /\ i \in 1..Len(constants) /\ c \in 1..Len(arrays)
          /\ \A level \in 1..scope_index : scopes[level].ins # c
      BY <1>2, <1>3 DEF PoolOK, Bodies
    <2>2. BreaksOnly
      BY StepBreaksOnly
    <2>3. CASE arrays'[c] = arrays[c]
      BY <2>1, <2>2, <2>3 DEF BreaksOnly
    <2>4. CASE \E l : Laid(arrays[c], l) /\ OnlyBreaks(arrays[c], arrays'[c], l)
      <3>1. PICK l : Laid(arrays[c], l) /\ OnlyBreaks(arrays[c], arrays'[c], l)
        BY <2>4
      <3>2. PositionsOf(arrays[c], {"BREAK"}) = {p \in DOMAIN l.at : l.at[p].op \in {"BREAK"}}
        BY <3>1, LaidPositions
      <3>. QED
        BY <2>1, <2>2, <3>1, <3>2 DEF BreaksOnly, OnlyBreaks
    <2>. QED
      BY <2>1, <2>2, <2>3, <2>4 DEF BreaksOnly
  <1>. QED
    BY <1>3 DEF FinishedStep

(***************************************************************************)
(* Code the constant pool points to is not written to any more, but for    *)
(* the targets of the breaks in it (patch_break_statements).               *)
(***************************************************************************)
THEOREM FinishedCodeStays == Spec /\ Prepared => FinishedCode
  <1>1. IInv /\ [Next]_vars => [FinishedStep]_vars
    <2>. SUFFICES ASSUME IInv, Next
                  PROVE  FinishedStep
      OBVIOUS
    <2>1. Step
      BY DEF Next
    <2>2. Ready
      BY <2>1, StepRuns DEF IInv, Ready
    <2>. QED
      BY <2>1, <2>2, FinishedStays
  <1>2. [FinishedStep]_vars => [Ordinary => FinishedStep]_vars
    OBVIOUS
  <1>. QED
    BY <1>1, <1>2, CompilerInvariance, PTL DEF Spec, FinishedCode, FinishedStep

=============================================================================
