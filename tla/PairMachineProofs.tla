-------------------------- MODULE PairMachineProofs --------------------------
(***************************************************************************)
(* Whatever the size of the memory and whatever the programs, the machine  *)
(* holds no reference to a cell that does not exist, its memory is a dag   *)
(* and no cell is ever written twice; and the definitions made before are    *)
(* kept by every other, as long as the memory has room for two cells.      *)
(***************************************************************************)
EXTENDS PairMachine, TLAPS, SequenceTheorems

OK(v, k)      == v \in Value /\ Below(v, k)
HeapOK(h)     == h \in Seq(Cell) /\ Len(h) <= MemSize /\ WellFounded(h)
RootsOK(s, k) == s \in Seq(Value) /\ \A i \in DOMAIN s : Below(s[i], k)
StackOK(s, k) == s \in Seq(Frame) /\ \A i \in DOMAIN s : Below(s[i].a, k) /\ Below(s[i].b, k)
Log           == Seq([expr : Value, env : Value, val : Value])
Modes         == {"idle", "eval", "list", "lookup", "return"}

\* TypeOK and Dag, which need each other: what car finds in a cell exists
\* because it is older than the cell.
IInv ==
  /\ HeapOK(heap)
  /\ RootsOK(roots, Len(heap)) /\ StackOK(stack, Len(heap))
  /\ OK(g_env, Len(heap)) /\ OK(x, Len(heap)) /\ OK(env, Len(heap))
  /\ mode \in Modes /\ done \in Log

LEMMA IInvIsTypeAndDag == IInv <=> TypeOK /\ Dag
BY DEF IInv, TypeOK, Dag, HeapOK, RootsOK, StackOK, OK, Log, Modes

-----------------------------------------------------------------------------
\* Values.

LEMMA Symbols ==
  /\ \A k \in Nat : OK(NIL, k) /\ OK(TRUTH, k)
  /\ {QUOTE, IF_, DEFINE_, CAR, CDR, CONS} \subseteq Value
BY DEF OK, Below, Value, NIL, TRUTH, QUOTE, IF_, DEFINE_, CAR, CDR, CONS, Sym

LEMMA ValueMono ==
  ASSUME NEW v, NEW k \in Nat, NEW m \in Nat, k <= m, OK(v, k)
  PROVE  OK(v, m)
BY DEF OK, Below, Value

LEMMA RootsMono ==
  ASSUME NEW s, NEW k \in Nat, NEW m \in Nat, k <= m, RootsOK(s, k)
  PROVE  RootsOK(s, m)
<1>1. \A i \in DOMAIN s : s[i] \in Value /\ Below(s[i], k)
  BY DEF RootsOK
<1>2. \A i \in DOMAIN s : Below(s[i], m)
  BY <1>1, ValueMono DEF OK
<1>3. QED  BY <1>2 DEF RootsOK

LEMMA StackMono ==
  ASSUME NEW s, NEW k \in Nat, NEW m \in Nat, k <= m, StackOK(s, k)
  PROVE  StackOK(s, m)
<1>0. \A i \in DOMAIN s : s[i] \in Frame
  BY DEF StackOK
<1>1. \A i \in DOMAIN s : s[i].a \in Value /\ s[i].b \in Value
  BY <1>0 DEF Frame
<1>2. \A i \in DOMAIN s : Below(s[i].a, m) /\ Below(s[i].b, m)
  BY <1>1, ValueMono DEF OK, StackOK
<1>3. QED  BY <1>2 DEF StackOK

\* What car and cdr return exists.
LEMMA CarCdr ==
  ASSUME HeapOK(heap), NEW v, OK(v, Len(heap))
  PROVE  OK(Car(v), Len(heap)) /\ OK(Cdr(v), Len(heap))
<1>0. Len(heap) \in Nat
  BY DEF HeapOK
<1>1. CASE v.tag = "ref"
  <2>1. v.n \in Nat /\ v.n + 1 \in 1 .. Len(heap)
    BY <1>0, <1>1 DEF OK, Below, Value
  <2>2. heap[v.n + 1] \in Cell
    BY <2>1 DEF HeapOK
  <2>3. Below(heap[v.n + 1].car, v.n) /\ Below(heap[v.n + 1].cdr, v.n)
    BY <2>1 DEF HeapOK, WellFounded
  <2>4. OK(heap[v.n + 1].car, v.n) /\ OK(heap[v.n + 1].cdr, v.n)
    BY <2>2, <2>3 DEF OK, Cell
  <2>5. OK(heap[v.n + 1].car, Len(heap)) /\ OK(heap[v.n + 1].cdr, Len(heap))
    BY <1>0, <2>1, <2>4, ValueMono
  <2>6. QED  BY <1>1, <2>5 DEF Car, Cdr
<1>2. CASE v.tag # "ref"
  BY <1>0, <1>2, Symbols DEF Car, Cdr
<1>3. QED  BY <1>1, <1>2

\* An allocation keeps the memory well founded and what it holds unchanged,
\* and the cell it returns, or the nil of a full memory, exists afterwards.
LEMMA Allocation ==
  ASSUME NEW h, HeapOK(h), NEW a, OK(a, Len(h)), NEW d, OK(d, Len(h))
  PROVE  /\ HeapOK(Extend(h, a, d))
         /\ Len(h) \in Nat /\ Len(Extend(h, a, d)) \in Nat
         /\ Len(h) <= Len(Extend(h, a, d))
         /\ \A i \in 1 .. Len(h) : Extend(h, a, d)[i] = h[i]
         /\ OK(Alloc(h), Len(Extend(h, a, d)))
<1>0. Len(h) \in Nat /\ MemSize \in Nat
  BY PairConstants DEF HeapOK
<1>1. CASE Len(h) < MemSize
  <2> DEFINE c == [car |-> a, cdr |-> d]
             e == Append(h, c)
  <2>1. c \in Cell
    BY DEF Cell, OK
  <2>2. /\ e \in Seq(Cell) /\ Len(e) = Len(h) + 1
        /\ \A i \in 1 .. Len(h) : e[i] = h[i]
        /\ e[Len(h) + 1] = c
    BY <2>1, AppendProperties DEF HeapOK
  <2>3. Extend(h, a, d) = e
    BY <1>1 DEF Extend
  <2>4. WellFounded(e)
    <3>1. \A i \in 1 .. Len(h) : Below(e[i].car, i - 1) /\ Below(e[i].cdr, i - 1)
      BY <2>2 DEF HeapOK, WellFounded
    <3>2. Below(c.car, Len(h)) /\ Below(c.cdr, Len(h))
      BY DEF OK
    <3>3. DOMAIN e = 1 .. Len(h) + 1
      BY <2>2
    <3> HIDE DEF c, e
    <3>4. \A i \in DOMAIN e : i \in 1 .. Len(h) \/ (i = Len(h) + 1 /\ i - 1 = Len(h))
      BY <1>0, <3>3
    <3>5. QED  BY <2>2, <3>1, <3>2, <3>4 DEF WellFounded
  <2>5. OK(Alloc(h), Len(h) + 1)
    BY <1>0, <1>1 DEF Alloc, OK, Below, Value, Ref
  <2> HIDE DEF e
  <2>6. QED  BY <1>0, <1>1, <2>2, <2>3, <2>4, <2>5 DEF HeapOK
<1>2. CASE ~(Len(h) < MemSize)
  BY <1>0, <1>2, Symbols DEF Extend, Alloc
<1>3. QED  BY <1>1, <1>2

-----------------------------------------------------------------------------
\* The stack.

LEMMA Push ==
  ASSUME NEW s, NEW k \in Nat, StackOK(s, k), NEW a, OK(a, k), NEW b, OK(b, k),
         NEW kind \in {"if", "define", "fn", "apply", "first", "rest"}
  PROVE  StackOK(<<Call(kind, a, b)>> \o s, k)
<1> DEFINE f == Call(kind, a, b)
<1>1. f \in Frame /\ f.a = a /\ f.b = b
  BY DEF Call, Frame, OK
<1> HIDE DEF f
<1>2. s \in Seq(Frame) /\ <<f>> \in Seq(Frame) /\ Len(<<f>>) = 1 /\ <<f>>[1] = f
  BY <1>1 DEF StackOK
<1>3. /\ <<f>> \o s \in Seq(Frame)
      /\ \A i \in DOMAIN (<<f>> \o s) :
           (<<f>> \o s)[i] = f \/ \E j \in DOMAIN s : (<<f>> \o s)[i] = s[j]
  BY <1>2
<1>4. QED  BY <1>1, <1>3 DEF StackOK, OK, f

LEMMA Pop ==
  ASSUME NEW s, NEW k \in Nat, StackOK(s, k), s # << >>
  PROVE  /\ StackOK(Tail(s), k)
         /\ Head(s) \in Frame /\ OK(Head(s).a, k) /\ OK(Head(s).b, k)
<1>1. /\ s \in Seq(Frame) /\ Head(s) \in Frame /\ Head(s) = s[1] /\ 1 \in DOMAIN s
      /\ Tail(s) \in Seq(Frame)
      /\ \A i \in DOMAIN Tail(s) : \E j \in DOMAIN s : Tail(s)[i] = s[j]
  BY DEF StackOK
<1>2. Head(s).a \in Value /\ Head(s).b \in Value
  BY <1>1 DEF Frame
<1>3. QED  BY <1>1, <1>2 DEF StackOK, OK

-----------------------------------------------------------------------------
\* Steps.

LEMMA TypeInit == Init => IInv
<1> SUFFICES ASSUME Init PROVE IInv
  OBVIOUS
<1>1. PICK im \in Images : heap = im.cells /\ roots = im.roots
  BY DEF Init
<1>2. HeapOK(heap) /\ RootsOK(roots, Len(heap)) /\ Len(heap) \in Nat
  BY <1>1, PairConstants DEF HeapOK, RootsOK
<1>3. StackOK(<< >>, Len(heap)) /\ << >> \in Log
  BY DEF StackOK, Log
<1>4. QED  BY <1>2, <1>3, Symbols DEF Init, IInv, Modes

\* A step that leaves the memory and the environment as they are.
LEMMA Quiet ==
  ASSUME IInv, UNCHANGED <<heap, g_env>>, RootsOK(roots', Len(heap)),
         StackOK(stack', Len(heap)), OK(x', Len(heap)), OK(env', Len(heap)),
         mode' \in Modes, done' \in Log
  PROVE  IInv'
<1>1. heap' = heap /\ Len(heap)' = Len(heap)
  OBVIOUS
<1>2. HeapOK(heap)' /\ OK(g_env, Len(heap))'
  BY <1>1 DEF IInv, HeapOK, OK, WellFounded, Below
<1>3. /\ RootsOK(roots, Len(heap))' /\ StackOK(stack, Len(heap))'
      /\ OK(x, Len(heap))' /\ OK(env, Len(heap))'
  BY <1>1 DEF RootsOK, StackOK, OK, Below
<1>4. QED  BY <1>2, <1>3 DEF IInv, Modes, Log

\* A step that may allocate, and pops the stack.
LEMMA Grows ==
  ASSUME IInv, HeapOK(heap'), Len(heap) <= Len(heap'), OK(g_env', Len(heap')),
         OK(x', Len(heap')), stack # << >>, stack' = Tail(stack),
         UNCHANGED <<roots, mode, env, done>>
  PROVE  IInv'
<1>1. Len(heap) \in Nat /\ Len(heap') \in Nat
  BY DEF IInv, HeapOK
<1>2. StackOK(stack', Len(heap)) 
  BY <1>1, Pop DEF IInv
<1>3. RootsOK(roots', Len(heap')) /\ StackOK(stack', Len(heap')) /\ OK(env', Len(heap'))
  BY <1>1, <1>2, RootsMono, StackMono, ValueMono DEF IInv
<1>4. QED  BY <1>3 DEF IInv, HeapOK, RootsOK, StackOK, OK, WellFounded, Below, Modes, Log

LEMMA TypeStep == IInv /\ [Next]_vars => IInv'
<1> SUFFICES ASSUME IInv, [Next]_vars PROVE IInv'
  OBVIOUS
<1> DEFINE n == Len(heap)
<1>0. /\ HeapOK(heap) /\ n \in Nat /\ RootsOK(roots, n) /\ StackOK(stack, n)
      /\ OK(g_env, n) /\ OK(x, n) /\ OK(env, n) /\ mode \in Modes /\ done \in Log
  BY DEF IInv, HeapOK
<1>1. /\ OK(Car(x), n) /\ OK(Cdr(x), n) /\ OK(Car(Cdr(x)), n) /\ OK(Cdr(Cdr(x)), n)
      /\ OK(Car(Cdr(Cdr(x))), n) /\ OK(Car(Car(x)), n) /\ OK(Cdr(Car(x)), n)
  BY <1>0, CarCdr
<1>2. {"idle", "eval", "list", "lookup", "return"} \subseteq Modes
  BY DEF Modes
<1>3. OK(NIL, n)
  BY <1>0, Symbols
<1>4. ASSUME stack # << >>
      PROVE  /\ StackOK(Tail(stack), n) /\ OK(Head(stack).a, n) /\ OK(Head(stack).b, n)
             /\ OK(Car(Cdr(Head(stack).a)), n) /\ OK(Cdr(Head(stack).a), n)
             /\ OK(Car(Cdr(Cdr(Head(stack).a))), n)
  BY <1>0, <1>4, Pop, CarCdr
<1> HIDE DEF n
<1>5. CASE Start
  <2>1. Head(roots) \in Value /\ Below(Head(roots), n) /\ RootsOK(Tail(roots), n)
    <3>1. /\ roots \in Seq(Value) /\ roots # << >> /\ Head(roots) = roots[1]
          /\ 1 \in DOMAIN roots /\ Tail(roots) \in Seq(Value)
          /\ \A i \in DOMAIN Tail(roots) : \E j \in DOMAIN roots : Tail(roots)[i] = roots[j]
      BY <1>0, <1>5 DEF Start, RootsOK
    <3>2. QED  BY <1>0, <3>1 DEF RootsOK
  <2>2. done' \in Log
    <3>1. [expr |-> x', env |-> g_env, val |-> NIL] \in [expr : Value, env : Value, val : Value]
      BY <1>0, <1>3, <1>5, <2>1 DEF Start, OK
    <3>2. QED  BY <1>0, <1>5, <3>1 DEF Start, Log
  <2>3. QED  BY <1>0, <1>2, <1>5, <2>1, <2>2, Quiet DEF Start, OK, n
<1>6. CASE Finish
  <2>1. [done EXCEPT ![Len(done)].val = x] \in Log
    <3> DEFINE R == [expr : Value, env : Value, val : Value]
               e == [done EXCEPT ![Len(done)].val = x]
    <3>1. x \in Value /\ done \in Seq(R)
      BY <1>0 DEF OK, Log
    <3>2. ASSUME NEW r \in R  PROVE  [r EXCEPT !.val = x] \in R
      BY <3>1
    <3>3. Len(done) \in Nat /\ DOMAIN e = 1 .. Len(done)
      BY <3>1
    <3>4. ASSUME NEW i \in 1 .. Len(done)  PROVE  e[i] \in R
      <4>1. done[i] \in R
        BY <3>1, ElementOfSeq
      <4>2. e[i] = done[i] \/ e[i] = [done[i] EXCEPT !.val = x]
        <5>1. CASE i = Len(done)
          <6>1. e[Len(done)] = [done[Len(done)] EXCEPT !.val = x]
            BY <3>3, <5>1
          <6>2. QED  BY <5>1, <6>1
        <5>2. CASE i # Len(done)
          BY <3>1, <5>2
        <5>3. QED  BY <5>1, <5>2
      <4>3. QED  BY <3>2, <4>1, <4>2
    <3> HIDE DEF R
    <3>5. e \in [1 .. Len(done) -> R]
      <4>1. e = [i \in DOMAIN e |-> e[i]]
        OBVIOUS
      <4> HIDE DEF e
      <4>2. QED  BY <3>3, <3>4, <4>1
    <3> HIDE DEF e
    <3>6. e \in Seq(R)
      BY <3>3, <3>5
    <3>7. QED  BY <3>6 DEF Log, R, e
  <2>2. QED  BY <1>0, <1>2, <1>6, <2>1, Quiet DEF Finish, n
<1>7. CASE EvalAtom
  BY <1>0, <1>2, <1>3, <1>7, Quiet DEF EvalAtom, Return, n
<1>8. CASE EvalSymbol
  BY <1>0, <1>2, <1>8, Quiet DEF EvalSymbol, n
<1>9. CASE Lookup
  <2>1. OK(Cdr(env), n) /\ OK(Cdr(Car(env)), n)
    BY <1>0, CarCdr DEF n
  <2>2. OK(x', n) /\ OK(env', n) /\ mode' \in Modes
    BY <1>0, <1>2, <1>9, <2>1 DEF Lookup, Return
  <2>3. QED  BY <1>0, <1>9, <2>2, Quiet DEF Lookup, n
<1>10. CASE EvalQuote
  BY <1>0, <1>1, <1>2, <1>10, Quiet DEF EvalQuote, Return, n
<1>11. CASE EvalIf
  <2>1. StackOK(stack', n)
    BY <1>0, <1>1, <1>11, Push DEF EvalIf
  <2>2. QED  BY <1>0, <1>1, <1>11, <2>1, Quiet DEF EvalIf, n
<1>12. CASE EvalDefine
  <2>1. StackOK(stack', n)
    BY <1>0, <1>1, <1>12, Push DEF EvalDefine
  <2>2. QED  BY <1>0, <1>1, <1>12, <2>1, Quiet DEF EvalDefine, n
<1>13. CASE EvalCall
  <2>1. StackOK(stack', n)
    BY <1>0, <1>1, <1>13, Push DEF EvalCall
  <2>2. QED  BY <1>0, <1>1, <1>13, <2>1, Quiet DEF EvalCall, n
<1>14. CASE EvalList
  <2>1. StackOK(stack', n)
    BY <1>0, <1>14, Push DEF EvalList
  <2>2. OK(x', n) /\ mode' \in Modes
    BY <1>1, <1>2, <1>3, <1>14 DEF EvalList, Return
  <2>3. QED  BY <1>0, <1>14, <2>1, <2>2, Quiet DEF EvalList, n
<1>15. CASE ThenIf
  <2>1. stack # << >>
    BY <1>15 DEF ThenIf, Resume
  <2>2. StackOK(stack', n) /\ OK(x', n) /\ OK(env', n)
    BY <1>4, <1>15, <2>1 DEF ThenIf
  <2>3. QED  BY <1>0, <1>2, <1>15, <2>2, Quiet DEF ThenIf, n
<1>16. CASE ThenArguments
  <2>1. stack # << >>
    BY <1>16 DEF ThenArguments, Resume
  <2>2. StackOK(stack', n) /\ OK(x', n) /\ OK(env', n)
    BY <1>0, <1>3, <1>4, <1>16, <2>1, Push DEF ThenArguments
  <2>3. QED  BY <1>0, <1>2, <1>16, <2>2, Quiet DEF ThenArguments, n
<1>17. CASE ThenRest
  <2>1. stack # << >>
    BY <1>17 DEF ThenRest, Resume
  <2>2. StackOK(stack', n) /\ OK(x', n) /\ OK(env', n)
    BY <1>0, <1>3, <1>4, <1>17, <2>1, Push DEF ThenRest
  <2>3. QED  BY <1>0, <1>2, <1>17, <2>2, Quiet DEF ThenRest, n
<1>18. CASE ThenCons
  <2>1. stack # << >>
    BY <1>18 DEF ThenCons, Resume
  <2>2. HeapOK(heap') /\ n <= Len(heap') /\ OK(x', Len(heap')) /\ Len(heap') \in Nat
    BY <1>0, <1>4, <1>18, <2>1, Allocation DEF ThenCons, n
  <2>3. OK(g_env', Len(heap'))
    BY <1>0, <1>18, <2>2, ValueMono DEF ThenCons
  <2>4. QED  BY <1>18, <2>1, <2>2, <2>3, Grows DEF ThenCons, n
<1>19. CASE ThenDefine
  <2> DEFINE var == Head(stack).a
             one == Extend(heap, var, x)
  <2>1. stack # << >>
    BY <1>19 DEF ThenDefine, Resume
  <2>2. HeapOK(one) /\ Len(one) \in Nat /\ n <= Len(one) /\ OK(Alloc(heap), Len(one))
    BY <1>0, <1>4, <2>1, Allocation DEF n
  <2>3. OK(g_env, Len(one))
    BY <1>0, <2>2, ValueMono
  <2> HIDE DEF one
  <2>4. /\ HeapOK(heap') /\ Len(heap') \in Nat /\ Len(one) <= Len(heap')
        /\ OK(Alloc(one), Len(heap'))
    BY <1>19, <2>2, <2>3, Allocation DEF ThenDefine, one
  <2>5. OK(var, Len(heap')) /\ n <= Len(heap')
    BY <1>0, <1>4, <2>1, <2>2, <2>4, ValueMono
  <2>6. QED  BY <1>19, <2>1, <2>4, <2>5, Grows DEF ThenDefine, n, one
<1>20. CASE ThenApply
  <2>1. stack # << >>
    BY <1>20 DEF ThenApply, Resume
  <2>2. HeapOK(heap') /\ n <= Len(heap') /\ OK(x', Len(heap')) /\ Len(heap') \in Nat
    <3>1. CASE Head(stack).a # CONS
      BY <1>0, <1>1, <1>3, <1>20, <3>1 DEF ThenApply, n
    <3>2. CASE Head(stack).a = CONS
      <4>1. heap' = Extend(heap, Car(x), Car(Cdr(x))) /\ x' = Alloc(heap)
        BY <1>20, <3>2 DEF ThenApply, CAR, CDR, CONS, Sym
      <4>2. QED  BY <1>0, <1>1, <4>1, Allocation DEF n
    <3>3. QED  BY <3>1, <3>2
  <2>3. OK(g_env', Len(heap'))
    BY <1>0, <1>20, <2>2, ValueMono DEF ThenApply
  <2>4. QED  BY <1>20, <2>1, <2>2, <2>3, Grows DEF ThenApply, n
<1>21. CASE UNCHANGED vars
  BY <1>0, <1>21, Quiet DEF vars, n
<1>22. QED
  BY <1>5, <1>6, <1>7, <1>8, <1>9, <1>10, <1>11, <1>12, <1>13, <1>14, <1>15, <1>16,
     <1>17, <1>18, <1>19, <1>20, <1>21 DEF Next


LEMMA IInvHolds == Spec => []IInv
<1>1. QED  BY TypeInit, TypeStep, PTL DEF Spec

\* Every value that eval, eval_list and the environments of pair-machine.c
\* hold refers to a cell that alloc_cell has handed out, full memory or not.
THEOREM TypeCorrect == Spec => []TypeOK
<1>1. QED  BY IInvHolds, IInvIsTypeAndDag, PTL

\* car and cdr walk down a memory without cycles: the loops of env_lookup and
\* eval_list, and the recursion of eval, are over finite structures.
THEOREM MemoryIsADag == Spec => []Dag
<1>1. QED  BY IInvHolds, IInvIsTypeAndDag, PTL

-----------------------------------------------------------------------------
\* What a cell holds.

LEMMA Prefix ==
  ASSUME NEW h \in Seq(Cell), NEW g \in Seq(Cell), Len(h) <= Len(g),
         \A i \in 1 .. Len(h) : g[i] = h[i]
  PROVE  SubSeq(g, 1, Len(h)) = h
<1>1. Len(h) \in Nat /\ Len(g) \in Nat
  OBVIOUS
<1>2. /\ SubSeq(g, 1, Len(h)) \in Seq(Cell)
      /\ Len(SubSeq(g, 1, Len(h))) = Len(h)
      /\ \A i \in 1 .. Len(h) : SubSeq(g, 1, Len(h))[i] = g[i]
  BY <1>1
<1>3. QED  BY <1>2, SeqEqual

\* A memory that later steps only add to.
Extends(g, h) == /\ g \in Seq(Cell) /\ Len(h) <= Len(g)
                 /\ \A i \in 1 .. Len(h) : g[i] = h[i]

LEMMA ConstantStep ==
  IInv /\ [Next]_vars => [Len(heap) <= Len(heap') /\ SubSeq(heap', 1, Len(heap)) = heap]_vars
<1> SUFFICES ASSUME IInv, [Next]_vars
             PROVE  Len(heap) <= Len(heap') /\ SubSeq(heap', 1, Len(heap)) = heap
  OBVIOUS
<1>0. /\ HeapOK(heap) /\ heap \in Seq(Cell) /\ Len(heap) \in Nat
      /\ StackOK(stack, Len(heap)) /\ OK(g_env, Len(heap)) /\ OK(x, Len(heap))
  BY DEF IInv, HeapOK
<1>1. ASSUME NEW a, OK(a, Len(heap)), NEW d, OK(d, Len(heap))
      PROVE  Extends(Extend(heap, a, d), heap)
  BY <1>0, <1>1, Allocation DEF Extends, HeapOK
<1>2. ASSUME stack # << >>  PROVE  OK(Head(stack).a, Len(heap))
  BY <1>0, <1>2, Pop
<1>3. Extends(heap', heap)
  <2>1. CASE heap' = heap
    BY <1>0, <2>1 DEF Extends
  <2>2. CASE ThenCons
    BY <1>0, <1>1, <1>2, <2>2 DEF ThenCons, Resume
  <2>3. CASE ThenDefine
    <3> DEFINE var == Head(stack).a
               one == Extend(heap, var, x)
    <3>1. OK(var, Len(heap))
      BY <1>2, <2>3 DEF ThenDefine, Resume
    <3>2. /\ HeapOK(one) /\ Extends(one, heap) /\ OK(Alloc(heap), Len(one))
          /\ OK(g_env, Len(one)) /\ Len(one) \in Nat
      BY <1>0, <1>1, <3>1, Allocation, ValueMono
    <3> HIDE DEF one
    <3>3. HeapOK(heap') /\ Extends(heap', one)
      BY <2>3, <3>2, Allocation DEF ThenDefine, Extends, HeapOK, one
    <3>4. QED  BY <1>0, <3>2, <3>3 DEF Extends, HeapOK
  <2>4. CASE ThenApply
    <3>1. OK(Car(x), Len(heap)) /\ OK(Car(Cdr(x)), Len(heap))
      BY <1>0, CarCdr
    <3>2. heap' = heap \/ heap' = Extend(heap, Car(x), Car(Cdr(x)))
      BY <2>4 DEF ThenApply
    <3>3. QED  BY <1>1, <2>1, <3>1, <3>2
  <2>5. ~ThenCons /\ ~ThenDefine /\ ~ThenApply => heap' = heap
    BY DEF Next, vars, Start, Finish, EvalAtom, EvalSymbol, Lookup, EvalList, EvalQuote,
           EvalIf, EvalDefine, EvalCall, ThenIf, ThenArguments, ThenRest
  <2>6. QED  BY <2>1, <2>2, <2>3, <2>4, <2>5
<1>4. QED  BY <1>0, <1>3, Prefix DEF Extends

\* No step of pair-machine.c writes to a cell that has been handed out.
THEOREM CellsNeverChange == Spec => CellsAreConstant
<1>1. QED  BY IInvHolds, ConstantStep, PTL DEF Spec, CellsAreConstant

-----------------------------------------------------------------------------
\* The global environment.

LEMMA EnvStep ==
  IInv /\ [Next]_vars => [Room /\ g_env' # g_env => Cdr(g_env)' = g_env]_vars
<1> SUFFICES ASSUME IInv, Room, [Next]_vars, g_env' # g_env
             PROVE  Cdr(g_env)' = g_env
  OBVIOUS
<1>0. /\ HeapOK(heap) /\ heap \in Seq(Cell) /\ Len(heap) \in Nat /\ MemSize \in Nat
      /\ StackOK(stack, Len(heap)) /\ OK(x, Len(heap)) /\ OK(g_env, Len(heap))
  BY PairConstants DEF IInv, HeapOK
<1>1. ThenDefine
  BY DEF Next, vars, Start, Finish, EvalAtom, EvalSymbol, Lookup, EvalList, EvalQuote,
         EvalIf, EvalDefine, EvalCall, ThenIf, ThenArguments, ThenRest, ThenCons, ThenApply
<1> DEFINE var == Head(stack).a
           c1  == [car |-> var, cdr |-> x]
           one == Append(heap, c1)
           c2  == [car |-> Ref(Len(heap)), cdr |-> g_env]
<1>2. c1 \in Cell
  BY <1>0, <1>1, Pop DEF ThenDefine, Resume, Cell, OK
<1>3. one = Extend(heap, var, x) /\ Alloc(heap) = Ref(Len(heap))
  BY <1>0 DEF Extend, Alloc, Room
<1> HIDE DEF c1
<1>4. one \in Seq(Cell) /\ Len(one) = Len(heap) + 1
  BY <1>0, <1>2
<1> HIDE DEF one
<1>5. heap' = Append(one, c2) /\ g_env' = Ref(Len(one))
  BY <1>0, <1>1, <1>3, <1>4 DEF ThenDefine, Extend, Alloc, Room
<1>6. c2 \in Cell
  BY <1>0 DEF Cell, OK, Value, Ref
<1>7. heap'[Len(one) + 1] = c2
  BY <1>4, <1>5, <1>6, AppendProperties
<1>8. g_env'.tag = "ref" /\ g_env'.n = Len(one)
  BY <1>5 DEF Ref
<1>9. QED  BY <1>7, <1>8 DEF Cdr

\* While the memory has room for the two cells of env_extend, no definition
\* takes another away (without that room, all of them are lost).
THEOREM DefinitionsAreKept == Spec => EnvGrows
<1>1. QED  BY IInvHolds, EnvStep, PTL DEF Spec, EnvGrows

-----------------------------------------------------------------------------
(***************************************************************************)
(* What eval returns is what the expression means.  The argument is about  *)
(* the calls that wait: w lists, for the call under way and for each frame *)
(* of the stack, what it is to return and the definitions made by then.    *)
(***************************************************************************)

\* The alist t holds the definitions rho, the last in front.
IsAlist(t, rho) ==
  \E A : /\ A[0] = NIL /\ A[Len(rho)] = t
         /\ \A i \in 1 .. Len(rho) : A[i] = Pair(Pair(rho[i][1], rho[i][2]), A[i - 1])

\* What m returns, to one that has made the definitions s before.
After(s, m) == [v |-> m.v, defs |-> s \o m.defs]

Results(U) == [v : U, defs : Seq(U \X U)]

\* The frame f, to which r is returned, returns q.
FrameMeans(T, M, Ms, D, rho, f, r, q) ==
  LET a == Tree(D, f.a) IN
  /\ f.kind \in {"if", "fn", "first"} => a \in T /\ IsAlist(Tree(D, f.b), rho)
  /\ f.kind = "if"     => q = After(r.defs, M[<<IF r.v = NIL THEN Third(a) ELSE Second(a), rho>>])
  /\ f.kind = "define" => q = [v |-> a, defs |-> Append(r.defs, <<a, r.v>>)]
  /\ f.kind = "fn"     => q = [v    |-> Primitive(r.v, Ms[<<a, rho>>].v),
                               defs |-> r.defs \o Ms[<<a, rho>>].defs]
  /\ f.kind = "apply"  => q = [v |-> Primitive(a, r.v), defs |-> r.defs]
  /\ f.kind = "first"  => q = [v    |-> Pair(r.v, Ms[<<Rest1(a), rho>>].v),
                               defs |-> r.defs \o Ms[<<Rest1(a), rho>>].defs]
  /\ f.kind = "rest"   => q = [v |-> Pair(a, r.v), defs |-> r.defs]

\* The calls in st wait, the outermost to return top.
Waits(T, U, M, Ms, D, rho, top, st, w) ==
  /\ w \in Seq(Results(U)) /\ Len(w) = Len(st) + 1 /\ w[Len(w)] = top
  /\ \A i \in DOMAIN st : FrameMeans(T, M, Ms, D, rho, st[i], w[i], w[i + 1])

\* The call under way returns r; s are the definitions made so far.
NowMeans(T, M, Ms, D, rho, s, r) ==
  /\ mode \in {"eval", "list"} => Tree(D, x) \in T /\ IsAlist(Tree(D, env), rho)
  /\ mode = "eval"   => r = After(s, M[<<Tree(D, x), rho>>])
  /\ mode = "list"   => r = After(s, Ms[<<Tree(D, x), rho>>])
  /\ mode = "lookup" => /\ x.tag = "sym" /\ r = [v |-> Binding(rho, x), defs |-> s]
                        /\ \E j \in 0 .. Len(rho) :
                             /\ IsAlist(Tree(D, env), SubSeq(rho, 1, j))
                             /\ \A i \in j + 1 .. Len(rho) : rho[i][1] # x
  /\ mode = "return" => r = [v |-> Tree(D, x), defs |-> s]

Running(T, U, M, Ms, D, rho, top, s, w) ==
  /\ s \in Seq(U \X U)
  /\ Waits(T, U, M, Ms, D, rho, top, stack, w)
  /\ IsAlist(Tree(D, g_env), rho \o s)
  /\ NowMeans(T, M, Ms, D, rho, s, w[1])

\* The first n expressions have evaluated to their meanings.
Evaluated(n, M, D, P) ==
  \A k \in 1 .. n : Tree(D, done[k].val) = M[<<Tree(D, done[k].expr), P[k]>>].v

\* n evaluations have begun; while one runs, it runs in the environment rho and
\* is to return top.
Evaluating(n, T, U, M, Ms, D, P) ==
  /\ n = Len(done)
  /\ mode = "idle" =>
       stack = << >> /\ Evaluated(n, M, D, P) /\ IsAlist(Tree(D, g_env), P[n + 1])
  /\ mode # "idle" =>
       /\ n > 0 /\ Evaluated(n - 1, M, D, P)
       /\ \E rho, top, s, w :
            /\ rho = P[n] /\ top = M[<<Tree(D, done[n].expr), P[n]>>]
            /\ Running(T, U, M, Ms, D, rho, top, s, w)

\* The inductive invariant, for one way to read the memory and the program.
EvalInv(T, R, U, M, Ms, D, P) ==
  (Len(heap) < MemSize /\ IsTrees(D, heap) /\ IsProgram(T, R, M, D, P)) =>
    \E n : Evaluating(n, T, U, M, Ms, D, P)

-----------------------------------------------------------------------------
\* Trees.

LEMMA TreeOfAtom ==
  ASSUME NEW D, NEW v \in Value, v.tag # "ref"
  PROVE  Tree(D, v) = v /\ ~IsPair(v)
<1>1. DOMAIN v = {"tag", "n"}
  BY DEF Value
<1>2. "car" \notin {"tag", "n"}
  OBVIOUS
<1>3. QED  BY <1>1, <1>2 DEF Tree, IsPair

LEMMA PairIsPair ==
  ASSUME NEW t, NEW u
  PROVE  IsPair(Pair(t, u)) /\ Head1(Pair(t, u)) = t /\ Rest1(Pair(t, u)) = u
BY DEF IsPair, Pair, Head1, Rest1

\* car and cdr of a value are those of its tree, and a tree is an atom only if
\* the value is that atom.
LEMMA TreeOfValue ==
  ASSUME HeapOK(heap), NEW D, IsTrees(D, heap), NEW v, OK(v, Len(heap))
  PROVE  /\ Tree(D, Car(v)) = Head1(Tree(D, v)) /\ Tree(D, Cdr(v)) = Rest1(Tree(D, v))
         /\ v.tag = "ref" <=> IsPair(Tree(D, v))
         /\ \A u \in Value : u.tag # "ref" => (Tree(D, v) = u <=> v = u)
<1>0. Len(heap) \in Nat /\ v \in Value /\ NIL \in Value /\ NIL.tag # "ref"
  BY DEF HeapOK, OK, NIL, Value
<1>1. CASE v.tag = "ref"
  <2>1. v.n \in Nat /\ v.n + 1 \in DOMAIN heap
    BY <1>0, <1>1 DEF OK, Below, Value, HeapOK
  <2>2. Tree(D, v) = Pair(Tree(D, Car(v)), Tree(D, Cdr(v)))
    BY <1>1, <2>1 DEF Tree, IsTrees, Car, Cdr
  <2>3. \A u \in Value : u.tag # "ref" => Tree(D, v) # u
    BY <2>2, PairIsPair, TreeOfAtom
  <2>4. QED  BY <1>1, <2>2, <2>3, PairIsPair
<1>2. CASE v.tag # "ref"
  BY <1>0, <1>2, TreeOfAtom DEF Car, Cdr, Head1, Rest1
<1>3. QED  BY <1>1, <1>2

-----------------------------------------------------------------------------
\* Environments.

LEMMA AlistEmpty == IsAlist(NIL, << >>)
<1>1. /\ [i \in 0 .. 0 |-> NIL][0] = NIL
      /\ \A i \in 1 .. Len(<< >>) : FALSE
  OBVIOUS
<1>2. Len(<< >>) = 0
  OBVIOUS
<1>3. QED  BY <1>1, <1>2 DEF IsAlist

LEMMA AlistDefine ==
  ASSUME NEW S, NEW rho \in Seq(S \X S), NEW t, IsAlist(t, rho), NEW a \in S, NEW b \in S
  PROVE  IsAlist(Pair(Pair(a, b), t), Append(rho, <<a, b>>))
<1> DEFINE n == Len(rho)
           p == Append(rho, <<a, b>>)
<1>1. PICK A : /\ A[0] = NIL /\ A[n] = t
               /\ \A i \in 1 .. n : A[i] = Pair(Pair(rho[i][1], rho[i][2]), A[i - 1])
  BY DEF IsAlist
<1>2. n \in Nat /\ Len(p) = n + 1 /\ p[n + 1] = <<a, b>> /\ \A i \in 1 .. n : p[i] = rho[i]
  BY AppendProperties
<1> DEFINE B == [i \in 0 .. n + 1 |-> IF i = n + 1 THEN Pair(Pair(a, b), t) ELSE A[i]]
<1> HIDE DEF n, p
<1>3. B[0] = NIL /\ B[n + 1] = Pair(Pair(a, b), t) /\ B[n] = t
  BY <1>1, <1>2
<1>4. ASSUME NEW i \in 1 .. n + 1  PROVE  B[i] = Pair(Pair(p[i][1], p[i][2]), B[i - 1])
  <2>1. CASE i = n + 1
    BY <1>2, <1>3, <2>1
  <2>2. CASE i # n + 1
    <3>1. i \in 1 .. n /\ i - 1 \in 0 .. n
      BY <1>2, <2>2
    <3>2. B[i] = A[i] /\ B[i - 1] = A[i - 1]
      BY <1>2, <3>1
    <3>3. QED  BY <1>1, <1>2, <3>1, <3>2
  <2>3. QED  BY <2>1, <2>2
<1> HIDE DEF B
<1>5. QED  BY <1>2, <1>3, <1>4 DEF IsAlist, p

\* The front of the alist is the last definition.
LEMMA AlistFront ==
  ASSUME NEW S, NEW rho \in Seq(S \X S), NEW j \in 0 .. Len(rho), NEW t,
         IsAlist(t, SubSeq(rho, 1, j))
  PROVE  /\ j = 0 => t = NIL
         /\ j # 0 => /\ IsPair(t) /\ Head1(t) = Pair(rho[j][1], rho[j][2])
                     /\ IsAlist(Rest1(t), SubSeq(rho, 1, j - 1))
<1> DEFINE p == SubSeq(rho, 1, j)
           q == SubSeq(rho, 1, j - 1)
<1>1. /\ Len(p) = j /\ \A i \in 1 .. j : p[i] = rho[i]
      /\ j # 0 => Len(q) = j - 1 /\ \A i \in 1 .. j - 1 : q[i] = rho[i]
  OBVIOUS
<1> HIDE DEF p, q
<1>2. PICK A : /\ A[0] = NIL /\ A[j] = t
               /\ \A i \in 1 .. j : A[i] = Pair(Pair(p[i][1], p[i][2]), A[i - 1])
  BY <1>1 DEF IsAlist, p
<1>3. CASE j = 0
  BY <1>2, <1>3
<1>4. CASE j # 0
  <2>1. j \in 1 .. j /\ \A i \in 1 .. j - 1 : i \in 1 .. j
    BY <1>4
  <2>2. t = Pair(Pair(rho[j][1], rho[j][2]), A[j - 1])
    BY <1>1, <1>2, <2>1
  <2>3. IsAlist(A[j - 1], q)
    <3>1. \A i \in 1 .. j - 1 : p[i] = q[i]
      BY <1>1, <1>4, <2>1
    <3>2. \A i \in 1 .. j - 1 : A[i] = Pair(Pair(q[i][1], q[i][2]), A[i - 1])
      BY <1>2, <2>1, <3>1
    <3>3. Len(q) = j - 1
      BY <1>1, <1>4
    <3>4. QED  BY <1>2, <3>2, <3>3 DEF IsAlist
  <2>4. QED  BY <1>4, <2>2, <2>3, PairIsPair DEF q
<1>5. QED  BY <1>3, <1>4

\* Where the walk along the alist ends.
LEMMA BindingNone ==
  ASSUME NEW S, NEW rho \in Seq(S \X S), NEW s, \A i \in 1 .. Len(rho) : rho[i][1] # s
  PROVE  Binding(rho, s) = s
<1>1. {i \in DOMAIN rho : rho[i][1] = s} = {}
  OBVIOUS
<1>2. QED  BY <1>1 DEF Binding

LEMMA BindingLast ==
  ASSUME NEW S, NEW rho \in Seq(S \X S), NEW s, NEW j \in 1 .. Len(rho), rho[j][1] = s,
         \A i \in j + 1 .. Len(rho) : rho[i][1] # s
  PROVE  Binding(rho, s) = IF rho[j][2] = NIL THEN s ELSE rho[j][2]
<1> DEFINE defs == {i \in DOMAIN rho : rho[i][1] = s}
<1>1. j \in defs /\ \A i \in defs : i \in Nat /\ i <= j
  OBVIOUS
<1> HIDE DEF defs
<1>2. (CHOOSE i \in defs : \A k \in defs : k <= i) = j
  <2>1. \E i \in defs : \A k \in defs : k <= i
    BY <1>1
  <2> DEFINE c == CHOOSE i \in defs : \A k \in defs : k <= i
  <2>2. c \in defs /\ \A k \in defs : k <= c
    BY <2>1
  <2> HIDE DEF c
  <2>3. c = j
    BY <1>1, <2>2
  <2>4. QED  BY <2>3 DEF c
<1>3. QED  BY <1>1, <1>2 DEF Binding, defs

-----------------------------------------------------------------------------
\* The calls that wait.

LEMMA WaitsPush ==
  ASSUME NEW T, NEW U, NEW M, NEW Ms, NEW D, NEW rho, NEW top,
         NEW st \in Seq(Frame), NEW w, Waits(T, U, M, Ms, D, rho, top, st, w),
         NEW f \in Frame, NEW r \in Results(U), FrameMeans(T, M, Ms, D, rho, f, r, w[1])
  PROVE  Waits(T, U, M, Ms, D, rho, top, <<f>> \o st, <<r>> \o w)
<1> DEFINE fs == <<f>> \o st
           rs == <<r>> \o w
<1>1. w \in Seq(Results(U)) /\ Len(w) = Len(st) + 1 /\ Len(st) \in Nat
  BY DEF Waits
<1>2. /\ fs \in Seq(Frame) /\ Len(fs) = Len(st) + 1 /\ fs[1] = f
      /\ \A i \in 2 .. Len(st) + 1 : fs[i] = st[i - 1]
  BY <1>1
<1>3. /\ rs \in Seq(Results(U)) /\ Len(rs) = Len(w) + 1 /\ rs[1] = r
      /\ \A i \in 2 .. Len(w) + 1 : rs[i] = w[i - 1]
  BY <1>1
<1> HIDE DEF fs, rs
<1>4. rs[Len(rs)] = top
  BY <1>1, <1>3 DEF Waits
<1>5. ASSUME NEW i \in DOMAIN fs  PROVE  FrameMeans(T, M, Ms, D, rho, fs[i], rs[i], rs[i + 1])
  <2>1. CASE i = 1
    <3>1. rs[2] = w[1]
      BY <1>1, <1>3
    <3>2. QED  BY <1>2, <1>3, <2>1, <3>1
  <2>2. CASE i # 1
    <3>1. i - 1 \in DOMAIN st /\ i \in 2 .. Len(st) + 1 /\ i + 1 \in 2 .. Len(w) + 1
          /\ i \in 2 .. Len(w) + 1 /\ (i + 1) - 1 = (i - 1) + 1
      BY <1>1, <1>2, <2>2
    <3>2. fs[i] = st[i - 1] /\ rs[i] = w[i - 1] /\ rs[i + 1] = w[(i - 1) + 1]
      BY <1>2, <1>3, <3>1
    <3>3. QED  BY <3>1, <3>2 DEF Waits
  <2>3. QED  BY <2>1, <2>2
<1>6. QED  BY <1>1, <1>2, <1>3, <1>4, <1>5 DEF Waits, fs, rs

LEMMA WaitsPop ==
  ASSUME NEW T, NEW U, NEW M, NEW Ms, NEW D, NEW rho, NEW top,
         NEW st \in Seq(Frame), NEW w, Waits(T, U, M, Ms, D, rho, top, st, w), st # << >>
  PROVE  /\ Waits(T, U, M, Ms, D, rho, top, Tail(st), Tail(w))
         /\ Tail(w)[1] = w[2] /\ FrameMeans(T, M, Ms, D, rho, Head(st), w[1], w[2])
<1> DEFINE fs == Tail(st)
           rs == Tail(w)
<1>1. w \in Seq(Results(U)) /\ Len(w) = Len(st) + 1 /\ Len(st) \in Nat \ {0}
  BY DEF Waits
<1>2. fs \in Seq(Frame) /\ Len(fs) = Len(st) - 1 /\ \A i \in 1 .. Len(st) - 1 : fs[i] = st[i + 1]
  BY <1>1
<1>3. rs \in Seq(Results(U)) /\ Len(rs) = Len(w) - 1 /\ \A i \in 1 .. Len(w) - 1 : rs[i] = w[i + 1]
  BY <1>1
<1>4. Head(st) = st[1] /\ 1 \in DOMAIN st
  BY <1>1
<1> HIDE DEF fs, rs
<1>5. rs[Len(rs)] = top /\ rs[1] = w[2]
  BY <1>1, <1>3 DEF Waits
<1>6. ASSUME NEW i \in DOMAIN fs  PROVE  FrameMeans(T, M, Ms, D, rho, fs[i], rs[i], rs[i + 1])
  <2>1. i \in 1 .. Len(st) - 1 /\ i \in 1 .. Len(w) - 1 /\ i + 1 \in 1 .. Len(w) - 1
        /\ i + 1 \in DOMAIN st
    BY <1>1, <1>2
  <2>2. fs[i] = st[i + 1] /\ rs[i] = w[i + 1] /\ rs[i + 1] = w[(i + 1) + 1]
    BY <1>2, <1>3, <2>1
  <2>3. QED  BY <2>1, <2>2 DEF Waits
<1>7. FrameMeans(T, M, Ms, D, rho, Head(st), w[1], w[2])
  BY <1>4 DEF Waits
<1>8. QED  BY <1>1, <1>2, <1>3, <1>5, <1>6, <1>7 DEF Waits, fs, rs

\* What a call returns after others is a result.
LEMMA AfterResult ==
  ASSUME NEW U, NEW s \in Seq(U \X U), NEW m \in Results(U)
  PROVE  /\ After(s, m) \in Results(U)
         /\ After(s, m).v = m.v /\ After(s, m).defs = s \o m.defs
BY DEF After, Results

LEMMA DefinitionsConcat ==
  ASSUME NEW U, NEW s \in Seq(U \X U), NEW t \in Seq(U \X U), NEW u \in Seq(U \X U)
  PROVE  (s \o t) \o u = s \o (t \o u)
<1> DEFINE S == U \X U
<1>1. s \in Seq(S) /\ t \in Seq(S) /\ u \in Seq(S)
  OBVIOUS
<1> HIDE DEF S
<1>2. QED  BY <1>1, ConcatAssociative

LEMMA AppendToConcat ==
  ASSUME NEW S, NEW s \in Seq(S), NEW t \in Seq(S), NEW e \in S
  PROVE  s \o Append(t, e) = Append(s \o t, e)
<1>1. Append(t, e) = t \o <<e>> /\ Append(s \o t, e) = (s \o t) \o <<e>>
  BY AppendIsConcat, ConcatProperties
<1>2. <<e>> \in Seq(S)
  OBVIOUS
<1>3. QED  BY <1>1, <1>2, ConcatAssociative

\* What was true of the cells before is true of fewer.
LEMMA TreesBefore ==
  ASSUME NEW D, NEW g, NEW h \in Seq(Cell), Extends(g, h), IsTrees(D, g)
  PROVE  IsTrees(D, h)
<1>1. \A i \in DOMAIN h : i \in DOMAIN g /\ g[i] = h[i]
  BY DEF Extends
<1>2. QED  BY <1>1 DEF IsTrees

\* A cell that there was room for stands for the pair of its parts.
LEMMA TreeOfCell ==
  ASSUME NEW D, NEW h, HeapOK(h), NEW a, OK(a, Len(h)), NEW d, OK(d, Len(h)),
         Len(Extend(h, a, d)) < MemSize, IsTrees(D, Extend(h, a, d))
  PROVE  Tree(D, Alloc(h)) = Pair(Tree(D, a), Tree(D, d)) /\ Extends(Extend(h, a, d), h)
<1>0. h \in Seq(Cell) /\ Len(h) \in Nat /\ MemSize \in Nat
  BY PairConstants DEF HeapOK
<1>1. Len(h) < MemSize
  BY <1>0 DEF Extend, HeapOK
<1> DEFINE c == [car |-> a, cdr |-> d]
           e == Append(h, c)
<1>2. c \in Cell /\ c.car = a /\ c.cdr = d
  BY DEF Cell, OK
<1> HIDE DEF c
<1>3. /\ e \in Seq(Cell) /\ Len(e) = Len(h) + 1 /\ e[Len(h) + 1] = c
      /\ \A i \in 1 .. Len(h) : e[i] = h[i]
  BY <1>0, <1>2, AppendProperties
<1>4. Extend(h, a, d) = e /\ Alloc(h) = Ref(Len(h))
  BY <1>1 DEF Extend, Alloc, c
<1> HIDE DEF e
<1>5. D[Len(h) + 1] = Pair(Tree(D, a), Tree(D, d))
  <2>1. Len(h) + 1 \in DOMAIN e
    BY <1>0, <1>3
  <2>2. QED  BY <1>2, <1>3, <1>4, <2>1 DEF IsTrees
<1>6. QED  BY <1>0, <1>3, <1>4, <1>5 DEF Tree, Ref, Extends

\* The cells after a step hold what they held before.
LEMMA StepExtends ==
  ASSUME IInv, [Next]_vars
  PROVE  HeapOK(heap') /\ Extends(heap', heap)
<1>1. heap \in Seq(Cell) /\ HeapOK(heap')
  BY TypeStep DEF IInv, HeapOK
<1>2. Len(heap) <= Len(heap') /\ SubSeq(heap', 1, Len(heap)) = heap
  <2>1. CASE UNCHANGED vars
    BY <1>1, <2>1, SubSeqFull DEF vars
  <2>2. CASE ~UNCHANGED vars
    BY <2>2, ConstantStep
  <2>3. QED  BY <2>1, <2>2
<1>3. heap' \in Seq(Cell) /\ Len(heap) \in Nat /\ Len(heap') \in Nat
  BY <1>1 DEF HeapOK
<1>4. \A i \in 1 .. Len(heap) : SubSeq(heap', 1, Len(heap))[i] = heap'[i]
  BY <1>2, <1>3
<1>5. QED  BY <1>1, <1>2, <1>3, <1>4 DEF Extends

-----------------------------------------------------------------------------
\* Steps of a call.

LEMMA RunStays ==
  ASSUME NEW T, NEW U, NEW M, NEW Ms, NEW D, NEW rho, NEW top, NEW s, NEW w,
         Running(T, U, M, Ms, D, rho, top, s, w),
         UNCHANGED <<stack, g_env>>, NowMeans(T, M, Ms, D, rho, s, w[1])'
  PROVE  Running(T, U, M, Ms, D, rho, top, s, w)'
BY DEF Running, Waits, FrameMeans

\* eval calls itself, for an expression that means m.
LEMMA RunCalls ==
  ASSUME NEW T, NEW U, NEW M, NEW Ms, NEW D, NEW rho, NEW top, NEW s, NEW w,
         Running(T, U, M, Ms, D, rho, top, s, w), stack \in Seq(Frame),
         NEW f \in Frame, stack' = <<f>> \o stack, g_env' = g_env,
         NEW m \in Results(U), FrameMeans(T, M, Ms, D, rho, f, After(s, m), w[1]),
         NowMeans(T, M, Ms, D, rho, s, After(s, m))'
  PROVE  \E w1 : Running(T, U, M, Ms, D, rho, top, s, w1)'
<1> DEFINE r == After(s, m)
           w1 == <<r>> \o w
<1>1. s \in Seq(U \X U) /\ w \in Seq(Results(U))
  BY DEF Running, Waits
<1>2. r \in Results(U)
  BY <1>1, AfterResult
<1>3. Waits(T, U, M, Ms, D, rho, top, stack', w1)
  BY <1>2, WaitsPush DEF Running
<1> HIDE DEF r
<1>4. w1[1] = r
  BY <1>1, <1>2
<1> HIDE DEF w1
<1>5. Running(T, U, M, Ms, D, rho, top, s, w1)'
  BY <1>1, <1>3, <1>4 DEF Running, Waits, FrameMeans, r
<1>6. QED  BY <1>5

\* A call returns, to one that goes on with its own end.
LEMMA RunReturns ==
  ASSUME NEW T, NEW U, NEW M, NEW Ms, NEW D, NEW rho, NEW top, NEW s, NEW w,
         Running(T, U, M, Ms, D, rho, top, s, w), stack \in Seq(Frame), stack # << >>,
         stack' = Tail(stack), NEW s1 \in Seq(U \X U), IsAlist(Tree(D, g_env'), rho \o s1),
         NowMeans(T, M, Ms, D, rho, s1, w[2])'
  PROVE  \E w1 : Running(T, U, M, Ms, D, rho, top, s1, w1)'
<1> DEFINE w1 == Tail(w)
<1>1. Waits(T, U, M, Ms, D, rho, top, stack', w1) /\ w1[1] = w[2]
  BY WaitsPop DEF Running
<1> HIDE DEF w1
<1>2. Running(T, U, M, Ms, D, rho, top, s1, w1)'
  BY <1>1 DEF Running, Waits, FrameMeans
<1>3. QED  BY <1>2

\* A call returns, to one that calls eval_list next, for a list that means m.
LEMMA RunGoesOn ==
  ASSUME NEW T, NEW U, NEW M, NEW Ms, NEW D, NEW rho, NEW top, NEW s, NEW w,
         Running(T, U, M, Ms, D, rho, top, s, w), stack \in Seq(Frame), stack # << >>,
         NEW f \in Frame, stack' = <<f>> \o Tail(stack), g_env' = g_env,
         NEW m \in Results(U), FrameMeans(T, M, Ms, D, rho, f, After(s, m), w[2]),
         NowMeans(T, M, Ms, D, rho, s, After(s, m))'
  PROVE  \E w1 : Running(T, U, M, Ms, D, rho, top, s, w1)'
<1> DEFINE r == After(s, m)
           ws == Tail(w)
           w1 == <<r>> \o ws
<1>1. s \in Seq(U \X U) /\ Tail(stack) \in Seq(Frame)
  BY DEF Running
<1>2. r \in Results(U)
  BY <1>1, AfterResult
<1>3. Waits(T, U, M, Ms, D, rho, top, Tail(stack), ws) /\ ws[1] = w[2]
  BY WaitsPop DEF Running
<1> HIDE DEF ws
<1>4. Waits(T, U, M, Ms, D, rho, top, stack', w1)
  BY <1>1, <1>2, <1>3, WaitsPush
<1>5. ws \in Seq(Results(U))
  BY <1>3 DEF Waits
<1> HIDE DEF r
<1>6. w1[1] = r
  BY <1>2, <1>5
<1> HIDE DEF w1
<1>7. Running(T, U, M, Ms, D, rho, top, s, w1)'
  BY <1>1, <1>4, <1>6 DEF Running, Waits, FrameMeans, r
<1>8. QED  BY <1>7

-----------------------------------------------------------------------------
\* What a meaning says, where it is needed.
LEMMA MeaningOf ==
  ASSUME NEW T, NEW R, NEW U, NEW M, NEW Ms, IsMeaning(T, R, U, M, Ms),
         NEW t \in T, NEW rho \in R
  PROVE  /\ Head1(t) \in T /\ Rest1(t) \in T /\ Second(t) \in T /\ Third(t) \in T /\ Fourth(t) \in T
         /\ rho \in Seq(U \X U)
         /\ M[<<t, rho>>] \in Results(U) /\ Ms[<<t, rho>>] \in Results(U)
         /\ ExpressionMeans(M, Ms, t, rho) /\ ListMeans(M, Ms, t, rho)
<1>1. \A u \in T : Head1(u) \in T /\ Rest1(u) \in T
  BY DEF IsMeaning
<1>2. Head1(t) \in T /\ Rest1(t) \in T /\ Second(t) \in T /\ Third(t) \in T /\ Fourth(t) \in T
  BY <1>1 DEF Second, Third, Fourth
<1>3. <<t, rho>> \in T \X R
  OBVIOUS
<1>4. M \in [T \X R -> Results(U)] /\ Ms \in [T \X R -> Results(U)]
  BY DEF IsMeaning, Results
<1>5. M[<<t, rho>>] \in Results(U) /\ Ms[<<t, rho>>] \in Results(U)
  BY <1>3, <1>4
<1>6. ExpressionMeans(M, Ms, t, rho) /\ ListMeans(M, Ms, t, rho) /\ rho \in Seq(U \X U)
  BY DEF IsMeaning
<1>7. QED  BY <1>2, <1>5, <1>6

LEMMA EvaluatorSymbols ==
  /\ NIL \in Value /\ NIL.tag = "spec" /\ TRUTH \in Value /\ TRUTH.tag = "spec"
  /\ \A v \in {QUOTE, IF_, DEFINE_, CAR, CDR, CONS} : v \in Value /\ v.tag = "sym"
  /\ QUOTE # IF_ /\ QUOTE # DEFINE_ /\ IF_ # DEFINE_
  /\ CAR # CDR /\ CAR # CONS /\ CDR # CONS
BY DEF NIL, TRUTH, QUOTE, IF_, DEFINE_, CAR, CDR, CONS, Sym, Value

\* eval, or eval_list, is called for the tree u.
LEMMA NowEval ==
  ASSUME NEW T, NEW M, NEW Ms, NEW D, NEW rho, NEW s, NEW u \in T, mode' = "eval",
         Tree(D, x') = u, IsAlist(Tree(D, env'), rho)
  PROVE  NowMeans(T, M, Ms, D, rho, s, After(s, M[<<u, rho>>]))'
BY DEF NowMeans

LEMMA NowList ==
  ASSUME NEW T, NEW M, NEW Ms, NEW D, NEW rho, NEW s, NEW u \in T, mode' = "list",
         Tree(D, x') = u, IsAlist(Tree(D, env'), rho)
  PROVE  NowMeans(T, M, Ms, D, rho, s, After(s, Ms[<<u, rho>>]))'
BY DEF NowMeans

\* The steps of eval on an expression and of eval_list on a list.
LEMMA RunsOn ==
  ASSUME NEW T, NEW R, NEW U, NEW M, NEW Ms, IsMeaning(T, R, U, M, Ms),
         NEW D, IsTrees(D, heap), IInv, NEW rho \in R, NEW top, NEW s, NEW w,
         Running(T, U, M, Ms, D, rho, top, s, w),
         EvalAtom \/ EvalSymbol \/ Lookup \/ EvalQuote \/ EvalIf \/ EvalDefine \/ EvalCall \/ EvalList
  PROVE  \E s1, w1 : Running(T, U, M, Ms, D, rho, top, s1, w1)'
<1>t. PICK t : t = Tree(D, x)
  OBVIOUS
<1>0. /\ HeapOK(heap) /\ OK(x, Len(heap)) /\ OK(env, Len(heap)) /\ Len(heap) \in Nat
      /\ stack \in Seq(Frame) /\ x \in Value /\ env \in Value
  BY DEF IInv, HeapOK, StackOK, OK
<1>1. /\ s \in Seq(U \X U) /\ w \in Seq(Results(U)) /\ w[1] \in Results(U)
      /\ NowMeans(T, M, Ms, D, rho, s, w[1])
  <2>1. Len(w) = Len(stack) + 1 /\ w \in Seq(Results(U)) /\ Len(stack) \in Nat
    BY <1>0 DEF Running, Waits
  <2>2. 1 \in 1 .. Len(w)
    BY <2>1
  <2>3. QED  BY <2>1, <2>2, ElementOfSeq DEF Running
<1>2. /\ Tree(D, Car(x)) = Head1(t) /\ Tree(D, Cdr(x)) = Rest1(t)
      /\ x.tag = "ref" <=> IsPair(t)
      /\ \A u \in Value : u.tag # "ref" => (t = u <=> x = u)
  BY <1>0, <1>t, TreeOfValue
<1>3. /\ OK(Car(x), Len(heap)) /\ OK(Cdr(x), Len(heap)) /\ OK(Car(Cdr(x)), Len(heap))
      /\ OK(Cdr(Cdr(x)), Len(heap)) /\ OK(Car(Cdr(Cdr(x))), Len(heap))
  BY <1>0, CarCdr
<1>4. /\ \A u \in Value : u.tag # "ref" => (Head1(t) = u <=> Car(x) = u)
      /\ Tree(D, Car(Cdr(x))) = Second(t) /\ Tree(D, Car(Cdr(Cdr(x)))) = Third(t)
  BY <1>0, <1>2, <1>3, TreeOfValue DEF Second, Third
<1>5. \A u \in Value : u.tag # "ref" => Tree(D, u) = u
  BY TreeOfAtom
<1>6. ASSUME mode \in {"eval", "list"}
      PROVE  /\ t \in T /\ IsAlist(Tree(D, env), rho)
             /\ Second(t) \in T /\ Third(t) \in T /\ Fourth(t) \in T /\ Head1(t) \in T /\ Rest1(t) \in T
             /\ ExpressionMeans(M, Ms, t, rho) /\ ListMeans(M, Ms, t, rho)
  BY <1>1, <1>6, <1>t, MeaningOf DEF NowMeans
<1>7. \A u \in T : M[<<u, rho>>] \in Results(U) /\ Ms[<<u, rho>>] \in Results(U)
  BY MeaningOf
<1>8. rho \in Seq(U \X U)
  BY DEF IsMeaning
<1>9. ASSUME NEW a, NEW b  PROVE  After(a, b).v = b.v /\ After(a, b).defs = a \o b.defs
  BY DEF After
<1>10. /\ mode = "eval" => w[1] = After(s, M[<<t, rho>>])
       /\ mode = "list" => w[1] = After(s, Ms[<<t, rho>>])
  BY <1>1, <1>t DEF NowMeans
<1>11. IsPair(t) => Head1(t) = t.car /\ Rest1(t) = t.cdr
  BY DEF Head1, Rest1
<1>a. \A a, b, c \in Seq(U \X U) : (a \o b) \o c = a \o (b \o c)
  BY DefinitionsConcat
<1>12. CASE EvalAtom
  <2>1. t = x /\ ~IsPair(t) /\ x.tag # "sym" /\ mode = "eval"
    BY <1>0, <1>2, <1>12 DEF EvalAtom
  <2>2. M[<<t, rho>>] = [v |-> AtomMeans(x, rho), defs |-> << >>]
    BY <1>6, <2>1 DEF ExpressionMeans
  <2>3. w[1] = [v |-> AtomMeans(x, rho), defs |-> s]
    <3>1. s \o << >> = s
      BY <1>1
    <3>2. QED  BY <1>10, <2>1, <2>2, <3>1 DEF After
  <2>4. x' = AtomMeans(x, rho) /\ x' \in Value /\ x'.tag # "ref"
    BY <1>0, <1>12, <2>1, EvaluatorSymbols DEF EvalAtom, Return, AtomMeans
  <2>5. NowMeans(T, M, Ms, D, rho, s, w[1])'
    BY <1>5, <1>12, <2>3, <2>4 DEF EvalAtom, Return, NowMeans
  <2>6. QED  BY <1>12, <2>5, RunStays DEF EvalAtom
<1>13. CASE EvalSymbol
  <2>1. t = x /\ ~IsPair(t) /\ x.tag = "sym" /\ mode = "eval"
    BY <1>0, <1>2, <1>13 DEF EvalSymbol
  <2>2. M[<<t, rho>>] = [v |-> Binding(rho, x), defs |-> << >>]
    BY <1>6, <2>1 DEF ExpressionMeans, AtomMeans
  <2>3. w[1] = [v |-> Binding(rho, x), defs |-> s]
    <3>1. s \o << >> = s
      BY <1>1
    <3>2. QED  BY <1>10, <2>1, <2>2, <3>1 DEF After
  <2>4. IsAlist(Tree(D, env), SubSeq(rho, 1, Len(rho))) /\ Len(rho) \in 0 .. Len(rho)
        /\ \A i \in Len(rho) + 1 .. Len(rho) : rho[i][1] # x
    <3>1. SubSeq(rho, 1, Len(rho)) = rho /\ Len(rho) \in Nat
      BY <1>8, SubSeqFull
    <3>2. IsAlist(Tree(D, env), rho)
      BY <1>6, <2>1
    <3>3. Len(rho) \in 0 .. Len(rho) /\ Len(rho) + 1 .. Len(rho) = {}
      BY <3>1
    <3>4. QED  BY <3>1, <3>2, <3>3
  <2>5. NowMeans(T, M, Ms, D, rho, s, w[1])'
    BY <1>13, <2>1, <2>3, <2>4 DEF EvalSymbol, NowMeans
  <2>6. QED  BY <1>13, <2>5, RunStays DEF EvalSymbol
<1>14. CASE Lookup
  <2>1. x.tag = "sym" /\ w[1] = [v |-> Binding(rho, x), defs |-> s] /\ t = x
    BY <1>0, <1>1, <1>2, <1>14 DEF Lookup, NowMeans
  <2>2. PICK j \in 0 .. Len(rho) : /\ IsAlist(Tree(D, env), SubSeq(rho, 1, j))
                                   /\ \A i \in j + 1 .. Len(rho) : rho[i][1] # x
    BY <1>1, <1>14 DEF Lookup, NowMeans
  <2> DEFINE e == Tree(D, env)
             b == Car(env)
  <2>3. /\ j = 0 => e = NIL
        /\ j # 0 => /\ IsPair(e) /\ Head1(e) = Pair(rho[j][1], rho[j][2])
                    /\ IsAlist(Rest1(e), SubSeq(rho, 1, j - 1))
    BY <1>8, <2>2, AlistFront
  <2>4. /\ Tree(D, b) = Head1(e) /\ Tree(D, Cdr(env)) = Rest1(e) /\ (e = NIL <=> env = NIL)
        /\ OK(b, Len(heap))
    <3>1. OK(b, Len(heap))
      BY <1>0, CarCdr
    <3>2. Tree(D, b) = Head1(e) /\ Tree(D, Cdr(env)) = Rest1(e)
      BY <1>0, TreeOfValue
    <3>3. e = NIL <=> env = NIL
      BY <1>0, TreeOfValue, EvaluatorSymbols
    <3>4. QED  BY <3>1, <3>2, <3>3
  <2>5. j = 0 <=> env = NIL
    BY <2>3, <2>4, TreeOfAtom, EvaluatorSymbols
  <2>6. ASSUME j # 0
        PROVE  /\ Tree(D, Car(b)) = rho[j][1] /\ Tree(D, Cdr(b)) = rho[j][2]
               /\ rho[j][1] = x <=> Car(b) = x
               /\ rho[j][2] = NIL <=> Cdr(b) = NIL
    <3>1. Tree(D, Car(b)) = rho[j][1] /\ Tree(D, Cdr(b)) = rho[j][2]
      BY <1>0, <2>3, <2>4, <2>6, TreeOfValue, PairIsPair
    <3>2. OK(Car(b), Len(heap)) /\ OK(Cdr(b), Len(heap))
      BY <1>0, <2>4, CarCdr
    <3>3. QED  BY <1>0, <2>1, <3>1, <3>2, TreeOfValue, EvaluatorSymbols
  <2> HIDE DEF e, b
  <2>7. CASE env = NIL
    <3>1. Binding(rho, x) = x
      <4>1. \A i \in 1 .. Len(rho) : rho[i][1] # x
        BY <2>2, <2>5, <2>7
      <4>2. QED  BY <1>8, <4>1, BindingNone
    <3>2. mode' = "return" /\ x' = x /\ UNCHANGED <<stack, g_env>>
      BY <1>14, <2>7 DEF Lookup, Return
    <3>3. NowMeans(T, M, Ms, D, rho, s, w[1])'
      BY <1>0, <1>5, <2>1, <3>1, <3>2 DEF NowMeans
    <3>4. QED  BY <3>2, <3>3, RunStays
  <2>8. CASE env # NIL /\ Car(b) = x
    <3>1. j \in 1 .. Len(rho) /\ rho[j][1] = x
      BY <2>5, <2>6, <2>8
    <3>2. Binding(rho, x) = IF rho[j][2] = NIL THEN x ELSE rho[j][2]
      BY <1>8, <2>2, <3>1, BindingLast
    <3>3. mode' = "return" /\ x' = (IF Cdr(b) = NIL THEN x ELSE Cdr(b)) /\ UNCHANGED <<stack, g_env>>
      BY <1>14, <2>8 DEF Lookup, Return, b
    <3>4. Tree(D, x') = Binding(rho, x)
      BY <1>0, <1>5, <2>1, <2>5, <2>6, <2>8, <3>2, <3>3
    <3>5. NowMeans(T, M, Ms, D, rho, s, w[1])'
      BY <2>1, <3>3, <3>4 DEF NowMeans
    <3>6. QED  BY <3>3, <3>5, RunStays
  <2>9. CASE env # NIL /\ Car(b) # x
    <3>1. mode' = "lookup" /\ x' = x /\ env' = Cdr(env) /\ UNCHANGED <<stack, g_env>>
      BY <1>14, <2>9 DEF Lookup, b
    <3>2. j - 1 \in 0 .. Len(rho) /\ IsAlist(Tree(D, env'), SubSeq(rho, 1, j - 1))
      BY <2>2, <2>3, <2>4, <2>5, <2>9, <3>1
    <3>3. \A i \in (j - 1) + 1 .. Len(rho) : rho[i][1] # x
      BY <2>2, <2>5, <2>6, <2>9
    <3>4. NowMeans(T, M, Ms, D, rho, s, w[1])'
      BY <2>1, <3>1, <3>2, <3>3 DEF NowMeans
    <3>5. QED  BY <3>1, <3>4, RunStays
  <2>10. QED  BY <2>7, <2>8, <2>9
<1>15. CASE EvalQuote
  <2>1. mode = "eval" /\ IsPair(t) /\ t.car = QUOTE
    BY <1>2, <1>4, <1>11, <1>15, EvaluatorSymbols DEF EvalQuote
  <2>2. M[<<t, rho>>] = [v |-> Second(t), defs |-> << >>]
    BY <1>6, <2>1 DEF ExpressionMeans
  <2>3. w[1] = [v |-> Second(t), defs |-> s]
    <3>1. s \o << >> = s
      BY <1>1
    <3>2. QED  BY <1>10, <2>1, <2>2, <3>1 DEF After
  <2>4. NowMeans(T, M, Ms, D, rho, s, w[1])'
    BY <1>4, <1>15, <2>3 DEF EvalQuote, Return, NowMeans
  <2>5. QED  BY <1>15, <2>4, RunStays DEF EvalQuote
<1>16. CASE EvalIf
  <2> DEFINE c == M[<<Second(t), rho>>]
             b == M[<<IF c.v = NIL THEN Fourth(t) ELSE Third(t), rho>>]
             f == Call("if", Cdr(x), env)
  <2>1. mode = "eval" /\ IsPair(t) /\ t.car = IF_
    BY <1>2, <1>4, <1>11, <1>16, EvaluatorSymbols DEF EvalIf
  <2>2. M[<<t, rho>>] = [v |-> b.v, defs |-> c.defs \o b.defs]
    BY <1>6, <2>1 DEF ExpressionMeans
  <2>3. c \in Results(U) /\ b \in Results(U)
    BY <1>6, <1>7, <2>1
  <2> HIDE DEF b, c
  <2>4. w[1] = After(s \o c.defs, b)
    <3>1. c.defs \in Seq(U \X U) /\ b.defs \in Seq(U \X U)
      BY <2>3 DEF Results
    <3>2. (s \o c.defs) \o b.defs = s \o (c.defs \o b.defs)
      BY <1>1, <3>1, <1>a
    <3>3. QED  BY <1>10, <2>1, <2>2, <3>2 DEF After
  <2>5. f \in Frame /\ f.kind = "if" /\ Tree(D, f.a) = Rest1(t) /\ f.b = env
    BY <1>0, <1>2, <1>3 DEF Call, Frame, OK
  <2>6. Third(Rest1(t)) = Fourth(t) /\ Second(Rest1(t)) = Third(t)
    BY DEF Second, Third, Fourth
  <2> HIDE DEF f
  <2>7. FrameMeans(T, M, Ms, D, rho, f, After(s, c), w[1])
    BY <1>6, <1>9, <2>1, <2>4, <2>5, <2>6 DEF FrameMeans, b
  <2>8. NowMeans(T, M, Ms, D, rho, s, After(s, c))'
    <3>1. mode' = "eval" /\ Tree(D, x') = Second(t) /\ env' = env
      BY <1>4, <1>16 DEF EvalIf
    <3>2. QED  BY <1>6, <2>1, <3>1, NowEval DEF c
  <2>9. stack' = <<f>> \o stack /\ g_env' = g_env
    BY <1>16 DEF EvalIf, f
  <2>10. QED  BY <1>0, <2>3, <2>5, <2>7, <2>8, <2>9, RunCalls
<1>17. CASE EvalDefine
  <2> DEFINE c == M[<<Third(t), rho>>]
             f == Call("define", Car(Cdr(x)), env)
             d == <<Second(t), c.v>>
  <2>1. mode = "eval" /\ IsPair(t) /\ t.car = DEFINE_
    BY <1>2, <1>4, <1>11, <1>17, EvaluatorSymbols DEF EvalDefine
  <2>2. M[<<t, rho>>] = [v |-> Second(t), defs |-> Append(c.defs, d)]
    BY <1>6, <2>1 DEF ExpressionMeans
  <2>3. c \in Results(U) /\ c.defs \in Seq(U \X U) /\ c.v \in U
    BY <1>6, <1>7, <2>1 DEF Results
  <2>4. d \in U \X U
    <3>1. M[<<t, rho>>] \in Results(U)
      BY <1>6, <1>7, <2>1
    <3>2. Second(t) \in U
      BY <2>2, <3>1 DEF Results
    <3>3. QED  BY <2>3, <3>2
  <2> HIDE DEF c, d
  <2>5. w[1] = [v |-> Second(t), defs |-> Append(s \o c.defs, d)]
    <3>1. s \o Append(c.defs, d) = Append(s \o c.defs, d)
      BY <1>1, <2>3, <2>4, AppendToConcat
    <3>2. w[1] = [v |-> Second(t), defs |-> s \o Append(c.defs, d)]
      BY <1>10, <2>1, <2>2 DEF After
    <3>3. QED  BY <3>1, <3>2
  <2>6. f \in Frame /\ f.kind = "define" /\ Tree(D, f.a) = Second(t)
    BY <1>0, <1>3, <1>4 DEF Call, Frame, OK
  <2> HIDE DEF f
  <2>7. FrameMeans(T, M, Ms, D, rho, f, After(s, c), w[1])
    BY <1>9, <2>5, <2>6 DEF FrameMeans, d
  <2>8. NowMeans(T, M, Ms, D, rho, s, After(s, c))'
    <3>1. mode' = "eval" /\ Tree(D, x') = Third(t) /\ env' = env
      BY <1>4, <1>17 DEF EvalDefine
    <3>2. QED  BY <1>6, <2>1, <3>1, NowEval DEF c
  <2>9. stack' = <<f>> \o stack /\ g_env' = g_env
    BY <1>17 DEF EvalDefine, f
  <2>10. QED  BY <1>0, <2>3, <2>6, <2>7, <2>8, <2>9, RunCalls
<1>18. CASE EvalCall
  <2> DEFINE c == M[<<t.car, rho>>]
             b == Ms[<<t.cdr, rho>>]
             f == Call("fn", Cdr(x), env)
  <2>1. mode = "eval" /\ IsPair(t) /\ t.car \notin {QUOTE, IF_, DEFINE_}
    BY <1>2, <1>4, <1>11, <1>18, EvaluatorSymbols DEF EvalCall
  <2>2. M[<<t, rho>>] = [v |-> Primitive(c.v, b.v), defs |-> c.defs \o b.defs]
    BY <1>6, <2>1 DEF ExpressionMeans
  <2>3. c \in Results(U) /\ c.defs \in Seq(U \X U) /\ b.defs \in Seq(U \X U)
    BY <1>6, <1>7, <1>11, <2>1 DEF Results
  <2> HIDE DEF b, c
  <2>4. w[1] = [v |-> Primitive(c.v, b.v), defs |-> (s \o c.defs) \o b.defs]
    <3>1. (s \o c.defs) \o b.defs = s \o (c.defs \o b.defs)
      BY <1>1, <2>3, <1>a
    <3>2. QED  BY <1>10, <2>1, <2>2, <3>1 DEF After
  <2>5. f \in Frame /\ f.kind = "fn" /\ Tree(D, f.a) = t.cdr /\ f.b = env
    BY <1>0, <1>2, <1>3, <1>11, <2>1 DEF Call, Frame, OK
  <2> HIDE DEF f
  <2>6. FrameMeans(T, M, Ms, D, rho, f, After(s, c), w[1])
    <3>1. t.cdr \in T /\ IsAlist(Tree(D, env), rho)
      BY <1>6, <1>11, <2>1
    <3>2. After(s, c).v = c.v /\ After(s, c).defs = s \o c.defs
      BY <1>9
    <3> HIDE DEF c
    <3>3. QED  BY <2>4, <2>5, <3>1, <3>2 DEF FrameMeans, b
  <2>7. NowMeans(T, M, Ms, D, rho, s, After(s, c))'
    <3>1. mode' = "eval" /\ Tree(D, x') = t.car /\ env' = env
      BY <1>2, <1>11, <1>18, <2>1 DEF EvalCall
    <3>2. QED  BY <1>6, <1>11, <2>1, <3>1, NowEval DEF c
  <2>8. stack' = <<f>> \o stack /\ g_env' = g_env
    BY <1>18 DEF EvalCall, f
  <2>9. QED  BY <1>0, <2>3, <2>5, <2>6, <2>7, <2>8, RunCalls
<1>19. CASE EvalList
  <2>1. mode = "list" /\ (t = NIL <=> x = NIL)
    BY <1>2, <1>19, EvaluatorSymbols DEF EvalList
  <2>2. CASE x = NIL
    <3>1. Ms[<<t, rho>>] = [v |-> NIL, defs |-> << >>]
      BY <1>6, <2>1, <2>2 DEF ListMeans
    <3>2. w[1] = [v |-> NIL, defs |-> s]
      <4>1. s \o << >> = s
        BY <1>1
      <4>2. QED  BY <1>10, <2>1, <3>1, <4>1 DEF After
    <3>3. mode' = "return" /\ x' = NIL /\ UNCHANGED <<stack, g_env>>
      BY <1>19, <2>2 DEF EvalList, Return
    <3>4. Tree(D, NIL) = NIL
      BY <1>5, EvaluatorSymbols
    <3>5. NowMeans(T, M, Ms, D, rho, s, w[1])'
      BY <3>2, <3>3, <3>4 DEF NowMeans
    <3>6. QED  BY <3>3, <3>5, RunStays
  <2>3. CASE x # NIL
    <3> DEFINE c == M[<<Head1(t), rho>>]
               b == Ms[<<Rest1(t), rho>>]
               f == Call("first", x, env)
    <3>1. Ms[<<t, rho>>] = [v |-> Pair(c.v, b.v), defs |-> c.defs \o b.defs]
      BY <1>6, <2>1, <2>3 DEF ListMeans
    <3>2. c \in Results(U) /\ c.defs \in Seq(U \X U) /\ b.defs \in Seq(U \X U)
      BY <1>6, <1>7, <2>1 DEF Results
    <3> HIDE DEF b, c
    <3>3. w[1] = [v |-> Pair(c.v, b.v), defs |-> (s \o c.defs) \o b.defs]
      <4>1. (s \o c.defs) \o b.defs = s \o (c.defs \o b.defs)
        BY <1>1, <3>2, <1>a
      <4>2. QED  BY <1>10, <2>1, <3>1, <4>1 DEF After
    <3>4. f \in Frame /\ f.kind = "first" /\ Tree(D, f.a) = t /\ f.b = env
      BY <1>0, <1>t DEF Call, Frame
    <3> HIDE DEF f
    <3>5. FrameMeans(T, M, Ms, D, rho, f, After(s, c), w[1])
      <4>1. t \in T /\ IsAlist(Tree(D, env), rho)
        BY <1>6, <2>1
      <4>2. After(s, c).v = c.v /\ After(s, c).defs = s \o c.defs
        BY <1>9
      <4>3. QED  BY <3>3, <3>4, <4>1, <4>2 DEF FrameMeans, b
    <3>6. mode' = "eval" /\ x' = Car(x) /\ env' = env /\ stack' = <<f>> \o stack /\ g_env' = g_env
      BY <1>19, <2>3 DEF EvalList, f
    <3>7. NowMeans(T, M, Ms, D, rho, s, After(s, c))'
      BY <1>2, <1>6, <2>1, <3>6, NowEval DEF c
    <3>8. QED  BY <1>0, <3>2, <3>4, <3>5, <3>6, <3>7, RunCalls
  <2>4. QED  BY <2>2, <2>3
<1>20. QED
  BY <1>12, <1>13, <1>14, <1>15, <1>16, <1>17, <1>18, <1>19

\* The steps on which a value comes back.
LEMMA RunsBack ==
  ASSUME NEW T, NEW R, NEW U, NEW M, NEW Ms, IsMeaning(T, R, U, M, Ms),
         NEW D, IsTrees(D, heap), IInv, NEW rho \in R, NEW top, NEW s, NEW w,
         Running(T, U, M, Ms, D, rho, top, s, w),
         IsTrees(D, heap'), Len(heap') < MemSize, HeapOK(heap'),
         ThenIf \/ ThenDefine \/ ThenArguments \/ ThenRest \/ ThenCons \/ ThenApply
  PROVE  \E s1, w1 : Running(T, U, M, Ms, D, rho, top, s1, w1)'
<1>f. PICK f : f = Head(stack)
  OBVIOUS
<1>a. PICK a : a = Tree(D, f.a)
  OBVIOUS
<1>v. PICK v : v = Tree(D, x)
  OBVIOUS
<1>0. /\ HeapOK(heap) /\ OK(x, Len(heap)) /\ Len(heap) \in Nat /\ OK(g_env, Len(heap))
      /\ stack \in Seq(Frame) /\ x \in Value /\ StackOK(stack, Len(heap))
  BY DEF IInv, HeapOK, StackOK, OK
<1>1. mode = "return" /\ stack # << >>
  BY DEF ThenIf, ThenDefine, ThenArguments, ThenRest, ThenCons, ThenApply, Resume
<1>2. f \in Frame /\ OK(f.a, Len(heap)) /\ OK(f.b, Len(heap))
  BY <1>0, <1>1, <1>f, Pop
<1>3. /\ s \in Seq(U \X U) /\ w[1] = [v |-> v, defs |-> s]
      /\ w[1] \in Results(U) /\ w[2] \in Results(U)
      /\ FrameMeans(T, M, Ms, D, rho, f, w[1], w[2])
  <2>1. Waits(T, U, M, Ms, D, rho, top, stack, w) /\ s \in Seq(U \X U)
    BY DEF Running
  <2>2. FrameMeans(T, M, Ms, D, rho, f, w[1], w[2])
    BY <1>0, <1>1, <1>f, <2>1, WaitsPop
  <2>3. Len(w) = Len(stack) + 1 /\ w \in Seq(Results(U)) /\ Len(stack) \in Nat \ {0}
    BY <1>0, <1>1, <2>1 DEF Waits
  <2>4. w[1] \in Results(U) /\ w[2] \in Results(U)
    BY <2>3, ElementOfSeq
  <2>5. w[1] = [v |-> v, defs |-> s]
    BY <1>1, <1>v DEF Running, NowMeans
  <2>6. QED  BY <2>1, <2>2, <2>4, <2>5
<1>4. v \in U /\ w[2].v \in U /\ w[2].defs \in Seq(U \X U)
  BY <1>3 DEF Results
<1>5. IsAlist(Tree(D, g_env), rho \o s)
  BY DEF Running
<1>6. /\ Tree(D, Car(x)) = Head1(v) /\ Tree(D, Cdr(x)) = Rest1(v)
      /\ v = NIL <=> x = NIL
      /\ OK(Car(x), Len(heap)) /\ OK(Cdr(x), Len(heap))
  <2>1. OK(Car(x), Len(heap)) /\ OK(Cdr(x), Len(heap))
    BY <1>0, CarCdr
  <2>2. Tree(D, Car(x)) = Head1(v) /\ Tree(D, Cdr(x)) = Rest1(v)
    BY <1>0, <1>v, TreeOfValue
  <2>3. v = NIL <=> x = NIL
    BY <1>0, <1>v, TreeOfValue, EvaluatorSymbols
  <2>4. QED  BY <2>1, <2>2, <2>3
<1>7. /\ Tree(D, Cdr(f.a)) = Rest1(a) /\ OK(Cdr(f.a), Len(heap))
      /\ \A u \in Value : u.tag # "ref" => (a = u <=> f.a = u)
  <2>1. OK(Cdr(f.a), Len(heap))
    BY <1>0, <1>2, CarCdr
  <2>2. QED  BY <1>0, <1>2, <1>a, <2>1, TreeOfValue
<1>8. rho \in Seq(U \X U)
  BY DEF IsMeaning
<1>9. CASE ThenIf
  <2>1. f.kind = "if"
    BY <1>9, <1>f DEF ThenIf, Resume
  <2>2. PICK u : u = IF v = NIL THEN Third(a) ELSE Second(a)
    OBVIOUS
  <2>3. a \in T /\ IsAlist(Tree(D, f.b), rho) /\ w[2] = After(s, M[<<u, rho>>])
    BY <1>3, <1>a, <2>1, <2>2 DEF FrameMeans
  <2>4. u \in T
    BY <2>2, <2>3, MeaningOf
  <2>5. Tree(D, x') = u
    <3>1. Tree(D, Cdr(Cdr(f.a))) = Rest1(Rest1(a)) /\ OK(Cdr(Cdr(f.a)), Len(heap))
          /\ Tree(D, Car(Cdr(f.a))) = Second(a)
      BY <1>0, <1>7, TreeOfValue, CarCdr DEF Second
    <3>2. Tree(D, Car(Cdr(Cdr(f.a)))) = Third(a)
      BY <1>0, <3>1, TreeOfValue DEF Third
    <3>3. QED  BY <1>6, <1>9, <1>f, <2>2, <3>1, <3>2 DEF ThenIf
  <2>6. mode' = "eval" /\ env' = f.b /\ stack' = Tail(stack) /\ g_env' = g_env
    BY <1>9, <1>f DEF ThenIf
  <2>7. NowMeans(T, M, Ms, D, rho, s, w[2])'
    BY <2>3, <2>4, <2>5, <2>6, NowEval
  <2>8. QED  BY <1>0, <1>1, <1>3, <1>5, <2>6, <2>7, RunReturns
<1>10. CASE ThenDefine
  <2> DEFINE one == Extend(heap, f.a, x)
  <2>1. f.kind = "define"
    BY <1>10, <1>f DEF ThenDefine, Resume
  <2>2. PICK d : d = <<a, v>>
    OBVIOUS
  <2>3. PICK s1 : s1 = Append(s, d)
    OBVIOUS
  <2>4. w[2] = [v |-> a, defs |-> s1]
    BY <1>3, <1>a, <2>1, <2>2, <2>3 DEF FrameMeans
  <2>5. s1 \in Seq(U \X U) /\ a \in U
    BY <1>4, <2>4
  <2>6. g_env' = Alloc(one) /\ heap' = Extend(one, Alloc(heap), g_env) /\ x' = f.a
        /\ stack' = Tail(stack) /\ mode' = "return"
    BY <1>1, <1>10, <1>f DEF ThenDefine
  <2>7. HeapOK(one) /\ Len(one) \in Nat /\ Len(heap) <= Len(one) /\ OK(Alloc(heap), Len(one))
        /\ one \in Seq(Cell)
    BY <1>0, <1>2, Allocation DEF HeapOK
  <2>8. OK(g_env, Len(one))
    BY <1>0, <2>7, ValueMono
  <2> HIDE DEF one
  <2>9. Tree(D, Alloc(one)) = Pair(Tree(D, Alloc(heap)), Tree(D, g_env)) /\ Extends(heap', one)
    BY <2>6, <2>7, <2>8, TreeOfCell
  <2>10. IsTrees(D, one) /\ Len(one) < MemSize
    <3>1. IsTrees(D, one)
      BY <2>7, <2>9, TreesBefore
    <3>2. Len(heap') \in Nat /\ MemSize \in Nat
      BY PairConstants DEF HeapOK
    <3>3. QED  BY <2>7, <2>9, <3>1, <3>2 DEF Extends
  <2>11. Tree(D, Alloc(heap)) = Pair(a, v)
    BY <1>0, <1>2, <1>a, <1>v, <2>10, TreeOfCell DEF one
  <2>12. IsAlist(Tree(D, g_env'), rho \o s1)
    <3>1. rho \o s1 = Append(rho \o s, d) /\ rho \o s \in Seq(U \X U)
      <4> DEFINE S == U \X U
      <4>1. rho \in Seq(S) /\ s \in Seq(S) /\ d \in S
        BY <1>3, <1>4, <1>8, <2>2, <2>5
      <4> HIDE DEF S
      <4>2. rho \o s1 = Append(rho \o s, d) /\ rho \o s \in Seq(S)
        BY <2>3, <4>1, AppendToConcat, ConcatProperties
      <4>3. QED  BY <4>2 DEF S
    <3>2. IsAlist(Pair(Pair(a, v), Tree(D, g_env)), Append(rho \o s, d))
      BY <1>4, <1>5, <2>2, <2>5, <3>1, AlistDefine
    <3>3. QED  BY <2>6, <2>9, <2>11, <3>1, <3>2
  <2>13. NowMeans(T, M, Ms, D, rho, s1, w[2])'
    BY <1>a, <2>4, <2>6 DEF NowMeans
  <2>14. QED  BY <1>0, <1>1, <2>5, <2>6, <2>12, <2>13, RunReturns
<1>11. CASE ThenArguments
  <2> DEFINE m == Ms[<<a, rho>>]
  <2>1. f.kind = "fn" /\ f.kind \in {"if", "fn", "first"}
    BY <1>11, <1>f DEF ThenArguments, Resume
  <2>2. PICK g : g = Call("apply", x, NIL)
    OBVIOUS
  <2>3. a \in T /\ IsAlist(Tree(D, f.b), rho)
    BY <1>3, <1>a, <2>1 DEF FrameMeans
  <2>4. w[2] = [v |-> Primitive(v, m.v), defs |-> s \o m.defs]
    BY <1>3, <1>a, <2>1 DEF FrameMeans
  <2>5. m \in Results(U)
    BY <2>3, MeaningOf
  <2>6. g \in Frame /\ g.kind = "apply" /\ Tree(D, g.a) = v
    BY <1>0, <1>v, <2>2, EvaluatorSymbols DEF Call, Frame
  <2>7. mode' = "list" /\ x' = f.a /\ env' = f.b /\ stack' = <<g>> \o Tail(stack) /\ g_env' = g_env
    BY <1>11, <1>f, <2>2 DEF ThenArguments
  <2>8. NowMeans(T, M, Ms, D, rho, s, After(s, m))'
    BY <1>a, <2>3, <2>7, NowList
  <2> HIDE DEF m
  <2>9. FrameMeans(T, M, Ms, D, rho, g, After(s, m), w[2])
    BY <2>4, <2>6 DEF FrameMeans, After
  <2>10. QED  BY <1>0, <1>1, <2>5, <2>6, <2>7, <2>8, <2>9, RunGoesOn
<1>12. CASE ThenRest
  <2> DEFINE m == Ms[<<Rest1(a), rho>>]
  <2>1. f.kind = "first" /\ f.kind \in {"if", "fn", "first"}
    BY <1>12, <1>f DEF ThenRest, Resume
  <2>2. PICK g : g = Call("rest", x, NIL)
    OBVIOUS
  <2>3. a \in T /\ IsAlist(Tree(D, f.b), rho)
    BY <1>3, <1>a, <2>1 DEF FrameMeans
  <2>4. w[2] = [v |-> Pair(v, m.v), defs |-> s \o m.defs]
    BY <1>3, <1>a, <2>1 DEF FrameMeans
  <2>5. Rest1(a) \in T /\ m \in Results(U)
    BY <2>3, MeaningOf
  <2>6. g \in Frame /\ g.kind = "rest" /\ Tree(D, g.a) = v
    BY <1>0, <1>v, <2>2, EvaluatorSymbols DEF Call, Frame
  <2>7. mode' = "list" /\ x' = Cdr(f.a) /\ env' = f.b /\ stack' = <<g>> \o Tail(stack) /\ g_env' = g_env
    BY <1>12, <1>f, <2>2 DEF ThenRest
  <2>8. NowMeans(T, M, Ms, D, rho, s, After(s, m))'
    BY <1>7, <2>3, <2>5, <2>7, NowList
  <2> HIDE DEF m
  <2>9. FrameMeans(T, M, Ms, D, rho, g, After(s, m), w[2])
    BY <2>4, <2>6 DEF FrameMeans, After
  <2>10. QED  BY <1>0, <1>1, <2>5, <2>6, <2>7, <2>8, <2>9, RunGoesOn
<1>13. CASE ThenCons
  <2>1. f.kind = "rest"
    BY <1>13, <1>f DEF ThenCons, Resume
  <2>2. w[2] = [v |-> Pair(a, v), defs |-> s]
    BY <1>3, <1>a, <2>1 DEF FrameMeans
  <2>3. x' = Alloc(heap) /\ heap' = Extend(heap, f.a, x) /\ stack' = Tail(stack)
        /\ g_env' = g_env /\ mode' = "return"
    BY <1>1, <1>13, <1>f DEF ThenCons
  <2>4. Tree(D, x') = Pair(a, v)
    BY <1>0, <1>2, <1>a, <1>v, <2>3, TreeOfCell
  <2>5. NowMeans(T, M, Ms, D, rho, s, w[2])'
    BY <2>2, <2>3, <2>4 DEF NowMeans
  <2>6. QED  BY <1>0, <1>1, <1>3, <1>5, <2>3, <2>5, RunReturns
<1>14. CASE ThenApply
  <2>1. f.kind = "apply"
    BY <1>14, <1>f DEF ThenApply, Resume
  <2>2. w[2] = [v |-> Primitive(a, v), defs |-> s]
    BY <1>3, <1>a, <2>1 DEF FrameMeans
  <2>3. stack' = Tail(stack) /\ g_env' = g_env /\ mode' = "return"
    BY <1>1, <1>14, <1>f DEF ThenApply
  <2>4. /\ Tree(D, Car(Car(x))) = Head1(Head1(v)) /\ Tree(D, Cdr(Car(x))) = Rest1(Head1(v))
        /\ Tree(D, Car(Cdr(x))) = Second(v) /\ OK(Car(Cdr(x)), Len(heap))
    BY <1>0, <1>6, TreeOfValue, CarCdr DEF Second
  <2>5. /\ a = CAR <=> f.a = CAR
        /\ a = CDR <=> f.a = CDR
        /\ a = CONS <=> f.a = CONS
    BY <1>7, EvaluatorSymbols
  <2>6. Tree(D, x') = Primitive(a, v)
    <3>1. CASE f.a = CAR
      <4>1. x' = Car(Car(x)) /\ Primitive(a, v) = Head1(Head1(v))
        BY <1>14, <1>f, <2>5, <3>1, EvaluatorSymbols DEF ThenApply, Primitive
      <4>2. QED  BY <2>4, <4>1
    <3>2. CASE f.a = CDR
      <4>1. x' = Cdr(Car(x)) /\ Primitive(a, v) = Rest1(Head1(v))
        BY <1>14, <1>f, <2>5, <3>2, EvaluatorSymbols DEF ThenApply, Primitive
      <4>2. QED  BY <2>4, <4>1
    <3>3. CASE f.a = CONS
      <4>1. /\ x' = Alloc(heap) /\ heap' = Extend(heap, Car(x), Car(Cdr(x)))
            /\ Primitive(a, v) = Pair(Head1(v), Second(v))
        BY <1>14, <1>f, <2>5, <3>3, EvaluatorSymbols DEF ThenApply, Primitive
      <4>2. QED  BY <1>0, <1>6, <2>4, <4>1, TreeOfCell
    <3>4. CASE f.a \notin {CAR, CDR, CONS}
      <4>1. x' = NIL /\ Primitive(a, v) = NIL
        BY <1>14, <1>f, <2>5, <3>4 DEF ThenApply, Primitive
      <4>2. QED  BY <4>1, TreeOfAtom, EvaluatorSymbols
    <3>5. QED  BY <3>1, <3>2, <3>3, <3>4
  <2>7. NowMeans(T, M, Ms, D, rho, s, w[2])'
    BY <2>2, <2>3, <2>6 DEF NowMeans
  <2>8. QED  BY <1>0, <1>1, <1>3, <1>5, <2>3, <2>7, RunReturns
<1>15. QED
  BY <1>9, <1>10, <1>11, <1>12, <1>13, <1>14

-----------------------------------------------------------------------------
\* The program.

\* What is assumed of the memory and of the program after a step was so before.
LEMMA ReadBefore ==
  ASSUME IInv, [Next]_vars, NEW T, NEW R, NEW M, NEW D, NEW P,
         Len(heap') < MemSize, IsTrees(D, heap'), IsProgram(T, R, M, D, P)'
  PROVE  /\ Len(heap) < MemSize /\ IsTrees(D, heap) /\ IsProgram(T, R, M, D, P)
         /\ HeapOK(heap') /\ Len(done) \in Nat
         /\ \A k \in 1 .. Len(done) : k \in DOMAIN done' /\ done'[k].expr = done[k].expr
<1>0. HeapOK(heap) /\ heap \in Seq(Cell) /\ done \in Log /\ Len(done) \in Nat /\ DOMAIN done = 1 .. Len(done)
  BY DEF IInv, HeapOK, Log
<1>1. HeapOK(heap') /\ Extends(heap', heap)
  BY StepExtends
<1>2. Len(heap) < MemSize
  <2>1. Len(heap) \in Nat /\ Len(heap') \in Nat /\ MemSize \in Nat /\ Len(heap) <= Len(heap')
    BY <1>0, <1>1, PairConstants DEF HeapOK, Extends
  <2>2. QED  BY <2>1
<1>3. IsTrees(D, heap)
  BY <1>0, <1>1, TreesBefore
<1>4. \A k \in 1 .. Len(done) : k \in DOMAIN done' /\ done'[k].expr = done[k].expr
  <2>1. CASE Start
    <3>1. PICK r : done' = Append(done, r) /\ r.expr = x'
      BY <2>1 DEF Start
    <3>2. DOMAIN done' = 1 .. Len(done) + 1 /\ \A k \in 1 .. Len(done) : done'[k] = done[k]
      BY <1>0, <3>1 DEF Log
    <3>3. QED  BY <1>0, <3>2
  <2>2. CASE Finish
    <3>1. done' = [done EXCEPT ![Len(done)].val = x]
      BY <2>2 DEF Finish
    <3>2. ASSUME NEW k \in 1 .. Len(done)  PROVE  k \in DOMAIN done' /\ done'[k].expr = done[k].expr
      <4>0. DOMAIN done' = DOMAIN done
        BY <3>1
      <4>1. CASE k = Len(done)
        <5>1. done'[k] = [done[k] EXCEPT !.val = x]
          BY <1>0, <3>1, <4>1
        <5>2. done[k] \in [expr : Value, env : Value, val : Value]
          BY <1>0, ElementOfSeq DEF Log
        <5>3. \A r \in [expr : Value, env : Value, val : Value] : [r EXCEPT !.val = x].expr = r.expr
          OBVIOUS
        <5>4. done'[k].expr = done[k].expr
          BY <5>1, <5>2, <5>3
        <5>5. QED  BY <1>0, <4>0, <5>4
      <4>2. CASE k # Len(done)
        BY <1>0, <3>1, <4>0, <4>2
      <4>3. QED  BY <4>1, <4>2
    <3>3. QED  BY <3>2
  <2>3. CASE ~Start /\ ~Finish
    <3>1. done' = done
      BY <2>3 DEF Next, vars, EvalAtom, EvalSymbol, Lookup, EvalList, EvalQuote, EvalIf,
         EvalDefine, EvalCall, ThenIf, ThenDefine, ThenArguments, ThenRest, ThenCons, ThenApply
    <3>2. QED  BY <1>0, <3>1
  <2>4. QED  BY <2>1, <2>2, <2>3
<1>5. IsProgram(T, R, M, D, P)
  BY <1>0, <1>4 DEF IsProgram
<1>6. QED  BY <1>0, <1>1, <1>2, <1>3, <1>4, <1>5

LEMMA EvalInit ==
  ASSUME NEW T, NEW R, NEW U, NEW M, NEW Ms, NEW D, NEW P, Init
  PROVE  EvalInv(T, R, U, M, Ms, D, P)
<1> SUFFICES ASSUME IsProgram(T, R, M, D, P)
             PROVE  \E n : Evaluating(n, T, U, M, Ms, D, P)
  BY DEF EvalInv
<1>1. Len(done) = 0 /\ stack = << >> /\ g_env = NIL /\ mode = "idle" /\ P[1] = << >>
  BY DEF Init, IsProgram
<1>2. Tree(D, NIL) = NIL
  BY TreeOfAtom, EvaluatorSymbols
<1>3. Evaluated(0, M, D, P)
  BY DEF Evaluated
<1>4. IsAlist(Tree(D, g_env), P[0 + 1])
  BY <1>1, <1>2, AlistEmpty
<1>5. Evaluating(0, T, U, M, Ms, D, P)
  BY <1>1, <1>3, <1>4 DEF Evaluating
<1>6. QED  BY <1>5

LEMMA EvalStep ==
  ASSUME NEW T, NEW R, NEW U, NEW M, NEW Ms, NEW D, NEW P, IsMeaning(T, R, U, M, Ms),
         IInv, EvalInv(T, R, U, M, Ms, D, P), [Next]_vars
  PROVE  EvalInv(T, R, U, M, Ms, D, P)'
<1> SUFFICES ASSUME Len(heap') < MemSize, IsTrees(D, heap'), IsProgram(T, R, M, D, P)'
             PROVE  \E n : Evaluating(n, T, U, M, Ms, D, P)'
  BY DEF EvalInv
<1>a. /\ Len(heap) < MemSize /\ IsTrees(D, heap) /\ IsProgram(T, R, M, D, P)
      /\ HeapOK(heap') /\ Len(done) \in Nat
      /\ \A k \in 1 .. Len(done) : k \in DOMAIN done' /\ done'[k].expr = done[k].expr
  BY ReadBefore
<1>n. PICK n : Evaluating(n, T, U, M, Ms, D, P)
  BY <1>a DEF EvalInv
<1>0. /\ n = Len(done) /\ n \in Nat /\ done \in Log /\ DOMAIN done = 1 .. n
      /\ done \in Seq([expr : Value, env : Value, val : Value])
      /\ \A k \in 1 .. n : k \in DOMAIN done' /\ done'[k].expr = done[k].expr
  BY <1>n, <1>a DEF IInv, Log, Evaluating
<1>1. mode = "idle" => stack = << >> /\ Evaluated(n, M, D, P) /\ IsAlist(Tree(D, g_env), P[n + 1])
  BY <1>n DEF Evaluating
<1>2. ASSUME mode # "idle"
      PROVE  /\ n > 0 /\ n \in DOMAIN done /\ Evaluated(n - 1, M, D, P) /\ P[n] \in R
             /\ \E rho, top, s, w :
                  /\ rho = P[n] /\ top = M[<<Tree(D, done[n].expr), P[n]>>]
                  /\ Running(T, U, M, Ms, D, rho, top, s, w)
  <2>1. /\ n > 0 /\ Evaluated(n - 1, M, D, P)
        /\ \E rho, top, s, w :
             /\ rho = P[n] /\ top = M[<<Tree(D, done[n].expr), P[n]>>]
             /\ Running(T, U, M, Ms, D, rho, top, s, w)
    BY <1>n, <1>2 DEF Evaluating
  <2>2. n \in DOMAIN done
    BY <1>0, <2>1
  <2>3. P[n] \in R
    BY <1>a, <2>2 DEF IsProgram
  <2>4. QED  BY <2>1, <2>2, <2>3
<1>3. CASE Start
  <2>1. /\ mode = "idle" /\ mode' = "eval" /\ x' = Head(roots) /\ env' = g_env
        /\ UNCHANGED <<heap, g_env, stack>>
        /\ done' = Append(done, [expr |-> x', env |-> g_env, val |-> NIL])
    BY <1>3 DEF Start
  <2>2. PICK r : r = [expr |-> x', env |-> g_env, val |-> NIL]
    OBVIOUS
  <2>3. Len(done') = n + 1 /\ done'[n + 1] = r /\ (\A k \in 1 .. n : done'[k] = done[k])
        /\ n + 1 \in DOMAIN done'
    BY <1>0, <2>1, <2>2
  <2>4. PICK t : t = Tree(D, x')
    OBVIOUS
  <2>5. PICK k, rho : k = n + 1 /\ rho = P[k]
    OBVIOUS
  <2>6. Tree(D, done'[k].expr) = t /\ k \in DOMAIN done'
    BY <2>2, <2>3, <2>4, <2>5
  <2>7. t \in T /\ rho \in R
    <3>1. Tree(D, done'[k].expr) \in T /\ P[k] \in R
      BY <2>6 DEF IsProgram
    <3>2. QED  BY <2>5, <2>6, <3>1
  <2>8. PICK m : m = M[<<t, rho>>]
    OBVIOUS
  <2>9. m \in Results(U) /\ rho \in Seq(U \X U)
    BY <2>7, <2>8, MeaningOf
  <2>10. IsAlist(Tree(D, g_env), rho) /\ stack = << >>
    BY <1>1, <2>1, <2>5
  <2>11. m = After(<< >>, m)
    <3>1. m.defs \in Seq(U \X U) /\ m = [v |-> m.v, defs |-> m.defs]
      BY <2>9 DEF Results
    <3>2. << >> \o m.defs = m.defs
      BY <3>1
    <3>3. QED  BY <3>1, <3>2 DEF After
  <2>12. NowMeans(T, M, Ms, D, rho, << >>, After(<< >>, M[<<t, rho>>]))'
    BY <2>1, <2>4, <2>7, <2>10, NowEval
  <2>13. Running(T, U, M, Ms, D, rho, m, << >>, <<m>>)'
    <3>1. rho \o << >> = rho /\ << >> \in Seq(U \X U)
      BY <2>9
    <3>2. <<m>>[1] = m /\ <<m>> \in Seq(Results(U)) /\ Len(<<m>>) = 1
      BY <2>9
    <3>3. IsAlist(Tree(D, g_env'), rho \o << >>)
      BY <2>1, <2>10, <3>1
    <3>4. NowMeans(T, M, Ms, D, rho, << >>, <<m>>[1])'
      BY <2>8, <2>11, <2>12, <3>2
    <3>5. Waits(T, U, M, Ms, D, rho, m, stack, <<m>>)'
      <4>1. stack' = << >> /\ Len(<< >>) = 0 /\ DOMAIN << >> = {}
        BY <2>1, <2>10
      <4>2. QED  BY <3>2, <4>1 DEF Waits
    <3>6. QED  BY <3>1, <3>3, <3>4, <3>5 DEF Running
  <2>14. Evaluated(n, M, D, P)' /\ n = k - 1 /\ k > 0
    BY <1>0, <1>1, <2>1, <2>3, <2>5 DEF Evaluated
  <2>15. Evaluating(k, T, U, M, Ms, D, P)'
    <3>1. k = Len(done') /\ mode' # "idle" /\ Evaluated(k - 1, M, D, P)'
      BY <2>1, <2>3, <2>5, <2>14
    <3>2. rho = P[k] /\ m = M[<<Tree(D, done'[k].expr), P[k]>>]
      BY <2>5, <2>6, <2>8
    <3>3. QED  BY <2>13, <2>14, <3>1, <3>2 DEF Evaluating
  <2>16. QED  BY <2>15
<1>4. CASE Finish
  <2>1. /\ mode = "return" /\ mode' = "idle" /\ stack = << >> /\ stack' = stack
        /\ g_env' = g_env /\ done' = [done EXCEPT ![n].val = x]
    BY <1>0, <1>4 DEF Finish
  <2>2. PICK rho, top, s, w : /\ rho = P[n] /\ top = M[<<Tree(D, done[n].expr), P[n]>>]
                              /\ Running(T, U, M, Ms, D, rho, top, s, w)
    BY <1>2, <2>1
  <2>3. w[1] = top /\ w[1] = [v |-> Tree(D, x), defs |-> s] /\ IsAlist(Tree(D, g_env), rho \o s)
    <3>1. Len(w) = Len(stack) + 1 /\ w[Len(w)] = top
      BY <2>2 DEF Running, Waits
    <3>2. Len(stack) = 0
      BY <2>1
    <3>3. QED  BY <2>1, <2>2, <3>1, <3>2 DEF Running, NowMeans
  <2>4. n \in DOMAIN done /\ n > 0 /\ Evaluated(n - 1, M, D, P)
    BY <1>2, <2>1
  <2>5. P[n + 1] = rho \o s
    <3>1. P[n + 1] = P[n] \o M[<<Tree(D, done[n].expr), P[n]>>].defs
      BY <1>a, <2>4 DEF IsProgram
    <3>2. M[<<Tree(D, done[n].expr), P[n]>>] = top /\ P[n] = rho /\ top.defs = s
      BY <2>2, <2>3
    <3>3. QED  BY <3>1, <3>2
  <2>6. DOMAIN done' = DOMAIN done /\ (\A k \in DOMAIN done : k # n => done'[k] = done[k])
        /\ Len(done') = n
    BY <1>0, <2>1, <2>4
  <2>7. done'[n].val = x /\ done'[n].expr = done[n].expr
    <3>1. done[n] \in [expr : Value, env : Value, val : Value]
      BY <1>0, <2>4, ElementOfSeq
    <3>2. done'[n] = [done[n] EXCEPT !.val = x]
      BY <2>1, <2>4
    <3>3. \A r \in [expr : Value, env : Value, val : Value] :
             [r EXCEPT !.val = x].expr = r.expr /\ [r EXCEPT !.val = x].val = x
      OBVIOUS
    <3>4. QED  BY <3>1, <3>2, <3>3
  <2>8. ASSUME NEW k \in 1 .. n
        PROVE  Tree(D, done'[k].val) = M[<<Tree(D, done'[k].expr), P[k]>>].v
    <3>1. CASE k = n
      <4>1. Tree(D, done'[n].val) = top.v
        BY <2>3, <2>7
      <4>2. M[<<Tree(D, done'[n].expr), P[n]>>] = top
        BY <2>2, <2>7
      <4>3. QED  BY <3>1, <4>1, <4>2
    <3>2. CASE k # n
      <4>1. k \in 1 .. n - 1 /\ done'[k] = done[k]
        BY <1>0, <2>6, <3>2
      <4>2. QED  BY <2>4, <4>1 DEF Evaluated
    <3>3. QED  BY <3>1, <3>2
  <2>9. Evaluated(n, M, D, P)'
    BY <2>8 DEF Evaluated
  <2>10. IsAlist(Tree(D, g_env'), P[n + 1])
    BY <2>1, <2>3, <2>5
  <2>11. Evaluating(n, T, U, M, Ms, D, P)'
    BY <2>1, <2>6, <2>9, <2>10 DEF Evaluating
  <2>12. QED  BY <2>11
<1>5. CASE ~Start /\ ~Finish
  <2>1. done' = done
    BY <1>5 DEF Next, vars, EvalAtom, EvalSymbol, Lookup, EvalList, EvalQuote, EvalIf,
       EvalDefine, EvalCall, ThenIf, ThenDefine, ThenArguments, ThenRest, ThenCons, ThenApply
  <2>2. CASE UNCHANGED vars
    <3>1. /\ mode' = mode /\ stack' = stack /\ g_env' = g_env /\ x' = x /\ env' = env /\ done' = done
      BY <2>2 DEF vars
    <3>2. /\ Evaluated(n, M, D, P) => Evaluated(n, M, D, P)'
          /\ Evaluated(n - 1, M, D, P) => Evaluated(n - 1, M, D, P)'
      BY <3>1 DEF Evaluated
    <3>3. ASSUME NEW rho, NEW top, NEW s, NEW w, Running(T, U, M, Ms, D, rho, top, s, w)
          PROVE  Running(T, U, M, Ms, D, rho, top, s, w)'
      <4>1. Waits(T, U, M, Ms, D, rho, top, stack, w)'
        BY <3>1, <3>3 DEF Running, Waits, FrameMeans
      <4>2. NowMeans(T, M, Ms, D, rho, s, w[1])'
        BY <3>1, <3>3 DEF Running, NowMeans
      <4>3. QED  BY <3>1, <3>3, <4>1, <4>2 DEF Running
    <3>4. Evaluating(n, T, U, M, Ms, D, P)'
      <4>1. CASE mode = "idle"
        BY <1>n, <3>1, <3>2, <4>1 DEF Evaluating
      <4>2. CASE mode # "idle"
        <5>1. PICK rho, top, s, w : /\ rho = P[n] /\ top = M[<<Tree(D, done[n].expr), P[n]>>]
                                    /\ Running(T, U, M, Ms, D, rho, top, s, w)
          BY <1>2, <4>2
        <5>2. Running(T, U, M, Ms, D, rho, top, s, w)'
          BY <3>3, <5>1
        <5>3. top = M[<<Tree(D, done'[n].expr), P[n]>>]
          BY <3>1, <5>1
        <5>4. n = Len(done') /\ mode' # "idle" /\ n > 0 /\ Evaluated(n - 1, M, D, P)'
          BY <1>n, <3>1, <3>2, <4>2 DEF Evaluating
        <5>5. QED  BY <5>1, <5>2, <5>3, <5>4 DEF Evaluating
      <4>3. QED  BY <4>1, <4>2
    <3>5. QED  BY <3>4
  <2>3. CASE ~UNCHANGED vars
    <3>1. mode # "idle" /\ mode' # "idle"
      BY <1>5, <2>3 DEF Next, EvalAtom, EvalSymbol, Lookup, EvalList, EvalQuote, EvalIf, EvalDefine,
         EvalCall, ThenIf, ThenDefine, ThenArguments, ThenRest, ThenCons, ThenApply, Return, Resume
    <3>2. PICK rho, top, s, w : /\ rho = P[n] /\ top = M[<<Tree(D, done[n].expr), P[n]>>]
                                /\ Running(T, U, M, Ms, D, rho, top, s, w)
      BY <1>2, <3>1
    <3>3. rho \in R
      BY <1>2, <3>1, <3>2
    <3>4. \E s1, w1 : Running(T, U, M, Ms, D, rho, top, s1, w1)'
      <4>1. CASE EvalAtom \/ EvalSymbol \/ Lookup \/ EvalQuote \/ EvalIf \/ EvalDefine \/ EvalCall
                 \/ EvalList
        BY <1>a, <3>2, <3>3, <4>1, RunsOn
      <4>2. CASE ThenIf \/ ThenDefine \/ ThenArguments \/ ThenRest \/ ThenCons \/ ThenApply
        BY <1>a, <3>2, <3>3, <4>2, RunsBack
      <4>3. QED  BY <1>5, <2>3, <4>1, <4>2 DEF Next
    <3>5. PICK s1, w1 : Running(T, U, M, Ms, D, rho, top, s1, w1)'
      BY <3>4
    <3>6. n > 0 /\ Evaluated(n - 1, M, D, P)' /\ n = Len(done')
      BY <1>0, <1>2, <2>1, <3>1 DEF Evaluated
    <3>7. top = M[<<Tree(D, done'[n].expr), P[n]>>]
      BY <2>1, <3>2
    <3>8. Evaluating(n, T, U, M, Ms, D, P)'
      BY <3>1, <3>2, <3>5, <3>6, <3>7 DEF Evaluating
    <3>9. QED  BY <3>8
  <2>4. QED  BY <2>2, <2>3
<1>6. QED  BY <1>3, <1>4, <1>5

\* eval of pair-machine.c computes what an expression means, for every program,
\* every size of the memory and every function that is a meaning of it: the
\* value, and with it the definitions that later expressions see, as long as
\* the memory is not exhausted.
THEOREM EvalCorrect ==
  ASSUME NEW T, NEW R, NEW U, NEW M, NEW Ms, IsMeaning(T, R, U, M, Ms), NEW D, NEW P
  PROVE  Spec => []EvalMeans(T, R, M, D, P)
<1>1. Init => EvalInv(T, R, U, M, Ms, D, P)
  BY EvalInit
<1>2. IInv /\ EvalInv(T, R, U, M, Ms, D, P) /\ [Next]_vars => EvalInv(T, R, U, M, Ms, D, P)'
  BY EvalStep
<1>3. IInv /\ EvalInv(T, R, U, M, Ms, D, P) => EvalMeans(T, R, M, D, P)
  BY DEF EvalInv, EvalMeans, Evaluating, Evaluated, IInv, Log
<1>4. QED  BY <1>1, <1>2, <1>3, IInvHolds, PTL DEF Spec

=============================================================================
