----------------------------- MODULE PairMachine -----------------------------
(***************************************************************************)
(* The pair machine of pair-machine.c: a fixed memory of cons cells that   *)
(* nothing ever frees, a global environment kept as an alist in the same   *)
(* memory, and eval.  The recursion of the C functions is a stack of       *)
(* frames here, one for every call that waits for the value of another:    *)
(*                                                                         *)
(*   "if", "define"   eval waits for the test, for the value to bind       *)
(*   "fn", "apply"    eval waits for the operator, then for its arguments  *)
(*   "first", "rest"  eval_list waits for the head, then for the tail      *)
(*                                                                         *)
(* The program starts with an image, the expressions that the reader has   *)
(* put into memory, and evaluates them in turn in the global environment.  *)
(***************************************************************************)
EXTENDS Naturals, Sequences

CONSTANTS
  MemSize,   \* MEM_SIZE, 4096
  Images     \* the images: cells read so far, and the expressions to evaluate

\* Values: a tag of two bits and a payload.
Value == [tag : {"int", "sym", "ref", "spec"}, n : Nat]
Cell  == [car : Value, cdr : Value]

Num(k) == [tag |-> "int", n |-> k]
Sym(k) == [tag |-> "sym", n |-> k]
Ref(k) == [tag |-> "ref", n |-> k]
NIL    == [tag |-> "spec", n |-> 0]
TRUTH  == [tag |-> "spec", n |-> 1]

QUOTE   == Sym(0)
IF_     == Sym(1)
DEFINE_ == Sym(2)
CAR     == Sym(3)
CDR     == Sym(4)
CONS    == Sym(5)

\* Is v no reference, or one to a cell below k?
Below(v, k) == v.tag = "ref" => v.n < k

\* Every cell refers to older cells only.
WellFounded(h) == \A i \in DOMAIN h : Below(h[i].car, i - 1) /\ Below(h[i].cdr, i - 1)

ASSUME PairConstants ==
  /\ MemSize \in 0 .. 16384   \* a payload has 14 bits
  /\ \A im \in Images :
       /\ im.cells \in Seq(Cell) /\ Len(im.cells) <= MemSize /\ WellFounded(im.cells)
       /\ im.roots \in Seq(Value)
       /\ \A i \in DOMAIN im.roots : Below(im.roots[i], Len(im.cells))

VARIABLES
  heap,    \* the cells below free_ptr; cell k of the code is heap[k + 1]
  g_env,
  roots,   \* the expressions still to evaluate
  mode,    \* "idle", or what runs: "eval", "list", "lookup", "return"
  x,       \* its argument: an expression, a list, a symbol, the value returned
  env,     \* the environment it uses; while a symbol is looked up, the rest of it
  stack,   \* the calls that wait, the innermost first
  done     \* the evaluations made: expression, environment and value

vars == <<heap, g_env, roots, mode, x, env, stack, done>>

Frame == [kind : {"if", "define", "fn", "apply", "first", "rest"}, a : Value, b : Value]

Call(kind, a, b) == [kind |-> kind, a |-> a, b |-> b]

\* cell_car and cell_cdr.
Car(v) == IF v.tag = "ref" THEN heap[v.n + 1].car ELSE NIL
Cdr(v) == IF v.tag = "ref" THEN heap[v.n + 1].cdr ELSE NIL

\* Mutant: the bound is off by one.
AllocPastEnd(h) == IF Len(h) <= MemSize THEN Ref(Len(h)) ELSE NIL

\* Mutant: a full memory is used again from its first cell on.
ExtendWraps(h, a, d) ==
  IF Len(h) < MemSize THEN Append(h, [car |-> a, cdr |-> d])
  ELSE [h EXCEPT ![1] = [car |-> a, cdr |-> d]]

\* alloc_cell: a full memory is reported, and nil returned.
Alloc(h) == IF Len(h) < MemSize THEN Ref(Len(h)) ELSE NIL
Extend(h, a, d) == IF Len(h) < MemSize THEN Append(h, [car |-> a, cdr |-> d]) ELSE h

-----------------------------------------------------------------------------
Init ==
  /\ \E im \in Images : heap = im.cells /\ roots = im.roots
  /\ g_env = NIL
  /\ mode = "idle" /\ x = NIL /\ env = NIL
  /\ stack = << >>
  /\ done = << >>

Start ==
  /\ mode = "idle" /\ roots # << >>
  /\ mode' = "eval" /\ x' = Head(roots) /\ env' = g_env
  /\ roots' = Tail(roots)
  /\ done' = Append(done, [expr |-> x', env |-> g_env, val |-> NIL])
  /\ UNCHANGED <<heap, g_env, stack>>

Return(v) == mode' = "return" /\ x' = v

\* eval of what evaluates to itself.
EvalAtom ==
  /\ mode = "eval" /\ x.tag \in {"int", "spec"}
  /\ Return(IF x.tag = "int" \/ x = TRUTH THEN x ELSE NIL)
  /\ UNCHANGED <<heap, g_env, roots, env, stack, done>>

EvalSymbol ==
  /\ mode = "eval" /\ x.tag = "sym"
  /\ mode' = "lookup"
  /\ UNCHANGED <<heap, g_env, roots, x, env, stack, done>>

\* Mutant: a symbol that the local environment does not bind is looked up in
\* the global one.
LookupRestarts ==
  /\ mode = "lookup"
  /\ LET binding == Car(env) IN
     \/ /\ env = NIL
        /\ Return(x)
        /\ UNCHANGED env
     \/ /\ env # NIL /\ Car(binding) = x
        /\ Return(IF Cdr(binding) = NIL THEN x ELSE Cdr(binding))
        /\ UNCHANGED env
     \/ /\ env # NIL /\ Car(binding) # x
        /\ env' = IF Cdr(env) = NIL THEN g_env ELSE Cdr(env)
        /\ UNCHANGED <<mode, x>>
  /\ UNCHANGED <<heap, g_env, roots, stack, done>>

\* One turn of the loop of env_lookup.  A symbol with no binding, or with nil
\* as its value, evaluates to itself.
Lookup ==
  /\ mode = "lookup"
  /\ LET binding == Car(env) IN
     \/ /\ env = NIL
        /\ Return(x)
        /\ UNCHANGED env
     \/ /\ env # NIL /\ Car(binding) = x
        /\ Return(IF Cdr(binding) = NIL THEN x ELSE Cdr(binding))
        /\ UNCHANGED env
     \/ /\ env # NIL /\ Car(binding) # x
        /\ env' = Cdr(env)
        /\ UNCHANGED <<mode, x>>
  /\ UNCHANGED <<heap, g_env, roots, stack, done>>

\* eval of a cell.
EvalQuote ==
  /\ mode = "eval" /\ x.tag = "ref" /\ Car(x) = QUOTE
  /\ Return(Car(Cdr(x)))
  /\ UNCHANGED <<heap, g_env, roots, env, stack, done>>

EvalIf ==
  /\ mode = "eval" /\ x.tag = "ref" /\ Car(x) = IF_
  /\ stack' = <<Call("if", Cdr(x), env)>> \o stack
  /\ x' = Car(Cdr(x))
  /\ UNCHANGED <<heap, g_env, roots, mode, env, done>>

EvalDefine ==
  /\ mode = "eval" /\ x.tag = "ref" /\ Car(x) = DEFINE_
  /\ stack' = <<Call("define", Car(Cdr(x)), env)>> \o stack
  /\ x' = Car(Cdr(Cdr(x)))
  /\ UNCHANGED <<heap, g_env, roots, mode, env, done>>

EvalCall ==
  /\ mode = "eval" /\ x.tag = "ref" /\ Car(x) \notin {QUOTE, IF_, DEFINE_}
  /\ stack' = <<Call("fn", Cdr(x), env)>> \o stack
  /\ x' = Car(x)
  /\ UNCHANGED <<heap, g_env, roots, mode, env, done>>

EvalList ==
  /\ mode = "list"
  /\ \/ /\ x = NIL
        /\ Return(NIL)
        /\ UNCHANGED stack
     \/ /\ x # NIL
        /\ stack' = <<Call("first", x, env)>> \o stack
        /\ mode' = "eval" /\ x' = Car(x)
  /\ UNCHANGED <<heap, g_env, roots, env, done>>

-----------------------------------------------------------------------------
\* A value comes back to the call that waits for it.

Resume(kind) == mode = "return" /\ stack # << >> /\ Head(stack).kind = kind

ThenIf ==
  /\ Resume("if")
  /\ LET f == Head(stack) IN
     /\ x' = IF x = NIL THEN Car(Cdr(Cdr(f.a))) ELSE Car(Cdr(f.a))
     /\ env' = f.b
  /\ mode' = "eval"
  /\ stack' = Tail(stack)
  /\ UNCHANGED <<heap, g_env, roots, done>>

\* Mutant: the definition is put in front of the environment that eval was
\* called with.
ThenDefineStale ==
  /\ Resume("define")
  /\ LET var == Head(stack).a
         one == Extend(heap, var, x) IN
     /\ g_env' = Alloc(one)
     /\ heap' = Extend(one, Alloc(heap), Head(stack).b)
     /\ x' = var
  /\ stack' = Tail(stack)
  /\ UNCHANGED <<roots, mode, env, done>>

\* env_extend on the global environment, not on the one eval was called with:
\* two cells, either of which may find the memory full.
ThenDefine ==
  /\ Resume("define")
  /\ LET var == Head(stack).a
         one == Extend(heap, var, x) IN
     /\ g_env' = Alloc(one)
     /\ heap' = Extend(one, Alloc(heap), g_env)
     /\ x' = var
  /\ stack' = Tail(stack)
  /\ UNCHANGED <<roots, mode, env, done>>

ThenArguments ==
  /\ Resume("fn")
  /\ stack' = <<Call("apply", x, NIL)>> \o Tail(stack)
  /\ mode' = "list" /\ x' = Head(stack).a /\ env' = Head(stack).b
  /\ UNCHANGED <<heap, g_env, roots, done>>

ThenRest ==
  /\ Resume("first")
  /\ stack' = <<Call("rest", x, NIL)>> \o Tail(stack)
  /\ mode' = "list" /\ x' = Cdr(Head(stack).a) /\ env' = Head(stack).b
  /\ UNCHANGED <<heap, g_env, roots, done>>

\* Mutant: the list of values is put together from its head on.
ThenConsReversed ==
  /\ Resume("rest")
  /\ x' = Alloc(heap)
  /\ heap' = Extend(heap, x, Head(stack).a)
  /\ stack' = Tail(stack)
  /\ UNCHANGED <<g_env, roots, mode, env, done>>

ThenCons ==
  /\ Resume("rest")
  /\ x' = Alloc(heap)
  /\ heap' = Extend(heap, Head(stack).a, x)
  /\ stack' = Tail(stack)
  /\ UNCHANGED <<g_env, roots, mode, env, done>>

\* apply_primitive; x holds the list of arguments.
ThenApply ==
  /\ Resume("apply")
  /\ LET fn == Head(stack).a IN
     \/ /\ fn = CAR
        /\ x' = Car(Car(x))
        /\ UNCHANGED heap
     \/ /\ fn = CDR
        /\ x' = Cdr(Car(x))
        /\ UNCHANGED heap
     \/ /\ fn = CONS
        /\ x' = Alloc(heap)
        /\ heap' = Extend(heap, Car(x), Car(Cdr(x)))
     \/ /\ fn \notin {CAR, CDR, CONS}
        /\ x' = NIL
        /\ UNCHANGED heap
  /\ stack' = Tail(stack)
  /\ UNCHANGED <<g_env, roots, mode, env, done>>

Finish ==
  /\ mode = "return" /\ stack = << >>
  /\ mode' = "idle"
  /\ done' = [done EXCEPT ![Len(done)].val = x]
  /\ UNCHANGED <<heap, g_env, roots, x, env, stack>>

Next ==
  \/ Start \/ Finish
  \/ EvalAtom \/ EvalSymbol \/ Lookup \/ EvalList
  \/ EvalQuote \/ EvalIf \/ EvalDefine \/ EvalCall
  \/ ThenIf \/ ThenDefine \/ ThenArguments \/ ThenRest \/ ThenCons \/ ThenApply

\* main() runs on its own and nothing interrupts it.
Spec == Init /\ [][Next]_vars /\ WF_vars(Next)

-----------------------------------------------------------------------------
(***************************************************************************)
(* Properties.                                                             *)
(***************************************************************************)

\* Types, and no value that the machine holds refers to a cell that has not
\* been handed out.
TypeOK ==
  /\ heap \in Seq(Cell) /\ Len(heap) <= MemSize
  /\ roots \in Seq(Value)
  /\ mode \in {"idle", "eval", "list", "lookup", "return"}
  /\ stack \in Seq(Frame)
  /\ done \in Seq([expr : Value, env : Value, val : Value])
  /\ \A v \in {g_env, x, env} : v \in Value /\ Below(v, Len(heap))
  /\ \A i \in DOMAIN roots : Below(roots[i], Len(heap))
  /\ \A i \in DOMAIN stack : Below(stack[i].a, Len(heap)) /\ Below(stack[i].b, Len(heap))

\* The memory is a dag, full or not: what car and cdr walk down ends.
Dag == WellFounded(heap)

\* A cell, once written, is never written again: no value that is held
\* changes its meaning.
CellsAreConstant ==
  [][Len(heap) <= Len(heap') /\ SubSeq(heap', 1, Len(heap)) = heap]_vars

\* The program ends, whatever the memory holds when it is exhausted.
Ends == <>(mode = "idle" /\ roots = << >>)

\* A definition is put in front of the ones there are, and none is lost, while
\* the memory has room for the two cells that env_extend needs.
Room == Len(heap) + 2 <= MemSize
EnvGrows == [][Room /\ g_env' # g_env => Cdr(g_env)' = g_env]_vars

-----------------------------------------------------------------------------
(***************************************************************************)
(* What an evaluation means, without memory, stack or alists.  A value     *)
(* stands for a tree, an environment for the definitions made so far, the  *)
(* oldest first.                                                           *)
(***************************************************************************)

Pair(t, u) == [car |-> t, cdr |-> u]
IsPair(t)  == DOMAIN t = {"car", "cdr"}
Head1(t)   == IF IsPair(t) THEN t.car ELSE NIL
Rest1(t)   == IF IsPair(t) THEN t.cdr ELSE NIL
Second(t)  == Head1(Rest1(t))
Third(t)   == Head1(Rest1(Rest1(t)))
Fourth(t)  == Head1(Rest1(Rest1(Rest1(t))))

\* The value that rho gives to the symbol s: that of its last definition, and
\* the symbol itself where there is none, or where nil was defined.
Binding(rho, s) ==
  LET defs == {i \in DOMAIN rho : rho[i][1] = s}
      last == CHOOSE i \in defs : \A j \in defs : j <= i
  IN  IF defs = {} \/ rho[last][2] = NIL THEN s ELSE rho[last][2]

AtomMeans(t, rho) ==
  IF t.tag = "sym" THEN Binding(rho, t)
  ELSE IF t.tag = "int" \/ t = TRUTH THEN t ELSE NIL

Primitive(fn, args) ==
  CASE fn = CAR  -> Head1(Head1(args))
    [] fn = CDR  -> Rest1(Head1(args))
    [] fn = CONS -> Pair(Head1(args), Second(args))
    [] OTHER     -> NIL

\* M says what the expressions in T evaluate to in the environments in R, and
\* which definitions are made on the way, Ms the same of lists of expressions.
\* Arguments see none of the definitions that their neighbours make.
ExpressionMeans(M, Ms, t, rho) ==
  /\ ~IsPair(t) => M[<<t, rho>>] = [v |-> AtomMeans(t, rho), defs |-> << >>]
  /\ IsPair(t) /\ t.car = QUOTE => M[<<t, rho>>] = [v |-> Second(t), defs |-> << >>]
  /\ IsPair(t) /\ t.car = IF_ =>
       LET c == M[<<Second(t), rho>>]
           r == M[<<IF c.v = NIL THEN Fourth(t) ELSE Third(t), rho>>]
       IN  M[<<t, rho>>] = [v |-> r.v, defs |-> c.defs \o r.defs]
  /\ IsPair(t) /\ t.car = DEFINE_ =>
       LET r == M[<<Third(t), rho>>]
       IN  M[<<t, rho>>] = [v |-> Second(t), defs |-> Append(r.defs, <<Second(t), r.v>>)]
  /\ IsPair(t) /\ t.car \notin {QUOTE, IF_, DEFINE_} =>
       LET fn == M[<<t.car, rho>>]
           as == Ms[<<t.cdr, rho>>]
       IN  M[<<t, rho>>] = [v |-> Primitive(fn.v, as.v), defs |-> fn.defs \o as.defs]

ListMeans(M, Ms, t, rho) ==
  IF t = NIL THEN Ms[<<t, rho>>] = [v |-> NIL, defs |-> << >>]
  ELSE LET a == M[<<Head1(t), rho>>]
           d == Ms[<<Rest1(t), rho>>]
       IN  Ms[<<t, rho>>] = [v |-> Pair(a.v, d.v), defs |-> a.defs \o d.defs]

IsMeaning(T, R, U, M, Ms) ==
  /\ NIL \in T /\ \A t \in T : Head1(t) \in T /\ Rest1(t) \in T
  /\ R \subseteq Seq(U \X U)
  /\ M \in [T \X R -> [v : U, defs : Seq(U \X U)]]
  /\ Ms \in [T \X R -> [v : U, defs : Seq(U \X U)]]
  /\ \A t \in T, rho \in R : ExpressionMeans(M, Ms, t, rho) /\ ListMeans(M, Ms, t, rho)

\* D[i] is the tree that cell i stands for.
Tree(D, v)    == IF v.tag = "ref" THEN D[v.n + 1] ELSE v
IsTrees(D, h) == \A i \in DOMAIN h : D[i] = Pair(Tree(D, h[i].car), Tree(D, h[i].cdr))

\* P[k] is the environment that the expressions before the k-th leave.
IsProgram(T, R, M, D, P) ==
  /\ P[1] = << >>
  /\ \A k \in DOMAIN done :
       LET t == Tree(D, done[k].expr)
       IN  t \in T /\ P[k] \in R /\ P[k + 1] = P[k] \o M[<<t, P[k]>>].defs

\* Every expression evaluates to its meaning, in the environment that the
\* expressions before it leave, whatever frames, alists and shared cells are in
\* between, as long as the memory is not exhausted (pair-machine.c:191-311).
EvalMeans(T, R, M, D, P) ==
  (mode = "idle" /\ Len(heap) < MemSize /\ IsTrees(D, heap) /\ IsProgram(T, R, M, D, P)) =>
    \A k \in DOMAIN done : Tree(D, done[k].val) = M[<<Tree(D, done[k].expr), P[k]>>].v

==============================================================================
