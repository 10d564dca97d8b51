---------------------------- MODULE MCPairMachine ----------------------------
(***************************************************************************)
(* PairMachine for TLC.  Programs are trees, the reader puts them into     *)
(* memory, and Meaning says what each is to evaluate to without memory,    *)
(* stack or alists: an environment is a function from symbols to trees.    *)
(***************************************************************************)
EXTENDS PairMachine, FiniteSets, TLC

X == Sym(6)
Y == Sym(7)

L1(a) == Pair(a, NIL)
L2(a, b) == Pair(a, L1(b))
L3(a, b, c) == Pair(a, L2(b, c))
L4(a, b, c, d) == Pair(a, L3(b, c, d))

\* The reader: head, tail, then the cell that joins them.
RECURSIVE Encode(_, _)
Encode(t, h) ==
  IF ~IsPair(t) THEN [v |-> t, h |-> h]
  ELSE LET a == Encode(t.car, h)
           d == Encode(t.cdr, a.h)
       IN  [v |-> Ref(Len(d.h)), h |-> Append(d.h, Pair(a.v, d.v))]

RECURSIVE ReadAll(_, _)
ReadAll(ts, im) ==
  IF ts = << >> THEN im
  ELSE LET e == Encode(Head(ts), im.cells)
       IN  ReadAll(Tail(ts), [cells |-> e.h, roots |-> Append(im.roots, e.v)])

Image(ts) == ReadAll(ts, [cells |-> << >>, roots |-> << >>])

RECURSIVE Decode(_, _)
Decode(v, h) ==
  IF v.tag # "ref" THEN v
  ELSE Pair(Decode(h[v.n + 1].car, h), Decode(h[v.n + 1].cdr, h))

-----------------------------------------------------------------------------
\* The value of a tree, and the definitions made on the way.
RECURSIVE Meaning(_, _), Meanings(_, _)
Meaning(t, rho) ==
  IF ~IsPair(t) THEN [v |-> AtomMeans(t, rho), defs |-> << >>]
  ELSE CASE t.car = QUOTE -> [v |-> Second(t), defs |-> << >>]
         [] t.car = IF_ ->
              LET c == Meaning(Second(t), rho)
                  r == Meaning(IF c.v = NIL THEN Fourth(t) ELSE Third(t), rho)
              IN  [v |-> r.v, defs |-> c.defs \o r.defs]
         [] t.car = DEFINE_ ->
              LET r == Meaning(Third(t), rho)
              IN  [v |-> Second(t), defs |-> Append(r.defs, <<Second(t), r.v>>)]
         [] OTHER ->
              LET fn == Meaning(t.car, rho)
                  as == Meanings(t.cdr, rho)
              IN  [v |-> Primitive(fn.v, as.v), defs |-> fn.defs \o as.defs]
Meanings(ts, rho) ==
  IF ts = NIL THEN [v |-> NIL, defs |-> << >>]
  ELSE LET a == Meaning(Head1(ts), rho)
           d == Meanings(Rest1(ts), rho)
       IN  [v |-> Pair(a.v, d.v), defs |-> a.defs \o d.defs]

\* The environments before the first expression of a program, after it, after
\* the second...
RECURSIVE EnvsFrom(_, _)
EnvsFrom(rho, ts) ==
  <<rho>> \o
    (IF ts = << >> THEN << >> ELSE EnvsFrom(rho \o Meaning(Head(ts), rho).defs, Tail(ts)))

\* EvalMeans of the meaning above.
EvalIsMeaning ==
  mode = "idle" =>
    LET D == [i \in DOMAIN heap |-> Decode(Ref(i - 1), heap)]
        program == [k \in DOMAIN done |-> Tree(D, done[k].expr)]
        P == EnvsFrom(<< >>, program)
        T == {program[k] : k \in DOMAIN done}
        R == {P[k] : k \in DOMAIN P}
    IN  EvalMeans(T, R, [t \in T, rho \in R |-> Meaning(t, rho)], D, P)

-----------------------------------------------------------------------------
Atoms == {Num(1), X, NIL}
Quoted == L2(QUOTE, Pair(X, Num(2)))

Simple ==
  {L2(f, a) : f \in {CAR, CDR, QUOTE}, a \in Atoms \cup {Quoted}}
  \cup {L3(CONS, a, b) : a \in Atoms, b \in Atoms}
  \cup {L4(IF_, a, b, c) : a \in {NIL, X}, b \in {Num(1)}, c \in {X}}
  \cup {L3(DEFINE_, s, a) : s \in {X, CAR}, a \in {NIL, TRUTH, Quoted, CDR}}

Nested ==
  {L2(f, e) : f \in {CAR, CDR}, e \in Simple}
  \cup {L3(CONS, e, f) : e \in Simple, f \in {X, L3(DEFINE_, X, Num(5)), L2(CAR, Quoted)}}
  \cup {L4(IF_, e, f, X) : e \in Simple, f \in {L3(DEFINE_, Y, X)}}
  \cup {L3(DEFINE_, Y, e) : e \in Simple}
  \cup {L2(L4(IF_, X, CDR, CAR), Quoted), Pair(CAR, Num(1)), L1(CONS), L3(Num(1), X, X),
        L2(L2(CAR, Quoted), X)}

MCImages ==
  {im \in {Image(ts) : ts \in {<<p, q, r>> : p \in Simple, q \in Nested, r \in {X, Y}}} :
     Len(im.cells) <= MemSize}

-----------------------------------------------------------------------------
RECURSIVE Parts(_)
Parts(t) == {t} \cup (IF IsPair(t) THEN Parts(t.car) \cup Parts(t.cdr) ELSE {})

\* Meaning has the form that EvalMeans speaks of: here for the parts of one
\* program, in the environments that its definitions make.
Sample == <<L3(DEFINE_, X, Quoted), L3(DEFINE_, X, L2(CDR, X)), L3(CONS, L3(DEFINE_, Y, X), Y),
            L4(IF_, L2(CAR, NIL), X, L3(DEFINE_, X, NIL)), X>>

ASSUME SampleAssumption ==
  LET P == EnvsFrom(<< >>, Sample)
      R == {P[k] : k \in DOMAIN P}
      T == {NIL} \cup UNION {Parts(Sample[k]) : k \in DOMAIN Sample}
      M == [t \in T, rho \in R |-> Meaning(t, rho)]
      Ms == [t \in T, rho \in R |-> Meanings(t, rho)]
      U == {M[t, rho].v : t \in T, rho \in R} \cup {Ms[t, rho].v : t \in T, rho \in R}
  IN  IsMeaning(T, R, U \cup T, M, Ms)

=============================================================================
