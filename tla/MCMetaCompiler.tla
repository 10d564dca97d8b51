--------------------------- MODULE MCMetaCompiler ---------------------------
(***************************************************************************)
(* Texts for MetaCompiler: every sequence of up to four tokens, some       *)
(* longer ones that are cut or closed in odd places, and what print_value  *)
(* makes of expressions of two levels; and the meaning of an expression,   *)
(* given without macros and without code.                                  *)
(***************************************************************************)
EXTENDS MetaTrees

x == SymOf("x")
L(s) == FoldRight(Join, s, NIL)
F(op, args) == L(<<SymOf(op)>> \o args)

Atoms  == {Num(4), x, NIL, TRUTH}
Few    == {Num(4), x}
Level1 ==
  Atoms
    \cup {F(op, <<a, b>>) : op \in {"cons", "add", "mul"}, a \in Few, b \in Atoms}
    \cup {F(op, <<a>>) : op \in {"inc", "square", "car", "cdr", "quote", "if"}, a \in Atoms}
    \cup {F("inc", <<>>), F("square", <<x, x>>), Join(x, Num(4)), L(<<x, Join(x, x)>>)}
Level2 ==
  Level1
    \cup {F(op, <<a, b>>) : op \in {"cons", "mul"}, a \in Level1, b \in Few}
    \cup {F("cons", <<a, b>>) : a \in Few, b \in Level1}
    \cup {F(op, <<a>>) : op \in {"inc", "square", "cdr", "quote"}, a \in Level1}
    \cup {F("cons", <<SymOf("inc"), Num(4)>>), Join(Join(x, x), L(<<F("inc", <<x>>), x>>))}

Tokens == {Open, Close, Dot, Name("x"), Name("inc"), Name("foo"), Digits(17)}

PrintedTexts == {Printed(v) : v \in Level2}

MCTexts ==
  BoundedSeq(Tokens, 4) \cup PrintedTexts \cup
  {<<Open, Open, Name("x"), Dot, Close, Close>>,
   <<Open, Open, Name("x"), Dot, Name("x"), Name("x"), Close, Close>>,
   <<Open, Open, Name("x"), Close, Name("x")>>}

-----------------------------------------------------------------------------
RECURSIVE IsValue(_)
IsValue(v) ==
  \/ v \in {NIL, TRUTH}
  \/ v[1] = "int" /\ v[2] \in 0 .. Payload - 1
  \/ v[1] = "sym" /\ v[2] \in 0 .. Len(symbol_names) - 1
  \/ IsRef(v) /\ IsValue(v[2]) /\ IsValue(v[3])

TypeOK ==
  /\ ReaderOK
  /\ IsValue(value) /\ IsValue(source)
  /\ \A i \in DOMAIN stack : IsValue(stack[i].first)

\* Whatever value print_value prints is read back, whole: nested lists, dotted
\* tails and the empty list, up to the two words that name no symbol
\* (pair-machine.c:513-557, 692-749).
ReadInverts ==
  phase \in {"compile", "done"} /\ text \in PrintedTexts =>
    at = Len(text) /\ Printed(source) = text

-----------------------------------------------------------------------------
(* What the code means.                                                    *)

\* The instruction that is named like the head of v.
OpOf(v, ops) == ops[CHOOSE o \in DOMAIN ops : Car(v) = SymOf(o)]

\* The meaning of an expression: macros are defined by what they stand for, and
\* the truth, which has no instruction, is nil.
RECURSIVE DataTree(_), Tree(_)
DataTree(v) ==
  IF IsRef(v) THEN Node(CONS, <<DataTree(Car(v)), DataTree(Cdr(v))>>)
  ELSE IF v = TRUTH THEN NIL ELSE v

Tree(v) ==
  LET a == Car(Cdr(v))
      b == Car(Cdr(Cdr(v)))
  IN  IF Uses(v, "inc") THEN Node(BinaryOp.add, <<Tree(a), Num(1)>>)
      ELSE IF Uses(v, "square") THEN Node(BinaryOp.mul, <<Tree(a), Tree(a)>>)
      ELSE IF Uses(v, "quote") THEN DataTree(a)
      ELSE IF IsForm(v) /\ IsUnary(Cdr(v)) THEN Node(OpOf(v, UnaryOp), <<Tree(a)>>)
      ELSE IF IsForm(v) THEN Node(OpOf(v, BinaryOp), <<Tree(a), Tree(b)>>)
      ELSE DataTree(v)

\* Is every place that looks like the use of a macro one where an expression
\* stands?
RECURSIVE Inert(_), Hygienic(_)
Inert(v) ==
  IsRef(v) => ~Uses(v, "inc") /\ ~Uses(v, "square") /\ Inert(Car(v)) /\ Inert(Cdr(v))

Hygienic(v) ==
  IF ~IsRef(v) THEN TRUE
  ELSE IF Uses(v, "inc") \/ Uses(v, "square") \/ (IsForm(v) /\ IsUnary(Cdr(v)) /\ ~Uses(v, "quote"))
       THEN Hygienic(Car(Cdr(v))) /\ ~Uses(Cdr(v), "inc") /\ ~Uses(Cdr(v), "square")
  ELSE IF IsForm(v) /\ IsBinary(Cdr(v))
       THEN /\ Hygienic(Car(Cdr(v))) /\ Hygienic(Car(Cdr(Cdr(v))))
            /\ ~Uses(Cdr(v), "inc") /\ ~Uses(Cdr(v), "square")
  ELSE Inert(v)

RECURSIVE Parts(_)
Parts(v) == {v, Car(v), Cdr(v)} \cup (IF IsRef(v) THEN Parts(Car(v)) \cup Parts(Cdr(v)) ELSE {})

Plain == {v \in UNION {Parts(w) : w \in Level2} : Inert(v)}

\* Where no macro is used, Tree is a meaning as CodeMeans wants one.
ASSUME TreeAssumption ==
  IsMeant(Plain, [v \in Plain |-> Tree(v)], [v \in Plain |-> DataTree(v)])

\* The code of a text, if it fits and uses macros only where expressions stand,
\* computes what the text means, through reader, macros and compiler
\* (pair-machine.c:653-869).
CodeMeansSource ==
  phase = "done" /\ Len(code) < CodeMax /\ Hygienic(source) =>
    Run(code).s = <<Tree(source)>>
=============================================================================
