----------------------------- MODULE MetaTrees -----------------------------
(***************************************************************************)
(* What pair-machine.c does to the values of MetaCompiler by recursion on  *)
(* the tree: printing and the expansion of macros.                         *)
(***************************************************************************)
EXTENDS MetaCompiler

\* print_value and print_list_tail.
RECURSIVE Printed(_), PrintedTail(_)
Printed(v) ==
  CASE v = NIL        -> <<Name("nil")>>
    [] v = TRUTH      -> <<Name("t")>>
    [] v[1] = "int"   -> <<Digits(v[2])>>
    [] v[1] = "sym"   -> <<Name(symbol_names[v[2] + 1])>>
    [] v[1] = "pair"  -> <<Open>> \o PrintedTail(v) \o <<Close>>

PrintedTail(v) ==
  Printed(Car(v)) \o
    (IF Cdr(v) = NIL THEN << >>
     ELSE IF IsRef(Cdr(v)) THEN PrintedTail(Cdr(v))
     ELSE <<Dot>> \o Printed(Cdr(v)))

List3(a, b, c) == Join(a, Join(b, Join(c, NIL)))

\* Does e look like a use of macro m?  Not only expressions are looked at: the
\* tail of a list is expanded like the list.
Uses(e, m) == IsRef(e) /\ Car(e) = SymOf(m) /\ IsUnary(Cdr(e))

RECURSIVE MacroExpand(_)
MacroExpand(e) ==
  IF ~IsRef(e) THEN e
  ELSE IF Uses(e, "inc") THEN List3(SymOf("add"), MacroExpand(Car(Cdr(e))), Num(1))
  ELSE IF Uses(e, "square")
       THEN LET x == MacroExpand(Car(Cdr(e))) IN List3(SymOf("mul"), x, x)
  ELSE Join(MacroExpand(Car(e)), MacroExpand(Cdr(e)))
=============================================================================
