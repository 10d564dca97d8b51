----------------------------- MODULE TermNodes -----------------------------
(***************************************************************************)
(* The terms of the two Prolog engines, logic-interp.c and polylog.c.  A   *)
(* term is a tree of tuples, its kind in front:                            *)
(*                                                                         *)
(*   <<"nil">>  <<"atom", a>>  <<"int", n>>  <<"cons", car, cdr>>          *)
(*   <<"pred", name, args>>    <<"var", name, node>>                       *)
(*                                                                         *)
(* Both parsers make a new node for every variable they meet, and both     *)
(* engines compare variables by their nodes: two X of one clause are two   *)
(* variables.  A substitution is a sequence of pairs of a variable and the *)
(* term it stands for, in the order of the array in the code.              *)
(***************************************************************************)
EXTENDS Naturals, Sequences

NIL == <<"nil">>
Atom(a) == <<"atom", a>>
Num(n) == <<"int", n>>
Var(name, node) == <<"var", name, node>>
Pair(h, t) == <<"cons", h, t>>
Pred(name, args) == <<"pred", name, args>>

IsVar(t) == t[1] = "var"
IsCons(t) == t[1] = "cons"
IsPred(t) == t[1] = "pred"

\* What unify answers.
Unified(s) == [ok |-> TRUE, subs |-> s]
NotUnified == [ok |-> FALSE, subs |-> << >>]
=============================================================================
