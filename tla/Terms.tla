-------------------------------- MODULE Terms --------------------------------
(***************************************************************************)
(* What logic-interp.c and polylog.c do to terms by recursion: lists,      *)
(* unification and substitution.  Where the two engines differ, the engine *)
(* is a parameter.                                                         *)
(***************************************************************************)
EXTENDS TermNodes

\* make_list_from_array and make_list: the proper list of the terms ts.
RECURSIVE ListOf(_)
ListOf(ts) == IF ts = << >> THEN NIL ELSE Pair(Head(ts), ListOf(Tail(ts)))

\* The argument n, counted from 1, of a list; nil past its end.
RECURSIVE Nth(_, _)
Nth(l, n) ==
  CASE ~IsCons(l) -> NIL
    [] IsCons(l) /\ n = 1 -> l[2]
    [] OTHER -> Nth(l[3], n - 1)

-----------------------------------------------------------------------------
\* The variables of a term.
RECURSIVE VarsOf(_)
VarsOf(t) ==
  CASE IsVar(t)  -> {t}
    [] IsCons(t) -> VarsOf(t[2]) \cup VarsOf(t[3])
    [] IsPred(t) -> VarsOf(t[3])
    [] OTHER     -> {}

\* The index of the binding of v in s, 0 when it has none.
Binding(v, s) ==
  IF \E i \in DOMAIN s : s[i][1] = v
  THEN CHOOSE i \in DOMAIN s : s[i][1] = v /\ \A j \in 1 .. i - 1 : s[j][1] # v
  ELSE 0

Bound(v, s) == IsVar(v) /\ Binding(v, s) # 0
Value(v, s) == s[Binding(v, s)][2]

RECURSIVE Occurs(_, _, _)
Occurs(v, t, s) ==
  \/ v = t
  \/ Bound(t, s) /\ Occurs(v, Value(t, s), s)
  \/ IsCons(t) /\ (Occurs(v, t[2], s) \/ Occurs(v, t[3], s))
  \/ IsPred(t) /\ Occurs(v, t[3], s)

-----------------------------------------------------------------------------
Bind(v, t, s) ==
  IF Occurs(v, t, s) THEN NotUnified ELSE Unified(Append(s, <<v, t>>))

\* An unbound variable does not unify with itself in logic-interp: the occurs
\* check finds it.  polylog compares the two nodes first.
RECURSIVE Unify(_, _, _, _)
Unify(engine, a, b, s) ==
  CASE Bound(a, s) -> Unify(engine, Value(a, s), b, s)
    [] ~Bound(a, s) /\ Bound(b, s) -> Unify(engine, a, Value(b, s), s)
    [] OTHER ->
         CASE engine = "polylog" /\ IsVar(a) /\ a = b -> Unified(s)
           [] IsVar(a) /\ ~(engine = "polylog" /\ a = b) -> Bind(a, b, s)
           [] ~IsVar(a) /\ IsVar(b) -> Bind(b, a, s)
           [] IsCons(a) /\ IsCons(b) ->
                LET first == Unify(engine, a[2], b[2], s)
                IN  IF first.ok THEN Unify(engine, a[3], b[3], first.subs) ELSE NotUnified
           [] IsPred(a) /\ IsPred(b) /\ a[2] = b[2] -> Unify(engine, a[3], b[3], s)
           [] OTHER -> IF ~IsPred(a) /\ ~IsCons(a) /\ a = b THEN Unified(s) ELSE NotUnified

-----------------------------------------------------------------------------
\* What takes the place of the variable v: its own binding or, in polylog, the
\* first one of a variable of the same name (not bound to v itself).
Replacement(engine, v, s) ==
  LET namesakes == {i \in DOMAIN s : engine = "polylog" /\ IsVar(s[i][1])
                                       /\ s[i][1][2] = v[2] /\ s[i][2] # v}
  IN  CASE Bound(v, s) -> Binding(v, s)
        [] ~Bound(v, s) /\ namesakes # {} ->
             CHOOSE i \in namesakes : \A j \in namesakes : i <= j
        [] OTHER -> 0

\* Stands for a substitution that replaces a variable by a term in which it
\* has to replace the same variable again: the recursion of the code does not
\* end.  Below is the path of variables being replaced.
RUNAWAY == <<"runaway">>

RECURSIVE Subst(_, _, _, _)
Subst(engine, t, s, path) ==
  CASE IsCons(t) -> Pair(Subst(engine, t[2], s, path), Subst(engine, t[3], s, path))
    [] IsPred(t) -> Pred(t[2], Subst(engine, t[3], s, path))
    [] IsVar(t) /\ Replacement(engine, t, s) # 0 ->
         IF t \in path THEN RUNAWAY
         ELSE Subst(engine, s[Replacement(engine, t, s)][2], s, path \cup {t})
    [] OTHER -> t

ApplySubst(engine, t, s) == Subst(engine, t, s, {})

RECURSIVE RunsAway(_)
RunsAway(t) ==
  \/ t = RUNAWAY
  \/ IsCons(t) /\ (RunsAway(t[2]) \/ RunsAway(t[3]))
  \/ IsPred(t) /\ RunsAway(t[3])
=============================================================================
