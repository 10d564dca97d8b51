------------------------------- MODULE MCSolver -------------------------------
(***************************************************************************)
(* Solver for TLC: the lines of a session over two constants, a function   *)
(* symbol and three predicates, and the least model of the database, which *)
(* says what follows from it without unification, substitutions or search. *)
(***************************************************************************)
EXTENDS Solver, Terms, FiniteSets, SequencesExt

A == Atom("a")
B == Atom("b")
F(t) == Pred("f", ListOf(<<t>>))
P(t) == Pred("p", ListOf(<<t>>))
Q(t) == Pred("q", ListOf(<<t>>))
R(t, u) == Pred("r", ListOf(<<t, u>>))
Is(t, u) == Pred("is", ListOf(<<t, u>>))
Write(t) == Pred("write", ListOf(<<t>>))

Fact(head) == [kind |-> "fact", head |-> head, body |-> << >>]
Rule(head, body) == [kind |-> "rule", head |-> head, body |-> body]
Query(goals) == [kind |-> "query", head |-> NIL, body |-> goals]

\* The k-th variable node of line n.
X(n, k) == Var("X", <<n, k>>)
Y(n, k) == Var("Y", <<n, k>>)

MCLines(n) ==
  { Fact(P(A)), Fact(Q(B)), Fact(Q(X(n, 1))), Fact(R(A, F(X(n, 1)))), Fact(A),
    Rule(P(X(n, 1)), <<Q(X(n, 2))>>),
    Rule(Q(X(n, 1)), <<P(A)>>),
    Rule(P(B), <<Q(A)>>),
    Rule(P(A), <<Q(X(n, 1))>>),
    Rule(P(X(n, 1)), <<R(X(n, 2), B), Q(A)>>),
    Rule(R(X(n, 1), X(n, 2)), <<P(X(n, 3)), Q(X(n, 4))>>),
    Rule(R(X(n, 1), Y(n, 2)), <<R(Y(n, 3), X(n, 4))>>),
    Rule(Q(X(n, 1)), <<Is(X(n, 2), Num(1)), Write(X(n, 3))>>),
    Query(<<P(A)>>), Query(<<P(X(n, 1))>>), Query(<<Q(F(X(n, 1)))>>),
    Query(<<R(X(n, 1), X(n, 2))>>), Query(<<Is(X(n, 1), P(A))>>),
    Query(<<P(X(n, 1)), Q(X(n, 2))>>) }

-----------------------------------------------------------------------------
(* What follows from a database.                                           *)

Universe == {A, B, F(A), F(B), Num(1)}

RECURSIVE Ground(_, _)
Ground(t, g) ==
  CASE IsVar(t)  -> g[t]
    [] IsCons(t) -> Pair(Ground(t[2], g), Ground(t[3], g))
    [] IsPred(t) -> Pred(t[2], Ground(t[3], g))
    [] OTHER     -> t

\* Every variable node is a variable of its own: the head of a rule shares
\* none with its body, nor one goal with the next.
Instances(t) == {Ground(t, g) : g \in [VarsOf(t) -> Universe]}

Holds(goal, M) == Granted(goal) \/ Instances(goal) \cap M # {}

Consequences(M) ==
  UNION {Instances(facts[i]) : i \in DOMAIN facts} \cup
  UNION {Instances(rules[i].head) :
           i \in {j \in DOMAIN rules :
                    \A k \in DOMAIN rules[j].body : Holds(rules[j].body[k], M)}}

RECURSIVE Least(_)
Least(M) == IF Consequences(M) \subseteq M THEN M ELSE Least(M \cup Consequences(M))
Model == Least({})

InUniverse(t) == \A i \in 1 .. 2 : Nth(t[3], i) \in Universe \cup {NIL}

-----------------------------------------------------------------------------
(* Unify and ApplySubst do what GoalsMean asks of them, here for the goals *)
(* over three variables, two of one name, a constant and two predicates   *)
(* and for every substitution that unifications of their arguments make.   *)

SampleVars == {X(1, 1), X(1, 2), Y(1, 3)}
SampleArgs == SampleVars \cup {A}
SampleGoals == {P(t) : t \in SampleArgs} \cup {R(t, u) : t, u \in SampleArgs}

RECURSIVE Unifiers(_)
Unifiers(subs) ==
  LET us   == {Unify(e, a, b, s) : e \in Engines, a, b \in SampleArgs, s \in subs}
      more == {u.subs : u \in {v \in us : v.ok}}
  IN  IF more \subseteq subs THEN subs ELSE Unifiers(subs \cup more)

SampleMeanings ==
  {[t \in SampleArgs \cup SampleGoals |-> Ground(t, g)] : g \in [SampleVars -> {A, B}]}

\* What "is" binds is not bound: its sides are settled.
SampleNumbers(Subs) ==
  \A v \in SampleVars, s \in Subs :
    ApplySubst("polylog", v, s) = v => WellBound(Append(s, <<v, Num(1)>>))

ASSUME SampleAssumption ==
  LET subs == Unifiers({<< >>})
  IN  /\ GoalsMean(SampleGoals, subs, SampleMeanings)
      /\ UnifyBinds(SampleGoals, subs)
      /\ SampleNumbers(subs)

-----------------------------------------------------------------------------
\* A query that is answered with a substitution is a consequence of the
\* database: whatever its variables stand for under the substitution, each of
\* its goals is in the least model.  (logic-interp.c:1351 and polylog.c:1477:
\* bindings made by different unifications, at different depths, after failed
\* attempts, must fit together.)
YesIsProved ==
  result.is = "yes" =>
    LET goals == [i \in DOMAIN line.body |->
                    ApplySubst("logic-interp", line.body[i], result.subs)]
    IN  \A i \in DOMAIN goals :
          Granted(goals[i]) \/ \A t \in Instances(goals[i]) : InUniverse(t) => t \in Model

\* A query that is refused is no consequence, as long as the search has nothing
\* to lose: one goal, rules of one goal each, no rule that is needed twice, and
\* no proof deeper than MaxDepth.
Linear ==
  /\ Len(line.body) = 1
  /\ \A i \in DOMAIN rules : Len(rules[i].body) = 1
  /\ Len(rules) <= MaxDepth
  /\ \A i, j \in DOMAIN rules : rules[i].head[2] = rules[j].head[2] \/
        ~(rules[i].body[1][2] = rules[j].head[2] /\ rules[j].body[1][2] = rules[i].head[2])
  /\ \A i \in DOMAIN rules : rules[i].body[1][2] # rules[i].head[2]

NoIsRefuted ==
  (/\ result.is = "no" /\ Linear
   /\ engine = "logic-interp" \/ (mode = "prolog" /\ rules = << >>)) =>
    ~Holds(line.body[1], Model)

\* Asking a query changes nothing in the database (polylog.c:1573: "Try to
\* solve all goals").
AskingTeachesNothing == [][line'.kind = "query" => UNCHANGED <<facts, rules>>]_vars
=============================================================================
