-------------------------------- MODULE Solver --------------------------------
(***************************************************************************)
(* A session with one of the two Prolog engines, logic-interp.c or         *)
(* polylog.c: lines that assert facts and rules or ask queries, and the    *)
(* search for an answer.  The recursion of solve_goal_list and             *)
(* solve_single_goal (solve_prolog_goal in polylog) is a stack of frames,  *)
(* one for every list of goals that is being solved:                       *)
(*                                                                         *)
(*   goals  the goals of the list still to be solved                       *)
(*   goal   the one being solved, NoGoal between two of them               *)
(*   subs   the substitution that the goals solved so far have left        *)
(*   rule   0, or the first rule not yet tried for goal                    *)
(*                                                                         *)
(* The depth that the code counts is the number of frames below the top.   *)
(* What is written to the terminal is left out, and so are numbers other   *)
(* than those that the predicate "is" of polylog looks at.                 *)
(***************************************************************************)
EXTENDS TermNodes, Functions

CONSTANTS
  Engines,     \* the engines of the sessions: "logic-interp", "polylog"
  Lines(_),    \* the lines that can be typed as the n-th of a session
  MaxLines,    \* bound: lines of a session
  MaxFacts,    \* MAX_FACTS: 512, polylog 4096
  MaxRules,    \* MAX_RULES 512, MAX_CLAUSES 1024
  MaxDepth,    \* MAX_DEPTH: 64, polylog 100
  MaxBindings, \* MAX_BINDINGS: 512 in polylog; logic-interp does not look

  \* What the recursive functions make of terms: Unify, ApplySubst, RunsAway,
  \* ListOf and Nth of Terms.
  unify(_, _, _, _),     \* engine, two terms, substitution
  apply_subst(_, _, _),  \* engine, term, substitution
  runs_away(_),          \* is a term one that apply_subst never finishes?
  make_list(_),          \* terms
  list_nth(_, _)         \* list, position

ASSUME SolverAssumption ==
  /\ MaxLines \in Nat /\ MaxFacts \in Nat /\ MaxRules \in Nat /\ MaxDepth \in Nat
  /\ \A n \in 1 .. MaxLines : \A l \in Lines(n) : l.body \in Seq(Range(l.body))

VARIABLES
  engine, mode,   \* the program that runs, "prolog" or "datalog"
  facts, rules,   \* its database
  typed,          \* lines typed so far
  line,           \* the last one: its kind, head and body or goals
  stack,          \* the lists of goals being solved, the query first
  result          \* what the last line was answered: yes with a substitution, no, ...

vars == <<engine, mode, facts, rules, typed, line, stack, result>>

NoGoal == << >>
Frame(goals, s) == [goals |-> goals, goal |-> NoGoal, subs |-> s, rule |-> 0]

No    == [is |-> "no", subs |-> << >>]
Crash == [is |-> "crash", subs |-> << >>]
Yes(s) == [is |-> "yes", subs |-> s]
None  == [is |-> "none", subs |-> << >>]

Init ==
  /\ engine \in Engines
  /\ mode = "prolog"
  /\ facts = << >> /\ rules = << >>
  /\ typed = 0
  /\ line = [kind |-> "none", head |-> NIL, body |-> << >>]
  /\ stack = << >>
  /\ result = None

-----------------------------------------------------------------------------
(* The prompt.                                                             *)

Prompt == stack = << >> /\ result # Crash

SwitchMode ==
  /\ Prompt
  /\ mode' = IF mode = "prolog" THEN "datalog" ELSE "prolog"
  /\ result' = None
  /\ UNCHANGED <<engine, facts, rules, typed, line, stack>>

\* Mutant: the limit is not looked at.
AddFactUnchecked(f) ==
  /\ facts' = Append(facts, f)
  /\ result' = None
  /\ UNCHANGED <<rules, stack>>

\* A full store refuses the fact or the rule.
AddFact(f) ==
  /\ facts' = IF Len(facts) < MaxFacts THEN Append(facts, f) ELSE facts
  /\ result' = None
  /\ UNCHANGED <<rules, stack>>

AddRule(head, body) ==
  /\ rules' = IF Len(rules) < MaxRules THEN Append(rules, [head |-> head, body |-> body])
                                       ELSE rules
  /\ result' = None
  /\ UNCHANGED <<facts, stack>>

Ask(goals) ==
  /\ stack' = <<Frame(goals, << >>)>>
  /\ result' = None
  /\ UNCHANGED <<facts, rules>>

\* An answer without a search.
Answer(a) == result' = a /\ UNCHANGED <<facts, rules, stack>>

\* logic_assert and run_query, the same in both modes.
ExecuteLogic(l) ==
  \/ l.kind = "fact" /\ AddFact(l.head)
  \/ l.kind = "rule" /\ AddRule(l.head, l.body)
  \/ l.kind = "query" /\ Ask(l.body)

\* execute_expr_in_mode sees a list of goals or a head with its body, both
\* cons lists, and tells them apart by their length only: a query of several
\* goals is taken for a rule.  A fact without arguments is no predicate, and
\* is solved as a query without goals.
ExecuteProlog(l) ==
  \/ l.kind = "fact" /\ IsPred(l.head) /\ AddFact(l.head)
  \/ l.kind = "fact" /\ ~IsPred(l.head) /\ Answer(Yes(<< >>))
  \/ l.kind = "rule" /\ AddRule(l.head, l.body)
  \/ l.kind = "query" /\ Len(l.body) > 1 /\ AddRule(Head(l.body), Tail(l.body))
  \/ l.kind = "query" /\ Len(l.body) = 1 /\ Ask(l.body)

\* evaluate_datalog_query unifies what it is given, the list of the goals or
\* of a head and its body, with each fact.
ExecuteDatalog(l) ==
  LET asked == CASE l.kind = "rule"  -> make_list(<<l.head>> \o l.body)
                 [] l.kind = "query" -> make_list(l.body)
                 [] OTHER            -> l.head
      found == {i \in DOMAIN facts : unify(engine, asked, facts[i], << >>).ok}
  IN  \/ l.kind = "fact" /\ IsPred(l.head) /\ AddFact(l.head)
      \/ /\ l.kind = "fact" => ~IsPred(l.head)
         /\ Answer(IF found = {} THEN No ELSE Yes(<< >>))

Type ==
  /\ Prompt /\ typed < MaxLines
  /\ typed' = typed + 1
  /\ UNCHANGED <<engine, mode>>
  /\ \E l \in Lines(typed + 1) :
       /\ line' = l
       /\ \/ engine = "logic-interp" /\ ExecuteLogic(l)
          \/ engine = "polylog" /\ mode = "prolog" /\ ExecuteProlog(l)
          \/ engine = "polylog" /\ mode = "datalog" /\ ExecuteDatalog(l)

-----------------------------------------------------------------------------
(* The search.                                                             *)

Top == stack[Len(stack)]
SetTop(f) == [stack EXCEPT ![Len(stack)] = f]
Solving == stack # << >> /\ Top.goal # NoGoal
Search == UNCHANGED <<engine, mode, facts, rules, typed, line>>

Finish(a) == stack' = << >> /\ result' = a

\* Mutant: the copy with the new bindings is not copied back.
SolvedDropsBindings(f, s) == [f EXCEPT !.goal = NoGoal, !.rule = 0]

\* The goal of frame f is solved and leaves the substitution s.
Solved(f, s) == [f EXCEPT !.goal = NoGoal, !.subs = s, !.rule = 0]

\* What goal is when its turn comes; the goals of a query are not applied in
\* polylog.
Applied(goal, f) ==
  IF engine = "polylog" /\ Len(stack) = 1 THEN goal ELSE apply_subst(engine, goal, f.subs)

NextGoal ==
  /\ stack # << >> /\ Top.goal = NoGoal /\ Top.goals # << >>
  /\ \E goal \in {Applied(Head(Top.goals), Top)} :
       IF runs_away(goal) THEN Finish(Crash)
       ELSE /\ stack' = SetTop([Top EXCEPT !.goals = Tail(@), !.goal = goal])
            /\ UNCHANGED result
  /\ Search

\* polylog prints the bindings of the query with apply_substitution.
ListSolved ==
  /\ stack # << >> /\ Top.goal = NoGoal /\ Top.goals = << >>
  /\ IF Len(stack) = 1
     THEN Finish(IF \E i \in DOMAIN Top.subs :
                       runs_away(apply_subst(engine, Top.subs[i][2], Top.subs))
                 THEN Crash ELSE Yes(Top.subs))
     ELSE LET below == stack[Len(stack) - 1]
          IN  /\ stack' = Append(SubSeq(stack, 1, Len(stack) - 2), Solved(below, Top.subs))
              /\ UNCHANGED result
  /\ Search

\* Mutant: the bindings of the failed list are left behind.
FailsLeaking ==
  IF Len(stack) = 1 THEN Finish(No)
  ELSE /\ stack' = Append(SubSeq(stack, 1, Len(stack) - 2),
                          [stack[Len(stack) - 1] EXCEPT !.subs = Top.subs])
       /\ UNCHANGED result

\* The goal cannot be solved: its list fails, and the goal for which the list
\* was the body of a rule goes on with the next rule.
Fails ==
  IF Len(stack) = 1 THEN Finish(No)
  ELSE stack' = SubSeq(stack, 1, Len(stack) - 1) /\ UNCHANGED result

TooDeep == Len(stack) - 1 > MaxDepth

DeepGoal == Solving /\ TooDeep /\ Fails /\ Search

Succeed(s) == stack' = SetTop(Solved(Top, s)) /\ UNCHANGED result

\* Built-in predicates: "is" binds whatever its left side is.
Builtins == IF engine = "polylog" THEN {"write", "nl", "is"} ELSE {"true", "write", "nl"}
IsBuiltin(goal) == IsPred(goal) /\ goal[2] \in Builtins

Builtin ==
  /\ Solving /\ ~TooDeep /\ IsBuiltin(Top.goal)
  /\ LET left == list_nth(Top.goal[3], 1)
         right == apply_subst(engine, list_nth(Top.goal[3], 2), Top.subs)
     IN  CASE Top.goal[2] = "is" /\ runs_away(right) -> Finish(Crash)
           [] Top.goal[2] = "is" /\ right[1] = "int" /\ Len(Top.subs) < MaxBindings ->
                Succeed(Append(Top.subs, <<left, right>>))
           [] Top.goal[2] # "is" -> Succeed(Top.subs)
           [] OTHER -> Fails
  /\ Search

\* Mutant: the bindings so far are kept, but not looked at.
MatchesAfresh(goal, head, s) ==
  LET u == unify(engine, goal, head, << >>)
  IN  [u EXCEPT !.subs = s \o @]

\* polylog refuses a binding past MAX_BINDINGS.
Matches(goal, head, s) ==
  LET u == unify(engine, goal, head, s)
  IN  IF engine = "polylog" /\ Len(u.subs) > MaxBindings THEN NotUnified ELSE u

Trying == Solving /\ ~TooDeep /\ ~IsBuiltin(Top.goal)

Matching == {i \in DOMAIN facts : Matches(Top.goal, facts[i], Top.subs).ok}

\* The first fact that matches solves the goal, for good.
MatchFact ==
  /\ Trying /\ Top.rule = 0 /\ Matching # {}
  /\ LET i == CHOOSE i \in Matching : \A j \in Matching : i <= j
     IN  Succeed(Matches(Top.goal, facts[i], Top.subs).subs)
  /\ Search

NoFact ==
  /\ Trying /\ Top.rule = 0 /\ Matching = {}
  /\ stack' = SetTop([Top EXCEPT !.rule = 1])
  /\ UNCHANGED result /\ Search

\* Mutant: the turn does not move on to the next rule.
TryRuleAgain ==
  /\ Trying /\ Top.rule \in DOMAIN rules
  /\ LET u == Matches(Top.goal, rules[Top.rule].head, Top.subs)
     IN  stack' = IF u.ok THEN Append(stack, Frame(rules[Top.rule].body, u.subs)) ELSE stack
  /\ UNCHANGED result /\ Search

\* One turn of the loop over the rules.  The frame keeps the substitution it
\* had: the body is solved with a copy.
TryRule ==
  /\ Trying /\ Top.rule \in DOMAIN rules
  /\ LET rule == rules[Top.rule]
         u == Matches(Top.goal, rule.head, Top.subs)
         next == [Top EXCEPT !.rule = @ + 1]
         body == IF engine = "polylog" THEN rule.body
                 ELSE [i \in DOMAIN rule.body |-> apply_subst(engine, rule.body[i], u.subs)]
     IN  stack' = IF u.ok THEN Append(SetTop(next), Frame(body, u.subs)) ELSE SetTop(next)
  /\ UNCHANGED result /\ Search

NoRule == Trying /\ Top.rule > Len(rules) /\ Fails /\ Search

Step == NextGoal \/ ListSolved \/ DeepGoal \/ Builtin \/ MatchFact \/ NoFact \/ TryRule \/ NoRule
Next == SwitchMode \/ Type \/ Step

\* The search is a sequential program: it goes on as long as it can.  Nobody
\* has to type anything.
Spec == Init /\ [][Next]_vars /\ WF_vars(Step)

-----------------------------------------------------------------------------
(* What the search promises; the promises about answers are in MCSolver.   *)

TypeOK ==
  /\ engine \in Engines /\ mode \in {"prolog", "datalog"} /\ typed \in 0 .. MaxLines
  /\ Len(facts) <= MaxFacts /\ Len(rules) <= MaxRules
  /\ Len(stack) <= MaxDepth + 2
  /\ \A d \in DOMAIN stack : stack[d].rule \in 0 .. Len(rules) + 1
  /\ result.is \in {"none", "no", "yes", "crash"}

\* Every query ends, whatever rules call themselves: each step of the search
\* takes something from the work that is left, of which there is a bounded
\* amount because the depth is bounded (logic-interp.c:1352, polylog.c:1478).
\* The work of a list of goals is the goals not yet begun, the one that is
\* being solved and the rules not yet tried for it; the work of the search is
\* that of its lists, compared from the query upwards.
Work(st) ==
  [k \in 1 .. 3 * Len(st) |->
     LET f == st[(k + 2) \div 3]
     IN  CASE k % 3 = 1 -> Len(f.goals)
           [] k % 3 = 2 -> IF f.goal = NoGoal THEN 0 ELSE 1
           [] OTHER     -> Len(rules) + 1 - f.rule]

Less(u, w) ==
  \E k \in DOMAIN w :
    /\ k \in DOMAIN u => u[k] < w[k]
    /\ \A j \in 1 .. k - 1 : j \in DOMAIN u /\ u[j] = w[j]

SearchAdvances == [][stack # << >> => Less(Work(stack'), Work(stack))]_vars

-----------------------------------------------------------------------------
(* What a yes promises.  Every node of a variable is a variable of its     *)
(* own, so the head of a rule shares none with its body, nor one goal with *)
(* the next.  A meaning g gives every term a value; it fits a substitution *)
(* when each variable of the substitution has the value of the term it     *)
(* stands for.                                                             *)

Fits(g, s) == \A i \in DOMAIN s : IsVar(s[i][1]) => g[s[i][1]] = g[s[i][2]]

\* Built-in goals: "is" holds as soon as its right side is a number, whatever
\* its left side is; that is all the code asks for.
Granted(goal) == IsBuiltin(goal) /\ (goal[2] = "is" => list_nth(goal[3], 2)[1] = "int")

\* M holds what follows from the database: the values that the meanings of G
\* give to the facts, to the head of a rule when every goal of its body has a
\* value in M, and to the built-in goals that hold.
IsModel(M, Goals, G) ==
  /\ \A i \in DOMAIN facts : \A g \in G : g[facts[i]] \in M
  /\ \A i \in DOMAIN rules :
       (\A k \in DOMAIN rules[i].body : \E h \in G : h[rules[i].body[k]] \in M)
         => \A g \in G : g[rules[i].head] \in M
  /\ \A t \in Goals : Granted(t) => \A g \in G : g[t] \in M

\* Both sides of an "is" are what the substitution makes of them.
Settled(e, t, s) ==
  IsPred(t) => \A n \in {1, 2} : apply_subst(e, list_nth(t[3], n), s) = list_nth(t[3], n)

\* What the search needs of the functions on terms, for the goals that come up
\* and the substitutions they are solved with: what fits the substitution
\* of a unification fits the one it began with and makes the two terms equal;
\* what apply_subst makes of a goal is an instance of it, in logic-interp the
\* goal itself as far as what fits the substitution can tell.  polylog looks at
\* the names of variables as well, and may not finish.
UnifyMeans(Goals, Subs, G) ==
  \A e \in Engines, a, b \in Goals, s \in Subs :
    unify(e, a, b, s).ok =>
      /\ unify(e, a, b, s).subs \in Subs
      /\ \A g \in G : Fits(g, unify(e, a, b, s).subs) => Fits(g, s) /\ g[a] = g[b]

ApplyMeans(Goals, Subs, G) ==
  \A e \in Engines, t \in Goals, s \in Subs :
    LET r == apply_subst(e, t, s)
    IN  e # "polylog" \/ ~runs_away(r) =>
          /\ r \in Goals
          /\ Settled(e, r, s)
          /\ \A g \in G : \E h \in G : h[t] = g[r]
          /\ e # "polylog" => \A g \in G : Fits(g, s) => g[r] = g[t]

GoalsMean(Goals, Subs, G) ==
  /\ NoGoal \notin Goals /\ \A t \in Goals : ~runs_away(t)
  /\ << >> \in Subs /\ \A s \in Subs : s \in Seq(Range(s))
  /\ UnifyMeans(Goals, Subs, G)
  /\ ApplyMeans(Goals, Subs, G)
  /\ \A e \in Engines, t \in Goals : Settled(e, t, << >>)
  /\ \A e \in Engines, t \in Goals, s \in Subs :
       (/\ IsPred(t) /\ t[2] = "is" /\ Settled(e, t, s)
        /\ list_nth(t[3], 2)[1] = "int" /\ Len(s) < MaxBindings) =>
         Append(s, <<list_nth(t[3], 1), list_nth(t[3], 2)>>) \in Subs

\* Each goal of a query that is answered with a substitution has a value in M,
\* for a meaning g that fits it.
YesFollows(M, Goals, G, g) ==
  IsModel(M, Goals, G) /\ result.is = "yes" /\ line.kind = "query" /\ Fits(g, result.subs) =>
    \A k \in DOMAIN line.body : g[line.body[k]] \in M

\* What is typed is made of such goals, and a list is no fact.
LinesMean(Goals) ==
  \A n \in 1 .. MaxLines : \A l \in Lines(n) :
    /\ l.kind # "query" => l.head \in Goals
    /\ \A k \in DOMAIN l.body : l.body[k] \in Goals
    /\ \A e \in Engines, p \in Goals :
         IsPred(p) => ~unify(e, make_list(l.body), p, << >>).ok

-----------------------------------------------------------------------------
(* What becomes of bindings.                                               *)

\* No variable has two bindings, and no chain of them leads back to where it
\* started.
WellBound(s) ==
  /\ \A i, j \in DOMAIN s : i # j /\ IsVar(s[i][1]) => s[i][1] # s[j][1]
  /\ \A i \in DOMAIN s : ~runs_away(apply_subst("logic-interp", s[i][1], s))

IsExtension(t, s) == \A i \in DOMAIN s : i \in DOMAIN t /\ t[i] = s[i]

\* No variable is bound twice, and no chain of bindings leads back to where it
\* started, through any number of unifications (logic-interp.c:1241,
\* polylog.c:1210); each list of goals extends the substitution of the goal it
\* is solved for.
BindingsAcyclic ==
  \A d \in DOMAIN stack :
    /\ WellBound(stack[d].subs)
    /\ d > 1 => IsExtension(stack[d].subs, stack[d - 1].subs)

\* What unify does to a substitution: it only adds, and nothing that binds a
\* variable again or leads back.
UnifyBinds(Goals, Subs) ==
  /\ \A s \in Subs : WellBound(s)
  /\ \A e \in Engines, a, b \in Goals, s \in Subs :
       unify(e, a, b, s).ok => IsExtension(unify(e, a, b, s).subs, s)
=============================================================================
