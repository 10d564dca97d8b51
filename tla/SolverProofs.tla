---------------------------- MODULE SolverProofs ----------------------------
(***************************************************************************)
(* Proofs about the search of Solver, whatever unify and apply_subst make  *)
(* of terms: the limits of the database and of the depth hold, and every   *)
(* step of a search takes from the work that is left.  The argument needs  *)
(* the shape of the stack: every list of goals but the innermost waits for *)
(* a goal that is being solved (StackOK).  A query answered yes follows    *)
(* from the database when unify and apply_subst do what GoalsMean says,    *)
(* and bindings accumulate without a circle when unify does what           *)
(* UnifyBinds says.                                                        *)
(***************************************************************************)
EXTENDS Solver, TLAPS, SequenceTheorems, WellFoundedInduction

IsSeq(s) == s \in Seq(Range(s))

FrameOK(f) ==
  /\ f = [goals |-> f.goals, goal |-> f.goal, subs |-> f.subs, rule |-> f.rule]
  /\ IsSeq(f.goals)
  /\ f.rule \in 0 .. Len(rules) + 1

StackOK(s) ==
  /\ IsSeq(s)
  /\ Len(s) <= MaxDepth + 2
  /\ \A d \in DOMAIN s : FrameOK(s[d])
  /\ \A d \in 1 .. Len(s) - 1 : s[d].goal # NoGoal

DatabaseOK ==
  /\ IsSeq(facts) /\ Len(facts) <= MaxFacts
  /\ IsSeq(rules) /\ Len(rules) <= MaxRules
  /\ \A i \in DOMAIN rules : IsSeq(rules[i].body)

SearchInv ==
  /\ engine \in Engines /\ mode \in {"prolog", "datalog"} /\ typed \in 0 .. MaxLines
  /\ result.is \in {"none", "no", "yes", "crash"}
  /\ DatabaseOK /\ StackOK(stack)

-----------------------------------------------------------------------------
(* Sequences and frames.                                                   *)

LEMMA SeqFacts ==
  ASSUME NEW s, IsSeq(s)
  PROVE  /\ Len(s) \in Nat /\ DOMAIN s = 1 .. Len(s)
         /\ s = << >> <=> Len(s) = 0
<1>1. Len(s) \in Nat /\ DOMAIN s = 1 .. Len(s)
  BY LenProperties DEF IsSeq
<1>2. s = << >> <=> Len(s) = 0
  BY EmptySeq DEF IsSeq
<1> QED  BY <1>1, <1>2

LEMMA SeqAppend ==
  ASSUME NEW s, IsSeq(s), NEW e
  PROVE  LET t == Append(s, e)
         IN  /\ IsSeq(t) /\ Len(t) = Len(s) + 1 /\ DOMAIN t = 1 .. Len(s) + 1
             /\ \A i \in 1 .. Len(s) : t[i] = s[i]
             /\ t[Len(s) + 1] = e
<1> DEFINE S == Range(s) \cup {e}
<1>1. s \in Seq(S) /\ e \in S
  BY SeqMonotonic DEF IsSeq
<1>2. Append(s, e) \in Seq(S) /\ Len(Append(s, e)) = Len(s) + 1
      /\ (\A i \in 1 .. Len(s) : Append(s, e)[i] = s[i])
      /\ Append(s, e)[Len(s) + 1] = e
  BY <1>1, AppendProperties
<1>3. DOMAIN Append(s, e) = 1 .. Len(s) + 1
  BY <1>2, LenProperties
<1>4. IsSeq(Append(s, e))
  BY <1>2, SeqOfRange DEF IsSeq
<1> HIDE DEF S
<1> QED  BY <1>2, <1>3, <1>4

LEMMA SeqCut ==
  ASSUME NEW s, IsSeq(s), NEW n \in Nat, n <= Len(s)
  PROVE  LET t == SubSeq(s, 1, n)
         IN  /\ IsSeq(t) /\ Len(t) = n /\ DOMAIN t = 1 .. n
             /\ \A i \in 1 .. n : t[i] = s[i]
<1> DEFINE S == Range(s)
<1>1. s \in Seq(S)
  BY DEF IsSeq
<1> HIDE DEF S
<1>2. Len(s) \in Nat
  BY <1>1, LenProperties
<1>3. SubSeq(s, 1, n) \in Seq(S) /\ Len(SubSeq(s, 1, n)) = n
      /\ (\A i \in 1 .. n : SubSeq(s, 1, n)[i] = s[i])
  BY <1>1, <1>2
<1>4. DOMAIN SubSeq(s, 1, n) = 1 .. n
  BY <1>3, LenProperties
<1>5. IsSeq(SubSeq(s, 1, n))
  BY <1>3, SeqOfRange DEF IsSeq
<1> QED  BY <1>3, <1>4, <1>5

LEMMA SeqTail ==
  ASSUME NEW s, IsSeq(s), s # << >>
  PROVE  IsSeq(Tail(s)) /\ Len(Tail(s)) = Len(s) - 1 /\ Len(s) \in Nat \ {0}
<1> DEFINE S == Range(s)
<1>1. s \in Seq(S)
  BY DEF IsSeq
<1> HIDE DEF S
<1>2. Tail(s) \in Seq(S) /\ Len(Tail(s)) = Len(s) - 1 /\ Len(s) \in Nat \ {0}
  BY <1>1, HeadTailProperties, EmptySeq
<1> QED  BY <1>2, SeqOfRange DEF IsSeq

\* The last element is replaced.
LEMMA SeqReplace ==
  ASSUME NEW s, IsSeq(s), s # << >>, NEW e
  PROVE  LET t == [s EXCEPT ![Len(s)] = e]
         IN  /\ IsSeq(t) /\ Len(t) = Len(s) /\ DOMAIN t = 1 .. Len(s)
             /\ \A i \in 1 .. Len(s) - 1 : t[i] = s[i]
             /\ t[Len(s)] = e
<1> DEFINE S == Range(s) \cup {e}
           t == [s EXCEPT ![Len(s)] = e]
<1>1. s \in Seq(S) /\ e \in S
  BY SeqMonotonic DEF IsSeq
<1>2. Len(s) \in Nat /\ Len(s) \in 1 .. Len(s)
  BY SeqFacts
<1> HIDE DEF S
<1>3. t \in Seq(S) /\ Len(t) = Len(s)
      /\ \A j \in 1 .. Len(s) : t[j] = IF j = Len(s) THEN e ELSE s[j]
  BY <1>1, <1>2, ExceptSeq
<1>4. DOMAIN t = 1 .. Len(s)
  BY <1>3, LenProperties
<1>5. IsSeq(t)
  BY <1>3, SeqOfRange DEF IsSeq
<1> HIDE DEF t
<1>6. \A i \in 1 .. Len(s) - 1 : t[i] = s[i]
  BY <1>2, <1>3
<1>7. t[Len(s)] = e
  BY <1>2, <1>3
<1> QED  BY <1>3, <1>4, <1>5, <1>6, <1>7 DEF t

-----------------------------------------------------------------------------
(* What a step does to a stack.                                            *)

LEMMA RulesCount ==
  ASSUME DatabaseOK
  PROVE  Len(rules) \in Nat /\ DOMAIN rules = 1 .. Len(rules)
BY SeqFacts DEF DatabaseOK

\* A goal is begun, and goes on with rule r; Solved is the third change.
Begun(f, g) == [f EXCEPT !.goals = Tail(@), !.goal = g]
Turned(f, r) == [f EXCEPT !.rule = r]

FrameOf(a, b, c, d) == [goals |-> a, goal |-> b, subs |-> c, rule |-> d]

LEMMA FrameRecord ==
  ASSUME NEW f, NEW a, NEW b, NEW c, NEW d, f = FrameOf(a, b, c, d), NEW x
  PROVE  /\ Begun(f, x) = FrameOf(Tail(a), x, c, d)
         /\ Solved(f, x) = FrameOf(a, NoGoal, x, 0)
         /\ Turned(f, x) = FrameOf(a, b, c, x)
\* One field at a time.
<1>1. Begun(f, x) = FrameOf(Tail(a), x, c, d)
  <2> DEFINE y == Tail(a)
  <2>1. f.goals = a
    BY DEF FrameOf
  <2> HIDE DEF y
  <2>2. [f EXCEPT !.goals = y] = FrameOf(y, b, c, d)
    BY DEF FrameOf
  <2>3. [f EXCEPT !.goals = y, !.goal = x] = [FrameOf(y, b, c, d) EXCEPT !.goal = x]
    BY <2>2, Zenon
  <2>4. [FrameOf(y, b, c, d) EXCEPT !.goal = x] = FrameOf(y, x, c, d)
    BY DEF FrameOf
  <2> QED  BY <2>1, <2>3, <2>4, Zenon DEF y, Begun
<1>2. Solved(f, x) = FrameOf(a, NoGoal, x, 0)
  <2>1. [f EXCEPT !.goal = NoGoal] = FrameOf(a, NoGoal, c, d)
    BY DEF FrameOf
  <2>2. [f EXCEPT !.goal = NoGoal, !.subs = x] = [FrameOf(a, NoGoal, c, d) EXCEPT !.subs = x]
    BY <2>1, Zenon
  <2>3. [FrameOf(a, NoGoal, c, d) EXCEPT !.subs = x] = FrameOf(a, NoGoal, x, d)
    BY DEF FrameOf
  <2>4. [f EXCEPT !.goal = NoGoal, !.subs = x, !.rule = 0]
          = [FrameOf(a, NoGoal, x, d) EXCEPT !.rule = 0]
    BY <2>2, <2>3, Zenon
  <2>5. [FrameOf(a, NoGoal, x, d) EXCEPT !.rule = 0] = FrameOf(a, NoGoal, x, 0)
    BY DEF FrameOf
  <2> QED  BY <2>4, <2>5, Zenon DEF Solved
<1>3. Turned(f, x) = FrameOf(a, b, c, x)
  BY DEF FrameOf, Turned
<1> QED  BY <1>1, <1>2, <1>3, Zenon

LEMMA FrameBuilt ==
  ASSUME NEW a, IsSeq(a), NEW b, NEW c, NEW d \in 0 .. Len(rules) + 1
  PROVE  FrameOK(FrameOf(a, b, c, d))
BY DEF FrameOK, FrameOf

\* A goal is begun, solved, or goes on with the next rule.
LEMMA FrameOps ==
  ASSUME NEW f, FrameOK(f), DatabaseOK, NEW x
  PROVE  /\ f.goals # << >> =>
              /\ FrameOK(Begun(f, x))
              /\ Begun(f, x).goals = Tail(f.goals)
         /\ FrameOK(Solved(f, x))
         /\ Solved(f, x).goals = f.goals /\ Solved(f, x).goal = NoGoal
         /\ x \in 0 .. Len(rules) + 1 => FrameOK(Turned(f, x))
         /\ Turned(f, x).goals = f.goals /\ Turned(f, x).goal = f.goal
         /\ Turned(f, x).rule = x
<1> DEFINE a == f.goals
           b == f.goal
           c == f.subs
           d == f.rule
<1>1. f = FrameOf(a, b, c, d) /\ IsSeq(a) /\ d \in 0 .. Len(rules) + 1
  BY DEF FrameOK, FrameOf
<1>2. 0 \in 0 .. Len(rules) + 1
  BY RulesCount
<1>3. f.goals = a /\ f.goal = b /\ f.rule = d
  OBVIOUS
<1> HIDE DEF a, b, c, d
<1>4. /\ Begun(f, x) = FrameOf(Tail(a), x, c, d)
      /\ Solved(f, x) = FrameOf(a, NoGoal, x, 0)
      /\ Turned(f, x) = FrameOf(a, b, c, x)
  BY <1>1, FrameRecord
<1>5. /\ FrameOf(Tail(a), x, c, d).goals = Tail(a)
      /\ FrameOf(a, NoGoal, x, 0).goals = a /\ FrameOf(a, NoGoal, x, 0).goal = NoGoal
      /\ FrameOf(a, b, c, x).goals = a /\ FrameOf(a, b, c, x).goal = b
      /\ FrameOf(a, b, c, x).rule = x
  BY DEF FrameOf
<1>6. ASSUME a # << >> PROVE FrameOK(FrameOf(Tail(a), x, c, d))
  <2>1. IsSeq(Tail(a))
    BY <1>1, <1>6, SeqTail
  <2> QED  BY <1>1, <2>1, FrameBuilt
<1>7. FrameOK(FrameOf(a, NoGoal, x, 0))
  BY <1>1, <1>2, FrameBuilt
<1>8. x \in 0 .. Len(rules) + 1 => FrameOK(FrameOf(a, b, c, x))
  BY <1>1, FrameBuilt
<1>9. f.goals # << >> =>
        /\ FrameOK(Begun(f, x))
        /\ Begun(f, x).goals = Tail(f.goals)
  BY <1>3, <1>4, <1>5, <1>6, Zenon
<1>10. FrameOK(Solved(f, x)) /\ Solved(f, x).goals = f.goals /\ Solved(f, x).goal = NoGoal
  BY <1>3, <1>4, <1>5, <1>7, Zenon
<1>11. /\ x \in 0 .. Len(rules) + 1 => FrameOK(Turned(f, x))
       /\ Turned(f, x).goals = f.goals /\ Turned(f, x).goal = f.goal
       /\ Turned(f, x).rule = x
  BY <1>3, <1>4, <1>5, <1>8, Zenon
<1> QED  BY <1>9, <1>10, <1>11, Zenon

LEMMA FreshFrame ==
  ASSUME NEW a, IsSeq(a), NEW u, DatabaseOK
  PROVE  FrameOK(Frame(a, u))
<1>1. Len(rules) \in Nat
  BY RulesCount
<1> QED  BY <1>1 DEF FrameOK, Frame

LEMMA StackFacts ==
  ASSUME NEW s, StackOK(s), s # << >>
  PROVE  /\ IsSeq(s) /\ Len(s) \in Nat \ {0} /\ DOMAIN s = 1 .. Len(s) /\ Len(s) <= MaxDepth + 2
         /\ MaxDepth \in Nat
         /\ \A d \in 1 .. Len(s) : FrameOK(s[d])
         /\ \A d \in 1 .. Len(s) - 1 : s[d].goal # NoGoal
BY SeqFacts, SolverAssumption DEF StackOK

LEMMA TopReplaced ==
  ASSUME NEW s, StackOK(s), s # << >>, NEW f, FrameOK(f)
  PROVE  LET t == [s EXCEPT ![Len(s)] = f]
         IN  /\ StackOK(t) /\ Len(t) = Len(s) /\ DOMAIN t = 1 .. Len(s) /\ t # << >>
             /\ \A i \in 1 .. Len(s) - 1 : t[i] = s[i]
             /\ t[Len(s)] = f
<1> DEFINE t == [s EXCEPT ![Len(s)] = f]
<1>1. /\ IsSeq(s) /\ Len(s) \in Nat \ {0} /\ Len(s) <= MaxDepth + 2
      /\ \A d \in 1 .. Len(s) : FrameOK(s[d])
      /\ \A d \in 1 .. Len(s) - 1 : s[d].goal # NoGoal
  BY StackFacts
<1>2. /\ IsSeq(t) /\ Len(t) = Len(s) /\ DOMAIN t = 1 .. Len(s)
      /\ \A i \in 1 .. Len(s) - 1 : t[i] = s[i]
      /\ t[Len(s)] = f
  BY <1>1, SeqReplace
<1> HIDE DEF t
<1>3. \A d \in DOMAIN t : FrameOK(t[d])
  BY <1>1, <1>2
<1>4. StackOK(t)
  BY <1>1, <1>2, <1>3 DEF StackOK
<1>5. t # << >>
  BY <1>1, <1>2, SeqFacts
<1> QED  BY <1>2, <1>4, <1>5 DEF t

LEMMA TopPushed ==
  ASSUME NEW s, StackOK(s), s # << >>, Len(s) - 1 <= MaxDepth, s[Len(s)].goal # NoGoal,
         NEW f, FrameOK(f)
  PROVE  LET t == Append(s, f)
         IN  /\ StackOK(t) /\ Len(t) = Len(s) + 1
             /\ \A i \in 1 .. Len(s) : t[i] = s[i]
<1> DEFINE t == Append(s, f)
<1>1. /\ IsSeq(s) /\ Len(s) \in Nat \ {0} /\ MaxDepth \in Nat
      /\ \A d \in 1 .. Len(s) : FrameOK(s[d])
      /\ \A d \in 1 .. Len(s) - 1 : s[d].goal # NoGoal
  BY StackFacts
<1>2. /\ IsSeq(t) /\ Len(t) = Len(s) + 1 /\ DOMAIN t = 1 .. Len(s) + 1
      /\ \A i \in 1 .. Len(s) : t[i] = s[i]
      /\ t[Len(s) + 1] = f
  BY <1>1, SeqAppend
<1> HIDE DEF t
<1>3. \A d \in DOMAIN t : FrameOK(t[d])
  BY <1>1, <1>2
<1>4. \A d \in 1 .. Len(t) - 1 : t[d].goal # NoGoal
  BY <1>1, <1>2
<1>5. Len(t) <= MaxDepth + 2
  BY <1>1, <1>2
<1> QED  BY <1>2, <1>3, <1>4, <1>5 DEF StackOK, t

\* The innermost list is done or has failed.
LEMMA TopPopped ==
  ASSUME NEW s, StackOK(s), NEW n \in Nat, n < Len(s)
  PROVE  LET t == SubSeq(s, 1, n)
         IN  /\ StackOK(t) /\ Len(t) = n /\ DOMAIN t = 1 .. n
             /\ \A i \in 1 .. n : t[i] = s[i]
             /\ \A i \in 1 .. n : t[i].goal # NoGoal
<1> DEFINE t == SubSeq(s, 1, n)
<1>1. s # << >>
  <2>1. IsSeq(s)
    BY DEF StackOK
  <2> QED  BY <2>1, SeqFacts
<1>2. /\ IsSeq(s) /\ Len(s) \in Nat \ {0} /\ Len(s) <= MaxDepth + 2 /\ MaxDepth \in Nat
      /\ \A d \in 1 .. Len(s) : FrameOK(s[d])
      /\ \A d \in 1 .. Len(s) - 1 : s[d].goal # NoGoal
  BY <1>1, StackFacts
<1>3. /\ IsSeq(t) /\ Len(t) = n /\ DOMAIN t = 1 .. n
      /\ \A i \in 1 .. n : t[i] = s[i]
  BY <1>2, SeqCut
<1> HIDE DEF t
<1>4. \A d \in DOMAIN t : FrameOK(t[d])
  BY <1>2, <1>3
<1>5. \A d \in 1 .. n : t[d].goal # NoGoal
  BY <1>2, <1>3
<1>6. Len(t) <= MaxDepth + 2
  BY <1>2, <1>3
<1>7. \A d \in 1 .. Len(t) - 1 : t[d].goal # NoGoal
  BY <1>3, <1>5
<1> QED  BY <1>3, <1>4, <1>5, <1>6, <1>7 DEF StackOK, t

\* The innermost list is done, and with it the goal below.
LEMMA TopReturned ==
  ASSUME NEW s, StackOK(s), Len(s) > 1, NEW f, FrameOK(f)
  PROVE  LET t == Append(SubSeq(s, 1, Len(s) - 2), f)
         IN  /\ StackOK(t) /\ Len(t) = Len(s) - 1
             /\ \A i \in 1 .. Len(s) - 2 : t[i] = s[i]
             /\ t[Len(s) - 1] = f
<1> DEFINE c == SubSeq(s, 1, Len(s) - 2)
           t == Append(c, f)
<1>1. s # << >> /\ Len(s) \in Nat
  <2>1. IsSeq(s)
    BY DEF StackOK
  <2> QED  BY <2>1, SeqFacts
<1>2. /\ Len(s) - 2 \in Nat /\ Len(s) - 2 < Len(s) /\ Len(s) <= MaxDepth + 2
      /\ Len(s) \in Nat /\ MaxDepth \in Nat
  BY <1>1, StackFacts
<1>3. /\ StackOK(c) /\ Len(c) = Len(s) - 2 /\ DOMAIN c = 1 .. Len(s) - 2
      /\ \A i \in 1 .. Len(s) - 2 : c[i] = s[i]
      /\ \A i \in 1 .. Len(s) - 2 : c[i].goal # NoGoal
  BY <1>2, TopPopped
<1> HIDE DEF c
<1>4. IsSeq(c) /\ (\A d \in DOMAIN c : FrameOK(c[d]))
  BY <1>3 DEF StackOK
<1>5. /\ IsSeq(t) /\ Len(t) = Len(c) + 1 /\ DOMAIN t = 1 .. Len(c) + 1
      /\ \A i \in 1 .. Len(c) : t[i] = c[i]
      /\ t[Len(c) + 1] = f
  BY <1>4, SeqAppend
<1> HIDE DEF t
<1>6. \A d \in DOMAIN t : FrameOK(t[d])
  BY <1>2, <1>3, <1>4, <1>5
<1>7. \A d \in 1 .. Len(t) - 1 : t[d].goal # NoGoal
  BY <1>2, <1>3, <1>5
<1>8. Len(t) = Len(s) - 1 /\ Len(t) <= MaxDepth + 2 /\ t[Len(s) - 1] = f
  BY <1>2, <1>3, <1>5
<1>9. \A i \in 1 .. Len(s) - 2 : t[i] = s[i]
  BY <1>2, <1>3, <1>5
<1> QED  BY <1>5, <1>6, <1>7, <1>8, <1>9 DEF StackOK, t, c

-----------------------------------------------------------------------------
(* The work that is left.                                                  *)

LEMMA Thirds ==
  ASSUME NEW d \in Nat \ {0}
  PROVE  /\ (3 * d - 2 + 2) \div 3 = d /\ (3 * d - 2) % 3 = 1
         /\ (3 * d - 1 + 2) \div 3 = d /\ (3 * d - 1) % 3 = 2
         /\ (3 * d + 2) \div 3 = d /\ (3 * d) % 3 = 0
OBVIOUS

\* The three entries of frame d.
LEMMA WorkAt ==
  ASSUME NEW s, Len(s) \in Nat, NEW d \in 1 .. Len(s)
  PROVE  /\ DOMAIN Work(s) = 1 .. 3 * Len(s)
         /\ {3 * d - 2, 3 * d - 1, 3 * d} \subseteq 1 .. 3 * Len(s)
         /\ Work(s)[3 * d - 2] = Len(s[d].goals)
         /\ Work(s)[3 * d - 1] = IF s[d].goal = NoGoal THEN 0 ELSE 1
         /\ Work(s)[3 * d] = Len(rules) + 1 - s[d].rule
<1>1. DOMAIN Work(s) = 1 .. 3 * Len(s)
  BY DEF Work
<1>2. d \in Nat \ {0}
  OBVIOUS
<1>3. 3 * d - 2 \in 1 .. 3 * Len(s) /\ 3 * d - 1 \in 1 .. 3 * Len(s) /\ 3 * d \in 1 .. 3 * Len(s)
  OBVIOUS
<1>4. Work(s)[3 * d - 2] = Len(s[d].goals)
  <2> DEFINE k == 3 * d - 2
  <2>1. k \in 1 .. 3 * Len(s) /\ (k + 2) \div 3 = d /\ k % 3 = 1
    BY <1>2, <1>3, Thirds
  <2> HIDE DEF k
  <2>2. Work(s)[k] = Len(s[d].goals)
    BY <2>1 DEF Work
  <2> QED  BY <2>2 DEF k
<1>5. Work(s)[3 * d - 1] = IF s[d].goal = NoGoal THEN 0 ELSE 1
  <2> DEFINE k == 3 * d - 1
  <2>1. k \in 1 .. 3 * Len(s) /\ (k + 2) \div 3 = d /\ k % 3 = 2
    BY <1>2, <1>3, Thirds
  <2> HIDE DEF k
  <2>2. Work(s)[k] = IF s[d].goal = NoGoal THEN 0 ELSE 1
    BY <2>1 DEF Work
  <2> QED  BY <2>2 DEF k
<1>6. Work(s)[3 * d] = Len(rules) + 1 - s[d].rule
  <2> DEFINE k == 3 * d
  <2>1. k \in 1 .. 3 * Len(s) /\ (k + 2) \div 3 = d /\ k % 3 = 0
    BY <1>2, <1>3, Thirds
  <2> HIDE DEF k
  <2>2. Work(s)[k] = Len(rules) + 1 - s[d].rule
    BY <2>1 DEF Work
  <2> QED  BY <2>2 DEF k
<1> QED  BY <1>1, <1>3, <1>4, <1>5, <1>6

\* Frames that are the same have the same work.
LEMMA WorkSame ==
  ASSUME NEW s, NEW t, Len(s) \in Nat, Len(t) \in Nat,
         NEW n \in Nat, n <= Len(s), n <= Len(t), \A d \in 1 .. n : t[d] = s[d]
  PROVE  \A j \in 1 .. 3 * n : j \in DOMAIN Work(t) /\ Work(t)[j] = Work(s)[j]
<1> TAKE j \in 1 .. 3 * n
<1> DEFINE d == (j + 2) \div 3
<1>1. d \in 1 .. n /\ j \in 1 .. 3 * Len(s) /\ j \in 1 .. 3 * Len(t)
  OBVIOUS
<1>2. t[d] = s[d]
  BY <1>1
<1>3. Work(t)[j] = LET f == t[d]
                   IN  CASE j % 3 = 1 -> Len(f.goals)
                         [] j % 3 = 2 -> IF f.goal = NoGoal THEN 0 ELSE 1
                         [] OTHER     -> Len(rules) + 1 - f.rule
  BY <1>1 DEF Work
<1>4. Work(s)[j] = LET f == s[d]
                   IN  CASE j % 3 = 1 -> Len(f.goals)
                         [] j % 3 = 2 -> IF f.goal = NoGoal THEN 0 ELSE 1
                         [] OTHER     -> Len(rules) + 1 - f.rule
  BY <1>1 DEF Work
<1>5. j \in DOMAIN Work(t)
  BY <1>1 DEF Work
<1> HIDE DEF d
<1> QED  BY <1>2, <1>3, <1>4, <1>5

\* A stack that stops short of another has less work.
LEMMA LessShorter ==
  ASSUME NEW s, NEW t, Len(s) \in Nat, Len(t) \in Nat, Len(t) < Len(s),
         \A d \in 1 .. Len(t) : t[d] = s[d]
  PROVE  Less(Work(t), Work(s))
<1> DEFINE k == 3 * Len(t) + 1
<1>1. \A j \in 1 .. 3 * Len(t) : j \in DOMAIN Work(t) /\ Work(t)[j] = Work(s)[j]
  BY WorkSame
<1>2. k \in DOMAIN Work(s) /\ k \notin DOMAIN Work(t)
  BY DEF Work
<1>3. 1 .. k - 1 = 1 .. 3 * Len(t)
  OBVIOUS
<1> HIDE DEF k
<1> QED  BY <1>1, <1>2, <1>3 DEF Less

\* So has one that is the same up to a frame n in which something is done.
LEMMA LessDone ==
  ASSUME NEW s, NEW t, Len(s) \in Nat, Len(t) \in Nat,
         NEW n \in 1 .. Len(s), n <= Len(t), \A d \in 1 .. n - 1 : t[d] = s[d],
         Len(rules) \in Nat,
         \/ Len(t[n].goals) < Len(s[n].goals)
         \/ /\ t[n].goals = s[n].goals /\ t[n].goal = NoGoal /\ s[n].goal # NoGoal
         \/ /\ t[n].goals = s[n].goals /\ t[n].goal = s[n].goal
            /\ s[n].rule \in Int /\ t[n].rule = s[n].rule + 1
  PROVE  Less(Work(t), Work(s))
<1> DEFINE m == n - 1
<1>1. m \in Nat /\ m <= Len(s) /\ m <= Len(t) /\ n = m + 1 /\ \A d \in 1 .. m : t[d] = s[d]
  OBVIOUS
<1>2. \A j \in 1 .. 3 * m : j \in DOMAIN Work(t) /\ Work(t)[j] = Work(s)[j]
  <2> HIDE DEF m
  <2> QED  BY <1>1, WorkSame
<1> DEFINE w == Work(s)
           u == Work(t)
<1>3. /\ {3 * n - 2, 3 * n - 1, 3 * n} \subseteq DOMAIN w
      /\ w[3 * n - 2] = Len(s[n].goals)
      /\ w[3 * n - 1] = IF s[n].goal = NoGoal THEN 0 ELSE 1
      /\ w[3 * n] = Len(rules) + 1 - s[n].rule
  BY WorkAt
<1>4. /\ {3 * n - 2, 3 * n - 1, 3 * n} \subseteq DOMAIN u
      /\ u[3 * n - 2] = Len(t[n].goals)
      /\ u[3 * n - 1] = IF t[n].goal = NoGoal THEN 0 ELSE 1
      /\ u[3 * n] = Len(rules) + 1 - t[n].rule
  <2>1. n \in 1 .. Len(t)
    OBVIOUS
  <2> QED  BY <2>1, WorkAt
<1> HIDE DEF w, u, m
<1>5. ASSUME NEW k \in DOMAIN w, k \in DOMAIN u => u[k] < w[k],
             \A j \in 1 .. k - 1 : j \in DOMAIN u /\ u[j] = w[j]
      PROVE  Less(u, w)
  BY <1>5 DEF Less
<1>6. CASE Len(t[n].goals) < Len(s[n].goals)
  <2>1. u[3 * n - 2] < w[3 * n - 2]
    BY <1>3, <1>4, <1>6
  <2>2. (3 * n - 2) - 1 = 3 * m
    BY <1>1
  <2> QED  BY <1>2, <1>3, <1>5, <2>1, <2>2, Zenon DEF u, w
<1>7. CASE t[n].goals = s[n].goals /\ t[n].goal = NoGoal /\ s[n].goal # NoGoal
  <2>1. u[3 * n - 1] = 0 /\ w[3 * n - 1] = 1 /\ u[3 * n - 2] = w[3 * n - 2]
    BY <1>3, <1>4, <1>7
  <2>2. u[3 * n - 1] < w[3 * n - 1]
    BY <2>1
  <2>3. \A j \in 1 .. (3 * n - 1) - 1 : j \in 1 .. 3 * m \/ j = 3 * n - 2
    BY <1>1
  <2>4. \A j \in 1 .. (3 * n - 1) - 1 : j \in DOMAIN u /\ u[j] = w[j]
    BY <1>2, <1>4, <2>1, <2>3, Zenon DEF u, w
  <2>5. Less(u, w)
    BY <1>3, <1>5, <2>2, <2>4, Zenon
  <2> QED  BY <2>5 DEF u, w
<1>8. CASE /\ t[n].goals = s[n].goals /\ t[n].goal = s[n].goal
           /\ s[n].rule \in Int /\ t[n].rule = s[n].rule + 1
  <2>1. u[3 * n - 1] = w[3 * n - 1] /\ u[3 * n - 2] = w[3 * n - 2]
    BY <1>3, <1>4, <1>8
  <2>2. u[3 * n] < w[3 * n]
    BY <1>3, <1>4, <1>8
  <2>3. \A j \in 1 .. 3 * n - 1 : j \in 1 .. 3 * m \/ j = 3 * n - 2 \/ j = 3 * n - 1
    BY <1>1
  <2>4. \A j \in 1 .. 3 * n - 1 : j \in DOMAIN u /\ u[j] = w[j]
    BY <1>2, <1>4, <2>1, <2>3, Zenon DEF u, w
  <2>5. Less(u, w)
    BY <1>3, <1>5, <2>2, <2>4, Zenon
  <2> QED  BY <2>5 DEF u, w
<1> QED  BY <1>6, <1>7, <1>8

-----------------------------------------------------------------------------
(* The steps of the search.                                                *)

Answers == {"none", "no", "yes", "crash"}
Advances == StackOK(stack') /\ Less(Work(stack'), Work(stack))

LEMMA TopFacts ==
  ASSUME SearchInv, stack # << >>
  PROVE  /\ DatabaseOK /\ StackOK(stack) /\ result.is \in Answers
         /\ Len(stack) \in Nat \ {0} /\ FrameOK(Top) /\ IsSeq(Top.goals)
         /\ Top.rule \in 0 .. Len(rules) + 1
         /\ Len(rules) \in Nat /\ DOMAIN rules = 1 .. Len(rules)
<1>1. DatabaseOK /\ StackOK(stack) /\ result.is \in Answers
  BY DEF SearchInv, Answers
<1>2. Len(stack) \in Nat \ {0} /\ \A d \in 1 .. Len(stack) : FrameOK(stack[d])
  BY <1>1, StackFacts
<1>3. Len(stack) \in 1 .. Len(stack)
  BY <1>2
<1>4. FrameOK(Top)
  BY <1>2, <1>3 DEF Top
<1> QED  BY <1>1, <1>2, <1>4, RulesCount DEF FrameOK

\* Something is done in the innermost list.
LEMMA TopAdvances ==
  ASSUME SearchInv, stack # << >>, NEW f, FrameOK(f), stack' = SetTop(f),
         \/ Len(f.goals) < Len(Top.goals)
         \/ f.goals = Top.goals /\ f.goal = NoGoal /\ Top.goal # NoGoal
         \/ f.goals = Top.goals /\ f.goal = Top.goal /\ f.rule = Top.rule + 1
  PROVE  Advances
<1> DEFINE s == stack
           t == SetTop(f)
           n == Len(stack)
<1>1. StackOK(s) /\ n \in Nat \ {0} /\ Len(rules) \in Nat /\ Top.rule \in 0 .. Len(rules) + 1
  BY TopFacts
<1>2. /\ StackOK(t) /\ Len(t) = n
      /\ \A i \in 1 .. n - 1 : t[i] = s[i]
      /\ t[n] = f
  BY <1>1, TopReplaced DEF SetTop
<1>3. s[n] = Top /\ Len(s) = n
  BY DEF Top
<1> HIDE DEF s, t, n
<1>4. Top.rule \in Int
  BY <1>1
<1>5. n \in 1 .. Len(s) /\ n <= Len(t) /\ Len(s) \in Nat /\ Len(t) \in Nat
  BY <1>1, <1>2, <1>3
<1>6. \/ Len(t[n].goals) < Len(s[n].goals)
      \/ /\ t[n].goals = s[n].goals /\ t[n].goal = NoGoal /\ s[n].goal # NoGoal
      \/ /\ t[n].goals = s[n].goals /\ t[n].goal = s[n].goal
         /\ s[n].rule \in Int /\ t[n].rule = s[n].rule + 1
  BY <1>2, <1>3, <1>4
<1>7. Less(Work(t), Work(s))
  BY <1>1, <1>2, <1>5, <1>6, LessDone
<1> QED  BY <1>2, <1>7 DEF Advances, s, t

\* The search ends.
LEMMA EmptyAdvances ==
  ASSUME SearchInv, stack # << >>, stack' = << >>
  PROVE  Advances
<1>1. Len(stack) \in Nat \ {0} /\ MaxDepth \in Nat
  BY TopFacts, SolverAssumption
<1> DEFINE e == << >>
<1>2. IsSeq(e) /\ Len(e) = 0 /\ DOMAIN e = {}
  BY DEF IsSeq
<1> HIDE DEF e
<1>3. StackOK(e)
  BY <1>1, <1>2 DEF StackOK
<1>4. Less(Work(e), Work(stack))
  BY <1>1, <1>2, LessShorter
<1> QED  BY <1>3, <1>4 DEF Advances, e

\* The innermost list fails.
LEMMA FailAdvances ==
  ASSUME SearchInv, stack # << >>, Fails
  PROVE  Advances /\ result'.is \in Answers
<1> DEFINE n == Len(stack) - 1
<1>1. StackOK(stack) /\ Len(stack) \in Nat \ {0} /\ result.is \in Answers
  BY TopFacts
<1>2. CASE Len(stack) = 1
  <2>1. stack' = << >> /\ result' = No
    BY <1>2 DEF Fails, Finish
  <2> QED  BY <2>1, EmptyAdvances DEF No, Answers
<1>3. CASE Len(stack) # 1
  <2>1. stack' = SubSeq(stack, 1, n) /\ result' = result
    BY <1>3 DEF Fails
  <2>2. n \in Nat /\ n < Len(stack)
    BY <1>1, <1>3
  <2> DEFINE t == SubSeq(stack, 1, n)
  <2> HIDE DEF n
  <2>3. StackOK(t) /\ Len(t) = n /\ \A i \in 1 .. n : t[i] = stack[i]
    BY <1>1, <2>2, TopPopped
  <2> HIDE DEF t
  <2>4. Less(Work(t), Work(stack))
    BY <1>1, <2>2, <2>3, LessShorter
  <2> QED  BY <1>1, <2>1, <2>3, <2>4 DEF Advances, t
<1> QED  BY <1>2, <1>3

\* The goal of the innermost list is solved.
LEMMA SucceedAdvances ==
  ASSUME SearchInv, Solving, NEW u, Succeed(u)
  PROVE  Advances /\ result'.is \in Answers
<1>1. stack # << >> /\ Top.goal # NoGoal /\ stack' = SetTop(Solved(Top, u)) /\ result' = result
  BY DEF Solving, Succeed
<1>2. DatabaseOK /\ FrameOK(Top) /\ result.is \in Answers
  BY <1>1, TopFacts
<1>3. FrameOK(Solved(Top, u)) /\ Solved(Top, u).goals = Top.goals /\ Solved(Top, u).goal = NoGoal
  BY <1>2, FrameOps
<1>4. Advances
  BY <1>1, <1>3, TopAdvances
<1> QED  BY <1>1, <1>2, <1>4

LEMMA NextGoalAdvances ==
  ASSUME SearchInv, NextGoal
  PROVE  Advances /\ result'.is \in Answers
<1>1. stack # << >> /\ Top.goals # << >>
  BY DEF NextGoal
<1>2. PICK goal \in {Applied(Head(Top.goals), Top)} :
         IF runs_away(goal) THEN Finish(Crash)
         ELSE /\ stack' = SetTop([Top EXCEPT !.goals = Tail(@), !.goal = goal])
              /\ UNCHANGED result
  BY DEF NextGoal
<1>3. DatabaseOK /\ FrameOK(Top) /\ result.is \in Answers /\ IsSeq(Top.goals)
  BY <1>1, TopFacts
<1>4. CASE runs_away(goal)
  <2>1. stack' = << >> /\ result' = Crash
    BY <1>2, <1>4 DEF Finish
  <2> QED  BY <1>1, <2>1, EmptyAdvances DEF Crash, Answers
<1>5. CASE ~runs_away(goal)
  <2>1. stack' = SetTop(Begun(Top, goal)) /\ result' = result
    BY <1>2, <1>5, Zenon DEF Begun
  <2>2. FrameOK(Begun(Top, goal)) /\ Begun(Top, goal).goals = Tail(Top.goals)
    BY <1>1, <1>3, FrameOps
  <2>3. Len(Tail(Top.goals)) < Len(Top.goals)
    BY <1>1, <1>3, SeqTail
  <2>4. Len(Begun(Top, goal).goals) < Len(Top.goals)
    BY <2>2, <2>3
  <2>5. Advances
    BY <1>1, <2>1, <2>2, <2>4, TopAdvances
  <2> QED  BY <1>3, <2>1, <2>5
<1> QED  BY <1>4, <1>5

LEMMA ListSolvedAdvances ==
  ASSUME SearchInv, ListSolved
  PROVE  Advances /\ result'.is \in Answers
<1>1. stack # << >>
  BY DEF ListSolved
<1>2. /\ DatabaseOK /\ StackOK(stack) /\ result.is \in Answers /\ Len(stack) \in Nat \ {0}
      /\ Len(rules) \in Nat
  BY <1>1, TopFacts
<1>3. CASE Len(stack) = 1
  <2>1. stack' = << >> /\ (result' = Crash \/ result' = Yes(Top.subs))
    BY <1>3 DEF ListSolved, Finish
  <2> QED  BY <1>1, <2>1, EmptyAdvances DEF Crash, Yes, Answers
<1>4. CASE Len(stack) # 1
  <2> DEFINE m == Len(stack) - 1
             below == stack[m]
             f == Solved(below, Top.subs)
             t == Append(SubSeq(stack, 1, Len(stack) - 2), f)
  <2>1. stack' = t /\ result' = result
    BY <1>4 DEF ListSolved
  <2>2. m \in 1 .. Len(stack) - 1 /\ Len(stack) > 1
    BY <1>2, <1>4
  <2>3. FrameOK(below) /\ below.goal # NoGoal
    BY <1>1, <1>2, <2>2, StackFacts
  <2>4. FrameOK(f) /\ f.goals = below.goals /\ f.goal = NoGoal
    BY <1>2, <2>3, FrameOps
  <2> HIDE DEF f, below
  <2>5. /\ StackOK(t) /\ Len(t) = m
        /\ \A i \in 1 .. m - 1 : t[i] = stack[i]
        /\ t[m] = f
    BY <1>2, <2>2, <2>4, TopReturned
  <2> HIDE DEF t
  <2>6. stack[m] = below
    BY DEF below
  <2> HIDE DEF m
  <2>7. m \in 1 .. Len(stack) /\ m <= Len(t) /\ Len(t) \in Nat
    BY <1>2, <2>2, <2>5
  <2>8. Less(Work(t), Work(stack))
    BY <1>2, <2>3, <2>4, <2>5, <2>6, <2>7, LessDone
  <2> QED  BY <1>2, <2>1, <2>5, <2>8 DEF Advances
<1> QED  BY <1>3, <1>4

LEMMA BuiltinAdvances ==
  ASSUME SearchInv, Builtin
  PROVE  Advances /\ result'.is \in Answers
<1>1. Solving /\ stack # << >>
  BY DEF Builtin, Solving
<1>2. \/ Finish(Crash)
      \/ \E u : Succeed(u)
      \/ Fails
  BY Zenon DEF Builtin
<1>3. CASE Finish(Crash)
  BY <1>1, <1>3, EmptyAdvances DEF Finish, Crash, Answers
<1>4. CASE \E u : Succeed(u)
  BY <1>1, <1>4, SucceedAdvances
<1>5. CASE Fails
  BY <1>1, <1>5, FailAdvances
<1> QED  BY <1>2, <1>3, <1>4, <1>5

LEMMA NoFactAdvances ==
  ASSUME SearchInv, NoFact
  PROVE  Advances /\ result'.is \in Answers
<1>1. stack # << >> /\ Top.rule = 0 /\ result' = result /\ stack' = SetTop(Turned(Top, 1))
  BY DEF NoFact, Trying, Solving, Turned
<1>2. DatabaseOK /\ FrameOK(Top) /\ result.is \in Answers /\ Len(rules) \in Nat
  BY <1>1, TopFacts
<1>3. 1 \in 0 .. Len(rules) + 1
  BY <1>2
<1>4. /\ FrameOK(Turned(Top, 1)) /\ Turned(Top, 1).goals = Top.goals
      /\ Turned(Top, 1).goal = Top.goal /\ Turned(Top, 1).rule = 1
  BY <1>2, <1>3, FrameOps
<1>5. Turned(Top, 1).rule = Top.rule + 1
  BY <1>1, <1>4
<1>6. Advances
  BY <1>1, <1>4, <1>5, TopAdvances
<1> QED  BY <1>1, <1>2, <1>6

LEMMA MatchFactAdvances ==
  ASSUME SearchInv, MatchFact
  PROVE  Advances /\ result'.is \in Answers
<1>1. Solving /\ \E u : Succeed(u)
  BY Zenon DEF MatchFact, Trying
<1> QED  BY <1>1, SucceedAdvances

LEMMA DeepGoalAdvances ==
  ASSUME SearchInv, DeepGoal
  PROVE  Advances /\ result'.is \in Answers
BY FailAdvances DEF DeepGoal, Solving

LEMMA NoRuleAdvances ==
  ASSUME SearchInv, NoRule
  PROVE  Advances /\ result'.is \in Answers
BY FailAdvances DEF NoRule, Trying, Solving

\* A list of goals that is made of another, goal by goal.
LEMMA SeqMade ==
  ASSUME NEW b, IsSeq(b), NEW c, DOMAIN c = DOMAIN b, c = [i \in DOMAIN c |-> c[i]]
  PROVE  IsSeq(c)
<1>1. Len(b) \in Nat /\ DOMAIN c = 1 .. Len(b)
  BY SeqFacts
<1>2. \A i \in 1 .. Len(b) : c[i] \in Range(c)
  BY <1>1 DEF Range
<1> DEFINE S == Range(c)
<1> HIDE DEF S
<1>3. c \in [1 .. Len(b) -> S]
  BY <1>1, <1>2 DEF S
<1> QED  BY <1>1, <1>3, SeqDef DEF IsSeq, S

\* A rule is tried: its body may be pushed on the frame that goes on with the
\* next rule.
LEMMA TryRuleAdvances ==
  ASSUME SearchInv, TryRule
  PROVE  Advances /\ result'.is \in Answers
<1> DEFINE rule == rules[Top.rule]
           u == Matches(Top.goal, rule.head, Top.subs)
           next == Turned(Top, Top.rule + 1)
           applied == [i \in DOMAIN rule.body |-> apply_subst(engine, rule.body[i], u.subs)]
           body == IF engine = "polylog" THEN rule.body ELSE applied
           t == SetTop(next)
<1>1. /\ stack # << >> /\ Top.goal # NoGoal /\ ~TooDeep /\ Top.rule \in DOMAIN rules
      /\ result' = result
  BY DEF TryRule, Trying, Solving
<1>2. stack' = IF u.ok THEN Append(t, Frame(body, u.subs)) ELSE t
  BY Zenon DEF TryRule, Turned
<1>3. /\ DatabaseOK /\ StackOK(stack) /\ FrameOK(Top) /\ result.is \in Answers
      /\ Len(stack) \in Nat \ {0} /\ Len(rules) \in Nat /\ Top.rule \in 1 .. Len(rules)
  BY <1>1, TopFacts
<1>4. IsSeq(rule.body) /\ IsSeq(applied)
  <2>1. IsSeq(rule.body)
    BY <1>1, <1>3 DEF DatabaseOK
  <2>2. DOMAIN applied = DOMAIN rule.body /\ applied = [i \in DOMAIN applied |-> applied[i]]
    BY Zenon
  <2> HIDE DEF applied
  <2>3. IsSeq(applied)
    BY <2>1, <2>2, SeqMade
  <2> QED  BY <2>1, <2>3
<1>5. IsSeq(body)
  BY <1>4, Zenon
<1>6. Top.rule + 1 \in 0 .. Len(rules) + 1
  BY <1>3
<1>7. /\ FrameOK(next) /\ next.goals = Top.goals
      /\ next.goal = Top.goal /\ next.rule = Top.rule + 1
  BY <1>3, <1>6, FrameOps
<1> HIDE DEF next, body, u
<1>8. CASE ~u.ok
  <2>1. stack' = SetTop(next)
    BY <1>2, <1>8
  <2>2. Advances
    BY <1>1, <1>7, <2>1, TopAdvances
  <2> QED  BY <1>1, <1>3, <2>2
<1>9. CASE u.ok
  <2> DEFINE n == Len(stack)
             f == Frame(body, u.subs)
             w == Append(t, f)
  <2>1. FrameOK(f)
    BY <1>3, <1>5, FreshFrame
  <2>2. /\ StackOK(t) /\ Len(t) = n /\ t # << >>
        /\ \A i \in 1 .. n - 1 : t[i] = stack[i]
        /\ t[n] = next
    BY <1>1, <1>3, <1>7, TopReplaced DEF SetTop
  <2>3. n - 1 <= MaxDepth
    BY <1>1, <1>3, SolverAssumption DEF TooDeep
  <2>4. stack[n] = Top /\ n = Len(stack)
    BY DEF Top
  <2> HIDE DEF f, t, n
  <2>5. Len(t) - 1 <= MaxDepth /\ t[Len(t)].goal # NoGoal
    BY <1>1, <1>7, <2>2, <2>3
  <2>6. StackOK(w) /\ Len(w) = n + 1 /\ \A i \in 1 .. n : w[i] = t[i]
    BY <2>1, <2>2, <2>5, TopPushed
  <2> HIDE DEF w
  <2>7. n \in 1 .. Len(stack) /\ n <= Len(w) /\ Len(w) \in Nat /\ Len(stack) \in Nat
    BY <1>3, <2>4, <2>6
  <2>8. \A i \in 1 .. n - 1 : w[i] = stack[i]
    BY <1>3, <2>2, <2>4, <2>6
  <2>9. w[n] = next
    BY <1>3, <2>2, <2>4, <2>6
  <2>10. /\ w[n].goals = stack[n].goals /\ w[n].goal = stack[n].goal
         /\ stack[n].rule \in Int /\ w[n].rule = stack[n].rule + 1
    BY <1>3, <1>7, <2>4, <2>9
  <2>11. Less(Work(w), Work(stack))
    BY <1>3, <2>7, <2>8, <2>10, LessDone
  <2>12. stack' = w
    BY <1>2, <1>9 DEF w, f
  <2> QED  BY <1>1, <1>3, <2>6, <2>11, <2>12 DEF Advances
<1> QED  BY <1>8, <1>9

LEMMA StepAdvances ==
  ASSUME SearchInv, Step
  PROVE  /\ Advances /\ result'.is \in Answers
         /\ stack # << >> /\ Search
<1>1. stack # << >> /\ Search
  BY DEF Step, NextGoal, ListSolved, DeepGoal, Builtin, MatchFact, NoFact, TryRule, NoRule,
         Trying, Solving
<1>2. Advances /\ result'.is \in Answers
  BY NextGoalAdvances, ListSolvedAdvances, DeepGoalAdvances, BuiltinAdvances,
     MatchFactAdvances, NoFactAdvances, TryRuleAdvances, NoRuleAdvances DEF Step
<1> QED  BY <1>1, <1>2

LEMMA StepInv ==
  ASSUME SearchInv, Step
  PROVE  SearchInv'
<1>1. Advances /\ result'.is \in Answers /\ Search
  BY StepAdvances
<1>2. /\ engine' = engine /\ mode' = mode /\ facts' = facts /\ rules' = rules
      /\ typed' = typed
  BY <1>1 DEF Search
<1>3. StackOK(stack)'
  BY <1>1, <1>2 DEF Advances, StackOK, FrameOK, IsSeq
<1>4. DatabaseOK'
  BY <1>2 DEF SearchInv, DatabaseOK, IsSeq
<1> QED  BY <1>1, <1>2, <1>3, <1>4 DEF SearchInv, Answers

-----------------------------------------------------------------------------
(* The prompt.                                                             *)

LEMMA EmptyStack ==
  ASSUME stack' = << >>
  PROVE  StackOK(stack)'
<1>1. MaxDepth \in Nat
  BY SolverAssumption
<1> DEFINE e == << >>
<1>2. IsSeq(e) /\ Len(e) = 0 /\ DOMAIN e = {}
  BY DEF IsSeq
<1>3. stack' = e
  OBVIOUS
<1> HIDE DEF e
<1>4. IsSeq(stack') /\ Len(stack') = 0 /\ DOMAIN stack' = {}
  BY <1>2, <1>3
<1> QED  BY <1>1, <1>4 DEF StackOK, IsSeq

\* A line that is answered without a search, a fact, a rule, a query.
LEMMA AnswerInv ==
  ASSUME DatabaseOK, stack = << >>, NEW a, a.is \in Answers, Answer(a)
  PROVE  DatabaseOK' /\ StackOK(stack)' /\ result'.is \in Answers
<1>1. facts' = facts /\ rules' = rules /\ stack' = << >> /\ result' = a
  BY DEF Answer
<1> QED  BY <1>1, EmptyStack DEF DatabaseOK, IsSeq

LEMMA AddFactInv ==
  ASSUME DatabaseOK, stack = << >>, NEW f, AddFact(f)
  PROVE  DatabaseOK' /\ StackOK(stack)' /\ result'.is \in Answers
<1>1. rules' = rules /\ stack' = << >> /\ result' = None
  BY DEF AddFact
<1>2. IsSeq(facts) /\ Len(facts) \in Nat /\ Len(facts) <= MaxFacts /\ MaxFacts \in Nat
  BY SeqFacts, SolverAssumption DEF DatabaseOK
<1>3. facts' = IF Len(facts) < MaxFacts THEN Append(facts, f) ELSE facts
  BY DEF AddFact
<1>4. IsSeq(Append(facts, f)) /\ Len(Append(facts, f)) = Len(facts) + 1
  BY <1>2, SeqAppend
<1>5. IsSeq(facts') /\ Len(facts') <= MaxFacts
  BY <1>2, <1>3, <1>4
<1>6. DatabaseOK'
  BY <1>1, <1>5 DEF DatabaseOK, IsSeq
<1> QED  BY <1>1, <1>6, EmptyStack DEF None, Answers

LEMMA AddRuleInv ==
  ASSUME DatabaseOK, stack = << >>, NEW head, NEW body, IsSeq(body), AddRule(head, body)
  PROVE  DatabaseOK' /\ StackOK(stack)' /\ result'.is \in Answers
<1> DEFINE r == [head |-> head, body |-> body]
           longer == Append(rules, r)
<1>1. facts' = facts /\ stack' = << >> /\ result' = None
  BY DEF AddRule
<1>2. /\ IsSeq(rules) /\ Len(rules) \in Nat /\ DOMAIN rules = 1 .. Len(rules)
      /\ Len(rules) <= MaxRules /\ MaxRules \in Nat
      /\ \A i \in 1 .. Len(rules) : IsSeq(rules[i].body)
  BY SeqFacts, SolverAssumption DEF DatabaseOK
<1>3. rules' = IF Len(rules) < MaxRules THEN longer ELSE rules
  BY DEF AddRule
<1>4. IsSeq(r.body)
  OBVIOUS
<1> HIDE DEF r
<1>5. /\ IsSeq(longer) /\ Len(longer) = Len(rules) + 1 /\ DOMAIN longer = 1 .. Len(rules) + 1
      /\ \A i \in 1 .. Len(rules) : longer[i] = rules[i]
      /\ longer[Len(rules) + 1] = r
  BY <1>2, SeqAppend
<1> HIDE DEF longer
<1>6. \A i \in DOMAIN longer : IsSeq(longer[i].body)
  BY <1>2, <1>4, <1>5
<1>7. IsSeq(rules') /\ Len(rules') <= MaxRules /\ \A i \in DOMAIN rules' : IsSeq(rules'[i].body)
  BY <1>2, <1>3, <1>5, <1>6
<1>8. DatabaseOK'
  BY <1>1, <1>7 DEF DatabaseOK, IsSeq
<1> QED  BY <1>1, <1>8, EmptyStack DEF None, Answers

LEMMA AskInv ==
  ASSUME DatabaseOK, stack = << >>, NEW goals, IsSeq(goals), Ask(goals)
  PROVE  DatabaseOK' /\ StackOK(stack)' /\ result'.is \in Answers
<1> DEFINE f == Frame(goals, << >>)
<1>1. facts' = facts /\ rules' = rules /\ stack' = <<f>> /\ result' = None
  BY DEF Ask
<1>2. FrameOK(f) /\ MaxDepth \in Nat
  BY FreshFrame, SolverAssumption
<1> HIDE DEF f
<1>3. <<f>> \in Seq({f}) /\ Len(<<f>>) = 1 /\ DOMAIN <<f>> = 1 .. 1 /\ <<f>>[1] = f
  OBVIOUS
<1>4. IsSeq(<<f>>)
  BY <1>3, SeqOfRange DEF IsSeq
<1> DEFINE s == <<f>>
<1>5. StackOK(s)
  <2> HIDE DEF s
  <2>1. IsSeq(s) /\ Len(s) = 1 /\ DOMAIN s = 1 .. 1 /\ s[1] = f
    BY <1>3, <1>4 DEF s
  <2> QED  BY <1>2, <2>1 DEF StackOK
<1> HIDE DEF s
<1>6. stack' = s
  BY <1>1 DEF s
<1>7. StackOK(stack)'
  BY <1>1, <1>5, <1>6 DEF StackOK, FrameOK, IsSeq
<1>8. DatabaseOK'
  BY <1>1 DEF DatabaseOK, IsSeq
<1> QED  BY <1>1, <1>7, <1>8 DEF None, Answers

LEMMA TypeInv ==
  ASSUME SearchInv, Type
  PROVE  SearchInv'
<1>1. /\ DatabaseOK /\ stack = << >> /\ typed' = typed + 1 /\ typed' \in 0 .. MaxLines
      /\ typed + 1 \in 1 .. MaxLines /\ engine' = engine /\ mode' = mode
  BY SolverAssumption DEF Type, Prompt, SearchInv
<1>2. PICK l \in Lines(typed + 1) :
         \/ ExecuteLogic(l) \/ ExecuteProlog(l) \/ ExecuteDatalog(l)
  BY Zenon DEF Type
<1>3. IsSeq(l.body)
  BY <1>1, SolverAssumption DEF IsSeq
<1>4. IsSeq(Tail(l.body)) \/ ~(Len(l.body) > 1)
  <2>1. ASSUME Len(l.body) > 1 PROVE IsSeq(Tail(l.body))
    <3>1. l.body # << >>
      BY <1>3, <2>1, SeqFacts
    <3> QED  BY <1>3, <3>1, SeqTail
  <2> QED  BY <2>1
<1>5. Yes(<< >>).is \in Answers /\ No.is \in Answers
  BY DEF Yes, No, Answers
<1>6. DatabaseOK' /\ StackOK(stack)' /\ result'.is \in Answers
  <2>1. CASE ExecuteLogic(l)
    BY <1>1, <1>3, <2>1, AddFactInv, AddRuleInv, AskInv, Zenon DEF ExecuteLogic
  <2>2. CASE ExecuteProlog(l)
    <3>1. \/ AddFact(l.head) \/ Answer(Yes(<< >>)) \/ AddRule(l.head, l.body)
          \/ Len(l.body) > 1 /\ AddRule(Head(l.body), Tail(l.body))
          \/ Ask(l.body)
      BY <2>2, Zenon DEF ExecuteProlog
    <3> QED  BY <1>1, <1>3, <1>4, <1>5, <3>1, AddFactInv, AddRuleInv, AskInv, AnswerInv, Zenon
  <2>3. CASE ExecuteDatalog(l)
    <3>1. AddFact(l.head) \/ Answer(No) \/ Answer(Yes(<< >>))
      BY <2>3, Zenon DEF ExecuteDatalog
    <3> QED  BY <1>1, <1>5, <3>1, AddFactInv, AnswerInv, Zenon
  <2> QED  BY <1>2, <2>1, <2>2, <2>3, Zenon
<1> QED  BY <1>1, <1>6 DEF SearchInv, Answers

LEMMA SwitchModeInv ==
  ASSUME SearchInv, SwitchMode
  PROVE  SearchInv'
<1>1. /\ stack' = << >> /\ result' = None /\ mode' \in {"prolog", "datalog"}
      /\ engine' = engine /\ facts' = facts /\ rules' = rules /\ typed' = typed
  BY DEF SwitchMode, Prompt
<1>2. DatabaseOK' /\ StackOK(stack)'
  BY <1>1, EmptyStack DEF SearchInv, DatabaseOK, IsSeq
<1> QED  BY <1>1, <1>2 DEF SearchInv, None

LEMMA StutterInv ==
  ASSUME SearchInv, UNCHANGED vars
  PROVE  SearchInv'
BY DEF SearchInv, DatabaseOK, StackOK, FrameOK, IsSeq, vars

LEMMA InitInv ==
  ASSUME Init
  PROVE  SearchInv
<1> DEFINE e == << >>
<1>1. IsSeq(e) /\ Len(e) = 0 /\ DOMAIN e = {}
  BY DEF IsSeq
<1>2. facts = e /\ rules = e /\ stack = e /\ result.is = "none" /\ engine \in Engines
      /\ mode = "prolog" /\ typed = 0
  BY DEF Init, None
<1> HIDE DEF e
<1>3. MaxFacts \in Nat /\ MaxRules \in Nat /\ MaxDepth \in Nat /\ MaxLines \in Nat
  BY SolverAssumption
<1>4. DatabaseOK
  BY <1>1, <1>2, <1>3 DEF DatabaseOK
<1>5. StackOK(stack)
  BY <1>1, <1>2, <1>3 DEF StackOK
<1> QED  BY <1>2, <1>3, <1>4, <1>5 DEF SearchInv

LEMMA SearchInvHolds == Spec => []SearchInv
<1>1. Init => SearchInv
  BY InitInv
<1>2. SearchInv /\ [Next]_vars => SearchInv'
  BY StepInv, TypeInv, SwitchModeInv, StutterInv DEF Next
<1> QED  BY <1>1, <1>2, PTL DEF Spec

-----------------------------------------------------------------------------
(* A yes follows from the database.  The argument is about one meaning g:  *)
(* as long as g fits what a list of goals has been solved with and what is *)
(* left of the list holds, so does what the list was begun for (Upheld):   *)
(* the whole query for the first list, for the body of a rule the goal     *)
(* that the rule was tried for.                                            *)

Asked(g, M) == \A k \in DOMAIN line.body : g[line.body[k]] \in M

\* Goals of the query must hold as g means them, those of a body as any does.
Due(t, d, g, G, M) == IF d = 1 THEN g[t] \in M ELSE \E h \in G : h[t] \in M

Pending(f, d, g, G, M) ==
  /\ \A i \in DOMAIN f.goals : Due(f.goals[i], d, g, G, M)
  /\ f.goal # NoGoal => g[f.goal] \in M

Purpose(st, d, g, M) ==
  IF d = 1 THEN Asked(g, M) ELSE Fits(g, st[d - 1].subs) /\ g[st[d - 1].goal] \in M

Upheld(st, d, g, G, M) ==
  Fits(g, st[d].subs) /\ Pending(st[d], d, g, G, M) => Purpose(st, d, g, M)

AllUpheld(st, g, G, M) == \A d \in 1 .. Len(st) : Upheld(st, d, g, G, M)

\* A query of polylog has one goal, which is begun with nothing bound.
FrameMeans(f, d, Goals, Subs) ==
  /\ f.subs \in Subs
  /\ \A i \in DOMAIN f.goals : f.goals[i] \in Goals
  /\ f.goal # NoGoal => f.goal \in Goals /\ Settled(engine, f.goal, f.subs)
  /\ d = 1 /\ engine = "polylog" /\ f.goals # << >> =>
       Len(f.goals) = 1 /\ f.goal = NoGoal /\ f.subs = << >>

StackMeans(st, Goals, Subs) == \A d \in 1 .. Len(st) : FrameMeans(st[d], d, Goals, Subs)

DatabaseMeans(Goals) ==
  /\ \A i \in DOMAIN facts : facts[i] \in Goals
  /\ engine = "polylog" => \A i \in DOMAIN facts : IsPred(facts[i])
  /\ \A i \in DOMAIN rules :
       /\ rules[i].head \in Goals
       /\ \A k \in DOMAIN rules[i].body : rules[i].body[k] \in Goals

YesMeans(r, g, M) ==
  r.is = "yes" /\ line.kind = "query" /\ Fits(g, r.subs) => Asked(g, M)

SoundInv(Goals, Subs, G, M, g) ==
  /\ SearchInv
  /\ DatabaseMeans(Goals)
  /\ StackMeans(stack, Goals, Subs)
  /\ IsModel(M, Goals, G) => AllUpheld(stack, g, G, M) /\ YesMeans(result, g, M)

\* What a step of the search must keep.
Keeps(Goals, Subs, G, M, g) ==
  /\ StackMeans(stack', Goals, Subs)
  /\ IsModel(M, Goals, G) => AllUpheld(stack', g, G, M) /\ YesMeans(result', g, M)

-----------------------------------------------------------------------------
(* One list of goals at a time.                                            *)

\* What fits an extended substitution fits the one that is extended.
LEMMA FitsLonger ==
  ASSUME NEW s, IsSeq(s), NEW e, NEW g, Fits(g, Append(s, e))
  PROVE  Fits(g, s)
<1> DEFINE t == Append(s, e)
<1>1. DOMAIN s = 1 .. Len(s) /\ Len(s) \in Nat /\ DOMAIN t = 1 .. Len(s) + 1
      /\ \A i \in 1 .. Len(s) : t[i] = s[i]
  BY SeqFacts, SeqAppend
<1>2. Fits(g, t)
  OBVIOUS
<1> HIDE DEF t
<1>3. \A i \in 1 .. Len(s) : i \in DOMAIN t /\ t[i] = s[i]
  BY <1>1
<1> QED  BY <1>1, <1>2, <1>3, Zenon DEF Fits

\* The last list of goals is another, which has as much left to do.
LEMMA UpheldOn ==
  ASSUME NEW st, NEW t, NEW n \in Nat \ {0}, NEW g, NEW G, NEW M,
         Upheld(st, n, g, G, M), n > 1 => t[n - 1] = st[n - 1],
         Fits(g, t[n].subs) /\ Pending(t[n], n, g, G, M) =>
           Fits(g, st[n].subs) /\ Pending(st[n], n, g, G, M)
  PROVE  Upheld(t, n, g, G, M)
<1>1. Purpose(st, n, g, M) => Purpose(t, n, g, M)
  BY DEF Purpose
<1> QED  BY <1>1, Zenon DEF Upheld

\* Lists of goals that do not change.
LEMMA UpheldSame ==
  ASSUME NEW st, NEW t, NEW n \in Nat, NEW g, NEW G, NEW M,
         \A i \in 1 .. n : t[i] = st[i],
         \A d \in 1 .. n : Upheld(st, d, g, G, M)
  PROVE  \A d \in 1 .. n : Upheld(t, d, g, G, M)
<1> TAKE d \in 1 .. n
<1>1. d > 1 => d - 1 \in 1 .. n
  OBVIOUS
<1>2. d > 1 => t[d - 1] = st[d - 1]
  BY <1>1
<1>3. t[d] = st[d] /\ Upheld(st, d, g, G, M) /\ d \in Nat \ {0}
  OBVIOUS
<1> QED  BY <1>2, <1>3, UpheldOn, Zenon

LEMMA FrameFields ==
  ASSUME NEW f, FrameOK(f), NEW x
  PROVE  /\ /\ Begun(f, x).goals = Tail(f.goals)
            /\ Begun(f, x).goal = x
            /\ Begun(f, x).subs = f.subs
         /\ /\ Solved(f, x).goals = f.goals
            /\ Solved(f, x).goal = NoGoal
            /\ Solved(f, x).subs = x
         /\ /\ Turned(f, x).goals = f.goals
            /\ Turned(f, x).goal = f.goal
            /\ Turned(f, x).subs = f.subs
<1> DEFINE a == f.goals
           b == f.goal
           c == f.subs
           d == f.rule
<1>1. f = FrameOf(a, b, c, d)
  BY DEF FrameOK, FrameOf
<1>2. f.goals = a /\ f.goal = b /\ f.subs = c
  OBVIOUS
<1> HIDE DEF a, b, c, d
<1>3. /\ Begun(f, x) = FrameOf(Tail(a), x, c, d)
      /\ Solved(f, x) = FrameOf(a, NoGoal, x, 0)
      /\ Turned(f, x) = FrameOf(a, b, c, x)
  BY <1>1, FrameRecord
<1>4. /\ FrameOf(Tail(a), x, c, d).goals = Tail(a) /\ FrameOf(Tail(a), x, c, d).goal = x
      /\ FrameOf(Tail(a), x, c, d).subs = c
  BY DEF FrameOf
<1>5. /\ FrameOf(a, NoGoal, x, 0).goals = a /\ FrameOf(a, NoGoal, x, 0).goal = NoGoal
      /\ FrameOf(a, NoGoal, x, 0).subs = x
  BY DEF FrameOf
<1>6. /\ FrameOf(a, b, c, x).goals = a /\ FrameOf(a, b, c, x).goal = b
      /\ FrameOf(a, b, c, x).subs = c
  BY DEF FrameOf
<1>7. /\ Begun(f, x).goals = Tail(f.goals) /\ Begun(f, x).goal = x /\ Begun(f, x).subs = f.subs
  BY <1>2, <1>3, <1>4, Zenon
<1>8. /\ Solved(f, x).goals = f.goals /\ Solved(f, x).goal = NoGoal /\ Solved(f, x).subs = x
  BY <1>2, <1>3, <1>5, Zenon
<1>9. /\ Turned(f, x).goals = f.goals /\ Turned(f, x).goal = f.goal
      /\ Turned(f, x).subs = f.subs
  BY <1>2, <1>3, <1>6, Zenon
<1> QED  BY <1>7, <1>8, <1>9, Zenon

LEMMA SoundFacts ==
  ASSUME NEW Goals, NEW Subs, NEW G, NEW M, NEW g, SoundInv(Goals, Subs, G, M, g), stack # << >>
  PROVE  /\ SearchInv /\ IsSeq(stack) /\ Len(stack) \in Nat \ {0}
         /\ FrameOK(Top) /\ FrameMeans(Top, Len(stack), Goals, Subs)
         /\ stack[Len(stack)] = Top
         /\ DatabaseMeans(Goals) /\ DatabaseOK
         /\ \A d \in 1 .. Len(stack) : FrameMeans(stack[d], d, Goals, Subs) /\ FrameOK(stack[d])
         /\ \A d \in 1 .. Len(stack) - 1 : stack[d].goal # NoGoal
         /\ IsModel(M, Goals, G) =>
              /\ \A d \in 1 .. Len(stack) : Upheld(stack, d, g, G, M)
              /\ YesMeans(result, g, M)
<1>1. /\ SearchInv /\ DatabaseMeans(Goals) /\ StackMeans(stack, Goals, Subs)
      /\ IsModel(M, Goals, G) => AllUpheld(stack, g, G, M) /\ YesMeans(result, g, M)
  BY DEF SoundInv
<1>2. FrameOK(Top) /\ Len(stack) \in Nat \ {0} /\ StackOK(stack) /\ DatabaseOK
  BY <1>1, TopFacts
<1>3. /\ IsSeq(stack) /\ \A d \in 1 .. Len(stack) : FrameOK(stack[d])
      /\ \A d \in 1 .. Len(stack) - 1 : stack[d].goal # NoGoal
  BY <1>2, StackFacts
<1>4. Len(stack) \in 1 .. Len(stack) /\ stack[Len(stack)] = Top
  BY <1>2 DEF Top
<1>5. \A d \in 1 .. Len(stack) : FrameMeans(stack[d], d, Goals, Subs)
  BY <1>1 DEF StackMeans
<1>6. FrameMeans(Top, Len(stack), Goals, Subs)
  BY <1>4, <1>5
<1> QED  BY <1>1, <1>2, <1>3, <1>4, <1>5, <1>6, Zenon DEF AllUpheld

\* A stack t takes the place of the stack: the lists up to n - 1 are the same,
\* and the n-th, its last, has as much left to do as the n-th had.
LEMMA StackKept ==
  ASSUME NEW Goals, NEW Subs, NEW G, NEW M, NEW g, SoundInv(Goals, Subs, G, M, g), stack # << >>,
         NEW t, NEW n \in Nat \ {0}, n <= Len(stack), Len(t) = n,
         \A i \in 1 .. n - 1 : t[i] = stack[i],
         FrameMeans(t[n], n, Goals, Subs),
         IsModel(M, Goals, G) /\ Fits(g, t[n].subs) /\ Pending(t[n], n, g, G, M) =>
           Fits(g, stack[n].subs) /\ Pending(stack[n], n, g, G, M)
  PROVE  /\ StackMeans(t, Goals, Subs)
         /\ IsModel(M, Goals, G) => AllUpheld(t, g, G, M)
<1>1. /\ \A d \in 1 .. Len(stack) : FrameMeans(stack[d], d, Goals, Subs)
      /\ IsModel(M, Goals, G) => \A d \in 1 .. Len(stack) : Upheld(stack, d, g, G, M)
      /\ Len(stack) \in Nat
  BY SoundFacts
<1>2. \A d \in 1 .. n : d = n \/ (d \in 1 .. n - 1 /\ d \in 1 .. Len(stack))
  BY <1>1
<1>3. StackMeans(t, Goals, Subs)
  BY <1>1, <1>2, Zenon DEF StackMeans
<1>4. ASSUME IsModel(M, Goals, G) PROVE AllUpheld(t, g, G, M)
  <2> DEFINE m == n - 1
  <2>1. m \in Nat /\ (n > 1 => m \in 1 .. m) /\ n \in 1 .. Len(stack)
    BY <1>1
  <2>2. \A d \in 1 .. m : Upheld(stack, d, g, G, M)
    BY <1>1, <1>4
  <2>3. \A i \in 1 .. m : t[i] = stack[i]
    OBVIOUS
  <2>4. n > 1 => t[n - 1] = stack[n - 1]
    BY <2>1, <2>3
  <2>5. Upheld(stack, n, g, G, M)
    BY <1>1, <1>4, <2>1
  <2>6. Upheld(t, n, g, G, M)
    BY <1>4, <2>4, <2>5, UpheldOn
  <2> HIDE DEF m
  <2>7. \A d \in 1 .. m : Upheld(t, d, g, G, M)
    BY <2>1, <2>2, <2>3, UpheldSame
  <2>8. \A d \in 1 .. Len(t) : d \in 1 .. m \/ d = n
    BY <2>1 DEF m
  <2> QED  BY <2>6, <2>7, <2>8, Zenon DEF AllUpheld
<1> QED  BY <1>3, <1>4

\* The innermost list is replaced, and has as much left to do.
LEMMA TopKept ==
  ASSUME NEW Goals, NEW Subs, NEW G, NEW M, NEW g, SoundInv(Goals, Subs, G, M, g), stack # << >>,
         NEW f, FrameMeans(f, Len(stack), Goals, Subs),
         IsModel(M, Goals, G) /\ Fits(g, f.subs) /\ Pending(f, Len(stack), g, G, M) =>
           Fits(g, Top.subs) /\ Pending(Top, Len(stack), g, G, M),
         stack' = SetTop(f), result' = result
  PROVE  Keeps(Goals, Subs, G, M, g)
<1> DEFINE n == Len(stack)
           t == SetTop(f)
<1>1. /\ IsSeq(stack) /\ n \in Nat \ {0} /\ stack[n] = Top
      /\ IsModel(M, Goals, G) => YesMeans(result, g, M)
  BY SoundFacts
<1>2. Len(t) = n /\ (\A i \in 1 .. n - 1 : t[i] = stack[i]) /\ t[n] = f
  BY <1>1, SeqReplace DEF SetTop
<1>3. n = Len(stack) /\ n <= Len(stack) /\ stack' = t
  BY <1>1
<1> HIDE DEF n, t
<1>4. /\ FrameMeans(t[n], n, Goals, Subs)
      /\ IsModel(M, Goals, G) /\ Fits(g, t[n].subs) /\ Pending(t[n], n, g, G, M) =>
           Fits(g, stack[n].subs) /\ Pending(stack[n], n, g, G, M)
  BY <1>1, <1>2, <1>3, Zenon
<1>5. /\ StackMeans(t, Goals, Subs)
      /\ IsModel(M, Goals, G) => AllUpheld(t, g, G, M)
  BY <1>1, <1>2, <1>3, <1>4, StackKept
<1> QED  BY <1>1, <1>3, <1>5, Zenon DEF Keeps

\* The search ends without a yes.
LEMMA EndKept ==
  ASSUME NEW Goals, NEW Subs, NEW G, NEW M, NEW g,
         stack' = << >>, YesMeans(result', g, M)
  PROVE  Keeps(Goals, Subs, G, M, g)
<1> DEFINE e == << >>
<1>1. Len(e) = 0 /\ stack' = e
  OBVIOUS
<1> HIDE DEF e
<1>2. 1 .. Len(stack') = {}
  BY <1>1
<1> QED  BY <1>2 DEF Keeps, StackMeans, AllUpheld

LEMMA FailKept ==
  ASSUME NEW Goals, NEW Subs, NEW G, NEW M, NEW g, SoundInv(Goals, Subs, G, M, g), stack # << >>,
         Fails
  PROVE  Keeps(Goals, Subs, G, M, g)
<1>1. CASE Len(stack) = 1
  <2>1. stack' = << >> /\ result' = No
    BY <1>1 DEF Fails, Finish
  <2>2. YesMeans(result', g, M)
    BY <2>1 DEF YesMeans, No
  <2> QED  BY <2>1, <2>2, EndKept
<1>2. CASE Len(stack) # 1
  <2> DEFINE n == Len(stack) - 1
             t == SubSeq(stack, 1, n)
  <2>1. stack' = t /\ result' = result
    BY <1>2 DEF Fails
  <2>2. /\ IsSeq(stack) /\ Len(stack) \in Nat \ {0}
        /\ \A d \in 1 .. Len(stack) : FrameMeans(stack[d], d, Goals, Subs)
        /\ IsModel(M, Goals, G) => YesMeans(result, g, M)
    BY SoundFacts, Zenon
  <2>3. n \in Nat \ {0} /\ n <= Len(stack) /\ n \in 1 .. n /\ n \in 1 .. Len(stack)
    BY <1>2, <2>2
  <2> HIDE DEF n
  <2>4. Len(t) = n /\ \A i \in 1 .. n : t[i] = stack[i]
    BY <2>2, <2>3, SeqCut
  <2> HIDE DEF t
  <2>5. t[n] = stack[n] /\ FrameMeans(t[n], n, Goals, Subs)
    BY <2>2, <2>3, <2>4
  <2>6. \A i \in 1 .. n - 1 : t[i] = stack[i]
    BY <2>3, <2>4
  <2>7. /\ StackMeans(t, Goals, Subs)
        /\ IsModel(M, Goals, G) => AllUpheld(t, g, G, M)
    BY <2>3, <2>4, <2>5, <2>6, StackKept
  <2> QED  BY <2>2, <2>1, <2>7, Zenon DEF Keeps
<1> QED  BY <1>1, <1>2

\* The goal of the innermost list is solved, and holds.
LEMMA SucceedKept ==
  ASSUME NEW Goals, NEW Subs, NEW G, NEW M, NEW g, SoundInv(Goals, Subs, G, M, g),
         Solving, NEW u \in Subs, Succeed(u),
         IsModel(M, Goals, G) /\ Fits(g, u) => Fits(g, Top.subs) /\ g[Top.goal] \in M
  PROVE  Keeps(Goals, Subs, G, M, g)
<1> DEFINE f == Solved(Top, u)
           n == Len(stack)
<1>1. stack # << >> /\ Top.goal # NoGoal /\ stack' = SetTop(f) /\ result' = result
  BY DEF Solving, Succeed
<1>2. FrameOK(Top) /\ FrameMeans(Top, n, Goals, Subs)
  BY <1>1, SoundFacts
<1>3. f.goals = Top.goals /\ f.goal = NoGoal /\ f.subs = u
  BY <1>2, FrameFields
<1> HIDE DEF f
<1>4. FrameMeans(f, n, Goals, Subs)
  BY <1>1, <1>2, <1>3 DEF FrameMeans
<1>5. IsModel(M, Goals, G) /\ Fits(g, f.subs) /\ Pending(f, n, g, G, M) =>
        Fits(g, Top.subs) /\ Pending(Top, n, g, G, M)
  BY <1>3, Zenon DEF Pending
<1> QED  BY <1>1, <1>4, <1>5, TopKept

\* What apply_subst makes of a goal is a settled instance of it.
InstanceOf(r, e, t, s, Goals, G) ==
  /\ r \in Goals /\ Settled(e, r, s)
  /\ \A g \in G : \E h \in G : h[t] = g[r]
  /\ e # "polylog" => \A g \in G : Fits(g, s) => g[r] = g[t]

LEMMA ApplyFacts ==
  ASSUME NEW Goals, NEW Subs, NEW G, GoalsMean(Goals, Subs, G),
         NEW e \in Engines, NEW t \in Goals, NEW s \in Subs,
         e # "polylog" \/ ~runs_away(apply_subst(e, t, s))
  PROVE  InstanceOf(apply_subst(e, t, s), e, t, s, Goals, G)
<1>1. ApplyMeans(Goals, Subs, G)
  BY DEF GoalsMean
<1> QED  BY <1>1, Zenon DEF ApplyMeans, InstanceOf

LEMMA TailFacts ==
  ASSUME NEW s, IsSeq(s), s # << >>
  PROVE  /\ DOMAIN s = 1 .. Len(s) /\ Len(s) \in Nat \ {0}
         /\ Head(s) = s[1] /\ 1 \in DOMAIN s
         /\ Len(Tail(s)) = Len(s) - 1
         /\ DOMAIN Tail(s) = 1 .. Len(s) - 1
         /\ \A i \in DOMAIN Tail(s) : i + 1 \in DOMAIN s /\ Tail(s)[i] = s[i + 1]
         /\ (Len(s) = 1 => Tail(s) = << >>)
<1>1. DOMAIN s = 1 .. Len(s) /\ Len(s) \in Nat \ {0} /\ Len(Tail(s)) = Len(s) - 1 /\ IsSeq(Tail(s))
  BY SeqFacts, SeqTail
<1>2. DOMAIN Tail(s) = 1 .. Len(s) - 1 /\ (Len(s) = 1 => Tail(s) = << >>)
  BY <1>1, SeqFacts
<1> DEFINE S == Range(s)
<1>3. s \in Seq(S)
  BY DEF IsSeq
<1> HIDE DEF S
<1>4. Head(s) = s[1] /\ \A i \in 1 .. Len(s) - 1 : Tail(s)[i] = s[i + 1]
  BY <1>3, HeadTailProperties
<1>5. 1 \in DOMAIN s /\ \A i \in 1 .. Len(s) - 1 : i + 1 \in DOMAIN s
  BY <1>1
<1> QED  BY <1>1, <1>2, <1>4, <1>5, Zenon

-----------------------------------------------------------------------------
(* The steps of the search.                                                *)

\* A goal is begun: in logic-interp and in the body of a rule as an instance of
\* what stands there.
LEMMA NextGoalKept ==
  ASSUME NEW Goals, NEW Subs, NEW G, NEW M, NEW g \in G, GoalsMean(Goals, Subs, G),
         SoundInv(Goals, Subs, G, M, g), NextGoal
  PROVE  Keeps(Goals, Subs, G, M, g)
<1> DEFINE n == Len(stack)
           first == Head(Top.goals)
<1>1. stack # << >> /\ Top.goal = NoGoal /\ Top.goals # << >>
  BY DEF NextGoal
<1>2. PICK goal \in {Applied(first, Top)} :
         IF runs_away(goal) THEN Finish(Crash)
         ELSE /\ stack' = SetTop([Top EXCEPT !.goals = Tail(@), !.goal = goal])
              /\ UNCHANGED result
  BY DEF NextGoal
<1>3. /\ SearchInv /\ FrameOK(Top) /\ FrameMeans(Top, n, Goals, Subs) /\ n \in Nat \ {0}
      /\ IsSeq(Top.goals) /\ engine \in Engines
  <2>1. SearchInv /\ FrameOK(Top) /\ FrameMeans(Top, n, Goals, Subs) /\ n \in Nat \ {0}
    BY <1>1, SoundFacts, Zenon
  <2> QED  BY <2>1 DEF SearchInv, FrameOK
<1>4. CASE runs_away(goal)
  <2>1. stack' = << >> /\ result' = Crash
    BY <1>2, <1>4 DEF Finish
  <2>2. YesMeans(result', g, M)
    BY <2>1 DEF YesMeans, Crash
  <2> QED  BY <2>1, <2>2, EndKept
<1>5. CASE ~runs_away(goal)
  <2> DEFINE f == Begun(Top, goal)
  <2>1. stack' = SetTop(f) /\ result' = result
    BY <1>2, <1>5, Zenon DEF Begun
  <2>2. f.goals = Tail(Top.goals) /\ f.goal = goal /\ f.subs = Top.subs
    BY <1>3, FrameFields
  <2>3. /\ DOMAIN Top.goals = 1 .. Len(Top.goals) /\ Len(Top.goals) \in Nat \ {0}
        /\ first = Top.goals[1] /\ 1 \in DOMAIN Top.goals
        /\ Len(Tail(Top.goals)) = Len(Top.goals) - 1
        /\ DOMAIN Tail(Top.goals) = 1 .. Len(Top.goals) - 1
        /\ \A i \in DOMAIN Tail(Top.goals) :
             i + 1 \in DOMAIN Top.goals /\ Tail(Top.goals)[i] = Top.goals[i + 1]
        /\ (Len(Top.goals) = 1 => Tail(Top.goals) = << >>)
    BY <1>1, <1>3, TailFacts
  <2>4. /\ Top.subs \in Subs /\ first \in Goals
        /\ \A i \in DOMAIN Top.goals : Top.goals[i] \in Goals
        /\ n = 1 /\ engine = "polylog" => Len(Top.goals) = 1 /\ Top.subs = << >>
    BY <1>1, <1>3, <2>3 DEF FrameMeans
  <2>5. /\ goal \in Goals /\ Settled(engine, goal, Top.subs)
        /\ \E h \in G : h[first] = g[goal]
        /\ n = 1 /\ Fits(g, Top.subs) => g[goal] = g[first]
    <3>1. CASE engine = "polylog" /\ n = 1
      <4>1. goal = first /\ Top.subs = << >>
        BY <1>2, <2>4, <3>1 DEF Applied
      <4>2. Settled(engine, first, << >>)
        BY <1>3, <2>4 DEF GoalsMean
      <4> QED  BY <2>4, <4>1, <4>2
    <3>2. CASE ~(engine = "polylog" /\ n = 1)
      <4>1. apply_subst(engine, first, Top.subs) = goal
        BY <1>2, <3>2 DEF Applied
      <4>2. /\ goal \in Goals /\ Settled(engine, goal, Top.subs)
            /\ \A k \in G : \E h \in G : h[first] = k[goal]
            /\ engine # "polylog" => \A k \in G : Fits(k, Top.subs) => k[goal] = k[first]
        <5>1. engine \in Engines /\ first \in Goals /\ Top.subs \in Subs
              /\ (engine # "polylog" \/ ~runs_away(goal))
          BY <1>3, <1>5, <2>4
        <5> HIDE DEF first
        <5>2. InstanceOf(apply_subst(engine, first, Top.subs), engine, first, Top.subs, Goals, G)
          BY <4>1, <5>1, ApplyFacts
        <5> QED  BY <4>1, <5>2, Zenon DEF InstanceOf
      <4>3. n = 1 => engine # "polylog"
        BY <3>2
      <4> QED  BY <4>2, <4>3
    <3> QED  BY <3>1, <3>2
  <2>6. goal # NoGoal
    BY <2>5 DEF GoalsMean
  <2> HIDE DEF f, first
  <2>7. FrameMeans(f, n, Goals, Subs)
    <3>1. \A i \in DOMAIN f.goals : f.goals[i] \in Goals
      BY <2>2, <2>3, <2>4
    <3>2. ~(n = 1 /\ engine = "polylog" /\ f.goals # << >>)
      BY <2>2, <2>3, <2>4
    <3> QED  BY <2>2, <2>4, <2>5, <3>1, <3>2, Zenon DEF FrameMeans
  <2>8. ASSUME Fits(g, f.subs), Pending(f, n, g, G, M)
        PROVE  Fits(g, Top.subs) /\ Pending(Top, n, g, G, M)
    <3>1. g[goal] \in M /\ Fits(g, Top.subs)
      BY <2>2, <2>6, <2>8 DEF Pending
    <3>2. Due(first, n, g, G, M)
      BY <2>5, <3>1 DEF Due
    <3>3. \A i \in DOMAIN Top.goals :
            i = 1 \/ (i - 1 \in DOMAIN f.goals /\ f.goals[i - 1] = Top.goals[i])
      BY <2>2, <2>3
    <3>4. \A i \in DOMAIN Top.goals : Due(Top.goals[i], n, g, G, M)
      BY <2>3, <2>8, <3>2, <3>3, Zenon DEF Pending
    <3> QED  BY <1>1, <3>1, <3>4, Zenon DEF Pending
  <2> QED  BY <1>1, <2>1, <2>7, <2>8, TopKept
<1> QED  BY <1>4, <1>5

\* The list below goes on when the goal that it waits for is solved.
LEMMA ListSolvedKept ==
  ASSUME NEW Goals, NEW Subs, NEW G, NEW M, NEW g \in G, GoalsMean(Goals, Subs, G),
         SoundInv(Goals, Subs, G, M, g), ListSolved
  PROVE  Keeps(Goals, Subs, G, M, g)
<1> DEFINE n == Len(stack)
<1>1. stack # << >> /\ Top.goal = NoGoal /\ Top.goals = << >>
  BY DEF ListSolved
<1>2. /\ IsSeq(stack) /\ n \in Nat \ {0} /\ stack[n] = Top
      /\ \A d \in 1 .. n : FrameMeans(stack[d], d, Goals, Subs) /\ FrameOK(stack[d])
      /\ \A d \in 1 .. n - 1 : stack[d].goal # NoGoal
      /\ IsModel(M, Goals, G) =>
           (\A d \in 1 .. n : Upheld(stack, d, g, G, M)) /\ YesMeans(result, g, M)
  BY <1>1, SoundFacts, Zenon
\* Nothing is left to do.
<1>3. IsModel(M, Goals, G) /\ Fits(g, Top.subs) => Purpose(stack, n, g, M)
  <2>1. Pending(Top, n, g, G, M)
    BY <1>1 DEF Pending
  <2>2. n \in 1 .. n
    BY <1>2
  <2> HIDE DEF n
  <2> QED  BY <1>2, <2>1, <2>2, Zenon DEF Upheld
<1>4. CASE n = 1
  <2>1. stack' = << >> /\ (result' = Crash \/ result' = Yes(Top.subs))
    BY <1>4 DEF ListSolved, Finish
  <2>2. ASSUME IsModel(M, Goals, G) PROVE YesMeans(result', g, M)
    <3>1. Fits(g, Top.subs) => Asked(g, M)
      BY <1>3, <1>4, <2>2 DEF Purpose
    <3>2. CASE result' = Crash
      BY <3>2 DEF YesMeans, Crash
    <3>3. CASE result' = Yes(Top.subs)
      BY <3>1, <3>3 DEF YesMeans, Yes
    <3> QED  BY <2>1, <3>2, <3>3
  <2>3. Keeps(Goals, Subs, G, M, g)
    <3> DEFINE e == << >>
    <3>1. Len(e) = 0 /\ stack' = e
      BY <2>1
    <3> HIDE DEF e
    <3>2. 1 .. Len(stack') = {}
      BY <3>1
    <3> QED  BY <2>2, <3>2 DEF Keeps, StackMeans, AllUpheld
  <2> QED  BY <2>3
<1>5. CASE n # 1
  <2> DEFINE m == n - 1
             below == stack[m]
             f == Solved(below, Top.subs)
             t == Append(SubSeq(stack, 1, n - 2), f)
  <2>1. stack' = t /\ result' = result
    BY <1>5 DEF ListSolved
  <2>2. /\ m \in Nat \ {0} /\ m <= n /\ m \in 1 .. n /\ m \in 1 .. n - 1 /\ n - 2 \in Nat
        /\ n - 2 <= n /\ n \in 1 .. n /\ (n - 2) + 1 = m /\ m - 1 = n - 2
    <3>1. n \in Nat \ {0}
      BY <1>2
    <3> HIDE DEF n
    <3> QED  BY <1>5, <3>1
  <2>3. /\ FrameOK(below) /\ below.goal # NoGoal /\ FrameMeans(below, m, Goals, Subs)
        /\ FrameMeans(Top, n, Goals, Subs)
    BY <1>2, <2>2
  <2>4. f.goals = below.goals /\ f.goal = NoGoal /\ f.subs = Top.subs
    BY <2>3, FrameFields
  <2> HIDE DEF f
  <2>5. FrameMeans(f, m, Goals, Subs)
    BY <2>3, <2>4 DEF FrameMeans
  <2>6. Purpose(stack, n, g, M) => Fits(g, below.subs) /\ g[below.goal] \in M
    BY <1>5 DEF Purpose
  <2> HIDE DEF below, m
  <2>7. IsModel(M, Goals, G) /\ Fits(g, f.subs) /\ Pending(f, m, g, G, M) =>
          Fits(g, below.subs) /\ Pending(below, m, g, G, M)
    BY <1>3, <2>4, <2>6, Zenon DEF Pending
  <2>8. Len(t) = m /\ (\A i \in 1 .. m - 1 : t[i] = stack[i]) /\ t[m] = f
    <3> DEFINE c == SubSeq(stack, 1, n - 2)
               k == n - 2
    <3>1. IsSeq(c) /\ Len(c) = k /\ \A i \in 1 .. k : c[i] = stack[i]
      BY <1>2, <2>2, SeqCut
    <3> HIDE DEF c, n
    <3>2. /\ Len(Append(c, f)) = k + 1 /\ \A i \in 1 .. k : Append(c, f)[i] = c[i]
          /\ Append(c, f)[k + 1] = f
      BY <3>1, SeqAppend
    <3>3. t = Append(c, f)
      BY DEF c
    <3> HIDE DEF t
    <3> QED  BY <2>2, <3>1, <3>2, <3>3
  <2> HIDE DEF t
  <2>9. stack[m] = below
    BY DEF below
  <2>10. /\ StackMeans(t, Goals, Subs)
         /\ IsModel(M, Goals, G) => AllUpheld(t, g, G, M)
    <3>1. /\ FrameMeans(t[m], m, Goals, Subs)
          /\ IsModel(M, Goals, G) /\ Fits(g, t[m].subs) /\ Pending(t[m], m, g, G, M) =>
               Fits(g, stack[m].subs) /\ Pending(stack[m], m, g, G, M)
      BY <2>5, <2>7, <2>8, <2>9, Zenon
    <3> QED  BY <1>1, <2>2, <2>8, <3>1, StackKept
  <2> QED  BY <1>2, <2>1, <2>10, Zenon DEF Keeps
<1> QED  BY <1>4, <1>5

LEMMA MatchesMeans ==
  ASSUME NEW Goals, NEW Subs, NEW G, GoalsMean(Goals, Subs, G), engine \in Engines,
         NEW a \in Goals, NEW b \in Goals, NEW s \in Subs, Matches(a, b, s).ok
  PROVE  /\ Matches(a, b, s).subs \in Subs
         /\ \A g \in G : Fits(g, Matches(a, b, s).subs) => Fits(g, s) /\ g[a] = g[b]
<1> DEFINE u == unify(engine, a, b, s)
<1>1. Matches(a, b, s) = u
  <2>1. NotUnified.ok = FALSE
    BY DEF NotUnified
  <2> QED  BY <2>1 DEF Matches
<1>2. UnifyMeans(Goals, Subs, G)
  BY DEF GoalsMean
<1>3. u.ok
  BY <1>1
<1>4. u.subs \in Subs /\ \A g \in G : Fits(g, u.subs) => Fits(g, s) /\ g[a] = g[b]
  <2>1. \A x, y \in Goals : unify(engine, x, y, s).ok =>
          /\ unify(engine, x, y, s).subs \in Subs
          /\ \A g \in G : Fits(g, unify(engine, x, y, s).subs) => Fits(g, s) /\ g[x] = g[y]
    BY <1>2 DEF UnifyMeans
  <2> QED  BY <1>3, <2>1
<1> HIDE DEF u
<1> QED  BY <1>1, <1>4

\* The goal that is being solved.
LEMMA GoalFacts ==
  ASSUME NEW Goals, NEW Subs, NEW G, NEW M, NEW g, SoundInv(Goals, Subs, G, M, g), Solving
  PROVE  /\ stack # << >> /\ Top.goal # NoGoal /\ engine \in Engines
         /\ Top.goal \in Goals /\ Top.subs \in Subs /\ Settled(engine, Top.goal, Top.subs)
         /\ DatabaseMeans(Goals) /\ DatabaseOK
<1>1. stack # << >> /\ Top.goal # NoGoal
  BY DEF Solving
<1>2. /\ SearchInv /\ FrameMeans(Top, Len(stack), Goals, Subs)
      /\ DatabaseMeans(Goals) /\ DatabaseOK
  BY <1>1, SoundFacts, Zenon
<1> QED  BY <1>1, <1>2 DEF FrameMeans, SearchInv

LEMMA BuiltinKept ==
  ASSUME NEW Goals, NEW Subs, NEW G, NEW M, NEW g \in G, GoalsMean(Goals, Subs, G),
         SoundInv(Goals, Subs, G, M, g), Builtin
  PROVE  Keeps(Goals, Subs, G, M, g)
<1> DEFINE goal == Top.goal
           left == list_nth(goal[3], 1)
           right == apply_subst(engine, list_nth(goal[3], 2), Top.subs)
           longer == Append(Top.subs, <<left, right>>)
<1>1. Solving /\ IsBuiltin(goal)
  BY DEF Builtin
<1>2. /\ stack # << >> /\ goal \in Goals /\ Top.subs \in Subs /\ Settled(engine, goal, Top.subs)
  BY <1>1, GoalFacts
<1>3. \/ Finish(Crash)
      \/ goal[2] = "is" /\ right[1] = "int" /\ Len(Top.subs) < MaxBindings /\ Succeed(longer)
      \/ goal[2] # "is" /\ Succeed(Top.subs)
      \/ Fails
  BY Zenon DEF Builtin
<1>4. CASE Finish(Crash)
  <2>1. stack' = << >> /\ result' = Crash
    BY <1>4 DEF Finish
  <2>2. YesMeans(result', g, M)
    BY <2>1 DEF YesMeans, Crash
  <2> QED  BY <2>1, <2>2, EndKept
<1>5. ASSUME Granted(goal), IsModel(M, Goals, G) PROVE g[goal] \in M
  BY <1>2, <1>5, Zenon DEF IsModel
<1>6. CASE goal[2] = "is" /\ right[1] = "int" /\ Len(Top.subs) < MaxBindings /\ Succeed(longer)
  <2>0. engine \in Engines
    BY <1>1, GoalFacts
  <2>1. right = list_nth(goal[3], 2) /\ IsPred(goal)
    BY <1>1, <1>2 DEF IsBuiltin, Settled
  <2>2. Granted(goal)
    BY <1>1, <1>6, <2>1 DEF Granted
  <2>3. longer \in Subs /\ IsSeq(Top.subs)
    <3>1. /\ IsPred(goal) /\ goal[2] = "is" /\ list_nth(goal[3], 2)[1] = "int"
          /\ Len(Top.subs) < MaxBindings
      BY <1>6, <2>1
    <3>2. Append(Top.subs, <<left, list_nth(goal[3], 2)>>) \in Subs
      BY <1>2, <2>0, <3>1, Zenon DEF GoalsMean
    <3>3. IsSeq(Top.subs)
      BY <1>2, Zenon DEF GoalsMean, IsSeq
    <3> QED  BY <2>1, <3>2, <3>3, Zenon
  <2>4. Fits(g, longer) => Fits(g, Top.subs)
    BY <2>3, FitsLonger
  <2>5. Succeed(longer)
    BY <1>6
  <2> HIDE DEF longer, goal
  <2> QED  BY <1>1, <1>5, <2>2, <2>3, <2>4, <2>5, SucceedKept DEF goal
<1>7. CASE goal[2] # "is" /\ Succeed(Top.subs)
  <2>1. Granted(goal)
    BY <1>1, <1>7 DEF Granted
  <2> HIDE DEF longer
  <2> QED  BY <1>1, <1>2, <1>5, <1>7, <2>1, SucceedKept
<1>8. CASE Fails
  BY <1>2, <1>8, FailKept
<1> QED  BY <1>3, <1>4, <1>6, <1>7, <1>8

LEMMA LeastNumber ==
  ASSUME NEW S, S \subseteq Nat, S # {}
  PROVE  \E n \in S : \A j \in S : n <= j
<1>1. PICK n \in S : \A j \in S : ~(<<j, n>> \in OpToRel(<, Nat))
  BY NatLessThanWellFounded, WFMin
<1>2. ASSUME NEW j \in S PROVE n <= j
  <2>1. <<j, n>> \in Nat \X Nat /\ n \in Nat
    OBVIOUS
  <2>2. ~(j < n)
    BY <1>1, <2>1 DEF OpToRel
  <2> QED  BY <2>1, <2>2
<1> QED  BY <1>2

\* A fact is what the goal is.
LEMMA MatchFactKept ==
  ASSUME NEW Goals, NEW Subs, NEW G, NEW M, NEW g \in G, GoalsMean(Goals, Subs, G),
         SoundInv(Goals, Subs, G, M, g), MatchFact
  PROVE  Keeps(Goals, Subs, G, M, g)
<1> DEFINE i == CHOOSE k \in Matching : \A j \in Matching : k <= j
           u == Matches(Top.goal, facts[i], Top.subs)
<1>1. Solving /\ Matching # {} /\ Succeed(u.subs)
  BY DEF MatchFact, Trying
<1>2. /\ engine \in Engines /\ Top.goal \in Goals /\ Top.subs \in Subs
      /\ DatabaseMeans(Goals) /\ DatabaseOK
  BY <1>1, GoalFacts, Zenon
<1>3. i \in Matching
  <2>1. Matching \subseteq Nat
    BY <1>2, SeqFacts DEF Matching, DatabaseOK
  <2>2. PICK k \in Matching : \A j \in Matching : k <= j
    BY <1>1, <2>1, LeastNumber
  <2> QED  BY <2>2
<1> HIDE DEF i
<1>4. i \in DOMAIN facts /\ u.ok
  BY <1>3 DEF Matching
<1>5. facts[i] \in Goals
  BY <1>2, <1>4 DEF DatabaseMeans
<1>6. u.subs \in Subs /\ (Fits(g, u.subs) => Fits(g, Top.subs) /\ g[Top.goal] = g[facts[i]])
  BY <1>2, <1>4, <1>5, MatchesMeans
<1>7. IsModel(M, Goals, G) => g[facts[i]] \in M
  BY <1>4, Zenon DEF IsModel
<1> HIDE DEF u
<1> QED  BY <1>1, <1>6, <1>7, SucceedKept

LEMMA NoFactKept ==
  ASSUME NEW Goals, NEW Subs, NEW G, NEW M, NEW g, SoundInv(Goals, Subs, G, M, g), NoFact
  PROVE  Keeps(Goals, Subs, G, M, g)
<1> DEFINE f == Turned(Top, 1)
<1>1. stack # << >> /\ result' = result /\ stack' = SetTop(f)
  BY DEF NoFact, Trying, Solving, Turned
<1>2. FrameOK(Top) /\ FrameMeans(Top, Len(stack), Goals, Subs)
  BY <1>1, SoundFacts, Zenon
<1>3. f.goals = Top.goals /\ f.goal = Top.goal /\ f.subs = Top.subs
  BY <1>2, FrameFields
<1> HIDE DEF f
<1>4. FrameMeans(f, Len(stack), Goals, Subs)
  BY <1>2, <1>3 DEF FrameMeans
<1>5. Pending(f, Len(stack), g, G, M) <=> Pending(Top, Len(stack), g, G, M)
  BY <1>3, Zenon DEF Pending
<1> QED  BY <1>1, <1>3, <1>4, <1>5, TopKept

\* The body of a rule is begun for the goal that its head is.
LEMMA TryRuleKept ==
  ASSUME NEW Goals, NEW Subs, NEW G, NEW M, NEW g \in G, GoalsMean(Goals, Subs, G),
         SoundInv(Goals, Subs, G, M, g), TryRule
  PROVE  Keeps(Goals, Subs, G, M, g)
<1> DEFINE rule == rules[Top.rule]
           u == Matches(Top.goal, rule.head, Top.subs)
           next == Turned(Top, Top.rule + 1)
           applied == [i \in DOMAIN rule.body |-> apply_subst(engine, rule.body[i], u.subs)]
           body == IF engine = "polylog" THEN rule.body ELSE applied
           n == Len(stack)
           t == SetTop(next)
<1>1. /\ Solving /\ stack # << >> /\ Top.rule \in DOMAIN rules /\ result' = result
  BY DEF TryRule, Trying, Solving
<1>2. stack' = IF u.ok THEN Append(t, Frame(body, u.subs)) ELSE t
  BY Zenon DEF TryRule, Turned
<1>3. /\ engine \in Engines /\ Top.goal \in Goals /\ Top.subs \in Subs /\ Top.goal # NoGoal
      /\ DatabaseMeans(Goals) /\ DatabaseOK
  BY <1>1, GoalFacts, Zenon
<1>4. /\ IsSeq(stack) /\ n \in Nat \ {0} /\ FrameOK(Top) /\ FrameMeans(Top, n, Goals, Subs)
      /\ stack[n] = Top
      /\ IsModel(M, Goals, G) =>
           (\A d \in 1 .. n : Upheld(stack, d, g, G, M)) /\ YesMeans(result, g, M)
  BY <1>1, SoundFacts, Zenon
<1>5. next.goals = Top.goals /\ next.goal = Top.goal /\ next.subs = Top.subs
  BY <1>4, FrameFields
<1> HIDE DEF next
<1>6. FrameMeans(next, n, Goals, Subs)
  BY <1>4, <1>5 DEF FrameMeans
<1>7. Pending(next, n, g, G, M) <=> Pending(Top, n, g, G, M)
  BY <1>5, Zenon DEF Pending
<1>8. CASE ~u.ok
  <2>1. stack' = SetTop(next)
    BY <1>2, <1>8
  <2> HIDE DEF u, n
  <2> QED  BY <1>1, <1>5, <1>6, <1>7, <2>1, TopKept DEF n
<1>9. CASE u.ok
  <2>1. /\ rule.head \in Goals
        /\ \A k \in DOMAIN rule.body : rule.body[k] \in Goals
    BY <1>1, <1>3 DEF DatabaseMeans
  <2>2. /\ u.subs \in Subs
        /\ Fits(g, u.subs) => Fits(g, Top.subs) /\ g[Top.goal] = g[rule.head]
    BY <1>3, <1>9, <2>1, MatchesMeans
  <2> DEFINE us == u.subs
  <2> HIDE DEF u
  \* What is pushed are instances of the goals of the body.
  <2>3. /\ DOMAIN body = DOMAIN rule.body
        /\ \A k \in DOMAIN rule.body :
             /\ body[k] \in Goals
             /\ (\E h \in G : h[body[k]] \in M) => \E h \in G : h[rule.body[k]] \in M
    <3>1. CASE engine = "polylog"
      <4>1. body = rule.body
        BY <3>1
      <4> HIDE DEF body
      <4> QED  BY <2>1, <4>1
    <3>2. CASE engine # "polylog"
      <4>1. body = applied
        BY <3>2
      <4>2. DOMAIN applied = DOMAIN rule.body
            /\ \A k \in DOMAIN rule.body : applied[k] = apply_subst(engine, rule.body[k], us)
        OBVIOUS
      <4> HIDE DEF body, applied, us
      <4>3. ASSUME NEW k \in DOMAIN rule.body
            PROVE  /\ applied[k] \in Goals
                   /\ \A g_1 \in G : \E h \in G : h[rule.body[k]] = g_1[applied[k]]
        <5> DEFINE b == rule.body[k]
        <5>1. b \in Goals /\ us \in Subs
          BY <2>1, <2>2 DEF us
        <5>2. apply_subst(engine, b, us) = applied[k]
          BY <4>2
        <5> HIDE DEF b
        <5>3. InstanceOf(apply_subst(engine, b, us), engine, b, us, Goals, G)
          BY <1>3, <3>2, <5>1, ApplyFacts
        <5>4. /\ applied[k] \in Goals
              /\ \A g_1 \in G : \E h \in G : h[b] = g_1[applied[k]]
          BY <5>2, <5>3, Zenon DEF InstanceOf
        <5> QED  BY <5>4 DEF b
      <4>4. ASSUME NEW k \in DOMAIN rule.body, NEW h \in G, h[applied[k]] \in M
            PROVE  \E h_1 \in G : h_1[rule.body[k]] \in M
        BY <4>3, <4>4
      <4> QED  BY <4>1, <4>2, <4>3, <4>4, Zenon
    <3> QED  BY <3>1, <3>2
  <2> DEFINE f == Frame(body, us)
             w == Append(t, f)
             m == n + 1
  <2>4. f.goals = body /\ f.goal = NoGoal /\ f.subs = us
    BY DEF Frame
  <2>5. IsSeq(t) /\ Len(t) = n /\ (\A i \in 1 .. n - 1 : t[i] = stack[i]) /\ t[n] = next
    BY <1>1, <1>4, SeqReplace DEF SetTop
  <2>6. stack' = w
    BY <1>2, <1>9
  <2>7. n \in Nat \ {0} /\ n = Len(stack)
    BY <1>4
  <2> HIDE DEF f, t, n, body, us, rule
  <2>8. Len(w) = m /\ (\A i \in 1 .. n : w[i] = t[i]) /\ w[m] = f
    BY <2>5, SeqAppend
  <2> HIDE DEF w
  <2>9. /\ m \in Nat \ {0} /\ m # 1 /\ m > 1 /\ m - 1 = n /\ n \in 1 .. n
        /\ 1 .. n - 1 \subseteq 1 .. n
        /\ \A d \in 1 .. m : d \in 1 .. n \/ d = m
    BY <2>7
  <2> HIDE DEF m
  <2>10. w[n] = next
    BY <2>5, <2>8, <2>9
  \* Up to n it is the stack with the next rule.
  <2>11. /\ StackMeans(t, Goals, Subs)
         /\ IsModel(M, Goals, G) => AllUpheld(t, g, G, M)
    <3>1. /\ FrameMeans(t[n], n, Goals, Subs)
          /\ IsModel(M, Goals, G) /\ Fits(g, t[n].subs) /\ Pending(t[n], n, g, G, M) =>
               Fits(g, stack[n].subs) /\ Pending(stack[n], n, g, G, M)
      BY <1>4, <1>5, <1>6, <1>7, <2>5, Zenon
    <3>2. n <= Len(stack)
      BY <2>7
    <3> QED  BY <1>1, <2>5, <2>7, <3>1, <3>2, StackKept
  <2>12. FrameMeans(f, m, Goals, Subs)
    BY <2>2, <2>3, <2>4, <2>9, Zenon DEF FrameMeans, us
  <2>13. StackMeans(w, Goals, Subs)
    BY <2>5, <2>8, <2>9, <2>11, <2>12, Zenon DEF StackMeans
  <2>14. ASSUME IsModel(M, Goals, G) PROVE AllUpheld(w, g, G, M)
    <3>1. \A d \in 1 .. n : Upheld(w, d, g, G, M)
      BY <2>5, <2>7, <2>8, <2>11, <2>14, UpheldSame DEF AllUpheld
    <3>2. ASSUME Fits(g, us), Pending(f, m, g, G, M)
          PROVE  Fits(g, Top.subs) /\ g[Top.goal] \in M
      <4>1. \A k \in DOMAIN rule.body : \E h \in G : h[rule.body[k]] \in M
        BY <2>3, <2>4, <2>9, <3>2, Zenon DEF Pending, Due
      <4>2. g[rule.head] \in M
        BY <1>1, <2>14, <4>1, Zenon DEF IsModel, rule
      <4> QED  BY <2>2, <3>2, <4>2 DEF us
    <3>3. Purpose(w, m, g, M) <=> Fits(g, Top.subs) /\ g[Top.goal] \in M
      BY <1>5, <2>9, <2>10, Zenon DEF Purpose
    <3>4. Upheld(w, m, g, G, M)
      BY <2>4, <2>8, <3>2, <3>3, Zenon DEF Upheld
    <3> QED  BY <2>8, <2>9, <3>1, <3>4, Zenon DEF AllUpheld
  <2> QED  BY <1>1, <1>4, <2>6, <2>13, <2>14, Zenon DEF Keeps
<1> QED  BY <1>8, <1>9

LEMMA StepKept ==
  ASSUME NEW Goals, NEW Subs, NEW G, NEW M, NEW g \in G, GoalsMean(Goals, Subs, G),
         SoundInv(Goals, Subs, G, M, g), Step
  PROVE  Keeps(Goals, Subs, G, M, g)
<1>1. CASE DeepGoal
  BY <1>1, FailKept DEF DeepGoal, Solving
<1>2. CASE NoRule
  BY <1>2, FailKept DEF NoRule, Trying, Solving
<1> QED  BY <1>1, <1>2, NextGoalKept, ListSolvedKept, BuiltinKept, MatchFactKept, NoFactKept,
            TryRuleKept DEF Step

LEMMA StepSound ==
  ASSUME NEW Goals, NEW Subs, NEW G, NEW M, NEW g \in G, GoalsMean(Goals, Subs, G),
         SoundInv(Goals, Subs, G, M, g), Step
  PROVE  SoundInv(Goals, Subs, G, M, g)'
<1>1. Keeps(Goals, Subs, G, M, g)
  BY StepKept
<1>2. SearchInv' /\ Search
  BY StepInv, StepAdvances DEF SoundInv
<1>3. facts' = facts /\ rules' = rules /\ engine' = engine /\ line' = line
  BY <1>2 DEF Search
<1>4. DatabaseMeans(Goals)'
  BY <1>3 DEF SoundInv, DatabaseMeans
<1>5. StackMeans(stack, Goals, Subs)'
  BY <1>1, <1>3 DEF Keeps, StackMeans, FrameMeans
<1>6. IsModel(M, Goals, G)' <=> IsModel(M, Goals, G)
  BY <1>3 DEF IsModel, Granted, IsBuiltin, Builtins
<1>7. AllUpheld(stack, g, G, M)' <=> AllUpheld(stack', g, G, M)
  BY <1>3 DEF AllUpheld, Upheld, Purpose, Asked
<1>8. YesMeans(result, g, M)' <=> YesMeans(result', g, M)
  BY <1>3 DEF YesMeans, Asked
<1> QED  BY <1>1, <1>2, <1>4, <1>5, <1>6, <1>7, <1>8, Zenon DEF SoundInv, Keeps

-----------------------------------------------------------------------------
(* The prompt, at which nothing is left of an earlier line.                *)

Fresh(Goals, Subs, G, M, g) ==
  /\ DatabaseMeans(Goals)
  /\ StackMeans(stack, Goals, Subs)
  /\ AllUpheld(stack, g, G, M)
  /\ YesMeans(result, g, M)

LEMMA EmptyFresh ==
  ASSUME NEW Goals, NEW Subs, NEW G, NEW M, NEW g,
         DatabaseMeans(Goals)', stack' = << >>, YesMeans(result, g, M)'
  PROVE  Fresh(Goals, Subs, G, M, g)'
<1>1. 1 .. Len(stack') = {}
  OBVIOUS
<1> QED  BY <1>1 DEF Fresh, StackMeans, AllUpheld

LEMMA AnswerFresh ==
  ASSUME NEW Goals, NEW Subs, NEW G, NEW M, NEW g, DatabaseMeans(Goals), stack = << >>,
         engine' = engine, NEW a, Answer(a), a.is # "yes" \/ line'.kind # "query"
  PROVE  Fresh(Goals, Subs, G, M, g)'
<1>1. facts' = facts /\ rules' = rules /\ stack' = << >> /\ result' = a
  BY DEF Answer
<1>2. DatabaseMeans(Goals)'
  BY <1>1 DEF DatabaseMeans
<1>3. YesMeans(result, g, M)'
  BY <1>1 DEF YesMeans
<1> QED  BY <1>1, <1>2, <1>3, EmptyFresh

LEMMA AddFactFresh ==
  ASSUME NEW Goals, NEW Subs, NEW G, NEW M, NEW g, DatabaseMeans(Goals), DatabaseOK,
         stack = << >>, engine' = engine,
         NEW f \in Goals, engine = "polylog" => IsPred(f), AddFact(f)
  PROVE  Fresh(Goals, Subs, G, M, g)'
<1> DEFINE longer == Append(facts, f)
<1>1. /\ rules' = rules /\ stack' = << >> /\ result' = None
      /\ facts' = longer \/ facts' = facts
  BY DEF AddFact
<1>2. YesMeans(result, g, M)'
  BY <1>1 DEF YesMeans, None
<1>3. /\ Len(facts) \in Nat /\ DOMAIN facts = 1 .. Len(facts)
      /\ DOMAIN longer = 1 .. Len(facts) + 1
      /\ \A i \in 1 .. Len(facts) : longer[i] = facts[i]
      /\ longer[Len(facts) + 1] = f
  BY SeqFacts, SeqAppend DEF DatabaseOK
<1> HIDE DEF longer
<1>4. \A i \in DOMAIN facts' : facts'[i] = f \/ (i \in DOMAIN facts /\ facts'[i] = facts[i])
  <2>1. CASE facts' = facts
    BY <2>1
  <2>2. CASE facts' = longer
    BY <1>3, <2>2
  <2> QED  BY <1>1, <2>1, <2>2
<1>5. \A i \in DOMAIN facts' : facts'[i] \in Goals
  BY <1>4 DEF DatabaseMeans
<1>6. engine = "polylog" => \A i \in DOMAIN facts' : IsPred(facts'[i])
  BY <1>4, Zenon DEF DatabaseMeans
<1>7. DatabaseMeans(Goals)'
  BY <1>1, <1>5, <1>6 DEF DatabaseMeans
<1> QED  BY <1>1, <1>2, <1>7, EmptyFresh

LEMMA AddRuleFresh ==
  ASSUME NEW Goals, NEW Subs, NEW G, NEW M, NEW g, DatabaseMeans(Goals), DatabaseOK,
         stack = << >>, engine' = engine,
         NEW head \in Goals, NEW body, \A k \in DOMAIN body : body[k] \in Goals,
         AddRule(head, body)
  PROVE  Fresh(Goals, Subs, G, M, g)'
<1> DEFINE r == [head |-> head, body |-> body]
           longer == Append(rules, r)
<1>1. /\ facts' = facts /\ stack' = << >> /\ result' = None
      /\ rules' = longer \/ rules' = rules
  BY DEF AddRule
<1>2. YesMeans(result, g, M)'
  BY <1>1 DEF YesMeans, None
<1>3. r.head \in Goals /\ \A k \in DOMAIN r.body : r.body[k] \in Goals
  OBVIOUS
<1> HIDE DEF r
<1>4. /\ Len(rules) \in Nat /\ DOMAIN rules = 1 .. Len(rules)
      /\ DOMAIN longer = 1 .. Len(rules) + 1
      /\ \A i \in 1 .. Len(rules) : longer[i] = rules[i]
      /\ longer[Len(rules) + 1] = r
  BY SeqFacts, SeqAppend DEF DatabaseOK
<1> HIDE DEF longer
<1>5. \A i \in DOMAIN rules' : rules'[i] = r \/ (i \in DOMAIN rules /\ rules'[i] = rules[i])
  <2>1. CASE rules' = rules
    BY <2>1
  <2>2. CASE rules' = longer
    BY <1>4, <2>2
  <2> QED  BY <1>1, <2>1, <2>2
<1>6. ASSUME NEW i \in DOMAIN rules'
      PROVE  /\ rules'[i].head \in Goals
             /\ \A k \in DOMAIN rules'[i].body : rules'[i].body[k] \in Goals
  <2>1. CASE rules'[i] = r
    BY <1>3, <2>1
  <2>2. CASE i \in DOMAIN rules /\ rules'[i] = rules[i]
    BY <2>2 DEF DatabaseMeans
  <2> QED  BY <1>5, <2>1, <2>2
<1>7. DatabaseMeans(Goals)'
  BY <1>1, <1>6 DEF DatabaseMeans
<1> QED  BY <1>1, <1>2, <1>7, EmptyFresh

LEMMA AskFresh ==
  ASSUME NEW Goals, NEW Subs, NEW G, NEW M, NEW g, GoalsMean(Goals, Subs, G),
         DatabaseMeans(Goals), stack = << >>, engine' = engine,
         \A k \in DOMAIN line'.body : line'.body[k] \in Goals,
         engine = "polylog" => Len(line'.body) = 1,
         Ask(line'.body)
  PROVE  Fresh(Goals, Subs, G, M, g)'
<1> DEFINE b == line'.body
           f == Frame(b, << >>)
           s == <<f>>
<1>1. facts' = facts /\ rules' = rules /\ result' = None /\ stack' = s
  BY DEF Ask
<1>2. YesMeans(result, g, M)'
  BY <1>1 DEF YesMeans, None
<1>3. DatabaseMeans(Goals)'
  BY <1>1 DEF DatabaseMeans
<1>4. f.goals = b /\ f.goal = NoGoal /\ f.subs = << >>
  BY DEF Frame
<1>5. << >> \in Subs
  BY DEF GoalsMean
<1> HIDE DEF f
<1>6. Len(s) = 1 /\ s[1] = f
  OBVIOUS
<1> HIDE DEF s
<1>7. \A d \in 1 .. Len(s) : d = 1
  BY <1>6
<1>8. StackMeans(stack, Goals, Subs)'
  BY <1>1, <1>4, <1>5, <1>6, <1>7 DEF StackMeans, FrameMeans
<1>9. (\A k \in DOMAIN b : Due(b[k], 1, g, G, M)) => Asked(g, M)'
  BY DEF Due, Asked
<1>10. \A d \in 1 .. Len(s) : d = 1 /\ s[d] = f
  BY <1>6, <1>7
<1>11. AllUpheld(stack, g, G, M)'
  BY <1>1, <1>4, <1>9, <1>10, Zenon DEF AllUpheld, Upheld, Purpose, Pending
<1> QED  BY <1>2, <1>3, <1>8, <1>11 DEF Fresh

LEMMA TypeSound ==
  ASSUME NEW Goals, NEW Subs, NEW G, NEW M, NEW g \in G, GoalsMean(Goals, Subs, G),
         LinesMean(Goals), SoundInv(Goals, Subs, G, M, g), Type
  PROVE  SoundInv(Goals, Subs, G, M, g)'
<1>1. /\ SearchInv /\ DatabaseMeans(Goals) /\ DatabaseOK /\ engine \in Engines
      /\ stack = << >> /\ engine' = engine /\ typed + 1 \in 1 .. MaxLines
  BY SolverAssumption DEF Type, Prompt, SoundInv, SearchInv
<1>2. PICK l \in Lines(typed + 1) :
         /\ line' = l
         /\ \/ engine = "logic-interp" /\ ExecuteLogic(l)
            \/ engine = "polylog" /\ mode = "prolog" /\ ExecuteProlog(l)
            \/ engine = "polylog" /\ mode = "datalog" /\ ExecuteDatalog(l)
  BY Zenon DEF Type
<1>3. /\ l.kind # "query" => l.head \in Goals
      /\ \A k \in DOMAIN l.body : l.body[k] \in Goals
      /\ \A p \in Goals : IsPred(p) => ~unify(engine, make_list(l.body), p, << >>).ok
  BY <1>1 DEF LinesMean
<1>4. IsSeq(l.body)
  BY <1>1, SolverAssumption DEF IsSeq
<1>5. /\ No.is # "yes"
      /\ l.kind = "fact" => line'.kind # "query"
  BY <1>2 DEF No
<1> DEFINE Sound == Fresh(Goals, Subs, G, M, g)'
<1>6. ASSUME l.kind # "query", engine = "polylog" => IsPred(l.head), AddFact(l.head) PROVE Sound
  BY <1>1, <1>3, <1>6, AddFactFresh
<1>7. ASSUME l.kind # "query", AddRule(l.head, l.body) PROVE Sound
  BY <1>1, <1>3, <1>7, AddRuleFresh
<1>8. ASSUME engine = "polylog" => Len(l.body) = 1, Ask(l.body) PROVE Sound
  BY <1>1, <1>2, <1>3, <1>8, AskFresh
<1>9. ASSUME NEW a, a.is # "yes" \/ l.kind # "query", Answer(a) PROVE Sound
  BY <1>1, <1>2, <1>9, AnswerFresh
<1>10. ASSUME Len(l.body) > 1, AddRule(Head(l.body), Tail(l.body)) PROVE Sound
  <2>1. l.body # << >>
    BY <1>4, <1>10, SeqFacts
  <2>2. /\ Head(l.body) = l.body[1] /\ 1 \in DOMAIN l.body
        /\ \A k \in DOMAIN Tail(l.body) : k + 1 \in DOMAIN l.body /\ Tail(l.body)[k] = l.body[k + 1]
    BY <1>4, <2>1, TailFacts
  <2>3. Head(l.body) \in Goals /\ \A k \in DOMAIN Tail(l.body) : Tail(l.body)[k] \in Goals
    BY <1>3, <2>2
  <2> QED  BY <1>1, <1>10, <2>3, AddRuleFresh
<1> HIDE DEF Sound
<1>11. "query" # "fact" /\ "query" # "rule"
  OBVIOUS
<1>12. ASSUME engine = "logic-interp" /\ ExecuteLogic(l) PROVE Sound
  <2>1. engine # "polylog"
    BY <1>12
  <2> QED  BY <1>6, <1>7, <1>8, <1>11, <1>12, <2>1, Zenon DEF ExecuteLogic
<1>13. ASSUME engine = "polylog" /\ mode = "prolog" /\ ExecuteProlog(l) PROVE Sound
  BY <1>6, <1>7, <1>8, <1>9, <1>10, <1>11, <1>13, Zenon DEF ExecuteProlog
<1>14. ASSUME engine = "polylog" /\ mode = "datalog" /\ ExecuteDatalog(l) PROVE Sound
  <2> DEFINE asked == CASE l.kind = "rule"  -> make_list(<<l.head>> \o l.body)
                        [] l.kind = "query" -> make_list(l.body)
                        [] OTHER            -> l.head
             found == {i \in DOMAIN facts : unify(engine, asked, facts[i], << >>).ok}
  <2>1. \/ l.kind = "fact" /\ IsPred(l.head) /\ AddFact(l.head)
        \/ Answer(IF found = {} THEN No ELSE Yes(<< >>))
    BY <1>14, Zenon DEF ExecuteDatalog
  <2>2. ASSUME l.kind = "query" PROVE found = {}
    <3>1. asked = make_list(l.body)
      BY <1>11, <2>2
    <3>2. \A i \in DOMAIN facts : facts[i] \in Goals /\ IsPred(facts[i])
      BY <1>1, <1>14 DEF DatabaseMeans
    <3> HIDE DEF asked
    <3> QED  BY <1>3, <3>1, <3>2
  <2>3. ASSUME Answer(IF found = {} THEN No ELSE Yes(<< >>)) PROVE Sound
    <3> DEFINE a == IF found = {} THEN No ELSE Yes(<< >>)
    <3>1. a.is # "yes" \/ l.kind # "query"
      <4> HIDE DEF found
      <4> QED  BY <1>5, <2>2
    <3>2. Answer(a)
      BY <2>3
    <3> HIDE DEF a
    <3> QED  BY <1>9, <3>1, <3>2
  <2> QED  BY <1>6, <1>11, <2>1, <2>3, Zenon
<1>15. Sound
  BY <1>2, <1>12, <1>13, <1>14, Zenon
<1>16. SearchInv'
  BY <1>1, TypeInv
<1> QED  BY <1>15, <1>16 DEF Sound, Fresh, SoundInv

LEMMA SwitchModeSound ==
  ASSUME NEW Goals, NEW Subs, NEW G, NEW M, NEW g, SoundInv(Goals, Subs, G, M, g), SwitchMode
  PROVE  SoundInv(Goals, Subs, G, M, g)'
<1>1. /\ stack' = << >> /\ result' = None /\ engine' = engine /\ facts' = facts /\ rules' = rules
      /\ SearchInv' /\ DatabaseMeans(Goals)
  BY SwitchModeInv DEF SwitchMode, Prompt, SoundInv
<1>2. DatabaseMeans(Goals)' /\ YesMeans(result, g, M)'
  BY <1>1 DEF DatabaseMeans, YesMeans, None
<1>3. Fresh(Goals, Subs, G, M, g)'
  BY <1>1, <1>2, EmptyFresh
<1> QED  BY <1>1, <1>3 DEF Fresh, SoundInv

LEMMA StutterSound ==
  ASSUME NEW Goals, NEW Subs, NEW G, NEW M, NEW g, SoundInv(Goals, Subs, G, M, g), UNCHANGED vars
  PROVE  SoundInv(Goals, Subs, G, M, g)'
<1>1. /\ stack' = stack /\ result' = result /\ engine' = engine /\ facts' = facts
      /\ rules' = rules /\ line' = line
  BY DEF vars
<1>2. SearchInv'
  BY StutterInv DEF SoundInv
<1>3. (DatabaseMeans(Goals) <=> DatabaseMeans(Goals)')
      /\ (StackMeans(stack, Goals, Subs) <=> StackMeans(stack, Goals, Subs)')
  BY <1>1 DEF DatabaseMeans, StackMeans, FrameMeans
<1>4. IsModel(M, Goals, G) <=> IsModel(M, Goals, G)'
  BY <1>1 DEF IsModel, Granted, IsBuiltin, Builtins
<1>5. (AllUpheld(stack, g, G, M) <=> AllUpheld(stack, g, G, M)')
      /\ (YesMeans(result, g, M) <=> YesMeans(result, g, M)')
  BY <1>1 DEF AllUpheld, Upheld, Purpose, Asked, YesMeans
<1> QED  BY <1>2, <1>3, <1>4, <1>5, Zenon DEF SoundInv

LEMMA InitSound ==
  ASSUME NEW Goals, NEW Subs, NEW G, NEW M, NEW g, Init
  PROVE  SoundInv(Goals, Subs, G, M, g)
<1>1. SearchInv
  BY InitInv
<1> DEFINE e == << >>
<1>2. DOMAIN e = {} /\ 1 .. Len(e) = {}
  OBVIOUS
<1>3. facts = e /\ rules = e /\ stack = e /\ result.is = "none"
  BY DEF Init, None
<1> HIDE DEF e
<1>4. DatabaseMeans(Goals) /\ StackMeans(stack, Goals, Subs) /\ AllUpheld(stack, g, G, M)
      /\ YesMeans(result, g, M)
  BY <1>2, <1>3 DEF DatabaseMeans, StackMeans, AllUpheld, YesMeans
<1> QED  BY <1>1, <1>4 DEF SoundInv

-----------------------------------------------------------------------------
(* What becomes of bindings.  SoundInv says which substitutions there are; *)
(* each list of goals extends the substitution of the one below it.        *)

Growing(st) == \A d \in 2 .. Len(st) : IsExtension(st[d].subs, st[d - 1].subs)

LEMMA ExtensionFacts ==
  /\ \A s : IsExtension(s, s)
  /\ \A s, t, u : IsExtension(t, s) /\ IsExtension(u, t) => IsExtension(u, s)
BY DEF IsExtension

LEMMA AppendExtends ==
  ASSUME NEW s, IsSeq(s), NEW e
  PROVE  IsExtension(Append(s, e), s)
<1> DEFINE t == Append(s, e)
<1>1. DOMAIN s = 1 .. Len(s) /\ Len(s) \in Nat /\ DOMAIN t = 1 .. Len(s) + 1
      /\ \A i \in 1 .. Len(s) : t[i] = s[i]
  BY SeqFacts, SeqAppend
<1> HIDE DEF t
<1>2. \A i \in DOMAIN s : i \in DOMAIN t /\ t[i] = s[i]
  BY <1>1
<1> QED  BY <1>2 DEF IsExtension, t

\* The lists up to n - 1 are the same, and the n-th, the last, has kept its
\* bindings.
LEMMA GrowingKept ==
  ASSUME NEW st, Growing(st), NEW t, NEW n \in Nat \ {0}, Len(st) \in Nat, n <= Len(st),
         Len(t) = n, \A i \in 1 .. n - 1 : t[i] = st[i],
         IsExtension(t[n].subs, st[n].subs)
  PROVE  Growing(t)
<1> SUFFICES ASSUME NEW d \in 2 .. n PROVE IsExtension(t[d].subs, t[d - 1].subs)
  BY DEF Growing
<1>1. d \in 2 .. Len(st) /\ d - 1 \in 1 .. n - 1 /\ (d = n \/ d \in 1 .. n - 1)
  OBVIOUS
<1>2. IsExtension(st[d].subs, st[d - 1].subs) /\ t[d - 1] = st[d - 1]
  BY <1>1 DEF Growing
<1>3. IsExtension(t[d].subs, st[d].subs)
  <2>1. CASE d = n
    BY <2>1
  <2>2. CASE d \in 1 .. n - 1
    BY <2>2, ExtensionFacts
  <2> QED  BY <1>1, <2>1, <2>2
<1> QED  BY <1>2, <1>3, ExtensionFacts, Zenon

LEMMA EmptyGrowing ==
  ASSUME NEW st, st = << >>
  PROVE  Growing(st)
<1>1. 2 .. Len(st) = {}
  OBVIOUS
<1> QED  BY <1>1 DEF Growing

\* The innermost list is replaced by one that has kept its bindings.
LEMMA TopGrows ==
  ASSUME SearchInv, stack # << >>, Growing(stack), NEW f, FrameOK(f),
         IsExtension(f.subs, Top.subs)
  PROVE  Growing(SetTop(f))
<1> DEFINE t == SetTop(f)
           n == Len(stack)
<1>1. StackOK(stack)
  BY DEF SearchInv
<1>2. n \in Nat \ {0} /\ n <= Len(stack) /\ Len(stack) \in Nat
  BY <1>1, StackFacts
<1>3. Len(t) = n /\ (\A i \in 1 .. n - 1 : t[i] = stack[i]) /\ t[n] = f /\ stack[n] = Top
  BY <1>1, TopReplaced DEF SetTop, Top
<1> HIDE DEF t, n
<1> QED  BY <1>2, <1>3, GrowingKept DEF t

LEMMA FailGrows ==
  ASSUME SearchInv, stack # << >>, Growing(stack), Fails
  PROVE  Growing(stack')
<1>1. CASE Len(stack) = 1
  <2>1. stack' = << >>
    BY <1>1 DEF Fails, Finish
  <2> QED  BY <2>1, EmptyGrowing
<1>2. CASE Len(stack) # 1
  <2> DEFINE n == Len(stack) - 1
             t == SubSeq(stack, 1, n)
  <2>1. stack' = t
    BY <1>2 DEF Fails
  <2>2. StackOK(stack)
    BY DEF SearchInv
  <2>3. Len(stack) \in Nat \ {0}
    BY <2>2, StackFacts
  <2>4. n \in Nat \ {0} /\ n < Len(stack) /\ n <= Len(stack) /\ n \in 1 .. n
    <3>1. \A k \in Nat \ {0} : k # 1 =>
            k - 1 \in Nat \ {0} /\ k - 1 < k /\ k - 1 <= k /\ k - 1 \in 1 .. k - 1
      OBVIOUS
    <3> HIDE DEF t
    <3> QED  BY <1>2, <2>3, <3>1
  <2> HIDE DEF n
  <2>5. Len(t) = n /\ \A i \in 1 .. n : t[i] = stack[i]
    BY <2>2, <2>4, TopPopped
  <2> HIDE DEF t
  <2>6. IsExtension(t[n].subs, stack[n].subs)
    BY <2>4, <2>5, ExtensionFacts
  <2>7. \A i \in 1 .. n - 1 : t[i] = stack[i]
    BY <2>4, <2>5
  <2> QED  BY <2>1, <2>3, <2>4, <2>5, <2>6, <2>7, GrowingKept
<1> QED  BY <1>1, <1>2

\* What is added when a goal matches the head of a rule or a fact.
LEMMA MatchesExtends ==
  ASSUME NEW Goals, NEW Subs, UnifyBinds(Goals, Subs), engine \in Engines,
         NEW a \in Goals, NEW b \in Goals, NEW s \in Subs, Matches(a, b, s).ok
  PROVE  IsExtension(Matches(a, b, s).subs, s)
<1> DEFINE u == unify(engine, a, b, s)
<1>1. Matches(a, b, s) = u
  <2>1. NotUnified.ok = FALSE
    BY DEF NotUnified
  <2> QED  BY <2>1 DEF Matches
<1>2. u.ok => IsExtension(u.subs, s)
  BY DEF UnifyBinds
<1> HIDE DEF u
<1> QED  BY <1>1, <1>2

\* What SoundInv says of the goal that is being solved.
LEMMA SolvingFacts ==
  ASSUME NEW Goals, NEW Subs, NEW G, NEW M, NEW g, SoundInv(Goals, Subs, G, M, g), Solving
  PROVE  /\ SearchInv /\ stack # << >> /\ engine \in Engines /\ DatabaseOK /\ FrameOK(Top)
         /\ Top.goal \in Goals /\ Top.subs \in Subs /\ Settled(engine, Top.goal, Top.subs)
         /\ DatabaseMeans(Goals)
<1>1. stack # << >> /\ engine \in Engines /\ Top.goal \in Goals /\ Top.subs \in Subs
      /\ Settled(engine, Top.goal, Top.subs) /\ DatabaseMeans(Goals) /\ DatabaseOK
  BY GoalFacts, Zenon
<1>2. SearchInv /\ FrameOK(Top)
  BY <1>1, SoundFacts, Zenon
<1> QED  BY <1>1, <1>2

\* The goal is solved with more bindings.
LEMMA SucceedGrows ==
  ASSUME SearchInv, stack # << >>, DatabaseOK, FrameOK(Top), Growing(stack),
         NEW u, IsExtension(u, Top.subs), Succeed(u)
  PROVE  Growing(stack')
<1> DEFINE f == Solved(Top, u)
<1>1. stack' = SetTop(f)
  BY DEF Succeed
<1>2. FrameOK(f) /\ f.subs = u
  BY FrameOps, FrameFields
<1> HIDE DEF f
<1>3. Growing(SetTop(f))
  BY <1>2, TopGrows
<1> QED  BY <1>1, <1>3

LEMMA NextGoalGrows ==
  ASSUME SearchInv, Growing(stack), NextGoal
  PROVE  Growing(stack')
<1>1. stack # << >> /\ Top.goals # << >>
  BY DEF NextGoal
<1>2. PICK goal \in {Applied(Head(Top.goals), Top)} :
         IF runs_away(goal) THEN Finish(Crash)
         ELSE /\ stack' = SetTop([Top EXCEPT !.goals = Tail(@), !.goal = goal])
              /\ UNCHANGED result
  BY DEF NextGoal
<1>3. DatabaseOK /\ FrameOK(Top)
  BY <1>1, TopFacts
<1>4. CASE runs_away(goal)
  <2>1. stack' = << >>
    BY <1>2, <1>4 DEF Finish
  <2> QED  BY <2>1, EmptyGrowing
<1>5. CASE ~runs_away(goal)
  <2> DEFINE f == Begun(Top, goal)
  <2>1. stack' = SetTop(f)
    BY <1>2, <1>5, Zenon DEF Begun
  <2>2. FrameOK(f) /\ f.subs = Top.subs
    BY <1>1, <1>3, FrameOps, FrameFields
  <2> HIDE DEF f
  <2>3. Growing(SetTop(f))
    BY <1>1, <2>2, ExtensionFacts, TopGrows
  <2> QED  BY <2>1, <2>3
<1> QED  BY <1>4, <1>5

\* The list below takes over the bindings of the one that is done.
LEMMA ListSolvedGrows ==
  ASSUME SearchInv, Growing(stack), ListSolved
  PROVE  Growing(stack')
<1> DEFINE n == Len(stack)
<1>1. stack # << >> /\ StackOK(stack)
  BY DEF ListSolved, SearchInv
<1>2. n \in Nat \ {0} /\ (\A d \in 1 .. n : FrameOK(stack[d])) /\ stack[n] = Top
  BY <1>1, StackFacts DEF Top
<1>3. CASE n = 1
  <2>1. stack' = << >>
    BY <1>3 DEF ListSolved, Finish
  <2> QED  BY <2>1, EmptyGrowing
<1>4. CASE n # 1
  <2> DEFINE m == n - 1
             below == stack[m]
             f == Solved(below, Top.subs)
             t == Append(SubSeq(stack, 1, n - 2), f)
  <2>1. stack' = t
    BY <1>4 DEF ListSolved
  <2>2. m \in Nat \ {0} /\ m <= n /\ m \in 1 .. n /\ n > 1 /\ m - 1 = n - 2 /\ n \in 2 .. n
    <3>1. n \in Nat \ {0}
      BY <1>2
    <3> HIDE DEF n
    <3> QED  BY <1>4, <3>1
  <2>3. DatabaseOK /\ FrameOK(below)
    BY <1>2, <2>2 DEF SearchInv
  <2>4. FrameOK(f) /\ f.subs = Top.subs
    BY <2>3, FrameOps, FrameFields
  <2>5. IsExtension(Top.subs, below.subs)
    BY <1>2, <2>2 DEF Growing
  <2> HIDE DEF f, below
  <2>6. Len(t) = m /\ (\A i \in 1 .. n - 2 : t[i] = stack[i]) /\ t[m] = f
    <3> DEFINE w == Append(SubSeq(stack, 1, Len(stack) - 2), f)
    <3>1. StackOK(stack) /\ Len(stack) > 1 /\ FrameOK(f)
      BY <1>1, <2>2, <2>4
    <3>2. /\ Len(w) = Len(stack) - 1 /\ w[Len(stack) - 1] = f
          /\ \A i \in 1 .. Len(stack) - 2 : w[i] = stack[i]
      BY <3>1, TopReturned
    <3>3. w = t
      OBVIOUS
    <3> HIDE DEF w, t
    <3> QED  BY <3>2, <3>3
  <2> HIDE DEF t
  <2>7. IsExtension(t[m].subs, stack[m].subs)
    BY <2>4, <2>5, <2>6 DEF below
  <2>8. Len(stack) \in Nat /\ m <= Len(stack) /\ \A i \in 1 .. m - 1 : t[i] = stack[i]
    BY <1>2, <2>2, <2>6
  <2> HIDE DEF m
  <2>9. Growing(t)
    BY <2>2, <2>6, <2>7, <2>8, GrowingKept
  <2> QED  BY <2>1, <2>9
<1> QED  BY <1>3, <1>4

LEMMA BuiltinGrows ==
  ASSUME NEW Goals, NEW Subs, NEW G, NEW M, NEW g \in G, GoalsMean(Goals, Subs, G),
         SoundInv(Goals, Subs, G, M, g), Growing(stack), Builtin
  PROVE  Growing(stack')
<1> DEFINE left == list_nth(Top.goal[3], 1)
           right == apply_subst(engine, list_nth(Top.goal[3], 2), Top.subs)
           longer == Append(Top.subs, <<left, right>>)
<1>1. Solving
  BY DEF Builtin
<1>2. SearchInv /\ stack # << >> /\ DatabaseOK /\ FrameOK(Top) /\ Top.subs \in Subs
  BY <1>1, SolvingFacts, Zenon
<1>3. IsSeq(Top.subs)
  BY <1>2, Zenon DEF GoalsMean, IsSeq
<1>4. Finish(Crash) \/ Succeed(longer) \/ Succeed(Top.subs) \/ Fails
  BY Zenon DEF Builtin
<1>5. IsExtension(longer, Top.subs)
  BY <1>3, AppendExtends
<1> HIDE DEF longer
<1>6. CASE Finish(Crash)
  <2>1. stack' = << >>
    BY <1>6 DEF Finish
  <2> QED  BY <2>1, EmptyGrowing
<1> QED  BY <1>2, <1>4, <1>5, <1>6, ExtensionFacts, SucceedGrows, FailGrows

LEMMA MatchFactGrows ==
  ASSUME NEW Goals, NEW Subs, NEW G, NEW M, NEW g \in G, UnifyBinds(Goals, Subs),
         SoundInv(Goals, Subs, G, M, g), Growing(stack), MatchFact
  PROVE  Growing(stack')
<1> DEFINE i == CHOOSE k \in Matching : \A j \in Matching : k <= j
           u == Matches(Top.goal, facts[i], Top.subs)
<1>1. Solving /\ Matching # {} /\ Succeed(u.subs)
  BY DEF MatchFact, Trying
<1>2. /\ SearchInv /\ stack # << >> /\ engine \in Engines /\ DatabaseOK /\ FrameOK(Top)
      /\ Top.goal \in Goals /\ Top.subs \in Subs /\ DatabaseMeans(Goals)
  BY <1>1, SolvingFacts, Zenon
<1>3. i \in Matching
  <2>1. Matching \subseteq Nat
    BY <1>2, SeqFacts DEF Matching, DatabaseOK
  <2>2. PICK k \in Matching : \A j \in Matching : k <= j
    BY <1>1, <2>1, LeastNumber
  <2> QED  BY <2>2
<1> HIDE DEF i
<1>4. i \in DOMAIN facts /\ u.ok
  BY <1>3 DEF Matching
<1>5. facts[i] \in Goals
  BY <1>2, <1>4 DEF DatabaseMeans
<1>6. IsExtension(u.subs, Top.subs)
  BY <1>2, <1>4, <1>5, MatchesExtends
<1> HIDE DEF u
<1> QED  BY <1>1, <1>2, <1>6, SucceedGrows

LEMMA NoFactGrows ==
  ASSUME SearchInv, Growing(stack), NoFact
  PROVE  Growing(stack')
<1> DEFINE f == Turned(Top, 1)
<1>1. stack # << >> /\ stack' = SetTop(f)
  BY DEF NoFact, Trying, Solving, Turned
<1>2. DatabaseOK /\ FrameOK(Top)
  BY <1>1, TopFacts
<1>3. 1 \in 0 .. Len(rules) + 1
  BY <1>2, RulesCount
<1>4. FrameOK(f) /\ f.subs = Top.subs
  BY <1>2, <1>3, FrameOps, FrameFields
<1> HIDE DEF f
<1>5. Growing(SetTop(f))
  BY <1>1, <1>4, ExtensionFacts, TopGrows
<1> QED  BY <1>1, <1>5

\* The body of a rule is begun with the bindings that its head has added.
LEMMA TryRuleGrows ==
  ASSUME NEW Goals, NEW Subs, NEW G, NEW M, NEW g \in G, UnifyBinds(Goals, Subs),
         SoundInv(Goals, Subs, G, M, g), Growing(stack), TryRule
  PROVE  Growing(stack')
<1> DEFINE rule == rules[Top.rule]
           u == Matches(Top.goal, rule.head, Top.subs)
           next == Turned(Top, Top.rule + 1)
           body == IF engine = "polylog" THEN rule.body
                   ELSE [i \in DOMAIN rule.body |-> apply_subst(engine, rule.body[i], u.subs)]
           f == Frame(body, u.subs)
           t == SetTop(next)
           n == Len(stack)
<1>1. Solving /\ Top.rule \in DOMAIN rules
  BY DEF TryRule, Trying
<1>2. stack' = IF u.ok THEN Append(t, f) ELSE t
  BY Zenon DEF TryRule, Turned
<1>3. /\ SearchInv /\ stack # << >> /\ engine \in Engines /\ DatabaseOK /\ FrameOK(Top)
      /\ Top.goal \in Goals /\ Top.subs \in Subs /\ DatabaseMeans(Goals)
  BY <1>1, SolvingFacts, Zenon
<1>4. Top.rule + 1 \in 0 .. Len(rules) + 1
  BY <1>1, <1>3, RulesCount
<1>5. FrameOK(next) /\ next.subs = Top.subs
  BY <1>3, <1>4, FrameOps, FrameFields
<1>6. ASSUME u.ok PROVE IsExtension(u.subs, next.subs)
  <2>1. rule.head \in Goals
    BY <1>1, <1>3 DEF DatabaseMeans
  <2>2. IsExtension(u.subs, Top.subs)
    BY <1>3, <1>6, <2>1, MatchesExtends
  <2> HIDE DEF next, u
  <2> QED  BY <1>5, <2>2
<1>7. f.subs = u.subs
  BY DEF Frame
<1> HIDE DEF next, f, u
<1>8. Growing(t)
  BY <1>3, <1>5, ExtensionFacts, TopGrows
<1>9. StackOK(stack) /\ n \in Nat \ {0}
  BY <1>3, StackFacts DEF SearchInv
<1>10. IsSeq(t) /\ Len(t) = n /\ t[n] = next
  BY <1>3, <1>5, <1>9, TopReplaced DEF SetTop, StackOK
<1> HIDE DEF t, n
<1>11. ASSUME u.ok PROVE Growing(Append(t, f))
  <2> DEFINE w == Append(t, f)
  <2>1. Len(w) = n + 1 /\ (\A i \in 1 .. n : w[i] = t[i]) /\ w[n + 1] = f
    BY <1>10, SeqAppend
  <2> HIDE DEF w
  <2> SUFFICES ASSUME NEW d \in 2 .. n + 1 PROVE IsExtension(w[d].subs, w[d - 1].subs)
    BY <2>1 DEF Growing, w
  <2>2. CASE d = n + 1
    <3>1. d - 1 = n /\ n \in 1 .. n
      BY <1>9, <2>2
    <3>2. w[d] = f /\ w[d - 1] = next
      BY <1>10, <2>1, <2>2, <3>1
    <3> QED  BY <1>6, <1>7, <1>11, <3>2
  <2>3. CASE d # n + 1
    <3>1. d \in 2 .. n /\ d \in 1 .. n /\ d - 1 \in 1 .. n
      BY <1>9, <2>3
    <3>2. w[d] = t[d] /\ w[d - 1] = t[d - 1]
      BY <2>1, <3>1
    <3>3. IsExtension(t[d].subs, t[d - 1].subs)
      BY <1>8, <1>10, <3>1 DEF Growing
    <3> QED  BY <3>2, <3>3
  <2> QED  BY <2>2, <2>3
<1> QED  BY <1>2, <1>8, <1>11

LEMMA StepGrows ==
  ASSUME NEW Goals, NEW Subs, NEW G, NEW M, NEW g \in G, GoalsMean(Goals, Subs, G),
         UnifyBinds(Goals, Subs), SoundInv(Goals, Subs, G, M, g), Growing(stack), Step
  PROVE  Growing(stack')
<1>1. SearchInv
  BY DEF SoundInv
<1>2. CASE DeepGoal
  BY <1>1, <1>2, FailGrows DEF DeepGoal, Solving
<1>3. CASE NoRule
  BY <1>1, <1>3, FailGrows DEF NoRule, Trying, Solving
<1> QED  BY <1>1, <1>2, <1>3, NextGoalGrows, ListSolvedGrows, BuiltinGrows, MatchFactGrows,
            NoFactGrows, TryRuleGrows DEF Step

\* A line that is typed begins one list at most.
LEMMA TypeGrows ==
  ASSUME Type
  PROVE  Growing(stack')
<1>1. stack = << >>
  BY DEF Type, Prompt
<1>2. PICK l \in Lines(typed + 1) :
         \/ ExecuteLogic(l) \/ ExecuteProlog(l) \/ ExecuteDatalog(l)
  BY Zenon DEF Type
<1>3. stack' = stack \/ \E a : Ask(a)
  BY <1>2, Zenon DEF ExecuteLogic, ExecuteProlog, ExecuteDatalog, AddFact, AddRule, Answer
<1>4. ASSUME NEW a, Ask(a) PROVE Growing(stack')
  <2> DEFINE s == <<Frame(a, << >>)>>
  <2>1. stack' = s /\ Len(s) = 1
    BY <1>4 DEF Ask
  <2> HIDE DEF s
  <2>2. 2 .. Len(stack') = {}
    BY <2>1
  <2> QED  BY <2>2 DEF Growing
<1> QED  BY <1>1, <1>3, <1>4, EmptyGrowing

-----------------------------------------------------------------------------
(* What is proved.                                                         *)

\* The database never holds more facts and rules than its limits, the rule
\* that is tried next is one of the database or the one past the last, and
\* the search never goes more than one list of goals past the depth at which
\* a goal is given up: the check at the head of solve_single_goal and
\* solve_prolog_goal (logic-interp.c:1352, polylog.c:1478) bounds the recursion,
\* whatever unify and apply_subst do.
THEOREM TypeCorrect == Spec => []TypeOK
<1>1. SearchInv => TypeOK
  <2> SUFFICES ASSUME SearchInv PROVE TypeOK
    OBVIOUS
  <2>1. \A d \in DOMAIN stack : stack[d].rule \in 0 .. Len(rules) + 1
    BY DEF SearchInv, StackOK, FrameOK
  <2>2. Len(stack) <= MaxDepth + 2
    BY DEF SearchInv, StackOK
  <2> QED  BY <2>1, <2>2 DEF SearchInv, DatabaseOK, TypeOK
<1> QED  BY <1>1, SearchInvHolds, PTL

\* Whatever the rules are and however they call themselves, each step of a
\* search takes from the work that is left: the goals of a list not yet begun,
\* the goal that is being solved, the rules not yet tried for it, compared
\* from the query upwards over at most MaxDepth + 2 lists
\* (logic-interp.c:1352, polylog.c:1478).
THEOREM SearchAlwaysAdvances == Spec => SearchAdvances
<1>1. SearchInv /\ [Next]_vars => [stack # << >> => Less(Work(stack'), Work(stack))]_vars
  <2> SUFFICES ASSUME SearchInv, [Next]_vars, ~UNCHANGED vars, stack # << >>
               PROVE  Less(Work(stack'), Work(stack))
    BY DEF vars
  <2>1. Step
    BY DEF Next, SwitchMode, Type, Prompt
  <2> QED  BY <2>1, StepAdvances DEF Advances
<1> QED  BY <1>1, SearchInvHolds, PTL DEF Spec, SearchAdvances

\* A query that is answered with a substitution follows from the database: for
\* every meaning that fits the substitution, each goal of the query has a value
\* in every model of the facts and rules (logic-interp.c:1351,
\* polylog.c:1477).  GoalsMean says what unify and apply_subst must do for
\* that, LinesMean what can be typed.
THEOREM AnswersFollow ==
  ASSUME NEW Goals, NEW Subs, NEW G, NEW M, NEW g \in G, GoalsMean(Goals, Subs, G), LinesMean(Goals)
  PROVE  Spec => []YesFollows(M, Goals, G, g)
<1>1. Init => SoundInv(Goals, Subs, G, M, g)
  BY InitSound
<1>2. SoundInv(Goals, Subs, G, M, g) /\ [Next]_vars => SoundInv(Goals, Subs, G, M, g)'
  BY StepSound, TypeSound, SwitchModeSound, StutterSound DEF Next
<1>3. SoundInv(Goals, Subs, G, M, g) => YesFollows(M, Goals, G, g)
  BY Zenon DEF SoundInv, YesMeans, Asked, YesFollows
<1> QED  BY <1>1, <1>2, <1>3, PTL DEF Spec

\* Whatever is unified, at whatever depth and after whatever has failed: in the
\* substitution of every list of goals no variable is bound twice and no chain
\* of bindings leads back, and each list of goals has all bindings of the goal
\* it is solved for (logic-interp.c:1366, polylog.c:1535).  UnifyBinds says
\* what unify does to one substitution, GoalsMean which ones there are.
THEOREM BindingsStayAcyclic ==
  ASSUME NEW Goals, NEW Subs, NEW G, NEW g \in G,
         GoalsMean(Goals, Subs, G), LinesMean(Goals), UnifyBinds(Goals, Subs)
  PROVE  Spec => []BindingsAcyclic
<1> DEFINE M == {}
           Inv == SoundInv(Goals, Subs, G, M, g) /\ Growing(stack)
<1> HIDE DEF M
<1>1. Init => Inv
  <2>1. ASSUME Init PROVE stack = << >>
    BY <2>1 DEF Init
  <2> QED  BY <2>1, InitSound, EmptyGrowing
<1>2. Inv /\ [Next]_vars => Inv'
  <2>1. ASSUME Inv, [Next]_vars PROVE Inv'
    <3>1. SoundInv(Goals, Subs, G, M, g)'
      BY <2>1, StepSound, TypeSound, SwitchModeSound, StutterSound DEF Next
    <3>2. CASE Step \/ Type
      BY <2>1, <3>1, <3>2, StepGrows, TypeGrows DEF Growing
    <3>3. CASE SwitchMode \/ UNCHANGED vars
      <4>1. stack' = stack
        BY <3>3 DEF SwitchMode, vars
      <4> QED  BY <2>1, <3>1, <4>1 DEF Growing
    <3> QED  BY <2>1, <3>2, <3>3 DEF Next
  <2> QED  BY <2>1
<1>3. Inv => BindingsAcyclic
  <2> SUFFICES ASSUME Inv, NEW d \in DOMAIN stack
               PROVE  /\ WellBound(stack[d].subs)
                      /\ d > 1 => IsExtension(stack[d].subs, stack[d - 1].subs)
    BY DEF BindingsAcyclic
  <2>1. StackMeans(stack, Goals, Subs) /\ IsSeq(stack)
    BY DEF SoundInv, SearchInv, StackOK
  <2>2. DOMAIN stack = 1 .. Len(stack) /\ Len(stack) \in Nat
    BY <2>1, SeqFacts
  <2>3. stack[d].subs \in Subs
    BY <2>1, <2>2 DEF StackMeans, FrameMeans
  <2>4. d > 1 => d \in 2 .. Len(stack)
    BY <2>2
  <2> QED  BY <2>3, <2>4 DEF UnifyBinds, Growing
<1> HIDE DEF Inv
<1> QED  BY <1>1, <1>2, <1>3, PTL DEF Spec
=============================================================================
