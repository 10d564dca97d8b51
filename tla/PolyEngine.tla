------------------------------ MODULE PolyEngine ------------------------------
(***************************************************************************)
(* The polynomials of pair-machine.c: poly_add, poly_mul and poly_deriv    *)
(* build a list of terms, and normalize_terms brings it to normal form in  *)
(* a table of MAX_POLY_TERMS slots.                                        *)
(*                                                                         *)
(* A polynomial is the sequence of its terms, a term a coefficient and the *)
(* exponents that mono_from_alist reads.  What is stored in a cell keeps   *)
(* the payload of a value, 14 bits; what is computed keeps 16.  The cells  *)
(* themselves are those of PairMachine and do not run out here.            *)
(***************************************************************************)
EXTENDS Integers, Sequences

CONSTANTS
  VarOrder,   \* var_order: the variables, as term_eval visits them
  Payload,    \* 2^14: what MAKE_INT keeps
  Word,       \* 2^16: what a uint16_t holds
  MaxTerms,   \* MAX_POLY_TERMS, 128
  Polys       \* the operands

Variables == {VarOrder[i] : i \in DOMAIN VarOrder}

Coefs == 0 .. Payload - 1
Monos == [Variables -> 0 .. Payload - 1]
Term  == [coef : Coefs, mono : Monos]
Slot  == [used : BOOLEAN, coef : 0 .. Word - 1, mono : Monos]

ASSUME PolyConstants ==
  /\ Payload \in Nat \ {0} /\ Word \in Nat \ {0}
  /\ Word % Payload = 0
  /\ MaxTerms \in Nat
  /\ VarOrder \in Seq(Variables)
  /\ Polys \subseteq Seq(Term)

VARIABLES
  op, p1, p2, var,   \* the call: "add", "mul", "deriv", and its arguments
  phase,             \* "build", "scan", "emit", "done"
  ra, rb,            \* the terms of p1 and of p2 that the loops have still to visit
  todo,              \* the terms built; then, those that are still to be summed
  agg,               \* the table of normalize_terms, up to used
  count,             \* terms taken from todo (history)
  n,                 \* slots still to be emitted
  out                \* the terms emitted

vars == <<op, p1, p2, var, phase, ra, rb, todo, agg, count, n, out>>
call == <<op, p1, p2, var>>

Init ==
  /\ op \in {"add", "mul", "deriv"}
  /\ p1 \in Polys /\ p2 \in Polys /\ var \in Variables
  /\ phase = "build"
  /\ ra = p1 /\ rb = p2
  /\ todo = << >> /\ agg = << >> /\ count = 0 /\ n = 0 /\ out = << >>

-----------------------------------------------------------------------------
(* Building the list.                                                      *)

\* Mutant: the exponents are stored without the cut.
StoredWhole(e) == e

\* The exponents as mono_to_alist stores them.
Stored(e) == [v \in Variables |-> e[v] % Payload]

TermMul(t, u) ==
  [coef |-> ((t.coef * u.coef) % Word) % Payload,
   mono |-> Stored([v \in Variables |-> (t.mono[v] + u.mono[v]) % Word])]

TermDeriv(t, v) ==
  [coef |-> ((t.coef * t.mono[v]) % Word) % Payload,
   mono |-> [t.mono EXCEPT ![v] = @ - 1]]

Built == phase' = "scan" /\ UNCHANGED <<ra, rb, todo>>

PolyAdd ==
  /\ phase = "build" /\ op = "add"
  /\ todo' = ra \o rb /\ phase' = "scan"
  /\ UNCHANGED <<ra, rb, agg, count, n, out, call>>

\* Mutant: the inner loop is not started anew.
PolyMulOnce ==
  /\ phase = "build" /\ op = "mul"
  /\ \/ ra = << >> /\ Built
     \/ /\ ra # << >> /\ rb = << >>
        /\ ra' = Tail(ra) /\ UNCHANGED <<phase, todo, rb>>
     \/ /\ ra # << >> /\ rb # << >>
        /\ todo' = <<TermMul(Head(ra), Head(rb))>> \o todo
        /\ rb' = Tail(rb) /\ UNCHANGED <<phase, ra>>
  /\ UNCHANGED <<agg, count, n, out, call>>

\* The products are consed to the front: the list is in reverse order.
PolyMul ==
  /\ phase = "build" /\ op = "mul"
  /\ \/ ra = << >> /\ Built
     \/ /\ ra # << >> /\ rb = << >>
        /\ ra' = Tail(ra) /\ rb' = p2 /\ UNCHANGED <<phase, todo>>
     \/ /\ ra # << >> /\ rb # << >>
        /\ todo' = <<TermMul(Head(ra), Head(rb))>> \o todo
        /\ rb' = Tail(rb) /\ UNCHANGED <<phase, ra>>
  /\ UNCHANGED <<agg, count, n, out, call>>

PolyDeriv ==
  /\ phase = "build" /\ op = "deriv"
  /\ \/ ra = << >> /\ Built
     \/ /\ ra # << >>
        /\ todo' = IF Head(ra).mono[var] > 0 THEN <<TermDeriv(Head(ra), var)>> \o todo ELSE todo
        /\ ra' = Tail(ra) /\ UNCHANGED <<phase, rb>>
  /\ UNCHANGED <<agg, count, n, out, call>>

-----------------------------------------------------------------------------
(* normalize_terms.                                                        *)

\* Mutant: a slot that was given up is found again.
HoldsOld(i, m) == agg[i].mono = m

\* The slot in use that holds monomial m.
Holds(i, m) == agg[i].used /\ agg[i].mono = m
Found(m) == \E i \in DOMAIN agg : Holds(i, m)

Scanning == phase = "scan" /\ todo # << >>
Take ==
  /\ todo' = Tail(todo) /\ count' = count + 1
  /\ UNCHANGED <<phase, ra, rb, n, out, call>>

SkipZero == Scanning /\ Head(todo).coef = 0 /\ Take /\ UNCHANGED agg

\* Mutant: the coefficient is replaced.
PlusReplaces(s, c) == [s EXCEPT !.coef = c]

\* A sum of zero gives the slot up; it is not used again.
Plus(s, c) == [s EXCEPT !.coef = (@ + c) % Word, !.used = @ /\ (s.coef + c) % Word # 0]

AddToSlot ==
  /\ Scanning /\ Head(todo).coef # 0
  /\ \E i \in DOMAIN agg :
       /\ Holds(i, Head(todo).mono)
       /\ agg' = [agg EXCEPT ![i] = Plus(@, Head(todo).coef)]
  /\ Take

\* Mutant: the monomial is not looked for.
NewSlotAlways ==
  /\ Scanning /\ Head(todo).coef # 0
  /\ Len(agg) < MaxTerms
  /\ agg' = Append(agg, [used |-> TRUE, coef |-> Head(todo).coef, mono |-> Head(todo).mono])
  /\ Take

NewSlot ==
  /\ Scanning /\ Head(todo).coef # 0 /\ ~Found(Head(todo).mono)
  /\ Len(agg) < MaxTerms
  /\ agg' = Append(agg, [used |-> TRUE, coef |-> Head(todo).coef, mono |-> Head(todo).mono])
  /\ Take

\* No slot is left: the term is dropped.
Drop ==
  /\ Scanning /\ Head(todo).coef # 0 /\ ~Found(Head(todo).mono)
  /\ Len(agg) >= MaxTerms
  /\ Take /\ UNCHANGED agg

Scanned ==
  /\ phase = "scan" /\ todo = << >>
  /\ phase' = "emit" /\ n' = Len(agg)
  /\ UNCHANGED <<ra, rb, todo, agg, count, out, call>>

\* The slots from the last to the first, each consed to the front.
Emit ==
  /\ phase = "emit" /\ n > 0
  /\ out' = IF agg[n].used /\ agg[n].coef # 0
            THEN <<[coef |-> agg[n].coef % Payload, mono |-> Stored(agg[n].mono)]>> \o out
            ELSE out
  /\ n' = n - 1
  /\ UNCHANGED <<phase, ra, rb, todo, agg, count, call>>

Return ==
  /\ phase = "emit" /\ n = 0
  /\ phase' = "done"
  /\ UNCHANGED <<ra, rb, todo, agg, count, n, out, call>>

Next ==
  \/ PolyAdd \/ PolyMul \/ PolyDeriv
  \/ SkipZero \/ AddToSlot \/ NewSlot \/ Drop
  \/ Scanned \/ Emit \/ Return

Spec == Init /\ [][Next]_vars

-----------------------------------------------------------------------------
TypeOK ==
  /\ op \in {"add", "mul", "deriv"} /\ p1 \in Seq(Term) /\ p2 \in Seq(Term)
  /\ var \in Variables
  /\ phase \in {"build", "scan", "emit", "done"}
  /\ ra \in Seq(Term) /\ rb \in Seq(Term) /\ todo \in Seq(Term) /\ out \in Seq(Term)
  /\ agg \in Seq(Slot) /\ count \in Nat /\ n \in 0 .. Len(agg)

\* However the terms come, in any order and with sums that pass through zero,
\* a monomial is never in two slots in use, a slot in use never holds zero, and
\* there are never more slots than MaxTerms or than terms taken; and no monomial
\* appears twice in what is returned, not even one whose exponents were cut to
\* 14 bits (pair-machine.c:376-400).
SlotsApart ==
  /\ \A i, j \in DOMAIN agg : agg[i].used /\ agg[j].used /\ agg[i].mono = agg[j].mono => i = j
  /\ \A i \in DOMAIN agg : agg[i].used => agg[i].coef # 0
  /\ Len(agg) <= count /\ Len(agg) <= MaxTerms
  /\ \A i, j \in DOMAIN out : out[i].mono = out[j].mono => i = j

\* The table denotes a map from monomials to coefficients, and so does a list
\* of terms in normal form.
SumOf(t) ==
  [m \in Monos |->
     IF \E i \in DOMAIN t : t[i].used /\ t[i].mono = m
     THEN t[CHOOSE i \in DOMAIN t : t[i].used /\ t[i].mono = m].coef % Payload ELSE 0]

CoefsOf(p) ==
  [m \in Monos |->
     IF \E i \in DOMAIN p : p[i].mono = m
     THEN p[CHOOSE i \in DOMAIN p : p[i].mono = m].coef ELSE 0]

Sum == INSTANCE PolySum WITH
         building <- phase = "build",
         sum <- SumOf(agg),
         result <- IF phase = "done" THEN {CoefsOf(out)} ELSE {}

\* normalize_terms implements the sum: the 16 bits it computes with and the
\* zeros it tests for do not show, and no term is lost among the first MaxTerms
\* (pair-machine.c:359-401).
ImplementsSum == Sum!Spec

-----------------------------------------------------------------------------
(* What a call means.  V gives every monomial a value, and a polynomial the *)
(* sum of what its terms are worth.                                         *)

\* What k turns of a loop make of b; step[i][r] is what turn i makes of r.
Loop(k, b, step) ==
  LET r[i \in 0 .. k] == IF i = 0 THEN b ELSE step[i][r[i - 1]] IN r[k]

\* The sum of w over the members of p.
SumOver(w, p) == Loop(Len(p), 0, [i \in DOMAIN p |-> [r \in Nat |-> r + w[p[i]]]])

Times(m, e) == [v \in Variables |-> (m[v] + e[v]) % Payload]
Lower(m, v) == [m EXCEPT ![v] = @ - 1]

\* What a term is worth, its product with t, with all of p, its derivative.
Worth(V)       == [t \in Term |-> t.coef * V[t.mono]]
WorthTimes(V, t) == [u \in Term |-> t.coef * u.coef * V[Times(t.mono, u.mono)]]
WorthTimesAll(V, p) == [t \in Term |-> SumOver(WorthTimes(V, t), p)]
WorthDerived(V, v) ==
  [t \in Term |-> IF t.mono[v] = 0 THEN 0 ELSE t.coef * t.mono[v] * V[Lower(t.mono, v)]]

ValueMeant(V) ==
  CASE op = "add"   -> SumOver(Worth(V), p1) + SumOver(Worth(V), p2)
    [] op = "mul"   -> SumOver(WorthTimesAll(V, p2), p1)
    [] op = "deriv" -> SumOver(WorthDerived(V, var), p1)

\* The terms fit into the table, and the call returns.
Returned == phase = "done" /\ count <= MaxTerms

Only(m) == [e \in Monos |-> IF e = m THEN 1 ELSE 0]

\* As long as the terms fit into the table, a call returns the sum, the product
\* or the derivative, as polynomials over the integers modulo 2^14, whatever
\* repeats, cancels or wraps on the way (pair-machine.c:404-451).
RingOp ==
  Returned => \A m \in Monos : CoefsOf(out)[m] = ValueMeant(Only(m)) % Payload

-----------------------------------------------------------------------------
(* Evaluation.                                                             *)

PowU16(a, k) == Loop(k, 1, [i \in 1 .. k |-> [r \in Nat |-> (r * a) % Word]])

TermEval(t, at) ==
  Loop(Len(VarOrder), t.coef,
       [i \in DOMAIN VarOrder |-> [r \in Nat |->
          (r * PowU16(at[VarOrder[i]], t.mono[VarOrder[i]])) % Word]])

PolyEval(p, at) ==
  Loop(Len(p), 0, [i \in DOMAIN p |-> [r \in Nat |-> (r + TermEval(p[i], at)) % Word]])

NoExponentWraps ==
  op = "mul" => \A i \in DOMAIN p1, j \in DOMAIN p2, v \in Variables :
                  p1[i].mono[v] + p2[j].mono[v] < Payload

\* Evaluating what poly_add or poly_mul returns is adding or multiplying the
\* values of the operands, in the 14 bits that a value has, when no exponent
\* wraps (pair-machine.c:476-488).
EvalAgrees ==
  Returned /\ op # "deriv" /\ NoExponentWraps =>
    \A at \in [Variables -> Coefs] :
      LET a == PolyEval(p1, at)
          b == PolyEval(p2, at)
      IN  PolyEval(out, at) % Payload = (IF op = "add" THEN a + b ELSE a * b) % Payload
=============================================================================
