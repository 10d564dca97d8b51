------------------------------- MODULE PolySum -------------------------------
(***************************************************************************)
(* What bringing a list of terms to normal form promises: the polynomial   *)
(* that it denotes, a map from monomials to coefficients modulo Payload,   *)
(* is the sum of the terms, of all of them if there are not more than      *)
(* MaxTerms.                                                               *)
(***************************************************************************)
EXTENDS Naturals, Sequences

CONSTANTS
  Monos,     \* the monomials
  Payload,   \* coefficients are taken modulo this
  MaxTerms   \* terms that can be summed without a loss

VARIABLES
  building,  \* the list is not complete
  todo,      \* the terms still to be summed
  count,     \* terms taken so far
  sum,       \* their sum
  result     \* the polynomial returned, none of them before the return

vars == <<building, todo, count, sum, result>>

Init ==
  /\ building = TRUE
  /\ todo = << >> /\ count = 0
  /\ sum = [m \in Monos |-> 0]
  /\ result = {}

Build ==
  /\ building = TRUE
  /\ building' \in BOOLEAN
  /\ todo' \in Seq([coef : 0 .. Payload - 1, mono : Monos])
  /\ UNCHANGED <<count, sum, result>>

Take == ~building /\ todo # << >> /\ todo' = Tail(todo) /\ count' = count + 1

Add ==
  /\ Take
  /\ sum' = [sum EXCEPT ![Head(todo).mono] = (@ + Head(todo).coef) % Payload]
  /\ UNCHANGED <<building, result>>

Lose ==
  /\ Take /\ count >= MaxTerms
  /\ UNCHANGED <<building, sum, result>>

Return ==
  /\ ~building /\ todo = << >> /\ result = {}
  /\ result' = {sum}
  /\ UNCHANGED <<building, todo, count, sum>>

Spec == Init /\ [][Build \/ Add \/ Lose \/ Return]_vars
=============================================================================
