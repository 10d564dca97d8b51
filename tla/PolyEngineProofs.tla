-------------------------- MODULE PolyEngineProofs --------------------------
(***************************************************************************)
(* Proofs about PolyEngine, for any variables, operands and number of      *)
(* slots, and any width of the words that is a multiple of the payload:    *)
(* no monomial is ever in two places; normalize_terms returns the sum of   *)
(* its terms modulo the payload, although it adds and tests for zero in    *)
(* words; and what a call returns is the sum, the product or the           *)
(* derivative of its operands, and evaluates to it.                        *)
(***************************************************************************)
EXTENDS PolyEngine, TLAPS, SequenceTheorems, NaturalsInduction, WellFoundedInduction

Ops    == {"add", "mul", "deriv"}
Phases == {"build", "scan", "emit", "done"}

\* What SlotsApart says of the table.
Apart(t) ==
  /\ \A i, j \in DOMAIN t : t[i].used /\ t[j].used /\ t[i].mono = t[j].mono => i = j
  /\ \A i \in DOMAIN t : t[i].used => t[i].coef # 0

\* What is empty, and when.
Shape ==
  /\ phase = "build" => agg = << >> /\ count = 0
  /\ phase \in {"build", "scan"} => out = << >> /\ n = 0
  /\ phase \in {"emit", "done"} => todo = << >>
  /\ phase = "done" => n = 0

\* What has been emitted is what is in use above slot n, without repetition.
Emitted ==
  /\ \A i \in DOMAIN out : \E k \in DOMAIN agg :
       /\ k > n /\ agg[k].used
       /\ out[i].mono = agg[k].mono /\ out[i].coef = agg[k].coef % Payload
  /\ phase \in {"emit", "done"} =>
       \A k \in DOMAIN agg : k > n /\ agg[k].used => \E i \in DOMAIN out : out[i].mono = agg[k].mono
  /\ \A i, j \in DOMAIN out : out[i].mono = out[j].mono => i = j

IInv ==
  /\ TypeOK
  /\ Shape
  /\ Apart(agg) /\ Len(agg) <= count /\ Len(agg) <= MaxTerms
  /\ Emitted

-----------------------------------------------------------------------------
\* Arithmetic.

LEMMA Euclid ==
  ASSUME NEW a \in Nat, NEW d \in Nat \ {0}
  PROVE  \E q \in Nat, r \in 0 .. d - 1 : a = d * q + r /\ a % d = r
<1>1. a \div d \in Nat /\ a % d \in 0 .. d - 1 /\ a = d * (a \div d) + (a % d)
  OBVIOUS
<1> QED
  BY <1>1

\* A remainder is determined by its being one.
LEMMA OneRemainder ==
  ASSUME NEW d \in Nat \ {0}, NEW q \in Nat, NEW p \in Nat,
         NEW r \in 0 .. d - 1, NEW s \in 0 .. d - 1, d * q + r = d * p + s
  PROVE  r = s
<1>1. CASE q = p
  BY <1>1
<1>2. CASE q > p
  <2>1. d * q = d * p + d * (q - p)
    BY <1>2
  <2>2. d * (q - p) >= d
    BY <1>2
  <2> QED
    BY <2>1, <2>2
<1>3. CASE q < p
  <2>1. d * p = d * q + d * (p - q)
    BY <1>3
  <2>2. d * (p - q) >= d
    BY <1>3
  <2> QED
    BY <2>1, <2>2
<1> QED
  BY <1>1, <1>2, <1>3

LEMMA Remainder ==
  ASSUME NEW d \in Nat \ {0}, NEW q \in Nat, NEW r \in 0 .. d - 1, NEW a \in Nat, a = d * q + r
  PROVE  a % d = r
<1>1. PICK p \in Nat, s \in 0 .. d - 1 : a = d * p + s /\ a % d = s
  BY Euclid
<1> QED
  BY <1>1, OneRemainder

LEMMA SmallMod ==
  ASSUME NEW d \in Nat \ {0}, NEW a \in 0 .. d - 1
  PROVE  a % d = a
OBVIOUS

LEMMA Distributes ==
  ASSUME NEW d \in Nat, NEW a \in Nat, NEW b \in Nat
  PROVE  d * (a + b) = d * a + d * b /\ d * a \in Nat /\ d * (a * b) = (d * a) * b
OBVIOUS

\* Reducing a summand does not change the sum.
LEMMA AddMod ==
  ASSUME NEW d \in Nat \ {0}, NEW x \in Nat, NEW y \in Nat
  PROVE  ((x % d) + y) % d = (x + y) % d
<1>1. PICK q \in Nat, r \in 0 .. d - 1 : x = d * q + r /\ x % d = r
  BY Euclid
<1>2. PICK p \in Nat, s \in 0 .. d - 1 : r + y = d * p + s /\ (r + y) % d = s
  BY Euclid
<1>3. PICK k \in Nat, m \in Nat : k = q + p /\ m = x + y
  OBVIOUS
<1>4. m = d * k + s
  BY <1>1, <1>2, <1>3, Distributes
<1>5. m % d = s
  BY <1>4, Remainder
<1> QED
  BY <1>1, <1>2, <1>3, <1>5

\* What a word keeps of a number, it keeps modulo the payload.
LEMMA WordMod ==
  ASSUME NEW x \in Nat
  PROVE  x % Word \in 0 .. Word - 1 /\ (x % Word) % Payload = x % Payload
<1>1. Payload \in Nat \ {0} /\ Word \in Nat \ {0} /\ Word % Payload = 0
  BY PolyConstants
<1>2. PICK k \in Nat : Word = Payload * k
  BY <1>1, Euclid
<1>3. PICK q \in Nat, r \in 0 .. Word - 1 : x = Word * q + r /\ x % Word = r
  BY <1>1, Euclid
<1>4. PICK p \in Nat, s \in 0 .. Payload - 1 : r = Payload * p + s /\ r % Payload = s
  BY <1>1, <1>3, Euclid
<1>5. k * q \in Nat /\ Word * q = Payload * (k * q)
  BY <1>1, <1>2, Distributes
<1>6. Payload * (k * q) + Payload * p = Payload * ((k * q) + p) /\ (k * q) + p \in Nat
  BY <1>1, <1>5, Distributes
<1>7. Payload * (k * q) \in Nat /\ Payload * p \in Nat
  BY <1>1, <1>5, Distributes
<1>8. x = Payload * ((k * q) + p) + s
  BY <1>3, <1>4, <1>5, <1>6, <1>7
<1>9. x % Payload = s
  BY <1>1, <1>6, <1>8, Remainder
<1> QED
  BY <1>3, <1>4, <1>9

-----------------------------------------------------------------------------
\* Types.

LEMMA Widths ==
  /\ Payload \in Nat \ {0} /\ Word \in Nat \ {0} /\ MaxTerms \in Nat
  /\ Coefs \subseteq 0 .. Word - 1
  /\ 0 \in Coefs
<1>1. Payload \in Nat \ {0} /\ Word \in Nat \ {0} /\ Word % Payload = 0 /\ MaxTerms \in Nat
  BY PolyConstants
<1>2. PICK k \in Nat : Word = Payload * k
  BY <1>1, Euclid
<1>3. k >= 1
  BY <1>1, <1>2
<1>4. Payload <= Word
  BY <1>1, <1>2, <1>3
<1> QED
  BY <1>1, <1>4 DEF Coefs

\* The cut to the payload yields what a cell can hold, and changes nothing that
\* it holds already.
LEMMA CutType ==
  ASSUME NEW a \in Nat
  PROVE  a % Payload \in Coefs
BY Widths, Euclid DEF Coefs

LEMMA StoredMono ==
  ASSUME NEW e \in Monos
  PROVE  Stored(e) = e
<1>1. \A v \in Variables : e[v] % Payload = e[v]
  BY Widths, SmallMod DEF Monos
<1> QED
  BY <1>1 DEF Stored, Monos

LEMMA TermMulType ==
  ASSUME NEW t \in Term, NEW u \in Term
  PROVE  TermMul(t, u) \in Term
<1>1. t.coef \in Nat /\ u.coef \in Nat /\ t.mono \in Monos /\ u.mono \in Monos
  BY DEF Term, Coefs
<1>2. t.coef * u.coef \in Nat
  BY <1>1
<1>3. ((t.coef * u.coef) % Word) % Payload \in Coefs
  BY <1>2, WordMod, CutType
<1>4. \A v \in Variables : t.mono[v] + u.mono[v] \in Nat
  BY <1>1 DEF Monos
<1>5. \A v \in Variables : ((t.mono[v] + u.mono[v]) % Word) % Payload \in 0 .. Payload - 1
  BY <1>4, WordMod, CutType DEF Coefs
<1>6. Stored([v \in Variables |-> (t.mono[v] + u.mono[v]) % Word]) \in Monos
  BY <1>5 DEF Stored, Monos
<1> QED
  BY <1>3, <1>6 DEF TermMul, Term

LEMMA TermDerivType ==
  ASSUME NEW t \in Term, NEW v \in Variables, t.mono[v] > 0
  PROVE  TermDeriv(t, v) \in Term
<1>1. t.coef \in Nat /\ t.mono \in Monos /\ t.mono[v] \in 0 .. Payload - 1
  BY DEF Term, Coefs, Monos
<1>2. t.coef * t.mono[v] \in Nat
  BY <1>1
<1>3. ((t.coef * t.mono[v]) % Word) % Payload \in Coefs
  BY <1>2, WordMod, CutType
<1>4. [t.mono EXCEPT ![v] = @ - 1] \in Monos
  BY <1>1, Widths DEF Monos
<1> QED
  BY <1>3, <1>4 DEF TermDeriv, Term

LEMMA PlusType ==
  ASSUME NEW s \in Slot, NEW c \in Coefs
  PROVE  /\ Plus(s, c) \in Slot
         /\ Plus(s, c).mono = s.mono
         /\ Plus(s, c).coef = (s.coef + c) % Word
         /\ Plus(s, c).used <=> s.used /\ (s.coef + c) % Word # 0
<1>1. s.coef + c \in Nat
  BY Widths DEF Slot, Coefs
<1>2. (s.coef + c) % Word \in 0 .. Word - 1
  BY <1>1, WordMod
<1> QED
  BY <1>2 DEF Plus, Slot

-----------------------------------------------------------------------------
\* The polynomial that a table denotes.

LEMMA SlotAt ==
  ASSUME NEW t \in Seq(Slot), NEW k \in DOMAIN t
  PROVE  /\ t[k] \in Slot /\ t[k].mono \in Monos
         /\ t[k].coef \in Nat /\ t[k].coef \in 0 .. Word - 1
<1>1. t[k] \in Slot
  OBVIOUS
<1> QED
  BY <1>1, Widths DEF Slot

LEMMA SumAt ==
  ASSUME NEW t, Apart(t), NEW m \in Monos, NEW k \in DOMAIN t, t[k].used, t[k].mono = m
  PROVE  SumOf(t)[m] = t[k].coef % Payload
<1>1. \A i \in DOMAIN t : t[i].used /\ t[i].mono = m => i = k
  BY DEF Apart
<1> DEFINE j == CHOOSE i \in DOMAIN t : t[i].used /\ t[i].mono = m
<1>2. j \in DOMAIN t /\ t[j].used /\ t[j].mono = m
  OBVIOUS
<1>3. j = k
  BY <1>1, <1>2
<1> QED
  BY <1>3 DEF SumOf

LEMMA SumNone ==
  ASSUME NEW t, NEW m \in Monos, ~\E k \in DOMAIN t : t[k].used /\ t[k].mono = m
  PROVE  SumOf(t)[m] = 0
BY DEF SumOf

LEMMA SumIsMap ==
  ASSUME NEW t, NEW u, NEW e \in Monos, NEW v,
         SumOf(u)[e] = v, \A m \in Monos : m # e => SumOf(u)[m] = SumOf(t)[m]
  PROVE  SumOf(u) = [SumOf(t) EXCEPT ![e] = v]
<1>1. SumOf(u) = [m \in Monos |-> SumOf(u)[m]] /\ SumOf(t) = [m \in Monos |-> SumOf(t)[m]]
  BY DEF SumOf
<1> QED
  BY <1>1

\* The tables t and u have the same slots for monomial m.
LEMMA SumSame ==
  ASSUME NEW t, NEW u, Apart(t), Apart(u), NEW m \in Monos,
         \A k \in DOMAIN t : t[k].mono = m => k \in DOMAIN u /\ u[k] = t[k],
         \A k \in DOMAIN u : u[k].mono = m => k \in DOMAIN t /\ u[k] = t[k]
  PROVE  SumOf(u)[m] = SumOf(t)[m]
<1>1. CASE \E k \in DOMAIN t : t[k].used /\ t[k].mono = m
  <2>1. PICK k \in DOMAIN t : t[k].used /\ t[k].mono = m
    BY <1>1
  <2>2. k \in DOMAIN u /\ u[k].used /\ u[k].mono = m /\ u[k].coef = t[k].coef
    BY <2>1
  <2>3. SumOf(t)[m] = t[k].coef % Payload
    BY <2>1, SumAt
  <2>4. SumOf(u)[m] = u[k].coef % Payload
    BY <2>2, SumAt
  <2> QED
    BY <2>2, <2>3, <2>4
<1>2. CASE ~\E k \in DOMAIN t : t[k].used /\ t[k].mono = m
  <2>1. ~\E k \in DOMAIN u : u[k].used /\ u[k].mono = m
    BY <1>2
  <2>2. SumOf(u)[m] = 0
    BY <2>1, SumNone
  <2> QED
    BY <1>2, <2>2, SumNone
<1> QED
  BY <1>1, <1>2

\* A coefficient is added to slot i, which is in use; s is the slot after that.
LEMMA PlusSum ==
  ASSUME NEW t \in Seq(Slot), Apart(t), NEW i \in DOMAIN t, t[i].used, NEW c \in Coefs,
         NEW u, NEW s, s = Plus(t[i], c), DOMAIN u = DOMAIN t,
         \A k \in DOMAIN t : u[k] = IF k = i THEN s ELSE t[k]
  PROVE  Apart(u) /\ SumOf(u) = [SumOf(t) EXCEPT ![t[i].mono] = (@ + c) % Payload]
<1> DEFINE e == t[i].mono
<1>1. /\ s \in Slot /\ s.mono = e /\ s.coef = (t[i].coef + c) % Word
      /\ s.used <=> (t[i].coef + c) % Word # 0
  BY PlusType, SlotAt
<1>2. e \in Monos /\ t[i].coef \in Nat /\ c \in Nat
  BY SlotAt DEF Coefs
<1>3. t[i].mono = e
  OBVIOUS
<1> HIDE DEF e
<1>4. \A k \in DOMAIN t : u[k].mono = t[k].mono /\ (u[k].used => t[k].used)
  BY <1>1, <1>3
<1>5. Apart(u)
  BY <1>1, <1>4 DEF Apart
<1>6. SumOf(t)[e] = t[i].coef % Payload
  BY <1>2, <1>3, SumAt
<1>7. ((t[i].coef % Payload) + c) % Payload = s.coef % Payload
  <2>1. PICK a \in Nat : a = t[i].coef + c
    BY <1>2
  <2>2. ((t[i].coef % Payload) + c) % Payload = a % Payload
    BY <1>2, <2>1, Widths, AddMod
  <2> QED
    BY <1>1, <2>1, <2>2, WordMod
<1>8. SumOf(u)[e] = s.coef % Payload
  <2>1. CASE s.used
    <3>1. u[i].used /\ u[i].mono = e /\ u[i].coef = s.coef /\ i \in DOMAIN u
      BY <1>1, <2>1
    <3> QED
      BY <1>2, <1>5, <3>1, SumAt
  <2>2. CASE ~s.used
    <3>1. ~\E k \in DOMAIN u : u[k].used /\ u[k].mono = e
      BY <1>3, <1>4, <2>2 DEF Apart
    <3>2. SumOf(u)[e] = 0
      BY <1>2, <3>1, SumNone
    <3>3. s.coef % Payload = 0
      BY <1>1, <2>2, Widths
    <3> QED
      BY <3>2, <3>3
  <2> QED
    BY <2>1, <2>2
<1>9. \A m \in Monos : m # e => SumOf(u)[m] = SumOf(t)[m]
  <2> SUFFICES ASSUME NEW m \in Monos, m # e
               PROVE  SumOf(u)[m] = SumOf(t)[m]
    OBVIOUS
  <2>1. \A k \in DOMAIN t : t[k].mono = m => u[k] = t[k]
    BY <1>3
  <2>2. \A k \in DOMAIN u : u[k].mono = m => u[k] = t[k]
    BY <1>1
  <2> QED
    BY <1>5, <2>1, <2>2, SumSame
<1>10. PICK v : v = s.coef % Payload /\ SumOf(u)[e] = v
  BY <1>8
<1>11. SumOf(u) = [SumOf(t) EXCEPT ![e] = v]
  <2>1. SumOf(u) = [m \in Monos |-> SumOf(u)[m]] /\ SumOf(t) = [m \in Monos |-> SumOf(t)[m]]
    BY DEF SumOf
  <2> QED
    BY <1>2, <1>9, <1>10, <2>1
<1>12. v = (SumOf(t)[e] + c) % Payload
  BY <1>6, <1>7, <1>10
<1> QED
  BY <1>5, <1>11, <1>12 DEF e

\* A monomial that is in no slot in use gets slot l, which is s.
LEMMA NewSum ==
  ASSUME NEW t, Apart(t), NEW c \in Coefs, c # 0, NEW e \in Monos,
         ~\E k \in DOMAIN t : t[k].used /\ t[k].mono = e,
         NEW u, NEW l \in DOMAIN u, l \notin DOMAIN t, DOMAIN u = DOMAIN t \cup {l},
         u[l].used, u[l].coef = c, u[l].mono = e, \A k \in DOMAIN t : u[k] = t[k]
  PROVE  Apart(u) /\ SumOf(u) = [SumOf(t) EXCEPT ![e] = (@ + c) % Payload]
<1>1. Apart(u)
  BY DEF Apart
<1>2. SumOf(t)[e] = 0
  BY SumNone
<1>3. SumOf(u)[e] = c % Payload
  BY <1>1, SumAt
<1>4. c % Payload = (SumOf(t)[e] + c) % Payload
  BY <1>2 DEF Coefs
<1>5. \A m \in Monos : m # e => SumOf(u)[m] = SumOf(t)[m]
  <2> SUFFICES ASSUME NEW m \in Monos, m # e
               PROVE  SumOf(u)[m] = SumOf(t)[m]
    OBVIOUS
  <2>1. \A k \in DOMAIN t : t[k].mono = m => k \in DOMAIN u /\ u[k] = t[k]
    OBVIOUS
  <2>2. \A k \in DOMAIN u : u[k].mono = m => k \in DOMAIN t /\ u[k] = t[k]
    OBVIOUS
  <2> QED
    BY <1>1, <2>1, <2>2, SumSame
<1>6. SumOf(u) = [SumOf(t) EXCEPT ![e] = c % Payload]
  BY <1>3, <1>5, SumIsMap
<1> QED
  BY <1>1, <1>4, <1>6

\* A zero is added by leaving the polynomial alone.
LEMMA ZeroSum ==
  ASSUME NEW t \in Seq(Slot), Apart(t), NEW e \in Monos
  PROVE  SumOf(t) = [SumOf(t) EXCEPT ![e] = (@ + 0) % Payload]
<1>1. SumOf(t)[e] \in Coefs
  <2>1. CASE \E k \in DOMAIN t : t[k].used /\ t[k].mono = e
    <3>1. PICK k \in DOMAIN t : t[k].used /\ t[k].mono = e
      BY <2>1
    <3>2. SumOf(t)[e] = t[k].coef % Payload /\ t[k].coef \in Nat
      BY <3>1, SumAt, SlotAt
    <3> QED
      BY <3>2, CutType
  <2>2. CASE ~\E k \in DOMAIN t : t[k].used /\ t[k].mono = e
    BY <2>2, SumNone, Widths
  <2> QED
    BY <2>1, <2>2
<1>2. (SumOf(t)[e] + 0) % Payload = SumOf(t)[e]
  BY <1>1, Widths, SmallMod DEF Coefs
<1>3. SumOf(t) = [m \in Monos |-> SumOf(t)[m]]
  BY DEF SumOf
<1> QED
  BY <1>2, <1>3

-----------------------------------------------------------------------------
\* The invariant.

LEMMA InvInit ==
  ASSUME Init
  PROVE  IInv
<1>1. p1 \in Seq(Term) /\ p2 \in Seq(Term)
  BY PolyConstants DEF Init
<1>2. TypeOK
  BY <1>1 DEF Init, TypeOK
<1>3. Shape /\ Apart(agg) /\ Len(agg) <= count /\ Len(agg) <= MaxTerms /\ Emitted
  BY Widths DEF Init, Shape, Apart, Emitted
<1> QED
  BY <1>2, <1>3 DEF IInv

LEMMA TermAt ==
  ASSUME NEW s \in Seq(Term), s # << >>
  PROVE  /\ Head(s) \in Term /\ Tail(s) \in Seq(Term)
         /\ Head(s).coef \in Coefs /\ Head(s).mono \in Monos
         /\ Head(s).mono \in [Variables -> 0 .. Payload - 1]
<1>1. Head(s) \in Term /\ Tail(s) \in Seq(Term)
  OBVIOUS
<1> QED
  BY <1>1 DEF Term, Monos

LEMMA BuildInv ==
  ASSUME IInv, PolyAdd \/ PolyMul \/ PolyDeriv
  PROVE  IInv'
<1>1. phase = "build" /\ UNCHANGED <<agg, count, n, out, call>>
  BY DEF PolyAdd, PolyMul, PolyDeriv
<1>2. phase' \in {"build", "scan"}
  BY DEF PolyAdd, PolyMul, PolyDeriv, Built
<1>3. TypeOK
  BY DEF IInv
<1>4. ra' \in Seq(Term) /\ rb' \in Seq(Term) /\ todo' \in Seq(Term)
  <2>1. CASE PolyAdd
    BY <1>3, <2>1 DEF PolyAdd, TypeOK
  <2>2. CASE PolyMul
    <3>1. CASE ra # << >> /\ rb # << >> /\ todo' = <<TermMul(Head(ra), Head(rb))>> \o todo
               /\ rb' = Tail(rb) /\ UNCHANGED <<phase, ra>>
      <4>1. TermMul(Head(ra), Head(rb)) \in Term
        BY <1>3, <3>1, TermAt, TermMulType DEF TypeOK
      <4> QED
        BY <1>3, <3>1, <4>1, TermAt DEF TypeOK
    <3>2. CASE ra # << >> /\ ra' = Tail(ra) /\ rb' = p2 /\ UNCHANGED <<phase, todo>>
      BY <1>3, <3>2, TermAt DEF TypeOK
    <3> QED
      BY <1>3, <2>2, <3>1, <3>2 DEF PolyMul, Built, TypeOK
  <2>3. CASE PolyDeriv
    <3>1. CASE ra # << >>
      <4>1. Head(ra).mono[var] > 0 => TermDeriv(Head(ra), var) \in Term
        BY <1>3, <3>1, TermAt, TermDerivType DEF TypeOK
      <4>2. ra' = Tail(ra) /\ rb' = rb
        BY <2>3, <3>1 DEF PolyDeriv, Built
      <4>3. CASE Head(ra).mono[var] > 0
        <5>1. todo' = <<TermDeriv(Head(ra), var)>> \o todo
          BY <2>3, <3>1, <4>3 DEF PolyDeriv
        <5> QED
          BY <1>3, <3>1, <4>1, <4>2, <4>3, <5>1, TermAt DEF TypeOK
      <4>4. CASE ~(Head(ra).mono[var] > 0)
        <5>1. todo' = todo
          BY <2>3, <3>1, <4>4 DEF PolyDeriv
        <5> QED
          BY <1>3, <3>1, <4>2, <5>1, TermAt DEF TypeOK
      <4> QED
        BY <4>3, <4>4
    <3> QED
      BY <1>3, <2>3, <3>1 DEF PolyDeriv, Built, TypeOK
  <2> QED
    BY <2>1, <2>2, <2>3
<1>5. TypeOK'
  BY <1>1, <1>2, <1>3, <1>4 DEF TypeOK, call
<1>6. Shape' /\ Emitted'
  BY <1>1, <1>2 DEF IInv, Shape, Emitted
<1> QED
  BY <1>1, <1>5, <1>6 DEF IInv, Apart

\* A term is taken; what becomes of the table is the caller's.
LEMMA TakeInv ==
  ASSUME IInv, Scanning, Take, agg' \in Seq(Slot), Apart(agg'),
         Len(agg) <= Len(agg'), Len(agg') <= Len(agg) + 1, Len(agg') <= MaxTerms
  PROVE  IInv'
<1>1. TypeOK /\ Shape
  BY DEF IInv
<1>2. phase' = "scan" /\ phase = "scan" /\ todo # << >> /\ todo' = Tail(todo) /\ count' = count + 1
      /\ UNCHANGED <<ra, rb, n, out, call>>
  BY DEF Scanning, Take
<1>3. TypeOK'
  BY <1>1, <1>2, TermAt DEF TypeOK, call
<1>4. out' = << >> /\ n' = 0
  BY <1>1, <1>2 DEF Shape
<1>5. Shape' /\ Emitted'
  BY <1>2, <1>4 DEF Shape, Emitted
<1>6. Len(agg') <= count'
  BY <1>1, <1>2 DEF IInv, TypeOK
<1> QED
  BY <1>3, <1>5, <1>6 DEF IInv, Apart

\* What an addition to the table is, to its invariant and to its meaning.
LEMMA AddToSlotStep ==
  ASSUME IInv, AddToSlot
  PROVE  /\ agg' \in Seq(Slot) /\ Apart(agg') /\ Len(agg') = Len(agg)
         /\ SumOf(agg') = [SumOf(agg) EXCEPT
                             ![Head(todo).mono] = (@ + Head(todo).coef) % Payload]
<1>1. agg \in Seq(Slot) /\ Apart(agg) /\ Head(todo).coef \in Coefs
  BY TermAt DEF IInv, TypeOK, AddToSlot, Scanning
<1>2. PICK i \in DOMAIN agg : /\ Holds(i, Head(todo).mono)
                              /\ agg' = [agg EXCEPT ![i] = Plus(@, Head(todo).coef)]
  BY DEF AddToSlot
<1>3. agg[i].used /\ agg[i].mono = Head(todo).mono
  BY <1>2 DEF Holds
<1> DEFINE s == Plus(agg[i], Head(todo).coef)
<1>4. s \in Slot
  BY <1>1, SlotAt, PlusType
<1>5. agg' \in Seq(Slot) /\ Len(agg') = Len(agg) /\ DOMAIN agg' = DOMAIN agg
  BY <1>1, <1>2, <1>4
<1>6. \A k \in DOMAIN agg : agg'[k] = IF k = i THEN s ELSE agg[k]
  BY <1>2
<1> HIDE DEF s
<1>7. s = Plus(agg[i], Head(todo).coef)
  BY DEF s
<1> QED
  BY <1>1, <1>3, <1>5, <1>6, <1>7, PlusSum

LEMMA NewSlotStep ==
  ASSUME IInv, NewSlot
  PROVE  /\ agg' \in Seq(Slot) /\ Apart(agg') /\ Len(agg') = Len(agg) + 1
         /\ SumOf(agg') = [SumOf(agg) EXCEPT
                             ![Head(todo).mono] = (@ + Head(todo).coef) % Payload]
<1> DEFINE c == Head(todo).coef
           e == Head(todo).mono
           l == Len(agg) + 1
<1>1. agg \in Seq(Slot) /\ Apart(agg) /\ c \in Coefs /\ e \in Monos /\ c # 0
  BY TermAt DEF IInv, TypeOK, NewSlot, Scanning
<1>2. ~\E k \in DOMAIN agg : agg[k].used /\ agg[k].mono = e
  BY DEF NewSlot, Found, Holds
<1>3. agg' = Append(agg, [used |-> TRUE, coef |-> c, mono |-> e])
  BY DEF NewSlot
<1> HIDE DEF c, e
<1>4. [used |-> TRUE, coef |-> c, mono |-> e] \in Slot
  BY <1>1, Widths DEF Slot
<1>5. agg' \in Seq(Slot) /\ Len(agg') = l
  BY <1>1, <1>3, <1>4
<1>6. /\ l \in DOMAIN agg' /\ l \notin DOMAIN agg /\ DOMAIN agg' = DOMAIN agg \cup {l}
      /\ agg'[l].used /\ agg'[l].coef = c /\ agg'[l].mono = e
      /\ \A k \in DOMAIN agg : agg'[k] = agg[k]
  BY <1>1, <1>3
<1> HIDE DEF l
<1>7. Apart(agg') /\ SumOf(agg') = [SumOf(agg) EXCEPT ![e] = (@ + c) % Payload]
  BY <1>1, <1>2, <1>6, NewSum
<1> QED
  BY <1>5, <1>7 DEF c, e, l

LEMMA ScanInv ==
  ASSUME IInv, SkipZero \/ AddToSlot \/ NewSlot \/ Drop
  PROVE  IInv'
<1>1. agg \in Seq(Slot) /\ Apart(agg) /\ Len(agg) <= MaxTerms
  BY DEF IInv, TypeOK
<1>2. Scanning /\ Take
  BY DEF SkipZero, AddToSlot, NewSlot, Drop
<1>3. CASE SkipZero \/ Drop
  <2>1. agg' = agg
    BY <1>3 DEF SkipZero, Drop
  <2> QED
    BY <1>1, <1>2, <2>1, TakeInv
<1>4. CASE AddToSlot
  BY <1>1, <1>2, <1>4, AddToSlotStep, TakeInv
<1>5. CASE NewSlot
  <2>1. Len(agg) + 1 <= MaxTerms
    BY <1>1, <1>5, Widths DEF NewSlot
  <2> QED
    BY <1>1, <1>2, <1>5, <2>1, NewSlotStep, TakeInv
<1> QED
  BY <1>3, <1>4, <1>5

LEMMA ScannedInv ==
  ASSUME IInv, Scanned
  PROVE  IInv'
<1>1. TypeOK'
  BY DEF IInv, TypeOK, Scanned, call
<1>2. Shape'
  BY DEF IInv, Shape, Scanned
<1>3. Emitted'
  <2>1. out' = << >> /\ agg' = agg /\ n' = Len(agg) /\ agg \in Seq(Slot)
    BY DEF IInv, TypeOK, Shape, Scanned
  <2>2. \A k \in DOMAIN agg' : ~(k > n')
    BY <2>1
  <2> QED
    BY <2>1, <2>2 DEF Emitted
<1> QED
  BY <1>1, <1>2, <1>3 DEF IInv, Apart, Scanned

LEMMA ReturnInv ==
  ASSUME IInv, Return
  PROVE  IInv'
BY DEF IInv, TypeOK, Shape, Emitted, Apart, Return, call

LEMMA EmitInv ==
  ASSUME IInv, Emit
  PROVE  IInv'
<1>1. TypeOK /\ Shape /\ Apart(agg) /\ Emitted
  BY DEF IInv
<1>2. /\ phase = "emit" /\ phase' = "emit" /\ n > 0 /\ n' = n - 1
      /\ UNCHANGED <<ra, rb, todo, agg, count, call>>
      /\ n \in DOMAIN agg /\ n \in Nat
  BY <1>1 DEF Emit, TypeOK
<1> DEFINE s == agg[n]
           o == [coef |-> s.coef % Payload, mono |-> Stored(s.mono)]
<1>3. s \in Slot /\ s.coef \in Nat /\ s.mono \in Monos
  BY <1>1, <1>2, SlotAt DEF TypeOK
<1>4. o.coef = s.coef % Payload /\ o.mono = s.mono /\ o \in Term
  BY <1>3, StoredMono, CutType DEF Term
<1>5. out' = IF s.used THEN <<o>> \o out ELSE out
  BY <1>1, <1>2 DEF Emit, Apart
<1>6. s = agg[n]
  OBVIOUS
<1> HIDE DEF s, o
<1>7. out \in Seq(Term) /\ out' \in Seq(Term)
  BY <1>1, <1>4, <1>5 DEF TypeOK
<1>8. TypeOK'
  BY <1>1, <1>2, <1>7 DEF TypeOK, call
<1>9. Shape'
  BY <1>1, <1>2 DEF Shape
<1>10. Emitted'
  <2>1. CASE ~s.used
    <3>1. out' = out /\ agg' = agg
      BY <1>2, <1>5, <2>1
    <3>2. \A k \in DOMAIN agg : agg[k].used => (k > n - 1 <=> k > n)
      BY <1>1, <1>2, <1>6, <2>1 DEF TypeOK
    <3> QED
      BY <1>1, <1>2, <3>1, <3>2 DEF Emitted
  <2>2. CASE s.used
    <3>1. /\ 1 \in DOMAIN out' /\ out'[1] = o
          /\ \A i \in DOMAIN out : i + 1 \in DOMAIN out' /\ out'[i + 1] = out[i]
          /\ \A i \in DOMAIN out' : i = 1 \/ (i - 1 \in DOMAIN out /\ out'[i] = out[i - 1])
      BY <1>5, <1>7, <2>2
    <3>2. \A i \in DOMAIN out : \E k \in DOMAIN agg :
            k > n /\ agg[k].used /\ out[i].mono = agg[k].mono /\ out[i].coef = agg[k].coef % Payload
      BY <1>1 DEF Emitted
    <3>3. \A i \in DOMAIN out : out[i].mono # s.mono
      <4>1. \A k \in DOMAIN agg : k > n /\ agg[k].used => agg[k].mono # s.mono
        BY <1>1, <1>2, <1>6, <2>2 DEF Apart
      <4> QED
        BY <3>2, <4>1
    <3>4. \A i \in DOMAIN out' : \E k \in DOMAIN agg' :
            /\ k > n' /\ agg'[k].used
            /\ out'[i].mono = agg'[k].mono /\ out'[i].coef = agg'[k].coef % Payload
      <4> SUFFICES ASSUME NEW i \in DOMAIN out'
                   PROVE  \E k \in DOMAIN agg :
                            /\ k > n - 1 /\ agg[k].used
                            /\ out'[i].mono = agg[k].mono /\ out'[i].coef = agg[k].coef % Payload
        BY <1>2
      <4>1. CASE i = 1
        BY <1>2, <1>4, <1>6, <2>2, <3>1, <4>1
      <4>2. CASE i # 1
        <5>1. i - 1 \in DOMAIN out /\ out'[i] = out[i - 1]
          BY <3>1, <4>2
        <5>2. PICK k \in DOMAIN agg :
                /\ k > n /\ agg[k].used
                /\ out'[i].mono = agg[k].mono /\ out'[i].coef = agg[k].coef % Payload
          BY <3>2, <5>1
        <5>3. k > n - 1
          BY <1>1, <1>2, <5>2 DEF TypeOK
        <5> QED
          BY <5>2, <5>3
      <4> QED
        BY <4>1, <4>2
    <3>5. \A k \in DOMAIN agg' : k > n' /\ agg'[k].used =>
            \E i \in DOMAIN out' : out'[i].mono = agg'[k].mono
      <4> SUFFICES ASSUME NEW k \in DOMAIN agg, k > n - 1, agg[k].used
                   PROVE  \E i \in DOMAIN out' : out'[i].mono = agg[k].mono
        BY <1>2
      <4>1. CASE k = n
        BY <1>4, <1>6, <3>1, <4>1
      <4>2. CASE k # n
        <5>1. k > n
          BY <1>1, <1>2, <4>2 DEF TypeOK
        <5>2. PICK i \in DOMAIN out : out[i].mono = agg[k].mono
          BY <1>1, <1>2, <5>1 DEF Emitted
        <5> QED
          BY <3>1, <5>2
      <4> QED
        BY <4>1, <4>2
    <3>6. \A i, j \in DOMAIN out' : out'[i].mono = out'[j].mono => i = j
      <4> SUFFICES ASSUME NEW i \in DOMAIN out', NEW j \in DOMAIN out',
                          out'[i].mono = out'[j].mono
                   PROVE  i = j
        OBVIOUS
      <4>1. CASE i = 1 \/ j = 1
        BY <1>4, <3>1, <3>3, <4>1
      <4>2. CASE i # 1 /\ j # 1
        <5>1. i - 1 \in DOMAIN out /\ j - 1 \in DOMAIN out /\ out[i - 1].mono = out[j - 1].mono
          BY <3>1, <4>2
        <5>2. i - 1 = j - 1
          BY <1>1, <5>1 DEF Emitted
        <5> QED
          BY <1>7, <5>2
      <4> QED
        BY <4>1, <4>2
    <3> QED
      BY <3>4, <3>5, <3>6 DEF Emitted
  <2> QED
    BY <2>1, <2>2
<1> QED
  BY <1>1, <1>2, <1>8, <1>9, <1>10 DEF IInv, Apart

LEMMA InvStep ==
  ASSUME IInv, [Next]_vars
  PROVE  IInv'
<1>1. CASE UNCHANGED vars
  BY <1>1 DEF IInv, TypeOK, Shape, Apart, Emitted, vars
<1> QED
  BY <1>1, BuildInv, ScanInv, ScannedInv, EmitInv, ReturnInv DEF Next

LEMMA Invariant == Spec => []IInv
<1>1. Init => IInv
  BY InvInit
<1>2. IInv /\ [Next]_vars => IInv'
  BY InvStep
<1> QED
  BY <1>1, <1>2, PTL DEF Spec

\* Every variable keeps its type: no coefficient or exponent is ever stored that
\* does not fit into 14 bits, none computed that does not fit into a word
\* (pair-machine.c:359-451).
THEOREM TypeCorrect == Spec => []TypeOK
<1>1. IInv => TypeOK
  BY DEF IInv
<1> QED
  BY <1>1, Invariant, PTL

\* No monomial is ever in two slots in use, or twice in what is returned,
\* however many terms there are and however they cancel (pair-machine.c:376-400).
THEOREM SlotsAlwaysApart == Spec => []SlotsApart
<1>1. IInv => SlotsApart
  BY DEF IInv, SlotsApart, Apart, Emitted
<1> QED
  BY <1>1, Invariant, PTL

-----------------------------------------------------------------------------
\* The refinement.

\* When the last slot has been emitted, the list denotes what the table does.
LEMMA ResultIsSum ==
  ASSUME IInv, phase \in {"emit", "done"}, n = 0
  PROVE  CoefsOf(out) = SumOf(agg)
<1>1. agg \in Seq(Slot) /\ Apart(agg) /\ Emitted
  BY DEF IInv, TypeOK
<1>2. \A i \in DOMAIN out : \E k \in DOMAIN agg :
        agg[k].used /\ out[i].mono = agg[k].mono /\ out[i].coef = agg[k].coef % Payload
  BY <1>1 DEF Emitted
<1>3. \A k \in DOMAIN agg : agg[k].used => \E i \in DOMAIN out : out[i].mono = agg[k].mono
  BY <1>1 DEF Emitted
<1>4. ASSUME NEW m \in Monos
      PROVE  CoefsOf(out)[m] = SumOf(agg)[m]
  <2>1. CASE \E i \in DOMAIN out : out[i].mono = m
    <3> DEFINE j == CHOOSE i \in DOMAIN out : out[i].mono = m
    <3>1. j \in DOMAIN out /\ out[j].mono = m
      BY <2>1
    <3>2. CoefsOf(out)[m] = out[j].coef
      BY <2>1 DEF CoefsOf
    <3> HIDE DEF j
    <3>3. PICK k \in DOMAIN agg : agg[k].used /\ m = agg[k].mono /\ out[j].coef = agg[k].coef % Payload
      BY <1>2, <3>1
    <3>4. SumOf(agg)[m] = agg[k].coef % Payload
      BY <1>1, <3>3, SumAt
    <3> QED
      BY <3>2, <3>3, <3>4
  <2>2. CASE ~\E i \in DOMAIN out : out[i].mono = m
    <3>1. ~\E k \in DOMAIN agg : agg[k].used /\ agg[k].mono = m
      BY <1>3, <2>2
    <3>2. SumOf(agg)[m] = 0
      BY <3>1, SumNone
    <3> QED
      BY <2>2, <3>2 DEF CoefsOf
  <2> QED
    BY <2>1, <2>2
<1>5. CoefsOf(out) = [m \in Monos |-> CoefsOf(out)[m]] /\ SumOf(agg) = [m \in Monos |-> SumOf(agg)[m]]
  BY DEF CoefsOf, SumOf
<1> QED
  BY <1>4, <1>5

LEMMA SumInit ==
  ASSUME Init
  PROVE  Sum!Init
<1>1. phase = "build" /\ agg = << >> /\ todo = << >> /\ count = 0
  BY DEF Init
<1>2. \A m \in Monos : SumOf(agg)[m] = 0
  BY <1>1, SumNone
<1>3. SumOf(agg) = [m \in Monos |-> 0]
  BY <1>2 DEF SumOf
<1> QED
  BY <1>1, <1>3 DEF Sum!Init

LEMMA SumStep ==
  ASSUME IInv, IInv', [Next]_vars
  PROVE  [Sum!Build \/ Sum!Add \/ Sum!Lose \/ Sum!Return]_Sum!vars
<1>1. CASE UNCHANGED vars
  BY <1>1 DEF vars, Sum!vars, SumOf, CoefsOf
<1>2. CASE PolyAdd \/ PolyMul \/ PolyDeriv
  <2>1. phase = "build" /\ phase' \in {"build", "scan"} /\ UNCHANGED <<agg, count>>
    BY <1>2 DEF PolyAdd, PolyMul, PolyDeriv, Built
  <2>2. todo' \in Seq([coef : 0 .. Payload - 1, mono : Monos])
    BY DEF IInv, TypeOK, Term, Coefs
  <2> QED
    BY <2>1, <2>2 DEF Sum!Build, SumOf
<1>3. ASSUME Scanning, Take
      PROVE  phase = "scan" /\ phase' = "scan" /\ Sum!Take
  BY <1>3 DEF Scanning, Take, Sum!Take
<1>4. CASE SkipZero
  <2>1. Scanning /\ Take /\ agg' = agg /\ Head(todo).coef = 0 /\ Head(todo).mono \in Monos
    BY <1>4, TermAt DEF SkipZero, Scanning, IInv, TypeOK
  <2>2. SumOf(agg') = [SumOf(agg) EXCEPT
                         ![Head(todo).mono] = (@ + Head(todo).coef) % Payload]
    BY <2>1, ZeroSum DEF IInv, TypeOK
  <2> QED
    BY <1>3, <2>1, <2>2 DEF Sum!Add
<1>5. CASE AddToSlot \/ NewSlot
  <2>1. Scanning /\ Take
    BY <1>5 DEF AddToSlot, NewSlot
  <2>2. SumOf(agg') = [SumOf(agg) EXCEPT
                         ![Head(todo).mono] = (@ + Head(todo).coef) % Payload]
    BY <1>5, AddToSlotStep, NewSlotStep
  <2> QED
    BY <1>3, <2>1, <2>2 DEF Sum!Add
<1>6. CASE Drop
  <2>1. Scanning /\ Take /\ agg' = agg /\ Len(agg) >= MaxTerms
    BY <1>6 DEF Drop
  <2>2. count >= MaxTerms
    BY <2>1, Widths DEF IInv, TypeOK
  <2> QED
    BY <1>3, <2>1, <2>2 DEF Sum!Lose
<1>7. CASE Scanned \/ Emit
  BY <1>7 DEF Scanned, Emit, Sum!vars
<1>8. CASE Return
  <2>1. phase = "emit" /\ n = 0 /\ phase' = "done" /\ todo = << >>
        /\ UNCHANGED <<todo, agg, count, out>>
    BY <1>8 DEF Return, IInv, Shape
  <2>2. CoefsOf(out) = SumOf(agg)
    BY <2>1, ResultIsSum
  <2> QED
    BY <2>1, <2>2 DEF Sum!Return
<1> QED
  BY <1>1, <1>2, <1>4, <1>5, <1>6, <1>7, <1>8 DEF Next

\* normalize_terms returns the sum of its terms modulo the payload, for operands
\* of any length, and loses none of the first MaxTerms, although it computes in
\* words and gives a slot up when the word is zero (pair-machine.c:359-401).
THEOREM NormalizeImplementsSum == Spec => ImplementsSum
<1>1. Init => Sum!Init
  BY SumInit
<1>2. IInv /\ IInv' /\ [Next]_vars => [Sum!Build \/ Sum!Add \/ Sum!Lose \/ Sum!Return]_Sum!vars
  BY SumStep
<1> QED
  BY <1>1, <1>2, Invariant, PTL DEF Spec, ImplementsSum, Sum!Spec
-----------------------------------------------------------------------------
\* Loops and sums.

\* Induction up to n; S is the set of numbers for which the claim holds.
LEMMA UpTo ==
  ASSUME NEW n0 \in Nat, NEW S, 0 \in S, \A i \in 1 .. n0 : i - 1 \in S => i \in S
  PROVE  \A i \in 0 .. n0 : i \in S
<1> SUFFICES ASSUME NEW k \in 0 .. n0, k \notin S
             PROVE  FALSE
  OBVIOUS
<1> DEFINE B == {i \in Nat : i <= n0 /\ i \notin S}
<1>1. k \in B
  OBVIOUS
<1>2. PICK m \in B : \A y \in B : ~(<<y, m>> \in OpToRel(<, Nat))
  BY <1>1, NatLessThanWellFounded, WFMin
<1>3. m \in 1 .. n0 /\ m \notin S
  OBVIOUS
<1>4. m - 1 \notin S
  BY <1>3
<1>5. m - 1 \in B /\ m - 1 < m
  BY <1>3, <1>4
<1>6. <<m - 1, m>> \in OpToRel(<, Nat)
  BY <1>5 DEF OpToRel
<1> QED
  BY <1>2, <1>5, <1>6

\* f has the values of the loop before the first turn, after it, after the
\* second...
Trace(f, k, b, step) ==
  f \in [0 .. k -> Nat] /\ f[0] = b /\ \A i \in 1 .. k : f[i] = step[i][f[i - 1]]

LEMMA LoopOfTrace ==
  ASSUME NEW k \in Nat, NEW b \in Nat, NEW step, NEW f, Trace(f, k, b, step)
  PROVE  Loop(k, b, step) = f[k] /\ f[k] \in Nat
<1> DEFINE P(r) == r = [i \in 0 .. k |-> IF i = 0 THEN b ELSE step[i][r[i - 1]]]
<1>1. f \in [0 .. k -> Nat] /\ f[0] = b /\ \A i \in 1 .. k : f[i] = step[i][f[i - 1]]
  BY DEF Trace
<1>2. P(f)
  <2> DEFINE g == [i \in 0 .. k |-> IF i = 0 THEN b ELSE step[i][f[i - 1]]]
  <2>1. \A i \in 0 .. k : g[i] = f[i]
    BY <1>1
  <2>2. f = [i \in 0 .. k |-> f[i]]
    BY <1>1
  <2> QED
    BY <2>1, <2>2
<1>3. PICK r : r = CHOOSE q : P(q)
  OBVIOUS
<1>4. P(r)
  BY <1>2, <1>3
<1>5. Loop(k, b, step) = r[k]
  BY <1>3 DEF Loop
<1>6. \A i \in 0 .. k : r[i] = IF i = 0 THEN b ELSE step[i][r[i - 1]]
  BY <1>4
<1> DEFINE S == {i \in 0 .. k : r[i] = f[i]}
<1>7. \A i \in 0 .. k : i \in S
  <2>1. 0 \in S
    BY <1>1, <1>6
  <2>2. ASSUME NEW i \in 1 .. k, i - 1 \in S
        PROVE  i \in S
    BY <1>1, <1>6, <2>2
  <2> HIDE DEF S
  <2> QED
    BY <2>1, <2>2, UpTo
<1> QED
  BY <1>1, <1>5, <1>7

LEMMA LoopHasTrace ==
  ASSUME NEW k \in Nat, NEW b \in Nat, NEW step,
         \A i \in 1 .. k, a \in Nat : step[i][a] \in Nat
  PROVE  \E f : Trace(f, k, b, step)
<1> DEFINE S == {j \in 0 .. k : \E f : Trace(f, j, b, step)}
<1>1. 0 \in S
  <2>1. Trace([i \in 0 .. 0 |-> b], 0, b, step)
    BY DEF Trace
  <2> QED
    BY <2>1
<1>2. ASSUME NEW j \in 1 .. k, j - 1 \in S
      PROVE  j \in S
  <2>1. PICK f : Trace(f, j - 1, b, step)
    BY <1>2
  <2> DEFINE g == [i \in 0 .. j |-> IF i = j THEN step[j][f[j - 1]] ELSE f[i]]
  <2>2. Trace(g, j, b, step)
    BY <2>1 DEF Trace
  <2> QED
    BY <2>2
<1>3. k \in S
  <2> HIDE DEF S
  <2>1. \A i \in 0 .. k : i \in S
    BY <1>1, <1>2, UpTo
  <2> QED
    BY <2>1
<1>4. \A j \in S : \E f : Trace(f, j, b, step)
  OBVIOUS
<1> QED
  BY <1>3, <1>4

\* f has the sums of w over the first members of p.
Partial(f, w, p) ==
  f \in [0 .. Len(p) -> Nat] /\ f[0] = 0 /\ \A i \in DOMAIN p : f[i] = f[i - 1] + w[p[i]]

LEMMA SumOfPartial ==
  ASSUME NEW X, NEW w, NEW p \in Seq(X), NEW f, Partial(f, w, p)
  PROVE  SumOver(w, p) = f[Len(p)] /\ f[Len(p)] \in Nat
<1> DEFINE step == [i \in DOMAIN p |-> [r \in Nat |-> r + w[p[i]]]]
<1>1. Len(p) \in Nat /\ DOMAIN p = 1 .. Len(p)
  OBVIOUS
<1>2. \A i \in DOMAIN p, r \in Nat : step[i][r] = r + w[p[i]]
  OBVIOUS
<1>3. SumOver(w, p) = Loop(Len(p), 0, step)
  BY DEF SumOver
<1> HIDE DEF step
<1>4. Trace(f, Len(p), 0, step)
  BY <1>1, <1>2 DEF Partial, Trace
<1> QED
  BY <1>1, <1>3, <1>4, LoopOfTrace

LEMMA HasPartial ==
  ASSUME NEW X, NEW w \in [X -> Nat], NEW p \in Seq(X)
  PROVE  \E f : Partial(f, w, p)
<1> DEFINE step == [i \in DOMAIN p |-> [r \in Nat |-> r + w[p[i]]]]
<1>1. Len(p) \in Nat /\ DOMAIN p = 1 .. Len(p) /\ (\A i \in 1 .. Len(p) : w[p[i]] \in Nat)
  BY ElementOfSeq
<1>2. \A i \in DOMAIN p, r \in Nat : step[i][r] = r + w[p[i]]
  OBVIOUS
<1> HIDE DEF step
<1>3. ASSUME NEW i \in 1 .. Len(p), NEW r \in Nat
      PROVE  step[i][r] \in Nat
  <2>1. step[i][r] = r + w[p[i]] /\ w[p[i]] \in Nat
    BY <1>1, <1>2
  <2> QED
    BY <2>1
<1>4. PICK f : Trace(f, Len(p), 0, step)
  BY <1>1, <1>3, LoopHasTrace
<1>5. f \in [0 .. Len(p) -> Nat] /\ f[0] = 0 /\ \A i \in 1 .. Len(p) : f[i] = step[i][f[i - 1]]
  BY <1>4 DEF Trace
<1>6. ASSUME NEW i \in 1 .. Len(p)
      PROVE  f[i - 1] \in Nat
  <2>1. i - 1 \in 0 .. Len(p)
    BY <1>1
  <2> QED
    BY <1>5, <2>1
<1>7. ASSUME NEW i \in DOMAIN p
      PROVE  f[i] = f[i - 1] + w[p[i]]
  <2>1. f[i] = step[i][f[i - 1]] /\ f[i - 1] \in Nat
    BY <1>1, <1>5, <1>6
  <2> QED
    BY <1>2, <2>1
<1>8. Partial(f, w, p)
  BY <1>5, <1>7 DEF Partial
<1> QED
  BY <1>8

LEMMA SumType ==
  ASSUME NEW X, NEW w \in [X -> Nat], NEW p \in Seq(X)
  PROVE  SumOver(w, p) \in Nat
BY HasPartial, SumOfPartial

LEMMA SumEmpty ==
  ASSUME NEW w
  PROVE  SumOver(w, << >>) = 0
<1> DEFINE f == [i \in 0 .. 0 |-> 0]
<1>1. PICK e : e = << >>
  OBVIOUS
<1>2. e \in Seq({}) /\ Len(e) = 0 /\ DOMAIN e = {}
  BY <1>1
<1>3. f \in [0 .. 0 -> Nat] /\ f[0] = 0
  OBVIOUS
<1> HIDE DEF f
<1>4. Partial(f, w, e)
  BY <1>2, <1>3 DEF Partial
<1>5. SumOver(w, e) = f[Len(e)]
  BY <1>2, <1>4, SumOfPartial
<1> QED
  BY <1>1, <1>2, <1>3, <1>5

LEMMA SumConcat ==
  ASSUME NEW X, NEW w \in [X -> Nat], NEW p \in Seq(X), NEW q \in Seq(X)
  PROVE  SumOver(w, p \o q) = SumOver(w, p) + SumOver(w, q)
<1>1. PICK f : Partial(f, w, p)
  BY HasPartial
<1>2. PICK g : Partial(g, w, q)
  BY HasPartial
<1>3. PICK a \in Nat, b \in Nat :
        a = Len(p) /\ b = Len(q) /\ DOMAIN p = 1 .. a /\ DOMAIN q = 1 .. b
  OBVIOUS
<1>4. PICK pq : pq = p \o q
  OBVIOUS
<1>5. /\ pq \in Seq(X) /\ Len(pq) = a + b /\ DOMAIN pq = 1 .. a + b
      /\ \A i \in 1 .. a + b : pq[i] = IF i <= a THEN p[i] ELSE q[i - a]
  BY <1>3, <1>4
<1> DEFINE h == [i \in 0 .. a + b |-> IF i <= a THEN f[i] ELSE f[a] + g[i - a]]
<1>6. /\ f \in [0 .. a -> Nat] /\ f[0] = 0 /\ \A i \in 1 .. a : f[i] = f[i - 1] + w[p[i]]
      /\ g \in [0 .. b -> Nat] /\ g[0] = 0 /\ \A i \in 1 .. b : g[i] = g[i - 1] + w[q[i]]
  BY <1>1, <1>2, <1>3 DEF Partial
<1>7. h \in [0 .. a + b -> Nat] /\ h[0] = 0 /\ h[a + b] = f[a] + g[b]
      /\ (\A i \in 0 .. a + b : h[i] = IF i <= a THEN f[i] ELSE f[a] + g[i - a])
  BY <1>6
<1>a. h[a] = f[a] + g[0]
  BY <1>6
<1> HIDE DEF h
<1>8. \A i \in 1 .. a + b : h[i] = h[i - 1] + w[pq[i]]
  <2> SUFFICES ASSUME NEW i \in 1 .. a + b
               PROVE  h[i] = h[i - 1] + w[pq[i]]
    OBVIOUS
  <2>1. CASE i <= a
    <3>1. h[i] = f[i] /\ h[i - 1] = f[i - 1] /\ pq[i] = p[i] /\ i \in 1 .. a
      BY <1>5, <1>7, <2>1
    <3> QED
      BY <1>6, <3>1
  <2>2. CASE i > a
    <3>1. i - a \in 1 .. b /\ i - a - 1 \in 0 .. b /\ pq[i] = q[i - a]
      BY <1>5, <2>2
    <3>2. h[i] = f[a] + g[i - a] /\ h[i - 1] = f[a] + g[i - a - 1]
      <4>1. h[i] = f[a] + g[i - a]
        BY <1>7, <2>2
      <4>2. CASE i - 1 = a
        <5>1. i - a - 1 = 0 /\ h[i - 1] = h[a] /\ g[i - a - 1] = g[0]
          BY <4>2
        <5>2. h[a] = f[a] + g[0]
          BY <1>a
        <5> QED
          BY <4>1, <5>1, <5>2
      <4>3. CASE i - 1 > a
        <5>1. i - 1 \in 0 .. a + b /\ ~(i - 1 <= a) /\ (i - 1) - a = i - a - 1
          BY <4>3
        <5>2. h[i - 1] = f[a] + g[(i - 1) - a]
          BY <1>7, <5>1
        <5> QED
          BY <4>1, <5>1, <5>2
      <4> QED
        BY <2>2, <4>2, <4>3
    <3>3. PICK k : k = i - a
      OBVIOUS
    <3>4. k \in 1 .. b /\ k - 1 \in 0 .. b /\ pq[i] = q[k] /\ h[i] = f[a] + g[k] /\ h[i - 1] = f[a] + g[k - 1]
      BY <3>1, <3>2, <3>3
    <3>5. f[a] \in Nat /\ g[k - 1] \in Nat
      <4>1. a \in 0 .. a /\ f \in [0 .. a -> Nat] /\ g \in [0 .. b -> Nat]
        BY <1>6
      <4> QED
        BY <3>4, <4>1
    <3>6. w[q[k]] \in Nat /\ g[k] = g[k - 1] + w[q[k]]
      <4>1. q[k] \in X
        BY <1>3, <3>4, ElementOfSeq
      <4> QED
        BY <1>6, <3>4, <4>1
    <3>7. \A x, y, z \in Nat : x + (y + z) = (x + y) + z
      OBVIOUS
    <3>8. h[i - 1] + w[pq[i]] = (f[a] + g[k - 1]) + w[q[k]]
      BY <3>4
    <3>9. h[i] = f[a] + (g[k - 1] + w[q[k]])
      BY <3>4, <3>6
    <3> QED
      BY <3>5, <3>6, <3>7, <3>8, <3>9
  <2> QED
    BY <2>1, <2>2
<1>9. Partial(h, w, pq)
  BY <1>5, <1>7, <1>8 DEF Partial
<1>10. SumOver(w, pq) = h[a + b]
  BY <1>5, <1>9, SumOfPartial
<1>11. SumOver(w, p) = f[a] /\ SumOver(w, q) = g[b]
  BY <1>1, <1>2, <1>3, SumOfPartial
<1> QED
  BY <1>4, <1>7, <1>10, <1>11

LEMMA SumOne ==
  ASSUME NEW X, NEW w \in [X -> Nat], NEW t \in X
  PROVE  SumOver(w, <<t>>) = w[t]
<1> DEFINE f == [i \in 0 .. 1 |-> IF i = 0 THEN 0 ELSE w[t]]
<1>1. <<t>> \in Seq(X) /\ Len(<<t>>) = 1 /\ f[1] = w[t]
  OBVIOUS
<1>2. Partial(f, w, <<t>>)
  BY DEF Partial
<1> HIDE DEF f
<1> QED
  BY <1>1, <1>2, SumOfPartial

LEMMA SumCons ==
  ASSUME NEW X, NEW w \in [X -> Nat], NEW t \in X, NEW p \in Seq(X)
  PROVE  SumOver(w, <<t>> \o p) = w[t] + SumOver(w, p)
<1>1. SumOver(w, <<t>>) = w[t] /\ <<t>> \in Seq(X)
  BY SumOne
<1> QED
  BY <1>1, SumConcat

LEMMA SumHead ==
  ASSUME NEW X, NEW w \in [X -> Nat], NEW p \in Seq(X), p # << >>
  PROVE  SumOver(w, p) = w[Head(p)] + SumOver(w, Tail(p))
<1>1. p = <<Head(p)>> \o Tail(p) /\ Head(p) \in X /\ Tail(p) \in Seq(X)
  OBVIOUS
<1> QED
  BY <1>1, SumCons

\* p and q differ in their i-th members only.
SameBut(p, q, i) ==
  Len(q) = Len(p) /\ \A k \in DOMAIN p : k # i => q[k] = p[k]

LEMMA SumChange ==
  ASSUME NEW w \in [Slot -> Nat], NEW p \in Seq(Slot), NEW q \in Seq(Slot),
         NEW i \in DOMAIN p, SameBut(p, q, i)
  PROVE  SumOver(w, q) + w[p[i]] = SumOver(w, p) + w[q[i]]
<1>0. Len(q) = Len(p) /\ \A k \in DOMAIN p : k # i => q[k] = p[k]
  BY DEF SameBut
<1> USE <1>0
<1>1. PICK f : Partial(f, w, p)
  BY HasPartial
<1>2. PICK g : Partial(g, w, q)
  BY HasPartial
<1>3. PICK a \in Nat : a = Len(p) /\ DOMAIN p = 1 .. a /\ DOMAIN q = 1 .. a
  OBVIOUS
<1>4. /\ f \in [0 .. a -> Nat] /\ f[0] = 0 /\ \A k \in 1 .. a : f[k] = f[k - 1] + w[p[k]]
      /\ g \in [0 .. a -> Nat] /\ g[0] = 0 /\ \A k \in 1 .. a : g[k] = g[k - 1] + w[q[k]]
  BY <1>1, <1>2, <1>3 DEF Partial
<1>5. \A k \in 1 .. a : w[p[k]] \in Nat /\ w[q[k]] \in Nat
  BY <1>3, ElementOfSeq
<1>6. PICK u \in Nat, v \in Nat : u = w[p[i]] /\ v = w[q[i]]
  BY <1>3, <1>5
<1> DEFINE S == {k \in 0 .. a : IF k < i THEN g[k] = f[k] ELSE g[k] + u = f[k] + v}
<1>s. \A k \in 0 .. a : k \in S <=> IF k < i THEN g[k] = f[k] ELSE g[k] + u = f[k] + v
  OBVIOUS
<1> HIDE DEF S
<1>7. 0 \in S
  BY <1>3, <1>4, <1>s
<1>8. ASSUME NEW k \in 1 .. a, k - 1 \in S
      PROVE  k \in S
  <2>1. PICK c \in Nat, d \in Nat : c = f[k - 1] /\ d = g[k - 1]
    <3>1. k - 1 \in 0 .. a
      OBVIOUS
    <3> QED
      BY <1>4, <3>1
  <2>2. f[k] = c + w[p[k]] /\ g[k] = d + w[q[k]]
    BY <1>4, <2>1
  <2>3. IF k - 1 < i THEN d = c ELSE d + u = c + v
    <3>1. k - 1 \in 0 .. a
      OBVIOUS
    <3> QED
      BY <1>8, <1>s, <2>1, <3>1
  <2>4. CASE k < i
    <3>1. q[k] = p[k] /\ d = c
      <4>1. k - 1 < i /\ k # i /\ k \in DOMAIN p
        BY <1>3, <2>4
      <4> QED
        BY <2>3, <4>1
    <3> QED
      BY <1>s, <2>2, <2>4, <3>1
  <2>5. CASE k = i
    <3>1. d = c
      BY <1>3, <2>3, <2>5
    <3>2. f[k] = c + u /\ g[k] = c + v
      BY <1>6, <2>2, <2>5, <3>1
    <3>3. g[k] + u = f[k] + v
      BY <3>2
    <3> QED
      BY <1>s, <2>5, <3>3
  <2>6. CASE k > i
    <3>1. q[k] = p[k] /\ d + u = c + v
      <4>1. ~(k - 1 < i) /\ k # i
        BY <1>3, <2>6
      <4> QED
        BY <1>3, <2>3, <4>1
    <3>2. PICK e \in Nat : e = w[p[k]]
      BY <1>5
    <3>3. f[k] = c + e /\ g[k] = d + e
      BY <2>2, <3>1, <3>2
    <3>4. g[k] + u = f[k] + v
      <4>1. \A y, z, t \in Nat : (y + z) + t = (y + t) + z
        OBVIOUS
      <4>2. (d + e) + u = (d + u) + e
        BY <4>1
      <4>3. (c + e) + v = (c + v) + e
        BY <4>1
      <4> QED
        BY <3>1, <3>3, <4>2, <4>3
    <3>5. ~(k < i)
      BY <1>3, <2>6
    <3> QED
      BY <1>s, <3>4, <3>5
  <2> QED
    BY <1>3, <2>4, <2>5, <2>6
<1>9. a \in S
  <2>1. \A k \in 0 .. a : k \in S
    BY <1>7, <1>8, UpTo
  <2> QED
    BY <2>1
<1>10. g[a] + u = f[a] + v
  BY <1>3, <1>9, <1>s
<1>11. SumOver(w, p) = f[a] /\ SumOver(w, q) = g[a]
  BY <1>1, <1>2, <1>3, SumOfPartial
<1> QED
  BY <1>6, <1>10, <1>11

-----------------------------------------------------------------------------
\* Equal modulo the payload.

Same(a, b) == a % Payload = b % Payload

LEMMA SameSum ==
  ASSUME NEW a \in Nat, NEW b \in Nat, NEW c \in Nat, NEW d \in Nat, Same(a, b), Same(c, d)
  PROVE  Same(a + c, b + d)
<1>1. Payload \in Nat \ {0} /\ a % Payload = b % Payload /\ c % Payload = d % Payload
  BY Widths DEF Same
<1>2. ((a % Payload) + c) % Payload = (a + c) % Payload
  BY <1>1, AddMod
<1>3. ((b % Payload) + c) % Payload = (b + c) % Payload
  BY <1>1, AddMod
<1>4. ((c % Payload) + b) % Payload = (c + b) % Payload
  BY <1>1, AddMod
<1>5. ((d % Payload) + b) % Payload = (d + b) % Payload
  BY <1>1, AddMod
<1>6. b + c = c + b /\ b + d = d + b
  OBVIOUS
<1> QED
  BY <1>1, <1>2, <1>3, <1>4, <1>5, <1>6 DEF Same

LEMMA TimesMod ==
  ASSUME NEW k \in Nat, NEW a \in Nat
  PROVE  (k * a) % Payload = (k * (a % Payload)) % Payload
<1>1. Payload \in Nat \ {0}
  BY Widths
<1>2. PICK q \in Nat, r \in 0 .. Payload - 1 : a = Payload * q + r /\ a % Payload = r
  BY <1>1, Euclid
<1>3. PICK m \in Nat : m = k * r
  BY <1>1
<1>4. PICK p \in Nat, s \in 0 .. Payload - 1 : m = Payload * p + s /\ m % Payload = s
  BY <1>1, Euclid
<1>5. k * a = Payload * (k * q) + k * r
  BY <1>1, <1>2
<1>6. PICK h \in Nat : h = k * q
  OBVIOUS
<1>7. PICK l \in Nat : l = h + p
  OBVIOUS
<1>8. Payload * l = Payload * h + Payload * p
  BY <1>1, <1>7, Distributes
<1>9. PICK x \in Nat : x = k * a
  OBVIOUS
<1>10. x = Payload * l + s
  BY <1>1, <1>3, <1>4, <1>5, <1>6, <1>8, <1>9, Distributes
<1>11. x % Payload = s
  BY <1>1, <1>10, Remainder
<1> QED
  BY <1>2, <1>3, <1>4, <1>9, <1>11

LEMMA SameTimes ==
  ASSUME NEW k \in Nat, NEW a \in Nat, NEW b \in Nat, Same(a, b)
  PROVE  Same(k * a, k * b)
<1>1. (k * a) % Payload = (k * (a % Payload)) % Payload
  BY TimesMod
<1>2. (k * b) % Payload = (k * (b % Payload)) % Payload
  BY TimesMod
<1>3. a % Payload = b % Payload
  BY DEF Same
<1> QED
  BY <1>1, <1>2, <1>3 DEF Same

LEMMA SameCut ==
  ASSUME NEW a \in Nat
  PROVE  /\ a % Payload \in Nat /\ Same(a % Payload, a)
         /\ a % Word \in Nat /\ Same(a % Word, a)
         /\ (a % Word) % Payload \in Nat /\ Same((a % Word) % Payload, a)
<1>1. Payload \in Nat \ {0} /\ Word \in Nat \ {0}
  BY Widths
<1>2. a % Word \in 0 .. Word - 1 /\ (a % Word) % Payload = a % Payload
  BY WordMod
<1>3. a % Payload \in 0 .. Payload - 1
  BY CutType DEF Coefs
<1>4. (a % Payload) % Payload = a % Payload
  BY <1>1, <1>3, SmallMod
<1> QED
  BY <1>1, <1>2, <1>3, <1>4 DEF Same

-----------------------------------------------------------------------------
\* What a call means.

Worths == [Monos -> Nat]

SlotWorth(V) == [s \in Slot |-> IF s.used THEN s.coef * V[s.mono] ELSE 0]

LEMMA TimesType ==
  ASSUME NEW m \in Monos, NEW e \in Monos
  PROVE  Times(m, e) \in Monos
<1>1. \A v \in Variables : m[v] + e[v] \in Nat
  BY DEF Monos
<1>2. \A v \in Variables : (m[v] + e[v]) % Payload \in 0 .. Payload - 1
  BY <1>1, CutType DEF Coefs
<1> QED
  BY <1>2 DEF Times, Monos

LEMMA LowerType ==
  ASSUME NEW m \in Monos, NEW v \in Variables, m[v] # 0
  PROVE  Lower(m, v) \in Monos
<1>1. m[v] \in 0 .. Payload - 1 /\ Payload \in Nat
  BY Widths DEF Monos
<1>2. m[v] - 1 \in 0 .. Payload - 1
  BY <1>1
<1> QED
  BY <1>2 DEF Lower, Monos

LEMMA NatTimes == \A a, b \in Nat : a * b \in Nat
OBVIOUS

LEMMA WorthTypes ==
  ASSUME NEW V \in Worths
  PROVE  /\ Worth(V) \in [Term -> Nat] /\ SlotWorth(V) \in [Slot -> Nat]
         /\ \A t \in Term : WorthTimes(V, t) \in [Term -> Nat]
         /\ \A p \in Seq(Term) : WorthTimesAll(V, p) \in [Term -> Nat]
         /\ \A v \in Variables : WorthDerived(V, v) \in [Term -> Nat]
<1>1. \A m \in Monos : V[m] \in Nat
  BY DEF Worths
<1>2. \A t \in Term : t.coef \in Nat /\ t.mono \in Monos
  BY Widths DEF Term, Coefs
<1>3. Worth(V) \in [Term -> Nat]
  <2>1. \A t \in Term : t.coef * V[t.mono] \in Nat
    BY <1>1, <1>2, NatTimes
  <2> QED
    BY <2>1 DEF Worth
<1>4. SlotWorth(V) \in [Slot -> Nat]
  <2>1. \A s \in Slot : s.coef \in Nat /\ s.mono \in Monos
    BY Widths DEF Slot
  <2>2. \A s \in Slot : s.coef * V[s.mono] \in Nat
    BY <1>1, <2>1, NatTimes
  <2> QED
    BY <2>2 DEF SlotWorth
<1>5. ASSUME NEW t \in Term
      PROVE  WorthTimes(V, t) \in [Term -> Nat]
  <2>1. ASSUME NEW u \in Term
        PROVE  t.coef * u.coef * V[Times(t.mono, u.mono)] \in Nat
    <3>1. Times(t.mono, u.mono) \in Monos
      BY <1>2, TimesType
    <3>2. V[Times(t.mono, u.mono)] \in Nat /\ t.coef * u.coef \in Nat
      BY <1>1, <1>2, <3>1, NatTimes
    <3> QED
      BY <3>2, NatTimes
  <2> QED
    BY <2>1 DEF WorthTimes
<1>6. ASSUME NEW p \in Seq(Term)
      PROVE  WorthTimesAll(V, p) \in [Term -> Nat]
  <2>1. \A t \in Term : SumOver(WorthTimes(V, t), p) \in Nat
    BY <1>5, SumType
  <2> QED
    BY <2>1 DEF WorthTimesAll
<1>7. ASSUME NEW v \in Variables
      PROVE  WorthDerived(V, v) \in [Term -> Nat]
  <2>1. ASSUME NEW t \in Term, t.mono[v] # 0
        PROVE  t.coef * t.mono[v] * V[Lower(t.mono, v)] \in Nat
    <3>1. Lower(t.mono, v) \in Monos /\ t.mono[v] \in Nat
      BY <1>2, <2>1, LowerType DEF Monos
    <3>2. V[Lower(t.mono, v)] \in Nat /\ t.coef * t.mono[v] \in Nat
      BY <1>1, <1>2, <3>1, NatTimes
    <3> QED
      BY <3>2, NatTimes
  <2> QED
    BY <2>1 DEF WorthDerived
<1> QED
  BY <1>3, <1>4, <1>5, <1>6, <1>7

\* The product of two terms is worth what it should, and so is a derivative.
LEMMA TermMulWorth ==
  ASSUME NEW V \in Worths, NEW t \in Term, NEW u \in Term
  PROVE  Same(Worth(V)[TermMul(t, u)], WorthTimes(V, t)[u])
<1>1. t.coef \in Nat /\ u.coef \in Nat /\ t.mono \in Monos /\ u.mono \in Monos
  BY Widths DEF Term, Coefs
<1>2. PICK c \in Nat : c = t.coef * u.coef
  BY <1>1
<1>3. TermMul(t, u).mono = Times(t.mono, u.mono)
  <2>1. \A v \in Variables : t.mono[v] + u.mono[v] \in Nat
    BY <1>1 DEF Monos
  <2>2. \A v \in Variables :
          ((t.mono[v] + u.mono[v]) % Word) % Payload = (t.mono[v] + u.mono[v]) % Payload
    BY <2>1, WordMod
  <2> QED
    BY <2>2 DEF TermMul, Stored, Times
<1>4. PICK z \in Nat : z = V[Times(t.mono, u.mono)]
  BY <1>1, TimesType DEF Worths
<1>5. TermMul(t, u).coef = (c % Word) % Payload
  BY <1>2 DEF TermMul
<1>6. PICK d \in Nat : d = (c % Word) % Payload /\ Same(d, c)
  BY SameCut
<1>7. Worth(V)[TermMul(t, u)] = d * z
  BY <1>3, <1>4, <1>5, <1>6, TermMulType DEF Worth
<1>8. WorthTimes(V, t)[u] = c * z
  BY <1>2, <1>4 DEF WorthTimes
<1>9. Same(z * d, z * c)
  BY <1>6, SameTimes
<1>10. z * d = d * z /\ z * c = c * z
  OBVIOUS
<1> QED
  BY <1>7, <1>8, <1>9, <1>10

LEMMA TermDerivWorth ==
  ASSUME NEW V \in Worths, NEW t \in Term, NEW v \in Variables, t.mono[v] > 0
  PROVE  Same(Worth(V)[TermDeriv(t, v)], WorthDerived(V, v)[t])
<1>1. t.coef \in Nat /\ t.mono \in Monos /\ t.mono[v] \in Nat /\ t.mono[v] # 0
  BY Widths DEF Term, Coefs, Monos
<1>2. PICK c \in Nat : c = t.coef * t.mono[v]
  BY <1>1
<1>3. TermDeriv(t, v).mono = Lower(t.mono, v)
  BY DEF TermDeriv, Lower
<1>4. PICK z \in Nat : z = V[Lower(t.mono, v)]
  BY <1>1, LowerType DEF Worths
<1>5. TermDeriv(t, v).coef = (c % Word) % Payload
  BY <1>2 DEF TermDeriv
<1>6. PICK d \in Nat : d = (c % Word) % Payload /\ Same(d, c)
  BY SameCut
<1>7. Worth(V)[TermDeriv(t, v)] = d * z
  BY <1>3, <1>4, <1>5, <1>6, TermDerivType DEF Worth
<1>8. WorthDerived(V, v)[t] = c * z
  BY <1>1, <1>2, <1>4 DEF WorthDerived
<1>9. Same(z * d, z * c)
  BY <1>6, SameTimes
<1>10. z * d = d * z /\ z * c = c * z
  OBVIOUS
<1> QED
  BY <1>7, <1>8, <1>9, <1>10

LEMMA SameCancel ==
  ASSUME NEW a \in Nat, NEW b \in Nat, NEW c \in Nat, Same(a + c, b + c)
  PROVE  Same(a, b)
<1>1. Payload \in Nat \ {0}
  BY Widths
<1>2. ASSUME NEW e \in Nat
      PROVE  Same(e + Payload * c, e)
  <2>1. PICK q \in Nat, r \in 0 .. Payload - 1 : e = Payload * q + r /\ e % Payload = r
    BY <1>1, Euclid
  <2>2. PICK k \in Nat, y \in Nat, z \in Nat :
          k = q + c /\ y = Payload * q /\ z = Payload * c
    BY <1>1, NatTimes
  <2>3. Payload * k = y + z
    BY <1>1, <2>2, Distributes
  <2>4. PICK m \in Nat : m = e + z
    OBVIOUS
  <2>5. m = Payload * k + r
    BY <2>1, <2>2, <2>3, <2>4
  <2>6. m % Payload = r
    BY <1>1, <2>5, Remainder
  <2> QED
    BY <2>1, <2>2, <2>4, <2>6 DEF Same
<1>3. PICK d \in Nat : d = (Payload - 1) * c
  BY <1>1, NatTimes
<1>4. Payload * c = c + d /\ Payload * c \in Nat
  BY <1>1, <1>3, NatTimes
<1>5. Same((a + c) + d, (b + c) + d)
  <2>1. Same(d, d) /\ a + c \in Nat /\ b + c \in Nat
    BY DEF Same
  <2> QED
    BY <2>1, SameSum
<1>6. (a + c) + d = a + Payload * c /\ (b + c) + d = b + Payload * c
  BY <1>4
<1>7. Same(a + Payload * c, a) /\ Same(b + Payload * c, b)
  BY <1>2
<1> QED
  BY <1>5, <1>6, <1>7 DEF Same

\* What a coefficient adds to a slot.
LEMMA PlusWorth ==
  ASSUME NEW V \in Worths, NEW s \in Slot, s.used, NEW c \in Coefs
  PROVE  Same(SlotWorth(V)[Plus(s, c)], SlotWorth(V)[s] + c * V[s.mono])
<1>1. /\ Plus(s, c) \in Slot /\ Plus(s, c).mono = s.mono
      /\ Plus(s, c).coef = (s.coef + c) % Word
      /\ Plus(s, c).used <=> (s.coef + c) % Word # 0
  BY PlusType
<1>2. PICK a \in Nat, b \in Nat, z \in Nat : a = s.coef /\ b = c /\ z = V[s.mono]
  BY Widths DEF Slot, Coefs, Worths
<1>3. PICK d \in Nat : d = (a + b) % Word /\ Same(d, a + b)
  BY <1>2, SameCut
<1>4. SlotWorth(V)[s] = a * z
  BY <1>2 DEF SlotWorth
<1>5. SlotWorth(V)[Plus(s, c)] = d * z
  <2>1. CASE d = 0
    <3>1. SlotWorth(V)[Plus(s, c)] = 0
      BY <1>1, <1>2, <1>3, <2>1 DEF SlotWorth
    <3> QED
      BY <2>1, <3>1
  <2>2. CASE d # 0
    BY <1>1, <1>2, <1>3, <2>2 DEF SlotWorth
  <2> QED
    BY <2>1, <2>2
<1>6. Same(z * d, z * (a + b))
  <2>1. a + b \in Nat
    OBVIOUS
  <2> QED
    BY <1>3, <2>1, SameTimes
<1>7. z * d = d * z /\ z * (a + b) = a * z + b * z
  OBVIOUS
<1>8. Same(d * z, a * z + b * z)
  BY <1>6, <1>7
<1>9. b * z = c * V[s.mono]
  BY <1>2
<1> QED
  BY <1>4, <1>5, <1>8, <1>9

\* The first of two lists, row by row.
LEMMA FirstRow ==
  ASSUME NEW V \in Worths, NEW p \in Seq(Term), NEW q \in Seq(Term), p # << >>
  PROVE  SumOver(WorthTimes(V, Head(p)), q) + SumOver(WorthTimesAll(V, q), Tail(p))
           = SumOver(WorthTimesAll(V, q), p)
<1>1. WorthTimesAll(V, q) \in [Term -> Nat] /\ Head(p) \in Term
  BY WorthTypes
<1>2. SumOver(WorthTimesAll(V, q), p)
        = WorthTimesAll(V, q)[Head(p)] + SumOver(WorthTimesAll(V, q), Tail(p))
  BY <1>1, SumHead
<1>3. WorthTimesAll(V, q)[Head(p)] = SumOver(WorthTimes(V, Head(p)), q)
  BY <1>1 DEF WorthTimesAll
<1> QED
  BY <1>2, <1>3

-----------------------------------------------------------------------------
\* The value of what a call returns.

\* What the loops that build the list have still to add.
Left(V) ==
  CASE op = "add"   -> ValueMeant(V)
    [] op = "mul"   -> IF ra = << >> THEN 0
                       ELSE SumOver(WorthTimes(V, Head(ra)), rb)
                              + SumOver(WorthTimesAll(V, p2), Tail(ra))
    [] op = "deriv" -> SumOver(WorthDerived(V, var), ra)

\* The slots that have not been emitted.
Table == IF phase = "scan" THEN agg ELSE SubSeq(agg, 1, n)

\* What is worth something, wherever it is, is together worth what is meant.
ValueInv(V) ==
  /\ phase = "build" /\ op = "add" => ra = p1 /\ rb = p2 /\ todo = << >>
  /\ phase = "build" => Same(SumOver(Worth(V), todo) + Left(V), ValueMeant(V))
  /\ phase # "build" /\ count <= MaxTerms =>
       Same(SumOver(SlotWorth(V), Table) + (SumOver(Worth(V), todo) + SumOver(Worth(V), out)),
            ValueMeant(V))

LEMMA ValueTypes ==
  ASSUME NEW V \in Worths, TypeOK
  PROVE  /\ ValueMeant(V) \in Nat /\ Left(V) \in Nat
         /\ SumOver(Worth(V), todo) \in Nat /\ SumOver(Worth(V), out) \in Nat
         /\ SumOver(SlotWorth(V), agg) \in Nat /\ SumOver(SlotWorth(V), Table) \in Nat
         /\ Table \in Seq(Slot)
<1>1. /\ p1 \in Seq(Term) /\ p2 \in Seq(Term) /\ ra \in Seq(Term) /\ rb \in Seq(Term)
      /\ todo \in Seq(Term) /\ out \in Seq(Term) /\ agg \in Seq(Slot) /\ var \in Variables
      /\ op \in {"add", "mul", "deriv"} /\ n \in 0 .. Len(agg)
  BY DEF TypeOK
<1>2. /\ Worth(V) \in [Term -> Nat] /\ SlotWorth(V) \in [Slot -> Nat]
      /\ WorthTimesAll(V, p2) \in [Term -> Nat] /\ WorthDerived(V, var) \in [Term -> Nat]
  BY <1>1, WorthTypes
<1>3. Table \in Seq(Slot)
  <2>1. SubSeq(agg, 1, n) \in Seq(Slot)
    BY <1>1, SubSeqProperties
  <2> QED
    BY <1>1, <2>1 DEF Table
<1>4. /\ SumOver(Worth(V), p1) \in Nat /\ SumOver(Worth(V), p2) \in Nat
      /\ SumOver(WorthTimesAll(V, p2), p1) \in Nat /\ SumOver(WorthDerived(V, var), p1) \in Nat
      /\ SumOver(Worth(V), todo) \in Nat /\ SumOver(Worth(V), out) \in Nat
      /\ SumOver(SlotWorth(V), agg) \in Nat /\ SumOver(SlotWorth(V), Table) \in Nat
      /\ SumOver(WorthDerived(V, var), ra) \in Nat
  BY <1>1, <1>2, <1>3, SumType
<1>5. ValueMeant(V) \in Nat
  BY <1>1, <1>4 DEF ValueMeant
<1>6. Left(V) \in Nat
  <2>1. CASE op = "mul" /\ ra # << >>
    <3>1. Head(ra) \in Term /\ Tail(ra) \in Seq(Term)
      BY <1>1, <2>1, TermAt
    <3>2. WorthTimes(V, Head(ra)) \in [Term -> Nat]
      BY <3>1, WorthTypes
    <3>3. SumOver(WorthTimes(V, Head(ra)), rb) \in Nat
          /\ SumOver(WorthTimesAll(V, p2), Tail(ra)) \in Nat
      BY <1>1, <1>2, <3>1, <3>2, SumType
    <3> QED
      BY <2>1, <3>3 DEF Left
  <2>2. CASE ~(op = "mul" /\ ra # << >>)
    BY <1>1, <1>4, <1>5, <2>2 DEF Left
  <2> QED
    BY <2>1, <2>2
<1> QED
  BY <1>3, <1>4, <1>5, <1>6

LEMMA ValueInit ==
  ASSUME NEW V \in Worths, Init
  PROVE  ValueInv(V)
<1>1. TypeOK
  BY InvInit DEF IInv
<1>2. ra = p1 /\ rb = p2 /\ todo = << >> /\ phase = "build"
  BY DEF Init
<1>3. SumOver(Worth(V), todo) = 0
  BY <1>2, SumEmpty
<1>4. Left(V) = ValueMeant(V)
  <2>1. CASE op = "mul"
    <3>1. CASE p1 = << >>
      <4>1. SumOver(WorthTimesAll(V, p2), p1) = 0
        BY <3>1, SumEmpty
      <4> QED
        BY <1>2, <2>1, <3>1, <4>1 DEF Left, ValueMeant
    <3>2. CASE p1 # << >>
      <4>1. SumOver(WorthTimes(V, Head(p1)), p2) + SumOver(WorthTimesAll(V, p2), Tail(p1))
              = SumOver(WorthTimesAll(V, p2), p1)
        BY <1>1, <3>2, FirstRow DEF TypeOK
      <4> QED
        BY <1>2, <2>1, <3>2, <4>1 DEF Left, ValueMeant
    <3> QED
      BY <3>1, <3>2
  <2>2. CASE op # "mul"
    BY <1>1, <1>2, <2>2 DEF Left, ValueMeant, TypeOK
  <2> QED
    BY <2>1, <2>2
<1>5. SumOver(Worth(V), todo) + Left(V) = ValueMeant(V)
  BY <1>1, <1>3, <1>4, ValueTypes
<1> QED
  BY <1>2, <1>5 DEF ValueInv, Same

LEMMA ValueBuild ==
  ASSUME NEW V \in Worths, IInv, ValueInv(V), PolyAdd \/ PolyMul \/ PolyDeriv
  PROVE  ValueInv(V)'
<1>1. TypeOK /\ TypeOK' /\ agg = << >> /\ out = << >>
  BY BuildInv DEF IInv, Shape, PolyAdd, PolyMul, PolyDeriv
<1>2. phase = "build" /\ UNCHANGED <<agg, count, n, out, op, p1, p2, var>>
  BY DEF PolyAdd, PolyMul, PolyDeriv, call
<1>3. PICK M \in Nat, s \in Nat, l \in Nat :
        M = ValueMeant(V) /\ s = SumOver(Worth(V), todo) /\ l = Left(V)
  BY <1>1, ValueTypes
<1>4. ValueMeant(V)' = M /\ Same(s + l, M)
  BY <1>2, <1>3 DEF ValueMeant, ValueInv
<1>5. PICK td \in Seq(Term) : td = todo'
  BY <1>1 DEF TypeOK
<1>6. PICK s1 \in Nat : s1 = SumOver(Worth(V), td)
  BY WorthTypes, SumType
<1>7. ASSUME phase' = "scan", Same(s1, M)
      PROVE  ValueInv(V)'
  <2>1. Table' = << >> /\ out' = << >>
    BY <1>1, <1>2, <1>7 DEF Table
  <2>2. SumOver(SlotWorth(V), << >>) = 0 /\ SumOver(Worth(V), << >>) = 0
    BY SumEmpty
  <2>3. SumOver(Worth(V), todo') = s1
    BY <1>5, <1>6
  <2>4. 0 + (s1 + 0) = s1
    OBVIOUS
  <2> QED
    BY <1>4, <1>7, <2>1, <2>2, <2>3, <2>4 DEF ValueInv
<1>8. ASSUME phase' = "build", op # "add", NEW l1 \in Nat, Left(V)' = l1, Same(s1 + l1, s + l)
      PROVE  ValueInv(V)'
  <2>1. Same(s1 + l1, M)
    BY <1>4, <1>8 DEF Same
  <2>2. SumOver(Worth(V), todo') = s1
    BY <1>5, <1>6
  <2> QED
    BY <1>2, <1>4, <1>8, <2>1, <2>2 DEF ValueInv
<1>9. CASE PolyAdd
  <2>1. op = "add" /\ phase' = "scan" /\ ra = p1 /\ rb = p2 /\ td = p1 \o p2
    BY <1>2, <1>5, <1>9 DEF PolyAdd, ValueInv
  <2>2. SumOver(Worth(V), p1 \o p2) = SumOver(Worth(V), p1) + SumOver(Worth(V), p2)
    <3>1. Worth(V) \in [Term -> Nat] /\ p1 \in Seq(Term) /\ p2 \in Seq(Term)
      BY <1>1, WorthTypes DEF TypeOK
    <3> QED
      BY <3>1, SumConcat
  <2>3. s1 = M
    BY <1>3, <1>6, <2>1, <2>2 DEF ValueMeant
  <2> QED
    BY <1>7, <2>1, <2>3 DEF Same
<1>10. CASE PolyMul
  <2>1. op = "mul"
    BY <1>10 DEF PolyMul
  <2>2. CASE ra = << >> /\ Built
    <3>1. l = 0 /\ td = todo /\ phase' = "scan"
      BY <1>3, <1>5, <2>1, <2>2 DEF Left, Built
    <3>2. s1 = s + l
      BY <1>3, <1>6, <3>1
    <3> QED
      BY <1>4, <1>7, <3>1, <3>2
  <2>3. CASE ra # << >> /\ rb = << >> /\ ra' = Tail(ra) /\ rb' = p2 /\ UNCHANGED <<phase, todo>>
    <3>1. PICK rest \in Seq(Term) : rest = Tail(ra)
      BY <1>1, <2>3 DEF TypeOK
    <3>2. SumOver(WorthTimes(V, Head(ra)), rb) = 0
      BY <2>3, SumEmpty
    <3>3. PICK l1 \in Nat : l1 = SumOver(WorthTimesAll(V, p2), rest)
      BY <1>1, WorthTypes, SumType DEF TypeOK
    <3>4. l = l1
      BY <1>3, <2>1, <2>3, <3>1, <3>2, <3>3 DEF Left
    <3>5. Left(V)' = l1
      <4>1. CASE rest = << >>
        <5>1. SumOver(WorthTimesAll(V, p2), rest) = 0
          BY <4>1, SumEmpty
        <5> QED
          BY <1>2, <2>1, <2>3, <3>1, <3>3, <4>1, <5>1 DEF Left
      <4>2. CASE rest # << >>
        <5>1. SumOver(WorthTimes(V, Head(rest)), p2) + SumOver(WorthTimesAll(V, p2), Tail(rest)) = l1
          BY <1>1, <3>3, <4>2, FirstRow DEF TypeOK
        <5> QED
          BY <1>2, <2>1, <2>3, <3>1, <4>2, <5>1 DEF Left
      <4> QED
        BY <4>1, <4>2
    <3>6. s1 = s
      BY <1>3, <1>5, <1>6, <2>3
    <3> QED
      BY <1>2, <1>8, <2>1, <2>3, <3>4, <3>5, <3>6 DEF Same
  <2>4. CASE /\ ra # << >> /\ rb # << >>
             /\ todo' = <<TermMul(Head(ra), Head(rb))>> \o todo
             /\ rb' = Tail(rb) /\ UNCHANGED <<phase, ra>>
    <3>1. PICK t \in Term, u \in Term, rest \in Seq(Term), rows \in Seq(Term) :
            t = Head(ra) /\ u = Head(rb) /\ rest = Tail(rb) /\ rows = Tail(ra)
      BY <1>1, <2>4, TermAt DEF TypeOK
    <3>2. PICK x \in Term : x = TermMul(t, u)
      BY TermMulType
    <3>3. Worth(V) \in [Term -> Nat] /\ WorthTimes(V, t) \in [Term -> Nat]
          /\ WorthTimesAll(V, p2) \in [Term -> Nat]
      BY <1>1, WorthTypes DEF TypeOK
    <3>4. PICK a \in Nat, b \in Nat : a = Worth(V)[x] /\ b = WorthTimes(V, t)[u] /\ Same(a, b)
      BY <3>2, <3>3, TermMulWorth
    <3>5. s1 = a + s
      <4>1. td = <<x>> \o todo /\ todo \in Seq(Term)
        BY <1>1, <1>5, <2>4, <3>1, <3>2 DEF TypeOK
      <4>2. SumOver(Worth(V), <<x>> \o todo) = Worth(V)[x] + SumOver(Worth(V), todo)
        BY <3>3, <4>1, SumCons
      <4> QED
        BY <1>3, <1>6, <3>4, <4>1, <4>2
    <3>6. PICK c \in Nat, d \in Nat :
            c = SumOver(WorthTimes(V, t), rest) /\ d = SumOver(WorthTimesAll(V, p2), rows)
      BY <3>3, SumType
    <3>7. l = (b + c) + d
      <4>1. SumOver(WorthTimes(V, t), rb) = b + c
        BY <1>1, <2>4, <3>1, <3>3, <3>4, <3>6, SumHead DEF TypeOK
      <4> QED
        BY <1>3, <2>1, <2>4, <3>1, <3>6, <4>1 DEF Left
    <3>8. Left(V)' = c + d
      BY <1>2, <2>1, <2>4, <3>1, <3>6 DEF Left
    <3>9. PICK l1 \in Nat : l1 = c + d
      OBVIOUS
    <3>10. Same(s1 + l1, s + l)
      <4>1. s1 + l1 = a + (s + l1) /\ s + l = b + (s + l1)
        BY <3>5, <3>7, <3>9
      <4>2. Same(s + l1, s + l1) /\ s + l1 \in Nat
        BY DEF Same
      <4>3. Same(a + (s + l1), b + (s + l1))
        BY <3>4, <4>2, SameSum
      <4> QED
        BY <4>1, <4>3
    <3> QED
      BY <1>2, <1>8, <2>1, <2>4, <3>8, <3>9, <3>10
  <2> QED
    BY <1>10, <2>2, <2>3, <2>4 DEF PolyMul
<1>11. CASE PolyDeriv
  <2>1. op = "deriv" /\ var \in Variables
    BY <1>1, <1>11 DEF PolyDeriv, TypeOK
  <2>2. CASE ra = << >> /\ Built
    <3>1. SumOver(WorthDerived(V, var), << >>) = 0
      BY SumEmpty
    <3>2. l = 0 /\ td = todo /\ phase' = "scan"
      BY <1>3, <1>5, <2>1, <2>2, <3>1 DEF Left, Built
    <3>3. s1 = s + l
      BY <1>3, <1>6, <3>2
    <3> QED
      BY <1>4, <1>7, <3>2, <3>3
  <2>3. CASE /\ ra # << >> /\ ra' = Tail(ra) /\ UNCHANGED <<phase, rb>>
             /\ todo' = IF Head(ra).mono[var] > 0
                        THEN <<TermDeriv(Head(ra), var)>> \o todo ELSE todo
    <3>1. PICK t \in Term, rest \in Seq(Term), v \in Variables :
            t = Head(ra) /\ rest = Tail(ra) /\ v = var
      BY <1>1, <2>1, <2>3, TermAt DEF TypeOK
    <3>2. Worth(V) \in [Term -> Nat] /\ WorthDerived(V, v) \in [Term -> Nat]
      BY WorthTypes
    <3>3. PICK b \in Nat, l1 \in Nat :
            b = WorthDerived(V, v)[t] /\ l1 = SumOver(WorthDerived(V, v), rest)
      BY <3>2, SumType
    <3>4. l = b + l1
      <4>1. SumOver(WorthDerived(V, v), ra) = b + l1
        BY <1>1, <2>3, <3>1, <3>2, <3>3, SumHead DEF TypeOK
      <4> QED
        BY <1>3, <2>1, <3>1, <4>1 DEF Left
    <3>5. Left(V)' = l1
      BY <1>2, <2>1, <2>3, <3>1, <3>3 DEF Left
    <3>6. PICK a \in Nat : s1 = a + s /\ Same(a, b)
      <4>1. CASE t.mono[v] > 0
        <5>1. PICK x \in Term : x = TermDeriv(t, v)
          BY <4>1, TermDerivType
        <5>2. PICK a \in Nat : a = Worth(V)[x] /\ Same(a, b)
          BY <3>2, <3>3, <4>1, <5>1, TermDerivWorth
        <5>3. td = <<x>> \o todo
          BY <1>5, <2>3, <3>1, <4>1, <5>1
        <5>4. s1 = a + s
          BY <1>1, <1>3, <1>6, <3>2, <5>2, <5>3, SumCons DEF TypeOK
        <5> QED
          BY <5>2, <5>4
      <4>2. CASE ~(t.mono[v] > 0)
        <5>1. t.mono[v] = 0
          BY <4>2, Widths DEF Term, Monos
        <5>2. b = 0
          BY <3>3, <5>1 DEF WorthDerived
        <5>3. td = todo
          BY <1>5, <2>3, <3>1, <4>2
        <5>4. s1 = 0 + s
          BY <1>3, <1>6, <5>3
        <5> QED
          BY <5>2, <5>4 DEF Same
      <4> QED
        BY <4>1, <4>2
    <3>7. Same(s1 + l1, s + l)
      <4>1. s1 + l1 = a + (s + l1) /\ s + l = b + (s + l1)
        BY <3>4, <3>6
      <4>2. Same(s + l1, s + l1) /\ s + l1 \in Nat
        BY DEF Same
      <4>3. Same(a + (s + l1), b + (s + l1))
        BY <3>6, <4>2, SameSum
      <4> QED
        BY <4>1, <4>3
    <3> QED
      BY <1>2, <1>8, <2>1, <2>3, <3>5, <3>7
  <2> QED
    BY <1>11, <2>2, <2>3 DEF PolyDeriv
<1> QED
  BY <1>9, <1>10, <1>11

\* The value of the terms still to be summed is what the first of them is worth,
\* and the value of the rest.
LEMMA TakenWorth ==
  ASSUME NEW V \in Worths, TypeOK, Scanning, Take
  PROVE  /\ Head(todo).coef \in Nat /\ V[Head(todo).mono] \in Nat
         /\ SumOver(Worth(V), Tail(todo)) \in Nat /\ Tail(todo) \in Seq(Term)
         /\ SumOver(Worth(V), todo)
              = Head(todo).coef * V[Head(todo).mono] + SumOver(Worth(V), Tail(todo))
<1>1. todo \in Seq(Term) /\ todo # << >> /\ Worth(V) \in [Term -> Nat]
  BY WorthTypes DEF TypeOK, Scanning
<1>2. Head(todo) \in Term /\ Tail(todo) \in Seq(Term) /\ Head(todo).mono \in Monos
      /\ Head(todo).coef \in Coefs
  BY <1>1, TermAt
<1>3. SumOver(Worth(V), todo) = Worth(V)[Head(todo)] + SumOver(Worth(V), Tail(todo))
  BY <1>1, SumHead
<1>4. Worth(V)[Head(todo)] = Head(todo).coef * V[Head(todo).mono]
  BY <1>2 DEF Worth
<1>5. SumOver(Worth(V), Tail(todo)) \in Nat
  BY <1>1, <1>2, SumType
<1>6. Head(todo).coef \in Nat /\ V[Head(todo).mono] \in Nat
  BY <1>2, Widths DEF Coefs, Worths
<1> QED
  BY <1>2, <1>3, <1>4, <1>5, <1>6

LEMMA ValueScan ==
  ASSUME NEW V \in Worths, IInv, ValueInv(V), SkipZero \/ AddToSlot \/ NewSlot \/ Drop
  PROVE  ValueInv(V)'
<1>1. TypeOK /\ TypeOK' /\ out = << >> /\ Len(agg) <= count
  BY ScanInv DEF IInv, Shape, SkipZero, AddToSlot, NewSlot, Drop, Scanning
<1>2. Scanning /\ Take /\ phase = "scan" /\ phase' = "scan" /\ UNCHANGED <<n, out, op, p1, p2, var>>
      /\ todo' = Tail(todo) /\ count' = count + 1 /\ count \in Nat
  BY <1>1 DEF SkipZero, AddToSlot, NewSlot, Drop, Scanning, Take, call, TypeOK
<1>3. PICK M \in Nat, A \in Nat, s \in Nat, o \in Nat :
        /\ M = ValueMeant(V) /\ A = SumOver(SlotWorth(V), agg)
        /\ s = SumOver(Worth(V), todo) /\ o = SumOver(Worth(V), out)
  BY <1>1, ValueTypes
<1>4. PICK c \in Nat, z \in Nat, s1 \in Nat :
        /\ c = Head(todo).coef /\ z = V[Head(todo).mono] /\ s1 = SumOver(Worth(V), Tail(todo))
        /\ s = c * z + s1
  BY <1>1, <1>2, <1>3, TakenWorth
<1>5. PICK ag \in Seq(Slot) : ag = agg'
  BY <1>1 DEF TypeOK
<1>6. PICK A1 \in Nat : A1 = SumOver(SlotWorth(V), ag)
  BY WorthTypes, SumType
<1>7. count <= MaxTerms => Same(A + (s + o), M)
  BY <1>2, <1>3 DEF ValueInv, Table
<1>8. ValueMeant(V)' = M
  BY <1>2, <1>3 DEF ValueMeant
<1>9. ASSUME count' <= MaxTerms => Same(A1 + (s1 + o), A + (s + o))
      PROVE  ValueInv(V)'
  <2>1. count' <= MaxTerms => count <= MaxTerms
    BY <1>2, Widths
  <2>2. count' <= MaxTerms => Same(A1 + (s1 + o), M)
    BY <1>7, <1>9, <2>1 DEF Same
  <2>3. SumOver(SlotWorth(V), Table') = A1 /\ SumOver(Worth(V), todo') = s1
        /\ SumOver(Worth(V), out') = o
    BY <1>2, <1>3, <1>4, <1>5, <1>6 DEF Table
  <2> QED
    BY <1>2, <1>8, <2>2, <2>3 DEF ValueInv
<1>10. CASE SkipZero
  <2>1. c = 0 /\ ag = agg
    BY <1>4, <1>5, <1>10 DEF SkipZero
  <2>2. A1 = A /\ s = s1
    BY <1>3, <1>4, <1>6, <2>1
  <2> QED
    BY <1>9, <2>2 DEF Same
<1>11. CASE AddToSlot
  <2>1. PICK i \in DOMAIN agg : /\ Holds(i, Head(todo).mono)
                                /\ agg' = [agg EXCEPT ![i] = Plus(@, Head(todo).coef)]
    BY <1>11 DEF AddToSlot
  <2>2. PICK old \in Slot : old = agg[i] /\ old.used /\ old.mono = Head(todo).mono
    <3>1. agg \in Seq(Slot)
      BY <1>1 DEF TypeOK
    <3>2. agg[i] \in Slot
      BY <3>1
    <3> QED
      BY <2>1, <3>2 DEF Holds
  <2>3. c \in Coefs /\ z = V[old.mono]
    BY <1>1, <1>2, <1>4, <2>2, TermAt DEF TypeOK, Scanning
  <2>4. PICK new \in Slot : new = Plus(old, c)
    BY <2>3, PlusType
  <2>5. /\ ag \in Seq(Slot) /\ agg \in Seq(Slot) /\ Len(ag) = Len(agg)
        /\ ag[i] = new /\ \A k \in DOMAIN agg : k # i => ag[k] = agg[k]
    <3>1. agg \in Seq(Slot)
      BY <1>1 DEF TypeOK
    <3>2. ag = [agg EXCEPT ![i] = new]
      BY <1>4, <1>5, <2>1, <2>2, <2>4
    <3> QED
      BY <3>1, <3>2
  <2>6. SlotWorth(V) \in [Slot -> Nat]
    BY WorthTypes
  <2>7. PICK x \in Nat, y \in Nat : x = SlotWorth(V)[old] /\ y = SlotWorth(V)[new]
    BY <2>6
  <2>8. A1 + x = A + y
    <3>1. PICK w \in [Slot -> Nat], p \in Seq(Slot) : w = SlotWorth(V) /\ p = agg
      BY <2>5, <2>6
    <3>2. PICK j \in DOMAIN p : j = i
      BY <2>5, <3>1
    <3>3. SameBut(p, ag, j)
      BY <2>5, <3>1, <3>2 DEF SameBut
    <3>4. SumOver(w, ag) + w[p[j]] = SumOver(w, p) + w[ag[j]]
      BY <3>3, SumChange
    <3> QED
      BY <1>3, <1>6, <2>2, <2>5, <2>7, <3>1, <3>2, <3>4
  <2>9. PICK cz \in Nat : cz = c * z
    BY NatTimes
  <2>10. Same(y, x + cz)
    BY <2>2, <2>3, <2>4, <2>7, <2>9, PlusWorth
  <2>11. Same((A1 + (s1 + o)) + x, (A + (s + o)) + x)
    <3>1. PICK e \in Nat : e = A + (s1 + o)
      OBVIOUS
    <3>2. (A1 + (s1 + o)) + x = y + e
      BY <2>8, <3>1
    <3>3. (A + (s + o)) + x = (x + cz) + e
      <4>1. s = cz + s1
        BY <1>4, <2>9
      <4> QED
        BY <3>1, <4>1
    <3>4. Same(e, e) /\ x + cz \in Nat
      BY DEF Same
    <3> QED
      BY <2>10, <3>2, <3>3, <3>4, SameSum
  <2>12. A1 + (s1 + o) \in Nat /\ A + (s + o) \in Nat
    OBVIOUS
  <2>13. Same(A1 + (s1 + o), A + (s + o))
    BY <2>11, <2>12, SameCancel
  <2> QED
    BY <1>9, <2>13
<1>12. CASE NewSlot
  <2>1. PICK new : new = [used |-> TRUE, coef |-> Head(todo).coef, mono |-> Head(todo).mono]
    OBVIOUS
  <2>2. new \in Slot /\ SlotWorth(V) \in [Slot -> Nat]
    <3>1. Head(todo).coef \in Coefs /\ Head(todo).mono \in Monos
      BY <1>1, <1>2, TermAt DEF TypeOK, Scanning
    <3> QED
      BY <2>1, <3>1, Widths, WorthTypes DEF Slot
  <2>3. ag = Append(agg, new) /\ agg \in Seq(Slot)
    BY <1>1, <1>5, <1>12, <2>1 DEF NewSlot, TypeOK
  <2>4. ag = agg \o <<new>> /\ <<new>> \in Seq(Slot)
    BY <2>2, <2>3, AppendProperties
  <2>5. SlotWorth(V)[new] = c * z
    BY <1>4, <2>1, <2>2 DEF SlotWorth
  <2>6. SumOver(SlotWorth(V), <<new>>) = c * z
    BY <2>2, <2>5, SumOne
  <2>7. A1 = A + c * z
    BY <1>3, <1>6, <2>2, <2>3, <2>4, <2>6, SumConcat
  <2>8. PICK cz \in Nat : cz = c * z
    BY NatTimes
  <2>9. A1 + (s1 + o) = A + (s + o)
    BY <1>4, <2>7, <2>8
  <2> QED
    BY <1>9, <2>9 DEF Same
<1>13. CASE Drop
  <2>1. Len(agg) >= MaxTerms
    BY <1>13 DEF Drop
  <2>2. ~(count' <= MaxTerms)
    BY <1>1, <1>2, <2>1, Widths DEF TypeOK
  <2> QED
    BY <1>9, <2>2
<1> QED
  BY <1>10, <1>11, <1>12, <1>13

LEMMA ValueScanned ==
  ASSUME NEW V \in Worths, IInv, ValueInv(V), Scanned
  PROVE  ValueInv(V)'
<1>1. /\ phase = "scan" /\ phase' = "emit" /\ n' = Len(agg)
      /\ UNCHANGED <<ra, rb, todo, agg, count, out, op, p1, p2, var>>
  BY DEF Scanned, call
<1>2. agg \in Seq(Slot)
  BY DEF IInv, TypeOK
<1>3. SubSeq(agg, 1, Len(agg)) = agg
  BY <1>2, SubSeqFull
<1>4. Table' = agg /\ Table = agg
  BY <1>1, <1>3 DEF Table
<1>5. ValueMeant(V)' = ValueMeant(V)
  BY <1>1 DEF ValueMeant
<1> QED
  BY <1>1, <1>4, <1>5 DEF ValueInv

\* What is emitted is worth what the slot was.
LEMMA EmitWorth ==
  ASSUME NEW V \in Worths, NEW s \in Slot, s.used
  PROVE  /\ [coef |-> s.coef % Payload, mono |-> Stored(s.mono)] \in Term
         /\ Same(Worth(V)[[coef |-> s.coef % Payload, mono |-> Stored(s.mono)]], SlotWorth(V)[s])
<1>1. s.coef \in Nat /\ s.mono \in Monos
  BY Widths DEF Slot
<1>2. PICK c \in Nat, z \in Nat : c = s.coef /\ z = V[s.mono]
  BY <1>1 DEF Worths
<1>3. PICK d \in Nat : d = c % Payload /\ Same(d, c) /\ d \in Coefs
  BY SameCut, CutType
<1>4. PICK t \in Term : /\ t = [coef |-> s.coef % Payload, mono |-> Stored(s.mono)]
                        /\ t.coef = d /\ t.mono = s.mono
  <2>1. Stored(s.mono) = s.mono /\ s.coef % Payload = d
    BY <1>1, <1>2, <1>3, StoredMono
  <2>2. [coef |-> d, mono |-> s.mono] \in Term
    BY <1>1, <1>3 DEF Term
  <2> QED
    BY <2>1, <2>2
<1>5. Worth(V)[t] = d * z
  BY <1>2, <1>4 DEF Worth
<1>6. SlotWorth(V)[s] = c * z
  BY <1>2 DEF SlotWorth
<1>7. Same(z * d, z * c)
  BY <1>3, SameTimes
<1>8. z * d = d * z /\ z * c = c * z
  OBVIOUS
<1>9. Same(Worth(V)[t], SlotWorth(V)[s])
  BY <1>5, <1>6, <1>7, <1>8
<1> QED
  BY <1>4, <1>9

LEMMA ValueEmit ==
  ASSUME NEW V \in Worths, IInv, ValueInv(V), Emit
  PROVE  ValueInv(V)'
<1>1. TypeOK /\ TypeOK' /\ todo = << >> /\ Apart(agg)
  BY EmitInv DEF IInv, Shape, Emit
<1>2. /\ phase = "emit" /\ phase' = "emit" /\ n' = n - 1 /\ n \in DOMAIN agg /\ n \in 1 .. Len(agg)
      /\ UNCHANGED <<ra, rb, todo, agg, count, op, p1, p2, var>>
  BY <1>1 DEF Emit, call, TypeOK
<1>3. PICK g \in Seq(Slot), k \in Nat, s \in Slot :
        /\ g = agg /\ k = n /\ k \in 1 .. Len(g) /\ s = g[k]
        /\ s.used => s.coef # 0
  <2>1. agg \in Seq(Slot) /\ n \in Nat /\ (agg[n].used => agg[n].coef # 0)
    BY <1>1, <1>2 DEF TypeOK, Apart
  <2>2. agg[n] \in Slot
    BY <1>2, <2>1
  <2> QED
    BY <1>2, <2>1, <2>2
<1>4. PICK W \in [Slot -> Nat], w \in [Term -> Nat] : W = SlotWorth(V) /\ w = Worth(V)
  BY WorthTypes
<1>5. PICK low \in Seq(Slot) : low = SubSeq(g, 1, k - 1)
  <2>1. SubSeq(g, 1, k - 1) \in Seq(Slot)
    BY <1>3, SubSeqProperties
  <2> QED
    BY <2>1
<1>6. SubSeq(g, 1, k) = low \o <<s>>
  <2>1. 1 \in 1 .. Len(g) /\ k \in 1 .. Len(g)
    BY <1>3
  <2> QED
    BY <1>3, <1>5, <2>1, SubSeqRecursiveSecond
<1>7. Table = low \o <<s>> /\ Table' = low
  BY <1>2, <1>3, <1>5, <1>6 DEF Table
<1>8. PICK A \in Nat, a \in Nat : A = SumOver(W, low) /\ a = W[s]
  BY SumType
<1>9. SumOver(W, low \o <<s>>) = A + a
  <2>1. <<s>> \in Seq(Slot) /\ SumOver(W, <<s>>) = a
    BY <1>8, SumOne
  <2> QED
    BY <1>8, <2>1, SumConcat
<1>10. PICK o \in Seq(Term), o1 \in Seq(Term) : o = out /\ o1 = out'
  BY <1>1 DEF TypeOK
<1>11. PICK M \in Nat, b \in Nat, b1 \in Nat :
         M = ValueMeant(V) /\ b = SumOver(w, o) /\ b1 = SumOver(w, o1)
  BY <1>1, ValueTypes, SumType
<1>12. ValueMeant(V)' = M
  BY <1>2, <1>11 DEF ValueMeant
<1>13. SumOver(w, << >>) = 0
  BY SumEmpty
<1>14. Same(A + b1, (A + a) + b)
  <2>1. CASE s.used
    <3>1. PICK t \in Term : /\ t = [coef |-> s.coef % Payload, mono |-> Stored(s.mono)]
                            /\ Same(w[t], W[s])
      BY <1>4, <2>1, EmitWorth
    <3>2. o1 = <<t>> \o o
      BY <1>2, <1>3, <1>10, <2>1, <3>1 DEF Emit
    <3>3. PICK x \in Nat : x = w[t]
      OBVIOUS
    <3>4. b1 = x + b
      BY <1>11, <3>2, <3>3, SumCons
    <3>5. Same(x, a) /\ Same(A + b, A + b) /\ A + b \in Nat
      BY <1>8, <3>1, <3>3 DEF Same
    <3>6. Same(x + (A + b), a + (A + b))
      BY <3>5, SameSum
    <3>7. x + (A + b) = A + b1 /\ a + (A + b) = (A + a) + b
      BY <3>4
    <3> QED
      BY <3>6, <3>7
  <2>2. CASE ~s.used
    <3>1. o1 = o
      BY <1>2, <1>3, <1>10, <2>2 DEF Emit
    <3>2. a = 0
      BY <1>4, <1>8, <2>2 DEF SlotWorth
    <3>3. A + b1 = (A + a) + b
      BY <1>11, <3>1, <3>2
    <3> QED
      BY <3>3 DEF Same
  <2> QED
    BY <2>1, <2>2
<1>15. count <= MaxTerms => Same((A + a) + (0 + b), M)
  BY <1>1, <1>2, <1>4, <1>7, <1>9, <1>10, <1>11, <1>13 DEF ValueInv
<1>16. A + (0 + b1) = A + b1 /\ (A + a) + (0 + b) = (A + a) + b
  OBVIOUS
<1>17. count <= MaxTerms => Same(A + (0 + b1), M)
  BY <1>14, <1>15, <1>16 DEF Same
<1>18. /\ SumOver(SlotWorth(V), Table') = A /\ SumOver(Worth(V), todo') = 0
       /\ SumOver(Worth(V), out') = b1
  BY <1>1, <1>2, <1>4, <1>7, <1>8, <1>10, <1>11, <1>13
<1> QED
  BY <1>2, <1>12, <1>17, <1>18 DEF ValueInv

LEMMA ValueReturn ==
  ASSUME NEW V \in Worths, IInv, ValueInv(V), Return
  PROVE  ValueInv(V)'
<1>1. phase = "emit" /\ phase' = "done" /\ UNCHANGED <<todo, agg, count, n, out, op, p1, p2, var>>
  BY DEF Return, call
<1>2. Table' = Table /\ ValueMeant(V)' = ValueMeant(V)
  BY <1>1 DEF Table, ValueMeant
<1> QED
  BY <1>1, <1>2 DEF ValueInv

LEMMA ValueStep ==
  ASSUME NEW V \in Worths, IInv, ValueInv(V), [Next]_vars
  PROVE  ValueInv(V)'
<1>1. CASE UNCHANGED vars
  BY <1>1 DEF ValueInv, ValueMeant, Left, Table, vars
<1> QED
  BY <1>1, ValueBuild, ValueScan, ValueScanned, ValueEmit, ValueReturn DEF Next

\* Whatever the monomials are worth, what a call returns is worth what it should.
LEMMA ReturnedWorth ==
  ASSUME NEW V \in Worths, IInv, ValueInv(V), Returned
  PROVE  Same(SumOver(Worth(V), out), ValueMeant(V))
<1>1. phase = "done" /\ count <= MaxTerms /\ n = 0 /\ todo = << >> /\ TypeOK
  BY DEF IInv, Shape, Returned
<1>2. Table = << >>
  <2>1. SubSeq(agg, 1, 0) = << >>
    BY SubSeqEmpty
  <2> QED
    BY <1>1, <2>1 DEF Table
<1>3. SumOver(SlotWorth(V), << >>) = 0 /\ SumOver(Worth(V), << >>) = 0
  BY SumEmpty
<1>4. PICK b \in Nat : b = SumOver(Worth(V), out)
  BY <1>1, ValueTypes
<1>5. Same(0 + (0 + b), ValueMeant(V))
  BY <1>1, <1>2, <1>3, <1>4 DEF ValueInv
<1> QED
  BY <1>4, <1>5

\* For every value of the monomials at once.
Valued == \A V \in Worths : ValueInv(V)

LEMMA ValuedInvariant == Spec => [](IInv /\ Valued)
<1>1. Init => Valued
  BY ValueInit DEF Valued
<1>2. IInv /\ Valued /\ [Next]_vars => Valued'
  BY ValueStep DEF Valued
<1> QED
  BY <1>1, <1>2, Invariant, PTL DEF Spec

\* Whatever the monomials are worth, the polynomial that a call returns is worth
\* the sum, the product or the derivative of its operands modulo the payload,
\* if its terms fit into the table (pair-machine.c:359-451).
THEOREM ValueCorrect ==
  ASSUME NEW V \in [Monos -> Nat]
  PROVE  Spec => [](Returned => SumOver(Worth(V), out) % Payload = ValueMeant(V) % Payload)
<1>1. IInv /\ Valued =>
        (Returned => SumOver(Worth(V), out) % Payload = ValueMeant(V) % Payload)
  BY ReturnedWorth DEF Same, Valued, Worths
<1> QED
  BY <1>1, ValuedInvariant, PTL

-----------------------------------------------------------------------------
\* The coefficients of what a call returns.

LEMMA OnlyType == \A m \in Monos : Only(m) \in Worths
BY DEF Only, Worths

\* In a list without repetition, the coefficient of a monomial is what the list
\* is worth when only that monomial is worth something.
LEMMA CoefIsWorth ==
  ASSUME NEW p \in Seq(Term), \A i, j \in DOMAIN p : p[i].mono = p[j].mono => i = j,
         NEW m \in Monos
  PROVE  CoefsOf(p)[m] \in Coefs /\ CoefsOf(p)[m] = SumOver(Worth(Only(m)), p)
<1>1. PICK w \in [Term -> Nat] : w = Worth(Only(m))
  BY OnlyType, WorthTypes
<1>2. PICK l \in Nat : l = Len(p) /\ DOMAIN p = 1 .. l
  OBVIOUS
<1>3. \A i \in DOMAIN p : p[i] \in Term /\ p[i].coef \in Coefs /\ p[i].coef \in Nat
                           /\ p[i].mono \in Monos
  <2>1. \A i \in DOMAIN p : p[i] \in Term
    OBVIOUS
  <2>2. \A t \in Term : t.coef \in Coefs /\ t.coef \in Nat /\ t.mono \in Monos
    BY Widths DEF Term, Coefs
  <2> QED
    BY <2>1, <2>2
<1>4. \A i \in DOMAIN p : w[p[i]] = IF p[i].mono = m THEN p[i].coef ELSE 0
  <2>1. ASSUME NEW i \in DOMAIN p
        PROVE  w[p[i]] = IF p[i].mono = m THEN p[i].coef ELSE 0
    <3>1. PICK t \in Term, c \in Nat : t = p[i] /\ c = t.coef /\ t.mono \in Monos
      BY <1>3
    <3>2. Only(m)[t.mono] = IF t.mono = m THEN 1 ELSE 0
      BY <3>1 DEF Only
    <3>3. w[t] = c * (IF t.mono = m THEN 1 ELSE 0)
      BY <1>1, <3>1, <3>2 DEF Worth
    <3>4. w[t] = IF t.mono = m THEN c ELSE 0
      BY <3>3
    <3> QED
      BY <3>1, <3>4
  <2> QED
    BY <2>1
<1>5. CASE \E k \in DOMAIN p : p[k].mono = m
  <2>1. PICK k \in DOMAIN p : p[k].mono = m
    BY <1>5
  <2>2. PICK c \in Nat : c = p[k].coef /\ c \in Coefs
    BY <1>3
  <2>3. CoefsOf(p)[m] = c
    <3>1. \A i \in DOMAIN p : p[i].mono = m => i = k
      BY <2>1
    <3>2. (CHOOSE i \in DOMAIN p : p[i].mono = m) = k
      BY <2>1, <3>1
    <3> QED
      BY <1>5, <2>2, <3>2 DEF CoefsOf
  <2> DEFINE f == [i \in 0 .. l |-> IF i < k THEN 0 ELSE c]
  <2>4. Partial(f, w, p)
    <3>1. f \in [0 .. l -> Nat] /\ f[0] = 0 /\ f[l] = c
      BY <1>2
    <3>2. ASSUME NEW i \in 1 .. l
          PROVE  f[i] = f[i - 1] + w[p[i]]
      <4>1. i \in DOMAIN p /\ i - 1 \in 0 .. l /\ i \in 0 .. l /\ k \in 1 .. l
        BY <1>2
      <4>2. w[p[i]] = IF i = k THEN c ELSE 0
        BY <1>4, <2>1, <2>2, <4>1
      <4>3. f[i] = (IF i < k THEN 0 ELSE c) /\ f[i - 1] = (IF i - 1 < k THEN 0 ELSE c)
        BY <4>1
      <4> QED
        BY <4>1, <4>2, <4>3
    <3> QED
      BY <1>2, <3>1, <3>2 DEF Partial
  <2>5. SumOver(w, p) = f[l]
    BY <1>2, <2>4, SumOfPartial
  <2>6. f[l] = c
    BY <1>2
  <2> QED
    BY <1>1, <2>2, <2>3, <2>5, <2>6
<1>6. CASE ~\E k \in DOMAIN p : p[k].mono = m
  <2>1. CoefsOf(p)[m] = 0
    BY <1>6 DEF CoefsOf
  <2> DEFINE f == [i \in 0 .. l |-> 0]
  <2>2. Partial(f, w, p)
    <3>1. f \in [0 .. l -> Nat] /\ f[0] = 0
      OBVIOUS
    <3>2. ASSUME NEW i \in 1 .. l
          PROVE  f[i] = f[i - 1] + w[p[i]]
      <4>1. i \in DOMAIN p /\ i - 1 \in 0 .. l
        BY <1>2
      <4>2. w[p[i]] = 0
        BY <1>4, <1>6, <4>1
      <4> QED
        BY <4>1, <4>2
    <3> QED
      BY <1>2, <3>1, <3>2 DEF Partial
  <2>3. SumOver(w, p) = 0
    BY <1>2, <2>2, SumOfPartial
  <2> QED
    BY <1>1, <2>1, <2>3, Widths
<1> QED
  BY <1>5, <1>6

LEMMA ReturnedRing ==
  ASSUME IInv, \A V \in Worths : ValueInv(V)
  PROVE  RingOp
<1>1. SUFFICES ASSUME Returned, NEW m \in Monos
               PROVE  CoefsOf(out)[m] = ValueMeant(Only(m)) % Payload
  BY DEF RingOp
<1>2. PICK p \in Seq(Term) : p = out /\ \A i, j \in DOMAIN p : p[i].mono = p[j].mono => i = j
  BY DEF IInv, TypeOK, Emitted
<1>3. CoefsOf(p)[m] \in Coefs /\ CoefsOf(p)[m] = SumOver(Worth(Only(m)), p)
  BY <1>2, CoefIsWorth
<1>4. Only(m) \in Worths
  BY OnlyType
<1>5. Same(SumOver(Worth(Only(m)), out), ValueMeant(Only(m)))
  BY <1>1, <1>4, ReturnedWorth
<1>6. CoefsOf(p)[m] % Payload = CoefsOf(p)[m]
  BY <1>3, Widths, SmallMod DEF Coefs
<1> QED
  BY <1>2, <1>3, <1>5, <1>6 DEF Same

\* As long as the terms fit into the table, a call returns the sum, the product or
\* the derivative of its operands, as polynomials over the integers modulo the
\* payload (pair-machine.c:404-451).
THEOREM RingOpHolds == Spec => []RingOp
<1>1. IInv /\ Valued => RingOp
  BY ReturnedRing DEF Valued
<1> QED
  BY <1>1, ValuedInvariant, PTL

-----------------------------------------------------------------------------
\* Evaluation, modulo the payload.

LEMMA SameProduct ==
  ASSUME NEW a \in Nat, NEW b \in Nat, NEW c \in Nat, NEW d \in Nat, Same(a, b), Same(c, d)
  PROVE  Same(a * c, b * d)
<1>1. Same(a * c, a * d)
  BY SameTimes
<1>2. Same(d * a, d * b)
  BY SameTimes
<1>3. d * a = a * d /\ d * b = b * d
  OBVIOUS
<1> QED
  BY <1>1, <1>2, <1>3 DEF Same

\* f has the products of the first members of x.
Factors(f, x, k) ==
  f \in [0 .. k -> Nat] /\ x \in [1 .. k -> Nat] /\ \A i \in 1 .. k : Same(f[i], f[i - 1] * x[i])

Splits(x, y, z, k) == \A i \in 1 .. k : Same(x[i], y[i] * z[i])

LEMMA Multiplies ==
  ASSUME NEW k \in Nat, NEW f, NEW g, NEW h, NEW x, NEW y, NEW z,
         Factors(f, x, k), Factors(g, y, k), Factors(h, z, k),
         Same(f[0], g[0] * h[0]), Splits(x, y, z, k)
  PROVE  Same(f[k], g[k] * h[k])
<1>1. /\ f \in [0 .. k -> Nat] /\ g \in [0 .. k -> Nat] /\ h \in [0 .. k -> Nat]
      /\ x \in [1 .. k -> Nat] /\ y \in [1 .. k -> Nat] /\ z \in [1 .. k -> Nat]
      /\ \A i \in 1 .. k : Same(f[i], f[i - 1] * x[i])
      /\ \A i \in 1 .. k : Same(g[i], g[i - 1] * y[i])
      /\ \A i \in 1 .. k : Same(h[i], h[i - 1] * z[i])
  BY DEF Factors
<1> DEFINE S == {i \in 0 .. k : Same(f[i], g[i] * h[i])}
<1>s. \A i \in 0 .. k : i \in S <=> Same(f[i], g[i] * h[i])
  OBVIOUS
<1> HIDE DEF S
<1>2. 0 \in S
  BY <1>s
<1>3. ASSUME NEW i \in 1 .. k, i - 1 \in S
      PROVE  i \in S
  <2>1. i - 1 \in 0 .. k /\ i \in 0 .. k
    OBVIOUS
  <2>2. PICK a \in Nat, b \in Nat, c \in Nat : a = f[i - 1] /\ b = g[i - 1] /\ c = h[i - 1]
    BY <1>1, <2>1
  <2>3. PICK u \in Nat, v \in Nat, t \in Nat : u = x[i] /\ v = y[i] /\ t = z[i]
    BY <1>1
  <2>4. PICK a1 \in Nat, b1 \in Nat, c1 \in Nat : a1 = f[i] /\ b1 = g[i] /\ c1 = h[i]
    BY <1>1, <2>1
  <2>5. /\ Same(a, b * c) /\ Same(u, v * t)
        /\ Same(a1, a * u) /\ Same(b1, b * v) /\ Same(c1, c * t)
    BY <1>1, <1>3, <1>s, <2>1, <2>2, <2>3, <2>4 DEF Splits
  <2>6. b * c \in Nat /\ v * t \in Nat /\ b * v \in Nat /\ c * t \in Nat
    BY NatTimes
  <2>7. Same(a * u, (b * c) * (v * t))
    BY <2>5, <2>6, SameProduct
  <2>8. Same(b1 * c1, (b * v) * (c * t))
    BY <2>5, <2>6, SameProduct
  <2>9. (b * c) * (v * t) = (b * v) * (c * t)
    <3>1. \A o, p, q, r \in Nat : (o * p) * (q * r) = (o * q) * (p * r)
      OBVIOUS
    <3> QED
      BY <3>1
  <2>10. Same(a1, b1 * c1)
    BY <2>5, <2>7, <2>8, <2>9 DEF Same
  <2> QED
    BY <1>s, <2>1, <2>4, <2>10
<1>4. k \in S
  <2>1. \A i \in 0 .. k : i \in S
    BY <1>2, <1>3, UpTo
  <2> QED
    BY <2>1
<1> QED
  BY <1>4, <1>s

LEMMA PowTrace ==
  ASSUME NEW a \in Nat, NEW k \in Nat
  PROVE  \E f \in [0 .. k -> Nat] :
           /\ f[0] = 1 /\ \A i \in 0 .. k : f[i] = PowU16(a, i)
           /\ \A i \in 1 .. k : Same(f[i], f[i - 1] * a)
<1> DEFINE step(j) == [i \in 1 .. j |-> [r \in Nat |-> (r * a) % Word]]
<1>0. \A r \in Nat : r * a \in Nat /\ (r * a) % Word \in Nat /\ Same((r * a) % Word, r * a)
  <2>1. \A r \in Nat : r * a \in Nat
    BY NatTimes
  <2> QED
    BY <2>1, SameCut
<1>1. \A j \in Nat : \A i \in 1 .. j, r \in Nat : step(j)[i][r] = (r * a) % Word
  OBVIOUS
<1>2. \A j \in Nat : PowU16(a, j) = Loop(j, 1, step(j))
  BY DEF PowU16
<1> HIDE DEF step
<1>3. \A i \in 1 .. k, r \in Nat : step(k)[i][r] \in Nat
  BY <1>0, <1>1
<1>4. PICK f : Trace(f, k, 1, step(k))
  BY <1>3, LoopHasTrace
<1>5. /\ f \in [0 .. k -> Nat] /\ f[0] = 1
      /\ \A i \in 1 .. k : i - 1 \in 0 .. k /\ f[i] = (f[i - 1] * a) % Word
  <2>1. f \in [0 .. k -> Nat] /\ f[0] = 1 /\ \A i \in 1 .. k : f[i] = step(k)[i][f[i - 1]]
    BY <1>4 DEF Trace
  <2>2. ASSUME NEW i \in 1 .. k
        PROVE  i - 1 \in 0 .. k /\ f[i] = (f[i - 1] * a) % Word
    <3>1. i - 1 \in 0 .. k
      OBVIOUS
    <3>2. f[i - 1] \in Nat
      BY <2>1, <3>1
    <3> QED
      BY <1>1, <2>1, <3>1, <3>2
  <2> QED
    BY <2>1, <2>2
<1>6. ASSUME NEW j \in 0 .. k
      PROVE  f[j] = PowU16(a, j)
  <2>1. PICK g : g = [i \in 0 .. j |-> f[i]]
    OBVIOUS
  <2>2. g \in [0 .. j -> Nat] /\ g[0] = 1 /\ g[j] = f[j]
    BY <1>5, <2>1
  <2>3. ASSUME NEW i \in 1 .. j
        PROVE  g[i] = step(j)[i][g[i - 1]]
    <3>1. i \in 1 .. k /\ i - 1 \in 0 .. j /\ i \in 0 .. j /\ j \in Nat
      OBVIOUS
    <3>2. g[i] = f[i] /\ g[i - 1] = f[i - 1] /\ f[i - 1] \in Nat
      BY <1>5, <2>1, <3>1
    <3> QED
      BY <1>1, <1>5, <3>1, <3>2
  <2>4. Trace(g, j, 1, step(j))
    BY <2>2, <2>3 DEF Trace
  <2>5. Loop(j, 1, step(j)) = g[j]
    BY <2>4, LoopOfTrace
  <2> QED
    BY <1>2, <2>2, <2>5
<1>7. ASSUME NEW i \in 1 .. k
      PROVE  Same(f[i], f[i - 1] * a)
  <2>1. f[i - 1] \in Nat /\ f[i] = (f[i - 1] * a) % Word
    BY <1>5
  <2> QED
    BY <1>0, <2>1
<1> QED
  BY <1>5, <1>6, <1>7

\* The power of a sum is the product of the powers.
LEMMA PowAdd ==
  ASSUME NEW a \in Nat, NEW j \in Nat, NEW k \in Nat
  PROVE  /\ PowU16(a, j + k) \in Nat /\ PowU16(a, j) \in Nat /\ PowU16(a, k) \in Nat
         /\ Same(PowU16(a, j + k), PowU16(a, j) * PowU16(a, k))
<1>1. PICK l \in Nat : l = j + k
  OBVIOUS
<1>2. PICK F \in [0 .. l -> Nat] :
        /\ F[0] = 1 /\ \A i \in 0 .. l : F[i] = PowU16(a, i)
        /\ \A i \in 1 .. l : Same(F[i], F[i - 1] * a)
  BY PowTrace
<1>3. j \in 0 .. l /\ k \in 0 .. l /\ l \in 0 .. l
  BY <1>1
<1>4. PICK c \in Nat : c = F[j]
  BY <1>3
<1>5. PICK f, g, h, x, y :
        /\ f = [i \in 0 .. k |-> F[j + i]] /\ g = [i \in 0 .. k |-> c] /\ h = [i \in 0 .. k |-> F[i]]
        /\ x = [i \in 1 .. k |-> a] /\ y = [i \in 1 .. k |-> 1]
  OBVIOUS
<1>6. Factors(f, x, k)
  <2>1. ASSUME NEW i \in 1 .. k
        PROVE  Same(f[i], f[i - 1] * x[i])
    <3>1. PICK m \in 1 .. l : m = j + i
      BY <1>1
    <3>2. m - 1 = j + (i - 1) /\ i - 1 \in 0 .. k /\ i \in 0 .. k
      BY <3>1
    <3>3. f[i] = F[m] /\ f[i - 1] = F[m - 1] /\ x[i] = a
      BY <1>5, <3>1, <3>2
    <3> QED
      BY <1>2, <3>3
  <2>2. \A i \in 0 .. k : j + i \in 0 .. l
    BY <1>1
  <2>3. f \in [0 .. k -> Nat] /\ x \in [1 .. k -> Nat]
    BY <1>2, <1>5, <2>2
  <2> QED
    BY <2>1, <2>3 DEF Factors
<1>7. Factors(g, y, k)
  <2>1. ASSUME NEW i \in 1 .. k
        PROVE  Same(g[i], g[i - 1] * y[i])
    <3>1. i - 1 \in 0 .. k /\ i \in 0 .. k
      OBVIOUS
    <3>2. g[i] = c /\ g[i - 1] = c /\ y[i] = 1 /\ c * 1 = c
      BY <1>5, <3>1
    <3> QED
      BY <3>2 DEF Same
  <2>2. g \in [0 .. k -> Nat] /\ y \in [1 .. k -> Nat]
    BY <1>5
  <2> QED
    BY <2>1, <2>2 DEF Factors
<1>8. Factors(h, x, k)
  <2>1. ASSUME NEW i \in 1 .. k
        PROVE  Same(h[i], h[i - 1] * x[i])
    <3>1. i \in 1 .. l /\ i - 1 \in 0 .. k /\ i \in 0 .. k
      BY <1>1
    <3>2. h[i] = F[i] /\ h[i - 1] = F[i - 1] /\ x[i] = a
      BY <1>5, <3>1
    <3> QED
      BY <1>2, <3>1, <3>2
  <2>2. \A i \in 0 .. k : i \in 0 .. l
    BY <1>1
  <2>3. h \in [0 .. k -> Nat] /\ x \in [1 .. k -> Nat]
    BY <1>2, <1>5, <2>2
  <2> QED
    BY <2>1, <2>3 DEF Factors
<1>9. Same(f[0], g[0] * h[0])
  <2>1. f[0] = c /\ g[0] = c /\ h[0] = 1 /\ c * 1 = c
    BY <1>2, <1>4, <1>5
  <2> QED
    BY <2>1 DEF Same
<1>10. Splits(x, y, x, k)
  <2>1. \A i \in 1 .. k : x[i] = y[i] * x[i]
    BY <1>5
  <2> QED
    BY <2>1 DEF Splits, Same
<1>11. Same(f[k], g[k] * h[k])
  BY <1>6, <1>7, <1>8, <1>9, <1>10, Multiplies
<1>12. k \in 0 .. k /\ f[k] = F[l] /\ g[k] = F[j] /\ h[k] = F[k]
  BY <1>1, <1>4, <1>5
<1>13. F[l] = PowU16(a, j + k) /\ F[j] = PowU16(a, j) /\ F[k] = PowU16(a, k)
       /\ F[l] \in Nat /\ F[j] \in Nat /\ F[k] \in Nat
  BY <1>1, <1>2, <1>3
<1> QED
  BY <1>11, <1>12, <1>13

\* What a monomial is worth, where the variables have the values in at.
ValueAt(at) == [m \in Monos |-> TermEval([coef |-> 1, mono |-> m], at)]

Turns == Len(VarOrder)
PowersAt(m, at) == [i \in 1 .. Turns |-> PowU16(at[VarOrder[i]], m[VarOrder[i]])]

LEMMA OrderType == Turns \in Nat /\ DOMAIN VarOrder = 1 .. Turns
                   /\ \A i \in 1 .. Turns : VarOrder[i] \in Variables
<1>1. VarOrder \in Seq(Variables)
  BY PolyConstants
<1>2. DOMAIN VarOrder = 1 .. Len(VarOrder) /\ Len(VarOrder) \in Nat
  BY <1>1
<1> QED
  BY <1>1, <1>2 DEF Turns

LEMMA PowersType ==
  ASSUME NEW at \in [Variables -> Coefs], NEW m \in Monos
  PROVE  /\ PowersAt(m, at) \in [1 .. Turns -> Nat]
         /\ \A i \in 1 .. Turns : at[VarOrder[i]] \in Nat /\ m[VarOrder[i]] \in Nat
<1>1. ASSUME NEW i \in 1 .. Turns
      PROVE  /\ at[VarOrder[i]] \in Nat /\ m[VarOrder[i]] \in Nat
             /\ PowU16(at[VarOrder[i]], m[VarOrder[i]]) \in Nat
  <2>1. VarOrder[i] \in Variables
    BY OrderType
  <2>2. at[VarOrder[i]] \in Nat /\ m[VarOrder[i]] \in Nat
    BY <2>1 DEF Coefs, Monos
  <2> QED
    BY <2>2, PowAdd
<1> QED
  BY <1>1 DEF PowersAt

\* The factors that term_eval multiplies.
LEMMA EvalTrace ==
  ASSUME NEW at \in [Variables -> Coefs], NEW t, t.coef \in Nat, t.mono \in Monos
  PROVE  /\ TermEval(t, at) \in Nat
         /\ \E f : Factors(f, PowersAt(t.mono, at), Turns) /\ f[0] = t.coef /\ f[Turns] = TermEval(t, at)
<1> DEFINE step == [i \in DOMAIN VarOrder |-> [r \in Nat |->
                      (r * PowU16(at[VarOrder[i]], t.mono[VarOrder[i]])) % Word]]
<1>1. PICK x : x = PowersAt(t.mono, at) /\ x \in [1 .. Turns -> Nat]
  BY PowersType
<1>2. \A i \in 1 .. Turns, r \in Nat : step[i][r] = (r * x[i]) % Word
  BY <1>1, OrderType DEF PowersAt
<1>3. TermEval(t, at) = Loop(Turns, t.coef, step)
  BY DEF TermEval, Turns
<1> HIDE DEF step
<1>4. \A a, b \in Nat : (a * b) % Word \in Nat /\ Same((a * b) % Word, a * b)
  <2>1. \A a, b \in Nat : a * b \in Nat
    BY NatTimes
  <2> QED
    BY <2>1, SameCut
<1>5. \A i \in 1 .. Turns, r \in Nat : step[i][r] \in Nat
  <2>1. \A i \in 1 .. Turns : x[i] \in Nat
    BY <1>1
  <2> QED
    BY <1>2, <1>4, <2>1
<1>6. PICK f : Trace(f, Turns, t.coef, step)
  BY <1>5, OrderType, LoopHasTrace
<1>7. f \in [0 .. Turns -> Nat] /\ f[0] = t.coef
      /\ \A i \in 1 .. Turns : f[i] = step[i][f[i - 1]]
  BY <1>6 DEF Trace
<1>8. TermEval(t, at) = f[Turns] /\ f[Turns] \in Nat
  BY <1>3, <1>6, OrderType, LoopOfTrace
<1>9. ASSUME NEW i \in 1 .. Turns
      PROVE  Same(f[i], f[i - 1] * x[i])
  <2>1. i - 1 \in 0 .. Turns
    BY OrderType
  <2>2. f[i - 1] \in Nat /\ x[i] \in Nat
    BY <1>1, <1>7, <2>1
  <2>3. f[i] = (f[i - 1] * x[i]) % Word
    BY <1>2, <1>7, <2>2
  <2> QED
    BY <1>4, <2>2, <2>3
<1>10. Factors(f, x, Turns)
  BY <1>1, <1>7, <1>9 DEF Factors
<1> QED
  BY <1>1, <1>7, <1>8, <1>10

LEMMA ValueAtType ==
  ASSUME NEW at \in [Variables -> Coefs]
  PROVE  ValueAt(at) \in Worths
<1>1. ASSUME NEW m \in Monos
      PROVE  TermEval([coef |-> 1, mono |-> m], at) \in Nat
  <2>1. PICK t : t = [coef |-> 1, mono |-> m]
    OBVIOUS
  <2>2. t.coef \in Nat /\ t.mono \in Monos
    BY <2>1
  <2> QED
    BY <2>1, <2>2, EvalTrace
<1> QED
  BY <1>1 DEF ValueAt, Worths

\* A monomial's value, as term_eval computes it.
LEMMA ValueTrace ==
  ASSUME NEW at \in [Variables -> Coefs], NEW m \in Monos
  PROVE  /\ ValueAt(at)[m] \in Nat
         /\ \E f : Factors(f, PowersAt(m, at), Turns) /\ f[0] = 1 /\ f[Turns] = ValueAt(at)[m]
<1>1. PICK t : t = [coef |-> 1, mono |-> m]
  OBVIOUS
<1>2. t.coef = 1 /\ t.mono = m /\ ValueAt(at)[m] = TermEval(t, at)
  BY <1>1 DEF ValueAt
<1> QED
  BY <1>2, EvalTrace

\* A term's value is its coefficient times what its monomial is worth.
LEMMA TermEvalWorth ==
  ASSUME NEW at \in [Variables -> Coefs], NEW t \in Term
  PROVE  TermEval(t, at) \in Nat /\ Same(TermEval(t, at), Worth(ValueAt(at))[t])
<1>1. t.coef \in Nat /\ t.mono \in Monos
  BY DEF Term, Coefs
<1>2. PICK c, m, x : /\ c \in Nat /\ m \in Monos
                     /\ c = t.coef /\ m = t.mono /\ x = PowersAt(m, at)
  BY <1>1
<1>3. PICK f : Factors(f, x, Turns) /\ f[0] = c /\ f[Turns] = TermEval(t, at)
  BY <1>2, EvalTrace
<1>4. PICK h : Factors(h, x, Turns) /\ h[0] = 1 /\ h[Turns] = ValueAt(at)[m]
  BY <1>2, ValueTrace
<1>5. PICK g, y : g = [i \in 0 .. Turns |-> c] /\ y = [i \in 1 .. Turns |-> 1]
  OBVIOUS
<1>6. Factors(g, y, Turns)
  <2>1. ASSUME NEW i \in 1 .. Turns
        PROVE  Same(g[i], g[i - 1] * y[i])
    <3>1. i - 1 \in 0 .. Turns /\ i \in 0 .. Turns
      BY OrderType
    <3>2. g[i] = c /\ g[i - 1] = c /\ y[i] = 1 /\ c * 1 = c
      BY <1>2, <1>5, <3>1
    <3> QED
      BY <3>2 DEF Same
  <2>2. g \in [0 .. Turns -> Nat] /\ y \in [1 .. Turns -> Nat]
    BY <1>2, <1>5
  <2> QED
    BY <2>1, <2>2 DEF Factors
<1>7. g[0] = c /\ g[Turns] = c /\ c * 1 = c
  BY <1>2, <1>5, OrderType
<1>8. Same(f[0], g[0] * h[0])
  BY <1>3, <1>4, <1>7 DEF Same
<1>9. Splits(x, y, x, Turns)
  <2>1. x \in [1 .. Turns -> Nat]
    BY <1>2, PowersType
  <2>2. \A i \in 1 .. Turns : x[i] = y[i] * x[i]
    BY <1>5, <2>1
  <2> QED
    BY <2>2 DEF Splits, Same
<1>10. Turns \in Nat
  BY OrderType
<1>11. Same(f[Turns], g[Turns] * h[Turns])
  BY <1>3, <1>4, <1>6, <1>8, <1>9, <1>10, Multiplies
<1>12. Worth(ValueAt(at))[t] = c * ValueAt(at)[m]
  BY <1>2 DEF Worth
<1>13. TermEval(t, at) \in Nat
  BY <1>1, EvalTrace
<1> QED
  BY <1>3, <1>4, <1>7, <1>11, <1>12, <1>13

\* When no exponent wraps, the product of two monomials is worth the product.
LEMMA ValueAtTimes ==
  ASSUME NEW at \in [Variables -> Coefs], NEW m \in Monos, NEW e \in Monos,
         \A v \in Variables : m[v] + e[v] < Payload
  PROVE  Same(ValueAt(at)[Times(m, e)], ValueAt(at)[m] * ValueAt(at)[e])
<1>1. PICK d \in Monos : d = Times(m, e)
  BY TimesType
<1>2. \A v \in Variables : m[v] \in Nat /\ e[v] \in Nat /\ d[v] = m[v] + e[v]
  <2>1. ASSUME NEW v \in Variables
        PROVE  m[v] \in Nat /\ e[v] \in Nat /\ d[v] = m[v] + e[v]
    <3>1. m[v] \in Nat /\ e[v] \in Nat
      BY DEF Monos
    <3>2. PICK s \in Nat : s = m[v] + e[v]
      BY <3>1
    <3>3. s \in 0 .. Payload - 1
      BY <3>2, Widths
    <3>4. s % Payload = s
      BY <3>3, Widths, SmallMod
    <3>5. d[v] = s % Payload
      BY <1>1, <3>2 DEF Times
    <3> QED
      BY <3>1, <3>2, <3>4, <3>5
  <2> QED
    BY <2>1
<1>3. PICK x, y, z : x = PowersAt(d, at) /\ y = PowersAt(m, at) /\ z = PowersAt(e, at)
  OBVIOUS
<1>4. PICK f : Factors(f, x, Turns) /\ f[0] = 1 /\ f[Turns] = ValueAt(at)[d]
  BY <1>3, ValueTrace
<1>5. PICK g : Factors(g, y, Turns) /\ g[0] = 1 /\ g[Turns] = ValueAt(at)[m]
  BY <1>3, ValueTrace
<1>6. PICK h : Factors(h, z, Turns) /\ h[0] = 1 /\ h[Turns] = ValueAt(at)[e]
  BY <1>3, ValueTrace
<1>7. Splits(x, y, z, Turns)
  <2>1. ASSUME NEW i \in 1 .. Turns
        PROVE  Same(x[i], y[i] * z[i])
    <3>1. PICK v \in Variables : v = VarOrder[i]
      BY OrderType
    <3>2. PICK a \in Nat, j \in Nat, k \in Nat : a = at[v] /\ j = m[v] /\ k = e[v]
      BY <1>2, <3>1 DEF Coefs
    <3>3. x[i] = PowU16(a, j + k) /\ y[i] = PowU16(a, j) /\ z[i] = PowU16(a, k)
      BY <1>2, <1>3, <3>1, <3>2 DEF PowersAt
    <3> QED
      BY <3>3, PowAdd
  <2> QED
    BY <2>1 DEF Splits
<1>8. Same(f[0], g[0] * h[0])
  <2>1. 1 * 1 = 1
    OBVIOUS
  <2> QED
    BY <1>4, <1>5, <1>6, <2>1 DEF Same
<1>9. Turns \in Nat
  BY OrderType
<1>10. Same(f[Turns], g[Turns] * h[Turns])
  BY <1>4, <1>5, <1>6, <1>7, <1>8, <1>9, Multiplies
<1> QED
  BY <1>1, <1>4, <1>5, <1>6, <1>10

\* Evaluating a polynomial is summing what its terms are worth.
LEMMA PolyEvalWorth ==
  ASSUME NEW at \in [Variables -> Coefs], NEW p \in Seq(Term)
  PROVE  PolyEval(p, at) \in Nat /\ Same(PolyEval(p, at), SumOver(Worth(ValueAt(at)), p))
<1> DEFINE step == [i \in DOMAIN p |-> [r \in Nat |-> (r + TermEval(p[i], at)) % Word]]
<1>1. PICK l \in Nat : l = Len(p) /\ DOMAIN p = 1 .. l
  OBVIOUS
<1>2. PICK w \in [Term -> Nat] : w = Worth(ValueAt(at))
  BY ValueAtType, WorthTypes
<1>3. \A i \in 1 .. l : /\ TermEval(p[i], at) \in Nat /\ w[p[i]] \in Nat
                        /\ Same(TermEval(p[i], at), w[p[i]])
  <2>1. \A i \in 1 .. l : p[i] \in Term
    BY <1>1
  <2> QED
    BY <1>2, <2>1, TermEvalWorth
<1>4. \A i \in 1 .. l, r \in Nat : step[i][r] = (r + TermEval(p[i], at)) % Word
  BY <1>1
<1>5. PolyEval(p, at) = Loop(l, 0, step)
  BY <1>1 DEF PolyEval
<1> HIDE DEF step
<1>6. \A a, b \in Nat : (a + b) % Word \in Nat /\ Same((a + b) % Word, a + b)
  <2>1. \A a, b \in Nat : a + b \in Nat
    OBVIOUS
  <2> QED
    BY <2>1, SameCut
<1>7. \A i \in 1 .. l, r \in Nat : step[i][r] \in Nat
  BY <1>3, <1>4, <1>6
<1>8. PICK f : Trace(f, l, 0, step)
  BY <1>7, LoopHasTrace
<1>9. f \in [0 .. l -> Nat] /\ f[0] = 0 /\ \A i \in 1 .. l : f[i] = step[i][f[i - 1]]
  BY <1>8 DEF Trace
<1>10. PolyEval(p, at) = f[l] /\ f[l] \in Nat
  BY <1>5, <1>8, LoopOfTrace
<1>11. PICK g : Partial(g, w, p)
  BY HasPartial
<1>12. g \in [0 .. l -> Nat] /\ g[0] = 0 /\ \A i \in 1 .. l : g[i] = g[i - 1] + w[p[i]]
  BY <1>1, <1>11 DEF Partial
<1> DEFINE S == {i \in 0 .. l : Same(f[i], g[i])}
<1>s. \A i \in 0 .. l : i \in S <=> Same(f[i], g[i])
  OBVIOUS
<1> HIDE DEF S
<1>13. 0 \in S
  BY <1>9, <1>12, <1>s DEF Same
<1>14. ASSUME NEW i \in 1 .. l, i - 1 \in S
       PROVE  i \in S
  <2>1. i - 1 \in 0 .. l /\ i \in 0 .. l
    OBVIOUS
  <2>2. PICK a \in Nat, b \in Nat, x \in Nat, y \in Nat :
          a = f[i - 1] /\ b = g[i - 1] /\ x = TermEval(p[i], at) /\ y = w[p[i]]
    BY <1>3, <1>9, <1>12, <2>1
  <2>3. Same(a, b) /\ Same(x, y)
    BY <1>3, <1>14, <1>s, <2>1, <2>2
  <2>4. Same(a + x, b + y)
    BY <2>3, SameSum
  <2>5. f[i] = (a + x) % Word /\ g[i] = b + y
    BY <1>4, <1>9, <1>12, <2>2
  <2>6. Same((a + x) % Word, a + x)
    BY <1>6
  <2>7. Same(f[i], g[i])
    BY <2>4, <2>5, <2>6 DEF Same
  <2> QED
    BY <1>s, <2>1, <2>7
<1>15. l \in S
  <2>1. \A i \in 0 .. l : i \in S
    BY <1>13, <1>14, UpTo
  <2> QED
    BY <2>1
<1>16. Same(f[l], g[l])
  BY <1>15, <1>s
<1>17. SumOver(w, p) = g[l]
  BY <1>1, <1>11, SumOfPartial
<1> QED
  BY <1>2, <1>10, <1>16, <1>17

\* A factor can be taken out of a sum.
Scaled(u, x, w, p) == \A i \in DOMAIN p : Same(u[p[i]], x * w[p[i]])

LEMMA ScaledSum ==
  ASSUME NEW u \in [Term -> Nat], NEW x \in Nat, NEW w \in [Term -> Nat], NEW p \in Seq(Term),
         Scaled(u, x, w, p)
  PROVE  Same(SumOver(u, p), x * SumOver(w, p))
<1>1. PICK l \in Nat : l = Len(p) /\ DOMAIN p = 1 .. l
  OBVIOUS
<1>2. PICK f : Partial(f, u, p)
  BY HasPartial
<1>3. PICK g : Partial(g, w, p)
  BY HasPartial
<1>4. /\ f \in [0 .. l -> Nat] /\ f[0] = 0 /\ \A i \in 1 .. l : f[i] = f[i - 1] + u[p[i]]
      /\ g \in [0 .. l -> Nat] /\ g[0] = 0 /\ \A i \in 1 .. l : g[i] = g[i - 1] + w[p[i]]
  BY <1>1, <1>2, <1>3 DEF Partial
<1>5. \A i \in 1 .. l : u[p[i]] \in Nat /\ w[p[i]] \in Nat /\ Same(u[p[i]], x * w[p[i]])
  <2>1. \A i \in 1 .. l : p[i] \in Term
    BY <1>1
  <2> QED
    BY <1>1, <2>1 DEF Scaled
<1> DEFINE S == {i \in 0 .. l : Same(f[i], x * g[i])}
<1>s. \A i \in 0 .. l : i \in S <=> Same(f[i], x * g[i])
  OBVIOUS
<1> HIDE DEF S
<1>6. 0 \in S
  <2>1. x * 0 = 0
    OBVIOUS
  <2> QED
    BY <1>4, <1>s, <2>1 DEF Same
<1>7. ASSUME NEW i \in 1 .. l, i - 1 \in S
      PROVE  i \in S
  <2>1. i - 1 \in 0 .. l /\ i \in 0 .. l
    OBVIOUS
  <2>2. PICK a \in Nat, b \in Nat, c \in Nat, d \in Nat :
          a = f[i - 1] /\ b = g[i - 1] /\ c = u[p[i]] /\ d = w[p[i]]
    BY <1>4, <1>5, <2>1
  <2>3. PICK xb \in Nat, xd \in Nat : xb = x * b /\ xd = x * d
    BY NatTimes
  <2>4. Same(a, xb) /\ Same(c, xd)
    BY <1>5, <1>7, <1>s, <2>1, <2>2, <2>3
  <2>5. Same(a + c, xb + xd)
    BY <2>4, SameSum
  <2>6. f[i] = a + c /\ g[i] = b + d
    BY <1>4, <2>2
  <2>7. x * (b + d) = xb + xd
    BY <2>3, Distributes
  <2>8. Same(f[i], x * g[i])
    BY <2>5, <2>6, <2>7
  <2> QED
    BY <1>s, <2>1, <2>8
<1>8. l \in S
  <2>1. \A i \in 0 .. l : i \in S
    BY <1>6, <1>7, UpTo
  <2> QED
    BY <2>1
<1>9. SumOver(u, p) = f[l] /\ SumOver(w, p) = g[l]
  BY <1>1, <1>2, <1>3, SumOfPartial
<1> QED
  BY <1>8, <1>9, <1>s

\* No exponent wraps in the product of t and a term of q.
FitsAll(t, q) == \A j \in DOMAIN q, v \in Variables : t.mono[v] + q[j].mono[v] < Payload

LEMMA RowWorth ==
  ASSUME NEW at \in [Variables -> Coefs], NEW t \in Term, NEW q \in Seq(Term), FitsAll(t, q)
  PROVE  Same(SumOver(WorthTimes(ValueAt(at), t), q),
              Worth(ValueAt(at))[t] * SumOver(Worth(ValueAt(at)), q))
<1>1. PICK V \in Worths : V = ValueAt(at)
  BY ValueAtType
<1>2. PICK w \in [Term -> Nat], u \in [Term -> Nat] : w = Worth(V) /\ u = WorthTimes(V, t)
  BY WorthTypes
<1>3. PICK x \in Nat : x = w[t]
  OBVIOUS
<1>4. ASSUME NEW j \in DOMAIN q
      PROVE  Same(u[q[j]], x * w[q[j]])
  <2>1. PICK e \in Term : e = q[j]
    OBVIOUS
  <2>2. t.coef \in Nat /\ t.mono \in Monos /\ e.coef \in Nat /\ e.mono \in Monos
    BY DEF Term, Coefs
  <2>3. Times(t.mono, e.mono) \in Monos
    BY <2>2, TimesType
  <2>4. PICK a \in Nat, b \in Nat, y \in Nat, z \in Nat, yz \in Nat :
          /\ a = t.coef /\ b = e.coef /\ y = V[t.mono] /\ z = V[e.mono]
          /\ yz = V[Times(t.mono, e.mono)]
    BY <2>2, <2>3 DEF Worths
  <2>5. \A v \in Variables : t.mono[v] + e.mono[v] < Payload
    BY <2>1 DEF FitsAll
  <2>6. Same(yz, y * z)
    BY <1>1, <2>2, <2>4, <2>5, ValueAtTimes
  <2>7. u[e] = (a * b) * yz /\ x = a * y /\ w[e] = b * z
    BY <1>2, <1>3, <2>4 DEF Worth, WorthTimes
  <2>8. a * b \in Nat /\ y * z \in Nat
    BY NatTimes
  <2>9. Same((a * b) * yz, (a * b) * (y * z))
    BY <2>6, <2>8, SameTimes
  <2>10. (a * b) * (y * z) = (a * y) * (b * z)
    <3>1. \A o, p, r, s \in Nat : (o * p) * (r * s) = (o * r) * (p * s)
      OBVIOUS
    <3> QED
      BY <3>1
  <2> QED
    BY <2>1, <2>7, <2>9, <2>10
<1>5. Scaled(u, x, w, q)
  BY <1>4 DEF Scaled
<1>6. Same(SumOver(u, q), x * SumOver(w, q))
  BY <1>5, ScaledSum
<1> QED
  BY <1>1, <1>2, <1>3, <1>6

FitAll(p, q) == \A i \in DOMAIN p : FitsAll(p[i], q)

LEMMA ProductWorth ==
  ASSUME NEW at \in [Variables -> Coefs], NEW p \in Seq(Term), NEW q \in Seq(Term), FitAll(p, q)
  PROVE  Same(SumOver(WorthTimesAll(ValueAt(at), q), p),
              SumOver(Worth(ValueAt(at)), q) * SumOver(Worth(ValueAt(at)), p))
<1>1. PICK V \in Worths : V = ValueAt(at)
  BY ValueAtType
<1>2. PICK w \in [Term -> Nat], u \in [Term -> Nat] : w = Worth(V) /\ u = WorthTimesAll(V, q)
  BY WorthTypes
<1>3. PICK x \in Nat : x = SumOver(w, q)
  BY SumType
<1>4. ASSUME NEW i \in DOMAIN p
      PROVE  Same(u[p[i]], x * w[p[i]])
  <2>1. PICK t \in Term : t = p[i]
    OBVIOUS
  <2>2. FitsAll(t, q)
    BY <2>1 DEF FitAll
  <2>3. Same(SumOver(WorthTimes(V, t), q), w[t] * x)
    BY <1>1, <1>2, <1>3, <2>2, RowWorth
  <2>4. u[t] = SumOver(WorthTimes(V, t), q)
    BY <1>2 DEF WorthTimesAll
  <2>5. PICK y \in Nat : y = w[t]
    OBVIOUS
  <2>6. y * x = x * y
    OBVIOUS
  <2> QED
    BY <2>1, <2>3, <2>4, <2>5, <2>6
<1>5. Scaled(u, x, w, p)
  BY <1>4 DEF Scaled
<1>6. Same(SumOver(u, p), x * SumOver(w, p))
  BY <1>5, ScaledSum
<1> QED
  BY <1>1, <1>2, <1>3, <1>6

LEMMA ReturnedEval ==
  ASSUME IInv, \A V \in Worths : ValueInv(V)
  PROVE  EvalAgrees
<1>1. SUFFICES ASSUME Returned, op # "deriv", NoExponentWraps, NEW at \in [Variables -> Coefs]
               PROVE  PolyEval(out, at) % Payload =
                        (IF op = "add" THEN PolyEval(p1, at) + PolyEval(p2, at)
                                       ELSE PolyEval(p1, at) * PolyEval(p2, at)) % Payload
  BY DEF EvalAgrees
<1>2. PICK o \in Seq(Term), p \in Seq(Term), q \in Seq(Term) : o = out /\ p = p1 /\ q = p2
  BY DEF IInv, TypeOK
<1>3. PICK V \in Worths : V = ValueAt(at)
  BY ValueAtType
<1>4. PICK w \in [Term -> Nat] : w = Worth(V)
  BY WorthTypes
<1>5. PICK s \in Nat, sp \in Nat, sq \in Nat :
        s = SumOver(w, o) /\ sp = SumOver(w, p) /\ sq = SumOver(w, q)
  BY SumType
<1>6. PICK e \in Nat, a \in Nat, b \in Nat :
        /\ e = PolyEval(o, at) /\ a = PolyEval(p, at) /\ b = PolyEval(q, at)
        /\ Same(e, s) /\ Same(a, sp) /\ Same(b, sq)
  BY <1>3, <1>4, <1>5, PolyEvalWorth
<1>7. Same(s, ValueMeant(V))
  BY <1>1, <1>2, <1>4, <1>5, ReturnedWorth
<1>8. CASE op = "add"
  <2>1. ValueMeant(V) = sp + sq
    BY <1>2, <1>4, <1>5, <1>8 DEF ValueMeant
  <2>2. Same(a + b, sp + sq)
    BY <1>6, SameSum
  <2>3. Same(e, a + b)
    BY <1>6, <1>7, <2>1, <2>2 DEF Same
  <2> QED
    BY <1>2, <1>6, <1>8, <2>3 DEF Same
<1>9. CASE op = "mul"
  <2>1. FitAll(p, q)
    BY <1>1, <1>2, <1>9 DEF NoExponentWraps, FitAll, FitsAll
  <2>2. Same(SumOver(WorthTimesAll(V, q), p), sq * sp)
    BY <1>3, <1>4, <1>5, <2>1, ProductWorth
  <2>3. ValueMeant(V) = SumOver(WorthTimesAll(V, q), p)
    BY <1>2, <1>9 DEF ValueMeant
  <2>4. Same(a * b, sp * sq) /\ sp * sq = sq * sp
    BY <1>6, SameProduct
  <2>5. Same(e, a * b)
    BY <1>6, <1>7, <2>2, <2>3, <2>4 DEF Same
  <2> QED
    BY <1>2, <1>6, <1>9, <2>5 DEF Same
<1> QED
  BY <1>1, <1>8, <1>9 DEF IInv, TypeOK

\* Evaluating what poly_add or poly_mul returns is adding or multiplying the
\* values of the operands, in the bits that a value has, when no exponent wraps
\* and the terms fit into the table (pair-machine.c:476-488).
THEOREM EvalAgreesHolds == Spec => []EvalAgrees
<1>1. IInv /\ Valued => EvalAgrees
  BY ReturnedEval DEF Valued
<1> QED
  BY <1>1, ValuedInvariant, PTL

=============================================================================
