--------------------------- MODULE BootGateProofs ---------------------------
(***************************************************************************)
(* The two boot gates put the phase boundary of every stream of bytes at   *)
(* the same place, and the four variables of the token rewriter carry the  *)
(* whole history its tokens are declared by.                               *)
(***************************************************************************)
EXTENDS BootGate, TLAPS, FiniteSetTheorems, WellFoundedInduction

Tokens == [kind : Kinds, args : Seq(Nat \cup {NoAtom})]

\* A rewritten token is a token, and never a unary one.
LEMMA EmitType ==
  ASSUME NEW st \in RewriteState, NEW b \in Bytes
  PROVE  Emit(st, b) \in Tokens /\ Emit(st, b).kind # "UNARY"
<1>1. /\ << >> \in Seq(Nat \cup {NoAtom})
      /\ <<b>> \in Seq(Nat \cup {NoAtom})
      /\ <<st.lastAtom>> \in Seq(Nat \cup {NoAtom})
      /\ <<st.pairLeft, b>> \in Seq(Nat \cup {NoAtom})
      /\ <<st.listDepth>> \in Seq(Nat \cup {NoAtom})
      /\ <<st.listDepth + 1>> \in Seq(Nat \cup {NoAtom})
  BY DEF RewriteState, Bytes
<1>2. CASE b \in {SP, Open, Close, Dot}
  BY <1>1, <1>2 DEF Emit, Token, Tokens, Kinds, SP, Open, Close, Dot
<1>3. CASE b \notin {SP, Open, Close, Dot} /\ IsAsciiAtom(b)
  BY <1>1, <1>3 DEF Emit, Token, Tokens, Kinds, SP, Open, Close, Dot
<1>4. CASE b \notin {SP, Open, Close, Dot} /\ ~IsAsciiAtom(b)
  BY <1>1, <1>4 DEF Emit, Token, Tokens, Kinds, Bytes, SP, Open, Close, Dot
<1>5. QED  BY <1>2, <1>3, <1>4

LEMMA ByteOf ==
  ASSUME NEW s \in Seq(Bytes), NEW i \in 1 .. Len(s)
  PROVE  s[i] \in Bytes /\ s[i] \in Nat /\ s[i] <= 255
<1>1. s[i] \in Bytes
  OBVIOUS
<1>2. \A b \in Bytes : b \in Nat /\ b <= 255
  BY DEF Bytes
<1>3. QED  BY <1>1, <1>2

LEMMA UnaryToken ==
  ASSUME NEW b \in Bytes
  PROVE  Token("UNARY", <<b>>) \in Tokens /\ Token("UNARY", <<b>>).kind = "UNARY"
<1>1. <<b>> \in Seq(Nat \cup {NoAtom})
  BY DEF Bytes
<1>2. QED  BY <1>1 DEF Token, Tokens, Kinds

LEMMA RewriteType ==
  ASSUME NEW st \in RewriteState, NEW b \in Bytes
  PROVE  Rewrite(st, b) \in RewriteState
<1> DEFINE Depth1 == IF st.listDepth > 0 THEN st.listDepth - 1 ELSE 0
<1>1. /\ st.listDepth + 1 \in Nat /\ Depth1 \in Nat
      /\ b \in Bytes \cup {NoAtom} /\ st.lastAtom \in Bytes \cup {NoAtom}
  BY DEF RewriteState
<1>2. ASSUME NEW d \in Nat, NEW p \in BOOLEAN
      PROVE  [st EXCEPT !.listDepth = d, !.dotPending = p] \in RewriteState
  <2>1. [st EXCEPT !.listDepth = d] \in RewriteState
    BY DEF RewriteState
  <2>2. QED  BY <2>1 DEF RewriteState
<1>3. ASSUME NEW l \in Bytes \cup {NoAtom}, NEW p \in BOOLEAN
      PROVE  [st EXCEPT !.pairLeft = l, !.dotPending = p] \in RewriteState
  <2>1. [st EXCEPT !.pairLeft = l] \in RewriteState
    BY DEF RewriteState
  <2>2. QED  BY <2>1 DEF RewriteState
<1>4. [st EXCEPT !.dotPending = FALSE, !.lastAtom = b, !.hasLastAtom = TRUE]
        \in RewriteState
  <2>1. [st EXCEPT !.dotPending = FALSE] \in RewriteState
    BY DEF RewriteState
  <2>2. [[st EXCEPT !.dotPending = FALSE] EXCEPT !.lastAtom = b] \in RewriteState
    BY <1>1, <2>1 DEF RewriteState
  <2>3. QED  BY <2>2 DEF RewriteState
<1>5. [st EXCEPT !.dotPending = FALSE] \in RewriteState
  BY DEF RewriteState
<1> HIDE DEF Depth1
<1>6. QED  BY <1>1, <1>2, <1>3, <1>4, <1>5 DEF Rewrite, Depth1

LEMMA NextStateType ==
  ASSUME NEW p \in 0 .. 63, NEW b \in Bytes, NEW tick \in Nat
  PROVE  NextState(p, b, tick) \in 0 .. 63
<1>1. Winner(p, b, tick) \in Nat
  BY DEF Winner, Bytes
<1>2. QED  BY <1>1 DEF NextState, Bytes

LEMMA RefusalType ==
  ASSUME NEW ph, NEW b, NEW e, NEW as
  PROVE  Refusal(ph, b, e, as) \in {"running"} \cup Errors
BY DEF Refusal, Errors

LEMMA CommittedType ==
  ASSUME NEW c
  PROVE  Committed(c) \in {"running"} \cup Errors
BY DEF Committed, Errors

LEMMA TypeInit == Init => TypeOK
<1> SUFFICES ASSUME Init PROVE TypeOK
  OBVIOUS
<1>1. stream \in Seq(Bytes)
  BY GateConstants DEF Init
<1>2. result \in {"running"} \cup Errors
  BY CommittedType DEF Init
<1>3. index \in 0 .. Len(stream)
  BY <1>1 DEF Init
<1>4. QED  BY <1>1, <1>2, <1>3 DEF Init, TypeOK, RewriteState, CreateRewriteState

LEMMA TypeStep == TypeOK /\ [Next]_vars => TypeOK'
<1> SUFFICES ASSUME TypeOK, [Next]_vars PROVE TypeOK'
  OBVIOUS
<1>1. stream \in Seq(Bytes)
  BY GateConstants DEF TypeOK
<1>2. ASSUME NEW e, NEW as, Step(e, as), index < Len(stream)
      PROVE  TypeOK'
  <2>1. Entry \in Bytes /\ index \in Nat /\ index + 1 \in 0 .. Len(stream)
    BY <1>1, <1>2 DEF Entry, TypeOK
  <2>2. Curr \in 0 .. 63
    <3>1. index + 1 \in Nat /\ prev \in 0 .. 63
      BY <2>1 DEF TypeOK
    <3>2. QED  BY <2>1, <3>1, NextStateType DEF Curr
  <2>3. phase' \in {"UNARY", "STRUCTURAL"} /\ transitions' \in Seq(Nat)
    <3>1. Transition
      BY <1>2 DEF Step
    <3>2. PhaseOf(Entry) \in {"UNARY", "STRUCTURAL"}
      BY DEF PhaseOf, TypeOK
    <3>3. Append(transitions, index) \in Seq(Nat) /\ transitions \in Seq(Nat)
      BY <2>1 DEF TypeOK
    <3>4. QED  BY <3>1, <3>2, <3>3 DEF Transition
  <2>4. result' \in {"running"} \cup Errors
    BY <1>2, RefusalType DEF Step
  <2>5. CASE result' = "running"
    <3>1. RewriteStep /\ prev' = Curr /\ index' = index + 1 /\ stream' = stream
      BY <1>2, <2>5 DEF Step
    <3>2. Token("UNARY", <<Entry>>) \in Tokens
      BY <2>1, UnaryToken
    <3>3. emits' \in Seq(Tokens)
      <4>1. Emit(rewrite, Entry) \in Tokens
        BY <2>1, EmitType DEF TypeOK
      <4>2. emits \in Seq(Tokens)
        BY DEF TypeOK, Tokens
      <4>3. QED  BY <3>1, <3>2, <4>1, <4>2 DEF RewriteStep
    <3>4. rewrite' \in RewriteState
      BY <2>1, <3>1, RewriteType DEF RewriteStep, TypeOK
    <3>5. QED  BY <2>1, <2>2, <2>3, <2>4, <3>1, <3>3, <3>4 DEF TypeOK, Tokens
  <2>6. CASE result' # "running"
    BY <1>2, <2>3, <2>4, <2>6 DEF Step, TypeOK
  <2>7. QED  BY <2>5, <2>6
<1>3. CASE Finish
  BY <1>3 DEF Finish, TypeOK
<1>4. CASE UNCHANGED vars
  BY <1>4 DEF vars, TypeOK
<1>5. QED  BY <1>2, <1>3, <1>4 DEF Next

\* Every variable keeps its type; the list depth of the rewriter in
\* particular never falls below zero, whatever the stream closes.
THEOREM TypeCorrect == Spec => []TypeOK
BY TypeInit, TypeStep, PTL DEF Spec

-----------------------------------------------------------------------------
LEMMA PhaseInit == Init => PhaseInv
<1> SUFFICES ASSUME Init PROVE PhaseInv
  OBVIOUS
<1>1. result # "pass"
  BY CommittedType DEF Init, Errors
<1>2. QED  BY <1>1 DEF Init, PhaseInv

LEMMA PhaseStep == TypeOK /\ PhaseInv /\ [Next]_vars => PhaseInv'
<1> SUFFICES ASSUME TypeOK, PhaseInv, [Next]_vars PROVE PhaseInv'
  OBVIOUS
<1> USE DEF PhaseInv
<1>1. ASSUME NEW e, NEW as, Step(e, as), index < Len(stream)
      PROVE  PhaseInv'
  <2>1. /\ stream \in Seq(Bytes) /\ index \in Nat /\ Len(stream) \in Nat
        /\ index + 1 <= Len(stream)
        /\ Entry \in Bytes /\ Entry = stream[index + 1]
        /\ emits \in Seq(Tokens) /\ rewrite \in RewriteState
        /\ UnaryMax \in Bytes /\ UnaryMax \in Nat /\ Entry \in Nat
    <3>1. stream \in Seq(Bytes) /\ index \in Nat /\ Len(stream) \in Nat
      BY GateConstants DEF TypeOK
    <3>2. index + 1 \in 1 .. Len(stream)
      BY <1>1, <3>1
    <3>3. Entry \in Bytes /\ Entry \in Nat /\ Entry = stream[index + 1]
      BY <3>1, <3>2, ByteOf DEF Entry
    <3>4. UnaryMax \in Bytes /\ UnaryMax \in Nat
      BY GateConstants DEF Bytes
    <3>5. QED  BY <3>1, <3>2, <3>3, <3>4 DEF TypeOK, Tokens
  <2>2. /\ stream' = stream /\ result = "running" /\ result' # "pass"
        /\ phase' = PhaseOf(Entry)
        /\ transitions' = IF phase' # phase THEN Append(transitions, index)
                                            ELSE transitions
    BY <1>1, RefusalType DEF Step, Transition, Errors
  <2>3. \A i : Unary(i)' <=> Unary(i)
    BY <2>2 DEF Unary
  <2>4. \/ result' = "running" /\ index' = index + 1 /\ RewriteStep
        \/ result' # "running" /\ index' = index /\ emits' = emits
    BY <1>1 DEF Step
  \* What a new token says of the phase it was rewritten in.
  <2>5. ASSUME RewriteStep
        PROVE  /\ Len(emits') = index + 1
               /\ \A i \in 1 .. index : emits'[i] = emits[i]
               /\ emits'[index + 1].kind = "UNARY" <=> phase' = "UNARY"
    <3>1. CASE phase' = "UNARY"
      <4>1. emits' = Append(emits, Token("UNARY", <<Entry>>))
        BY <2>5, <3>1 DEF RewriteStep
      <4>2. /\ Token("UNARY", <<Entry>>) \in Tokens
            /\ Token("UNARY", <<Entry>>).kind = "UNARY"
        BY <2>1, UnaryToken
      <4>3. QED  BY <2>1, <3>1, <4>1, <4>2
    <3>2. CASE phase' # "UNARY"
      <4>1. emits' = Append(emits, Emit(rewrite, Entry))
        BY <2>5, <3>2 DEF RewriteStep
      <4>2. Emit(rewrite, Entry) \in Tokens /\ Emit(rewrite, Entry).kind # "UNARY"
        BY <2>1, EmitType
      <4>3. QED  BY <2>1, <3>2, <4>1, <4>2
    <3>3. QED  BY <3>1, <3>2
  <2>6. CASE phase' = "UNARY"
    <3>1. /\ phase = "UNARY" /\ Unary(index + 1) /\ transitions' = << >>
          /\ \A i \in 1 .. index : Unary(i)
      <4>1. phase = "UNARY" /\ Entry <= UnaryMax
        BY <2>1, <2>2, <2>6 DEF PhaseOf, TypeOK, Bytes
      <4>2. Unary(index + 1)
        BY <2>1, <4>1 DEF Unary
      <4>3. QED  BY <2>2, <2>6, <4>1, <4>2
    <3>2. QED  BY <2>1, <2>2, <2>3, <2>4, <2>5, <2>6, <3>1
  <2>7. CASE phase = "STRUCTURAL"
    <3>1. phase' = "STRUCTURAL" /\ transitions' = transitions
      BY <2>2, <2>7 DEF PhaseOf
    <3>2. PICK t \in 0 .. Len(stream) - 1 :
             /\ transitions = <<t>> /\ t < index /\ ~Unary(t + 1)
             /\ \A i \in 1 .. t : Unary(i)
      BY <2>2, <2>7
    <3>3. t < index' /\ index' >= index /\ Len(stream) = Len(stream')
      BY <2>1, <2>2, <2>4, <3>2
    <3>4. \A i \in 1 .. index' : emits'[i].kind = "UNARY" <=> \A j \in 1 .. i : Unary(j)
      <4>1. CASE index' = index /\ emits' = emits
        BY <4>1
      <4>2. CASE index' = index + 1 /\ RewriteStep
        <5>1. \A i \in 1 .. index :
                 emits'[i].kind = "UNARY" <=> \A j \in 1 .. i : Unary(j)
          BY <2>5, <4>2
        <5>2. ~(emits'[index + 1].kind = "UNARY")
          BY <2>5, <3>1, <4>2
        <5>3. ~(\A j \in 1 .. index + 1 : Unary(j))
          BY <2>1, <3>2
        <5>4. \A i \in 1 .. index + 1 : i \in 1 .. index \/ i = index + 1
          BY <2>1
        <5>5. QED  BY <4>2, <5>1, <5>2, <5>3, <5>4
      <4>3. QED  BY <2>4, <4>1, <4>2
    <3>5. Len(emits') = index'
      BY <2>4, <2>5
    <3>6. \E u \in 0 .. Len(stream') - 1 :
             /\ transitions' = <<u>>
             /\ u <= index' /\ (result' = "running" => u < index')
             /\ ~Unary(u + 1)'
             /\ \A i \in 1 .. u : Unary(i)'
      <4>1. t \in 0 .. Len(stream') - 1 /\ t <= index' /\ transitions' = <<t>>
        <5>1. t <= index'
          BY <2>1, <2>4, <3>2
        <5>2. QED  BY <3>1, <3>2, <3>3, <5>1
      <4>2. ~Unary(t + 1)' /\ \A i \in 1 .. t : Unary(i)'
        BY <2>3, <3>2
      <4>3. QED  BY <3>3, <4>1, <4>2
    <3>7. QED  BY <2>2, <2>3, <3>1, <3>4, <3>5, <3>6
  <2>8. CASE phase = "UNARY" /\ phase' = "STRUCTURAL"
    <3>1. /\ ~Unary(index + 1) /\ transitions' = <<index>>
          /\ \A i \in 1 .. index : Unary(i)
      <4>1. Entry > UnaryMax
        BY <2>2, <2>8 DEF PhaseOf
      <4>2. ~Unary(index + 1)
        BY <2>1, <4>1 DEF Unary
      <4>3. transitions' = <<index>>
        BY <2>2, <2>8
      <4>4. QED  BY <2>8, <4>2, <4>3
    <3>2. \A i \in 1 .. index' : emits'[i].kind = "UNARY" <=> \A j \in 1 .. i : Unary(j)
      <4>1. CASE index' = index /\ emits' = emits
        BY <4>1
      <4>2. CASE index' = index + 1 /\ RewriteStep
        <5>1. \A i \in 1 .. index :
                 emits'[i].kind = "UNARY" <=> \A j \in 1 .. i : Unary(j)
          BY <2>5, <4>2
        <5>2. ~(emits'[index + 1].kind = "UNARY")
          BY <2>5, <2>8, <4>2
        <5>3. ~(\A j \in 1 .. index + 1 : Unary(j))
          BY <2>1, <3>1
        <5>4. \A i \in 1 .. index + 1 : i \in 1 .. index \/ i = index + 1
          BY <2>1
        <5>5. QED  BY <4>2, <5>1, <5>2, <5>3, <5>4
      <4>3. QED  BY <2>4, <4>1, <4>2
    <3>3. Len(emits') = index'
      BY <2>4, <2>5
    <3>4. \E u \in 0 .. Len(stream') - 1 :
             /\ transitions' = <<u>>
             /\ u <= index' /\ (result' = "running" => u < index')
             /\ ~Unary(u + 1)'
             /\ \A i \in 1 .. u : Unary(i)'
      <4>1. /\ index \in 0 .. Len(stream') - 1 /\ index <= index'
            /\ result' = "running" => index < index'
        BY <2>1, <2>2, <2>4
      <4>2. QED  BY <2>3, <3>1, <4>1
    <3>5. QED  BY <2>2, <2>3, <2>8, <3>2, <3>3, <3>4
  <2>9. QED  BY <2>2, <2>6, <2>7, <2>8 DEF TypeOK, PhaseOf
<1>2. CASE Finish
  BY <1>2 DEF Finish, Unary
<1>3. CASE UNCHANGED vars
  BY <1>3 DEF vars, Unary
<1>4. QED  BY <1>1, <1>2, <1>3 DEF Next

\* Every stream splits at its first byte above the unary bound, and only
\* there; a token is unary exactly when no such byte precedes it.
THEOREM PhaseCorrect == Spec => []PhaseInv
BY TypeInit, TypeStep, PhaseInit, PhaseStep, PTL DEF Spec

-----------------------------------------------------------------------------
LEMMA MinOfNats ==
  ASSUME NEW S, S \subseteq Nat, S # {}
  PROVE  Min(S) \in S /\ \A y \in S : Min(S) <= y
<1>1. PICK x \in S : \A y \in S : ~(<<y, x>> \in OpToRel(<, Nat))
  BY NatLessThanWellFounded, WFMin
<1>2. ASSUME NEW y \in S
      PROVE  x <= y
  <2>1. <<y, x>> \in Nat \X Nat /\ x \in Nat /\ y \in Nat
    BY <1>1
  <2>2. y < x => <<y, x>> \in OpToRel(<, Nat)
    BY <2>1 DEF OpToRel
  <2>3. ~(y < x)
    BY <1>1, <2>2, Zenon
  <2>4. QED  BY <2>1, <2>3
<1>3. QED  BY <1>1, <1>2 DEF Min

LEMMA GatesFromPhase ==
  ASSUME UnaryMax = 47, TypeOK, PhaseInv
  PROVE  GatesAgree
<1> DEFINE c == Contract(stream)
           stops == {i \in 1 .. Len(stream) :
                       stream[i] \in StructuralBytes \/ stream[i] > 47}
<1>1. /\ stream \in Seq(Bytes) /\ index \in 0 .. Len(stream)
      /\ Len(stream) \in Nat
      /\ phase \in {"UNARY", "STRUCTURAL"}
  BY GateConstants DEF TypeOK
<1> HIDE DEF c, stops
<1>2. \A i \in 1 .. Len(stream) :
         /\ Unary(i) <=> stream[i] <= 47
         /\ ~Unary(i) => i \in stops
  <2>1. \A i \in 1 .. Len(stream) : stream[i] \in Nat
    BY <1>1, ByteOf
  <2>2. QED  BY <2>1 DEF Unary, stops
<1>3. stops # {} => /\ Min(stops) \in stops
                    /\ \A y \in stops : Min(stops) <= y
  <2>1. stops \subseteq Nat
    BY DEF stops
  <2>2. QED  BY <2>1, MinOfNats
<1>4. CASE c.code = "OK"
  <2>1. /\ stops # {} /\ c.payload_start = Min(stops)
        /\ stream[Min(stops)] \notin StructuralBytes
    BY <1>4 DEF Contract, Check, c, stops
  <2>2. /\ Min(stops) \in 1 .. Len(stream)
        /\ ~Unary(Min(stops))
        /\ \A j \in 1 .. Min(stops) - 1 : Unary(j)
    <3>1. /\ Min(stops) \in 1 .. Len(stream) /\ Min(stops) \in Nat
          /\ stream[Min(stops)] > 47
      BY <1>3, <2>1 DEF stops
    <3>2. ~Unary(Min(stops))
      BY <1>1, <1>2, <3>1, ByteOf
    <3>3. QED  BY <1>1, <1>2, <1>3, <2>1, <3>1, <3>2
  <2>3. \A i \in 1 .. index : emits[i].kind = "UNARY" <=> i < Min(stops)
    BY <1>1, <2>2 DEF PhaseInv
  <2>4. index >= Min(stops) => transitions = <<Min(stops) - 1>>
    BY <1>1, <2>2 DEF PhaseInv
  <2>5. QED  BY <1>4, <2>1, <2>3, <2>4 DEF GatesAgree, c
<1>5. CASE c.code = "E_UNARY_STRUCTURAL_TOKEN"
  <2>1. /\ stops # {} /\ c.error_index = Min(stops) - 1
        /\ stream[Min(stops)] \in StructuralBytes
    BY <1>5 DEF Contract, Check, c, stops
  <2>2. /\ Min(stops) \in 1 .. Len(stream)
        /\ \A j \in 1 .. Min(stops) : Unary(j)
    <3>1. Min(stops) \in 1 .. Len(stream) /\ Min(stops) \in Nat
      BY <1>3, <2>1 DEF stops
    <3>2. Unary(Min(stops))
      BY <1>2, <2>1, <3>1 DEF StructuralBytes, SP, Open, Close, Dot
    <3>3. \A j \in 1 .. Min(stops) - 1 : Unary(j)
      BY <1>1, <1>2, <1>3, <2>1, <3>1
    <3>4. QED  BY <3>1, <3>2, <3>3
  <2>3. QED  BY <1>1, <1>5, <2>1, <2>2 DEF GatesAgree, c, PhaseInv
<1>6. CASE c.code = "E_NO_STRUCTURAL_TRANSITION"
  <2>1. stops = {}
    BY <1>6 DEF Contract, Check, c, stops
  <2>2. \A i \in 1 .. Len(stream) : Unary(i)
    BY <1>2, <2>1
  <2>3. transitions = << >>
    BY <1>1, <2>2 DEF PhaseInv
  <2>4. QED  BY <1>6, <2>3 DEF GatesAgree, c
<1>7. QED  BY <1>4, <1>5, <1>6 DEF GatesAgree, c

\* With the default unary bound the pair machine and the runtimes agree, for
\* every stream of bytes, on where syntax begins.
THEOREM GatesAlwaysAgree == ASSUME UnaryMax = 47 PROVE Spec => []GatesAgree
<1>1. TypeOK /\ PhaseInv => GatesAgree
  BY GatesFromPhase
<1>2. QED
  BY <1>1, TypeInit, TypeStep, PhaseInit, PhaseStep, PTL DEF Spec

-----------------------------------------------------------------------------
(***************************************************************************)
(* The rewriter.  Everything EmitsAsDeclared says of a token is a function *)
(* of the stream and a position; Tells(st, i) says that a state of the     *)
(* rewriter holds the value these functions have behind position i.        *)
(***************************************************************************)
Surplus(k, i) == Count(Open, k, i) - Count(Close, k, i)
IsDepth(d, i) == /\ \E k \in 1 .. i + 1 : d = Surplus(k, i)
                 /\ \A k \in 1 .. i + 1 : Surplus(k, i) <= d

Tells(st, i) ==
  /\ IsDepth(st.listDepth, i)
  /\ st.hasLastAtom <=> Atoms(i) # {}
  /\ st.hasLastAtom => st.lastAtom = AtomBefore(i + 1)
  /\ st.dotPending <=> DotBefore(i + 1) # {}
  /\ st.dotPending => st.pairLeft = AtomBefore(i + 1)

RewriterInv == result = "running" => Tells(rewrite, index)

LEMMA StructuralNext ==
  ASSUME NEW i \in Nat
  PROVE  /\ \A j \in 1 .. i : Structural(j) => Structural(i)
         /\ Structural(i) => Structural(i + 1)
BY DEF Structural

LEMMA CountType ==
  ASSUME NEW b, NEW k \in Nat, NEW i \in Nat
  PROVE  /\ IsFiniteSet({j \in k .. i : Structural(j) /\ stream[j] = b})
         /\ Count(b, k, i) \in Nat
<1> DEFINE S == {j \in k .. i : Structural(j) /\ stream[j] = b}
<1>1. IsFiniteSet(k .. i) /\ S \in SUBSET (k .. i)
  BY FS_Interval
<1>2. IsFiniteSet(S)
  BY <1>1, FS_Subset
<1>3. Cardinality(S) \in Nat
  BY <1>2, FS_CardinalityType
<1>4. QED  BY <1>2, <1>3 DEF Count

LEMMA SurplusType ==
  ASSUME NEW i \in Nat, NEW k \in 1 .. i + 1
  PROVE  /\ Count(Open, k, i) \in Nat /\ Count(Close, k, i) \in Nat
         /\ Surplus(k, i) \in Int
<1>1. k \in Nat
  OBVIOUS
<1>2. Count(Open, k, i) \in Nat /\ Count(Close, k, i) \in Nat
  BY <1>1, CountType, Zenon
<1>3. QED  BY <1>2 DEF Surplus

\* One more byte is one more of its kind in every run that it ends.
LEMMA CountNext ==
  ASSUME NEW b, NEW i \in Nat, NEW k \in 1 .. i + 1
  PROVE  Count(b, k, i + 1) = IF Structural(i + 1) /\ stream[i + 1] = b
                              THEN Count(b, k, i) + 1 ELSE Count(b, k, i)
<1> DEFINE S == {j \in k .. i : Structural(j) /\ stream[j] = b}
           T == {j \in k .. i + 1 : Structural(j) /\ stream[j] = b}
<1>0. k \in Nat
  OBVIOUS
<1>1. IsFiniteSet(S)
  BY <1>0, CountType, Zenon
<1>5. i + 1 \notin S
  OBVIOUS
<1>2. k .. i + 1 = (k .. i) \cup {i + 1}
  OBVIOUS
<1>3. T = IF Structural(i + 1) /\ stream[i + 1] = b THEN S \cup {i + 1} ELSE S
  BY <1>2
<1>4. Count(b, k, i) = Cardinality(S) /\ Count(b, k, i + 1) = Cardinality(T)
  BY DEF Count
<1> HIDE DEF S, T
<1>6. QED  BY <1>1, <1>3, <1>4, <1>5, FS_AddElement

LEMMA CountNone ==
  ASSUME NEW b, NEW i \in Nat
  PROVE  Count(b, i + 1, i) = 0
<1>1. {j \in i + 1 .. i : Structural(j) /\ stream[j] = b} = {}
  OBVIOUS
<1>2. QED  BY <1>1, FS_EmptySet DEF Count

LEMMA DepthIs ==
  ASSUME NEW i \in Nat, NEW d, IsDepth(d, i)
  PROVE  Depth(i) = d
<1> DEFINE S == {Surplus(k, i) : k \in 1 .. i + 1}
<1>1. \A k \in 1 .. i + 1 : Surplus(k, i) \in Int
  BY SurplusType
<1>2. d \in S /\ \A x \in S : x \in Int /\ d >= x
  BY <1>1 DEF IsDepth
<1>3. Depth(i) = Max(S)
  BY DEF Depth, Surplus
<1> HIDE DEF S
<1>4. QED  BY <1>2, <1>3 DEF Max

\* The depth behind a byte: an opening adds one, a closing takes one away
\* while there is one, and a run that starts behind the byte counts nothing.
LEMMA DepthNext ==
  ASSUME NEW i \in Nat, NEW d \in Nat, IsDepth(d, i)
  PROVE  IsDepth(IF ~Structural(i + 1) THEN d
                 ELSE IF stream[i + 1] = Open THEN d + 1
                 ELSE IF stream[i + 1] = Close THEN IF d > 0 THEN d - 1 ELSE 0
                 ELSE d, i + 1)
<1> DEFINE e == IF ~Structural(i + 1) THEN 0
                ELSE IF stream[i + 1] = Open THEN 1
                ELSE IF stream[i + 1] = Close THEN 0 - 1 ELSE 0
           n == IF d + e > 0 THEN d + e ELSE 0
<1>1. \A k \in 1 .. i + 1 : Surplus(k, i) \in Int
  BY SurplusType
<1>2. \A k \in 1 .. i + 1 : Surplus(k, i + 1) = Surplus(k, i) + e
  <2> SUFFICES ASSUME NEW k \in 1 .. i + 1
               PROVE  Surplus(k, i + 1) = Surplus(k, i) + e
    OBVIOUS
  <2>1. /\ Count(Open, k, i) \in Nat /\ Count(Close, k, i) \in Nat
        /\ Open # Close
    BY SurplusType DEF Open, Close
  <2>2. QED  BY <2>1, CountNext DEF Surplus
<1>3. Surplus(i + 2, i + 1) = 0
  BY CountNone DEF Surplus
<1> HIDE DEF e
<1>4. e \in {0, 1, -1}
  BY DEF e
<1>5. IsDepth(n, i + 1)
  <2>1. PICK k \in 1 .. i + 1 : d = Surplus(k, i)
    BY DEF IsDepth
  <2>2. \A m \in 1 .. i + 2 : m \in 1 .. i + 1 \/ m = i + 2
    OBVIOUS
  <2>3. \A m \in 1 .. i + 1 : Surplus(m, i) <= d
    BY DEF IsDepth
  <2>4. \A m \in 1 .. i + 2 : Surplus(m, i + 1) <= n
    <3>1. ASSUME NEW m \in 1 .. i + 1 PROVE Surplus(m, i + 1) <= n
      <4>1. /\ Surplus(m, i) \in Int /\ Surplus(m, i) <= d
            /\ Surplus(m, i + 1) = Surplus(m, i) + e
        BY <1>1, <1>2, <2>3
      <4>2. QED  BY <1>4, <4>1
    <3>2. Surplus(i + 2, i + 1) <= n
      BY <1>3, <1>4
    <3>3. QED  BY <2>2, <3>1, <3>2
  <2>5. \E m \in 1 .. i + 2 : n = Surplus(m, i + 1)
    <3>1. CASE d + e > 0
      <4>1. n = Surplus(k, i + 1) /\ k \in 1 .. i + 2
        BY <1>2, <2>1, <3>1
      <4>2. QED  BY <4>1
    <3>2. CASE ~(d + e > 0)
      <4>1. n = Surplus(i + 2, i + 1) /\ i + 2 \in 1 .. i + 2
        BY <1>3, <3>2
      <4>2. QED  BY <4>1
    <3>3. QED  BY <3>1, <3>2
  <2>6. (i + 1) + 1 = i + 2
    OBVIOUS
  <2>7. QED  BY <2>4, <2>5, <2>6 DEF IsDepth
<1>6. n = IF ~Structural(i + 1) THEN d
          ELSE IF stream[i + 1] = Open THEN d + 1
          ELSE IF stream[i + 1] = Close THEN IF d > 0 THEN d - 1 ELSE 0
          ELSE d
  BY DEF e
<1> HIDE DEF n
<1>7. QED  BY <1>5, <1>6

LEMMA AtomsNext ==
  ASSUME NEW i \in Nat
  PROVE  Atoms(i + 1) = IF Structural(i + 1) /\ IsAsciiAtom(stream[i + 1])
                        THEN Atoms(i) \cup {i + 1} ELSE Atoms(i)
<1>1. 1 .. i + 1 = (1 .. i) \cup {i + 1}
  OBVIOUS
<1>2. QED  BY <1>1 DEF Atoms

\* A byte that is an atom is behind all atoms before it.
LEMMA NewestAtom ==
  ASSUME NEW i \in Nat, Structural(i + 1), IsAsciiAtom(stream[i + 1])
  PROVE  AtomBefore(i + 2) = stream[i + 1]
<1>1. /\ i + 1 \in Atoms(i + 1)
      /\ \A x \in Atoms(i + 1) : x \in Nat /\ i + 1 >= x
  BY DEF Atoms
<1>2. Max(Atoms(i + 1)) = i + 1
  BY <1>1 DEF Max
<1>3. (i + 2) - 1 = i + 1
  OBVIOUS
<1>4. QED  BY <1>2, <1>3 DEF AtomBefore

LEMMA OldestAtom ==
  ASSUME NEW i \in Nat, Atoms(i + 1) = Atoms(i)
  PROVE  AtomBefore(i + 2) = AtomBefore(i + 1)
<1>1. (i + 2) - 1 = i + 1 /\ (i + 1) - 1 = i
  OBVIOUS
<1>2. QED  BY <1>1 DEF AtomBefore

\* Which byte leaves a dot pending: a dot with an atom before it does, a
\* parenthesis or an atom does not, any other leaves what it finds.
LEMMA DotNext ==
  ASSUME NEW i \in Nat
  PROVE  DotBefore(i + 2) # {} <=>
           IF ~Structural(i + 1) THEN FALSE
           ELSE IF stream[i + 1] \in {Open, Close} \/ IsAsciiAtom(stream[i + 1])
           THEN FALSE
           ELSE IF stream[i + 1] = Dot THEN Atoms(i) # {}
           ELSE DotBefore(i + 1) # {}
<1> DEFINE Clean(d, n) == \A j \in d + 1 .. n :
                            ~IsAsciiAtom(stream[j]) /\ stream[j] \notin {Open, Close}
           Marks(d) == Structural(d) /\ stream[d] = Dot /\ Atoms(d) # {}
<1>1. /\ DotBefore(i + 2) = {d \in 1 .. i + 1 : Marks(d) /\ Clean(d, i + 1)}
      /\ DotBefore(i + 1) = {d \in 1 .. i : Marks(d) /\ Clean(d, i)}
  <2>1. (i + 2) - 1 = i + 1 /\ (i + 1) - 1 = i
    OBVIOUS
  <2>2. QED  BY <2>1 DEF DotBefore
<1>2. \A d \in 1 .. i + 1 : Marks(d) => Structural(i + 1)
  BY StructuralNext
<1>3. ASSUME stream[i + 1] \in {Open, Close} \/ IsAsciiAtom(stream[i + 1])
      PROVE  DotBefore(i + 2) = {}
  <2> SUFFICES ASSUME NEW d \in 1 .. i + 1, Marks(d), Clean(d, i + 1) PROVE FALSE
    BY <1>1
  <2>1. stream[i + 1] # Dot
    BY <1>3 DEF IsAsciiAtom, StructuralBytes, Open, Close, Dot
  <2>2. d # i + 1
    BY <2>1
  <2>3. i + 1 \in d + 1 .. i + 1
    BY <2>2
  <2>4. QED  BY <1>3, <2>3
<1>4. ASSUME Structural(i + 1), stream[i + 1] = Dot
      PROVE  DotBefore(i + 2) # {} <=> Atoms(i) # {}
  <2>1. Atoms(i + 1) = Atoms(i)
    BY <1>4, AtomsNext DEF IsAsciiAtom, StructuralBytes
  <2>2. ASSUME Atoms(i) # {} PROVE DotBefore(i + 2) # {}
    <3>1. Marks(i + 1) /\ Clean(i + 1, i + 1)
      BY <1>4, <2>1, <2>2
    <3>2. QED  BY <1>1, <3>1
  <2>3. ASSUME NEW d \in 1 .. i + 1, Marks(d) PROVE Atoms(i) # {}
    <3>1. Atoms(d) \subseteq Atoms(i + 1)
      BY DEF Atoms
    <3>2. QED  BY <2>1, <2>3, <3>1
  <2> HIDE DEF Marks, Clean
  <2>4. QED  BY <1>1, <2>2, <2>3
<1>5. ASSUME stream[i + 1] # Dot, stream[i + 1] \notin {Open, Close},
             ~IsAsciiAtom(stream[i + 1])
      PROVE  DotBefore(i + 2) = DotBefore(i + 1)
  <2>1. \A d \in 1 .. i : Clean(d, i + 1) <=> Clean(d, i)
    <3> SUFFICES ASSUME NEW d \in 1 .. i PROVE Clean(d, i + 1) <=> Clean(d, i)
      OBVIOUS
    <3>1. d + 1 .. i + 1 = (d + 1 .. i) \cup {i + 1}
      OBVIOUS
    <3>2. QED  BY <1>5, <3>1
  <2>2. ~Marks(i + 1)
    BY <1>5
  <2>3. \A d \in 1 .. i + 1 : d \in 1 .. i \/ d = i + 1
    OBVIOUS
  <2>4. \A d \in 1 .. i : d \in 1 .. i + 1
    OBVIOUS
  <2> HIDE DEF Marks, Clean
  <2>5. QED  BY <1>1, <2>1, <2>2, <2>3, <2>4
<1>6. ASSUME ~Structural(i + 1) PROVE DotBefore(i + 2) = {}
  BY <1>1, <1>2, <1>6
<1>7. QED  BY <1>3, <1>4, <1>5, <1>6

LEMMA RewriteTells ==
  ASSUME NEW st \in RewriteState, NEW i \in Nat, Tells(st, i),
         stream[i + 1] \in Bytes
  PROVE  Tells(IF Structural(i + 1) THEN Rewrite(st, stream[i + 1]) ELSE st, i + 1)
<1> DEFINE b  == stream[i + 1]
           nx == IF Structural(i + 1) THEN Rewrite(st, b) ELSE st
<1>1. /\ st.listDepth \in Nat /\ st.dotPending \in BOOLEAN
      /\ st.hasLastAtom \in BOOLEAN
  BY DEF RewriteState
<1>2. \/ b = Open \/ b = Close \/ b = Dot \/ IsAsciiAtom(b)
      \/ b \notin {Open, Close, Dot} /\ ~IsAsciiAtom(b)
  OBVIOUS
<1>3. /\ Open # Close /\ Open # Dot /\ Close # Dot
      /\ IsAsciiAtom(b) => b \notin {Open, Close, Dot}
  BY DEF Open, Close, Dot, IsAsciiAtom, StructuralBytes
<1> HIDE DEF b
<1>4. nx.listDepth = IF ~Structural(i + 1) THEN st.listDepth
                     ELSE IF b = Open THEN st.listDepth + 1
                     ELSE IF b = Close
                          THEN IF st.listDepth > 0 THEN st.listDepth - 1 ELSE 0
                     ELSE st.listDepth
  BY <1>3 DEF Rewrite, RewriteState
<1>5. IsDepth(nx.listDepth, i + 1)
  BY <1>1, <1>4, DepthNext DEF Tells, b
<1>6. /\ nx.hasLastAtom = IF Structural(i + 1) /\ IsAsciiAtom(b) THEN TRUE
                                                              ELSE st.hasLastAtom
      /\ nx.lastAtom = IF Structural(i + 1) /\ IsAsciiAtom(b) THEN b ELSE st.lastAtom
  BY <1>2, <1>3 DEF Rewrite, RewriteState
<1>7. /\ nx.dotPending = IF ~Structural(i + 1) THEN st.dotPending
                         ELSE IF b \in {Open, Close} \/ IsAsciiAtom(b) THEN FALSE
                         ELSE IF b = Dot THEN st.hasLastAtom ELSE st.dotPending
      /\ nx.pairLeft = IF Structural(i + 1) /\ b = Dot /\ st.hasLastAtom
                       THEN st.lastAtom ELSE st.pairLeft
  BY <1>1, <1>2, <1>3 DEF Rewrite, RewriteState
<1> HIDE DEF nx
<1>8. /\ nx.hasLastAtom <=> Atoms(i + 1) # {}
      /\ nx.hasLastAtom => nx.lastAtom = AtomBefore(i + 2)
  <2>1. CASE Structural(i + 1) /\ IsAsciiAtom(b)
    BY <1>6, <2>1, AtomsNext, NewestAtom DEF b
  <2>2. CASE ~(Structural(i + 1) /\ IsAsciiAtom(b))
    <3>1. Atoms(i + 1) = Atoms(i)
      BY <2>2, AtomsNext DEF b
    <3>2. QED  BY <1>6, <2>2, <3>1, OldestAtom DEF Tells
  <2>3. QED  BY <2>1, <2>2
<1>9. nx.dotPending <=> DotBefore(i + 2) # {}
  <2>1. CASE Structural(i + 1)
    BY <1>7, <2>1, DotNext DEF Tells, b
  <2>2. CASE ~Structural(i + 1)
    <3>1. \A j \in 1 .. i : ~Structural(j)
      BY <2>2, StructuralNext
    <3>2. DotBefore(i + 1) = {}
      <4>1. (i + 1) - 1 = i
        OBVIOUS
      <4>2. QED  BY <3>1, <4>1 DEF DotBefore
    <3>3. QED  BY <1>7, <2>2, <3>2, DotNext DEF Tells
  <2>3. QED  BY <2>1, <2>2
<1>10. nx.dotPending => nx.pairLeft = AtomBefore(i + 2)
  <2>1. SUFFICES ASSUME nx.dotPending PROVE nx.pairLeft = AtomBefore(i + 2)
    OBVIOUS
  <2>2. ~(Structural(i + 1) /\ IsAsciiAtom(b))
    BY <1>7, <2>1
  <2>3. AtomBefore(i + 2) = AtomBefore(i + 1)
    BY <2>2, AtomsNext, OldestAtom DEF b
  <2>4. CASE Structural(i + 1) /\ b = Dot
    BY <1>2, <1>3, <1>7, <2>1, <2>3, <2>4 DEF Tells
  <2>5. CASE ~(Structural(i + 1) /\ b = Dot)
    BY <1>7, <2>1, <2>2, <2>3, <2>5 DEF Tells
  <2>6. QED  BY <2>4, <2>5
<1>11. (i + 1) + 1 = i + 2
  OBVIOUS
<1>12. Tells(nx, i + 1)
  BY <1>5, <1>8, <1>9, <1>10, <1>11 DEF Tells
<1>13. QED  BY <1>12 DEF nx, b

\* What a state that tells the history makes of the next byte.
Declared(i, token) ==
  Structural(i) =>
    /\ stream[i] = Open  => token = Token("LIST-OPEN", <<Depth(i)>>)
    /\ stream[i] = Close => token = Token("LIST-CLOSE", <<Depth(i - 1)>>)
    /\ stream[i] = Dot   =>
         token = IF Atoms(i) = {} THEN Token("DOT-DANGLING", << >>)
                                  ELSE Token("DOT", <<AtomBefore(i)>>)
    /\ IsAsciiAtom(stream[i]) =>
         token = IF DotBefore(i) = {} THEN Token("ASCII", <<stream[i]>>)
                 ELSE Token("PAIR", <<AtomBefore(i), stream[i]>>)

LEMMA EmitDeclared ==
  ASSUME NEW st \in RewriteState, NEW i \in Nat, Tells(st, i),
         stream[i + 1] \in Bytes
  PROVE  Declared(i + 1, Emit(st, stream[i + 1]))
<1> DEFINE b == stream[i + 1]
<1> SUFFICES ASSUME Structural(i + 1) PROVE Declared(i + 1, Emit(st, b))
  BY DEF Declared
<1>1. /\ st.listDepth \in Nat /\ st.dotPending \in BOOLEAN
      /\ st.hasLastAtom \in BOOLEAN
  BY DEF RewriteState
<1>2. /\ Open # Close /\ Open # Dot /\ Close # Dot
      /\ SP \notin {Open, Close, Dot}
      /\ IsAsciiAtom(b) => b \notin {SP, Open, Close, Dot}
  BY DEF SP, Open, Close, Dot, IsAsciiAtom, StructuralBytes
<1>3. Depth(i) = st.listDepth
  BY <1>1, DepthIs DEF Tells
<1>4. b = Open => Depth(i + 1) = st.listDepth + 1
  <2>1. b = Open => IsDepth(st.listDepth + 1, i + 1)
    BY <1>1, DepthNext DEF Tells
  <2>2. QED  BY <1>1, <2>1, DepthIs
<1>5. b = Dot => Atoms(i + 1) = Atoms(i)
  BY <1>2, AtomsNext
<1>6. (i + 1) - 1 = i
  OBVIOUS
<1> HIDE DEF b
<1>7. b = Open => Emit(st, b) = Token("LIST-OPEN", <<Depth(i + 1)>>)
  BY <1>2, <1>4 DEF Emit
<1>8. b = Close => Emit(st, b) = Token("LIST-CLOSE", <<Depth((i + 1) - 1)>>)
  BY <1>2, <1>3, <1>6 DEF Emit
<1>9. b = Dot => Emit(st, b) = IF Atoms(i + 1) = {} THEN Token("DOT-DANGLING", << >>)
                               ELSE Token("DOT", <<AtomBefore(i + 1)>>)
  <2>1. st.hasLastAtom <=> Atoms(i) # {}
    BY DEF Tells
  <2>2. st.hasLastAtom => st.lastAtom = AtomBefore(i + 1)
    BY DEF Tells
  <2>3. b = Dot => Emit(st, b) = IF st.hasLastAtom THEN Token("DOT", <<st.lastAtom>>)
                                 ELSE Token("DOT-DANGLING", << >>)
    BY <1>2 DEF Emit
  <2>4. QED  BY <1>5, <2>1, <2>2, <2>3
<1>10. IsAsciiAtom(b) =>
         Emit(st, b) = IF DotBefore(i + 1) = {} THEN Token("ASCII", <<b>>)
                       ELSE Token("PAIR", <<AtomBefore(i + 1), b>>)
  <2>1. st.dotPending <=> DotBefore(i + 1) # {}
    BY DEF Tells
  <2>2. st.dotPending => st.pairLeft = AtomBefore(i + 1)
    BY DEF Tells
  <2>3. IsAsciiAtom(b) => Emit(st, b) = IF st.dotPending
                                        THEN Token("PAIR", <<st.pairLeft, b>>)
                                        ELSE Token("ASCII", <<b>>)
    BY <1>2 DEF Emit
  <2>4. QED  BY <2>1, <2>2, <2>3
<1>11. QED  BY <1>7, <1>8, <1>9, <1>10 DEF Declared, b

LEMMA RewriterInit == Init => RewriterInv /\ EmitsAsDeclared
<1> SUFFICES ASSUME Init PROVE RewriterInv /\ EmitsAsDeclared
  OBVIOUS
<1>1. index = 0 /\ rewrite = CreateRewriteState
  BY DEF Init
<1>2. Atoms(0) = {} /\ DotBefore(0 + 1) = {}
  BY DEF Atoms, DotBefore
<1>3. IsDepth(0, 0)
  <2>1. Surplus(1, 0) = 0
    <3>1. Count(Open, 0 + 1, 0) = 0 /\ Count(Close, 0 + 1, 0) = 0
      BY CountNone
    <3>2. QED  BY <3>1 DEF Surplus
  <2>2. 1 .. 0 + 1 = {1}
    OBVIOUS
  <2>3. QED  BY <2>1, <2>2 DEF IsDepth
<1>4. Tells(rewrite, index)
  BY <1>1, <1>2, <1>3 DEF Tells, CreateRewriteState
<1>5. QED  BY <1>1, <1>4 DEF RewriterInv, EmitsAsDeclared

LEMMA DeclaredIs ==
  EmitsAsDeclared <=> \A i \in 1 .. index : Declared(i, emits[i])
BY DEF EmitsAsDeclared, Declared

LEMMA SameStream ==
  ASSUME stream' = stream
  PROVE  /\ \A i : Structural(i)' <=> Structural(i)
         /\ \A st, i : Tells(st, i)' <=> Tells(st, i)
         /\ \A i, token : Declared(i, token)' <=> Declared(i, token)
<1>1. \A i : Structural(i)' <=> Structural(i)
  BY DEF Structural, Unary
<1>2. \A i : Atoms(i)' = Atoms(i)
  BY <1>1 DEF Atoms
<1>3. \A i : AtomBefore(i)' = AtomBefore(i)
  BY <1>2 DEF AtomBefore
<1>4. \A i : DotBefore(i)' = DotBefore(i)
  BY <1>1, <1>2 DEF DotBefore
<1>5. \A b, k, i : Count(b, k, i)' = Count(b, k, i)
  BY <1>1 DEF Count
<1>6. \A k, i : Surplus(k, i)' = Surplus(k, i)
  BY <1>5 DEF Surplus
<1>7. \A d, i : IsDepth(d, i)' <=> IsDepth(d, i)
  BY <1>6 DEF IsDepth
<1>8. \A i : Depth(i)' = Depth(i)
  BY <1>5 DEF Depth
<1>9. \A st, i : Tells(st, i)' <=> Tells(st, i)
  BY <1>2, <1>3, <1>4, <1>7 DEF Tells
<1>10. \A i, token : Declared(i, token)' <=> Declared(i, token)
  BY <1>1, <1>2, <1>3, <1>4, <1>8 DEF Declared
<1>11. QED  BY <1>1, <1>9, <1>10

LEMMA RewriterStep ==
  ASSUME TypeOK, PhaseInv, RewriterInv, EmitsAsDeclared, [Next]_vars
  PROVE  RewriterInv' /\ EmitsAsDeclared'
<1>1. ASSUME stream' = stream, index' = index, emits' = emits, rewrite' = rewrite,
             result' = "running" => result = "running"
      PROVE  RewriterInv' /\ EmitsAsDeclared'
  <2>1. \A i \in 1 .. index' : Declared(i, emits'[i])
    BY <1>1, DeclaredIs
  <2>2. \A i \in 1 .. index' : Declared(i, emits[i])'
    BY <1>1, <2>1, SameStream
  <2>3. RewriterInv'
    BY <1>1, SameStream DEF RewriterInv
  <2>4. QED  BY <2>2, <2>3 DEF EmitsAsDeclared, Declared
<1>2. ASSUME NEW e, NEW as, Step(e, as), index < Len(stream), result' = "running"
      PROVE  RewriterInv' /\ EmitsAsDeclared'
  <2>1. /\ result = "running" /\ index' = index + 1 /\ stream' = stream
        /\ RewriteStep
    BY <1>2 DEF Step
  <2>2. /\ stream \in Seq(Bytes) /\ index \in Nat /\ rewrite \in RewriteState
        /\ Entry = stream[index + 1] /\ emits \in Seq(Tokens) /\ Len(emits) = index
    BY GateConstants DEF TypeOK, Entry, Tokens, PhaseInv
  <2>3. index + 1 \in 1 .. Len(stream) /\ stream[index + 1] \in Bytes
    <3>1. index + 1 \in 1 .. Len(stream)
      BY <1>2, <2>2
    <3>2. QED  BY <2>2, <3>1
  <2>4. PhaseInv' /\ phase' \in {"UNARY", "STRUCTURAL"}
    BY TypeStep, PhaseStep DEF TypeOK
  <2>5. phase' = "UNARY" <=> ~Structural(index + 1)
    <3>1. CASE phase' = "UNARY"
      <4>1. \A i \in 1 .. index + 1 : Unary(i)'
        BY <2>1, <2>4, <3>1 DEF PhaseInv
      <4>2. \A i \in 1 .. index + 1 : Unary(i)
        BY <2>1, <4>1 DEF Unary
      <4>3. QED  BY <3>1, <4>2 DEF Structural
    <3>2. CASE phase' = "STRUCTURAL"
      <4>1. PICK t \in 0 .. Len(stream') - 1 : t < index' /\ ~Unary(t + 1)'
        BY <1>2, <2>4, <3>2 DEF PhaseInv
      <4>2. t + 1 \in 1 .. index + 1 /\ ~Unary(t + 1)
        BY <2>1, <2>2, <4>1 DEF Unary
      <4>3. QED  BY <3>2, <4>2 DEF Structural
    <3>3. QED  BY <2>4, <3>1, <3>2
  <2>6. Tells(rewrite, index)
    BY <2>1 DEF RewriterInv
  <2>7. rewrite' = IF Structural(index + 1) THEN Rewrite(rewrite, stream[index + 1])
                                            ELSE rewrite
    BY <2>1, <2>2, <2>5 DEF RewriteStep
  <2>8. Tells(rewrite', index + 1)
    BY <2>2, <2>3, <2>6, <2>7, RewriteTells
  <2>9. PICK token \in Tokens :
          emits' = Append(emits, token) /\ Declared(index + 1, token)
    <3>1. CASE Structural(index + 1)
      <4>1. emits' = Append(emits, Emit(rewrite, stream[index + 1]))
        BY <2>1, <2>2, <2>5, <3>1 DEF RewriteStep
      <4>2. QED  BY <2>2, <2>3, <2>6, <4>1, EmitType, EmitDeclared
    <3>2. CASE ~Structural(index + 1)
      <4>1. emits' = Append(emits, Token("UNARY", <<stream[index + 1]>>))
        BY <2>1, <2>2, <2>5, <3>2 DEF RewriteStep
      <4>2. QED  BY <2>3, <3>2, <4>1, UnaryToken DEF Declared
    <3>3. QED  BY <3>1, <3>2
  <2>10. \A i \in 1 .. index : emits'[i] = emits[i]
    BY <2>2, <2>9
  <2>11. emits'[index + 1] = token
    BY <2>2, <2>9
  <2>12. \A i \in 1 .. index' : i \in 1 .. index \/ i = index + 1
    BY <2>1, <2>2
  <2>13. \A i \in 1 .. index' : Declared(i, emits'[i])
    BY <2>9, <2>10, <2>11, <2>12, DeclaredIs
  <2>14. EmitsAsDeclared'
    <3>1. \A i \in 1 .. index' : Declared(i, emits[i])'
      BY <2>1, <2>13, SameStream
    <3>2. QED  BY <3>1 DEF EmitsAsDeclared, Declared
  <2>15. RewriterInv'
    BY <2>1, <2>8, SameStream DEF RewriterInv
  <2>16. QED  BY <2>14, <2>15
<1>3. ASSUME NEW e, NEW as, Step(e, as), result' # "running"
      PROVE  RewriterInv' /\ EmitsAsDeclared'
  BY <1>1, <1>3 DEF Step
<1>4. CASE Finish
  BY <1>1, <1>4 DEF Finish
<1>5. CASE UNCHANGED vars
  BY <1>1, <1>5 DEF vars
<1>6. QED  BY <1>2, <1>3, <1>4, <1>5 DEF Next

\* Every structural token is the one the stream declares, for every stream of
\* bytes and every unary bound: depths are those of the balanced runs, a pair
\* takes the last atom before its dot, and a parenthesis forgets the dot.
THEOREM EmitsCorrect == Spec => []EmitsAsDeclared
<1>1. Init => TypeOK /\ PhaseInv /\ RewriterInv /\ EmitsAsDeclared
  BY TypeInit, PhaseInit, RewriterInit
<1>2. TypeOK /\ PhaseInv /\ RewriterInv /\ EmitsAsDeclared /\ [Next]_vars
        => (TypeOK /\ PhaseInv /\ RewriterInv /\ EmitsAsDeclared)'
  BY TypeStep, PhaseStep, RewriterStep
<1>3. QED  BY <1>1, <1>2, PTL DEF Spec
=============================================================================
