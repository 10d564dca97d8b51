------------------------------ MODULE BootGate ------------------------------
(***************************************************************************)
(* The boot gate.  A byte stream starts in the unary phase, where no byte  *)
(* may mean syntax; the first byte above 0x2F opens the structural phase.  *)
(* Two implementations read the same streams:                              *)
(*                                                                         *)
(*   pair-machine.c          verify_preheader_contract, run once over the  *)
(*                           whole stream before the reader may start;     *)
(*   header8_runtime.mjs and header_ladder_runtime.mjs                     *)
(*                           evaluateStream, one entry at a time, with the *)
(*                           token rewriter of dot_rewrite.mjs.            *)
(*                                                                         *)
(* The runtimes differ in Prefix and in CommitLength only, and in fields   *)
(* of the steps that no later step reads.  Positions count from 1 here;    *)
(* an index kept by the code counts from 0.                                *)
(***************************************************************************)
EXTENDS Integers, Sequences, FiniteSetsExt

CONSTANTS
  Streams,       \* the byte streams that are fed
  Commitments,   \* values of options.header_commitment
  NoCommitment,  \* the option is absent
  Prefix,        \* HEADER8_PREFIX, or HEADER_PREFIXES[precision]
  CommitLength,  \* length a commitment must have
  UnaryMax,      \* options.preheader_unary_max & 0xff, 0x2f by default
  NoAtom         \* null in pairLeft and lastAtom

Bytes == 0 .. 255

ASSUME GateConstants ==
  /\ Streams \subseteq Seq(Bytes)
  /\ Commitments \ {NoCommitment} \subseteq Seq(Bytes)
  /\ Prefix \in Seq(Bytes)
  /\ CommitLength \in Nat /\ CommitLength >= Len(Prefix)
  /\ UnaryMax \in Bytes
  /\ NoAtom \notin Bytes

SP    == 32
Open  == 40
Close == 41
Dot   == 46
StructuralBytes == {SP, Open, Close, Dot}
CanonicalHeader6 == <<0, 27, 28, 29, 30, 31>>

-----------------------------------------------------------------------------
\* The gate of the pair machine.

Check(code, error, start) ==
  [code |-> code, error_index |-> error, payload_start |-> start]

\* verify_preheader_contract: the loop ends at the first byte that is a
\* structural token or above 0x2F; parsing starts behind an accepted one.
Contract(s) ==
  LET wrong == {i \in 1 .. 6 : s[i] # CanonicalHeader6[i]}
      stops == {i \in 1 .. Len(s) : s[i] \in StructuralBytes \/ s[i] > 47}
  IN  IF Len(s) < 7 THEN Check("E_STREAM_TOO_SHORT", 0, 0)
      ELSE IF wrong # {} THEN Check("E_HEADER_INCONGRUENT", Min(wrong) - 1, 0)
      ELSE IF stops = {} THEN Check("E_NO_STRUCTURAL_TRANSITION", Len(s), 0)
      ELSE IF s[Min(stops)] \in StructuralBytes
           THEN Check("E_UNARY_STRUCTURAL_TOKEN", Min(stops) - 1, 0)
      ELSE Check("OK", 0, Min(stops))

-----------------------------------------------------------------------------
\* The token rewriter.

IsAsciiAtom(b) == b > SP /\ b \notin StructuralBytes /\ b < 128

Token(kind, args) == [kind |-> kind, args |-> args]

RewriteState ==
  [listDepth : Nat, dotPending : BOOLEAN, pairLeft : Bytes \cup {NoAtom},
   lastAtom : Bytes \cup {NoAtom}, hasLastAtom : BOOLEAN]

CreateRewriteState ==
  [listDepth |-> 0, dotPending |-> FALSE, pairLeft |-> NoAtom,
   lastAtom |-> NoAtom, hasLastAtom |-> FALSE]

\* Mutant: a parenthesis leaves a pending dot pending.
RewriteAcrossParen(st, b) ==
  IF b = Open THEN [st EXCEPT !.listDepth = @ + 1]
  ELSE IF b = Close THEN [st EXCEPT !.listDepth = IF @ > 0 THEN @ - 1 ELSE 0]
  ELSE IF b = Dot
       THEN IF st.hasLastAtom
            THEN [st EXCEPT !.pairLeft = st.lastAtom, !.dotPending = TRUE]
            ELSE [st EXCEPT !.dotPending = FALSE]
  ELSE IF IsAsciiAtom(b)
       THEN [st EXCEPT !.dotPending = FALSE, !.lastAtom = b, !.hasLastAtom = TRUE]
  ELSE st

\* Mutant: the depth is not kept from falling below zero.
RewriteNoFloor(st, b) ==
  IF b = Open THEN [st EXCEPT !.listDepth = @ + 1, !.dotPending = FALSE]
  ELSE IF b = Close THEN [st EXCEPT !.listDepth = @ - 1, !.dotPending = FALSE]
  ELSE st

\* The state of the rewriter after a structural byte.
Rewrite(st, b) ==
  IF b = Open THEN [st EXCEPT !.listDepth = @ + 1, !.dotPending = FALSE]
  ELSE IF b = Close
       THEN [st EXCEPT !.listDepth = IF @ > 0 THEN @ - 1 ELSE 0, !.dotPending = FALSE]
  ELSE IF b = Dot
       THEN IF st.hasLastAtom
            THEN [st EXCEPT !.pairLeft = st.lastAtom, !.dotPending = TRUE]
            ELSE [st EXCEPT !.dotPending = FALSE]
  ELSE IF IsAsciiAtom(b)
       THEN [st EXCEPT !.dotPending = FALSE, !.lastAtom = b, !.hasLastAtom = TRUE]
  ELSE st

\* The token it emits for that byte.
Emit(st, b) ==
  IF b = SP THEN Token("SPACE", << >>)
  ELSE IF b = Open THEN Token("LIST-OPEN", <<st.listDepth + 1>>)
  ELSE IF b = Close THEN Token("LIST-CLOSE", <<st.listDepth>>)
  ELSE IF b = Dot
       THEN IF st.hasLastAtom THEN Token("DOT", <<st.lastAtom>>)
                              ELSE Token("DOT-DANGLING", << >>)
  ELSE IF IsAsciiAtom(b)
       THEN IF st.dotPending THEN Token("PAIR", <<st.pairLeft, b>>)
                             ELSE Token("ASCII", <<b>>)
  ELSE IF b \in 128 .. 191 THEN Token("BRAILLE", <<b>>)
  ELSE IF b >= 192 THEN Token("AEGEAN", <<b>>)
  ELSE Token("CONTROL", <<b>>)

-----------------------------------------------------------------------------
VARIABLES
  stream,       \* the stream under evaluation
  index,        \* entries consumed
  phase,        \* "UNARY" or "STRUCTURAL"
  prev,         \* the running state that slot 7 of a header carries
  transitions,  \* out.phase_transitions: the index of each
  emits,        \* out.emits
  rewrite,      \* the state of the rewriter
  result        \* "running", "pass", or the code of the error returned

vars == <<stream, index, phase, prev, transitions, emits, rewrite, result>>

Errors == {"E_HEADER_COMMITMENT_SHAPE", "E_HEADER_COMMITMENT_MISMATCH",
           "E_HEADER_INCONGRUENT", "E_UNARY_STRUCTURAL_INTERPRETATION",
           "E_UNARY_DISALLOWED_TOKEN_INTERPRETATION"}

\* Interpretations an entry may ask for: none, one that starts with
\* "STRUCT.", any other.
Interpretations == {"none", "STRUCT", "other"}

\* validateHeaderCommitment, before the first entry is looked at.
Committed(c) ==
  IF c = NoCommitment THEN "running"
  ELSE IF Len(c) # CommitLength THEN "E_HEADER_COMMITMENT_SHAPE"
  ELSE IF \E i \in 1 .. Len(Prefix) : c[i] # Prefix[i]
       THEN "E_HEADER_COMMITMENT_MISMATCH"
  ELSE "running"

Init ==
  /\ stream \in Streams
  /\ \E c \in Commitments : result = Committed(c)
  /\ index = 0 /\ phase = "UNARY" /\ prev = 0
  /\ transitions = << >> /\ emits = << >>
  /\ rewrite = CreateRewriteState

\* winner and nextState; tick is the number of entries begun.
Winner(p, b, tick) == (p * 17 + b * 29 + tick) % 7
NextState(p, b, tick) == (p + b + Winner(p, b, tick) + 2) % 64

Entry == stream[index + 1]
Curr  == NextState(prev, Entry, index + 1)

\* Mutant: the boundary byte itself counts as structural.
PhaseOfInclusive(b) == IF phase = "UNARY" /\ b >= UnaryMax THEN "STRUCTURAL" ELSE phase

\* The phase an entry is read in; the one that opens the structural phase is
\* the first to be read in it.
PhaseOf(b) == IF phase = "UNARY" /\ b > UnaryMax THEN "STRUCTURAL" ELSE phase

Transition ==
  /\ phase' = PhaseOf(Entry)
  /\ transitions' = IF phase' # phase THEN Append(transitions, index)
                                      ELSE transitions

\* What stops the evaluation at an entry that commits to the header state
\* `expected` and asks for the interpretation `as`.
Refusal(ph, b, expected, as) ==
  IF expected # Curr THEN "E_HEADER_INCONGRUENT"
  ELSE IF ph = "UNARY" /\ as = "STRUCT" THEN "E_UNARY_STRUCTURAL_INTERPRETATION"
  ELSE IF ph = "UNARY" /\ b \in StructuralBytes /\ as # "none"
       THEN "E_UNARY_DISALLOWED_TOKEN_INTERPRETATION"
  ELSE "running"

\* rewriteStep.
RewriteStep ==
  IF phase' = "UNARY"
  THEN /\ emits' = Append(emits, Token("UNARY", <<Entry>>))
       /\ UNCHANGED rewrite
  ELSE /\ emits' = Append(emits, Emit(rewrite, Entry))
       /\ rewrite' = Rewrite(rewrite, Entry)

\* One turn of the loop of evaluateStream.  An entry without expected_header
\* is one that expects the header the runtime computes.
Step(expected, as) ==
  /\ result = "running"
  /\ Transition
  /\ result' = Refusal(phase', Entry, expected, as)
  /\ IF result' = "running"
     THEN RewriteStep /\ prev' = Curr /\ index' = index + 1
     ELSE UNCHANGED <<emits, rewrite, prev, index>>
  /\ UNCHANGED stream

Finish ==
  /\ result = "running"
  /\ index = Len(stream)
  /\ result' = "pass"
  /\ UNCHANGED <<stream, index, phase, prev, transitions, emits, rewrite>>

Next ==
  \/ /\ index < Len(stream)
     /\ \E expected \in {Curr, (Curr + 1) % 64}, as \in Interpretations :
          Step(expected, as)
  \/ Finish

Spec == Init /\ [][Next]_vars

-----------------------------------------------------------------------------
(***************************************************************************)
(* Properties.                                                             *)
(***************************************************************************)

Kinds == {"UNARY", "SPACE", "LIST-OPEN", "LIST-CLOSE", "DOT", "DOT-DANGLING",
          "PAIR", "ASCII", "BRAILLE", "AEGEAN", "CONTROL"}

\* Types; of note, the list depth never falls below zero.
TypeOK ==
  /\ stream \in Seq(Bytes)
  /\ index \in 0 .. Len(stream)
  /\ phase \in {"UNARY", "STRUCTURAL"}
  /\ prev \in 0 .. 63
  /\ transitions \in Seq(Nat)
  /\ emits \in Seq([kind : Kinds, args : Seq(Nat \cup {NoAtom})])
  /\ rewrite \in RewriteState
  /\ result \in {"running", "pass"} \cup Errors

Unary(i) == stream[i] <= UnaryMax

\* Where the phase boundary lies, and that no token on either side of it was
\* rewritten by the rules of the other.
PhaseInv ==
  /\ Len(emits) = index
  /\ \A i \in 1 .. index : emits[i].kind = "UNARY" <=> \A j \in 1 .. i : Unary(j)
  /\ phase = "UNARY" => /\ transitions = << >>
                        /\ \A i \in 1 .. index : Unary(i)
  /\ phase = "STRUCTURAL" =>
       \E t \in 0 .. Len(stream) - 1 :
         /\ transitions = <<t>>
         /\ t <= index /\ (result = "running" => t < index)
         /\ ~Unary(t + 1)
         /\ \A i \in 1 .. t : Unary(i)
  /\ result = "pass" => index = Len(stream)

\* The two gates put the boundary at the same byte: whatever pair-machine.c
\* says of a stream, evaluateStream has followed, for as far as it got.
GatesAgree ==
  LET c == Contract(stream) IN
  /\ c.code = "OK" =>
       /\ index >= c.payload_start => transitions = <<c.payload_start - 1>>
       /\ \A i \in 1 .. index : emits[i].kind = "UNARY" <=> i < c.payload_start
  /\ c.code = "E_UNARY_STRUCTURAL_TOKEN" =>
       \A i \in 1 .. index : i <= c.error_index + 1 => emits[i].kind = "UNARY"
  /\ c.code = "E_NO_STRUCTURAL_TRANSITION" => transitions = << >>

\* The tokens of the structural phase, told from the stream alone.
Structural(i) == \E j \in 1 .. i : ~Unary(j)
Atoms(i) == {j \in 1 .. i : Structural(j) /\ IsAsciiAtom(stream[j])}
AtomBefore(i) == stream[Max(Atoms(i - 1))]

\* The lists open after position i: of all runs of bytes that end there, the
\* largest surplus of "(" over ")".
Count(b, from, to) == Cardinality({j \in from .. to : Structural(j) /\ stream[j] = b})
Depth(i) == Max({Count(Open, k, i) - Count(Close, k, i) : k \in 1 .. i + 1})

\* A dot that has an atom before it, and neither atom nor parenthesis since.
DotBefore(i) ==
  {d \in 1 .. i - 1 : /\ Structural(d) /\ stream[d] = Dot /\ Atoms(d) # {}
                      /\ \A j \in d + 1 .. i - 1 :
                           ~IsAsciiAtom(stream[j]) /\ stream[j] \notin {Open, Close}}

\* The rewriter pairs an atom with the last atom before the dot, reports the
\* depth of the list a parenthesis opens or closes, and forgets a dot at a
\* parenthesis: its four state variables carry exactly this history.
EmitsAsDeclared ==
  \A i \in 1 .. index : Structural(i) =>
    /\ stream[i] = Open  => emits[i] = Token("LIST-OPEN", <<Depth(i)>>)
    /\ stream[i] = Close => emits[i] = Token("LIST-CLOSE", <<Depth(i - 1)>>)
    /\ stream[i] = Dot   =>
         emits[i] = IF Atoms(i) = {} THEN Token("DOT-DANGLING", << >>)
                                     ELSE Token("DOT", <<AtomBefore(i)>>)
    /\ IsAsciiAtom(stream[i]) =>
         emits[i] = IF DotBefore(i) = {} THEN Token("ASCII", <<stream[i]>>)
                    ELSE Token("PAIR", <<AtomBefore(i), stream[i]>>)

=============================================================================
