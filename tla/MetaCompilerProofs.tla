------------------------- MODULE MetaCompilerProofs -------------------------
(***************************************************************************)
(* Proofs about MetaCompiler, for texts of any length and any macros.      *)
(*                                                                         *)
(* The reader: its counters stay within their bounds, and it runs out of   *)
(* stack on lists that are not closed and on no others. The argument       *)
(* relates the number of calls that wait to the tokens consumed (DepthInv) *)
(* and the calls that wait for a parenthesis to the parentheses opened and *)
(* not closed (NestInv).                                                   *)
(*                                                                         *)
(* The compiler: its code never finds too few operands. The argument       *)
(* plans, for the work that is left, the height of the machine's stack     *)
(* before each item (HeightPlan); to compile an item is to put the plan of *)
(* its parts in its place (Splice).  Its code means what was compiled: the *)
(* same argument with the machine itself in the plan (MeansPlan).          *)
(***************************************************************************)
EXTENDS MetaCompiler, TLAPS, FiniteSetTheorems, SequenceTheorems

IsSeq(s) == s \in Seq(Range(s))

\* The frames among the first n of s that wait for a closing parenthesis: the
\* call that reads the rest of a list has left it to the call for that rest.
Owed(s, n) == Cardinality({i \in 1 .. n : s[i].kind # "rest"})

Reading == phase \in {"expr", "list", "value"}
\* The places among the first n of f that hold e.
Tally(f, e, n) == Cardinality({i \in 1 .. n : f[i] = e})

IsTop(kind) == stack # << >> /\ Last(stack).kind = kind

FramesInv ==
  /\ IsSeq(text) /\ Len(text) <= CStack
  /\ IsSeq(stack) /\ IsSeq(code)
  /\ NoDot => \A i \in DOMAIN stack : stack[i].kind # "dotted"

\* Before the end of the text, every call that waits has consumed a token.
DepthInv ==
  at < Len(text) =>
    /\ phase = "list" => Len(stack) <= at - 1
    /\ phase = "expr" /\ IsTop("first") => Len(stack) <= at /\ ~IsNext(Close)
    /\ phase = "expr" /\ ~IsTop("first") => stack = << >> \/ Len(stack) <= at - 1
    /\ phase = "value" /\ IsTop("first") =>
         Len(stack) <= at - 1 \/ (Len(stack) <= at /\ IsNext(Dot))
    /\ phase = "value" /\ ~IsTop("first") => stack = << >> \/ Len(stack) <= at - 1

\* What is opened and not closed is what the calls wait for; an unclosed dotted
\* pair leaves a parenthesis behind.
Due == Owed(stack, Len(stack)) + (IF phase = "list" THEN 1 ELSE 0)

NestInv ==
  Reading =>
    /\ Opened(at) >= Closed(at) + Due
    /\ NoDot => Opened(at) = Closed(at) + Due

\* A list at the start of the text is entered.
StartInv ==
  text # << >> /\ Head(text) = Open /\ at = 0 => phase = "expr" /\ stack = << >>

ReaderInv ==
  /\ ReaderOK /\ FramesInv /\ DepthInv /\ NestInv /\ StartInv /\ CrashIsUnclosed

-----------------------------------------------------------------------------
(* Counting tokens and frames.                                             *)

LEMMA CountNext ==
  ASSUME NEW f, NEW e, NEW k \in Nat
  PROVE  /\ Tally(f, e, k) \in Nat
         /\ Tally(f, e, k + 1) = Tally(f, e, k) + (IF f[k + 1] = e THEN 1 ELSE 0)
<1> DEFINE S(n) == {i \in 1 .. n : f[i] = e}
<1>1. S(k) \subseteq 1 .. k
  OBVIOUS
<1>2. IsFiniteSet(1 .. k)
  BY FS_Interval
<1>3. IsFiniteSet(S(k))
  BY <1>1, <1>2, FS_Subset, Zenon
<1>4. Cardinality(S(k)) \in Nat
  BY <1>3, FS_CardinalityType, Zenon
<1>5. S(k + 1) = S(k) \cup (IF f[k + 1] = e THEN {k + 1} ELSE {})
  OBVIOUS
<1>6. k + 1 \notin S(k)
  OBVIOUS
<1>7. Cardinality(S(k) \cup {k + 1}) = Cardinality(S(k)) + 1
  <2> HIDE DEF S
  <2> QED  BY <1>3, <1>6, FS_AddElement
<1>8. Tally(f, e, k) = Cardinality(S(k)) /\ Tally(f, e, k + 1) = Cardinality(S(k + 1))
  BY DEF Tally
<1>9. CASE f[k + 1] = e
  <2>1. Cardinality(S(k + 1)) = Cardinality(S(k)) + 1
    BY <1>5, <1>7, <1>9, Zenon
  <2> QED  BY <1>4, <1>8, <1>9, <2>1
<1>10. CASE f[k + 1] # e
  <2>1. S(k + 1) = S(k)
    BY <1>5, <1>10
  <2> HIDE DEF S
  <2> QED  BY <1>4, <1>8, <1>10, <2>1
<1> QED  BY <1>9, <1>10

\* Frames are counted one by one, and only their kinds count.
LEMMA OwedNext ==
  ASSUME NEW s, NEW k \in Nat
  PROVE  /\ Owed(s, k) \in Nat
         /\ Owed(s, k + 1) = Owed(s, k) + (IF s[k + 1].kind # "rest" THEN 1 ELSE 0)
<1> DEFINE S(n) == {i \in 1 .. n : s[i].kind # "rest"}
<1>1. S(k) \subseteq 1 .. k
  OBVIOUS
<1>2. IsFiniteSet(1 .. k)
  BY FS_Interval
<1>3. IsFiniteSet(S(k))
  BY <1>1, <1>2, FS_Subset, Zenon
<1>4. Cardinality(S(k)) \in Nat
  BY <1>3, FS_CardinalityType, Zenon
<1>5. S(k + 1) = S(k) \cup (IF s[k + 1].kind # "rest" THEN {k + 1} ELSE {})
  OBVIOUS
<1>6. k + 1 \notin S(k)
  OBVIOUS
<1>7. Cardinality(S(k) \cup {k + 1}) = Cardinality(S(k)) + 1
  <2> HIDE DEF S
  <2> QED  BY <1>3, <1>6, FS_AddElement
<1>8. Owed(s, k) = Cardinality(S(k)) /\ Owed(s, k + 1) = Cardinality(S(k + 1))
  BY DEF Owed
<1>9. CASE s[k + 1].kind # "rest"
  <2>1. Cardinality(S(k + 1)) = Cardinality(S(k)) + 1
    BY <1>5, <1>7, <1>9, Zenon
  <2> QED  BY <1>4, <1>8, <1>9, <2>1
<1>10. CASE s[k + 1].kind = "rest"
  <2>1. S(k + 1) = S(k)
    BY <1>5, <1>10
  <2> HIDE DEF S
  <2> QED  BY <1>4, <1>8, <1>10, <2>1
<1> QED  BY <1>9, <1>10

LEMMA OwedSame ==
  ASSUME NEW s, NEW t, NEW k \in Nat, \A i \in 1 .. k : s[i] = t[i]
  PROVE  Owed(s, k) = Owed(t, k)
<1>1. {i \in 1 .. k : s[i].kind # "rest"} = {i \in 1 .. k : t[i].kind # "rest"}
  OBVIOUS
<1> QED  BY <1>1 DEF Owed

\* A call begins to wait.
LEMMA Pushed ==
  ASSUME NEW s, IsSeq(s), NEW e
  PROVE  /\ IsSeq(Append(s, e)) /\ Append(s, e) # << >>
         /\ Len(s) \in Nat /\ Len(Append(s, e)) = Len(s) + 1
         /\ DOMAIN Append(s, e) = 1 .. Len(s) + 1 /\ DOMAIN s = 1 .. Len(s)
         /\ \A i \in 1 .. Len(s) : Append(s, e)[i] = s[i]
         /\ Append(s, e)[Len(s) + 1] = e /\ Last(Append(s, e)) = e
<1> DEFINE S == Range(s) \cup {e}
<1>1. s \in Seq(S) /\ e \in S
  BY SeqMonotonic DEF IsSeq
<1>2. Append(s, e) \in Seq(S) /\ Append(s, e) # << >> /\ Len(Append(s, e)) = Len(s) + 1
      /\ (\A i \in 1 .. Len(s) : Append(s, e)[i] = s[i])
      /\ Append(s, e)[Len(s) + 1] = e
  BY <1>1, AppendProperties
<1>3. Len(s) \in Nat /\ DOMAIN s = 1 .. Len(s)
  BY <1>1, LenProperties
<1>4. DOMAIN Append(s, e) = 1 .. Len(s) + 1
  BY <1>2, LenProperties
<1>5. IsSeq(Append(s, e))
  BY <1>2, SeqOfRange DEF IsSeq
<1> HIDE DEF S
<1> QED  BY <1>2, <1>3, <1>4, <1>5 DEF Last

\* The innermost call goes on.
LEMMA Popped ==
  ASSUME NEW s, IsSeq(s), s # << >>
  PROVE  /\ IsSeq(Front(s))
         /\ Len(s) \in Nat \ {0} /\ Len(Front(s)) = Len(s) - 1
         /\ DOMAIN Front(s) = 1 .. Len(s) - 1 /\ DOMAIN s = 1 .. Len(s)
         /\ \A i \in 1 .. Len(s) - 1 : Front(s)[i] = s[i]
<1> DEFINE S == Range(s)
<1>1. s \in Seq(S)
  BY DEF IsSeq
<1> HIDE DEF S
<1>2. Len(s) \in Nat \ {0} /\ DOMAIN s = 1 .. Len(s)
  BY <1>1, LenProperties, EmptySeq
<1>3. Front(s) \in Seq(S) /\ Len(Front(s)) = Len(s) - 1
      /\ (\A i \in 1 .. Len(s) - 1 : Front(s)[i] = s[i])
  BY <1>1, <1>2 DEF Front
<1>4. DOMAIN Front(s) = 1 .. Len(s) - 1
  BY <1>3, LenProperties
<1>5. IsSeq(Front(s))
  BY <1>3, SeqOfRange DEF IsSeq
<1> QED  BY <1>2, <1>3, <1>4, <1>5

\* The innermost call goes on and waits for something else.
LEMMA Changed ==
  ASSUME NEW s, IsSeq(s), s # << >>, NEW e
  PROVE  LET t == Append(Front(s), e)
         IN  /\ IsSeq(t) /\ t # << >>
             /\ Len(s) \in Nat \ {0} /\ Len(t) = Len(s)
             /\ DOMAIN t = 1 .. Len(s) /\ DOMAIN s = 1 .. Len(s)
             /\ \A i \in 1 .. Len(s) - 1 : t[i] = s[i]
             /\ t[Len(s)] = e /\ Last(t) = e
<1>1. /\ IsSeq(Front(s)) /\ Len(Front(s)) = Len(s) - 1 /\ Len(s) \in Nat \ {0}
      /\ DOMAIN s = 1 .. Len(s) /\ \A i \in 1 .. Len(s) - 1 : Front(s)[i] = s[i]
  BY Popped
<1> DEFINE f == Front(s)
<1> HIDE DEF f
<1>2. IsSeq(f) /\ Len(f) = Len(s) - 1 /\ \A i \in 1 .. Len(s) - 1 : f[i] = s[i]
  BY <1>1 DEF f
<1>3. /\ IsSeq(Append(f, e)) /\ Append(f, e) # << >> /\ Len(Append(f, e)) = Len(f) + 1
      /\ DOMAIN Append(f, e) = 1 .. Len(f) + 1
      /\ \A i \in 1 .. Len(f) : Append(f, e)[i] = f[i]
      /\ Append(f, e)[Len(f) + 1] = e /\ Last(Append(f, e)) = e
  BY <1>2, Pushed
<1>4. Len(f) + 1 = Len(s)
  BY <1>1, <1>2
<1>5. \A i \in 1 .. Len(s) - 1 : Append(f, e)[i] = s[i]
  BY <1>1, <1>2, <1>3, <1>4
<1> QED  BY <1>1, <1>3, <1>4, <1>5 DEF f

LEMMA OwedPushed ==
  ASSUME NEW s, IsSeq(s), NEW e
  PROVE  /\ Owed(s, Len(s)) \in Nat
         /\ Owed(Append(s, e), Len(s) + 1) =
              Owed(s, Len(s)) + (IF e.kind # "rest" THEN 1 ELSE 0)
<1> DEFINE t == Append(s, e)
           n == Len(s)
<1>1. n \in Nat /\ t[n + 1] = e /\ \A i \in 1 .. n : t[i] = s[i]
  BY Pushed
<1> HIDE DEF t, n
<1>2. Owed(t, n) = Owed(s, n)
  BY <1>1, OwedSame
<1>3. Owed(t, n) \in Nat /\ Owed(t, n + 1) = Owed(t, n) + (IF t[n + 1].kind # "rest" THEN 1 ELSE 0)
  BY <1>1, OwedNext
<1> QED  BY <1>1, <1>2, <1>3, Zenon DEF t, n

LEMMA OwedPopped ==
  ASSUME NEW s, IsSeq(s), s # << >>
  PROVE  /\ Owed(Front(s), Len(s) - 1) \in Nat
         /\ Owed(s, Len(s)) =
              Owed(Front(s), Len(s) - 1) + (IF Last(s).kind # "rest" THEN 1 ELSE 0)
<1> DEFINE t == Front(s)
           n == Len(s) - 1
<1>1. n \in Nat /\ n + 1 = Len(s) /\ \A i \in 1 .. n : t[i] = s[i]
  BY Popped
<1> HIDE DEF t, n
<1>2. Owed(t, n) = Owed(s, n)
  BY <1>1, OwedSame
<1>3. Owed(s, n) \in Nat /\ Owed(s, n + 1) = Owed(s, n) + (IF s[n + 1].kind # "rest" THEN 1 ELSE 0)
  BY <1>1, OwedNext
<1>4. s[n + 1] = Last(s)
  BY <1>1 DEF Last
<1> QED  BY <1>1, <1>2, <1>3, <1>4, Zenon DEF t, n

LEMMA OwedChanged ==
  ASSUME NEW s, IsSeq(s), s # << >>, NEW e
  PROVE  /\ Owed(s, Len(s)) \in Nat
         /\ Owed(Append(Front(s), e), Len(s)) + (IF Last(s).kind # "rest" THEN 1 ELSE 0) =
              Owed(s, Len(s)) + (IF e.kind # "rest" THEN 1 ELSE 0)
<1> DEFINE f == Front(s)
<1>1. IsSeq(f) /\ Len(f) = Len(s) - 1 /\ Len(s) \in Nat \ {0}
  BY Popped
<1> DEFINE a == IF Last(s).kind # "rest" THEN 1 ELSE 0
           b == IF e.kind # "rest" THEN 1 ELSE 0
           n == Owed(f, Len(s) - 1)
<1>2. n \in Nat /\ Owed(s, Len(s)) = n + a
  BY OwedPopped, Zenon
<1> HIDE DEF f
<1>3. Owed(Append(f, e), Len(f) + 1) = Owed(f, Len(f)) + b
  BY <1>1, OwedPushed, Zenon
<1>4. Owed(Append(f, e), Len(s)) = n + b
  <2>1. Len(f) + 1 = Len(s)
    BY <1>1
  <2> HIDE DEF b
  <2> QED  BY <1>1, <1>3, <2>1
<1>5. a \in 0 .. 1 /\ b \in 0 .. 1
  OBVIOUS
<1> HIDE DEF a, b, n
<1>6. Owed(Append(f, e), Len(s)) + a = Owed(s, Len(s)) + b
  BY <1>2, <1>4, <1>5
<1>7. Owed(s, Len(s)) \in Nat
  BY <1>2, <1>5
<1> QED  BY <1>6, <1>7, Zenon DEF f, a, b

-----------------------------------------------------------------------------
(* The invariant holds initially, and every step keeps it.                 *)

LEMMA ReaderInit == Init => ReaderInv
<1> SUFFICES ASSUME Init PROVE ReaderInv
  OBVIOUS
<1>1. IsSeq(text) /\ Len(text) <= CStack /\ CStack \in Nat /\ CodeMax \in Nat
  BY ReaderAssumption DEF Init, IsSeq
<1>2. Len(text) \in Nat
  BY <1>1, LenProperties DEF IsSeq
<1>3. stack = << >> /\ code = << >> /\ at = 0 /\ phase = "expr"
  BY DEF Init
<1>4. IsSeq(stack) /\ IsSeq(code) /\ Len(stack) = 0 /\ Len(code) = 0 /\ DOMAIN stack = {}
  BY <1>3 DEF IsSeq
<1>5. ReaderOK
  BY <1>1, <1>2, <1>3, <1>4 DEF ReaderOK
<1>6. FramesInv
  BY <1>1, <1>4 DEF FramesInv
<1>7. DepthInv
  BY <1>3 DEF DepthInv, IsTop
<1>8. NestInv
  <2>1. {i \in 1 .. 0 : text[i] = Open} = {} /\ {i \in 1 .. 0 : text[i] = Close} = {}
        /\ {i \in 1 .. 0 : stack[i].kind # "rest"} = {}
    OBVIOUS
  <2>2. Opened(0) = 0 /\ Closed(0) = 0 /\ Owed(stack, 0) = 0
    BY <2>1, FS_EmptySet DEF Opened, Closed, Owed
  <2> QED  BY <1>3, <1>4, <2>2 DEF NestInv, Due
<1>9. StartInv /\ CrashIsUnclosed
  BY <1>3 DEF StartInv, CrashIsUnclosed
<1> QED  BY <1>5, <1>6, <1>7, <1>8, <1>9 DEF ReaderInv

\* What every step can rely on.
LEMMA Basics ==
  ASSUME ReaderInv
  PROVE  /\ CStack \in Nat /\ CodeMax \in Nat
         /\ IsSeq(text) /\ Len(text) \in Nat /\ Len(text) <= CStack
         /\ DOMAIN text = 1 .. Len(text)
         /\ at \in Nat /\ at <= Len(text)
         /\ IsSeq(stack) /\ Len(stack) \in Nat /\ Len(stack) <= CStack
         /\ DOMAIN stack = 1 .. Len(stack)
         /\ stack = << >> <=> Len(stack) = 0
         /\ IsSeq(code) /\ Len(code) <= CodeMax
<1>1. CStack \in Nat /\ CodeMax \in Nat
  BY ReaderAssumption
<1>2. /\ IsSeq(text) /\ Len(text) <= CStack /\ IsSeq(stack) /\ IsSeq(code)
      /\ at \in 0 .. Len(text) /\ Len(stack) <= CStack /\ Len(code) <= CodeMax
  BY DEF ReaderInv, FramesInv, ReaderOK
<1>3. Len(text) \in Nat /\ DOMAIN text = 1 .. Len(text)
  BY <1>2, LenProperties DEF IsSeq
<1>4. Len(stack) \in Nat /\ DOMAIN stack = 1 .. Len(stack)
  BY <1>2, LenProperties DEF IsSeq
<1>5. stack = << >> <=> Len(stack) = 0
  BY <1>2, EmptySeq DEF IsSeq
<1> QED  BY <1>1, <1>2, <1>3, <1>4, <1>5

LEMMA Counts ==
  ASSUME NEW k \in Nat
  PROVE  /\ Opened(k) \in Nat /\ Closed(k) \in Nat
         /\ Opened(k + 1) = Opened(k) + (IF text[k + 1] = Open THEN 1 ELSE 0)
         /\ Closed(k + 1) = Closed(k) + (IF text[k + 1] = Close THEN 1 ELSE 0)
<1>1. \A n : Opened(n) = Tally(text, Open, n) /\ Closed(n) = Tally(text, Close, n)
  BY DEF Opened, Closed, Tally
<1> QED  BY <1>1, CountNext

\* A step that consumes nothing, and one that consumes a token.
LEMMA Stayed ==
  ASSUME ReaderInv, text' = text, at' = at
  PROVE  /\ Opened(at) \in Nat /\ Closed(at) \in Nat
         /\ Opened(at)' = Opened(at) /\ Closed(at)' = Closed(at)
<1>1. at \in Nat
  BY Basics
<1>2. Opened(at)' = Opened(at) /\ Closed(at)' = Closed(at)
  BY DEF Opened, Closed, Open, Close
<1> QED  BY <1>1, <1>2, Counts

LEMMA Consumed ==
  ASSUME ReaderInv, text' = text, at' = at + 1
  PROVE  /\ Opened(at) \in Nat /\ Closed(at) \in Nat
         /\ Opened(at)' = Opened(at) + (IF text[at + 1] = Open THEN 1 ELSE 0)
         /\ Closed(at)' = Closed(at) + (IF text[at + 1] = Close THEN 1 ELSE 0)
<1>1. at \in Nat
  BY Basics
<1>2. Opened(at)' = Opened(at + 1) /\ Closed(at)' = Closed(at + 1)
  BY DEF Opened, Closed, Open, Close
<1> QED  BY <1>1, <1>2, Counts

\* The bounds, and the shape of the stack.
LEMMA FramesStep ==
  ASSUME ReaderInv, Next
  PROVE  ReaderOK' /\ FramesInv'
<1>1. /\ CStack \in Nat /\ CodeMax \in Nat
      /\ IsSeq(text) /\ Len(text) \in Nat /\ Len(text) <= CStack
      /\ at \in Nat /\ at <= Len(text)
      /\ IsSeq(stack) /\ Len(stack) \in Nat /\ Len(stack) <= CStack
      /\ DOMAIN stack = 1 .. Len(stack)
      /\ IsSeq(code) /\ Len(code) <= CodeMax
  BY Basics
<1>2. text' = text
  BY DEF Next, ReadOpen, ReadAtom, ReadNothing, ReadClose, ReadFirst, ThenDot, ThenRest, EndPair,
         EndList, Expand, CompileLeaf, CompileBinary, CompileUnary, CompileQuote, CompileData,
         Replace, Emit, Finish
<1>3. at' \in 0 .. Len(text)
  <2>1. at' = at \/ (at' = at + 1 /\ at < Len(text))
    BY DEF Next, ReadOpen, ReadAtom, ReadNothing, ReadClose, ReadFirst, ThenDot, ThenRest,
         EndPair, EndList, Expand, CompileLeaf, CompileBinary, CompileUnary, CompileQuote,
         CompileData, Replace, Emit, Finish, IsNext
  <2> QED  BY <1>1, <2>1
<1>4. phase' \in {"expr", "list", "value", "compile", "done", "crash"}
  BY DEF Next, ReadOpen, ReadAtom, ReadNothing, ReadClose, ReadFirst, ThenDot, ThenRest, EndPair,
         EndList, Expand, CompileLeaf, CompileBinary, CompileUnary, CompileQuote, CompileData,
         Replace, Emit, Finish, Return, Compiling, ReaderInv, ReaderOK
<1> DEFINE Good(s) ==
      /\ IsSeq(s) /\ Len(s) <= CStack
      /\ \A i \in DOMAIN s : s[i].kind \in {"first", "dotted", "rest"}
      /\ NoDot => \A i \in DOMAIN s : s[i].kind # "dotted"
<1>5. Good(stack)
  BY DEF ReaderInv, ReaderOK, FramesInv
<1>6. ASSUME NEW e, Len(stack) < CStack, e.kind = "first" PROVE Good(Append(stack, e))
  <2> DEFINE t == Append(stack, e)
  <2>1. IsSeq(t) /\ Len(t) = Len(stack) + 1 /\ DOMAIN t = 1 .. Len(stack) + 1
        /\ (\A i \in 1 .. Len(stack) : t[i] = stack[i]) /\ t[Len(stack) + 1] = e
    BY <1>1, Pushed
  <2> HIDE DEF t
  <2>2. \A i \in DOMAIN t : t[i].kind = "first" \/ (i \in DOMAIN stack /\ t[i] = stack[i])
    BY <1>1, <1>6, <2>1
  <2>3. Len(t) <= CStack
    BY <1>1, <1>6, <2>1
  <2> QED  BY <1>5, <2>1, <2>2, <2>3 DEF t
<1>7. ASSUME stack # << >> PROVE Good(Front(stack))
  <2> DEFINE t == Front(stack)
  <2>1. IsSeq(t) /\ Len(t) = Len(stack) - 1 /\ DOMAIN t = 1 .. Len(stack) - 1
        /\ (\A i \in 1 .. Len(stack) - 1 : t[i] = stack[i])
    BY <1>1, <1>7, Popped
  <2> HIDE DEF t
  <2>2. \A i \in DOMAIN t : i \in DOMAIN stack /\ t[i] = stack[i]
    BY <1>1, <2>1
  <2>3. Len(t) <= CStack
    BY <1>1, <2>1
  <2> QED  BY <1>5, <2>1, <2>2, <2>3 DEF t
<1>8. ASSUME stack # << >>, NEW e, e.kind \in {"dotted", "rest"}, NoDot => e.kind # "dotted"
      PROVE  Good(Append(Front(stack), e))
  <2> DEFINE t == Append(Front(stack), e)
  <2>1. IsSeq(t) /\ Len(t) = Len(stack) /\ DOMAIN t = 1 .. Len(stack)
        /\ (\A i \in 1 .. Len(stack) - 1 : t[i] = stack[i]) /\ t[Len(stack)] = e
    BY <1>1, <1>8, Changed
  <2> HIDE DEF t
  <2>2. \A i \in DOMAIN t : t[i] = e \/ (i \in DOMAIN stack /\ t[i] = stack[i])
    BY <1>1, <2>1
  <2>3. Len(t) <= CStack
    BY <1>1, <2>1
  <2> QED  BY <1>5, <1>8, <2>1, <2>2, <2>3 DEF t
<1>9. Good(stack')
  <2>1. CASE ReadFirst
    <3>1. stack' = stack \/ (stack' = Append(stack, [kind |-> "first", first |-> NIL])
                               /\ Len(stack) < CStack)
      BY <2>1 DEF ReadFirst, Wait
    <3> HIDE DEF Good
    <3> QED  BY <1>5, <1>6, <3>1
  <2>2. CASE ThenDot
    <3>1. stack # << >> /\ stack' = Append(Front(stack), [kind |-> "dotted", first |-> value])
      BY <2>2 DEF ThenDot, Resume
    <3>2. ~NoDot
      BY <1>1, <2>2, LenProperties DEF ThenDot, IsNext, NoDot, IsSeq
    <3> HIDE DEF Good
    <3> QED  BY <1>8, <3>1, <3>2
  <2>3. CASE ThenRest
    <3>1. stack # << >> /\ stack' = Append(Front(stack), [kind |-> "rest", first |-> value])
      BY <2>3 DEF ThenRest, Resume
    <3> HIDE DEF Good
    <3> QED  BY <1>8, <3>1
  <2>4. CASE EndPair \/ EndList
    <3>1. stack # << >> /\ stack' = Front(stack)
      BY <2>4 DEF EndPair, EndList, Resume
    <3> HIDE DEF Good
    <3> QED  BY <1>7, <3>1
  <2>5. CASE ~(ReadFirst \/ ThenDot \/ ThenRest \/ EndPair \/ EndList)
    <3>1. stack' = stack
      BY <2>5 DEF Next, ReadOpen, ReadAtom, ReadNothing, ReadClose, Expand, CompileLeaf,
             CompileBinary, CompileUnary, CompileQuote, CompileData, Replace, Emit, Finish
    <3> QED  BY <1>5, <3>1
  <2> QED  BY <2>1, <2>2, <2>3, <2>4, <2>5
<1>10. IsSeq(code') /\ Len(code') <= CodeMax
  <2>1. CASE code' = code
    BY <1>1, <2>1
  <2>2. CASE Len(code) < CodeMax /\ code' = Append(code, Head(work)[2])
    <3>1. IsSeq(code') /\ Len(code') = Len(code) + 1 /\ Len(code) \in Nat
      BY <1>1, <2>2, Pushed
    <3> QED  BY <1>1, <2>2, <3>1
  <2> QED  BY <2>1, <2>2 DEF Next, ReadOpen, ReadAtom, ReadNothing, ReadClose, ReadFirst, ThenDot,
         ThenRest, EndPair, EndList, Expand, CompileLeaf, CompileBinary, CompileUnary,
         CompileQuote, CompileData, Replace, Emit, Finish
<1>11. ReaderOK'
  BY <1>2, <1>3, <1>4, <1>9, <1>10 DEF ReaderOK
<1>12. NoDot' = NoDot
  BY <1>2 DEF NoDot, Dot
<1>13. FramesInv'
  BY <1>1, <1>2, <1>9, <1>10, <1>12 DEF FramesInv, IsSeq
<1> QED  BY <1>11, <1>13

\* The calls that wait are no more than the tokens consumed.
LEMMA DepthStep ==
  ASSUME ReaderInv, Next
  PROVE  DepthInv'
<1> SUFFICES ASSUME at' < Len(text)' PROVE DepthInv'
  BY DEF DepthInv
<1>1. /\ Len(text) \in Nat /\ at \in Nat /\ IsSeq(stack) /\ Len(stack) \in Nat
      /\ stack = << >> <=> Len(stack) = 0
  BY Basics
<1>2. DepthInv
  BY DEF ReaderInv
<1>3. CASE ReadOpen
  <2>1. text' = text /\ stack' = stack /\ at' = at + 1 /\ phase' = "list" /\ phase = "expr"
    BY <1>3 DEF ReadOpen
  <2>2. Len(stack) <= at
    BY <1>1, <1>2, <2>1 DEF DepthInv
  <2> QED  BY <1>1, <2>1, <2>2 DEF DepthInv
<1>4. CASE ReadAtom
  <2>1. text' = text /\ stack' = stack /\ at' = at + 1 /\ phase' = "value" /\ phase = "expr"
    BY <1>4 DEF ReadAtom, Return
  <2>2. Len(stack) <= at
    BY <1>1, <1>2, <2>1 DEF DepthInv
  <2> QED  BY <1>1, <2>1, <2>2 DEF DepthInv
<1>5. CASE ReadNothing
  <2>1. /\ text' = text /\ stack' = stack /\ at' = at /\ phase' = "value" /\ phase = "expr"
        /\ at = Len(text) \/ IsNext(Close) \/ IsNext(Dot)
    BY <1>5 DEF ReadNothing, Return
  <2>2. IsTop("first")' = IsTop("first") /\ IsNext(Dot)' = IsNext(Dot)
    BY <2>1 DEF IsTop, Last, IsNext, Dot
  <2>3. at < Len(text)
    BY <2>1
  <2>4. IsTop("first") => Len(stack) <= at /\ ~IsNext(Close)
    BY <1>2, <2>1, <2>3 DEF DepthInv
  <2>5. ~IsTop("first") => stack = << >> \/ Len(stack) <= at - 1
    BY <1>2, <2>1, <2>3 DEF DepthInv
  <2>6. IsTop("first") => Len(stack) <= at /\ IsNext(Dot)
    BY <1>1, <2>1, <2>3, <2>4
  <2> QED  BY <2>1, <2>2, <2>5, <2>6 DEF DepthInv
<1>6. CASE ReadClose
  <2>1. text' = text /\ stack' = stack /\ at' = at + 1 /\ phase' = "value" /\ phase = "list"
    BY <1>6 DEF ReadClose, Return
  <2>2. Len(stack) <= at - 1
    BY <1>1, <1>2, <2>1 DEF DepthInv
  <2> QED  BY <1>1, <2>1, <2>2 DEF DepthInv
<1>7. CASE ReadFirst
  <2>1. text' = text /\ at' = at /\ phase = "list" /\ ~IsNext(Close)
    BY <1>7 DEF ReadFirst
  <2>2. Len(stack) <= at - 1
    BY <1>2, <2>1 DEF DepthInv
  <2>3. CASE phase' = "crash"
    BY <2>3 DEF DepthInv
  <2>4. CASE phase' = "expr" /\ stack' = Append(stack, [kind |-> "first", first |-> NIL])
    <3> DEFINE e == [kind |-> "first", first |-> NIL]
    <3>1. stack' # << >> /\ Len(stack') = Len(stack) + 1 /\ Last(stack') = e
      BY <1>1, <2>4, Pushed
    <3>2. IsTop("first")'
      BY <3>1 DEF IsTop, Last
    <3>3. ~IsNext(Close)'
      BY <2>1 DEF IsNext, Close
    <3>4. Len(stack') <= at'
      BY <1>1, <2>1, <2>2, <3>1
    <3> QED  BY <2>4, <3>2, <3>3, <3>4 DEF DepthInv
  <2> QED  BY <1>7, <2>3, <2>4 DEF ReadFirst, Wait
<1>8. CASE ThenDot
  <2> DEFINE e == [kind |-> "dotted", first |-> value]
  <2>1. /\ text' = text /\ at' = at + 1 /\ phase = "value" /\ phase' = "expr"
        /\ stack # << >> /\ Last(stack).kind = "first" /\ stack' = Append(Front(stack), e)
    BY <1>8 DEF ThenDot, Resume
  <2>2. Len(stack') = Len(stack) /\ Last(stack') = e
    BY <1>1, <2>1, Changed
  <2>3. ~IsTop("first")'
    BY <2>2 DEF IsTop, Last
  <2>4. Len(stack) <= at
    BY <1>1, <1>2, <2>1 DEF DepthInv, IsTop
  <2>5. Len(stack') <= at' - 1
    BY <1>1, <2>1, <2>2, <2>4
  <2> QED  BY <2>1, <2>3, <2>5 DEF DepthInv
<1>9. CASE ThenRest
  <2> DEFINE e == [kind |-> "rest", first |-> value]
  <2>1. /\ text' = text /\ at' = at /\ phase = "value" /\ phase' = "list" /\ ~IsNext(Dot)
        /\ stack # << >> /\ Last(stack).kind = "first" /\ stack' = Append(Front(stack), e)
    BY <1>9 DEF ThenRest, Resume
  <2>2. Len(stack') = Len(stack)
    BY <1>1, <2>1, Changed
  <2>3. Len(stack) <= at - 1
    BY <1>1, <1>2, <2>1 DEF DepthInv, IsTop
  <2>4. Len(stack') <= at' - 1
    BY <2>1, <2>2, <2>3
  <2> QED  BY <2>1, <2>4 DEF DepthInv
<1>10. CASE EndPair \/ EndList
  <2>1. /\ text' = text /\ at' \in {at, at + 1} /\ phase = "value" /\ phase' = "value"
        /\ stack # << >> /\ Last(stack).kind # "first" /\ stack' = Front(stack)
    BY <1>10 DEF EndPair, EndList, Resume, Return
  <2>2. Len(stack') = Len(stack) - 1
    BY <1>1, <2>1, Popped
  <2>3. at < Len(text)
    BY <1>1, <2>1
  <2>4. Len(stack) <= at - 1
    BY <1>2, <2>1, <2>3 DEF DepthInv, IsTop
  <2>5. Len(stack') <= at' - 1
    BY <1>1, <2>1, <2>2, <2>4
  <2> QED  BY <2>1, <2>5 DEF DepthInv
<1>11. CASE ~Reading'
  BY <1>11 DEF DepthInv, Reading
<1>12. ASSUME Expand \/ CompileLeaf \/ CompileBinary \/ CompileUnary \/ CompileQuote
                \/ CompileData \/ Emit \/ Finish
       PROVE  ~Reading'
  BY <1>12 DEF Expand, CompileLeaf, CompileBinary, CompileUnary, CompileQuote, CompileData,
         Compiling, Replace, Emit, Finish, Reading
<1> QED  BY <1>3, <1>4, <1>5, <1>6, <1>7, <1>8, <1>9, <1>10, <1>11, <1>12 DEF Next

\* Parentheses opened and not closed are those the calls wait for.
LEMMA NestStep ==
  ASSUME ReaderInv, Next
  PROVE  NestInv'
<1> SUFFICES ASSUME Reading' PROVE NestInv'
  BY DEF NestInv
<1> DEFINE o == Opened(at)
           c == Closed(at)
           w == Owed(stack, Len(stack))
           w2 == Owed(stack', Len(stack'))
           l == IF phase = "list" THEN 1 ELSE 0
           l2 == IF phase' = "list" THEN 1 ELSE 0
<1>1. IsSeq(stack) /\ Len(stack) \in Nat /\ IsSeq(text) /\ at \in Nat /\ DOMAIN text = 1 .. Len(text)
      /\ Len(text) \in Nat
  BY Basics
<1>2. Reading => o >= c + (w + l) /\ (NoDot => o = c + (w + l))
  BY DEF ReaderInv, NestInv, Due
<1>3. Reading
  BY DEF Next, ReadOpen, ReadAtom, ReadNothing, ReadClose, ReadFirst, ThenDot, ThenRest, EndPair,
         EndList, Resume, Expand, CompileLeaf, CompileBinary, CompileUnary, CompileQuote,
         CompileData, Compiling, Replace, Emit, Finish, Reading
<1>4. w \in Nat
  BY <1>1, OwedPushed
<1>5. text' = text
  BY DEF Next, ReadOpen, ReadAtom, ReadNothing, ReadClose, ReadFirst, ThenDot, ThenRest,
         EndPair, EndList, Expand, CompileLeaf, CompileBinary, CompileUnary, CompileQuote,
         CompileData, Replace, Emit, Finish
<1>6. NoDot' = NoDot
  BY <1>5 DEF NoDot, Dot
<1>7. Due' = w2 + l2
  BY DEF Due
<1>8. SUFFICES o' >= c' + (w2 + l2) /\ (NoDot => o' = c' + (w2 + l2))
  BY <1>6, <1>7 DEF NestInv
<1>9. o \in Nat /\ c \in Nat
  BY <1>1, Counts
<1>10. (at' = at) => o' = o /\ c' = c
  BY <1>5, Stayed
<1>11. (at' = at + 1) =>
         /\ o' = o + (IF text[at + 1] = Open THEN 1 ELSE 0)
         /\ c' = c + (IF text[at + 1] = Close THEN 1 ELSE 0)
  BY <1>5, Consumed
<1>12. Open # Close /\ Dot # Open /\ Dot # Close
  BY DEF Open, Close, Dot
<1>13. CASE ReadOpen
  <2>1. /\ at' = at + 1 /\ text[at + 1] = Open /\ stack' = stack
        /\ phase = "expr" /\ phase' = "list"
    BY <1>13 DEF ReadOpen, IsNext
  <2>2. o' = o + 1 /\ c' = c /\ w2 = w /\ l = 0 /\ l2 = 1
    BY <1>9, <1>11, <1>12, <2>1
  <2> HIDE DEF o, c, w, w2, l, l2
  <2> QED  BY <1>2, <1>3, <1>4, <1>9, <2>2
<1>14. CASE ReadAtom
  <2>1. /\ at' = at + 1 /\ IsAtom(text[at + 1]) /\ stack' = stack
        /\ phase = "expr" /\ phase' = "value"
    BY <1>14 DEF ReadAtom, Return
  <2>2. text[at + 1] # Open /\ text[at + 1] # Close
    BY <2>1 DEF IsAtom, Open, Close
  <2>3. o' = o /\ c' = c /\ w2 = w /\ l = 0 /\ l2 = 0
    BY <1>9, <1>11, <2>1, <2>2
  <2> HIDE DEF o, c, w, w2, l, l2
  <2> QED  BY <1>2, <1>3, <1>4, <1>9, <2>3
<1>15. CASE ReadNothing
  <2>1. at' = at /\ stack' = stack /\ phase = "expr" /\ phase' = "value"
    BY <1>15 DEF ReadNothing, Return
  <2>2. o' = o /\ c' = c /\ w2 = w /\ l = 0 /\ l2 = 0
    BY <1>10, <2>1
  <2> HIDE DEF o, c, w, w2, l, l2
  <2> QED  BY <1>2, <1>3, <2>2
<1>16. CASE ReadClose
  <2>1. /\ at' = at + 1 /\ text[at + 1] = Close /\ stack' = stack
        /\ phase = "list" /\ phase' = "value"
    BY <1>16 DEF ReadClose, Return, IsNext
  <2>2. o' = o /\ c' = c + 1 /\ w2 = w /\ l = 1 /\ l2 = 0
    BY <1>9, <1>11, <1>12, <2>1
  <2> HIDE DEF o, c, w, w2, l, l2
  <2> QED  BY <1>2, <1>3, <1>4, <1>9, <2>2
<1>17. CASE ReadFirst
  <2> DEFINE e == [kind |-> "first", first |-> NIL]
  <2>1. at' = at /\ phase = "list"
    BY <1>17 DEF ReadFirst
  <2>2. phase' = "expr" /\ stack' = Append(stack, e)
    BY <1>17 DEF ReadFirst, Wait, Reading
  <2>3. Len(stack') = Len(stack) + 1 /\ e.kind # "rest"
    BY <1>1, <2>2, Pushed
  <2>4. Owed(Append(stack, e), Len(stack) + 1) = w + 1
    BY <1>1, <2>3, OwedPushed
  <2>5. o' = o /\ c' = c /\ w2 = w + 1 /\ l = 1 /\ l2 = 0
    BY <1>10, <2>1, <2>2, <2>3, <2>4
  <2> HIDE DEF o, c, w, w2, l, l2
  <2> QED  BY <1>2, <1>3, <1>4, <1>9, <2>5
<1>18. CASE ThenDot
  <2> DEFINE e == [kind |-> "dotted", first |-> value]
  <2>1. /\ at' = at + 1 /\ text[at + 1] = Dot /\ phase = "value" /\ phase' = "expr"
        /\ stack # << >> /\ Last(stack).kind = "first" /\ stack' = Append(Front(stack), e)
    BY <1>18 DEF ThenDot, Resume, IsNext
  <2>2. Len(stack') = Len(stack) /\ e.kind # "rest" /\ Last(stack).kind # "rest"
    BY <1>1, <2>1, Changed
  <2>3. Owed(Append(Front(stack), e), Len(stack)) + 1 = w + 1
    BY <1>1, <2>1, <2>2, OwedChanged
  <2>4. w2 + 1 = w + 1
    BY <2>1, <2>2, <2>3
  <2>5. w2 \in Nat
    <3>1. IsSeq(stack')
      BY <1>1, <2>1, Changed
    <3> QED  BY <3>1, OwedPushed
  <2>6. o' = o /\ c' = c /\ l = 0 /\ l2 = 0
    BY <1>9, <1>11, <1>12, <2>1
  <2> HIDE DEF o, c, w, w2, l, l2
  <2> QED  BY <1>2, <1>3, <1>4, <1>9, <2>4, <2>5, <2>6
<1>19. CASE ThenRest
  <2> DEFINE e == [kind |-> "rest", first |-> value]
  <2>1. /\ at' = at /\ phase = "value" /\ phase' = "list"
        /\ stack # << >> /\ Last(stack).kind = "first" /\ stack' = Append(Front(stack), e)
    BY <1>19 DEF ThenRest, Resume
  <2>2. Len(stack') = Len(stack) /\ e.kind = "rest" /\ Last(stack).kind # "rest"
    BY <1>1, <2>1, Changed
  <2>3. Owed(Append(Front(stack), e), Len(stack)) + 1 = w + 0
    BY <1>1, <2>1, <2>2, OwedChanged
  <2>4. w2 + 1 = w
    BY <1>4, <2>1, <2>2, <2>3
  <2>5. w2 \in Nat
    <3>1. IsSeq(stack')
      BY <1>1, <2>1, Changed
    <3> QED  BY <3>1, OwedPushed
  <2>6. o' = o /\ c' = c /\ l = 0 /\ l2 = 1
    BY <1>10, <2>1
  <2> HIDE DEF o, c, w, w2, l, l2
  <2> QED  BY <1>2, <1>3, <1>4, <1>9, <2>4, <2>5, <2>6
<1>20. CASE EndPair
  <2>1. /\ phase = "value" /\ phase' = "value"
        /\ stack # << >> /\ Last(stack).kind = "dotted" /\ stack' = Front(stack)
        /\ IF IsNext(Close) THEN at' = at + 1 /\ text[at + 1] = Close ELSE at' = at
    BY <1>20 DEF EndPair, Resume, Return, IsNext
  <2>2. ~NoDot
    <3>1. Len(stack) \in DOMAIN stack
      BY <1>1, <2>1, Popped
    <3>2. stack[Len(stack)].kind = "dotted"
      BY <2>1 DEF Last
    <3> QED  BY <3>1, <3>2 DEF ReaderInv, FramesInv
  <2>3. Len(stack') = Len(stack) - 1 /\ Last(stack).kind # "rest"
    BY <1>1, <2>1, Popped
  <2>4. Owed(Front(stack), Len(stack) - 1) \in Nat /\ w = Owed(Front(stack), Len(stack) - 1) + 1
    BY <1>1, <2>1, <2>3, OwedPopped
  <2>5. w2 \in Nat /\ w = w2 + 1 /\ l = 0 /\ l2 = 0
    BY <2>1, <2>3, <2>4
  <2>6. o' = o /\ (c' = c \/ c' = c + 1)
    BY <1>9, <1>10, <1>11, <1>12, <2>1
  <2> HIDE DEF o, c, w, w2, l, l2
  <2>7. o >= c + (w + l)
    BY <1>2, <1>3
  <2>8. o' >= c' + (w2 + l2)
    BY <1>9, <2>5, <2>6, <2>7
  <2> QED  BY <2>2, <2>8
<1>21. CASE EndList
  <2>1. /\ at' = at /\ phase = "value" /\ phase' = "value"
        /\ stack # << >> /\ Last(stack).kind = "rest" /\ stack' = Front(stack)
    BY <1>21 DEF EndList, Resume, Return
  <2>2. Len(stack') = Len(stack) - 1
    BY <1>1, <2>1, Popped
  <2>3. Owed(Front(stack), Len(stack) - 1) \in Nat /\ w = Owed(Front(stack), Len(stack) - 1) + 0
    BY <1>1, <2>1, OwedPopped
  <2>4. w2 = w /\ l = 0 /\ l2 = 0
    BY <2>1, <2>2, <2>3
  <2>5. o' = o /\ c' = c
    BY <1>10, <2>1
  <2> HIDE DEF o, c, w, w2, l, l2
  <2> QED  BY <1>2, <1>3, <2>4, <2>5
<1>22. ASSUME Expand \/ CompileLeaf \/ CompileBinary \/ CompileUnary \/ CompileQuote
                \/ CompileData \/ Emit \/ Finish
       PROVE  FALSE
  BY <1>22 DEF Expand, CompileLeaf, CompileBinary, CompileUnary, CompileQuote, CompileData,
         Compiling, Replace, Emit, Finish, Reading
<1> QED  BY <1>13, <1>14, <1>15, <1>16, <1>17, <1>18, <1>19, <1>20, <1>21, <1>22 DEF Next

LEMMA StartStep ==
  ASSUME ReaderInv, Next
  PROVE  StartInv'
<1> SUFFICES ASSUME text' # << >>, Head(text') = Open, at' = 0
             PROVE  phase' = "expr" /\ stack' = << >>
  BY DEF StartInv, Open
<1>1. /\ IsSeq(text) /\ Len(text) \in Nat /\ at \in Nat
  BY Basics
<1>2. text' = text
  BY DEF Next, ReadOpen, ReadAtom, ReadNothing, ReadClose, ReadFirst, ThenDot, ThenRest, EndPair,
         EndList, Expand, CompileLeaf, CompileBinary, CompileUnary, CompileQuote, CompileData,
         Replace, Emit, Finish
<1>3. at' = at \/ at' = at + 1
  BY DEF Next, ReadOpen, ReadAtom, ReadNothing, ReadClose, ReadFirst, ThenDot, ThenRest,
         EndPair, EndList, Expand, CompileLeaf, CompileBinary, CompileUnary, CompileQuote,
         CompileData, Replace, Emit, Finish
<1>4. at' = at /\ at = 0
  BY <1>1, <1>3
<1>5. Head(text) = text[1] /\ Len(text) > 0
  BY <1>1, <1>2, EmptySeq DEF IsSeq
<1>6. phase = "expr" /\ stack = << >>
  BY <1>2, <1>4 DEF ReaderInv, StartInv
\* The list is not entered yet, and entering it would consume the parenthesis.
<1>7. IsNext(Open) /\ ~IsNext(Close) /\ ~IsNext(Dot)
  BY <1>2, <1>4, <1>5 DEF IsNext, Open, Close, Dot
<1>8. ~ReadNothing
  BY <1>4, <1>5, <1>7 DEF ReadNothing
<1>9. ~ReadOpen /\ ~ReadAtom
  BY <1>4 DEF ReadOpen, ReadAtom
<1> QED  BY <1>6, <1>8, <1>9 DEF Next, ReadClose, ReadFirst, ThenDot, ThenRest, EndPair, EndList,
         Resume, Expand, CompileLeaf, CompileBinary, CompileUnary, CompileQuote, CompileData,
         Compiling, Replace, Emit, Finish

LEMMA CrashStep ==
  ASSUME ReaderInv, Next
  PROVE  CrashIsUnclosed'
<1>1. /\ IsSeq(text) /\ Len(text) \in Nat /\ Len(text) <= CStack /\ CStack \in Nat
      /\ at \in Nat /\ at <= Len(text) /\ IsSeq(stack) /\ Len(stack) \in Nat
  BY Basics
<1>2. text' = text
  BY DEF Next, ReadOpen, ReadAtom, ReadNothing, ReadClose, ReadFirst, ThenDot, ThenRest, EndPair,
         EndList, Expand, CompileLeaf, CompileBinary, CompileUnary, CompileQuote, CompileData,
         Replace, Emit, Finish
<1>3. \A k : Opened(k)' = Opened(k) /\ Closed(k)' = Closed(k)
  BY <1>2 DEF Opened, Closed, Open, Close
<1>4. NoDot' = NoDot
  BY <1>2 DEF NoDot, Dot
<1>5. ASSUME phase' = "crash" PROVE Opened(Len(text)) > Closed(Len(text))
  <2>1. CASE phase = "crash"
    BY <2>1 DEF ReaderInv, CrashIsUnclosed
  <2>2. CASE phase # "crash"
    <3>1. phase = "list" /\ ~(Len(stack) < CStack)
      BY <1>5, <2>2 DEF Next, ReadOpen, ReadAtom, ReadNothing, ReadClose, ReadFirst, ThenDot,
         ThenRest, EndPair, EndList, Return, Expand, CompileLeaf, CompileBinary, CompileUnary,
         CompileQuote, CompileData, Replace, Emit, Finish
    <3>2. at = Len(text)
      <4>1. SUFFICES ASSUME at < Len(text) PROVE FALSE
        BY <1>1
      <4>2. Len(stack) <= at - 1
        BY <3>1, <4>1 DEF ReaderInv, DepthInv
      <4> QED  BY <1>1, <3>1, <4>1, <4>2
    <3>3. Opened(at) >= Closed(at) + (Owed(stack, Len(stack)) + 1)
      BY <3>1 DEF ReaderInv, NestInv, Due, Reading
    <3>4. Opened(at) \in Nat /\ Closed(at) \in Nat /\ Owed(stack, Len(stack)) \in Nat
      BY <1>1, Counts, OwedPushed
    <3>5. Opened(at) > Closed(at)
      BY <3>3, <3>4
    <3> QED  BY <3>2, <3>5
  <2> QED  BY <2>1, <2>2
<1>6. ASSUME phase' \in {"compile", "done"}, text # << >>, Head(text) = Open, NoDot
      PROVE  \E k \in 1 .. Len(text) : Opened(k) = Closed(k)
  <2>1. CASE phase \in {"compile", "done"}
    BY <1>6, <2>1 DEF ReaderInv, CrashIsUnclosed
  <2>2. CASE phase \notin {"compile", "done"}
    <3>1. phase = "value" /\ stack = << >>
      BY <1>6, <2>2 DEF Next, ReadOpen, ReadAtom, ReadNothing, ReadClose, ReadFirst, ThenDot,
         ThenRest, EndPair, EndList, Return, Expand, CompileLeaf, CompileBinary, CompileUnary,
         CompileQuote, CompileData, Compiling, Replace, Emit, Finish
    <3>2. at # 0
      BY <1>6, <3>1 DEF ReaderInv, StartInv
    <3>3. Opened(at) = Closed(at) + (Owed(stack, Len(stack)) + 0)
      BY <1>6, <3>1 DEF ReaderInv, NestInv, Due, Reading
    <3>4. Owed(stack, Len(stack)) = 0
      <4>1. {i \in 1 .. 0 : stack[i].kind # "rest"} = {}
        OBVIOUS
      <4>2. Len(stack) = 0
        BY <3>1
      <4> QED  BY <4>1, <4>2, FS_EmptySet DEF Owed
    <3>5. Opened(at) = Closed(at)
      BY <1>1, <3>3, <3>4, Counts
    <3> QED  BY <1>1, <3>2, <3>5
  <2> QED  BY <2>1, <2>2
<1> QED  BY <1>2, <1>3, <1>4, <1>5, <1>6 DEF CrashIsUnclosed, Open

LEMMA Stutter ==
  ASSUME ReaderInv, UNCHANGED vars
  PROVE  ReaderInv'
BY DEF vars, ReaderInv, ReaderOK, FramesInv, DepthInv, NestInv, StartInv, CrashIsUnclosed, IsSeq,
       NoDot, IsTop, IsNext, Due, Reading, Opened, Closed, Owed, Last, Open, Close, Dot

LEMMA ReaderStays == Spec => []ReaderInv
<1>1. ReaderInv /\ Next => ReaderInv'
  BY FramesStep, DepthStep, NestStep, StartStep, CrashStep DEF ReaderInv
<1>2. ReaderInv /\ [Next]_vars => ReaderInv'
  BY <1>1, Stutter
<1> QED  BY ReaderInit, <1>2, PTL DEF Spec

-----------------------------------------------------------------------------
(* The theorems.                                                           *)

\* The reader never leaves the text, no more calls wait than the C stack has
\* room for, and the bytecode is not overrun (pair-machine.c:653-795), whatever
\* the texts and whatever macro_expand does.
THEOREM ReaderCorrect == Spec => []ReaderOK
<1>1. ReaderInv => ReaderOK
  BY DEF ReaderInv
<1> QED  BY <1>1, ReaderStays, PTL

\* The reader runs out of stack on unclosed lists only, and a list without dots
\* is read to the end only if it is closed (pair-machine.c:692-711), for any
\* texts that are no longer than the C stack is deep.
THEOREM CrashesOnlyOnUnclosed == Spec => []CrashIsUnclosed
<1>1. ReaderInv => CrashIsUnclosed
  BY DEF ReaderInv
<1> QED  BY <1>1, ReaderStays, PTL

\* Only values are read, kept and expanded, for every notion of a value that
\* has nil and the atoms of the texts, is closed under cells, and is kept by
\* macro_expand: alloc_cell is given nothing else (pair-machine.c:677-732,
\* 1048-1052).  The smallest such set is that of the finite trees.
THEOREM ValuesStayValues ==
  ASSUME NEW V, NIL \in V,
         \A a, d \in V : Join(a, d) \in V,
         \A v \in V : macro_expand(v) \in V,
         \A t \in Texts : \A i \in DOMAIN t : IsAtom(t[i]) => AtomValue(t[i]) \in V
  PROVE  Spec => [](value \in V /\ source \in V /\ \A i \in DOMAIN stack : stack[i].first \in V)
<1> DEFINE Firsts(s) == \A i \in DOMAIN s : s[i].first \in V
           Inv == text \in Texts /\ value \in V /\ source \in V /\ Firsts(stack)
<1>1. Init => Inv
  BY DEF Init
<1>2. ASSUME Inv, ReaderInv, Next PROVE Inv'
  <2>1. /\ IsSeq(text) /\ Len(text) \in Nat /\ DOMAIN text = 1 .. Len(text) /\ at \in Nat
        /\ IsSeq(stack) /\ Len(stack) \in Nat /\ DOMAIN stack = 1 .. Len(stack)
    BY <1>2, Basics
  <2>2. CASE ReadAtom
    <3>1. at + 1 \in DOMAIN text
      BY <2>1, <2>2 DEF ReadAtom
    <3>2. AtomValue(text[at + 1]) \in V
      BY <1>2, <2>2, <3>1 DEF ReadAtom
    <3> QED  BY <1>2, <2>2, <3>2 DEF ReadAtom, Return
  <2>3. CASE ReadFirst
    <3>1. stack' = stack \/ stack' = Append(stack, [kind |-> "first", first |-> NIL])
      BY <2>3 DEF ReadFirst, Wait
    <3>2. ASSUME NEW e, e.first \in V PROVE Firsts(Append(stack, e))
      <4> DEFINE t == Append(stack, e)
      <4>1. DOMAIN t = 1 .. Len(stack) + 1 /\ (\A i \in 1 .. Len(stack) : t[i] = stack[i])
            /\ t[Len(stack) + 1] = e
        BY <2>1, Pushed
      <4> HIDE DEF t
      <4>2. \A i \in DOMAIN t : t[i] = e \/ (i \in DOMAIN stack /\ t[i] = stack[i])
        BY <2>1, <4>1
      <4> QED  BY <1>2, <3>2, <4>2 DEF t
    <3>3. Firsts(stack')
      <4> HIDE DEF Firsts
      <4> QED  BY <1>2, <3>1, <3>2
    <3> QED  BY <1>2, <2>3, <3>3 DEF ReadFirst
  <2>4. CASE ThenDot \/ ThenRest
    <3>1. stack # << >> /\ UNCHANGED <<text, value, source>>
      BY <2>4 DEF ThenDot, ThenRest, Resume
    <3>2. ASSUME NEW e, e.first \in V PROVE Firsts(Append(Front(stack), e))
      <4> DEFINE t == Append(Front(stack), e)
      <4>1. DOMAIN t = 1 .. Len(stack) /\ (\A i \in 1 .. Len(stack) - 1 : t[i] = stack[i])
            /\ t[Len(stack)] = e
        BY <2>1, <3>1, Changed
      <4> HIDE DEF t
      <4>2. \A i \in DOMAIN t : t[i] = e \/ (i \in DOMAIN stack /\ t[i] = stack[i])
        BY <2>1, <4>1
      <4> QED  BY <1>2, <3>2, <4>2 DEF t
    <3>3. \/ stack' = Append(Front(stack), [kind |-> "dotted", first |-> value])
          \/ stack' = Append(Front(stack), [kind |-> "rest", first |-> value])
      BY <2>4 DEF ThenDot, ThenRest
    <3>4. Firsts(stack')
      <4> HIDE DEF Firsts
      <4> QED  BY <1>2, <3>2, <3>3
    <3> QED  BY <1>2, <3>1, <3>4
  <2>5. CASE EndPair \/ EndList
    <3>1. /\ stack # << >> /\ stack' = Front(stack) /\ UNCHANGED <<text, source>>
          /\ value' = NIL \/ value' = Join(Last(stack).first, value)
      BY <2>5 DEF EndPair, EndList, Resume, Return
    <3>2. Last(stack).first \in V
      BY <1>2, <2>1, <3>1, Popped DEF Last
    <3>3. DOMAIN stack' = 1 .. Len(stack) - 1 /\ (\A i \in 1 .. Len(stack) - 1 : stack'[i] = stack[i])
      BY <2>1, <3>1, Popped
    <3>4. \A i \in DOMAIN stack' : i \in DOMAIN stack /\ stack'[i] = stack[i]
      BY <2>1, <3>3
    <3> QED  BY <1>2, <3>1, <3>2, <3>4
  <2>6. CASE ReadOpen \/ ReadNothing \/ ReadClose
    BY <1>2, <2>6 DEF ReadOpen, ReadNothing, ReadClose, Return
  <2>7. CASE Expand
    BY <1>2, <2>7 DEF Expand
  <2>8. CASE CompileLeaf \/ CompileBinary \/ CompileUnary \/ CompileQuote \/ CompileData \/ Emit
               \/ Finish
    <3>1. UNCHANGED <<text, value, stack, source>>
      BY <2>8 DEF CompileLeaf, CompileBinary, CompileUnary, CompileQuote, CompileData, Replace,
             Emit, Finish
    <3> QED  BY <1>2, <3>1
  <2> QED  BY <1>2, <2>2, <2>3, <2>4, <2>5, <2>6, <2>7, <2>8 DEF Next
<1>3. Inv /\ UNCHANGED vars => Inv'
  BY DEF vars
<1>4. Inv /\ ReaderInv /\ [Next]_vars => Inv'
  BY <1>2, <1>3
<1>5. Inv => value \in V /\ source \in V /\ \A i \in DOMAIN stack : stack[i].first \in V
  OBVIOUS
<1> QED  BY <1>1, <1>4, <1>5, ReaderStays, PTL DEF Spec

-----------------------------------------------------------------------------
(* The runs of the machine.  A run lists what the machine is before each   *)
(* word of the code and after the last; it is the function that Run        *)
(* chooses.                                                                *)

Start == Machine(<< >>, 0)
IsRun(r, c) ==
  r = [n \in 0 .. Len(c) |-> IF n = 0 THEN Start ELSE Executed(r[n - 1], c[n])]

LEMMA RunChosen ==
  ASSUME NEW c, \E r : IsRun(r, c)
  PROVE  \E r : IsRun(r, c) /\ Run(c) = r[Len(c)]
<1> DEFINE R == CHOOSE r : IsRun(r, c)
<1>1. IsRun(R, c)
  BY Zenon
<1>2. Run(c) = R[Len(c)]
  BY Zenon DEF Run, IsRun, Start
<1> QED  BY <1>1, <1>2, Zenon

LEMMA EmptyRun ==
  /\ \E r : IsRun(r, << >>)
  /\ \A r : IsRun(r, << >>) => r[0] = Start
<1> DEFINE e == << >>
<1>1. Len(e) = 0
  OBVIOUS
<1> HIDE DEF e
<1>2. IsRun([n \in 0 .. 0 |-> Start], e)
  <2> HIDE DEF Start
  <2>1. \A n \in 0 .. 0 : n = 0
    OBVIOUS
  <2>2. [n \in 0 .. 0 |-> Start]
           = [n \in 0 .. 0 |-> IF n = 0 THEN Start
                               ELSE Executed([k \in 0 .. 0 |-> Start][n - 1], e[n])]
    BY <2>1
  <2> QED  BY <1>1, <2>2 DEF IsRun
<1>3. ASSUME NEW r, IsRun(r, e) PROVE r[0] = Start
  <2> HIDE DEF Start
  <2>1. 0 \in 0 .. Len(e)
    BY <1>1
  <2> QED  BY <1>3, <2>1 DEF IsRun
<1> QED  BY <1>2, <1>3 DEF e

LEMMA RunPoints ==
  ASSUME NEW c, Len(c) \in Nat, NEW r, IsRun(r, c)
  PROVE  /\ r[0] = Start
         /\ \A n \in 1 .. Len(c) : r[n] = Executed(r[n - 1], c[n])
<1>1. \A n \in 0 .. Len(c) : r[n] = IF n = 0 THEN Start ELSE Executed(r[n - 1], c[n])
  BY DEF IsRun
<1> HIDE DEF Start
<1> QED  BY <1>1

LEMMA RunOfPoints ==
  ASSUME NEW c, Len(c) \in Nat, NEW r, r = [n \in 0 .. Len(c) |-> r[n]], r[0] = Start,
         \A n \in 1 .. Len(c) : r[n] = Executed(r[n - 1], c[n])
  PROVE  IsRun(r, c)
<1> DEFINE q == [n \in 0 .. Len(c) |-> IF n = 0 THEN Start ELSE Executed(r[n - 1], c[n])]
<1>1. \A n \in 0 .. Len(c) : r[n] = IF n = 0 THEN Start ELSE Executed(r[n - 1], c[n])
  OBVIOUS
<1>2. [n \in 0 .. Len(c) |-> r[n]] = q
  BY <1>1
<1> QED  BY <1>2, Zenon DEF IsRun

\* A word more is a step more.
LEMMA RunGrows ==
  ASSUME NEW c, IsSeq(c), NEW w
  PROVE  /\ \A r : IsRun(r, Append(c, w)) =>
              \E q : IsRun(q, c) /\ r[Len(c) + 1] = Executed(q[Len(c)], w)
         /\ (\E q : IsRun(q, c)) => \E r : IsRun(r, Append(c, w))
<1> DEFINE d == Append(c, w)
<1>1. /\ Len(c) \in Nat /\ Len(d) = Len(c) + 1
      /\ \A i \in 1 .. Len(c) : d[i] = c[i]
      /\ d[Len(c) + 1] = w
  BY Pushed
<1> HIDE DEF d
<1>2. ASSUME NEW r, IsRun(r, d)
      PROVE  \E q : IsRun(q, c) /\ r[Len(c) + 1] = Executed(q[Len(c)], w)
  <2> DEFINE q == [n \in 0 .. Len(c) |-> r[n]]
  <2>1. /\ r[0] = Start
        /\ \A n \in 1 .. Len(d) : r[n] = Executed(r[n - 1], d[n])
    BY <1>1, <1>2, RunPoints
  <2>2. q = [n \in 0 .. Len(c) |-> q[n]] /\ (\A n \in 0 .. Len(c) : q[n] = r[n])
    OBVIOUS
  <2> HIDE DEF q, Start
  <2>3. \A n \in 1 .. Len(c) : q[n] = Executed(q[n - 1], c[n])
    BY <1>1, <2>1, <2>2
  <2>4. IsRun(q, c)
    BY <1>1, <2>1, <2>2, <2>3, RunOfPoints
  <2>5. r[Len(c) + 1] = Executed(q[Len(c)], w)
    BY <1>1, <2>1, <2>2
  <2> QED  BY <2>4, <2>5
<1>3. ASSUME NEW q, IsRun(q, c)
      PROVE  \E r : IsRun(r, d)
  <2> DEFINE r == [n \in 0 .. Len(d) |->
                     IF n <= Len(c) THEN q[n] ELSE Executed(q[Len(c)], w)]
  <2>1. /\ q[0] = Start
        /\ \A n \in 1 .. Len(c) : q[n] = Executed(q[n - 1], c[n])
    BY <1>1, <1>3, RunPoints
  <2>2. r = [n \in 0 .. Len(d) |-> r[n]]
    OBVIOUS
  <2>3. /\ \A n \in 0 .. Len(c) : r[n] = q[n]
        /\ r[Len(c) + 1] = Executed(q[Len(c)], w)
    BY <1>1
  <2> HIDE DEF r, Start
  <2>4. \A n \in 1 .. Len(d) : r[n] = Executed(r[n - 1], d[n])
    BY <1>1, <2>1, <2>3
  <2>5. r[0] = Start /\ Len(d) \in Nat
    BY <1>1, <2>1, <2>3
  <2> QED  BY <2>2, <2>4, <2>5, RunOfPoints
<1> QED  BY <1>2, <1>3 DEF d

-----------------------------------------------------------------------------
(* Plans.  The work that is left is a list of items; a plan lists what the *)
(* machine is to be before each of them and after the last.  When the head *)
(* of the work is replaced by items, their plan is put in the place of     *)
(* its own.                                                                *)

\* u is p with q in the place of its first link, for the work t.
Spliced(u, t, w, items, p, q) ==
  /\ u[1] = p[1] /\ u[Len(t) + 1] = p[Len(w) + 1]
  /\ \A i \in 1 .. Len(t) :
       \/ \E k \in 1 .. Len(items) : t[i] = items[k] /\ u[i] = q[k] /\ u[i + 1] = q[k + 1]
       \/ \E j \in 2 .. Len(w) : t[i] = w[j] /\ u[i] = p[j] /\ u[i + 1] = p[j + 1]

LEMMA Splice ==
  ASSUME NEW w, IsSeq(w), w # << >>, NEW items, IsSeq(items), NEW p, NEW q,
         q[1] = p[1], q[Len(items) + 1] = p[2]
  PROVE  /\ IsSeq(items \o Tail(w))
         /\ \E u : Spliced(u, items \o Tail(w), w, items, p, q)
<1> DEFINE t == items \o Tail(w)
           n == Len(items)
           S == Range(w) \cup Range(items)
<1>1. w \in Seq(S) /\ items \in Seq(S)
  BY SeqMonotonic DEF IsSeq
<1> HIDE DEF S
<1>2. /\ Tail(w) \in Seq(S) /\ Len(Tail(w)) = Len(w) - 1 /\ Len(w) \in Nat \ {0}
      /\ \A i \in 1 .. Len(Tail(w)) : Tail(w)[i] = w[i + 1]
  BY <1>1, HeadTailProperties, EmptySeq, LenProperties
<1> DEFINE v == Tail(w)
<1> HIDE DEF v
<1>3. /\ t \in Seq(S) /\ Len(t) = n + Len(v) /\ n \in Nat
      /\ \A i \in 1 .. n + Len(v) : t[i] = IF i <= n THEN items[i] ELSE v[i - n]
  BY <1>1, <1>2, ConcatProperties, LenProperties DEF v
<1>4. /\ Len(v) = Len(w) - 1 /\ Len(v) \in Nat
      /\ \A i \in 1 .. Len(w) - 1 : v[i] = w[i + 1]
  BY <1>2 DEF v
<1>5. IsSeq(t)
  BY <1>3, SeqOfRange DEF IsSeq
<1> HIDE DEF t
<1> DEFINE u == [i \in 1 .. Len(t) + 1 |-> IF i <= n + 1 THEN q[i] ELSE p[i - n + 1]]
<1>6. \A i \in 1 .. Len(t) + 1 : u[i] = IF i <= n + 1 THEN q[i] ELSE p[i - n + 1]
  OBVIOUS
<1>7. q[n + 1] = p[2] /\ q[1] = p[1]
  OBVIOUS
<1> HIDE DEF u, n
<1>8. u[1] = p[1] /\ u[Len(t) + 1] = p[Len(w) + 1]
  <2>1. u[1] = p[1]
    BY <1>2, <1>3, <1>4, <1>6, <1>7
  <2>2. CASE Len(w) = 1
    BY <1>2, <1>3, <1>4, <1>6, <1>7, <2>2
  <2>3. CASE Len(w) # 1
    BY <1>2, <1>3, <1>4, <1>6, <1>7, <2>3
  <2> QED  BY <2>1, <2>2, <2>3
<1>9. ASSUME NEW i \in 1 .. Len(t)
      PROVE  \/ \E k \in 1 .. n : t[i] = items[k] /\ u[i] = q[k] /\ u[i + 1] = q[k + 1]
             \/ \E j \in 2 .. Len(w) : t[i] = w[j] /\ u[i] = p[j] /\ u[i + 1] = p[j + 1]
  <2>1. CASE i <= n
    <3>1. i \in 1 .. n + Len(v) /\ i \in 1 .. n
      BY <1>3, <2>1
    <3>2. t[i] = items[i]
      BY <1>3, <2>1, <3>1
    <3>3. u[i] = q[i] /\ u[i + 1] = q[i + 1]
      BY <1>3, <1>4, <1>6, <2>1
    <3> QED  BY <3>1, <3>2, <3>3
  <2>2. CASE i > n
    <3> DEFINE j == i - n + 1
    <3>1. j \in 2 .. Len(w)
      BY <1>2, <1>3, <1>4, <2>2
    <3>2. t[i] = w[j]
      <4> DEFINE k == i - n
      <4>1. k \in 1 .. Len(w) - 1 /\ j = k + 1 /\ i \in 1 .. n + Len(v)
        BY <1>3, <1>4, <2>2
      <4>2. t[i] = v[k]
        BY <1>3, <2>2, <4>1
      <4> HIDE DEF k, j
      <4> QED  BY <1>4, <4>1, <4>2
    <3>3. u[i] = p[j]
      <4>1. CASE i = n + 1
        BY <1>3, <1>6, <1>7, <4>1
      <4>2. CASE i > n + 1
        BY <1>3, <1>6, <4>2
      <4> QED  BY <1>3, <2>2, <4>1, <4>2
    <3>4. u[i + 1] = p[j + 1]
      BY <1>3, <1>6, <2>2
    <3> HIDE DEF j
    <3> QED  BY <3>1, <3>2, <3>3, <3>4
  <2> QED  BY <1>3, <2>1, <2>2
<1>10. Spliced(u, t, w, items, p, q)
  BY <1>8, <1>9 DEF Spliced, n
<1> QED  BY <1>5, <1>10, Zenon DEF t

\* The head of the work is done.
LEMMA Shift ==
  ASSUME NEW w, IsSeq(w), w # << >>
  PROVE  /\ IsSeq(Tail(w)) /\ Len(Tail(w)) = Len(w) - 1 /\ Len(w) \in Nat \ {0}
         /\ Head(w) = w[1] /\ \A i \in 1 .. Len(w) - 1 : Tail(w)[i] = w[i + 1]
<1> DEFINE S == Range(w)
<1>1. w \in Seq(S)
  BY DEF IsSeq
<1> HIDE DEF S
<1>2. /\ Tail(w) \in Seq(S) /\ Len(Tail(w)) = Len(w) - 1 /\ Len(w) \in Nat \ {0}
      /\ \A i \in 1 .. Len(Tail(w)) : Tail(w)[i] = w[i + 1]
  BY <1>1, HeadTailProperties, EmptySeq, LenProperties
<1>3. IsSeq(Tail(w))
  BY <1>2, SeqOfRange DEF IsSeq
<1> QED  BY <1>2, <1>3

-----------------------------------------------------------------------------
(* What is planned of the machine is its height: how many expressions are  *)
(* on its stack, and whether an operand is due.                            *)

H(h, due) == [h |-> h, due |-> due]

IsMachine(m) == m = Machine(m.s, m.push) /\ IsSeq(m.s) /\ m.push \in {0, 1, 2}
OfHeight(m, a) == IsMachine(m) /\ a = H(Len(m.s), m.push # 0)

WordHeight(w, a, b) ==
  \/ a.due /\ b = H(a.h + 1, FALSE)
  \/ ~a.due /\ w \in {PUSH_INT, PUSH_SYM} /\ b = H(a.h, TRUE)
  \/ ~a.due /\ w = PUSH_NIL /\ b = H(a.h + 1, FALSE)
  \/ ~a.due /\ w \in {5, 6} /\ a.h >= 1 /\ b = H(a.h, FALSE)
  \/ ~a.due /\ w \in {4, 7, 8} /\ a.h >= 2 /\ b = H(a.h - 1, FALSE)
  \/ ~a.due /\ w = RET /\ a.h = 1 /\ b = H(a.h, FALSE)

\* An expression or data leaves one expression more.
LinkHeight(item, a, b) ==
  \/ item[1] = "word" /\ WordHeight(item[2], a, b)
  \/ item[1] \in {"expr", "data"} /\ ~a.due /\ b = H(a.h + 1, FALSE)

HeightPlan(w, a, b) ==
  \E p : /\ p[1] = a /\ p[Len(w) + 1] = b
         /\ \A i \in 1 .. Len(w) : LinkHeight(w[i], p[i], p[i + 1])

\* The operands of an instruction with two: two more expressions than there were.
LEMMA TwoOperands ==
  ASSUME NEW n \in Nat
  PROVE  LET d == H(H(n + 1, FALSE).h + 1, FALSE)
         IN  ~d.due /\ d.h >= 2 /\ H(d.h - 1, FALSE) = H(n + 1, FALSE)
<1> DEFINE d == H(H(n + 1, FALSE).h + 1, FALSE)
<1>1. d.h = (n + 1) + 1 /\ ~d.due
  BY DEF H
<1>2. (n + 1) + 1 >= 2 /\ ((n + 1) + 1) - 1 = n + 1
  OBVIOUS
<1> HIDE DEF d
<1>3. d.h - 1 = n + 1 /\ d.h >= 2
  BY <1>1, <1>2
<1>4. H(d.h - 1, FALSE) = H(n + 1, FALSE)
  BY <1>3, Zenon
<1> QED  BY <1>1, <1>3, <1>4, Zenon DEF d

LEMMA Instructions ==
  /\ Range(UnaryOp) = {5, 6} /\ Range(BinaryOp) = {4, 7, 8}
  /\ \A op \in DOMAIN UnaryOp : UnaryOp[op] \in {5, 6}
  /\ \A op \in DOMAIN BinaryOp : BinaryOp[op] \in {4, 7, 8}
<1>1. DOMAIN UnaryOp = {"car", "cdr"} /\ UnaryOp["car"] = 5 /\ UnaryOp["cdr"] = 6
  BY DEF UnaryOp
<1>2. /\ DOMAIN BinaryOp = {"cons", "add", "mul"}
      /\ BinaryOp["cons"] = 4 /\ BinaryOp["add"] = 7 /\ BinaryOp["mul"] = 8
  BY DEF BinaryOp, CONS
<1> QED  BY <1>1, <1>2 DEF Range

LEMMA Pushes ==
  ASSUME NEW m, IsMachine(m), NEW e, NEW k \in {0, 1, 2}
  PROVE  LET n == Machine(Append(m.s, e), 0)
         IN  IsMachine(n) /\ Len(n.s) = Len(m.s) + 1 /\ n.push = 0
<1>1. IsSeq(Append(m.s, e)) /\ Len(Append(m.s, e)) = Len(m.s) + 1
  BY Pushed DEF IsMachine
<1> QED  BY <1>1 DEF IsMachine, Machine

LEMMA Takes ==
  ASSUME NEW m, IsMachine(m), NEW k \in 1 .. Len(m.s), NEW w
  PROVE  LET n == Taken(m, k, w)
         IN  IsMachine(n) /\ Len(n.s) = Len(m.s) - k + 1 /\ n.push = 0
<1> DEFINE n == Len(m.s)
           S == Range(m.s)
           c == SubSeq(m.s, 1, n - k)
<1>1. m.s \in Seq(S)
  BY DEF IsMachine, IsSeq
<1> HIDE DEF S
<1>2. n \in Nat
  BY <1>1, LenProperties
<1>3. c \in Seq(S) /\ Len(c) = n - k
  BY <1>1, <1>2
<1>4. IsSeq(c)
  BY <1>3, SeqOfRange DEF IsSeq
<1> HIDE DEF c
<1> DEFINE e == Node(w, SubSeq(m.s, n - k + 1, n))
<1> HIDE DEF e
<1>5. IsSeq(Append(c, e)) /\ Len(Append(c, e)) = n - k + 1
  BY <1>2, <1>3, <1>4, Pushed
<1>6. Taken(m, k, w) = Machine(Append(c, e), 0)
  BY DEF Taken, c, e
<1> QED  BY <1>5, <1>6 DEF IsMachine, Machine

\* The machine does what was planned.
LEMMA ExecutedHeight ==
  ASSUME NEW m, NEW a, NEW b, NEW w, OfHeight(m, a), WordHeight(w, a, b)
  PROVE  OfHeight(Executed(m, w), b)
<1> DEFINE x == IF m.push = PUSH_INT THEN Num(w) ELSE Sym(w)
<1>1. /\ IsMachine(m) /\ a.h = Len(m.s) /\ a.due = (m.push # 0) /\ m.ok
      /\ Len(m.s) \in Nat
  BY LenProperties DEF OfHeight, H, IsMachine, Machine, IsSeq
<1>2. IsMachine(m) /\ IsSeq(m.s) /\ m.push \in {0, 1, 2}
  BY <1>1 DEF IsMachine
<1> HIDE DEF x
<1>3. CASE a.due
  <2>1. Executed(m, w) = Machine(Append(m.s, x), 0) /\ b = H(Len(m.s) + 1, FALSE)
    BY <1>1, <1>3 DEF Executed, x, WordHeight
  <2> QED  BY <1>1, <2>1, Pushes DEF OfHeight
<1>4. CASE ~a.due
  <2>1. m.push = 0
    BY <1>1, <1>4
  <2>2. CASE w \in {PUSH_INT, PUSH_SYM} /\ b = H(a.h, TRUE)
    <3>1. Executed(m, w) = Machine(m.s, w)
      BY <1>1, <2>1, <2>2 DEF Executed
    <3>2. w \in {1, 2}
      BY <2>2 DEF PUSH_INT, PUSH_SYM
    <3>3. IsMachine(Machine(m.s, w))
      BY <1>2, <3>2 DEF IsMachine, Machine
    <3>4. Machine(m.s, w).s = m.s /\ Machine(m.s, w).push # 0
      BY <3>2 DEF Machine
    <3> QED  BY <1>1, <2>2, <3>1, <3>3, <3>4 DEF OfHeight
  <2>3. CASE w = PUSH_NIL /\ b = H(a.h + 1, FALSE)
    <3>1. Executed(m, w) = Machine(Append(m.s, NIL), 0)
      BY <1>1, <2>1, <2>3 DEF Executed, PUSH_INT, PUSH_SYM, PUSH_NIL
    <3> QED  BY <1>1, <2>3, <3>1, Pushes DEF OfHeight
  <2>4. CASE w \in {5, 6} /\ a.h >= 1 /\ b = H(a.h, FALSE)
    <3>1. Executed(m, w) = Taken(m, 1, w)
      BY <1>1, <2>1, <2>4, Instructions DEF Executed, PUSH_INT, PUSH_SYM, PUSH_NIL
    <3>2. 1 \in 1 .. Len(m.s) /\ Len(m.s) - 1 + 1 = Len(m.s)
      BY <1>1, <2>4
    <3>3. IsMachine(Taken(m, 1, w)) /\ Len(Taken(m, 1, w).s) = a.h /\ Taken(m, 1, w).push = 0
      BY <1>1, <3>2, Takes
    <3>4. (Taken(m, 1, w).push # 0) = FALSE
      BY <3>3
    <3> QED  BY <2>4, <3>1, <3>3, <3>4, Zenon DEF OfHeight
  <2>5. CASE w \in {4, 7, 8} /\ a.h >= 2 /\ b = H(a.h - 1, FALSE)
    <3>1. Executed(m, w) = Taken(m, 2, w)
      BY <1>1, <2>1, <2>5, Instructions DEF Executed, PUSH_INT, PUSH_SYM, PUSH_NIL
    <3>2. 2 \in 1 .. Len(m.s) /\ Len(m.s) - 2 + 1 = Len(m.s) - 1
      BY <1>1, <2>5
    <3>3. /\ IsMachine(Taken(m, 2, w)) /\ Len(Taken(m, 2, w).s) = a.h - 1
          /\ Taken(m, 2, w).push = 0
      BY <1>1, <3>2, Takes
    <3>4. (Taken(m, 2, w).push # 0) = FALSE
      BY <3>3
    <3> QED  BY <2>5, <3>1, <3>3, <3>4, Zenon DEF OfHeight
  <2>6. CASE w = RET /\ a.h = 1 /\ b = H(a.h, FALSE)
    <3>1. Executed(m, w) = m
      BY <1>1, <2>1, <2>6, Instructions DEF Executed, PUSH_INT, PUSH_SYM, PUSH_NIL, RET
    <3> QED  BY <1>1, <2>1, <2>6, <3>1 DEF OfHeight
  <2> QED  BY <1>4, <2>2, <2>3, <2>4, <2>5, <2>6, Zenon DEF WordHeight
<1> QED  BY <1>3, <1>4

\* The head of the work is replaced.
LEMMA HeightReplaced ==
  ASSUME NEW w, IsSeq(w), w # << >>, NEW items, IsSeq(items), NEW a, NEW z,
         HeightPlan(w, a, z),
         \A b : LinkHeight(Head(w), a, b) => HeightPlan(items, a, b)
  PROVE  HeightPlan(items \o Tail(w), a, z)
<1>1. PICK p : /\ p[1] = a /\ p[Len(w) + 1] = z
               /\ \A i \in 1 .. Len(w) : LinkHeight(w[i], p[i], p[i + 1])
  BY Zenon DEF HeightPlan
<1>2. Head(w) = w[1] /\ Len(w) \in Nat \ {0}
  BY Shift
<1>3. 1 \in 1 .. Len(w) /\ 1 + 1 = 2
  BY <1>2
<1>4. LinkHeight(Head(w), a, p[2])
  BY <1>1, <1>2, <1>3
<1>5. PICK q : /\ q[1] = a /\ q[Len(items) + 1] = p[2]
               /\ \A k \in 1 .. Len(items) : LinkHeight(items[k], q[k], q[k + 1])
  BY <1>4, Zenon DEF HeightPlan
<1> DEFINE t == items \o Tail(w)
<1>6. PICK u : Spliced(u, t, w, items, p, q)
  <2>1. q[1] = p[1] /\ q[Len(items) + 1] = p[2]
    BY <1>1, <1>5
  <2> QED  BY <2>1, Splice, Zenon
<1> HIDE DEF t
<1>7. \A j \in 2 .. Len(w) : j \in 1 .. Len(w)
  BY <1>2
<1>8. \A i \in 1 .. Len(t) : LinkHeight(t[i], u[i], u[i + 1])
  BY <1>1, <1>5, <1>6, <1>7, Zenon DEF Spliced
<1>9. u[1] = a /\ u[Len(t) + 1] = z
  BY <1>1, <1>6 DEF Spliced
<1> QED  BY <1>8, <1>9, Zenon DEF HeightPlan, t

\* The head of the work is done.
LEMMA HeightDone ==
  ASSUME NEW w, IsSeq(w), w # << >>, NEW a, NEW z, HeightPlan(w, a, z)
  PROVE  \E b : LinkHeight(Head(w), a, b) /\ HeightPlan(Tail(w), b, z)
<1>1. PICK p : /\ p[1] = a /\ p[Len(w) + 1] = z
               /\ \A i \in 1 .. Len(w) : LinkHeight(w[i], p[i], p[i + 1])
  BY Zenon DEF HeightPlan
<1>2. /\ Head(w) = w[1] /\ Len(w) \in Nat \ {0} /\ Len(Tail(w)) = Len(w) - 1
      /\ \A i \in 1 .. Len(w) - 1 : Tail(w)[i] = w[i + 1]
  BY Shift
<1> DEFINE v == Tail(w)
           q == [i \in 1 .. Len(w) |-> p[i + 1]]
<1> HIDE DEF v
<1>3. /\ Head(w) = w[1] /\ Len(w) \in Nat \ {0} /\ Len(v) = Len(w) - 1
      /\ \A i \in 1 .. Len(w) - 1 : v[i] = w[i + 1]
  BY <1>2 DEF v
<1>4. \A i \in 1 .. Len(w) : q[i] = p[i + 1]
  OBVIOUS
<1> HIDE DEF q
<1>5. LinkHeight(Head(w), a, p[2])
  <2>1. 1 \in 1 .. Len(w) /\ 1 + 1 = 2
    BY <1>3
  <2> QED  BY <1>1, <1>3, <2>1
<1>6. ASSUME NEW i \in 1 .. Len(v) PROVE LinkHeight(v[i], q[i], q[i + 1])
  <2>1. /\ i + 1 \in 1 .. Len(w) /\ i \in 1 .. Len(w) - 1 /\ i \in 1 .. Len(w)
    BY <1>3
  <2>2. v[i] = w[i + 1] /\ q[i] = p[i + 1] /\ q[i + 1] = p[(i + 1) + 1]
    BY <1>3, <1>4, <2>1
  <2> QED  BY <1>1, <2>1, <2>2
<1>7. q[1] = p[2] /\ q[Len(v) + 1] = z
  BY <1>1, <1>3, <1>4
<1>8. HeightPlan(v, p[2], z)
  BY <1>6, <1>7, Zenon DEF HeightPlan
<1> QED  BY <1>5, <1>8, Zenon DEF v

LEMMA HeightLinks ==
  ASSUME NEW x, NEW y, NEW v, NEW a, NEW b, NEW c, NEW d
  PROVE  /\ IsSeq(<<x>>) /\ IsSeq(<<x, y>>) /\ IsSeq(<<x, y, v>>)
         /\ LinkHeight(x, a, b) => HeightPlan(<<x>>, a, b)
         /\ LinkHeight(x, a, b) /\ LinkHeight(y, b, c) => HeightPlan(<<x, y>>, a, c)
         /\ LinkHeight(x, a, b) /\ LinkHeight(y, b, c) /\ LinkHeight(v, c, d)
              => HeightPlan(<<x, y, v>>, a, d)
<1>1. <<x>> \in Seq({x}) /\ <<x, y>> \in Seq({x, y}) /\ <<x, y, v>> \in Seq({x, y, v})
  OBVIOUS
<1>2. IsSeq(<<x>>) /\ IsSeq(<<x, y>>) /\ IsSeq(<<x, y, v>>)
  BY <1>1, SeqOfRange DEF IsSeq
<1>3. ASSUME LinkHeight(x, a, b) PROVE HeightPlan(<<x>>, a, b)
  <2> DEFINE p == <<a, b>>
             w == <<x>>
  <2>1. p[1] = a /\ p[2] = b /\ w[1] = x /\ Len(w) = 1 /\ 1 + 1 = 2
        /\ \A i \in 1 .. 1 : i = 1
    OBVIOUS
  <2> HIDE DEF p, w
  <2>2. \A i \in 1 .. Len(w) : LinkHeight(w[i], p[i], p[i + 1])
    BY <1>3, <2>1
  <2>3. p[1] = a /\ p[Len(w) + 1] = b
    BY <2>1
  <2>4. HeightPlan(w, a, b)
    BY <2>2, <2>3, Zenon DEF HeightPlan
  <2> QED  BY <2>4 DEF w
<1>4. ASSUME LinkHeight(x, a, b), LinkHeight(y, b, c) PROVE HeightPlan(<<x, y>>, a, c)
  <2> DEFINE p == <<a, b, c>>
             w == <<x, y>>
  <2>1. /\ p[1] = a /\ p[2] = b /\ p[3] = c /\ w[1] = x /\ w[2] = y /\ Len(w) = 2
        /\ 1 + 1 = 2 /\ 2 + 1 = 3 /\ \A i \in 1 .. 2 : i = 1 \/ i = 2
    OBVIOUS
  <2> HIDE DEF p, w
  <2>2. \A i \in 1 .. Len(w) : LinkHeight(w[i], p[i], p[i + 1])
    BY <1>4, <2>1
  <2>3. p[1] = a /\ p[Len(w) + 1] = c
    BY <2>1
  <2>4. HeightPlan(w, a, c)
    BY <2>2, <2>3, Zenon DEF HeightPlan
  <2> QED  BY <2>4 DEF w
<1>5. ASSUME LinkHeight(x, a, b), LinkHeight(y, b, c), LinkHeight(v, c, d)
      PROVE  HeightPlan(<<x, y, v>>, a, d)
  <2> DEFINE p == <<a, b, c, d>>
             w == <<x, y, v>>
  <2>1. /\ p[1] = a /\ p[2] = b /\ p[3] = c /\ p[4] = d
        /\ w[1] = x /\ w[2] = y /\ w[3] = v /\ Len(w) = 3
        /\ 1 + 1 = 2 /\ 2 + 1 = 3 /\ 3 + 1 = 4 /\ \A i \in 1 .. 3 : i = 1 \/ i = 2 \/ i = 3
    OBVIOUS
  <2> HIDE DEF p, w
  <2>2. \A i \in 1 .. Len(w) : LinkHeight(w[i], p[i], p[i + 1])
    BY <1>5, <2>1
  <2>3. p[1] = a /\ p[Len(w) + 1] = d
    BY <2>1
  <2>4. HeightPlan(w, a, d)
    BY <2>2, <2>3, Zenon DEF HeightPlan
  <2> QED  BY <2>4 DEF w
<1> QED  BY <1>2, <1>3, <1>4, <1>5

-----------------------------------------------------------------------------
(* The compiler.                                                           *)

Early == phase \in {"expr", "list", "value", "crash"}

CodeInv ==
  /\ IsSeq(work) /\ (Early => code = << >>)
  /\ \E r : IsRun(r, code)
  /\ \A r : IsRun(r, code) =>
       /\ r[Len(code)].ok
       /\ phase = "compile" /\ Len(code) < CodeMax =>
            \E a, z : OfHeight(r[Len(code)], a) /\ HeightPlan(work, a, z)

LEMMA StartHeight == OfHeight(Start, H(0, FALSE)) /\ Start.ok
<1> DEFINE e == << >>
<1>1. IsSeq(e) /\ Len(e) = 0
  BY DEF IsSeq
<1> HIDE DEF e
<1>2. IsMachine(Machine(e, 0)) /\ Machine(e, 0).s = e /\ Machine(e, 0).push = 0
      /\ Machine(e, 0).ok
  BY <1>1 DEF IsMachine, Machine
<1>3. (Machine(e, 0).push # 0) = FALSE
  BY <1>2
<1> QED  BY <1>1, <1>2, <1>3, Zenon DEF OfHeight, Start, e

LEMMA CodeInit ==
  ASSUME Init
  PROVE  CodeInv
<1> DEFINE e == << >>
<1>1. IsSeq(e) /\ Len(e) = 0
  BY DEF IsSeq
<1>2. (\E r : IsRun(r, e)) /\ \A r : IsRun(r, e) => r[0] = Start
  BY EmptyRun
<1>3. work = e /\ code = e /\ phase = "expr"
  BY DEF Init
<1> HIDE DEF e
<1> QED  BY <1>1, <1>2, <1>3, StartHeight DEF CodeInv, e

\* The reader emits nothing.
LEMMA ReadingCode ==
  ASSUME CodeInv, Early, work' = work, code' = code, phase' \in {"expr", "list", "value", "crash"}
  PROVE  CodeInv'
BY Zenon DEF CodeInv, Early, IsSeq

LEMMA ExpandCode ==
  ASSUME CodeInv, Expand
  PROVE  CodeInv'
<1> DEFINE x == Expr(value')
           y == Word(RET)
           a == H(0, FALSE)
           b == H(1, FALSE)
           e == << >>
<1>1. code = e /\ code' = e /\ phase' = "compile" /\ work' = <<x, y>>
  BY DEF CodeInv, Early, Expand
<1>2. LinkHeight(x, a, b) /\ LinkHeight(y, b, b)
  BY DEF LinkHeight, WordHeight, H, Expr, Word
<1> HIDE DEF x, y, a, b
<1>3. IsSeq(<<x, y>>) /\ HeightPlan(<<x, y>>, a, b)
  BY <1>2, HeightLinks
<1>4. Len(e) = 0
  OBVIOUS
<1>5. (\E r : IsRun(r, e)) /\ \A r : IsRun(r, e) => r[0] = Start
  BY EmptyRun
<1> HIDE DEF e
<1>6. OfHeight(Start, a) /\ Start.ok
  BY StartHeight DEF a
<1>7. \A r : IsRun(r, e) =>
        /\ r[Len(e)].ok
        /\ \E c, z : OfHeight(r[Len(e)], c) /\ HeightPlan(<<x, y>>, c, z)
  BY <1>3, <1>4, <1>5, <1>6
<1>8. IsSeq(work') /\ ~Early'
  BY <1>1, <1>3 DEF Early
<1> QED  BY <1>1, <1>5, <1>7, <1>8, Zenon DEF CodeInv, IsSeq

\* The head of the work is an expression or data, and is replaced.
LEMMA ReplaceCode ==
  ASSUME CodeInv, phase = "compile", work # << >>, NEW items, IsSeq(items), Replace(items),
         \A a, b : a.h \in Nat /\ LinkHeight(Head(work), a, b) => HeightPlan(items, a, b)
  PROVE  CodeInv'
<1> DEFINE t == items \o Tail(work)
<1>1. phase' = "compile" /\ code' = code /\ work' = t
  BY DEF Replace
<1>2. IsSeq(work) /\ (\E r : IsRun(r, code))
  BY DEF CodeInv
<1>3. IsSeq(t)
  <2> DEFINE S == Range(work) \cup Range(items)
  <2>1. work \in Seq(S) /\ items \in Seq(S)
    BY <1>2, SeqMonotonic DEF IsSeq
  <2> HIDE DEF S
  <2>2. Tail(work) \in Seq(S)
    BY <2>1, HeadTailProperties
  <2>3. t \in Seq(S)
    BY <2>1, <2>2, ConcatProperties
  <2> QED  BY <2>3, SeqOfRange DEF IsSeq
<1>4. ASSUME NEW r, IsRun(r, code)
      PROVE  /\ r[Len(code)].ok
             /\ Len(code) < CodeMax =>
                  \E a, z : OfHeight(r[Len(code)], a) /\ HeightPlan(t, a, z)
  <2>1. r[Len(code)].ok
    BY <1>4 DEF CodeInv
  <2>2. ASSUME Len(code) < CodeMax
        PROVE  \E a, z : OfHeight(r[Len(code)], a) /\ HeightPlan(t, a, z)
    <3>1. PICK a, z : OfHeight(r[Len(code)], a) /\ HeightPlan(work, a, z)
      BY <1>4, <2>2 DEF CodeInv
    <3>2. a.h \in Nat
      BY <3>1, LenProperties DEF OfHeight, H, IsMachine, IsSeq
    <3>3. \A b : LinkHeight(Head(work), a, b) => HeightPlan(items, a, b)
      BY <3>2
    <3>4. HeightPlan(t, a, z)
      BY <1>2, <3>1, <3>3, HeightReplaced
    <3> HIDE DEF t
    <3> QED  BY <3>1, <3>4
  <2> QED  BY <2>1, <2>2
<1> HIDE DEF t
<1>5. ~Early'
  BY <1>1 DEF Early
<1> QED  BY <1>1, <1>2, <1>3, <1>4, <1>5, Zenon DEF CodeInv, IsSeq

LEMMA CompileCode ==
  ASSUME CodeInv, CompileLeaf \/ CompileBinary \/ CompileUnary \/ CompileQuote \/ CompileData
  PROVE  CodeInv'
<1> DEFINE x == Head(work)
<1>1. phase = "compile" /\ work # << >> /\ x[1] \in {"expr", "data"}
  BY DEF CompileLeaf, CompileBinary, CompileUnary, CompileQuote, CompileData, Compiling
<1>2. ASSUME NEW a, NEW b, LinkHeight(x, a, b)
      PROVE  ~a.due /\ b = H(a.h + 1, FALSE)
  BY <1>1, <1>2 DEF LinkHeight
<1>3. \A a, v : ~a.due => /\ LinkHeight(Expr(v), a, H(a.h + 1, FALSE))
                          /\ LinkHeight(Data(v), a, H(a.h + 1, FALSE))
  BY DEF LinkHeight, Expr, Data
<1>4. \A h, due : H(h, due).h = h /\ H(h, due).due = due
  BY DEF H
<1>5. CASE CompileLeaf
  <2>1. PICK v : Replace(Leaf(v))
    BY <1>5 DEF CompileLeaf
  <2>2. ASSUME NEW a, NEW b, LinkHeight(x, a, b), NEW k \in {PUSH_INT, PUSH_SYM}, NEW n
        PROVE  HeightPlan(<<Word(k), Word(n)>>, a, b)
    <3>1. LinkHeight(Word(k), a, H(a.h, TRUE))
      BY <1>2, <2>2 DEF LinkHeight, WordHeight, Word
    <3>2. LinkHeight(Word(n), H(a.h, TRUE), b)
      BY <1>2, <1>4, <2>2 DEF LinkHeight, WordHeight, Word
    <3> QED  BY <3>1, <3>2, HeightLinks
  <2>3. ASSUME NEW a, NEW b, LinkHeight(x, a, b)
        PROVE  HeightPlan(<<Word(PUSH_NIL)>>, a, b)
    <3>1. LinkHeight(Word(PUSH_NIL), a, b)
      BY <1>2, <2>3 DEF LinkHeight, WordHeight, Word
    <3> QED  BY <3>1, HeightLinks
  <2>4. \/ \E k \in {PUSH_INT, PUSH_SYM} : Leaf(v) = <<Word(k), Word(v[2])>>
        \/ Leaf(v) = <<Word(PUSH_NIL)>>
    BY Zenon DEF Leaf
  <2>5. IsSeq(Leaf(v)) /\ \A a, b : LinkHeight(x, a, b) => HeightPlan(Leaf(v), a, b)
    BY <2>2, <2>3, <2>4, HeightLinks, Zenon
  <2> QED  BY <1>1, <2>1, <2>5, ReplaceCode, Zenon
<1>6. CASE CompileBinary
  <2>1. PICK op \in DOMAIN BinaryOp : \E u, v : Replace(<<Expr(u), Expr(v), Word(BinaryOp[op])>>)
    BY <1>6, Zenon DEF CompileBinary
  <2>2. PICK u, v : Replace(<<Expr(u), Expr(v), Word(BinaryOp[op])>>)
    BY <2>1
  <2> DEFINE w == BinaryOp[op]
  <2>3. w \in {4, 7, 8}
    BY Instructions
  <2> HIDE DEF w
  <2>4. ASSUME NEW a, NEW b, a.h \in Nat, LinkHeight(x, a, b)
        PROVE  HeightPlan(<<Expr(u), Expr(v), Word(w)>>, a, b)
    <3> DEFINE c == H(a.h + 1, FALSE)
               d == H(c.h + 1, FALSE)
    <3>1. LinkHeight(Expr(u), a, c) /\ LinkHeight(Expr(v), c, d)
      BY <1>2, <1>3, <1>4, <2>4
    <3>2. ~d.due /\ d.h >= 2 /\ b = H(d.h - 1, FALSE)
      BY <1>2, <2>4, TwoOperands, Zenon
    <3> HIDE DEF c, d
    <3>3. LinkHeight(Word(w), d, b)
      BY <2>3, <3>2 DEF LinkHeight, WordHeight, Word
    <3> QED  BY <3>1, <3>3, HeightLinks
  <2>5. IsSeq(<<Expr(u), Expr(v), Word(w)>>)
    BY HeightLinks
  <2> QED  BY <1>1, <2>2, <2>4, <2>5, ReplaceCode, Zenon DEF w
<1>7. CASE CompileUnary
  <2>1. PICK op \in DOMAIN UnaryOp : \E u : Replace(<<Expr(u), Word(UnaryOp[op])>>)
    BY <1>7, Zenon DEF CompileUnary
  <2>2. PICK u : Replace(<<Expr(u), Word(UnaryOp[op])>>)
    BY <2>1
  <2> DEFINE w == UnaryOp[op]
  <2>3. w \in {5, 6}
    BY Instructions
  <2> HIDE DEF w
  <2>4. ASSUME NEW a, NEW b, a.h \in Nat, LinkHeight(x, a, b)
        PROVE  HeightPlan(<<Expr(u), Word(w)>>, a, b)
    <3>1. LinkHeight(Expr(u), a, b) /\ ~a.due /\ b = H(a.h + 1, FALSE)
      BY <1>2, <1>3, <2>4, Zenon
    <3>2. b.h >= 1 /\ ~b.due /\ b = H(b.h, FALSE)
      BY <2>4, <3>1 DEF H
    <3>3. LinkHeight(Word(w), b, b)
      BY <2>3, <3>2 DEF LinkHeight, WordHeight, Word
    <3> QED  BY <3>1, <3>3, HeightLinks
  <2>5. IsSeq(<<Expr(u), Word(w)>>)
    BY HeightLinks
  <2> QED  BY <1>1, <2>2, <2>4, <2>5, ReplaceCode, Zenon DEF w
<1>8. CASE CompileQuote
  <2>1. PICK u : Replace(<<Data(u)>>)
    BY <1>8, Zenon DEF CompileQuote
  <2>2. ASSUME NEW a, NEW b, LinkHeight(x, a, b) PROVE HeightPlan(<<Data(u)>>, a, b)
    BY <1>2, <1>3, <2>2, HeightLinks
  <2>3. IsSeq(<<Data(u)>>)
    BY HeightLinks
  <2> QED  BY <1>1, <2>1, <2>2, <2>3, ReplaceCode, Zenon
<1>9. CASE CompileData
  <2>1. PICK u, v : Replace(<<Data(u), Data(v), Word(CONS)>>)
    BY <1>9, Zenon DEF CompileData
  <2>2. ASSUME NEW a, NEW b, a.h \in Nat, LinkHeight(x, a, b)
        PROVE  HeightPlan(<<Data(u), Data(v), Word(CONS)>>, a, b)
    <3> DEFINE c == H(a.h + 1, FALSE)
               d == H(c.h + 1, FALSE)
    <3>1. LinkHeight(Data(u), a, c) /\ LinkHeight(Data(v), c, d)
      BY <1>2, <1>3, <1>4, <2>2
    <3>2. ~d.due /\ d.h >= 2 /\ b = H(d.h - 1, FALSE)
      BY <1>2, <2>2, TwoOperands, Zenon
    <3> HIDE DEF c, d
    <3>3. LinkHeight(Word(CONS), d, b)
      BY <3>2 DEF LinkHeight, WordHeight, Word, CONS
    <3> QED  BY <3>1, <3>3, HeightLinks
  <2>3. IsSeq(<<Data(u), Data(v), Word(CONS)>>)
    BY HeightLinks
  <2> QED  BY <1>1, <2>1, <2>2, <2>3, ReplaceCode, Zenon
<1> QED  BY <1>5, <1>6, <1>7, <1>8, <1>9

\* A word is emitted and executed, or dropped because the code is full.
LEMMA EmitCode ==
  ASSUME ReaderInv, CodeInv, Emit
  PROVE  CodeInv'
<1> DEFINE x == Head(work)
           w == x[2]
<1>1. /\ phase = "compile" /\ work # << >> /\ x[1] = "word" /\ phase' = "compile"
      /\ code' = (IF Len(code) < CodeMax THEN Append(code, w) ELSE code)
      /\ work' = Tail(work)
  BY DEF Emit, Compiling
<1>2. IsSeq(code) /\ Len(code) \in Nat /\ CodeMax \in Nat
  BY Basics, LenProperties DEF IsSeq
<1>3. IsSeq(work) /\ (\E r : IsRun(r, code))
  BY DEF CodeInv
<1>4. IsSeq(work')
  BY <1>1, <1>3, Shift
<1>5. ~Early'
  BY <1>1 DEF Early
<1> HIDE DEF w
<1>6. CASE Len(code) < CodeMax
  <2> DEFINE d == Append(code, w)
  <2>1. Len(d) = Len(code) + 1
    BY <1>2, Pushed
  <2>2. /\ \A r : IsRun(r, d) =>
             \E q : IsRun(q, code) /\ r[Len(code) + 1] = Executed(q[Len(code)], w)
        /\ \E r : IsRun(r, d)
    BY <1>2, <1>3, RunGrows
  <2>3. code' = d
    BY <1>1, <1>6
  <2> HIDE DEF d
  <2>4. ASSUME NEW r, IsRun(r, d)
        PROVE  /\ r[Len(d)].ok
               /\ \E a, z : OfHeight(r[Len(d)], a) /\ HeightPlan(Tail(work), a, z)
    <3>1. PICK q : IsRun(q, code) /\ r[Len(d)] = Executed(q[Len(code)], w)
      BY <2>1, <2>2, <2>4
    <3>2. PICK a, z : OfHeight(q[Len(code)], a) /\ HeightPlan(work, a, z)
      BY <1>1, <1>6, <3>1 DEF CodeInv
    <3>3. PICK b : LinkHeight(x, a, b) /\ HeightPlan(Tail(work), b, z)
      BY <1>1, <1>3, <3>2, HeightDone
    <3>4. WordHeight(w, a, b)
      BY <1>1, <3>3 DEF LinkHeight, w
    <3>5. OfHeight(r[Len(d)], b)
      BY <3>1, <3>2, <3>4, ExecutedHeight
    <3>6. r[Len(d)].ok
      BY <3>5 DEF OfHeight, IsMachine, Machine
    <3> QED  BY <3>3, <3>5, <3>6
  <2> QED  BY <1>1, <1>4, <1>5, <2>2, <2>3, <2>4, Zenon DEF CodeInv, IsSeq
<1>7. CASE ~(Len(code) < CodeMax)
  <2>1. code' = code
    BY <1>1, <1>7
  <2> QED  BY <1>3, <1>4, <1>5, <1>7, <2>1, Zenon DEF CodeInv, IsSeq
<1> QED  BY <1>6, <1>7

LEMMA CodeStays == Spec => [](ReaderInv /\ CodeInv)
<1>1. Init => CodeInv
  BY CodeInit
<1>2. ASSUME ReaderInv, CodeInv, [Next]_vars PROVE CodeInv'
  <2>1. CASE ReadOpen \/ ReadAtom \/ ReadNothing \/ ReadClose \/ ReadFirst \/ ThenDot \/ ThenRest
             \/ EndPair \/ EndList
    <3>1. /\ Early /\ work' = work /\ code' = code
          /\ phase' \in {"expr", "list", "value", "crash"}
      BY <2>1 DEF ReadOpen, ReadAtom, ReadNothing, ReadClose, ReadFirst, ThenDot, ThenRest, EndPair,
                  EndList, Return, Resume, Early
    <3> QED  BY <1>2, <3>1, ReadingCode
  <2>2. CASE Expand
    BY <1>2, <2>2, ExpandCode
  <2>3. CASE CompileLeaf \/ CompileBinary \/ CompileUnary \/ CompileQuote \/ CompileData
    BY <1>2, <2>3, CompileCode
  <2>4. CASE Emit
    BY <1>2, <2>4, EmitCode
  <2>5. CASE Finish
    <3>1. work' = work /\ code' = code /\ phase' = "done"
      BY <2>5 DEF Finish
    <3>2. ~Early' /\ phase' # "compile"
      BY <3>1 DEF Early
    <3> QED  BY <1>2, <3>1, <3>2, Zenon DEF CodeInv, IsSeq
  <2>6. CASE UNCHANGED vars
    <3>1. work' = work /\ code' = code /\ phase' = phase
      BY <2>6 DEF vars
    <3> QED  BY <1>2, <3>1, Zenon DEF CodeInv, Early, IsSeq
  <2> QED  BY <1>2, <2>1, <2>2, <2>3, <2>4, <2>5, <2>6 DEF Next
<1>3. ReaderInv /\ CodeInv /\ [Next]_vars => CodeInv'
  BY <1>2
<1> QED  BY <1>1, <1>3, ReaderStays, PTL DEF Spec

\* The code of every text, complete or cut where the memory for it ends, never
\* finds too few operands, and never a word it does not know, whatever
\* macro_expand makes of a value (pair-machine.c:791-873).
THEOREM CodeAlwaysRuns == Spec => []CodeRuns
<1>1. CodeInv => CodeRuns
  <2> SUFFICES ASSUME CodeInv PROVE CodeRuns
    OBVIOUS
  <2>1. PICK r : IsRun(r, code) /\ Run(code) = r[Len(code)]
    BY RunChosen DEF CodeInv
  <2> QED  BY <2>1 DEF CodeInv, CodeRuns
<1> QED  BY <1>1, CodeStays, PTL

-----------------------------------------------------------------------------
(* The meaning of the code.                                                *)

\* The end of a sequence that grew.
LEMMA GrownEnds ==
  ASSUME NEW s, IsSeq(s), NEW x, NEW y
  PROVE  LET u == Append(s, x)
             v == Append(u, y)
             n == Len(s)
         IN  /\ n \in Nat /\ Len(u) = n + 1 /\ Len(v) = n + 2
             /\ SubSeq(u, 1, n) = s /\ SubSeq(u, n + 1, n + 1) = <<x>>
             /\ SubSeq(v, 1, n) = s /\ SubSeq(v, n + 1, n + 2) = <<x, y>>
<1> DEFINE S == Range(s) \cup {x, y}
           u == Append(s, x)
           v == Append(u, y)
           n == Len(s)
<1>1. s \in Seq(S) /\ x \in S /\ y \in S
  BY SeqMonotonic DEF IsSeq
<1> HIDE DEF S
<1>2. n \in Nat /\ s = [i \in 1 .. n |-> s[i]]
  BY <1>1
<1>3. /\ u \in Seq(S) /\ Len(u) = n + 1 /\ u[n + 1] = x
      /\ \A i \in 1 .. n : u[i] = s[i]
  BY <1>1
<1> HIDE DEF u
<1>4. /\ v \in Seq(S) /\ Len(v) = n + 2 /\ v[n + 1] = x /\ v[n + 2] = y
      /\ \A i \in 1 .. n : v[i] = s[i]
  BY <1>1, <1>2, <1>3
<1> HIDE DEF v
<1>5. SubSeq(u, 1, n) = s /\ SubSeq(v, 1, n) = s
  BY <1>1, <1>2, <1>3, <1>4
<1>6. SubSeq(u, n + 1, n + 1) = <<x>>
  <2> DEFINE t == SubSeq(u, n + 1, n + 1)
  <2>1. t \in Seq(S) /\ Len(t) = 1 /\ t[1] = u[n + 1]
    BY <1>2, <1>3
  <2> HIDE DEF t
  <2>2. <<x>> \in Seq(S) /\ Len(<<x>>) = 1 /\ <<x>>[1] = x
    BY <1>1
  <2>3. \A i \in 1 .. 1 : t[i] = <<x>>[i]
    BY <1>3, <2>1, <2>2
  <2> QED  BY <2>1, <2>2, <2>3, SeqEqual DEF t
<1>7. SubSeq(v, n + 1, n + 2) = <<x, y>>
  <2> DEFINE t == SubSeq(v, n + 1, n + 2)
  <2>1. t \in Seq(S) /\ Len(t) = 2 /\ t[1] = v[n + 1] /\ t[2] = v[n + 2]
    BY <1>2, <1>4
  <2> HIDE DEF t
  <2>2. <<x, y>> \in Seq(S) /\ Len(<<x, y>>) = 2 /\ <<x, y>>[1] = x /\ <<x, y>>[2] = y
    BY <1>1
  <2>3. \A i \in 1 .. 2 : t[i] = <<x, y>>[i]
    BY <1>4, <2>1, <2>2
  <2> QED  BY <2>1, <2>2, <2>3, SeqEqual DEF t
<1> QED  BY <1>2, <1>3, <1>4, <1>5, <1>6, <1>7 DEF u, v

\* What instructions do to a machine that has their operands on its stack.
LEMMA ExecutedPush ==
  ASSUME NEW m, IsMachine(m), m.push = 0, NEW n
  PROVE  /\ Executed(Executed(m, PUSH_INT), n) = Machine(Append(m.s, Num(n)), 0)
         /\ Executed(Executed(m, PUSH_SYM), n) = Machine(Append(m.s, Sym(n)), 0)
         /\ Executed(m, PUSH_NIL) = Machine(Append(m.s, NIL), 0)
<1>1. m.ok
  BY DEF IsMachine, Machine
<1>2. Executed(m, PUSH_INT) = Machine(m.s, 1) /\ Executed(m, PUSH_SYM) = Machine(m.s, 2)
  BY <1>1 DEF Executed, PUSH_INT, PUSH_SYM
<1>3. Executed(Machine(m.s, 1), n) = Machine(Append(m.s, Num(n)), 0)
  BY DEF Executed, Machine, PUSH_INT
<1>4. Executed(Machine(m.s, 2), n) = Machine(Append(m.s, Sym(n)), 0)
  BY DEF Executed, Machine, PUSH_INT
<1>5. Executed(m, PUSH_NIL) = Machine(Append(m.s, NIL), 0)
  BY <1>1 DEF Executed, PUSH_INT, PUSH_SYM, PUSH_NIL
<1> QED  BY <1>2, <1>3, <1>4, <1>5

LEMMA ExecutedOne ==
  ASSUME NEW s, IsSeq(s), NEW x, NEW w, w \in Range(UnaryOp)
  PROVE  Executed(Machine(Append(s, x), 0), w) = Machine(Append(s, Node(w, <<x>>)), 0)
<1> DEFINE u == Append(s, x)
           n == Len(s)
<1>1. /\ n \in Nat /\ Len(u) = n + 1
      /\ SubSeq(u, 1, n) = s /\ SubSeq(u, n + 1, n + 1) = <<x>>
  BY GrownEnds
<1> HIDE DEF u, n
<1>2. Machine(u, 0).ok /\ Machine(u, 0).s = u /\ Machine(u, 0).push = 0
  BY DEF Machine
<1>3. Len(u) >= 1 /\ Len(u) - 1 = n /\ Len(u) - 1 + 1 = n + 1
  BY <1>1
<1>4. Executed(Machine(u, 0), w) = Taken(Machine(u, 0), 1, w)
  BY <1>2, <1>3, Instructions DEF Executed, PUSH_INT, PUSH_SYM, PUSH_NIL
<1>5. Taken(Machine(u, 0), 1, w)
         = Machine(Append(SubSeq(u, 1, n), Node(w, SubSeq(u, n + 1, n + 1))), 0)
  BY <1>1, <1>2, <1>3, Zenon DEF Taken
<1>6. Executed(Machine(u, 0), w) = Machine(Append(s, Node(w, <<x>>)), 0)
  BY <1>1, <1>4, <1>5, Zenon
<1> QED  BY <1>6 DEF u

LEMMA ExecutedTwo ==
  ASSUME NEW s, IsSeq(s), NEW x, NEW y, NEW w, w \in Range(BinaryOp)
  PROVE  Executed(Machine(Append(Append(s, x), y), 0), w) = Machine(Append(s, Node(w, <<x, y>>)), 0)
<1> DEFINE u == Append(s, x)
           v == Append(u, y)
           n == Len(s)
<1>1. /\ n \in Nat /\ Len(v) = n + 2
      /\ SubSeq(v, 1, n) = s /\ SubSeq(v, n + 1, n + 2) = <<x, y>>
  BY GrownEnds
<1> HIDE DEF u, v, n
<1>2. Machine(v, 0).ok /\ Machine(v, 0).s = v /\ Machine(v, 0).push = 0
  BY DEF Machine
<1>3. Len(v) >= 2 /\ Len(v) - 2 = n /\ Len(v) - 2 + 1 = n + 1
  BY <1>1
<1>4. Executed(Machine(v, 0), w) = Taken(Machine(v, 0), 2, w)
  BY <1>2, <1>3, Instructions DEF Executed, PUSH_INT, PUSH_SYM, PUSH_NIL
<1>5. Taken(Machine(v, 0), 2, w)
         = Machine(Append(SubSeq(v, 1, n), Node(w, SubSeq(v, n + 1, n + 2))), 0)
  BY <1>1, <1>2, <1>3, Zenon DEF Taken
<1>6. Executed(Machine(v, 0), w) = Machine(Append(s, Node(w, <<x, y>>)), 0)
  BY <1>1, <1>4, <1>5, Zenon
<1> QED  BY <1>6 DEF u, v

\* What is planned of the machine is now the machine itself; E is <<V, T, D>>.
LinkMeans(item, m, n, E) ==
  \/ item[1] = "word" /\ n = Executed(m, item[2])
  \/ /\ item[1] \in {"expr", "data"} /\ item[2] \in E[1] /\ m.push = 0
     /\ n = Machine(Append(m.s, E[IF item[1] = "expr" THEN 2 ELSE 3][item[2]]), 0)

MeansPlan(w, a, b, E) ==
  \E p : /\ p[1] = a /\ p[Len(w) + 1] = b
         /\ \A i \in 1 .. Len(w) : LinkMeans(w[i], p[i], p[i + 1], E)

\* The head of the work is replaced.
LEMMA MeansReplaced ==
  ASSUME NEW E, NEW w, IsSeq(w), w # << >>, NEW items, IsSeq(items), NEW a, NEW z,
         MeansPlan(w, a, z, E),
         \A b : LinkMeans(Head(w), a, b, E) => MeansPlan(items, a, b, E)
  PROVE  MeansPlan(items \o Tail(w), a, z, E)
<1>1. PICK p : /\ p[1] = a /\ p[Len(w) + 1] = z
               /\ \A i \in 1 .. Len(w) : LinkMeans(w[i], p[i], p[i + 1], E)
  BY Zenon DEF MeansPlan
<1>2. Head(w) = w[1] /\ Len(w) \in Nat \ {0}
  BY Shift
<1>3. 1 \in 1 .. Len(w) /\ 1 + 1 = 2
  BY <1>2
<1>4. LinkMeans(Head(w), a, p[2], E)
  BY <1>1, <1>2, <1>3
<1>5. PICK q : /\ q[1] = a /\ q[Len(items) + 1] = p[2]
               /\ \A k \in 1 .. Len(items) : LinkMeans(items[k], q[k], q[k + 1], E)
  <2>1. MeansPlan(items, a, p[2], E)
    BY <1>4
  <2> QED  BY <2>1, Zenon DEF MeansPlan
<1> DEFINE t == items \o Tail(w)
<1>6. PICK u : Spliced(u, t, w, items, p, q)
  <2>1. q[1] = p[1] /\ q[Len(items) + 1] = p[2]
    BY <1>1, <1>5
  <2> QED  BY <2>1, Splice, Zenon
<1> HIDE DEF t
<1>7. \A j \in 2 .. Len(w) : j \in 1 .. Len(w)
  BY <1>2
<1>8. \A i \in 1 .. Len(t) : LinkMeans(t[i], u[i], u[i + 1], E)
  BY <1>1, <1>5, <1>6, <1>7, Zenon DEF Spliced
<1>9. u[1] = a /\ u[Len(t) + 1] = z
  BY <1>1, <1>6 DEF Spliced
<1> QED  BY <1>8, <1>9, Zenon DEF MeansPlan, t

\* The head of the work is done.
LEMMA MeansDone ==
  ASSUME NEW E, NEW w, IsSeq(w), w # << >>, NEW a, NEW z, MeansPlan(w, a, z, E)
  PROVE  \E b : LinkMeans(Head(w), a, b, E) /\ MeansPlan(Tail(w), b, z, E)
<1>1. PICK p : /\ p[1] = a /\ p[Len(w) + 1] = z
               /\ \A i \in 1 .. Len(w) : LinkMeans(w[i], p[i], p[i + 1], E)
  BY Zenon DEF MeansPlan
<1>2. /\ Head(w) = w[1] /\ Len(w) \in Nat \ {0} /\ Len(Tail(w)) = Len(w) - 1
      /\ \A i \in 1 .. Len(w) - 1 : Tail(w)[i] = w[i + 1]
  BY Shift
<1> DEFINE v == Tail(w)
           q == [i \in 1 .. Len(w) |-> p[i + 1]]
<1> HIDE DEF v
<1>3. /\ Head(w) = w[1] /\ Len(w) \in Nat \ {0} /\ Len(v) = Len(w) - 1
      /\ \A i \in 1 .. Len(w) - 1 : v[i] = w[i + 1]
  BY <1>2 DEF v
<1>4. \A i \in 1 .. Len(w) : q[i] = p[i + 1]
  OBVIOUS
<1> HIDE DEF q
<1>5. LinkMeans(Head(w), a, p[2], E)
  <2>1. 1 \in 1 .. Len(w) /\ 1 + 1 = 2
    BY <1>3
  <2> QED  BY <1>1, <1>3, <2>1
<1>6. ASSUME NEW i \in 1 .. Len(v) PROVE LinkMeans(v[i], q[i], q[i + 1], E)
  <2>1. /\ i + 1 \in 1 .. Len(w) /\ i \in 1 .. Len(w) - 1 /\ i \in 1 .. Len(w)
    BY <1>3
  <2>2. v[i] = w[i + 1] /\ q[i] = p[i + 1] /\ q[i + 1] = p[(i + 1) + 1]
    BY <1>3, <1>4, <2>1
  <2> QED  BY <1>1, <2>1, <2>2
<1>7. q[1] = p[2] /\ q[Len(v) + 1] = z
  BY <1>1, <1>3, <1>4
<1>8. MeansPlan(v, p[2], z, E)
  BY <1>6, <1>7, Zenon DEF MeansPlan
<1> QED  BY <1>5, <1>8, Zenon DEF v

LEMMA MeansLinks ==
  ASSUME NEW E, NEW x, NEW y, NEW v, NEW a, NEW b, NEW c, NEW d
  PROVE  /\ IsSeq(<<x>>) /\ IsSeq(<<x, y>>) /\ IsSeq(<<x, y, v>>)
         /\ LinkMeans(x, a, b, E) => MeansPlan(<<x>>, a, b, E)
         /\ LinkMeans(x, a, b, E) /\ LinkMeans(y, b, c, E) => MeansPlan(<<x, y>>, a, c, E)
         /\ LinkMeans(x, a, b, E) /\ LinkMeans(y, b, c, E) /\ LinkMeans(v, c, d, E)
              => MeansPlan(<<x, y, v>>, a, d, E)
<1>1. <<x>> \in Seq({x}) /\ <<x, y>> \in Seq({x, y}) /\ <<x, y, v>> \in Seq({x, y, v})
  OBVIOUS
<1>2. IsSeq(<<x>>) /\ IsSeq(<<x, y>>) /\ IsSeq(<<x, y, v>>)
  BY <1>1, SeqOfRange DEF IsSeq
<1>3. ASSUME LinkMeans(x, a, b, E) PROVE MeansPlan(<<x>>, a, b, E)
  <2> DEFINE p == <<a, b>>
             w == <<x>>
  <2>1. p[1] = a /\ p[2] = b /\ w[1] = x /\ Len(w) = 1 /\ 1 + 1 = 2
        /\ \A i \in 1 .. 1 : i = 1
    OBVIOUS
  <2> HIDE DEF p, w
  <2>2. \A i \in 1 .. Len(w) : LinkMeans(w[i], p[i], p[i + 1], E)
    BY <1>3, <2>1
  <2>3. p[1] = a /\ p[Len(w) + 1] = b
    BY <2>1
  <2>4. MeansPlan(w, a, b, E)
    BY <2>2, <2>3, Zenon DEF MeansPlan
  <2> QED  BY <2>4 DEF w
<1>4. ASSUME LinkMeans(x, a, b, E), LinkMeans(y, b, c, E) PROVE MeansPlan(<<x, y>>, a, c, E)
  <2> DEFINE p == <<a, b, c>>
             w == <<x, y>>
  <2>1. /\ p[1] = a /\ p[2] = b /\ p[3] = c /\ w[1] = x /\ w[2] = y /\ Len(w) = 2
        /\ 1 + 1 = 2 /\ 2 + 1 = 3 /\ \A i \in 1 .. 2 : i = 1 \/ i = 2
    OBVIOUS
  <2> HIDE DEF p, w
  <2>2. \A i \in 1 .. Len(w) : LinkMeans(w[i], p[i], p[i + 1], E)
    BY <1>4, <2>1
  <2>3. p[1] = a /\ p[Len(w) + 1] = c
    BY <2>1
  <2>4. MeansPlan(w, a, c, E)
    BY <2>2, <2>3, Zenon DEF MeansPlan
  <2> QED  BY <2>4 DEF w
<1>5. ASSUME LinkMeans(x, a, b, E), LinkMeans(y, b, c, E), LinkMeans(v, c, d, E)
      PROVE  MeansPlan(<<x, y, v>>, a, d, E)
  <2> DEFINE p == <<a, b, c, d>>
             w == <<x, y, v>>
  <2>1. /\ p[1] = a /\ p[2] = b /\ p[3] = c /\ p[4] = d
        /\ w[1] = x /\ w[2] = y /\ w[3] = v /\ Len(w) = 3
        /\ 1 + 1 = 2 /\ 2 + 1 = 3 /\ 3 + 1 = 4 /\ \A i \in 1 .. 3 : i = 1 \/ i = 2 \/ i = 3
    OBVIOUS
  <2> HIDE DEF p, w
  <2>2. \A i \in 1 .. Len(w) : LinkMeans(w[i], p[i], p[i + 1], E)
    BY <1>5, <2>1
  <2>3. p[1] = a /\ p[Len(w) + 1] = d
    BY <2>1
  <2>4. MeansPlan(w, a, d, E)
    BY <2>2, <2>3, Zenon DEF MeansPlan
  <2> QED  BY <2>4 DEF w
<1> QED  BY <1>2, <1>3, <1>4, <1>5
\* The meaning of an item is what its parts have done one after the other.
MeansWhole(item, items, E) ==
  \A m, n : IsMachine(m) /\ LinkMeans(item, m, n, E) => MeansPlan(items, m, n, E)

LEMMA LinkExpr ==
  ASSUME NEW V, NEW T, NEW D, NEW m, NEW n, NEW v
  PROVE  LinkMeans(Expr(v), m, n, <<V, T, D>>)
           <=> v \in V /\ m.push = 0 /\ n = Machine(Append(m.s, T[v]), 0)
BY DEF LinkMeans, Expr

LEMMA LinkData ==
  ASSUME NEW V, NEW T, NEW D, NEW m, NEW n, NEW v
  PROVE  LinkMeans(Data(v), m, n, <<V, T, D>>)
           <=> v \in V /\ m.push = 0 /\ n = Machine(Append(m.s, D[v]), 0)
BY DEF LinkMeans, Data

\* The machine with one expression more.
With(m, t) == Machine(Append(m.s, t), 0)

LEMMA PushedTwice ==
  ASSUME NEW m, NEW s, NEW t
  PROVE  /\ With(m, s).push = 0
         /\ With(With(m, s), t) = Machine(Append(Append(m.s, s), t), 0)
BY DEF With, Machine

\* Two operands and an instruction.
LEMMA BinaryWhole ==
  ASSUME NEW E, NEW x, NEW y, NEW w, w \in Range(BinaryOp), NEW m, IsMachine(m), NEW tx, NEW ty,
         LinkMeans(x, m, With(m, tx), E),
         LinkMeans(y, With(m, tx), With(With(m, tx), ty), E)
  PROVE  MeansPlan(<<x, y, Word(w)>>, m, With(m, Node(w, <<tx, ty>>)), E)
<1> DEFINE b == With(With(m, tx), ty)
           c == With(m, Node(w, <<tx, ty>>))
<1>1. IsSeq(m.s)
  BY DEF IsMachine
<1>2. Executed(b, w) = c
  <2>1. Executed(Machine(Append(Append(m.s, tx), ty), 0), w)
          = Machine(Append(m.s, Node(w, <<tx, ty>>)), 0)
    BY <1>1, ExecutedTwo, Zenon
  <2>2. b = Machine(Append(Append(m.s, tx), ty), 0)
    BY PushedTwice
  <2> QED  BY <2>1, <2>2, Zenon DEF With
<1> HIDE DEF b, c
<1>3. LinkMeans(Word(w), b, c, E)
  BY <1>2 DEF LinkMeans, Word
<1>4. LinkMeans(y, With(m, tx), b, E)
  BY DEF b
<1>5. MeansPlan(<<x, y, Word(w)>>, m, c, E)
  BY <1>3, <1>4, MeansLinks, Zenon
<1> QED  BY <1>5 DEF c

LEMMA UnaryWhole ==
  ASSUME NEW E, NEW x, NEW w, w \in Range(UnaryOp), NEW m, IsMachine(m), NEW tx,
         LinkMeans(x, m, With(m, tx), E)
  PROVE  MeansPlan(<<x, Word(w)>>, m, With(m, Node(w, <<tx>>)), E)
<1> DEFINE a == With(m, tx)
           c == With(m, Node(w, <<tx>>))
<1>1. IsSeq(m.s)
  BY DEF IsMachine
<1>2. Executed(a, w) = c
  BY <1>1, ExecutedOne, Zenon DEF With
<1> HIDE DEF a, c
<1>3. LinkMeans(Word(w), a, c, E)
  BY <1>2 DEF LinkMeans, Word
<1>4. LinkMeans(x, m, a, E)
  BY DEF a
<1>5. MeansPlan(<<x, Word(w)>>, m, c, E)
  BY <1>3, <1>4, MeansLinks, Zenon
<1> QED  BY <1>5 DEF c

LEMMA LeafWhole ==
  ASSUME NEW E, NEW v, NEW m, IsMachine(m), m.push = 0
  PROVE  MeansPlan(Leaf(v), m, Machine(Append(m.s, LeafTree(v)), 0), E)
<1> DEFINE c == Machine(Append(m.s, LeafTree(v)), 0)
           i == Executed(m, PUSH_INT)
           s == Executed(m, PUSH_SYM)
<1>1. /\ Executed(i, v[2]) = Machine(Append(m.s, Num(v[2])), 0)
      /\ Executed(s, v[2]) = Machine(Append(m.s, Sym(v[2])), 0)
      /\ Executed(m, PUSH_NIL) = Machine(Append(m.s, NIL), 0)
  BY ExecutedPush
<1>2. CASE v[1] = "int"
  <2>1. Leaf(v) = <<Word(PUSH_INT), Word(v[2])>> /\ LeafTree(v) = Num(v[2])
    BY <1>2 DEF Leaf, LeafTree
  <2>2. c = Executed(i, v[2])
    BY <1>1, <2>1
  <2> HIDE DEF c, i
  <2>3. LinkMeans(Word(PUSH_INT), m, i, E) /\ LinkMeans(Word(v[2]), i, c, E)
    BY <2>2 DEF LinkMeans, Word, i
  <2>4. MeansPlan(Leaf(v), m, c, E)
    BY <2>1, <2>3, MeansLinks, Zenon
  <2> QED  BY <2>4 DEF c
<1>3. CASE v[1] = "sym"
  <2>1. Leaf(v) = <<Word(PUSH_SYM), Word(v[2])>> /\ LeafTree(v) = Sym(v[2])
    BY <1>3 DEF Leaf, LeafTree
  <2>2. c = Executed(s, v[2])
    BY <1>1, <2>1
  <2> HIDE DEF c, s
  <2>3. LinkMeans(Word(PUSH_SYM), m, s, E) /\ LinkMeans(Word(v[2]), s, c, E)
    BY <2>2 DEF LinkMeans, Word, s
  <2>4. MeansPlan(Leaf(v), m, c, E)
    BY <2>1, <2>3, MeansLinks, Zenon
  <2> QED  BY <2>4 DEF c
<1>4. CASE v[1] # "int" /\ v[1] # "sym"
  <2>1. Leaf(v) = <<Word(PUSH_NIL)>> /\ LeafTree(v) = NIL
    BY <1>4 DEF Leaf, LeafTree
  <2>2. c = Executed(m, PUSH_NIL)
    BY <1>1, <2>1
  <2> HIDE DEF c
  <2>3. LinkMeans(Word(PUSH_NIL), m, c, E)
    BY <2>2 DEF LinkMeans, Word
  <2>4. MeansPlan(Leaf(v), m, c, E)
    BY <2>1, <2>3, MeansLinks, Zenon
  <2> QED  BY <2>4 DEF c
<1> QED  BY <1>2, <1>3, <1>4
LEMMA LinkPushes ==
  ASSUME NEW V, NEW T, NEW D, NEW m, NEW v \in V, m.push = 0
  PROVE  /\ LinkMeans(Expr(v), m, With(m, T[v]), <<V, T, D>>)
         /\ LinkMeans(Data(v), m, With(m, D[v]), <<V, T, D>>)
BY LinkExpr, LinkData DEF With

LEMMA FormBinary ==
  ASSUME NEW V, NEW T, NEW D, IsMeant(V, T, D), NEW v \in V, NEW op \in DOMAIN BinaryOp,
         Car(v) = SymOf(op), IsBinary(Cdr(v)), NEW m, IsMachine(m), m.push = 0
  PROVE  MeansPlan(<<Expr(Car(Cdr(v))), Expr(Car(Cdr(Cdr(v)))), Word(BinaryOp[op])>>,
                   m, With(m, T[v]), <<V, T, D>>)
<1> DEFINE E == <<V, T, D>>
           x == Car(Cdr(v))
           y == Car(Cdr(Cdr(v)))
           w == BinaryOp[op]
<1>1. x \in V /\ y \in V
  BY DEF IsMeant
<1>2. T[v] = Node(w, <<T[x], T[y]>>)
  BY Zenon DEF IsMeant, IsMeaning
<1>3. w \in Range(BinaryOp)
  BY DEF Range
<1> HIDE DEF x, y, w
<1>4. LinkMeans(Expr(x), m, With(m, T[x]), E)
  BY <1>1, LinkPushes
<1>5. LinkMeans(Expr(y), With(m, T[x]), With(With(m, T[x]), T[y]), E)
  BY <1>1, LinkPushes, PushedTwice
<1> HIDE DEF E
<1>6. MeansPlan(<<Expr(x), Expr(y), Word(w)>>, m, With(m, Node(w, <<T[x], T[y]>>)), E)
  BY <1>3, <1>4, <1>5, BinaryWhole, Zenon
<1>7. MeansPlan(<<Expr(x), Expr(y), Word(w)>>, m, With(m, T[v]), E)
  BY <1>2, <1>6, Zenon
<1> QED  BY <1>7 DEF E, x, y, w

LEMMA FormUnary ==
  ASSUME NEW V, NEW T, NEW D, IsMeant(V, T, D), NEW v \in V, NEW op \in DOMAIN UnaryOp,
         Car(v) = SymOf(op), IsUnary(Cdr(v)), NEW m, IsMachine(m), m.push = 0
  PROVE  MeansPlan(<<Expr(Car(Cdr(v))), Word(UnaryOp[op])>>, m, With(m, T[v]), <<V, T, D>>)
<1> DEFINE E == <<V, T, D>>
           x == Car(Cdr(v))
           w == UnaryOp[op]
<1>1. x \in V
  BY DEF IsMeant
<1>2. T[v] = Node(w, <<T[x]>>)
  BY Zenon DEF IsMeant, IsMeaning
<1>3. w \in Range(UnaryOp)
  BY DEF Range
<1> HIDE DEF x, w
<1>4. LinkMeans(Expr(x), m, With(m, T[x]), E)
  BY <1>1, LinkPushes
<1> HIDE DEF E
<1>5. MeansPlan(<<Expr(x), Word(w)>>, m, With(m, Node(w, <<T[x]>>)), E)
  BY <1>3, <1>4, UnaryWhole, Zenon
<1>6. MeansPlan(<<Expr(x), Word(w)>>, m, With(m, T[v]), E)
  BY <1>2, <1>5, Zenon
<1> QED  BY <1>6 DEF E, x, w

LEMMA FormQuote ==
  ASSUME NEW V, NEW T, NEW D, IsMeant(V, T, D), NEW v \in V,
         Car(v) = SymOf("quote"), IsUnary(Cdr(v)), NEW m, IsMachine(m), m.push = 0
  PROVE  MeansPlan(<<Data(Car(Cdr(v)))>>, m, With(m, T[v]), <<V, T, D>>)
<1> DEFINE E == <<V, T, D>>
           x == Car(Cdr(v))
<1>1. x \in V
  BY DEF IsMeant
<1>2. T[v] = D[x]
  BY Zenon DEF IsMeant, IsMeaning
<1> HIDE DEF x
<1>3. LinkMeans(Data(x), m, With(m, D[x]), E)
  BY <1>1, LinkPushes
<1> HIDE DEF E
<1>4. MeansPlan(<<Data(x)>>, m, With(m, T[v]), E)
  BY <1>2, <1>3, MeansLinks
<1> QED  BY <1>4 DEF E, x

LEMMA FormData ==
  ASSUME NEW V, NEW T, NEW D, IsMeant(V, T, D), NEW v \in V, IsRef(v),
         NEW m, IsMachine(m), m.push = 0
  PROVE  MeansPlan(<<Data(Car(v)), Data(Cdr(v)), Word(CONS)>>, m, With(m, D[v]), <<V, T, D>>)
<1> DEFINE E == <<V, T, D>>
           x == Car(v)
           y == Cdr(v)
<1>1. x \in V /\ y \in V
  BY DEF IsMeant
<1>2. D[v] = Node(CONS, <<D[x], D[y]>>)
  BY DEF IsMeant, IsMeaning
<1>3. CONS \in Range(BinaryOp)
  BY Instructions DEF CONS
<1> HIDE DEF x, y
<1>4. LinkMeans(Data(x), m, With(m, D[x]), E)
  BY <1>1, LinkPushes
<1>5. LinkMeans(Data(y), With(m, D[x]), With(With(m, D[x]), D[y]), E)
  BY <1>1, LinkPushes, PushedTwice
<1> HIDE DEF E
<1>6. MeansPlan(<<Data(x), Data(y), Word(CONS)>>, m, With(m, Node(CONS, <<D[x], D[y]>>)), E)
  BY <1>3, <1>4, <1>5, BinaryWhole, Zenon
<1>7. MeansPlan(<<Data(x), Data(y), Word(CONS)>>, m, With(m, D[v]), E)
  BY <1>2, <1>6, Zenon
<1> QED  BY <1>7 DEF E, x, y
\* What the compiler puts in the place of an item has its meaning.
LEMMA CompileMeans ==
  ASSUME NEW V, NEW T, NEW D, IsMeant(V, T, D),
         CompileLeaf \/ CompileBinary \/ CompileUnary \/ CompileQuote \/ CompileData
  PROVE  \E items : IsSeq(items) /\ Replace(items) /\ MeansWhole(Head(work), items, <<V, T, D>>)
<1> DEFINE E == <<V, T, D>>
           x == Head(work)
           v == x[2]
           Done == \E items : IsSeq(items) /\ Replace(items) /\ MeansWhole(x, items, E)
<1>1. ASSUME NEW m, NEW n, LinkMeans(x, m, n, E)
      PROVE  /\ x[1] = "expr" => v \in V /\ m.push = 0 /\ n = With(m, T[v])
             /\ x[1] = "data" => v \in V /\ m.push = 0 /\ n = With(m, D[v])
  <2> HIDE DEF x
  <2> QED  BY <1>1 DEF LinkMeans, With
<1>2. ASSUME NEW items, IsSeq(items), Replace(items),
             \A m, n : IsMachine(m) /\ LinkMeans(x, m, n, E) => MeansPlan(items, m, n, E)
      PROVE  Done
  BY <1>2, Zenon DEF MeansWhole
<1> HIDE DEF Done
<1>3. ASSUME NEW t, NEW m, IsMachine(m), m.push = 0, t = LeafTree(v)
      PROVE  MeansPlan(Leaf(v), m, With(m, t), E)
  <2> HIDE DEF v, E
  <2> QED  BY <1>3, LeafWhole, Zenon DEF With
<1>4. ASSUME CompileLeaf PROVE Done
  <2>1. x[1] \in {"expr", "data"} /\ ~IsRef(v) /\ Replace(Leaf(v))
    BY <1>4 DEF CompileLeaf, Compiling
  <2>2. v \in V => T[v] = LeafTree(v) /\ D[v] = LeafTree(v)
    BY <2>1 DEF IsMeant, IsMeaning
  <2>3. IsSeq(Leaf(v))
    BY MeansLinks DEF Leaf
  <2> HIDE DEF v, E, x
  <2>4. ASSUME NEW m, NEW n, IsMachine(m), LinkMeans(x, m, n, E)
        PROVE  MeansPlan(Leaf(v), m, n, E)
    <3>1. CASE x[1] = "expr"
      <4>1. v \in V /\ m.push = 0 /\ n = With(m, T[v])
        BY <1>1, <2>4, <3>1, Zenon
      <4> QED  BY <1>3, <2>2, <2>4, <4>1, Zenon
    <3>2. CASE x[1] = "data"
      <4>1. v \in V /\ m.push = 0 /\ n = With(m, D[v])
        BY <1>1, <2>4, <3>2, Zenon
      <4> QED  BY <1>3, <2>2, <2>4, <4>1, Zenon
    <3> QED  BY <2>1, <3>1, <3>2
  <2> QED  BY <1>2, <2>1, <2>3, <2>4
<1>5. ASSUME CompileBinary PROVE Done
  <2> DEFINE y == Expr(Car(Cdr(v)))
             z == Expr(Car(Cdr(Cdr(v))))
  <2>1. x[1] = "expr"
    BY <1>5 DEF CompileBinary, Compiling
  <2>2. PICK op \in DOMAIN BinaryOp :
          Car(v) = SymOf(op) /\ IsBinary(Cdr(v)) /\ Replace(<<y, z, Word(BinaryOp[op])>>)
    BY <1>5, Zenon DEF CompileBinary
  <2> DEFINE items == <<y, z, Word(BinaryOp[op])>>
  <2>3. ASSUME v \in V, NEW m, IsMachine(m), m.push = 0
        PROVE  MeansPlan(items, m, With(m, T[v]), E)
    BY <2>2, <2>3, FormBinary, Zenon
  <2>4. IsSeq(items)
    BY MeansLinks, Zenon
  <2>5. Replace(items)
    BY <2>2
  <2> HIDE DEF v, E, x, items
  <2>6. ASSUME NEW m, NEW n, IsMachine(m), LinkMeans(x, m, n, E) PROVE MeansPlan(items, m, n, E)
    BY <1>1, <2>1, <2>3, <2>6, Zenon
  <2> QED  BY <1>2, <2>4, <2>5, <2>6
<1>6. ASSUME CompileUnary PROVE Done
  <2> DEFINE y == Expr(Car(Cdr(v)))
  <2>1. x[1] = "expr"
    BY <1>6 DEF CompileUnary, Compiling
  <2>2. PICK op \in DOMAIN UnaryOp :
          Car(v) = SymOf(op) /\ IsUnary(Cdr(v)) /\ Replace(<<y, Word(UnaryOp[op])>>)
    BY <1>6, Zenon DEF CompileUnary
  <2> DEFINE items == <<y, Word(UnaryOp[op])>>
  <2>3. ASSUME v \in V, NEW m, IsMachine(m), m.push = 0
        PROVE  MeansPlan(items, m, With(m, T[v]), E)
    BY <2>2, <2>3, FormUnary, Zenon
  <2>4. IsSeq(items)
    BY MeansLinks, Zenon
  <2>5. Replace(items)
    BY <2>2
  <2> HIDE DEF v, E, x, items
  <2>6. ASSUME NEW m, NEW n, IsMachine(m), LinkMeans(x, m, n, E) PROVE MeansPlan(items, m, n, E)
    BY <1>1, <2>1, <2>3, <2>6, Zenon
  <2> QED  BY <1>2, <2>4, <2>5, <2>6
<1>7. ASSUME CompileQuote PROVE Done
  <2> DEFINE items == <<Data(Car(Cdr(v)))>>
  <2>1. x[1] = "expr" /\ Car(v) = SymOf("quote") /\ IsUnary(Cdr(v)) /\ Replace(items)
    BY <1>7, Zenon DEF CompileQuote, Compiling
  <2>2. ASSUME v \in V, NEW m, IsMachine(m), m.push = 0
        PROVE  MeansPlan(items, m, With(m, T[v]), E)
    BY <2>1, <2>2, FormQuote, Zenon
  <2>3. IsSeq(items)
    BY MeansLinks, Zenon
  <2> HIDE DEF v, E, x, items
  <2>4. ASSUME NEW m, NEW n, IsMachine(m), LinkMeans(x, m, n, E) PROVE MeansPlan(items, m, n, E)
    BY <1>1, <2>1, <2>2, <2>4, Zenon
  <2> QED  BY <1>2, <2>1, <2>3, <2>4
<1>8. ASSUME CompileData PROVE Done
  <2> DEFINE items == <<Data(Car(v)), Data(Cdr(v)), Word(CONS)>>
  <2>1. /\ (x[1] = "expr" /\ ~IsForm(v)) \/ x[1] = "data"
        /\ IsRef(v) /\ Replace(items)
    BY <1>8, Zenon DEF CompileData, Compiling
  <2>2. x[1] = "expr" /\ v \in V => T[v] = D[v]
    <3>1. "expr" # "data"
      OBVIOUS
    <3> QED  BY <2>1, <3>1, Zenon DEF IsMeant, IsMeaning
  <2>3. ASSUME v \in V, NEW m, IsMachine(m), m.push = 0
        PROVE  MeansPlan(items, m, With(m, D[v]), E)
    BY <2>1, <2>3, FormData, Zenon
  <2>4. IsSeq(items)
    BY MeansLinks, Zenon
  <2> HIDE DEF v, E, x, items
  <2>5. ASSUME NEW m, NEW n, IsMachine(m), LinkMeans(x, m, n, E) PROVE MeansPlan(items, m, n, E)
    <3>1. v \in V /\ m.push = 0 /\ n = With(m, D[v])
      BY <1>1, <2>1, <2>2, <2>5, Zenon
    <3> QED  BY <2>3, <2>5, <3>1, Zenon
  <2> QED  BY <1>2, <2>1, <2>4, <2>5
<1>9. Done
  BY <1>4, <1>5, <1>6, <1>7, <1>8
<1> QED  BY <1>9 DEF Done
MeansInv(V, T, D) ==
  \A r : IsRun(r, code) /\ Len(code) < CodeMax =>
    /\ phase = "compile" =>
         MeansPlan(work, r[Len(code)], Machine(<<T[value]>>, 0), <<V, T, D>>)
    /\ phase = "done" => r[Len(code)] = Machine(<<T[value]>>, 0)

LEMMA ExpandMeans ==
  ASSUME NEW V, NEW T, NEW D, CodeInv, Expand, value' \in V
  PROVE  MeansInv(V, T, D)'
<1> DEFINE E == <<V, T, D>>
           v == value'
           e == << >>
           t == <<T[v]>>
           z == Machine(t, 0)
           items == <<Expr(v), Word(RET)>>
<1>1. code' = e /\ phase' = "compile" /\ work' = items
  BY DEF CodeInv, Early, Expand
<1>2. Len(e) = 0 /\ (\A r : IsRun(r, e) => r[0] = Start)
  BY EmptyRun
<1>3. Start.push = 0 /\ With(Start, T[v]) = z
  BY DEF Start, With, Machine
<1>4. LinkMeans(Expr(v), Start, z, E)
  BY <1>3, LinkPushes
<1>5. Executed(z, RET) = z
  <2>1. z.ok /\ z.s = t /\ z.push = 0 /\ Len(t) = 1
    BY DEF Machine
  <2> HIDE DEF z, t
  <2> QED  BY <2>1, Instructions DEF Executed, PUSH_INT, PUSH_SYM, PUSH_NIL, RET
<1> HIDE DEF z, E
<1>6. LinkMeans(Word(RET), z, z, E)
  BY <1>5 DEF LinkMeans, Word
<1>7. MeansPlan(items, Start, z, E)
  BY <1>4, <1>6, MeansLinks, Zenon
<1> HIDE DEF items, e, v
<1>8. ASSUME NEW r, IsRun(r, e) PROVE MeansPlan(items, r[Len(e)], z, E)
  BY <1>2, <1>7, <1>8
<1>9. phase' # "done"
  BY <1>1
<1> QED  BY <1>1, <1>8, <1>9, Zenon DEF MeansInv, z, t, E, v

LEMMA ReplaceMeans ==
  ASSUME NEW V, NEW T, NEW D, CodeInv, MeansInv(V, T, D), phase = "compile", work # << >>,
         NEW items, IsSeq(items), Replace(items), MeansWhole(Head(work), items, <<V, T, D>>)
  PROVE  MeansInv(V, T, D)'
<1> DEFINE E == <<V, T, D>>
           z == Machine(<<T[value]>>, 0)
           w == items \o Tail(work)
<1>1. phase' = "compile" /\ code' = code /\ work' = w /\ value' = value
  BY DEF Replace
<1>2. ASSUME NEW r, IsRun(r, code), Len(code) < CodeMax PROVE MeansPlan(w, r[Len(code)], z, E)
  <2> DEFINE m == r[Len(code)]
  <2>1. MeansPlan(work, m, z, E)
    BY <1>2, Zenon DEF MeansInv
  <2>2. IsMachine(m)
    BY <1>2 DEF CodeInv, OfHeight
  <2> HIDE DEF m, z, E
  <2>3. \A b : LinkMeans(Head(work), m, b, E) => MeansPlan(items, m, b, E)
    BY <2>2 DEF MeansWhole, E
  <2>4. IsSeq(work)
    BY DEF CodeInv
  <2>5. MeansPlan(items \o Tail(work), m, z, E)
    BY <2>1, <2>3, <2>4, MeansReplaced
  <2> QED  BY <2>5 DEF m
<1>3. phase' # "done"
  BY <1>1
<1> HIDE DEF w
<1> QED  BY <1>1, <1>2, <1>3, Zenon DEF MeansInv

LEMMA EmitMeans ==
  ASSUME NEW V, NEW T, NEW D, ReaderInv, CodeInv, MeansInv(V, T, D), Emit
  PROVE  MeansInv(V, T, D)'
<1> DEFINE E == <<V, T, D>>
           z == Machine(<<T[value]>>, 0)
           x == Head(work)
           w == x[2]
           d == Append(code, w)
<1>1. /\ phase = "compile" /\ work # << >> /\ x[1] = "word" /\ phase' = "compile"
      /\ code' = (IF Len(code) < CodeMax THEN d ELSE code)
      /\ work' = Tail(work) /\ value' = value
  BY DEF Emit, Compiling
<1>2. IsSeq(code) /\ Len(code) \in Nat /\ Len(d) = Len(code) + 1 /\ CodeMax \in Nat
  BY Basics, Pushed DEF IsSeq
<1>3. IsSeq(work)
  BY DEF CodeInv
<1>4. phase' # "done"
  BY <1>1
<1>5. CASE Len(code) < CodeMax
  <2>1. code' = d
    BY <1>1, <1>5
  <2>2. \A r : IsRun(r, d) =>
           \E q : IsRun(q, code) /\ r[Len(code) + 1] = Executed(q[Len(code)], w)
    BY <1>2, RunGrows
  <2> HIDE DEF d, E, z
  <2>3. ASSUME NEW r, IsRun(r, d) PROVE MeansPlan(Tail(work), r[Len(d)], z, E)
    <3>1. PICK q : IsRun(q, code) /\ r[Len(d)] = Executed(q[Len(code)], w)
      BY <1>2, <2>2, <2>3
    <3>2. MeansPlan(work, q[Len(code)], z, E)
      BY <1>1, <1>5, <3>1, Zenon DEF MeansInv, z, E
    <3>3. PICK b : LinkMeans(x, q[Len(code)], b, E) /\ MeansPlan(Tail(work), b, z, E)
      BY <1>1, <1>3, <3>2, MeansDone
    <3>4. b = Executed(q[Len(code)], w)
      BY <1>1, <3>3 DEF LinkMeans
    <3> QED  BY <3>1, <3>3, <3>4, Zenon
  <2> QED  BY <1>1, <1>4, <2>1, <2>3, Zenon DEF MeansInv, z, E
<1>6. CASE ~(Len(code) < CodeMax)
  <2>1. code' = code
    BY <1>1, <1>6
  <2> QED  BY <1>6, <2>1, Zenon DEF MeansInv
<1> QED  BY <1>5, <1>6

LEMMA FinishMeans ==
  ASSUME NEW V, NEW T, NEW D, MeansInv(V, T, D), Finish
  PROVE  MeansInv(V, T, D)'
<1> DEFINE E == <<V, T, D>>
           z == Machine(<<T[value]>>, 0)
           e == << >>
<1>1. phase = "compile" /\ work = e /\ phase' = "done" /\ code' = code /\ value' = value
  BY DEF Finish
<1>2. Len(e) = 0
  OBVIOUS
<1>3. phase' # "compile"
  BY <1>1
<1> HIDE DEF e, E, z
<1>4. ASSUME NEW r, IsRun(r, code), Len(code) < CodeMax PROVE r[Len(code)] = z
  <2>1. MeansPlan(e, r[Len(code)], z, E)
    BY <1>1, <1>4, Zenon DEF MeansInv, z, E
  <2>2. PICK p : p[1] = r[Len(code)] /\ p[Len(e) + 1] = z
    BY <2>1, Zenon DEF MeansPlan
  <2> QED  BY <1>2, <2>2
<1> QED  BY <1>1, <1>3, <1>4, Zenon DEF MeansInv, z

\* The compiler is correct.  Whatever meaning T expressions have, if only it is
\* that of their form with the meanings of its operands, the code of a value
\* that fits leaves that meaning, and nothing else, on the stack of the machine
\* (pair-machine.c:791-873); D is the meaning of data.  What the value is, after
\* macro expansion, and how deep, does not matter.
THEOREM CompilerCorrect ==
  ASSUME NEW V, NIL \in V,
         \A a, d \in V : Join(a, d) \in V,
         \A v \in V : macro_expand(v) \in V,
         \A t \in Texts : \A i \in DOMAIN t : IsAtom(t[i]) => AtomValue(t[i]) \in V,
         NEW T, NEW D, IsMeant(V, T, D)
  PROVE  Spec => []CodeMeans(T)
<1>1. Spec => [](value \in V)
  <2> DEFINE P == value \in V /\ source \in V /\ \A i \in DOMAIN stack : stack[i].first \in V
  <2>1. Spec => []P
    BY ValuesStayValues
  <2>2. P => value \in V
    OBVIOUS
  <2> HIDE DEF P
  <2> QED  BY <2>1, <2>2, PTL
<1>2. Init => MeansInv(V, T, D)
  <2> SUFFICES ASSUME Init PROVE MeansInv(V, T, D)
    OBVIOUS
  <2>1. phase # "compile" /\ phase # "done"
    BY DEF Init
  <2> QED  BY <2>1, Zenon DEF MeansInv
<1>3. ASSUME ReaderInv, CodeInv, MeansInv(V, T, D), (value \in V)', [Next]_vars
      PROVE  MeansInv(V, T, D)'
  <2>1. CASE ReadOpen \/ ReadAtom \/ ReadNothing \/ ReadClose \/ ReadFirst \/ ThenDot \/ ThenRest
             \/ EndPair \/ EndList
    <3>1. phase' # "compile" /\ phase' # "done"
      BY <2>1 DEF ReadOpen, ReadAtom, ReadNothing, ReadClose, ReadFirst, ThenDot, ThenRest, EndPair,
                  EndList, Return, Resume
    <3> QED  BY <3>1, Zenon DEF MeansInv
  <2>2. CASE Expand
    BY <1>3, <2>2, ExpandMeans
  <2>3. CASE CompileLeaf \/ CompileBinary \/ CompileUnary \/ CompileQuote \/ CompileData
    <3>1. phase = "compile" /\ work # << >>
      BY <2>3 DEF CompileLeaf, CompileBinary, CompileUnary, CompileQuote, CompileData, Compiling
    <3>2. PICK items : /\ IsSeq(items) /\ Replace(items)
                       /\ MeansWhole(Head(work), items, <<V, T, D>>)
      BY <2>3, CompileMeans, Zenon
    <3> QED  BY <1>3, <3>1, <3>2, ReplaceMeans, Zenon
  <2>4. CASE Emit
    BY <1>3, <2>4, EmitMeans
  <2>5. CASE Finish
    BY <1>3, <2>5, FinishMeans
  <2>6. CASE UNCHANGED vars
    <3>1. work' = work /\ code' = code /\ phase' = phase /\ value' = value
      BY <2>6 DEF vars
    <3> QED  BY <1>3, <3>1, Zenon DEF MeansInv
  <2> QED  BY <1>3, <2>1, <2>2, <2>3, <2>4, <2>5, <2>6 DEF Next
<1>4. CodeInv /\ MeansInv(V, T, D) => CodeMeans(T)
  <2> SUFFICES ASSUME CodeInv, MeansInv(V, T, D), phase = "done", Len(code) < CodeMax
               PROVE  Run(code).s = <<T[value]>>
    BY DEF CodeMeans
  <2>1. PICK r : IsRun(r, code) /\ Run(code) = r[Len(code)]
    BY RunChosen DEF CodeInv
  <2>2. r[Len(code)] = Machine(<<T[value]>>, 0)
    BY <2>1, Zenon DEF MeansInv
  <2> QED  BY <2>1, <2>2 DEF Machine
<1>5. Spec => [](ReaderInv /\ CodeInv)
  BY CodeStays, PTL
<1> QED  BY <1>1, <1>2, <1>3, <1>4, <1>5, PTL DEF Spec
=============================================================================
