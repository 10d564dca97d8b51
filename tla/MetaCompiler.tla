---------------------------- MODULE MetaCompiler ----------------------------
(***************************************************************************)
(* The meta-compiler of pair-machine.c: text is read into a value, the     *)
(* macros in it are expanded, and the result is compiled to words for a    *)
(* stack machine.                                                          *)
(*                                                                         *)
(* A text is a sequence of tokens, the white space between them left out.  *)
(* The recursion of the reader is a stack of frames, one for each call     *)
(* that waits for the value of another; that of the compiler is a list of  *)
(* what has still to be compiled, the next first.  A value is a tuple: the *)
(* cells are those of PairMachine and do not run out here.                 *)
(***************************************************************************)
EXTENDS Integers, Sequences, FiniteSets, SequencesExt

CONSTANTS
  Texts,      \* what may be read
  Payload,    \* 2^14
  CStack,     \* calls of the reader that the C stack has room for
  CodeMax,    \* words in a Bytecode, 2048
  macro_expand(_)  \* what macro_expand makes of a value: MacroExpand of MetaTrees

\* The texts of the program are short literals; a list that is closed is no
\* deeper than its text is long.
ASSUME ReaderAssumption ==
  /\ CStack \in Nat /\ CodeMax \in Nat
  /\ \A t \in Texts : t \in Seq(Range(t)) /\ Len(t) <= CStack

Num(k)    == <<"int", k>>
Sym(k)    == <<"sym", k>>
NIL       == <<"nil">>
TRUTH     == <<"true">>
Join(a, d) == <<"pair", a, d>>

IsRef(v) == v[1] = "pair"
Car(v)   == IF IsRef(v) THEN v[2] ELSE NIL
Cdr(v)   == IF IsRef(v) THEN v[3] ELSE NIL

symbol_names ==
  <<"quote", "if", "define", "car", "cdr", "cons", "x", "y", "w", "h", "c", "t", "id", "poly",
    "vars", "terms", "term", "coef", "mons", "add", "mul", "inc", "square">>

SymOf(name) == Sym((CHOOSE i \in DOMAIN symbol_names : symbol_names[i] = name) - 1)

-----------------------------------------------------------------------------
(* Tokens.                                                                 *)

Open      == <<"(">>
Close     == <<")">>
Dot       == <<".">>
Name(s)   == <<"name", s>>
Digits(k) == <<"digits", k>>

IsAtom(tok) == tok[1] \in {"name", "digits"}

\* Mutant: a number is not cut to the payload.
AtomValueWhole(tok) ==
  CASE tok[1] = "digits" -> Num(tok[2] % (4 * Payload))
    [] tok = Name("nil") -> NIL
    [] tok = Name("t")   -> TRUTH
    [] tok[1] = "name" /\ tok[2] \in Range(symbol_names) \ {"t"} -> SymOf(tok[2])
    [] OTHER -> SymOf("id")

\* parse_atom.  A number is cut to 16 bits, then to 14; a name that is not
\* known is that of the symbol id; nil and t are no symbols.
AtomValue(tok) ==
  CASE tok[1] = "digits" -> Num((tok[2] % (4 * Payload)) % Payload)
    [] tok = Name("nil") -> NIL
    [] tok = Name("t")   -> TRUTH
    [] tok[1] = "name" /\ tok[2] \in Range(symbol_names) \ {"t"} -> SymOf(tok[2])
    [] OTHER -> SymOf("id")

-----------------------------------------------------------------------------
VARIABLES
  text,    \* what is read
  at,      \* tokens consumed
  phase,   \* "expr", "list", "value" while it is read; "compile", "done"; "crash"
  value,   \* what the reader returns; then, what is compiled
  stack,   \* the calls that wait, the innermost last: "first", "dotted", "rest"
  source,  \* what was read (history)
  work,    \* what has still to be compiled
  code     \* bc

vars == <<text, at, phase, value, stack, source, work, code>>

Init ==
  /\ text \in Texts
  /\ at = 0 /\ phase = "expr" /\ value = NIL /\ stack = << >>
  /\ source = NIL /\ work = << >> /\ code = << >>

\* Is token tok the next one?
IsNext(tok) == at < Len(text) /\ text[at + 1] = tok

Return(v) == phase' = "value" /\ value' = v
Wait(kind, v) == stack' = Append(stack, [kind |-> kind, first |-> v])
Resume(kind) == phase = "value" /\ stack # << >> /\ Last(stack).kind = kind

ReadOpen ==
  /\ phase = "expr" /\ IsNext(Open)
  /\ at' = at + 1 /\ phase' = "list"
  /\ UNCHANGED <<text, value, stack, source, work, code>>

ReadAtom ==
  /\ phase = "expr" /\ at < Len(text) /\ IsAtom(text[at + 1])
  /\ at' = at + 1 /\ Return(AtomValue(text[at + 1]))
  /\ UNCHANGED <<text, stack, source, work, code>>

\* Mutant: what is no expression is passed over.
ReadPast ==
  /\ phase = "expr" /\ (at = Len(text) \/ IsNext(Close) \/ IsNext(Dot))
  /\ at' = IF at = Len(text) THEN at ELSE at + 1
  /\ Return(NIL)
  /\ UNCHANGED <<text, stack, source, work, code>>

\* An expression is expected where there is none: nil, and nothing is consumed.
ReadNothing ==
  /\ phase = "expr" /\ (at = Len(text) \/ IsNext(Close) \/ IsNext(Dot))
  /\ Return(NIL)
  /\ UNCHANGED <<text, at, stack, source, work, code>>

ReadClose ==
  /\ phase = "list" /\ IsNext(Close)
  /\ at' = at + 1 /\ Return(NIL)
  /\ UNCHANGED <<text, stack, source, work, code>>

\* parse_list_or_pair calls itself, at the end of the text too, as long as the
\* C stack has room.
ReadFirst ==
  /\ phase = "list" /\ ~IsNext(Close)
  /\ IF Len(stack) < CStack
     THEN Wait("first", NIL) /\ phase' = "expr"
     ELSE phase' = "crash" /\ UNCHANGED stack
  /\ UNCHANGED <<text, at, value, source, work, code>>

ThenDot ==
  /\ Resume("first") /\ IsNext(Dot)
  /\ at' = at + 1 /\ phase' = "expr"
  /\ stack' = Append(Front(stack), [kind |-> "dotted", first |-> value])
  /\ UNCHANGED <<text, value, source, work, code>>

ThenRest ==
  /\ Resume("first") /\ ~IsNext(Dot)
  /\ phase' = "list"
  /\ stack' = Append(Front(stack), [kind |-> "rest", first |-> value])
  /\ UNCHANGED <<text, at, value, source, work, code>>

\* Mutant: the parenthesis after a dotted pair is left.
EndPairLeft ==
  /\ Resume("dotted")
  /\ Return(Join(Last(stack).first, value))
  /\ stack' = Front(stack)
  /\ UNCHANGED <<text, at, source, work, code>>

\* A dotted pair that is not closed is reported, and nil.
EndPair ==
  /\ Resume("dotted")
  /\ at' = IF IsNext(Close) THEN at + 1 ELSE at
  /\ Return(IF IsNext(Close) THEN Join(Last(stack).first, value) ELSE NIL)
  /\ stack' = Front(stack)
  /\ UNCHANGED <<text, source, work, code>>

EndList ==
  /\ Resume("rest")
  /\ Return(Join(Last(stack).first, value))
  /\ stack' = Front(stack)
  /\ UNCHANGED <<text, at, source, work, code>>

-----------------------------------------------------------------------------
(* Macros and compiler.                                                    *)

IsUnary(args)  == IsRef(args) /\ Cdr(args) = NIL
IsBinary(args) == IsRef(args) /\ IsRef(Cdr(args)) /\ Cdr(Cdr(args)) = NIL

PUSH_INT == 1
PUSH_SYM == 2
PUSH_NIL == 3
CONS     == 4
RET      == 255
BinaryOp == [cons |-> CONS, add |-> 7, mul |-> 8]
UnaryOp  == [car |-> 5, cdr |-> 6]

Expr(v) == <<"expr", v>>
Data(v) == <<"data", v>>
Word(w) == <<"word", w>>

\* The reader is done; the macros are expanded and the compiler starts.
Expand ==
  /\ phase = "value" /\ stack = << >>
  /\ phase' = "compile" /\ source' = value /\ value' = macro_expand(value)
  /\ work' = <<Expr(value'), Word(RET)>>
  /\ UNCHANGED <<text, at, stack, code>>

Compiling(kind) == phase = "compile" /\ work # << >> /\ Head(work)[1] = kind
Replace(items) ==
  /\ work' = items \o Tail(work)
  /\ UNCHANGED <<text, at, phase, value, stack, source, code>>

Leaf(v) ==
  CASE v[1] = "int" -> <<Word(PUSH_INT), Word(v[2])>>
    [] v[1] = "sym" -> <<Word(PUSH_SYM), Word(v[2])>>
    [] OTHER        -> <<Word(PUSH_NIL)>>

CompileLeaf ==
  \E kind \in {"expr", "data"} :
    /\ Compiling(kind) /\ ~IsRef(Head(work)[2])
    /\ Replace(Leaf(Head(work)[2]))

\* Mutant: the operands of a binary operation change places.
CompileBinarySwapped ==
  \E op \in DOMAIN BinaryOp :
    LET args == Cdr(Head(work)[2])
    IN  /\ Compiling("expr") /\ Car(Head(work)[2]) = SymOf(op) /\ IsBinary(args)
        /\ Replace(<<Expr(Car(Cdr(args))), Expr(Car(args)), Word(BinaryOp[op])>>)

CompileBinary ==
  \E op \in DOMAIN BinaryOp :
    LET args == Cdr(Head(work)[2])
    IN  /\ Compiling("expr") /\ Car(Head(work)[2]) = SymOf(op) /\ IsBinary(args)
        /\ Replace(<<Expr(Car(args)), Expr(Car(Cdr(args))), Word(BinaryOp[op])>>)

CompileUnary ==
  \E op \in DOMAIN UnaryOp :
    LET args == Cdr(Head(work)[2])
    IN  /\ Compiling("expr") /\ Car(Head(work)[2]) = SymOf(op) /\ IsUnary(args)
        /\ Replace(<<Expr(Car(args)), Word(UnaryOp[op])>>)

CompileQuote ==
  LET args == Cdr(Head(work)[2])
  IN  /\ Compiling("expr") /\ Car(Head(work)[2]) = SymOf("quote") /\ IsUnary(args)
      /\ Replace(<<Data(Car(args))>>)

IsForm(v) ==
  \/ \E op \in DOMAIN BinaryOp : Car(v) = SymOf(op) /\ IsBinary(Cdr(v))
  \/ \E op \in DOMAIN UnaryOp : Car(v) = SymOf(op) /\ IsUnary(Cdr(v))
  \/ Car(v) = SymOf("quote") /\ IsUnary(Cdr(v))

\* A list that is no form is data, whatever it contains.
CompileData ==
  LET v == Head(work)[2]
  IN  /\ \/ Compiling("expr") /\ IsRef(v) /\ ~IsForm(v)
         \/ Compiling("data") /\ IsRef(v)
      /\ Replace(<<Data(Car(v)), Data(Cdr(v)), Word(CONS)>>)

\* Mutant: a full bytecode keeps its last word up to date.
EmitLast ==
  /\ Compiling("word")
  /\ code' = IF Len(code) < CodeMax THEN Append(code, Head(work)[2])
             ELSE [code EXCEPT ![CodeMax] = Head(work)[2]]
  /\ work' = Tail(work)
  /\ UNCHANGED <<text, at, phase, value, stack, source>>

\* bc_emit: a word that does not fit is dropped.
Emit ==
  /\ Compiling("word")
  /\ code' = IF Len(code) < CodeMax THEN Append(code, Head(work)[2]) ELSE code
  /\ work' = Tail(work)
  /\ UNCHANGED <<text, at, phase, value, stack, source>>

Finish ==
  /\ phase = "compile" /\ work = << >>
  /\ phase' = "done"
  /\ UNCHANGED <<text, at, value, stack, source, work, code>>

Next ==
  \/ ReadOpen \/ ReadAtom \/ ReadNothing \/ ReadClose \/ ReadFirst
  \/ ThenDot \/ ThenRest \/ EndPair \/ EndList
  \/ Expand \/ CompileLeaf \/ CompileBinary \/ CompileUnary \/ CompileQuote \/ CompileData
  \/ Emit \/ Finish

Spec == Init /\ [][Next]_vars

-----------------------------------------------------------------------------
(* What the reader and the compiler promise; the promises about values are *)
(* in MCMetaCompiler.                                                      *)

\* The counters stay within the text, the C stack and the bytecode.
ReaderOK ==
  /\ at \in 0 .. Len(text)
  /\ phase \in {"expr", "list", "value", "compile", "done", "crash"}
  /\ Len(stack) <= CStack
  /\ \A i \in DOMAIN stack : stack[i].kind \in {"first", "dotted", "rest"}
  /\ Len(code) <= CodeMax

Opened(k) == Cardinality({i \in 1 .. k : text[i] = Open})
Closed(k) == Cardinality({i \in 1 .. k : text[i] = Close})
NoDot == \A i \in DOMAIN text : text[i] # Dot

\* The reader exhausts the C stack only on a list that is not closed, and it
\* always does on one without dots (pair-machine.c:692-711).
CrashIsUnclosed ==
  /\ phase = "crash" => Opened(Len(text)) > Closed(Len(text))
  /\ phase \in {"compile", "done"} /\ text # << >> /\ Head(text) = Open /\ NoDot =>
       \E k \in 1 .. Len(text) : Opened(k) = Closed(k)

-----------------------------------------------------------------------------
(* A machine for the code, over expressions.  The program has none.        *)

Node(op, args) == <<"node", op, args>>

\* s is the stack, push the instruction whose operand is the next word.
Machine(s, push) == [ok |-> TRUE, s |-> s, push |-> push]
Stuck == [ok |-> FALSE, s |-> << >>, push |-> 0]

\* The last k expressions become one.
Taken(m, k, w) ==
  LET n == Len(m.s)
  IN  Machine(Append(SubSeq(m.s, 1, n - k), Node(w, SubSeq(m.s, n - k + 1, n))), 0)

Executed(m, w) ==
  IF ~m.ok THEN m
  ELSE IF m.push # 0
       THEN Machine(Append(m.s, IF m.push = PUSH_INT THEN Num(w) ELSE Sym(w)), 0)
  ELSE IF w \in {PUSH_INT, PUSH_SYM} THEN Machine(m.s, w)
  ELSE IF w = PUSH_NIL THEN Machine(Append(m.s, NIL), 0)
  ELSE IF w \in Range(UnaryOp) /\ Len(m.s) >= 1 THEN Taken(m, 1, w)
  ELSE IF w \in Range(BinaryOp) /\ Len(m.s) >= 2 THEN Taken(m, 2, w)
  ELSE IF w = RET /\ Len(m.s) = 1 THEN m
  ELSE Stuck

Run(c) ==
  LET run[n \in 0 .. Len(c)] ==
        IF n = 0 THEN Machine(<< >>, 0) ELSE Executed(run[n - 1], c[n])
  IN  run[Len(c)]

\* No instruction of the code, cut or not, finds too few operands
\* (pair-machine.c:792-869).
CodeRuns == Run(code).ok

-----------------------------------------------------------------------------
(* Meanings.  T gives the values V their meaning as expressions, an        *)
(* expression for the machine, D their meaning as data.                    *)

LeafTree(v) == CASE v[1] = "int" -> Num(v[2])
                 [] v[1] = "sym" -> Sym(v[2])
                 [] OTHER        -> NIL

\* The meaning of a form is its instruction with the meanings of its operands; a
\* list that is no form is data.
IsMeaning(V, T, D) ==
  \A v \in V :
    LET args == Cdr(v)
    IN  /\ ~IsRef(v) => T[v] = LeafTree(v) /\ D[v] = LeafTree(v)
        /\ IsRef(v) => D[v] = Node(CONS, <<D[Car(v)], D[Cdr(v)]>>)
        /\ IsRef(v) /\ ~IsForm(v) => T[v] = D[v]
        /\ \A op \in DOMAIN BinaryOp : Car(v) = SymOf(op) /\ IsBinary(args) =>
             T[v] = Node(BinaryOp[op], <<T[Car(args)], T[Car(Cdr(args))]>>)
        /\ \A op \in DOMAIN UnaryOp : Car(v) = SymOf(op) /\ IsUnary(args) =>
             T[v] = Node(UnaryOp[op], <<T[Car(args)]>>)
        /\ Car(v) = SymOf("quote") /\ IsUnary(args) => T[v] = D[Car(args)]

\* T and D are a meaning of the values V, which contain their parts.
IsMeant(V, T, D) ==
  /\ \A v \in V : Car(v) \in V /\ Cdr(v) \in V
  /\ IsMeaning(V, T, D)

\* The code of what was compiled, if all of it fits, leaves its meaning on the
\* stack and nothing else (pair-machine.c:791-873).
CodeMeans(T) ==
  phase = "done" /\ Len(code) < CodeMax => Run(code).s = <<T[value]>>
=============================================================================
