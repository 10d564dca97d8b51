# Omnicron: models, checks and proofs

This directory holds TLA+ specifications of the omnicron repository: the
declarative lock layer, the two boot gates, the `omi-lisp/1` network protocol,
the live RISC-V kernel, the pair machine with its polynomials and its
meta-compiler, and the search of the two Prolog engines. TLC checks them on small
instances; TLAPS proves part of what TLC checks for every instance.
`PROJECT.json` lists the components, the runs, the mutants, the hazards, the
theorems, and the source lines each definition translates.

## The system

The repository is one story told by several small programs. They share
conventions (the byte `0x2F`, the period 5040, a 16-bit word) rather than code.

| Component | Source | State it keeps | Operations | Talks to |
|---|---|---|---|---|
| Lock layer | `logic/tools/lockctl.mjs`, `logic/verify/verify_locks.mjs` | `locks_manifest.logic`, `lock_state.ndjson`, `lock_receipts.ndjson` | checkout, checkin, resolve, reopen, status, sync-state; verify | each command is a process; they meet in the files |
| Boot gate | `pair-machine.c` (`verify_preheader_contract`), `header8_runtime.mjs`, `header_ladder_runtime.mjs`, `dot_rewrite.mjs` | phase, index, running header, the four fields of the rewriter | one call per stream (C); one step per entry (JavaScript) | the C reader, packet replay, the attestation scripts |
| Network protocol | `logic/runtime/network_protocol.mjs` | server: set of clients; client: flag, callback table, one timer per call | connect, send, ping, message, close, timeout | WebSocket, in order until it drops |
| Atomic kernel | `riscv-baremetal/atomic_kernel.c` | kernel state, phase, BOM, four channel clocks, debugger record | heartbeat, delta, composition, report, fingerprint | a debugger; the shared memory is compiled out |
| Pair machine | `pair-machine.c` | 4096 cells, `free_ptr`, `g_env` | read, macro-expand, eval, define, compile, polynomials | stdout |
| Guest prototypes | `composition.h`, `virtio_read.h`, `interpolator.c`, `omicron*.c`, `ttc_tal.h`, `sexagesimal.h` | rings, registers, phase | sampling, interpolation, composition | none is linked into the live kernel |
| `logic-interp.c` | Lisp and Prolog | environment, facts, rules, substitutions | eval, unify, solve, assert, query | stdin/stdout |
| `polylog.c` | four dialects | reference-counted terms, fact and clause stores | read, eval, query | files, stdout |
| Datalog, packet replay | `datalog_engine.mjs`, `logic_packet_replay.mjs` | fact lists; replay state and output | add, query; replay | the boot gate |
| Planes, geometry, audio, viewer, scripts, polyform data | | none, or files | formatting, drawing, comparing | |

What is hard here: processes that share files without a lock and can be killed
between two writes (lock layer); one boundary decided by two languages
(boot gate); two event loops, a link that drops, timers that race replies
(network); counters that wrap at different places and memory that is never
initialised (kernel); memory that runs out in the middle of a structure and
environments that change under an evaluation (pair machine); a table that is
full and words that wrap (polynomials); a recursion that only the end of the
input could stop (reader); bindings made by many unifications at many depths,
some of which are taken back (Prolog engines). `hazards` in
`PROJECT.json` names the lines.

## The modules

| Module | Models | Its state and actions against the code |
|---|---|---|
| `LeaseLayer` | what the lock layer promises | one variable, `lease`; one atomic step for each command |
| `LockCtl` | lockctl and verify_locks | every file access is a step: a writer goes *read, hash, truncate, fill, state, receipt*; an auditor *read, check hashes, git status, publish*. `manifest`, `stateFile`, `receipts` and the disk are the files; `view`, `job`, `pc` are the memory of a process |
| `MCLockCtl`, `LockCtlProofs` | symmetry for TLC; proofs | |
| `BootGate` | the two gates | `Contract` is the C gate, an operator since it is one pure call; `Step` is one turn of `evaluateStream`, with the token rewriter's `Rewrite` and `Emit` inside it |
| `MCBootGate`, `BootGateProofs` | streams for TLC; proofs | |
| `OmiNetwork`, `OmiNetworkProofs` | server, clients, links; proofs | one action per handler (`Accept`, `Opened`, `ServerClose`, `ClientClose`, `Send`, `Timeout`, `Receive`, `Handle`); `Drop` and `Tick` are the network and the clock |
| `AtomicKernel`, `AtomicKernelProofs` | `main()` of the kernel | one action per turn of each loop (`WarmupStep`, `CycleStep`), one for the change of loops, one for the end; a 32-bit word is the set of its one-bits |
| `PairMachine` | heap, environment, `eval` | the C recursion is a stack of frames, one action per kind of expression and one per return into a waiting call; `heap` is append-only by `Alloc` and `Extend` |
| `MCPairMachine`, `PairMachineProofs` | programs as trees, the reader, a reference semantics; proofs | |
| `PolyEngine` | `poly_add`, `poly_mul`, `poly_deriv`, `normalize_terms`, `poly_eval` | one action per turn of each loop; `todo` is the list that is built and then summed, `agg` the table of `normalize_terms` up to `used`, `out` the result. `poly_eval` changes nothing and is an operator: its three loops are instances of `Loop` |
| `PolySum` | what `normalize_terms` promises | the sum of a list of terms; a term may be lost only after the first `MaxTerms` |
| `MCPolyEngine`, `PolyEngineProofs` | operands for TLC; proofs | |
| `MetaCompiler`, `MetaCompilerProofs` | reader, macros, bytecode; proofs | a text is a sequence of tokens; the calls of `parse_list_or_pair` and `parse_expr` that wait are the frames of `stack`, bounded by the C stack; `work` is what the compiler has still to visit; `Emit` is `bc_emit`. `Run` is a machine for the code (the program has none), `IsMeaning` what a meaning of expressions is. What `macro_expand` makes of a value is a CONSTANT operator |
| `MetaTrees` | `macro_expand`, `print_value` | the recursive functions on values, which the runs give to `MetaCompiler` |
| `MCMetaCompiler` | texts, the meaning of an expression | |
| `TermNodes` | the nodes of terms in both Prolog engines | tuples with their kind in front |
| `Terms` | the functions on terms | `Unify`, `Occurs` and `Subst` are the recursive functions of the C sources; where the engines differ they take the engine as an argument |
| `Solver`, `SolverProofs` | sessions of `logic-interp.c` and `polylog.c`; proofs | `Type` is a line at the prompt; the recursion of `solve_goal_list` and `solve_single_goal` is a stack of frames, one for each list of goals, with the substitution its `copy` holds; one action per goal, fact match, rule and return. `unify`, `apply_subst` and the like are CONSTANT operators |
| `MCSolver` | lines of a session, the least model of the database, the contract of `SolverProofs` on samples | |

`MetaCompiler` and `Solver` take the recursive functions of the code as CONSTANT
operators (`macro_expand`; `unify`, `apply_subst`, `runs_away`, `make_list`,
`list_nth`). A run gives them the functions of `MetaTrees` and `Terms`; a theorem
holds whatever they are. The control around them is the same in both.

### Abstract specifications

* `LeaseLayer` for `LockCtl`. The mapping `LeasesOf(Current)` reads the leases
  off the manifest, or off the view of the writer that has emptied it and is
  about to fill it: such a writer has committed. A crash at that moment maps to
  `Lose`, the one step that the promise has to admit because the manifest is
  rewritten in place. Checkin maps to a stutter.
* `EvalMeans` in `PairMachine`: every root expression evaluates to what its tree
  means, where `IsMeaning` says by equations what a meaning is: a value and the
  definitions made on the way, for a tree and the definitions made before,
  without memory, stack or alists. `Meaning` in `MCPairMachine` is the function
  meant, and `EvalIsMeaning` is `EvalMeans` of it.
* `PolySum` for `PolyEngine`: the table of slots, used or given up, with 16-bit
  coefficients, denotes a map from monomials to 14-bit coefficients, and each
  turn of the loop adds one term to it. What is emitted denotes the same map.
* `ValueMeant` in `PolyEngine`: for any value `V` of the monomials, what the sum,
  the product or the derivative of the operands is worth. `RingOp` takes for `V`
  the functions that are 1 at one monomial and 0 elsewhere, and so compares the
  coefficients; `EvalAgrees` speaks of `V` at a point.
* `Tree` in `MCMetaCompiler`: what an expression means, with the macros defined
  by what they stand for; the code, run on a machine that builds expressions,
  must give the same tree.
* `Model` in `MCSolver`: the least set of ground terms that is closed under the
  facts and the rules, without unification, substitution or search.
* `Structural`, `Atoms`, `Depth`, `DotBefore` in `BootGate` say from the stream
  alone what each token must be; the rewriter's four fields must agree.

## The runs

| Run | Instance | What it shows |
|---|---|---|
| `lock_audited` | 2 files, 2 actors, 1 content, one writer, one auditor, 3 commands, an edit, a crash | types; every manifest that can be found obeys the rules of `verify_locks` (`SchemaHolds`); the lease layer is implemented |
| `lock_alone` | one writer, 2 contents, 4 commands | `BooksAgree`: manifest, published state and receipts tell one story when nothing runs; `NoDoubleLease` |
| `lock_race` (violation) | two writers, 2 commands | both checkouts of one file succeed |
| `gate_runs` | the canonical header with every tail of up to 4 bytes of 6 kinds, damaged and cut headers, a structural byte with every tail of up to 5 of 7 kinds, four header commitments | `PhaseInv`, `GatesAgree`, `EmitsAsDeclared` |
| `net_calls` | 2 clients, 2 calls, 2 milliseconds, one drop per client | `AnswersMatch`, `CallbacksKept`, `InOrder`, `Settles` |
| `net_ids` (violation) | two calls in one millisecond | a reply resolves another call |
| `kernel_loop` | the real 100 and 5040 beats, clean timing frame | `StreamLaw`, `SignAgrees`, `ReportConsistent`, `Halts` |
| `pair_eval` | every program of a simple, a nested and a final expression that fits into 24 cells | `EvalIsMeaning`, `Dag`, `CellsAreConstant`, `EnvGrows`, `Ends` |
| `poly_terms` | coefficients modulo 4, words modulo 8, 2 variables, a table of 4, lists of up to 3 terms | `SlotsApart`, `RingOp`, `EvalAgrees`; `PolySum` is implemented |
| `meta` | every text of up to 4 tokens of 7 kinds, what `print_value` makes of about 500 expressions, a C stack of 24 calls, 16 words of code | `ReadInverts`, `CrashIsUnclosed`, `CodeRuns`, `CodeMeansSource` |
| `solver` | both engines, sessions of 4 lines out of 18, 2 facts, 2 rules, depth 2 | `YesIsProved`, `NoIsRefuted`, `BindingsAcyclic`, `SearchAdvances` |
| `solver_asks` (violation) | the same with polylog alone | asking a query of two goals changes the database |

`CHECK_DEADLOCK FALSE` is set throughout because every run may really stop: the
bounds on commands, calls and edits are used up, streams and programs end, the
kernel halts, a call returns, a session is over.

### Bounds, and why they are enough

* Lock layer. Two files are needed to see that a command leaves the other
  record alone; two actors for a conflict; three commands for lease, resolve
  and reopen; `MaxEdits` and `MaxCrashes` are one because a second edit or
  crash meets a state that the first can already reach. Clock and intent are
  left out: no guard reads them.
* Boot gate. A byte is read only through the tests the code makes, so one byte
  per class is enough; the boundary set has 0x2F, 0x30, SP and `.`; five
  structural bytes are enough for *atom dot paren atom dot*, the longest
  history that the rewriter keeps.
* Network. Two calls are needed for two to be confused and two clients for a
  broadcast; one drop per client cuts the links at every point, with every
  prefix delivered. `MaxClock` bounds `Date.now()`: two milliseconds tell
  different ids from equal ones (`ClockShared`). The type invariant says of
  note that a timer runs for exactly the calls that are not settled.
* Kernel. None: the constants are those of the code.
* Pair machine. The code has 4096 cells; with 24 most programs end with cells
  to spare and some exhaust them at every possible allocation. The programs
  use every operator, nested defines in arguments, improper argument lists,
  unbound and primitive symbols as values.
* Polynomials. A coefficient must be able to reach the payload and the word
  separately: with 4 and 8, two terms sum to 4 and are stored as a term that
  denotes zero, four sum to 8 and give their slot up. A product of lists of 2
  and 3 terms has 6, more than the table of 4. `RingOp` and `EvalAgrees` are
  about calls that fit (`count <= MaxTerms`); `ImplementsSum` covers the rest.
* Meta-compiler. A text of 4 tokens holds every way to cut or close a list too
  early; the longer ones come from the printer, so that nested forms occur. 24
  calls are more than any closed text needs: only a list that is not closed
  exhausts them. 16 words are exceeded by about one printed text in nine, at
  every kind of instruction. `Payload` is 16, and 17 a number that is cut.
* Solver. Four lines are a database of two or three clauses and a query, or a
  query between two assertions; 18 lines hold facts with and without
  variables, rules that call each other and themselves, a rule whose body binds
  and then fails, a built-in that binds a term that is no variable. Depth 2 is
  reached by two rules that call each other. `MaxBindings` is polylog's limit;
  `logic-interp` has an array of 256 and does not look at its end: no session
  here comes near it, and what is written past it is not modelled.

### Fairness

* `OmiNetwork`: weak fairness of message delivery, of the events of both sides
  and of the timers, as an event loop gives them; none of `Send`, `Drop` or
  `Tick`, which are the user, the network and the clock.
* `AtomicKernel`, `PairMachine`: weak fairness of `Next`; one loop on one core,
  and nothing interrupts it.
* `Solver`: weak fairness of the search (a sequential program), none of the
  lines that are typed. That every search ends is stated as `SearchAdvances`,
  by a measure that each step makes smaller, and needs no fairness.
* `LockCtl`, `BootGate`, `PolyEngine` and `MetaCompiler` state safety only: a
  command may be killed at any step, a caller may stop feeding a stream, and a
  call that returns has nothing to be fair about.

## What the checks found

Three disagreements between the code and its own words are runs (`findings` in
`PROJECT.json`): `lock_race`, `net_ids` and `solver_asks`. The others were met
while modelling, and were seen as counterexamples of the models or in the
programs themselves:

* `pair-machine.c:635`: the runtimes consume SP and `.` as unary control units,
  which is what `docs/reference/logic/OMI_LISP_BOOT_TO_PRESENTATION.md:73` says;
  the C gate refuses the stream at the first of them.
* `network_protocol.mjs:35`: ws 8 hands a Buffer to message handlers and only
  strings are parsed, so the server answers nothing (`TextFrames = "buffer"` in
  `OmiNetwork`).
* `atomic_kernel.c:564`: `om.timing` is never initialised; from an odd tick
  count the sign channel is on the other side of the BOM for the whole run
  (`SignAgrees` fails with `TimingStarts = {0, 1}`).
* `pair-machine.c:220`: a define that finds the memory full replaces the whole
  global environment by nil; "FATAL: out of cell memory" (105-111) does not stop.
* `pair-machine.c:385`: slots that were given up count towards the 128, so that
  terms are dropped although fewer monomials are left. A term with coefficient
  0 can be returned (a sum of 16384), which `print_poly` prints.
* `pair-machine.c:758`: macros are looked for in every tail and in quoted data:
  `(cons inc 4)` is compiled as the data `(cons add 4 1)`. The truth compiles to
  nil (824), a symbol that is not known reads as `id` (723), and `t` is printed
  for a symbol that reads back as the truth. A list that is not closed exhausts
  the C stack (692).
* `polylog.c:2007`: a query of several goals is stored as a rule (`solver_asks`).
  `:1316`: after `q(X).`, the query `?- q(f(X)).` recurses until the program
  crashes, since the fallback replaces X by a term with an X in it. `:1467`: a
  Datalog query is a list and is compared with facts, which are predicates: it
  never finds any. `:1514`: `is` binds whatever its left side is. `:2023`: a fact
  without arguments is answered `true.` and not stored.
* `polylog.c:1476` speaks of backtracking, and both engines commit to the first
  fact that matches (1530, `logic-interp.c:1362`). Both parsers make a node for
  every occurrence of a variable and both engines compare nodes, so that
  `?- p(X), q(X)` in `logic-interp` answers with two different X, and `r(X, X)`
  matches `r(a, b)`. In `logic-interp` a variable does not unify with itself
  (1212): the rule `z(X) :- z(Y)` never helps.
* `lockctl.mjs:114`: with two writers, the shorter text is written over the
  longer one; the merged record breaks the rules of `verify_locks.mjs:130`.
* `lockctl.mjs:52`: `quote` escapes what `parseString` does not unescape: an
  intent with a quote or backslash grows at every command.
* `network_protocol.mjs:57`: the pong has no id, so `ping()` always ends in
  its timeout and its callback stays.
* `header_ladder_runtime.mjs:45`: the names of the bands 0x80-0xBF and
  0xC0-0xFF are the other way round in `dot_rewrite.mjs:77-78`.
* `atomic_kernel.c:149`: `rotl` does not mask its argument, so a state with
  bits above the window lets them in; `:275`: the logic window is always 0,
  `ATOMIC_KERNEL_SPEC.md:32` says `phase % 15`; `:312`: the bar channel stops
  after tick 35; `:383`: tick 5040 is never reported; `:410`: the seven triples
  {i, i+1, i+4} are no Fano plane, lines 0 and 3 meet twice.
* `datalog_engine.mjs:159`: the cons fact of an inner cell names nil as its tail,
  the cdr fact the next cell. `composition.h:255`: the parity of a line, 5 or 7,
  is compared with one bit, and composition never succeeds. `virtio_read.h:56`:
  nothing moves the head of the ring.
* `pair-machine.c:195`: a symbol bound to nil evaluates to itself, as one that is
  not bound does; the meaning has it so (`Binding`).

## What is proved

TLAPS proves, for all values of the constants that the named assumptions admit:

| Theorem | Says | Assumes |
|---|---|---|
| `LockCtlProofs!TypeCorrect` | `[]TypeOK` | |
| `LockCtlProofs!SchemaAlwaysHolds` | `[]SchemaHolds` | one writer |
| `LockCtlProofs!LockCtlImplementsLeaseLayer` | `LockCtl` implements `LeaseLayer` | one writer |
| `LockCtlProofs!CheckoutsAreExclusive` | `NoDoubleLease`, until a process dies | one writer |
| `LockCtlProofs!LedgerAgreesWithManifest` | between commands the receipts of a file are a chain that ends in its state (`LedgerChains`), until a process dies | one writer |
| `LockCtlProofs!BooksAlwaysAgree` | `BooksAgree`, until a process dies | one writer, no auditor |
| `BootGateProofs!TypeCorrect`, `PhaseCorrect` | `[]TypeOK`, `[]PhaseInv` | |
| `BootGateProofs!GatesAlwaysAgree` | `[]GatesAgree`, for streams of any length | `UnaryMax = 47`, which the C gate has built in |
| `BootGateProofs!EmitsCorrect` | `[]EmitsAsDeclared`, for streams of any length and any unary bound | |
| `AtomicKernelProofs!TypeCorrect` | `[]TypeOK` | |
| `AtomicKernelProofs!StreamCorrect` | `[]StreamLaw` | clean timing frame |
| `AtomicKernelProofs!SignCorrect` | `[]SignAgrees` | clean timing frame, even period and warm-up |
| `AtomicKernelProofs!ReportCorrect` | `[]ReportConsistent`, whatever the timing frame holds | |
| `OmiNetworkProofs!TypeCorrect`, `OrderCorrect` | `[]TypeOK`, `[]InOrder`, for any number of clients, calls and dropped links | |
| `OmiNetworkProofs!CallbacksCorrect`, `AnswersCorrect` | `[]CallbacksKept`, `[]AnswersMatch` | no two calls of a client in one millisecond, text frames as strings |
| `PairMachineProofs!TypeCorrect`, `MemoryIsADag` | `[]TypeOK`, `[]Dag` | |
| `PairMachineProofs!CellsNeverChange` | `CellsAreConstant` | |
| `PairMachineProofs!DefinitionsAreKept` | `EnvGrows` | |
| `PairMachineProofs!EvalCorrect` | `[]EvalMeans(T, R, M, D, P)`: `eval` returns what expressions mean, and the environment spells the definitions made, while memory lasts | `M` is a meaning (`IsMeaning`) |
| `PolyEngineProofs!TypeCorrect`, `SlotsAlwaysApart` | `[]TypeOK`, `[]SlotsApart` | the word is a multiple of the payload |
| `PolyEngineProofs!NormalizeImplementsSum` | `PolyEngine` implements `PolySum` | the same |
| `PolyEngineProofs!ValueCorrect` | for every value of the monomials, what is returned is worth the sum, product or derivative modulo the payload | the same |
| `PolyEngineProofs!RingOpHolds`, `EvalAgreesHolds` | `[]RingOp`, `[]EvalAgrees`, for operands of any length and any widths | the same |
| `MetaCompilerProofs!ReaderCorrect` | `[]ReaderOK`: position, depth and length of the code stay within text, C stack and memory | |
| `MetaCompilerProofs!CrashesOnlyOnUnclosed` | `[]CrashIsUnclosed` | |
| `MetaCompilerProofs!ValuesStayValues` | what is read, kept and expanded stays in any set of values that has nil and the atoms and is closed under cells and macros | |
| `MetaCompilerProofs!CodeAlwaysRuns` | `[]CodeRuns`, for complete code and for code cut at `CodeMax` | |
| `MetaCompilerProofs!CompilerCorrect` | `[]CodeMeans(T)`: what is compiled leaves its meaning on the stack, for every meaning `T` that goes by the form of an expression | |
| `SolverProofs!TypeCorrect` | `[]TypeOK`: database and depth stay within their limits | |
| `SolverProofs!SearchAlwaysAdvances` | `SearchAdvances` | |
| `SolverProofs!AnswersFollow` | `[]YesFollows`: a query answered yes follows from the database, in every model and for every meaning that fits the answer | `GoalsMean`: what `unify` and `apply_subst` do to goals; `LinesMean`: lines are made of such goals |
| `SolverProofs!BindingsStayAcyclic` | `[]BindingsAcyclic` | those, and `UnifyBinds`: what `unify` does to one substitution |

Where the column is empty, only the assumptions on the constants are used. Two of
them are more than types. `ReaderAssumption`: no text has more tokens than the C
stack has room for calls; the text of a longer one is cut at its end by that
stack, closed or not. `SolverAssumption`: the goals of a line are a sequence.
TLC checks the two `SampleAssumption`s and `TreeAssumption`, which no proof uses:
they show that the hypotheses of `EvalCorrect`, `AnswersFollow`,
`BindingsStayAcyclic` and `CompilerCorrect` can be met.

The assumption of one writer is what `lock_race` shows to be necessary, that of
distinct milliseconds what `net_ids` shows for the callbacks and the answers (the
order of the answers does not need it). The
clean timing frame is one that `main()` does not establish; `EnvGrows` speaks of
a memory with two free cells.

The arguments:

* Lock layer. `SchemaHolds` is not inductive: what a writer will write depends
  on the manifest it read. `LockInv` adds, per step of the writer, that its
  view is still the manifest with one permitted command applied. That is true
  because nobody else writes. The refinement is proved step by step from it:
  `Truncate` is where the abstract command happens. The books need two invariants more, that
  hold until a process dies. `LedgerInv` compares the receipts with the
  manifest, or, while a command has written it and not yet its receipt, with the
  manifest as it was for that file. `HolderInv`: the last checkout of a file that
  no reopen followed names the holder that the manifest has (an inductive form
  of `NoDoubleLease`), or that the writer is about to write. The published
  state needs `PublishedInv`, which an auditor breaks.
* Boot gate. `PhaseInv` says that the transition is recorded at the first
  byte above the maximum and that tokens are unary before it only. `GatesAgree`
  follows from it and from what `Contract` returns, without induction over the
  stream: both sides are described by the first such byte. `EmitsAsDeclared` compares what
  is emitted with functions of the stream (`Depth`, `Atoms`, `DotBefore`);
  `RewriterInv` says of each of the rewriter's fields which of them it is, and
  one lemma for each function says what one more byte does to it.
* Kernel. `SignInv` adds that all four clocks tick together and that parity of
  ticks is parity of phase, through the wrap and through the moment the phase
  is forced to the loop index; that needs the period and warm-up to be even. `ReportInv` adds to the report that,
  in the warm-up, the loop index is the phase up to whole periods: the
  remainder that a debugger would take of the reported tick is then the phase.
* Network. Types need to know of the messages on their way whose calls they are
  about (`Carried`), and of the calls that their connection has existed
  (`Epochs`). `AnswerInv` adds that an id belongs to one call and a callback to
  the call of its own id; a reply that finds a callback has then found that of
  its call, and one that finds none comes for a call already answered.
  `InOrder` speaks of what has arrived only: `OrderInv` follows an answer
  backwards. Before an answer on its way come those of the earlier calls of its
  connection, before a request their requests or answers, and while the link is
  up no call of this connection is lost. The last part is what lets a new call
  be queued, and what a dropped link ends: what it still delivers is a prefix,
  which keeps the first part.
* Pair machine. Types and `Dag` need each other: what `car` finds exists
  because it is older than the cell. `IInv` is their conjunction, `Allocation`
  the lemma that an allocation keeps it, full memory or not, and every step is
  either quiet (nothing allocated) or grows the memory. `CellsNeverChange` and
  `DefinitionsAreKept` come from the same invariant.
* Evaluation. `Evaluating` describes a call stack by what it is waiting for:
  `w` lists for every waiting call the value that the call below it will return
  and the definitions that will have been made by then, and the meaning of the
  root expression is put together from these. The alist in `g_env` spells the
  definitions made so far, latest first (`IsAlist`), and the one passed down those
  made before the root expression: arguments see none of their neighbours'.
  Trees are `D` of cells, so that sharing does not show; cells are constant, so
  that what has been spelled once is spelled for good. An allocation that fails
  fills the memory, and the theorem is silent from there.
* Polynomials. `SlotsApart` needs of the table that slots in use have different
  monomials, and of the emission that the terms emitted are those of the slots
  from `n` on, each with the monomial it has there: `Emitted`. The refinement
  has one lemma per turn of the loop: a slot that takes a coefficient changes
  the sum at its monomial and nowhere else, because of `SlotsApart`; cutting to
  14 bits after adding modulo 2^16 is adding modulo 2^14, because one divides the
  other (`WordMod`, proved from the arithmetic of quotients).
* The ring. `ValueInv` is a balance: what is worth something, wherever it is
  (still to be multiplied, in the list, in the table, emitted), is together worth
  what is meant, modulo the payload and for one value `V` of the monomials. Each
  turn of a loop moves worth from one place to the next: a product is worth the
  product, although its exponents wrap; a slot that takes a coefficient gains
  what the term loses, also when its word becomes zero and the slot is given up.
  What is worth nothing may go. That needs no map from monomials to coefficients
  and no order of the terms. `RingOp` then follows with the values that are 1 at
  one monomial, because no monomial appears twice in `out`. `EvalAgrees` follows
  with `ValueAt`, the value of monomials at a point, which turns `Times` into a
  product as long as no exponent wraps (`ValueAtTimes`).
* Loops and sums. A sum over a list is a `Loop`, a recursive function. The
  induction over its turns is a least counterexample: `UpTo` takes the set of
  the turns for which a claim holds, where the library's induction theorems take
  an operator. `Trace` and `Partial` say of a function that it has the values of
  a loop, so that a proof speaks of two functions side by side.
* Reader. A call that reads the rest of a list waits without having consumed
  anything of its own, so the stack is bounded by the tokens read only through
  the call for the first element (`DepthInv`). `NestInv` counts: the frames that
  wait for a parenthesis, and the one that is looking for it, are the
  parentheses opened and not yet closed, or fewer after a dotted pair that
  misses its own. Inside the text `DepthInv` keeps the stack below the C stack;
  at its end only the rest of an unclosed list recurses, and `NestInv` says that
  it is unclosed.
* Compiler. `CodeInv` says that the machine has run the code so far without
  trouble and that the work left has a plan: a height of the machine's stack
  before each item, which each item leads to the next. To compile an item is to
  put the plan of its parts in its place (`Splice`), to emit a word is to take
  its step; the recursion of the compiler needs no induction, since the plan is
  that of a flat list. A full code ends all plans and keeps what has run. The
  machine is a recursive function on prefixes, of which the invariant speaks as
  of all functions that are runs of the code (`IsRun`). `CompilerCorrect` has
  the same argument with the machine itself in the plan: an expression adds
  its meaning to the stack, and so do the items that take its place. `T` and
  `D` are any functions that satisfy the equations of `IsMeaning` on a set of
  values; the finite trees with the recursive `Tree` of `MCMetaCompiler`, which
  TLC finds to satisfy them on its values (`TreeAssumption`), are the ones meant.
* Search. `StackOK` is the shape that makes the measure work: every list but the
  innermost waits for a goal, so that a return, which solves that goal, takes
  from the work of the frame below. `Work` lists for every frame the goals not
  begun, the goal under way and the rules not tried; `LessDone` and `LessShorter`
  are the two ways to have less of it: something is done in a frame, whatever
  is then pushed on it, or the stack ends. The pushed body is what makes the
  plain size of the stack useless.
* Answers. `AnswersFollow` says what `YesIsProved` checks, with any terms, lines
  and depth. The recursive `Unify` and `ApplySubst` are replaced by what the
  search needs of them (`GoalsMean`): what fits the substitution of a
  unification fits the one before it and makes both terms equal, and what
  `apply_subst` makes of a goal is an instance of it. TLC finds that the two
  recursive functions do so, for the goals and substitutions of a small language
  in which two variables share their name (`SampleAssumption`); there polylog's
  fallback on names runs in circles, which the contract allows for. The
  invariant is about one meaning `g`: `Upheld` says of every list that, as long
  as `g` fits its substitution and what is left of it holds, so does what it was
  begun for, the query or the goal of the rule. Goals of a body need to hold
  for some meaning only, since every variable is a node of its own and none is
  shared; that makes the search sound in spite of the fallback, and so does
  polylog's asking of one goal at a time, without applying it (`FrameMeans`). That
  the mode datalog never says yes to a query is part of the theorem: a list is
  no fact.
* Bindings. That one call of `unify` only adds to a substitution, nothing that
  binds a variable again or closes a circle, is the contract `UnifyBinds`, which
  TLC finds of `Unify` on the sample above; an "is" binds what the substitution
  leaves alone (`Settled`), so that it binds nothing twice. The search hands
  substitutions from list to list, and `BindingsStayAcyclic` says that it loses
  and mixes none: beside `SoundInv`, by which every list has a substitution that
  unifications have made, the invariant is `Growing`, each list of goals has all
  bindings of the one below. A list that is done may then hand its own down, and
  one that fails leaves the one below with those it had.

### What is only model-checked

* Liveness (`Settles`, `Halts`, `Ends`): fairness and ENABLED are out of the
  prover's reach. For the search, `SearchAlwaysAdvances` proves the part of
  termination that is about steps; that the order is well-founded is not stated.
* What recursive functions on trees and terms compute, which needs induction
  over data: `YesIsProved`, `NoIsRefuted` (`AnswersFollow` is `YesIsProved`
  up to what `unify` and `apply_subst` do to a term), that `Unify` keeps the
  contract `UnifyBinds` beyond the sample,
  `ReadInverts`, `CodeMeansSource` (`CompilerCorrect` is its part after the macros;
  that expansion keeps the meaning of hygienic text is left to TLC). `EvalCorrect`
  is `EvalIsMeaning` for whatever satisfies the equations of a meaning; that the
  recursive `Meaning` does is checked on a sample. Of the type invariant of
  `MCMetaCompiler`, `ReaderOK` is proved; that values are finite trees is what
  `ValuesStayValues` says without the word finite.

## What is not modelled

* The larger part of the repository by lines is generated: `polyform/org/src/parser.c`
  is 92,536 of its 102,251 lines, the tables of a tree-sitter parser. The models
  are about the code that was written.
* Kernel: the stream interpolator that `main()` does not call, the mirror and
  the witness history (`IVSHMEM_BASE` is 0), the UTC field.
* The syntax of the manifest: `quote` and `parseString` are not inverse for
  quotes and backslashes in intents; see the hazards.
* `pair-machine.c`: the checksum of the bytecode, `selftest_metacompiler_bootstrap`
  (it compares two runs of what is modelled), the exhaustion of cells while
  polynomials or texts are built (`PairMachine` has it for `eval`).
* `logic-interp.c` and `polylog.c`: the Lisp halves, the parsers, the numbers,
  the reference counts, and the string tokens on which polylog's parser loops
  (1043).
* Guest prototypes (none is linked into the kernel that is built), the Datalog
  store (no rule is evaluated), packet replay (a fixed program behind the boot
  gate). Renderers, planes, geometry, audio, viewer, scripts, polyform data and
  third-party code: stateless output, I/O, or not this project's code.

## Plan

What is left, in order:

1. `RefCounts` (`polylog.c`): retain and release with the shared nil.
2. The Lisp half of `logic-interp.c`: environments and `lambda`, beside
   `PairMachine`'s.
3. `PacketReplay`, composing `BootGate`.

A project of this shape has room for a dozen runs: runs of findings that are
settled make room for those of new components.
