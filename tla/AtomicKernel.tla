---------------------------- MODULE AtomicKernel ----------------------------
(***************************************************************************)
(* The live guest kernel, riscv-baremetal/atomic_kernel.c: main() runs     *)
(* Warmup heartbeats that also evolve the kernel state by the delta law,   *)
(* then one master period of heartbeats with the phase forced to the loop  *)
(* index, and halts.                                                       *)
(*                                                                         *)
(* A 32-bit word is the set of its bits that are one, bit 0 the lowest.    *)
(* The shared-memory mirror is compiled out (IVSHMEM_BASE is 0), so the    *)
(* witness values go nowhere.  main() never calls init_timing: om.timing   *)
(* holds whatever the stack held, a member of TimingStarts in each field   *)
(* ({0} if it was clean), far from the 32-bit limit.                       *)
(***************************************************************************)
EXTENDS Naturals, FiniteSetsExt, Functions

CONSTANTS
  MasterPeriod,   \* MASTER_PERIOD, 5040
  Warmup,         \* heartbeats of the first loop, 100
  TimingStarts    \* what a field of the timing frame may hold at the start

ASSUME KernelConstants ==
  /\ MasterPeriod \in Nat \ {0}
  /\ Warmup \in Nat
  /\ TimingStarts \subseteq Nat

WIDTH == 16
Word  == 0 .. 31
Mask  == 0 .. WIDTH - 1

DEADBEEF == {0, 1, 2, 3, 5, 6, 7, 9, 10, 11, 12, 13, 15, 16, 18, 19, 21, 23, 25, 26, 27, 28, 30, 31}
MixingConstant == {0, 2, 3, 4, 8, 10, 11, 12, 16, 18, 19, 20, 24, 26, 27, 28}     \* 0x1D1D1D1D

-----------------------------------------------------------------------------
\* The delta law.

ShiftLeft(x, k)  == {b + k : b \in x} \cap Word
ShiftRight(x, k) == {b - k : b \in {c \in x : c >= k}}

rotl(x, k) == (ShiftLeft(x, k) \cup ShiftRight(x, WIDTH - k)) \cap Mask
rotr(x, k) == (ShiftRight(x, k) \cup ShiftLeft(x, WIDTH - k)) \cap Mask

delta(x) ==
  SymDiff(SymDiff(rotl(x, 1), rotl(x, 3)), SymDiff(rotr(x, 2), MixingConstant))

fingerprint(x) == SymDiff(x, SymDiff(ShiftLeft(x, 7), ShiftRight(x, 3)))

\* The composition of a tick: the line the tick selects, two points swapped
\* when the low bits of the state have odd parity.
FanoLines == << <<0, 1, 4>>, <<1, 2, 5>>, <<2, 3, 6>>, <<3, 4, 0>>,
                <<4, 5, 1>>, <<5, 6, 2>>, <<6, 0, 3>> >>

Compose(tick, x) ==
  LET line == FanoLines[((tick % 8) % 7) + 1]
      centroid == Cardinality(x \cap (0 .. 3)) % 2
  IN  IF centroid = 1 THEN <<line[1], line[3], line[2]>> ELSE line

-----------------------------------------------------------------------------
VARIABLES
  pc,       \* "warmup", "cycle" or "halt"
  i,        \* the loop index
  state,    \* k.state
  phase, bom, logic_window,     \* of om
  ch,       \* om.timing.ch
  comp,     \* the last composition, empty before the first
  debug,    \* g_debug0 .. g_debug3
  print     \* k.fingerprint

vars == <<pc, i, state, phase, bom, logic_window, ch, comp, debug, print>>

Channels == 0 .. 3
Boms == {"FFFE", "FEFF"}

\* Mutant: the phase wraps one step late.
NextPhaseLate(p) == IF p + 1 > MasterPeriod THEN 0 ELSE p + 1

\* Mutant: the two byte orders are swapped.
BomOfSwapped(p) == IF p % 2 = 0 THEN "FEFF" ELSE "FFFE"

\* rotate_phase, rotate_chiral
NextPhase(p) == IF p + 1 >= MasterPeriod THEN 0 ELSE p + 1
BomOf(p)     == IF p % 2 = 0 THEN "FFFE" ELSE "FEFF"

BarTicks == {7, 14, 21, 28, 35}

\* The phase a channel moves to, before it is wrapped.
ChannelPhase(c, tick, p) ==
  CASE c = 0 -> p + 1
    [] c = 1 -> IF tick \in BarTicks THEN p + 1 ELSE p
    [] c = 2 -> tick % 15
    [] c = 3 -> tick % 2

\* Mutant: the epoch is not advanced when the phase wraps.
TickNoEpoch(c, r) ==
  LET tick == r.tick + 1
      p == ChannelPhase(c, tick, r.phase)
  IN  [tick |-> tick, phase |-> IF p >= MasterPeriod THEN 0 ELSE p, epoch |-> r.epoch]

\* tick_channel
TickChannel(c, r) ==
  LET tick == r.tick + 1
      p == ChannelPhase(c, tick, r.phase)
  IN  IF p >= MasterPeriod
      THEN [tick |-> tick, phase |-> 0, epoch |-> r.epoch + 1]
      ELSE [tick |-> tick, phase |-> p, epoch |-> r.epoch]

\* heartbeat(&om), when the phase before it is p.
Heartbeat(p) ==
  /\ phase' = NextPhase(p)
  /\ bom' = BomOf(phase')
  /\ logic_window' = 0
  /\ ch' = [c \in Channels |-> TickChannel(c, ch[c])]

\* Mutant: the phase is sampled before the heartbeat.
ReportEarly(tick) ==
  debug' = IF tick < 5 \/ tick \in {420, 5040}
           THEN [tick |-> tick, state |-> state', phase |-> phase, bom |-> bom']
           ELSE debug

\* report_state
Report(tick) ==
  debug' = IF tick < 5 \/ tick \in {420, 5040}
           THEN [tick |-> tick, state |-> state', phase |-> phase', bom |-> bom']
           ELSE debug

Clock == [tick : Nat, phase : Nat, epoch : Nat]

TypeOK ==
  /\ pc \in {"warmup", "cycle", "halt"}
  /\ i \in Nat
  /\ phase \in 0 .. MasterPeriod - 1
  /\ bom \in Boms
  /\ logic_window = 0
  /\ ch \in [Channels -> Clock]

Init ==
  /\ pc = "warmup" /\ i = 0
  /\ state = DEADBEEF
  /\ phase = 0 /\ bom = "FFFE" /\ logic_window = 0
  /\ ch \in [Channels -> [tick : TimingStarts, phase : TimingStarts,
                           epoch : TimingStarts]]
  /\ comp = <<>>
  /\ debug = [tick |-> 0, state |-> {}, phase |-> 0, bom |-> "none"]
  /\ print = {}

\* One turn of the first loop.
WarmupStep ==
  /\ pc = "warmup" /\ i < Warmup
  /\ Heartbeat(phase)
  /\ state' = delta(state)
  /\ comp' = Compose(i, state')
  /\ Report(i)
  /\ i' = i + 1
  /\ UNCHANGED <<pc, print>>

StartCycle ==
  /\ pc = "warmup" /\ i = Warmup
  /\ pc' = "cycle" /\ i' = 0
  /\ UNCHANGED <<state, phase, bom, logic_window, ch, comp, debug, print>>

\* One turn of the second loop: om.phase = i, then a heartbeat.
CycleStep ==
  /\ pc = "cycle" /\ i < MasterPeriod
  /\ Heartbeat(i)
  /\ comp' = Compose(i, state)
  /\ UNCHANGED <<pc, state, print>>
  /\ Report(i)
  /\ i' = i + 1

\* Mutant: the fingerprint is not computed.
HaltWithoutPrint ==
  /\ pc = "cycle" /\ i = MasterPeriod
  /\ pc' = "halt"
  /\ UNCHANGED <<i, state, phase, bom, logic_window, ch, comp, debug, print>>

Halt ==
  /\ pc = "cycle" /\ i = MasterPeriod
  /\ pc' = "halt"
  /\ print' = fingerprint(state)
  /\ UNCHANGED <<i, state, phase, bom, logic_window, ch, comp, debug>>

Next == WarmupStep \/ StartCycle \/ CycleStep \/ Halt

Spec == Init /\ [][Next]_vars /\ WF_vars(Next)

-----------------------------------------------------------------------------
(***************************************************************************)
(* Properties.                                                             *)
(***************************************************************************)

\* The stream channel counts every heartbeat: its phase and epoch are the
\* remainder and quotient of its ticks, across the wrap inside the second loop.
StreamLaw ==
  /\ ch[0].phase < MasterPeriod
  /\ ch[0].tick = (ch[0].epoch * MasterPeriod) + ch[0].phase

\* atomic_kernel.c:284, "Channel 3: Sign - mode switch (BOM toggle)": the sign
\* channel, which counts ticks, and the BOM, which follows a phase that wraps
\* and is once forced back to zero, are on the same side after any heartbeat.
SignAgrees == comp # <<>> => (ch[3].phase = 1 <=> bom = "FEFF")

\* What the debugger finds is one heartbeat: the phase after the reported
\* tick, and the BOM of that phase.
ReportConsistent ==
  debug.bom # "none" =>
    /\ debug.phase = (debug.tick + 1) % MasterPeriod
    /\ debug.bom = BomOf(debug.phase)

\* The kernel comes to its final loop with its fingerprint computed.
Halts == <>(pc = "halt" /\ print = fingerprint(state))
=============================================================================
