------------------------- MODULE AtomicKernelProofs -------------------------
(***************************************************************************)
(* Proofs about AtomicKernel, for every even master period and every even  *)
(* number of warm-up beats, from a timing frame that starts at zero.  Only *)
(* the counters matter to them: the words, the composition and the report  *)
(* are hidden behind their definitions.                                    *)
(***************************************************************************)
EXTENDS AtomicKernel, TLAPS

\* What a heartbeat does to one channel, whatever the law of the channel.
LEMMA TickType ==
  ASSUME NEW c \in Channels, NEW r \in Clock
  PROVE  /\ TickChannel(c, r) \in Clock
         /\ TickChannel(c, r).tick = r.tick + 1
         /\ TickChannel(c, r).phase < MasterPeriod
<1>1. MasterPeriod \in Nat \ {0}
  BY KernelConstants
<1> DEFINE t == r.tick + 1
           p == ChannelPhase(c, t, r.phase)
<1>2. t \in Nat /\ r.epoch \in Nat /\ r.phase \in Nat
  BY DEF Clock
<1>3. p \in Nat
  BY <1>2 DEF ChannelPhase, Channels
<1> HIDE DEF p
<1>4. TickChannel(c, r) =
        IF p >= MasterPeriod THEN [tick |-> t, phase |-> 0, epoch |-> r.epoch + 1]
                             ELSE [tick |-> t, phase |-> p, epoch |-> r.epoch]
  BY DEF TickChannel, p
<1> QED
  BY <1>1, <1>2, <1>3, <1>4 DEF Clock

\* Channel 0 counts in base MasterPeriod: one more tick is one more phase, or
\* phase zero of the next epoch.
LEMMA StreamTick ==
  ASSUME NEW r \in Clock, r.phase < MasterPeriod,
         r.tick = (r.epoch * MasterPeriod) + r.phase
  PROVE  TickChannel(0, r).tick
           = (TickChannel(0, r).epoch * MasterPeriod) + TickChannel(0, r).phase
<1>1. MasterPeriod \in Nat \ {0}
  BY KernelConstants
<1>2. r.tick \in Nat /\ r.epoch \in Nat /\ r.phase \in Nat
  BY DEF Clock
<1>3. (r.epoch + 1) * MasterPeriod = (r.epoch * MasterPeriod) + MasterPeriod
  BY <1>1, <1>2
<1>4. r.epoch * MasterPeriod \in Nat
  BY <1>1, <1>2
<1>5. CASE r.phase + 1 >= MasterPeriod
  <2>1. TickChannel(0, r) = [tick |-> r.tick + 1, phase |-> 0, epoch |-> r.epoch + 1]
    BY <1>5 DEF TickChannel, ChannelPhase
  <2>2. r.phase + 1 = MasterPeriod
    BY <1>1, <1>2, <1>5
  <2> QED
    BY <1>1, <1>2, <1>3, <1>4, <2>1, <2>2
<1>6. CASE ~(r.phase + 1 >= MasterPeriod)
  <2>1. TickChannel(0, r) = [tick |-> r.tick + 1, phase |-> r.phase + 1, epoch |-> r.epoch]
    BY <1>6 DEF TickChannel, ChannelPhase
  <2> QED
    BY <1>1, <1>2, <1>4, <2>1
<1> QED
  BY <1>5, <1>6

\* Channel 3 holds the parity of its ticks, unless the period is one beat.
LEMMA SignTick ==
  ASSUME NEW r \in Clock, MasterPeriod > 1
  PROVE  TickChannel(3, r).phase = TickChannel(3, r).tick % 2
<1>1. MasterPeriod \in Nat
  BY KernelConstants
<1>2. r.tick \in Nat
  BY DEF Clock
<1>3. (r.tick + 1) % 2 < MasterPeriod
  BY <1>1, <1>2
<1>4. TickChannel(3, r) = [tick |-> r.tick + 1, phase |-> (r.tick + 1) % 2, epoch |-> r.epoch]
  BY <1>1, <1>2, <1>3 DEF TickChannel, ChannelPhase
<1> QED
  BY <1>4

-----------------------------------------------------------------------------
\* Type correctness.

LEMMA HeartbeatType ==
  ASSUME TypeOK, NEW p \in 0 .. MasterPeriod - 1, Heartbeat(p)
  PROVE  /\ phase' \in 0 .. MasterPeriod - 1
         /\ bom' \in Boms
         /\ logic_window' = 0
         /\ ch' \in [Channels -> Clock]
<1>1. MasterPeriod \in Nat \ {0}
  BY KernelConstants
<1>2. phase' \in 0 .. MasterPeriod - 1
  BY <1>1 DEF Heartbeat, NextPhase
<1>3. bom' \in Boms
  BY DEF Heartbeat, BomOf, Boms
<1>4. ch' \in [Channels -> Clock]
  <2>1. \A c \in Channels : ch[c] \in Clock
    BY DEF TypeOK
  <2>2. \A c \in Channels : TickChannel(c, ch[c]) \in Clock
    BY <2>1, TickType
  <2> QED
    BY <2>2 DEF Heartbeat
<1> QED
  BY <1>2, <1>3, <1>4 DEF Heartbeat

LEMMA TypeInit ==
  ASSUME Init
  PROVE  TypeOK
<1>1. MasterPeriod \in Nat \ {0} /\ TimingStarts \subseteq Nat
  BY KernelConstants
<1>2. [tick : TimingStarts, phase : TimingStarts, epoch : TimingStarts] \subseteq Clock
  BY <1>1 DEF Clock
<1>3. ch \in [Channels -> Clock]
  BY <1>2 DEF Init
<1> QED
  BY <1>1, <1>3 DEF Init, TypeOK, Boms

LEMMA TypeStep ==
  ASSUME TypeOK, [Next]_vars
  PROVE  TypeOK'
<1>1. MasterPeriod \in Nat \ {0} /\ i \in Nat /\ phase \in 0 .. MasterPeriod - 1
  BY KernelConstants DEF TypeOK
<1>2. CASE WarmupStep
  <2>1. Heartbeat(phase) /\ i' = i + 1 /\ pc' = pc
    BY <1>2 DEF WarmupStep
  <2> QED
    BY <1>1, <2>1, HeartbeatType DEF TypeOK
<1>3. CASE StartCycle
  BY <1>3 DEF StartCycle, TypeOK
<1>4. CASE CycleStep
  <2>1. Heartbeat(i) /\ i' = i + 1 /\ pc' = pc /\ i < MasterPeriod
    BY <1>4 DEF CycleStep
  <2>2. i \in 0 .. MasterPeriod - 1
    BY <1>1, <2>1
  <2> QED
    BY <1>1, <2>1, <2>2, HeartbeatType DEF TypeOK
<1>5. CASE Halt
  BY <1>5 DEF Halt, TypeOK
<1>6. CASE UNCHANGED vars
  BY <1>6 DEF vars, TypeOK
<1> QED
  BY <1>2, <1>3, <1>4, <1>5, <1>6 DEF Next

\* The variables keep their types, whatever the timing frame held at the
\* start; in particular the phase of main() stays below the master period.
THEOREM TypeCorrect == Spec => []TypeOK
  BY TypeInit, TypeStep, PTL DEF Spec

-----------------------------------------------------------------------------
\* The stream channel.

LEMMA StreamStep ==
  ASSUME TypeOK, StreamLaw, [Next]_vars
  PROVE  StreamLaw'
<1>1. ch \in [Channels -> Clock] /\ 0 \in Channels
  BY DEF TypeOK, Channels
<1>2. ASSUME NEW p, Heartbeat(p)
      PROVE  StreamLaw'
  <2>1. ch'[0] = TickChannel(0, ch[0])
    BY <1>1, <1>2 DEF Heartbeat
  <2>2. ch[0] \in Clock
    BY <1>1
  <2> QED
    BY <1>1, <2>1, <2>2, TickType, StreamTick DEF StreamLaw
<1>3. CASE WarmupStep
  BY <1>2, <1>3 DEF WarmupStep
<1>4. CASE CycleStep
  BY <1>2, <1>4 DEF CycleStep
<1>5. CASE StartCycle \/ Halt \/ UNCHANGED vars
  BY <1>5 DEF StartCycle, Halt, vars, StreamLaw
<1> QED
  BY <1>3, <1>4, <1>5 DEF Next

\* From a clean timing frame, phase and epoch of the stream channel always
\* spell its tick count, through the jump that main() makes in om.phase.
THEOREM StreamCorrect ==
  ASSUME TimingStarts = {0}
  PROVE  Spec => []StreamLaw
<1>1. Init => StreamLaw
  <2> SUFFICES ASSUME Init PROVE StreamLaw
    OBVIOUS
  <2>1. MasterPeriod \in Nat \ {0}
    BY KernelConstants
  <2>2. ch[0] \in [tick : {0}, phase : {0}, epoch : {0}]
    BY DEF Init, Channels
  <2> QED
    BY <2>1, <2>2 DEF StreamLaw
<1> QED
  BY <1>1, TypeCorrect, StreamStep, PTL DEF Spec

-----------------------------------------------------------------------------
(***************************************************************************)
(* The sign channel.  It agrees with the BOM because tick count and phase  *)
(* have one parity: a wrap of the phase skips an even number of beats, and *)
(* when main() forces the phase to zero an even number lies behind.        *)
(***************************************************************************)
SignInv ==
  /\ bom = BomOf(phase)
  /\ comp # <<>> => ch[3].phase = ch[3].tick % 2
  /\ ch[3].tick % 2 = phase % 2
  /\ pc = "warmup" => ch[3].tick = i
  /\ pc = "cycle" => ch[3].tick = Warmup + i

LEMMA SignBeat ==
  ASSUME TypeOK, MasterPeriod % 2 = 0, NEW p \in 0 .. MasterPeriod - 1,
         ch[3].tick % 2 = p % 2, Heartbeat(p)
  PROVE  /\ bom' = BomOf(phase')
         /\ ch'[3].phase = ch'[3].tick % 2
         /\ ch'[3].tick = ch[3].tick + 1
         /\ ch'[3].tick % 2 = phase' % 2
<1>1. MasterPeriod \in Nat \ {0} /\ MasterPeriod > 1 /\ p \in Nat
  BY KernelConstants
<1>2. ch[3] \in Clock /\ ch'[3] = TickChannel(3, ch[3])
  BY DEF TypeOK, Channels, Heartbeat
<1>3. ch'[3].phase = ch'[3].tick % 2
  BY <1>1, <1>2, SignTick
<1>4. ch'[3].tick = ch[3].tick + 1
  BY <1>2, TickType DEF Channels
<1>5. ch[3].tick \in Nat
  BY <1>2 DEF Clock
<1>6. phase' = NextPhase(p)
  BY DEF Heartbeat
<1>7. (ch[3].tick + 1) % 2 = phase' % 2
  <2>1. CASE p + 1 >= MasterPeriod
    <3>1. p + 1 = MasterPeriod /\ phase' = 0
      BY <1>1, <1>6, <2>1 DEF NextPhase
    <3>2. (p + 1) % 2 = 0
      BY <3>1
    <3> QED
      BY <1>1, <1>5, <3>1, <3>2
  <2>2. CASE ~(p + 1 >= MasterPeriod)
    <3>1. phase' = p + 1
      BY <1>6, <2>2 DEF NextPhase
    <3> QED
      BY <1>1, <1>5, <3>1
  <2> QED
    BY <2>1, <2>2
<1> QED
  BY <1>3, <1>4, <1>7 DEF Heartbeat

LEMMA SignStep ==
  ASSUME MasterPeriod % 2 = 0, Warmup % 2 = 0, TypeOK, SignInv, [Next]_vars
  PROVE  SignInv'
<1>1. /\ MasterPeriod \in Nat \ {0} /\ Warmup \in Nat
      /\ i \in Nat /\ phase \in 0 .. MasterPeriod - 1
  BY KernelConstants DEF TypeOK
<1>2. CASE WarmupStep
  <2>1. Heartbeat(phase) /\ pc = "warmup" /\ pc' = "warmup" /\ i' = i + 1
    BY <1>2 DEF WarmupStep
  <2>2. ch[3].tick % 2 = phase % 2 /\ ch[3].tick = i
    BY <2>1 DEF SignInv
  <2> QED
    BY <1>1, <2>1, <2>2, SignBeat DEF SignInv
<1>3. CASE StartCycle
  BY <1>1, <1>3 DEF StartCycle, SignInv
<1>4. CASE CycleStep
  <2>1. Heartbeat(i) /\ pc = "cycle" /\ pc' = "cycle" /\ i' = i + 1 /\ i < MasterPeriod
    BY <1>4 DEF CycleStep
  <2>2. i \in 0 .. MasterPeriod - 1
    BY <1>1, <2>1
  <2>3. ch[3].tick = Warmup + i
    BY <2>1 DEF SignInv
  <2>4. ch[3].tick % 2 = i % 2
    BY <1>1, <2>3
  <2>5. ch'[3].tick = Warmup + i'
    BY <1>1, <2>1, <2>2, <2>3, <2>4, SignBeat
  <2> QED
    BY <2>1, <2>2, <2>4, <2>5, SignBeat DEF SignInv
<1>5. CASE Halt
  BY <1>5 DEF Halt, SignInv
<1>6. CASE UNCHANGED vars
  BY <1>6 DEF vars, SignInv
<1> QED
  BY <1>2, <1>3, <1>4, <1>5, <1>6 DEF Next

\* The sign channel and the BOM change sides together, for any even period and
\* any even warm-up, if the timing frame starts at zero: main() does not
\* establish that, and from an odd count the two are on opposite sides.
THEOREM SignCorrect ==
  ASSUME MasterPeriod % 2 = 0, Warmup % 2 = 0, TimingStarts = {0}
  PROVE  Spec => []SignAgrees
<1>1. Init => SignInv
  <2> SUFFICES ASSUME Init PROVE SignInv
    OBVIOUS
  <2>1. ch[3] \in [tick : {0}, phase : {0}, epoch : {0}]
    BY DEF Init, Channels
  <2> QED
    BY <2>1 DEF Init, SignInv, BomOf
<1>2. TypeOK /\ SignInv => SignAgrees
  <2> SUFFICES ASSUME TypeOK, SignInv PROVE SignAgrees
    OBVIOUS
  <2>1. MasterPeriod \in Nat /\ phase \in Nat /\ ch[3].tick \in Nat
    BY KernelConstants DEF TypeOK, Channels, Clock
  <2>2. phase % 2 \in {0, 1}
    BY <2>1
  <2> QED
    BY <2>2 DEF SignInv, SignAgrees, BomOf
<1>3. TypeOK /\ SignInv /\ [Next]_vars => SignInv'
  BY SignStep
<1> QED
  BY <1>1, <1>2, <1>3, TypeCorrect, PTL DEF Spec

-----------------------------------------------------------------------------
(***************************************************************************)
(* The report.  In the first loop the phase is never forced, so it is the  *)
(* remainder of the loop index, however many periods the warm-up spans.    *)
(***************************************************************************)
LEMMA RemainderIs ==
  ASSUME NEW M \in Nat, NEW q \in Nat, NEW r \in Nat, r < M
  PROVE  ((q * M) + r) % M = r
<1> DEFINE n == (q * M) + r
           d == n \div M
           m == n % M
<1>1. q * M \in Nat /\ M # 0
  OBVIOUS
<1>2. n \in Nat
  BY <1>1
<1> HIDE DEF n
<1>3. d \in Int /\ m \in Int /\ n = (M * d) + m /\ 0 <= m /\ m < M
  BY <1>1, <1>2
<1>4. n = (q * M) + r
  BY DEF n
<1> HIDE DEF d, m
<1>5. CASE d >= q + 1
  <2>1. M * d >= M * (q + 1)
    BY <1>3, <1>5
  <2>2. M * (q + 1) = (q * M) + M
    OBVIOUS
  <2>3. M * d \in Int /\ M * (q + 1) \in Int
    BY <1>3
  <2> QED
    BY <1>1, <1>3, <1>4, <2>1, <2>2, <2>3
<1>6. CASE d + 1 <= q
  <2>1. M * (d + 1) <= M * q
    BY <1>3, <1>6
  <2>2. M * (d + 1) = (M * d) + M
    BY <1>3
  <2>3. M * d \in Int /\ M * q = q * M
    BY <1>3
  <2> QED
    BY <1>1, <1>3, <1>4, <2>1, <2>2, <2>3
<1>7. CASE d = q
  <2>1. M * d = q * M
    BY <1>7
  <2> QED
    BY <1>1, <1>3, <1>4, <2>1 DEF m
<1> QED
  BY <1>3, <1>5, <1>6, <1>7

\* A heartbeat at a phase that is p of n completed beats reports p + 1 of n + 1.
LEMMA NextRemainder ==
  ASSUME NEW q \in Nat, NEW p \in 0 .. MasterPeriod - 1
  PROVE  /\ NextPhase(p) = ((q * MasterPeriod) + p + 1) % MasterPeriod
         /\ \E k \in Nat : (q * MasterPeriod) + p + 1 = (k * MasterPeriod) + NextPhase(p)
<1>1. MasterPeriod \in Nat \ {0} /\ p \in Nat /\ q * MasterPeriod \in Nat
  BY KernelConstants
<1>2. CASE p + 1 >= MasterPeriod
  <2>1. p + 1 = MasterPeriod /\ NextPhase(p) = 0
    BY <1>1, <1>2 DEF NextPhase
  <2>2. (q * MasterPeriod) + p + 1 = ((q + 1) * MasterPeriod) + 0
    BY <1>1, <2>1
  <2>3. (((q + 1) * MasterPeriod) + 0) % MasterPeriod = 0
    BY <1>1, RemainderIs
  <2> QED
    BY <2>1, <2>2, <2>3
<1>3. CASE ~(p + 1 >= MasterPeriod)
  <2>1. p + 1 < MasterPeriod /\ NextPhase(p) = p + 1
    BY <1>1, <1>3 DEF NextPhase
  <2>2. ((q * MasterPeriod) + (p + 1)) % MasterPeriod = p + 1
    BY <1>1, <2>1, RemainderIs
  <2>3. (q * MasterPeriod) + p + 1 = (q * MasterPeriod) + (p + 1)
    BY <1>1
  <2> QED
    BY <2>1, <2>2, <2>3
<1> QED
  BY <1>2, <1>3

ReportInv ==
  /\ ReportConsistent
  /\ pc = "warmup" => \E q \in Nat : i = (q * MasterPeriod) + phase

\* What a heartbeat at phase p reports when it is called with the loop index.
LEMMA ReportBeat ==
  ASSUME NEW q \in Nat, NEW p \in 0 .. MasterPeriod - 1,
         i = (q * MasterPeriod) + p, Heartbeat(p), Report(i), ReportConsistent
  PROVE  /\ ReportConsistent'
         /\ \E k \in Nat : i + 1 = (k * MasterPeriod) + phase'
<1>1. phase' = NextPhase(p) /\ bom' = BomOf(phase')
  BY DEF Heartbeat
<1>2. q * MasterPeriod \in Nat /\ p \in Nat
  BY KernelConstants
<1>3. i + 1 = (q * MasterPeriod) + p + 1
  BY <1>2
<1>4. phase' = (i + 1) % MasterPeriod
  BY <1>1, <1>3, NextRemainder
<1>5. \/ debug' = debug
      \/ debug' = [tick |-> i, state |-> state', phase |-> phase', bom |-> bom']
  BY DEF Report
<1>6. ReportConsistent'
  BY <1>1, <1>4, <1>5 DEF ReportConsistent
<1> QED
  BY <1>1, <1>3, <1>6, NextRemainder

LEMMA ReportStep ==
  ASSUME TypeOK, ReportInv, [Next]_vars
  PROVE  ReportInv'
<1>1. CASE WarmupStep
  <2>1. Heartbeat(phase) /\ Report(i) /\ pc = "warmup" /\ i' = i + 1
    BY <1>1 DEF WarmupStep
  <2>2. PICK q \in Nat : i = (q * MasterPeriod) + phase
    BY <2>1 DEF ReportInv
  <2>3. phase \in 0 .. MasterPeriod - 1
    BY DEF TypeOK
  <2> QED
    BY <2>1, <2>2, <2>3, ReportBeat DEF ReportInv
<1>2. CASE CycleStep
  <2>1. Heartbeat(i) /\ Report(i) /\ pc' = "cycle" /\ i < MasterPeriod
    BY <1>2 DEF CycleStep
  <2>2. i \in 0 .. MasterPeriod - 1 /\ i = (0 * MasterPeriod) + i
    BY <2>1, KernelConstants DEF TypeOK
  <2>3. ReportConsistent
    BY DEF ReportInv
  <2>4. ReportConsistent'
    BY <2>1, <2>2, <2>3, ReportBeat
  <2> QED
    BY <2>1, <2>4 DEF ReportInv
<1>3. CASE StartCycle \/ Halt
  BY <1>3 DEF StartCycle, Halt, ReportInv, ReportConsistent
<1>4. CASE UNCHANGED vars
  BY <1>4 DEF vars, ReportInv, ReportConsistent
<1> QED
  BY <1>1, <1>2, <1>3, <1>4 DEF Next

\* What a debugger finds in g_debug0 .. g_debug3 is always one whole heartbeat:
\* the phase that follows the reported tick and the byte order of that phase,
\* for every period, every warm-up, and whatever the timing frame holds.
THEOREM ReportCorrect == Spec => []ReportConsistent
<1>1. Init => ReportInv
  <2> SUFFICES ASSUME Init PROVE ReportInv
    OBVIOUS
  <2>1. i = (0 * MasterPeriod) + phase
    BY KernelConstants DEF Init
  <2> QED
    BY <2>1 DEF Init, ReportInv, ReportConsistent
<1>2. TypeOK /\ ReportInv /\ [Next]_vars => ReportInv'
  BY ReportStep
<1>3. ReportInv => ReportConsistent
  BY DEF ReportInv
<1> QED
  BY <1>1, <1>2, <1>3, TypeCorrect, PTL DEF Spec
=============================================================================
