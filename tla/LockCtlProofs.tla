---------------------------- MODULE LockCtlProofs ----------------------------
(***************************************************************************)
(* Proofs about LockCtl for any number of files, actors, contents and      *)
(* processes.  TypeOK needs no hypothesis.  SchemaHolds and the            *)
(* implementation of LeaseLayer need that no two writers run at once;      *)
(* auditors and crashes are unrestricted.  What the receipts say also      *)
(* needs that no process died half-way, and the published state file that  *)
(* no auditor ran.  The run lock_race shows that SchemaHolds fails with    *)
(* two writers.                                                            *)
(***************************************************************************)
EXTENDS LockCtl, TLAPS

OneWriter == \A w1, w2 \in Writers : w1 = w2

-----------------------------------------------------------------------------
\* The commands keep records inside their type.
LEMMA AppliedType ==
  ASSUME NEW op \in Ops, NEW r \in Rec, NEW a \in Actors, NEW h \in Contents
  PROVE  Applied(op, r, a, h) \in Rec
BY DEF Applied, Ops, Rec, States

\* Whatever survives of an older text, the mixture is a well-typed snapshot.
LEMMA OverlayType ==
  ASSUME NEW new \in Snapshot, NEW old \in Snapshot, NEW cut \in Cuts
  PROVE  Overlay(new, old, cut) \in Snapshot
BY DEF Overlay, Snapshot, Rec

\* A command that its guard lets through leaves a record verify_locks accepts.
LEMMA AppliedRecordOK ==
  ASSUME NEW op \in Ops, NEW r \in Rec, NEW a \in Actors, NEW h \in Contents,
         RecordOK(r), Allowed(op, r, a)
  PROVE  RecordOK(Applied(op, r, a, h))
BY ConstantsOK DEF Applied, Allowed, Ops, Rec, RecordOK, States

-----------------------------------------------------------------------------
LEMMA FreshType == \A c \in Contents : \A r \in Fresh(c) : r \in Rec
<1> SUFFICES ASSUME NEW c \in Contents, NEW r \in Fresh(c) PROVE r \in Rec
  OBVIOUS
<1>1. CASE r = [state |-> "open", holder |-> NoOne, hash |-> NoHash,
                resolved |-> FALSE]
  BY <1>1 DEF Rec, States
<1>2. CASE r \in {[state |-> "leased", holder |-> a, hash |-> c,
                   resolved |-> FALSE] : a \in Actors}
  <2>1. PICK a \in Actors : r = [state |-> "leased", holder |-> a, hash |-> c,
                                 resolved |-> FALSE]
    BY <1>2
  <2> QED
    BY <2>1 DEF Rec, States
<1> QED
  BY <1>1, <1>2 DEF Fresh

LEMMA TypeInit == Init => TypeOK
<1> SUFFICES ASSUME Init PROVE TypeOK
  OBVIOUS
<1>1. PICK c \in Contents : /\ content = [f \in Files |-> c]
                            /\ manifest \in [Files -> Fresh(c)]
  BY DEF Init
<1>2. \A r \in Fresh(c) : r \in Rec
  BY FreshType
<1>3. manifest \in Snapshot
  BY <1>1, <1>2 DEF Snapshot
<1>4. /\ content \in [Files -> Contents \cup {Gone}]
      /\ committed \in [Files -> Contents \cup {Gone}]
  BY <1>1 DEF Init
<1>5. /\ pc = [p \in Procs |-> "idle"]
      /\ view \in [Procs -> Snapshot \cup {Blank}]
      /\ job \in [Writers -> Job \cup {Blank}]
      /\ todo \in [Auditors -> SUBSET Files]
  BY DEF Init
<1>6. receipts \in Seq(Receipt)
  BY DEF Init
<1>7. garbled \in BOOLEAN /\ commands \in Nat /\ edits \in Nat /\ crashes \in Nat
  BY DEF Init
<1>8. /\ \A w \in Writers : pc[w] = "idle"
      /\ \A v \in Auditors : pc[v] = "idle"
  BY <1>5 DEF Procs
<1>9. stateFile \in Snapshot
  BY <1>3 DEF Init
<1> QED
  BY <1>3, <1>4, <1>5, <1>6, <1>7, <1>8, <1>9 DEF TypeOK

LEMMA TypeStep == TypeOK /\ [Next]_vars => TypeOK'
<1> SUFFICES ASSUME TypeOK, [Next]_vars PROVE TypeOK'
  OBVIOUS
<1> USE DEF TypeOK, disk, work, memory, counts, Goto
<1>1. ASSUME NEW w \in Writers, NEW op \in Ops, NEW f \in Files, NEW a \in Actors,
             Read(w, op, f, a)
      PROVE  TypeOK'
  <2>1. manifest \in Snapshot /\ manifest[f].state \in States
    BY <1>1 DEF Read, Snapshot, Rec
  <2>2. job' \in [Writers -> Job \cup {Blank}] /\ job'[w] \in Job
    BY <1>1, <2>1 DEF Read, Job
  <2>3. view' \in [Procs -> Snapshot \cup {Blank}] /\ view'[w] \in Snapshot
    BY <1>1, <2>1 DEF Read, Procs
  <2>4. \A u \in Writers : u # w => /\ pc'[u] = pc[u]
                                   /\ view'[u] = view[u] /\ job'[u] = job[u]
    BY <1>1 DEF Read, Procs
  <2> QED
    BY <1>1, <2>1, <2>2, <2>3, <2>4, ConstantsOK DEF Read, Procs
<1>2. ASSUME NEW w \in Writers, Hash(w) PROVE TypeOK'
  <2>0. view[w] \in Snapshot /\ job[w] \in Job
    BY <1>2 DEF Hash
  <2>1. CASE content[job[w].file] = Gone
    BY <1>2, <2>1, ConstantsOK DEF Hash, Forget, Procs
  <2>2. CASE content[job[w].file] # Gone
    <3>1. content[job[w].file] \in Contents
      BY <2>0, <2>2 DEF Job
    <3>2. Applied(job[w].op, view[w][job[w].file], job[w].actor,
                  content[job[w].file]) \in Rec
      BY <2>0, <3>1, AppliedType DEF Job, Snapshot
    <3> DEFINE r == Applied(job[w].op, view[w][job[w].file], job[w].actor,
                            content[job[w].file])
    <3>a. view'[w] = [view[w] EXCEPT ![job[w].file] = r]
      BY <1>2, <2>2 DEF Hash, Procs
    <3>b. view[w] \in [Files -> Rec] /\ job[w].file \in Files /\ r \in Rec
      BY <2>0, <3>2 DEF Snapshot, Job
    <3>3. view'[w] \in Snapshot
      <4> HIDE DEF r
      <4> QED
        BY <3>a, <3>b DEF Snapshot
    <3>4. view' \in [Procs -> Snapshot \cup {Blank}]
      BY <1>2, <2>2, <3>3 DEF Hash, Procs
    <3> QED
      BY <1>2, <2>0, <2>2, <3>3, <3>4, ConstantsOK DEF Hash, Procs
  <2> QED
    BY <2>1, <2>2
<1>3. ASSUME NEW w \in Writers, Truncate(w) PROVE TypeOK'
  BY <1>3, ConstantsOK DEF Truncate, Procs
<1>4. ASSUME NEW w \in Writers, Fill(w) PROVE TypeOK'
  <2>1. view[w] \in Snapshot
    BY <1>4 DEF Fill
  <2>2. manifest' \in Snapshot
    <3>1. CASE manifest = Blank
      BY <1>4, <2>1, <3>1 DEF Fill
    <3>2. CASE manifest # Blank
      <4>1. PICK cut \in Cuts : manifest' = Overlay(view[w], manifest, cut)
        BY <1>4, <3>2 DEF Fill
      <4>2. manifest \in Snapshot
        BY <3>2
      <4> QED
        BY <2>1, <4>1, <4>2, OverlayType
    <3> QED
      BY <3>1, <3>2
  <2> QED
    BY <1>4, <2>2, ConstantsOK DEF Fill, Procs
<1>5. ASSUME NEW w \in Writers, EmitState(w) PROVE TypeOK'
  BY <1>5, ConstantsOK DEF EmitState, Procs
<1>6. ASSUME NEW w \in Writers, EmitReceipt(w) PROVE TypeOK'
  <2>1. view[w] \in Snapshot /\ job[w] \in Job
    BY <1>6 DEF EmitReceipt
  <2>2. [op |-> job[w].op, file |-> job[w].file, actor |-> job[w].actor,
         from |-> job[w].from, to |-> view[w][job[w].file].state] \in Receipt
    BY <2>1 DEF Job, Receipt, Snapshot, Rec
  <2>3. receipts' \in Seq(Receipt)
    BY <1>6, <2>2 DEF EmitReceipt
  <2> QED
    BY <1>6, <2>3, ConstantsOK DEF EmitReceipt, Forget, Procs
<1>7. ASSUME NEW v \in Auditors, AuditorStep(v) PROVE TypeOK'
  <2>1. CASE SyncState(v)
    BY <2>1, ConstantsOK DEF SyncState, Procs
  <2>2. CASE Verify(v)
    BY <2>2, ConstantsOK DEF Verify, Procs
  <2>3. CASE CheckHash(v)
    BY <2>3, ConstantsOK DEF CheckHash, Forget, Procs
  <2>4. CASE GitStatus(v)
    BY <2>4, ConstantsOK DEF GitStatus, Forget, Procs
  <2>5. CASE Publish(v)
    BY <2>5, ConstantsOK DEF Publish, Forget, Procs
  <2> QED
    BY <1>7, <2>1, <2>2, <2>3, <2>4, <2>5 DEF AuditorStep
<1>8. ASSUME NEW f \in Files, Edit(f) PROVE TypeOK'
  BY <1>8 DEF Edit
<1>9. CASE GitCommit
  BY <1>9 DEF GitCommit
<1>10. ASSUME NEW p \in Procs, Crash(p) PROVE TypeOK'
  BY <1>10, ConstantsOK DEF Crash, Forget, Procs
<1>11. CASE UNCHANGED vars
  BY <1>11 DEF vars
<1> QED
  BY <1>1, <1>2, <1>3, <1>4, <1>5, <1>6, <1>7, <1>8, <1>9, <1>10, <1>11
  DEF Next, WriterStep

\* Every variable of the lock layer keeps its type, whatever runs concurrently.
THEOREM TypeCorrect == Spec => []TypeOK
<1>1. Init => TypeOK
  BY TypeInit
<1>2. TypeOK /\ [Next]_vars => TypeOK'
  BY TypeStep
<1> QED
  BY <1>1, <1>2, PTL DEF Spec

-----------------------------------------------------------------------------
\* The actions that are no step of a writer leave the manifest alone, and the
\* most they do to a writer is to kill it.
LEMMA OthersKeepWriters ==
  ASSUME TypeOK,
         \/ \E v \in Auditors : AuditorStep(v)
         \/ \E f \in Files : Edit(f)
         \/ GitCommit
         \/ \E p \in Procs : Crash(p)
         \/ UNCHANGED vars
  PROVE  /\ manifest' = manifest
         /\ \A w \in Writers : \/ pc'[w] = "idle"
                               \/ /\ pc'[w] = pc[w]
                                  /\ view'[w] = view[w] /\ job'[w] = job[w]
<1> USE ConstantsOK DEF TypeOK, Procs, Goto, Forget, disk, memory
<1>1. CASE \E v \in Auditors : AuditorStep(v)
  BY <1>1 DEF AuditorStep, SyncState, Verify, CheckHash, GitStatus, Publish
<1>2. CASE \/ \E f \in Files : Edit(f)
           \/ GitCommit
           \/ UNCHANGED vars
  BY <1>2 DEF Edit, GitCommit, vars
<1>3. CASE \E p \in Procs : Crash(p)
  BY <1>3 DEF Crash
<1> QED
  BY <1>1, <1>2, <1>3

\* The view a writer holds once it has applied its command.
LEMMA ViewAfterCommand ==
  ASSUME NEW m \in Snapshot, NEW op \in Ops, NEW f \in Files, NEW a \in Actors,
         NEW h \in Contents, SchemaOK(m), Allowed(op, m[f], a)
  PROVE  SchemaOK([m EXCEPT ![f] = Applied(op, @, a, h)])
<1>1. m[f] \in Rec /\ RecordOK(m[f])
  BY DEF Snapshot, SchemaOK
<1>2. RecordOK(Applied(op, m[f], a, h))
  BY <1>1, AppliedRecordOK
<1> DEFINE r == Applied(op, m[f], a, h)
<1>3. \A g \in Files : [m EXCEPT ![f] = r][g] = IF g = f THEN r ELSE m[g]
  BY DEF Snapshot
<1> QED
  BY <1>2, <1>3 DEF SchemaOK

LEMMA LockInit == Init => LockInv
<1> SUFFICES ASSUME Init PROVE LockInv
  OBVIOUS
<1>1. PICK c \in Contents : manifest \in [Files -> Fresh(c)]
  BY DEF Init
<1>2. \A r \in Fresh(c) : RecordOK(r)
  BY ConstantsOK DEF Fresh, RecordOK
<1>3. \A w \in Writers : pc[w] = "idle"
  BY DEF Init, Procs
<1> QED
  BY <1>1, <1>2, <1>3 DEF LockInv, SchemaHolds, SchemaOK, WriterInv

LEMMA LockStep ==
  ASSUME OneWriter, TypeOK, LockInv, [Next]_vars
  PROVE  LockInv'
<1> USE DEF LockInv
<1>1. ASSUME NEW w \in Writers, NEW op \in Ops, NEW f \in Files, NEW a \in Actors,
             Read(w, op, f, a)
      PROVE  LockInv'
  <2>1. /\ manifest' = manifest /\ manifest \in Snapshot /\ SchemaOK(manifest)
        /\ pc'[w] = "hash" /\ view'[w] = manifest
        /\ job'[w].op = op /\ job'[w].file = f /\ job'[w].actor = a
        /\ Allowed(op, manifest[f], a)
    BY <1>1 DEF Read, Goto, TypeOK, Procs, SchemaHolds, disk
  <2>2. WriterInv(w)' /\ SchemaOK(view[w])'
    BY <2>1 DEF WriterInv, Permitted, SchemaOK
  <2> QED
    BY <2>1, <2>2 DEF OneWriter, SchemaHolds, SchemaOK
<1>2. ASSUME NEW w \in Writers, Hash(w) PROVE LockInv'
  <2>1. /\ pc[w] = "hash" /\ view[w] = manifest /\ Permitted(w)
        /\ view[w] \in Snapshot /\ job[w] \in Job
        /\ manifest' = manifest /\ SchemaOK(manifest)
    BY <1>2, BlankIsNoSnapshot DEF Hash, Goto, TypeOK, WriterInv, SchemaHolds, disk
  <2>2. CASE content[job[w].file] = Gone
    <3>1. pc'[w] = "idle"
      BY <1>2, <2>2 DEF Hash, Goto, TypeOK, Procs
    <3> QED
      BY <2>1, <3>1 DEF OneWriter, SchemaHolds, SchemaOK, WriterInv
  <2>3. CASE content[job[w].file] # Gone
    <3> DEFINE h == content[job[w].file]
    <3>1. h \in Contents
      BY <2>1, <2>3 DEF TypeOK, Job
    <3>2. /\ pc'[w] = "truncate" /\ job' = job
          /\ view'[w] = [manifest EXCEPT ![job[w].file] =
                           Applied(job[w].op, @, job[w].actor, h)]
      BY <1>2, <2>1, <2>3 DEF Hash, Goto, TypeOK, Procs
    <3>3. SchemaOK(view'[w])
      BY <2>1, <3>1, <3>2, ViewAfterCommand DEF Permitted, Job
    <3>4. manifest # Blank
      BY <2>1, BlankIsNoSnapshot
    <3>5. WriterInv(w)'
      BY <2>1, <3>1, <3>2, <3>4 DEF WriterInv, Permitted
    <3> QED
      BY <2>1, <3>3, <3>5 DEF OneWriter, SchemaHolds, SchemaOK
  <2> QED
    BY <2>2, <2>3
<1>3. ASSUME NEW w \in Writers, Truncate(w) PROVE LockInv'
  <2>1. /\ manifest' = Blank /\ pc'[w] = "fill" /\ pc[w] = "truncate"
        /\ view' = view
    BY <1>3 DEF Truncate, Goto, TypeOK, Procs, memory
  <2> QED
    BY <2>1 DEF OneWriter, SchemaHolds, SchemaOK, WriterInv
<1>4. ASSUME NEW w \in Writers, Fill(w) PROVE LockInv'
  <2>1. /\ pc[w] = "fill" /\ pc'[w] = "state" /\ view' = view
        /\ manifest = Blank /\ manifest' = view[w]
    BY <1>4 DEF Fill, Goto, TypeOK, Procs, memory, WriterInv
  <2> QED
    BY <2>1 DEF OneWriter, SchemaHolds, SchemaOK, WriterInv
<1>5. ASSUME NEW w \in Writers, EmitState(w) PROVE LockInv'
  <2>1. /\ pc[w] = "state" /\ pc'[w] = "receipt"
        /\ manifest' = manifest /\ view' = view
    BY <1>5 DEF EmitState, Goto, TypeOK, Procs, memory
  <2> QED
    BY <2>1 DEF OneWriter, SchemaHolds, SchemaOK, WriterInv
<1>6. ASSUME NEW w \in Writers, EmitReceipt(w) PROVE LockInv'
  <2>1. pc'[w] = "idle" /\ manifest' = manifest
    BY <1>6 DEF EmitReceipt, Goto, TypeOK, Procs
  <2> QED
    BY <2>1 DEF OneWriter, SchemaHolds, SchemaOK, WriterInv
<1>7. CASE \/ \E v \in Auditors : AuditorStep(v)
           \/ \E f \in Files : Edit(f)
           \/ GitCommit
           \/ \E p \in Procs : Crash(p)
           \/ UNCHANGED vars
  <2>1. /\ manifest' = manifest
        /\ \A w \in Writers : \/ pc'[w] = "idle"
                              \/ /\ pc'[w] = pc[w]
                                 /\ view'[w] = view[w] /\ job'[w] = job[w]
    BY <1>7, OthersKeepWriters
  <2> QED
    BY <2>1 DEF SchemaHolds, SchemaOK, WriterInv, Permitted
<1> QED
  BY <1>1, <1>2, <1>3, <1>4, <1>5, <1>6, <1>7 DEF Next, WriterStep

\* With one writer at a time, lockctl never leaves or writes a manifest that
\* verify_locks rejects, whatever auditors, editors and crashes do meanwhile.
THEOREM SchemaAlwaysHolds ==
  ASSUME OneWriter
  PROVE  Spec => []SchemaHolds
<1>1. Init => TypeOK /\ LockInv
  BY TypeInit, LockInit
<1>2. TypeOK /\ LockInv /\ [Next]_vars => (TypeOK /\ LockInv)'
  BY TypeStep, LockStep
<1>3. LockInv => SchemaHolds
  BY DEF LockInv
<1> QED
  BY <1>1, <1>2, <1>3, PTL DEF Spec

-----------------------------------------------------------------------------
\* The refinement: the program commits a command when it empties the manifest.

LEMMA CurrentIs ==
  ASSUME OneWriter, NEW w \in Writers
  PROVE  Current = IF pc[w] = "fill" THEN view[w] ELSE manifest
BY DEF Current, OneWriter

LEMMA CurrentIsNext ==
  ASSUME OneWriter, NEW w \in Writers
  PROVE  Current' = IF pc'[w] = "fill" THEN view'[w] ELSE manifest'
BY DEF Current, OneWriter

\* One permitted command is one step of the lease layer, or none (checkin).
LEMMA CommandIsLeaseStep ==
  ASSUME NEW m \in Snapshot, NEW op \in Ops, NEW f \in Files, NEW a \in Actors,
         NEW h \in Contents, SchemaOK(m), Allowed(op, m[f], a),
         Current = m, Current' = [m EXCEPT ![f] = Applied(op, @, a, h)]
  PROVE  Lease!Next \/ LeasesOf(Current)' = LeasesOf(Current)
<1> DEFINE r  == m[f]
           r2 == Applied(op, r, a, h)
           ab(x) == [state |-> x.state, holder |-> x.holder]
<1>1. /\ r \in Rec /\ RecordOK(r) /\ r2 \in Rec
  BY AppliedType DEF Snapshot, SchemaOK
<1>2. /\ m # Blank /\ Current' \in Snapshot /\ Current' # Blank
  BY <1>1, BlankIsNoSnapshot DEF Snapshot
<1>3. LeasesOf(Current) = [g \in Files |-> ab(m[g])]
  BY <1>2 DEF LeasesOf
<1>4. LeasesOf(Current)' = [g \in Files |-> ab(Current'[g])]
  BY <1>2 DEF LeasesOf
<1>5. LeasesOf(Current)' = [LeasesOf(Current) EXCEPT ![f] = ab(r2)]
  <2>1. \A g \in Files : Current'[g] = IF g = f THEN r2 ELSE m[g]
    BY DEF Snapshot
  <2> HIDE DEF r2, ab
  <2> QED
    BY <1>3, <1>4, <2>1
<1>6. LeasesOf(Current) # Blank
  <2>1. \A g \in Files : ab(m[g]) \in Lease0
    BY DEF Snapshot, Rec, Lease0
  <2> HIDE DEF ab
  <2>2. LeasesOf(Current) \in [Files -> Lease0]
    BY <1>3, <2>1
  <2> QED
    BY <2>2, BlankIsNoSnapshot
<1>7. LeasesOf(Current)[f] = ab(r)
  BY <1>3
<1>8. CASE op = "checkout"
  <2>1. ab(r2) = [state |-> "leased", holder |-> a]
    BY <1>8 DEF Applied
  <2>2. \/ ab(r) = [state |-> "open", holder |-> NoOne]
        \/ ab(r) = [state |-> "leased", holder |-> a]
    BY <1>1, <1>8 DEF Allowed, RecordOK, Rec, States
  <2>3. Lease!Checkout(f, a)
    BY <1>5, <1>7, <2>1, <2>2
    DEF Lease!Checkout, Lease!Holds, Lease!Becomes, Lease!Status
  <2> QED
    BY <1>6, <2>3 DEF Lease!Next
<1>9. CASE op = "checkin"
  <2>1. ab(r2) = ab(r)
    BY <1>1, <1>9 DEF Applied, Rec
  <2> HIDE DEF ab, r, r2
  <2> QED
    BY <1>3, <1>5, <1>7, <2>1
<1>10. CASE op = "resolve"
  <2>1. ab(r) = [state |-> "leased", holder |-> a]
    BY <1>10 DEF Allowed
  <2>2. ab(r2) = [state |-> "resolved", holder |-> a]
    BY <1>1, <1>10, <2>1 DEF Applied, Allowed, Rec
  <2>3. Lease!Resolve(f, a)
    BY <1>5, <1>7, <2>1, <2>2
    DEF Lease!Resolve, Lease!Holds, Lease!Becomes, Lease!Status
  <2> QED
    BY <1>6, <2>3 DEF Lease!Next
<1>11. CASE op = "reopen"
  <2>1. ab(r2) = [state |-> "open", holder |-> NoOne]
    BY <1>11 DEF Applied
  <2>2. LeasesOf(Current)[f].state = "resolved"
    BY <1>7, <1>11 DEF Allowed
  <2>3. Lease!Reopen(f)
    BY <1>5, <2>1, <2>2 DEF Lease!Reopen, Lease!Becomes, Lease!Status
  <2> QED
    BY <1>6, <2>3 DEF Lease!Next
<1> QED
  BY <1>8, <1>9, <1>10, <1>11 DEF Ops

LEMMA LeaseInit == ASSUME OneWriter, Init PROVE Lease!Init
<1>1. PICK c \in Contents : manifest \in [Files -> Fresh(c)]
  BY DEF Init
<1>2. manifest # Blank
  BY TypeInit, BlankIsNoSnapshot, <1>1, FreshType DEF Snapshot
<1>3. Current = manifest
  BY DEF Current, Init, Procs
<1>4. LeasesOf(Current) = [f \in Files |-> [state |-> manifest[f].state,
                                           holder |-> manifest[f].holder]]
  BY <1>2, <1>3 DEF LeasesOf
<1>5. ASSUME NEW r \in Fresh(c)
      PROVE  \/ r.state = "open" /\ r.holder = NoOne
             \/ r.state = "leased" /\ r.holder \in Actors
  BY DEF Fresh
<1> QED
  BY <1>1, <1>4, <1>5 DEF Lease!Init, Lease!Status

LEMMA LeaseStep ==
  ASSUME OneWriter, TypeOK, LockInv, [Next]_vars
  PROVE  Lease!Next \/ LeasesOf(Current)' = LeasesOf(Current)
<1> USE DEF LockInv
<1>1. ASSUME NEW w \in Writers, NEW op \in Ops, NEW f \in Files, NEW a \in Actors,
             Read(w, op, f, a)
      PROVE  Current' = Current
  BY <1>1, CurrentIs, CurrentIsNext DEF Read, Goto, TypeOK, Procs, disk
<1>2. ASSUME NEW w \in Writers, Hash(w) PROVE Current' = Current
  BY <1>2, CurrentIs, CurrentIsNext DEF Hash, Goto, TypeOK, Procs, disk
<1>3. ASSUME NEW w \in Writers, Truncate(w)
      PROVE  Lease!Next \/ LeasesOf(Current)' = LeasesOf(Current)
  <2>1. /\ pc[w] = "truncate" /\ pc'[w] = "fill" /\ view' = view
        /\ manifest \in Snapshot /\ SchemaOK(manifest) /\ job[w] \in Job
        /\ Permitted(w)
    BY <1>3 DEF Truncate, Goto, TypeOK, Procs, memory, WriterInv, SchemaHolds
  <2>2. PICK h \in Contents :
          view[w] = [manifest EXCEPT ![job[w].file] =
                       Applied(job[w].op, @, job[w].actor, h)]
    BY <2>1 DEF WriterInv
  <2>3. Current = manifest /\ Current' = view[w]
    BY <2>1, CurrentIs, CurrentIsNext
  <2> QED
    BY <2>1, <2>2, <2>3, CommandIsLeaseStep DEF Permitted, Job
<1>4. ASSUME NEW w \in Writers, Fill(w) PROVE Current' = Current
  <2>1. /\ pc[w] = "fill" /\ pc'[w] = "state" /\ manifest' = view[w]
    BY <1>4 DEF Fill, Goto, TypeOK, Procs, WriterInv
  <2> QED
    BY <2>1, CurrentIs, CurrentIsNext
<1>5. ASSUME NEW w \in Writers, EmitState(w) \/ EmitReceipt(w)
      PROVE  Current' = Current
  BY <1>5, CurrentIs, CurrentIsNext
  DEF EmitState, EmitReceipt, Goto, TypeOK, Procs
<1>6. CASE \/ \E v \in Auditors : AuditorStep(v)
           \/ \E f \in Files : Edit(f)
           \/ GitCommit
           \/ \E p \in Procs : Crash(p)
           \/ UNCHANGED vars
  <2>1. /\ manifest' = manifest
        /\ \A w \in Writers : \/ pc'[w] = "idle"
                              \/ /\ pc'[w] = pc[w]
                                 /\ view'[w] = view[w] /\ job'[w] = job[w]
    BY <1>6, OthersKeepWriters
  <2>2. CASE Writers = {}
    BY <2>1, <2>2 DEF Current, LeasesOf
  <2>3. ASSUME NEW w \in Writers
        PROVE  Lease!Next \/ LeasesOf(Current)' = LeasesOf(Current)
    <3>1. CASE pc[w] = "fill" /\ pc'[w] = "idle"
      <4>1. Current = view[w] /\ Current' = Blank
        BY <2>1, <3>1, CurrentIs, CurrentIsNext DEF WriterInv
      <4>2. LeasesOf(Current)' = Blank
        BY <4>1 DEF LeasesOf
      <4>3. LeasesOf(Current) = Blank \/ Lease!Lose
        BY <4>2 DEF Lease!Lose
      <4> QED
        BY <4>2, <4>3 DEF Lease!Next
    <3>2. CASE ~(pc[w] = "fill" /\ pc'[w] = "idle")
      <4>1. Current' = Current
        BY <2>1, <3>2, CurrentIs, CurrentIsNext
      <4> QED
        BY <4>1 DEF LeasesOf
    <3> QED
      BY <3>1, <3>2
  <2> QED
    BY <2>2, <2>3
<1>7. Current' = Current => LeasesOf(Current)' = LeasesOf(Current)
  BY DEF LeasesOf
<1> QED
  BY <1>1, <1>2, <1>3, <1>4, <1>5, <1>6, <1>7 DEF Next, WriterStep

\* With one writer at a time lockctl implements the lease layer: a lease goes
\* from its holder to nobody else without a resolve and a reopen between, even
\* when processes die at any step.
THEOREM LockCtlImplementsLeaseLayer ==
  ASSUME OneWriter
  PROVE  Spec => ImplementsLeaseLayer
<1>1. Init => TypeOK /\ LockInv /\ Lease!Init
  BY TypeInit, LockInit, LeaseInit
<1>2. TypeOK /\ LockInv /\ [Next]_vars => (TypeOK /\ LockInv)'
  BY TypeStep, LockStep
<1>3. TypeOK /\ LockInv /\ [Next]_vars => [Lease!Next]_(LeasesOf(Current))
  BY LeaseStep
<1> QED
  BY <1>1, <1>2, <1>3, PTL DEF Spec, ImplementsLeaseLayer, Lease!Spec

-----------------------------------------------------------------------------
\* What the receipts have to do with the manifest while a command runs.  A
\* command is early until it empties the manifest; then the book it keeps is
\* its view, and its own receipt is still missing.
Late(w) == pc[w] \in {"fill", "state", "receipt"}
Reopened(i) == \E k \in DOMAIN receipts :
  i < k /\ receipts[k].op = "reopen" /\ receipts[k].file = receipts[i].file

\* The state the last receipt of f must have left it in.
StateSoFar(w, f) == IF f = job[w].file THEN job[w].from ELSE view[w][f].state

\* The record still belongs to the actor of receipt i.
StillHeld(i, r) == r.state # "open" /\ r.holder = receipts[i].actor

LedgerInv ==
  /\ \A i, j \in DOMAIN receipts :
       NextReceipt(i, j) => receipts[i].to = receipts[j].from
  /\ (\A w \in Writers : ~Late(w)) =>
       /\ manifest # Blank
       /\ \A i \in DOMAIN receipts :
            LastReceipt(i) => receipts[i].to = manifest[receipts[i].file].state
  /\ \A w \in Writers :
       /\ pc[w] \in {"hash", "truncate"} =>
            job[w].from = manifest[job[w].file].state
       /\ pc[w] \in {"state", "receipt"} => manifest = view[w]
       /\ Late(w) => \A i \in DOMAIN receipts :
            LastReceipt(i) => receipts[i].to = StateSoFar(w, receipts[i].file)

HolderInv ==
  /\ NoDoubleLease
  /\ (\A w \in Writers : ~Late(w)) =>
       \A i \in DOMAIN receipts :
         receipts[i].op = "checkout" /\ ~Reopened(i)
           => StillHeld(i, manifest[receipts[i].file])
  /\ \A w \in Writers : Late(w) =>
       /\ job[w].op = "checkout" =>
            /\ view[w][job[w].file].state = "leased"
            /\ view[w][job[w].file].holder = job[w].actor
       /\ \A i \in DOMAIN receipts :
            receipts[i].op = "checkout" /\ ~Reopened(i)
              => \/ job[w].op = "reopen" /\ job[w].file = receipts[i].file
                 \/ StillHeld(i, view[w][receipts[i].file])

BookInv == crashes = 0 => LedgerInv /\ HolderInv

\* Without auditors nobody but the writer publishes.
PublishedInv ==
  crashes = 0 =>
    /\ (\A w \in Writers : ~Late(w)) => stateFile = manifest
    /\ \A w \in Writers : pc[w] = "receipt" => stateFile = view[w]

LEMMA BookInit == Init => BookInv /\ PublishedInv
<1> SUFFICES ASSUME Init PROVE BookInv /\ PublishedInv
  OBVIOUS
<1>1. /\ receipts = << >> /\ DOMAIN receipts = {}
      /\ \A w \in Writers : pc[w] = "idle"
      /\ stateFile = manifest
  BY DEF Init, Procs
<1>2. manifest # Blank
  <2>1. PICK c \in Contents : manifest \in [Files -> Fresh(c)]
    BY DEF Init
  <2> QED
    BY <2>1, FreshType, BlankIsNoSnapshot DEF Snapshot
<1>3. LedgerInv
  BY <1>1, <1>2 DEF LedgerInv, Late
<1>4. HolderInv
  BY <1>1 DEF HolderInv, Late, NoDoubleLease
<1> QED
  BY <1>1, <1>3, <1>4 DEF BookInv, PublishedInv, Late

\* Editors and auditors touch neither the receipts nor a writer; a crash is
\* outside the hypothesis of BookInv.
LEMMA OthersKeepBooks ==
  ASSUME TypeOK, crashes' = 0,
         \/ \E v \in Auditors : AuditorStep(v)
         \/ \E f \in Files : Edit(f)
         \/ GitCommit
         \/ \E p \in Procs : Crash(p)
         \/ UNCHANGED vars
  PROVE  /\ manifest' = manifest /\ receipts' = receipts /\ crashes = 0
         /\ \A w \in Writers : /\ pc'[w] = pc[w]
                               /\ view'[w] = view[w] /\ job'[w] = job[w]
<1> USE ConstantsOK DEF TypeOK, Procs, Goto, Forget, disk, memory, counts
<1>1. CASE \E v \in Auditors : AuditorStep(v)
  BY <1>1 DEF AuditorStep, SyncState, Verify, CheckHash, GitStatus, Publish
<1>2. CASE \/ \E f \in Files : Edit(f)
           \/ GitCommit
           \/ UNCHANGED vars
  BY <1>2 DEF Edit, GitCommit, vars
<1>3. CASE \E p \in Procs : Crash(p)
  BY <1>3 DEF Crash
<1> QED
  BY <1>1, <1>2, <1>3

\* What a receipt at the end of the ledger changes, and what it does not.
LEMMA AppendedReceipt ==
  ASSUME NEW rs \in Seq(Receipt), NEW rc \in Receipt
  PROVE  /\ DOMAIN rs \subseteq Nat
         /\ DOMAIN Append(rs, rc) = DOMAIN rs \cup {Len(rs) + 1}
         /\ Append(rs, rc)[Len(rs) + 1] = rc
         /\ \A i \in DOMAIN rs : i < Len(rs) + 1 /\ Append(rs, rc)[i] = rs[i]
OBVIOUS

\* One step of a writer, without the crash it could suffer.
LEMMA ReadBooks ==
  ASSUME OneWriter, TypeOK, NEW w \in Writers, NEW op \in Ops, NEW f \in Files,
         NEW a \in Actors, Read(w, op, f, a)
  PROVE  /\ ~Late(w) /\ pc'[w] = "hash" /\ job'[w].file = f
         /\ job'[w].from = manifest[f].state
         /\ manifest' = manifest /\ receipts' = receipts
         /\ stateFile' = stateFile /\ crashes' = crashes
BY DEF Read, Goto, TypeOK, Procs, disk, Late

LEMMA HashBooks ==
  ASSUME OneWriter, TypeOK, NEW w \in Writers, Hash(w)
  PROVE  /\ pc[w] = "hash"
         /\ pc'[w] = "idle" \/ (pc'[w] = "truncate" /\ job'[w] = job[w])
         /\ manifest' = manifest /\ receipts' = receipts
         /\ stateFile' = stateFile /\ crashes' = crashes
BY DEF Hash, Goto, TypeOK, Procs, disk, counts

LEMMA LedgerStep ==
  ASSUME OneWriter, TypeOK, LockInv, [Next]_vars,
         crashes = 0, crashes' = 0, LedgerInv
  PROVE  LedgerInv'
<1> DEFINE EndsAt(m) == \A i \in DOMAIN receipts :
           LastReceipt(i) => receipts[i].to = m[receipts[i].file].state
<1>1. ASSUME receipts' = receipts
      PROVE  /\ \A i, j \in DOMAIN receipts : NextReceipt(i, j)' <=> NextReceipt(i, j)
             /\ \A i \in DOMAIN receipts : LastReceipt(i)' <=> LastReceipt(i)
  BY <1>1 DEF NextReceipt, LastReceipt
<1>2. ASSUME NEW w \in Writers, NEW op \in Ops, NEW f \in Files, NEW a \in Actors,
             Read(w, op, f, a)
      PROVE  LedgerInv'
  <2>1. ~Late(w) /\ ~Late(w)'
    BY <1>2, ReadBooks DEF Late
  <2> QED
    BY <1>1, <1>2, <2>1, ReadBooks DEF LedgerInv, OneWriter
<1>3. ASSUME NEW w \in Writers, Hash(w) PROVE LedgerInv'
  <2>1. ~Late(w) /\ ~Late(w)'
    BY <1>3, HashBooks DEF Late
  <2> QED
    BY <1>1, <1>3, <2>1, HashBooks DEF LedgerInv, OneWriter
<1>4. ASSUME NEW w \in Writers, Truncate(w) PROVE LedgerInv'
  <2>1. /\ pc[w] = "truncate" /\ pc'[w] = "fill" /\ receipts' = receipts
        /\ view'[w] = view[w] /\ job'[w] = job[w]
        /\ manifest \in Snapshot /\ job[w] \in Job /\ ~Late(w) /\ Late(w)'
    BY <1>4 DEF Truncate, Goto, TypeOK, Procs, memory, LockInv, WriterInv, Late
  <2>2. \A g \in Files : g # job[w].file => view[w][g] = manifest[g]
    BY <2>1 DEF LockInv, WriterInv, Snapshot, Job
  <2>3. /\ EndsAt(manifest) /\ job[w].from = manifest[job[w].file].state
    BY <2>1 DEF LedgerInv, OneWriter
  <2>4. \A i \in DOMAIN receipts :
          LastReceipt(i) => receipts[i].to = StateSoFar(w, receipts[i].file)
    <3>1. receipts \in Seq(Receipt)
      BY DEF TypeOK
    <3>2. \A i \in DOMAIN receipts : receipts[i] \in Receipt
      BY <3>1
    <3>3. \A i \in DOMAIN receipts : receipts[i].file \in Files
      BY <3>2 DEF Receipt
    <3> QED
      BY <2>2, <2>3, <3>3 DEF StateSoFar
  <2>5. \A i \in DOMAIN receipts : StateSoFar(w, receipts[i].file)'
                                   = StateSoFar(w, receipts[i].file)
    BY <2>1 DEF StateSoFar
  <2> QED
    BY <1>1, <2>1, <2>4, <2>5 DEF LedgerInv, OneWriter
<1>5. ASSUME NEW w \in Writers, Fill(w) PROVE LedgerInv'
  <2>1. /\ pc[w] = "fill" /\ pc'[w] = "state" /\ receipts' = receipts
        /\ view'[w] = view[w] /\ job'[w] = job[w] /\ manifest' = view[w]
        /\ Late(w) /\ Late(w)'
    BY <1>5 DEF Fill, Goto, TypeOK, Procs, memory, LockInv, WriterInv, Late
  <2>2. \A i \in DOMAIN receipts : StateSoFar(w, receipts[i].file)'
                                   = StateSoFar(w, receipts[i].file)
    BY <2>1 DEF StateSoFar
  <2> QED
    BY <1>1, <2>1, <2>2 DEF LedgerInv, OneWriter
<1>6. ASSUME NEW w \in Writers, EmitState(w) PROVE LedgerInv'
  <2>1. /\ pc[w] = "state" /\ pc'[w] = "receipt" /\ receipts' = receipts
        /\ view'[w] = view[w] /\ job'[w] = job[w] /\ manifest' = manifest
        /\ Late(w) /\ Late(w)'
    BY <1>6 DEF EmitState, Goto, TypeOK, Procs, memory, Late
  <2>2. \A i \in DOMAIN receipts : StateSoFar(w, receipts[i].file)'
                                   = StateSoFar(w, receipts[i].file)
    BY <2>1 DEF StateSoFar
  <2> QED
    BY <1>1, <2>1, <2>2 DEF LedgerInv, OneWriter
<1>7. ASSUME NEW w \in Writers, EmitReceipt(w) PROVE LedgerInv'
  <2> DEFINE f  == job[w].file
             rc == [op |-> job[w].op, file |-> f, actor |-> job[w].actor,
                    from |-> job[w].from, to |-> view[w][f].state]
             n  == Len(receipts) + 1
  <2>1. /\ pc[w] = "receipt" /\ pc'[w] = "idle" /\ Late(w) /\ ~Late(w)'
        /\ manifest' = manifest /\ receipts' = Append(receipts, rc)
        /\ receipts \in Seq(Receipt) /\ view[w] \in Snapshot /\ job[w] \in Job
    BY <1>7 DEF EmitReceipt, Goto, TypeOK, Procs, Late
  <2>a. manifest = view[w] /\ manifest # Blank
    BY <2>1, BlankIsNoSnapshot DEF LedgerInv
  <2>2. rc \in Receipt /\ rc.file = f /\ rc.from = job[w].from
        /\ rc.to = manifest[f].state
    BY <2>1, <2>a DEF Job, Receipt, Snapshot, Rec
  <2>3. \A i \in DOMAIN receipts :
          LastReceipt(i) => receipts[i].to = StateSoFar(w, receipts[i].file)
    BY <2>1 DEF LedgerInv
  <2> HIDE DEF rc
  <2>4. /\ DOMAIN receipts \subseteq Nat
        /\ DOMAIN receipts' = DOMAIN receipts \cup {n} /\ receipts'[n] = rc
        /\ \A i \in DOMAIN receipts : i < n /\ receipts'[i] = receipts[i]
        /\ n \in Nat
    BY <2>1, <2>2, AppendedReceipt
  <2> HIDE DEF n
  <2>5. ASSUME NEW i \in DOMAIN receipts', NEW j \in DOMAIN receipts',
               NextReceipt(i, j)'
        PROVE  receipts'[i].to = receipts'[j].from
    <3>1. i < j /\ receipts'[i].file = receipts'[j].file
          /\ \A k \in DOMAIN receipts' :
               i < k /\ k < j => receipts'[k].file # receipts'[i].file
      BY <2>5 DEF NextReceipt
    <3>2. i \in DOMAIN receipts
      BY <2>4, <3>1
    <3>3. CASE j = n
      <4>1. LastReceipt(i) /\ receipts[i].file = f
        BY <2>2, <2>4, <3>1, <3>2, <3>3 DEF LastReceipt
      <4> QED
        BY <2>2, <2>3, <2>4, <3>2, <3>3, <4>1 DEF StateSoFar
    <3>4. CASE j # n
      <4>1. j \in DOMAIN receipts /\ NextReceipt(i, j)
        BY <2>4, <3>1, <3>2, <3>4 DEF NextReceipt
      <4> QED
        BY <2>4, <3>2, <4>1 DEF LedgerInv
    <3> QED
      BY <3>3, <3>4
  <2>6. ASSUME NEW i \in DOMAIN receipts', LastReceipt(i)'
        PROVE  receipts'[i].to = manifest'[receipts'[i].file].state
    <3>1. \A j \in DOMAIN receipts' : i < j => receipts'[j].file # receipts'[i].file
      BY <2>6 DEF LastReceipt
    <3>2. CASE i = n
      BY <2>1, <2>2, <2>4, <3>2
    <3>3. CASE i # n
      <4>1. i \in DOMAIN receipts /\ LastReceipt(i) /\ receipts[i].file # f
        BY <2>2, <2>4, <3>1, <3>3 DEF LastReceipt
      <4> QED
        BY <2>1, <2>a, <2>3, <2>4, <4>1 DEF StateSoFar
    <3> QED
      BY <3>2, <3>3
  <2>7. \A u \in Writers : u = w
    BY DEF OneWriter
  <2> QED
    BY <2>1, <2>a, <2>5, <2>6, <2>7 DEF LedgerInv
<1>8. CASE \/ \E v \in Auditors : AuditorStep(v)
           \/ \E f \in Files : Edit(f)
           \/ GitCommit
           \/ \E p \in Procs : Crash(p)
           \/ UNCHANGED vars
  <2>1. /\ manifest' = manifest /\ receipts' = receipts
        /\ \A w \in Writers : /\ pc'[w] = pc[w]
                              /\ view'[w] = view[w] /\ job'[w] = job[w]
    BY <1>8, OthersKeepBooks
  <2>2. \A w \in Writers : Late(w)' <=> Late(w)
    BY <2>1 DEF Late
  <2>3. \A w \in Writers, i \in DOMAIN receipts :
          StateSoFar(w, receipts[i].file)' = StateSoFar(w, receipts[i].file)
    BY <2>1 DEF StateSoFar
  <2> QED
    BY <1>1, <2>1, <2>2, <2>3 DEF LedgerInv
<1> QED
  BY <1>2, <1>3, <1>4, <1>5, <1>6, <1>7, <1>8 DEF Next, WriterStep

\* A step that appends no receipt reopens nothing and cannot break
\* NoDoubleLease by itself.
LEMMA SameReceipts ==
  ASSUME receipts' = receipts
  PROVE  /\ NoDoubleLease => NoDoubleLease'
         /\ \A i \in DOMAIN receipts : Reopened(i)' <=> Reopened(i)
BY DEF NoDoubleLease, Reopened

\* A command the guard lets through keeps the lease of a checkout that no
\* reopen has ended, unless it is that reopen.
LEMMA CommandKeepsHolder ==
  ASSUME NEW op \in Ops, NEW r \in Rec, NEW a \in Actors, NEW h \in Contents,
         NEW holder \in Actors, RecordOK(r), Allowed(op, r, a), op # "reopen",
         r.state # "open", r.holder = holder
  PROVE  /\ Applied(op, r, a, h).state # "open"
         /\ Applied(op, r, a, h).holder = holder
BY ConstantsOK DEF Applied, Allowed, Ops, Rec, RecordOK, States

LEMMA HolderStep ==
  ASSUME OneWriter, TypeOK, LockInv, [Next]_vars,
         crashes = 0, crashes' = 0, LedgerInv, HolderInv
  PROVE  HolderInv'
<1>1. ASSUME NEW w \in Writers, NEW op \in Ops, NEW f \in Files, NEW a \in Actors,
             Read(w, op, f, a)
      PROVE  HolderInv'
  <2>1. ~Late(w) /\ ~Late(w)'
    BY <1>1, ReadBooks DEF Late
  <2> QED
    BY <1>1, <2>1, ReadBooks, SameReceipts DEF HolderInv, StillHeld, OneWriter
<1>2. ASSUME NEW w \in Writers, Hash(w) PROVE HolderInv'
  <2>1. ~Late(w) /\ ~Late(w)'
    BY <1>2, HashBooks DEF Late
  <2> QED
    BY <1>2, <2>1, HashBooks, SameReceipts DEF HolderInv, StillHeld, OneWriter
<1>3. ASSUME NEW w \in Writers, Truncate(w) PROVE HolderInv'
  <2>1. /\ pc[w] = "truncate" /\ pc'[w] = "fill" /\ receipts' = receipts
        /\ view'[w] = view[w] /\ job'[w] = job[w]
        /\ manifest \in Snapshot /\ job[w] \in Job /\ ~Late(w) /\ Late(w)'
        /\ SchemaOK(manifest) /\ Permitted(w) /\ receipts \in Seq(Receipt)
    BY <1>3
    DEF Truncate, Goto, TypeOK, Procs, memory, LockInv, SchemaHolds, WriterInv, Late
  <2>2. PICK h \in Contents :
          view[w] = [manifest EXCEPT ![job[w].file] =
                       Applied(job[w].op, @, job[w].actor, h)]
    BY <2>1 DEF LockInv, WriterInv
  <2> DEFINE f == job[w].file
             r == manifest[f]
  <2>3. /\ f \in Files /\ r \in Rec /\ RecordOK(r) /\ job[w].op \in Ops
        /\ job[w].actor \in Actors /\ Allowed(job[w].op, r, job[w].actor)
    BY <2>1 DEF Job, Snapshot, SchemaOK, Permitted
  <2>4. /\ view[w][f] = Applied(job[w].op, r, job[w].actor, h)
        /\ \A g \in Files : g # f => view[w][g] = manifest[g]
    BY <2>1, <2>2, <2>3 DEF Snapshot
  <2>5. job[w].op = "checkout" => /\ view[w][f].state = "leased"
                                  /\ view[w][f].holder = job[w].actor
    BY <2>4 DEF Applied
  <2>6. ASSUME NEW i \in DOMAIN receipts,
               receipts[i].op = "checkout", ~Reopened(i)
        PROVE  \/ job[w].op = "reopen" /\ f = receipts[i].file
               \/ StillHeld(i, view[w][receipts[i].file])
    <3>1. StillHeld(i, manifest[receipts[i].file])
      BY <2>1, <2>6 DEF HolderInv, OneWriter
    <3>2. receipts[i] \in Receipt
      BY <2>1
    <3>3. receipts[i].actor \in Actors /\ receipts[i].file \in Files
      BY <3>2 DEF Receipt
    <3>4. CASE receipts[i].file # f
      BY <2>4, <3>1, <3>3, <3>4 DEF StillHeld
    <3>5. CASE receipts[i].file = f
      <4>1. r.state # "open" /\ r.holder = receipts[i].actor
        BY <3>1, <3>5 DEF StillHeld
      <4> HIDE DEF r
      <4> QED
        BY <2>3, <2>4, <3>3, <3>5, <4>1, CommandKeepsHolder DEF StillHeld
    <3> QED
      BY <3>4, <3>5
  <2>7. \A i \in DOMAIN receipts : StillHeld(i, view[w][receipts[i].file])'
                               <=> StillHeld(i, view[w][receipts[i].file])
    BY <2>1 DEF StillHeld
  <2> HIDE DEF r
  <2> QED
    BY <2>1, <2>5, <2>6, <2>7, SameReceipts DEF HolderInv, OneWriter
<1>4. ASSUME NEW w \in Writers, Fill(w) \/ EmitState(w) PROVE HolderInv'
  <2>1. /\ Late(w) /\ Late(w)' /\ receipts' = receipts
        /\ view'[w] = view[w] /\ job'[w] = job[w]
    BY <1>4 DEF Fill, EmitState, Goto, TypeOK, Procs, memory, Late
  <2>2. \A i \in DOMAIN receipts : StillHeld(i, view[w][receipts[i].file])'
                               <=> StillHeld(i, view[w][receipts[i].file])
    BY <2>1 DEF StillHeld
  <2> QED
    BY <2>1, <2>2, SameReceipts DEF HolderInv, OneWriter
<1>5. ASSUME NEW w \in Writers, EmitReceipt(w) PROVE HolderInv'
  <2> DEFINE f  == job[w].file
             rc == [op |-> job[w].op, file |-> f, actor |-> job[w].actor,
                    from |-> job[w].from, to |-> view[w][f].state]
             n  == Len(receipts) + 1
  <2>1. /\ pc[w] = "receipt" /\ Late(w) /\ ~Late(w)'
        /\ manifest' = manifest /\ receipts' = Append(receipts, rc)
        /\ receipts \in Seq(Receipt) /\ view[w] \in Snapshot /\ job[w] \in Job
    BY <1>5 DEF EmitReceipt, Goto, TypeOK, Procs, Late
  <2>2. manifest' = view[w]
    BY <2>1 DEF LedgerInv
  <2>3. rc \in Receipt /\ rc.file = f /\ rc.op = job[w].op /\ rc.actor = job[w].actor
    BY <2>1 DEF Job, Receipt, Snapshot, Rec
  <2> HIDE DEF rc
  <2>4. /\ DOMAIN receipts \subseteq Nat
        /\ DOMAIN receipts' = DOMAIN receipts \cup {n} /\ receipts'[n] = rc
        /\ \A i \in DOMAIN receipts : i < n /\ receipts'[i] = receipts[i]
        /\ n \in Nat
    BY <2>1, <2>3, AppendedReceipt
  <2> HIDE DEF n
  <2>5. \A i \in DOMAIN receipts :
          /\ Reopened(i) => Reopened(i)'
          /\ rc.op = "reopen" /\ f = receipts[i].file => Reopened(i)'
    BY <2>3, <2>4 DEF Reopened
  <2>6. ASSUME NEW i \in DOMAIN receipts,
               receipts[i].op = "checkout", ~Reopened(i)
        PROVE  \/ rc.op = "reopen" /\ f = receipts[i].file
               \/ StillHeld(i, view[w][receipts[i].file])
    BY <2>1, <2>3, <2>6 DEF HolderInv
  <2>7. rc.op = "checkout" => /\ view[w][f].state = "leased"
                              /\ view[w][f].holder = rc.actor
    BY <2>1, <2>3 DEF HolderInv
  <2>8. ASSUME NEW i \in DOMAIN receipts', receipts'[i].op = "checkout", ~Reopened(i)'
        PROVE  StillHeld(i, manifest[receipts[i].file])'
    <3>1. CASE i = n
      BY <2>2, <2>3, <2>4, <2>7, <2>8, <3>1 DEF StillHeld
    <3>2. CASE i # n
      BY <2>2, <2>4, <2>5, <2>6, <2>8, <3>2 DEF StillHeld
    <3> QED
      BY <3>1, <3>2
  <2>9. NoDoubleLease'
    <3> SUFFICES ASSUME NEW i \in DOMAIN receipts', NEW j \in DOMAIN receipts', i < j,
                        receipts'[i].op = "checkout", receipts'[j].op = "checkout",
                        receipts'[i].file = receipts'[j].file,
                        receipts'[i].actor # receipts'[j].actor
                 PROVE  \E k \in i + 1 .. j - 1 :
                          /\ receipts'[k].op = "reopen"
                          /\ receipts'[k].file = receipts'[i].file
      BY DEF NoDoubleLease
    <3>1. i \in DOMAIN receipts /\ i \in Nat /\ j \in Nat
      BY <2>4
    <3>2. CASE j # n
      <4>1. j \in DOMAIN receipts
        BY <2>4, <3>2
      <4>2. PICK k \in i + 1 .. j - 1 : /\ receipts[k].op = "reopen"
                                        /\ receipts[k].file = receipts[i].file
        BY <2>4, <3>1, <4>1 DEF HolderInv, NoDoubleLease
      <4>3. k \in DOMAIN receipts
        BY <2>1, <3>1, <4>1, <4>2
      <4> QED
        BY <2>4, <3>1, <4>2, <4>3
    <3>3. CASE j = n
      <4>1. Reopened(i)
        BY <2>3, <2>4, <2>6, <2>7, <3>1, <3>3 DEF StillHeld
      <4>2. PICK k \in DOMAIN receipts :
              i < k /\ receipts[k].op = "reopen" /\ receipts[k].file = receipts[i].file
        BY <4>1 DEF Reopened
      <4>3. k \in Nat /\ k < j /\ receipts'[k] = receipts[k]
        BY <2>4, <3>3
      <4>4. k \in i + 1 .. j - 1
        BY <3>1, <4>2, <4>3
      <4> QED
        BY <2>4, <3>1, <4>2, <4>3, <4>4
    <3> QED
      BY <3>2, <3>3
  <2>10. \A u \in Writers : u = w
    BY DEF OneWriter
  <2> QED
    BY <2>1, <2>8, <2>9, <2>10 DEF HolderInv
<1>6. CASE \/ \E v \in Auditors : AuditorStep(v)
           \/ \E f \in Files : Edit(f)
           \/ GitCommit
           \/ \E p \in Procs : Crash(p)
           \/ UNCHANGED vars
  <2>1. /\ manifest' = manifest /\ receipts' = receipts
        /\ \A w \in Writers : /\ pc'[w] = pc[w]
                              /\ view'[w] = view[w] /\ job'[w] = job[w]
    BY <1>6, OthersKeepBooks
  <2>2. \A w \in Writers : Late(w)' <=> Late(w)
    BY <2>1 DEF Late
  <2>3. \A w \in Writers, i \in DOMAIN receipts :
          StillHeld(i, view[w][receipts[i].file])'
            <=> StillHeld(i, view[w][receipts[i].file])
    BY <2>1 DEF StillHeld
  <2>4. \A i \in DOMAIN receipts : StillHeld(i, manifest[receipts[i].file])'
                               <=> StillHeld(i, manifest[receipts[i].file])
    BY <2>1 DEF StillHeld
  <2> QED
    BY <2>1, <2>2, <2>3, <2>4, SameReceipts DEF HolderInv
<1> QED
  BY <1>1, <1>2, <1>3, <1>4, <1>5, <1>6 DEF Next, WriterStep

\* A crash cannot be undone.
LEMMA CrashesOnlyGrow == TypeOK /\ [Next]_vars /\ crashes' = 0 => crashes = 0
<1> SUFFICES ASSUME TypeOK, [Next]_vars, crashes' = 0 PROVE crashes = 0
  OBVIOUS
<1>1. CASE \E w \in Writers : WriterStep(w)
  BY <1>1 DEF WriterStep, Read, Hash, Truncate, Fill, EmitState, EmitReceipt, counts
<1>2. CASE \/ \E v \in Auditors : AuditorStep(v)
           \/ \E f \in Files : Edit(f)
           \/ GitCommit
           \/ \E p \in Procs : Crash(p)
           \/ UNCHANGED vars
  BY <1>2, OthersKeepBooks
<1> QED
  BY <1>1, <1>2 DEF Next

LEMMA BookStep ==
  ASSUME OneWriter, TypeOK, LockInv, BookInv, [Next]_vars
  PROVE  BookInv'
BY CrashesOnlyGrow, LedgerStep, HolderStep DEF BookInv

LEMMA PublishedStep ==
  ASSUME OneWriter, Auditors = {}, TypeOK, LockInv, BookInv, PublishedInv, [Next]_vars
  PROVE  PublishedInv'
<1> SUFFICES ASSUME crashes' = 0
             PROVE  /\ (\A w \in Writers : ~Late(w)') => stateFile' = manifest'
                    /\ \A w \in Writers : pc'[w] = "receipt" => stateFile' = view'[w]
  BY DEF PublishedInv, Late
<1>0. /\ crashes = 0 /\ LedgerInv
      /\ (\A w \in Writers : ~Late(w)) => stateFile = manifest
      /\ \A w \in Writers : pc[w] = "receipt" => stateFile = view[w]
  BY CrashesOnlyGrow DEF BookInv, PublishedInv
<1>1. ASSUME NEW w \in Writers, NEW op \in Ops, NEW f \in Files, NEW a \in Actors,
             Read(w, op, f, a)
      PROVE  /\ ~Late(w) /\ pc'[w] # "receipt"
             /\ manifest' = manifest /\ stateFile' = stateFile
  BY <1>1, ReadBooks
<1>2. ASSUME NEW w \in Writers, Hash(w)
      PROVE  /\ ~Late(w) /\ pc'[w] # "receipt"
             /\ manifest' = manifest /\ stateFile' = stateFile
  BY <1>2, HashBooks DEF Late
<1>3. ASSUME NEW w \in Writers, Truncate(w) \/ Fill(w)
      PROVE  Late(w)' /\ pc'[w] # "receipt"
  BY <1>3 DEF Truncate, Fill, Goto, TypeOK, Procs, Late
<1>4. ASSUME NEW w \in Writers, EmitState(w) PROVE Late(w)' /\ stateFile' = view'[w]
  BY <1>4 DEF EmitState, Goto, TypeOK, Procs, Late, memory
<1>5. ASSUME NEW w \in Writers, EmitReceipt(w)
      PROVE  pc'[w] = "idle" /\ stateFile' = manifest'
  BY <1>0, <1>5 DEF EmitReceipt, Goto, TypeOK, Procs, LedgerInv
<1>6. ASSUME \/ \E v \in Auditors : AuditorStep(v)
             \/ \E f \in Files : Edit(f)
             \/ GitCommit
             \/ \E p \in Procs : Crash(p)
             \/ UNCHANGED vars
      PROVE  /\ stateFile' = stateFile /\ manifest' = manifest
             /\ \A w \in Writers : pc'[w] = pc[w] /\ view'[w] = view[w]
  <2>1. stateFile' = stateFile
    BY <1>0, <1>6 DEF TypeOK, Edit, GitCommit, Crash, vars, disk
  <2> QED
    BY <1>6, <2>1, OthersKeepBooks
<1>7. \A u, w \in Writers : u = w
  BY DEF OneWriter
<1> QED
  BY <1>0, <1>1, <1>2, <1>3, <1>4, <1>5, <1>6, <1>7 DEF Next, WriterStep, Late

\* With one writer at a time, and as long as no process dies half-way, two
\* actors that were both told OK for a checkout of one file have a reopen
\* between them; auditors and editors may do what they like.
THEOREM CheckoutsAreExclusive ==
  ASSUME OneWriter
  PROVE  Spec => [](crashes = 0 => NoDoubleLease)
<1>1. Init => TypeOK /\ LockInv /\ BookInv
  BY TypeInit, LockInit, BookInit
<1>2. TypeOK /\ LockInv /\ BookInv /\ [Next]_vars => (TypeOK /\ LockInv /\ BookInv)'
  BY TypeStep, LockStep, BookStep
<1>3. BookInv => (crashes = 0 => NoDoubleLease)
  BY DEF BookInv, HolderInv
<1> QED
  BY <1>1, <1>2, <1>3, PTL DEF Spec

\* Between two commands the receipts of every file form a chain that ends in
\* its state in the manifest, auditors or not.
THEOREM LedgerAgreesWithManifest ==
  ASSUME OneWriter
  PROVE  Spec => [](crashes = 0 /\ (\A w \in Writers : pc[w] = "idle")
                      => LedgerChains)
<1>1. Init => TypeOK /\ LockInv /\ BookInv
  BY TypeInit, LockInit, BookInit
<1>2. TypeOK /\ LockInv /\ BookInv /\ [Next]_vars => (TypeOK /\ LockInv /\ BookInv)'
  BY TypeStep, LockStep, BookStep
<1>3. BookInv => (crashes = 0 /\ (\A w \in Writers : pc[w] = "idle") => LedgerChains)
  BY DEF BookInv, LedgerInv, LedgerChains, Late
<1> QED
  BY <1>1, <1>2, <1>3, PTL DEF Spec

\* Where no auditor publishes a manifest it read earlier, the published state
\* file agrees with both whenever no command runs.
THEOREM BooksAlwaysAgree ==
  ASSUME OneWriter, Auditors = {}
  PROVE  Spec => [](crashes = 0 => BooksAgree)
<1>1. Init => TypeOK /\ LockInv /\ BookInv /\ PublishedInv
  BY TypeInit, LockInit, BookInit
<1>2. TypeOK /\ LockInv /\ BookInv /\ PublishedInv /\ [Next]_vars
        => (TypeOK /\ LockInv /\ BookInv /\ PublishedInv)'
  BY TypeStep, LockStep, BookStep, PublishedStep
<1>3. BookInv /\ PublishedInv => (crashes = 0 => BooksAgree)
  BY DEF BookInv, PublishedInv, LedgerInv, LedgerChains, BooksAgree, Late, Procs
<1> QED
  BY <1>1, <1>2, <1>3, PTL DEF Spec
==============================================================================
