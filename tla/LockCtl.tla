------------------------------- MODULE LockCtl -------------------------------
(***************************************************************************)
(* The declarative lease/lock layer: logic/tools/lockctl.mjs, which        *)
(* rewrites authority/locks_manifest.logic one command at a time, and      *)
(* logic/verify/verify_locks.mjs, which audits it.  Each command is a      *)
(* process of its own; nothing excludes two of them from running at once,  *)
(* so every file access is a step:                                         *)
(*                                                                         *)
(*   writer    read -> hash -> truncate -> fill -> state -> receipt        *)
(*   auditor   read -> check hashes -> git status -> publish   (verify)    *)
(*             read -> publish                               (sync-state)  *)
(*                                                                         *)
(* Left out of the records: the clock and the intent, which no guard       *)
(* reads.  A sha256 is the content it was taken of.                        *)
(***************************************************************************)
EXTENDS Naturals, Sequences, FiniteSets

CONSTANTS
  NFiles,       \* number of files the manifest declares
  Actors,       \* names given with --actor
  Contents,     \* what a file can contain
  Writers,      \* lockctl processes that run checkout, checkin, resolve, reopen
  Auditors,     \* verify_locks and lockctl sync-state processes
  NoOne,        \* no file_holder fact
  NoHash,       \* no file_hash fact
  Gone,         \* the file does not exist on disk
  Blank,        \* an empty manifest, or an empty lock_state file
  MaxCommands,  \* bound on the commands writers start
  MaxEdits,     \* bound on the edits of the locked files
  MaxCrashes    \* bound on the processes that die half-way

Files == 1 .. NFiles     \* in the order of the manifest, sorted by name
Procs == Writers \cup Auditors

ASSUME ConstantsOK ==
  /\ NFiles \in Nat \ {0}
  /\ Writers \cap Auditors = {}
  /\ NoOne \notin Actors
  /\ NoHash \notin Contents
  /\ Gone \notin Contents
  /\ MaxCommands \in Nat /\ MaxEdits \in Nat /\ MaxCrashes \in Nat

States == {"open", "leased", "resolved"}
Ops    == {"checkout", "checkin", "resolve", "reopen"}

Rec == [state    : States,
        holder   : Actors \cup {NoOne},
        hash     : Contents \cup {NoHash},
        resolved : BOOLEAN]
Snapshot == [Files -> Rec]

Lease0 == [state : States, holder : Actors \cup {NoOne}]

ASSUME BlankIsNoSnapshot == /\ Blank \notin Snapshot
                            /\ Blank \notin [Files -> Lease0]

Job     == [op : Ops, file : Files, actor : Actors, from : States]
Receipt == [op : Ops, file : Files, actor : Actors, from : States, to : States]

VARIABLES
  manifest,   \* the records of authority/locks_manifest.logic, or Blank
  garbled,    \* does the manifest also hold a line that is no fact?
  stateFile,  \* logic/generated/lock_state.ndjson
  receipts,   \* logic/generated/lock_receipts.ndjson
  content,    \* the declared files on disk
  committed,  \* the same files at git HEAD
  pc,         \* where each process is
  view,       \* the manifest as each process holds it in memory
  job,        \* the command of each writer that runs
  todo,       \* the resolved files a verifier still has to hash
  commands, edits, crashes    \* the bounded counters

disk   == <<manifest, garbled, stateFile, receipts>>
work   == <<content, committed>>
memory == <<view, job, todo>>
counts == <<commands, edits, crashes>>
vars   == <<disk, work, pc, memory, counts>>

-----------------------------------------------------------------------------
\* The rules of the commands.

\* Mutant: checkout does not look at the holder of a lease.
AllowedAnyHolder(op, r, a) ==
  CASE op = "checkout" -> r.state # "resolved"
    [] op \in {"checkin", "resolve"} -> r.state = "leased" /\ r.holder = a
    [] op = "reopen" -> r.state = "resolved"

\* May the command run on a record in this state?
Allowed(op, r, a) ==
  CASE op = "checkout" -> /\ r.state # "resolved"
                          /\ r.state = "leased" => r.holder \in {a, NoOne}
    [] op \in {"checkin", "resolve"} -> r.state = "leased" /\ r.holder = a
    [] op = "reopen" -> r.state = "resolved"

\* Mutant: reopen forgets to delete the holder.
AppliedKeepsHolder(op, r, a, h) ==
  CASE op = "checkout" ->
         [state |-> "leased", holder |-> a, hash |-> h, resolved |-> FALSE]
    [] op = "checkin"  -> [r EXCEPT !.hash = h, !.resolved = FALSE]
    [] op = "resolve"  ->
         [r EXCEPT !.state = "resolved", !.hash = h, !.resolved = TRUE]
    [] op = "reopen"   ->
         [r EXCEPT !.state = "open", !.hash = h, !.resolved = FALSE]

\* The record it leaves, h being the hash of the file at that moment.
Applied(op, r, a, h) ==
  CASE op = "checkout" ->
         [state |-> "leased", holder |-> a, hash |-> h, resolved |-> FALSE]
    [] op = "checkin"  -> [r EXCEPT !.hash = h, !.resolved = FALSE]
    [] op = "resolve"  ->
         [r EXCEPT !.state = "resolved", !.hash = h, !.resolved = TRUE]
    [] op = "reopen"   ->
         [state |-> "open", holder |-> NoOne, hash |-> h, resolved |-> FALSE]

\* What verify_locks demands of a record before it looks at any file.
RecordOK(r) ==
  /\ r.state = "open"     => r.holder = NoOne /\ ~r.resolved
  /\ r.state = "leased"   => r.holder # NoOne /\ ~r.resolved
  /\ r.state = "resolved" => r.hash # NoHash /\ r.resolved
SchemaOK(m) == \A f \in Files : RecordOK(m[f])

(***************************************************************************)
(* A write starts at offset 0 of whatever the file holds by then.  If      *)
(* another process has filled the manifest after our truncation and its    *)
(* text is longer, the tail of that text survives ours; readManifest lets  *)
(* a later fact override an earlier one.  The facts of a record come in    *)
(* the order 1 state, 2 holder, 3 hash, 4 resolved, empty ones are not     *)
(* written, and a cut <<f, k>> says that fact k of file f is the first one *)
(* to survive.  Our text always covers the first two facts of file 1.      *)
(***************************************************************************)
Cuts == {c \in (1 .. NFiles + 1) \X (1 .. 4) :
           /\ c[1] = 1 => c[2] >= 3
           /\ c[1] = NFiles + 1 => c[2] = 1}

Survives(f, k, cut) == f > cut[1] \/ (f = cut[1] /\ k >= cut[2])

Overlay(new, old, cut) ==
  [f \in Files |->
     [state    |-> IF Survives(f, 1, cut) THEN old[f].state ELSE new[f].state,
      holder   |-> IF Survives(f, 2, cut) /\ old[f].holder # NoOne
                   THEN old[f].holder ELSE new[f].holder,
      hash     |-> IF Survives(f, 3, cut) /\ old[f].hash # NoHash
                   THEN old[f].hash ELSE new[f].hash,
      resolved |-> IF Survives(f, 4, cut) THEN old[f].resolved
                                          ELSE new[f].resolved]]

-----------------------------------------------------------------------------
TypeOK ==
  /\ manifest \in Snapshot \cup {Blank}
  /\ garbled \in BOOLEAN
  /\ stateFile \in Snapshot \cup {Blank}
  /\ receipts \in Seq(Receipt)
  /\ content \in [Files -> Contents \cup {Gone}]
  /\ committed \in [Files -> Contents \cup {Gone}]
  /\ pc \in [Procs -> {"idle", "hash", "truncate", "fill", "state", "receipt",
                       "check", "publish"}]
  /\ \A w \in Writers : /\ pc[w] \notin {"check", "publish"}
                         /\ pc[w] # "idle" => view[w] \in Snapshot /\ job[w] \in Job
  /\ \A v \in Auditors : pc[v] \in {"idle", "check", "publish"}
  /\ view \in [Procs -> Snapshot \cup {Blank}]
  /\ job \in [Writers -> Job \cup {Blank}]
  /\ todo \in [Auditors -> SUBSET Files]
  /\ commands \in Nat /\ edits \in Nat /\ crashes \in Nat

\* A manifest as the repository ships it, and the state file emitted from it.
Fresh(c) ==
  {[state |-> "open", holder |-> NoOne, hash |-> NoHash, resolved |-> FALSE]}
  \cup {[state |-> "leased", holder |-> a, hash |-> c, resolved |-> FALSE] :
          a \in Actors}

Init ==
  /\ \E c \in Contents : /\ content = [f \in Files |-> c]
                         /\ manifest \in [Files -> Fresh(c)]
  /\ committed = content
  /\ garbled = FALSE
  /\ stateFile = manifest
  /\ receipts = << >>
  /\ pc = [p \in Procs |-> "idle"]
  /\ view = [p \in Procs |-> Blank]
  /\ job = [w \in Writers |-> Blank]
  /\ todo = [v \in Auditors |-> {}]
  /\ commands = 0 /\ edits = 0 /\ crashes = 0

Goto(p, from, to) == pc[p] = from /\ pc' = [pc EXCEPT ![p] = to]

\* A process that ends keeps nothing.
Forget(p) ==
  /\ view' = [view EXCEPT ![p] = Blank]
  /\ job'  = IF p \in Writers THEN [job EXCEPT ![p] = Blank] ELSE job
  /\ todo' = IF p \in Auditors THEN [todo EXCEPT ![p] = {}] ELSE todo

-----------------------------------------------------------------------------
\* lockctl checkout | checkin | resolve | reopen --file f --actor a.
\* A command whose guard fails exits before it writes: no step at all.
Read(w, op, f, a) ==
  /\ commands < MaxCommands
  /\ manifest # Blank
  /\ Allowed(op, manifest[f], a)
  /\ Goto(w, "idle", "hash")
  /\ view' = [view EXCEPT ![w] = manifest]
  /\ job' = [job EXCEPT ![w] = [op |-> op, file |-> f, actor |-> a,
                                from |-> manifest[f].state]]
  /\ commands' = commands + 1
  /\ UNCHANGED <<disk, work, todo, edits, crashes>>

\* Mutant: the hash of a missing file is taken all the same.
HashMissing(w) ==
  /\ Goto(w, "hash", "truncate")
  /\ view' = [view EXCEPT ![w][job[w].file] =
                Applied(job[w].op, @, job[w].actor, content[job[w].file])]
  /\ UNCHANGED <<job, todo, disk, work, counts>>

\* fileSha: a missing file ends the command.
Hash(w) ==
  /\ \/ /\ Goto(w, "hash", "truncate")
        /\ content[job[w].file] # Gone
        /\ view' = [view EXCEPT ![w][job[w].file] =
                      Applied(job[w].op, @, job[w].actor, content[job[w].file])]
        /\ UNCHANGED <<job, todo>>
     \/ /\ Goto(w, "hash", "idle")
        /\ content[job[w].file] = Gone
        /\ Forget(w)
  /\ UNCHANGED <<disk, work, counts>>

\* writeFileSync empties the manifest when it opens it ...
Truncate(w) ==
  /\ Goto(w, "truncate", "fill")
  /\ manifest' = Blank
  /\ garbled' = FALSE
  /\ UNCHANGED <<stateFile, receipts, work, memory, counts>>

\* ... and then writes all the records of its view, not only the changed one.
Fill(w) ==
  /\ Goto(w, "fill", "state")
  /\ \/ /\ manifest = Blank
        /\ manifest' = view[w]
        /\ UNCHANGED garbled
     \/ /\ manifest # Blank
        /\ \E cut \in Cuts : manifest' = Overlay(view[w], manifest, cut)
        /\ garbled' \in BOOLEAN
  /\ UNCHANGED <<stateFile, receipts, work, memory, counts>>

EmitState(w) ==
  /\ Goto(w, "state", "receipt")
  /\ stateFile' = view[w]
  /\ UNCHANGED <<manifest, garbled, receipts, work, memory, counts>>

\* Mutant: "from" is read after the record has been changed.
EmitReceiptLate(w) ==
  /\ Goto(w, "receipt", "idle")
  /\ receipts' = Append(receipts,
       [op |-> job[w].op, file |-> job[w].file, actor |-> job[w].actor,
        from |-> view[w][job[w].file].state, to |-> view[w][job[w].file].state])
  /\ Forget(w)
  /\ UNCHANGED <<manifest, garbled, stateFile, work, counts>>

EmitReceipt(w) ==
  /\ Goto(w, "receipt", "idle")
  /\ receipts' = Append(receipts,
       [op |-> job[w].op, file |-> job[w].file, actor |-> job[w].actor,
        from |-> job[w].from, to |-> view[w][job[w].file].state])
  /\ Forget(w)
  /\ UNCHANGED <<manifest, garbled, stateFile, work, counts>>

-----------------------------------------------------------------------------
\* lockctl sync-state, which accepts an empty manifest.
SyncState(v) ==
  /\ Goto(v, "idle", "publish")
  /\ view' = [view EXCEPT ![v] = manifest]
  /\ UNCHANGED <<disk, work, job, todo, counts>>

\* verify_locks: a manifest that fails the schema ends it with no write.
Verify(v) ==
  /\ manifest # Blank
  /\ ~garbled
  /\ SchemaOK(manifest)
  /\ Goto(v, "idle", "check")
  /\ view' = [view EXCEPT ![v] = manifest]
  /\ todo' = [todo EXCEPT ![v] = {f \in Files : manifest[f].state = "resolved"}]
  /\ UNCHANGED <<disk, work, job, counts>>

\* One resolved file after the other, in the order of the manifest.
CheckHash(v) ==
  /\ \E f \in todo[v] :
       /\ \A g \in todo[v] : f <= g
       /\ \/ /\ content[f] = view[v][f].hash
             /\ pc[v] = "check"
             /\ todo' = [todo EXCEPT ![v] = @ \ {f}]
             /\ UNCHANGED <<pc, view, job>>
          \/ /\ content[f] # view[v][f].hash
             /\ Goto(v, "check", "idle")
             /\ Forget(v)
  /\ UNCHANGED <<disk, work, counts>>

\* A declared file that differs from HEAD has to be leased.
GitStatus(v) ==
  /\ todo[v] = {}
  /\ \/ /\ Goto(v, "check", "publish")
        /\ \A f \in Files : content[f] # committed[f] => view[v][f].state = "leased"
        /\ UNCHANGED memory
     \/ /\ Goto(v, "check", "idle")
        /\ \E f \in Files : content[f] # committed[f] /\ view[v][f].state # "leased"
        /\ Forget(v)
  /\ UNCHANGED <<disk, work, counts>>

Publish(v) ==
  /\ Goto(v, "publish", "idle")
  /\ stateFile' = view[v]
  /\ Forget(v)
  /\ UNCHANGED <<manifest, garbled, receipts, work, counts>>

-----------------------------------------------------------------------------
\* The surroundings: editors, git commit, processes that are killed.
Edit(f) ==
  /\ edits < MaxEdits
  /\ \E c \in (Contents \cup {Gone}) \ {content[f]} :
       content' = [content EXCEPT ![f] = c]
  /\ edits' = edits + 1
  /\ UNCHANGED <<disk, committed, pc, memory, commands, crashes>>

GitCommit ==
  /\ committed # content
  /\ committed' = content
  /\ UNCHANGED <<disk, content, pc, memory, counts>>

\* A process killed in "fill" leaves the manifest empty; one killed while it
\* writes the state file may leave that one empty.
Crash(p) ==
  /\ pc[p] # "idle"
  /\ crashes < MaxCrashes
  /\ crashes' = crashes + 1
  /\ pc' = [pc EXCEPT ![p] = "idle"]
  /\ Forget(p)
  /\ \/ UNCHANGED stateFile
     \/ pc[p] \in {"state", "publish"} /\ stateFile' = Blank
  /\ UNCHANGED <<manifest, garbled, receipts, work, commands, edits>>

-----------------------------------------------------------------------------
WriterStep(w) ==
  \/ \E op \in Ops, f \in Files, a \in Actors : Read(w, op, f, a)
  \/ Hash(w) \/ Truncate(w) \/ Fill(w) \/ EmitState(w) \/ EmitReceipt(w)

AuditorStep(v) ==
  SyncState(v) \/ Verify(v) \/ CheckHash(v) \/ GitStatus(v) \/ Publish(v)

Next ==
  \/ \E w \in Writers : WriterStep(w)
  \/ \E v \in Auditors : AuditorStep(v)
  \/ \E f \in Files : Edit(f)
  \/ GitCommit
  \/ \E p \in Procs : Crash(p)

Spec == Init /\ [][Next]_vars

-----------------------------------------------------------------------------
(***************************************************************************)
(* Properties.                                                             *)
(***************************************************************************)

\* Every manifest a reader can find satisfies the rules of verify_locks, and
\* so does every view a writer is about to write.
SchemaHolds ==
  /\ manifest # Blank => SchemaOK(manifest)
  /\ \A w \in Writers : pc[w] # "idle" => SchemaOK(view[w])

\* Why SchemaHolds holds when one writer runs at a time: until the writer
\* empties the manifest its view is the manifest with one permitted command
\* applied, and nobody fills the manifest before the writer does.
Permitted(w) == Allowed(job[w].op, manifest[job[w].file], job[w].actor)
WriterInv(w) ==
  /\ pc[w] = "hash" => view[w] = manifest /\ Permitted(w)
  /\ pc[w] = "truncate" =>
       /\ manifest # Blank
       /\ Permitted(w)
       /\ \E h \in Contents :
            view[w] = [manifest EXCEPT ![job[w].file] =
                         Applied(job[w].op, @, job[w].actor, h)]
  /\ pc[w] = "fill" => manifest = Blank
LockInv == SchemaHolds /\ \A w \in Writers : WriterInv(w)

\* When no command runs, the three files lockctl keeps tell one story: the
\* receipts of a file form a chain that ends in its state in the manifest,
\* and the published state file equals the manifest.
NextReceipt(i, j) ==
  /\ i < j /\ receipts[i].file = receipts[j].file
  /\ \A k \in DOMAIN receipts :
       i < k /\ k < j => receipts[k].file # receipts[i].file
LastReceipt(i) ==
  \A j \in DOMAIN receipts : i < j => receipts[j].file # receipts[i].file
LedgerChains ==
  /\ \A i, j \in DOMAIN receipts :
       NextReceipt(i, j) => receipts[i].to = receipts[j].from
  /\ \A i \in DOMAIN receipts :
       LastReceipt(i) => receipts[i].to = manifest[receipts[i].file].state
BooksAgree ==
  (\A p \in Procs : pc[p] = "idle") => stateFile = manifest /\ LedgerChains

\* lockctl.mjs:190, "Already leased by ...": two actors that were both told
\* OK for a checkout of one file have a reopen between them.
NoDoubleLease ==
  \A i, j \in DOMAIN receipts :
    (/\ i < j
     /\ receipts[i].op = "checkout" /\ receipts[j].op = "checkout"
     /\ receipts[i].file = receipts[j].file
     /\ receipts[i].actor # receipts[j].actor)
      => \E k \in i + 1 .. j - 1 : /\ receipts[k].op = "reopen"
                                   /\ receipts[k].file = receipts[i].file

\* What a snapshot shows of the leases; a writer that has emptied the manifest
\* is committed to the view it is about to write.
LeasesOf(m) ==
  IF m = Blank THEN Blank
  ELSE [f \in Files |-> [state |-> m[f].state, holder |-> m[f].holder]]
Current ==
  IF \E w \in Writers : pc[w] = "fill"
  THEN view[CHOOSE w \in Writers : pc[w] = "fill"]
  ELSE manifest
Lease == INSTANCE LeaseLayer WITH lease <- LeasesOf(Current)

\* With one writer at a time the program implements the lease layer, crashes
\* included.
ImplementsLeaseLayer == Lease!Spec
==============================================================================
