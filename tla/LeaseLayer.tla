----------------------------- MODULE LeaseLayer -----------------------------
(***************************************************************************)
(* What the lease/lock layer promises, with one atomic step per command:   *)
(* every declared file is open, leased by one actor or resolved, only the  *)
(* holder works on a lease, and a resolved file must be reopened before    *)
(* anybody leases it again.  The catalogue of leases can also be lost as a *)
(* whole (a crash while the manifest is rewritten); nothing is accepted    *)
(* after that.  LockCtl is the program that has to implement this.         *)
(***************************************************************************)
CONSTANTS
  Files,    \* the declared files
  Actors,   \* the names given with --actor
  NoOne,    \* the empty holder
  Blank     \* no catalogue at all

VARIABLE lease   \* [Files -> [state, holder]], or Blank once lost

Status(s, h) == [state |-> s, holder |-> h]

Holds(f, a) == lease[f] = Status("leased", a)

Init ==
  lease \in [Files -> {Status("open", NoOne)}
                        \cup {Status("leased", a) : a \in Actors}]

Becomes(f, s) == lease' = [lease EXCEPT ![f] = s]

Checkout(f, a) ==
  /\ \/ lease[f] = Status("open", NoOne)
     \/ Holds(f, a)
  /\ Becomes(f, Status("leased", a))

Resolve(f, a) == Holds(f, a) /\ Becomes(f, Status("resolved", a))

\* Any actor may reopen; the file becomes free.
Reopen(f) ==
  /\ lease[f].state = "resolved"
  /\ Becomes(f, Status("open", NoOne))

Lose == lease # Blank /\ lease' = Blank

\* Checkin keeps the lease as it is: a stuttering step of this level.
Next ==
  \/ /\ lease # Blank
     /\ \E f \in Files : \/ \E a \in Actors : Checkout(f, a) \/ Resolve(f, a)
                         \/ Reopen(f)
  \/ Lose

Spec == Init /\ [][Next]_lease
=============================================================================
