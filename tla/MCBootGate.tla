----------------------------- MODULE MCBootGate -----------------------------
(***************************************************************************)
(* BootGate for TLC.  The streams that try the boundary are the canonical  *)
(* header with a tail, or a header that is cut short or has one byte       *)
(* changed with a short tail; those that try the rewriting are a tail      *)
(* behind a byte that opens the structural phase.  Tails are over one byte *)
(* of each kind that the code at hand tells apart.                         *)
(***************************************************************************)
EXTENDS BootGate, SequencesExt

CONSTANT MaxTail

BoundaryBytes   == {2, SP, Dot, 47, 48, 97}
StructuralKinds == {SP, Open, Close, Dot, 97, 98, 200}

Damaged ==
  {[CanonicalHeader6 EXCEPT ![i] = b] : i \in {1, 6}, b \in {1, 46, 64}}
  \cup {SubSeq(CanonicalHeader6, 1, 3)}

BootStreams ==
  {CanonicalHeader6 \o t : t \in BoundedSeq(BoundaryBytes, MaxTail)}
  \cup {h \o t : h \in Damaged, t \in BoundedSeq(BoundaryBytes, 2)}

BareStreams == {<<64>> \o t : t \in BoundedSeq(StructuralKinds, MaxTail + 1)}

MCStreams == BootStreams \cup BareStreams

MCPrefix == CanonicalHeader6
MCCommitments ==
  {NoCommitment, CanonicalHeader6, [CanonicalHeader6 EXCEPT ![6] = 0], <<0, 27>>}
=============================================================================
