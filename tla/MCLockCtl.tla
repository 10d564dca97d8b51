------------------------------ MODULE MCLockCtl ------------------------------
(***************************************************************************)
(* LockCtl for TLC.  Actors and contents are interchangeable model values; *)
(* files are not (the manifest is written in their order).                 *)
(***************************************************************************)
EXTENDS LockCtl, TLC

Symmetry == Permutations(Actors) \cup Permutations(Contents)
==============================================================================
