----------------------------- MODULE MCPolyEngine -----------------------------
(***************************************************************************)
(* Small operands for PolyEngine: lists of up to three terms in two        *)
(* variables, written as make_term and make_poly allow them, with          *)
(* monomials that repeat and exponents at the top of the payload.          *)
(***************************************************************************)
EXTENDS PolyEngine, SequencesExt

CONSTANTS X, Y

MCVars == <<X, Y>>

T(c, x, y) == [coef |-> c, mono |-> (X :> x @@ Y :> y)]

MCTerms == {T(0, 1, 0), T(1, 0, 0), T(2, 1, 0), T(3, 1, 0), T(3, 0, 1), T(2, 3, 1)}
MCPolys == BoundedSeq(MCTerms, 2) \cup
           {<<t, T(1, 0, 2), T(3, 1, 0)>> : t \in MCTerms}

=============================================================================
