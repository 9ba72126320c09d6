------------------------ MODULE MCContextRestoreFold ------------------------
(* Model checking of ContextRestoreFold: the turn ids are interchangeable. *)
EXTENDS ContextRestoreFold, TLC

Symmetry == Permutations(Turns)
=============================================================================
