------------------------------- MODULE MCServer -------------------------------
(* Server with sessions of one account, for TLC.                           *)
EXTENDS Server, TLC

CONSTANT a1

OneAccount == [s \in Sessions |-> a1]

Symmetry == Permutations(Handlers) \cup Permutations(Sessions)
=============================================================================
