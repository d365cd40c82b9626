------------------------------- MODULE MCStartup -------------------------------
(* A mandatory and an optional provider, and an operator who may set two URLs: *)
(* the callback of the other provider, and one with a spelling of its own.     *)
EXTENDS Startup

CONSTANTS google, dropbox, DROPBOX, b1, b2

MCNormalize == [n \in Names |-> IF n = DROPBOX THEN dropbox ELSE n]

MCChosen == {[base |-> b1, name |-> google], [base |-> b2, name |-> DROPBOX]}
=============================================================================
