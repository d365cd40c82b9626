------------------------------- MODULE MCBroker -------------------------------
(* Broker with its sets as symmetric model values, for TLC.                *)
EXTENDS Broker, TLC

Symmetry == Permutations(Devices) \cup Permutations(JWTs)
=============================================================================
