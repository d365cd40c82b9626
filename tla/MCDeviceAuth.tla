---------------------------- MODULE MCDeviceAuth ----------------------------
(* DeviceAuth with small sets, for TLC.                                    *)
EXTENDS DeviceAuth, TLC

Symmetry ==
    Permutations(Requests) \cup Permutations(Keys) \cup
    Permutations(Nonces) \cup Permutations(JWTs) \cup Permutations(Devices)
=============================================================================
