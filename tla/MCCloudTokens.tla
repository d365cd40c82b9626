--------------------------- MODULE MCCloudTokens ----------------------------
(* CloudTokens with small sets, for TLC.                                   *)
EXTENDS CloudTokens, TLC

Symmetry ==
    Permutations(Devices) \cup Permutations(Providers) \cup
    Permutations(RefreshTokens) \cup Permutations(BrokerTokens) \cup
    Permutations(Requests)
=============================================================================
