--------------------------- MODULE MCOAuthSession ---------------------------
(* OAuthSession with its sets as symmetric model values, for TLC.          *)
EXTENDS OAuthSession, TLC

Symmetry ==
    Permutations(Sessions) \cup Permutations(Requests) \cup
    Permutations(Tokens) \cup Permutations(Devices) \cup
    Permutations(Providers)
=============================================================================
