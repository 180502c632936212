---------------------------- MODULE MCSigningKeys ----------------------------
EXTENDS SigningKeys, TLC

\* Keys and terminals are alike.
Alike == Permutations(Serial) \cup Permutations(Terminal)
=============================================================================
