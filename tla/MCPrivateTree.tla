--------------------------- MODULE MCPrivateTree ---------------------------
\* PrivateTree for TLC.
EXTENDS PrivateTree, TLC

Texts == Permutations(Content)
TextsAndTerminals == Texts \cup Permutations(Proc)

\* Without the history variables, which no action reads.
Disk == <<repo, plain, manifest, run>>
=============================================================================
