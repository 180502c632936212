----------------------------- MODULE MCProfiles -----------------------------
\* Profiles for TLC.
EXTENDS Profiles, TLC

CONSTANT Odd   \* names whose entry starts as anything; the others start as links

StartKinds == [n \in Name |-> IF n \in Odd THEN EntryKind ELSE {"link"}]

Symmetry ==
    Permutations(HasPrivate \ Odd) \cup Permutations((Name \ HasPrivate) \ Odd)
        \cup Permutations(Proc)
=============================================================================
