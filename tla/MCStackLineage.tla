--------------------------- MODULE MCStackLineage ---------------------------
\* StackLineage for TLC.
EXTENDS StackLineage, TLC

\* Three commands among two plain git actions, or two among three, on short branches;
\* or two commands on a branch long enough to be expanded in every way.
ManyCommands == [patch |-> 2, runs |-> 3, plain |-> 2]
ManyActions  == [patch |-> 2, runs |-> 2, plain |-> 3]
ManyCommits  == [patch |-> 4, runs |-> 2, plain |-> 1]
Several == {ManyCommands, ManyActions, ManyCommits}
OneCommit == {[patch |-> 1, runs |-> 3, plain |-> 3]}

Symmetry == Permutations(Branch) \cup Permutations(Id)
=============================================================================
