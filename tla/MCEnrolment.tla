----------------------------- MODULE MCEnrolment -----------------------------
EXTENDS Enrolment, TLC

Symmetry == Permutations(Key) \cup Permutations(Terminal)
=============================================================================
