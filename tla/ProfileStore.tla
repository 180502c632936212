---------------------------- MODULE ProfileStore ----------------------------
(* What the profile commands promise: a set of profiles, one of them selected, *)
(* each command one atomic change of them or none. Only a git pull, which is   *)
(* not dotty's, takes away a profile that is selected or the last.             *)
EXTENDS FiniteSets

CONSTANTS
    Name,
    NoName

VARIABLES
    profiles,  \* the profiles there are
    selected,  \* the active one
    pulled     \* profiles whose directory a git pull took out of the repository

vars == <<profiles, selected, pulled>>

Init ==
    /\ profiles \in SUBSET Name
    /\ selected \in profiles \cup {NoName}
    /\ pulled = {}

Create(n) ==
    /\ profiles' = profiles \cup {n}
    /\ pulled' = pulled \ {n}
    /\ UNCHANGED selected

Select(n) ==
    /\ n \in profiles
    /\ selected' = n
    /\ UNCHANGED <<profiles, pulled>>

\* "Two invariants guard the delete": not the last profile, not the active one.
Delete(n) ==
    /\ n \in profiles
    /\ n # selected
    /\ profiles' = profiles \ {n}
    /\ profiles' # {}
    /\ UNCHANGED <<selected, pulled>>

\* A profile may have content outside the repository.
PulledAway(n) ==
    /\ profiles' \in {profiles, profiles \ {n}}
    /\ pulled' = pulled \cup {n}
    /\ UNCHANGED selected

Next == \E n \in Name : Create(n) \/ Select(n) \/ Delete(n) \/ PulledAway(n)

Spec == Init /\ [][Next]_vars
=============================================================================
