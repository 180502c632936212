---------------------------- MODULE SecurityKeys ----------------------------
(* The YubiKeys: which are plugged in and at which HID path, how a replug tells *)
(* one apart, and the allowlist the active profile holds them to.               *)
EXTENDS Naturals, FiniteSets

CONSTANTS
    Serial   \* the keys that exist, by serial

ASSUME SerialAssumption == IsFiniteSet(Serial)

VARIABLES
    plugged, \* the keys plugged in
    path,    \* the registry entry each key has, or had: a replug may change it
    allowed  \* the serials in the profile's answers; none allows every key

keyVars == <<plugged, path, allowed>>

HIDPath == Serial \X {0, 1}
Paths == {<<s, path[s]>> : s \in plugged}

KeysTypeOK ==
    /\ plugged \subseteq Serial
    /\ path \in [Serial -> {0, 1}]
    /\ allowed \subseteq Serial

\* A bug to check the properties against: an empty result is no restriction.
EveryKey(serials) == serials
FilterAllowed(serials) == IF allowed = {} THEN serials ELSE serials \cap allowed

RequireAllowed(s) == s \in FilterAllowed({s})

-----------------------------------------------------------------------------
\* A tracker holds the previous snapshot and the serial seen to vanish, if any.
Tracker == [serials : SUBSET Serial, paths : SUBSET HIDPath, gone : SUBSET Serial]
NewReplugTracker == [serials |-> plugged, paths |-> Paths, gone |-> {}]

\* What a tracker may become on a snapshot: one of the vanished, whichever the map
\* yields first.
Observed(tr, serials, paths) ==
    {[serials |-> serials, paths |-> paths, gone |-> gone] : gone \in
        IF tr.gone # {} THEN {tr.gone}
        ELSE IF tr.serials \ serials = {} THEN {{}}
        ELSE {{s} : s \in tr.serials \ serials}}
Identifies(tr, serials) == tr.gone # {} /\ tr.gone \subseteq serials

\* A bug to check the properties against: any path of the snapshot will do.
AnyPath(tr, paths) == {{p} : p \in paths}
\* The path that appeared with the serial; none when the entry was reused.
DevicePath(tr, paths) ==
    IF paths \subseteq tr.paths THEN {{}} ELSE {{p} : p \in paths \ tr.paths}
=============================================================================
