SPECIFICATION Spec
CONSTANTS
    Question = {"agents", "harden", "hushLogin", "importPackages", "macosDefaults"}
    Darwin = TRUE
    Profile = {work, home}
    NoProfile = NoProfile
    Package = {jq}
    StartDirs <- MCStartDirs
    StartLive = {"dir"}
    Runs <- MCRuns
    MaxRuns = 2
    MaxStops = 1
    MaxPulls = 1
INVARIANTS TypeOK ProfileKept
PROPERTIES RerunKeeps InOrderWhenDone InitCompletes
