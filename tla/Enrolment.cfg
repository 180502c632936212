SPECIFICATION Spec
CONSTANTS
    Key = {k1, k2}
    PluginSlots = 2
    File = {ssh, env}
    Sensitive = {ssh}
    Allowed = {}
    Terminal = {t1, t2}
    MaxRuns = 4
SYMMETRY Symmetry
CHECK_DEADLOCK FALSE
INVARIANTS TypeOK CiphertextOpens ReportsTrue CommitsGuarded
