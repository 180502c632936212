SPECIFICATION Spec
CONSTANTS
    Serial = {k1, k2}
    Terminal = {t1, t2}
    MaxRuns = 2
    MaxMoves = 2
SYMMETRY Alike
CHECK_DEADLOCK FALSE
INVARIANTS TypeOK FilesRight StubKept
PROPERTIES SignedRight TrustKept
