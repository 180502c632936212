SPECIFICATION Spec
CONSTANTS
    Branch = {a, b}
    a = a
    b = b
    NoBranch = NoBranch
    Trunk = Trunk
    Id = {s, t}
    s = s
    t = t
    NoId = NoId
    Bounds <- OneCommit
PROPERTY LandedIsOnTrunk
