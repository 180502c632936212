SPECIFICATION Spec
CONSTANTS
    Branch = {a, b, c}
    a = a
    b = b
    c = c
    NoBranch = NoBranch
    Trunk = Trunk
    Id = {s, t}
    s = s
    t = t
    NoId = NoId
    Bounds <- Several
INVARIANTS TypeOK WorkKept StackHasBranch
PROPERTY LineageRight
SYMMETRY Symmetry
