SPECIFICATION Spec
CONSTANTS
    Name = {work, home, lab}
    NoName = NoName
    Proc = {p}
    HasPrivate = {work, home}
    Odd = {work}
    Kinds <- StartKinds
    Serial = TRUE
INVARIANTS TypeOK ActiveResolves PrivateFollows DeletedStaysDeleted
PROPERTIES LastProfileStays ImplementsStore
SYMMETRY Symmetry
