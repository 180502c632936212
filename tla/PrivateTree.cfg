SPECIFICATION Spec
CONSTANTS
    File = {gitconfig, agents}
    Sealed = {gitconfig}
    gitconfig = gitconfig
    agents = agents
    Content = {a, b}
    a = a
    b = b
    Nonce = {1, 2, 3, 4}
    Proc = {p}
    p = p
    Busy = FALSE
    Siblings = FALSE
SYMMETRY Texts
INVARIANT TypeOK
INVARIANT LocalEditKept
PROPERTY SettledWhenDone
