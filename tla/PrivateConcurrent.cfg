SPECIFICATION Spec
CONSTANTS
    File = {gitconfig}
    Sealed = {gitconfig}
    gitconfig = gitconfig
    Content = {a, b}
    a = a
    b = b
    Nonce = {1, 2, 3}
    Proc = {p, q}
    p = p
    q = q
    Busy = TRUE
    Siblings = FALSE
SYMMETRY TextsAndTerminals
VIEW Disk
INVARIANT OkMeansSame
