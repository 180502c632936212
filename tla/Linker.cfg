SPECIFICATION LinkerSpec
CONSTANTS
    zshenv = zshenv
    notes = notes
    ghostty = ghostty
    codex = codex
    misedir = misedir
    grok = grok
    gitconfig = gitconfig
    Tree = {zshenv, notes}
    Template = {zshenv}
    Gen = {ghostty}
    Dir = {misedir}
    Copy = {grok}
    Shadow = {gitconfig}
    Codex = {codex}
    Repositories <- FourRepositories
    Content = {"fresh", "mine"}
    Fresh = "fresh"
INVARIANTS LinkerTypeOK UserContentKept
PROPERTIES LinkedWhenDone SourcesIntact
