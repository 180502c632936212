------------------------------ MODULE MCLinker ------------------------------
\* Linker for TLC: a home tree of two files, the template's and the user's own; each
\* of them with the codex link, one of them with a link into the profile as well; and
\* what dotty makes or copies itself, with a legacy file.
EXTENDS Linker, TLC

CONSTANTS zshenv, notes, ghostty, codex, misedir, grok, gitconfig

FourRepositories ==
    {{zshenv, notes}, {zshenv, codex}, {notes, ghostty, codex}, {misedir, grok, gitconfig}}
=============================================================================
