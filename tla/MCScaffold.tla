----------------------------- MODULE MCScaffold -----------------------------
\* Scaffold for TLC.
EXTENDS Scaffold, TLC

\* A document of a release that did not yet ask every question.
StartDoc == [q \in Question \ {"hushLogin"} |-> "yes"]

\* Before profile.json held answers, beside it (with render/), or answers only.
MCStartDirs ==
    { [NewDir EXCEPT !.old = {StartDoc}, !.created = 1, !.layer = "tree", !.inner = {"agents"},
                     !.brew = Package],
      [NewDir EXCEPT !.created = 1] }

Invocation(yes, interactive, flags, reply) ==
    [yes |-> yes, interactive |-> interactive, flags |-> flags, reply |-> reply]

MCRuns ==
    { Invocation(FALSE, TRUE, <<>>, [q \in Question |-> "yes"]),
      Invocation(FALSE, TRUE, <<>>, [q \in Question |-> "no"]),
      Invocation(TRUE, TRUE, <<>>, [q \in Question |-> "no"]),
      Invocation(TRUE, FALSE, [q \in {"agents"} |-> "no"], [q \in Question |-> "yes"]) }
=============================================================================
