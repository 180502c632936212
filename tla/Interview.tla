----------------------------- MODULE Interview -----------------------------
(* The questions of dotty init: what a profile document answers, what the    *)
(* flags say, what is asked, and what comes out. Nothing is written here: the *)
(* interview is a function of the stored document, the flags and the replies. *)
(*                                                                            *)
(* An answer is "yes" or "no": for a question with a list, some picks or none *)
(* at all. "nil" is a list nobody was ever asked for; it exists in memory     *)
(* only, because a nil list is not written.                                   *)
EXTENDS Naturals, FiniteSets

CONSTANTS
    Question,  \* the questions modelled, out of AllQuestion
    Darwin     \* whether the machine runs macOS

ListQuestion == {"addons", "agents", "macosDefaults", "dockApps"}
FlagQuestion == {"importPackages", "securityKeys", "harden", "marketplace", "hushLogin", "piv",
                 "privateRepo"}

ASSUME QuestionAssumption == Question \subseteq ListQuestion \cup FlagQuestion
ASSUME DarwinAssumption == Darwin \in BOOLEAN

Reply == {"no", "yes"}
Answers == {a \in [Question -> Reply \cup {"nil"}] : \A q \in Question \ ListQuestion : a[q] # "nil"}

\* A stored document: its domain is the set of questions it answers.
Document == UNION {[S -> Reply] : S \in SUBSET Question}

\* What readAnswers makes of a question the document does not answer.
Zero(q) == CASE q \in ListQuestion -> "nil"
             [] q = "hushLogin"    -> "yes"
             [] OTHER              -> "no"

Load(doc) == [q \in Question |-> IF q \in DOMAIN doc THEN doc[q] ELSE Zero(q)]

\* A bug to check the properties against: a nil list is written as null.
SaveNil(a) == [q \in Question |-> a[q]]

\* Every flag question is written, a list only when it is not nil.
Save(a) == [q \in {r \in Question : a[r] # "nil"} |-> a[q]]

-----------------------------------------------------------------------------

\* A yes-or-no flag can only say yes, --hush-login apart; a list may be empty.
FlagValues(q) == IF q \in ListQuestion \cup {"hushLogin"} THEN Reply ELSE {"yes"}

Passed(flags, a) == [q \in Question |-> IF q \in DOMAIN flags THEN flags[q] ELSE a[q]]

\* The marketplace and hardening are for agents, the dock's applications for the dock.
DependsOn(q) == CASE q \in {"marketplace", "harden"} -> {"agents"}
                  [] q = "dockApps"                  -> {"macosDefaults"}
                  [] OTHER                           -> {}

OnDarwin == {"macosDefaults", "dockApps", "piv"}

\* A bug to check the properties against: --yes asks everything anew.
AskedAlways(q, a, known, r) ==
    /\ r.interactive
    /\ q \notin DOMAIN r.flags
    /\ q \in OnDarwin => Darwin
    /\ \A d \in DependsOn(q) \cap Question : a[d] = "yes"

\* Whether q is put to the user: a is what the questions before it came to,
\* known the questions the stored document answers.
Asked(q, a, known, r) ==
    /\ r.interactive
    /\ q \notin DOMAIN r.flags
    /\ ~ (r.yes /\ q \in known)
    /\ q \in OnDarwin => Darwin
    /\ \A d \in DependsOn(q) \cap Question : a[d] = "yes"

\* Lists of components are never nil once the interview is over.
Settle(q, v) == IF q \in {"addons", "agents"} /\ v = "nil" THEN "no" ELSE v

Answered(qs, a, known, r) ==
    [q \in Question |-> IF q \notin qs THEN a[q]
                        ELSE IF Asked(q, a, known, r) THEN r.reply[q] ELSE Settle(q, a[q])]

\* The interview of a run r (flags, yes, interactive, the replies it would get)
\* over the document the profile has: the questions that stand alone, then
\* those that depend on them.
Collect(doc, r) ==
    LET alone == {q \in Question : DependsOn(q) = {}}
        first == Answered(alone, Passed(r.flags, Load(doc)), DOMAIN doc, r)
    IN  Answered(Question \ alone, first, DOMAIN doc, r)
=============================================================================
