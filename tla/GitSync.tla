------------------------------ MODULE GitSync ------------------------------
(***************************************************************************)
(* `dotty git sync` and `dotty git propose` on one stack of branches, with *)
(* the fork's origin, the upstream trunk and the fast-forward merge bot.   *)
(*                                                                         *)
(* A branch is the sequence of commits from the root to its tip, so "is an *)
(* ancestor of" is "is a prefix of".  A commit is a patch (what the user   *)
(* wrote), a sha (how often it was rewritten) and whether it is signed.    *)
(* Layers are numbered bottom to tip, and the stack recorded in the local  *)
(* git config is a set of them.                                            *)
(***************************************************************************)
EXTENDS Naturals, Sequences, FiniteSets, SequencesExt, FiniteSetsExt

CONSTANTS NLayers,     \* layers the stack starts with
          MaxTrunk,    \* bound: commits other people land on trunk
          MaxCommits,  \* bound: commits the user adds to one layer
          MaxRuns      \* bound: dotty commands started

ASSUME SyncConstants == /\ NLayers \in Nat \ {0}
                        /\ {MaxTrunk, MaxCommits, MaxRuns} \subseteq Nat

VARIABLES upstream,   \* upstream/main on the server
          trunkRef,   \* its remote-tracking ref, as of the last fetch
          branch,     \* local tips
          origin,     \* tips on origin; <<>> when the branch is not there
          pr,         \* each layer's pull request on the server
          recorded,   \* layers whose PR number is in the local git config
          stack,      \* layers in the recorded lineage
          head,       \* checked out layer, or Trunk when detached on it
          gitRebase,  \* the git rebase that is stopped half-way
          saved,      \* .git/dotty/stack-rebase.json
          run,        \* the dotty command that is executing
          runs,       \* commands started
          authored,   \* history: patches committed to each layer
          owed,       \* history: layers dotty rewrote and has not pushed since
          home,       \* history: HEAD when the last stack rebase began
          cut         \* history: how commands were cut short: kill, push, abort

vars == <<upstream, trunkRef, branch, origin, pr, recorded, stack, head,
          gitRebase, saved, run, runs, authored, owed, home, cut>>

server  == <<upstream, pr>>
lineage == <<recorded, stack>>
history == <<authored, home>>

Layer == 1..NLayers
Trunk == 0
Patch == (Layer \cup {Trunk}) \X Nat
Commit == [patch : Patch, sha : Nat, signed : BOOLEAN]

----------------------------------------------------------------------------
(* Git histories.                                                          *)

Patches(history_) == {history_[i].patch : i \in DOMAIN history_}
IsAncestor(anc, desc) == IsPrefix(anc, desc)

\* ClassifyTip: one tip against the trunk ref.
Relation(tip, trunk) ==
    CASE tip = trunk             -> "identical"
      [] IsStrictPrefix(tip, trunk) -> "merged"
      [] IsStrictPrefix(trunk, tip) -> "ff"
      [] OTHER                   -> "diverged"

\* LayerCommits: the commits of parent..tip.
OwnCommits(parent, tip) == Range(tip) \ Range(parent)

\* Mutant: git would replay commits trunk already has under another sha.
RebasedByObject(tip, base) ==
    IF IsAncestor(base, tip) THEN tip
    ELSE base \o SelectSeq(tip, LAMBDA c : c \notin Range(base))

\* The commits of tip whose patches are not among those, in order: the n-th is the one
\* at the index with n of the indices to keep up to it.
Replayed(tip, among) ==
    LET keep == {i \in DOMAIN tip : tip[i].patch \notin among}
        Upto(i) == {j \in keep : j <= i}
    IN [n \in 1..Cardinality(keep) |-> tip[CHOOSE i \in keep : Cardinality(Upto(i)) = n]]

\* git rebase: nothing when base is already below tip; otherwise the patches
\* base lacks are replayed on it as new, unsigned objects.
Rebased(tip, base) ==
    LET replay == Replayed(tip, Patches(base))
    IN IF IsAncestor(base, tip) THEN tip
       ELSE base \o [i \in DOMAIN replay |->
                        [replay[i] EXCEPT !.sha = @ + 1, !.signed = FALSE]]

\* Mutant: a plain amend signs the tip only.
ResignedTip(tip, base) ==
    [tip EXCEPT ![Len(tip)] = [@ EXCEPT !.sha = @ + 1, !.signed = TRUE]]

\* git rebase --force-rebase --gpg-sign: every commit of base..tip again.
Resigned(tip, base) ==
    base \o [i \in 1..(Len(tip) - Len(base)) |->
                [tip[Len(base) + i] EXCEPT !.sha = @ + 1, !.signed = TRUE]]

----------------------------------------------------------------------------
(* The state file and the executing command: the open layers, the one the  *)
(* rebase is at, the rewritten ones and the branch it started from.        *)

NoRebase == [on |-> Trunk, result |-> <<>>]
NoState  == [open |-> {}, at |-> Trunk, rewritten |-> {}, orig |-> Trunk]
Idle     == [pc |-> "idle", cmd |-> "none", st |-> NoState, through |-> {},
             opened |-> {}]

\* The layers under and over one in a stack, which is ordered bottom to tip.
Below(layers, l) == {k \in layers : k < l}
Above(layers, l) == {k \in layers : k > l}

\* What a layer sits on: trunk, or the next layer below it.
Under(layers, l) == IF Below(layers, l) = {} THEN trunkRef ELSE branch[Max(Below(layers, l))]
BaseOf(st) == Under(st.open, st.at)

Init ==
    \E pushed \in 0..NLayers :
        LET trunk0 == <<[patch |-> <<Trunk, 0>>, sha |-> 0, signed |-> TRUE]>>
            Tip(l) == trunk0 \o [i \in 1..l |->
                         [patch |-> <<i, 0>>, sha |-> 0, signed |-> TRUE]]
        IN /\ upstream = trunk0
           /\ trunkRef = trunk0
           /\ branch = [l \in Layer |-> Tip(l)]
           /\ origin = [l \in Layer |-> IF l <= pushed THEN Tip(l) ELSE <<>>]
           /\ pr = [l \in Layer |-> IF l <= pushed THEN "open" ELSE "none"]
           /\ recorded = 1..pushed
           /\ stack = Layer
           /\ head \in Layer
           /\ gitRebase = NoRebase
           /\ saved = NoState
           /\ run = Idle
           /\ runs = 0
           /\ authored = [l \in Layer |-> {<<i, 0>> : i \in 1..l}]
           /\ owed = {}
           /\ home = Trunk
           /\ cut = {}

----------------------------------------------------------------------------
(* The world around dotty.                                                 *)

\* Someone else's commit reaches trunk.
TrunkAdvances ==
    LET n == Cardinality({p \in Patches(upstream) : p[1] = Trunk})
    IN /\ n <= MaxTrunk
       /\ upstream' = Append(upstream,
                        [patch |-> <<Trunk, n>>, sha |-> 0, signed |-> TRUE])
       /\ UNCHANGED <<trunkRef, branch, origin, pr, lineage, head, gitRebase,
                      saved, run, runs, history, owed, cut>>

\* The bot fast-forwards trunk to a layer's pull request; GitHub reports every
\* PR whose head trunk now contains as merged.
LandPR(l) ==
    /\ pr[l] = "open"
    /\ IsAncestor(upstream, origin[l]) /\ upstream # origin[l]
    /\ upstream' = origin[l]
    /\ pr' = [k \in Layer |->
                IF pr[k] = "open" /\ IsAncestor(origin[k], origin[l])
                THEN "merged" ELSE pr[k]]
    /\ UNCHANGED <<trunkRef, branch, origin, lineage, head, gitRebase, saved,
                   run, runs, history, owed, cut>>

\* The user commits (signed, as git is configured to) on the checked out layer.
UserCommits ==
    LET n == Cardinality({p \in authored[head] : p[1] = head})
    IN /\ run = Idle /\ gitRebase = NoRebase /\ head \in stack
       /\ n <= MaxCommits
       /\ branch' = [branch EXCEPT ![head] = Append(@,
                        [patch |-> <<head, n>>, sha |-> 0, signed |-> TRUE])]
       /\ authored' = [authored EXCEPT ![head] = @ \cup {<<head, n>>}]
       /\ UNCHANGED <<upstream, trunkRef, origin, pr, lineage, head, gitRebase,
                      saved, run, runs, owed, home, cut>>

\* `dotty git up`, `down` and `switch`.
UserSwitches(l) ==
    /\ run = Idle /\ gitRebase = NoRebase
    /\ l \in stack \ {head}
    /\ head' = l
    /\ UNCHANGED <<server, trunkRef, branch, origin, lineage, gitRebase, saved,
                   run, runs, history, owed, cut>>

----------------------------------------------------------------------------
(* Dropping layers that have landed.                                       *)

Status(layers, trunk) == [l \in layers |-> Relation(branch[l], trunk)]

\* Mutant: the pull request alone decides, whatever the branch holds.
LandedByPR(rel, ghUp) ==
    {l \in DOMAIN rel : \/ rel[l] = "merged"
                        \/ l \in recorded /\ ghUp /\ pr[l] = "merged"}

\* A tip behind trunk has landed; one equal to it only when the recorded PR
\* says so, which an unreachable gh cannot.
LandedLayers(rel, ghUp) ==
    {l \in DOMAIN rel :
        \/ rel[l] = "merged"
        \/ rel[l] = "identical" /\ l \in recorded /\ ghUp /\ pr[l] = "merged"}

\* Mutant: HEAD is left on a branch that was deleted.
HeadStays(landed) == head

\* HEAD after the landed layers were deleted one by one: off a deleted branch
\* to the tip of what is left, or onto the trunk ref.
HeadAfterCleanup(landed) ==
    IF head \notin landed THEN head
    ELSE IF stack \ landed = {} THEN Trunk ELSE Max(stack \ landed)

AnyDiverged(rel) == \E l \in DOMAIN rel : rel[l] = "diverged"

\* Mutant: only trunk is looked at.
NeverStale(layers) == FALSE

\* Some open layer does not contain the open layer below it.
AnyStale(layers) ==
    \E l \in layers : LET below == Below(layers, l)
                      IN below # {} /\ ~IsAncestor(branch[Max(below)], branch[l])

\* The part sync and propose share: fetch (or not, offline), prune, and decide
\* from the surviving layers whether the stack must be rebased.
Begin(cmd, fetched, ghUp, deleted, all) ==
    LET trunk   == IF fetched THEN upstream ELSE trunkRef
        landed  == LandedLayers(Status(stack, trunk), ghUp)
        open    == stack \ landed
        cur     == HeadAfterCleanup(landed)
        scope   == {l \in open : all \/ l <= cur}
        checked == IF cmd = "sync" THEN open ELSE scope
        rel     == Status(checked, trunk)
        st      == [open |-> open, at |-> IF open = {} THEN Trunk ELSE Min(open),
                    rewritten |-> {}, orig |-> cur]
        needs   == AnyDiverged(rel) \/ AnyStale(checked)
    IN /\ run = Idle /\ gitRebase = NoRebase
       /\ head \in stack
       /\ runs < MaxRuns
       /\ trunkRef' = trunk
       /\ stack' = open
       /\ recorded' = recorded \ landed
       /\ origin' = [l \in Layer |-> IF l \in landed /\ deleted THEN <<>>
                                     ELSE origin[l]]
       /\ head' = cur
       /\ owed' = owed \ landed
       /\ runs' = runs + 1
       /\ \/ /\ open = {}
             /\ run' = [Idle EXCEPT !.pc = "done", !.cmd = cmd]
             /\ UNCHANGED <<saved, home>>
          \/ /\ open # {} /\ needs          \* confirmed, or --yes
             /\ run' = [Idle EXCEPT !.pc = "rebase", !.cmd = cmd, !.st = st,
                                    !.through = scope]
             /\ saved' = st
             /\ home' = cur
          \/ /\ open # {} /\ needs          \* declined: the command fails
             /\ run' = Idle
             /\ UNCHANGED <<saved, home>>
          \/ /\ open # {} /\ ~needs
             /\ run' = [Idle EXCEPT !.pc = IF cmd = "sync" THEN "done" ELSE "publish",
                                    !.cmd = cmd, !.through = scope]
             /\ UNCHANGED <<saved, home>>
       /\ UNCHANGED <<server, branch, gitRebase, authored, cut>>

Sync == \E fetched, ghUp, deleted \in BOOLEAN :
            Begin("sync", fetched, ghUp, deleted, TRUE)
Propose == \E fetched, ghUp, deleted, all \in BOOLEAN :
            Begin("propose", fetched, ghUp, deleted, all)

----------------------------------------------------------------------------
(* The stack rebase: rebase one layer, re-sign it, take the next.          *)

\* After layer st.at: the next layer, or the pushes.
Advance(st) ==
    LET above == Above(st.open, st.at)
    IN IF above = {} THEN [run EXCEPT !.pc = "push"]
       ELSE [run EXCEPT !.pc = "rebase", !.st.at = Min(above)]

\* The state file is written before the layer is touched.  A no-op rebase is
\* neither re-signed nor pushed; a real one lists the layer as rewritten.
RebaseLayer ==
    LET st  == run.st
        l   == st.at
        new == Rebased(branch[l], BaseOf(st))
    IN /\ run.pc = "rebase"
       /\ saved' = st
       /\ head' = l
       /\ \/ /\ new = branch[l]
             /\ run' = Advance(st)
             /\ UNCHANGED <<branch, gitRebase, owed>>
          \/ /\ new # branch[l]
             /\ branch' = [branch EXCEPT ![l] = new]
             /\ run' = [run EXCEPT !.pc = "resign",
                                   !.st.rewritten = @ \cup {l}]
             /\ owed' = owed \cup {l}
             /\ UNCHANGED gitRebase
          \/ /\ new # branch[l]             \* conflict: git stops, dotty exits
             /\ gitRebase' = [on |-> l, result |-> new]
             /\ run' = Idle
             /\ UNCHANGED <<branch, owed>>
       /\ UNCHANGED <<server, trunkRef, origin, lineage, runs, history, cut>>

\* resignRange: nothing to do when the layer has no commits over its base.
ResignLayer ==
    LET st  == run.st
        l   == st.at
        new == Resigned(branch[l], BaseOf(st))
    IN /\ run.pc = "resign"
       /\ \/ /\ Len(branch[l]) = Len(BaseOf(st))
             /\ run' = Advance(st)
             /\ UNCHANGED <<branch, gitRebase>>
          \/ /\ Len(branch[l]) > Len(BaseOf(st))
             /\ branch' = [branch EXCEPT ![l] = new]
             /\ run' = Advance(st)
             /\ UNCHANGED gitRebase
          \/ /\ Len(branch[l]) > Len(BaseOf(st))    \* the key refused to sign
             /\ gitRebase' = [on |-> l, result |-> new]
             /\ run' = Idle
             /\ UNCHANGED branch
       /\ UNCHANGED <<server, trunkRef, origin, lineage, head, saved, runs,
                      history, owed, cut>>

\* finishStackRebase, one rewritten layer at a time; a failed push ends it.
PushRewritten ==
    LET l == Min(run.st.rewritten)
    IN /\ run.pc = "push"
       /\ run.st.rewritten # {}
       /\ \/ /\ origin' = [origin EXCEPT ![l] = branch[l]]
             /\ owed' = owed \ {l}
             /\ run' = [run EXCEPT !.st.rewritten = @ \ {l}]
             /\ UNCHANGED cut
          \/ /\ run' = Idle
             /\ cut' = cut \cup {"push"}
             /\ UNCHANGED <<origin, owed>>
       /\ UNCHANGED <<server, trunkRef, branch, lineage, head, gitRebase, saved,
                      runs, history>>

\* Mutant: HEAD stays on the last layer rebased.
FinishRebaseInPlace ==
    /\ run.pc = "push"
    /\ run.st.rewritten = {}
    /\ saved' = NoState
    /\ run' = [run EXCEPT !.pc = IF run.cmd = "sync" THEN "done" ELSE "publish"]
    /\ UNCHANGED <<server, trunkRef, branch, origin, lineage, head, gitRebase,
                   runs, history, owed, cut>>

\* Back to the branch the command started on, and the state file goes.
FinishRebase ==
    /\ run.pc = "push"
    /\ run.st.rewritten = {}
    /\ head' = run.st.orig
    /\ saved' = NoState
    /\ run' = [run EXCEPT !.pc = IF run.cmd = "sync" THEN "done" ELSE "publish"]
    /\ UNCHANGED <<server, trunkRef, branch, origin, lineage, gitRebase,
                   runs, history, owed, cut>>

\* Mutant: the layer git was stopped on is not listed as rewritten.
ResumedAsSaved(st) == st

\* The interrupted rebase rewrote its layer by definition.
Resumed(st) == [st EXCEPT !.rewritten = @ \cup {st.at}]

\* sync --continue: git finishes the stopped rebase, then dotty re-signs the
\* layer it was on and carries on from there.
Continue ==
    /\ run = Idle /\ saved # NoState /\ gitRebase # NoRebase
    /\ runs < MaxRuns
    /\ runs' = runs + 1
    /\ branch' = [branch EXCEPT ![gitRebase.on] = gitRebase.result]
    /\ gitRebase' = NoRebase
    /\ owed' = owed \cup {gitRebase.on}
    /\ head' = saved.at
    /\ run' = [Idle EXCEPT !.pc = "resign", !.cmd = "sync",
                           !.st = Resumed(saved)]
    /\ UNCHANGED <<server, trunkRef, origin, lineage, saved, history, cut>>

\* sync --abort: the stopped layer goes back, HEAD too, the state file goes.
\* When the branch to return to is gone the checkout fails and the file stays.
Abort ==
    /\ run = Idle /\ saved # NoState
    /\ saved.orig \in stack
    /\ head' = saved.orig
    /\ gitRebase' = NoRebase
    /\ saved' = NoState
    /\ cut' = cut \cup {"abort"}
    /\ UNCHANGED <<server, trunkRef, branch, origin, lineage, run, runs,
                   history, owed>>

\* Ctrl-C between two git invocations.
Interrupted ==
    /\ run.pc \notin {"idle", "done"}
    /\ run' = Idle
    /\ cut' = cut \cup {"kill"}
    /\ UNCHANGED <<server, trunkRef, branch, origin, lineage, head, gitRebase,
                   saved, runs, history, owed>>

----------------------------------------------------------------------------
(* propose's own loop: a plain push, then the pull request.                *)

ParentRev(l) == Under(stack, l)

PublishLayer ==
    LET todo   == run.through \ run.opened
        l      == Min(todo)
        pushes == origin[l] = <<>> \/ IsAncestor(origin[l], branch[l])
        empty  == OwnCommits(ParentRev(l), branch[l]) = {}
    IN /\ run.pc = "publish"
       /\ todo # {}
       /\ \/ /\ pushes                      \* push, then gh opens or edits
             /\ ~empty
             /\ origin' = [origin EXCEPT ![l] = branch[l]]
             /\ owed' = owed \ {l}
             /\ pr' = [pr EXCEPT ![l] = IF l \in recorded THEN @ ELSE "open"]
             /\ run' = [run EXCEPT !.opened = @ \cup {l}]
          \/ /\ pushes                      \* pushed, but no PR: gh failed, or
             /\ origin' = [origin EXCEPT ![l] = branch[l]]   \* nothing to show
             /\ owed' = owed \ {l}
             /\ run' = Idle
             /\ UNCHANGED pr
          \/ /\ run' = Idle                 \* rejected, or the network failed
             /\ UNCHANGED <<origin, owed, pr>>
       /\ UNCHANGED <<upstream, trunkRef, branch, lineage, head, gitRebase,
                      saved, runs, history, cut>>

\* SaveStack after the loop: only now does the config know the PR numbers.
SaveProposed ==
    /\ run.pc = "publish"
    /\ run.opened = run.through
    /\ recorded' = recorded \cup run.opened
    /\ run' = [run EXCEPT !.pc = "done"]
    /\ UNCHANGED <<server, trunkRef, branch, origin, stack, head, gitRebase,
                   saved, runs, history, owed, cut>>

Return ==
    /\ run.pc = "done"
    /\ run' = Idle
    /\ UNCHANGED <<server, trunkRef, branch, origin, lineage, head, gitRebase,
                   saved, runs, history, owed, cut>>

Next ==
    \/ TrunkAdvances
    \/ \E l \in Layer : LandPR(l) \/ UserSwitches(l)
    \/ UserCommits
    \/ Sync \/ Propose
    \/ RebaseLayer \/ ResignLayer \/ PushRewritten \/ FinishRebase
    \/ Continue \/ Abort \/ Interrupted
    \/ PublishLayer \/ SaveProposed \/ Return

Spec == Init /\ [][Next]_vars

----------------------------------------------------------------------------
(* Properties.                                                             *)

RunState == [open : SUBSET Layer, at : Layer \cup {Trunk}, rewritten : SUBSET Layer,
             orig : Layer \cup {Trunk}]

\* The shape of every variable; a layer's own history is never empty.
TypeOK ==
    /\ upstream \in Seq(Commit) /\ trunkRef \in Seq(Commit)
    /\ branch \in [Layer -> Seq(Commit) \ {<<>>}]
    /\ origin \in [Layer -> Seq(Commit)]
    /\ pr \in [Layer -> {"none", "open", "merged"}]
    /\ recorded \subseteq stack /\ stack \subseteq Layer
    /\ head \in stack \cup {Trunk}
    /\ gitRebase \in [on : stack \cup {Trunk}, result : Seq(Commit)]
    /\ saved \in RunState
    /\ run \in [pc : {"idle", "rebase", "resign", "push", "publish", "done"},
                cmd : {"none", "sync", "propose"}, st : RunState,
                through : SUBSET Layer, opened : SUBSET Layer]
    /\ authored \in [Layer -> SUBSET Patch]
    /\ owed \subseteq stack
    /\ home \in Layer \cup {Trunk}
    /\ cut \subseteq {"kill", "push", "abort"}

\* Through rebases, conflicts, aborts, failed signatures and interruptions, a
\* layer in the stack keeps every patch ever committed to it, exactly once.
NoPatchLost ==
    \A l \in stack :
        /\ authored[l] \subseteq Patches(branch[l])
        /\ Cardinality(Patches(branch[l])) = Len(branch[l])

\* A sync that ends well leaves a stack that can land by fast-forward: every
\* layer descends from the fetched trunk and from the layers below it.
LinearWhenDone ==
    run.pc = "done" /\ run.cmd = "sync" =>
        \A l \in stack : /\ IsAncestor(trunkRef, branch[l])
                         /\ \A k \in stack : k < l => IsAncestor(branch[k], branch[l])

\* Only work that trunk already has is dropped from the stack (and its
\* branches deleted): prune never removes a patch trunk lacks.
DropsOnlyLanded ==
    [][\A l \in stack \ stack' : authored[l] \subseteq Patches(upstream)]_vars

\* Whenever the state file goes, by finishing or by --abort, HEAD is back on
\* the branch the stack rebase started from.
HeadComesHome == [][saved # NoState /\ saved' = NoState => head' = home]_vars

\* As long as no command was killed, aborted or refused by the network, a
\* command that ends well has pushed every layer dotty rewrote, conflicts and
\* refused signatures in between included.
PublishedUnlessCut == run.pc = "done" /\ cut = {} => owed = {}

\* ... and nothing unsigned has reached origin.
SignedUnlessCut ==
    cut = {} => \A l \in Layer : \A i \in DOMAIN origin[l] : origin[l][i].signed

\* A command that ends well has done all of its job: the stack is linear, pushed
\* and signed, whichever conflict or refusal it went through.
SyncEndsWell == LinearWhenDone /\ PublishedUnlessCut /\ SignedUnlessCut

=============================================================================
