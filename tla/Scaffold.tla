------------------------------ MODULE Scaffold ------------------------------
(* dotty init on one machine: the interview, the migration of a repository in *)
(* the legacy layout, the render, the pruning of renders no longer planned,   *)
(* the profile document, the packages, the links and the activation.          *)
(*                                                                            *)
(* init may die between any two of its file-system calls; the user then runs  *)
(* it again for the same profile, as its guide says.                          *)
EXTENDS Interview

CONSTANTS
    Profile,     \* profile names
    NoProfile,
    Package,     \* what mise's config.toml and a Brewfile may list
    StartDirs,   \* directories a profile may have before, in the legacy layout
    StartLive,   \* what ~/.config/mise may be before: "none", "dir"
    Runs,        \* the invocations considered: flags, yes, interactive, reply
    MaxRuns,     \* how often the user starts init afresh
    MaxStops,    \* how often a run dies
    MaxPulls     \* how often a pull brings a profile in the legacy layout

ASSUME NoProfileAssumption == NoProfile \notin Profile
ASSUME RunsAssumption ==
    /\ Runs \subseteq [yes: BOOLEAN, interactive: BOOLEAN, flags: Document, reply: [Question -> Reply]]
    /\ \A r \in Runs : \A q \in DOMAIN r.flags : r.flags[q] \in FlagValues(q)
ASSUME BoundsAssumption == MaxRuns \in Nat /\ MaxStops \in Nat /\ MaxPulls \in Nat

VARIABLES
    legacy,     \* what stow/.config/dotty holds: a directory for some names
    legacyDir,  \* whether stow/.config/dotty exists
    stray,      \* whether something that is not a directory lies in it
    stow, home, \* the repository's shared tree, old and new
    current,    \* what profiles/ holds
    linked,     \* where ~/.config/dotty/<name> leads: nowhere, the old place, the new
    live,       \* ~/.config/mise: nothing, the user's directory, dotty's link
    site,       \* the per-profile home renders with a link in $HOME
    active,     \* the active profile
    run,        \* the init that runs
    pending,    \* the profile whose init has not been completed
    runs, stops, pulls,
    \* History, read by properties only.
    truth,      \* the document each profile was last given
    owned,      \* the packages the user declared for each profile
    cut         \* profiles at which, or for which, a run stopped half-way

tree == <<legacy, legacyDir, stray, stow, home>>
machine == <<linked, live, site, active>>
count == <<runs, stops, pulls>>
history == <<truth, owned, cut>>
vars == <<legacy, legacyDir, stray, stow, home, current, linked, live, site, active, run, pending,
          runs, stops, pulls, truth, owned, cut>>

-----------------------------------------------------------------------------
\* One profile's directory. meta and old are profile.json's answers and
\* dotty.json, sets of at most one document; created is profile.json's creation
\* time (0: none, 1: the original, 2: stamped by an init). layer says how much of
\* render/ is left: the tree and the loose files, the loose ones, an empty
\* directory, nothing. inner are the renders inside render/stow, files those in
\* place. config is mise/config.toml: {} or {its packages}.

Layer == {"tree", "loose", "empty", "none"}
Dir == [meta: SUBSET Document, old: SUBSET Document, created: 0 .. 2, layer: Layer,
        inner: SUBSET Question, files: SUBSET Question,
        config: SUBSET SUBSET Package, lock: BOOLEAN, brew: SUBSET Package]

NewDir == [meta |-> {}, old |-> {}, created |-> 0, layer |-> "none", inner |-> {}, files |-> {},
           config |-> {}, lock |-> FALSE, brew |-> {}]

ASSUME StartAssumption ==
    /\ StartLive \subseteq {"none", "dir"}
    /\ StartDirs \subseteq Dir
    /\ \A d \in StartDirs : d.meta = {} \/ d.old = {}   \* no release wrote answers to both
    /\ \A d \in StartDirs : \A one, other \in d.meta \cup d.old : one = other   \* a file holds one

\* The components with a file of their own in the profile, and those of them
\* with a site in $HOME rather than a mise fragment.
Rendered == {"agents", "hushLogin", "addons", "macosDefaults", "securityKeys"}
HomeRender == {"agents", "hushLogin"}

Selected(a) == {q \in Question : a[q] = "yes"}
Plan(a) == Selected(a) \cap Rendered

\* A bug to check the properties against: the merged-away file still wins.
AnswersOldFirst(d) == IF d.old # {} THEN d.old ELSE d.meta

\* LoadAnswersWithKeys: profile.json, or the legacy dotty.json while it has
\* no answers.
AnswersOf(d) == IF d.meta # {} THEN d.meta ELSE d.old

\* LoadRepoAnswers: the current layout first, the legacy one after it.
AnswersIn(new, old, p) ==
    IF p \in DOMAIN new /\ AnswersOf(new[p]) # {} THEN AnswersOf(new[p])
    ELSE IF p \in DOMAIN old THEN AnswersOf(old[p]) ELSE {}

RepoAnswers(p) == AnswersIn(current, legacy, p)

\* What is found through the link of a profile. A migration leaves one into the
\* old place dangling until the profiles are linked again.
LinkedAnswers(p) ==
    CASE linked[p] = "legacy" /\ p \in DOMAIN legacy   -> AnswersOf(legacy[p])
      [] linked[p] = "current" /\ p \in DOMAIN current -> AnswersOf(current[p])
      [] OTHER                                         -> {}

\* A bug to check the properties against: the link is looked at even inside.
PreviousLinkOnly(p, inside) == LinkedAnswers(p)

\* previousAnswers: the repository init runs in (or is pointed at with --repo)
\* comes first; elsewhere there is the link only.
PreviousAnswers(p, inside) ==
    IF inside /\ RepoAnswers(p) # {} THEN RepoAnswers(p) ELSE LinkedAnswers(p)

\* The link leads to the only directory the repository has for the profile.
Leads(p) == IF p \in DOMAIN legacy THEN linked[p] = "legacy" /\ p \notin DOMAIN current
            ELSE p \in DOMAIN current /\ linked[p] = "current"

Pc == {"idle", "layout", "lift", "dissolve", "merge", "forget", "tree", "meta", "seed", "lock",
       "render", "prune", "save", "compose", "link", "heal", "activate"}

\* who: the profile; at: the one being migrated; stamp: its creation time;
\* pruned: the renders removed. from, dangled: the active profile and the dangling
\* links at the start; quiet: the document a --yes run without flags is to reuse.
Idle == [pc |-> "idle", who |-> NoProfile, at |-> NoProfile, answers |-> Load(<<>>),
         stamp |-> 0, pruned |-> {}, from |-> NoProfile, dangled |-> {}, quiet |-> {}]

TypeOK ==
    /\ DOMAIN legacy \subseteq Profile /\ \A p \in DOMAIN legacy : legacy[p] \in Dir
    /\ DOMAIN current \subseteq Profile /\ \A p \in DOMAIN current : current[p] \in Dir
    /\ {legacyDir, stray, stow, home} \subseteq BOOLEAN
    /\ live \in [kind: {"none", "dir", "link"}, pkgs: SUBSET Package, lock: BOOLEAN]
    /\ linked \in [Profile -> {"none", "legacy", "current"}]
    /\ site \subseteq HomeRender
    /\ {active, pending, run.who, run.at} \subseteq Profile \cup {NoProfile}
    /\ run.pc \in Pc /\ run.answers \in Answers
    /\ truth \in [Profile -> SUBSET Document] /\ owned \in [Profile -> SUBSET Package]
    /\ cut \subseteq Profile

\* A clone, or a machine on which the init of an older release went no further
\* than linking its profiles.
Init ==
    /\ legacy \in UNION {[S -> StartDirs] : S \in SUBSET Profile}
    /\ legacyDir = (DOMAIN legacy # {})
    /\ stray \in BOOLEAN /\ (stray => legacyDir)
    /\ stow = legacyDir
    /\ home = FALSE
    /\ current = <<>>
    /\ linked \in {[p \in Profile |-> "none"],
                  [p \in Profile |-> IF p \in DOMAIN legacy THEN "legacy" ELSE "none"]}
    /\ live \in [kind: StartLive, pkgs: {Package}, lock: {TRUE}]
    /\ site = {}
    /\ active = NoProfile
    /\ run = Idle
    /\ pending = NoProfile
    /\ runs = 0 /\ stops = 0 /\ pulls = 0
    /\ truth = [p \in Profile |-> IF p \in DOMAIN legacy THEN AnswersOf(legacy[p]) ELSE {}]
    /\ owned = [p \in Profile |-> {}]
    /\ cut = {}

-----------------------------------------------------------------------------
\* Starting: the interview, which writes nothing.

Dangling == IF active \in DOMAIN current THEN site \ current[active].files ELSE {}

\* --yes without flags reuses what the repository holds when init runs in it or
\* the link of the profile leads there.
Begin(p, r, inside) ==
    LET doc == PreviousAnswers(p, inside)
        prev == IF doc = {} THEN <<>> ELSE CHOOSE d \in doc : TRUE
        reuses == r.yes /\ DOMAIN r.flags = {} /\ (inside \/ Leads(p))
    IN  /\ run' = [Idle EXCEPT !.pc = "layout", !.who = p, !.answers = Collect(prev, r),
                               !.from = active, !.dangled = Dangling,
                               !.quiet = IF reuses THEN RepoAnswers(p) ELSE {}]
        /\ pending' = p
        /\ UNCHANGED <<tree, current, machine, stops, pulls, truth, owned, cut>>

Start(p, r, inside) ==
    /\ run = Idle /\ pending = NoProfile
    /\ runs < MaxRuns
    /\ runs' = runs + 1
    /\ Begin(p, r, inside)

Rerun(r, inside) ==
    /\ run = Idle /\ pending # NoProfile
    /\ runs' = runs
    /\ Begin(pending, r, inside)

Goto(pc) == run' = [run EXCEPT !.pc = pc]

\* Writes to one profile's directory.
Set(p, d) == current' = [current EXCEPT ![p] = d]
Has(p) == p \in DOMAIN current

-----------------------------------------------------------------------------
\* MigrateLayout.

FindLayout ==
    /\ run.pc = "layout"
    /\ Goto(IF legacyDir THEN "lift" ELSE "tree")
    /\ UNCHANGED <<tree, current, machine, pending, count, history>>

Without(f, p) == [q \in DOMAIN f \ {p} |-> f[q]]

Lift(p) ==
    /\ run.pc = "lift"
    /\ p \in DOMAIN legacy \ DOMAIN current
    /\ legacy' = Without(legacy, p)
    /\ current' = [q \in DOMAIN current \cup {p} |-> IF q = p THEN legacy[p] ELSE current[q]]
    /\ run' = [run EXCEPT !.pc = "dissolve", !.at = p]
    /\ UNCHANGED <<legacyDir, stray, stow, home, machine, pending, count, history>>

\* A bug to check the properties against: a profile without render/stow keeps
\* its render directory.
DissolveTreeOnly ==
    /\ run.pc = "dissolve"
    /\ LET d == current[run.at] IN
         IF d.layer = "tree"
           THEN /\ Set(run.at, [d EXCEPT !.layer = "loose", !.files = d.inner, !.inner = {}])
                /\ run' = run
           ELSE Goto("merge") /\ UNCHANGED current
    /\ UNCHANGED <<tree, machine, pending, count, history>>

\* migrateProfile: the tree, the loose files, the empty directory.
Dissolve ==
    /\ run.pc = "dissolve"
    /\ LET d == current[run.at] IN
         CASE d.layer = "tree"  -> /\ Set(run.at, [d EXCEPT !.layer = "loose", !.files = d.inner, !.inner = {}])
                                   /\ run' = run
           [] d.layer = "loose" -> Set(run.at, [d EXCEPT !.layer = "empty"]) /\ run' = run
           [] d.layer = "empty" -> Set(run.at, [d EXCEPT !.layer = "none"]) /\ run' = run
           [] OTHER             -> Goto("merge") /\ UNCHANGED current
    /\ UNCHANGED <<tree, machine, pending, count, history>>

\* A bug to check the properties against: dotty.json is removed first.
MergeForgets ==
    /\ run.pc = "merge"
    /\ Set(run.at, [current[run.at] EXCEPT !.old = {}])
    /\ Goto("forget")
    /\ UNCHANGED <<tree, machine, pending, count, history>>

\* mergeProfileDocuments: the answers of dotty.json over profile.json.
MergeDocuments ==
    /\ run.pc = "merge"
    /\ LET d == current[run.at]
           over(new, old) == [q \in DOMAIN new \cup DOMAIN old |-> IF q \in DOMAIN new THEN new[q] ELSE old[q]]
       IN  Set(run.at, [d EXCEPT !.meta = IF d.meta = {} THEN d.old
                                          ELSE IF d.old = {} THEN d.meta
                                          ELSE {over(new, old) : new \in d.old, old \in d.meta}])
    /\ Goto("forget")
    /\ UNCHANGED <<tree, machine, pending, count, history>>

ForgetOld ==
    /\ run.pc = "forget"
    /\ Set(run.at, [current[run.at] EXCEPT !.old = {}])
    /\ run' = [run EXCEPT !.pc = "lift", !.at = NoProfile]
    /\ UNCHANGED <<tree, machine, pending, count, history>>

RemoveLegacy ==
    /\ run.pc = "lift"
    /\ DOMAIN legacy = {} /\ ~stray
    /\ legacyDir' = FALSE
    /\ Goto("tree")
    /\ UNCHANGED <<legacy, stray, stow, home, current, machine, pending, count, history>>

RenameTree ==
    /\ run.pc = "tree"
    /\ stow => ~home
    /\ home' = (home \/ stow)
    /\ stow' = FALSE
    /\ Goto("meta")
    /\ UNCHANGED <<legacy, legacyDir, stray, current, machine, pending, count, history>>

\* "both exist; remove one", or a directory that is not empty.
Refused ==
    \/ run.pc = "lift" /\ DOMAIN legacy \cap DOMAIN current # {}
    \/ run.pc = "lift" /\ DOMAIN legacy = {} /\ stray
    \/ run.pc = "tree" /\ stow /\ home

Refuse ==
    /\ Refused
    /\ run' = Idle
    /\ UNCHANGED <<tree, current, machine, pending, count, history>>

-----------------------------------------------------------------------------
\* RenderRepository after the migration.

\* A bug to check the properties against: every run stamps the profile anew.
StampAlways ==
    /\ run.pc = "meta"
    /\ run' = [run EXCEPT !.pc = "seed", !.stamp = 2]
    /\ current' = [q \in DOMAIN current \cup {run.who} |-> IF Has(q) THEN current[q] ELSE NewDir]
    /\ UNCHANGED <<tree, machine, pending, count, history>>

\* withMetadata and EnsureDir.
Metadata ==
    /\ run.pc = "meta"
    /\ run' = [run EXCEPT !.pc = "seed",
                          !.stamp = IF Has(run.who) /\ current[run.who].created # 0
                                      THEN current[run.who].created ELSE 2]
    /\ current' = [q \in DOMAIN current \cup {run.who} |-> IF Has(q) THEN current[q] ELSE NewDir]
    /\ UNCHANGED <<tree, machine, pending, count, history>>

\* seedMiseConfig: two files, the configuration and its lock.
Seed ==
    /\ run.pc = "seed"
    /\ IF current[run.who].config = {} /\ live.kind = "dir"
         THEN /\ Set(run.who, [current[run.who] EXCEPT !.config = {live.pkgs}])
              /\ owned' = [owned EXCEPT ![run.who] = @ \cup live.pkgs]
              /\ Goto("lock")
         ELSE Goto("render") /\ UNCHANGED <<current, owned>>
    /\ UNCHANGED <<tree, machine, pending, count, truth, cut>>

SeedLock ==
    /\ run.pc = "lock"
    /\ Set(run.who, [current[run.who] EXCEPT !.lock = live.lock])
    /\ Goto("render")
    /\ UNCHANGED <<tree, machine, pending, count, history>>

\* A bug to check the properties against: config.toml is rendered like any file.
RenderResets ==
    /\ run.pc = "render"
    /\ Set(run.who, [current[run.who] EXCEPT !.files = @ \cup Plan(run.answers), !.config = {{}}])
    /\ home' = TRUE
    /\ Goto("prune")
    /\ UNCHANGED <<legacy, legacyDir, stray, stow, machine, pending, count, history>>

\* Render writes the planned files; config.toml only when there is none.
Render ==
    /\ run.pc = "render"
    /\ Set(run.who, [current[run.who] EXCEPT !.files = @ \cup Plan(run.answers),
                                             !.config = IF @ = {} THEN {{}} ELSE @])
    /\ home' = TRUE
    /\ Goto("prune")
    /\ UNCHANGED <<legacy, legacyDir, stray, stow, machine, pending, count, history>>

\* A bug to check the properties against: what cannot be removed is tried again.
PruneAgain ==
    /\ run.pc = "prune"
    /\ LET orphans == current[run.who].files \ Plan(run.answers) IN
         IF orphans = {} THEN Goto("save") ELSE run' = [run EXCEPT !.pruned = orphans]
    /\ UNCHANGED <<current, tree, machine, pending, count, history>>

\* PrunePerProfile, one orphan at a time.
Prune ==
    /\ run.pc = "prune"
    /\ LET orphans == current[run.who].files \ Plan(run.answers) IN
         IF orphans = {}
           THEN Goto("save") /\ UNCHANGED current
           ELSE \E c \in orphans :
                  /\ Set(run.who, [current[run.who] EXCEPT !.files = @ \ {c}])
                  /\ run' = [run EXCEPT !.pruned = @ \cup {c}]
    /\ UNCHANGED <<tree, machine, pending, count, history>>

SaveAnswers ==
    /\ run.pc = "save"
    /\ Set(run.who, [current[run.who] EXCEPT !.meta = {Save(run.answers)}, !.created = run.stamp])
    /\ truth' = [truth EXCEPT ![run.who] = {Save(run.answers)}]
    /\ Goto("compose")
    /\ UNCHANGED <<tree, machine, pending, count, owned, cut>>

\* composeProfilePackages: the Brewfile's entries, and when asked what brew has
\* installed, if mise can tell. Both are added to config.toml.
Compose ==
    /\ run.pc = "compose"
    /\ \E new \in IF "importPackages" \in Question /\ run.answers["importPackages"] = "yes"
                    THEN SUBSET Package ELSE {{}} :
         LET d == current[run.who] IN
         /\ Set(run.who, [d EXCEPT !.config = {c \cup d.brew \cup new : c \in @}])
         /\ owned' = [owned EXCEPT ![run.who] = @ \cup d.brew]
    /\ Goto("link")
    /\ UNCHANGED <<tree, machine, pending, count, truth, cut>>

-----------------------------------------------------------------------------
\* The rest of runInit. Conflicts on the way to a site are the linker's subject;
\* the directory of the user's mise configuration may be skipped.

LinkProfiles(S) == linked' = [p \in Profile |-> IF p \in S /\ Has(p) THEN "current" ELSE linked[p]]

LinkHome ==
    /\ run.pc = "link"
    /\ LinkProfiles(Profile)
    /\ site' = site \cup (current[run.who].files \cap HomeRender)
    /\ live' \in {[live EXCEPT !.kind = "link"]} \cup (IF live.kind = "dir" THEN {live} ELSE {})
    /\ active' = run.who
    /\ Goto("heal")
    /\ UNCHANGED <<tree, current, pending, count, history>>

\* A bug to check the properties against: only what this run did not plan before
\* is looked at.
HealNothing ==
    /\ run.pc = "heal"
    /\ site' = site
    /\ Goto("activate")
    /\ UNCHANGED <<tree, current, linked, live, active, pending, count, history>>

\* PruneSites: the links that led to what was pruned.
PruneSites ==
    /\ run.pc = "heal"
    /\ site' = site \ (run.pruned \cap Dangling)
    /\ Goto("activate")
    /\ UNCHANGED <<tree, current, linked, live, active, pending, count, history>>

Activate ==
    /\ run.pc = "activate"
    /\ active' = run.who
    /\ pending' = NoProfile
    /\ run' = Idle
    /\ UNCHANGED <<tree, current, linked, live, site, count, history>>

-----------------------------------------------------------------------------

\* init is killed, or fails for a reason of its own. A render that fails has
\* written some of its files, linking that fails linked some of the profiles.
Stop ==
    /\ run # Idle
    /\ stops < MaxStops
    /\ stops' = stops + 1
    /\ IF run.pc = "render"
         THEN \E S \in SUBSET Plan(run.answers) :
                Set(run.who, [current[run.who] EXCEPT !.files = @ \cup S])
         ELSE UNCHANGED current
    /\ IF run.pc = "link" THEN \E S \in SUBSET Profile : LinkProfiles(S) ELSE UNCHANGED linked
    /\ cut' = cut \cup ({run.who, run.at} \ {NoProfile})
    /\ run' = Idle
    /\ UNCHANGED <<tree, live, site, active, pending, runs, pulls, truth, owned>>

\* mise use, or an editor, on a profile's config.toml.
UserAdds(p, k) ==
    /\ run = Idle
    /\ Has(p) /\ current[p].config # {}
    /\ Set(p, [current[p] EXCEPT !.config = {c \cup {k} : c \in @}])
    /\ owned' = [owned EXCEPT ![p] = @ \cup {k}]
    /\ UNCHANGED <<tree, machine, run, pending, count, truth, cut>>

\* A machine with an older dotty pushed a profile in the legacy layout.
PullLegacy(p, d) ==
    /\ run = Idle
    /\ pulls < MaxPulls
    /\ p \notin DOMAIN legacy
    /\ legacy' = [q \in DOMAIN legacy \cup {p} |-> IF q = p THEN d ELSE legacy[q]]
    /\ legacyDir' = TRUE /\ stow' = TRUE
    /\ pulls' = pulls + 1
    /\ truth' = [truth EXCEPT ![p] = AnswersIn(current, legacy', p)]
    /\ UNCHANGED <<stray, home, current, machine, run, pending, runs, stops, owned, cut>>

\* The user removes what the error message names: the legacy one of the two.
RemoveClash ==
    /\ run = Idle
    /\ \/ /\ DOMAIN legacy \cap DOMAIN current # {}
          /\ legacy' = [q \in DOMAIN legacy \ DOMAIN current |-> legacy[q]]
          /\ UNCHANGED <<stray, stow>>
       \/ stray /\ DOMAIN legacy = {} /\ stray' = FALSE /\ UNCHANGED <<legacy, stow>>
       \/ stow /\ home /\ ~legacyDir /\ stow' = FALSE /\ UNCHANGED <<legacy, stray>>
    /\ truth' = [p \in Profile |-> AnswersIn(current, legacy', p)]
    /\ UNCHANGED <<legacyDir, home, current, machine, run, pending, count, owned, cut>>

Migrate ==
    \/ FindLayout \/ (\E p \in Profile : Lift(p)) \/ Dissolve \/ MergeDocuments \/ ForgetOld
    \/ RemoveLegacy \/ RenameTree \/ Refuse

RenderRepository == Metadata \/ Seed \/ SeedLock \/ Render \/ Prune \/ SaveAnswers \/ Compose

Step == Migrate \/ RenderRepository \/ LinkHome \/ PruneSites \/ Activate

Next ==
    \/ \E p \in Profile, r \in Runs, inside \in BOOLEAN : Start(p, r, inside)
    \/ \E r \in Runs, inside \in BOOLEAN : Rerun(r, inside)
    \/ Step
    \/ Stop
    \/ \E p \in Profile, k \in Package : UserAdds(p, k)
    \/ \E p \in Profile, d \in StartDirs : PullLegacy(p, d)
    \/ RemoveClash

\* A running init goes on; the user repeats one that failed, and in the end removes
\* what it complains about, however often it was repeated before that.

Fairness == WF_vars(Step) /\ SF_vars(RemoveClash)
            /\ WF_vars(\E r \in Runs, inside \in BOOLEAN : Rerun(r, inside))

Spec == Init /\ [][Next]_vars /\ Fairness

-----------------------------------------------------------------------------
\* Properties.

\* A profile's answers are those it was last given, wherever a migration, a
\* save or a death in between has left its documents: LoadRepoAnswers finds them.
AnswersKept == \A p \in Profile : RepoAnswers(p) = truth[p]

\* A --yes re-run without flags changes no answer the repository's document
\* carried when it started, migrated meanwhile or not, if it ran in the
\* repository or the profile's link led there.
AnswersStick ==
    \A doc \in run.quiet : run.pc = "save" /\ truth' # truth =>
        \A q \in DOMAIN doc : \A new \in truth[run.who]' : q \in DOMAIN new /\ new[q] = doc[q]

\* A profile keeps the time it was created through migrations and re-renders.
CreatedOnce ==
    \A p \in DOMAIN current \cup DOMAIN legacy :
        LET was == IF Has(p) THEN current[p].created ELSE legacy[p].created
        IN  was # 0 => IF p \in DOMAIN current' THEN current'[p].created = was
                       ELSE legacy'[p].created = was

\* Both: repeating init takes nothing back that an earlier one settled.
RerunKeeps == [][AnswersStick /\ CreatedOnce]_vars

\* What the user declared for a profile stays in its mise configuration.
Config(p) == IF Has(p) THEN current[p].config ELSE {}
PackagesKept == \A p \in Profile : \A k \in owned[p] : \E c \in Config(p) : k \in c

\* Both, at every moment: what makes a profile the user's is there to be found.
ProfileKept == AnswersKept /\ PackagesKept

\* An init that completes leaves the current layout: nothing in the legacy
\* places, and every profile dissolved except one a run was cut at.
Completes == run.pc = "activate" /\ pending' = NoProfile
LayoutWhenDone ==
    Completes => /\ ~legacyDir /\ ~stow /\ DOMAIN legacy = {}
                 /\ \A p \in DOMAIN current \ cut : current[p].layer = "none" /\ current[p].old = {}

\* Completed for the profile that was active, an init adds no dangling link.
HealedWhenDone == Completes /\ run.from = run.who => Dangling' \subseteq run.dangled

\* Both: an init that completes leaves the repository and the links in order.
InOrderWhenDone == [][LayoutWhenDone /\ HealedWhenDone]_vars

\* An init that is repeated until it completes does complete, whatever the
\* earlier runs left.
InitCompletes == pending # NoProfile ~> pending = NoProfile

=============================================================================
