------------------------------- MODULE Linker -------------------------------
(* dotfiles link, the linking half of init, and dotfiles restore, over the    *)
(* files of one $HOME: what each site holds, what the repository holds for    *)
(* it, the backup sets, and which targets mise's configuration declares.      *)
(*                                                                            *)
(* A link run plans a batch of sites, prepares them one at a time (asking     *)
(* about the real files in the way), registers the whole batch with mise and  *)
(* has mise apply the targets that were not skipped. It may die, or stop with *)
(* an error, between any two of these steps.                                  *)
(*                                                                            *)
(* What Profiles has under the same name is called differently here, so that  *)
(* a module can extend both.                                                  *)
EXTENDS FiniteSets

CONSTANTS
    Tree,     \* sites of the repository's home/ tree, deployed as links by mise
    Template, \* those of them the template makes: every init renders them again
    Gen,      \* links to the active profile's renders, deployed by mise
    Dir,      \* directory links dotty makes itself: profiles and ~/.config/mise
    Copy,     \* rendered files deployed as regular copies by mise (grok)
    Shadow,   \* legacy files that shadow the rendered configuration
    Codex,    \* the configuration that used to be a link into the profile
    Content,  \* what a file may say
    Fresh,    \* what a render says
    Repositories \* which sites a repository carries: one of these sets, for good

Site == Tree \cup Gen \cup Dir \cup Copy \cup Shadow \cup Codex
Generated == Gen \cup Dir \cup Copy
Links == {"ours", "stale"}

\* A site is of one kind, and there is one codex configuration.
ASSUME SiteKindsAssumption ==
    /\ Tree \cap (Generated \cup Shadow \cup Codex) = {}
    /\ Generated \cap (Shadow \cup Codex) = {}
    /\ Shadow \cap Codex = {}
    /\ Gen \cap (Dir \cup Copy) = {} /\ Dir \cap Copy = {}
    /\ \A s, t \in Codex : s = t
ASSUME TemplateAssumption == Template \subseteq Tree
ASSUME RepositoriesAssumption == Repositories \subseteq SUBSET Site
ASSUME FreshAssumption == Fresh \in Content
ASSUME ContentAssumption == Content \cap {"none", "ours", "stale", "broken"} = {}

VARIABLES
    carried,  \* the sites of this repository
    live,     \* what the site holds: nothing, a link, or a file
    source,   \* what the repository or the profile holds for it
    backup,   \* <<site, content>> pairs in backup sets
    managed,  \* targets the profile's mise configuration declares
    run,      \* the command in progress
    \* History, read by properties only.
    mine,     \* what the user last wrote at the site
    renderedOver \* sites where a render has overwritten that in the repository

linkerVars == <<carried, live, source, backup, managed, run, mine, renderedOver>>

State == {"link", "ok", "relink", "conflict"}
RunPc == {"idle", "codex", "unlink codex", "write codex", "render", "batch", "prepare", "adopt",
          "register", "apply", "restore"}

\* left: sites no batch has taken yet; todo: sites of the batch still to be
\* prepared, and plan what they looked like when it was planned; targets: what
\* mise is to apply; at, held: the site and content of a step cut in two.
NoRun == [pc |-> "idle", init |-> FALSE, left |-> {}, batch |-> {}, todo |-> {},
         plan |-> [s \in Site |-> "ok"], targets |-> {}, skipped |-> {},
         at |-> {}, held |-> "none"]

LinkerTypeOK ==
    /\ carried \in Repositories
    /\ live \in [Site -> {"none"} \cup Links \cup Content]
    /\ source \in [Site -> {"none", "broken"} \cup Content]
    /\ backup \subseteq Site \X Content
    /\ managed \subseteq Tree \cup Gen \cup Copy
    /\ run.pc \in RunPc
    /\ run.left \cup run.batch \cup run.todo \cup run.targets \cup run.skipped \cup run.at \subseteq Site
    /\ run.todo \subseteq run.batch /\ run.targets \subseteq run.batch
    /\ run.plan \in [Site -> State]
    /\ run.held \in {"none"} \cup Content
    /\ mine \in [Site -> {"none"} \cup Content]
    /\ renderedOver \subseteq Template

LinkerInit ==
    /\ carried \in Repositories
    /\ \E held \in [carried -> {"none", "stale", "ours"} \cup Content] :
        /\ \A s \in carried \cap Shadow : held[s] \notin Links
        /\ live = [s \in Site |-> IF s \in carried THEN held[s] ELSE "none"]
    \* The profile behind a codex link may have been switched or pruned before.
    /\ \E pruned \in SUBSET (Codex \cap carried) :
         source = [s \in Site |-> IF s \in carried \ (Shadow \cup pruned) THEN Fresh ELSE "none"]
    /\ backup = {}
    /\ managed \in {{}, carried \cap (Tree \cup Gen \cup Copy)}
    /\ run = NoRun
    /\ mine = [s \in Site |-> IF live[s] \in Content THEN live[s] ELSE "none"]
    /\ renderedOver = {}

Step(r) == run' = r
GoOn(pc) == Step([run EXCEPT !.pc = pc])

-----------------------------------------------------------------------------
\* The user, between commands.

UserWrites(s, c) ==
    /\ run.pc = "idle"
    /\ live' = [live EXCEPT ![s] = c]
    /\ mine' = [mine EXCEPT ![s] = c]
    /\ renderedOver' = renderedOver \ {s}
    /\ UNCHANGED <<source, backup, managed, run>>

\* A program, or codex itself, writes through dotty's link.
UserWritesThrough(s, c) ==
    /\ run.pc = "idle"
    /\ s \in Tree \cup Codex
    /\ live[s] = "ours" /\ source[s] \in Content
    /\ source' = [source EXCEPT ![s] = c]
    /\ mine' = [mine EXCEPT ![s] = c]
    /\ renderedOver' = renderedOver \ {s}
    /\ UNCHANGED <<live, backup, managed, run>>

\* A git pull brings another machine's source and, the mise configuration
\* being part of the repository, another machine's registrations.
PullSite(s, c) ==
    /\ run.pc = "idle"
    /\ s \notin Shadow
    /\ source' = [source EXCEPT ![s] = c]
    /\ managed' = managed \cup ({s} \cap (Tree \cup Gen \cup Copy))
    /\ mine' = [mine EXCEPT ![s] = IF live[s] = @ THEN @ ELSE "none"]
    /\ UNCHANGED <<live, backup, run, renderedOver>>

-----------------------------------------------------------------------------
\* A run starts: MigrateCodexConfig, then (init) the render, then the links.

StartRun(init) ==
    /\ run.pc = "idle"
    /\ Step([NoRun EXCEPT !.pc = "codex", !.init = init, !.left = carried \ Codex])
    /\ UNCHANGED <<live, source, backup, managed, mine, renderedOver>>

AfterCodex == IF run.init THEN "render" ELSE "batch"

\* Nothing at the site, a real file, or somebody else's link: left alone.
CodexLeftAlone ==
    /\ run.pc = "codex"
    /\ \A s \in Codex : live[s] # "ours"
    /\ GoOn(AfterCodex)
    /\ UNCHANGED <<live, source, backup, managed, mine, renderedOver>>

CodexDangling(s) ==
    /\ run.pc = "codex"
    /\ live[s] = "ours" /\ source[s] \notin Content
    /\ live' = [live EXCEPT ![s] = "none"]
    /\ GoOn(AfterCodex)
    /\ UNCHANGED <<source, backup, managed, mine, renderedOver>>

\* A bug to check the properties against: no backup before the link goes.
MoveCodexLink(s) ==
    /\ run.pc = "codex"
    /\ live[s] = "ours" /\ source[s] \in Content
    /\ backup' = backup
    /\ Step([run EXCEPT !.pc = "unlink codex", !.at = {s}, !.held = source[s]])
    /\ UNCHANGED <<live, source, managed, mine, renderedOver>>

\* What the link leads to is copied into a backup set first.
BackUpCodex(s) ==
    /\ run.pc = "codex"
    /\ live[s] = "ours" /\ source[s] \in Content
    /\ backup' = backup \cup {<<s, source[s]>>}
    /\ Step([run EXCEPT !.pc = "unlink codex", !.at = {s}, !.held = source[s]])
    /\ UNCHANGED <<live, source, managed, mine, renderedOver>>

UnlinkCodex(s) ==
    /\ run.pc = "unlink codex" /\ run.at = {s}
    /\ live' = [live EXCEPT ![s] = "none"]
    /\ GoOn("write codex")
    /\ UNCHANGED <<source, backup, managed, mine, renderedOver>>

WriteCodex(s) ==
    /\ run.pc = "write codex" /\ run.at = {s}
    /\ live' = [live EXCEPT ![s] = run.held]
    /\ Step([run EXCEPT !.pc = AfterCodex, !.at = {}, !.held = "none"])
    /\ UNCHANGED <<source, backup, managed, mine, renderedOver>>

\* The render writes what is generated and what the home tree has from the
\* template, whatever is there now, and prunes what it no longer makes. What the
\* user had adopted there, or written through the link, is only in git's history.
RenderProfile ==
    /\ run.pc = "render"
    /\ source' = [s \in Site |-> IF s \in carried \cap (Generated \cup Template) THEN Fresh
                                 ELSE IF s \in Codex THEN "none" ELSE source[s]]
    /\ renderedOver' = renderedOver \cup
         {s \in carried \cap Template : source[s] = mine[s] /\ mine[s] # Fresh}
    /\ GoOn("batch")
    /\ UNCHANGED <<live, backup, managed, mine>>

-----------------------------------------------------------------------------
\* Batches: the whole home tree, the legacy files, then one site at a time.

\* How a site looks to the tree walk, ApplyFile and deployment.file.
Classify(s) ==
    CASE live[s] = "none"  -> "link"
      [] live[s] = "ours"  -> "ok"
      [] live[s] = "stale" -> "relink"
      [] OTHER             -> "conflict"

\* The walk over the sites walked finds these to link.
Plan(sites, walked) ==
    Step([run EXCEPT !.pc = "prepare", !.left = @ \ walked, !.batch = sites, !.todo = sites,
                     !.plan = [s \in Site |-> IF s \in sites THEN Classify(s) ELSE "ok"],
                     !.targets = {}])

\* The walk goes over the entries the home tree has: a site whose source went
\* with an adoption that was cut is in no batch.
PlanTree ==
    /\ run.pc = "batch"
    /\ run.left \cap Tree # {}
    /\ Plan({s \in run.left \cap Tree : source[s] # "none"}, Tree)
    /\ UNCHANGED <<live, source, backup, managed, mine, renderedOver>>

\* A bug to check the properties against: the legacy file goes without a backup.
RetireLegacyBare(s) ==
    /\ run.pc = "batch"
    /\ run.left \cap Tree = {}
    /\ s \in run.left \cap Shadow
    /\ live' = [live EXCEPT ![s] = "none"]
    /\ Step([run EXCEPT !.left = @ \ {s}])
    /\ UNCHANGED <<source, backup, managed, mine, renderedOver>>

\* retireLegacy: always a backup.
RetireLegacy(s) ==
    /\ run.pc = "batch"
    /\ run.left \cap Tree = {}
    /\ s \in run.left \cap Shadow
    /\ live' = [live EXCEPT ![s] = "none"]
    /\ backup' = IF live[s] \in Content THEN backup \cup {<<s, live[s]>>} ELSE backup
    /\ Step([run EXCEPT !.left = @ \ {s}])
    /\ UNCHANGED <<source, managed, mine, renderedOver>>

PlanOne(s) ==
    /\ run.pc = "batch"
    /\ run.left \cap (Tree \cup Shadow) = {}
    /\ s \in run.left
    /\ s \notin Dir => run.left \cap Dir = {}
    /\ Plan({s}, {s})
    /\ UNCHANGED <<live, source, backup, managed, mine, renderedOver>>

Finish ==
    /\ run.pc = "batch"
    /\ run.left = {}
    /\ Step(NoRun)
    /\ UNCHANGED <<live, source, backup, managed, mine, renderedOver>>

-----------------------------------------------------------------------------
\* Preparing a batch.

\* A bug to check the properties against: the symlink of the old layout is not
\* looked for at a copy site.
LookedPlanned(s) ==
    IF s \in Copy /\ live[s] \in Content
    THEN IF live[s] = source[s] THEN "ok" ELSE IF s \in managed THEN "relink" ELSE "conflict"
    ELSE run.plan[s]

\* Copy sites are looked at again: a link has to go, a managed file that
\* differs is brought up to date, an unmanaged one is a conflict.
Looked(s) ==
    IF s \in Copy /\ live[s] \in Links THEN "relink"
    ELSE IF s \in Copy /\ live[s] \in Content
    THEN IF live[s] = source[s] THEN "ok" ELSE IF s \in managed THEN "relink" ELSE "conflict"
    ELSE run.plan[s]

Preparing(s) ==
    /\ run.pc = "prepare"
    /\ s \in run.todo
    /\ s \in Copy /\ live[s] \in Content => source[s] \in Content

Prepared(s) == [run EXCEPT !.pc = "prepare", !.todo = @ \ {s}, !.targets = @ \cup {s}, !.at = {}]

PrepareNothing(s) ==
    /\ Preparing(s)
    /\ \/ Looked(s) \in {"ok", "link"}
       \/ Looked(s) = "relink" /\ live[s] \notin Links
    /\ Step(Prepared(s))
    /\ UNCHANGED <<live, source, backup, managed, mine, renderedOver>>

\* A bug to check the properties against: what was unlinked is not applied.
PrepareUnlinkOnly(s) ==
    /\ Preparing(s)
    /\ Looked(s) = "relink" /\ live[s] \in Links
    /\ live' = [live EXCEPT ![s] = "none"]
    /\ Step([run EXCEPT !.todo = @ \ {s}])
    /\ UNCHANGED <<source, backup, managed, mine, renderedOver>>

PrepareUnlink(s) ==
    /\ Preparing(s)
    /\ Looked(s) = "relink" /\ live[s] \in Links
    /\ live' = [live EXCEPT ![s] = "none"]
    /\ Step(Prepared(s))
    /\ UNCHANGED <<source, backup, managed, mine, renderedOver>>

\* A bug to check the properties against: a skipped site is still a target.
PrepareSkipTargeted(s) ==
    /\ Preparing(s)
    /\ Looked(s) = "conflict"
    /\ Step([Prepared(s) EXCEPT !.skipped = @ \cup {s}])
    /\ UNCHANGED <<live, source, backup, managed, mine, renderedOver>>

\* A real file in the way: what becomes of it is --on-conflict's or the user's
\* choice. (To fail is to Stop.)
PrepareSkip(s) ==
    /\ Preparing(s)
    /\ Looked(s) = "conflict"
    /\ Step([run EXCEPT !.todo = @ \ {s}, !.skipped = @ \cup {s}])
    /\ UNCHANGED <<live, source, backup, managed, mine, renderedOver>>

PrepareBackup(s) ==
    /\ Preparing(s)
    /\ Looked(s) = "conflict"
    /\ live' = [live EXCEPT ![s] = "none"]
    /\ backup' = backup \cup {<<s, live[s]>>}
    /\ Step(Prepared(s))
    /\ UNCHANGED <<source, managed, mine, renderedOver>>

\* A bug to check the properties against: a render may be adopted over.
PrepareAdoptAny(s) ==
    /\ Preparing(s)
    /\ Looked(s) = "conflict"
    /\ source' = [source EXCEPT ![s] = "none"]
    /\ Step([run EXCEPT !.pc = "adopt", !.at = {s}])
    /\ UNCHANGED <<live, backup, managed, mine, renderedOver>>

\* Adoption drops the source, then moves the file there. What is generated is
\* never adopted over: it is backed up instead.
PrepareAdopt(s) ==
    /\ Preparing(s)
    /\ Looked(s) = "conflict"
    /\ s \notin Generated
    /\ source' = [source EXCEPT ![s] = "none"]
    /\ Step([run EXCEPT !.pc = "adopt", !.at = {s}])
    /\ UNCHANGED <<live, backup, managed, mine, renderedOver>>

MoveAdopted(s) ==
    /\ run.pc = "adopt" /\ run.at = {s}
    /\ source' = [source EXCEPT ![s] = live[s]]
    /\ live' = [live EXCEPT ![s] = "none"]
    /\ Step(Prepared(s))
    /\ UNCHANGED <<backup, managed, mine, renderedOver>>

AllPrepared ==
    /\ run.pc = "prepare"
    /\ run.todo = {}
    /\ GoOn("register")
    /\ UNCHANGED <<live, source, backup, managed, mine, renderedOver>>

\* A bug to check the properties against: dotty's own links are registered too.
RegisterAll ==
    /\ run.pc = "register"
    /\ managed' = managed \cup run.batch
    /\ GoOn("apply")
    /\ UNCHANGED <<live, source, backup, mine, renderedOver>>

\* The whole batch is registered, skipped sites included.
Register ==
    /\ run.pc = "register"
    /\ managed' = managed \cup (run.batch \ Dir)
    /\ GoOn("apply")
    /\ UNCHANGED <<live, source, backup, mine, renderedOver>>

\* mise links or copies one target (dotty itself does, for a Dir). With --yes
\* it does not ask, and a copy onto a link is written through it.
ApplyLink(s) ==
    /\ run.pc = "apply"
    /\ s \in run.targets \ Copy
    /\ live' = [live EXCEPT ![s] = "ours"]
    /\ Step([run EXCEPT !.targets = @ \ {s}])
    /\ UNCHANGED <<source, backup, managed, mine, renderedOver>>

ApplyCopy(s) ==
    /\ run.pc = "apply"
    /\ s \in run.targets \cap Copy
    /\ source[s] \in Content
    /\ IF live[s] = "ours"
         THEN source' = [source EXCEPT ![s] = "broken"] /\ UNCHANGED live
         ELSE live' = [live EXCEPT ![s] = source[s]] /\ UNCHANGED source
    /\ Step([run EXCEPT !.targets = @ \ {s}])
    /\ UNCHANGED <<backup, managed, mine, renderedOver>>

Applied ==
    /\ run.pc = "apply"
    /\ run.targets = {}
    /\ GoOn("batch")
    /\ UNCHANGED <<live, source, backup, managed, mine, renderedOver>>

\* An error or the end of the process: nothing is undone.
StopRun ==
    /\ run.pc # "idle"
    /\ Step(NoRun)
    /\ UNCHANGED <<live, source, backup, managed, mine, renderedOver>>

-----------------------------------------------------------------------------
\* dotfiles restore, for one file of a backup set: RemoveAll, then a copy. Both
\* follow a directory link above the file.

Through(s) == s \in Dir /\ live[s] = "ours"

RestoreClear(s, c) ==
    /\ run.pc = "idle"
    /\ <<s, c>> \in backup
    /\ IF Through(s) THEN source' = [source EXCEPT ![s] = "none"] /\ UNCHANGED live
                     ELSE live' = [live EXCEPT ![s] = "none"] /\ UNCHANGED source
    /\ Step([NoRun EXCEPT !.pc = "restore", !.at = {s}, !.held = c])
    /\ mine' = [mine EXCEPT ![s] = c]
    /\ renderedOver' = renderedOver \ {s}
    /\ UNCHANGED <<backup, managed>>

RestoreCopy(s) ==
    /\ run.pc = "restore" /\ run.at = {s}
    /\ IF Through(s) THEN source' = [source EXCEPT ![s] = run.held] /\ UNCHANGED live
                     ELSE live' = [live EXCEPT ![s] = run.held] /\ UNCHANGED source
    /\ Step(NoRun)
    /\ UNCHANGED <<backup, managed, mine, renderedOver>>

-----------------------------------------------------------------------------
User == \E s \in carried, c \in Content : UserWrites(s, c) \/ UserWritesThrough(s, c) \/ PullSite(s, c)

Migrate ==
    \/ CodexLeftAlone
    \/ \E s \in Codex : CodexDangling(s) \/ BackUpCodex(s) \/ UnlinkCodex(s) \/ WriteCodex(s)

Prepare(s) ==
    \/ PrepareNothing(s) \/ PrepareUnlink(s) \/ PrepareSkip(s) \/ PrepareBackup(s)
    \/ PrepareAdopt(s) \/ MoveAdopted(s)

Link ==
    \/ PlanTree \/ AllPrepared \/ Register \/ Applied \/ Finish
    \/ \E s \in Site : \/ RetireLegacy(s) \/ PlanOne(s) \/ Prepare(s)
                       \/ ApplyLink(s) \/ ApplyCopy(s)

Restore == \E s \in Site : RestoreCopy(s) \/ \E c \in Content : RestoreClear(s, c)

LinkerNext ==
    /\ \/ User
       \/ \E init \in BOOLEAN : StartRun(init)
       \/ Migrate \/ RenderProfile \/ Link \/ Restore \/ StopRun
    /\ UNCHANGED carried

LinkerSpec == LinkerInit /\ [][LinkerNext]_linkerVars

-----------------------------------------------------------------------------
\* Properties.

\* What the user wrote at a link site, in a legacy file or through a link is not
\* lost: it is at the site, in the repository or in a backup set, after any run,
\* however it was cut short, and any later render, but for one thing the code
\* does do: a render writes over what he had the repository adopt, or wrote
\* through the link, where the home tree has a file of the template.
ContentKept ==
    \A s \in Site \ (Copy \cup renderedOver) : mine[s] # "none" =>
        \/ live[s] = mine[s]
        \/ source[s] = mine[s]
        \/ <<s, mine[s]>> \in backup

\* A file the user chose to skip is still what the user wrote for as long as
\* the run lasts, whatever mise is asked to apply after the choice.
SkippedUntouched ==
    run.pc # "idle" => \A s \in run.skipped : live[s] \in Content /\ live[s] = mine[s]

\* Both: no run costs the user what he wrote, and what he keeps from dotty stays
\* where it is.
UserContentKept == ContentKept /\ SkippedUntouched

\* A site of the home tree that a walk does not come to, its source being gone:
\* an adoption cut between its two steps leaves one, and only what the template
\* makes is there again when an init links.
Absent == {s \in Tree : source[s] = "none" /\ (run.init => s \notin Template)}

\* A run that gets to its end leaves every site as declared, but the skipped
\* ones and those its walk could not come to: links are links to the repository,
\* copies say what the source says, and no legacy file shadows the configuration.
LinkedWhenDone ==
    [][Finish => \A s \in carried \ (Codex \cup run.skipped \cup Absent) :
         live[s] = IF s \in Shadow THEN "none" ELSE IF s \in Copy THEN source[s] ELSE "ours"]_linkerVars

\* Linking changes a source in the repository only by adoption, and never one
\* that is generated: it neither reverts a render nor writes through a link.
SourcesIntact ==
    [][run.pc \in {"batch", "prepare", "register", "apply"} /\ source' # source =>
         \E s \in Site \ Generated :
            run'.pc = "adopt" /\ run'.at = {s} /\ source' = [source EXCEPT ![s] = "none"]]_linkerVars

=============================================================================
