------------------------------ MODULE Profiles ------------------------------
(* Profiles on one machine: the profiles/<name> directories of the dotfiles  *)
(* repository, the entries under the config directory that link to them, the *)
(* active-profile symlink, the private area's own active-profile symlink, and *)
(* the commands that move them: profile activate, profile delete, init (and   *)
(* profile new, which is init), dotfiles link and private link.               *)
(*                                                                            *)
(* A command is a sequence of file-system calls and a step of the model is    *)
(* one call, so a command may die, or another one may run, between any two.   *)
EXTENDS FiniteSets, Naturals

CONSTANTS
    Name,        \* profile names
    NoName,      \* "no such link"
    Proc,        \* processes that may run dotty
    HasPrivate,  \* profiles whose answers name a scaffolded private repository
    Kinds,       \* what the config directory may hold under a name at the start
    Serial       \* TRUE: nothing else touches the machine while a command runs

EntryKind == {"none", "link", "dir", "stale"}

ASSUME NoNameAssumption == NoName \notin Name
ASSUME HasPrivateAssumption == HasPrivate \subseteq Name
ASSUME KindsAssumption == Kinds \in [Name -> SUBSET EntryKind]
ASSUME SerialAssumption == Serial \in BOOLEAN

VARIABLES
    repo,     \* names with a profiles/<name> directory in the repository
    clone,    \* names with a directory in a former clone, which stale links reach
    entry,    \* what $XDG_CONFIG_HOME/dotty/<name> is
    active,   \* target of the active-profile symlink
    tmp,      \* target of a left-over .active-profile.tmp symlink
    private,  \* target of the data directory's active-profile symlink
    cmd,      \* what each process is doing
    \* History, read by properties only.
    gone,     \* names whose repository directory a git pull took away
    deleted,  \* how a profile was kept when profile delete removed it, "none" if it was not
    cut       \* an interrupted command, or one that does not touch the private
              \* area, may have left private behind active

files == <<repo, clone, entry, active, tmp, private>>
history == <<gone, deleted, cut>>
vars == <<repo, clone, entry, active, tmp, private, cmd, gone, deleted, cut>>

Op == {"idle", "activate", "delete", "init", "link", "private"}
Pc == {"idle", "render", "readdir", "relink", "check", "clear", "make", "swap", "copies", "materialize",
       "unlink", "symlink", "delete", "backing", "site"}

\* target: the profile to activate; doomed: the profile to delete; held: where
\* Locate found the doomed profile's content; todo: profiles still to relink;
\* at: the one whose old entry was just moved away; again: init's second
\* activation is still to come.
Command == [op: Op, pc: Pc, target: Name \cup {NoName}, doomed: Name \cup {NoName},
            held: EntryKind, todo: SUBSET Name, at: Name \cup {NoName}, again: BOOLEAN]

Idle == [op |-> "idle", pc |-> "idle", target |-> NoName, doomed |-> NoName,
         held |-> "none", todo |-> {}, at |-> NoName, again |-> FALSE]

TypeOK ==
    /\ repo \subseteq Name
    /\ clone \subseteq Name
    /\ entry \in [Name -> EntryKind]
    /\ active \in Name \cup {NoName}
    /\ tmp \in Name \cup {NoName}
    /\ private \in Name \cup {NoName}
    /\ cmd \in [Proc -> Command]
    /\ gone \subseteq Name
    /\ deleted \in [Name -> EntryKind]
    /\ cut \in BOOLEAN

-----------------------------------------------------------------------------
\* What a name under the config directory leads to.

Resolves(n) ==
    \/ entry[n] = "dir"
    \/ entry[n] = "link" /\ n \in repo
    \/ entry[n] = "stale" /\ n \in clone

\* A bug to check the properties against: Exists asks Lstat instead of Stat.
ExistsByLstat(n) == entry[n] # "none"

\* Exists stats through the symlink, so a dangling entry is not a profile.
Exists(n) ==
    \/ entry[n] = "dir"
    \/ entry[n] = "link" /\ n \in repo
    \/ entry[n] = "stale" /\ n \in clone

\* A bug to check the properties against: List counts dangling entries.
ListEntries == {n \in Name : entry[n] # "none"}

List == {n \in Name : Exists(n)}

Quiet == \A p \in Proc : cmd[p] = Idle

Init ==
    /\ repo \in SUBSET Name
    /\ clone \in SUBSET Name
    /\ entry \in {e \in [Name -> EntryKind] : \A n \in Name : e[n] \in Kinds[n]}
    /\ active \in {n \in Name : Resolves(n)} \cup {NoName}
    /\ tmp = NoName
    /\ private = IF active \in HasPrivate THEN active ELSE NoName
    /\ cmd = [p \in Proc |-> Idle]
    /\ gone = {}
    /\ deleted = [n \in Name |-> "none"]
    /\ cut = FALSE

-----------------------------------------------------------------------------
\* Starting a command. Serial keeps commands one at a time.

MayStart(p) == cmd[p] = Idle /\ (Serial => Quiet)

Start(p, op, pc, target, doomed) ==
    cmd' = [cmd EXCEPT ![p] = [Idle EXCEPT !.op = op, !.pc = pc, !.target = target,
                                           !.doomed = doomed, !.again = (op = "init")]]

StartActivate(p, n) ==
    /\ MayStart(p)
    /\ Exists(n)
    /\ Start(p, "activate", "check", n, NoName)
    /\ UNCHANGED <<files, history>>

\* The command checks what profile.Delete checks again later. r is --activate
\* or the name picked; without one the doomed profile may not be active.
StartDelete(p, n, r) ==
    /\ MayStart(p)
    /\ Exists(n)
    /\ Cardinality(List) > 1
    /\ IF r = NoName THEN n # active ELSE r # n /\ Exists(r)
    /\ Start(p, "delete", IF r = NoName THEN "delete" ELSE "check", r, n)
    /\ UNCHANGED <<files, history>>

StartInit(p, n) ==
    /\ MayStart(p)
    /\ Start(p, "init", "render", n, NoName)
    /\ UNCHANGED <<files, history>>

\* dotfiles link works for the active profile, or for the one --profile names.
\* It retargets active-profile and never the private link.
StartLink(p, n) ==
    /\ MayStart(p)
    /\ Exists(n)
    /\ Start(p, "link", "readdir", n, NoName)
    /\ UNCHANGED <<files, history>>

StartPrivateLink(p) ==
    /\ MayStart(p)
    /\ active \in HasPrivate
    /\ Start(p, "private", "materialize", active, NoName)
    /\ UNCHANGED <<files, history>>

Goto(p, pc) == cmd' = [cmd EXCEPT ![p].pc = pc]
Done(p) == cmd' = [cmd EXCEPT ![p] = Idle]

-----------------------------------------------------------------------------
\* init: render profiles/<name> into the repository.

\* A bug to check the properties against: the wrong name is rendered.
RenderDoomed(p) ==
    /\ cmd[p].pc = "render"
    /\ repo' = repo \cup {cmd[p].doomed}
    /\ gone' = gone \ {cmd[p].doomed}
    /\ deleted' = deleted
    /\ Goto(p, "readdir")
    /\ UNCHANGED <<clone, entry, active, tmp, private, cut>>

Render(p) ==
    /\ cmd[p].pc = "render"
    /\ repo' = repo \cup {cmd[p].target}
    /\ gone' = gone \ {cmd[p].target}
    /\ deleted' = [deleted EXCEPT ![cmd[p].target] = "none"]
    /\ Goto(p, "readdir")
    /\ UNCHANGED <<clone, entry, active, tmp, private, cut>>

-----------------------------------------------------------------------------
\* linkProfiles: link every profile the repository carries. The directory is
\* read once; the entries are then taken one by one, each with ApplyFile.

\* A bug to check the properties against: whatever is in the config directory is
\* relinked.
ReadEntries(p) ==
    /\ cmd[p].pc = "readdir"
    /\ cmd' = [cmd EXCEPT ![p].pc = "relink", ![p].todo = List]
    /\ UNCHANGED <<files, history>>

ReadProfiles(p) ==
    /\ cmd[p].pc = "readdir"
    /\ cmd' = [cmd EXCEPT ![p].pc = "relink", ![p].todo = repo]
    /\ UNCHANGED <<files, history>>

Relinking(p, n) == cmd[p].pc = "relink" /\ n \in cmd[p].todo /\ cmd[p].at \in {n, NoName}

\* StateOK, or a conflict that is skipped.
KeepEntry(p, n) ==
    /\ Relinking(p, n)
    /\ entry[n] \in {"link", "dir"}
    /\ cmd' = [cmd EXCEPT ![p].todo = @ \ {n}, ![p].at = NoName]
    /\ UNCHANGED <<files, history>>

\* StateRelink removes the stale link, ResBackup moves the directory into the
\* backup set; the new link is the next step.
ClearEntry(p, n) ==
    /\ Relinking(p, n)
    /\ cmd[p].at = NoName
    /\ entry[n] \in {"stale", "dir"}
    /\ entry' = [entry EXCEPT ![n] = "none"]
    /\ cmd' = [cmd EXCEPT ![p].at = n]
    /\ UNCHANGED <<repo, clone, active, tmp, private, history>>

LinkEntry(p, n) ==
    /\ Relinking(p, n)
    /\ entry[n] = "none"
    /\ entry' = [entry EXCEPT ![n] = "link"]
    /\ cmd' = [cmd EXCEPT ![p].todo = @ \ {n}, ![p].at = NoName]
    /\ UNCHANGED <<repo, clone, active, tmp, private, history>>

Relinked(p) ==
    /\ cmd[p].pc = "relink"
    /\ cmd[p].todo = {}
    /\ Goto(p, "check")
    /\ UNCHANGED <<files, history>>

-----------------------------------------------------------------------------
\* profile.Activate: a temporary symlink renamed over the old one.

CheckTarget(p) ==
    /\ cmd[p].pc = "check"
    /\ Exists(cmd[p].target)
    /\ Goto(p, "clear")
    /\ UNCHANGED <<files, history>>

ClearTemp(p) ==
    /\ cmd[p].pc = "clear"
    /\ tmp' = NoName
    /\ Goto(p, "make")
    /\ UNCHANGED <<repo, clone, entry, active, private, history>>

\* Symlink refuses to overwrite: a temporary link another command made in
\* between fails the activation (Stop).
MakeTemp(p) ==
    /\ cmd[p].pc = "make"
    /\ tmp = NoName
    /\ tmp' = cmd[p].target
    /\ Goto(p, "swap")
    /\ UNCHANGED <<repo, clone, entry, active, private, history>>

\* Rename moves whatever the temporary link is by now. init activates once
\* while linking and once more itself; only the first is followed by copies.
SwapLink(p) ==
    /\ cmd[p].pc = "swap"
    /\ tmp # NoName
    /\ active' = tmp
    /\ tmp' = NoName
    /\ Goto(p, IF cmd[p].op = "init" /\ ~cmd[p].again THEN "materialize" ELSE "copies")
    /\ UNCHANGED <<repo, clone, entry, private, gone, deleted>>
    /\ cut' = (cut \/ cmd[p].op = "link")

\* The regular copies of the profile (grok), brought up to date through mise.
\* They are not modelled; that they may fail is (Stop).
ApplyCopies(p) ==
    /\ cmd[p].pc = "copies"
    /\ cmd' = [cmd EXCEPT ![p] =
                 CASE @.op = "init" -> [@ EXCEPT !.pc = "check", !.again = FALSE]
                   [] @.op = "link" -> Idle
                   [] OTHER         -> [@ EXCEPT !.pc = "materialize"]]
    /\ UNCHANGED <<files, history>>

-----------------------------------------------------------------------------
\* The private identity follows, best effort: whatever fails here is a
\* warning, and the command goes on.

AfterPrivate(p) == IF cmd[p].op = "delete" THEN Goto(p, "delete") ELSE Done(p)

\* No private repository: the private link stays where it was.
NoPrivate(p) ==
    /\ cmd[p].pc = "materialize"
    /\ cmd[p].target \notin HasPrivate \/ ~Exists(cmd[p].target)
    /\ AfterPrivate(p)
    /\ UNCHANGED <<files, history>>

\* Materialize may fail.
MaterializeFails(p) ==
    /\ cmd[p].pc = "materialize"
    /\ cmd[p].target \in HasPrivate
    /\ AfterPrivate(p)
    /\ cut' = TRUE
    /\ UNCHANGED <<files, gone, deleted>>

\* A bug to check the properties against: the old link is left for Symlink to
\* trip over.
RemoveOnlyUnset(p) ==
    /\ cmd[p].pc = "unlink"
    /\ private' = private
    /\ Goto(p, "symlink")
    /\ UNCHANGED <<repo, clone, entry, active, tmp, history>>

Materialized(p) ==
    /\ cmd[p].pc = "materialize"
    /\ cmd[p].target \in HasPrivate
    /\ Exists(cmd[p].target)
    /\ IF private = cmd[p].target
          THEN AfterPrivate(p) /\ cut' = FALSE
          ELSE Goto(p, "unlink") /\ cut' = cut
    /\ UNCHANGED <<files, gone, deleted>>

\* privdot.Activate retargets in two calls, Remove and Symlink.
RemovePrivateLink(p) ==
    /\ cmd[p].pc = "unlink"
    /\ private' = NoName
    /\ Goto(p, "symlink")
    /\ UNCHANGED <<repo, clone, entry, active, tmp, history>>

MakePrivateLink(p) ==
    /\ cmd[p].pc = "symlink"
    /\ AfterPrivate(p)
    /\ private' = IF private = NoName THEN cmd[p].target ELSE private
    /\ cut' = FALSE
    /\ UNCHANGED <<repo, clone, entry, active, tmp, gone, deleted>>

-----------------------------------------------------------------------------
\* profile.Delete: check again, then the content, then the entry.

\* A bug to check the properties against: only the entry is removed.
FirstRemovalSite(kind) == "site"

\* Where Locate says the content of a profile kept as kind is: one step for
\* each thing Delete removes.
FirstRemoval(kind) == IF kind = "dir" THEN "site" ELSE "backing"

CheckDelete(p) ==
    /\ cmd[p].pc = "delete"
    /\ Exists(cmd[p].doomed)
    /\ Cardinality(List) > 1
    /\ active # cmd[p].doomed
    /\ LET kind == entry[cmd[p].doomed] IN
         cmd' = [cmd EXCEPT ![p].pc = FirstRemoval(kind), ![p].held = kind]
    /\ UNCHANGED <<files, history>>

RemoveBacking(p) ==
    /\ cmd[p].pc = "backing"
    /\ IF cmd[p].held = "link"
          THEN repo' = repo \ {cmd[p].doomed} /\ UNCHANGED clone
          ELSE clone' = clone \ {cmd[p].doomed} /\ UNCHANGED repo
    /\ deleted' = [deleted EXCEPT ![cmd[p].doomed] = cmd[p].held]
    /\ Goto(p, "site")
    /\ UNCHANGED <<entry, active, tmp, private, gone, cut>>

RemoveSite(p) ==
    /\ cmd[p].pc = "site"
    /\ entry' = [entry EXCEPT ![cmd[p].doomed] = "none"]
    /\ deleted' = IF FirstRemoval(cmd[p].held) = "site"
                    THEN [deleted EXCEPT ![cmd[p].doomed] = cmd[p].held] ELSE deleted
    /\ Done(p)
    /\ UNCHANGED <<repo, clone, active, tmp, private, gone, cut>>

-----------------------------------------------------------------------------
\* A command that returns an error leaves the files as they are, and so does
\* one that is killed.

Stop(p) ==
    /\ cmd[p] # Idle
    /\ Done(p)
    /\ cut' = TRUE
    /\ UNCHANGED <<files, gone, deleted>>

\* The user pulls the dotfiles repository: profiles come and go.
GitPull(n) ==
    /\ Serial => Quiet
    /\ IF n \in repo
          THEN repo' = repo \ {n} /\ gone' = gone \cup {n} /\ UNCHANGED deleted
          ELSE repo' = repo \cup {n} /\ gone' = gone \ {n}
               /\ deleted' = [deleted EXCEPT ![n] = "none"]
    /\ UNCHANGED <<clone, entry, active, tmp, private, cmd, cut>>

Begin(p) ==
    \/ \E n \in Name : StartActivate(p, n) \/ StartInit(p, n) \/ StartLink(p, n)
    \/ \E n \in Name, r \in Name \cup {NoName} : StartDelete(p, n, r)
    \/ StartPrivateLink(p)

Relink(p) ==
    \/ ReadProfiles(p)
    \/ \E n \in Name : KeepEntry(p, n) \/ ClearEntry(p, n) \/ LinkEntry(p, n)
    \/ Relinked(p)

Activate(p) == CheckTarget(p) \/ ClearTemp(p) \/ MakeTemp(p) \/ SwapLink(p) \/ ApplyCopies(p)

ActivatePrivate(p) ==
    \/ NoPrivate(p) \/ MaterializeFails(p) \/ Materialized(p)
    \/ RemovePrivateLink(p) \/ MakePrivateLink(p)

Delete(p) == CheckDelete(p) \/ RemoveBacking(p) \/ RemoveSite(p)

Next ==
    \/ \E p \in Proc : \/ Begin(p) \/ Render(p) \/ Relink(p) \/ Activate(p)
                       \/ ActivatePrivate(p) \/ Delete(p) \/ Stop(p)
    \/ \E n \in Name : GitPull(n)

Spec == Init /\ [][Next]_vars

-----------------------------------------------------------------------------
\* Properties.

\* The active-profile symlink never dangles through dotty's own doing: what it
\* names is a profile, or one whose relink was cut short and that the next
\* dotfiles link restores, or a git pull took it out of the repository.
ActiveResolves == active # NoName => Resolves(active) \/ active \in repo \cup gone

\* profile delete never leaves the machine without a profile: whenever a
\* removal runs, another profile resolves before and after it.
Deleting == \E p \in Proc : cmd[p].pc \in {"backing", "site"} /\ cmd[p]' # cmd[p]
LastProfileStays == [][Deleting => \E n \in Name : Resolves(n)']_vars

\* A profile deleted through its link into the repository does not come back:
\* its entry leads nowhere and the repository has nothing a later link could
\* restore, also when the command died between its two removals.
DeletedStaysDeleted == \A n \in Name : deleted[n] = "link" => ~Resolves(n) /\ n \notin repo

\* The private link follows active-profile: when nothing runs, no command was
\* cut short and the active profile has a private repository, the private link
\* names the active profile.
PrivateFollows == Quiet /\ ~cut /\ active \in HasPrivate => private = active

-----------------------------------------------------------------------------
\* What the commands implement.

\* A profile is there when its entry leads to it or when the repository carries it:
\* the next dotfiles link links it again.
Available == {n \in Name : Resolves(n) \/ n \in repo}

Store == INSTANCE ProfileStore WITH profiles <- Available, selected <- active, pulled <- gone

\* Every command, cut short anywhere, is to those who look at the profiles one
\* creation, selection or deletion that happens at once, or nothing: relinking never
\* takes a profile away, and a deletion takes neither the last nor the active one.
ImplementsStore == Store!Spec

=============================================================================
