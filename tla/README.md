# dotty in TLA+

dotty is a Go command-line program for one developer's machines: it keeps a
dotfiles repository with *profiles*, links it into `$HOME` with the help of mise,
keeps a private repository of age-encrypted files, manages stacks of git
branches, carries credentials into an encrypted store, and looks after the signing
keys on YubiKeys. Nothing of it runs as a service. Every command is a process of its own
that reads what earlier commands left (files, symlinks, git refs, git config,
GitHub), asks, and writes several of them one after the other. There are no locks
and no transactions.

The bugs this kind of program has are therefore bugs of *sequence*: a command dies
between two of its writes and the next one finds a state nobody wrote a test for;
the user, a `git pull`, the merge bot or a second terminal acts between a check and
the write that relies on it; a record (the manifest, the resume state, the lineage
in git config, mise's configuration) and what it records drift apart. That is what
the modules model, one write at a time.

## 1. Inventory

| component | state it keeps | operations | interacts with | what is hard | what makes it correct | modules |
|---|---|---|---|---|---|---|
| stack sync and propose (`cmd/git_sync.go`, `cmd/git_propose.go`, `internal/git/sync.go`, `resign.go`) | branch tips, origin, PRs, `.git/dotty/stack-rebase.json` | sync, `--continue`, `--abort`, propose | lineage, git, GitHub, hardware key, merge bot | conflicts stop a chain of rebases; a key refuses; a push fails; trunk moves | no patch lost; linear and published when done; only landed layers dropped; HEAD comes home; nothing unsigned pushed | `GitSync` |
| stack lineage (`internal/git/lineage.go`, `discover.go`, `expand.go`, `merge.go`, `done.go`, `cleanup.go`) | `dotty.branch.<b>.stack`, `dotty.stack.<id>.layers` in `.git/config`, refs | start, append, discover, adopt, expand, merge, prune, done | git, plain git commands of the user | two records of one fact; several refs written one by one; best-effort undo | no commit lost; keys and lists agree; a stack is a chain; nothing is forgotten silently | `StackLineage` |
| profiles (`internal/profile`, `cmd/profile_*.go`) | `profiles/<name>`, entries and `active-profile` under `$XDG_CONFIG_HOME/dotty` | new/init, activate, delete, link | linker, private tree | check then act; two removals; links into former clones | the active profile resolves; the last one stays; deleted stays deleted; private follows; together they are an atomic store of profiles | `Profiles`, `ProfileStore` |
| linker (`internal/linker`, `internal/mise/dotfiles.go`) | sites in `$HOME`, repository sources, backup sets, mise's declared targets | link, init's linking, restore, migrations | profiles, mise | conflicts adopted, backed up, skipped; mise applies later; links seen through links | the user's content is kept; skipped is untouched; done means linked; sources change by adoption only | `Linker` |
| private tree (`internal/privdot/apply.go`, `store.go`, `rekey.go`, `status.go`, `cmd/private_*.go`) | entries, decrypted copies, manifest | link, encrypt, edit, rekey, status | git, user, hardware key | three stores written apart; long waits for a PIN or an editor | ok means same; edits are kept; link settles; rekey keeps states | `PrivateTree` |
| private enrolment and verification (`internal/privdot/enroll.go`, `recipients.go`, `verify.go`, `scaffold.go`, `cmd/private_init.go`, `private_enroll.go`) | slots on a key, stubs, recipients file, the repository's hook | init, enroll, encrypt, rekey, verify | private tree, age plugin, git | a slot is used before it is recorded; stub named by serial; recipients written whole | a ciphertext keeps a key that opens it; reports are true; no plaintext is committed | `Enrolment` |
| scaffold (`internal/scaffold`, `cmd/init.go`) | legacy and current layout, profile documents, renders, `config.toml` | init: migrate, render, prune, save, compose, link, activate | profiles, linker, wizard | migration dies half-way; two documents; renders pruned before links are healed | answers, creation time and packages survive; the layout and links are in order at the end; a repeated init ends | `Scaffold` |
| packages and mise configuration (`internal/mise`, `cmd/packages_*.go`) | `config.toml`, lock file | add, import, remove, sync | linker, scaffold | read-modify-write of one file by several commands | nothing the user wrote is dropped | seeding and composing in `Scaffold`, dotfile entries in `Linker` |
| credentials (`internal/env`, `internal/envmigrate`, `internal/fnox`, `cmd/env_migrate.go`) | keychain namespaces, fnox configuration, software identity, secrets | bootstrap, migrate, purge | keychain, fnox, private enrolment | partial migration, then purge; configuration before identity | no credential is purged that fnox cannot give back; the last line of a template wins | `Credentials` |
| security keys (`internal/securitykey`, `cmd/securitykey_allow.go`) | plugged keys, HID paths, allowlist, alias store | select by replug, allow, disallow, add, remove | signing keys, enrolment | two listings of moving hardware; whole-file read-modify-write | the key found is the key replugged; restricted profiles use listed hardware only | `SecurityKeys` |
| signing keys (`internal/signingkey`, `cmd/signingkey_*.go`) | stubs and public keys, identity links, allowed_signers | new, import, link, trust, get, sign | git, ssh, hardware | pairs of files and links replaced one by one; touches go to any key | files that go together stay together; git's signatures are by the key it asked for | `SigningKeys` |
| worktrees, tmux (`internal/worktree`, `internal/tmux`) | git worktrees, tmux sessions | start, end, new | git | forced removal after a warning | | not modelled |
| wizard (`internal/wizard`) | none of its own | the questions of init | scaffold | what is asked depends on stored answers, flags and other answers | a re-run asks or keeps, never forgets | `Interview` |
| prompts, fonts, macOS, plumbing (`tui`, `fonts`, `macos`, `cli`, `version`) | none of their own | ask, draw, copy, run | all | | | not modelled |

`PROJECT.json` lists every component with its files, and under `hazards` what in
this code is hard to test, line by line, with the properties that watch it.

## 2. The modules and the code

Each component has one module, an `MC` module that extends it for TLC, and where
something is proved a `Proofs` module. All of them follow the same scheme: a
process's local variables are one record (`run` or `cmd`) with a program counter;
a step is one write (or one wait for the user) of the code; reads that the code
makes before it waits or writes are kept in the record, so they can be stale;
`Stop`/`Interrupted` ends a command anywhere; history variables are written by
actions and read by properties only. A definition under the comment "A bug to check
the properties against" is the one that follows it with a plausible bug; nothing else
refers to it.

### GitSync: `git sync` and `git propose`

One stack of numbered layers. A commit is a patch, how often it was rewritten and
whether it is signed; a branch is a sequence of commits, so "is an ancestor of" is
"is a prefix of". `branch`, `origin`, `upstream`, `trunkRef` are refs; `pr` and
`recorded` the pull requests and the numbers in git config; `saved` is
`stack-rebase.json`, with the layer its index points at; `gitRebase` a rebase stopped on
a conflict. `Sync` and
`Propose` are the `RunE` functions up to the first rebase (with the pruning of
landed layers), `RebaseLayer`, `ResignLayer`, `PushRewritten` and `FinishRebase`
the loop of `rebaseResignStack` and `finishStackRebase`, `Continue` and `Abort` the
flags, `PublishLayer` and `SaveProposed` propose's loop. `TrunkAdvances`, `LandPR`,
`UserCommits`, `UserSwitches` are the world.

### StackLineage: which branches make up which stack

Every command that writes the lineage, and everything plain git does to its
branches. A command reads the lineage and works out, as the code does in memory,
what it will run git for; `run.todo` is that queue, and each element (make a
branch, rebase, delete a ref, set or unset a config key) is one step, after any of
which the command may die (`Stop`), fail and be undone (`ExpandFails`) or, where the
code ignores the error, go on (`Skip`, `SaveFails`). Commits are sets of patches (a
squash holds several). `SaveStack` and `RemoveLayer` are the two writers of the
lineage; `Discovered` is `DiscoverStack` with its closest parents and its
unambiguous way up; `Replay` is `ExecuteExpand`; `Merge`, `MergeVerified`,
`Absorbed` are `runGitMerge` and `MergeParents`; `Prune` is the pruning of sync
and propose; `StartDone` and `DoneRemotes` are `git done`. Conflicts inside these
rebases and signatures are GitSync's subject and left out here.

### Profiles: the active profile and its private half

`repo` and `clone` are the profile directories in the repository and in a former
clone, `entry` what the config directory holds under each name (nothing, a link, a
real directory, a link into the former clone), `active` and `tmp` the symlink and
its half-made replacement, `private` the private area's link. Each command
is its sequence of file-system calls: `Render` and `Relink` for `dotfiles link` and
init, `Activate` for `profile.Activate` (clear, make, swap), `ActivatePrivate` for
`privdot.Activate` (unlink, symlink), `Delete` for `profile.Delete` (check, then
the backing directory, then the entry). With `Serial` one command runs at a time.
`ProfileStore` is what they promise together: a set of profiles and a selected one,
changed by an atomic creation, selection or deletion. `Available` (a profile is there
when its entry leads to it or the repository carries it) maps the one to the other.

### Linker: `dotfiles link`, init's linking, `dotfiles restore`

Each site is of one kind (a link of the home tree, a link to a render, a
directory link, a copy, a legacy file, the codex configuration), holds nothing, one
of our links, a stale link or a file, and has a source in the repository. The constant
`Repositories` says which sites a repository has, and `Template` which of its home tree the
template makes: every init renders those again, over whatever is there
(`RenderProfile`). A run plans a batch, prepares its sites one by one with any of the
resolutions (adopt, back up, skip, fail), registers them with mise and has mise apply
those that were not skipped. The walk over the home tree finds the sources that exist
(`PlanTree`). The codex migration and restore are their own steps. `renderedOver` is
history: where a render wrote over what the user had put into the repository.

### PrivateTree: encrypted entries, copies and the manifest

`repo` holds entries (a path, encrypted or not) with a revision (content and nonce: two
encryptions never agree), `plain` the decrypted copies, `manifest` the hashes of both as
last recorded. Link is `Materialize` entry by entry (read, wait for the key, land, prune,
save), encrypt and edit end in `Store` (ciphertext, copy, record, save), rekey is `Rekey`.
What encrypt stores is the live file: the copy where the path is linked to it, any file of
the user's where it is not. With `Busy` the user, git and another terminal act in between;
without it they act between commands, an edit in an open editor aside.

### Interview and Scaffold: `dotty init`

`Interview` is a function: `Collect` makes the answers of a run from the stored document,
the flags and the replies, as `wizard.Collect` does; a list nobody was asked for is `nil` in
memory and absent on disk (`Load`, `Save`). `Scaffold` is what init then does, one
file-system call at a time: `FindLayout`, `Lift`, `Dissolve`, `MergeDocuments`, `ForgetOld`,
`RemoveLegacy`, `RenameTree` are `MigrateLayout`; `Metadata`, `Seed`, `SeedLock`, `Render`,
`Prune`, `SaveAnswers`, `Compose` are `RenderRepository`; `LinkHome`, `PruneSites`,
`Activate` the rest of `runInit`. `legacy` and `current` are the two layouts, `linked` says
where the entry of each profile in the config directory leads, `site` the links in `$HOME`
to renders of the active profile. An init runs inside the repository (or is pointed at it)
or elsewhere, and the answers it starts from are `PreviousAnswers`: the repository's, or
what the link of the profile leads to. Where it runs, the repository is the same: at its
default place, or named at the question. A pull can bring a profile in the legacy layout,
the user edits `config.toml`, repeats an init that failed and removes what its error names.

### Enrolment: keys, stubs, recipients

`token` is what the slots of the hardware keys hold, `stub` the slot the identity file
of each serial names, `recipients` the recipients file, `cipher` the recipients of each
entry's ciphertext, `has` the pieces of the repository that private init completes, of
which a pre-commit hook may be the repository's own.
`StartEnroll` to `Tell` are `privdot.Enroll` and its command (generate, stub, read,
append, tell), with what other terminals do in between; `RekeyFile` is one entry of
`Rekey`. `CipherUnlisted`, `ListedUnstubbed`, `StubbedUnlisted` are the findings of
`VerifyRepo`. PrivateTree has what the ciphertexts say, this module who can read them.

### Credentials: `env migrate` and the bootstrap of fnox

A secret is a value encrypted to recipients, a default in plain text (what a literal line
becomes), or both; what can be read is a question of which identity is parked in the
keychain. A run takes all namespaces, those of `--namespace`, or none. `Providers`,
`WriteConfig`, `SetKeychainItem`, `RemoveScratch` are `fnox.Bootstrap`; `ReadNamespace` to
`Purge` are `Migrator.Namespaces`; `SkipLine`, `MigrateLine`, `LineFails` the lines of a
template (`Migrator.file`). Any call can fail, and the run can be killed between two.
`halfway`, `own` and `patchy` are history.

### SecurityKeys and SigningKeys

`SecurityKeys` has the keys that are plugged in, the registry path each shows, the
replug tracker (`Observed`, `Identifies`, `DevicePath` are `ReplugTracker.Observe`) and
the allowlist. `SigningKeys` extends it with the credential each key holds, the two
files of every stub (`stub`, `pub`), `allowed_signers` (`trusted`), the identity link
and its `.pub` (`link`). A command is a record per terminal; a touch goes to whichever
key the user touches unless a path was found; keys move between any two steps. `GetKey`
and `Sign` are the two commands git runs for one signature, with anything in between.
`Sign` and `SignFile` read the allowlist and choose a stub (`RewriteSignArgs`),
`SignWith` passes the one `-f` names through, `OpenStub` is ssh-keygen opening the file,
and `Signs` the touch it waited for: four points in time, with the other terminal, the
user and the hardware in between.

## 3. What is checked

All runs are breadth-first searches of a finite instance. "Cut" means interrupted by
`Stop`, or failed. Several properties are conjunctions of named parts that belong
together; each part has its own comment in the module, and at least one seeded bug that
breaks it.

| run | module, cfg | question | result |
|---|---|---|---|
| `stack_sync` | `GitSync.cfg` | one stack, two commands, moving trunk, conflicts, refused keys, failed pushes, `--continue`/`--abort` | no patch is lost or doubled; a sync that ends well leaves a linear stack, published and signed unless cut (`SyncEndsWell`); only landed layers are dropped; HEAD comes home |
| `stack_lineage` | `StackLineage.cfg` | three commands among two plain git actions, two among three, or two on four commits | no commit is lost whatever is cut; uncut, every branch is in the stack it names; a list written is a chain, and a command that ends well forgets only landed or absorbed branches (`LineageRight`) |
| `profiles` | `Profiles.cfg` | three profiles, one of any kind, all commands | the active profile resolves; a deletion leaves one; deleted (through its link) stays deleted; private follows; the commands implement `ProfileStore` |
| `links` | `Linker.cfg` | conflicts on links, directory link, copy, legacy file, codex | what the user wrote is kept, unless an init renders over a template file of the home tree, and what he skipped is untouched (`UserContentKept`); done means linked, for every site the walk comes to; sources change by adoption only |
| `private_tree` | `PrivateTree.cfg` | link, encrypt, edit, rekey with cuts | edits kept; a finished link or rekey leaves records that agree with the files (`SettledWhenDone`) |
| `private_concurrent` | `PrivateConcurrent.cfg` | two terminals, user and git at any time | `ok` is never said of a copy that differs |
| `init_migrates` | `Scaffold.cfg` | init, cut and repeated, over legacy repositories and pulls | answers and packages are found at every moment (`ProfileKept`); a re-run that finds the answers takes none back, nor the creation time (`RerunKeeps`); the layout and the links are in order at the end (`InOrderWhenDone`); a repeated init completes |
| `enrolment` | `Enrolment.cfg` | two keys with two slots, two terminals, four commands | a ciphertext keeps a key that opens it; enroll, rekey and verify report what is so (`ReportsTrue`); an initialised machine commits no plaintext, unless the repository had a hook of its own |
| `credentials` | `Credentials.cfg` | three runs with any flags and namespaces, two failures or kills | no credential is lost by a purge; secrets open, the last line wins, the user's own stay (`SecretsRight`) |
| `keys` | `SigningKeys.cfg` | two keys, two terminals, replugs while a signature waits | files that go together stay together (`FilesRight`); a credential keeps its stub; a signature is by what git asked for, and dotty's own choice of a stub on hardware that was allowed (`SignedRight`); signers stay trusted |

### Where the repository says otherwise

Two runs end in a counterexample. Each states a sentence of a comment, a guide or a
help text (quoted in `PROJECT.json` under `findings`) that the code does not keep.

| run | property | what happens |
|---|---|---|
| `landed_on_trunk` | `LandedIsOnTrunk` | a layer with no local branch counts as merged; its remote branch, never landed, is deleted |
| `lost_credentials` | `CredentialReadable` | a setup cut between the fnox configuration and the identity it names is taken for done; the next run encrypts to the lost identity and `--purge` deletes the originals |

The models have more behaviours that a reader of the guides might not expect. The
properties above are stated so that they do not hide behind them.

Stacks:

* After a failed push or an abort, the next sync finds the layers in order and
  pushes nothing (`SyncEndsWell` asks for uncut commands). After `--abort` of a refused
  signature a later propose pushes the unsigned rebase, which
  `docs/guides/stacks.md:75-76` rules out. Propose edits the recorded pull request of a
  layer even when that one was merged (`cmd/git_propose.go:269`).
* An append cut between the new key and the list leaves a branch whose stack does
  not list it (`StackHasBranch` asks for uncut commands).

Profiles, links and init:

* With two terminals a delete can remove the profile an activate has just chosen
  (`Serial`). A profile deleted while its entry was a directory, or a link into a
  former clone, is relinked (`DeletedStaysDeleted` speaks of links into the
  repository). The private link goes away before it comes back, and stays on the
  previous profile when the new one has no private repository (`PrivateFollows`).
* A copy whose target the shared mise configuration lists is taken for dotty's own
  on a machine that never deployed it, and is overwritten without a question
  (`internal/linker/mise.go:83`). Restore after a link writes through the directory link
  into the repository (`internal/linker/restore.go:29`), although
  `cmd/dotfiles_restore.go:35-36` says it replaces the symlink.
* A profile cut between the move to the new layout and the end of its migration keeps
  its `render/` and `dotty.json`: the next run looks at legacy profiles only
  (`LayoutWhenDone` excepts it). An init cut between pruning and healing leaves dangling
  links no later run heals, and so does switching the profile by init
  (`HealedWhenDone`). A seed cut between `config.toml` and its lock never copies the
  lock. Something that is not a directory in the legacy place stops every init until
  the user removes it (`RemoveClash`).

* Every init renders the template's files of the home tree over what is in the
  repository (`internal/scaffold/render.go:143`). What the user had adopted there, or wrote
  through the link, is then only in git's history, although `DESIGN.md:722` says that
  adoption moves his copy into the repository so that it wins (`ContentKept` excepts it, by
  the history variable `renderedOver`).
* An adoption cut between removing the source and moving the file leaves a file of the home
  tree that no later link comes to, since the walk goes over sources
  (`internal/linker/linker.go:245`): the link command succeeds and the site stays a plain
  file. An init brings a source of the template back, no other (`Absent` in
  `LinkedWhenDone`). The content is safe: it never left the site.
* An init that runs outside the repository finds the previous answers through the link of
  the profile only (`internal/wizard/wizard.go:357`). Where there is none yet (a fresh clone),
  or where it dangles because a migration was cut after its rename, a `--yes` run starts
  from the defaults and overwrites the stored answers, although `cmd/init.go:75-76` says
  that with `--yes` a re-run reuses every one. `AnswersStick` speaks of runs in the
  repository, and of those whose link leads there.

Private area:

* A link that dies before the manifest is saved leaves copies without a record, or
  with an old one: an edit of such a copy is overwritten, or a conflict reported
  that nobody made (`LocalEditKept` speaks of recorded copies). `private edit`
  lands its result over a drifted copy. An entry that leaves the profile takes a copy
  with edits along (`internal/privdot/apply.go:66`), although `apply.go:34-35` says edits
  are never overwritten. Encrypting a path the profile carries as it
  is leaves both forms; the constant `Siblings` lets the user do so, and the runs
  keep it `FALSE` (the proofs do not, but for `DoneMeansSettled`, which is false then: the
  second form of a path takes over the copy and the record of the first).
* Encrypt of a path that is not linked stores what lies in `$HOME`, also when the
  decrypted copy has an edit, which it replaces (`cmd/private_encrypt.go:51`).
* A repository with a pre-commit hook of its own keeps that one
  (`internal/privdot/scaffold.go:86`), and nothing checks what it commits
  (`CommitsGuarded` excepts it).
* Two enrolments that append at once lose a recipient (`internal/privdot/enroll.go:187`,
  history variable `raced`). A second slot of one key replaces the stub of the first
  (`replaced`): what is encrypted to the first alone cannot be opened by dotty.

Credentials and keys:

* A key the user had set in fnox himself is skipped, counted as migrated and purged with
  its namespace (`own`). `--purge` goes before the template, whose references then do not
  resolve. After a failed line a rerun skips the key, so an earlier assignment stays
  (`patchy`). `--dry-run` sets fnox up all the same; recovery keys enrolled after the
  setup are not added to it; a scratch secret stays when its removal fails. A literal is
  stored as a default (`internal/fnox/client.go:138`), which a value hides: a literal line
  after a reference to the same key never takes effect (`LastLineWins` excepts it).
* `signing-key sign -f` with a stub hands it to ssh-keygen without a look at the allowlist
  (`internal/signingkey/sign.go:56`), so that a restricted profile signs on any hardware,
  although `cmd/securitykey_allow.go:28-30` says that signing refuses every other key. A key
  disallowed while ssh-keygen waits for its touch signs all the same: `SignsAllowed` speaks
  of the list as it was read, and of runs that read it. A stub written anew between its
  choice and its opening makes a signature with another credential than the one git asked
  for (`stale` in `signature`).
* A touch on another key than the one dotty named (`mistouched`), or two keys moved
  during one replug (`crowded`), file a stub under the wrong serial. An enrolment that
  fails after its old stub was cleared leaves the credential without one (`abandoned`).
  An import whose source is the data directory itself deletes the only copy
  (`cmd/signingkey_import.go:201`), although line 193 says the copies are kept (`erased`).
  Two runs that trust, or two that link, at once can lose a signer or mix two keys'
  links (`raced`, `crossed`). Two terminals in the allowlist's picker lose one's change
  (`cmd/securitykey_allow.go:65`).

### Bounds, and why they are enough

* GitSync: two layers, one foreign commit, one commit of the user per layer, two
  commands. Two layers are the least with a parent and a child; every relation of
  the code is between a layer and trunk or the next layer; the second command
  starts from every state the first can leave.
* StackLineage: three branches and two ids, with each bound of `Several`: two commits,
  three commands and two plain git actions, or two and three (a stack with a middle layer,
  two stacks that list one branch, a command that repairs or worsens what an earlier one
  left), or four commits and two commands (a squash below, at and above others). Branches and ids
  are symmetric: no definition names one.
* Profiles: three names give a deletion with a profile left besides the active one.
  Two have a private repository, so that the private link has somewhere to move, and
  one has none. One name (`Odd`) starts as any kind of entry, the others as links;
  every kind of entry is reachable for those from there except a directory and a link
  into the former clone, which dotty no longer makes.
* Linker: two or three sites at a time, in four repositories chosen so that every kind
  occurs with the kinds it shares a batch, a render or a migration with: a template file and
  one of the user's own in the home tree, each of them with the codex link, and what dotty
  makes itself. Sites interact only through the batch, the registration and mise's list of
  targets. Two contents: what the render says, and what it does not.
* PrivateTree: two paths, one of them encrypted; two contents; four encryptions.
  With everything concurrent one path, three encryptions and two terminals. There
  `VIEW Disk` drops the history variables no action reads and the checked property
  does not mention, which merges only states with the same future.
* Scaffold: two profiles (one being migrated while another is set up), each absent, in the
  oldest layout or in the one before profile.json held answers; five questions, one of each
  kind of dependence and default; four invocations (all yes, all no, `--yes`, flags without
  a terminal), each inside the repository or outside, with the profiles not yet linked,
  linked to the old places or to the new; two fresh inits, one death, one pull. A second
  death finds the same file-system states as the first: every run starts from the disk
  alone.
* Enrolment: two keys, two slots and two terminals are the least for a replaced stub, a
  lost recipient and a key removed while another stays; two entries for a rekey cut
  between them; four commands: enroll, encrypt, enroll, rekey.
* Credentials: two namespaces with a key name in common, one value with whitespace; a
  template that assigns one key a literal and then a reference, another the other way round,
  and has a malformed line; its references lead into namespaces the same run may purge.
  Every subset of the namespaces can be asked for. The user has at most two secrets of his
  own in fnox at a time: one that is skipped and purged, and one the template would assign.
  Three runs and two failures: a setup that breaks, a run on top of it, and one that purges.
* SigningKeys: two keys, two terminals, two commands at a time of any kind, two moves
  (out and in again). Keys and terminals are symmetric.

`CHECK_DEADLOCK FALSE` is used for GitSync, Enrolment, Credentials and SigningKeys: with
the commands used up nothing may be left to happen. Elsewhere some user action is always
possible, and TLC checks that there is no deadlock.

### Fairness and liveness

A command is a process that the user may kill and need never run again, a prompt may
stay unanswered, and nothing in dotty retries on its own. So most modules state no
fairness: "eventually linked" or "eventually published" holds of no schedule the code
guarantees, and what can be said is said of the end of a command (`SyncEndsWell`,
`LinkedWhenDone`, `SettledWhenDone`, `LineageRight`). That each command ends is by
inspection: every loop runs over a finite list that shrinks.

init is the exception, because its guide tells the user to repeat it until it succeeds.
`Scaffold` assumes weak fairness of the steps of a run (a process that is not killed
goes on; kills are bounded), weak fairness of repeating an init that has not completed,
and strong fairness of removing what the error message names, which is enabled only
between runs. Under these `InitCompletes` holds: no state an earlier run, a death or a
pull has left makes every later init fail.

## 4. What is proved

TLAPS checks these for every value of the constants.

* `TypeCorrect` in every `Proofs` module: the type invariants, with
  the names a command works on (`Named`) as strengthening, or its keys (`KeysInv`), sites
  (`RunInv`) or the whole record of a command (`Command`).
* `ProfilesProofs!ActiveNeverDangles`: `Serial` implies `Spec => []ActiveResolves`,
  for any number of profiles of any kinds. Resolution alone is not inductive: that
  delete may remove a profile rests on the check it made several calls ago, and that
  activate may swap on what it prepared. `SafeInv` adds, for the one command that
  runs (`OneAtATime`), what its program counter has established (`Checked`: the
  target resolves or is in the repository, the doomed profile is not active). The
  assumption is needed: with two processes and `Serial` FALSE, TLC finds an activation
  between the check and the removal.
* `ProfilesProofs!DeletedNeverReturns` and `LastProfileNeverGoes`: `Spec =>
  []DeletedStaysDeleted` and `Spec => LastProfileStays` under `Serial`. `DeleteInv` adds
  to `SafeInv` that while a deletion runs another profile resolves (`OtherStays`), that
  what it found behind the entry is still what is there (`HeldAsFound`), and that a
  profile deleted through its link has no content left (`Forgotten`).
* `ProfilesProofs!PrivateLinkFollows`: under `Serial`, `Spec => []PrivateFollows`.
  `FollowInv` adds to `SafeInv` what a command owes: from the swap to the end of the
  private steps (`Owing`) the target is active and resolves, so that the steps find the
  private repository they look for; a command that owes nothing keeps the link as it
  found it. init activates twice, so its second activation owes what its first one moved,
  and `private link` owes only if the link did not follow already.
* `ProfilesProofs!Refines`: under `Serial`, `Spec => ImplementsStore`. Initial
  states map to initial states; every step of every command maps to one action of
  `ProfileStore` or to none. A removal needs `DeleteInv`: of the two calls of a deletion
  whichever takes the profile away is the abstract deletion, the other a stutter.
* `ProfilesProofs!ContentSurvives`, `EndsLinked` and `SourcesStay`: `LinkerSpec =>
  []UserContentKept`, `LinkerSpec => LinkedWhenDone` and `LinkerSpec => SourcesIntact`, for any
  number of sites of each kind, each of one kind only, and one codex configuration
  (`SiteKindsAssumption`). These are about `Linker` alone and stand beside the proofs of
  `Profiles`, whose init and link run it; the two models share no name, so one module
  extends both. The template's files are any of the home tree (`TemplateAssumption`).
  `RunInv`: a site is in one place at a time, to be planned, prepared
  or applied, or skipped. `SeenInv`: a planned site is still what it was planned as, a
  target holds nothing of the user's, and no link a copy would be written through.
  `FileInv`: a real file is what the user last wrote, unless mise copied it there. `KeptInv`
  says where his content is, and counts a source until a render writes over it, which is
  when the site joins `renderedOver`; the codex source goes with a render, which `CodexInv`
  has wait for the link to be gone. `DoneInv`: a site in none of the four places is as
  declared, or the walk did not come to it. `TemplateInv`: while an init links, what the
  template makes is there, so that its walk does come to those.
* `PrivateTreeProofs!OkIsTheTruth`: `Spec => []OkMeansSame` with any number of
  terminals, `Busy` or not. Inductive is that every record, saved or in the memory
  of some command, is *truthful* (its two hashes are of one content), and that what
  a command holds in hand belongs together: `RecordInv`. Status compares hashes, so
  truth of the records is all that is needed, however stale they are.
* `PrivateTreeProofs!EditsAreKept`: without `Busy`, `Spec => []LocalEditKept`.
  `EditInv` says that a pending edit is what the copy holds, that the saved manifest
  has another content on record for it (`Differs`), and that a running command has
  not read anything the edit has overtaken (`Careful`, for commands that run alone).
* `PrivateTreeProofs!DoneMeansSettled`: without `Busy` and `Siblings`, `Spec =>
  SettledWhenDone`. What a link or a rekey saves it worked out entry by entry, so
  `SettledInv` says of the memory of a command half way what the end needs: an entry a
  link is through with is recorded with the cipher the repository has (`LinkHas`), the
  state in which a rekey found an entry is the one its memory still gives, but that a
  new cipher may have been recorded (`RekeyHas`, `Follows`), and a path has one entry
  (`Owned`), since a second one would undo what was done for the first. It rests on
  `EditInv`'s `Alone` for what nobody else may have changed, and on `RecordInv`.
* `EnrolmentProofs!AlwaysOpens`, `AlwaysTrue` and `AlwaysGuarded`: `Spec =>
  []CiphertextOpens`, `[]ReportsTrue` and `[]CommitsGuarded`, for any keys, slots, entries
  and terminals, each command cut anywhere, with a hook of the repository's own or without.
  `IInv` is seven parts. `HeldInv`: whoever is listed, was read from the list or is about to
  be listed has its stub, or had it replaced by another slot's. `GuardInv`: a piece is
  there, or the init that runs still has it to write. `FormInv`: nobody is read, listed or
  encrypted to without a list, and a stub without a list is that of an enrolment that was
  cut or still runs. `TokenInv`: the keys hold these identities, and nobody who left is
  listed or read. `EnrolledInv`, `ToldInv` and `RekeyInv` say what an enrolment, the
  recipients not told of, and a rekey may count on as long as no other command gets in
  between; they rest on `Mates`: of two commands that run, each has the other's verb in its
  `beside`, whichever began first.
* `ScaffoldProofs!ProfileSurvives`, `NothingTakenBack` and `LeftInOrder`: `Spec =>
  []ProfileKept`, `Spec => RerunKeeps` and `Spec => InOrderWhenDone`, for any profiles,
  questions and runs, and any start in which a document holds one set of answers
  (`StartAssumption`), with the questions' dependences and defaults as `QuestionAssumption`
  has them. `IInv` follows the run by its program counter. `Placed`: the profile being
  migrated is where the counter says, and the directory is there. `Legacy`: nothing is
  left in the legacy places once the migration is through. `OneDocument`: while
  `profile.json` and `dotty.json` both exist, the profile is one a run was cut at or the
  one it works on. `AnswersKept` and `PackagesKept` are inductive beside these.
  `StampRight`, `QuietRight`: the record a run carries in memory (creation time, the answers
  of the repository's document that the run is to reuse) agrees with the documents, until it
  is saved. That what was found through the link of a profile is what the repository has
  follows for a link that leads to the profile's one directory there (`Leads`), and for
  no other. `Dissolved` and
  `Healing` say which profiles are in the new form and which links dangle, to the end.
* `GitSyncProofs!PatchesSurvive`, `EndsWell`, `DropsLanded` and `HeadReturns`: `Spec =>
  []NoPatchLost`, `[]SyncEndsWell`, `DropsOnlyLanded` and `HeadComesHome`, for any number of
  layers, commits and commands. The lemmas say what each git operation makes of its two
  tips: a rebase and a re-signing have the patches of both, each once, on top of the base
  (`RebasedDoes`, `ResignedDoes`). `Grown`: patches are numbered as they are made and no
  tip has one that was not made, so that a new one is new to every tip. `Kept` is the first
  half of `NoPatchLost` and the same of what git will make of the branch it was stopped on.
  `Chain`: the layers below the one the rebase is at sit on the fetched trunk and on one
  another, in the file's stopped rebase too. That a sync which rebases nothing is in that
  state already is `NotStaleIsChain`: were some layer off one below it, the lowest such
  layer would be off the one right under it, which `AnyStale` looks at. `Placed`: what the
  command has in memory, or the state file when git was stopped, is about the stack as it
  is recorded now. `Listed`: a layer rewritten and not pushed is on the list of the command
  or of the file, or is the one git was stopped on, which `Resumed` adds. `AllSigned`: only
  the layer being signed has unsigned commits.
* `StackLineageProofs!WorkSurvives`, `StackListsIt` and `LineageStaysRight`: `Spec =>
  []WorkKept`, `[]StackHasBranch` and `Spec => LineageRight`, for any branches, stack ids and
  bounds, every command cut anywhere. A command's steps are queued in `run.todo`, so what is
  inductive speaks of the queue. `SpareInv`: what is to be deleted is `Spare`, on trunk or in
  the branch the command works for, which is itself not among it. `RefInv`: what is to be
  made is not there yet, what is to be rebased is. `ExpandInv`: the branch being expanded
  keeps its patches through `reset`, and what an undo drops has no other. `WillBe` is the
  history a branch will have and `KeyTo`, `Coming` are the key and the list a branch and a
  stack will have, once the queue is run. With them `ChainInv` says that a list written is a
  chain by then, `ThenInv` that keys and lists will agree and no branch be forgotten that is
  not spare, and `NowInv` that they agree as things stand. Both times are needed: in the
  middle of the config writes (`Apart`) keys and lists do disagree, which is why a cut there
  is excepted; and it is the order of those writes (`InBlock`: one list at most, after the
  keys of its branches) that makes the second follow from the first. The
  lemmas on `Expand` are the longest: the layers made of a branch with some commits squashed
  (`Grouped`, `Replay`) are a ladder of prefixes whose last rung has all the patches.
* `CredentialsProofs!NeverLost` and `AlwaysRight`: `Spec => []CredentialKept` and
  `[]SecretsRight`, for any keychain, template and bounds (`Project` is no namespace, and
  the template's lines have their type: `StoredAssumption`, `TemplateAssumption`). `IInv` is
  `TypeInv`, `KeptInv`, `LineInv` and `PlainInv`. `SetupInv` in the first: nothing is
  encrypted before there is a provider, and from then on its recipients include the identity
  parked (`Parked`), unless a setup ended between the two (`halfway`). `PurgeInv` in the
  second: every key of a namespace about to be purged, or gone, has a secret, or the
  namespace has failed; `OwnInv`, `SecretInv` and `FreshInv` say whose it is. `LineInv`: as
  long as no run left a line behind, each key the run does not hold has what its last line
  so far says (`Written`), and what an earlier run left there is right (`Settled`).
  `PlainInv`: a key no reference names has no value that would hide its default, but one the
  user set.
* `SigningKeysProofs!Together`, `Referenced`, `SignsRight` and `TrustStays`: `Spec =>
  []FilesRight`, `[]StubKept`, `SignedRight` and `TrustKept`, for any finite set of keys
  (`SerialAssumption`) and any terminals. `IInv` has one part per pair of things that belong
  together. `LocalInv`: a command that enrolls has one key in mind and opens that key's
  device, because a tracker's view of every key that has not moved since its first look is
  still right (`Tracks`), so that what it identifies has moved. `FiledInv`: not only the
  stubs but the public keys, and the credential a copy carries, lie under their key's
  serial. `PairInv`: between the two files of a copy the stub is the one that copy wrote, or
  gone. `LinkInv` and `AppendInv`: of the runs at a link, or at the signers file, there is
  one. `KeptInv`: whoever cleared the stub a key's credential had is still enrolling on that
  key. What ssh-keygen was given is a part of `LocalInv`: it was checked against the list
  the run read, and is the stub of what was asked for, or a copy stood between its two
  files, or it was written since. The exceptions the properties name (`torn`, `crossed`,
  ...) are what these parts except, each for itself.

Only model-checked: `InitCompletes`, since liveness and `ENABLED` are out of the provers'
reach; so is induction over data (what a recursive function computes for every input). The
models they prove about therefore say what the code's loops find and not how: `StackLineage`
filters a sequence by the indices it keeps (`Filtered`), and a lineage is a path whose every
element is the parent of the next (`LineagePath`).

## 5. What is left out, and why

* Text: messages, PR bodies, templates, TOML and JSON syntax, slugs, Brewfiles.
* The hardware: a key answers or refuses; PIN caches and touch policies do not occur.
* Concurrency inside one file write: `AtomicWriteFile` is one step, which the rename
  in it justifies; a plain `os.WriteFile` is one step too, which is optimistic.
* Plain git and the user act between commands in GitSync, StackLineage and Linker;
  what they do while one of these commands runs is not explored (PrivateTree with
  `Busy`, Enrolment and SigningKeys do).
* Packages: each verb edits one TOML file and runs mise or brew, whose state is theirs.
  What could go wrong is that two of them, or one and the linker's registration
  (`internal/mise/dotfiles.go:48`), overwrite each other's edit; with whole-file
  read-modify-write on both sides a model would only restate that.
* `signing-key authorize`, `askpass` and `list`, the alias store, worktrees and tmux,
  fonts and macOS settings: read-only, or one idempotent write.

## 6. Plan

1. An abstract private tree, a three-way merge of repository, copy and record,
   implemented by `PrivateTree` for commands that end.
2. A composition of `Scaffold` with `Profiles` and `Linker`: one init with the file-system
   calls of all three.
3. `Packages`, if mise's own writes to the shared configuration can be observed well
   enough to be modelled.
