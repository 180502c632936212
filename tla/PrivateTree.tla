---------------------------- MODULE PrivateTree ----------------------------
(* One private profile on one machine: the entries its repository carries,    *)
(* the decrypted copies under the data directory, and the manifest of hashes  *)
(* that lets a link decide what to decrypt. private link, encrypt, edit and   *)
(* rekey each read and write the three separately, and may die in between;    *)
(* the user edits the copies through the links in $HOME, and git changes the  *)
(* repository.                                                                *)
(*                                                                            *)
(* A hash stands for what was hashed: a plaintext for its content, the bytes  *)
(* of a repository entry for a revision, its content and the nonce of the     *)
(* encryption (age never produces the same ciphertext twice), 0 for an entry  *)
(* stored as it is.                                                           *)
EXTENDS Naturals, FiniteSets

CONSTANTS
    File,      \* paths relative to $HOME
    Sealed,    \* those the repository carries as ciphertext to begin with
    Content,   \* what a file may say
    Nonce,     \* encryptions told apart
    Proc,      \* terminals a command can be run from
    Busy,      \* do the user, git and other commands act during a command?
    Siblings   \* does the user encrypt an entry that is stored as it is?

ASSUME SealedAssumption == Sealed \subseteq File
ASSUME NonceAssumption == Nonce # {} /\ Nonce \subseteq Nat \ {0}
ASSUME FlagAssumption == Busy \in BOOLEAN /\ Siblings \in BOOLEAN

Carried == [rel : File, encrypted : BOOLEAN]
Rev == [content : Content, nonce : Nonce \cup {0}]
Entry == [cipher : Rev, plain : Content]

\* Partial functions: what is on disk, by path.
Partial(S, T) == UNION {[D -> T] : D \in SUBSET S}
Nothing == [x \in {} |-> x]
Put(g, x, v) == [y \in DOMAIN g \cup {x} |-> IF y = x THEN v ELSE g[y]]
Drop(g, x) == [y \in DOMAIN g \ {x} |-> g[y]]

VARIABLES
    repo,      \* the entries of the profile's home tree, by name and form
    plain,     \* the decrypted copies
    manifest,  \* the saved manifest
    run,       \* the command each terminal runs
    \* History, read by properties only.
    landed,    \* what dotty last wrote to each copy
    unsaved    \* the user's last edit of a recorded copy, until it is stored

vars == <<repo, plain, manifest, run, landed, unsaved>>
history == <<landed, unsaved>>

\* todo: entries still to visit; seen: the paths the profile carries; man: the
\* manifest in memory; at, read, text: the entry, revision and plaintext in hand;
\* was: the states rekey found.
Idle == [op |-> "none", pc |-> "idle", todo |-> {}, seen |-> {},
         skipped |-> {}, man |-> Nothing, at |-> {}, read |-> {}, text |-> {}, was |-> Nothing]

FileState == {"ok", "stale", "drifted", "conflict", "missing"}

\* classify, for an entry the repository carries.
Classify(e) ==
    IF e.rel \notin DOMAIN plain \cap DOMAIN manifest THEN "missing"
    ELSE LET stale == repo[e] # manifest[e.rel].cipher
             drifted == plain[e.rel] # manifest[e.rel].plain
         IN CASE stale /\ drifted -> "conflict"
              [] stale /\ ~drifted -> "stale"
              [] ~stale /\ drifted -> "drifted"
              [] OTHER -> "ok"

Run == [op : {"none", "link", "encrypt", "edit", "rekey"},
        pc : {"idle", "next", "land", "rewrite", "editor", "store", "plain", "record", "save"},
        todo : SUBSET Carried, seen : SUBSET File, skipped : SUBSET Carried,
        man : Partial(File, Entry), at : SUBSET Carried, read : SUBSET Rev,
        text : SUBSET Content, was : Partial(Carried, FileState)]

TypeOK ==
    /\ repo \in Partial(Carried, Rev)
    /\ plain \in Partial(File, Content)
    /\ manifest \in Partial(File, Entry)
    /\ run \in [Proc -> Run]
    /\ landed \in Partial(File, Content)
    /\ unsaved \in [File -> SUBSET Content]

Own(f) == [rel |-> f, encrypted |-> f \in Sealed]

\* A fresh machine: a clone, nothing decrypted yet.
Init ==
    /\ \E c \in [File -> Content] :
        repo = [e \in {Own(f) : f \in File} |->
            [content |-> c[e.rel], nonce |-> IF e.encrypted THEN CHOOSE n \in Nonce : TRUE ELSE 0]]
    /\ plain = Nothing
    /\ manifest = Nothing
    /\ run = [p \in Proc |-> Idle]
    /\ landed = Nothing
    /\ unsaved = [f \in File |-> {}]

\* An encryption differs from every revision anything still remembers.
Remembered(f) ==
    {repo[e] : e \in {d \in DOMAIN repo : d.rel = f}}
        \cup {m[f].cipher : m \in {n \in {manifest} \cup {run[p].man : p \in Proc} : f \in DOMAIN n}}
        \cup UNION {run[p].read : p \in Proc}
Unused(e, c) == {n \in Nonce : [content |-> c, nonce |-> n] \notin Remembered(e.rel)}
Encrypt(e, c) == [content |-> c, nonce |-> CHOOSE n \in Unused(e, c) : TRUE]

Quiet == \A p \in Proc : run[p].pc \in {"idle", "editor"}
Free == Busy \/ Quiet

Step(p, r) == run' = [run EXCEPT ![p] = r]
Goto(p, pc) == Step(p, [run[p] EXCEPT !.pc = pc])
Begin(p, op, pc) == [Idle EXCEPT !.op = op, !.pc = pc]

-----------------------------------------------------------------------------
\* The user and git.

UserEdits(f, c) ==
    /\ Free
    /\ f \in DOMAIN plain
    /\ plain[f] # c
    /\ plain' = [plain EXCEPT ![f] = c]
    /\ unsaved' = [unsaved EXCEPT ![f] =
        IF Quiet /\ f \in DOMAIN manifest THEN {c} \ {manifest[f].plain} ELSE {}]
    /\ UNCHANGED <<repo, manifest, run, landed>>

UserRemoves(f) ==
    /\ Free
    /\ f \in DOMAIN plain
    /\ plain' = Drop(plain, f)
    /\ unsaved' = [unsaved EXCEPT ![f] = {}]
    /\ UNCHANGED <<repo, manifest, run, landed>>

\* A pull brings a new revision, or back the one this machine has recorded.
RepoChanges(e) ==
    /\ Free
    /\ \/ \E c \in Content :
            IF e.encrypted
            THEN Unused(e, c) # {} /\ repo' = Put(repo, e, Encrypt(e, c))
            ELSE repo' = Put(repo, e, [content |-> c, nonce |-> 0])
       \/ /\ e.rel \in DOMAIN manifest
          /\ e.encrypted <=> manifest[e.rel].cipher.nonce # 0
          /\ repo' = Put(repo, e, manifest[e.rel].cipher)
    /\ UNCHANGED <<plain, manifest, run, history>>

RepoRemoves(e) ==
    /\ Free
    /\ e \in DOMAIN repo
    /\ repo' = Drop(repo, e)
    /\ UNCHANGED <<plain, manifest, run, history>>

-----------------------------------------------------------------------------
\* Materialize: the decrypting half of private link.

StartLink(p) ==
    /\ Free
    /\ run[p].pc = "idle"
    /\ Step(p, [Begin(p, "link", "next") EXCEPT !.man = manifest,
                    !.todo = DOMAIN repo, !.seen = {e.rel : e \in DOMAIN repo}])
    /\ UNCHANGED <<repo, plain, manifest, history>>

Visiting(p, op, e) ==
    /\ run[p].pc = "next" /\ run[p].op = op
    /\ e \in run[p].todo \cap DOMAIN repo

Known(p, e) == e.rel \in DOMAIN run[p].man \cap DOMAIN plain
\* A bug to check the properties against: the record alone, whether or not the
\* copy is there.
UpToDateByRecord(p, e) == e.rel \in DOMAIN run[p].man /\ run[p].man[e.rel].cipher = repo[e]
UpToDate(p, e) == Known(p, e) /\ run[p].man[e.rel].cipher = repo[e]

\* A bug to check the properties against: no look at the copy's hash.
NeverEdited(p, e) == FALSE
Edited(p, e) == Known(p, e) /\ plain[e.rel] # run[p].man[e.rel].plain

LinkUpToDate(p, e) ==
    /\ Visiting(p, "link", e)
    /\ UpToDate(p, e)
    /\ Step(p, [run[p] EXCEPT !.todo = @ \ {e}])
    /\ UNCHANGED <<repo, plain, manifest, history>>

\* Left alone with a warning; under --strict the run fails, its manifest unsaved
\* (which of the two a run is, its first skip decides).
Skip(p, e) ==
    /\ \/ Step(p, [run[p] EXCEPT !.todo = @ \ {e}, !.skipped = @ \cup {e}])
       \/ Step(p, Idle)
    /\ UNCHANGED <<repo, plain, manifest, history>>

LinkConflict(p, e) ==
    /\ Visiting(p, "link", e)
    /\ ~UpToDate(p, e) /\ Edited(p, e)
    /\ Skip(p, e)

\* No terminal for the PIN, the key not plugged in, or the wrong key.
LinkUndecryptable(p, e) ==
    /\ Visiting(p, "link", e)
    /\ ~UpToDate(p, e) /\ ~Edited(p, e)
    /\ e.encrypted
    /\ Skip(p, e)

\* age may wait for a PIN and a touch before it returns.
LinkDecrypt(p, e) ==
    /\ Visiting(p, "link", e)
    /\ ~UpToDate(p, e) /\ ~Edited(p, e)
    /\ Step(p, [run[p] EXCEPT !.pc = "land", !.at = {e}, !.read = {repo[e]}])
    /\ UNCHANGED <<repo, plain, manifest, history>>

\* A bug to check the properties against: no cipher hash for an entry stored as
\* it is, as the comment of the manifest's field has it.
LinkLandNoCipher(p) ==
    /\ run[p].pc = "land"
    /\ \E e \in run[p].at, rev \in run[p].read :
        /\ plain' = Put(plain, e.rel, rev.content)
        /\ landed' = Put(landed, e.rel, rev.content)
        /\ Step(p, [run[p] EXCEPT !.pc = "next", !.todo = @ \ {e}, !.at = {}, !.read = {},
                        !.man = Put(@, e.rel, [cipher |-> IF e.encrypted THEN rev ELSE [rev EXCEPT !.content = ""],
                                               plain |-> rev.content])])
    /\ UNCHANGED <<repo, manifest, unsaved>>

LinkLand(p) ==
    /\ run[p].pc = "land"
    /\ \E e \in run[p].at, rev \in run[p].read :
        /\ plain' = Put(plain, e.rel, rev.content)
        /\ landed' = Put(landed, e.rel, rev.content)
        /\ Step(p, [run[p] EXCEPT !.pc = "next", !.todo = @ \ {e}, !.at = {}, !.read = {},
                        !.man = Put(@, e.rel, [cipher |-> rev, plain |-> rev.content])])
    /\ UNCHANGED <<repo, manifest, unsaved>>

\* A path the profile no longer carries: the copy goes, edited or not.
LinkPrune(p, f) ==
    /\ run[p].pc = "next" /\ run[p].op = "link" /\ run[p].todo = {}
    /\ f \in DOMAIN run[p].man \ run[p].seen
    /\ plain' = Drop(plain, f)
    /\ unsaved' = [unsaved EXCEPT ![f] = {}]
    /\ Step(p, [run[p] EXCEPT !.man = Drop(@, f)])
    /\ UNCHANGED <<repo, manifest, landed>>

LinkSave(p) ==
    /\ run[p].pc = "next" /\ run[p].op = "link" /\ run[p].todo = {}
    /\ DOMAIN run[p].man \subseteq run[p].seen
    /\ manifest' = run[p].man
    /\ Step(p, Idle)
    /\ UNCHANGED <<repo, plain, history>>

-----------------------------------------------------------------------------
\* private encrypt: the live file in $HOME, the copy where the path is linked to
\* it, any file of the user's where it is not.

StartEncrypt(p, f, c) ==
    /\ Free
    /\ run[p].pc = "idle"
    /\ f \in Sealed \/ Siblings
    /\ Step(p, [Begin(p, "encrypt", "store") EXCEPT
                    !.at = {[rel |-> f, encrypted |-> TRUE]}, !.text = {c}])
    /\ UNCHANGED <<repo, plain, manifest, history>>

-----------------------------------------------------------------------------
\* private edit of an encrypted entry. One stored as it is opens in the
\* repository itself, which is RepoChanges.

StartEdit(p, e) ==
    /\ Free
    /\ run[p].pc = "idle"
    /\ e \in DOMAIN repo /\ e.encrypted
    /\ Step(p, [Begin(p, "edit", "editor") EXCEPT !.at = {e}, !.read = {repo[e]}])
    /\ UNCHANGED <<repo, plain, manifest, history>>

EditUnchanged(p) ==
    /\ Free
    /\ run[p].pc = "editor"
    /\ Step(p, Idle)
    /\ UNCHANGED <<repo, plain, manifest, history>>

EditSave(p, c) ==
    /\ Free
    /\ run[p].pc = "editor"
    /\ \A rev \in run[p].read : rev.content # c
    /\ Step(p, [run[p] EXCEPT !.pc = "store", !.read = {}, !.text = {c}])
    /\ UNCHANGED <<repo, plain, manifest, history>>

-----------------------------------------------------------------------------
\* Store: the ciphertext, then the copy, then the manifest as it is by then.

StoreRepo(p) ==
    /\ run[p].pc = "store"
    /\ \E e \in run[p].at, c \in run[p].text :
        LET rev == Encrypt(e, c) IN
        /\ Unused(e, c) # {}
        /\ repo' = Put(repo, e, rev)
        /\ unsaved' = [unsaved EXCEPT ![e.rel] = @ \ {c}]
        /\ Step(p, [run[p] EXCEPT !.pc = "plain", !.read = {rev}])
    /\ UNCHANGED <<plain, manifest, landed>>

StorePlain(p) ==
    /\ run[p].pc = "plain"
    /\ \E e \in run[p].at, c \in run[p].text :
        /\ plain' = Put(plain, e.rel, c)
        /\ landed' = Put(landed, e.rel, c)
        /\ unsaved' = [unsaved EXCEPT ![e.rel] = {}]
    /\ Goto(p, "record")
    /\ UNCHANGED <<repo, manifest>>

StoreRecord(p) ==
    /\ run[p].pc = "record"
    /\ \E e \in run[p].at, rev \in run[p].read, c \in run[p].text :
        Step(p, [run[p] EXCEPT !.pc = "save",
                    !.man = Put(manifest, e.rel, [cipher |-> rev, plain |-> c])])
    /\ UNCHANGED <<repo, plain, manifest, history>>

StoreSave(p) ==
    /\ run[p].pc = "save"
    /\ manifest' = run[p].man
    /\ Step(p, Idle)
    /\ UNCHANGED <<repo, plain, history>>

-----------------------------------------------------------------------------
\* Rekey: every ciphertext again, for the recipients of today.

StartRekey(p) ==
    /\ Free
    /\ run[p].pc = "idle"
    /\ Step(p, [Begin(p, "rekey", "next") EXCEPT !.man = manifest,
                    !.todo = {e \in DOMAIN repo : e.encrypted},
                    !.was = [e \in DOMAIN repo |-> Classify(e)]])
    /\ UNCHANGED <<repo, plain, manifest, history>>

RekeyRead(p, e) ==
    /\ Visiting(p, "rekey", e)
    /\ Step(p, [run[p] EXCEPT !.pc = "rewrite", !.at = {e}, !.read = {repo[e]}])
    /\ UNCHANGED <<repo, plain, manifest, history>>

\* Two bugs to check the properties against: whatever was recorded gets the new
\* cipher; nothing does.
RefreshedAlways(man, f, old, new) ==
    IF f \in DOMAIN man THEN [man EXCEPT ![f].cipher = new] ELSE man
NotRefreshed(man, f, old, new) == man

\* An entry whose plaintext is the recorded one is recorded with its new cipher.
Refreshed(man, f, old, new) ==
    IF f \in DOMAIN man /\ man[f].plain = old.content
    THEN [man EXCEPT ![f].cipher = new]
    ELSE man

RekeyWrite(p) ==
    /\ run[p].pc = "rewrite"
    /\ \E e \in run[p].at, old \in run[p].read :
        LET new == Encrypt(e, old.content) IN
        /\ Unused(e, old.content) # {}
        /\ repo' = Put(repo, e, new)
        /\ Step(p, [run[p] EXCEPT !.pc = "next", !.todo = @ \ {e}, !.at = {}, !.read = {},
                        !.man = Refreshed(@, e.rel, old, new)])
    /\ UNCHANGED <<plain, manifest, history>>

RekeySave(p) ==
    /\ run[p].pc = "next" /\ run[p].op = "rekey" /\ run[p].todo = {}
    /\ manifest' = run[p].man
    /\ Step(p, Idle)
    /\ UNCHANGED <<repo, plain, history>>

-----------------------------------------------------------------------------
\* Any step may fail, and any command may be interrupted.
Stop(p) ==
    /\ run[p].pc # "idle"
    /\ Step(p, Idle)
    /\ UNCHANGED <<repo, plain, manifest, history>>

Command(p) ==
    \/ StartLink(p)
    \/ \E e \in Carried : LinkUpToDate(p, e) \/ LinkConflict(p, e) \/ LinkUndecryptable(p, e)
    \/ \E e \in Carried : LinkDecrypt(p, e)
    \/ LinkLand(p)
    \/ \E f \in File : LinkPrune(p, f)
    \/ LinkSave(p)
    \/ \E f \in File, c \in Content : StartEncrypt(p, f, c)
    \/ \E e \in Carried : StartEdit(p, e)
    \/ EditUnchanged(p)
    \/ \E c \in Content : EditSave(p, c)
    \/ StoreRepo(p) \/ StorePlain(p) \/ StoreRecord(p) \/ StoreSave(p)
    \/ StartRekey(p)
    \/ \E e \in Carried : RekeyRead(p, e)
    \/ RekeyWrite(p) \/ RekeySave(p)
    \/ Stop(p)

User ==
    \/ \E f \in File, c \in Content : UserEdits(f, c)
    \/ \E f \in File : UserRemoves(f)
    \/ \E e \in DOMAIN repo \cup {Own(f) : f \in File} : RepoChanges(e)
    \/ \E e \in DOMAIN repo : RepoRemoves(e)

Next == (\E p \in Proc : Command(p)) \/ User

Spec == Init /\ [][Next]_vars

-----------------------------------------------------------------------------
\* "ok" is never a false comfort: the copy is what the repository would decrypt
\* to, although status compares hashes of three files that commands write at
\* different times and rewrite from memory (classify; materializeOne, Store and
\* Rekey each record an entry).
OkMeansSame == \A e \in DOMAIN repo : Classify(e) = "ok" => plain[e.rel] = repo[e].content

\* An edit of a recorded copy stays until encrypt stores it, encrypt (of a live
\* file that is not the link) or edit stores something else, or the path leaves the
\* profile: no sequence of links and rekeys, failed or interrupted ones included,
\* overwrites it (Materialize: "Local edits are never overwritten").
LocalEditKept ==
    \A f \in File : unsaved[f] # {} => f \in DOMAIN plain /\ plain[f] \in unsaved[f]

\* A link that is not disturbed leaves every entry it did not skip current or
\* drifted, and neither a copy nor a record of a path the profile dropped
\* (Materialize; the copies of paths that were never recorded are not its own).
LinkSettles(p) ==
    LinkSave(p) =>
        /\ \A e \in DOMAIN repo \ run[p].skipped : Classify(e)' \in {"ok", "drifted"}
        /\ \A f \in DOMAIN manifest : f \in DOMAIN plain' => \E e \in DOMAIN repo : e.rel = f

\* A rekey that completes keeps the state of every entry: what was ok still
\* decrypts nothing at the next link, an edit is still reported; only a change
\* of the repository that changed no content may be absorbed (Rekey).
RekeyKeepsState(p) ==
    RekeySave(p) =>
        \A e \in DOMAIN repo :
            \/ Classify(e)' = run[p].was[e]
            \/ run[p].was[e] = "stale" /\ Classify(e)' = "ok"
            \/ run[p].was[e] = "conflict" /\ Classify(e)' = "drifted"

\* Both: what a link or a rekey has recorded when it completes is what the files say.
SettledWhenDone == [][\A p \in Proc : LinkSettles(p) /\ RekeyKeepsState(p)]_vars

=============================================================================
