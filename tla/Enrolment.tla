------------------------------ MODULE Enrolment ------------------------------
(* The keys of one private profile: the identities in the slots of the         *)
(* hardware keys, and, in the repository, one identity stub per key, the       *)
(* recipients file and the recipients each ciphertext was encrypted to.        *)
(* private init scaffolds the repository, enroll adds a key, encrypt and rekey *)
(* write ciphertexts; each can be cut between any two writes, and two          *)
(* terminals can interleave. What the ciphertexts say is PrivateTree's.        *)
EXTENDS Naturals, FiniteSets, FiniteSetsExt

CONSTANTS
    Key,        \* hardware keys, by serial
    PluginSlots,\* identities one key holds
    File,       \* entries of the profile
    Sensitive,  \* those whose name looks like a secret's
    Allowed,    \* the profile's allowlist; {} restricts nothing
    Terminal,   \* where commands run
    MaxRuns     \* bound: commands started

ASSUME SlotsAssumption == PluginSlots \in Nat \ {0}
ASSUME RunsAssumption == MaxRuns \in Nat
ASSUME NamesAssumption == Sensitive \subseteq File /\ Allowed \subseteq Key

Slot == 1..PluginSlots
Identity == Key \X Slot

\* What private init completes, and in which order: marker first, the seeds in
\* the random order of a Go map, the directories, then git and its hooks path.
Piece == {"marker", "attributes", "ignore", "hook", "shape", "git", "hooksPath", "answer"}
Stage(p) == CASE p = "marker" -> 1
              [] p \in {"attributes", "ignore", "hook"} -> 2
              [] p = "shape" -> 3
              [] p = "git" -> 4
              [] p = "hooksPath" -> 5
              [] p = "answer" -> 6

VARIABLES
    token,      \* the slots of each key that hold an identity
    has,        \* the pieces the repository has on this machine, and whether its
                \* pre-commit hook is one of its own ("own")
    stub,       \* the slot the identity stub of each key names, 0 with no stub
    listed,     \* is there a recipients file?
    recipients, \* the identities it lists
    cipher,     \* the recipients of each entry's ciphertext, {} with none
    proc,       \* the command of each terminal
    runs,       \* commands started
    \* History, read by properties only.
    inited,     \* has private init completed here?
    leaks,      \* plaintext committed before, or after, it did
    replaced,   \* identities whose stub another slot's replaced
    departed,   \* identities the user removed
    told,       \* recipients whose enrolment told the user to rekey, or had no chance to
    cut,        \* has an enrolment been cut?
    raced       \* has one written over the recipient another had appended?

vars == <<token, has, stub, listed, recipients, cipher, proc, runs,
          inited, leaks, replaced, departed, told, cut, raced>>
history == <<inited, leaks, replaced, departed, told, cut, raced>>
files == <<stub, listed, recipients, cipher>>

Op == {"init", "enroll", "encrypt", "rekey"}
\* key, slot: what is enrolled or plugged in; seen: recipients read; todo: pieces
\* or entries left; beside: what other terminals ran meanwhile.
Idle == [op |-> "none", pc |-> "idle", key |-> {}, slot |-> 0, seen |-> {},
         todo |-> {}, beside |-> {}]
Command == [op : Op \cup {"none"},
            pc : {"idle", "complete", "generate", "stub", "read", "append", "tell", "store", "rekey", "done"},
            key : SUBSET Key, slot : Slot \cup {0}, seen : SUBSET Identity,
            todo : SUBSET (Piece \cup File), beside : SUBSET Op]

TypeOK ==
    /\ token \in [Key -> SUBSET Slot]
    /\ has \subseteq Piece \cup {"own"} /\ ("own" \in has => "hook" \in has)
    /\ stub \in [Key -> Slot \cup {0}]
    /\ listed \in BOOLEAN
    /\ recipients \subseteq Identity /\ (recipients # {} => listed)
    /\ cipher \in [File -> SUBSET Identity]
    /\ proc \in [Terminal -> Command]
    /\ runs \in 0..MaxRuns
    /\ inited \in BOOLEAN /\ cut \in BOOLEAN /\ raced \in BOOLEAN
    /\ leaks \subseteq {"before", "after"}
    /\ replaced \cup departed \cup told \subseteq Identity

\* Nothing yet; a git repository with a pre-commit hook of its own; or a clone: git
\* carries every piece but its own hooks path, and the public profile the answer.
Init ==
    /\ token = [k \in Key |-> {}]
    /\ has \in {{}, {"git", "hook", "own"}, Piece \ {"hooksPath"}}
    /\ stub = [k \in Key |-> 0]
    /\ listed = FALSE
    /\ recipients = {}
    /\ cipher = [f \in File |-> {}]
    /\ proc = [t \in Terminal |-> Idle]
    /\ runs = 0
    /\ inited = FALSE /\ cut = FALSE
    /\ leaks = {} /\ replaced = {} /\ departed = {} /\ told = {} /\ raced = FALSE

Running == {t \in Terminal : proc[t].op # "none"}
Step(t, r) == proc' = [proc EXCEPT ![t] = r]
Goto(t, pc) == Step(t, [proc[t] EXCEPT !.pc = pc])
Begin(t, r) ==
    /\ proc[t] = Idle
    /\ runs < MaxRuns
    /\ runs' = runs + 1
    /\ proc' = [u \in Terminal |->
        IF u = t THEN [r EXCEPT !.beside = {proc[v].op : v \in Running}]
        ELSE IF u \in Running THEN [proc[u] EXCEPT !.beside = @ \cup {r.op}]
        ELSE proc[u]]
At(t, op, pc) == proc[t].op = op /\ proc[t].pc = pc

\* Every verb but init wants the marker.
IsRepo == "marker" \in has
\* Restricted only by a profile that has an allowlist.
RequireAllowed(k) == Allowed # {} => k \in Allowed

-----------------------------------------------------------------------------
\* private init: what is there stays, a hook of the repository's own too; what is
\* missing is written.

StartInit(t) ==
    /\ Begin(t, [Idle EXCEPT !.op = "init", !.pc = "complete", !.todo = Piece])
    /\ UNCHANGED <<token, has, files, history>>

\* A bug to check the properties against: the hooks path only for a new repository.
CompleteIfNew(t, p) ==
    /\ p \in proc[t].todo
    /\ \A q \in proc[t].todo : Stage(p) <= Stage(q)
    /\ has' = IF "git" \in has /\ p = "hooksPath" THEN has ELSE has \cup {p}
    /\ Step(t, [proc[t] EXCEPT !.todo = @ \ {p}])
Complete(t, p) ==
    /\ p \in proc[t].todo
    /\ \A q \in proc[t].todo : Stage(p) <= Stage(q)
    /\ has' = has \cup {p}
    /\ Step(t, [proc[t] EXCEPT !.todo = @ \ {p}])

ScaffoldPiece(t) ==
    /\ At(t, "init", "complete")
    /\ \E p \in Piece : Complete(t, p)
    /\ UNCHANGED <<token, files, runs, history>>

EndInit(t) ==
    /\ At(t, "init", "complete") /\ proc[t].todo = {}
    /\ Step(t, Idle)
    /\ inited' = TRUE
    /\ UNCHANGED <<token, has, files, runs, leaks, replaced, departed, told, cut, raced>>

-----------------------------------------------------------------------------
\* private enroll.

\* The slot is one the listing shows as free: that of --slot, or the first.
FreeSlots(k) == Slot \ token[k]

StartEnroll(t, k, s) ==
    /\ IsRepo
    /\ RequireAllowed(k)
    /\ s \in FreeSlots(k)
    /\ Begin(t, [Idle EXCEPT !.op = "enroll", !.pc = "generate", !.key = {k}, !.slot = s])
    /\ UNCHANGED <<token, has, files, history>>

Serial(t) == CHOOSE k \in proc[t].key : TRUE
New(t) == <<Serial(t), proc[t].slot>>

\* The plugin asks for the management key and a touch, and will not write over an
\* identity: a slot taken since the listing fails the run (Stop).
Generate(t) ==
    /\ At(t, "enroll", "generate")
    /\ proc[t].slot \notin token[Serial(t)]
    /\ token' = [token EXCEPT ![Serial(t)] = @ \cup {proc[t].slot}]
    /\ Goto(t, "stub")
    /\ UNCHANGED <<has, files, runs, history>>

\* The stub is read back from the token and lands under the key's serial.
\* A bug to check the properties against: read back without naming the slot.
StubOfFirst(t) == stub' = [stub EXCEPT ![Serial(t)] = Min(token[Serial(t)])]
\* A bug to check the properties against: the number of the slot counted from 0.
StubNext(t) == stub' = [stub EXCEPT ![Serial(t)] = proc[t].slot + 1]
Stub(t) == stub' = [stub EXCEPT ![Serial(t)] = proc[t].slot]

WriteStub(t) ==
    /\ At(t, "enroll", "stub")
    /\ Stub(t)
    /\ replaced' = replaced \cup ({<<Serial(t), stub[Serial(t)]>>} \cap Identity)
    /\ Goto(t, "read")
    /\ UNCHANGED <<token, has, listed, recipients, cipher, runs, inited, leaks, departed, told, cut, raced>>

ReadRecipients(t) ==
    /\ At(t, "enroll", "read")
    /\ Step(t, [proc[t] EXCEPT !.pc = "append", !.seen = recipients])
    /\ UNCHANGED <<token, has, files, runs, history>>

\* What it read, and the new recipient once.
\* A bug to check the properties against: only when the file is not there yet.
AppendFirst(t) == IF listed THEN recipients ELSE proc[t].seen \cup {New(t)}
Appended(t) == proc[t].seen \cup {New(t)}

\* A bug to check the properties against: a recipients file that is not there is
\* taken for a profile without encryption.
AppendIfListed(t) ==
    /\ At(t, "enroll", "append")
    /\ recipients' = IF listed THEN Appended(t) ELSE recipients
    /\ Goto(t, "tell")
    /\ UNCHANGED <<token, has, stub, listed, cipher, runs, history>>
AppendRecipient(t) ==
    /\ At(t, "enroll", "append")
    /\ recipients' = Appended(t)
    /\ listed' = TRUE
    /\ raced' = (raced \/ ~(recipients \subseteq Appended(t)))
    /\ Goto(t, "tell")
    /\ UNCHANGED <<token, has, stub, cipher, runs, inited, leaks, replaced, departed, told, cut>>

\* Ciphertext already there calls for a rekey.
\* A bug to check the properties against: looks for a file this key alone opens.
HasOwnCiphertext(k) == \E f \in File : cipher[f] # {} /\ cipher[f] \subseteq {k} \X Slot
HasCiphertext(k) == \E f \in File : cipher[f] # {}

\* An encryption that ran meanwhile may have read the recipients before.
Tell(t) ==
    /\ At(t, "enroll", "tell")
    /\ told' = IF HasCiphertext(Serial(t)) \/ "encrypt" \in proc[t].beside
               THEN told \cup {New(t)} ELSE told
    /\ Step(t, Idle)
    /\ UNCHANGED <<token, has, files, runs, inited, leaks, replaced, departed, cut, raced>>

-----------------------------------------------------------------------------
\* private encrypt and rekey.

\* age reads the recipients file; it refuses one that lists nobody.
StartEncrypt(t, f) ==
    /\ IsRepo
    /\ recipients # {}
    /\ Begin(t, [Idle EXCEPT !.op = "encrypt", !.pc = "store", !.todo = {f}, !.seen = recipients])
    /\ UNCHANGED <<token, has, files, history>>

Store(t) ==
    /\ At(t, "encrypt", "store")
    /\ cipher' = [f \in File |-> IF f \in proc[t].todo THEN proc[t].seen ELSE cipher[f]]
    /\ Step(t, Idle)
    /\ UNCHANGED <<token, has, stub, listed, recipients, runs, history>>

\* The entries that are ciphertext, with the one key that is plugged in.
\* A bug to check the properties against: those the key opens, the others skipped.
OpenedBy(k) == {f \in File : <<k, stub[k]>> \in cipher[f]}
ListFiles(k) == {f \in File : cipher[f] # {}}

StartRekey(t, k) ==
    /\ IsRepo
    /\ \E j \in Key : stub[j] # 0
    /\ Begin(t, [Idle EXCEPT !.op = "rekey", !.pc = "rekey", !.key = {k}, !.todo = ListFiles(k)])
    /\ UNCHANGED <<token, has, files, history>>

\* A stub whose slot the plugged-in key holds, among the ciphertext's recipients;
\* otherwise the run fails at this entry (Stop).
Decrypts(k, f) == stub[k] \in token[k] /\ <<k, stub[k]>> \in cipher[f]

\* Decrypted with the stub, encrypted to the recipients file as it is by then.
RekeyFile(t, f) ==
    /\ At(t, "rekey", "rekey")
    /\ f \in proc[t].todo
    /\ Decrypts(Serial(t), f)
    /\ recipients # {}
    /\ cipher' = [cipher EXCEPT ![f] = recipients]
    /\ Step(t, [proc[t] EXCEPT !.todo = @ \ {f}])
    /\ UNCHANGED <<token, has, stub, listed, recipients, runs, history>>

EndRekey(t) ==
    /\ At(t, "rekey", "rekey") /\ proc[t].todo = {}
    /\ Goto(t, "done")
    /\ UNCHANGED <<token, has, files, runs, history>>

\* A run ends: killed, or failed at a step that wants a key, a touch, a PIN or the
\* disk; a rekey that is done has nothing left to lose.
Stop(t) ==
    /\ proc[t].op # "none"
    /\ Step(t, Idle)
    /\ cut' = (cut \/ proc[t].pc \in {"stub", "read", "append"})
    /\ told' = IF proc[t].pc = "tell" THEN told \cup {New(t)} ELSE told
    /\ UNCHANGED <<token, has, files, runs, inited, leaks, replaced, departed, raced>>

-----------------------------------------------------------------------------
\* The user, between commands.

Opens(f, gone) == \E k \in Key \ gone : stub[k] # 0 /\ <<k, stub[k]>> \in cipher[f]

\* Removing a key is deleting its stub and its recipients, while another enrolled
\* key opens everything.
UserRemovesKey(k) ==
    /\ Running = {}
    /\ stub[k] # 0
    /\ \A f \in File : cipher[f] # {} => Opens(f, {k})
    /\ stub' = [stub EXCEPT ![k] = 0]
    /\ recipients' = recipients \ ({k} \X Slot)
    /\ departed' = departed \cup (recipients \cap ({k} \X Slot))
    /\ UNCHANGED <<token, has, listed, cipher, proc, runs, inited, leaks, replaced, told, cut, raced>>

\* private verify --staged, as the pre-commit hook runs it on a plaintext entry:
\* it has a ciphertext beside it, or its name looks sensitive. A hook of the
\* repository's own need not run it.
Finding(f) == cipher[f] # {} \/ f \in Sensitive
Guarded == {"hook", "hooksPath"} \subseteq has /\ "own" \notin has

UserCommitsPlain(f) ==
    /\ "git" \in has
    /\ Finding(f)
    /\ ~Guarded
    /\ leaks' = leaks \cup {IF inited THEN "after" ELSE "before"}
    /\ UNCHANGED <<token, has, files, proc, runs, inited, replaced, departed, told, cut, raced>>

Next ==
    \/ \E t \in Terminal :
        \/ StartInit(t) \/ ScaffoldPiece(t) \/ EndInit(t)
        \/ \E k \in Key : \E s \in Slot : StartEnroll(t, k, s)
        \/ Generate(t) \/ WriteStub(t) \/ ReadRecipients(t) \/ AppendRecipient(t) \/ Tell(t)
        \/ \E f \in File : StartEncrypt(t, f)
        \/ Store(t)
        \/ \E k \in Key : StartRekey(t, k)
        \/ \E f \in File : RekeyFile(t, f)
        \/ EndRekey(t)
        \/ Stop(t)
    \/ \E k \in Key : UserRemovesKey(k)
    \/ \E f \in File : UserCommitsPlain(f)

Spec == Init /\ [][Next]_vars

-----------------------------------------------------------------------------
\* Every ciphertext can be opened with some key and its stub, unless it was
\* encrypted to an identity whose stub a second slot of the same key replaced
\* (IdentityPath names stubs by serial).
CiphertextOpens ==
    \A f \in File : cipher[f] # {} => Opens(f, {}) \/ cipher[f] \cap replaced # {}

\* The shape private verify reports of a profile.
CipherUnlisted == ~listed /\ \E f \in File : cipher[f] # {}
ListedUnstubbed == listed /\ \A k \in Key : stub[k] = 0
StubbedUnlisted == ~listed /\ \E k \in Key : stub[k] # 0

\* When enroll tells the user the key is enrolled, and no other enrolment ran
\* beside it, it is: its stub names the new slot, the slot holds the identity, the
\* recipients list it, and verify finds the profile's shape in order. (Two at once
\* can lose a recipient, or a stub if they enroll the same key.)
EnrolledWhenTold ==
    \A t \in Terminal : At(t, "enroll", "tell") /\ "enroll" \notin proc[t].beside =>
        /\ stub[Serial(t)] = proc[t].slot
        /\ proc[t].slot \in token[Serial(t)]
        /\ New(t) \in recipients
        /\ ~CipherUnlisted /\ ~ListedUnstubbed /\ ~StubbedUnlisted

\* What verify says of a profile's shape is a sign of an enrolment that never
\* finished, or of one still running: never of ciphertext nobody is listed for, and
\* of recipients without stubs only after the user removed the last key.
VerifySound ==
    /\ ~CipherUnlisted
    /\ ListedUnstubbed => departed # {}
    /\ StubbedUnlisted => cut \/ \E t \in Terminal : proc[t].pc \in {"read", "append"}

\* A recipient some ciphertext does not know was announced: enroll told the user to
\* rekey, unless it was cut before it could, an encryption overlapped with it or two
\* enrolments wrote over each other.
UnknownToldOf ==
    raced \/ \A id \in recipients \ told : \A f \in File :
        cipher[f] # {} =>
            \/ id \in cipher[f]
            \/ \E t \in Terminal : At(t, "enroll", "tell") /\ New(t) = id

\* A rekey that completes with no enrolment or encryption beside it leaves every
\* ciphertext at the recipients of now, and so closed to every key removed.
RekeyComplete ==
    \A t \in Terminal :
        proc[t].pc = "done" /\ proc[t].beside \cap {"enroll", "encrypt"} = {} =>
            \A f \in File : cipher[f] # {} => cipher[f] = recipients /\ cipher[f] \cap departed = {}

\* All four: what the commands report is so, and they report what the user has to
\* know.
ReportsTrue == EnrolledWhenTold /\ VerifySound /\ UnknownToldOf /\ RekeyComplete

\* Once private init has completed on a machine, git commits no plaintext that has
\* a ciphertext beside it or a secret's name: also when an earlier init was cut, and
\* on a clone, which does not bring core.hooksPath. But a repository that had a
\* pre-commit hook of its own keeps that one (internal/privdot/scaffold.go:86).
CommitsGuarded == "own" \in has \/ "after" \notin leaks
=============================================================================
