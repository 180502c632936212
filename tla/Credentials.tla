----------------------------- MODULE Credentials -----------------------------
(* dotty env migrate: the setup of fnox (a global config naming an age         *)
(* provider, a software identity parked in the keychain), then the keychain's  *)
(* namespaces and a .env.dotty template carried into it. fnox, the keychain    *)
(* and the disk may fail at any call, and the run may be killed between two.   *)
(*                                                                             *)
(* A secret is a value encrypted to recipients, a default in plain text, or    *)
(* both. age needs no identity to encrypt: only Readable asks whether anything *)
(* can decrypt.                                                                *)
EXTENDS Naturals, Sequences, FiniteSets

CONSTANTS
    Stored,      \* the keychain at the start: namespace -> key -> value
    Template,    \* the lines of the .env.dotty template
    SecurityKey, \* hardware keys that may be enrolled for the private dotfiles
    MaxRuns,     \* bound: runs of the command
    MaxFails,    \* bound: calls that fail, and runs that are killed
    MaxOwn       \* bound: secrets the user has set in fnox at a time

Namespace == DOMAIN Stored
Key == (UNION {DOMAIN Stored[ns] : ns \in Namespace}) \cup {Template[i].key : i \in DOMAIN Template}

\* A quote left open, or a reference mixed with text, is malformed.
LineKind == {"literal", "reference", "malformed"}
ASSUME TemplateAssumption ==
    Template \in Seq([kind : LineKind, key : STRING, ns : STRING, ref : STRING])
ASSUME BoundsAssumption == MaxRuns \in Nat /\ MaxFails \in Nat /\ MaxOwn \in Nat

\* A fnox home: one per namespace in the global config, and the fnox.toml beside
\* the template.
Project == "project"
Target == Namespace \cup {Project}

\* fnox trims what it reads from stdin.
Value == {"plain", "padded", "trimmed", "own"}
Trim(v) == IF v = "padded" THEN "trimmed" ELSE v

ASSUME StoredAssumption ==
    /\ Project \notin Namespace
    /\ \A ns \in Namespace : \A k \in DOMAIN Stored[ns] : Stored[ns][k] \in Value

\* Who can decrypt: the identity one age-keygen made, or a security key.
Recipient == {<<"soft", n>> : n \in 1..MaxRuns} \cup {<<"key", k>> : k \in SecurityKey}
\* default: the literal line it was taken from, 0 with none.
Secret == [value : (Value \ {"padded"}) \cup {"none"}, to : SUBSET Recipient, default : 0..Len(Template)]
Absent == [value |-> "none", to |-> {}, default |-> 0]

VARIABLES
    keychain,   \* the namespaces that still have their item
    config,     \* the global config: is it there, the providers it defines, the age recipients
    identity,   \* which software identity is parked, 0 with none
    scratch,    \* does the config hold the scratch secret?
    secrets,    \* target -> key -> secret
    enrolled,   \* security keys among the private profile's recipients
    run,        \* the command
    runs, fails,
    \* History, read by properties only.
    halfway,    \* did a setup end between the config and the identity it names?
    own,        \* target and key of each secret the user set, not overwritten with --force
    patchy      \* did a run leave a template line behind?

vars == <<keychain, config, identity, scratch, secrets, enrolled, run, runs, fails, halfway, own, patchy>>

Provider == {"age", "keychain"}
Idle == [pc |-> "idle", purge |-> FALSE, force |-> FALSE, dry |-> FALSE, todo |-> {}, ns |-> {},
         keys |-> {}, held |-> {}, failed |-> {}, line |-> 0]
Command == [pc : {"idle", "providers", "write", "park", "scratch", "confirm", "next", "keys", "purge", "file", "line", "end"},
            purge : BOOLEAN, force : BOOLEAN, dry : BOOLEAN, todo : SUBSET Namespace, ns : SUBSET Namespace,
            keys : SUBSET Key, held : SUBSET Key, failed : SUBSET Namespace, line : 0..(Len(Template) + 1)]

TypeOK ==
    /\ keychain \subseteq Namespace
    /\ config \in [there : BOOLEAN, providers : SUBSET Provider, recipients : SUBSET Recipient]
    /\ ~config.there => config.providers = {} /\ ~scratch
    /\ identity \in 0..MaxRuns
    /\ scratch \in BOOLEAN
    /\ secrets \in [Target -> [Key -> Secret]]
    /\ enrolled \subseteq SecurityKey
    /\ run \in Command
    /\ runs \in 0..MaxRuns /\ fails \in 0..MaxFails
    /\ halfway \in BOOLEAN /\ patchy \in BOOLEAN
    /\ own \subseteq Target \X Key

\* No global config, or one the user wrote by hand.
Init ==
    /\ keychain = Namespace
    /\ \E there \in BOOLEAN, ps \in {{}, {"keychain"}} :
        /\ ps # {} => there
        /\ config = [there |-> there, providers |-> ps, recipients |-> {}]
    /\ identity = 0
    /\ scratch = FALSE
    /\ secrets = [t \in Target |-> [k \in Key |-> Absent]]
    /\ enrolled = {}
    /\ run = Idle
    /\ runs = 0 /\ fails = 0
    /\ halfway = FALSE /\ own = {} /\ patchy = FALSE

Goto(pc) == run' = [run EXCEPT !.pc = pc]
Fail == fails < MaxFails /\ fails' = fails + 1

-----------------------------------------------------------------------------
\* Setup.

\* names: those of --namespace, or all the keychain has; none with --skip-keychain.
Start(purge, force, dry, names) ==
    /\ run.pc = "idle"
    /\ runs < MaxRuns
    /\ runs' = runs + 1
    /\ run' = [Idle EXCEPT !.pc = "providers", !.purge = purge, !.force = force, !.dry = dry, !.todo = names]
    /\ UNCHANGED <<keychain, config, identity, scratch, secrets, enrolled, fails, halfway, own, patchy>>

\* With the age provider defined nothing is touched, whatever became of its identity.
Providers ==
    /\ run.pc = "providers"
    /\ Goto(IF "age" \in config.providers THEN "confirm" ELSE "write")
    /\ UNCHANGED <<keychain, config, identity, scratch, secrets, enrolled, runs, fails, halfway, own, patchy>>

\* A bug to check the properties against: only the keys enrolled for recovery.
RecoveryOnly == {<<"key", k>> : k \in enrolled}
Recipients == {<<"soft", runs>>} \cup {<<"key", k>> : k \in enrolled}

\* The identity is in memory; a dry run gets here too.
WriteConfig ==
    /\ run.pc = "write"
    /\ config' = [there |-> TRUE, providers |-> config.providers \cup Provider, recipients |-> Recipients]
    /\ Goto("park")
    /\ UNCHANGED <<keychain, identity, scratch, secrets, enrolled, runs, fails, halfway, own, patchy>>

\* Through a scratch secret of the keychain provider, dropped straight after.
SetKeychainItem ==
    /\ run.pc = "park"
    /\ identity' = runs
    /\ scratch' = TRUE
    /\ Goto("scratch")
    /\ UNCHANGED <<keychain, config, secrets, enrolled, runs, fails, halfway, own, patchy>>

RemoveScratch ==
    /\ run.pc = "scratch"
    /\ scratch' = FALSE
    /\ Goto("confirm")
    /\ UNCHANGED <<keychain, config, identity, secrets, enrolled, runs, fails, halfway, own, patchy>>

-----------------------------------------------------------------------------
\* The keychain's namespaces.

\* Declined, the run goes on without the purge.
ConfirmPurge ==
    /\ run.pc = "confirm"
    /\ \E yes \in BOOLEAN :
        run' = [run EXCEPT !.pc = "next", !.purge = run.purge /\ yes]
    /\ UNCHANGED <<keychain, config, identity, scratch, secrets, enrolled, runs, fails, halfway, own, patchy>>

Keys(t) == {k \in Key : secrets[t][k] # Absent}
\* A bug to check the properties against: what fnox holds is not looked at.
ExistingNone(t) == {}
ExistingKeys(t) == IF run.force THEN {} ELSE Keys(t)

All(ns) == IF ns \in keychain THEN DOMAIN Stored[ns] ELSE {}

ReadNamespace(ns) ==
    /\ run.pc = "next"
    /\ ns \in run.todo
    /\ run' = [run EXCEPT !.pc = "keys", !.todo = @ \ {ns}, !.ns = {ns},
                          !.keys = All(ns), !.held = ExistingKeys(ns)]
    /\ UNCHANGED <<keychain, config, identity, scratch, secrets, enrolled, runs, fails, halfway, own, patchy>>

\* The item, or the list of keys, cannot be read.
NamespaceFails(ns) ==
    /\ run.pc = "next"
    /\ ns \in run.todo
    /\ Fail
    /\ run' = [run EXCEPT !.pc = "purge", !.todo = @ \ {ns}, !.ns = {ns}, !.failed = @ \cup {ns}]
    /\ UNCHANGED <<keychain, config, identity, scratch, secrets, enrolled, runs, halfway, own, patchy>>

\* fnox set, over what the secret was before: a value leaves the default, a default
\* the value.
\* A bug to check the properties against: the value as it was read.
EncryptedRaw(s, v) == [s EXCEPT !.value = v, !.to = config.recipients]
Encrypted(s, v) == [s EXCEPT !.value = Trim(v), !.to = config.recipients]
WithDefault(s, i) == [s EXCEPT !.default = i]

MigrateKey(ns, k) ==
    /\ run.pc = "keys" /\ ns \in run.ns
    /\ k \in run.keys
    /\ secrets' = IF k \in run.held \/ run.dry THEN secrets
                  ELSE [secrets EXCEPT ![ns][k] = Encrypted(secrets[ns][k], Stored[ns][k])]
    /\ own' = IF run.force /\ ~run.dry THEN own \ {<<ns, k>>} ELSE own
    /\ run' = [run EXCEPT !.keys = @ \ {k}]
    /\ UNCHANGED <<keychain, config, identity, scratch, enrolled, runs, fails, halfway, patchy>>

\* A bug to check the properties against: a failure is warned about, not counted.
UncountedKey(ns, k) ==
    /\ run.pc = "keys" /\ ns \in run.ns
    /\ k \in run.keys \ run.held /\ ~run.dry
    /\ Fail
    /\ run' = [run EXCEPT !.keys = @ \ {k}]
    /\ UNCHANGED <<keychain, config, identity, scratch, secrets, enrolled, runs, halfway, own, patchy>>
KeyFails(ns, k) ==
    /\ run.pc = "keys" /\ ns \in run.ns
    /\ k \in run.keys \ run.held /\ ~run.dry
    /\ Fail
    /\ run' = [run EXCEPT !.keys = @ \ {k}, !.failed = @ \cup {ns}]
    /\ UNCHANGED <<keychain, config, identity, scratch, secrets, enrolled, runs, halfway, own, patchy>>

EndNamespace ==
    /\ run.pc = "keys" /\ run.keys = {}
    /\ Goto("purge")
    /\ UNCHANGED <<keychain, config, identity, scratch, secrets, enrolled, runs, fails, halfway, own, patchy>>

Purges(ns) == run.purge /\ ~run.dry /\ ns \notin run.failed

\* The purge itself may fail: warned about, the namespace stays.
Purge ==
    /\ run.pc = "purge"
    /\ \/ /\ keychain' = keychain \ {ns \in run.ns : Purges(ns)}
          /\ UNCHANGED fails
       \/ /\ \E ns \in run.ns : Purges(ns)
          /\ Fail
          /\ UNCHANGED keychain
    /\ run' = [run EXCEPT !.pc = "next", !.ns = {}, !.held = {}, !.failed = {}]
    /\ UNCHANGED <<config, identity, scratch, secrets, enrolled, runs, halfway, own, patchy>>

-----------------------------------------------------------------------------
\* The template.

\* There may be no template to migrate.
EndNamespaces ==
    /\ run.pc = "next" /\ run.todo = {}
    /\ \/ run' = [run EXCEPT !.pc = "line", !.line = 1, !.held = ExistingKeys(Project)]
       \/ Goto("end")
    /\ UNCHANGED <<keychain, config, identity, scratch, secrets, enrolled, runs, fails, halfway, own, patchy>>

Line == Template[run.line]
AtLine == run.pc = "line" /\ run.line \in DOMAIN Template
\* A bug to check the properties against: each line looks again at what is there.
HeldNow(k) == k \in ExistingKeys(Project)
Held(k) == k \in run.held

NextLine == [run EXCEPT !.line = @ + 1]

\* A reference is looked up in the keychain, also when the line's namespace was
\* purged a moment ago.
Resolves(l) ==
    \/ l.kind = "literal"
    \/ l.kind = "reference" /\ l.ns \in keychain /\ l.ref \in DOMAIN Stored[l.ns]
\* A literal becomes the default, a reference the value.
Resolved(i) ==
    LET l == Template[i]
        s == secrets[Project][l.key] IN
    IF l.kind = "literal" THEN WithDefault(s, i) ELSE Encrypted(s, Stored[l.ns][l.ref])

SkipLine ==
    /\ AtLine
    /\ Line.kind # "malformed"
    /\ Held(Line.key) \/ run.dry
    /\ run' = NextLine
    /\ UNCHANGED <<keychain, config, identity, scratch, secrets, enrolled, runs, fails, halfway, own, patchy>>

MigrateLine ==
    /\ AtLine
    /\ Resolves(Line)
    /\ ~Held(Line.key) /\ ~run.dry
    /\ secrets' = [secrets EXCEPT ![Project][Line.key] = Resolved(run.line)]
    /\ own' = IF run.force /\ Line.kind = "reference" THEN own \ {<<Project, Line.key>>} ELSE own
    /\ run' = NextLine
    /\ UNCHANGED <<keychain, config, identity, scratch, enrolled, runs, fails, halfway, patchy>>

\* Malformed, not in the keychain (any more), or fnox fails: reported, and on to the
\* next.
LineFails ==
    /\ AtLine
    /\ \/ ~Resolves(Line) /\ UNCHANGED fails
       \/ Resolves(Line) /\ Fail
    /\ Line.kind = "malformed" \/ (~Held(Line.key) /\ ~run.dry)
    /\ run' = NextLine
    /\ patchy' = (patchy \/ Line.kind # "malformed")
    /\ UNCHANGED <<keychain, config, identity, scratch, secrets, enrolled, runs, halfway, own>>

EndLines ==
    /\ run.pc = "line" /\ run.line > Len(Template)
    /\ Goto("end")
    /\ UNCHANGED <<keychain, config, identity, scratch, secrets, enrolled, runs, fails, halfway, own, patchy>>

\* Reported, and over.
End ==
    /\ run.pc = "end"
    /\ run' = Idle
    /\ UNCHANGED <<keychain, config, identity, scratch, secrets, enrolled, runs, fails, halfway, own, patchy>>

\* Killed, or failed where a failure ends the run.
Stop ==
    /\ run.pc \notin {"idle", "end"}
    /\ Fail
    /\ run' = Idle
    /\ halfway' = (halfway \/ run.pc = "park")
    /\ patchy' = (patchy \/ run.pc = "line")
    /\ UNCHANGED <<keychain, config, identity, scratch, secrets, enrolled, runs, own>>

-----------------------------------------------------------------------------
\* The user, between runs.

UserSets(t, k) ==
    /\ run = Idle
    /\ "age" \in config.providers
    /\ secrets[t][k] = Absent
    /\ Cardinality(own) < MaxOwn
    /\ secrets' = [secrets EXCEPT ![t][k] = [value |-> "own", to |-> config.recipients, default |-> 0]]
    /\ own' = own \cup {<<t, k>>}
    /\ UNCHANGED <<keychain, config, identity, scratch, enrolled, run, runs, fails, halfway, patchy>>

UserEnrolls(k) ==
    /\ run = Idle
    /\ k \notin enrolled
    /\ enrolled' = enrolled \cup {k}
    /\ UNCHANGED <<keychain, config, identity, scratch, secrets, run, runs, fails, halfway, own, patchy>>

Next ==
    \/ \E purge, force, dry \in BOOLEAN, names \in SUBSET Namespace : Start(purge, force, dry, names)
    \/ Providers \/ WriteConfig \/ SetKeychainItem \/ RemoveScratch
    \/ ConfirmPurge
    \/ \E ns \in Namespace :
        \/ ReadNamespace(ns) \/ NamespaceFails(ns)
        \/ \E k \in Key : MigrateKey(ns, k) \/ KeyFails(ns, k)
    \/ EndNamespace \/ Purge \/ EndNamespaces
    \/ SkipLine \/ MigrateLine \/ LineFails \/ EndLines \/ End
    \/ Stop
    \/ \E t \in Target, k \in Key : UserSets(t, k)
    \/ \E k \in SecurityKey : UserEnrolls(k)

Spec == Init /\ [][Next]_vars

-----------------------------------------------------------------------------
Opens(r) ==
    \/ r = <<"soft", identity>>
    \/ \E k \in enrolled : r = <<"key", k>>
Readable(s) == IF s.value = "none" THEN s.default # 0 ELSE \E r \in s.to : Opens(r)
Carried(ns, k) == secrets[ns][k].value = Trim(Stored[ns][k])

\* A credential of the keychain is never lost: until its namespace is purged it is
\* there, and afterwards fnox holds it, whitespace trimmed, where something can
\* decrypt it. Excepted are a key the user had set in fnox himself, which is skipped
\* and purged all the same (envmigrate/migrate.go:158), and a setup that ended
\* before its identity was parked, which no later run repairs.
CredentialKept ==
    \A ns \in Namespace : \A k \in DOMAIN Stored[ns] :
        \/ ns \in keychain
        \/ <<ns, k>> \in own
        \/ Carried(ns, k) /\ (halfway \/ Readable(secrets[ns][k]))

\* The same without the second exception: what the command's help promises.
CredentialReadable ==
    \A ns \in Namespace : \A k \in DOMAIN Stored[ns] :
        ns \in keychain \/ <<ns, k>> \in own \/ Readable(secrets[ns][k])

\* Unless a setup ended half way, every secret of every target can be decrypted on
\* this machine without a security key.
SecretsOpen ==
    halfway \/ \A t \in Target : \A k \in Key :
        secrets[t][k].value # "none" => <<"soft", identity>> \in secrets[t][k].to

\* When a run has gone through the template, and no line was ever left behind, each
\* key has what its last line says, as a shell sourcing the file would: the value of
\* the reference, or the literal as default with no value to hide it. Excepted are
\* what the user set in fnox himself, and a literal after a reference to the same
\* key, whose value stays (internal/fnox/client.go:138).
LastOf(k) == {i \in DOMAIN Template :
    /\ Template[i].key = k /\ Template[i].kind # "malformed"
    /\ \A j \in (i + 1)..Len(Template) : Template[j].key = k => Template[j].kind = "malformed"}
Given(k, i) ==
    IF Template[i].kind = "literal" THEN secrets[Project][k].default = i
    ELSE secrets[Project][k].value = Trim(Stored[Template[i].ns][Template[i].ref])
Referenced(k) == \E j \in DOMAIN Template : Template[j].key = k /\ Template[j].kind = "reference"
LastLineWins ==
    run.pc = "end" /\ run.line # 0 /\ ~run.dry /\ ~patchy =>
        \A k \in Key : \A i \in LastOf(k) :
            \/ <<Project, k>> \in own
            \/ Given(k, i) /\ (secrets[Project][k].value = "none" \/ Referenced(k))

\* The value the user set stays what it is until a run with --force writes another.
OwnKept == \A x \in own : secrets[x[1]][x[2]].value = "own"

\* All three: a secret of fnox opens, and is the one the user would expect there.
SecretsRight == SecretsOpen /\ LastLineWins /\ OwnKept
=============================================================================
