-------------------------- MODULE CredentialsProofs --------------------------
(* Proofs about Credentials, for any keychain, template, keys and bounds. *)
EXTENDS Credentials, TLAPS

-----------------------------------------------------------------------------
\* The data: keys, lines and what a migration makes of a value.

LEMMA Keys1 ==
    /\ Namespace \subseteq Target /\ Project \in Target
    /\ \A ns \in Namespace : DOMAIN Stored[ns] \subseteq Key
    /\ \A i \in DOMAIN Template : Template[i].key \in Key
<1>1. Namespace \subseteq Target /\ Project \in Target
  BY DEF Target
<1>2. ASSUME NEW ns \in Namespace, NEW k \in DOMAIN Stored[ns] PROVE k \in Key
  BY Zenon DEF Key
<1>3. ASSUME NEW i \in DOMAIN Template PROVE Template[i].key \in Key
  <2>1. Template[i].key \in {Template[j].key : j \in DOMAIN Template}
    OBVIOUS
  <2> QED BY <2>1 DEF Key
<1> QED BY <1>1, <1>2, <1>3

LEMMA Lines ==
    /\ Len(Template) \in Nat /\ DOMAIN Template = 1..Len(Template)
    /\ \A i \in DOMAIN Template : Template[i].kind \in LineKind
<1> DEFINE TemplateLine == [kind : LineKind, key : STRING, ns : STRING, ref : STRING]
<1>1. \A l \in TemplateLine : l.kind \in LineKind
  OBVIOUS
<1>2. Template \in Seq(TemplateLine)
  BY TemplateAssumption
<1> HIDE DEF TemplateLine
<1>3. Len(Template) \in Nat /\ DOMAIN Template = 1..Len(Template)
  BY <1>2
<1>4. \A i \in DOMAIN Template : Template[i] \in TemplateLine
  BY <1>2, <1>3
<1> QED BY <1>1, <1>3, <1>4

LEMMA AbsentIsNone == Absent \in Secret /\ Absent.value = "none" /\ Absent.default = 0
BY Lines DEF Absent, Secret, Value

LEMMA IdleTyped == Idle \in Command
BY Lines DEF Idle, Command

LEMMA IdleFields ==
    /\ Idle.pc = "idle" /\ Idle.purge = FALSE /\ Idle.force = FALSE /\ Idle.dry = FALSE
    /\ Idle.todo = {} /\ Idle.ns = {} /\ Idle.keys = {} /\ Idle.held = {} /\ Idle.failed = {} /\ Idle.line = 0
BY DEF Idle

LEMMA Trimmed == \A v \in Value : Trim(v) \in Value \ {"padded"} /\ Trim(v) # "none"
BY DEF Trim, Value

\* The value of a secret is replaced, and so is who it is for.
LEMMA EncryptedIs ==
    ASSUME TypeOK, NEW s \in Secret, NEW ns \in Namespace, NEW k \in DOMAIN Stored[ns]
    PROVE  /\ Encrypted(s, Stored[ns][k]) \in Secret
           /\ Encrypted(s, Stored[ns][k]).value = Trim(Stored[ns][k])
           /\ Encrypted(s, Stored[ns][k]).value # "none"
           /\ Encrypted(s, Stored[ns][k]).to = config.recipients
           /\ Encrypted(s, Stored[ns][k]).default = s.default
<1>1. Trim(Stored[ns][k]) \in Value \ {"padded"} /\ Trim(Stored[ns][k]) # "none"
  BY StoredAssumption, Trimmed
<1>2. config.recipients \in SUBSET Recipient
  BY DEF TypeOK
<1> QED BY <1>1, <1>2 DEF Encrypted, Secret

LEMMA SecretAt == ASSUME TypeOK, NEW t \in Target, NEW k \in Key PROVE secrets[t][k] \in Secret
BY DEF TypeOK

\* What a line leaves: a literal another default, a reference another value.
LEMMA ResolvedIs ==
    ASSUME TypeOK, NEW i \in DOMAIN Template, Resolves(Template[i])
    PROVE  /\ Resolved(i) \in Secret
           /\ Template[i].kind = "literal" =>
                /\ Resolved(i).value = secrets[Project][Template[i].key].value
                /\ Resolved(i).to = secrets[Project][Template[i].key].to
                /\ Resolved(i).default = i
           /\ Template[i].kind # "literal" =>
                /\ Template[i].kind = "reference"
                /\ Resolved(i).value = Trim(Stored[Template[i].ns][Template[i].ref])
                /\ Resolved(i).to = config.recipients
<1> DEFINE s == secrets[Project][Template[i].key]
<1>1. s \in Secret
  BY Keys1, SecretAt
<1>2. CASE Template[i].kind = "literal"
  <2>1. Resolved(i) = [s EXCEPT !.default = i]
    BY <1>2 DEF Resolved, WithDefault
  <2>2. i \in 0..Len(Template)
    BY Lines
  <2> HIDE DEF s
  <2>3. /\ Resolved(i) \in Secret /\ Resolved(i).value = s.value /\ Resolved(i).to = s.to
        /\ Resolved(i).default = i
    BY <1>1, <2>1, <2>2 DEF Secret
  <2> QED BY <1>2, <2>3 DEF s
<1>3. CASE Template[i].kind # "literal"
  <2>1. /\ Template[i].kind = "reference" /\ Template[i].ns \in Namespace
        /\ Template[i].ref \in DOMAIN Stored[Template[i].ns]
    BY <1>3 DEF Resolves, TypeOK
  <2>2. Resolved(i) = Encrypted(s, Stored[Template[i].ns][Template[i].ref])
    BY <1>3 DEF Resolved
  <2> HIDE DEF s
  <2> QED BY <1>1, <1>3, <2>1, <2>2, EncryptedIs
<1> QED BY <1>2, <1>3

-----------------------------------------------------------------------------
\* The command's record, step by step.

Unmoved(r) ==
    /\ run'.purge = r.purge /\ run'.force = r.force /\ run'.dry = r.dry /\ run'.todo = r.todo
    /\ run'.ns = r.ns /\ run'.keys = r.keys /\ run'.held = r.held /\ run'.failed = r.failed
    /\ run'.line = r.line

PCs == {"idle", "providers", "write", "park", "scratch", "confirm", "next", "keys", "purge", "file", "line", "end"}

LEMMA GotoDoes ==
    ASSUME TypeOK, NEW pc \in PCs, Goto(pc)
    PROVE  run' \in Command /\ run'.pc = pc /\ Unmoved(run)
BY DEF TypeOK, Command, Goto, Unmoved, PCs

LEMMA StartDoes ==
    ASSUME TypeOK, NEW purge \in BOOLEAN, NEW force \in BOOLEAN, NEW dry \in BOOLEAN,
           NEW names \in SUBSET Namespace, Start(purge, force, dry, names)
    PROVE  /\ run' \in Command /\ run'.pc = "providers"
           /\ run'.ns = {} /\ run'.keys = {} /\ run'.held = {} /\ run'.line = 0
<1>2. run' = [Idle EXCEPT !.pc = "providers", !.purge = purge, !.force = force, !.dry = dry,
                           !.todo = names]
  BY DEF Start
<1>3. /\ run'.pc = "providers"
      /\ run'.ns = {} /\ run'.keys = {} /\ run'.held = {} /\ run'.line = 0
  BY <1>2 DEF Idle
<1>4. run' = [pc |-> "providers", purge |-> purge, force |-> force, dry |-> dry,
              todo |-> names, ns |-> {}, keys |-> {},
              held |-> {}, failed |-> {}, line |-> 0]
  BY <1>2 DEF Idle
<1>5. run' \in Command
  BY <1>4, Lines DEF Command
<1> QED BY <1>3, <1>5

LEMMA ConfirmDoes ==
    ASSUME TypeOK, ConfirmPurge
    PROVE  /\ run' \in Command /\ run.pc = "confirm" /\ run'.pc = "next" /\ run'.dry = run.dry
           /\ run'.force = run.force
           /\ run'.ns = run.ns /\ run'.keys = run.keys /\ run'.held = run.held /\ run'.line = run.line
BY DEF TypeOK, Command, ConfirmPurge

LEMMA HeldIs == ASSUME NEW t PROVE /\ ExistingKeys(t) \subseteq Key
                                   /\ \A k \in ExistingKeys(t) : secrets[t][k] # Absent
                                   /\ run.force => ExistingKeys(t) = {}
                                   /\ ~run.force => ExistingKeys(t) = {k \in Key : secrets[t][k] # Absent}
BY DEF ExistingKeys, Keys

LEMMA ReadDoes ==
    ASSUME TypeOK, NEW ns \in Namespace, ReadNamespace(ns)
    PROVE  /\ run' \in Command /\ run.pc = "next" /\ run'.pc = "keys"
           /\ run'.ns = {ns} /\ run'.keys = All(ns) /\ run'.held = ExistingKeys(ns)
           /\ run'.force = run.force /\ run'.dry = run.dry /\ run'.line = run.line
<1>1. All(ns) \subseteq Key
  BY Keys1 DEF All
<1>2. ExistingKeys(ns) \subseteq Key
  BY HeldIs
<1>3. /\ run \in Command
      /\ run' = [run EXCEPT !.pc = "keys", !.todo = run.todo \ {ns}, !.ns = {ns},
                            !.keys = All(ns), !.held = ExistingKeys(ns)]
  BY DEF ReadNamespace, TypeOK
<1>4. run.todo \ {ns} \in SUBSET Namespace /\ {ns} \in SUBSET Namespace
  BY <1>3 DEF Command
<1>5. run' \in Command
  BY <1>1, <1>2, <1>3, <1>4 DEF Command
<1>6. /\ run'.pc = "keys" /\ run'.ns = {ns} /\ run'.keys = All(ns) /\ run'.held = ExistingKeys(ns)
      /\ run'.force = run.force /\ run'.dry = run.dry /\ run'.line = run.line
  BY <1>3 DEF Command
<1> QED BY <1>5, <1>6 DEF ReadNamespace

LEMMA NamespaceFailsDoes ==
    ASSUME TypeOK, NEW ns \in Namespace, NamespaceFails(ns)
    PROVE  /\ run' \in Command /\ run.pc = "next" /\ run'.pc = "purge"
           /\ run'.ns = {ns} /\ run'.held = run.held /\ run'.failed = run.failed \cup {ns}
           /\ run'.force = run.force /\ run'.dry = run.dry /\ run'.line = run.line
<1>1. /\ run \in Command
      /\ run' = [run EXCEPT !.pc = "purge", !.todo = run.todo \ {ns}, !.ns = {ns},
                            !.failed = run.failed \cup {ns}]
  BY DEF NamespaceFails, TypeOK
<1>2. /\ run.todo \ {ns} \in SUBSET Namespace /\ {ns} \in SUBSET Namespace
      /\ run.failed \cup {ns} \in SUBSET Namespace
  BY <1>1 DEF Command
<1>3. run' \in Command
  BY <1>1, <1>2 DEF Command
<1>4. /\ run'.pc = "purge" /\ run'.ns = {ns} /\ run'.held = run.held
      /\ run'.failed = run.failed \cup {ns}
      /\ run'.force = run.force /\ run'.dry = run.dry /\ run'.line = run.line
  BY <1>1 DEF Command
<1> QED BY <1>3, <1>4 DEF NamespaceFails

LEMMA KeyDoes ==
    ASSUME TypeOK, NEW ns \in Namespace, NEW k \in Key, MigrateKey(ns, k) \/ KeyFails(ns, k)
    PROVE  /\ run' \in Command /\ run.pc = "keys" /\ run'.pc = "keys" /\ ns \in run.ns /\ k \in run.keys
           /\ run'.ns = run.ns /\ run'.keys = run.keys \ {k} /\ run'.held = run.held
           /\ KeyFails(ns, k) => ns \in run'.failed
           /\ run.failed \subseteq run'.failed
           /\ run'.force = run.force /\ run'.dry = run.dry /\ run'.line = run.line
<1>1. run \in Command
  BY DEF TypeOK
<1>2. CASE MigrateKey(ns, k) /\ ~KeyFails(ns, k)
  <2>1. run' = [run EXCEPT !.keys = run.keys \ {k}]
    BY <1>2 DEF MigrateKey
  <2>2. run' \in Command
    BY <1>1, <2>1 DEF Command
  <2> QED BY <1>1, <1>2, <2>1, <2>2 DEF MigrateKey, Command
<1>3. CASE KeyFails(ns, k)
  <2>1. run' = [run EXCEPT !.keys = run.keys \ {k}, !.failed = run.failed \cup {ns}]
    BY <1>3 DEF KeyFails
  <2>2. run.failed \cup {ns} \in SUBSET Namespace /\ run.keys \ {k} \in SUBSET Key
    BY <1>1 DEF Command
  <2>3. run' \in Command
    BY <1>1, <2>1, <2>2 DEF Command
  <2> QED BY <1>1, <1>3, <2>1, <2>3 DEF KeyFails, Command
<1> QED BY <1>2, <1>3

LEMMA PurgeDoes ==
    ASSUME TypeOK, Purge
    PROVE  /\ run' \in Command /\ run.pc = "purge" /\ run'.pc = "next" /\ run'.ns = {} /\ run'.held = {}
           /\ run'.force = run.force /\ run'.dry = run.dry /\ run'.line = run.line
BY DEF TypeOK, Command, Purge

\* From the namespaces to the template's first line, or to the end without one.
LEMMA EndNamespacesDoes ==
    ASSUME TypeOK, EndNamespaces
    PROVE  /\ run' \in Command /\ run.pc = "next" /\ run'.force = run.force /\ run'.dry = run.dry
           /\ \/ run'.pc = "line" /\ run'.line = 1 /\ run'.held = ExistingKeys(Project)
              \/ run'.pc = "end" /\ run'.line = run.line /\ run'.held = run.held
<1>1. ExistingKeys(Project) \subseteq Key
  BY HeldIs
<1>2. 1 \in 0..(Len(Template) + 1)
  BY Lines
<1> QED BY <1>1, <1>2 DEF EndNamespaces, TypeOK, Command, Goto

\* On to the next line.
LEMMA LineDoes ==
    ASSUME TypeOK, SkipLine \/ MigrateLine \/ LineFails
    PROVE  /\ run' \in Command /\ run.pc = "line" /\ run'.pc = "line"
           /\ run.line \in DOMAIN Template /\ run'.line = run.line + 1
           /\ run'.held = run.held /\ run'.force = run.force /\ run'.dry = run.dry
<1>1. run \in Command /\ run.line \in DOMAIN Template /\ run.pc = "line"
  BY DEF TypeOK, SkipLine, MigrateLine, LineFails, AtLine
<1>2. run.line + 1 \in 0..(Len(Template) + 1)
  BY <1>1, Lines
<1>3. run' = [run EXCEPT !.line = run.line + 1]
  BY DEF SkipLine, MigrateLine, LineFails, NextLine
<1> QED BY <1>1, <1>2, <1>3 DEF Command

-----------------------------------------------------------------------------
\* The setup: once there is a provider, what it encrypts to includes the identity
\* parked, unless the setup ended between the two; and nothing is encrypted before.

Empty == \A t \in Target : \A k \in Key : secrets[t][k] = Absent
Parked == halfway \/ <<"soft", identity>> \in config.recipients

SetupInv ==
    /\ run.pc # "idle" => runs \in 1..MaxRuns
    /\ "age" \in config.providers => config.there
    /\ "age" \notin config.providers => Empty /\ run.pc \in {"idle", "providers", "write"}
    /\ run.pc = "write" => "age" \notin config.providers
    /\ run.pc = "park" => Empty /\ <<"soft", runs>> \in config.recipients
    /\ "age" \in config.providers /\ run.pc # "park" => Parked
    /\ \A t \in Target : \A k \in Key :
          secrets[t][k].value # "none" => secrets[t][k].to = config.recipients

\* The keys at hand are those of the namespace at hand; with --force none is held.
KeysInv ==
    /\ run.pc = "keys" => \A ns, n \in run.ns :
          ns \in Namespace /\ run.keys \subseteq DOMAIN Stored[ns] /\ ns = n
    /\ run.force => run.held = {}
    /\ run.pc \notin {"line", "end"} => run.line = 0

TypeInv == TypeOK /\ SetupInv /\ KeysInv

LEMMA KeyTyped ==
    ASSUME TypeInv, NEW ns \in Namespace, NEW k \in Key, run.pc = "keys", ns \in run.ns, k \in run.keys
    PROVE  /\ k \in DOMAIN Stored[ns]
           /\ Encrypted(secrets[ns][k], Stored[ns][k]) \in Secret
           /\ Encrypted(secrets[ns][k], Stored[ns][k]).value = Trim(Stored[ns][k])
           /\ Encrypted(secrets[ns][k], Stored[ns][k]).value # "none"
           /\ Encrypted(secrets[ns][k], Stored[ns][k]).to = config.recipients
<1>1. k \in DOMAIN Stored[ns]
  BY DEF TypeInv, KeysInv
<1>2. TypeOK /\ secrets[ns][k] \in Secret
  BY Keys1, SecretAt DEF TypeInv
<1> QED BY <1>1, <1>2, EncryptedIs

LEMMA RecipientsTyped ==
    ASSUME TypeOK, runs \in 1..MaxRuns
    PROVE  Recipients \subseteq Recipient /\ <<"soft", runs>> \in Recipients
BY DEF Recipients, Recipient, TypeOK

\* A secret that is written keeps the table's type.
LEMMA SecretTyped ==
    ASSUME TypeOK, NEW t \in Target, NEW k \in Key, NEW s \in Secret,
           secrets' = [secrets EXCEPT ![t][k] = s]
    PROVE  /\ secrets' \in [Target -> [Key -> Secret]]
           /\ secrets'[t][k] = s
           /\ \A u \in Target : \A j \in Key : u # t \/ j # k => secrets'[u][j] = secrets[u][j]
BY DEF TypeOK

LEMMA InitTyped == Init => TypeInv
<1> SUFFICES ASSUME Init PROVE TypeInv
  OBVIOUS
<1>1. runs \in 0..MaxRuns /\ fails \in 0..MaxFails /\ identity \in 0..MaxRuns
  BY BoundsAssumption DEF Init
<1>2. config \in [there : BOOLEAN, providers : SUBSET Provider, recipients : SUBSET Recipient]
  BY DEF Init, Provider
<1>3. ~config.there => config.providers = {} /\ ~scratch
  BY DEF Init
<1>4. secrets \in [Target -> [Key -> Secret]] /\ Empty
  BY AbsentIsNone DEF Init, Empty
<1>5. run \in Command
  BY IdleTyped DEF Init
<1>6. TypeOK
  BY <1>1, <1>2, <1>3, <1>4, <1>5 DEF Init, TypeOK
<1>7. SetupInv
  BY <1>4, IdleFields, AbsentIsNone DEF Init, SetupInv, Empty
<1>8. KeysInv
  BY IdleFields DEF Init, KeysInv
<1> QED BY <1>6, <1>7, <1>8 DEF TypeInv

\* A step of a command whose setup is over, or that ends it.
LEMMA SetupStep ==
    ASSUME SetupInv, run.pc # "idle", UNCHANGED <<config, identity, runs>>, halfway => halfway',
           \A t \in Target : \A k \in Key :
                \/ secrets'[t][k] = secrets[t][k]
                \/ /\ "age" \in config.providers
                   /\ \/ secrets'[t][k].to = config.recipients
                      \/ secrets'[t][k].value = "none",
           run'.pc \notin {"write", "park"},
           "age" \in config.providers \/ run'.pc = "idle",
           run.pc = "park" => halfway'
    PROVE  SetupInv'
<1>1. "age" \notin config.providers => Empty'
  BY DEF SetupInv, Empty
<1>2. "age" \in config.providers => Parked'
  BY DEF SetupInv, Parked
<1>3. \A t \in Target : \A k \in Key :
          secrets'[t][k].value # "none" => secrets'[t][k].to = config'.recipients
  BY DEF SetupInv
<1> QED BY <1>1, <1>2, <1>3 DEF SetupInv

LEMMA StartKeeps ==
    ASSUME TypeInv, NEW purge \in BOOLEAN, NEW force \in BOOLEAN, NEW dry \in BOOLEAN,
           NEW names \in SUBSET Namespace, Start(purge, force, dry, names)
    PROVE  TypeInv'
<1>1. run' \in Command /\ run'.pc = "providers" /\ run'.held = {} /\ run'.line = 0
  BY StartDoes DEF TypeInv
<1>2. runs' \in 1..MaxRuns /\ run.pc = "idle"
  BY BoundsAssumption DEF Start, TypeInv, TypeOK
<1>3. UNCHANGED <<keychain, config, identity, scratch, secrets, enrolled, fails, halfway, own, patchy>>
  BY DEF Start
<1>4. TypeOK'
  BY <1>1, <1>2, <1>3 DEF TypeInv, TypeOK
<1>5. SetupInv'
  BY <1>1, <1>2, <1>3 DEF TypeInv, SetupInv, Empty, Parked
<1> QED BY <1>1, <1>4, <1>5 DEF TypeInv, KeysInv

LEMMA SetupKeeps ==
    ASSUME TypeInv, Providers \/ WriteConfig \/ SetKeychainItem \/ RemoveScratch
    PROVE  TypeInv'
<1>1. CASE Providers
  <2>1. /\ run' \in Command /\ run'.pc \in {"confirm", "write"} /\ Unmoved(run)
        /\ run'.pc = "confirm" <=> "age" \in config.providers
        /\ run.pc = "providers"
    BY <1>1, GotoDoes DEF Providers, TypeInv, PCs
  <2>2. UNCHANGED <<keychain, config, identity, scratch, secrets, enrolled, runs, fails, halfway, own, patchy>>
    BY <1>1 DEF Providers
  <2>3. TypeOK'
    BY <2>1, <2>2 DEF TypeInv, TypeOK
  <2>4. SetupInv'
    BY <2>1, <2>2 DEF TypeInv, SetupInv, Empty, Parked
  <2>5. KeysInv'
    BY <2>1 DEF TypeInv, KeysInv, Unmoved
  <2> QED BY <2>3, <2>4, <2>5 DEF TypeInv
<1>2. CASE WriteConfig
  <2>1. run' \in Command /\ run'.pc = "park" /\ Unmoved(run) /\ run.pc = "write"
    BY <1>2, GotoDoes DEF WriteConfig, TypeInv, PCs
  <2>2. /\ config'.there = TRUE /\ config'.providers = config.providers \cup Provider
        /\ config'.recipients = Recipients
        /\ UNCHANGED <<keychain, identity, scratch, secrets, enrolled, runs, fails, halfway, own, patchy>>
    BY <1>2 DEF WriteConfig
  <2>3. runs \in 1..MaxRuns /\ Empty
    BY <2>1 DEF TypeInv, SetupInv
  <2>4. Recipients \subseteq Recipient /\ <<"soft", runs>> \in Recipients
    BY <2>3, RecipientsTyped DEF TypeInv
  <2>5. config' \in [there : BOOLEAN, providers : SUBSET Provider, recipients : SUBSET Recipient]
    BY <1>2, <2>4 DEF WriteConfig, TypeInv, TypeOK
  <2>6. TypeOK'
    BY <2>1, <2>2, <2>5 DEF TypeInv, TypeOK
  <2>7. Empty'
    BY <2>2, <2>3 DEF Empty
  <2>8. SetupInv'
    BY <2>1, <2>2, <2>3, <2>4, <2>7, AbsentIsNone DEF SetupInv, Empty, Provider
  <2>9. KeysInv'
    BY <2>1 DEF TypeInv, KeysInv, Unmoved
  <2> QED BY <2>6, <2>8, <2>9 DEF TypeInv
<1>3. CASE SetKeychainItem
  <2>1. run' \in Command /\ run'.pc = "scratch" /\ Unmoved(run) /\ run.pc = "park"
    BY <1>3, GotoDoes DEF SetKeychainItem, TypeInv, PCs
  <2>2. /\ identity' = runs /\ scratch' = TRUE
        /\ UNCHANGED <<keychain, config, secrets, enrolled, runs, fails, halfway, own, patchy>>
    BY <1>3 DEF SetKeychainItem
  <2>3. /\ "age" \in config.providers /\ config.there /\ Empty
        /\ <<"soft", runs>> \in config.recipients /\ runs \in 1..MaxRuns
    BY <2>1 DEF TypeInv, SetupInv
  <2>4. TypeOK'
    BY <2>1, <2>2, <2>3 DEF TypeInv, TypeOK
  <2>5. SetupInv'
    BY <2>1, <2>2, <2>3, AbsentIsNone DEF SetupInv, Empty, Parked
  <2>6. KeysInv'
    BY <2>1 DEF TypeInv, KeysInv, Unmoved
  <2> QED BY <2>4, <2>5, <2>6 DEF TypeInv
<1>4. CASE RemoveScratch
  <2>1. run' \in Command /\ run'.pc = "confirm" /\ Unmoved(run) /\ run.pc = "scratch"
    BY <1>4, GotoDoes DEF RemoveScratch, TypeInv, PCs
  <2>2. /\ scratch' = FALSE
        /\ UNCHANGED <<keychain, config, identity, secrets, enrolled, runs, fails, halfway, own, patchy>>
    BY <1>4 DEF RemoveScratch
  <2>3. "age" \in config.providers
    BY <2>1 DEF TypeInv, SetupInv
  <2>4. TypeOK'
    BY <2>1, <2>2 DEF TypeInv, TypeOK
  <2>5. SetupInv'
    BY <2>1, <2>2, <2>3, SetupStep DEF TypeInv
  <2>6. KeysInv'
    BY <2>1 DEF TypeInv, KeysInv, Unmoved
  <2> QED BY <2>4, <2>5, <2>6 DEF TypeInv
<1> QED BY <1>1, <1>2, <1>3, <1>4

\* The steps of the keychain and of the template that write no secret.
LEMMA QuietKeeps ==
    ASSUME TypeInv, run' \in Command, run.pc \notin {"idle", "providers", "write", "park"},
           run'.pc \notin {"idle", "providers", "write", "park"},
           UNCHANGED <<config, identity, scratch, secrets, enrolled, runs, halfway>>,
           keychain' \subseteq keychain, own' \subseteq own, patchy' \in BOOLEAN, fails' \in 0..MaxFails,
           KeysInv'
    PROVE  TypeInv'
<1>1. "age" \in config.providers
  BY DEF TypeInv, SetupInv
<1>2. SetupInv'
  BY <1>1, SetupStep DEF TypeInv
<1>3. TypeOK'
  BY DEF TypeInv, TypeOK
<1> QED BY <1>2, <1>3 DEF TypeInv

LEMMA FailTyped == ASSUME TypeOK, Fail PROVE fails' \in 0..MaxFails
BY BoundsAssumption DEF TypeOK, Fail

LEMMA NamespaceKeeps ==
    ASSUME TypeInv,
           \/ ConfirmPurge \/ EndNamespace \/ Purge \/ EndNamespaces
           \/ \E ns \in Namespace : ReadNamespace(ns) \/ NamespaceFails(ns)
    PROVE  TypeInv'
<1>1. CASE ConfirmPurge
  <2>1. KeysInv'
    BY <1>1, ConfirmDoes DEF TypeInv, KeysInv
  <2> QED BY <1>1, <2>1, ConfirmDoes, QuietKeeps DEF ConfirmPurge, TypeInv, TypeOK
<1>2. CASE EndNamespace
  <2>1. run' \in Command /\ run.pc = "keys" /\ run'.pc = "purge" /\ Unmoved(run)
    BY <1>2, GotoDoes DEF EndNamespace, TypeInv, PCs
  <2>2. KeysInv'
    BY <2>1 DEF TypeInv, KeysInv, Unmoved
  <2> QED BY <1>2, <2>1, <2>2, QuietKeeps DEF EndNamespace, TypeInv, TypeOK
<1>3. CASE Purge
  <2>1. KeysInv'
    BY <1>3, PurgeDoes DEF TypeInv, KeysInv
  <2>2. fails' \in 0..MaxFails /\ keychain' \subseteq keychain
    BY <1>3, FailTyped DEF Purge, TypeInv, TypeOK
  <2> QED BY <1>3, <2>1, <2>2, PurgeDoes, QuietKeeps DEF Purge, TypeInv, TypeOK
<1>4. CASE EndNamespaces
  <2>1. KeysInv'
    BY <1>4, EndNamespacesDoes, HeldIs DEF TypeInv, KeysInv
  <2> QED BY <1>4, <2>1, EndNamespacesDoes, QuietKeeps DEF EndNamespaces, TypeInv, TypeOK
<1>5. ASSUME NEW ns \in Namespace, ReadNamespace(ns) PROVE TypeInv'
  <2>1. All(ns) \subseteq DOMAIN Stored[ns]
    BY DEF All
  <2>2. KeysInv'
    BY <1>5, <2>1, ReadDoes, HeldIs DEF TypeInv, KeysInv
  <2> QED BY <1>5, <2>2, ReadDoes, QuietKeeps DEF ReadNamespace, TypeInv, TypeOK
<1>6. ASSUME NEW ns \in Namespace, NamespaceFails(ns) PROVE TypeInv'
  <2>1. KeysInv'
    BY <1>6, NamespaceFailsDoes DEF TypeInv, KeysInv
  <2> QED BY <1>6, <2>1, NamespaceFailsDoes, FailTyped, QuietKeeps DEF NamespaceFails, TypeInv, TypeOK
<1> QED BY <1>1, <1>2, <1>3, <1>4, <1>5, <1>6

\* A secret that a command writes goes to the recipients of the config, or has no value.
LEMMA WriteKeeps ==
    ASSUME TypeInv, run' \in Command, run.pc \notin {"idle", "providers", "write", "park"},
           run'.pc \notin {"idle", "providers", "write", "park"},
           NEW t \in Target, NEW k \in Key, NEW s \in Secret,
           s.to = config.recipients \/ s.value = "none",
           secrets' = [secrets EXCEPT ![t][k] = s],
           UNCHANGED <<keychain, config, identity, scratch, enrolled, runs, fails, halfway, patchy>>,
           own' \subseteq own, KeysInv'
    PROVE  TypeInv'
<1>1. "age" \in config.providers
  BY DEF TypeInv, SetupInv
<1>2. /\ secrets' \in [Target -> [Key -> Secret]]
      /\ secrets'[t][k] = s
      /\ \A u \in Target : \A j \in Key : u # t \/ j # k => secrets'[u][j] = secrets[u][j]
  <2>1. TypeOK /\ secrets' = [secrets EXCEPT ![t][k] = s]
    BY DEF TypeInv
  <2> QED BY ONLY <2>1, SecretTyped
<1>3. \A u \in Target : \A j \in Key :
        \/ secrets'[u][j] = secrets[u][j]
        \/ secrets'[u][j].to = config.recipients \/ secrets'[u][j].value = "none"
  BY <1>2
<1>5. SetupInv'
  BY <1>1, <1>3, SetupStep DEF TypeInv
<1>4. TypeOK'
  BY <1>2 DEF TypeInv, TypeOK
<1> QED BY <1>4, <1>5 DEF TypeInv

LEMMA KeyKeeps ==
    ASSUME TypeInv, NEW ns \in Namespace, NEW k \in Key, MigrateKey(ns, k) \/ KeyFails(ns, k)
    PROVE  TypeInv'
<1>1. KeysInv'
  BY KeyDoes DEF TypeInv, KeysInv
<1>2. /\ run' \in Command /\ run.pc = "keys" /\ run'.pc = "keys"
      /\ Encrypted(secrets[ns][k], Stored[ns][k]) \in Secret
      /\ Encrypted(secrets[ns][k], Stored[ns][k]).to = config.recipients /\ ns \in Target
  BY KeyDoes, KeyTyped, Keys1 DEF TypeInv
<1>3. CASE MigrateKey(ns, k) /\ secrets' = secrets
  BY <1>1, <1>2, <1>3, QuietKeeps DEF MigrateKey, TypeInv, TypeOK
<1>4. CASE /\ MigrateKey(ns, k)
           /\ secrets' = [secrets EXCEPT ![ns][k] = Encrypted(secrets[ns][k], Stored[ns][k])]
  BY <1>1, <1>2, <1>4, WriteKeeps DEF MigrateKey
<1>5. CASE KeyFails(ns, k)
  BY <1>1, <1>2, <1>5, FailTyped, QuietKeeps DEF KeyFails, TypeInv, TypeOK
<1> QED BY <1>3, <1>4, <1>5 DEF MigrateKey

LEMMA LineKeeps ==
    ASSUME TypeInv, SkipLine \/ MigrateLine \/ LineFails \/ EndLines
    PROVE  TypeInv'
<1>1. CASE SkipLine \/ LineFails
  <2>1. KeysInv'
    BY <1>1, LineDoes DEF TypeInv, KeysInv
  <2>2. patchy' \in BOOLEAN /\ fails' \in 0..MaxFails
    BY <1>1, FailTyped DEF SkipLine, LineFails, TypeInv, TypeOK
  <2> QED BY <1>1, <2>1, <2>2, LineDoes, QuietKeeps DEF SkipLine, LineFails, TypeInv, TypeOK
<1>2. CASE MigrateLine
  <2>1. KeysInv'
    BY <1>2, LineDoes DEF TypeInv, KeysInv
  <2>2. /\ Template[run.line].key \in Key /\ Project \in Target
        /\ Resolved(run.line) \in Secret
        /\ Resolved(run.line).to = config.recipients \/ Resolved(run.line).value = "none"
    <3>1. run.line \in DOMAIN Template /\ Resolves(Template[run.line])
      BY <1>2, LineDoes DEF MigrateLine, Line, TypeInv
    <3>2. /\ Template[run.line].key \in Key /\ Project \in Target
          /\ SetupInv /\ TypeOK
      BY <3>1, Keys1 DEF TypeInv
    <3> QED BY <3>1, <3>2, ResolvedIs DEF SetupInv
  <2>3. /\ secrets' = [secrets EXCEPT ![Project][Template[run.line].key] = Resolved(run.line)]
        /\ own' \subseteq own
        /\ UNCHANGED <<keychain, config, identity, scratch, enrolled, runs, fails, halfway, patchy>>
    BY <1>2 DEF MigrateLine, Line
  <2> QED BY <1>2, <2>1, <2>2, <2>3, LineDoes, WriteKeeps DEF TypeInv
<1>3. CASE EndLines
  <2>1. run' \in Command /\ run.pc = "line" /\ run'.pc = "end" /\ Unmoved(run)
    BY <1>3, GotoDoes DEF EndLines, TypeInv, PCs
  <2>2. KeysInv'
    BY <2>1 DEF TypeInv, KeysInv, Unmoved
  <2> QED BY <1>3, <2>1, <2>2, QuietKeeps DEF EndLines, TypeInv, TypeOK
<1> QED BY <1>1, <1>2, <1>3

\* A command ends, or is stopped: a setup between its config and its identity is halfway.
LEMMA EndKeeps ==
    ASSUME TypeInv, End \/ Stop
    PROVE  TypeInv' /\ run' = Idle /\ run.pc # "idle"
<1>1. /\ run' = Idle /\ run.pc # "idle"
      /\ UNCHANGED <<keychain, config, identity, scratch, secrets, enrolled, runs, own>>
  BY DEF End, Stop
<1>2. fails' \in 0..MaxFails /\ halfway' \in BOOLEAN /\ patchy' \in BOOLEAN
  BY FailTyped DEF End, Stop, TypeInv, TypeOK
<1>3. ASSUME End PROVE SetupInv'
  <2>1. halfway' = halfway /\ run.pc # "park"
    BY <1>3 DEF End
  <2>2. SetupInv'
    BY <1>1, <2>1, IdleFields, SetupStep DEF TypeInv
  <2> QED BY <2>2
<1>4. ASSUME Stop PROVE SetupInv'
  <2>1. halfway' = (halfway \/ run.pc = "park")
    BY <1>4 DEF Stop
  <2>2. (halfway => halfway') /\ (run.pc = "park" => halfway')
    BY <2>1, Zenon
  <2>3. SetupInv'
    BY <1>1, <2>2, IdleFields, SetupStep DEF TypeInv
  <2> QED BY <2>3
<1>5. SetupInv'
  BY <1>3, <1>4
<1>6. TypeOK'
  BY <1>1, <1>2, IdleTyped DEF TypeInv, TypeOK
<1>7. KeysInv'
  BY <1>1, IdleFields DEF KeysInv
<1> QED BY <1>1, <1>5, <1>6, <1>7 DEF TypeInv

LEMMA UserKeeps ==
    ASSUME TypeInv, \/ \E t \in Target, k \in Key : UserSets(t, k)
                    \/ \E k \in SecurityKey : UserEnrolls(k)
    PROVE  TypeInv'
<1>1. ASSUME NEW t \in Target, NEW k \in Key, UserSets(t, k) PROVE TypeInv'
  <2>1. /\ [value |-> "own", to |-> config.recipients, default |-> 0] \in Secret
        /\ run = Idle /\ run.pc = "idle" /\ "age" \in config.providers
    BY <1>1, Lines, IdleFields DEF UserSets, Secret, Value, TypeInv, TypeOK
  <2>2. /\ secrets' \in [Target -> [Key -> Secret]]
        /\ secrets'[t][k].to = config.recipients
        /\ \A u \in Target : \A j \in Key : u # t \/ j # k => secrets'[u][j] = secrets[u][j]
    BY <1>1, <2>1, SecretTyped DEF UserSets, TypeInv
  <2>3. UNCHANGED <<keychain, config, identity, scratch, enrolled, run, runs, fails, halfway, patchy>>
    BY <1>1 DEF UserSets
  <2>4. own' \subseteq Target \X Key
    BY <1>1 DEF UserSets, TypeInv, TypeOK
  <2>5. TypeOK'
    BY <2>2, <2>3, <2>4 DEF TypeInv, TypeOK
  <2>6. SetupInv'
    BY <2>1, <2>2, <2>3 DEF TypeInv, SetupInv, Parked
  <2> QED BY <2>3, <2>5, <2>6 DEF TypeInv, KeysInv
<1>2. ASSUME NEW k \in SecurityKey, UserEnrolls(k) PROVE TypeInv'
  BY <1>2 DEF UserEnrolls, TypeInv, TypeOK, SetupInv, KeysInv, Empty, Parked
<1> QED BY <1>1, <1>2

LEMMA NextTyped == TypeInv /\ [Next]_vars => TypeInv'
<1> SUFFICES ASSUME TypeInv, [Next]_vars PROVE TypeInv'
  OBVIOUS
<1>1. CASE UNCHANGED vars
  BY <1>1 DEF vars, TypeInv, TypeOK, SetupInv, KeysInv, Empty, Parked
<1> QED
  BY <1>1, StartKeeps, SetupKeeps, NamespaceKeeps, KeyKeeps, LineKeeps, EndKeeps, UserKeeps DEF Next

\* Every variable keeps its type, for any keychain and template.
THEOREM TypeCorrect == Spec => []TypeOK
<1>1. TypeInv => TypeOK
  BY DEF TypeInv
<1> QED BY <1>1, InitTyped, NextTyped, PTL DEF Spec

-----------------------------------------------------------------------------
\* No credential of the keychain is lost. What is inductive: what fnox holds under a
\* namespace is the user's or what the keychain had; the namespace at hand is there
\* in full, but for the keys still to come, unless it failed; a purged one is.

OwnInv == \A x \in own : secrets[x[1]][x[2]].value = "own"

SecretInv ==
    \A ns \in Namespace : \A k \in DOMAIN Stored[ns] :
        secrets[ns][k] # Absent => <<ns, k>> \in own \/ Carried(ns, k)

PurgeInv ==
    /\ run.pc = "keys" => \A ns \in run.ns : \A k \in run.held : secrets[ns][k] # Absent
    /\ run.pc = "keys" /\ ~run.dry => \A ns \in run.ns : ns \in keychain =>
          ns \in run.failed \/ \A k \in DOMAIN Stored[ns] \ run.keys : secrets[ns][k] # Absent
    /\ run.pc = "purge" /\ ~run.dry => \A ns \in run.ns : ns \in keychain =>
          ns \in run.failed \/ \A k \in DOMAIN Stored[ns] : secrets[ns][k] # Absent
    /\ \A ns \in Namespace \ keychain : \A k \in DOMAIN Stored[ns] : secrets[ns][k] # Absent

\* Without --force a command writes no secret the user set.
FreshInv ==
    /\ run.pc = "keys" /\ ~run.force =>
          \A ns \in run.ns : \A k \in Key \ run.held : <<ns, k>> \notin own
    /\ run.pc = "line" /\ ~run.force => \A k \in Key \ run.held : <<Project, k>> \notin own

KeptInv == OwnInv /\ SecretInv /\ PurgeInv /\ FreshInv

\* A step outside the namespaces that leaves what is not the user's alone.
LEMMA KeptElsewhere ==
    ASSUME KeptInv, keychain' = keychain, run'.pc \notin {"keys", "purge"}, FreshInv',
           \A ns \in Namespace : \A k \in Key :
                /\ secrets'[ns][k] = secrets[ns][k]
                /\ <<ns, k>> \in own => <<ns, k>> \in own',
           \A x \in own' : secrets'[x[1]][x[2]].value = "own"
    PROVE  KeptInv'
<1>1. SecretInv'
  BY Keys1 DEF KeptInv, SecretInv, Carried
<1>2. \A ns \in Namespace \ keychain : \A k \in DOMAIN Stored[ns] : secrets'[ns][k] # Absent
  BY Keys1 DEF KeptInv, PurgeInv
<1>3. PurgeInv'
  BY <1>2 DEF PurgeInv
<1> QED BY <1>1, <1>3 DEF KeptInv, OwnInv

LEMMA KeptStill ==
    ASSUME KeptInv, UNCHANGED <<keychain, secrets, own>>, run'.pc \notin {"keys", "purge"},
           run'.pc = "line" => run.pc = "line" /\ run'.force = run.force /\ run'.held = run.held
    PROVE  KeptInv'
<1>1. FreshInv'
  BY DEF KeptInv, FreshInv
<1> QED BY <1>1, KeptElsewhere DEF KeptInv, OwnInv

LEMMA KeptRead ==
    ASSUME TypeInv, KeptInv, NEW ns \in Namespace, ReadNamespace(ns)
    PROVE  KeptInv'
<1>1. UNCHANGED <<keychain, secrets, own>>
  BY DEF ReadNamespace
<1>2. /\ run'.pc = "keys" /\ run'.ns = {ns} /\ run'.keys = All(ns) /\ run'.held = ExistingKeys(ns)
      /\ \A k \in run'.held : secrets[ns][k] # Absent
      /\ ns \in keychain => All(ns) = DOMAIN Stored[ns]
      /\ run'.force = run.force /\ run'.dry = run.dry
  BY ReadDoes, HeldIs DEF TypeInv, All
<1>3. PurgeInv'
  BY <1>1, <1>2 DEF KeptInv, PurgeInv
<1>4. FreshInv'
  <2>1. ~run.force => \A k \in Key \ run'.held : secrets[ns][k] = Absent
    BY <1>2, HeldIs
  <2>2. ~run.force => \A k \in Key \ run'.held : <<ns, k>> \notin own
    BY <2>1, AbsentIsNone DEF KeptInv, OwnInv
  <2> QED BY <1>1, <1>2, <2>2 DEF FreshInv
<1> QED BY <1>1, <1>3, <1>4 DEF KeptInv, OwnInv, SecretInv, Carried

LEMMA KeptMigrateKey ==
    ASSUME TypeInv, KeptInv, NEW ns \in Namespace, NEW k \in Key, MigrateKey(ns, k)
    PROVE  KeptInv'
<1>1. /\ run.pc = "keys" /\ run'.pc = "keys" /\ ns \in run.ns /\ k \in run.keys
      /\ run'.ns = run.ns /\ run'.keys = run.keys \ {k} /\ run'.held = run.held
      /\ run.failed \subseteq run'.failed /\ run'.dry = run.dry /\ run'.force = run.force
      /\ keychain' = keychain
  BY KeyDoes DEF TypeInv, MigrateKey
<1>2. k \in DOMAIN Stored[ns] /\ \A n \in run.ns : n \in Namespace
  BY <1>1, KeyTyped DEF TypeInv, KeysInv
<1>3. CASE k \in run.held \/ run.dry
  <2>1. secrets' = secrets
    BY <1>3 DEF MigrateKey
  <2>2. own' = own
    <3>1. CASE run.force /\ ~run.dry
      BY <1>3, <3>1 DEF TypeInv, KeysInv
    <3>2. CASE ~(run.force /\ ~run.dry)
      BY <3>2 DEF MigrateKey
    <3> QED BY <3>1, <3>2
  <2>3. PurgeInv'
    BY <1>1, <1>3, <2>1 DEF KeptInv, PurgeInv
  <2>4. FreshInv'
    BY <1>1, <2>2 DEF KeptInv, FreshInv
  <2> QED BY <2>1, <2>2, <2>3, <2>4 DEF KeptInv, OwnInv, SecretInv, Carried
<1>4. CASE ~(k \in run.held \/ run.dry)
  <2>2. /\ secrets' = [secrets EXCEPT ![ns][k] = Encrypted(secrets[ns][k], Stored[ns][k])]
        /\ ns \in Target
    BY <1>4, Keys1 DEF MigrateKey
  <2>3. /\ secrets'[ns][k].value = Trim(Stored[ns][k]) /\ secrets'[ns][k] # Absent
        /\ \A u \in Target : \A j \in Key : u # ns \/ j # k => secrets'[u][j] = secrets[u][j]
    <3> DEFINE s == Encrypted(secrets[ns][k], Stored[ns][k])
    <3>1. s \in Secret /\ secrets' = [secrets EXCEPT ![ns][k] = s] /\ ns \in Target
          /\ s.value = Trim(Stored[ns][k]) /\ s.value # "none"
      BY <1>1, <2>2, KeyTyped
    <3> HIDE DEF s
    <3>2. /\ secrets'[ns][k] = s /\ s # Absent
          /\ \A u \in Target : \A j \in Key : u # ns \/ j # k => secrets'[u][j] = secrets[u][j]
      BY <3>1, SecretTyped, AbsentIsNone DEF TypeInv
    <3> QED BY <3>1, <3>2
  <2>4. own' = own \ {<<ns, k>>}
    <3>1. CASE run.force
      BY <1>4, <3>1 DEF MigrateKey
    <3>2. CASE ~run.force
      BY <1>1, <1>4, <3>2 DEF MigrateKey, KeptInv, FreshInv
    <3> QED BY <3>1, <3>2
  <2>5. \A x \in own : x[1] \in Target /\ x[2] \in Key /\ x = <<x[1], x[2]>>
    BY DEF TypeInv, TypeOK
  <2>6. OwnInv'
    BY <2>3, <2>4, <2>5 DEF KeptInv, OwnInv
  <2>7. SecretInv'
    BY <2>3, <2>4, Keys1 DEF KeptInv, SecretInv, Carried
  <2>8. \A u \in Target : \A j \in Key : secrets[u][j] # Absent => secrets'[u][j] # Absent
    BY <2>3
  <2>9. /\ \A n \in run.ns : \A j \in run.held : secrets'[n][j] # Absent
        /\ \A n \in run.ns : n \in keychain =>
              n \in run.failed \/ \A j \in DOMAIN Stored[n] \ run'.keys : secrets'[n][j] # Absent
        /\ \A n \in Namespace \ keychain : \A j \in DOMAIN Stored[n] : secrets'[n][j] # Absent
    <3>1. \A n \in run.ns : \A j \in run.held : j \in Key
      BY DEF TypeInv, TypeOK, Command
    <3>2. \A n \in run.ns : n = ns
      BY <1>1 DEF TypeInv, KeysInv
    <3> QED BY <1>1, <1>2, <1>4, <2>3, <2>8, <3>1, <3>2, Keys1 DEF KeptInv, PurgeInv
  <2>10. PurgeInv'
    BY <1>1, <2>9 DEF PurgeInv
  <2>11. FreshInv'
    BY <1>1, <2>4 DEF KeptInv, FreshInv
  <2> QED BY <2>6, <2>7, <2>10, <2>11 DEF KeptInv
<1> QED BY <1>3, <1>4

LEMMA KeptFails ==
    ASSUME TypeInv, KeptInv, NEW ns \in Namespace,
           NamespaceFails(ns) \/ \E k \in Key : KeyFails(ns, k)
    PROVE  KeptInv'
<1>1. CASE NamespaceFails(ns)
  <2>1. UNCHANGED <<keychain, secrets, own>>
    BY <1>1 DEF NamespaceFails
  <2>2. run'.pc = "purge" /\ run'.ns = {ns} /\ ns \in run'.failed
    BY <1>1, NamespaceFailsDoes DEF TypeInv
  <2>3. PurgeInv' /\ FreshInv'
    BY <2>1, <2>2 DEF KeptInv, PurgeInv, FreshInv
  <2> QED BY <2>1, <2>3 DEF KeptInv, OwnInv, SecretInv, Carried
<1>2. ASSUME NEW k \in Key, KeyFails(ns, k) PROVE KeptInv'
  <2>1. UNCHANGED <<keychain, secrets, own>>
    BY <1>2 DEF KeyFails
  <2>2. /\ run.pc = "keys" /\ run'.pc = "keys" /\ ns \in run.ns /\ ns \in run'.failed
        /\ run'.ns = run.ns /\ run'.held = run.held
        /\ run'.force = run.force /\ run'.dry = run.dry
    BY <1>2, KeyDoes DEF TypeInv
  <2>3. \A n \in run.ns : n = ns
    BY <2>2 DEF TypeInv, KeysInv
  <2>4. PurgeInv' /\ FreshInv'
    BY <2>1, <2>2, <2>3 DEF KeptInv, PurgeInv, FreshInv
  <2> QED BY <2>1, <2>4 DEF KeptInv, OwnInv, SecretInv, Carried
<1> QED BY <1>1, <1>2

LEMMA KeptPurge ==
    ASSUME TypeInv, KeptInv, EndNamespace \/ Purge
    PROVE  KeptInv'
<1>1. CASE EndNamespace
  <2>1. run.pc = "keys" /\ run'.pc = "purge" /\ Unmoved(run) /\ run.keys = {}
    BY <1>1, GotoDoes DEF EndNamespace, TypeInv, PCs
  <2>2. UNCHANGED <<keychain, secrets, own>>
    BY <1>1 DEF EndNamespace
  <2>3. PurgeInv' /\ FreshInv'
    BY <2>1, <2>2 DEF KeptInv, PurgeInv, FreshInv, Unmoved
  <2> QED BY <2>2, <2>3 DEF KeptInv, OwnInv, SecretInv, Carried
<1>2. CASE Purge
  <2>1. run.pc = "purge" /\ run'.pc = "next"
    BY <1>2, PurgeDoes DEF TypeInv
  <2>2. /\ keychain' \subseteq keychain
        /\ \A ns \in keychain \ keychain' : ns \in run.ns /\ ~run.dry /\ ns \notin run.failed
        /\ UNCHANGED <<secrets, own>>
    BY <1>2 DEF Purge, Purges
  <2>3. ASSUME NEW ns \in Namespace \ keychain', NEW k \in DOMAIN Stored[ns]
        PROVE  secrets'[ns][k] # Absent
    BY <2>1, <2>2, <2>3 DEF KeptInv, PurgeInv
  <2>4. PurgeInv' /\ FreshInv'
    BY <2>1, <2>3 DEF PurgeInv, FreshInv
  <2> QED BY <2>2, <2>4 DEF KeptInv, OwnInv, SecretInv, Carried
<1> QED BY <1>1, <1>2

\* The template writes the project's secrets only.
LEMMA KeptLine ==
    ASSUME TypeInv, KeptInv, MigrateLine
    PROVE  KeptInv'
<1> DEFINE key == Template[run.line].key
           s == Resolved(run.line)
<1>1. /\ run.pc = "line" /\ run'.pc = "line" /\ run.line \in DOMAIN Template
      /\ run'.held = run.held /\ run'.force = run.force
  BY LineDoes DEF TypeInv
<1>2. /\ key \in Key /\ Project \in Target /\ s \in Secret
      /\ Template[run.line].kind = "literal" => s.value = secrets[Project][key].value
      /\ Template[run.line].kind # "literal" => Template[run.line].kind = "reference"
  BY <1>1, Keys1, ResolvedIs DEF MigrateLine, Line, TypeInv
<1>3. /\ secrets' = [secrets EXCEPT ![Project][key] = s]
      /\ own' = IF run.force /\ Template[run.line].kind = "reference" THEN own \ {<<Project, key>>} ELSE own
      /\ key \notin run.held /\ keychain' = keychain
  BY DEF MigrateLine, Line, Held
<1> HIDE DEF key, s
<1>4. /\ secrets'[Project][key] = s
      /\ \A u \in Target : \A j \in Key : u # Project \/ j # key => secrets'[u][j] = secrets[u][j]
  BY <1>2, <1>3, SecretTyped DEF TypeInv
<1>5. /\ own' \subseteq own /\ own \ own' \subseteq {<<Project, key>>}
      /\ <<Project, key>> \in own' => Template[run.line].kind = "literal"
  <2>1. CASE run.force
    BY <1>2, <1>3, <2>1
  <2>2. CASE ~run.force
    BY <1>1, <1>2, <1>3, <2>2 DEF KeptInv, FreshInv
  <2> QED BY <2>1, <2>2
<1>6. \A x \in own : x[1] \in Target /\ x[2] \in Key /\ x = <<x[1], x[2]>>
  BY DEF TypeInv, TypeOK
<1>7. ASSUME NEW x \in own' PROVE secrets'[x[1]][x[2]].value = "own"
  <2>1. x \in own /\ secrets[x[1]][x[2]].value = "own"
    BY <1>5 DEF KeptInv, OwnInv
  <2>2. CASE x = <<Project, key>>
    BY <1>2, <1>4, <1>5, <2>1, <2>2
  <2>3. CASE x # <<Project, key>>
    BY <1>4, <1>6, <2>1, <2>3
  <2> QED BY <2>2, <2>3
<1>8. \A ns \in Namespace : ns \in Target /\ ns # Project
  BY StoredAssumption, Keys1
<1>9. \A ns \in Namespace : \A k \in Key :
        /\ secrets'[ns][k] = secrets[ns][k]
        /\ <<ns, k>> \in own => <<ns, k>> \in own'
  BY <1>4, <1>5, <1>8
<1>10. FreshInv'
  BY <1>1, <1>5 DEF KeptInv, FreshInv
<1> QED BY <1>1, <1>3, <1>7, <1>9, <1>10, KeptElsewhere

LEMMA KeptUser ==
    ASSUME TypeInv, KeptInv, NEW t \in Target, NEW k \in Key, UserSets(t, k)
    PROVE  KeptInv'
<1> DEFINE s == [value |-> "own", to |-> config.recipients, default |-> 0]
<1>1. /\ run' = run /\ run.pc = "idle" /\ keychain' = keychain
      /\ secrets[t][k] = Absent
      /\ secrets' = [secrets EXCEPT ![t][k] = s] /\ own' = own \cup {<<t, k>>}
  BY IdleFields DEF UserSets
<1>2. s \in Secret /\ s.value = "own" /\ s.value # "none"
  BY Lines DEF Secret, Value, TypeInv, TypeOK
<1> HIDE DEF s
<1>3. /\ secrets'[t][k] = s
      /\ \A u \in Target : \A j \in Key : u # t \/ j # k => secrets'[u][j] = secrets[u][j]
  BY <1>1, <1>2, SecretTyped DEF TypeInv
<1>4. \A x \in own : x[1] \in Target /\ x[2] \in Key /\ x = <<x[1], x[2]>>
  BY DEF TypeInv, TypeOK
<1>5. <<t, k>> \notin own
  BY <1>1, AbsentIsNone DEF KeptInv, OwnInv
<1>6. OwnInv'
  BY <1>1, <1>2, <1>3, <1>4, <1>5 DEF KeptInv, OwnInv
<1>7. SecretInv'
  BY <1>1, <1>3, Keys1 DEF KeptInv, SecretInv, Carried
<1>8. PurgeInv'
  <2>1. s # Absent
    BY <1>2, AbsentIsNone
  <2>2. \A ns \in Namespace \ keychain : \A j \in DOMAIN Stored[ns] : secrets'[ns][j] # Absent
    BY <1>3, <2>1, Keys1 DEF KeptInv, PurgeInv
  <2> QED BY <1>1, <2>2 DEF PurgeInv
<1>9. FreshInv'
  BY <1>1 DEF FreshInv
<1> QED BY <1>6, <1>7, <1>8, <1>9 DEF KeptInv

LEMMA KeptKept ==
    ASSUME TypeInv, KeptInv, [Next]_vars
    PROVE  KeptInv'
<1>1. ASSUME UNCHANGED <<keychain, secrets, own>>, run'.pc \notin {"keys", "purge", "line"}
      PROVE  KeptInv'
  BY <1>1, KeptStill
<1>2. ASSUME NEW purge \in BOOLEAN, NEW force \in BOOLEAN, NEW dry \in BOOLEAN,
             NEW names \in SUBSET Namespace, Start(purge, force, dry, names)
      PROVE  KeptInv'
  <2>1. UNCHANGED <<keychain, secrets, own>>
    BY <1>2 DEF Start
  <2>2. run'.pc = "providers"
    BY <1>2, StartDoes DEF TypeInv
  <2> QED BY <1>1, <2>1, <2>2
<1>3. ASSUME Providers \/ WriteConfig \/ SetKeychainItem \/ RemoveScratch \/ EndLines PROVE KeptInv'
  <2>1. UNCHANGED <<keychain, secrets, own>>
    BY <1>3 DEF Providers, WriteConfig, SetKeychainItem, RemoveScratch, EndLines
  <2>2. \E pc \in PCs \ {"keys", "purge", "line"} : Goto(pc)
    BY <1>3 DEF Providers, WriteConfig, SetKeychainItem, RemoveScratch, EndLines, PCs
  <2>3. run'.pc \notin {"keys", "purge", "line"}
    BY <2>2, GotoDoes DEF TypeInv
  <2> QED BY <1>1, <2>1, <2>3
<1>4. ASSUME ConfirmPurge PROVE KeptInv'
  BY <1>1, <1>4, ConfirmDoes DEF ConfirmPurge, TypeInv
<1>5. ASSUME NEW ns \in Namespace, ReadNamespace(ns) PROVE KeptInv'
  BY <1>5, KeptRead
<1>6. ASSUME NEW ns \in Namespace, NEW k \in Key, MigrateKey(ns, k) PROVE KeptInv'
  BY <1>6, KeptMigrateKey
<1>7. ASSUME EndNamespaces PROVE KeptInv'
  <2>1. UNCHANGED <<keychain, secrets, own>>
    BY <1>7 DEF EndNamespaces
  <2>2. CASE run'.pc = "end"
    BY <1>1, <2>1, <2>2
  <2>3. CASE run'.pc = "line"
    <3>1. run'.held = ExistingKeys(Project) /\ run'.force = run.force
      BY <1>7, <2>3, EndNamespacesDoes DEF TypeInv
    <3>2. ~run.force => \A k \in Key \ run'.held : <<Project, k>> \notin own
      BY <3>1, HeldIs, AbsentIsNone DEF KeptInv, OwnInv
    <3>3. FreshInv'
      BY <2>1, <2>3, <3>1, <3>2 DEF FreshInv
    <3> QED BY <2>1, <2>3, <3>3, KeptElsewhere DEF KeptInv, OwnInv
  <2> QED BY <1>7, <2>2, <2>3, EndNamespacesDoes DEF TypeInv
<1>8. ASSUME SkipLine \/ LineFails PROVE KeptInv'
  <2>1. UNCHANGED <<keychain, secrets, own>>
    BY <1>8 DEF SkipLine, LineFails
  <2> QED BY <1>8, <2>1, LineDoes, KeptStill DEF TypeInv
<1>9. ASSUME End \/ Stop PROVE KeptInv'
  <2>1. UNCHANGED <<keychain, secrets, own>>
    BY <1>9 DEF End, Stop
  <2> QED BY <1>1, <1>9, <2>1, EndKeeps, IdleFields
<1>10. ASSUME NEW k \in SecurityKey, UserEnrolls(k) PROVE KeptInv'
  BY <1>1, <1>10, IdleFields DEF UserEnrolls
<1>11. CASE UNCHANGED <<keychain, secrets, own, run>>
  BY <1>11 DEF KeptInv, OwnInv, SecretInv, Carried, PurgeInv, FreshInv
<1> QED
  BY <1>2, <1>3, <1>4, <1>5, <1>6, <1>7, <1>8, <1>9, <1>10, <1>11, KeptFails, KeptPurge, KeptLine, KeptUser
  DEF Next, vars

\* What was purged is in fnox, and opens; and every secret opens.
LEMMA KeptSays == ASSUME TypeInv, KeptInv PROVE CredentialKept /\ OwnKept
<1>1. OwnKept
  BY DEF KeptInv, OwnInv, OwnKept
<1>2. ASSUME NEW ns \in Namespace \ keychain, NEW k \in DOMAIN Stored[ns], <<ns, k>> \notin own
      PROVE  Carried(ns, k) /\ (halfway \/ Readable(secrets[ns][k]))
  <2>1. secrets[ns][k] # Absent /\ ns \in Target /\ k \in Key
    BY Keys1 DEF KeptInv, PurgeInv
  <2>2. Carried(ns, k)
    BY <1>2, <2>1 DEF KeptInv, SecretInv
  <2>3. halfway \/ <<"soft", identity>> \in config.recipients
    BY <2>1 DEF TypeInv, SetupInv, Parked, Empty
  <2>4. secrets[ns][k].value # "none"
    BY <2>2, StoredAssumption, Trimmed DEF Carried
  <2>5. secrets[ns][k].to = config.recipients
    BY <2>1, <2>4 DEF TypeInv, SetupInv
  <2> QED BY <2>2, <2>3, <2>4, <2>5 DEF Readable, Opens
<1> QED BY <1>1, <1>2 DEF CredentialKept

LEMMA OpenSays == ASSUME TypeInv PROVE SecretsOpen
<1> SUFFICES ASSUME NEW t \in Target, NEW k \in Key, secrets[t][k].value # "none"
             PROVE  halfway \/ <<"soft", identity>> \in secrets[t][k].to
  BY DEF SecretsOpen
<1>1. secrets[t][k] # Absent
  BY AbsentIsNone
<1>2. halfway \/ <<"soft", identity>> \in config.recipients
  BY <1>1 DEF TypeInv, SetupInv, Parked, Empty
<1> QED BY <1>2 DEF TypeInv, SetupInv

-----------------------------------------------------------------------------
\* The template: what its lines come to.

Good(k) == \A i \in LastOf(k) : <<Project, k>> \in own \/ Given(k, i)

\* The last line of a key before the n-th.
LastBefore(k, n) == {i \in DOMAIN Template :
    /\ i < n /\ Template[i].key = k /\ Template[i].kind # "malformed"
    /\ \A j \in (i + 1)..(n - 1) : Template[j].key = k => Template[j].kind = "malformed"}

\* What an earlier run left is right; what this run holds, or has written, is too.
Settled == \A k \in Key : secrets[Project][k] # Absent => Good(k)
Written == \A k \in Key \ run.held : \A i \in LastBefore(k, run.line) : Given(k, i)
LineInv ==
    ~patchy =>
        /\ run.pc # "line" \/ run.dry => Settled
        /\ run.pc = "line" => \A k \in run.held : Good(k)
        /\ run.pc = "line" /\ ~run.dry => Written
        /\ run.pc = "end" /\ run.line # 0 /\ ~run.dry => \A k \in Key : Good(k)

\* A key no reference names has no value but one the user set.
PlainInv == \A k \in Key :
    Referenced(k) \/ secrets[Project][k].value = "none" \/ <<Project, k>> \in own

LEMMA GivenIs ==
    ASSUME TypeOK, NEW i \in DOMAIN Template, Resolves(Template[i]),
           secrets'[Project][Template[i].key] = Resolved(i)
    PROVE  Given(Template[i].key, i)'
BY ResolvedIs DEF Given

\* Before the first line there is none, and past the last one the last line is the last.
LEMMA FirstLine == \A k : LastBefore(k, 1) = {}
BY Lines DEF LastBefore

LEMMA LastLine == ASSUME NEW k PROVE LastBefore(k, Len(Template) + 1) = LastOf(k)
<1>1. \A i \in DOMAIN Template : i < Len(Template) + 1
  BY Lines
<1>2. (Len(Template) + 1) - 1 = Len(Template)
  BY Lines
<1> QED BY <1>1, <1>2 DEF LastBefore, LastOf

\* One line further: it is the last of its own key, unless malformed, and of no other.
LEMMA NextBefore ==
    ASSUME NEW n \in DOMAIN Template, NEW k, NEW i \in LastBefore(k, n + 1)
    PROVE  \/ i \in LastBefore(k, n) /\ (Template[n].key = k => Template[n].kind = "malformed")
           \/ i = n /\ Template[n].key = k /\ Template[n].kind # "malformed"
<1>1. n \in Nat /\ i \in Nat /\ i < n + 1 /\ (n + 1) - 1 = n
  BY Lines DEF LastBefore
<1>2. /\ i \in DOMAIN Template /\ Template[i].key = k /\ Template[i].kind # "malformed"
      /\ \A j \in (i + 1)..n : Template[j].key = k => Template[j].kind = "malformed"
  BY <1>1 DEF LastBefore
<1>3. CASE i = n
  BY <1>2, <1>3
<1>4. CASE i < n
  <2>1. \A j \in (i + 1)..(n - 1) : j \in (i + 1)..n
    BY <1>1
  <2>2. n \in (i + 1)..n
    BY <1>1, <1>4
  <2>3. i \in LastBefore(k, n)
    BY <1>2, <1>4, <2>1 DEF LastBefore
  <2> QED BY <1>2, <2>2, <2>3
<1> QED BY <1>1, <1>3, <1>4

\* A step away from the template.
LEMMA LineElsewhere ==
    ASSUME LineInv, patchy => patchy', run.pc # "line", run'.pc # "line", run'.pc = "end" => run'.line = 0,
           \A k \in Key :
                /\ secrets'[Project][k] = secrets[Project][k]
                /\ <<Project, k>> \in own => <<Project, k>> \in own'
    PROVE  LineInv'
<1> SUFFICES ASSUME ~patchy' PROVE Settled'
  BY DEF LineInv
<1>1. Settled
  BY Zenon DEF LineInv
<1> QED BY <1>1 DEF Settled, Good, Given

LEMMA LineKey ==
    ASSUME TypeInv, LineInv, NEW ns \in Namespace, NEW k \in Key, MigrateKey(ns, k)
    PROVE  LineInv'
<1>1. run.pc = "keys" /\ run'.pc = "keys"
  BY KeyDoes DEF TypeInv
<1>2. ns \in Target /\ Project \in Target /\ ns # Project
  BY StoredAssumption, Keys1
<1>3. secrets \in [Target -> [Key -> Secret]]
  BY DEF TypeInv, TypeOK
<1>4. /\ patchy' = patchy
      /\ \/ secrets' = secrets
         \/ secrets' = [secrets EXCEPT ![ns][k] = Encrypted(secrets[ns][k], Stored[ns][k])]
      /\ own' = own \/ own' = own \ {<<ns, k>>}
  BY DEF MigrateKey
<1>5. secrets'[Project] = secrets[Project]
  BY <1>2, <1>3, <1>4
<1>6. \A j \in Key : <<Project, j>> \in own => <<Project, j>> \in own'
  BY <1>2, <1>4
<1> QED BY <1>1, <1>4, <1>5, <1>6, LineElsewhere

LEMMA LineFirst == ASSUME TypeInv, LineInv, EndNamespaces PROVE LineInv'
<1>1. UNCHANGED <<secrets, own, patchy>> /\ run.pc = "next" /\ run'.force = run.force /\ run'.dry = run.dry
  BY EndNamespacesDoes DEF EndNamespaces, TypeInv
<1>2. CASE run'.pc = "end"
  <2>1. run'.line = 0
    BY <1>1, <1>2, EndNamespacesDoes DEF TypeInv, KeysInv
  <2> QED BY <1>1, <1>2, <2>1, LineElsewhere
<1>3. CASE run'.pc = "line"
  <2>1. run'.line = 1 /\ run'.held = ExistingKeys(Project)
    BY <1>3, EndNamespacesDoes DEF TypeInv
  <2> SUFFICES ASSUME ~patchy PROVE Settled' /\ (\A k \in run'.held : Good(k)') /\ Written'
    BY <1>1, <1>3 DEF LineInv
  <2>2. Settled
    BY <1>1 DEF LineInv
  <2>3. Settled'
    BY <1>1, <2>2 DEF Settled, Good, Given
  <2>4. \A k \in run'.held : Good(k)'
    BY <2>1, <2>3, <1>1, HeldIs DEF Settled
  <2>5. Written'
    BY <2>1, FirstLine DEF Written
  <2> QED BY <2>3, <2>4, <2>5
<1> QED BY <1>2, <1>3, EndNamespacesDoes DEF TypeInv

\* A line that is not migrated: it is held, this is a dry run, or it is malformed.
LEMMA LinePast == ASSUME TypeInv, LineInv, SkipLine \/ LineFails PROVE LineInv'
<1>1. /\ run.pc = "line" /\ run'.pc = "line" /\ run.line \in DOMAIN Template /\ run'.line = run.line + 1
      /\ run'.held = run.held /\ run'.dry = run.dry
  BY LineDoes DEF TypeInv
<1>2. UNCHANGED <<secrets, own>>
  BY DEF SkipLine, LineFails
<1> SUFFICES ASSUME ~patchy'
             PROVE  /\ run.dry => Settled'
                    /\ \A k \in run.held : Good(k)'
                    /\ ~run.dry => Written'
  BY <1>1 DEF LineInv
<1>3. ~patchy
  <2>1. CASE SkipLine
    BY <2>1 DEF SkipLine
  <2>2. CASE LineFails
    <3>1. patchy' = (patchy \/ Line.kind # "malformed")
      BY <2>2 DEF LineFails
    <3> QED BY <3>1, Zenon
  <2> QED BY <2>1, <2>2
<1>4. Template[run.line].kind = "malformed" \/ Template[run.line].key \in run.held \/ run.dry
  <2>1. CASE SkipLine
    BY <2>1 DEF SkipLine, Held, Line
  <2>2. CASE LineFails
    <3>1. patchy' = (patchy \/ Line.kind # "malformed")
      BY <2>2 DEF LineFails
    <3>2. Line.kind = "malformed"
      BY <3>1, Zenon
    <3> QED BY <3>2 DEF Line
  <2> QED BY <2>1, <2>2
<1>5. run.dry => Settled
  BY <1>3 DEF LineInv
<1>6. \A k \in run.held : Good(k)
  BY <1>1, <1>3 DEF LineInv
<1>7. ASSUME ~run.dry PROVE Written'
  <2>1. Written
    BY <1>1, <1>3, <1>7 DEF LineInv
  <2>2. ASSUME NEW k \in Key \ run.held, NEW i \in LastBefore(k, run.line + 1)
        PROVE  i \in LastBefore(k, run.line)
    BY <1>1, <1>4, <1>7, <2>2, NextBefore
  <2> QED BY <1>1, <1>2, <2>1, <2>2 DEF Written, Given, LastBefore
<1> QED BY <1>2, <1>5, <1>6, <1>7 DEF Settled, Good, Given

LEMMA LineWritten == ASSUME TypeInv, LineInv, MigrateLine PROVE LineInv'
<1>0. PICK n \in DOMAIN Template : n = run.line
  BY LineDoes DEF TypeInv
<1> DEFINE key == Template[n].key
           s == Resolved(n)
<1>1. /\ run.pc = "line" /\ run'.pc = "line" /\ run'.line = n + 1
      /\ run'.held = run.held /\ run'.force = run.force /\ run'.dry = run.dry
  BY <1>0, LineDoes DEF TypeInv
<1>2. key \in Key /\ Project \in Target /\ s \in Secret /\ Resolves(Template[n])
  BY <1>0, Keys1, ResolvedIs DEF MigrateLine, Line, TypeInv
<1>3. /\ secrets' = [secrets EXCEPT ![Project][key] = s]
      /\ own \ {<<Project, key>>} \subseteq own' /\ own' \subseteq own
      /\ key \notin run.held /\ patchy' = patchy /\ ~run.dry
  BY <1>0 DEF MigrateLine, Line, Held
<1>4. key = Template[n].key /\ (secrets'[Project][key] = s => Given(key, n)')
  BY <1>2, GivenIs DEF TypeInv
<1> HIDE DEF key, s
<1>5. /\ secrets'[Project][key] = s
      /\ \A j \in Key : j # key => secrets'[Project][j] = secrets[Project][j]
  <2>1. TypeOK /\ Project \in Target /\ key \in Key /\ s \in Secret
        /\ secrets' = [secrets EXCEPT ![Project][key] = s]
    BY <1>2, <1>3 DEF TypeInv
  <2>2. /\ secrets'[Project][key] = s
        /\ \A u \in Target : \A j \in Key : u # Project \/ j # key => secrets'[u][j] = secrets[u][j]
    BY <2>1, SecretTyped
  <2> QED BY <2>1, <2>2
<1>6. \A j \in Key : j # key => (<<Project, j>> \in own' <=> <<Project, j>> \in own)
  BY <1>3
<1> SUFFICES ASSUME ~patchy PROVE (\A k \in run.held : Good(k)') /\ Written'
  BY <1>1, <1>3 DEF LineInv
<1>7. (\A k \in run.held : Good(k)) /\ Written
  BY <1>1, <1>3 DEF LineInv
<1>8. \A k \in run.held : Good(k)'
  <2>1. \A k \in run.held : k \in Key /\ k # key
    BY <1>3 DEF TypeInv, TypeOK, Command
  <2> QED BY <1>5, <1>6, <1>7, <2>1 DEF Good, Given
<1>9. ASSUME NEW k \in Key \ run.held, NEW i \in LastBefore(k, n + 1)
      PROVE  Given(k, i)'
  <2>1. CASE i = n /\ k = key
    BY <1>4, <1>5, <2>1
  <2>2. CASE i \in LastBefore(k, n) /\ k # key
    BY <1>0, <1>5, <1>7, <2>2 DEF Written, Given
  <2>3. Template[n].kind # "malformed"
    BY <1>2 DEF Resolves
  <2>4. \/ i = n /\ k = key
        \/ i \in LastBefore(k, n) /\ k # key
    BY <1>1, <1>4, <2>3, NextBefore
  <2> QED BY <2>1, <2>2, <2>4
<1> QED BY <1>1, <1>8, <1>9 DEF Written, Given, LastBefore

LEMMA LineOver == ASSUME TypeInv, LineInv, EndLines PROVE LineInv'
<1>1. run' \in Command /\ run.pc = "line" /\ run'.pc = "end" /\ Unmoved(run)
  BY GotoDoes DEF EndLines, TypeInv, PCs
<1>2. UNCHANGED <<secrets, own, patchy>> /\ run.line > Len(Template)
  BY DEF EndLines
<1>3. run.line = Len(Template) + 1
  BY <1>2, Lines DEF TypeInv, TypeOK, Command
<1> SUFFICES ASSUME ~patchy PROVE Settled' /\ (~run.dry => \A k \in Key : Good(k)')
  BY <1>1, <1>2 DEF LineInv, Unmoved
<1>4. ~run.dry => \A k \in Key : Good(k)
  BY <1>1, <1>3, LastLine DEF LineInv, Written, Good
<1>5. run.dry => Settled
  BY DEF LineInv
<1> QED BY <1>2, <1>4, <1>5 DEF Settled, Good, Given

LEMMA LineUser ==
    ASSUME TypeInv, LineInv, NEW t \in Target, NEW k \in Key, UserSets(t, k)
    PROVE  LineInv'
<1> DEFINE s == [value |-> "own", to |-> config.recipients, default |-> 0]
<1>1. /\ run' = run /\ run.pc = "idle" /\ patchy' = patchy
      /\ secrets' = [secrets EXCEPT ![t][k] = s] /\ own' = own \cup {<<t, k>>}
  BY IdleFields DEF UserSets
<1>2. s \in Secret /\ Project \in Target
  BY Keys1 DEF Secret, Value, TypeInv, TypeOK
<1> HIDE DEF s
<1>3. \A j \in Key : t # Project \/ j # k => secrets'[Project][j] = secrets[Project][j]
  BY <1>1, <1>2, SecretTyped DEF TypeInv
<1> SUFFICES ASSUME ~patchy PROVE Settled'
  BY <1>1 DEF LineInv
<1>4. Settled
  BY <1>1 DEF LineInv
<1> QED BY <1>1, <1>3, <1>4 DEF Settled, Good, Given

LEMMA LineKept ==
    ASSUME TypeInv, LineInv, [Next]_vars
    PROVE  LineInv'
<1>1. ASSUME UNCHANGED <<secrets, own, patchy>>, run.pc # "line", run'.pc \notin {"line", "end"}
      PROVE  LineInv'
  BY <1>1, LineElsewhere
<1>2. ASSUME NEW purge \in BOOLEAN, NEW force \in BOOLEAN, NEW dry \in BOOLEAN,
             NEW names \in SUBSET Namespace, Start(purge, force, dry, names)
      PROVE  LineInv'
  <2>1. UNCHANGED <<secrets, own, patchy>> /\ run.pc = "idle"
    BY <1>2 DEF Start
  <2>2. run'.pc = "providers"
    BY <1>2, StartDoes DEF TypeInv
  <2> QED BY <1>1, <2>1, <2>2
<1>3. ASSUME Providers \/ WriteConfig \/ SetKeychainItem \/ RemoveScratch \/ EndNamespace PROVE LineInv'
  <2>1. UNCHANGED <<secrets, own, patchy>> /\ run.pc # "line"
    BY <1>3 DEF Providers, WriteConfig, SetKeychainItem, RemoveScratch, EndNamespace
  <2>2. \E pc \in PCs \ {"line", "end"} : Goto(pc)
    BY <1>3 DEF Providers, WriteConfig, SetKeychainItem, RemoveScratch, EndNamespace, PCs
  <2>3. run'.pc \notin {"line", "end"}
    BY <2>2, GotoDoes DEF TypeInv
  <2> QED BY <1>1, <2>1, <2>3
<1>4. ASSUME ConfirmPurge PROVE LineInv'
  BY <1>1, <1>4, ConfirmDoes DEF ConfirmPurge, TypeInv
<1>5. ASSUME Purge PROVE LineInv'
  BY <1>1, <1>5, PurgeDoes DEF Purge, TypeInv
<1>6. ASSUME NEW ns \in Namespace, ReadNamespace(ns) PROVE LineInv'
  BY <1>1, <1>6, ReadDoes DEF ReadNamespace, TypeInv
<1>7. ASSUME NEW ns \in Namespace, NamespaceFails(ns) PROVE LineInv'
  BY <1>1, <1>7, NamespaceFailsDoes DEF NamespaceFails, TypeInv
<1>8. ASSUME NEW ns \in Namespace, NEW k \in Key, KeyFails(ns, k) PROVE LineInv'
  BY <1>1, <1>8, KeyDoes DEF KeyFails, TypeInv
<1>9. ASSUME End PROVE LineInv'
  BY <1>1, <1>9, IdleFields DEF End
<1>10. ASSUME Stop PROVE LineInv'
  <2>1. UNCHANGED <<secrets, own>> /\ run' = Idle /\ patchy' = (patchy \/ run.pc = "line")
    BY <1>10 DEF Stop
  <2>2. (patchy => patchy') /\ (run.pc = "line" => patchy')
    BY <2>1, Zenon
  <2>3. CASE run.pc = "line"
    BY <2>2, <2>3 DEF LineInv
  <2>4. CASE run.pc # "line"
    BY <2>1, <2>2, <2>4, IdleFields, LineElsewhere
  <2> QED BY <2>3, <2>4
<1>11. ASSUME NEW k \in SecurityKey, UserEnrolls(k) PROVE LineInv'
  BY <1>1, <1>11, IdleFields DEF UserEnrolls
<1>12. CASE UNCHANGED <<secrets, own, patchy, run>>
  BY <1>12 DEF LineInv, Settled, Good, Written, LastBefore, LastOf, Given
<1> QED
  BY <1>2, <1>3, <1>4, <1>5, <1>6, <1>7, <1>8, <1>9, <1>10, <1>11, <1>12,
     LineKey, LineFirst, LinePast, LineWritten, LineOver, LineUser
  DEF Next, vars

LEMMA PlainElsewhere ==
    ASSUME PlainInv, \A k \in Key : secrets'[Project][k] = secrets[Project][k],
           \A k \in Key : <<Project, k>> \in own => <<Project, k>> \in own'
    PROVE  PlainInv'
BY DEF PlainInv, Referenced

LEMMA PlainKept ==
    ASSUME TypeInv, PlainInv, [Next]_vars
    PROVE  PlainInv'
<1>1. CASE UNCHANGED <<secrets, own>>
  BY <1>1, PlainElsewhere
<1>2. ASSUME NEW ns \in Namespace, NEW k \in Key, MigrateKey(ns, k) PROVE PlainInv'
  <2>1. ns \in Target /\ Project \in Target /\ ns # Project
    BY StoredAssumption, Keys1
  <2>2. secrets'[Project] = secrets[Project]
    BY <1>2, <2>1 DEF MigrateKey, TypeInv, TypeOK
  <2>3. \A j \in Key : <<Project, j>> \in own => <<Project, j>> \in own'
    BY <1>2, <2>1 DEF MigrateKey
  <2> QED BY <2>2, <2>3, PlainElsewhere
<1>3. ASSUME MigrateLine PROVE PlainInv'
  <2> DEFINE key == Template[run.line].key
             s == Resolved(run.line)
  <2>1. /\ run.line \in DOMAIN Template /\ key \in Key /\ Project \in Target /\ s \in Secret
        /\ Template[run.line].kind = "literal" => s.value = secrets[Project][key].value
        /\ Template[run.line].kind # "literal" => Template[run.line].kind = "reference"
    BY <1>3, LineDoes, Keys1, ResolvedIs DEF MigrateLine, Line, TypeInv
  <2>2. /\ secrets' = [secrets EXCEPT ![Project][key] = s]
        /\ own \ {<<Project, key>>} \subseteq own'
        /\ Template[run.line].kind # "reference" => own' = own
    BY <1>3 DEF MigrateLine, Line
  <2>3. Template[run.line].kind = "reference" => Referenced(key)
    BY <2>1 DEF Referenced
  <2> HIDE DEF key, s
  <2>4. /\ secrets'[Project][key] = s
        /\ \A j \in Key : j # key => secrets'[Project][j] = secrets[Project][j]
    BY <2>1, <2>2, SecretTyped DEF TypeInv
  <2>6. \A j \in Key : Referenced(j) => Referenced(j)'
    BY DEF Referenced
  <2>7. ASSUME NEW j \in Key
        PROVE  Referenced(j)' \/ secrets'[Project][j].value = "none" \/ <<Project, j>> \in own'
    <3>1. CASE j = key
      BY <2>1, <2>2, <2>3, <2>4, <2>6, <3>1 DEF PlainInv
    <3>2. CASE j # key
      BY <2>2, <2>4, <2>6, <3>2 DEF PlainInv
    <3> QED BY <3>1, <3>2
  <2> QED BY <2>7 DEF PlainInv
<1>4. ASSUME NEW t \in Target, NEW k \in Key, UserSets(t, k) PROVE PlainInv'
  <2> DEFINE s == [value |-> "own", to |-> config.recipients, default |-> 0]
  <2>1. secrets' = [secrets EXCEPT ![t][k] = s] /\ own' = own \cup {<<t, k>>}
    BY <1>4 DEF UserSets
  <2>2. s \in Secret /\ Project \in Target
    BY Lines, Keys1 DEF Secret, Value, TypeInv, TypeOK
  <2> HIDE DEF s
  <2>3. \A j \in Key : t # Project \/ j # k => secrets'[Project][j] = secrets[Project][j]
    BY <2>1, <2>2, SecretTyped DEF TypeInv
  <2> QED BY <2>1, <2>3 DEF PlainInv, Referenced
<1>5. ASSUME NEW ns \in Namespace,
             ReadNamespace(ns) \/ NamespaceFails(ns) \/ \E k \in Key : KeyFails(ns, k)
      PROVE  UNCHANGED <<secrets, own>>
  BY <1>5 DEF ReadNamespace, NamespaceFails, KeyFails
<1>6. ASSUME \/ \E purge, force, dry \in BOOLEAN, names \in SUBSET Namespace : Start(purge, force, dry, names)
             \/ Providers \/ WriteConfig \/ SetKeychainItem \/ RemoveScratch \/ ConfirmPurge
             \/ \E k \in SecurityKey : UserEnrolls(k)
      PROVE  UNCHANGED <<secrets, own>>
  BY <1>6 DEF Start, Providers, WriteConfig, SetKeychainItem, RemoveScratch, ConfirmPurge, UserEnrolls
<1>7. ASSUME EndNamespace \/ Purge \/ EndNamespaces \/ SkipLine \/ LineFails \/ EndLines \/ End \/ Stop
      PROVE  UNCHANGED <<secrets, own>>
  BY <1>7 DEF EndNamespace, Purge, EndNamespaces, SkipLine, LineFails, EndLines, End, Stop
<1> QED BY <1>1, <1>2, <1>3, <1>4, <1>5, <1>6, <1>7 DEF Next, vars

LEMMA LineSays == ASSUME LineInv, PlainInv PROVE LastLineWins
BY DEF LineInv, PlainInv, LastLineWins, Good

-----------------------------------------------------------------------------
\* The inductive invariant, and what it proves.
IInv == TypeInv /\ KeptInv /\ LineInv /\ PlainInv

LEMMA InitHolds == Init => IInv
<1> SUFFICES ASSUME Init PROVE IInv
  OBVIOUS
<1>1. TypeInv
  BY InitTyped
<1>2. /\ run.pc = "idle" /\ own = {} /\ keychain = Namespace
      /\ \A t \in Target : \A k \in Key : secrets[t][k] = Absent
  BY IdleFields DEF Init
<1>3. OwnInv /\ SecretInv /\ PurgeInv /\ FreshInv
  BY <1>2, Keys1 DEF OwnInv, SecretInv, PurgeInv, FreshInv
<1>4. LineInv
  BY <1>2, Keys1 DEF LineInv, Settled
<1>5. PlainInv
  BY <1>2, Keys1, AbsentIsNone DEF PlainInv
<1> QED BY <1>1, <1>3, <1>4, <1>5 DEF IInv, KeptInv

LEMMA Inductive == IInv /\ [Next]_vars => IInv'
BY NextTyped, KeptKept, LineKept, PlainKept DEF IInv

LEMMA Invariant == Spec => []IInv
BY InitHolds, Inductive, PTL DEF Spec

\* A credential is in the keychain until fnox holds it, readable, whatever fails and
\* wherever a run is killed (envmigrate/migrate.go, fnox/bootstrap.go); the
\* exceptions are the two CredentialKept names.
THEOREM NeverLost == Spec => []CredentialKept
<1>1. IInv => CredentialKept
  BY KeptSays DEF IInv
<1> QED BY <1>1, Invariant, PTL

\* Every secret of fnox opens on this machine, is what the last line of the template
\* or the user made it (but for a literal a value hides), and stays the user's until
\* --force: for any template and keychain (fnox/bootstrap.go, envmigrate/migrate.go).
THEOREM AlwaysRight == Spec => []SecretsRight
<1>1. IInv => SecretsRight
  BY KeptSays, OpenSays, LineSays DEF IInv, SecretsRight
<1> QED BY <1>1, Invariant, PTL

=============================================================================
