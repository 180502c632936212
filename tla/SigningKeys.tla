----------------------------- MODULE SigningKeys -----------------------------
(* dotty signing-key and the allowlist verbs: resident credentials on the keys, *)
(* their stubs filed by serial in the data directory, the allowed_signers file, *)
(* the fixed identity link, and git signing through them. Commands run in more  *)
(* than one terminal, wait for touches and answers, and may be killed.          *)
(*                                                                              *)
(* One username: a key has one resident credential under its application, which *)
(* an enrollment replaces whatever its type.                                    *)
EXTENDS SecurityKeys

CONSTANTS
    Terminal,
    MaxRuns,   \* bound: commands begun
    MaxMoves   \* bound: keys plugged in or out

ASSUME BoundAssumption == MaxRuns \in Nat

KeyType == {"ed25519", "ecdsa"}
None == <<>>
Cred == Serial \X KeyType \X (0..MaxRuns)
Ref == Serial \X KeyType

VARIABLES
    resident,  \* the credential each key holds
    stub, pub, \* the two files of each ref: the credential each names
    backup,    \* stubs (with their public keys) outside the data directory
    trusted,   \* the credentials allowed_signers names
    link,      \* the refs the identity link and its .pub point at
    signature, \* the last one made: the public key git named, the credential used,
               \* and what the run that made it knew
    run,
    runs, moves,
    \* History, read by properties only.
    mistouched, \* was another key touched than the one dotty named?
    crowded,    \* were two keys moved during one replug?
    torn,       \* was a copy cut between its two files, or crossed by another?
    crossed,    \* was a link cut between its two, or crossed by another?
    raced,      \* did two runs have the signers file open at once?
    abandoned,  \* did an enrollment clear a stub and make no other?
    filed,      \* credentials that had a stub
    erased      \* stubs an import deleted from the data directory as its source

history == <<mistouched, crowded, torn, crossed, raced, abandoned, filed, erased>>
disk == <<stub, pub, backup, trusted, link>>
vars == <<keyVars, resident, disk, signature, run, runs, moves, history>>

\* listed: the allowlist as sign read it; checked: whether it looked there; stale:
\* whether the stub was written between its being chosen and being opened.
Signature == [asked : Cred \cup {None}, by : Cred \cup {None}, listed : SUBSET Serial,
              checked : BOOLEAN, stale : BOOLEAN]

\* Where an import takes a stub from: the backup, or a ref of the data directory.
Source == [self : BOOLEAN, ref : Ref, cred : Cred]
Idle == [pc |-> "idle", nth |-> 0, serials |-> {}, type |-> "ed25519", want |-> {}, current |-> {},
         track |-> [serials |-> {}, paths |-> {}, gone |-> {}], moved |-> {}, device |-> {}, cleared |-> FALSE,
         sources |-> {}, index |-> {}, done |-> {}, ref |-> {}, cred |-> None, seen |-> {}, add |-> {},
         checked |-> FALSE, stale |-> FALSE]

TypeOK ==
    /\ KeysTypeOK
    /\ resident \in [Serial -> Cred \cup {None}]
    /\ stub \in [Ref -> Cred \cup {None}] /\ pub \in [Ref -> Cred \cup {None}]
    /\ backup \subseteq Cred /\ trusted \subseteq Cred
    /\ link \in [stub : SUBSET Ref, pub : SUBSET Ref]
    /\ Cardinality(link.stub) <= 1 /\ Cardinality(link.pub) <= 1
    /\ signature \in Signature
    /\ \A t \in Terminal :
        /\ run[t].track \in Tracker /\ run[t].device \subseteq HIDPath
        /\ run[t].serials \subseteq Serial /\ run[t].index \subseteq Cred \X Serial
        /\ run[t].sources \subseteq Source /\ run[t].done \subseteq Source \X Ref
        /\ run[t].ref \subseteq Ref /\ run[t].seen \cup run[t].add \subseteq Cred
    /\ filed \subseteq Cred /\ erased \subseteq Cred
    /\ \A s \in Serial : resident[s] # None => resident[s][1] = s

First(s) == <<s, "ed25519", 0>>
\* Each key was enrolled once; which stubs are in the data directory, and which in
\* a backup, varies.
Init ==
    /\ plugged = Serial /\ path = [s \in Serial |-> 0]
    /\ allowed \in {{}} \cup {{s} : s \in Serial}
    /\ resident = [s \in Serial |-> First(s)]
    /\ \E here \in SUBSET Serial :
        /\ stub = [r \in Ref |-> IF r[1] \in here /\ r[2] = "ed25519" THEN First(r[1]) ELSE None]
        /\ pub = stub
        /\ filed = {First(s) : s \in here}
        /\ backup = {First(s) : s \in Serial \ here}
    /\ trusted = {}
    /\ link = [stub |-> {}, pub |-> {}]
    /\ signature = [asked |-> None, by |-> None, listed |-> {}, checked |-> FALSE, stale |-> FALSE]
    /\ run = [t \in Terminal |-> Idle]
    /\ runs = 0 /\ moves = 0
    /\ mistouched = FALSE /\ crowded = FALSE /\ torn = FALSE /\ crossed = FALSE
    /\ raced = FALSE /\ abandoned = FALSE /\ erased = {}

At(t, pc) == run[t].pc = pc
Becomes(t, r) == run' = [run EXCEPT ![t] = r]
Goto(t, pc) == Becomes(t, [run[t] EXCEPT !.pc = pc])
Begin(t, r) ==
    /\ At(t, "idle") /\ runs < MaxRuns
    /\ runs' = runs + 1
    /\ Becomes(t, r)
    /\ UNCHANGED <<keyVars, resident, disk, signature, moves, history>>

\* What a step that only goes on leaves alone.
Quiet == UNCHANGED <<keyVars, resident, disk, signature, runs, moves>>

Scan(serials) == {r \in Ref : r[1] \in serials /\ stub[r] # None}
\* The serial given, or that of the one key plugged in.
ResolveSerial(want) ==
    IF want # {} THEN want ELSE IF Cardinality(plugged) = 1 THEN plugged ELSE {}
PreferDefaultKeyType(refs) ==
    IF \E r \in refs : r[2] = "ed25519" THEN {r \in refs : r[2] = "ed25519"} ELSE refs
Want == {{}} \cup {{s} : s \in Serial}

-----------------------------------------------------------------------------
\* signing-key new.

StartNew(t, type, want) ==
    /\ plugged # {} /\ want \subseteq plugged
    /\ Begin(t, IF Cardinality(plugged) = 1
                THEN [Idle EXCEPT !.pc = "allowed", !.nth = runs + 1, !.type = type, !.serials = plugged]
                ELSE [Idle EXCEPT !.pc = "poll", !.nth = runs + 1, !.type = type, !.want = want,
                                  !.serials = plugged, !.track = NewReplugTracker])

\* A poll lists the serials, then the devices: keys move in between.
Poll(t) ==
    /\ At(t, "poll")
    /\ Becomes(t, [run[t] EXCEPT !.pc = "observe", !.current = plugged])
    /\ Quiet /\ UNCHANGED history

Chosen(t, s, device) ==
    Becomes(t, [Idle EXCEPT !.pc = "allowed", !.nth = run[t].nth, !.type = run[t].type,
                            !.serials = {s}, !.device = device])

Watching(t) ==
    /\ At(t, "observe")
    /\ ~Identifies(run[t].track, run[t].current)
    /\ \E tr \in Observed(run[t].track, run[t].current, Paths) :
        Becomes(t, [run[t] EXCEPT !.pc = "poll", !.current = {}, !.track = tr])
    /\ Quiet /\ UNCHANGED history

\* Another key than the one asked for ends the run.
Observe(t) ==
    /\ At(t, "observe")
    /\ Identifies(run[t].track, run[t].current)
    /\ crowded' = (crowded \/ Cardinality(run[t].moved) > 1)
    /\ \E s \in run[t].track.gone :
        IF run[t].want \subseteq {s}
        THEN \E device \in DevicePath(run[t].track, Paths) : Chosen(t, s, device)
        ELSE Becomes(t, Idle)
    /\ Quiet /\ UNCHANGED <<mistouched, torn, crossed, raced, abandoned, filed, erased>>

\* Esc, or a minute has passed: the serial from a list, the device from a touch.
PickInstead(t) ==
    /\ At(t, "poll")
    /\ \E s \in IF run[t].want # {} THEN run[t].want ELSE run[t].serials : Chosen(t, s, {})
    /\ Quiet /\ UNCHANGED history

StubPath(t) == CHOOSE r \in Ref : r[1] \in run[t].serials /\ r[2] = run[t].type

CheckAllowed(t) ==
    /\ At(t, "allowed")
    /\ IF RequireAllowed(StubPath(t)[1])
       THEN Goto(t, IF stub[StubPath(t)] = None THEN "generate" ELSE "confirm")
       ELSE Becomes(t, Idle)
    /\ Quiet /\ UNCHANGED history

Clear(r) == stub' = [stub EXCEPT ![r] = None] /\ pub' = [pub EXCEPT ![r] = None]
Cleared(t) == Becomes(t, [run[t] EXCEPT !.pc = "generate", !.cleared = TRUE])
\* A bug to check the properties against: the old files go before the answer.
ClearFirst(t) ==
    /\ At(t, "confirm")
    /\ Clear(StubPath(t))
    /\ Cleared(t) \/ Becomes(t, Idle)
    /\ UNCHANGED <<keyVars, resident, backup, trusted, link, signature, runs, moves, history>>
ConfirmReplaceStub(t) ==
    /\ At(t, "confirm")
    /\ \/ Clear(StubPath(t)) /\ Cleared(t)
       \/ UNCHANGED <<stub, pub>> /\ Becomes(t, Idle)
    /\ UNCHANGED <<keyVars, resident, backup, trusted, link, signature, runs, moves, history>>

\* The hardware: at the path given, or whichever plugged key is touched.
Touched(t) ==
    IF run[t].device = {} THEN plugged ELSE {s \in plugged : <<s, path[s]>> \in run[t].device}

\* Where a copy in another terminal stands between its files.
Copying(t, r) == \E u \in Terminal \ {t} : At(u, "copypub") /\ r \in run[u].ref

Generate(t) ==
    /\ At(t, "generate")
    /\ \E s \in Touched(t) :
        LET new == <<s, run[t].type, run[t].nth>> IN
        /\ resident' = [resident EXCEPT ![s] = new]
        /\ stub' = [stub EXCEPT ![StubPath(t)] = new] /\ pub' = [pub EXCEPT ![StubPath(t)] = new]
        /\ filed' = filed \cup {new}
        /\ mistouched' = (mistouched \/ (run[t].device = {} /\ {s} # run[t].serials))
        /\ torn' = (torn \/ Copying(t, StubPath(t)))
    /\ Goto(t, "trust")
    /\ UNCHANGED <<keyVars, backup, trusted, link, signature, runs, moves, crowded, crossed, raced, abandoned, erased>>

\* The key is gone, refuses, or the PIN is wrong.
GenerateFails(t) ==
    /\ At(t, "generate")
    /\ abandoned' = (abandoned \/ run[t].cleared)
    /\ Becomes(t, Idle)
    /\ Quiet /\ UNCHANGED <<mistouched, crowded, torn, crossed, raced, filed, erased>>

-----------------------------------------------------------------------------
\* signing-key trust, and the trust that ends new.

PluggedStubs(want) == Scan(FilterAllowed(IF want = {} THEN plugged ELSE plugged \cap want))
Trustable(refs) == refs # {} /\ \A r \in refs : pub[r] # None
Read(t, refs) == [Idle EXCEPT !.pc = "append", !.seen = trusted, !.add = {pub[r] : r \in refs}]
Racing(t) == raced' = (raced \/ \E u \in Terminal \ {t} : At(u, "append"))

StartTrust(t, want) ==
    /\ Trustable(PluggedStubs(want))
    /\ At(t, "idle") /\ runs < MaxRuns
    /\ runs' = runs + 1
    /\ Becomes(t, Read(t, PluggedStubs(want)))
    /\ Racing(t)
    /\ UNCHANGED <<keyVars, resident, disk, signature, moves, mistouched, crowded, torn, crossed, abandoned, filed, erased>>

\* Best effort: what keeps it from the file is warned about.
TrustNew(t) ==
    /\ At(t, "trust")
    /\ \/ Trustable(PluggedStubs({})) /\ Becomes(t, Read(t, PluggedStubs({}))) /\ Racing(t)
       \/ Becomes(t, Idle) /\ UNCHANGED raced
    /\ Quiet /\ UNCHANGED <<mistouched, crowded, torn, crossed, abandoned, filed, erased>>

\* A bug to check the properties against: the file is written with what is new.
AppendedOnly(t) == run[t].add \ run[t].seen
Content(t) == run[t].seen \cup run[t].add

\* With nothing to add the file is not written.
Trust(t) ==
    /\ At(t, "append")
    /\ trusted' = IF run[t].add \subseteq run[t].seen THEN trusted ELSE Content(t)
    /\ Becomes(t, Idle)
    /\ UNCHANGED <<keyVars, resident, stub, pub, backup, link, signature, runs, moves, history>>

-----------------------------------------------------------------------------
\* signing-key import.

Sources(self) ==
    IF self THEN {[self |-> TRUE, ref |-> r, cred |-> pub[r]] : r \in {r \in Ref : stub[r] # None /\ pub[r] # None}}
    ELSE {[self |-> FALSE, ref |-> <<c[1], c[2]>>, cred |-> c] : c \in backup}

\* From a backup, or from the data directory itself.
StartImport(t, self, want) ==
    LET serials == FilterAllowed(IF want = {} THEN plugged ELSE plugged \cap want) IN
    /\ Sources(self) # {} /\ serials # {}
    /\ Begin(t, [Idle EXCEPT !.pc = "touch", !.serials = serials, !.sources = Sources(self)])

\* What the touched key holds is noted under the serial asked for; a key that
\* cannot be read is passed over.
ResidentPubKeys(t) ==
    /\ At(t, "touch")
    /\ \E asked \in run[t].serials :
        LET rest == run[t].serials \ {asked}
            next == IF rest = {} THEN "import" ELSE "touch" IN
        \/ \E s \in plugged :
            /\ Becomes(t, [run[t] EXCEPT !.pc = next, !.serials = rest, !.index = @ \cup {<<resident[s], asked>>}])
            /\ mistouched' = (mistouched \/ s # asked)
        \/ Becomes(t, [run[t] EXCEPT !.pc = next, !.serials = rest]) /\ UNCHANGED mistouched
    /\ Quiet /\ UNCHANGED <<crowded, torn, crossed, raced, abandoned, filed, erased>>

StubOf(x) == IF x.self THEN stub[x.ref] ELSE x.cred
PubOf(x) == IF x.self THEN pub[x.ref] ELSE x.cred
Readable(x) == StubOf(x) # None /\ PubOf(x) # None

Holders(t, x) == {i[2] : i \in {i \in run[t].index : i[1] = PubOf(x)}}

\* A source no key holds, or one whose destination the user will not give up.
SkipSource(t, x) ==
    /\ At(t, "import") /\ x \in run[t].sources
    /\ PubOf(x) # None
    /\ \/ Holders(t, x) = {}
       \/ \E s \in Holders(t, x) : stub[<<s, x.ref[2]>>] # None
    /\ Becomes(t, [run[t] EXCEPT !.sources = @ \ {x}])
    /\ Quiet /\ UNCHANGED history

CopyStub(t, x) ==
    /\ At(t, "import") /\ x \in run[t].sources
    /\ Readable(x)
    /\ \E s \in Holders(t, x) :
        LET dest == <<s, x.ref[2]>> IN
        /\ stub' = [stub EXCEPT ![dest] = StubOf(x)]
        /\ filed' = filed \cup {StubOf(x)}
        /\ erased' = erased \cup {c \in {stub[dest]} : c \notin {None, StubOf(x)}}
        /\ torn' = (torn \/ Copying(t, dest) \/ (x.self /\ Copying(t, x.ref)))
        /\ Becomes(t, [run[t] EXCEPT !.pc = "copypub", !.ref = {dest}, !.cred = PubOf(x),
                                      !.sources = @ \ {x}, !.done = @ \cup {<<x, dest>>}])
    /\ UNCHANGED <<keyVars, resident, pub, backup, trusted, link, signature, runs, moves,
                   mistouched, crowded, crossed, raced, abandoned>>

\* A bug to check the properties against: a public key in place is good enough.
PubIfMissing(t, r) == IF pub[r] = None THEN run[t].cred ELSE pub[r]
PubCopied(t, r) == run[t].cred

CopyPub(t) ==
    /\ At(t, "copypub")
    /\ \E r \in run[t].ref :
        /\ pub' = [pub EXCEPT ![r] = PubCopied(t, r)]
        /\ torn' = (torn \/ Copying(t, r))
    /\ Becomes(t, [run[t] EXCEPT !.pc = "import", !.ref = {}, !.cred = None])
    /\ UNCHANGED <<keyVars, resident, stub, backup, trusted, link, signature, runs, moves,
                   mistouched, crowded, crossed, raced, abandoned, filed, erased>>

EndImport(t) ==
    /\ At(t, "import") /\ run[t].sources = {}
    /\ IF run[t].done = {} THEN Becomes(t, Idle) ELSE Goto(t, "remove")
    /\ Quiet /\ UNCHANGED history

\* With --rm, or when the user agrees.
RemoveImportedSources(t) ==
    LET gone == {d[1] : d \in run[t].done}
        refs == {x.ref : x \in {x \in gone : x.self}} IN
    /\ At(t, "remove")
    /\ \/ /\ backup' = backup \ {x.cred : x \in {x \in gone : ~x.self}}
          /\ stub' = [r \in Ref |-> IF r \in refs THEN None ELSE stub[r]]
          /\ pub' = [r \in Ref |-> IF r \in refs THEN None ELSE pub[r]]
          /\ erased' = erased \cup ({stub[r] : r \in refs} \ {None})
       \/ UNCHANGED <<backup, stub, pub, erased>>
    /\ Becomes(t, Idle)
    /\ UNCHANGED <<keyVars, resident, trusted, link, signature, runs, moves,
                   mistouched, crowded, torn, crossed, raced, abandoned, filed>>

-----------------------------------------------------------------------------
\* signing-key link: ssh asks for it on every connection.

Linking == {t \in Terminal : At(t, "linkstub") \/ At(t, "linkpub")}

StartLink(t, want) ==
    \E s \in ResolveSerial(want) :
        /\ RequireAllowed(s)
        /\ At(t, "idle") /\ runs < MaxRuns
        /\ runs' = runs + 1
        /\ \E r \in PreferDefaultKeyType(Scan({s})) :
            Becomes(t, [Idle EXCEPT !.pc = "linkstub", !.ref = {r}])
        /\ crossed' = (crossed \/ Linking # {})
        /\ UNCHANGED <<keyVars, resident, disk, signature, moves, mistouched, crowded, torn, raced, abandoned, filed, erased>>

\* A bug to check the properties against: the former link is not taken away.
LinkBeside(t) ==
    /\ At(t, "linkstub")
    /\ link' = [link EXCEPT !.stub = @ \cup run[t].ref]
    /\ Goto(t, "linkpub")
    /\ UNCHANGED <<keyVars, resident, stub, pub, backup, trusted, signature, runs, moves, history>>
LinkStub(t) ==
    /\ At(t, "linkstub")
    /\ link' = [link EXCEPT !.stub = run[t].ref]
    /\ Goto(t, "linkpub")
    /\ UNCHANGED <<keyVars, resident, stub, pub, backup, trusted, signature, runs, moves, history>>

\* A bug to check the properties against: a link in place is kept.
LinkPubOnce(t) ==
    /\ At(t, "linkpub")
    /\ link' = [link EXCEPT !.pub = IF @ = {} THEN run[t].ref ELSE @]
    /\ Becomes(t, Idle)
    /\ UNCHANGED <<keyVars, resident, stub, pub, backup, trusted, signature, runs, moves, history>>
LinkPub(t) ==
    /\ At(t, "linkpub")
    /\ link' = [link EXCEPT !.pub = run[t].ref]
    /\ Becomes(t, Idle)
    /\ UNCHANGED <<keyVars, resident, stub, pub, backup, trusted, signature, runs, moves, history>>

-----------------------------------------------------------------------------
\* Signing. git asks get for a public key, and hands it to sign.

GetKey(t, want) ==
    \E s \in ResolveSerial(want) :
        /\ RequireAllowed(s)
        /\ \E r \in PreferDefaultKeyType(Scan({s})) :
            /\ pub[r] # None
            /\ Begin(t, [Idle EXCEPT !.pc = "sign", !.cred = pub[r]])

FilterAllowedRefs(refs) == {r \in refs : RequireAllowed(r[1])}
\* A bug to check the properties against: any stub of the key's type.
MatchByType(cred) == {r \in FilterAllowedRefs(Scan(Serial)) : r[2] = cred[2]}
MatchByPublicKey(cred) == {r \in FilterAllowedRefs(Scan(Serial)) : pub[r] = cred}

\* A copy stands between the two files of the ref.
Halfway(r) == \E u \in Terminal : At(u, "copypub") /\ r \in run[u].ref

\* The arguments ssh-keygen gets: a stub, chosen for the public key that was asked
\* for, if any, and checked against the allowlist or not.
RewriteSignArgs(asked, r, checked) ==
    [Idle EXCEPT !.pc = "keygen", !.cred = asked, !.ref = {r}, !.seen = {stub[r]} \ {None},
                 !.serials = allowed, !.checked = checked, !.stale = Halfway(r)]

\* A public key: the stub that goes with it, or an error.
Sign(t) ==
    /\ At(t, "sign")
    /\ \/ \E r \in MatchByPublicKey(run[t].cred) :
             Becomes(t, RewriteSignArgs(run[t].cred, r, TRUE))
       \/ MatchByPublicKey(run[t].cred) = {} /\ Becomes(t, Idle)
    /\ Quiet /\ UNCHANGED history

\* By hand, without a key: the only stub of the serial.
SignFile(t, want) ==
    \E s \in ResolveSerial(want) :
        /\ RequireAllowed(s)
        /\ Cardinality(Scan({s})) = 1
        /\ \E r \in Scan({s}) : Begin(t, RewriteSignArgs(None, r, TRUE))

\* -f with a stub, from user.signingKey or by hand, goes to ssh-keygen as it is.
SignWith(t, r) == stub[r] # None /\ Begin(t, RewriteSignArgs(None, r, FALSE))

\* ssh-keygen opens the stub, whatever it names by then.
OpenStub(t) ==
    /\ At(t, "keygen")
    /\ \E r \in run[t].ref :
        IF stub[r] = None THEN Becomes(t, Idle)
        ELSE Becomes(t, [run[t] EXCEPT !.pc = "signing", !.seen = {stub[r]},
                                       !.stale = @ \/ run[t].seen # {stub[r]}])
    /\ Quiet /\ UNCHANGED history

\* It waits for the PIN and a touch of a key that holds the credential.
Signs(t) ==
    /\ At(t, "signing")
    /\ \E s \in plugged :
        /\ resident[s] \in run[t].seen
        /\ signature' = [asked |-> run[t].cred, by |-> resident[s], listed |-> run[t].serials,
                         checked |-> run[t].checked, stale |-> run[t].stale]
    /\ Becomes(t, Idle)
    /\ UNCHANGED <<keyVars, resident, disk, runs, moves, history>>

-----------------------------------------------------------------------------
\* The allowlist: loaded, a picker, saved.

StartAllow(t) == Begin(t, [Idle EXCEPT !.pc = "allow", !.serials = allowed])
StartDisallow(t) == allowed # {} /\ Begin(t, [Idle EXCEPT !.pc = "disallow", !.serials = allowed])

Save(t, serials) ==
    /\ allowed' = serials
    /\ Becomes(t, Idle)
    /\ UNCHANGED <<plugged, path, resident, disk, signature, runs, moves, history>>
Allow(t, picked) == At(t, "allow") /\ Save(t, run[t].serials \cup picked)
Disallow(t, picked) == At(t, "disallow") /\ Save(t, run[t].serials \ picked)

-----------------------------------------------------------------------------
\* Killed, a call failed, or the user left.
Stop(t) ==
    /\ run[t].pc \notin {"idle", "generate"}
    /\ torn' = (torn \/ At(t, "copypub"))
    /\ crossed' = (crossed \/ At(t, "linkpub"))
    /\ Becomes(t, Idle)
    /\ Quiet /\ UNCHANGED <<mistouched, crowded, raced, abandoned, filed, erased>>

\* A replug may bring a new registry entry or the old one.
Moved(s) == run' = [t \in Terminal |-> IF run[t].pc \in {"poll", "observe"}
                                       THEN [run[t] EXCEPT !.moved = @ \cup {s}] ELSE run[t]]
Move(s) ==
    /\ moves < MaxMoves
    /\ moves' = moves + 1
    /\ \/ s \in plugged /\ plugged' = plugged \ {s} /\ UNCHANGED path
       \/ /\ s \notin plugged /\ plugged' = plugged \cup {s}
          /\ \E p \in {0, 1} : path' = [path EXCEPT ![s] = p]
    /\ Moved(s)
    /\ UNCHANGED <<allowed, resident, disk, signature, runs, history>>

Next ==
    \/ \E t \in Terminal :
        \/ \E want \in Want :
            \/ \E type \in KeyType : StartNew(t, type, want)
            \/ \E self \in BOOLEAN : StartImport(t, self, want)
            \/ StartTrust(t, want) \/ StartLink(t, want) \/ GetKey(t, want) \/ SignFile(t, want)
        \/ \E r \in Ref : SignWith(t, r)
        \/ Poll(t) \/ Watching(t) \/ Observe(t) \/ PickInstead(t)
        \/ CheckAllowed(t) \/ ConfirmReplaceStub(t) \/ Generate(t) \/ GenerateFails(t) \/ TrustNew(t) \/ Trust(t)
        \/ ResidentPubKeys(t) \/ CopyPub(t) \/ EndImport(t) \/ RemoveImportedSources(t)
        \/ \E x \in run[t].sources : SkipSource(t, x) \/ CopyStub(t, x)
        \/ LinkStub(t) \/ LinkPub(t) \/ Sign(t) \/ OpenStub(t) \/ Signs(t)
        \/ StartAllow(t) \/ StartDisallow(t)
        \/ \E picked \in SUBSET Serial \ {{}} : Allow(t, picked) \/ Disallow(t, picked)
        \/ Stop(t)
    \/ \E s \in Serial : Move(s)

Spec == Init /\ [][Next]_vars

-----------------------------------------------------------------------------
\* A stub lies under the serial of the key its credential is on: unless another key
\* was touched than the one dotty named, or two were moved during one replug.
FiledRight ==
    mistouched \/ crowded \/ \A r \in Ref : stub[r] # None => stub[r][1] = r[1]

\* The two files of a ref name one credential, unless an import was cut or crossed
\* between them.
PairsWhole ==
    torn \/ \A r \in Ref : stub[r] # None /\ pub[r] # None =>
        stub[r] = pub[r] \/ \E t \in Terminal : At(t, "copypub") /\ r \in run[t].ref

\* What git asked to be signed with a public key is signed with its credential,
\* whatever was enrolled, imported or replugged between git's two commands and while
\* ssh-keygen waits: unless an import was between the two files of the stub when it
\* was chosen, or the stub was written before ssh-keygen opened it.
SignedAsAsked ==
    signature' # signature /\ ~torn /\ ~signature'.stale =>
        signature'.asked \in {None, signature'.by}

\* Hardware a restricted profile did not list when sign looked makes no signature
\* through it: unless -f named a stub, which is passed through unchecked.
SignsAllowed ==
    signature' # signature /\ signature'.checked /\ ~mistouched /\ ~crowded =>
        signature'.listed = {} \/ signature'.by[1] \in signature'.listed

\* Both: a signature is made by what was asked for, on hardware that may make it.
SignedRight == [][SignedAsAsked /\ SignsAllowed]_vars

\* The credential a key holds keeps its stub, once it had one: unless an enrollment
\* failed after clearing it (cmd/signingkey_new.go:165), an import overwrote or
\* deleted it, or a stub went under another key's serial.
StubKept ==
    mistouched \/ crowded \/ abandoned \/ \A s \in Serial :
        resident[s] \in filed \ erased =>
            \/ \E r \in Ref : stub[r] = resident[s]
            \/ \E t \in Terminal : At(t, "generate") /\ run[t].cleared

\* Nothing leaves allowed_signers, unless two runs had it open at once.
TrustKept == [][raced \/ trusted \subseteq trusted']_vars

\* The identity link and its .pub point at one ref, unless a run was cut between
\* them or two crossed.
LinkPair == crossed \/ link.stub = link.pub \/ \E t \in Terminal : At(t, "linkpub")

\* All three: whatever files go together stay together, stub and public key, key and
\* directory, link and link.
FilesRight == FiledRight /\ PairsWhole /\ LinkPair
=============================================================================
