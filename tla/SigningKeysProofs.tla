-------------------------- MODULE SigningKeysProofs --------------------------
(* Proofs about SigningKeys, for any keys, terminals and bounds. *)
EXTENDS SigningKeys, FiniteSetTheorems, TLAPS

-----------------------------------------------------------------------------
\* What is inductive.

PCs == {"idle", "allowed", "poll", "observe", "confirm", "generate", "trust", "append", "touch",
        "import", "copypub", "remove", "linkstub", "linkpub", "sign", "keygen", "signing", "allow",
        "disallow"}
Command == [pc : PCs, nth : 0..MaxRuns, serials : SUBSET Serial, type : KeyType, want : SUBSET Serial,
            current : SUBSET Serial, track : Tracker, moved : SUBSET Serial, device : SUBSET HIDPath,
            cleared : BOOLEAN, sources : SUBSET Source, index : SUBSET (Cred \X Serial),
            done : SUBSET (Source \X Ref), ref : SUBSET Ref, cred : Cred \cup {None},
            seen : SUBSET Cred, add : SUBSET Cred, checked : BOOLEAN, stale : BOOLEAN]

AtMostOne(S) == \A q, r \in S : q = r

TypeInv ==
    /\ KeysTypeOK
    /\ resident \in [Serial -> Cred] /\ \A s \in Serial : resident[s][1] = s
    /\ stub \in [Ref -> Cred \cup {None}] /\ pub \in [Ref -> Cred \cup {None}]
    /\ backup \subseteq Cred /\ trusted \subseteq Cred
    /\ link \in [stub : SUBSET Ref, pub : SUBSET Ref] /\ AtMostOne(link.stub) /\ AtMostOne(link.pub)
    /\ signature \in Signature
    /\ run \in [Terminal -> Command]
    /\ runs \in 0..MaxRuns
    /\ filed \subseteq Cred /\ erased \subseteq Cred

Enrolling == {"allowed", "confirm", "generate"}
\* A command that enrolls has one key in mind, and the device it opens is that key's.
Enrols(r) == r.pc \in Enrolling =>
    \E s \in Serial : r.serials = {s} /\ (crowded \/ \A d \in r.device : d[1] = s)
\* A replug is judged by what has not moved since the first look.
Tracks(r) == r.pc \in {"poll", "observe"} =>
    /\ r.track.gone \subseteq r.moved
    /\ \A s \in Serial \ r.moved :
        /\ s \in r.track.serials <=> s \in plugged
        /\ \A p \in {0, 1} : <<s, p>> \in r.track.paths <=> s \in plugged /\ p = path[s]
        /\ r.pc = "observe" => (s \in r.current <=> s \in plugged)
Indexes(r) == mistouched \/ \A i \in r.index : i[1][1] = i[2]
Refers(r) ==
    /\ r.pc \in {"linkstub", "linkpub", "copypub"} => \E q \in Ref : r.ref = {q}
    /\ r.pc \in {"sign", "copypub"} => r.cred \in Cred
\* A stub was chosen by its public key, which was that of the credential, and by its
\* serial, which the allowlist named; what ssh-keygen opened is on the key of its serial.
Signing(r) == r.pc \in {"keygen", "signing"} => \E q \in Ref :
    /\ r.ref = {q}
    /\ r.checked => r.serials = {} \/ q[1] \in r.serials
    /\ torn \/ r.stale \/ r.cred = None \/ r.seen \subseteq {r.cred}
    /\ r.pc = "signing" => mistouched \/ crowded \/ \A c \in r.seen : c[1] = q[1]
Local(r) == Enrols(r) /\ Tracks(r) /\ Indexes(r) /\ Refers(r) /\ Signing(r)
LocalInv == \A t \in Terminal : Local(run[t])

\* Stubs, public keys and a copy under way lie under the serial of their key.
FiledInv ==
    \/ mistouched \/ crowded
    \/ /\ \A r \in Ref : (stub[r] # None => stub[r][1] = r[1]) /\ (pub[r] # None => pub[r][1] = r[1])
       /\ \A t \in Terminal : At(t, "copypub") => \A r \in run[t].ref : run[t].cred[1] = r[1]

\* Until a copy writes the second file, the first is the one it wrote, or none.
PairInv ==
    \/ torn
    \/ /\ \A r \in Ref : stub[r] # None /\ pub[r] # None =>
            stub[r] = pub[r] \/ \E t \in Terminal : At(t, "copypub") /\ r \in run[t].ref
       /\ \A t \in Terminal : At(t, "copypub") => \A r \in run[t].ref : stub[r] \in {None, run[t].cred}

LinkInv ==
    \/ crossed
    \/ /\ \A t, u \in Linking : t = u
       /\ \A t \in Terminal : At(t, "linkpub") => link.stub = run[t].ref
       /\ link.stub = link.pub \/ \E t \in Terminal : At(t, "linkpub")

AppendInv ==
    raced \/ \A t \in Terminal : At(t, "append") =>
        run[t].seen = trusted /\ \A u \in Terminal : At(u, "append") => u = t

\* Whoever cleared the stub of a key is still at that key.
KeptInv ==
    mistouched \/ crowded \/ abandoned \/ \A s \in Serial : resident[s] \in filed \ erased =>
        \/ \E r \in Ref : stub[r] = resident[s]
        \/ \E t \in Terminal : At(t, "generate") /\ run[t].cleared /\ run[t].serials = {s}

IInv == TypeInv /\ LocalInv /\ FiledInv /\ PairInv /\ LinkInv /\ AppendInv /\ KeptInv

-----------------------------------------------------------------------------
\* The data.

LEMMA CredIs ==
    /\ None \notin Cred
    /\ \A s \in Serial, k \in KeyType, n \in 0..MaxRuns : <<s, k, n>> \in Cred
    /\ \A c \in Cred : c[1] \in Serial /\ c[2] \in KeyType /\ <<c[1], c[2]>> \in Ref
BY DEF None, Cred, Ref

LEMMA RefIs ==
    /\ \A s \in Serial, k \in KeyType : <<s, k>> \in Ref
    /\ \A r \in Ref : r[1] \in Serial /\ r[2] \in KeyType /\ r = <<r[1], r[2]>>
BY DEF Ref

LEMMA Put ==
    ASSUME NEW D, NEW V, NEW f \in [D -> V], NEW d \in D, NEW v \in V, NEW g, g = [f EXCEPT ![d] = v]
    PROVE  /\ g \in [D -> V] /\ g[d] = v
           /\ \A u \in D : u # d => g[u] = f[u]
OBVIOUS

LEMMA IdleIs ==
    ASSUME TypeInv
    PROVE  /\ Idle \in Command /\ Idle.pc = "idle" /\ Idle.index = {} /\ Local(Idle)
<1>1. 0 \in 0..MaxRuns
  BY BoundAssumption
<1>2. [serials |-> {}, paths |-> {}, gone |-> {}] \in Tracker
  BY DEF Tracker
<1>3. Idle \in Command
  BY <1>1, <1>2 DEF Idle, Command, PCs, KeyType
<1>4. Idle.pc = "idle" /\ Idle.index = {}
  BY DEF Idle
<1>5. Local(Idle)
  BY <1>4 DEF Local, Enrols, Enrolling, Tracks, Indexes, Refers, Signing
<1> QED BY <1>3, <1>4, <1>5

LEMMA One == ASSUME NEW S, AtMostOne(S) PROVE Cardinality(S) <= 1
<1>1. CASE S = {}
  BY <1>1, FS_EmptySet
<1>2. CASE S # {}
  <2>1. PICK x \in S : TRUE
    BY <1>2
  <2>2. S = {x}
    BY <2>1 DEF AtMostOne
  <2>3. Cardinality({x}) = 1
    BY FS_Singleton
  <2> QED BY <2>2, <2>3
<1> QED BY <1>1, <1>2

LEMMA Two ==
    ASSUME NEW S \in SUBSET Serial, NEW x \in S, NEW y \in S, x # y
    PROVE  Cardinality(S) > 1
<1>1. IsFiniteSet(S)
  BY SerialAssumption, FS_Subset
<1>2. Cardinality(S) \in Nat
  BY <1>1, FS_CardinalityType
<1>3. Cardinality(S) # 0
  BY <1>1, FS_EmptySet
<1>4. Cardinality(S) # 1
  <2> SUFFICES ASSUME Cardinality(S) = 1 PROVE FALSE
    OBVIOUS
  <2>1. PICK z : S = {z}
    BY <1>1, FS_Singleton
  <2> QED BY <2>1
<1> QED BY <1>2, <1>3, <1>4

LEMMA OnlyOne ==
    ASSUME TypeInv, Cardinality(plugged) = 1
    PROVE  \E s \in Serial : plugged = {s}
<1>1. plugged \in SUBSET Serial
  BY DEF TypeInv, KeysTypeOK
<1>2. IsFiniteSet(plugged)
  BY <1>1, SerialAssumption, FS_Subset
<1>3. PICK x : plugged = {x}
  BY <1>2, FS_Singleton
<1> QED BY <1>1, <1>3

\* The ref an enrollment writes.
LEMMA StubPathIs ==
    ASSUME NEW t, NEW s \in Serial, run[t].serials = {s}, run[t].type \in KeyType
    PROVE  StubPath(t) = <<s, run[t].type>> /\ StubPath(t) \in Ref
<1>1. <<s, run[t].type>> \in Ref /\ <<s, run[t].type>>[1] \in run[t].serials
      /\ <<s, run[t].type>>[2] = run[t].type
  BY RefIs
<1>2. StubPath(t) \in Ref /\ StubPath(t)[1] \in run[t].serials /\ StubPath(t)[2] = run[t].type
  BY <1>1 DEF StubPath
<1> QED BY <1>2, RefIs

\* Who a resolved or allowed serial is.
LEMMA Resolving ==
    ASSUME TypeInv, NEW want \in Want
    PROVE  /\ ResolveSerial(want) \subseteq Serial
           /\ want \subseteq Serial
BY DEF ResolveSerial, Want, TypeInv, KeysTypeOK

-----------------------------------------------------------------------------
\* One terminal goes on, the others stay.

Goes(t, r) == run' = [run EXCEPT ![t] = r]

LEMMA GoesOn ==
    ASSUME TypeInv, NEW t \in Terminal, NEW r \in Command, Goes(t, r)
    PROVE  /\ run' \in [Terminal -> Command] /\ run'[t] = r
           /\ \A u \in Terminal : u # t => run'[u] = run[u]
BY Put DEF Goes, TypeInv

Others(t) == \A u \in Terminal : u # t => run'[u] = run[u]

LEMMA LocalKeeps ==
    ASSUME LocalInv, NEW t \in Terminal, Others(t), Local(run[t])', UNCHANGED <<plugged, path>>,
           crowded => crowded', mistouched => mistouched', torn => torn'
    PROVE  LocalInv'
<1> SUFFICES ASSUME NEW u \in Terminal, u # t PROVE Local(run[u])'
  BY DEF LocalInv
<1>1. run'[u] = run[u] /\ Local(run[u])
  BY DEF Others, LocalInv
<1> QED BY <1>1 DEF Local, Enrols, Tracks, Indexes, Refers, Signing

LEMMA FiledKeeps ==
    ASSUME FiledInv, NEW t \in Terminal, Others(t), UNCHANGED <<stub, pub>>,
           mistouched => mistouched', crowded => crowded', run'[t].pc # "copypub"
    PROVE  FiledInv'
<1>1. CASE mistouched \/ crowded
  BY <1>1 DEF FiledInv
<1>2. CASE ~mistouched /\ ~crowded
  BY <1>2 DEF FiledInv, Others, At
<1> QED BY <1>1, <1>2

LEMMA PairKeeps ==
    ASSUME PairInv, NEW t \in Terminal, Others(t), UNCHANGED <<stub, pub>>, torn => torn',
           run[t].pc # "copypub", run'[t].pc # "copypub"
    PROVE  PairInv'
BY DEF PairInv, Others, At

LEMMA LinkKeeps ==
    ASSUME LinkInv, NEW t \in Terminal, Others(t), UNCHANGED link, crossed => crossed',
           run[t].pc # "linkpub", run'[t].pc \notin {"linkstub", "linkpub"}
    PROVE  LinkInv'
<1>1. \A u \in Linking' : u \in Linking
  BY DEF Others, Linking, At
<1> QED BY <1>1 DEF LinkInv, Others, At

LEMMA AppendKeeps ==
    ASSUME AppendInv, NEW t \in Terminal, Others(t), UNCHANGED trusted, raced => raced',
           run'[t].pc # "append"
    PROVE  AppendInv'
BY DEF AppendInv, Others, At

LEMMA KeptKeeps ==
    ASSUME KeptInv, NEW t \in Terminal, Others(t), UNCHANGED <<resident, stub, filed, erased>>,
           mistouched => mistouched', crowded => crowded', abandoned => abandoned',
           run[t].pc # "generate"
    PROVE  KeptInv'
<1>1. CASE mistouched \/ crowded \/ abandoned
  BY <1>1 DEF KeptInv
<1>2. CASE ~mistouched /\ ~crowded /\ ~abandoned
  BY <1>2 DEF KeptInv, Others, At
<1> QED BY <1>1, <1>2

\* A step that only goes on.
LEMMA OnKeeps ==
    ASSUME IInv, NEW t \in Terminal, run' \in [Terminal -> Command], Others(t), Local(run[t])',
           UNCHANGED <<keyVars, resident, disk, signature>>, runs' \in 0..MaxRuns,
           UNCHANGED <<filed, erased>>,
           mistouched => mistouched', crowded => crowded', torn => torn', crossed => crossed',
           raced => raced', abandoned => abandoned',
           run[t].pc \notin {"copypub", "linkpub", "generate"},
           run'[t].pc \notin {"copypub", "linkstub", "linkpub", "append"}
    PROVE  IInv'
<1>1. TypeInv'
  BY DEF IInv, TypeInv, KeysTypeOK, keyVars, disk
<1>2. LocalInv'
  BY LocalKeeps DEF IInv, keyVars
<1>3. FiledInv' /\ PairInv' /\ LinkInv'
  BY FiledKeeps, PairKeeps, LinkKeeps DEF IInv, disk
<1>4. AppendInv' /\ KeptInv'
  BY AppendKeeps, KeptKeeps DEF IInv, disk
<1> QED BY <1>1, <1>2, <1>3, <1>4 DEF IInv

\* The same, with the history as it was.
LEMMA QuietKeeps ==
    ASSUME IInv, NEW t \in Terminal, run' \in [Terminal -> Command], Others(t), Local(run[t])',
           UNCHANGED <<keyVars, resident, disk, signature, history>>, runs' \in 0..MaxRuns,
           run[t].pc \notin {"copypub", "linkpub", "generate"},
           run'[t].pc \notin {"copypub", "linkstub", "linkpub", "append"}
    PROVE  IInv'
BY OnKeeps DEF history

LEMMA RunTyped ==
    ASSUME TypeInv, NEW t \in Terminal
    PROVE  run[t] \in Command /\ run \in [Terminal -> Command]
BY DEF TypeInv

\* To idle, and to another step with all else as it was.
LEMMA ToIdle ==
    ASSUME TypeInv, NEW t \in Terminal, Becomes(t, Idle)
    PROVE  run' \in [Terminal -> Command] /\ Others(t) /\ run'[t] = Idle /\ run'[t].pc = "idle" /\ Local(run[t])'
<1>1. run' \in [Terminal -> Command] /\ Others(t) /\ run'[t] = Idle
  BY IdleIs, GoesOn DEF Becomes, Goes, Others
<1>2. Local(run[t])'
  BY <1>1 DEF Idle, Local, Enrols, Enrolling, Tracks, Indexes, Refers, Signing
<1> QED BY <1>1, <1>2, IdleIs

Same(r, q) ==
    /\ r.nth = q.nth /\ r.serials = q.serials /\ r.type = q.type /\ r.want = q.want
    /\ r.current = q.current /\ r.track = q.track /\ r.moved = q.moved /\ r.device = q.device
    /\ r.cleared = q.cleared /\ r.sources = q.sources /\ r.index = q.index /\ r.done = q.done
    /\ r.ref = q.ref /\ r.cred = q.cred /\ r.seen = q.seen /\ r.add = q.add
    /\ r.checked = q.checked /\ r.stale = q.stale

LEMMA GotoDoes ==
    ASSUME TypeInv, NEW t \in Terminal, NEW pc \in PCs, Goto(t, pc)
    PROVE  run' \in [Terminal -> Command] /\ Others(t) /\ run'[t].pc = pc /\ Same(run'[t], run[t])
<1> DEFINE r == [run[t] EXCEPT !.pc = pc]
<1>1. r \in Command /\ r.pc = pc /\ Same(r, run[t])
  BY RunTyped DEF Command, Same
<1>2. Goes(t, r)
  BY DEF Goto, Becomes, Goes
<1> HIDE DEF r
<1> QED BY <1>1, <1>2, GoesOn DEF Others

LEMMA Beginning ==
    ASSUME TypeInv, runs < MaxRuns, runs' = runs + 1
    PROVE  runs' \in 0..MaxRuns
BY BoundAssumption DEF TypeInv

-----------------------------------------------------------------------------
\* signing-key new.

LEMMA StartNewKeeps ==
    ASSUME IInv, NEW t \in Terminal, NEW type \in KeyType, NEW want \in Want, StartNew(t, type, want)
    PROVE  IInv'
<1> DEFINE one == [Idle EXCEPT !.pc = "allowed", !.nth = runs + 1, !.type = type, !.serials = plugged]
           many == [Idle EXCEPT !.pc = "poll", !.nth = runs + 1, !.type = type, !.want = want,
                                !.serials = plugged, !.track = NewReplugTracker]
<1>1. /\ At(t, "idle") /\ runs < MaxRuns /\ runs' = runs + 1
      /\ UNCHANGED <<keyVars, resident, disk, signature, moves, history>>
  BY DEF StartNew, Begin
<1>2. plugged \in SUBSET Serial /\ path \in [Serial -> {0, 1}] /\ want \in SUBSET Serial
  BY DEF IInv, TypeInv, KeysTypeOK, Want
<1>3. NewReplugTracker \in Tracker
  BY <1>2 DEF NewReplugTracker, Tracker, Paths, HIDPath
<1>4. runs' \in 0..MaxRuns /\ runs + 1 \in 0..MaxRuns
  BY <1>1, Beginning DEF IInv
<1>5. Idle \in Command
  BY IdleIs DEF IInv
<1>6. CASE Cardinality(plugged) = 1
  <2>1. one \in Command /\ one.pc = "allowed" /\ one.serials = plugged /\ one.device = {} /\ one.index = {}
    BY <1>2, <1>4, <1>5 DEF Command, PCs, Idle
  <2>2. Goes(t, one)
    BY <1>6 DEF StartNew, Begin, Becomes, Goes
  <2> HIDE DEF one
  <2>3. run' \in [Terminal -> Command] /\ run'[t] = one /\ Others(t)
    BY <2>1, <2>2, GoesOn DEF IInv, Others
  <2>4. \E s \in Serial : plugged = {s}
    BY <1>6, OnlyOne DEF IInv
  <2>5. Local(run[t])'
    BY <2>1, <2>3, <2>4 DEF Local, Enrols, Enrolling, Tracks, Indexes, Refers, Signing
  <2> QED BY <1>1, <1>4, <2>1, <2>3, <2>5, QuietKeeps DEF At
<1>7. CASE Cardinality(plugged) # 1
  <2>1. /\ many \in Command /\ many.pc = "poll" /\ many.index = {} /\ many.track = NewReplugTracker
    BY <1>2, <1>3, <1>4, <1>5 DEF Command, PCs, Idle
  <2>2. Goes(t, many)
    BY <1>7 DEF StartNew, Begin, Becomes, Goes
  <2> HIDE DEF many
  <2>3. run' \in [Terminal -> Command] /\ run'[t] = many /\ Others(t)
    BY <2>1, <2>2, GoesOn DEF IInv, Others
  <2>4. /\ many.track.gone = {} /\ many.track.serials = plugged
        /\ \A s \in Serial, p \in {0, 1} : <<s, p>> \in many.track.paths <=> s \in plugged /\ p = path[s]
    BY <2>1, <1>2 DEF NewReplugTracker, Paths
  <2>5. UNCHANGED <<plugged, path>>
    BY <1>1 DEF keyVars
  <2>6. Local(run[t])'
    BY <2>1, <2>3, <2>4, <2>5 DEF Local, Enrols, Enrolling, Tracks, Indexes, Refers, Signing
  <2> QED BY <1>1, <1>4, <2>1, <2>3, <2>6, QuietKeeps DEF At
<1> QED BY <1>6, <1>7

LEMMA PollKeeps == ASSUME IInv, NEW t \in Terminal, Poll(t) PROVE IInv'
<1> DEFINE r == [run[t] EXCEPT !.pc = "observe", !.current = plugged]
<1>1. /\ run[t].pc = "poll" /\ Goes(t, r)
      /\ UNCHANGED <<keyVars, resident, disk, signature, runs, history>>
  BY DEF Poll, At, Becomes, Goes, Quiet
<1>2. plugged \in SUBSET Serial /\ run[t] \in Command
  BY RunTyped DEF IInv, TypeInv, KeysTypeOK
<1>3. /\ r \in Command /\ r.pc = "observe" /\ r.current = plugged /\ r.track = run[t].track
      /\ r.moved = run[t].moved /\ r.index = run[t].index
  BY <1>2 DEF Command, PCs
<1> HIDE DEF r
<1>4. run' \in [Terminal -> Command] /\ run'[t] = r /\ Others(t)
  BY <1>1, <1>3, GoesOn DEF IInv, Others
<1>5. Local(run[t]) /\ UNCHANGED <<plugged, path, mistouched, crowded>>
  BY <1>1 DEF IInv, LocalInv, keyVars, history
<1>6. Local(run[t])'
  BY <1>1, <1>3, <1>4, <1>5 DEF Local, Enrols, Enrolling, Tracks, Indexes, Refers, Signing
<1> QED BY <1>1, <1>3, <1>4, <1>6, QuietKeeps DEF IInv, TypeInv

\* What a tracker sees: whoever vanished has moved, and who has not is seen as before.
LEMMA WatchingKeeps == ASSUME IInv, NEW t \in Terminal, Watching(t) PROVE IInv'
<1>1. /\ run[t].pc = "observe"
      /\ UNCHANGED <<keyVars, resident, disk, signature, runs, history>>
  BY DEF Watching, At, Quiet
<1>2. PICK tr \in Observed(run[t].track, run[t].current, Paths) :
        Goes(t, [run[t] EXCEPT !.pc = "poll", !.current = {}, !.track = tr])
  BY DEF Watching, Becomes, Goes
<1>3. /\ plugged \in SUBSET Serial /\ path \in [Serial -> {0, 1}]
      /\ run[t] \in Command /\ Local(run[t])
  BY RunTyped DEF IInv, TypeInv, KeysTypeOK, LocalInv
<1>4. /\ run[t].current \in SUBSET Serial /\ Paths \in SUBSET HIDPath /\ run[t].track \in Tracker
      /\ \A s \in Serial, p \in {0, 1} : <<s, p>> \in Paths <=> s \in plugged /\ p = path[s]
  BY <1>3 DEF Command, Paths, HIDPath
<1>5. /\ tr \in Tracker /\ tr.serials = run[t].current /\ tr.paths = Paths
      /\ \/ tr.gone = run[t].track.gone
         \/ \E s \in Serial : tr.gone = {s} /\ s \in run[t].track.serials \ run[t].current
         \/ tr.gone = {}
  BY <1>4 DEF Observed, Tracker
<1>6. tr.gone \subseteq run[t].moved
  BY <1>1, <1>3, <1>5 DEF Local, Tracks
<1> DEFINE r == [run[t] EXCEPT !.pc = "poll", !.current = {}, !.track = tr]
<1>7. /\ r \in Command /\ r.pc = "poll" /\ r.track = tr
      /\ r.moved = run[t].moved /\ r.index = run[t].index
  BY <1>3, <1>5 DEF Command, PCs
<1>8. Goes(t, r)
  BY <1>2
<1> HIDE DEF r
<1>9. run' \in [Terminal -> Command] /\ run'[t] = r /\ Others(t)
  BY <1>7, <1>8, GoesOn DEF IInv, Others
<1>10. UNCHANGED <<plugged, path, mistouched, crowded>>
  BY <1>1 DEF keyVars, history
<1>11. Local(run[t])'
  BY <1>1, <1>3, <1>4, <1>5, <1>6, <1>7, <1>9, <1>10 DEF Local, Enrols, Enrolling, Tracks, Indexes, Refers, Signing
<1> QED BY <1>1, <1>7, <1>9, <1>11, QuietKeeps DEF IInv, TypeInv

\* Settled on a key, with the device it was seen at, or none.
LEMMA ChosenDoes ==
    ASSUME TypeInv, NEW t \in Terminal, NEW s \in Serial, NEW device \in SUBSET HIDPath,
           Chosen(t, s, device)
    PROVE  /\ run' \in [Terminal -> Command] /\ Others(t) /\ run'[t].pc = "allowed"
           /\ run'[t].serials = {s} /\ run'[t].device = device /\ run'[t].index = {}
<1> DEFINE r == [Idle EXCEPT !.pc = "allowed", !.nth = run[t].nth, !.type = run[t].type,
                             !.serials = {s}, !.device = device]
<1>1. run[t].nth \in 0..MaxRuns /\ run[t].type \in KeyType /\ Idle \in Command
  BY RunTyped, IdleIs DEF Command
<1>2. r \in Command /\ r.pc = "allowed" /\ r.serials = {s} /\ r.device = device /\ r.index = {}
  BY <1>1 DEF Command, PCs, Idle
<1>3. Goes(t, r)
  BY DEF Chosen, Becomes, Goes
<1> HIDE DEF r
<1> QED BY <1>2, <1>3, GoesOn DEF Others

LEMMA ObserveKeeps == ASSUME IInv, NEW t \in Terminal, Observe(t) PROVE IInv'
<1>1. /\ run[t].pc = "observe" /\ run[t].track.gone \subseteq run[t].current
      /\ crowded' = (crowded \/ Cardinality(run[t].moved) > 1)
      /\ UNCHANGED <<keyVars, resident, disk, signature, runs>>
      /\ UNCHANGED <<mistouched, torn, crossed, raced, abandoned, filed, erased>>
  BY DEF Observe, At, Quiet, Identifies
<1>2. crowded => crowded'
  BY <1>1, Zenon
<1>3. Cardinality(run[t].moved) > 1 => crowded'
  BY <1>1, Zenon
<1>4. PICK s \in run[t].track.gone :
        IF run[t].want \subseteq {s}
        THEN \E device \in DevicePath(run[t].track, Paths) : Chosen(t, s, device)
        ELSE Becomes(t, Idle)
  BY DEF Observe
<1>5. CASE Becomes(t, Idle)
  BY <1>1, <1>2, <1>5, ToIdle, OnKeeps DEF IInv, TypeInv
<1>6. ASSUME NEW device \in DevicePath(run[t].track, Paths), Chosen(t, s, device) PROVE IInv'
  <2>1. /\ plugged \in SUBSET Serial /\ path \in [Serial -> {0, 1}]
        /\ run[t] \in Command /\ Local(run[t])
    BY RunTyped DEF IInv, TypeInv, KeysTypeOK, LocalInv
  <2>2. /\ Paths \in SUBSET HIDPath /\ run[t].moved \in SUBSET Serial /\ run[t].track.gone \in SUBSET Serial
        /\ \A d \in Paths : d[1] \in plugged /\ d = <<d[1], path[d[1]]>>
    BY <2>1 DEF Command, Paths, HIDPath, Tracker
  <2>3. s \in Serial /\ s \in run[t].moved
    BY <1>1, <2>1, <2>2 DEF Local, Tracks
  <2>4. device \in SUBSET HIDPath /\ \A d \in device : d \in Paths \ run[t].track.paths
    BY <2>2 DEF DevicePath
  <2>5. \A d \in device : d[1] \in run[t].moved
    <3> SUFFICES ASSUME NEW d \in device, d[1] \notin run[t].moved PROVE FALSE
      OBVIOUS
    <3>1. /\ d \in Paths /\ d \notin run[t].track.paths /\ d[1] \in plugged
          /\ d = <<d[1], path[d[1]]>> /\ d[1] \in Serial \ run[t].moved
      BY <2>1, <2>2, <2>4
    <3>2. path[d[1]] \in {0, 1}
      BY <2>1, <3>1
    <3>3. <<d[1], path[d[1]]>> \in run[t].track.paths
      BY <1>1, <2>1, <3>1, <3>2 DEF Local, Tracks
    <3> QED BY <3>1, <3>3
  <2>6. \A d \in device : d[1] = s \/ crowded'
    BY <1>3, <2>2, <2>3, <2>5, Two
  <2>7. /\ run' \in [Terminal -> Command] /\ Others(t) /\ run'[t].pc = "allowed"
        /\ run'[t].serials = {s} /\ run'[t].device = device /\ run'[t].index = {}
    BY <1>6, <2>3, <2>4, ChosenDoes DEF IInv
  <2>8. crowded' \/ \A d \in device : d[1] = s
    BY <2>6
  <2>9. Enrols(run[t])'
    BY <2>3, <2>7, <2>8 DEF Enrols
  <2>10. Local(run[t])'
    BY <2>7, <2>9 DEF Local, Tracks, Indexes, Refers, Signing
  <2> QED BY <1>1, <1>2, <2>7, <2>10, OnKeeps DEF IInv, TypeInv
<1> QED BY <1>4, <1>5, <1>6

LEMMA PickKeeps == ASSUME IInv, NEW t \in Terminal, PickInstead(t) PROVE IInv'
<1>1. /\ run[t].pc = "poll" /\ UNCHANGED <<keyVars, resident, disk, signature, runs, history>>
  BY DEF PickInstead, At, Quiet
<1>2. PICK s \in IF run[t].want # {} THEN run[t].want ELSE run[t].serials : Chosen(t, s, {})
  BY DEF PickInstead
<1>3. s \in Serial
  BY <1>2, RunTyped DEF IInv, Command
<1>4. /\ run' \in [Terminal -> Command] /\ Others(t) /\ run'[t].pc = "allowed"
      /\ run'[t].serials = {s} /\ run'[t].device = {} /\ run'[t].index = {}
  BY <1>2, <1>3, ChosenDoes DEF IInv
<1>5. Local(run[t])'
  BY <1>3, <1>4 DEF Local, Enrols, Tracks, Indexes, Refers, Signing
<1> QED BY <1>1, <1>4, <1>5, QuietKeeps DEF IInv, TypeInv

\* On with the same key in mind.
LEMMA SameLocal ==
    ASSUME NEW t \in Terminal, Local(run[t]), Same(run'[t], run[t]), UNCHANGED <<plugged, path>>,
           mistouched => mistouched', crowded => crowded',
           run'[t].pc \notin {"poll", "observe", "linkstub", "linkpub", "sign", "copypub", "keygen", "signing"},
           run'[t].pc \in Enrolling => run[t].pc \in Enrolling
    PROVE  Local(run[t])'
<1>1. Enrols(run[t])'
  BY DEF Local, Enrols, Same
<1>2. Indexes(run[t])'
  BY DEF Local, Indexes, Same
<1> QED BY <1>1, <1>2 DEF Local, Tracks, Refers, Signing

LEMMA CheckKeeps == ASSUME IInv, NEW t \in Terminal, CheckAllowed(t) PROVE IInv'
<1>1. /\ run[t].pc = "allowed" /\ UNCHANGED <<keyVars, resident, disk, signature, runs, history>>
      /\ Becomes(t, Idle) \/ \E pc \in {"generate", "confirm"} : Goto(t, pc)
  BY DEF CheckAllowed, At, Quiet
<1>2. CASE Becomes(t, Idle)
  BY <1>1, <1>2, ToIdle, QuietKeeps DEF IInv, TypeInv
<1>3. ASSUME NEW pc \in {"generate", "confirm"}, Goto(t, pc) PROVE IInv'
  <2>1. run' \in [Terminal -> Command] /\ Others(t) /\ run'[t].pc = pc /\ Same(run'[t], run[t])
    BY <1>3, GotoDoes DEF IInv, PCs
  <2>2. Local(run[t])'
    BY <1>1, <2>1, SameLocal DEF IInv, LocalInv, keyVars, history, Enrolling
  <2> QED BY <1>1, <2>1, <2>2, QuietKeeps DEF IInv, TypeInv
<1> QED BY <1>1, <1>2, <1>3


\* Where an enrollment writes.
LEMMA EnrolsAt ==
    ASSUME IInv, NEW t \in Terminal, run[t].pc \in Enrolling
    PROVE  \E s \in Serial :
            /\ run[t].serials = {s} /\ (crowded \/ \A d \in run[t].device : d[1] = s)
            /\ StubPath(t) = <<s, run[t].type>> /\ StubPath(t) \in Ref
<1>1. run[t] \in Command /\ Local(run[t])
  BY RunTyped DEF IInv, LocalInv
<1>2. PICK s \in Serial : run[t].serials = {s} /\ (crowded \/ \A d \in run[t].device : d[1] = s)
  BY <1>1 DEF Local, Enrols
<1>3. run[t].type \in KeyType
  BY <1>1 DEF Command
<1>4. StubPath(t) = <<s, run[t].type>> /\ StubPath(t) \in Ref
  BY <1>2, <1>3, StubPathIs
<1> QED BY <1>2, <1>4

LEMMA ConfirmKeeps == ASSUME IInv, NEW t \in Terminal, ConfirmReplaceStub(t) PROVE IInv'
<1>1. /\ run[t].pc = "confirm"
      /\ UNCHANGED <<keyVars, resident, backup, trusted, link, signature, runs, moves, history>>
  BY DEF ConfirmReplaceStub, At
<1>2. CASE UNCHANGED <<stub, pub>> /\ Becomes(t, Idle)
  BY <1>1, <1>2, ToIdle, QuietKeeps DEF IInv, TypeInv, disk
<1>3. CASE Clear(StubPath(t)) /\ Cleared(t)
  <2> DEFINE p == StubPath(t)
             r == [run[t] EXCEPT !.pc = "generate", !.cleared = TRUE]
  <2>1. run[t] \in Command /\ Local(run[t])
    BY RunTyped DEF IInv, LocalInv
  <2>2. PICK k \in Serial : run[t].serials = {k} /\ p = <<k, run[t].type>> /\ p \in Ref
    BY <1>1, EnrolsAt DEF Enrolling
  <2>3. /\ stub' = [stub EXCEPT ![p] = None] /\ pub' = [pub EXCEPT ![p] = None]
        /\ stub \in [Ref -> Cred \cup {None}] /\ pub \in [Ref -> Cred \cup {None}]
    BY <1>3 DEF Clear, IInv, TypeInv
  <2> HIDE DEF p
  <2>4. /\ stub' \in [Ref -> Cred \cup {None}] /\ pub' \in [Ref -> Cred \cup {None}]
        /\ stub'[p] = None /\ pub'[p] = None
        /\ \A q \in Ref : q # p => stub'[q] = stub[q] /\ pub'[q] = pub[q]
    BY <2>2, <2>3
  <2>5. /\ r \in Command /\ r.pc = "generate" /\ r.cleared /\ r.serials = run[t].serials
        /\ r.device = run[t].device /\ r.index = run[t].index
    BY <2>1 DEF Command, PCs
  <2>6. Goes(t, r)
    BY <1>3 DEF Cleared, Becomes, Goes
  <2> HIDE DEF r
  <2>7. run' \in [Terminal -> Command] /\ run'[t] = r /\ Others(t)
    BY <2>5, <2>6, GoesOn DEF IInv, Others
  <2>8. UNCHANGED <<plugged, path, allowed, mistouched, crowded, torn, crossed, raced, abandoned, filed, erased>>
    BY <1>1 DEF keyVars, history
  <2>9. TypeInv'
    BY <1>1, <2>4, <2>7, <2>8 DEF IInv, TypeInv, KeysTypeOK
  <2>10. LocalInv'
    <3>1. Local(run[t])'
      BY <1>1, <2>1, <2>5, <2>7, <2>8 DEF Local, Enrols, Enrolling, Tracks, Indexes, Refers, Signing
    <3> QED BY <2>7, <2>8, <3>1, LocalKeeps DEF IInv
  <2>11. FiledInv'
    <3>1. CASE mistouched \/ crowded
      BY <2>8, <3>1 DEF FiledInv
    <3>2. CASE ~mistouched /\ ~crowded
      BY <2>4, <2>5, <2>7, <2>8, <3>2 DEF IInv, FiledInv, Others, At
    <3> QED BY <3>1, <3>2
  <2>12. PairInv'
    <3>1. CASE torn
      BY <2>8, <3>1 DEF PairInv
    <3>2. CASE ~torn
      <4>1. \A u \in Terminal : At(u, "copypub")' => u # t /\ At(u, "copypub") /\ run'[u] = run[u]
        BY <2>5, <2>7 DEF Others, At
      <4>2. \A u \in Terminal : At(u, "copypub") => At(u, "copypub")' /\ run'[u] = run[u]
        BY <1>1, <2>7 DEF Others, At
      <4>3. ASSUME NEW q \in Ref, stub'[q] # None, pub'[q] # None
            PROVE stub'[q] = pub'[q] \/ \E u \in Terminal : At(u, "copypub")' /\ q \in run'[u].ref
        BY <2>4, <3>2, <4>2, <4>3 DEF IInv, PairInv
      <4>4. ASSUME NEW u \in Terminal, At(u, "copypub")', NEW q \in run'[u].ref
            PROVE stub'[q] \in {None, run'[u].cred}
        <5>1. q \in Ref
          BY <2>7 DEF Command
        <5> QED BY <2>4, <3>2, <4>1, <4>4, <5>1 DEF IInv, PairInv
      <4> QED BY <4>3, <4>4 DEF PairInv
    <3> QED BY <3>1, <3>2
  <2>13. LinkInv' /\ AppendInv'
    BY <1>1, <2>5, <2>7, <2>8, LinkKeeps, AppendKeeps DEF IInv
  <2>14. KeptInv'
    <3>1. CASE mistouched \/ crowded \/ abandoned
      BY <2>8, <3>1 DEF KeptInv
    <3>2. CASE ~(mistouched \/ crowded \/ abandoned)
      <4> SUFFICES ASSUME NEW s \in Serial, resident[s] \in filed \ erased
                   PROVE  \/ \E q \in Ref : stub'[q] = resident[s]
                          \/ \E u \in Terminal : At(u, "generate")' /\ run'[u].cleared /\ run'[u].serials = {s}
        BY <1>1, <2>8 DEF KeptInv
      <4>1. CASE \E q \in Ref : stub[q] = resident[s]
        <5>1. PICK q \in Ref : stub[q] = resident[s]
          BY <4>1
        <5>2. resident[s] # None /\ resident[s][1] = s
          BY CredIs DEF IInv, TypeInv
        <5>3. q[1] = s
          BY <3>2, <5>1, <5>2 DEF IInv, FiledInv
        <5>4. CASE q = p
          <6>1. k = s
            BY <2>2, <5>3, <5>4
          <6> QED BY <2>2, <2>5, <2>7, <6>1 DEF At
        <5> QED BY <2>4, <5>1, <5>4
      <4>2. CASE \E u \in Terminal : At(u, "generate") /\ run[u].cleared /\ run[u].serials = {s}
        BY <1>1, <2>7, <4>2 DEF Others, At
      <4> QED BY <3>2, <4>1, <4>2 DEF IInv, KeptInv
    <3> QED BY <3>1, <3>2
  <2> QED BY <2>9, <2>10, <2>11, <2>12, <2>13, <2>14 DEF IInv
<1> QED BY <1>2, <1>3 DEF ConfirmReplaceStub

LEMMA GenerateKeeps == ASSUME IInv, NEW t \in Terminal, Generate(t) PROVE IInv'
<1>1. /\ run[t].pc = "generate" /\ Goto(t, "trust")
      /\ UNCHANGED <<keyVars, backup, trusted, link, signature, runs, moves,
                     crowded, crossed, raced, abandoned, erased>>
  BY DEF Generate, At
<1> DEFINE p == StubPath(t)
           new(k) == <<k, run[t].type, run[t].nth>>
<1>2. PICK s \in Touched(t) :
        /\ resident' = [resident EXCEPT ![s] = new(s)]
        /\ stub' = [stub EXCEPT ![p] = new(s)] /\ pub' = [pub EXCEPT ![p] = new(s)]
        /\ filed' = filed \cup {new(s)}
        /\ mistouched' = (mistouched \/ (run[t].device = {} /\ {s} # run[t].serials))
        /\ torn' = (torn \/ Copying(t, p))
  BY DEF Generate
<1> DEFINE c == new(s)
<1>3. run[t] \in Command /\ Local(run[t])
  BY RunTyped DEF IInv, LocalInv
<1>4. PICK k \in Serial :
        /\ run[t].serials = {k} /\ (crowded \/ \A d \in run[t].device : d[1] = k)
        /\ p = <<k, run[t].type>> /\ p \in Ref
  BY <1>1, EnrolsAt DEF Enrolling
<1>5. s \in Serial
  BY DEF Touched, IInv, TypeInv, KeysTypeOK
<1>6. c \in Cred /\ c[1] = s
  BY <1>3, <1>5, CredIs DEF Command
<1>7. /\ mistouched => mistouched'
      /\ run[t].device = {} /\ {s} # run[t].serials => mistouched'
      /\ torn => torn' /\ (Copying(t, p) => torn')
  BY <1>2, Zenon
<1>8. crowded \/ mistouched' \/ s = k
  <2>1. CASE run[t].device = {}
    BY <1>4, <1>7, <2>1
  <2>2. CASE run[t].device # {}
    <3>1. <<s, path[s]>> \in run[t].device
      BY <2>2 DEF Touched
    <3> QED BY <1>4, <3>1
  <2> QED BY <2>1, <2>2
<1>9. /\ stub' = [stub EXCEPT ![p] = c] /\ pub' = [pub EXCEPT ![p] = c] /\ resident' = [resident EXCEPT ![s] = c]
      /\ filed' = filed \cup {c}
      /\ stub \in [Ref -> Cred \cup {None}] /\ pub \in [Ref -> Cred \cup {None}] /\ resident \in [Serial -> Cred]
  BY <1>2 DEF IInv, TypeInv
<1> HIDE DEF p, c
<1>10. /\ stub' \in [Ref -> Cred \cup {None}] /\ pub' \in [Ref -> Cred \cup {None}]
       /\ resident' \in [Serial -> Cred] /\ resident'[s] = c
       /\ \A q \in Serial : q # s => resident'[q] = resident[q]
       /\ stub'[p] = c /\ pub'[p] = c
       /\ \A q \in Ref : q # p => stub'[q] = stub[q] /\ pub'[q] = pub[q]
  BY <1>4, <1>5, <1>6, <1>9
<1>11. run' \in [Terminal -> Command] /\ Others(t) /\ run'[t].pc = "trust" /\ Same(run'[t], run[t])
  BY <1>1, GotoDoes DEF IInv, PCs
<1>12. UNCHANGED <<plugged, path, allowed>>
  BY <1>1 DEF keyVars
<1>13. TypeInv'
  <2>1. \A q \in Serial : resident'[q][1] = q
    BY <1>6, <1>10 DEF IInv, TypeInv
  <2> QED BY <1>1, <1>6, <1>9, <1>10, <1>11, <1>12, <2>1 DEF IInv, TypeInv, KeysTypeOK
<1>14. LocalInv'
  <2>1. Local(run[t])'
    BY <1>1, <1>3, <1>7, <1>11, <1>12, SameLocal DEF Enrolling
  <2> QED BY <1>1, <1>7, <1>11, <1>12, <2>1, LocalKeeps DEF IInv
<1>15. FiledInv'
  <2>1. CASE mistouched' \/ crowded
    BY <1>1, <2>1 DEF FiledInv
  <2>2. CASE ~mistouched' /\ ~crowded
    <3>1. p[1] = s /\ ~mistouched
      BY <1>4, <1>7, <1>8, <2>2
    <3>2. \A q \in Ref : (stub'[q] # None => stub'[q][1] = q[1]) /\ (pub'[q] # None => pub'[q][1] = q[1])
      BY <1>6, <1>10, <2>2, <3>1 DEF IInv, FiledInv
    <3>3. \A u \in Terminal : At(u, "copypub")' => \A q \in run'[u].ref : run'[u].cred[1] = q[1]
      BY <1>11, <2>2, <3>1 DEF IInv, FiledInv, Others, At
    <3> QED BY <3>2, <3>3 DEF FiledInv
  <2> QED BY <2>1, <2>2
<1>16. PairInv'
  <2>1. CASE torn'
    BY <2>1 DEF PairInv
  <2>2. CASE ~torn'
    <3>1. ~torn /\ ~Copying(t, p)
      BY <1>2, <2>2, Zenon DEF p
    <3>2. \A u \in Terminal : At(u, "copypub")' => u # t /\ At(u, "copypub") /\ run'[u] = run[u]
      BY <1>11 DEF Others, At
    <3>3. \A u \in Terminal : At(u, "copypub") => At(u, "copypub")' /\ run'[u] = run[u]
      BY <1>1, <1>11 DEF Others, At
    <3>4. ASSUME NEW q \in Ref, stub'[q] # None, pub'[q] # None
          PROVE stub'[q] = pub'[q] \/ \E u \in Terminal : At(u, "copypub")' /\ q \in run'[u].ref
      BY <1>10, <3>1, <3>3, <3>4 DEF IInv, PairInv
    <3>5. ASSUME NEW u \in Terminal, At(u, "copypub")', NEW q \in run'[u].ref
          PROVE stub'[q] \in {None, run'[u].cred}
      <4>1. q \in Ref
        BY <1>11 DEF Command
      <4>2. q # p
        BY <3>1, <3>2, <3>5 DEF Copying
      <4> QED BY <1>10, <3>1, <3>2, <3>5, <4>1, <4>2 DEF IInv, PairInv
    <3> QED BY <3>4, <3>5 DEF PairInv
  <2> QED BY <2>1, <2>2
<1>17. LinkInv' /\ AppendInv'
  BY <1>1, <1>11, LinkKeeps, AppendKeeps DEF IInv
<1>18. KeptInv'
  <2>1. CASE mistouched' \/ crowded \/ abandoned
    BY <1>1, <2>1 DEF KeptInv
  <2>2. CASE ~(mistouched' \/ crowded \/ abandoned)
    <3>1. s = k /\ ~mistouched
      BY <1>7, <1>8, <2>2
    <3> SUFFICES ASSUME NEW i \in Serial, resident'[i] \in filed' \ erased
                 PROVE  \/ \E q \in Ref : stub'[q] = resident'[i]
                        \/ \E u \in Terminal : At(u, "generate")' /\ run'[u].cleared /\ run'[u].serials = {i}
      BY <1>1 DEF KeptInv
    <3>2. CASE i = s
      BY <1>4, <1>10, <3>2
    <3>3. CASE i # s
      <4>1. resident'[i] = resident[i] /\ resident[i][1] = i /\ resident[i] \in Cred
        BY <1>10, <3>3 DEF IInv, TypeInv
      <4>2. resident[i] \in filed \ erased
        BY <1>6, <1>9, <3>3, <4>1
      <4>3. CASE \E q \in Ref : stub[q] = resident[i]
        <5>1. PICK q \in Ref : stub[q] = resident[i]
          BY <4>3
        <5>2. q[1] = i
          BY <2>2, <3>1, <4>1, <5>1, CredIs DEF IInv, FiledInv
        <5>3. q # p
          BY <1>4, <3>1, <3>3, <5>2
        <5> QED BY <1>10, <4>1, <5>1, <5>3
      <4>4. CASE \E u \in Terminal : At(u, "generate") /\ run[u].cleared /\ run[u].serials = {i}
        <5>1. PICK u \in Terminal : At(u, "generate") /\ run[u].cleared /\ run[u].serials = {i}
          BY <4>4
        <5>2. u # t
          BY <1>4, <3>1, <3>3, <5>1
        <5> QED BY <1>11, <5>1, <5>2 DEF Others, At
      <4> QED BY <2>2, <3>1, <4>2, <4>3, <4>4 DEF IInv, KeptInv
    <3> QED BY <3>2, <3>3
  <2> QED BY <2>1, <2>2
<1> QED BY <1>13, <1>14, <1>15, <1>16, <1>17, <1>18 DEF IInv

LEMMA GenerateFailsKeeps == ASSUME IInv, NEW t \in Terminal, GenerateFails(t) PROVE IInv'
<1>1. /\ run[t].pc = "generate" /\ Becomes(t, Idle)
      /\ UNCHANGED <<keyVars, resident, disk, signature, runs, moves>>
      /\ UNCHANGED <<mistouched, crowded, torn, crossed, raced, filed, erased>>
  BY DEF GenerateFails, At, Quiet
<1>2. (abandoned => abandoned') /\ (run[t].cleared => abandoned')
  BY Zenon DEF GenerateFails
<1>3. run' \in [Terminal -> Command] /\ Others(t) /\ run'[t].pc = "idle" /\ Local(run[t])'
  BY <1>1, ToIdle DEF IInv
<1>4. UNCHANGED <<plugged, path, allowed, stub, pub, backup, trusted, link>>
  BY <1>1 DEF keyVars, disk
<1>5. TypeInv'
  BY <1>1, <1>3, <1>4 DEF IInv, TypeInv, KeysTypeOK
<1>6. LocalInv' /\ FiledInv' /\ PairInv' /\ LinkInv' /\ AppendInv'
  BY <1>1, <1>3, <1>4, LocalKeeps, FiledKeeps, PairKeeps, LinkKeeps, AppendKeeps DEF IInv
<1>7. KeptInv'
  <2>1. CASE mistouched \/ crowded \/ abandoned'
    BY <1>1, <2>1 DEF KeptInv
  <2>2. CASE ~mistouched /\ ~crowded /\ ~abandoned'
    <3>1. ~abandoned /\ ~run[t].cleared
      BY <1>2, <2>2
    <3> QED BY <1>1, <1>3, <1>4, <2>2, <3>1 DEF IInv, KeptInv, Others, At
  <2> QED BY <2>1, <2>2
<1> QED BY <1>5, <1>6, <1>7 DEF IInv

-----------------------------------------------------------------------------
\* The signers file.

LEMMA ScanIs == \A serials : \A q \in Scan(serials) : q \in Ref /\ stub[q] # None /\ q[1] \in serials
BY DEF Scan

LEMMA ReadKeeps ==
    ASSUME IInv, NEW t \in Terminal, NEW refs \in SUBSET Ref, Trustable(refs), Becomes(t, Read(t, refs)),
           Racing(t), run[t].pc \in {"idle", "trust"}, runs' \in 0..MaxRuns,
           UNCHANGED <<keyVars, resident, disk, signature>>,
           UNCHANGED <<mistouched, crowded, torn, crossed, abandoned, filed, erased>>
    PROVE  IInv'
<1> DEFINE r == Read(t, refs)
<1>1. {pub[q] : q \in refs} \in SUBSET Cred /\ trusted \in SUBSET Cred /\ Idle \in Command
  BY IdleIs DEF Trustable, IInv, TypeInv
<1>2. r \in Command /\ r.pc = "append" /\ r.seen = trusted /\ r.index = {}
  BY <1>1 DEF Read, Command, PCs, Idle
<1>3. Goes(t, r)
  BY DEF Becomes, Goes
<1> HIDE DEF r
<1>4. run' \in [Terminal -> Command] /\ run'[t] = r /\ Others(t)
  BY <1>2, <1>3, GoesOn DEF IInv, Others
<1>5. UNCHANGED <<plugged, path, allowed, stub, pub, backup, trusted, link>>
  BY DEF keyVars, disk
<1>6. TypeInv'
  BY <1>4, <1>5 DEF IInv, TypeInv, KeysTypeOK
<1>7. Local(run[t])'
  BY <1>2, <1>4 DEF Local, Enrols, Enrolling, Tracks, Indexes, Refers, Signing
<1>8. LocalInv' /\ FiledInv' /\ PairInv' /\ LinkInv' /\ KeptInv'
  BY <1>2, <1>4, <1>5, <1>7, LocalKeeps, FiledKeeps, PairKeeps, LinkKeeps, KeptKeeps DEF IInv
<1>9. AppendInv'
  <2>1. CASE raced'
    BY <2>1 DEF AppendInv
  <2>2. CASE ~raced'
    <3>1. ~raced /\ ~\E u \in Terminal \ {t} : At(u, "append")
      BY <2>2, Zenon DEF Racing
    <3>2. \A u \in Terminal : At(u, "append")' => u = t
      BY <1>4, <3>1 DEF Others, At
    <3> QED BY <1>2, <1>4, <1>5, <3>2 DEF AppendInv
  <2> QED BY <2>1, <2>2
<1> QED BY <1>6, <1>8, <1>9 DEF IInv

LEMMA StartTrustKeeps == ASSUME IInv, NEW t \in Terminal, NEW want \in Want, StartTrust(t, want) PROVE IInv'
<1>1. PluggedStubs(want) \in SUBSET Ref
  BY ScanIs DEF PluggedStubs
<1>2. runs' \in 0..MaxRuns
  BY Beginning DEF StartTrust, IInv
<1> QED BY <1>1, <1>2, ReadKeeps DEF StartTrust, At

LEMMA TrustNewKeeps == ASSUME IInv, NEW t \in Terminal, TrustNew(t) PROVE IInv'
<1>1. /\ run[t].pc = "trust"
      /\ UNCHANGED <<keyVars, resident, disk, signature, runs>>
      /\ UNCHANGED <<mistouched, crowded, torn, crossed, abandoned, filed, erased>>
  BY DEF TrustNew, At, Quiet
<1>2. runs' \in 0..MaxRuns
  BY <1>1 DEF IInv, TypeInv
<1>3. CASE Trustable(PluggedStubs({})) /\ Becomes(t, Read(t, PluggedStubs({}))) /\ Racing(t)
  <2>1. PluggedStubs({}) \in SUBSET Ref
    BY ScanIs DEF PluggedStubs
  <2> QED BY <1>1, <1>2, <1>3, <2>1, ReadKeeps
<1>4. CASE Becomes(t, Idle) /\ UNCHANGED raced
  BY <1>1, <1>2, <1>4, ToIdle, OnKeeps DEF IInv
<1> QED BY <1>3, <1>4 DEF TrustNew

LEMMA TrustKeeps == ASSUME IInv, NEW t \in Terminal, Trust(t) PROVE IInv'
<1>1. /\ run[t].pc = "append" /\ Becomes(t, Idle)
      /\ UNCHANGED <<keyVars, resident, stub, pub, backup, link, signature, runs, moves>>
      /\ UNCHANGED <<mistouched, crowded, torn, crossed, raced, abandoned, filed, erased>>
  BY DEF Trust, At, history
<1>2. run' \in [Terminal -> Command] /\ Others(t) /\ run'[t].pc = "idle" /\ Local(run[t])'
  BY <1>1, ToIdle DEF IInv
<1>3. UNCHANGED <<plugged, path, allowed>>
  BY <1>1 DEF keyVars
<1>4. trusted' \in SUBSET Cred
  <2>1. run[t].seen \in SUBSET Cred /\ run[t].add \in SUBSET Cred /\ trusted \in SUBSET Cred
    BY RunTyped DEF IInv, TypeInv, Command
  <2> QED BY <2>1 DEF Trust, Content
<1>5. TypeInv'
  BY <1>1, <1>2, <1>3, <1>4 DEF IInv, TypeInv, KeysTypeOK
<1>6. LocalInv' /\ FiledInv' /\ PairInv' /\ LinkInv' /\ KeptInv'
  BY <1>1, <1>2, <1>3, LocalKeeps, FiledKeeps, PairKeeps, LinkKeeps, KeptKeeps DEF IInv
<1>7. AppendInv'
  <2>1. CASE raced
    BY <1>1, <2>1 DEF AppendInv
  <2>2. CASE ~raced
    BY <1>1, <1>2, <2>2 DEF IInv, AppendInv, Others, At
  <2> QED BY <2>1, <2>2
<1> QED BY <1>5, <1>6, <1>7 DEF IInv

-----------------------------------------------------------------------------
\* signing-key import.

\* On, with the resident credentials read so far.
LEMMA PlainLocal ==
    ASSUME NEW t \in Terminal, Local(run[t]), run'[t].index = run[t].index, mistouched => mistouched',
           run'[t].pc \in {"idle", "trust", "append", "touch", "import", "remove", "allow", "disallow"}
    PROVE  Local(run[t])'
BY DEF Local, Enrols, Enrolling, Tracks, Indexes, Refers, Signing

LEMMA SourcesTyped == ASSUME TypeInv PROVE \A self \in BOOLEAN : Sources(self) \in SUBSET Source
<1>1. ASSUME NEW x \in Sources(TRUE) PROVE x \in Source
  <2>1. PICK q \in Ref : pub[q] # None /\ x = [self |-> TRUE, ref |-> q, cred |-> pub[q]]
    BY DEF Sources
  <2>2. pub[q] \in Cred
    BY <2>1 DEF TypeInv
  <2> QED BY <2>1, <2>2 DEF Source
<1>2. ASSUME NEW x \in Sources(FALSE) PROVE x \in Source
  <2>1. PICK c \in backup : x = [self |-> FALSE, ref |-> <<c[1], c[2]>>, cred |-> c]
    BY DEF Sources
  <2>2. c \in Cred /\ <<c[1], c[2]>> \in Ref
    BY CredIs DEF TypeInv
  <2> QED BY <2>1, <2>2 DEF Source
<1> QED BY <1>1, <1>2

LEMMA StartImportKeeps ==
    ASSUME IInv, NEW t \in Terminal, NEW self \in BOOLEAN, NEW want \in Want, StartImport(t, self, want)
    PROVE  IInv'
<1> DEFINE serials == FilterAllowed(IF want = {} THEN plugged ELSE plugged \cap want)
           r == [Idle EXCEPT !.pc = "touch", !.serials = serials, !.sources = Sources(self)]
<1>1. /\ run[t].pc = "idle" /\ runs < MaxRuns /\ runs' = runs + 1 /\ Goes(t, r)
      /\ UNCHANGED <<keyVars, resident, disk, signature, moves, history>>
  BY DEF StartImport, Begin, At, Becomes, Goes
<1>2. serials \in SUBSET Serial /\ Sources(self) \in SUBSET Source /\ Idle \in Command
  BY SourcesTyped, IdleIs DEF FilterAllowed, IInv, TypeInv, KeysTypeOK
<1> HIDE DEF serials
<1>3. r \in Command /\ r.pc = "touch" /\ r.index = {}
  BY <1>2 DEF Command, PCs, Idle
<1> HIDE DEF r
<1>4. run' \in [Terminal -> Command] /\ run'[t] = r /\ Others(t)
  BY <1>1, <1>3, GoesOn DEF IInv, Others
<1>5. Local(run[t])'
  BY <1>3, <1>4 DEF Local, Enrols, Enrolling, Tracks, Indexes, Refers, Signing
<1>6. runs' \in 0..MaxRuns
  BY <1>1, Beginning DEF IInv
<1> QED BY <1>1, <1>3, <1>4, <1>5, <1>6, QuietKeeps

LEMMA ResidentKeeps == ASSUME IInv, NEW t \in Terminal, ResidentPubKeys(t) PROVE IInv'
<1>1. /\ run[t].pc = "touch" /\ UNCHANGED <<keyVars, resident, disk, signature, runs>>
      /\ UNCHANGED <<crowded, torn, crossed, raced, abandoned, filed, erased>>
  BY DEF ResidentPubKeys, At, Quiet
<1>2. PICK asked \in run[t].serials :
        \E next \in {"import", "touch"} :
            \/ \E s \in plugged :
                /\ Becomes(t, [run[t] EXCEPT !.pc = next, !.serials = run[t].serials \ {asked},
                                             !.index = @ \cup {<<resident[s], asked>>}])
                /\ mistouched' = (mistouched \/ s # asked)
            \/ Becomes(t, [run[t] EXCEPT !.pc = next, !.serials = run[t].serials \ {asked}]) /\ UNCHANGED mistouched
  BY DEF ResidentPubKeys
<1>3. PICK next \in {"import", "touch"} :
            \/ \E s \in plugged :
                /\ Becomes(t, [run[t] EXCEPT !.pc = next, !.serials = run[t].serials \ {asked},
                                             !.index = @ \cup {<<resident[s], asked>>}])
                /\ mistouched' = (mistouched \/ s # asked)
            \/ Becomes(t, [run[t] EXCEPT !.pc = next, !.serials = run[t].serials \ {asked}]) /\ UNCHANGED mistouched
  BY <1>2
<1>4. run[t] \in Command /\ Local(run[t]) /\ asked \in Serial
  BY <1>2, RunTyped DEF IInv, LocalInv, Command
<1>5. runs' \in 0..MaxRuns
  BY <1>1 DEF IInv, TypeInv
<1>6. ASSUME NEW s \in plugged,
             Becomes(t, [run[t] EXCEPT !.pc = next, !.serials = run[t].serials \ {asked},
                                       !.index = @ \cup {<<resident[s], asked>>}]),
             mistouched' = (mistouched \/ s # asked)
      PROVE  IInv'
  <2> DEFINE i == <<resident[s], asked>>
             r == [run[t] EXCEPT !.pc = next, !.serials = run[t].serials \ {asked}, !.index = run[t].index \cup {i}]
  <2>1. resident[s] \in Cred /\ resident[s][1] = s
    BY DEF IInv, TypeInv, KeysTypeOK
  <2>2. i \in Cred \X Serial /\ i[1][1] = s /\ i[2] = asked
    BY <1>4, <2>1
  <2>3. Goes(t, r)
    BY <1>6 DEF Becomes, Goes
  <2> HIDE DEF i
  <2>4. r \in Command /\ r.pc = next /\ r.index = run[t].index \cup {i}
    <3>1. run[t].serials \ {asked} \in SUBSET Serial /\ run[t].index \cup {i} \in SUBSET (Cred \X Serial)
      BY <1>4, <2>2 DEF Command
    <3>2. next \in PCs
      BY DEF PCs
    <3> QED BY <1>4, <3>1, <3>2 DEF Command
  <2> HIDE DEF r
  <2>5. run' \in [Terminal -> Command] /\ run'[t] = r /\ Others(t)
    BY <2>3, <2>4, GoesOn DEF IInv, Others
  <2>6. (mistouched => mistouched') /\ (s # asked => mistouched')
    BY <1>6, Zenon
  <2>7. Indexes(run[t])'
    BY <1>4, <2>2, <2>4, <2>5, <2>6 DEF Local, Indexes
  <2>8. Local(run[t])'
    BY <2>4, <2>5, <2>7 DEF Local, Enrols, Enrolling, Tracks, Refers, Signing
  <2> QED BY <1>1, <1>5, <2>4, <2>5, <2>6, <2>8, OnKeeps
<1>7. ASSUME Becomes(t, [run[t] EXCEPT !.pc = next, !.serials = run[t].serials \ {asked}]), UNCHANGED mistouched
      PROVE  IInv'
  <2> DEFINE r == [run[t] EXCEPT !.pc = next, !.serials = run[t].serials \ {asked}]
  <2>1. r \in Command /\ r.pc = next /\ r.index = run[t].index
    BY <1>4 DEF Command, PCs
  <2>2. Goes(t, r)
    BY <1>7 DEF Becomes, Goes
  <2> HIDE DEF r
  <2>3. run' \in [Terminal -> Command] /\ run'[t] = r /\ Others(t)
    BY <2>1, <2>2, GoesOn DEF IInv, Others
  <2>4. Local(run[t])'
    BY <1>4, <1>7, <2>1, <2>3, PlainLocal
  <2> QED BY <1>1, <1>5, <1>7, <2>1, <2>3, <2>4, OnKeeps
<1> QED BY <1>3, <1>6, <1>7

LEMMA SkipKeeps ==
    ASSUME IInv, NEW t \in Terminal, NEW x \in run[t].sources, SkipSource(t, x)
    PROVE  IInv'
<1> DEFINE r == [run[t] EXCEPT !.sources = @ \ {x}]
<1>1. /\ run[t].pc = "import" /\ Goes(t, r)
      /\ UNCHANGED <<keyVars, resident, disk, signature, runs, history>>
  BY DEF SkipSource, At, Becomes, Goes, Quiet
<1>2. run[t] \in Command /\ Local(run[t])
  BY RunTyped DEF IInv, LocalInv
<1>3. r \in Command /\ r.pc = "import" /\ r.index = run[t].index
  BY <1>1, <1>2 DEF Command
<1> HIDE DEF r
<1>4. run' \in [Terminal -> Command] /\ run'[t] = r /\ Others(t)
  BY <1>1, <1>3, GoesOn DEF IInv, Others
<1>5. Local(run[t])'
  BY <1>1, <1>2, <1>3, <1>4, PlainLocal DEF history
<1> QED BY <1>1, <1>3, <1>4, <1>5, QuietKeeps DEF IInv, TypeInv

\* What is copied under a serial is a credential of that key, both files of it.
LEMMA CopyStubKeeps ==
    ASSUME IInv, NEW t \in Terminal, NEW x \in run[t].sources, CopyStub(t, x)
    PROVE  IInv'
<1>1. /\ run[t].pc = "import" /\ StubOf(x) # None /\ PubOf(x) # None
      /\ UNCHANGED <<keyVars, resident, pub, backup, trusted, link, signature, runs, moves,
                     mistouched, crowded, crossed, raced, abandoned>>
  BY DEF CopyStub, Readable, At
<1> DEFINE dest(k) == <<k, x.ref[2]>>
<1>2. PICK s \in Holders(t, x) :
        /\ stub' = [stub EXCEPT ![dest(s)] = StubOf(x)]
        /\ filed' = filed \cup {StubOf(x)}
        /\ erased' = erased \cup {c \in {stub[dest(s)]} : c \notin {None, StubOf(x)}}
        /\ torn' = (torn \/ Copying(t, dest(s)) \/ (x.self /\ Copying(t, x.ref)))
        /\ Becomes(t, [run[t] EXCEPT !.pc = "copypub", !.ref = {dest(s)}, !.cred = PubOf(x),
                                      !.sources = @ \ {x}, !.done = @ \cup {<<x, dest(s)>>}])
  BY DEF CopyStub
<1> DEFINE d == dest(s)
           r == [run[t] EXCEPT !.pc = "copypub", !.ref = {d}, !.cred = PubOf(x),
                               !.sources = @ \ {x}, !.done = @ \cup {<<x, d>>}]
<1>3. run[t] \in Command /\ Local(run[t])
  BY RunTyped DEF IInv, LocalInv
<1>4. x \in Source /\ x.self \in BOOLEAN /\ x.ref \in Ref /\ x.cred \in Cred
  BY <1>3 DEF Command, Source
<1>5. StubOf(x) \in Cred /\ PubOf(x) \in Cred
  BY <1>1, <1>4 DEF StubOf, PubOf, IInv, TypeInv
<1>6. <<PubOf(x), s>> \in run[t].index /\ s \in Serial
  <2>1. PICK i \in run[t].index : i[1] = PubOf(x) /\ i[2] = s
    BY DEF Holders
  <2>2. i \in Cred \X Serial
    BY <1>3 DEF Command
  <2> QED BY <2>1, <2>2
<1>7. d \in Ref /\ d[1] = s
  BY <1>4, <1>6, RefIs
<1>8. mistouched \/ PubOf(x)[1] = s
  BY <1>3, <1>6 DEF Local, Indexes
<1>9. torn' \/ (~torn /\ ~Copying(t, d) /\ ~(x.self /\ Copying(t, x.ref)))
  BY <1>2, Zenon DEF d, dest
<1>10. /\ stub' = [stub EXCEPT ![d] = StubOf(x)] /\ stub \in [Ref -> Cred \cup {None}]
       /\ filed' = filed \cup {StubOf(x)} /\ filed \in SUBSET Cred
       /\ erased' = erased \cup {c \in {stub[d]} : c \notin {None, StubOf(x)}} /\ erased \in SUBSET Cred
  BY <1>2 DEF IInv, TypeInv
<1>11. Goes(t, r)
  BY <1>2 DEF Becomes, Goes
<1> HIDE DEF d
<1>12. r \in Command /\ r.pc = "copypub" /\ r.ref = {d} /\ r.cred = PubOf(x) /\ r.index = run[t].index
  <2>1. run[t].done \cup {<<x, d>>} \in SUBSET (Source \X Ref)
    BY <1>3, <1>4, <1>7 DEF Command
  <2>2. run[t].sources \ {x} \in SUBSET Source
    BY <1>3 DEF Command
  <2> QED BY <1>3, <1>5, <1>7, <2>1, <2>2 DEF Command, PCs
<1> HIDE DEF r
<1>13. run' \in [Terminal -> Command] /\ run'[t] = r /\ Others(t)
  BY <1>11, <1>12, GoesOn DEF IInv, Others
<1>14. /\ stub' \in [Ref -> Cred \cup {None}] /\ stub'[d] = StubOf(x)
       /\ \A q \in Ref : q # d => stub'[q] = stub[q]
       /\ filed' \in SUBSET Cred /\ erased' \in SUBSET Cred
  BY <1>5, <1>7, <1>10
<1>15. UNCHANGED <<plugged, path, allowed, pub, resident, mistouched, crowded, abandoned, backup, trusted, link>>
  BY <1>1 DEF keyVars
<1>16. TypeInv'
  BY <1>1, <1>13, <1>14, <1>15 DEF IInv, TypeInv, KeysTypeOK
<1>17. LocalInv'
  <2>0. torn => torn'
    BY <1>9, Zenon
  <2>1. Local(run[t])'
    BY <1>3, <1>5, <1>7, <1>12, <1>13, <1>15 DEF Local, Enrols, Enrolling, Tracks, Indexes, Refers, Signing
  <2> QED BY <1>13, <1>15, <2>0, <2>1, LocalKeeps DEF IInv
<1>18. FiledInv'
  <2>1. CASE mistouched \/ crowded
    BY <1>15, <2>1 DEF FiledInv
  <2>2. CASE ~mistouched /\ ~crowded
    <3>1. PubOf(x)[1] = s
      BY <1>8, <2>2
    <3>2. StubOf(x)[1] = s
      <4>1. CASE x.self
        <5>1. StubOf(x) = stub[x.ref] /\ PubOf(x) = pub[x.ref]
          BY <4>1 DEF StubOf, PubOf
        <5> QED BY <1>1, <1>4, <2>2, <3>1, <5>1 DEF IInv, FiledInv
      <4>2. CASE ~x.self
        BY <3>1, <4>2 DEF StubOf, PubOf
      <4> QED BY <4>1, <4>2
    <3>3. \A q \in Ref : (stub'[q] # None => stub'[q][1] = q[1]) /\ (pub'[q] # None => pub'[q][1] = q[1])
      BY <1>7, <1>14, <1>15, <2>2, <3>2 DEF IInv, FiledInv
    <3>4. ASSUME NEW u \in Terminal, At(u, "copypub")', NEW q \in run'[u].ref PROVE run'[u].cred[1] = q[1]
      <4>1. CASE u = t
        BY <1>7, <1>12, <1>13, <3>1, <3>4, <4>1
      <4>2. CASE u # t
        BY <1>13, <2>2, <3>4, <4>2 DEF IInv, FiledInv, Others, At
      <4> QED BY <4>1, <4>2
    <3> QED BY <3>3, <3>4 DEF FiledInv
  <2> QED BY <2>1, <2>2
<1>19. PairInv'
  <2>1. CASE torn'
    BY <2>1 DEF PairInv
  <2>2. CASE ~torn'
    <3>1. ~torn /\ ~Copying(t, d) /\ ~(x.self /\ Copying(t, x.ref))
      BY <1>9, <2>2
    <3>2. \A u \in Terminal : At(u, "copypub")' => u = t \/ (u # t /\ At(u, "copypub") /\ run'[u] = run[u])
      BY <1>13 DEF Others, At
    <3>3. \A u \in Terminal : At(u, "copypub") => u # t /\ At(u, "copypub")' /\ run'[u] = run[u]
      BY <1>1, <1>13 DEF Others, At
    <3>4. At(t, "copypub")' /\ d \in run'[t].ref
      BY <1>12, <1>13 DEF At
    <3>5. ASSUME NEW q \in Ref, stub'[q] # None, pub'[q] # None
          PROVE stub'[q] = pub'[q] \/ \E u \in Terminal : At(u, "copypub")' /\ q \in run'[u].ref
      BY <1>14, <1>15, <3>1, <3>3, <3>4, <3>5 DEF IInv, PairInv
    <3>6. StubOf(x) = PubOf(x)
      <4>1. CASE x.self
        <5>1. StubOf(x) = stub[x.ref] /\ PubOf(x) = pub[x.ref]
          BY <4>1 DEF StubOf, PubOf
        <5>2. ~\E u \in Terminal : At(u, "copypub") /\ x.ref \in run[u].ref
          BY <3>1, <3>3, <4>1 DEF Copying
        <5> QED BY <1>1, <1>4, <3>1, <5>1, <5>2 DEF IInv, PairInv
      <4>2. CASE ~x.self
        BY <4>2 DEF StubOf, PubOf
      <4> QED BY <4>1, <4>2
    <3>7. ASSUME NEW u \in Terminal, At(u, "copypub")', NEW q \in run'[u].ref
          PROVE stub'[q] \in {None, run'[u].cred}
      <4>1. CASE u = t
        BY <1>12, <1>13, <1>14, <3>6, <3>7, <4>1
      <4>2. CASE u # t
        <5>1. q \in Ref
          BY <1>13 DEF Command
        <5>2. q # d
          BY <3>1, <3>2, <3>7, <4>2 DEF Copying
        <5> QED BY <1>14, <3>1, <3>2, <3>7, <4>2, <5>1, <5>2 DEF IInv, PairInv
      <4> QED BY <4>1, <4>2
    <3> QED BY <3>5, <3>7 DEF PairInv
  <2> QED BY <2>1, <2>2
<1>20. LinkInv' /\ AppendInv'
  BY <1>1, <1>12, <1>13, LinkKeeps, AppendKeeps DEF IInv
<1>21. KeptInv'
  <2>1. CASE mistouched \/ crowded \/ abandoned
    BY <1>15, <2>1 DEF KeptInv
  <2>2. CASE ~(mistouched \/ crowded \/ abandoned)
    <3> SUFFICES ASSUME NEW i \in Serial, resident[i] \in filed' \ erased'
                 PROVE  \/ \E q \in Ref : stub'[q] = resident[i]
                        \/ \E u \in Terminal : At(u, "generate")' /\ run'[u].cleared /\ run'[u].serials = {i}
      BY <1>15 DEF KeptInv
    <3>1. resident[i] # None
      BY CredIs DEF IInv, TypeInv
    <3>2. CASE resident[i] = StubOf(x)
      BY <1>7, <1>14, <3>2
    <3>3. CASE resident[i] # StubOf(x)
      <4>1. resident[i] \in filed \ erased /\ resident[i] # stub[d]
        BY <1>10, <3>1, <3>3
      <4>2. CASE \E q \in Ref : stub[q] = resident[i]
        BY <1>14, <4>1, <4>2
      <4>3. CASE \E u \in Terminal : At(u, "generate") /\ run[u].cleared /\ run[u].serials = {i}
        BY <1>1, <1>13, <4>3 DEF Others, At
      <4> QED BY <2>2, <4>1, <4>2, <4>3 DEF IInv, KeptInv
    <3> QED BY <3>2, <3>3
  <2> QED BY <2>1, <2>2
<1> QED BY <1>16, <1>17, <1>18, <1>19, <1>20, <1>21 DEF IInv

LEMMA CopyPubKeeps == ASSUME IInv, NEW t \in Terminal, CopyPub(t) PROVE IInv'
<1>1. /\ run[t].pc = "copypub"
      /\ UNCHANGED <<keyVars, resident, stub, backup, trusted, link, signature, runs, moves,
                     mistouched, crowded, crossed, raced, abandoned, filed, erased>>
  BY DEF CopyPub, At
<1>2. run[t] \in Command /\ Local(run[t])
  BY RunTyped DEF IInv, LocalInv
<1>3. PICK d \in Ref : run[t].ref = {d}
  BY <1>1, <1>2 DEF Local, Refers
<1>4. pub' = [pub EXCEPT ![d] = run[t].cred] /\ torn' = (torn \/ Copying(t, d))
  BY <1>3, Zenon DEF CopyPub, PubCopied
<1>5. torn => torn'
  BY <1>4, Zenon
<1> DEFINE r == [run[t] EXCEPT !.pc = "import", !.ref = {}, !.cred = None]
<1>6. r \in Command /\ r.pc = "import" /\ r.index = run[t].index
  BY <1>2 DEF Command, PCs
<1>7. Goes(t, r)
  BY DEF CopyPub, Becomes, Goes
<1> HIDE DEF r
<1>8. run' \in [Terminal -> Command] /\ run'[t] = r /\ Others(t)
  BY <1>6, <1>7, GoesOn DEF IInv, Others
<1>9. run[t].cred \in Cred
  BY <1>1, <1>2 DEF Local, Refers
<1>10. /\ pub' \in [Ref -> Cred \cup {None}] /\ pub'[d] = run[t].cred
       /\ \A q \in Ref : q # d => pub'[q] = pub[q]
  BY <1>4, <1>9 DEF IInv, TypeInv
<1>11. UNCHANGED <<plugged, path, allowed>>
  BY <1>1 DEF keyVars
<1>12. TypeInv'
  BY <1>1, <1>8, <1>10, <1>11 DEF IInv, TypeInv, KeysTypeOK
<1>13. LocalInv'
  <2>1. Local(run[t])'
    BY <1>1, <1>2, <1>6, <1>8, PlainLocal
  <2> QED BY <1>1, <1>5, <1>8, <1>11, <2>1, LocalKeeps DEF IInv
<1>14. FiledInv'
  <2>1. CASE mistouched \/ crowded
    BY <1>1, <2>1 DEF FiledInv
  <2>2. CASE ~mistouched /\ ~crowded
    <3>1. run[t].cred[1] = d[1]
      BY <1>1, <1>3, <2>2 DEF IInv, FiledInv, At
    <3>2. \A q \in Ref : (stub'[q] # None => stub'[q][1] = q[1]) /\ (pub'[q] # None => pub'[q][1] = q[1])
      BY <1>1, <1>10, <2>2, <3>1 DEF IInv, FiledInv
    <3>3. \A u \in Terminal : At(u, "copypub")' => \A q \in run'[u].ref : run'[u].cred[1] = q[1]
      BY <1>6, <1>8, <2>2 DEF IInv, FiledInv, Others, At
    <3> QED BY <3>2, <3>3 DEF FiledInv
  <2> QED BY <2>1, <2>2
<1>15. PairInv'
  <2>1. CASE torn
    BY <1>5, <2>1 DEF PairInv
  <2>2. CASE ~torn
    <3>1. stub[d] \in {None, run[t].cred}
      BY <1>1, <1>3, <2>2 DEF IInv, PairInv, At
    <3>2. ASSUME NEW q \in Ref, stub'[q] # None, pub'[q] # None
          PROVE stub'[q] = pub'[q] \/ \E u \in Terminal : At(u, "copypub")' /\ q \in run'[u].ref
      <4>1. CASE q = d
        BY <1>1, <1>10, <3>1, <3>2, <4>1
      <4>2. CASE q # d
        <5>1. stub[q] = pub[q] \/ \E u \in Terminal : At(u, "copypub") /\ q \in run[u].ref
          BY <1>1, <1>10, <2>2, <3>2, <4>2 DEF IInv, PairInv
        <5>2. \A u \in Terminal : At(u, "copypub") /\ q \in run[u].ref => u # t
          BY <1>3, <4>2
        <5> QED BY <1>1, <1>8, <1>10, <4>2, <5>1, <5>2 DEF Others, At
      <4> QED BY <4>1, <4>2
    <3>3. \A u \in Terminal : At(u, "copypub")' => \A q \in run'[u].ref : stub'[q] \in {None, run'[u].cred}
      BY <1>1, <1>6, <1>8, <2>2 DEF IInv, PairInv, Others, At
    <3> QED BY <3>2, <3>3 DEF PairInv
  <2> QED BY <2>1, <2>2
<1>16. LinkInv' /\ AppendInv' /\ KeptInv'
  BY <1>1, <1>6, <1>8, LinkKeeps, AppendKeeps, KeptKeeps DEF IInv
<1> QED BY <1>12, <1>13, <1>14, <1>15, <1>16 DEF IInv

LEMMA EndImportKeeps == ASSUME IInv, NEW t \in Terminal, EndImport(t) PROVE IInv'
<1>1. /\ run[t].pc = "import" /\ UNCHANGED <<keyVars, resident, disk, signature, runs, history>>
      /\ Becomes(t, Idle) \/ Goto(t, "remove")
  BY DEF EndImport, At, Quiet
<1>2. CASE Becomes(t, Idle)
  BY <1>1, <1>2, ToIdle, QuietKeeps DEF IInv, TypeInv
<1>3. CASE Goto(t, "remove")
  <2>1. run' \in [Terminal -> Command] /\ Others(t) /\ run'[t].pc = "remove" /\ Same(run'[t], run[t])
    BY <1>3, GotoDoes DEF IInv, PCs
  <2>2. Local(run[t])'
    BY <1>1, <2>1, PlainLocal DEF IInv, LocalInv, history, Same
  <2> QED BY <1>1, <2>1, <2>2, QuietKeeps DEF IInv, TypeInv
<1> QED BY <1>1, <1>2, <1>3

LEMMA RemoveKeeps == ASSUME IInv, NEW t \in Terminal, RemoveImportedSources(t) PROVE IInv'
<1>1. /\ run[t].pc = "remove" /\ Becomes(t, Idle)
      /\ UNCHANGED <<keyVars, resident, trusted, link, signature, runs, moves,
                     mistouched, crowded, torn, crossed, raced, abandoned, filed>>
  BY DEF RemoveImportedSources, At
<1>2. CASE UNCHANGED <<backup, stub, pub, erased>>
  BY <1>1, <1>2, ToIdle, QuietKeeps DEF IInv, TypeInv, disk, history
<1>3. ASSUME NEW refs, NEW gone,
             backup' = backup \ gone,
             stub' = [q \in Ref |-> IF q \in refs THEN None ELSE stub[q]],
             pub' = [q \in Ref |-> IF q \in refs THEN None ELSE pub[q]],
             erased' = erased \cup ({stub[q] : q \in refs} \ {None}), refs \in SUBSET Ref
      PROVE  IInv'
  <2>1. run' \in [Terminal -> Command] /\ Others(t) /\ run'[t].pc = "idle" /\ Local(run[t])'
    BY <1>1, ToIdle DEF IInv
  <2>2. UNCHANGED <<plugged, path, allowed>>
    BY <1>1 DEF keyVars
  <2>3. /\ stub' \in [Ref -> Cred \cup {None}] /\ pub' \in [Ref -> Cred \cup {None}] /\ erased' \in SUBSET Cred
        /\ \A q \in Ref : stub'[q] = IF q \in refs THEN None ELSE stub[q]
        /\ \A q \in Ref : pub'[q] = IF q \in refs THEN None ELSE pub[q]
    BY <1>3 DEF IInv, TypeInv
  <2>4. TypeInv'
    BY <1>1, <1>3, <2>1, <2>2, <2>3 DEF IInv, TypeInv, KeysTypeOK
  <2>5. LocalInv' /\ LinkInv' /\ AppendInv'
    BY <1>1, <2>1, <2>2, LocalKeeps, LinkKeeps, AppendKeeps DEF IInv
  <2>6. FiledInv'
    <3>1. CASE mistouched \/ crowded
      BY <1>1, <3>1 DEF FiledInv
    <3>2. CASE ~mistouched /\ ~crowded
      BY <1>1, <2>1, <2>3, <3>2 DEF IInv, FiledInv, Others, At
    <3> QED BY <3>1, <3>2
  <2>7. PairInv'
    <3>1. CASE torn
      BY <1>1, <3>1 DEF PairInv
    <3>2. CASE ~torn
      <4>1. \A u \in Terminal : At(u, "copypub")' <=> At(u, "copypub")
        BY <1>1, <2>1 DEF Others, At
      <4>2. \A u \in Terminal : At(u, "copypub") => run'[u] = run[u]
        BY <1>1, <2>1 DEF Others, At
      <4>3. \A u \in Terminal : At(u, "copypub") => \A q \in run[u].ref : stub'[q] \in {None, run[u].cred}
        <5> SUFFICES ASSUME NEW u \in Terminal, At(u, "copypub"), NEW q \in run[u].ref
                     PROVE  stub'[q] \in {None, run[u].cred}
          OBVIOUS
        <5>1. q \in Ref
          BY DEF IInv, TypeInv, Command
        <5> QED BY <2>3, <3>2, <5>1 DEF IInv, PairInv
      <4>4. ASSUME NEW q \in Ref, stub'[q] # None, pub'[q] # None
            PROVE stub'[q] = pub'[q] \/ \E u \in Terminal : At(u, "copypub")' /\ q \in run'[u].ref
        BY <2>3, <3>2, <4>1, <4>2, <4>4 DEF IInv, PairInv
      <4> QED BY <4>1, <4>2, <4>3, <4>4 DEF PairInv
    <3> QED BY <3>1, <3>2
  <2>8. KeptInv'
    <3>1. CASE mistouched \/ crowded \/ abandoned
      BY <1>1, <3>1 DEF KeptInv
    <3>2. CASE ~(mistouched \/ crowded \/ abandoned)
      <4> SUFFICES ASSUME NEW i \in Serial, resident[i] \in filed \ erased'
                   PROVE  \/ \E q \in Ref : stub'[q] = resident[i]
                          \/ \E u \in Terminal : At(u, "generate")' /\ run'[u].cleared /\ run'[u].serials = {i}
        BY <1>1 DEF KeptInv
      <4>1. resident[i] # None /\ resident[i] \in filed \ erased
        BY <1>3, CredIs DEF IInv, TypeInv
      <4>2. CASE \E q \in Ref : stub[q] = resident[i]
        <5>1. PICK q \in Ref : stub[q] = resident[i]
          BY <4>2
        <5>2. q \notin refs
          BY <1>3, <4>1, <5>1
        <5> QED BY <2>3, <5>1, <5>2
      <4>3. CASE \E u \in Terminal : At(u, "generate") /\ run[u].cleared /\ run[u].serials = {i}
        BY <1>1, <2>1, <4>3 DEF Others, At
      <4> QED BY <3>2, <4>1, <4>2, <4>3 DEF IInv, KeptInv
    <3> QED BY <3>1, <3>2
  <2> QED BY <2>4, <2>5, <2>6, <2>7, <2>8 DEF IInv
<1>4. CASE ~UNCHANGED <<backup, stub, pub, erased>>
  <2> DEFINE gone == {d[1] : d \in run[t].done}
             refs == {x.ref : x \in {x \in gone : x.self}}
  <2>1. refs \in SUBSET Ref
    BY RunTyped DEF IInv, Command, Source
  <2>2. /\ backup' = backup \ {x.cred : x \in {x \in gone : ~x.self}}
        /\ stub' = [q \in Ref |-> IF q \in refs THEN None ELSE stub[q]]
        /\ pub' = [q \in Ref |-> IF q \in refs THEN None ELSE pub[q]]
        /\ erased' = erased \cup ({stub[q] : q \in refs} \ {None})
    BY <1>4 DEF RemoveImportedSources
  <2> HIDE DEF refs, gone
  <2> QED BY <1>3, <2>1, <2>2
<1> QED BY <1>2, <1>4

-----------------------------------------------------------------------------
\* signing-key link.

LEMMA StartLinkKeeps == ASSUME IInv, NEW t \in Terminal, NEW want \in Want, StartLink(t, want) PROVE IInv'
<1>1. /\ run[t].pc = "idle" /\ runs < MaxRuns /\ runs' = runs + 1
      /\ crossed' = (crossed \/ Linking # {})
      /\ UNCHANGED <<keyVars, resident, disk, signature, moves>>
      /\ UNCHANGED <<mistouched, crowded, torn, raced, abandoned, filed, erased>>
  BY DEF StartLink, At
<1>2. PICK d \in Ref : Becomes(t, [Idle EXCEPT !.pc = "linkstub", !.ref = {d}])
  BY ScanIs DEF StartLink, PreferDefaultKeyType
<1> DEFINE r == [Idle EXCEPT !.pc = "linkstub", !.ref = {d}]
<1>3. Idle \in Command
  BY IdleIs DEF IInv
<1>4. r \in Command /\ r.pc = "linkstub" /\ r.ref = {d} /\ r.index = {}
  <2>1. r \in Command
    BY <1>3 DEF Command, PCs
  <2>2. r.pc = "linkstub" /\ r.ref = {d} /\ r.index = {}
    BY DEF Idle
  <2> QED BY <2>1, <2>2
<1>5. Goes(t, r)
  BY <1>2 DEF Becomes, Goes
<1> HIDE DEF r
<1>6. run' \in [Terminal -> Command] /\ run'[t] = r /\ Others(t)
  BY <1>4, <1>5, GoesOn DEF IInv, Others
<1>7. UNCHANGED <<plugged, path, allowed, stub, pub, backup, trusted, link>>
  BY <1>1 DEF keyVars, disk
<1>8. runs' \in 0..MaxRuns
  BY <1>1, Beginning DEF IInv
<1>9. TypeInv'
  BY <1>1, <1>6, <1>7, <1>8 DEF IInv, TypeInv, KeysTypeOK
<1>10. Local(run[t])'
  BY <1>4, <1>6 DEF Local, Enrols, Enrolling, Tracks, Indexes, Refers, Signing
<1>11. LocalInv' /\ FiledInv' /\ PairInv' /\ AppendInv' /\ KeptInv'
  BY <1>1, <1>4, <1>6, <1>7, <1>10, LocalKeeps, FiledKeeps, PairKeeps, AppendKeeps, KeptKeeps DEF IInv
<1>12. LinkInv'
  <2>1. CASE crossed'
    BY <2>1 DEF LinkInv
  <2>2. CASE ~crossed'
    <3>1. ~crossed /\ Linking = {}
      BY <1>1, <2>2, Zenon
    <3>2. \A u \in Terminal : ~At(u, "linkstub") /\ ~At(u, "linkpub")
      BY <3>1 DEF Linking
    <3>3. Linking' \subseteq {t}
      BY <1>6, <3>2 DEF Linking, Others, At
    <3>4. \A u \in Terminal : ~At(u, "linkpub")'
      BY <1>4, <1>6, <3>2 DEF Others, At
    <3>5. link.stub = link.pub
      BY <3>1, <3>2 DEF IInv, LinkInv
    <3> QED BY <1>7, <3>3, <3>4, <3>5 DEF LinkInv
  <2> QED BY <2>1, <2>2
<1> QED BY <1>9, <1>11, <1>12 DEF IInv

LEMMA LinkStubKeeps == ASSUME IInv, NEW t \in Terminal, LinkStub(t) PROVE IInv'
<1>1. /\ run[t].pc = "linkstub" /\ Goto(t, "linkpub") /\ link' = [link EXCEPT !.stub = run[t].ref]
      /\ UNCHANGED <<keyVars, resident, stub, pub, backup, trusted, signature, runs, moves>>
      /\ UNCHANGED <<mistouched, crowded, torn, crossed, raced, abandoned, filed, erased>>
  BY DEF LinkStub, At, history
<1>2. run[t] \in Command /\ Local(run[t])
  BY RunTyped DEF IInv, LocalInv
<1>3. PICK d \in Ref : run[t].ref = {d}
  BY <1>1, <1>2 DEF Local, Refers
<1>4. run' \in [Terminal -> Command] /\ Others(t) /\ run'[t].pc = "linkpub" /\ Same(run'[t], run[t])
  BY <1>1, GotoDoes DEF IInv, PCs
<1>5. link' \in [stub : SUBSET Ref, pub : SUBSET Ref] /\ link'.stub = {d} /\ link'.pub = link.pub
  BY <1>1, <1>3 DEF IInv, TypeInv
<1>6. UNCHANGED <<plugged, path, allowed>>
  BY <1>1 DEF keyVars
<1>7. TypeInv'
  BY <1>1, <1>4, <1>5, <1>6 DEF IInv, TypeInv, KeysTypeOK, AtMostOne
<1>8. Local(run[t])'
  BY <1>1, <1>2, <1>3, <1>4 DEF Local, Enrols, Enrolling, Tracks, Indexes, Refers, Signing, Same
<1>9. LocalInv' /\ FiledInv' /\ PairInv' /\ AppendInv' /\ KeptInv'
  BY <1>1, <1>4, <1>6, <1>8, LocalKeeps, FiledKeeps, PairKeeps, AppendKeeps, KeptKeeps DEF IInv
<1>10. LinkInv'
  <2>1. CASE crossed
    BY <1>1, <2>1 DEF LinkInv
  <2>2. CASE ~crossed
    <3>1. \A u \in Linking : u = t
      BY <1>1, <2>2 DEF IInv, LinkInv, Linking, At
    <3>2. \A u \in Terminal : At(u, "linkstub")' \/ At(u, "linkpub")' => u = t
      BY <1>4, <3>1 DEF Linking, Others, At
    <3>3. \A u \in Linking' : u = t
      BY <3>2 DEF Linking
    <3>4. At(t, "linkpub")' /\ link'.stub = run'[t].ref
      BY <1>3, <1>4, <1>5 DEF At, Same
    <3> QED BY <3>2, <3>3, <3>4 DEF LinkInv
  <2> QED BY <2>1, <2>2
<1> QED BY <1>7, <1>9, <1>10 DEF IInv

LEMMA LinkPubKeeps == ASSUME IInv, NEW t \in Terminal, LinkPub(t) PROVE IInv'
<1>1. /\ run[t].pc = "linkpub" /\ Becomes(t, Idle) /\ link' = [link EXCEPT !.pub = run[t].ref]
      /\ UNCHANGED <<keyVars, resident, stub, pub, backup, trusted, signature, runs, moves>>
      /\ UNCHANGED <<mistouched, crowded, torn, crossed, raced, abandoned, filed, erased>>
  BY DEF LinkPub, At, history
<1>2. run[t] \in Command /\ Local(run[t])
  BY RunTyped DEF IInv, LocalInv
<1>3. PICK d \in Ref : run[t].ref = {d}
  BY <1>1, <1>2 DEF Local, Refers
<1>4. run' \in [Terminal -> Command] /\ Others(t) /\ run'[t].pc = "idle" /\ Local(run[t])'
  BY <1>1, ToIdle DEF IInv
<1>5. link' \in [stub : SUBSET Ref, pub : SUBSET Ref] /\ link'.pub = {d} /\ link'.stub = link.stub
  BY <1>1, <1>3 DEF IInv, TypeInv
<1>6. UNCHANGED <<plugged, path, allowed>>
  BY <1>1 DEF keyVars
<1>7. TypeInv'
  BY <1>1, <1>4, <1>5, <1>6 DEF IInv, TypeInv, KeysTypeOK, AtMostOne
<1>8. LocalInv' /\ FiledInv' /\ PairInv' /\ AppendInv' /\ KeptInv'
  BY <1>1, <1>4, <1>6, LocalKeeps, FiledKeeps, PairKeeps, AppendKeeps, KeptKeeps DEF IInv
<1>9. LinkInv'
  <2>1. CASE crossed
    BY <1>1, <2>1 DEF LinkInv
  <2>2. CASE ~crossed
    <3>1. \A u \in Linking : u = t
      BY <1>1, <2>2 DEF IInv, LinkInv, Linking, At
    <3>2. \A u \in Terminal : ~At(u, "linkstub")' /\ ~At(u, "linkpub")'
      BY <1>4, <3>1 DEF Linking, Others, At
    <3>3. link.stub = {d}
      BY <1>1, <1>3, <2>2 DEF IInv, LinkInv, At
    <3> QED BY <1>5, <3>2, <3>3 DEF LinkInv, Linking
  <2> QED BY <2>1, <2>2
<1> QED BY <1>7, <1>8, <1>9 DEF IInv

-----------------------------------------------------------------------------
\* Signing.

LEMMA GetKeyKeeps == ASSUME IInv, NEW t \in Terminal, NEW want \in Want, GetKey(t, want) PROVE IInv'
<1>1. PICK d \in Ref : pub[d] # None /\ Begin(t, [Idle EXCEPT !.pc = "sign", !.cred = pub[d]])
  BY ScanIs DEF GetKey, PreferDefaultKeyType
<1> DEFINE r == [Idle EXCEPT !.pc = "sign", !.cred = pub[d]]
<1>2. /\ run[t].pc = "idle" /\ runs < MaxRuns /\ runs' = runs + 1 /\ Goes(t, r)
      /\ UNCHANGED <<keyVars, resident, disk, signature, moves, history>>
  BY <1>1 DEF Begin, At, Becomes, Goes
<1>3. Idle \in Command /\ pub[d] \in Cred
  BY <1>1, IdleIs DEF IInv, TypeInv
<1>4. r \in Command /\ r.pc = "sign" /\ r.cred \in Cred /\ r.index = {}
  BY <1>3 DEF Command, PCs, Idle
<1> HIDE DEF r
<1>5. run' \in [Terminal -> Command] /\ run'[t] = r /\ Others(t)
  BY <1>2, <1>4, GoesOn DEF IInv, Others
<1>6. Local(run[t])'
  BY <1>4, <1>5 DEF Local, Enrols, Enrolling, Tracks, Indexes, Refers, Signing
<1>7. runs' \in 0..MaxRuns
  BY <1>2, Beginning DEF IInv
<1> QED BY <1>2, <1>4, <1>5, <1>6, <1>7, QuietKeeps

\* Off to ssh-keygen, with a stub that was chosen for a public key or without one.
LEMMA RewriteDoes ==
    ASSUME IInv, NEW t \in Terminal, NEW asked \in Cred \cup {None}, NEW d \in Ref, NEW checked \in BOOLEAN,
           Becomes(t, RewriteSignArgs(asked, d, checked)),
           checked => RequireAllowed(d[1]),
           asked # None => stub[d] # None /\ pub[d] = asked,
           UNCHANGED <<mistouched, crowded, torn>>
    PROVE  run' \in [Terminal -> Command] /\ Others(t) /\ run'[t].pc = "keygen" /\ Local(run[t])'
<1> DEFINE r == RewriteSignArgs(asked, d, checked)
<1>1. Idle \in Command /\ allowed \in SUBSET Serial /\ stub[d] \in Cred \cup {None}
  BY IdleIs DEF IInv, TypeInv, KeysTypeOK
<1>2. Halfway(d) \in BOOLEAN
  BY DEF Halfway
<1>3. /\ r \in Command /\ r.pc = "keygen" /\ r.index = {} /\ r.ref = {d} /\ r.serials = allowed
      /\ r.cred = asked /\ r.seen = {stub[d]} \ {None} /\ r.checked = checked /\ r.stale = Halfway(d)
  <2> DEFINE seen == {stub[d]} \ {None}
             stale == Halfway(d)
             q == [Idle EXCEPT !.pc = "keygen", !.cred = asked, !.ref = {d}, !.seen = seen,
                               !.serials = allowed, !.checked = checked, !.stale = stale]
  <2>1. seen \in SUBSET Cred /\ stale \in BOOLEAN /\ r = q
    BY <1>1, <1>2 DEF RewriteSignArgs
  <2> HIDE DEF seen, stale, r
  <2>2. q \in Command
    BY <1>1, <2>1 DEF Command, PCs
  <2>3. /\ q.pc = "keygen" /\ q.index = {} /\ q.ref = {d} /\ q.serials = allowed
        /\ q.cred = asked /\ q.seen = seen /\ q.checked = checked /\ q.stale = stale
    BY DEF Idle
  <2> QED BY <2>1, <2>2, <2>3 DEF seen, stale
<1>4. checked => allowed = {} \/ d[1] \in allowed
  BY DEF RequireAllowed, FilterAllowed
<1>5. torn \/ Halfway(d) \/ asked = None \/ {stub[d]} \ {None} \subseteq {asked}
  BY DEF IInv, PairInv, Halfway
<1>6. Goes(t, r)
  BY DEF Becomes, Goes
<1> HIDE DEF r
<1>7. run' \in [Terminal -> Command] /\ run'[t] = r /\ Others(t)
  BY <1>3, <1>6, GoesOn DEF IInv, Others
<1>8. Local(run[t])'
  BY <1>3, <1>4, <1>5, <1>7 DEF Local, Enrols, Enrolling, Tracks, Indexes, Refers, Signing
<1> QED BY <1>3, <1>7, <1>8

LEMMA SignKeeps == ASSUME IInv, NEW t \in Terminal, Sign(t) PROVE IInv'
<1>1. /\ run[t].pc = "sign" /\ UNCHANGED <<keyVars, resident, disk, signature, runs, moves, history>>
  BY DEF Sign, At, Quiet
<1>2. run[t].cred \in Cred /\ runs \in 0..MaxRuns
  BY <1>1 DEF IInv, TypeInv, LocalInv, Local, Refers
<1>3. CASE Becomes(t, Idle)
  <2>1. run' \in [Terminal -> Command] /\ Others(t) /\ run'[t].pc = "idle" /\ Local(run[t])'
    BY <1>3, ToIdle DEF IInv
  <2> QED BY <1>1, <1>2, <2>1, QuietKeeps
<1>4. CASE \E d \in MatchByPublicKey(run[t].cred) : Becomes(t, RewriteSignArgs(run[t].cred, d, TRUE))
  <2>1. PICK d \in MatchByPublicKey(run[t].cred) : Becomes(t, RewriteSignArgs(run[t].cred, d, TRUE))
    BY <1>4
  <2>2. d \in Ref /\ stub[d] # None /\ pub[d] = run[t].cred /\ RequireAllowed(d[1])
    BY ScanIs DEF MatchByPublicKey, FilterAllowedRefs
  <2>3. run' \in [Terminal -> Command] /\ Others(t) /\ run'[t].pc = "keygen" /\ Local(run[t])'
    BY <1>1, <1>2, <2>1, <2>2, RewriteDoes DEF history
  <2> QED BY <1>1, <1>2, <2>3, QuietKeeps
<1> QED BY <1>3, <1>4 DEF Sign

\* Nothing the invariant reads changes but the types.
LEMMA Unmoved ==
    ASSUME IInv, TypeInv', UNCHANGED <<run, plugged, path, resident, stub, pub, trusted, link, history>>
    PROVE  IInv'
<1>1. UNCHANGED <<mistouched, crowded, torn, crossed, raced, abandoned, filed, erased>>
  BY DEF history
<1>2. LocalInv'
  BY <1>1 DEF IInv, LocalInv, Local, Enrols, Enrolling, Tracks, Indexes, Refers, Signing
<1>3. FiledInv' /\ PairInv'
  BY <1>1 DEF IInv, FiledInv, PairInv, At
<1>4. LinkInv' /\ AppendInv'
  BY <1>1 DEF IInv, LinkInv, Linking, AppendInv, At
<1>5. KeptInv'
  BY <1>1 DEF IInv, KeptInv, At
<1> QED BY <1>2, <1>3, <1>4, <1>5 DEF IInv

\* By hand: a stub the serial has alone, or the one named.
LEMMA ByHandKeeps ==
    ASSUME IInv, NEW t \in Terminal, NEW d \in Ref, NEW checked \in BOOLEAN,
           Begin(t, RewriteSignArgs(None, d, checked)), checked => RequireAllowed(d[1])
    PROVE  IInv'
<1>1. /\ run[t].pc = "idle" /\ runs < MaxRuns /\ runs' = runs + 1 /\ Becomes(t, RewriteSignArgs(None, d, checked))
      /\ UNCHANGED <<keyVars, resident, disk, signature, moves, history>>
  BY DEF Begin, At
<1>2. run' \in [Terminal -> Command] /\ Others(t) /\ run'[t].pc = "keygen" /\ Local(run[t])'
  BY <1>1, RewriteDoes DEF history
<1>3. runs' \in 0..MaxRuns
  BY <1>1, Beginning DEF IInv
<1> QED BY <1>1, <1>2, <1>3, QuietKeeps

LEMMA SignFileKeeps == ASSUME IInv, NEW t \in Terminal, NEW want \in Want, SignFile(t, want) PROVE IInv'
<1>1. PICK s \in ResolveSerial(want) : RequireAllowed(s) /\ \E d \in Scan({s}) : Begin(t, RewriteSignArgs(None, d, TRUE))
  BY DEF SignFile
<1>2. PICK d \in Scan({s}) : Begin(t, RewriteSignArgs(None, d, TRUE))
  BY <1>1
<1>3. d \in Ref /\ d[1] = s
  BY ScanIs
<1> QED BY <1>1, <1>2, <1>3, ByHandKeeps

LEMMA SignWithKeeps == ASSUME IInv, NEW t \in Terminal, NEW d \in Ref, SignWith(t, d) PROVE IInv'
BY ByHandKeeps DEF SignWith

\* What the stub names when it is opened is what it named, or the run is stale.
LEMMA OpenStubKeeps == ASSUME IInv, NEW t \in Terminal, OpenStub(t) PROVE IInv'
<1>1. /\ run[t].pc = "keygen" /\ UNCHANGED <<keyVars, resident, disk, signature, runs, moves, history>>
  BY DEF OpenStub, At, Quiet
<1>2. runs \in 0..MaxRuns /\ run[t] \in Command
  BY RunTyped DEF IInv, TypeInv
<1>3. PICK d \in run[t].ref :
        \/ Becomes(t, Idle)
        \/ stub[d] # None /\ Becomes(t, [run[t] EXCEPT !.pc = "signing", !.seen = {stub[d]},
                                        !.stale = @ \/ run[t].seen # {stub[d]}])
  BY DEF OpenStub
<1>4. /\ d \in Ref /\ run[t].ref = {d}
      /\ run[t].checked => run[t].serials = {} \/ d[1] \in run[t].serials
      /\ torn \/ run[t].stale \/ run[t].cred = None \/ run[t].seen \subseteq {run[t].cred}
  BY <1>1 DEF IInv, LocalInv, Local, Signing
<1>5. CASE Becomes(t, Idle)
  <2>1. run' \in [Terminal -> Command] /\ Others(t) /\ run'[t].pc = "idle" /\ Local(run[t])'
    BY <1>5, ToIdle DEF IInv
  <2> QED BY <1>1, <1>2, <2>1, QuietKeeps
<1>6. CASE stub[d] # None /\ Becomes(t, [run[t] EXCEPT !.pc = "signing", !.seen = {stub[d]},
                                        !.stale = @ \/ run[t].seen # {stub[d]}])
  <2> DEFINE r == [run[t] EXCEPT !.pc = "signing", !.seen = {stub[d]}, !.stale = @ \/ run[t].seen # {stub[d]}]
  <2>1. stub[d] \in Cred
    BY <1>4, <1>6 DEF IInv, TypeInv
  <2>2. /\ r \in Command /\ r.pc = "signing" /\ r.index = run[t].index /\ r.ref = {d} /\ r.serials = run[t].serials
        /\ r.cred = run[t].cred /\ r.seen = {stub[d]} /\ r.checked = run[t].checked
        /\ r.stale <=> run[t].stale \/ run[t].seen # {stub[d]}
    <3> DEFINE stale == run[t].stale \/ run[t].seen # {stub[d]}
               q == [run[t] EXCEPT !.pc = "signing", !.seen = {stub[d]}, !.stale = stale]
    <3>1. stale \in BOOLEAN /\ r = q /\ {stub[d]} \in SUBSET Cred
      BY <2>1
    <3>2. (stale <=> run[t].stale \/ run[t].seen # {stub[d]})
      OBVIOUS
    <3> HIDE DEF stale, r
    <3>3. q \in Command /\ q.pc = "signing" /\ q.index = run[t].index /\ q.ref = run[t].ref
          /\ q.serials = run[t].serials /\ q.cred = run[t].cred /\ q.seen = {stub[d]}
          /\ q.checked = run[t].checked /\ q.stale = stale
      BY <1>2, <3>1 DEF Command, PCs
    <3> QED BY <1>4, <3>1, <3>2, <3>3
  <2>3. Goes(t, r)
    BY <1>6 DEF Becomes, Goes
  <2> HIDE DEF r
  <2>4. run' \in [Terminal -> Command] /\ run'[t] = r /\ Others(t)
    BY <2>2, <2>3, GoesOn DEF IInv, Others
  <2>5. mistouched \/ crowded \/ stub[d][1] = d[1]
    BY <1>4, <1>6 DEF IInv, FiledInv
  <2>6. UNCHANGED <<mistouched, crowded, torn>>
    BY <1>1 DEF history
  <2>7. Indexes(run[t])
    BY DEF IInv, LocalInv, Local
  <2>8. Local(run[t])'
    BY <1>4, <2>2, <2>4, <2>5, <2>6, <2>7 DEF Local, Enrols, Enrolling, Tracks, Indexes, Refers, Signing
  <2> QED BY <1>1, <1>2, <2>2, <2>4, <2>8, QuietKeeps
<1> QED BY <1>3, <1>5, <1>6

LEMMA SignsKeeps == ASSUME IInv, NEW t \in Terminal, Signs(t) PROVE IInv'
<1>1. /\ run[t].pc = "signing" /\ Becomes(t, Idle) /\ UNCHANGED <<keyVars, resident, disk, runs, moves>>
      /\ UNCHANGED <<mistouched, crowded, torn, crossed, raced, abandoned, filed, erased>>
  BY DEF Signs, At, history
<1>2. run[t] \in Command /\ plugged \in SUBSET Serial
  BY RunTyped DEF IInv, TypeInv, KeysTypeOK
<1>3. signature' \in Signature
  <2>1. PICK s \in plugged :
          signature' = [asked |-> run[t].cred, by |-> resident[s], listed |-> run[t].serials,
                        checked |-> run[t].checked, stale |-> run[t].stale]
    BY DEF Signs
  <2>2. resident[s] \in Cred
    BY <1>2 DEF IInv, TypeInv
  <2> QED BY <1>2, <2>1, <2>2 DEF Signature, Command
<1>4. run' \in [Terminal -> Command] /\ Others(t) /\ run'[t].pc = "idle" /\ Local(run[t])'
  BY <1>1, ToIdle DEF IInv
<1>5. UNCHANGED <<plugged, path, allowed, stub, pub, backup, trusted, link>>
  BY <1>1 DEF keyVars, disk
<1>6. TypeInv'
  BY <1>1, <1>3, <1>4, <1>5 DEF IInv, TypeInv, KeysTypeOK
<1>7. LocalInv' /\ FiledInv' /\ PairInv' /\ LinkInv' /\ AppendInv' /\ KeptInv'
  BY <1>1, <1>4, <1>5, LocalKeeps, FiledKeeps, PairKeeps, LinkKeeps, AppendKeeps, KeptKeeps DEF IInv
<1> QED BY <1>6, <1>7 DEF IInv

-----------------------------------------------------------------------------
\* The allowlist, a death, and the keys themselves.

LEMMA PickerKeeps ==
    ASSUME IInv, NEW t \in Terminal, NEW pc \in {"allow", "disallow"},
           Begin(t, [Idle EXCEPT !.pc = pc, !.serials = allowed])
    PROVE  IInv'
<1> DEFINE r == [Idle EXCEPT !.pc = pc, !.serials = allowed]
<1>1. /\ run[t].pc = "idle" /\ runs < MaxRuns /\ runs' = runs + 1 /\ Goes(t, r)
      /\ UNCHANGED <<keyVars, resident, disk, signature, moves, history>>
  BY DEF Begin, At, Becomes, Goes
<1>2. Idle \in Command /\ allowed \in SUBSET Serial
  BY IdleIs DEF IInv, TypeInv, KeysTypeOK
<1>3. r \in Command /\ r.pc = pc /\ r.index = {}
  BY <1>2 DEF Command, PCs, Idle
<1> HIDE DEF r
<1>4. run' \in [Terminal -> Command] /\ run'[t] = r /\ Others(t)
  BY <1>1, <1>3, GoesOn DEF IInv, Others
<1>5. Local(run[t])'
  BY <1>3, <1>4 DEF Local, Enrols, Enrolling, Tracks, Indexes, Refers, Signing
<1>6. runs' \in 0..MaxRuns
  BY <1>1, Beginning DEF IInv
<1> QED BY <1>1, <1>3, <1>4, <1>5, <1>6, QuietKeeps

LEMMA SaveKeeps ==
    ASSUME IInv, NEW t \in Terminal, run[t].pc \in {"allow", "disallow"}, NEW serials \in SUBSET Serial,
           Save(t, serials)
    PROVE  IInv'
<1>1. /\ allowed' \in SUBSET Serial /\ Becomes(t, Idle)
      /\ UNCHANGED <<plugged, path, resident, disk, signature, runs, moves>>
      /\ UNCHANGED <<mistouched, crowded, torn, crossed, raced, abandoned, filed, erased>>
  BY DEF Save, history
<1>2. run' \in [Terminal -> Command] /\ Others(t) /\ run'[t].pc = "idle" /\ Local(run[t])'
  BY <1>1, ToIdle DEF IInv
<1>3. UNCHANGED <<stub, pub, backup, trusted, link>>
  BY <1>1 DEF disk
<1>4. TypeInv'
  BY <1>1, <1>2, <1>3 DEF IInv, TypeInv, KeysTypeOK
<1>5. LocalInv' /\ FiledInv' /\ PairInv' /\ LinkInv' /\ AppendInv' /\ KeptInv'
  BY <1>1, <1>2, <1>3, LocalKeeps, FiledKeeps, PairKeeps, LinkKeeps, AppendKeeps, KeptKeeps DEF IInv
<1> QED BY <1>4, <1>5 DEF IInv

LEMMA PickedKeeps ==
    ASSUME IInv, NEW t \in Terminal, NEW picked \in SUBSET Serial, Allow(t, picked) \/ Disallow(t, picked)
    PROVE  IInv'
<1>1. run[t].serials \in SUBSET Serial
  BY RunTyped DEF IInv, Command
<1>2. /\ run[t].pc \in {"allow", "disallow"}
      /\ Save(t, run[t].serials \cup picked) \/ Save(t, run[t].serials \ picked)
  BY DEF Allow, Disallow, At
<1> QED BY <1>1, <1>2, SaveKeeps

LEMMA StopKeeps == ASSUME IInv, NEW t \in Terminal, Stop(t) PROVE IInv'
<1>1. /\ run[t].pc \notin {"idle", "generate"} /\ Becomes(t, Idle)
      /\ UNCHANGED <<keyVars, resident, disk, signature, runs, moves>>
      /\ UNCHANGED <<mistouched, crowded, raced, abandoned, filed, erased>>
  BY DEF Stop, Quiet
<1>2. (torn => torn') /\ (crossed => crossed')
  BY Zenon DEF Stop
<1>3. (torn' \/ run[t].pc # "copypub") /\ (crossed' \/ run[t].pc # "linkpub")
  BY Zenon DEF Stop, At
<1>4. run' \in [Terminal -> Command] /\ Others(t) /\ run'[t].pc = "idle" /\ Local(run[t])'
  BY <1>1, ToIdle DEF IInv
<1>5. UNCHANGED <<plugged, path, allowed, stub, pub, backup, trusted, link>>
  BY <1>1 DEF keyVars, disk
<1>6. TypeInv'
  BY <1>1, <1>4, <1>5 DEF IInv, TypeInv, KeysTypeOK
<1>7. LocalInv' /\ FiledInv' /\ AppendInv' /\ KeptInv'
  BY <1>1, <1>2, <1>4, <1>5, LocalKeeps, FiledKeeps, AppendKeeps, KeptKeeps DEF IInv
<1>8. PairInv'
  <2>1. CASE torn'
    BY <2>1 DEF PairInv
  <2>2. CASE run[t].pc # "copypub"
    BY <1>2, <1>4, <1>5, <2>2, PairKeeps DEF IInv
  <2> QED BY <1>3, <2>1, <2>2
<1>9. LinkInv'
  <2>1. CASE crossed'
    BY <2>1 DEF LinkInv
  <2>2. CASE run[t].pc # "linkpub"
    BY <1>2, <1>4, <1>5, <2>2, LinkKeeps DEF IInv
  <2> QED BY <1>3, <2>1, <2>2
<1> QED BY <1>6, <1>7, <1>8, <1>9 DEF IInv

\* A key that moves is from then on one that moved, to whoever watches.
LEMMA MoveKeeps == ASSUME IInv, NEW s \in Serial, Move(s) PROVE IInv'
<1>1. UNCHANGED <<allowed, resident, disk, signature, runs, mistouched, crowded, torn, crossed, raced,
                  abandoned, filed, erased>>
  BY DEF Move, history
<1>2. /\ run' = [u \in Terminal |-> IF run[u].pc \in {"poll", "observe"}
                                   THEN [run[u] EXCEPT !.moved = @ \cup {s}] ELSE run[u]]
      /\ plugged \in SUBSET Serial /\ path \in [Serial -> {0, 1}]
  BY DEF Move, Moved, IInv, TypeInv, KeysTypeOK
<1>3. /\ plugged' \in SUBSET Serial /\ path' \in [Serial -> {0, 1}]
      /\ \A k \in Serial : k # s => (k \in plugged' <=> k \in plugged) /\ path'[k] = path[k]
  BY <1>2 DEF Move
<1>4. ASSUME NEW u \in Terminal
      PROVE  /\ run'[u] \in Command /\ run'[u].pc = run[u].pc
             /\ run[u].pc \notin {"poll", "observe"} => run'[u] = run[u]
             /\ run[u].pc \in {"poll", "observe"} =>
                    /\ run'[u].moved = run[u].moved \cup {s} /\ run'[u].track = run[u].track
                    /\ run'[u].current = run[u].current
             /\ run'[u].index = run[u].index
  <2>1. run[u] \in Command
    BY RunTyped DEF IInv
  <2>2. CASE run[u].pc \in {"poll", "observe"}
    <3>1. run'[u] = [run[u] EXCEPT !.moved = run[u].moved \cup {s}]
      BY <1>2, <2>2
    <3> QED BY <2>1, <2>2, <3>1 DEF Command
  <2>3. CASE run[u].pc \notin {"poll", "observe"}
    <3>1. run'[u] = run[u]
      BY <1>2, <2>3
    <3> QED BY <2>1, <2>3, <3>1
  <2> QED BY <2>2, <2>3
<1>5. run' \in [Terminal -> Command]
  BY <1>2, <1>4
<1>6. UNCHANGED <<stub, pub, backup, trusted, link>>
  BY <1>1 DEF disk
<1>7. TypeInv'
  BY <1>1, <1>3, <1>5, <1>6 DEF IInv, TypeInv, KeysTypeOK
<1>8. LocalInv'
  <2> SUFFICES ASSUME NEW u \in Terminal PROVE Local(run[u])'
    BY DEF LocalInv
  <2>1. Local(run[u]) /\ run[u] \in Command
    BY RunTyped DEF IInv, LocalInv
  <2>2. CASE run[u].pc \notin {"poll", "observe"}
    BY <1>1, <1>4, <2>1, <2>2 DEF Local, Enrols, Tracks, Indexes, Refers, Signing
  <2>3. CASE run[u].pc \in {"poll", "observe"}
    <3>1. run[u].moved \in SUBSET Serial
      BY <2>1 DEF Command
    <3>2. Tracks(run[u])'
      BY <1>3, <1>4, <2>1, <2>3, <3>1 DEF Local, Tracks
    <3> QED BY <1>1, <1>4, <2>1, <2>3, <3>2 DEF Local, Enrols, Enrolling, Indexes, Refers, Signing
  <2> QED BY <2>2, <2>3
<1>9. FiledInv'
  <2>1. CASE mistouched \/ crowded
    BY <1>1, <2>1 DEF FiledInv
  <2>2. CASE ~mistouched /\ ~crowded
    BY <1>4, <1>6, <2>2 DEF IInv, FiledInv, At
  <2> QED BY <2>1, <2>2
<1>10. PairInv' /\ AppendInv'
  BY <1>1, <1>4, <1>6 DEF IInv, PairInv, AppendInv, At
<1>11. LinkInv'
  BY <1>1, <1>4, <1>6 DEF IInv, LinkInv, Linking, At
<1>12. KeptInv'
  <2>1. CASE mistouched \/ crowded \/ abandoned
    BY <1>1, <2>1 DEF KeptInv
  <2>2. CASE ~(mistouched \/ crowded \/ abandoned)
    BY <1>1, <1>4, <1>6, <2>2 DEF IInv, KeptInv, At
  <2> QED BY <2>1, <2>2
<1> QED BY <1>7, <1>8, <1>9, <1>10, <1>11, <1>12 DEF IInv

-----------------------------------------------------------------------------

LEMMA Starts == ASSUME Init PROVE IInv
<1>1. PICK here \in SUBSET Serial :
        /\ stub = [r \in Ref |-> IF r[1] \in here /\ r[2] = "ed25519" THEN First(r[1]) ELSE None]
        /\ pub = stub /\ filed = {First(s) : s \in here} /\ backup = {First(s) : s \in Serial \ here}
  BY DEF Init
<1>2. \A s \in Serial : First(s) \in Cred /\ First(s)[1] = s
  BY BoundAssumption DEF First, Cred, KeyType
<1>3. /\ stub \in [Ref -> Cred \cup {None}] /\ pub = stub
      /\ \A r \in Ref : stub[r] # None => stub[r] = First(r[1])
  BY <1>1, <1>2, RefIs
<1>4. filed \subseteq Cred /\ backup \subseteq Cred
  BY <1>1, <1>2
<1>5. /\ resident \in [Serial -> Cred] /\ \A s \in Serial : resident[s] = First(s)
      /\ trusted = {} /\ link = [stub |-> {}, pub |-> {}] /\ signature \in Signature
      /\ run = [t \in Terminal |-> Idle] /\ runs = 0 /\ erased = {} /\ KeysTypeOK
  BY <1>2 DEF Init, KeysTypeOK, Signature
<1>6. Idle \in Command /\ Idle.pc = "idle" /\ Local(Idle)
  <2>1. 0 \in 0..MaxRuns /\ [serials |-> {}, paths |-> {}, gone |-> {}] \in Tracker
    BY BoundAssumption DEF Tracker
  <2>2. Idle \in Command /\ Idle.pc = "idle" /\ Idle.index = {}
    BY <2>1 DEF Idle, Command, PCs, KeyType
  <2> QED BY <2>2 DEF Local, Enrols, Enrolling, Tracks, Indexes, Refers, Signing
<1>7. \A t \in Terminal : run[t] = Idle /\ run[t].pc = "idle"
  BY <1>5, <1>6
<1>8. TypeInv
  <2>1. run \in [Terminal -> Command] /\ runs \in 0..MaxRuns
    BY <1>5, <1>6, BoundAssumption
  <2> QED BY <1>2, <1>3, <1>4, <1>5, <2>1 DEF TypeInv, AtMostOne
<1>9. LocalInv
  BY <1>6, <1>7 DEF LocalInv
<1>10. FiledInv
  BY <1>2, <1>3, <1>7, RefIs DEF FiledInv, At
<1>11. PairInv /\ LinkInv /\ AppendInv
  BY <1>3, <1>5, <1>7 DEF PairInv, LinkInv, Linking, AppendInv, At
<1>12. KeptInv
  <2> SUFFICES ASSUME NEW s \in Serial, resident[s] \in filed PROVE \E r \in Ref : stub[r] = resident[s]
    BY DEF KeptInv
  <2>1. PICK k \in here : resident[s] = First(k)
    BY <1>1
  <2>2. k = s
    BY <1>2, <1>5, <2>1
  <2>3. <<s, "ed25519">> \in Ref
    BY RefIs DEF KeyType
  <2>4. stub[<<s, "ed25519">>] = First(s)
    BY <1>1, <2>2, <2>3
  <2> QED BY <1>5, <2>3, <2>4
<1> QED BY <1>8, <1>9, <1>10, <1>11, <1>12 DEF IInv

LEMMA Keeps == ASSUME IInv, [Next]_vars PROVE IInv'
<1>1. CASE UNCHANGED vars
  <2>1. TypeInv'
    BY <1>1 DEF vars, keyVars, disk, history, IInv, TypeInv, KeysTypeOK
  <2> QED BY <1>1, <2>1, Unmoved DEF vars, keyVars, disk, history
<1>2. ASSUME NEW s \in Serial, Move(s) PROVE IInv'
  BY <1>2, MoveKeeps
<1>3. ASSUME NEW t \in Terminal, NEW want \in Want,
             \/ \E type \in KeyType : StartNew(t, type, want)
             \/ \E self \in BOOLEAN : StartImport(t, self, want)
             \/ StartTrust(t, want) \/ StartLink(t, want) \/ GetKey(t, want) \/ SignFile(t, want)
      PROVE  IInv'
  BY <1>3, StartNewKeeps, StartImportKeeps, StartTrustKeeps, StartLinkKeeps, GetKeyKeeps, SignFileKeeps
<1>4. ASSUME NEW t \in Terminal,
             \/ Poll(t) \/ Watching(t) \/ Observe(t) \/ PickInstead(t)
             \/ CheckAllowed(t) \/ ConfirmReplaceStub(t) \/ Generate(t) \/ GenerateFails(t)
             \/ TrustNew(t) \/ Trust(t)
      PROVE  IInv'
  BY <1>4, PollKeeps, WatchingKeeps, ObserveKeeps, PickKeeps, CheckKeeps, ConfirmKeeps, GenerateKeeps,
     GenerateFailsKeeps, TrustNewKeeps, TrustKeeps
<1>5. ASSUME NEW t \in Terminal,
             \/ ResidentPubKeys(t) \/ CopyPub(t) \/ EndImport(t) \/ RemoveImportedSources(t)
             \/ \E x \in run[t].sources : SkipSource(t, x) \/ CopyStub(t, x)
             \/ LinkStub(t) \/ LinkPub(t) \/ Sign(t) \/ OpenStub(t) \/ Signs(t) \/ Stop(t)
             \/ \E d \in Ref : SignWith(t, d)
      PROVE  IInv'
  BY <1>5, ResidentKeeps, CopyPubKeeps, EndImportKeeps, RemoveKeeps, SkipKeeps, CopyStubKeeps,
     LinkStubKeeps, LinkPubKeeps, SignKeeps, SignWithKeeps, OpenStubKeeps, SignsKeeps, StopKeeps
<1>6. ASSUME NEW t \in Terminal,
             \/ StartAllow(t) \/ StartDisallow(t)
             \/ \E picked \in SUBSET Serial \ {{}} : Allow(t, picked) \/ Disallow(t, picked)
      PROVE  IInv'
  BY <1>6, PickerKeeps, PickedKeeps DEF StartAllow, StartDisallow
<1> QED BY <1>1, <1>2, <1>3, <1>4, <1>5, <1>6 DEF Next

\* What a step of any command, or a moved key, may rely on is there before every step.
THEOREM Inductive == Spec => []IInv
<1>1. Init => IInv
  BY Starts
<1>2. IInv /\ [Next]_vars => IInv'
  BY Keeps
<1> QED BY <1>1, <1>2, PTL DEF Spec

-----------------------------------------------------------------------------
\* Every variable keeps its type, and the link has at most one target on each side.
THEOREM TypeCorrect == Spec => []TypeOK
<1>1. ASSUME IInv PROVE TypeOK
  <2>1. \A s \in Serial : resident[s] \in Cred /\ resident[s][1] = s
    BY <1>1 DEF IInv, TypeInv
  <2>2. Cardinality(link.stub) <= 1 /\ Cardinality(link.pub) <= 1
    BY <1>1, One DEF IInv, TypeInv
  <2>3. \A t \in Terminal :
          /\ run[t].track \in Tracker /\ run[t].device \subseteq HIDPath
          /\ run[t].serials \subseteq Serial /\ run[t].index \subseteq Cred \X Serial
          /\ run[t].sources \subseteq Source /\ run[t].done \subseteq Source \X Ref
          /\ run[t].ref \subseteq Ref /\ run[t].seen \cup run[t].add \subseteq Cred
    <3> SUFFICES ASSUME NEW t \in Terminal
                 PROVE  /\ run[t].track \in Tracker /\ run[t].device \subseteq HIDPath
                        /\ run[t].serials \subseteq Serial /\ run[t].index \subseteq Cred \X Serial
                        /\ run[t].sources \subseteq Source /\ run[t].done \subseteq Source \X Ref
                        /\ run[t].ref \subseteq Ref /\ run[t].seen \cup run[t].add \subseteq Cred
      OBVIOUS
    <3>1. run[t] \in Command
      BY <1>1, RunTyped DEF IInv
    <3> QED BY <3>1 DEF Command
  <2> QED BY <1>1, <2>1, <2>2, <2>3 DEF TypeOK, IInv, TypeInv
<1> QED BY <1>1, Inductive, PTL

\* What goes together stays together: stub, key and directory (copyFilePair,
\* enrollment), the two files of a ref, the two links of the identity.
THEOREM Together == Spec => []FilesRight
<1>1. ASSUME IInv PROVE FilesRight
  <2>1. FiledRight
    BY <1>1 DEF IInv, FiledInv, FiledRight
  <2>2. PairsWhole
    BY <1>1 DEF IInv, PairInv, PairsWhole
  <2>3. LinkPair
    BY <1>1 DEF IInv, LinkInv, LinkPair
  <2> QED BY <2>1, <2>2, <2>3 DEF FilesRight
<1> QED BY <1>1, Inductive, PTL

\* Whatever is enrolled, imported, removed or replugged, the credential a key holds
\* is not left without its stub, but in the three ways StubKept names.
THEOREM Referenced == Spec => []StubKept
<1>1. ASSUME IInv PROVE StubKept
  BY <1>1 DEF IInv, KeptInv, StubKept
<1> QED BY <1>1, Inductive, PTL

\* The signers file loses nothing to a run that read it alone.
THEOREM TrustStays == Spec => TrustKept
<1>1. ASSUME IInv, [Next]_vars, ~raced PROVE trusted \subseteq trusted'
  <2>1. ASSUME NEW t \in Terminal, Trust(t) PROVE trusted \subseteq trusted'
    <3>1. run[t].seen = trusted
      BY <1>1, <2>1 DEF IInv, AppendInv, Trust
    <3> QED BY <2>1, <3>1 DEF Trust, Content
  <2>2. CASE \E t \in Terminal, want \in Want :
            \/ \E type \in KeyType : StartNew(t, type, want)
            \/ \E self \in BOOLEAN : StartImport(t, self, want)
            \/ StartTrust(t, want) \/ StartLink(t, want) \/ GetKey(t, want) \/ SignFile(t, want)
    BY <2>2 DEF StartNew, StartImport, StartTrust, StartLink, GetKey, SignFile, Begin, disk
  <2>3. CASE \E t \in Terminal :
            \/ Poll(t) \/ Watching(t) \/ Observe(t) \/ PickInstead(t)
            \/ CheckAllowed(t) \/ ConfirmReplaceStub(t) \/ Generate(t) \/ GenerateFails(t) \/ TrustNew(t)
    BY <2>3 DEF Poll, Watching, Observe, PickInstead, CheckAllowed, ConfirmReplaceStub, Generate,
                GenerateFails, TrustNew, Quiet, disk
  <2>4. CASE \E t \in Terminal :
            \/ ResidentPubKeys(t) \/ CopyPub(t) \/ EndImport(t) \/ RemoveImportedSources(t)
            \/ \E x \in run[t].sources : SkipSource(t, x) \/ CopyStub(t, x)
    BY <2>4 DEF ResidentPubKeys, CopyPub, EndImport, RemoveImportedSources, SkipSource, CopyStub, Quiet, disk
  <2>5. CASE \E t \in Terminal :
            \/ LinkStub(t) \/ LinkPub(t) \/ Sign(t) \/ OpenStub(t) \/ Signs(t)
            \/ StartAllow(t) \/ StartDisallow(t) \/ Stop(t)
            \/ \E r \in Ref : SignWith(t, r)
            \/ \E picked \in SUBSET Serial \ {{}} : Allow(t, picked) \/ Disallow(t, picked)
    BY <2>5 DEF LinkStub, LinkPub, Sign, OpenStub, Signs, SignWith, StartAllow, StartDisallow, Begin, Stop, Quiet, Allow, Disallow, Save, disk
  <2>6. CASE (\E s \in Serial : Move(s)) \/ UNCHANGED vars
    BY <2>6 DEF Move, vars, disk
  <2> QED BY <1>1, <2>1, <2>2, <2>3, <2>4, <2>5, <2>6 DEF Next
<1>2. IInv /\ [Next]_vars => [raced \/ trusted \subseteq trusted']_vars
  BY <1>1
<1> QED BY <1>2, Inductive, PTL DEF Spec, TrustKept

\* What ssh-keygen opened was chosen for the key that was asked for, on hardware the
\* allowlist named.
LEMMA SignsAsChosen ==
    ASSUME IInv, NEW t \in Terminal, Signs(t)
    PROVE  SignedAsAsked /\ SignsAllowed
<1>1. PICK s \in plugged :
        /\ resident[s] \in run[t].seen
        /\ signature' = [asked |-> run[t].cred, by |-> resident[s], listed |-> run[t].serials,
                         checked |-> run[t].checked, stale |-> run[t].stale]
  BY DEF Signs
<1>2. PICK q \in Ref :
        /\ run[t].checked => run[t].serials = {} \/ q[1] \in run[t].serials
        /\ torn \/ run[t].stale \/ run[t].cred = None \/ run[t].seen \subseteq {run[t].cred}
        /\ mistouched \/ crowded \/ \A c \in run[t].seen : c[1] = q[1]
  BY DEF Signs, At, IInv, LocalInv, Local, Signing
<1>3. SignedAsAsked
  BY <1>1, <1>2 DEF SignedAsAsked
<1>4. SignsAllowed
  BY <1>1, <1>2 DEF SignsAllowed
<1> QED BY <1>3, <1>4

\* What git asks to be signed with a public key is signed with its credential, and on
\* hardware the allowlist named when sign looked, whatever is enrolled, imported,
\* replugged or disallowed between get, sign and the touch: but for a stub named with
\* -f, and one that was written before ssh-keygen opened it.
THEOREM SignsRight == Spec => SignedRight
<1>1. ASSUME IInv, [Next]_vars PROVE SignedAsAsked /\ SignsAllowed
  <2>1. CASE UNCHANGED signature
    BY <2>1 DEF SignedAsAsked, SignsAllowed
  <2>2. ASSUME NEW t \in Terminal, Signs(t) PROVE SignedAsAsked /\ SignsAllowed
    BY <1>1, <2>2, SignsAsChosen
  <2>3. CASE \E t \in Terminal :
            \/ Sign(t) \/ OpenStub(t)
            \/ \E want \in Want : SignFile(t, want)
            \/ \E r \in Ref : SignWith(t, r)
    <3>1. UNCHANGED signature
      BY <2>3 DEF Sign, OpenStub, SignFile, SignWith, Begin, Quiet
    <3> QED BY <2>1, <3>1
  <2>4. CASE \E t \in Terminal, want \in Want :
            \/ \E type \in KeyType : StartNew(t, type, want)
            \/ \E self \in BOOLEAN : StartImport(t, self, want)
            \/ StartTrust(t, want) \/ StartLink(t, want) \/ GetKey(t, want)
    <3>1. UNCHANGED signature
      BY <2>4 DEF StartNew, StartImport, StartTrust, StartLink, GetKey, Begin
    <3> QED BY <2>1, <3>1
  <2>5. CASE \E t \in Terminal :
            \/ Poll(t) \/ Watching(t) \/ Observe(t) \/ PickInstead(t)
            \/ CheckAllowed(t) \/ ConfirmReplaceStub(t) \/ Generate(t) \/ GenerateFails(t)
            \/ TrustNew(t) \/ Trust(t)
    <3>1. UNCHANGED signature
      BY <2>5 DEF Poll, Watching, Observe, PickInstead, CheckAllowed, ConfirmReplaceStub, Generate,
                  GenerateFails, TrustNew, Trust, Quiet
    <3> QED BY <2>1, <3>1
  <2>6. CASE \E t \in Terminal :
            \/ ResidentPubKeys(t) \/ CopyPub(t) \/ EndImport(t) \/ RemoveImportedSources(t)
            \/ \E x \in run[t].sources : SkipSource(t, x) \/ CopyStub(t, x)
    <3>1. UNCHANGED signature
      BY <2>6 DEF ResidentPubKeys, CopyPub, EndImport, RemoveImportedSources, SkipSource, CopyStub, Quiet
    <3> QED BY <2>1, <3>1
  <2>7. CASE \E t \in Terminal :
            \/ LinkStub(t) \/ LinkPub(t) \/ StartAllow(t) \/ StartDisallow(t) \/ Stop(t)
            \/ \E picked \in SUBSET Serial \ {{}} : Allow(t, picked) \/ Disallow(t, picked)
    <3>1. UNCHANGED signature
      BY <2>7 DEF LinkStub, LinkPub, StartAllow, StartDisallow, Begin, Stop, Quiet, Allow, Disallow, Save
    <3> QED BY <2>1, <3>1
  <2>8. CASE (\E s \in Serial : Move(s)) \/ UNCHANGED vars
    <3>1. UNCHANGED signature
      BY <2>8 DEF Move, vars
    <3> QED BY <2>1, <3>1
  <2> QED BY <1>1, <2>2, <2>3, <2>4, <2>5, <2>6, <2>7, <2>8 DEF Next
<1>2. IInv /\ [Next]_vars => [SignedAsAsked /\ SignsAllowed]_vars
  BY <1>1
<1> QED BY <1>2, Inductive, PTL DEF Spec, SignedRight
=============================================================================
