------------------------- MODULE PrivateTreeProofs -------------------------
(* Proofs about PrivateTree, for any set of files, contents, encryptions and  *)
(* terminals.                                                                 *)
EXTENDS PrivateTree, TLAPS

-----------------------------------------------------------------------------
\* Partial functions. Partial itself is expanded here only.

LEMMA PartialValue ==
    ASSUME NEW S, NEW T, NEW g \in Partial(S, T)
    PROVE  DOMAIN g \subseteq S /\ \A x \in DOMAIN g : g[x] \in T
BY DEF Partial

LEMMA NothingPartial == ASSUME NEW S, NEW T PROVE Nothing \in Partial(S, T)
<1>1. Nothing \in [{} -> T]
  BY DEF Nothing
<1>2. {} \in SUBSET S
  OBVIOUS
<1> QED
  BY <1>1, <1>2 DEF Partial

LEMMA PutPartial ==
    ASSUME NEW S, NEW T, NEW g \in Partial(S, T), NEW x \in S, NEW v \in T
    PROVE  /\ Put(g, x, v) \in Partial(S, T)
           /\ DOMAIN Put(g, x, v) = DOMAIN g \cup {x}
           /\ Put(g, x, v)[x] = v
           /\ \A y \in DOMAIN g : y # x => Put(g, x, v)[y] = g[y]
<1>1. DOMAIN g \cup {x} \in SUBSET S
  BY PartialValue
<1>2. Put(g, x, v) \in [DOMAIN g \cup {x} -> T]
  BY PartialValue DEF Put
<1>3. Put(g, x, v) \in Partial(S, T)
  BY <1>1, <1>2 DEF Partial
<1> QED
  BY <1>3 DEF Put

LEMMA DropPartial ==
    ASSUME NEW S, NEW T, NEW g \in Partial(S, T), NEW x
    PROVE  /\ Drop(g, x) \in Partial(S, T)
           /\ DOMAIN Drop(g, x) = DOMAIN g \ {x}
           /\ \A y \in DOMAIN g : y # x => Drop(g, x)[y] = g[y]
<1>1. DOMAIN g \ {x} \in SUBSET S
  BY PartialValue
<1>2. Drop(g, x) \in [DOMAIN g \ {x} -> T]
  BY PartialValue DEF Drop
<1>3. Drop(g, x) \in Partial(S, T)
  BY <1>1, <1>2 DEF Partial
<1> QED
  BY <1>3 DEF Drop

\* A record added to a manifest.
LEMMA RecordPartial ==
    ASSUME NEW man \in Partial(File, Entry), NEW f \in File, NEW rev \in Rev, NEW c \in Content
    PROVE  Put(man, f, [cipher |-> rev, plain |-> c]) \in Partial(File, Entry)
<1>1. [cipher |-> rev, plain |-> c] \in Entry
  BY DEF Entry
<1>2. \A v \in Entry : Put(man, f, v) \in Partial(File, Entry)
  BY PutPartial
<1> QED
  BY <1>1, <1>2

LEMMA ExceptPartial ==
    ASSUME NEW S, NEW T, NEW g \in Partial(S, T), NEW x \in DOMAIN g, NEW v \in T
    PROVE  [g EXCEPT ![x] = v] \in Partial(S, T)
<1>1. PICK D \in SUBSET S : g \in [D -> T]
  BY DEF Partial
<1>2. [g EXCEPT ![x] = v] \in [D -> T]
  BY <1>1
<1> QED
  BY <1>2 DEF Partial

LEMMA ExceptValue ==
    ASSUME NEW S, NEW T, NEW g \in Partial(S, T), NEW x \in DOMAIN g, NEW v
    PROVE  /\ DOMAIN [g EXCEPT ![x] = v] = DOMAIN g
           /\ \A y \in DOMAIN g : [g EXCEPT ![x] = v][y] = IF y = x THEN v ELSE g[y]
<1>1. PICK D \in SUBSET S : g \in [D -> T]
  BY DEF Partial
<1> QED
  BY <1>1

LEMMA TotalPartial ==
    ASSUME NEW S, NEW T, NEW D \in SUBSET S, NEW g \in [D -> T]
    PROVE  g \in Partial(S, T)
BY DEF Partial

-----------------------------------------------------------------------------
\* Type correctness.

LEMMA IdleTyped == Idle \in Run
BY NothingPartial DEF Idle, Run

LEMMA StepTyped ==
    ASSUME run \in [Proc -> Run], NEW p \in Proc, NEW r \in Run, Step(p, r)
    PROVE  /\ run' \in [Proc -> Run]
           /\ run'[p] = r
           /\ \A q \in Proc \ {p} : run'[q] = run[q]
BY DEF Step

LEMMA ClassifyTyped == ASSUME NEW e PROVE Classify(e) \in FileState
BY DEF Classify, FileState

LEMMA EncryptTyped ==
    ASSUME NEW e \in Carried, NEW c \in Content, Unused(e, c) # {}
    PROVE  /\ Encrypt(e, c) \in Rev
           /\ Encrypt(e, c).content = c
<1>1. (CHOOSE n \in Unused(e, c) : TRUE) \in Nonce
  BY DEF Unused
<1> QED
  BY <1>1 DEF Encrypt, Rev

LEMMA InitTyped == Init => TypeOK
<1> SUFFICES ASSUME Init PROVE TypeOK
  OBVIOUS
<1>1. repo \in Partial(Carried, Rev)
  <2>1. PICK c \in [File -> Content] :
          repo = [e \in {Own(f) : f \in File} |->
                    [content |-> c[e.rel], nonce |-> IF e.encrypted THEN CHOOSE n \in Nonce : TRUE ELSE 0]]
    BY DEF Init
  <2>2. {Own(f) : f \in File} \in SUBSET Carried
    <3>1. ASSUME NEW f \in File PROVE Own(f) \in Carried
      <4>1. (f \in Sealed) \in BOOLEAN
        OBVIOUS
      <4> QED
        BY <4>1, Zenon DEF Own, Carried
    <3> QED
      BY <3>1
  <2>3. (CHOOSE n \in Nonce : TRUE) \in Nonce
    BY NonceAssumption
  <2>4. \A e \in {Own(f) : f \in File} : e.rel \in File
    BY DEF Own
  <2>5. repo \in [{Own(f) : f \in File} -> Rev]
    BY <2>1, <2>3, <2>4 DEF Rev
  <2> QED
    BY <2>2, <2>5, TotalPartial
<1>2. run \in [Proc -> Run]
  BY IdleTyped DEF Init
<1> QED
  BY <1>1, <1>2, NothingPartial DEF Init, TypeOK

LEMMA UserTyped == TypeOK /\ User => TypeOK'
<1> SUFFICES ASSUME TypeOK, User PROVE TypeOK'
  OBVIOUS
<1>1. ASSUME NEW f \in File, NEW c \in Content, UserEdits(f, c) PROVE TypeOK'
  <2>1. plain' \in Partial(File, Content)
    BY <1>1, ExceptPartial DEF UserEdits, TypeOK
  <2>2. unsaved' \in [File -> SUBSET Content]
    BY <1>1 DEF UserEdits, TypeOK
  <2> QED
    BY <1>1, <2>1, <2>2 DEF UserEdits, TypeOK
<1>2. ASSUME NEW f \in File, UserRemoves(f) PROVE TypeOK'
  BY <1>2, DropPartial DEF UserRemoves, TypeOK
<1>3. ASSUME NEW e \in Carried, RepoChanges(e) PROVE TypeOK'
  <2>1. CASE \E c \in Content : Unused(e, c) # {} /\ repo' = Put(repo, e, Encrypt(e, c))
    <3>1. PICK c \in Content : Unused(e, c) # {} /\ repo' = Put(repo, e, Encrypt(e, c))
      BY <2>1
    <3>2. repo' \in Partial(Carried, Rev)
      BY <3>1, EncryptTyped, PutPartial DEF TypeOK
    <3> QED
      BY <1>3, <3>2 DEF RepoChanges, TypeOK, history
  <2>2. CASE \E c \in Content : repo' = Put(repo, e, [content |-> c, nonce |-> 0])
    <3>1. \A c \in Content : [content |-> c, nonce |-> 0] \in Rev
      BY DEF Rev
    <3>2. PICK c \in Content : repo' = Put(repo, e, [content |-> c, nonce |-> 0])
      BY <2>2
    <3>3. repo' \in Partial(Carried, Rev)
      BY <3>1, <3>2, PutPartial DEF TypeOK
    <3> QED
      BY <1>3, <3>3 DEF RepoChanges, TypeOK, history
  <2>3. CASE e.rel \in DOMAIN manifest /\ repo' = Put(repo, e, manifest[e.rel].cipher)
    <3>1. manifest[e.rel].cipher \in Rev
      <4>1. manifest[e.rel] \in Entry
        BY <2>3, PartialValue DEF TypeOK
      <4> QED
        BY <4>1 DEF Entry
    <3> QED
      BY <1>3, <2>3, <3>1, PutPartial DEF RepoChanges, TypeOK, history
  <2> QED
    BY <1>3, <2>1, <2>2, <2>3 DEF RepoChanges
<1>4. ASSUME NEW e \in Carried, RepoRemoves(e) PROVE TypeOK'
  BY <1>4, DropPartial DEF RepoRemoves, TypeOK, history
<1>5. \A f \in File : Own(f) \in Carried
  <2>1. \A f \in File : (f \in Sealed) \in BOOLEAN
    OBVIOUS
  <2> QED
    BY <2>1, Zenon DEF Own, Carried
<1>6. DOMAIN repo \subseteq Carried
  BY PartialValue DEF TypeOK
<1> QED
  BY <1>1, <1>2, <1>3, <1>4, <1>5, <1>6 DEF User

\* What a command has in memory, when nothing else changes.
LEMMA MemoryTyped ==
    ASSUME TypeOK, NEW p \in Proc, NEW r \in Run, Step(p, r),
           UNCHANGED <<repo, plain, manifest, history>>
    PROVE  TypeOK'
BY StepTyped DEF TypeOK, history

LEMMA LinkTyped ==
    ASSUME TypeOK, NEW p \in Proc,
           \/ StartLink(p) \/ LinkLand(p) \/ LinkSave(p)
           \/ \E e \in Carried : \/ LinkUpToDate(p, e) \/ LinkConflict(p, e)
                                \/ LinkUndecryptable(p, e) \/ LinkDecrypt(p, e)
           \/ \E f \in File : LinkPrune(p, f)
    PROVE  TypeOK'
<1> USE DEF TypeOK
<1>0. /\ run[p] \in Run
      /\ DOMAIN repo \subseteq Carried
      /\ \A e \in DOMAIN repo : repo[e] \in Rev
  BY PartialValue
<1>1. CASE StartLink(p)
  <2>1. {e.rel : e \in DOMAIN repo} \subseteq File
    BY <1>0 DEF Carried
  <2>2. [Begin(p, "link", "next") EXCEPT !.man = manifest, !.todo = DOMAIN repo,
            !.seen = {e.rel : e \in DOMAIN repo}] \in Run
    BY <1>0, <2>1, IdleTyped DEF Begin, Run
  <2> QED
    BY <1>1, <2>2, MemoryTyped DEF StartLink
<1>2. CASE LinkLand(p)
  <2>1. PICK e \in run[p].at, rev \in run[p].read :
          /\ plain' = Put(plain, e.rel, rev.content)
          /\ landed' = Put(landed, e.rel, rev.content)
          /\ Step(p, [run[p] EXCEPT !.pc = "next", !.todo = @ \ {e}, !.at = {}, !.read = {},
                          !.man = Put(@, e.rel, [cipher |-> rev, plain |-> rev.content])])
    BY <1>2 DEF LinkLand
  <2>2. e \in Carried /\ e.rel \in File /\ rev \in Rev /\ rev.content \in Content
    BY <1>0 DEF Run, Carried, Rev
  <2>4. Put(run[p].man, e.rel, [cipher |-> rev, plain |-> rev.content]) \in Partial(File, Entry)
    <3>1. run[p].man \in Partial(File, Entry)
      BY <1>0 DEF Run
    <3> QED
      BY <2>2, <3>1, RecordPartial
  <2>5. [run[p] EXCEPT !.pc = "next", !.todo = @ \ {e}, !.at = {}, !.read = {},
            !.man = Put(@, e.rel, [cipher |-> rev, plain |-> rev.content])] \in Run
    BY <1>0, <2>4 DEF Run
  <2>6. run' \in [Proc -> Run]
    BY <2>1, <2>5, StepTyped
  <2> QED
    BY <1>2, <2>1, <2>2, <2>6, PutPartial DEF LinkLand
<1>3. CASE LinkSave(p)
  BY <1>0, <1>3, IdleTyped, StepTyped DEF LinkSave, Run, history
<1>4. ASSUME NEW e \in Carried, LinkUpToDate(p, e) PROVE TypeOK'
  <2>1. [run[p] EXCEPT !.todo = @ \ {e}] \in Run
    BY <1>0 DEF Run
  <2> QED
    BY <1>4, <2>1, MemoryTyped DEF LinkUpToDate
<1>5. ASSUME NEW e \in Carried, Skip(p, e) PROVE TypeOK'
  <2>1. [run[p] EXCEPT !.todo = @ \ {e}, !.skipped = @ \cup {e}] \in Run
    BY <1>0 DEF Run
  <2> QED
    BY <1>5, <2>1, IdleTyped, MemoryTyped DEF Skip
<1>6. ASSUME NEW e \in Carried, LinkDecrypt(p, e) PROVE TypeOK'
  <2>1. [run[p] EXCEPT !.pc = "land", !.at = {e}, !.read = {repo[e]}] \in Run
    BY <1>0, <1>6 DEF LinkDecrypt, Visiting, Run
  <2> QED
    BY <1>6, <2>1, MemoryTyped DEF LinkDecrypt
<1>7. ASSUME NEW f \in File, LinkPrune(p, f) PROVE TypeOK'
  <2>1. [run[p] EXCEPT !.man = Drop(@, f)] \in Run
    BY <1>0, DropPartial DEF Run
  <2>2. run' \in [Proc -> Run]
    BY <1>7, <2>1, StepTyped DEF LinkPrune
  <2> QED
    BY <1>7, <2>2, DropPartial DEF LinkPrune
<1> QED
  BY <1>1, <1>2, <1>3, <1>4, <1>5, <1>6, <1>7 DEF LinkConflict, LinkUndecryptable

LEMMA EncryptEditTyped ==
    ASSUME TypeOK, NEW p \in Proc,
           \/ \E f \in File, c \in Content : StartEncrypt(p, f, c)
           \/ \E e \in Carried : StartEdit(p, e)
           \/ EditUnchanged(p)
           \/ \E c \in Content : EditSave(p, c)
           \/ Stop(p)
    PROVE  TypeOK'
<1>0. run[p] \in Run /\ \A e \in DOMAIN repo : repo[e] \in Rev
  BY PartialValue DEF TypeOK
<1>1. ASSUME NEW f \in File, NEW c \in Content, StartEncrypt(p, f, c) PROVE TypeOK'
  <2>1. [rel |-> f, encrypted |-> TRUE] \in Carried
    BY DEF Carried
  <2>2. [Begin(p, "encrypt", "store") EXCEPT
            !.at = {[rel |-> f, encrypted |-> TRUE]}, !.text = {c}] \in Run
    BY <2>1, IdleTyped DEF Begin, Run
  <2> QED
    BY <1>1, <2>2, MemoryTyped DEF StartEncrypt
<1>2. ASSUME NEW e \in Carried, StartEdit(p, e) PROVE TypeOK'
  <2>1. [Begin(p, "edit", "editor") EXCEPT !.at = {e}, !.read = {repo[e]}] \in Run
    BY <1>0, <1>2, IdleTyped DEF StartEdit, Begin, Run
  <2> QED
    BY <1>2, <2>1, MemoryTyped DEF StartEdit
<1>3. CASE EditUnchanged(p) \/ Stop(p)
  BY <1>3, IdleTyped, MemoryTyped DEF EditUnchanged, Stop
<1>4. ASSUME NEW c \in Content, EditSave(p, c) PROVE TypeOK'
  <2>1. [run[p] EXCEPT !.pc = "store", !.read = {}, !.text = {c}] \in Run
    BY <1>0 DEF Run
  <2> QED
    BY <1>4, <2>1, MemoryTyped DEF EditSave
<1> QED
  BY <1>1, <1>2, <1>3, <1>4

LEMMA StoreTyped ==
    ASSUME TypeOK, NEW p \in Proc, StoreRepo(p) \/ StorePlain(p) \/ StoreRecord(p) \/ StoreSave(p)
    PROVE  TypeOK'
<1>0. /\ run[p] \in Run
      /\ run[p].at \subseteq Carried /\ run[p].read \subseteq Rev /\ run[p].text \subseteq Content
      /\ run[p].man \in Partial(File, Entry)
      /\ \A e \in Carried : e.rel \in File
  BY DEF TypeOK, Run, Carried
<1>1. CASE StoreRepo(p)
  <2>1. PICK e \in run[p].at, c \in run[p].text :
          /\ Unused(e, c) # {}
          /\ repo' = Put(repo, e, Encrypt(e, c))
          /\ unsaved' = [unsaved EXCEPT ![e.rel] = @ \ {c}]
          /\ Step(p, [run[p] EXCEPT !.pc = "plain", !.read = {Encrypt(e, c)}])
    BY <1>1 DEF StoreRepo
  <2>2. Encrypt(e, c) \in Rev
    BY <1>0, <2>1, EncryptTyped
  <2>3. repo' \in Partial(Carried, Rev)
    BY <1>0, <2>1, <2>2, PutPartial DEF TypeOK
  <2>4. [run[p] EXCEPT !.pc = "plain", !.read = {Encrypt(e, c)}] \in Run
    BY <1>0, <2>2 DEF Run
  <2>5. run' \in [Proc -> Run]
    BY <2>1, <2>4, StepTyped DEF TypeOK
  <2>6. unsaved' \in [File -> SUBSET Content]
    BY <1>0, <2>1 DEF TypeOK
  <2> QED
    BY <1>1, <2>3, <2>5, <2>6 DEF StoreRepo, TypeOK
<1>2. CASE StorePlain(p)
  <2>1. PICK e \in run[p].at, c \in run[p].text :
          /\ plain' = Put(plain, e.rel, c)
          /\ landed' = Put(landed, e.rel, c)
          /\ unsaved' = [unsaved EXCEPT ![e.rel] = {}]
    BY <1>2 DEF StorePlain
  <2>2. [run[p] EXCEPT !.pc = "record"] \in Run
    BY <1>0 DEF Run
  <2>3. run' \in [Proc -> Run]
    BY <1>2, <2>2, StepTyped DEF StorePlain, Goto, TypeOK
  <2>4. plain' \in Partial(File, Content) /\ landed' \in Partial(File, Content)
    BY <1>0, <2>1, PutPartial DEF TypeOK
  <2>5. unsaved' \in [File -> SUBSET Content]
    BY <1>0, <2>1 DEF TypeOK
  <2> QED
    BY <1>2, <2>3, <2>4, <2>5 DEF StorePlain, TypeOK
<1>3. CASE StoreRecord(p)
  <2>1. PICK e \in run[p].at, rev \in run[p].read, c \in run[p].text :
          Step(p, [run[p] EXCEPT !.pc = "save",
                      !.man = Put(manifest, e.rel, [cipher |-> rev, plain |-> c])])
    BY <1>3 DEF StoreRecord
  <2>2. Put(manifest, e.rel, [cipher |-> rev, plain |-> c]) \in Partial(File, Entry)
    BY <1>0, RecordPartial DEF TypeOK
  <2>3. [run[p] EXCEPT !.pc = "save",
            !.man = Put(manifest, e.rel, [cipher |-> rev, plain |-> c])] \in Run
    BY <1>0, <2>2 DEF Run
  <2> QED
    BY <1>3, <2>1, <2>3, MemoryTyped DEF StoreRecord
<1>4. CASE StoreSave(p)
  BY <1>0, <1>4, IdleTyped, StepTyped DEF StoreSave, TypeOK, history
<1> QED
  BY <1>1, <1>2, <1>3, <1>4

LEMMA RefreshedTyped ==
    ASSUME NEW man \in Partial(File, Entry), NEW f, NEW old, NEW new \in Rev
    PROVE  Refreshed(man, f, old, new) \in Partial(File, Entry)
<1>1. CASE f \in DOMAIN man /\ man[f].plain = old.content
  <2>1. man[f] \in Entry
    BY <1>1, PartialValue
  <2>2. [man[f] EXCEPT !.cipher = new] \in Entry
    BY <2>1 DEF Entry
  <2>3. [man EXCEPT ![f] = [man[f] EXCEPT !.cipher = new]] \in Partial(File, Entry)
    BY <1>1, <2>2, ExceptPartial
  <2>4. Refreshed(man, f, old, new) = [man EXCEPT ![f] = [man[f] EXCEPT !.cipher = new]]
    BY <1>1 DEF Refreshed
  <2> QED
    BY <2>3, <2>4
<1>2. CASE ~(f \in DOMAIN man /\ man[f].plain = old.content)
  BY <1>2 DEF Refreshed
<1> QED
  BY <1>1, <1>2

LEMMA RekeyTyped ==
    ASSUME TypeOK, NEW p \in Proc,
           \/ StartRekey(p) \/ RekeyWrite(p) \/ RekeySave(p)
           \/ \E e \in Carried : RekeyRead(p, e)
    PROVE  TypeOK'
<1>0. /\ run[p] \in Run
      /\ run[p].at \subseteq Carried /\ run[p].read \subseteq Rev
      /\ run[p].man \in Partial(File, Entry)
      /\ DOMAIN repo \subseteq Carried
      /\ \A e \in DOMAIN repo : repo[e] \in Rev
  BY PartialValue DEF TypeOK, Run
<1>1. CASE StartRekey(p)
  <2> DEFINE was == [e \in DOMAIN repo |-> Classify(e)]
             r == [Begin(p, "rekey", "next") EXCEPT !.man = manifest,
                      !.todo = {e \in DOMAIN repo : e.encrypted}, !.was = was]
  <2>1. was \in [DOMAIN repo -> FileState]
    BY ClassifyTyped
  <2>2. was \in Partial(Carried, FileState)
    BY <1>0, <2>1, TotalPartial
  <2>3. \A w \in Partial(Carried, FileState) :
          [Begin(p, "rekey", "next") EXCEPT !.man = manifest,
              !.todo = {e \in DOMAIN repo : e.encrypted}, !.was = w] \in Run
    BY <1>0, IdleTyped DEF Begin, Run, TypeOK
  <2>4. r \in Run
    BY <2>2, <2>3
  <2>5. Step(p, r) /\ UNCHANGED <<repo, plain, manifest, history>>
    BY <1>1 DEF StartRekey
  <2> QED
    BY <2>4, <2>5, MemoryTyped
<1>2. ASSUME NEW e \in Carried, RekeyRead(p, e) PROVE TypeOK'
  <2>1. [run[p] EXCEPT !.pc = "rewrite", !.at = {e}, !.read = {repo[e]}] \in Run
    BY <1>0, <1>2 DEF RekeyRead, Visiting, Run
  <2> QED
    BY <1>2, <2>1, MemoryTyped DEF RekeyRead
<1>3. CASE RekeyWrite(p)
  <2>1. PICK e \in run[p].at, old \in run[p].read :
          /\ Unused(e, old.content) # {}
          /\ repo' = Put(repo, e, Encrypt(e, old.content))
          /\ Step(p, [run[p] EXCEPT !.pc = "next", !.todo = @ \ {e}, !.at = {}, !.read = {},
                          !.man = Refreshed(@, e.rel, old, Encrypt(e, old.content))])
    BY <1>3 DEF RekeyWrite
  <2>2. Encrypt(e, old.content) \in Rev
    BY <1>0, <2>1, EncryptTyped DEF Rev
  <2>3. Refreshed(run[p].man, e.rel, old, Encrypt(e, old.content)) \in Partial(File, Entry)
    BY <1>0, <2>2, RefreshedTyped
  <2>4. [run[p] EXCEPT !.pc = "next", !.todo = @ \ {e}, !.at = {}, !.read = {},
            !.man = Refreshed(@, e.rel, old, Encrypt(e, old.content))] \in Run
    BY <1>0, <2>3 DEF Run
  <2>5. run' \in [Proc -> Run]
    BY <2>1, <2>4, StepTyped DEF TypeOK
  <2>6. repo' \in Partial(Carried, Rev)
    BY <1>0, <2>1, <2>2, PutPartial DEF TypeOK
  <2> QED
    BY <1>3, <2>5, <2>6 DEF RekeyWrite, TypeOK, history
<1>4. CASE RekeySave(p)
  BY <1>0, <1>4, IdleTyped, StepTyped DEF RekeySave, TypeOK, history
<1> QED
  BY <1>1, <1>2, <1>3, <1>4

LEMMA NextTyped == TypeOK /\ [Next]_vars => TypeOK'
<1> SUFFICES ASSUME TypeOK, [Next]_vars PROVE TypeOK'
  OBVIOUS
<1>1. ASSUME NEW p \in Proc, Command(p) PROVE TypeOK'
  BY <1>1, LinkTyped, EncryptEditTyped, StoreTyped, RekeyTyped DEF Command
<1>2. CASE UNCHANGED vars
  BY <1>2 DEF vars, TypeOK
<1> QED
  BY <1>1, <1>2, UserTyped DEF Next

\* Repository, copies, manifest and every command's memory keep their types: in
\* particular every record that is ever saved names a revision and a plaintext
\* (the manifest of Materialize, Store and Rekey).
THEOREM TypeCorrect == Spec => []TypeOK
BY InitTyped, NextTyped, PTL DEF Spec

-----------------------------------------------------------------------------
\* A manifest entry joins the revision it names to the plaintext that revision
\* holds. The saved manifest says so because every manifest in memory does, and
\* those because a command records the plaintext of what it read or encrypted.

Truthful(man) == \A f \in DOMAIN man : man[f].cipher.content = man[f].plain

\* One entry and one plaintext at a time; between the encryption and the record,
\* the revision in hand holds the plaintext in hand.
InHand(r) ==
    /\ \A d, e \in r.at : d = e
    /\ \A c, d \in r.text : c = d
    /\ r.pc \in {"plain", "record"} => \A rev \in r.read, c \in r.text : rev.content = c

RecordInv ==
    /\ Truthful(manifest)
    /\ \A p \in Proc : Truthful(run[p].man) /\ InHand(run[p])

LEMMA PutTruthful ==
    ASSUME NEW man, NEW f, NEW rev, Truthful(man)
    PROVE  Truthful(Put(man, f, [cipher |-> rev, plain |-> rev.content]))
BY DEF Truthful, Put

LEMMA DropTruthful == ASSUME NEW man, NEW f, Truthful(man) PROVE Truthful(Drop(man, f))
BY DEF Truthful, Drop

LEMMA RefreshedTruthful ==
    ASSUME NEW man \in Partial(File, Entry), NEW f, NEW old, NEW new,
           Truthful(man), new.content = old.content
    PROVE  Truthful(Refreshed(man, f, old, new))
<1>1. CASE f \in DOMAIN man /\ man[f].plain = old.content
  <2>1. Refreshed(man, f, old, new) = [man EXCEPT ![f] = [man[f] EXCEPT !.cipher = new]]
    BY <1>1 DEF Refreshed
  <2>2. man[f] \in Entry
    BY <1>1, PartialValue
  <2>3. /\ [man[f] EXCEPT !.cipher = new].cipher = new
        /\ [man[f] EXCEPT !.cipher = new].plain = man[f].plain
    BY <2>2 DEF Entry
  <2>4. ASSUME NEW g \in DOMAIN man
        PROVE  [man EXCEPT ![f] = [man[f] EXCEPT !.cipher = new]][g]
                 = IF g = f THEN [man[f] EXCEPT !.cipher = new] ELSE man[g]
    BY <1>1, ExceptValue
  <2>5. DOMAIN [man EXCEPT ![f] = [man[f] EXCEPT !.cipher = new]] = DOMAIN man
    OBVIOUS
  <2> QED
    BY <1>1, <2>1, <2>3, <2>4, <2>5 DEF Truthful
<1>2. CASE ~(f \in DOMAIN man /\ man[f].plain = old.content)
  BY <1>2 DEF Refreshed
<1> QED
  BY <1>1, <1>2

\* The step of one command, when the saved manifest stays.
LEMMA StepRecords ==
    ASSUME TypeOK, RecordInv, NEW p \in Proc, NEW r \in Run, Step(p, r), manifest' = manifest,
           Truthful(r.man), InHand(r)
    PROVE  RecordInv'
<1>1. /\ run'[p] = r /\ \A q \in Proc \ {p} : run'[q] = run[q]
  BY StepTyped DEF TypeOK
<1> QED
  BY <1>1 DEF RecordInv, Truthful, InHand

LEMMA IdleTruthful == Truthful(Idle.man) /\ InHand(Idle) /\ Idle.pc = "idle"
BY DEF Idle, Truthful, InHand, Nothing

\* And the step that saves its manifest.
LEMMA SaveRecords ==
    ASSUME TypeOK, RecordInv, NEW p \in Proc, Step(p, Idle), manifest' = run[p].man
    PROVE  RecordInv'
<1>1. /\ run'[p] = Idle /\ \A q \in Proc \ {p} : run'[q] = run[q]
  BY IdleTyped, StepTyped DEF TypeOK
<1> QED
  BY <1>1, IdleTruthful DEF RecordInv, Truthful, InHand

LEMMA NextRecords == TypeOK /\ RecordInv /\ [Next]_vars => RecordInv'
<1> SUFFICES ASSUME TypeOK, RecordInv, [Next]_vars PROVE RecordInv'
  OBVIOUS
<1>1. ASSUME NEW p \in Proc, Command(p) PROVE RecordInv'
  <2>0. /\ run[p] \in Run /\ Truthful(run[p].man) /\ InHand(run[p]) /\ Truthful(manifest)
        /\ run[p].at \subseteq Carried /\ run[p].read \subseteq Rev /\ run[p].text \subseteq Content
        /\ run[p].man \in Partial(File, Entry) /\ manifest \in Partial(File, Entry)
        /\ \A e \in Carried : e.rel \in File
        /\ \A rev \in Rev : rev.content \in Content
        /\ run \in [Proc -> Run]
    BY DEF TypeOK, RecordInv, Run, Carried, Rev
  <2>1. CASE StartLink(p) \/ StartRekey(p)
    <3>1. /\ run'[p].man = manifest /\ run'[p].pc = "next" /\ manifest' = manifest
          /\ run'[p].at = {} /\ run'[p].text = {}
      BY <2>0, <2>1 DEF StartLink, StartRekey, Step, Begin, Idle
    <3>2. \A q \in Proc \ {p} : run'[q] = run[q]
      BY <2>0, <2>1 DEF StartLink, StartRekey, Step
    <3> QED
      BY <2>0, <3>1, <3>2 DEF RecordInv, Truthful, InHand
  <2>2. ASSUME NEW e \in Carried,
               \/ LinkUpToDate(p, e) \/ LinkConflict(p, e) \/ LinkUndecryptable(p, e)
               \/ LinkDecrypt(p, e) \/ RekeyRead(p, e)
        PROVE  RecordInv'
    <3>1. manifest' = manifest
      BY <2>2 DEF LinkUpToDate, LinkConflict, LinkUndecryptable, LinkDecrypt, RekeyRead, Skip
    <3>2. PICK r \in Run : Step(p, r) /\ (r = Idle \/ (/\ r.man = run[p].man /\ r.text = run[p].text
                                                    /\ r.at \in {run[p].at, {e}}
                                                    /\ r.pc \in {"next", "land", "rewrite"}))
      <4>1. CASE LinkUpToDate(p, e)
        BY <2>0, <4>1 DEF LinkUpToDate, Visiting, Run
      <4>2. CASE LinkConflict(p, e) \/ LinkUndecryptable(p, e)
        <5>1. run[p].pc = "next" /\ Skip(p, e)
          BY <4>2 DEF LinkConflict, LinkUndecryptable, Visiting
        <5>2. CASE Step(p, Idle)
          BY <5>2, IdleTyped
        <5>3. CASE Step(p, [run[p] EXCEPT !.todo = @ \ {e}, !.skipped = @ \cup {e}])
          <6> DEFINE r == [run[p] EXCEPT !.todo = @ \ {e}, !.skipped = @ \cup {e}]
          <6>1. r \in Run /\ r.man = run[p].man /\ r.text = run[p].text /\ r.at = run[p].at /\ r.pc = "next"
            BY <2>0, <5>1 DEF Run
          <6>2. Step(p, r)
            BY <5>3
          <6> HIDE DEF r
          <6> QED
            BY <6>1, <6>2
        <5> QED
          BY <5>1, <5>2, <5>3 DEF Skip
      <4>3. CASE LinkDecrypt(p, e) \/ RekeyRead(p, e)
        <5>1. repo[e] \in Rev
          BY <4>3, PartialValue DEF LinkDecrypt, RekeyRead, Visiting, TypeOK
        <5>2. /\ [run[p] EXCEPT !.pc = "land", !.at = {e}, !.read = {repo[e]}] \in Run
              /\ [run[p] EXCEPT !.pc = "rewrite", !.at = {e}, !.read = {repo[e]}] \in Run
          BY <2>0, <5>1 DEF Run
        <5> QED
          BY <2>0, <4>3, <5>2 DEF LinkDecrypt, RekeyRead, Run
      <4> QED
        BY <2>2, <4>1, <4>2, <4>3
    <3>3. Truthful(r.man) /\ InHand(r)
      BY <2>0, <3>2, IdleTruthful DEF InHand
    <3> QED
      BY <3>1, <3>2, <3>3, StepRecords
  <2>3. CASE LinkLand(p)
    <3>1. PICK e \in run[p].at, rev \in run[p].read :
            Step(p, [run[p] EXCEPT !.pc = "next", !.todo = @ \ {e}, !.at = {}, !.read = {},
                        !.man = Put(@, e.rel, [cipher |-> rev, plain |-> rev.content])])
      BY <2>3 DEF LinkLand
    <3>2. /\ run'[p].man = Put(run[p].man, e.rel, [cipher |-> rev, plain |-> rev.content])
          /\ run'[p].pc = "next" /\ run'[p].at = {} /\ run'[p].text = run[p].text
          /\ \A q \in Proc \ {p} : run'[q] = run[q]
      BY <2>0, <3>1 DEF Step, Run
    <3>3. Truthful(run'[p].man)
      BY <2>0, <3>2, PutTruthful
    <3> QED
      BY <2>0, <2>3, <3>2, <3>3 DEF LinkLand, RecordInv, Truthful, InHand
  <2>4. CASE \E f \in File : LinkPrune(p, f)
    <3>1. PICK f \in File : LinkPrune(p, f)
      BY <2>4
    <3>2. /\ run'[p].man = Drop(run[p].man, f) /\ run'[p].pc = "next"
          /\ run'[p].at = run[p].at /\ run'[p].text = run[p].text
          /\ \A q \in Proc \ {p} : run'[q] = run[q]
      BY <2>0, <3>1 DEF LinkPrune, Step, Run
    <3>3. Truthful(run'[p].man)
      BY <2>0, <3>2, DropTruthful
    <3> QED
      BY <2>0, <3>1, <3>2, <3>3 DEF LinkPrune, RecordInv, Truthful, InHand
  <2>5. CASE LinkSave(p) \/ StoreSave(p) \/ RekeySave(p)
    BY <2>5, SaveRecords DEF LinkSave, StoreSave, RekeySave
  <2>6. CASE \/ \E f \in File, c \in Content : StartEncrypt(p, f, c)
             \/ \E e \in Carried : StartEdit(p, e)
    <3>1. /\ run'[p].man = Nothing /\ run'[p].pc \in {"store", "editor"} /\ manifest' = manifest
          /\ \E d \in Carried : run'[p].at = {d}
          /\ \E c \in Content : run'[p].text \in {{}, {c}}
      <4>1. \A f \in File : [rel |-> f, encrypted |-> TRUE] \in Carried
        BY DEF Carried
      <4>2. CASE \E f \in File, c \in Content : StartEncrypt(p, f, c)
        BY <2>0, <4>1, <4>2 DEF StartEncrypt, Step, Begin, Idle
      <4>3. CASE \E e \in Carried : StartEdit(p, e)
        <5>1. PICK e \in Carried : StartEdit(p, e)
          BY <4>3
        <5>2. repo[e].content \in Content
          BY <5>1, <2>0, PartialValue DEF StartEdit, TypeOK
        <5> QED
          BY <2>0, <5>1, <5>2 DEF StartEdit, Step, Begin, Idle
      <4> QED
        BY <2>6, <4>2, <4>3
    <3>2. \A q \in Proc \ {p} : run'[q] = run[q]
      BY <2>0, <2>6 DEF StartEncrypt, StartEdit, Step
    <3>3. Truthful(Nothing)
      BY DEF Truthful, Nothing
    <3> QED
      BY <2>0, <3>1, <3>2, <3>3 DEF RecordInv, Truthful, InHand
  <2>7. CASE EditUnchanged(p) \/ Stop(p)
    BY <2>7, IdleTyped, IdleTruthful, StepRecords DEF EditUnchanged, Stop
  <2>8. CASE \E c \in Content : EditSave(p, c)
    <3>1. /\ run'[p].man = run[p].man /\ run'[p].pc = "store" /\ manifest' = manifest
          /\ run'[p].at = run[p].at /\ \E c \in Content : run'[p].text = {c}
          /\ \A q \in Proc \ {p} : run'[q] = run[q]
      BY <2>0, <2>8 DEF EditSave, Step, Run
    <3> QED
      BY <2>0, <3>1 DEF RecordInv, Truthful, InHand
  <2>9. CASE StoreRepo(p)
    <3>1. PICK e \in run[p].at, c \in run[p].text :
            /\ Unused(e, c) # {}
            /\ Step(p, [run[p] EXCEPT !.pc = "plain", !.read = {Encrypt(e, c)}])
      BY <2>9 DEF StoreRepo
    <3>2. Encrypt(e, c).content = c
      BY <2>0, <3>1, EncryptTyped
    <3>3. /\ run'[p].man = run[p].man /\ run'[p].read = {Encrypt(e, c)}
          /\ run'[p].text = run[p].text /\ run'[p].at = run[p].at
          /\ \A q \in Proc \ {p} : run'[q] = run[q]
      BY <2>0, <3>1 DEF Step, Run
    <3>4. run[p].text = {c}
      BY <2>0, <3>1 DEF InHand
    <3> QED
      BY <2>0, <2>9, <3>2, <3>3, <3>4 DEF StoreRepo, RecordInv, Truthful, InHand
  <2>10. CASE StorePlain(p)
    <3>1. /\ run'[p] = [run[p] EXCEPT !.pc = "record"] /\ \A q \in Proc \ {p} : run'[q] = run[q]
      BY <2>0, <2>10 DEF StorePlain, Goto, Step
    <3> QED
      BY <2>0, <2>10, <3>1 DEF StorePlain, RecordInv, Truthful, InHand, Run
  <2>11. CASE StoreRecord(p)
    <3>1. PICK e \in run[p].at, rev \in run[p].read, c \in run[p].text :
            Step(p, [run[p] EXCEPT !.pc = "save",
                        !.man = Put(manifest, e.rel, [cipher |-> rev, plain |-> c])])
      BY <2>11 DEF StoreRecord
    <3>2. rev.content = c
      BY <2>0, <2>11 DEF StoreRecord, InHand
    <3>3. /\ run'[p].man = Put(manifest, e.rel, [cipher |-> rev, plain |-> rev.content])
          /\ run'[p].pc = "save" /\ run'[p].at = run[p].at /\ run'[p].text = run[p].text
          /\ \A q \in Proc \ {p} : run'[q] = run[q]
      BY <2>0, <3>1, <3>2 DEF Step, Run
    <3>4. Truthful(run'[p].man)
      BY <2>0, <3>3, PutTruthful
    <3> QED
      BY <2>0, <2>11, <3>3, <3>4 DEF StoreRecord, RecordInv, Truthful, InHand
  <2>12. CASE RekeyWrite(p)
    <3>1. PICK e \in run[p].at, old \in run[p].read :
            /\ Unused(e, old.content) # {}
            /\ Step(p, [run[p] EXCEPT !.pc = "next", !.todo = @ \ {e}, !.at = {}, !.read = {},
                            !.man = Refreshed(@, e.rel, old, Encrypt(e, old.content))])
      BY <2>12 DEF RekeyWrite
    <3>2. Encrypt(e, old.content).content = old.content
      BY <2>0, <3>1, EncryptTyped
    <3>3. /\ run'[p].man = Refreshed(run[p].man, e.rel, old, Encrypt(e, old.content))
          /\ run'[p].pc = "next" /\ run'[p].at = {} /\ run'[p].text = run[p].text
          /\ \A q \in Proc \ {p} : run'[q] = run[q]
      BY <2>0, <3>1 DEF Step, Run
    <3>4. Truthful(run'[p].man)
      BY <2>0, <3>2, <3>3, RefreshedTruthful
    <3> QED
      BY <2>0, <2>12, <3>3, <3>4 DEF RekeyWrite, RecordInv, Truthful, InHand
  <2> QED
    BY <1>1, <2>1, <2>2, <2>3, <2>4, <2>5, <2>6, <2>7, <2>8, <2>9, <2>10, <2>11, <2>12 DEF Command
<1>2. CASE User \/ UNCHANGED vars
  BY <1>2 DEF User, UserEdits, UserRemoves, RepoChanges, RepoRemoves, vars, RecordInv, Truthful, InHand
<1> QED
  BY <1>1, <1>2 DEF Next

LEMMA InitRecords == Init => RecordInv
BY IdleTruthful DEF Init, RecordInv, Truthful, Nothing

\* Rekey changes no recorded plaintext.
LEMMA RefreshedPlain ==
    ASSUME NEW man \in Partial(File, Entry), NEW f, NEW old, NEW new
    PROVE  /\ DOMAIN Refreshed(man, f, old, new) = DOMAIN man
           /\ \A g \in DOMAIN man : Refreshed(man, f, old, new)[g].plain = man[g].plain
<1>1. CASE f \in DOMAIN man /\ man[f].plain = old.content
  <2>1. Refreshed(man, f, old, new) = [man EXCEPT ![f] = [man[f] EXCEPT !.cipher = new]]
    BY <1>1 DEF Refreshed
  <2>2. [man[f] EXCEPT !.cipher = new].plain = man[f].plain
    <3>1. man[f] \in Entry
      BY <1>1, PartialValue
    <3> QED
      BY <3>1 DEF Entry
  <2>3. ASSUME NEW g \in DOMAIN man
        PROVE  [man EXCEPT ![f] = [man[f] EXCEPT !.cipher = new]][g]
                 = IF g = f THEN [man[f] EXCEPT !.cipher = new] ELSE man[g]
    BY ExceptValue, <1>1
  <2>4. DOMAIN [man EXCEPT ![f] = [man[f] EXCEPT !.cipher = new]] = DOMAIN man
    OBVIOUS
  <2> QED
    BY <2>1, <2>2, <2>3, <2>4
<1>2. CASE ~(f \in DOMAIN man /\ man[f].plain = old.content)
  BY <1>2 DEF Refreshed
<1> QED
  BY <1>1, <1>2

LEMMA RecordsOk == TypeOK /\ RecordInv => OkMeansSame
BY DEF RecordInv, Truthful, OkMeansSame, Classify

\* What status calls ok, or a link skips as up to date, holds what the repository
\* would decrypt to: for any number of commands at once, interrupted anywhere.
THEOREM OkIsTheTruth == Spec => []OkMeansSame
<1>1. Init => TypeOK /\ RecordInv
  BY InitTyped, InitRecords
<1>2. (TypeOK /\ RecordInv) /\ [Next]_vars => (TypeOK /\ RecordInv)'
  BY NextTyped, NextRecords
<1>3. TypeOK /\ RecordInv => OkMeansSame
  BY RecordsOk
<1> QED
  BY <1>1, <1>2, <1>3, PTL DEF Spec

-----------------------------------------------------------------------------
\* Local edits. Unless the user and other commands act while a command runs, an
\* edit stays because every manifest a command decides by, the saved one and the
\* one in memory, still records something else for the file; and because nothing
\* a command has decided to write is a file with such an edit.

Still == {"idle", "editor"}

Alone(p) == \A q \in Proc \ {p} : run[q].pc \in Still

Kept == \A f \in File : unsaved[f] # {} => f \in DOMAIN plain /\ unsaved[f] = {plain[f]}

Differs(man) == \A f \in File : unsaved[f] # {} => f \in DOMAIN man /\ man[f].plain \notin unsaved[f]

Careful(r) ==
    /\ r.pc \in {"next", "land", "rewrite", "save"} => Differs(r.man)
    /\ r.pc \in {"land", "record", "save"} => \A e \in r.at : unsaved[e.rel] = {}

EditInv ==
    /\ Kept
    /\ Differs(manifest)
    /\ \A p \in Proc : Careful(run[p]) /\ (run[p].pc \notin Still => Alone(p))

LEMMA FreeAlone ==
    ASSUME ~Busy, NEW p \in Proc, Free
    PROVE  Alone(p)
BY DEF Free, Quiet, Alone, Still

\* The step of one command, of which the disk and the history are known.
LEMMA StepCareful ==
    ASSUME TypeOK, EditInv, NEW p \in Proc, Alone(p),
           \A q \in Proc \ {p} : run'[q] = run[q],
           Kept', Differs(manifest)', Careful(run[p])'
    PROVE  EditInv'
<1>1. ASSUME NEW q \in Proc, q # p PROVE Careful(run[q])' /\ run'[q].pc \in Still
  BY <1>1 DEF Alone, Still, Careful
<1>2. Alone(p)'
  BY <1>1 DEF Alone
<1> QED
  BY <1>1, <1>2 DEF EditInv

\* And of one that touches its own memory only.
LEMMA MemoryCareful ==
    ASSUME TypeOK, EditInv, NEW p \in Proc, NEW r \in Run, Step(p, r),
           UNCHANGED <<repo, plain, manifest, history>>,
           Careful(r), r.pc \in Still \/ Alone(p)
    PROVE  EditInv'
<1>1. run'[p] = r /\ \A q \in Proc \ {p} : run'[q] = run[q]
  BY StepTyped DEF TypeOK
<1>2. Kept' /\ Differs(manifest)'
  BY DEF EditInv, Kept, Differs, history
<1>3. \A q \in Proc : Careful(run[q])'
  BY <1>1 DEF EditInv, Careful, Differs, history
<1>4. CASE r.pc \in Still
  BY <1>1, <1>2, <1>3, <1>4 DEF EditInv, Alone
<1>5. CASE Alone(p)
  BY <1>1, <1>2, <1>3, <1>5, StepCareful
<1> QED
  BY <1>4, <1>5

LEMMA LinkKeeps ==
    ASSUME ~Busy, TypeOK, EditInv, RecordInv, NEW p \in Proc,
           \/ StartLink(p) \/ LinkLand(p) \/ LinkSave(p)
           \/ \E e \in Carried : \/ LinkUpToDate(p, e) \/ LinkConflict(p, e)
                                \/ LinkUndecryptable(p, e) \/ LinkDecrypt(p, e)
           \/ \E f \in File : LinkPrune(p, f)
    PROVE  EditInv'
<1>0. /\ run \in [Proc -> Run] /\ run[p] \in Run /\ Careful(run[p]) /\ Differs(manifest) /\ Kept
      /\ run[p].pc \notin Still => Alone(p)
      /\ DOMAIN repo \subseteq Carried
      /\ \A e \in DOMAIN repo : repo[e] \in Rev
      /\ unsaved \in [File -> SUBSET Content]
      /\ run[p].man \in Partial(File, Entry) /\ plain \in Partial(File, Content)
      /\ run[p].at \subseteq Carried /\ run[p].read \subseteq Rev
      /\ \A e \in Carried : e.rel \in File
      /\ \A rev \in Rev : rev.content \in Content
  <2>1. DOMAIN repo \subseteq Carried /\ \A e \in DOMAIN repo : repo[e] \in Rev
    BY PartialValue DEF TypeOK
  <2>2. (\A e \in Carried : e.rel \in File) /\ \A rev \in Rev : rev.content \in Content
    BY DEF Carried, Rev
  <2> QED
    BY <2>1, <2>2 DEF EditInv, TypeOK, Run
<1>1. CASE StartLink(p)
  <2> DEFINE r == [Begin(p, "link", "next") EXCEPT !.man = manifest, !.todo = DOMAIN repo,
                      !.seen = {e.rel : e \in DOMAIN repo}]
  <2>1. r \in Run /\ r.pc = "next" /\ r.man = manifest
    <3>1. {e.rel : e \in DOMAIN repo} \subseteq File
      BY <1>0
    <3> QED
      BY <1>0, <3>1, IdleTyped DEF Begin, Run, Idle, TypeOK
  <2>2. Step(p, r) /\ UNCHANGED <<repo, plain, manifest, history>> /\ Alone(p)
    BY <1>1, FreeAlone DEF StartLink
  <2> HIDE DEF r
  <2>3. Careful(r)
    BY <1>0, <2>1 DEF Careful
  <2> QED
    BY <2>1, <2>2, <2>3, MemoryCareful
<1>2. CASE LinkLand(p)
  <2>1. PICK e \in run[p].at, rev \in run[p].read :
          /\ plain' = Put(plain, e.rel, rev.content)
          /\ Step(p, [run[p] EXCEPT !.pc = "next", !.todo = @ \ {e}, !.at = {}, !.read = {},
                          !.man = Put(@, e.rel, [cipher |-> rev, plain |-> rev.content])])
    BY <1>2 DEF LinkLand
  <2>2. e.rel \in File /\ unsaved[e.rel] = {} /\ unsaved' = unsaved /\ manifest' = manifest
        /\ rev \in Rev /\ rev.content \in Content /\ Differs(run[p].man) /\ Alone(p)
    BY <1>0, <1>2 DEF LinkLand, Careful, Still
  <2>3. /\ run'[p].pc = "next" /\ run'[p].at = {}
        /\ run'[p].man = Put(run[p].man, e.rel, [cipher |-> rev, plain |-> rev.content])
        /\ \A q \in Proc \ {p} : run'[q] = run[q]
    BY <1>0, <2>1 DEF Step, Run
  <2>4. Kept'
    BY <1>0, <2>1, <2>2 DEF Kept, Put
  <2>5. Differs(run[p].man)'
    BY <2>2, <2>3 DEF Differs, Put
  <2>6. Careful(run[p])' /\ Differs(manifest)'
    BY <1>0, <2>2, <2>3, <2>5 DEF Careful, Differs
  <2> QED
    BY <2>2, <2>3, <2>4, <2>6, StepCareful
<1>3. CASE LinkSave(p)
  <2>1. /\ run'[p] = Idle /\ \A q \in Proc \ {p} : run'[q] = run[q]
    BY <1>0, <1>3, IdleTyped, StepTyped DEF LinkSave
  <2>2. Differs(run[p].man) /\ Alone(p)
    BY <1>0, <1>3 DEF LinkSave, Careful, Still
  <2>3. Kept' /\ Differs(manifest)'
    BY <1>0, <1>3, <2>2 DEF LinkSave, Kept, Differs, history
  <2> QED
    BY <2>1, <2>2, <2>3, IdleTruthful, StepCareful DEF Careful
<1>4. ASSUME NEW e \in Carried, LinkUpToDate(p, e) PROVE EditInv'
  <2> DEFINE r == [run[p] EXCEPT !.todo = @ \ {e}]
  <2>1. r \in Run /\ r.pc = run[p].pc /\ r.pc = "next" /\ r.man = run[p].man
    BY <1>0, <1>4 DEF LinkUpToDate, Visiting, Run
  <2>2. Step(p, r) /\ UNCHANGED <<repo, plain, manifest, history>>
    BY <1>4 DEF LinkUpToDate
  <2> HIDE DEF r
  <2>3. Careful(r) /\ Alone(p)
    BY <1>0, <2>1 DEF Careful, Still
  <2> QED
    BY <2>1, <2>2, <2>3, MemoryCareful
<1>5. ASSUME NEW e \in Carried, run[p].pc = "next", Skip(p, e) PROVE EditInv'
  <2>1. CASE Step(p, Idle)
    BY <1>5, <2>1, IdleTyped, IdleTruthful, MemoryCareful DEF Skip, Careful, Still
  <2>2. CASE Step(p, [run[p] EXCEPT !.todo = @ \ {e}, !.skipped = @ \cup {e}])
    <3> DEFINE r == [run[p] EXCEPT !.todo = @ \ {e}, !.skipped = @ \cup {e}]
    <3>1. r \in Run /\ r.pc = "next" /\ r.man = run[p].man
      BY <1>0, <1>5 DEF Run
    <3>2. Step(p, r) /\ UNCHANGED <<repo, plain, manifest, history>>
      BY <1>5, <2>2 DEF Skip
    <3> HIDE DEF r
    <3>3. Careful(r) /\ Alone(p)
      BY <1>0, <1>5, <3>1 DEF Careful, Still
    <3> QED
      BY <3>1, <3>2, <3>3, MemoryCareful
  <2> QED
    BY <1>5, <2>1, <2>2 DEF Skip
<1>6. ASSUME NEW e \in Carried, LinkDecrypt(p, e) PROVE EditInv'
  <2> DEFINE r == [run[p] EXCEPT !.pc = "land", !.at = {e}, !.read = {repo[e]}]
  <2>1. r \in Run /\ r.pc = "land" /\ r.man = run[p].man /\ r.at = {e} /\ run[p].pc = "next"
    BY <1>0, <1>6 DEF LinkDecrypt, Visiting, Run
  <2>2. Step(p, r) /\ UNCHANGED <<repo, plain, manifest, history>>
    BY <1>6 DEF LinkDecrypt
  <2>3. Differs(run[p].man) /\ Alone(p)
    BY <1>0, <2>1 DEF Careful, Still
  <2>4. unsaved[e.rel] = {}
    <3>1. SUFFICES ASSUME unsaved[e.rel] # {} PROVE FALSE
      OBVIOUS
    <3>2. e.rel \in DOMAIN plain /\ plain[e.rel] \in unsaved[e.rel]
      BY <1>0, <3>1 DEF Kept
    <3>3. e.rel \in DOMAIN run[p].man /\ run[p].man[e.rel].plain \notin unsaved[e.rel]
      BY <1>0, <2>3, <3>1 DEF Differs
    <3>4. Edited(p, e)
      BY <3>2, <3>3 DEF Edited, Known
    <3> QED
      BY <1>6, <3>4 DEF LinkDecrypt
  <2> HIDE DEF r
  <2>5. Careful(r)
    BY <2>1, <2>3, <2>4 DEF Careful
  <2> QED
    BY <2>1, <2>2, <2>3, <2>5, MemoryCareful
<1>7. ASSUME NEW f \in File, LinkPrune(p, f) PROVE EditInv'
  <2>1. /\ run'[p].pc = "next" /\ run'[p].man = Drop(run[p].man, f)
        /\ \A q \in Proc \ {p} : run'[q] = run[q]
    BY <1>0, <1>7 DEF LinkPrune, Step, Run
  <2>2. Differs(run[p].man) /\ Alone(p)
    BY <1>0, <1>7 DEF LinkPrune, Careful, Still
  <2>3. /\ plain' = Drop(plain, f) /\ manifest' = manifest
        /\ \A g \in File : unsaved'[g] = IF g = f THEN {} ELSE unsaved[g]
    BY <1>0, <1>7 DEF LinkPrune
  <2>4. Kept'
    BY <1>0, <2>3 DEF Kept, Drop
  <2>5. Differs(manifest)' /\ Differs(run[p].man)'
    BY <1>0, <2>1, <2>2, <2>3 DEF Differs, Drop
  <2> QED
    BY <2>1, <2>2, <2>4, <2>5, StepCareful DEF Careful
<1> QED
  BY <1>1, <1>2, <1>3, <1>4, <1>5, <1>6, <1>7 DEF LinkConflict, LinkUndecryptable, Visiting

LEMMA EncryptEditKeeps ==
    ASSUME ~Busy, TypeOK, EditInv, NEW p \in Proc,
           \/ \E f \in File, c \in Content : StartEncrypt(p, f, c)
           \/ \E e \in Carried : StartEdit(p, e)
           \/ EditUnchanged(p)
           \/ \E c \in Content : EditSave(p, c)
           \/ Stop(p)
    PROVE  EditInv'
<1>0. run[p] \in Run /\ \A e \in DOMAIN repo : repo[e] \in Rev
  BY PartialValue DEF TypeOK
<1>1. ASSUME NEW f \in File, NEW c \in Content, StartEncrypt(p, f, c) PROVE EditInv'
  <2> DEFINE r == [Begin(p, "encrypt", "store") EXCEPT
                      !.at = {[rel |-> f, encrypted |-> TRUE]}, !.text = {c}]
  <2>1. [rel |-> f, encrypted |-> TRUE] \in Carried
    BY DEF Carried
  <2>2. r \in Run /\ r.pc = "store"
    BY <2>1, IdleTyped DEF Begin, Run, Idle
  <2>3. Step(p, r) /\ UNCHANGED <<repo, plain, manifest, history>> /\ Alone(p)
    BY <1>1, FreeAlone DEF StartEncrypt
  <2> HIDE DEF r
  <2> QED
    BY <2>2, <2>3, MemoryCareful DEF Careful
<1>2. ASSUME NEW e \in Carried, StartEdit(p, e) PROVE EditInv'
  <2> DEFINE r == [Begin(p, "edit", "editor") EXCEPT !.at = {e}, !.read = {repo[e]}]
  <2>1. r \in Run /\ r.pc = "editor"
    BY <1>0, <1>2, IdleTyped DEF StartEdit, Begin, Run, Idle
  <2>2. Step(p, r) /\ UNCHANGED <<repo, plain, manifest, history>>
    BY <1>2 DEF StartEdit
  <2> HIDE DEF r
  <2> QED
    BY <2>1, <2>2, MemoryCareful DEF Careful, Still
<1>3. CASE EditUnchanged(p) \/ Stop(p)
  BY <1>3, IdleTyped, IdleTruthful, MemoryCareful DEF EditUnchanged, Stop, Careful, Still
<1>4. ASSUME NEW c \in Content, EditSave(p, c) PROVE EditInv'
  <2> DEFINE r == [run[p] EXCEPT !.pc = "store", !.read = {}, !.text = {c}]
  <2>1. r \in Run /\ r.pc = "store"
    BY <1>0 DEF Run
  <2>2. Step(p, r) /\ UNCHANGED <<repo, plain, manifest, history>> /\ Alone(p)
    BY <1>4, FreeAlone DEF EditSave
  <2> HIDE DEF r
  <2> QED
    BY <2>1, <2>2, MemoryCareful DEF Careful
<1> QED
  BY <1>1, <1>2, <1>3, <1>4

LEMMA StoreKeeps ==
    ASSUME TypeOK, EditInv, RecordInv, NEW p \in Proc,
           StoreRepo(p) \/ StorePlain(p) \/ StoreRecord(p) \/ StoreSave(p)
    PROVE  EditInv'
<1>0. /\ run \in [Proc -> Run] /\ run[p] \in Run /\ Careful(run[p]) /\ Differs(manifest) /\ Kept
      /\ run[p].pc \notin Still => Alone(p)
      /\ unsaved \in [File -> SUBSET Content]
      /\ run[p].at \subseteq Carried
      /\ \A e \in Carried : e.rel \in File
      /\ \A d, e \in run[p].at : d = e
  BY DEF EditInv, TypeOK, Run, Carried, RecordInv, InHand
<1>1. CASE StoreRepo(p)
  <2>1. PICK e \in run[p].at, c \in run[p].text :
          /\ unsaved' = [unsaved EXCEPT ![e.rel] = @ \ {c}]
          /\ Step(p, [run[p] EXCEPT !.pc = "plain", !.read = {Encrypt(e, c)}])
    BY <1>1 DEF StoreRepo
  <2>2. run'[p].pc = "plain" /\ \A q \in Proc \ {p} : run'[q] = run[q]
    BY <1>0, <2>1 DEF Step, Run
  <2>3. \A f \in File : unsaved'[f] = IF f = e.rel THEN unsaved[f] \ {c} ELSE unsaved[f]
    BY <1>0, <2>1
  <2>4. plain' = plain /\ manifest' = manifest /\ Alone(p)
    BY <1>0, <1>1 DEF StoreRepo, Still
  <2>5. Kept'
    BY <1>0, <2>3, <2>4 DEF Kept
  <2>6. Differs(manifest)'
    BY <1>0, <2>3, <2>4 DEF Differs
  <2> QED
    BY <2>2, <2>4, <2>5, <2>6, StepCareful DEF Careful
<1>2. CASE StorePlain(p)
  <2>1. PICK e \in run[p].at, c \in run[p].text :
          /\ plain' = Put(plain, e.rel, c)
          /\ unsaved' = [unsaved EXCEPT ![e.rel] = {}]
    BY <1>2 DEF StorePlain
  <2>2. run'[p].pc = "record" /\ run'[p].at = run[p].at /\ \A q \in Proc \ {p} : run'[q] = run[q]
    BY <1>0, <1>2 DEF StorePlain, Goto, Step, Run
  <2>3. \A f \in File : unsaved'[f] = IF f = e.rel THEN {} ELSE unsaved[f]
    BY <1>0, <2>1
  <2>4. manifest' = manifest /\ Alone(p)
    BY <1>0, <1>2 DEF StorePlain, Still
  <2>5. Kept'
    BY <1>0, <2>1, <2>3 DEF Kept, Put
  <2>6. Differs(manifest)'
    BY <1>0, <2>3, <2>4 DEF Differs
  <2>7. Careful(run[p])'
    <3>1. \A d \in run[p].at : d.rel \in File /\ d.rel = e.rel
      BY <1>0
    <3> QED
      BY <2>2, <2>3, <3>1 DEF Careful
  <2> QED
    BY <2>2, <2>4, <2>5, <2>6, <2>7, StepCareful
<1>3. CASE StoreRecord(p)
  <2>1. PICK e \in run[p].at, rev \in run[p].read, c \in run[p].text :
          Step(p, [run[p] EXCEPT !.pc = "save",
                      !.man = Put(manifest, e.rel, [cipher |-> rev, plain |-> c])])
    BY <1>3 DEF StoreRecord
  <2>2. /\ run'[p].pc = "save" /\ run'[p].at = run[p].at
        /\ run'[p].man = Put(manifest, e.rel, [cipher |-> rev, plain |-> c])
        /\ \A q \in Proc \ {p} : run'[q] = run[q]
    BY <1>0, <2>1 DEF Step, Run
  <2>3. plain' = plain /\ manifest' = manifest /\ unsaved' = unsaved /\ Alone(p)
    BY <1>0, <1>3 DEF StoreRecord, Still, history
  <2>4. \A d \in run[p].at : unsaved[d.rel] = {}
    BY <1>0, <1>3 DEF StoreRecord, Careful
  <2>5. Differs(run[p].man)'
    BY <1>0, <2>2, <2>3, <2>4 DEF Differs, Put
  <2>6. Kept' /\ Differs(manifest)' /\ Careful(run[p])'
    BY <1>0, <2>2, <2>3, <2>4, <2>5 DEF Kept, Differs, Careful
  <2> QED
    BY <2>2, <2>3, <2>6, StepCareful
<1>4. CASE StoreSave(p)
  <2>1. /\ run'[p] = Idle /\ \A q \in Proc \ {p} : run'[q] = run[q]
    BY <1>0, <1>4, IdleTyped, StepTyped DEF StoreSave
  <2>2. Differs(run[p].man) /\ Alone(p)
    BY <1>0, <1>4 DEF StoreSave, Careful, Still
  <2>3. Kept' /\ Differs(manifest)'
    BY <1>0, <1>4, <2>2 DEF StoreSave, Kept, Differs, history
  <2> QED
    BY <2>1, <2>2, <2>3, IdleTruthful, StepCareful DEF Careful
<1> QED
  BY <1>1, <1>2, <1>3, <1>4

LEMMA RekeyKeeps ==
    ASSUME ~Busy, TypeOK, EditInv, NEW p \in Proc,
           \/ StartRekey(p) \/ RekeyWrite(p) \/ RekeySave(p)
           \/ \E e \in Carried : RekeyRead(p, e)
    PROVE  EditInv'
<1>0. /\ run \in [Proc -> Run] /\ run[p] \in Run /\ Careful(run[p]) /\ Differs(manifest) /\ Kept
      /\ run[p].pc \notin Still => Alone(p)
      /\ run[p].man \in Partial(File, Entry)
      /\ \A e \in DOMAIN repo : repo[e] \in Rev
  BY PartialValue DEF EditInv, TypeOK, Run
<1>1. CASE StartRekey(p)
  <2>1. /\ run'[p].pc = "next" /\ run'[p].man = manifest
        /\ \A q \in Proc \ {p} : run'[q] = run[q]
    BY <1>0, <1>1 DEF StartRekey, Step, Begin, Idle
  <2>2. plain' = plain /\ manifest' = manifest /\ unsaved' = unsaved /\ Alone(p)
    BY <1>1, FreeAlone DEF StartRekey, history
  <2>3. Kept' /\ Differs(manifest)' /\ Differs(run[p].man)'
    BY <1>0, <2>1, <2>2 DEF Kept, Differs
  <2> QED
    BY <2>1, <2>2, <2>3, StepCareful DEF Careful
<1>2. ASSUME NEW e \in Carried, RekeyRead(p, e) PROVE EditInv'
  <2> DEFINE r == [run[p] EXCEPT !.pc = "rewrite", !.at = {e}, !.read = {repo[e]}]
  <2>1. r \in Run /\ r.pc = "rewrite" /\ r.man = run[p].man /\ run[p].pc = "next"
    BY <1>0, <1>2 DEF RekeyRead, Visiting, Run
  <2>2. Step(p, r) /\ UNCHANGED <<repo, plain, manifest, history>>
    BY <1>2 DEF RekeyRead
  <2> HIDE DEF r
  <2>3. Careful(r) /\ Alone(p)
    BY <1>0, <2>1 DEF Careful, Still
  <2> QED
    BY <2>1, <2>2, <2>3, MemoryCareful
<1>3. CASE RekeyWrite(p)
  <2>1. PICK e \in run[p].at, old \in run[p].read :
          Step(p, [run[p] EXCEPT !.pc = "next", !.todo = @ \ {e}, !.at = {}, !.read = {},
                      !.man = Refreshed(@, e.rel, old, Encrypt(e, old.content))])
    BY <1>3 DEF RekeyWrite
  <2>2. /\ run'[p].pc = "next"
        /\ run'[p].man = Refreshed(run[p].man, e.rel, old, Encrypt(e, old.content))
        /\ \A q \in Proc \ {p} : run'[q] = run[q]
    BY <1>0, <2>1 DEF Step, Run
  <2>3. plain' = plain /\ manifest' = manifest /\ unsaved' = unsaved /\ Alone(p) /\ Differs(run[p].man)
    BY <1>0, <1>3 DEF RekeyWrite, Still, Careful, history
  <2>4. Differs(run[p].man)'
    BY <1>0, <2>2, <2>3, RefreshedPlain DEF Differs
  <2>5. Kept' /\ Differs(manifest)'
    BY <1>0, <2>3 DEF Kept, Differs
  <2> QED
    BY <2>2, <2>3, <2>4, <2>5, StepCareful DEF Careful
<1>4. CASE RekeySave(p)
  <2>1. /\ run'[p] = Idle /\ \A q \in Proc \ {p} : run'[q] = run[q]
    BY <1>0, <1>4, IdleTyped, StepTyped DEF RekeySave
  <2>2. Differs(run[p].man) /\ Alone(p)
    BY <1>0, <1>4 DEF RekeySave, Careful, Still
  <2>3. Kept' /\ Differs(manifest)'
    BY <1>0, <1>4, <2>2 DEF RekeySave, Kept, Differs, history
  <2> QED
    BY <2>1, <2>2, <2>3, IdleTruthful, StepCareful DEF Careful
<1> QED
  BY <1>1, <1>2, <1>3, <1>4

LEMMA UserKeeps ==
    ASSUME ~Busy, TypeOK, EditInv, User
    PROVE  EditInv'
<1>0. /\ Kept /\ Differs(manifest) /\ run' = run /\ manifest' = manifest /\ Quiet
      /\ unsaved \in [File -> SUBSET Content]
  BY DEF EditInv, TypeOK, User, UserEdits, UserRemoves, RepoChanges, RepoRemoves, Free
<1>1. Kept' /\ Differs(manifest)'
  <2>1. ASSUME NEW f \in File, NEW c \in Content, UserEdits(f, c) PROVE Kept' /\ Differs(manifest)'
    <3>1. plain' = [plain EXCEPT ![f] = c] /\ f \in DOMAIN plain
      BY <2>1 DEF UserEdits
    <3>2. \A g \in File : unsaved'[g] =
            IF g = f THEN IF f \in DOMAIN manifest THEN {c} \ {manifest[f].plain} ELSE {}
                     ELSE unsaved[g]
      BY <1>0, <2>1 DEF UserEdits
    <3>3. Kept'
      BY <1>0, <3>1, <3>2, ExceptValue DEF Kept, TypeOK
    <3>4. Differs(manifest)'
      BY <1>0, <3>2 DEF Differs
    <3> QED
      BY <3>3, <3>4
  <2>2. ASSUME NEW f \in File, UserRemoves(f) PROVE Kept' /\ Differs(manifest)'
    <3>1. \A g \in File : unsaved'[g] = IF g = f THEN {} ELSE unsaved[g]
      BY <1>0, <2>2 DEF UserRemoves
    <3> QED
      BY <1>0, <2>2, <3>1 DEF UserRemoves, Kept, Differs, Drop
  <2>3. CASE plain' = plain /\ unsaved' = unsaved
    BY <1>0, <2>3 DEF Kept, Differs
  <2> QED
    BY <2>1, <2>2, <2>3 DEF User, RepoChanges, RepoRemoves, history
<1>2. \A p \in Proc : Careful(run[p])' /\ run'[p].pc \in Still
  BY <1>0 DEF Quiet, Careful, Still
<1> QED
  BY <1>1, <1>2 DEF EditInv

LEMMA NextKeeps ==
    ASSUME ~Busy, TypeOK, RecordInv, EditInv, [Next]_vars
    PROVE  EditInv'
<1>1. ASSUME NEW p \in Proc, Command(p) PROVE EditInv'
  BY <1>1, LinkKeeps, EncryptEditKeeps, StoreKeeps, RekeyKeeps DEF Command
<1>2. CASE UNCHANGED vars
  BY <1>2 DEF vars, EditInv, Kept, Differs, Careful, Alone
<1> QED
  BY <1>1, <1>2, UserKeeps DEF Next

LEMMA InitKeeps == Init => EditInv
BY IdleTruthful DEF Init, EditInv, Kept, Differs, Careful, Still

\* Where a command has the files to itself, a link or a rekey never costs the
\* user an edit: whatever the sequence of commands, failures, interruptions,
\* edits and pulls (Materialize: "Local edits are never overwritten").
THEOREM EditsAreKept == ASSUME ~Busy PROVE Spec => []LocalEditKept
<1>1. Init => TypeOK /\ RecordInv /\ EditInv
  BY InitTyped, InitRecords, InitKeeps
<1>2. (TypeOK /\ RecordInv /\ EditInv) /\ [Next]_vars => (TypeOK /\ RecordInv /\ EditInv)'
  BY NextTyped, NextRecords, NextKeeps
<1>3. EditInv => LocalEditKept
  BY DEF EditInv, Kept, LocalEditKept
<1> QED
  BY <1>1, <1>2, <1>3, PTL DEF Spec
-----------------------------------------------------------------------------
\* What a link or a rekey records. While it runs nobody else acts (~Busy), and a path
\* has one entry (~Siblings): an entry the link is through with is as its memory has
\* it, and the state rekey found an entry in is the one its memory gives, but that a
\* new cipher may have been recorded.

Owned == {Own(f) : f \in File}

\* The command of each program counter.
OpFits(r) ==
    /\ r.pc \in Still => r.op \notin {"link", "rekey"}
    /\ r.pc = "land" => r.op = "link"
    /\ r.pc = "rewrite" => r.op = "rekey"
    /\ r.pc \in {"store", "plain", "record", "save"} => r.op \notin {"link", "rekey"}

\* What is in hand is what the repository has.
HasRead(r) == r.at \subseteq DOMAIN repo /\ \A e \in r.at, rev \in r.read : rev = repo[e]

Recorded(man, e) == e.rel \in DOMAIN plain \cap DOMAIN man /\ man[e.rel].cipher = repo[e]

LinkHas(r) ==
    r.op = "link" =>
        /\ r.seen = {e.rel : e \in DOMAIN repo}
        /\ \A e \in DOMAIN repo \ (r.todo \cup r.skipped) : Recorded(r.man, e)
        /\ \A f \in DOMAIN manifest \cap DOMAIN plain : f \in DOMAIN r.man \cup r.seen
        /\ r.pc = "land" => HasRead(r)

Follows(state, man, e) ==
    /\ state \in FileState
    /\ state = "missing" <=> e.rel \notin DOMAIN plain \cap DOMAIN man
    /\ state \in {"drifted", "conflict"} <=>
          e.rel \in DOMAIN plain \cap DOMAIN man /\ plain[e.rel] # man[e.rel].plain
    /\ state \in {"ok", "drifted"} => Recorded(man, e)

RekeyHas(r) ==
    r.op = "rekey" =>
        /\ DOMAIN r.was = DOMAIN repo
        /\ \A e \in DOMAIN repo : Follows(r.was[e], r.man, e)
        /\ r.pc = "rewrite" => HasRead(r)

Fits(r) == r.at \subseteq Owned /\ OpFits(r) /\ LinkHas(r) /\ RekeyHas(r)

SettledInv ==
    /\ DOMAIN repo \subseteq Owned
    /\ \A p \in Proc : Fits(run[p])

LEMMA OneEntry ==
    ASSUME NEW d \in Owned, NEW e \in Owned
    PROVE  d.rel = e.rel => d = e
BY DEF Owned, Own

LEMMA IdleFits == Fits(Idle) /\ Idle.pc = "idle" /\ Idle.op = "none" /\ Idle.at = {}
BY DEF Idle, Fits, OpFits, LinkHas, RekeyHas, Still

\* The step of a command that is alone.
LEMMA StepSettles ==
    ASSUME SettledInv, NEW p \in Proc, Alone(p), \A q \in Proc \ {p} : run'[q] = run[q],
           (DOMAIN repo \subseteq Owned)', Fits(run[p])'
    PROVE  SettledInv'
<1>1. ASSUME NEW q \in Proc, q # p PROVE Fits(run[q])'
  <2>1. run'[q] = run[q] /\ run[q].pc \in Still /\ Fits(run[q])
    BY <1>1 DEF Alone, SettledInv
  <2> QED
    BY <2>1 DEF Fits, OpFits, LinkHas, RekeyHas, Still
<1> QED
  BY <1>1 DEF SettledInv

\* And of one that touches its own memory only.
LEMMA MemorySettles ==
    ASSUME TypeOK, SettledInv, NEW p \in Proc, NEW r \in Run, Step(p, r), Fits(r),
           UNCHANGED <<repo, plain, manifest, history>>
    PROVE  SettledInv'
<1>1. run'[p] = r /\ \A q \in Proc \ {p} : run'[q] = run[q]
  BY StepTyped DEF TypeOK
<1>2. ASSUME NEW q \in Proc PROVE Fits(run[q])'
  <2>1. Fits(run'[q])
    BY <1>1 DEF SettledInv
  <2> QED
    BY <2>1 DEF Fits, OpFits, LinkHas, RekeyHas, HasRead, Recorded, Follows
<1> QED
  BY <1>2 DEF SettledInv

LEMMA LinkSettled ==
    ASSUME ~Busy, TypeOK, EditInv, SettledInv, NEW p \in Proc,
           \/ StartLink(p) \/ LinkLand(p) \/ LinkSave(p)
           \/ \E e \in Carried : \/ LinkUpToDate(p, e) \/ LinkConflict(p, e)
                                \/ LinkUndecryptable(p, e) \/ LinkDecrypt(p, e)
           \/ \E f \in File : LinkPrune(p, f)
    PROVE  SettledInv'
<1>0. /\ run \in [Proc -> Run] /\ run[p] \in Run /\ Fits(run[p]) /\ DOMAIN repo \subseteq Owned
      /\ run[p].pc \notin Still => Alone(p)
      /\ repo \in Partial(Carried, Rev) /\ DOMAIN repo \subseteq Carried
      /\ \A e \in DOMAIN repo : repo[e] \in Rev
      /\ run[p].man \in Partial(File, Entry) /\ plain \in Partial(File, Content)
      /\ run[p].at \subseteq Carried /\ run[p].read \subseteq Rev
      /\ \A e \in Carried : e.rel \in File
  <2>1. DOMAIN repo \subseteq Carried /\ \A e \in DOMAIN repo : repo[e] \in Rev
    BY PartialValue DEF TypeOK
  <2>2. \A e \in Carried : e.rel \in File
    BY DEF Carried
  <2> QED
    BY <2>1, <2>2 DEF EditInv, SettledInv, TypeOK, Run
<1>1. CASE StartLink(p)
  <2> DEFINE r == [Begin(p, "link", "next") EXCEPT !.man = manifest, !.todo = DOMAIN repo,
                      !.seen = {e.rel : e \in DOMAIN repo}]
  <2>1. /\ r \in Run /\ r.pc = "next" /\ r.op = "link" /\ r.man = manifest /\ r.todo = DOMAIN repo
        /\ r.seen = {e.rel : e \in DOMAIN repo} /\ r.at = {}
    <3>1. {e.rel : e \in DOMAIN repo} \subseteq File
      BY <1>0
    <3> QED
      BY <1>0, <3>1, IdleTyped DEF Begin, Run, Idle, TypeOK
  <2>2. Step(p, r) /\ UNCHANGED <<repo, plain, manifest, history>>
    BY <1>1 DEF StartLink
  <2> HIDE DEF r
  <2>3. Fits(r)
    BY <2>1 DEF Fits, OpFits, LinkHas, RekeyHas, Still
  <2> QED
    BY <2>1, <2>2, <2>3, MemorySettles
<1>2. CASE LinkLand(p)
  <2>1. PICK e \in run[p].at, rev \in run[p].read :
          /\ plain' = Put(plain, e.rel, rev.content)
          /\ Step(p, [run[p] EXCEPT !.pc = "next", !.todo = @ \ {e}, !.at = {}, !.read = {},
                          !.man = Put(@, e.rel, [cipher |-> rev, plain |-> rev.content])])
    BY <1>2 DEF LinkLand
  <2>2. /\ run[p].pc = "land" /\ run[p].op = "link" /\ repo' = repo /\ manifest' = manifest
        /\ Alone(p) /\ LinkHas(run[p]) /\ HasRead(run[p]) /\ e \in DOMAIN repo /\ rev = repo[e]
    BY <1>0, <1>2, <2>1 DEF LinkLand, Fits, OpFits, LinkHas, HasRead, Still
  <2>3. /\ run'[p].pc = "next" /\ run'[p].op = "link" /\ run'[p].at = {}
        /\ run'[p].seen = run[p].seen /\ run'[p].skipped = run[p].skipped /\ run'[p].todo = run[p].todo \ {e}
        /\ run'[p].man = Put(run[p].man, e.rel, [cipher |-> rev, plain |-> rev.content])
        /\ \A q \in Proc \ {p} : run'[q] = run[q]
    BY <1>0, <2>1, <2>2 DEF Step, Run
  <2>4. /\ DOMAIN plain' = DOMAIN plain \cup {e.rel} /\ DOMAIN run'[p].man = DOMAIN run[p].man \cup {e.rel}
        /\ run'[p].man[e.rel].cipher = rev
        /\ \A f \in DOMAIN run[p].man : f # e.rel => run'[p].man[f] = run[p].man[f]
    BY <2>1, <2>3 DEF Put
  <2>5. ASSUME NEW d \in DOMAIN repo \ (run'[p].todo \cup run'[p].skipped)
        PROVE  d.rel \in DOMAIN plain' \cap DOMAIN run'[p].man /\ run'[p].man[d.rel].cipher = repo[d]
    <3>1. CASE d = e
      BY <2>2, <2>4, <3>1
    <3>2. CASE d # e
      <4>1. d.rel # e.rel
        BY <1>0, <2>2, <3>2, OneEntry
      <4>2. Recorded(run[p].man, d)
        BY <2>2, <2>3, <2>5, <3>2 DEF LinkHas
      <4> QED
        BY <2>4, <4>1, <4>2 DEF Recorded
    <3> QED
      BY <3>1, <3>2
  <2>6. e.rel \in run[p].seen /\ run[p].seen = {d.rel : d \in DOMAIN repo}
    BY <2>2 DEF LinkHas
  <2>7. ASSUME NEW f \in DOMAIN manifest \cap DOMAIN plain' PROVE f \in DOMAIN run'[p].man \cup run'[p].seen
    BY <2>2, <2>3, <2>4, <2>6, <2>7 DEF LinkHas
  <2>8. Fits(run[p])'
    BY <2>2, <2>3, <2>5, <2>6, <2>7 DEF Fits, OpFits, LinkHas, RekeyHas, Recorded, Still
  <2> QED
    BY <1>0, <2>2, <2>3, <2>8, StepSettles
<1>3. CASE LinkSave(p)
  <2>1. /\ run'[p] = Idle /\ (\A q \in Proc \ {p} : run'[q] = run[q]) /\ repo' = repo
    BY <1>0, <1>3, IdleTyped, StepTyped DEF LinkSave
  <2>2. Alone(p)
    BY <1>0, <1>3 DEF LinkSave, Still
  <2>3. Fits(run[p])'
    BY <2>1, IdleFits DEF Fits, OpFits, LinkHas, RekeyHas
  <2> QED
    BY <1>0, <2>1, <2>2, <2>3, StepSettles
<1>4. ASSUME NEW e \in Carried, LinkUpToDate(p, e) PROVE SettledInv'
  <2> DEFINE r == [run[p] EXCEPT !.todo = @ \ {e}]
  <2>1. /\ r \in Run /\ r.pc = "next" /\ r.op = "link" /\ r.man = run[p].man /\ r.at = run[p].at
        /\ r.seen = run[p].seen /\ r.skipped = run[p].skipped /\ r.todo = run[p].todo \ {e}
        /\ run[p].op = "link" /\ Recorded(run[p].man, e)
    BY <1>0, <1>4 DEF LinkUpToDate, Visiting, Run, UpToDate, Known, Recorded
  <2>2. Step(p, r) /\ UNCHANGED <<repo, plain, manifest, history>>
    BY <1>4 DEF LinkUpToDate
  <2> HIDE DEF r
  <2>3. Fits(r)
    BY <1>0, <2>1 DEF Fits, OpFits, LinkHas, RekeyHas, Still
  <2> QED
    BY <2>1, <2>2, <2>3, MemorySettles
<1>5. ASSUME NEW e \in Carried, run[p].pc = "next", run[p].op = "link", Skip(p, e) PROVE SettledInv'
  <2>1. CASE Step(p, Idle)
    BY <1>5, <2>1, IdleTyped, IdleFits, MemorySettles DEF Skip
  <2>2. CASE Step(p, [run[p] EXCEPT !.todo = @ \ {e}, !.skipped = @ \cup {e}])
    <3> DEFINE r == [run[p] EXCEPT !.todo = @ \ {e}, !.skipped = @ \cup {e}]
    <3>1. /\ r \in Run /\ r.pc = "next" /\ r.op = "link" /\ r.man = run[p].man /\ r.at = run[p].at
          /\ r.seen = run[p].seen /\ r.skipped = run[p].skipped \cup {e} /\ r.todo = run[p].todo \ {e}
      BY <1>0, <1>5 DEF Run
    <3>2. Step(p, r) /\ UNCHANGED <<repo, plain, manifest, history>>
      BY <1>5, <2>2 DEF Skip
    <3> HIDE DEF r
    <3>3. Fits(r)
      BY <1>0, <1>5, <3>1 DEF Fits, OpFits, LinkHas, RekeyHas, Still
    <3> QED
      BY <3>1, <3>2, <3>3, MemorySettles
  <2> QED
    BY <1>5, <2>1, <2>2 DEF Skip
<1>6. ASSUME NEW e \in Carried, LinkDecrypt(p, e) PROVE SettledInv'
  <2> DEFINE r == [run[p] EXCEPT !.pc = "land", !.at = {e}, !.read = {repo[e]}]
  <2>1. e \in DOMAIN repo /\ run[p].op = "link"
    BY <1>6 DEF LinkDecrypt, Visiting
  <2>2. /\ r \in Run /\ r.pc = "land" /\ r.op = "link" /\ r.man = run[p].man /\ r.at = {e} /\ r.read = {repo[e]}
        /\ r.seen = run[p].seen /\ r.skipped = run[p].skipped /\ r.todo = run[p].todo
    BY <1>0, <2>1 DEF Run
  <2>3. Step(p, r) /\ UNCHANGED <<repo, plain, manifest, history>>
    BY <1>6 DEF LinkDecrypt
  <2> HIDE DEF r
  <2>4. Fits(r)
    BY <1>0, <2>1, <2>2 DEF Fits, OpFits, LinkHas, RekeyHas, HasRead, Still
  <2> QED
    BY <2>2, <2>3, <2>4, MemorySettles
<1>7. ASSUME NEW f \in File, LinkPrune(p, f) PROVE SettledInv'
  <2>1. /\ run[p].pc = "next" /\ run[p].op = "link" /\ f \in DOMAIN run[p].man \ run[p].seen
        /\ repo' = repo /\ manifest' = manifest /\ plain' = Drop(plain, f) /\ Alone(p) /\ LinkHas(run[p])
    BY <1>0, <1>7 DEF LinkPrune, Still, Fits
  <2>2. /\ run'[p].pc = "next" /\ run'[p].op = "link" /\ run'[p].at = run[p].at
        /\ run'[p].seen = run[p].seen /\ run'[p].skipped = run[p].skipped /\ run'[p].todo = run[p].todo
        /\ run'[p].man = Drop(run[p].man, f)
        /\ \A q \in Proc \ {p} : run'[q] = run[q]
    BY <1>0, <1>7, <2>1 DEF LinkPrune, Step, Run
  <2>3. /\ DOMAIN plain' = DOMAIN plain \ {f} /\ DOMAIN run'[p].man = DOMAIN run[p].man \ {f}
        /\ \A g \in DOMAIN run[p].man : g # f => run'[p].man[g] = run[p].man[g]
    BY <2>1, <2>2 DEF Drop
  <2>4. ASSUME NEW d \in DOMAIN repo \ (run'[p].todo \cup run'[p].skipped)
        PROVE  d.rel \in DOMAIN plain' \cap DOMAIN run'[p].man /\ run'[p].man[d.rel].cipher = repo[d]
    <3>1. d.rel \in run[p].seen /\ Recorded(run[p].man, d)
      BY <2>1, <2>2, <2>4 DEF LinkHas
    <3> QED
      BY <2>1, <2>3, <3>1 DEF Recorded
  <2>5. Fits(run[p])'
    BY <1>0, <2>1, <2>2, <2>3, <2>4 DEF Fits, OpFits, LinkHas, RekeyHas, Recorded, Still
  <2> QED
    BY <1>0, <2>1, <2>2, <2>5, StepSettles
<1> QED
  BY <1>1, <1>2, <1>3, <1>4, <1>5, <1>6, <1>7 DEF LinkConflict, LinkUndecryptable, Visiting

LEMMA StoreSettled ==
    ASSUME ~Busy, ~Siblings, TypeOK, EditInv, SettledInv, NEW p \in Proc,
           \/ \E f \in File, c \in Content : StartEncrypt(p, f, c)
           \/ \E e \in Carried : StartEdit(p, e)
           \/ EditUnchanged(p) \/ Stop(p)
           \/ \E c \in Content : EditSave(p, c)
           \/ StoreRepo(p) \/ StorePlain(p) \/ StoreRecord(p) \/ StoreSave(p)
    PROVE  SettledInv'
<1>0. /\ run \in [Proc -> Run] /\ run[p] \in Run /\ Fits(run[p]) /\ DOMAIN repo \subseteq Owned
      /\ run[p].pc \notin Still => Alone(p)
      /\ \A q \in Proc \ {p} : run'[q] = run[q]
  BY DEF EditInv, SettledInv, TypeOK, StartEncrypt, StartEdit, EditUnchanged, Stop, EditSave, StoreRepo,
         StorePlain, StoreRecord, StoreSave, Step, Goto
<1>1. CASE \/ \E f \in File, c \in Content : StartEncrypt(p, f, c)
           \/ \E e \in Carried : StartEdit(p, e)
  <2>1. /\ run'[p].op \in {"encrypt", "edit"} /\ run'[p].pc \in {"store", "editor"}
        /\ run'[p].at \subseteq Owned
    <3>1. ASSUME NEW f \in File, NEW c \in Content, StartEncrypt(p, f, c)
          PROVE  run'[p].op = "encrypt" /\ run'[p].pc = "store" /\ run'[p].at = {Own(f)}
      <4>1. [rel |-> f, encrypted |-> TRUE] = Own(f)
        BY <3>1 DEF StartEncrypt, Own
      <4> QED
        BY <1>0, <3>1, <4>1 DEF StartEncrypt, Step, Begin, Idle
    <3>2. ASSUME NEW e \in Carried, StartEdit(p, e)
          PROVE  run'[p].op = "edit" /\ run'[p].pc = "editor" /\ run'[p].at = {e} /\ e \in Owned
      BY <1>0, <3>2 DEF StartEdit, Step, Begin, Idle
    <3> QED
      BY <1>1, <3>1, <3>2 DEF Owned
  <2>2. Free /\ repo' = repo
    BY <1>1 DEF StartEncrypt, StartEdit
  <2>3. Fits(run[p])'
    BY <2>1 DEF Fits, OpFits, LinkHas, RekeyHas, Still
  <2> QED
    BY <1>0, <2>2, <2>3, FreeAlone, StepSettles
<1>2. CASE EditUnchanged(p) \/ Stop(p)
  BY <1>2, IdleTyped, IdleFits, MemorySettles DEF EditUnchanged, Stop
<1>3. CASE (\E c \in Content : EditSave(p, c)) \/ StoreRepo(p) \/ StorePlain(p) \/ StoreRecord(p)
  <2>1. /\ run[p].pc \in {"editor", "store", "plain", "record"} /\ Alone(p)
        /\ run'[p].op = run[p].op /\ run'[p].pc \in {"store", "plain", "record", "save"}
        /\ run'[p].at = run[p].at
    <3>1. DOMAIN run[p] = {"op", "pc", "todo", "seen", "skipped", "man", "at", "read", "text", "was"}
      BY <1>0 DEF Run
    <3>2. CASE \E c \in Content : EditSave(p, c)
      BY <1>0, <3>1, <3>2, FreeAlone DEF EditSave, Step, Still
    <3>3. CASE StoreRepo(p)
      BY <1>0, <3>1, <3>3 DEF StoreRepo, Step, Still
    <3>4. CASE StorePlain(p)
      BY <1>0, <3>1, <3>4 DEF StorePlain, Goto, Step, Still
    <3>5. CASE StoreRecord(p)
      BY <1>0, <3>1, <3>5 DEF StoreRecord, Goto, Step, Still
    <3> QED
      BY <1>3, <3>2, <3>3, <3>4, <3>5
  <2>2. run[p].op \notin {"link", "rekey"}
    BY <1>0, <2>1 DEF Fits, OpFits, Still
  <2>3. Fits(run[p])'
    BY <1>0, <2>1, <2>2 DEF Fits, OpFits, LinkHas, RekeyHas, Still
  <2>4. (DOMAIN repo \subseteq Owned)'
    <3>1. CASE StoreRepo(p)
      <4>1. PICK e \in run[p].at, c \in run[p].text : repo' = Put(repo, e, Encrypt(e, c))
        BY <3>1 DEF StoreRepo
      <4> QED
        BY <1>0, <4>1 DEF Put, Fits
    <3>2. CASE repo' = repo
      BY <1>0, <3>2
    <3> QED
      BY <1>3, <3>1, <3>2 DEF EditSave, StorePlain, StoreRecord
  <2> QED
    BY <1>0, <2>1, <2>3, <2>4, StepSettles
<1>4. CASE StoreSave(p)
  <2>1. run'[p] = Idle /\ repo' = repo /\ Alone(p)
    BY <1>0, <1>4 DEF StoreSave, Step, Still
  <2>2. Fits(run[p])'
    BY <2>1, IdleFits DEF Fits, OpFits, LinkHas, RekeyHas
  <2> QED
    BY <1>0, <2>1, <2>2, StepSettles
<1> QED
  BY <1>1, <1>2, <1>3, <1>4

LEMMA ClassifyFollows == ASSUME NEW e PROVE Follows(Classify(e), manifest, e)
BY DEF Follows, Classify, FileState, Recorded

\* A state that was followed through is, as the memory is saved, one the record gives.
LEMMA SavedState ==
    ASSUME NEW e, NEW state, NEW man, Follows(state, man, e),
           manifest' = man, plain' = plain, repo' = repo
    PROVE  \/ Classify(e)' = state
           \/ state = "stale" /\ Classify(e)' = "ok"
           \/ state = "conflict" /\ Classify(e)' = "drifted"
<1> DEFINE present == e.rel \in DOMAIN plain \cap DOMAIN man
           stale == repo[e] # man[e.rel].cipher
           drifted == plain[e.rel] # man[e.rel].plain
<1>1. Classify(e)' = IF ~present THEN "missing"
                     ELSE CASE stale /\ drifted -> "conflict"
                            [] stale /\ ~drifted -> "stale"
                            [] ~stale /\ drifted -> "drifted"
                            [] OTHER -> "ok"
  BY DEF Classify
<1>2. CASE ~present
  BY <1>1, <1>2 DEF Follows
<1>3. CASE present /\ drifted
  <2>1. state \in {"drifted", "conflict"} /\ (state = "drifted" => ~stale)
    BY <1>3 DEF Follows, Recorded
  <2>2. Classify(e)' = IF stale THEN "conflict" ELSE "drifted"
    BY <1>1, <1>3
  <2> QED
    BY <2>1, <2>2
<1>4. CASE present /\ ~drifted
  <2>1. state \in {"ok", "stale"} /\ (state = "ok" => ~stale)
    BY <1>4 DEF Follows, FileState, Recorded
  <2>2. Classify(e)' = IF stale THEN "stale" ELSE "ok"
    BY <1>1, <1>4
  <2> QED
    BY <2>1, <2>2
<1> QED
  BY <1>2, <1>3, <1>4

\* The new cipher is recorded for the path encrypted again, if for any.
LEMMA RefreshedCipher ==
    ASSUME NEW man \in Partial(File, Entry), NEW f, NEW old, NEW new
    PROVE  /\ \A g \in DOMAIN man : g # f => Refreshed(man, f, old, new)[g] = man[g]
           /\ f \in DOMAIN man /\ man[f].plain = old.content => Refreshed(man, f, old, new)[f].cipher = new
<1>1. CASE f \in DOMAIN man /\ man[f].plain = old.content
  <2>1. Refreshed(man, f, old, new) = [man EXCEPT ![f] = [man[f] EXCEPT !.cipher = new]]
    BY <1>1 DEF Refreshed
  <2>2. [man[f] EXCEPT !.cipher = new].cipher = new
    <3>1. man[f] \in Entry
      BY <1>1, PartialValue
    <3> QED
      BY <3>1 DEF Entry
  <2>3. ASSUME NEW g \in DOMAIN man
        PROVE  [man EXCEPT ![f] = [man[f] EXCEPT !.cipher = new]][g]
                 = IF g = f THEN [man[f] EXCEPT !.cipher = new] ELSE man[g]
    BY ExceptValue, <1>1
  <2> QED
    BY <1>1, <2>1, <2>2, <2>3
<1>2. CASE ~(f \in DOMAIN man /\ man[f].plain = old.content)
  BY <1>2 DEF Refreshed
<1> QED
  BY <1>1, <1>2

LEMMA RekeySettled ==
    ASSUME ~Busy, TypeOK, RecordInv, EditInv, SettledInv, NEW p \in Proc,
           \/ StartRekey(p) \/ RekeyWrite(p) \/ RekeySave(p)
           \/ \E e \in Carried : RekeyRead(p, e)
    PROVE  SettledInv'
<1>0. /\ run \in [Proc -> Run] /\ run[p] \in Run /\ Fits(run[p]) /\ DOMAIN repo \subseteq Owned
      /\ run[p].pc \notin Still => Alone(p)
      /\ \A q \in Proc \ {p} : run'[q] = run[q]
      /\ run[p].man \in Partial(File, Entry) /\ Truthful(run[p].man)
      /\ DOMAIN repo \subseteq Carried /\ \A e \in DOMAIN repo : repo[e] \in Rev
  BY PartialValue DEF EditInv, SettledInv, RecordInv, TypeOK, Run, StartRekey, RekeyWrite,
                     RekeySave, RekeyRead, Step
<1>1. CASE StartRekey(p)
  <2>1. /\ run'[p].op = "rekey" /\ run'[p].pc = "next" /\ run'[p].man = manifest /\ run'[p].at = {}
        /\ run'[p].was = [e \in DOMAIN repo |-> Classify(e)]
    BY <1>0, <1>1 DEF StartRekey, Step, Begin, Idle
  <2>2. repo' = repo /\ plain' = plain /\ manifest' = manifest /\ Free
    BY <1>1 DEF StartRekey
  <2>3. ASSUME NEW e \in DOMAIN repo PROVE Follows(run'[p].was[e], run'[p].man, e)
    BY <2>1, ClassifyFollows
  <2>4. Fits(run[p])'
    BY <2>1, <2>2, <2>3 DEF Fits, OpFits, LinkHas, RekeyHas, Follows, Recorded, Still
  <2> QED
    BY <1>0, <2>2, <2>4, FreeAlone, StepSettles
<1>2. ASSUME NEW e \in Carried, RekeyRead(p, e) PROVE SettledInv'
  <2>1. /\ run[p].op = "rekey" /\ run[p].pc = "next" /\ e \in DOMAIN repo
        /\ repo' = repo /\ plain' = plain /\ manifest' = manifest /\ Alone(p)
    BY <1>0, <1>2 DEF RekeyRead, Visiting, Still
  <2>2. /\ run'[p].op = "rekey" /\ run'[p].pc = "rewrite" /\ run'[p].at = {e} /\ run'[p].read = {repo[e]}
        /\ run'[p].man = run[p].man /\ run'[p].was = run[p].was
    BY <1>0, <1>2, <2>1 DEF RekeyRead, Step, Run
  <2>3. Fits(run[p])'
    BY <1>0, <2>1, <2>2 DEF Fits, OpFits, LinkHas, RekeyHas, HasRead, Follows, Recorded, Still
  <2> QED
    BY <1>0, <2>1, <2>3, StepSettles
<1>3. CASE RekeyWrite(p)
  <2>1. PICK e \in run[p].at, old \in run[p].read :
          /\ Unused(e, old.content) # {}
          /\ repo' = Put(repo, e, Encrypt(e, old.content))
          /\ Step(p, [run[p] EXCEPT !.pc = "next", !.todo = @ \ {e}, !.at = {}, !.read = {},
                          !.man = Refreshed(@, e.rel, old, Encrypt(e, old.content))])
    BY <1>3 DEF RekeyWrite
  <2> DEFINE new == Encrypt(e, old.content)
  <2>2. /\ run[p].pc = "rewrite" /\ run[p].op = "rekey" /\ plain' = plain /\ Alone(p)
        /\ RekeyHas(run[p]) /\ e \in DOMAIN repo /\ old = repo[e]
    BY <1>0, <1>3, <2>1 DEF RekeyWrite, history, Fits, OpFits, RekeyHas, HasRead, Still
  <2>3. /\ run'[p].op = "rekey" /\ run'[p].pc = "next" /\ run'[p].at = {} /\ run'[p].was = run[p].was
        /\ run'[p].man = Refreshed(run[p].man, e.rel, old, new)
    BY <1>0, <2>1, <2>2 DEF Step, Run
  <2>4. DOMAIN repo' = DOMAIN repo /\ repo'[e] = new /\ \A d \in DOMAIN repo : d # e => repo'[d] = repo[d]
    BY <2>1, <2>2 DEF Put
  <2> HIDE DEF new
  <2>5. /\ DOMAIN run'[p].man = DOMAIN run[p].man
        /\ \A g \in DOMAIN run[p].man : run'[p].man[g].plain = run[p].man[g].plain
        /\ \A g \in DOMAIN run[p].man : g # e.rel => run'[p].man[g] = run[p].man[g]
        /\ e.rel \in DOMAIN run[p].man /\ run[p].man[e.rel].plain = old.content => run'[p].man[e.rel].cipher = new
    BY <1>0, <2>3, RefreshedPlain, RefreshedCipher
  <2>6. ASSUME NEW d \in DOMAIN repo PROVE Follows(run[p].was[d], run[p].man, d)'
    <3>1. Follows(run[p].was[d], run[p].man, d)
      BY <2>2 DEF RekeyHas
    <3>2. Recorded(run[p].man, d) => d.rel \in DOMAIN plain' \cap DOMAIN run'[p].man
                                     /\ run'[p].man[d.rel].cipher = repo'[d]
      <4>1. CASE d = e
        <5>1. Recorded(run[p].man, e) => run[p].man[e.rel].plain = old.content
          BY <1>0, <2>2 DEF Recorded, Truthful
        <5> QED
          BY <2>2, <2>4, <2>5, <4>1, <5>1 DEF Recorded
      <4>2. CASE d # e
        <5>1. d.rel # e.rel
          BY <1>0, <2>2, <4>2, OneEntry
        <5> QED
          BY <2>2, <2>4, <2>5, <4>2, <5>1 DEF Recorded
      <4> QED
        BY <4>1, <4>2
    <3> QED
      BY <2>2, <2>3, <2>5, <3>1, <3>2 DEF Follows, Recorded
  <2>7. Fits(run[p])'
    <3>1. DOMAIN run'[p].was = DOMAIN repo'
      BY <2>2, <2>3, <2>4 DEF RekeyHas
    <3>2. \A d \in DOMAIN repo' : Follows(run[p].was[d], run[p].man, d)'
      BY <2>4, <2>6
    <3>3. RekeyHas(run[p])'
      BY <2>3, <3>1, <3>2 DEF RekeyHas
    <3> QED
      BY <2>3, <3>3 DEF Fits, OpFits, LinkHas, Still
  <2> QED
    BY <1>0, <2>2, <2>4, <2>7, StepSettles
<1>4. CASE RekeySave(p)
  <2>1. run'[p] = Idle /\ repo' = repo /\ Alone(p)
    BY <1>0, <1>4 DEF RekeySave, Step, Still
  <2>2. Fits(run[p])'
    BY <2>1, IdleFits DEF Fits, OpFits, LinkHas, RekeyHas
  <2> QED
    BY <1>0, <2>1, <2>2, StepSettles
<1> QED
  BY <1>1, <1>2, <1>3, <1>4

LEMMA UserSettled ==
    ASSUME ~Busy, TypeOK, SettledInv, User
    PROVE  SettledInv'
<1>1. Free /\ run' = run /\ \A p \in Proc : run[p].pc \in Still
  BY DEF User, UserEdits, UserRemoves, RepoChanges, RepoRemoves, Free, Quiet, Still
<1>2. ASSUME NEW p \in Proc PROVE Fits(run[p])'
  <2>1. Fits(run[p]) /\ run[p].op \notin {"link", "rekey"}
    BY <1>1 DEF SettledInv, Fits, OpFits
  <2> QED
    BY <1>1, <2>1 DEF Fits, OpFits, LinkHas, RekeyHas
<1>3. DOMAIN repo' \subseteq Owned
  <2>1. DOMAIN repo \subseteq Owned /\ \A f \in File : Own(f) \in Owned
    BY DEF SettledInv, Owned
  <2>2. ASSUME NEW e \in DOMAIN repo \cup {Own(f) : f \in File}, RepoChanges(e)
        PROVE  DOMAIN repo' \subseteq DOMAIN repo \cup {e}
    BY <2>2 DEF RepoChanges, Put
  <2>3. ASSUME NEW e \in DOMAIN repo, RepoRemoves(e) PROVE DOMAIN repo' \subseteq DOMAIN repo
    BY <2>3 DEF RepoRemoves, Drop
  <2>4. CASE repo' = repo
    BY <2>1, <2>4
  <2> QED
    BY <2>1, <2>2, <2>3, <2>4 DEF User, UserEdits, UserRemoves
<1> QED
  BY <1>2, <1>3 DEF SettledInv

LEMMA NextSettled ==
    ASSUME ~Busy, ~Siblings
    PROVE  TypeOK /\ RecordInv /\ EditInv /\ SettledInv /\ [Next]_vars => SettledInv'
<1> SUFFICES ASSUME TypeOK, RecordInv, EditInv, SettledInv, [Next]_vars PROVE SettledInv'
  OBVIOUS
<1>1. ASSUME NEW p \in Proc, Command(p) PROVE SettledInv'
  BY <1>1, LinkSettled, StoreSettled, RekeySettled DEF Command
<1>2. CASE UNCHANGED vars
  BY <1>2 DEF vars, SettledInv, Fits, OpFits, LinkHas, RekeyHas, HasRead, Recorded, Follows
<1> QED
  BY <1>1, <1>2, UserSettled DEF Next

LEMMA InitSettled == Init => SettledInv
<1> SUFFICES ASSUME Init PROVE SettledInv
  OBVIOUS
<1>1. DOMAIN repo = Owned
  BY DEF Init, Owned
<1>2. \A p \in Proc : run[p] = Idle
  BY DEF Init
<1> QED
  BY <1>1, <1>2, IdleFits DEF SettledInv

\* privdot/apply.go and rekey.go: a link leaves every entry it did not skip current or
\* drifted and nothing of a path the profile dropped; a rekey leaves every entry in the
\* state it found it in, but that an equal content is no longer stale. For any paths,
\* contents and encryptions, when nobody else acts during a command and the user
\* encrypts no path that is stored as it is.
THEOREM DoneMeansSettled == ASSUME ~Busy, ~Siblings PROVE Spec => SettledWhenDone
<1> DEFINE Inv == TypeOK /\ RecordInv /\ EditInv /\ SettledInv
<1>1. Init => Inv
  BY InitTyped, InitRecords, InitKeeps, InitSettled
<1>2. Inv /\ [Next]_vars => Inv'
  BY NextTyped, NextRecords, NextKeeps, NextSettled
<1>3. ASSUME Inv, NEW p \in Proc PROVE LinkSettles(p)
  <2>1. SUFFICES ASSUME LinkSave(p)
                 PROVE  /\ \A e \in DOMAIN repo \ run[p].skipped : Classify(e)' \in {"ok", "drifted"}
                        /\ \A f \in DOMAIN manifest : f \in DOMAIN plain' => \E e \in DOMAIN repo : e.rel = f
    BY DEF LinkSettles
  <2>2. /\ LinkHas(run[p]) /\ run[p].op = "link" /\ run[p].todo = {} /\ DOMAIN run[p].man \subseteq run[p].seen
        /\ manifest' = run[p].man /\ repo' = repo /\ plain' = plain
    BY <1>3, <2>1 DEF LinkSave, SettledInv, Fits
  <2>3. ASSUME NEW e \in DOMAIN repo \ run[p].skipped PROVE Classify(e)' \in {"ok", "drifted"}
    <3>1. Recorded(run[p].man, e)
      BY <2>2 DEF LinkHas
    <3> QED
      BY <2>2, <3>1 DEF Recorded, Classify
  <2>4. ASSUME NEW f \in DOMAIN manifest, f \in DOMAIN plain' PROVE \E e \in DOMAIN repo : e.rel = f
    BY <2>2, <2>4 DEF LinkHas
  <2> QED
    BY <2>3, <2>4
<1>4. ASSUME Inv, NEW p \in Proc PROVE RekeyKeepsState(p)
  <2>1. SUFFICES ASSUME RekeySave(p), NEW e \in DOMAIN repo
                 PROVE  \/ Classify(e)' = run[p].was[e]
                        \/ run[p].was[e] = "stale" /\ Classify(e)' = "ok"
                        \/ run[p].was[e] = "conflict" /\ Classify(e)' = "drifted"
    BY DEF RekeyKeepsState
  <2>2. /\ Follows(run[p].was[e], run[p].man, e)
        /\ manifest' = run[p].man /\ repo' = repo /\ plain' = plain
    BY <1>4, <2>1 DEF RekeySave, SettledInv, Fits, RekeyHas
  <2> QED
    BY <2>2, SavedState
<1>5. Inv /\ [Next]_vars => [\A p \in Proc : LinkSettles(p) /\ RekeyKeepsState(p)]_vars
  BY <1>3, <1>4
<1> HIDE DEF Inv
<1> QED
  BY <1>1, <1>2, <1>5, PTL DEF Spec, SettledWhenDone

=============================================================================
