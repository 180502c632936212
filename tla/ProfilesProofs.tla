--------------------------- MODULE ProfilesProofs ---------------------------
(* Proofs about Profiles, for any set of names, any set of processes and any  *)
(* way the config directory was populated; and about Linker, which init and   *)
(* link run over the renders of the active profile, for any repository, sites *)
(* and contents.                                                              *)
EXTENDS Profiles, Linker, FiniteSetTheorems, TLAPS

-----------------------------------------------------------------------------
\* Type correctness. TypeOK is not inductive alone: a step that uses the
\* profile a command activates or deletes relies on the command having one.

Targeting == {"render", "readdir", "relink", "check", "clear", "make", "swap", "copies",
              "materialize", "unlink", "symlink"}
Dooming == {"delete", "backing", "site"}

Named(c) ==
    /\ c.pc \in Targeting => c.target \in Name
    /\ c.pc \in Dooming => c.op = "delete"
    /\ c.op = "delete" => c.doomed \in Name

CmdInv == cmd \in [Proc -> Command] /\ \A p \in Proc : Named(cmd[p])

TypeInv == TypeOK /\ CmdInv

LEMMA IdleTyped == Idle \in Command /\ Idle.pc = "idle" /\ Idle.op = "idle" /\ Idle.todo = {}
BY DEF Idle, Command, Op, Pc, EntryKind

\* A process that moves to another program counter keeps a well-typed command.
LEMMA GotoTyped ==
    ASSUME TypeInv, NEW p \in Proc, NEW pc \in Pc, Goto(p, pc),
           pc \in Targeting => cmd[p].target \in Name,
           pc \in Dooming => cmd[p].op = "delete"
    PROVE  /\ CmdInv'
           /\ cmd'[p] = [cmd[p] EXCEPT !.pc = pc]
           /\ \A q \in Proc \ {p} : cmd'[q] = cmd[q]
BY DEF TypeInv, CmdInv, Goto, Command, Named, Named

\* So does a process that is done.
LEMMA DoneTyped ==
    ASSUME TypeInv, NEW p \in Proc, Done(p)
    PROVE  /\ CmdInv'
           /\ cmd'[p] = Idle
           /\ \A q \in Proc \ {p} : cmd'[q] = cmd[q]
BY IdleTyped DEF TypeInv, CmdInv, Done, Named, Targeting, Dooming

\* And one that starts.
LEMMA StartTyped ==
    ASSUME TypeInv, NEW p \in Proc, NEW op \in Op, NEW pc \in Pc,
           NEW target \in Name \cup {NoName}, NEW doomed \in Name \cup {NoName},
           Start(p, op, pc, target, doomed),
           pc \in Targeting => target \in Name,
           pc \in Dooming => op = "delete",
           op = "delete" => doomed \in Name
    PROVE  /\ CmdInv'
           /\ cmd'[p].pc = pc /\ cmd'[p].target = target /\ cmd'[p].doomed = doomed
           /\ cmd'[p].todo = {}
           /\ \A q \in Proc \ {p} : cmd'[q] = cmd[q]
BY DEF TypeInv, CmdInv, Start, Command, Idle, EntryKind, Named

\* The private steps go on to delete, or are done.
LEMMA AfterPrivateTyped ==
    ASSUME TypeInv, NEW p \in Proc, AfterPrivate(p)
    PROVE  /\ CmdInv'
           /\ cmd'[p] \in {Idle, [cmd[p] EXCEPT !.pc = "delete"]}
           /\ \A q \in Proc \ {p} : cmd'[q] = cmd[q]
BY GotoTyped, DoneTyped DEF AfterPrivate, Pc, Targeting, Dooming

LEMMA InitTyped == Init => TypeInv
BY IdleTyped, KindsAssumption, HasPrivateAssumption
   DEF Init, TypeInv, CmdInv, TypeOK, EntryKind, Named, Targeting, Dooming

LEMMA BeginTyped ==
    ASSUME TypeInv, NEW p \in Proc, Begin(p) PROVE TypeInv'
<1>1. CmdInv'
  <2>1. ASSUME NEW n \in Name, StartActivate(p, n) PROVE CmdInv'
    BY <2>1, StartTyped DEF StartActivate, Op, Pc, Dooming
  <2>2. ASSUME NEW n \in Name, StartInit(p, n) PROVE CmdInv'
    BY <2>2, StartTyped DEF StartInit, Op, Pc, Dooming
  <2>3. ASSUME NEW n \in Name, StartLink(p, n) PROVE CmdInv'
    BY <2>3, StartTyped DEF StartLink, Op, Pc, Dooming
  <2>4. ASSUME NEW n \in Name, NEW r \in Name \cup {NoName}, StartDelete(p, n, r) PROVE CmdInv'
    <3>1. CASE r = NoName
      <4>1. Start(p, "delete", "delete", r, n)
        BY <2>4, <3>1 DEF StartDelete
      <4> QED BY <4>1, StartTyped DEF Op, Pc, Targeting
    <3>2. CASE r # NoName
      <4>1. Start(p, "delete", "check", r, n)
        BY <2>4, <3>2 DEF StartDelete
      <4> QED BY <3>2, <4>1, StartTyped DEF Op, Pc
    <3> QED BY <3>1, <3>2
  <2>5. ASSUME StartPrivateLink(p) PROVE CmdInv'
    BY <2>5, StartTyped, HasPrivateAssumption DEF StartPrivateLink, Op, Pc, Dooming
  <2> QED BY <2>1, <2>2, <2>3, <2>4, <2>5 DEF Begin
<1>2. UNCHANGED <<files, history>>
  BY DEF Begin, StartActivate, StartInit, StartLink, StartDelete, StartPrivateLink
<1> QED BY <1>1, <1>2 DEF TypeInv, CmdInv, TypeOK, files, history

LEMMA RelinkTyped ==
    ASSUME TypeInv, NEW p \in Proc, Render(p) \/ Relink(p) PROVE TypeInv'
<1>1. CASE Render(p)
  <2>1. cmd[p].target \in Name
    BY <1>1 DEF Render, TypeInv, CmdInv, Named, Targeting
  <2>2. CmdInv'
    BY <1>1, <2>1, GotoTyped DEF Render, Pc, Dooming
  <2> QED BY <1>1, <2>1, <2>2 DEF Render, TypeInv, CmdInv, TypeOK, EntryKind
<1>2. CASE ReadProfiles(p)
  <2>1. CmdInv'
    <3> DEFINE c == [cmd[p] EXCEPT !.pc = "relink", !.todo = repo]
    <3>1. cmd[p] \in Command /\ cmd[p].target \in Name
      BY <1>2 DEF ReadProfiles, TypeInv, CmdInv, Named, Targeting
    <3>2. c \in Command /\ c.pc = "relink" /\ c.target = cmd[p].target
          /\ c.op = cmd[p].op /\ c.doomed = cmd[p].doomed
      BY <3>1 DEF TypeInv, TypeOK, Command, Pc
    <3>3. Named(c)
      BY <3>1, <3>2 DEF TypeInv, CmdInv, Named, Dooming
    <3>4. cmd' = [cmd EXCEPT ![p] = c]
      BY <1>2 DEF ReadProfiles
    <3> HIDE DEF c
    <3> QED BY <3>2, <3>3, <3>4 DEF TypeInv, CmdInv
  <2> QED BY <1>2, <2>1 DEF ReadProfiles, TypeInv, CmdInv, TypeOK, files, history
<1>3. ASSUME NEW n \in Name, KeepEntry(p, n) PROVE TypeInv'
  <2>1. CmdInv'
    BY <1>3 DEF KeepEntry, TypeInv, CmdInv, Command, Named
  <2> QED BY <1>3, <2>1 DEF KeepEntry, TypeInv, CmdInv, TypeOK, files, history
<1>4. ASSUME NEW n \in Name, ClearEntry(p, n) PROVE TypeInv'
  <2>1. CmdInv'
    BY <1>4 DEF ClearEntry, TypeInv, CmdInv, Command, Named
  <2> QED BY <1>4, <2>1 DEF ClearEntry, TypeInv, CmdInv, TypeOK, EntryKind, history
<1>5. ASSUME NEW n \in Name, LinkEntry(p, n) PROVE TypeInv'
  <2>1. CmdInv'
    BY <1>5 DEF LinkEntry, TypeInv, CmdInv, Command, Named
  <2> QED BY <1>5, <2>1 DEF LinkEntry, TypeInv, CmdInv, TypeOK, EntryKind, history
<1>6. CASE Relinked(p)
  <2>1. CmdInv'
    BY <1>6, GotoTyped DEF Relinked, TypeInv, CmdInv, Named, Pc, Targeting, Dooming
  <2> QED BY <1>6, <2>1 DEF Relinked, TypeInv, CmdInv, TypeOK, files, history
<1> QED BY <1>1, <1>2, <1>3, <1>4, <1>5, <1>6 DEF Relink

LEMMA ActivateTyped ==
    ASSUME TypeInv, NEW p \in Proc, Activate(p) PROVE TypeInv'
<1>1. CmdInv'
  <2>1. cmd[p].target \in Name
    BY DEF Activate, CheckTarget, ClearTemp, MakeTemp, SwapLink, ApplyCopies,
           TypeInv, CmdInv, Named, Targeting
  <2>2. CASE CheckTarget(p)
    BY <2>1, <2>2, GotoTyped DEF CheckTarget, Pc, Dooming
  <2>3. CASE ClearTemp(p)
    BY <2>1, <2>3, GotoTyped DEF ClearTemp, Pc, Dooming
  <2>4. CASE MakeTemp(p)
    BY <2>1, <2>4, GotoTyped DEF MakeTemp, Pc, Dooming
  <2>5. CASE SwapLink(p)
    BY <2>1, <2>5, GotoTyped DEF SwapLink, Pc, Dooming
  <2>6. CASE ApplyCopies(p)
    BY <2>1, <2>6, IdleTyped
       DEF ApplyCopies, TypeInv, CmdInv, Command, Pc, Named, Targeting, Dooming
  <2> QED BY <2>2, <2>3, <2>4, <2>5, <2>6 DEF Activate
<1>2. tmp' \in Name \cup {NoName} /\ active' \in Name \cup {NoName} /\ cut' \in BOOLEAN
  BY DEF Activate, CheckTarget, ClearTemp, MakeTemp, SwapLink, ApplyCopies,
         TypeInv, CmdInv, TypeOK, Command, files, history
<1>3. UNCHANGED <<repo, clone, entry, private, gone, deleted>>
  BY DEF Activate, CheckTarget, ClearTemp, MakeTemp, SwapLink, ApplyCopies, files, history
<1> QED BY <1>1, <1>2, <1>3 DEF TypeInv, CmdInv, TypeOK

LEMMA ActivatePrivateTyped ==
    ASSUME TypeInv, NEW p \in Proc, ActivatePrivate(p) PROVE TypeInv'
<1>1. CmdInv'
  <2>1. cmd[p].target \in Name
    BY DEF ActivatePrivate, NoPrivate, MaterializeFails, Materialized, RemovePrivateLink,
           MakePrivateLink, TypeInv, CmdInv, Named, Targeting
  <2>2. AfterPrivate(p) => CmdInv'
    BY AfterPrivateTyped
  <2>3. Goto(p, "unlink") \/ Goto(p, "symlink") => CmdInv'
    BY <2>1, GotoTyped DEF Pc, Dooming
  <2> QED
    BY <2>2, <2>3 DEF ActivatePrivate, NoPrivate, MaterializeFails, Materialized,
                      RemovePrivateLink, MakePrivateLink
<1>2. private' \in Name \cup {NoName} /\ cut' \in BOOLEAN
  BY DEF ActivatePrivate, NoPrivate, MaterializeFails, Materialized, RemovePrivateLink,
         MakePrivateLink, TypeInv, CmdInv, TypeOK, Command, files, history
<1>3. UNCHANGED <<repo, clone, entry, active, tmp, gone, deleted>>
  BY DEF ActivatePrivate, NoPrivate, MaterializeFails, Materialized, RemovePrivateLink,
         MakePrivateLink, files, history
<1> QED BY <1>1, <1>2, <1>3 DEF TypeInv, CmdInv, TypeOK

LEMMA DeleteTyped ==
    ASSUME TypeInv, NEW p \in Proc, Delete(p) PROVE TypeInv'
<1>1. cmd[p].op = "delete" /\ cmd[p].doomed \in Name /\ cmd[p].held \in EntryKind
  BY DEF Delete, CheckDelete, RemoveBacking, RemoveSite, TypeInv, CmdInv, Named, Dooming, Command
<1>2. CASE CheckDelete(p)
  <2> DEFINE kind == entry[cmd[p].doomed]
  <2>1. kind \in EntryKind /\ FirstRemoval(kind) \in {"site", "backing"}
    BY <1>1 DEF TypeInv, TypeOK, FirstRemoval
  <2>2. cmd' = [cmd EXCEPT ![p].pc = FirstRemoval(kind), ![p].held = kind]
    BY <1>2 DEF CheckDelete
  <2>3. CmdInv'
    <3> DEFINE c == [cmd[p] EXCEPT !.pc = FirstRemoval(kind), !.held = kind]
    <3>1. c \in Command /\ c.pc \in {"site", "backing"} /\ c.op = "delete" /\ c.doomed \in Name
      BY <1>1, <2>1 DEF TypeInv, CmdInv, Command, Pc
    <3>2. Named(c)
      BY <3>1 DEF Named, Targeting
    <3>3. cmd' = [cmd EXCEPT ![p] = c]
      BY <2>2
    <3> HIDE DEF c
    <3> QED BY <3>1, <3>2, <3>3 DEF TypeInv, CmdInv
  <2> QED BY <1>2, <2>3 DEF CheckDelete, TypeInv, CmdInv, TypeOK, files, history
<1>3. CASE RemoveBacking(p)
  <2>1. CmdInv'
    BY <1>1, <1>3, GotoTyped DEF RemoveBacking, Pc, Targeting
  <2> QED BY <1>1, <1>3, <2>1 DEF RemoveBacking, TypeInv, CmdInv, TypeOK
<1>4. CASE RemoveSite(p)
  <2>1. CmdInv'
    BY <1>4, DoneTyped DEF RemoveSite
  <2> QED BY <1>1, <1>4, <2>1 DEF RemoveSite, TypeInv, CmdInv, TypeOK, EntryKind
<1> QED BY <1>2, <1>3, <1>4 DEF Delete

LEMMA NextTyped == TypeInv /\ [Next]_vars => TypeInv'
<1> SUFFICES ASSUME TypeInv, [Next]_vars PROVE TypeInv'
  OBVIOUS
<1>1. ASSUME NEW p \in Proc, Stop(p) PROVE TypeInv'
  BY <1>1, DoneTyped DEF Stop, TypeInv, CmdInv, TypeOK, files
<1>2. ASSUME NEW n \in Name, GitPull(n) PROVE TypeInv'
  BY <1>2 DEF GitPull, TypeInv, CmdInv, TypeOK, EntryKind
<1>3. CASE UNCHANGED vars
  BY <1>3 DEF vars, TypeInv, CmdInv, TypeOK
<1> QED
  BY <1>1, <1>2, <1>3, BeginTyped, RelinkTyped, ActivateTyped, ActivatePrivateTyped, DeleteTyped
     DEF Next

\* Every variable keeps its type, whatever the commands do to one another.
THEOREM TypeCorrect == Spec => []TypeOK
<1>1. Init => TypeInv
  BY InitTyped
<1>2. TypeInv /\ [Next]_vars => TypeInv'
  BY NextTyped
<1>3. TypeInv => TypeOK
  BY DEF TypeInv
<1> QED BY <1>1, <1>2, <1>3, PTL DEF Spec

-----------------------------------------------------------------------------
\* The active-profile symlink. When nothing else touches the machine while a
\* command runs, every command finds what it checked as it left it: the profiles
\* to relink are in the repository, the profile to activate resolves from the
\* check to the swap, the temporary link is its own, and the profile to delete
\* is not the active one until it is gone.

OneAtATime == \A p, q \in Proc : cmd[p] # Idle /\ cmd[q] # Idle => p = q

Checked(p) ==
    /\ cmd[p].pc = "relink" => cmd[p].todo \subseteq repo
    /\ cmd[p].pc \in {"clear", "make", "swap"} => Resolves(cmd[p].target)
    /\ cmd[p].pc = "swap" => tmp = cmd[p].target
    /\ cmd[p].pc \in {"backing", "site"} => active # cmd[p].doomed

SafeInv == TypeInv /\ ActiveResolves /\ OneAtATime /\ \A p \in Proc : Checked(p)

LEMMA GotoStep ==
    ASSUME TypeInv, NEW p \in Proc, NEW pc \in Pc, Goto(p, pc)
    PROVE  /\ cmd'[p] = [cmd[p] EXCEPT !.pc = pc] /\ cmd'[p].pc = pc
           /\ cmd'[p].target = cmd[p].target /\ cmd'[p].doomed = cmd[p].doomed
           /\ \A q \in Proc \ {p} : cmd'[q] = cmd[q]
BY DEF TypeInv, CmdInv, Goto, Command

\* A step of one process leaves the others idle, so only its own facts and
\* the symlink itself have to be looked at.
LEMMA OneStep ==
    ASSUME SafeInv, TypeInv', NEW p \in Proc, cmd[p].pc # "idle" \/ Quiet,
           \A q \in Proc \ {p} : cmd'[q] = cmd[q],
           ActiveResolves', Checked(p)'
    PROVE  SafeInv'
<1>1. \A q \in Proc \ {p} : cmd'[q] = Idle
  BY IdleTyped DEF SafeInv, OneAtATime, Quiet
<1>2. OneAtATime'
  BY <1>1 DEF OneAtATime
<1>3. \A q \in Proc : Checked(q)'
  BY <1>1, IdleTyped DEF Checked
<1> QED BY <1>2, <1>3 DEF SafeInv

\* A process that is at none of the points Checked speaks of.
LEMMA CheckedElsewhere ==
    ASSUME NEW p \in Proc,
           cmd'[p].pc \notin {"relink", "clear", "make", "swap", "backing", "site"}
    PROVE  Checked(p)'
BY DEF Checked

\* A step that leaves the profiles and the symlink alone keeps it resolving.
LEMMA SameActive ==
    ASSUME SafeInv, UNCHANGED <<repo, clone, entry, active, gone>>
    PROVE  ActiveResolves' /\ \A n \in Name : Resolves(n)' = Resolves(n)
BY DEF SafeInv, ActiveResolves, Resolves

LEMMA InitSafe == Init => SafeInv
<1> SUFFICES ASSUME Init PROVE SafeInv
  OBVIOUS
<1>1. ActiveResolves
  BY DEF Init, ActiveResolves
<1>2. \A p \in Proc : cmd[p] = Idle
  BY DEF Init
<1>3. OneAtATime /\ \A p \in Proc : Checked(p)
  BY <1>2, IdleTyped DEF OneAtATime, Checked
<1> QED BY <1>1, <1>3, InitTyped DEF SafeInv

LEMMA BeginSafe ==
    ASSUME SafeInv, TypeInv', Serial, NEW p \in Proc, Begin(p) PROVE SafeInv'
<1>1. Quiet
  BY DEF Begin, StartActivate, StartInit, StartLink, StartDelete, StartPrivateLink, MayStart
<1>2. UNCHANGED <<files, history>>
  BY DEF Begin, StartActivate, StartInit, StartLink, StartDelete, StartPrivateLink
<1>3. PICK op \in Op, target \in Name \cup {NoName}, doomed \in Name \cup {NoName},
           pc \in {"check", "render", "readdir", "delete", "materialize"} :
           Start(p, op, pc, target, doomed)
  BY HasPrivateAssumption
     DEF Op, Begin, StartActivate, StartInit, StartLink, StartDelete, StartPrivateLink
<1>4. cmd'[p].pc = pc /\ \A q \in Proc \ {p} : cmd'[q] = cmd[q]
  <2>1. cmd \in [Proc -> Command]
    BY DEF SafeInv, TypeInv, CmdInv
  <2>2. cmd'[p] = [Idle EXCEPT !.op = op, !.pc = pc, !.target = target, !.doomed = doomed,
                               !.again = (op = "init")]
        /\ \A q \in Proc \ {p} : cmd'[q] = cmd[q]
    BY <1>3, <2>1 DEF Start
  <2> QED BY <2>2 DEF Idle
<1>5. Checked(p)'
  BY <1>4, CheckedElsewhere
<1>6. ActiveResolves'
  BY <1>2, SameActive DEF files, history
<1> QED BY <1>1, <1>4, <1>5, <1>6, OneStep

LEMMA RelinkSafe ==
    ASSUME SafeInv, TypeInv', NEW p \in Proc, Render(p) \/ Relink(p) PROVE SafeInv'
<1>1. cmd[p].pc # "idle"
  BY DEF Render, Relink, ReadProfiles, KeepEntry, ClearEntry, LinkEntry, Relinked, Relinking
<1>2. cmd \in [Proc -> Command]
  BY DEF SafeInv, TypeInv, CmdInv
<1>3. CASE Render(p)
  <2>1. cmd'[p].pc = "readdir" /\ \A q \in Proc \ {p} : cmd'[q] = cmd[q]
    BY <1>3, GotoStep DEF Render, Pc, SafeInv
  <2>2. ActiveResolves'
    BY <1>3 DEF Render, SafeInv, ActiveResolves, Resolves
  <2> QED BY <1>1, <2>1, <2>2, OneStep, CheckedElsewhere
<1>4. CASE ReadProfiles(p)
  <2>1. /\ cmd'[p].pc = "relink" /\ cmd'[p].todo = repo'
        /\ \A q \in Proc \ {p} : cmd'[q] = cmd[q]
    BY <1>2, <1>4 DEF ReadProfiles, Command, files
  <2>2. ActiveResolves'
    BY <1>4, SameActive DEF ReadProfiles, files, history
  <2>3. Checked(p)'
    BY <2>1 DEF Checked
  <2> QED BY <1>1, <2>1, <2>2, <2>3, OneStep
<1>5. ASSUME NEW n \in Name, KeepEntry(p, n) \/ ClearEntry(p, n) \/ LinkEntry(p, n)
      PROVE  SafeInv'
  <2>1. cmd[p].pc = "relink" /\ n \in cmd[p].todo /\ n \in repo
    BY <1>5 DEF KeepEntry, ClearEntry, LinkEntry, Relinking, SafeInv, Checked
  <2>2. /\ cmd'[p].pc = "relink" /\ cmd'[p].todo \subseteq cmd[p].todo
        /\ \A q \in Proc \ {p} : cmd'[q] = cmd[q]
    BY <1>2, <1>5, <2>1 DEF KeepEntry, ClearEntry, LinkEntry, Command
  <2>3. UNCHANGED <<repo, clone, active, gone>> /\ \A m \in Name \ {n} : entry'[m] = entry[m]
    BY <1>5 DEF KeepEntry, ClearEntry, LinkEntry, files, history, SafeInv, TypeInv, TypeOK
  <2>4. ActiveResolves'
    BY <2>1, <2>3 DEF SafeInv, TypeInv, TypeOK, ActiveResolves, Resolves
  <2>5. Checked(p)'
    BY <2>1, <2>2, <2>3 DEF SafeInv, Checked
  <2> QED BY <1>1, <2>2, <2>4, <2>5, OneStep
<1>6. CASE Relinked(p)
  <2>1. cmd'[p].pc = "check" /\ \A q \in Proc \ {p} : cmd'[q] = cmd[q]
    BY <1>6, GotoStep DEF Relinked, Pc, SafeInv
  <2>2. ActiveResolves'
    BY <1>6, SameActive DEF Relinked, files, history
  <2> QED BY <1>1, <2>1, <2>2, OneStep, CheckedElsewhere
<1> QED BY <1>3, <1>4, <1>5, <1>6 DEF Relink

LEMMA ActivateSafe ==
    ASSUME SafeInv, TypeInv', NEW p \in Proc, Activate(p) PROVE SafeInv'
<1>1. cmd[p].pc # "idle" /\ cmd[p].target \in Name
  BY DEF Activate, CheckTarget, ClearTemp, MakeTemp, SwapLink, ApplyCopies,
         SafeInv, TypeInv, CmdInv, Named, Targeting
<1>2. TypeInv
  BY DEF SafeInv
<1>3. CASE CheckTarget(p)
  <2>1. /\ cmd'[p].pc = "clear" /\ cmd'[p].target = cmd[p].target
        /\ \A q \in Proc \ {p} : cmd'[q] = cmd[q]
    BY <1>2, <1>3, GotoStep DEF CheckTarget, Pc
  <2>2. ActiveResolves'
    BY <1>3, SameActive DEF CheckTarget, files, history
  <2>3. Checked(p)'
    BY <1>3, <2>1 DEF CheckTarget, Exists, Resolves, Checked, files
  <2> QED BY <1>1, <2>1, <2>2, <2>3, OneStep
<1>4. CASE ClearTemp(p)
  <2>1. /\ cmd'[p].pc = "make" /\ cmd'[p].target = cmd[p].target
        /\ \A q \in Proc \ {p} : cmd'[q] = cmd[q]
    BY <1>2, <1>4, GotoStep DEF ClearTemp, Pc
  <2>2. ActiveResolves'
    BY <1>4, SameActive DEF ClearTemp, files, history
  <2>3. Checked(p)'
    BY <1>4, <2>1 DEF ClearTemp, SafeInv, Checked, Resolves
  <2> QED BY <1>1, <2>1, <2>2, <2>3, OneStep
<1>5. CASE MakeTemp(p)
  <2>1. /\ cmd'[p].pc = "swap" /\ cmd'[p].target = cmd[p].target
        /\ \A q \in Proc \ {p} : cmd'[q] = cmd[q]
    BY <1>2, <1>5, GotoStep DEF MakeTemp, Pc
  <2>2. ActiveResolves'
    BY <1>5, SameActive DEF MakeTemp, history
  <2>3. Checked(p)'
    BY <1>5, <2>1 DEF MakeTemp, SafeInv, Checked, Resolves
  <2> QED BY <1>1, <2>1, <2>2, <2>3, OneStep
<1>6. CASE SwapLink(p)
  <2>1. /\ cmd'[p].pc \in {"materialize", "copies"}
        /\ \A q \in Proc \ {p} : cmd'[q] = cmd[q]
    BY <1>2, <1>6, GotoStep DEF SwapLink, Pc
  <2>2. active' = cmd[p].target /\ Resolves(cmd[p].target)
    BY <1>6 DEF SwapLink, SafeInv, Checked
  <2>3. ActiveResolves'
    BY <1>6, <2>2 DEF SwapLink, ActiveResolves, Resolves
  <2> QED BY <1>1, <2>1, <2>3, OneStep, CheckedElsewhere
<1>7. CASE ApplyCopies(p)
  <2>1. /\ cmd'[p].pc \in {"check", "idle", "materialize"}
        /\ \A q \in Proc \ {p} : cmd'[q] = cmd[q]
    BY <1>2, <1>7, IdleTyped DEF ApplyCopies, TypeInv, CmdInv, Command
  <2>2. ActiveResolves'
    BY <1>7, SameActive DEF ApplyCopies, files, history
  <2> QED BY <1>1, <2>1, <2>2, OneStep, CheckedElsewhere
<1> QED BY <1>3, <1>4, <1>5, <1>6, <1>7 DEF Activate

LEMMA ActivatePrivateSafe ==
    ASSUME SafeInv, TypeInv', NEW p \in Proc, ActivatePrivate(p) PROVE SafeInv'
<1>1. cmd[p].pc # "idle" /\ TypeInv
  BY DEF ActivatePrivate, NoPrivate, MaterializeFails, Materialized, RemovePrivateLink,
         MakePrivateLink, SafeInv
<1>2. AfterPrivate(p) => /\ cmd'[p].pc \in {"delete", "idle"}
                         /\ \A q \in Proc \ {p} : cmd'[q] = cmd[q]
  BY <1>1, AfterPrivateTyped, IdleTyped DEF TypeInv, CmdInv, Command
<1>3. Goto(p, "unlink") => cmd'[p].pc = "unlink" /\ \A q \in Proc \ {p} : cmd'[q] = cmd[q]
  BY <1>1, GotoStep DEF Pc
<1>4. Goto(p, "symlink") => cmd'[p].pc = "symlink" /\ \A q \in Proc \ {p} : cmd'[q] = cmd[q]
  BY <1>1, GotoStep DEF Pc
<1>5. /\ cmd'[p].pc \in {"delete", "idle", "unlink", "symlink"}
      /\ \A q \in Proc \ {p} : cmd'[q] = cmd[q]
  BY <1>2, <1>3, <1>4 DEF ActivatePrivate, NoPrivate, MaterializeFails, Materialized,
                          RemovePrivateLink, MakePrivateLink
<1>6. ActiveResolves'
  BY SameActive DEF ActivatePrivate, NoPrivate, MaterializeFails, Materialized,
                    RemovePrivateLink, MakePrivateLink, files, history
<1> QED BY <1>1, <1>5, <1>6, OneStep, CheckedElsewhere

LEMMA DeleteSafe ==
    ASSUME SafeInv, TypeInv', NEW p \in Proc, Delete(p) PROVE SafeInv'
<1>1. cmd[p].pc # "idle" /\ cmd[p].doomed \in Name /\ TypeInv
  BY DEF Delete, CheckDelete, RemoveBacking, RemoveSite, SafeInv, TypeInv, CmdInv, Named, Dooming
<1>2. CASE CheckDelete(p)
  <2>1. /\ cmd'[p].pc \in {"site", "backing"} /\ cmd'[p].doomed = cmd[p].doomed
        /\ \A q \in Proc \ {p} : cmd'[q] = cmd[q]
    BY <1>1, <1>2 DEF CheckDelete, FirstRemoval, TypeInv, CmdInv, Command
  <2>2. active' # cmd'[p].doomed
    BY <1>2, <2>1 DEF CheckDelete, files
  <2>3. Checked(p)'
    BY <2>1, <2>2 DEF Checked
  <2>4. ActiveResolves'
    BY <1>2, SameActive DEF CheckDelete, files, history
  <2> QED BY <1>1, <2>1, <2>3, <2>4, OneStep
<1>3. CASE RemoveBacking(p)
  <2>1. /\ cmd'[p].pc = "site" /\ cmd'[p].doomed = cmd[p].doomed
        /\ \A q \in Proc \ {p} : cmd'[q] = cmd[q]
    BY <1>1, <1>3, GotoStep DEF RemoveBacking, Pc
  <2>2. active # cmd[p].doomed
    BY <1>3 DEF RemoveBacking, SafeInv, Checked
  <2>3. Checked(p)'
    BY <1>3, <2>1, <2>2 DEF RemoveBacking, Checked
  <2>4. ActiveResolves'
    BY <1>3, <2>2 DEF RemoveBacking, SafeInv, ActiveResolves, Resolves
  <2> QED BY <1>1, <2>1, <2>3, <2>4, OneStep
<1>4. CASE RemoveSite(p)
  <2>1. cmd'[p].pc = "idle" /\ \A q \in Proc \ {p} : cmd'[q] = cmd[q]
    BY <1>1, <1>4, DoneTyped, IdleTyped DEF RemoveSite
  <2>2. active # cmd[p].doomed
    BY <1>4 DEF RemoveSite, SafeInv, Checked
  <2>3. ActiveResolves'
    BY <1>1, <1>4, <2>2 DEF RemoveSite, SafeInv, TypeInv, TypeOK, ActiveResolves, Resolves
  <2> QED BY <1>1, <2>1, <2>3, OneStep, CheckedElsewhere
<1> QED BY <1>2, <1>3, <1>4 DEF Delete

LEMMA GitPullSafe ==
    ASSUME SafeInv, TypeInv', Serial, NEW n \in Name, GitPull(n) PROVE SafeInv'
<1>1. \A p \in Proc : cmd'[p] = Idle
  BY DEF GitPull, Quiet
<1>2. OneAtATime' /\ \A p \in Proc : Checked(p)'
  BY <1>1, IdleTyped DEF OneAtATime, Checked
<1>3. ActiveResolves'
  BY DEF GitPull, SafeInv, ActiveResolves, Resolves
<1> QED BY <1>2, <1>3 DEF SafeInv

LEMMA NextSafe == ASSUME Serial PROVE SafeInv /\ [Next]_vars => SafeInv'
<1> SUFFICES ASSUME SafeInv, [Next]_vars PROVE SafeInv'
  OBVIOUS
<1>1. TypeInv'
  BY NextTyped DEF SafeInv
<1>2. ASSUME NEW p \in Proc, Stop(p) PROVE SafeInv'
  <2>1. cmd'[p].pc = "idle" /\ \A q \in Proc \ {p} : cmd'[q] = cmd[q]
    BY <1>2, DoneTyped, IdleTyped DEF Stop, SafeInv
  <2>2. ActiveResolves'
    BY <1>2, SameActive DEF Stop, files
  <2>3. \A q \in Proc \ {p} : cmd'[q] = Idle
    BY <1>2, <2>1 DEF Stop, SafeInv, OneAtATime
  <2>4. cmd'[p] = Idle
    BY <1>2, DoneTyped DEF Stop, SafeInv
  <2>5. OneAtATime' /\ \A q \in Proc : Checked(q)'
    BY <2>3, <2>4, IdleTyped DEF OneAtATime, Checked
  <2> QED BY <1>1, <2>2, <2>5 DEF SafeInv
<1>3. ASSUME UNCHANGED vars PROVE SafeInv'
  BY <1>1, <1>3 DEF vars, SafeInv, ActiveResolves, OneAtATime, Checked, Resolves
<1> QED
  BY <1>1, <1>2, <1>3, BeginSafe, RelinkSafe, ActivateSafe, ActivatePrivateSafe, DeleteSafe,
     GitPullSafe DEF Next

\* profile/delete.go: "Neither can the active one, so the active-profile symlink
\* ... never dangles". It does not, after any sequence of commands, however
\* they fail or die, as long as they run one at a time.
THEOREM ActiveNeverDangles == ASSUME Serial PROVE Spec => []ActiveResolves
<1>1. Init => SafeInv
  BY InitSafe
<1>2. SafeInv /\ [Next]_vars => SafeInv'
  BY NextSafe
<1>3. SafeInv => ActiveResolves
  BY DEF SafeInv
<1> QED BY <1>1, <1>2, <1>3, PTL DEF Spec

-----------------------------------------------------------------------------
\* Deletion. What the command found when it checked is still so when it removes:
\* another profile resolves, the entry is of the kind it was held to be. And a
\* profile deleted through its link has left neither content nor entry to relink.

Removing == {"backing", "site"}

OtherStays(p) ==
    cmd[p].pc \in Removing => \E m \in Name \ {cmd[p].doomed} : Resolves(m)

HeldAsFound(p) ==
    cmd[p].pc = "backing" => /\ cmd[p].held \in {"link", "stale"}
                             /\ entry[cmd[p].doomed] = cmd[p].held

Forgotten == \A n \in Name : deleted[n] = "link" => n \notin repo /\ entry[n] \in {"link", "none"}

DeleteInv == SafeInv /\ (\A p \in Proc : OtherStays(p) /\ HeldAsFound(p)) /\ Forgotten

LEMMA ManyHaveAnother ==
    ASSUME NEW S, NEW d, Cardinality(S) > 1 PROVE \E m \in S : m # d
<1> SUFFICES ASSUME S \subseteq {d} PROVE FALSE
  OBVIOUS
<1>1. S = {} \/ S = {d}
  OBVIOUS
<1>2. Cardinality(S) \in {0, 1}
  BY <1>1, FS_EmptySet, FS_Singleton
<1> QED BY <1>2

\* Only the deletion itself brings a process to the removals.
LEMMA NotRemoving ==
    ASSUME SafeInv, NEW p \in Proc,
           Begin(p) \/ Render(p) \/ Relink(p) \/ Activate(p) \/ ActivatePrivate(p) \/ Stop(p)
    PROVE  cmd'[p].pc \notin Removing /\ \A q \in Proc \ {p} : cmd'[q] = cmd[q]
<1>1. TypeInv /\ cmd \in [Proc -> Command]
  BY DEF SafeInv, TypeInv, CmdInv
<1>2. CASE Begin(p)
  <2>1. PICK op \in Op, target \in Name \cup {NoName}, doomed \in Name \cup {NoName},
             pc \in {"check", "render", "readdir", "delete", "materialize"} :
             Start(p, op, pc, target, doomed)
    BY <1>2, HasPrivateAssumption
       DEF Op, Begin, StartActivate, StartInit, StartLink, StartDelete, StartPrivateLink
  <2>2. cmd'[p] = [Idle EXCEPT !.op = op, !.pc = pc, !.target = target, !.doomed = doomed,
                               !.again = (op = "init")]
        /\ \A q \in Proc \ {p} : cmd'[q] = cmd[q]
    BY <1>1, <2>1 DEF Start
  <2> QED BY <2>2 DEF Idle, Removing
<1>3. CASE Render(p)
  BY <1>1, <1>3, GotoStep DEF Render, Pc, Removing
<1>4. CASE Relink(p)
  <2>1. CASE Relinked(p)
    BY <1>1, <2>1, GotoStep DEF Relinked, Pc, Removing
  <2>2. CASE ReadProfiles(p)
    BY <1>1, <2>2 DEF ReadProfiles, Command, Removing
  <2>3. ASSUME NEW n \in Name, KeepEntry(p, n) \/ ClearEntry(p, n) \/ LinkEntry(p, n)
        PROVE  cmd'[p].pc \notin Removing /\ \A q \in Proc \ {p} : cmd'[q] = cmd[q]
    BY <1>1, <2>3 DEF KeepEntry, ClearEntry, LinkEntry, Relinking, Command, Removing
  <2> QED BY <1>4, <2>1, <2>2, <2>3 DEF Relink
<1>5. CASE Activate(p)
  <2>1. CASE ApplyCopies(p)
    BY <1>1, <2>1, IdleTyped DEF ApplyCopies, Command, Removing
  <2>2. CASE ~ApplyCopies(p)
    <3>1. PICK pc \in {"clear", "make", "swap", "copies", "materialize"} : Goto(p, pc)
      BY <1>5, <2>2 DEF Activate, CheckTarget, ClearTemp, MakeTemp, SwapLink
    <3> QED BY <1>1, <3>1, GotoStep DEF Pc, Removing
  <2> QED BY <2>1, <2>2
<1>6. CASE ActivatePrivate(p)
  <2>1. AfterPrivate(p) \/ Goto(p, "unlink") \/ Goto(p, "symlink")
    BY <1>6 DEF ActivatePrivate, NoPrivate, MaterializeFails, Materialized,
                RemovePrivateLink, MakePrivateLink
  <2>2. CASE AfterPrivate(p)
    BY <1>1, <2>2, AfterPrivateTyped, IdleTyped DEF Command, Removing
  <2>3. CASE Goto(p, "unlink") \/ Goto(p, "symlink")
    BY <1>1, <2>3, GotoStep DEF Pc, Removing
  <2> QED BY <2>1, <2>2, <2>3
<1>7. CASE Stop(p)
  BY <1>1, <1>7, DoneTyped, IdleTyped DEF Stop, Removing
<1> QED BY <1>2, <1>3, <1>4, <1>5, <1>6, <1>7

\* A step of one process leaves the others idle.
LEMMA OneDeletes ==
    ASSUME DeleteInv, SafeInv', NEW p \in Proc, cmd[p] # Idle \/ Quiet,
           \A q \in Proc \ {p} : cmd'[q] = cmd[q],
           OtherStays(p)', HeldAsFound(p)', Forgotten'
    PROVE  DeleteInv'
<1>1. \A q \in Proc \ {p} : cmd'[q] = Idle
  BY IdleTyped DEF DeleteInv, SafeInv, OneAtATime, Quiet
<1> QED BY <1>1, IdleTyped DEF DeleteInv, OtherStays, HeldAsFound, Removing

LEMMA InitDeletes == Init => DeleteInv
<1> SUFFICES ASSUME Init PROVE DeleteInv
  OBVIOUS
<1>1. \A p \in Proc : cmd[p].pc = "idle"
  BY IdleTyped DEF Init
<1> QED BY <1>1, InitSafe DEF Init, DeleteInv, OtherStays, HeldAsFound, Removing, Forgotten

LEMMA DeleteDeletes ==
    ASSUME DeleteInv, SafeInv', NEW p \in Proc, Delete(p) PROVE DeleteInv'
<1>1. /\ cmd[p] # Idle /\ cmd[p].doomed \in Name /\ TypeInv
      /\ cmd \in [Proc -> Command] /\ TypeOK
  BY IdleTyped DEF Delete, CheckDelete, RemoveBacking, RemoveSite, DeleteInv, SafeInv, TypeInv, CmdInv,
         Named, Dooming
<1>2. CASE CheckDelete(p)
  <2> DEFINE d == cmd[p].doomed
             kind == entry[d]
  <2>1. kind \in {"link", "dir", "stale"}
    BY <1>1, <1>2 DEF CheckDelete, Exists
  <2>2. /\ cmd'[p].pc = FirstRemoval(kind) /\ cmd'[p].held = kind /\ cmd'[p].doomed = d
        /\ \A q \in Proc \ {p} : cmd'[q] = cmd[q]
    BY <1>1, <1>2 DEF CheckDelete, Command
  <2>3. UNCHANGED <<files, history>>
    BY <1>2 DEF CheckDelete
  <2>4. PICK m \in List : m # d
    BY <1>2, ManyHaveAnother DEF CheckDelete
  <2>5. m \in Name \ {d} /\ Resolves(m)
    BY <2>4 DEF List, Exists, Resolves
  <2>6. OtherStays(p)'
    BY <2>2, <2>3, <2>5 DEF OtherStays, Resolves, files
  <2>7. HeldAsFound(p)'
    BY <2>1, <2>2, <2>3 DEF HeldAsFound, FirstRemoval, files
  <2>8. Forgotten'
    BY <2>3 DEF DeleteInv, Forgotten, files, history
  <2> QED BY <1>1, <2>2, <2>6, <2>7, <2>8, OneDeletes
<1>3. CASE RemoveBacking(p)
  <2>1. /\ cmd'[p].pc = "site" /\ cmd'[p].doomed = cmd[p].doomed
        /\ \A q \in Proc \ {p} : cmd'[q] = cmd[q]
    BY <1>1, <1>3, GotoStep DEF RemoveBacking, Pc
  <2>2. /\ repo \ {cmd[p].doomed} \subseteq repo' /\ repo' \subseteq repo
        /\ clone \ {cmd[p].doomed} \subseteq clone' /\ entry' = entry
    BY <1>3 DEF RemoveBacking
  <2>3. PICK m \in Name \ {cmd[p].doomed} : Resolves(m)
    BY <1>3 DEF RemoveBacking, DeleteInv, OtherStays, Removing
  <2>4. OtherStays(p)'
    BY <2>1, <2>2, <2>3 DEF OtherStays, Resolves
  <2>5. HeldAsFound(p)'
    BY <2>1 DEF HeldAsFound
  <2>6. cmd[p].held \in {"link", "stale"} /\ entry[cmd[p].doomed] = cmd[p].held
    BY <1>3 DEF RemoveBacking, DeleteInv, HeldAsFound
  <2>7. cmd[p].held = "link" => repo' = repo \ {cmd[p].doomed}
    BY <1>3 DEF RemoveBacking
  <2>8. deleted' = [deleted EXCEPT ![cmd[p].doomed] = cmd[p].held]
    BY <1>3 DEF RemoveBacking
  <2>9. Forgotten'
    BY <1>1, <2>2, <2>6, <2>7, <2>8 DEF DeleteInv, Forgotten, TypeOK
  <2> QED BY <1>1, <2>1, <2>4, <2>5, <2>9, OneDeletes
<1>4. CASE RemoveSite(p)
  <2>1. cmd'[p].pc = "idle" /\ \A q \in Proc \ {p} : cmd'[q] = cmd[q]
    BY <1>1, <1>4, DoneTyped, IdleTyped DEF RemoveSite
  <2>2. repo' = repo /\ entry' = [entry EXCEPT ![cmd[p].doomed] = "none"]
    BY <1>4 DEF RemoveSite
  <2>3. deleted' = deleted \/ deleted' = [deleted EXCEPT ![cmd[p].doomed] = "dir"]
    <3>1. FirstRemoval(cmd[p].held) = "site" => cmd[p].held = "dir"
      BY DEF FirstRemoval
    <3> QED BY <1>4, <3>1 DEF RemoveSite
  <2>4. Forgotten'
    BY <1>1, <2>2, <2>3 DEF DeleteInv, Forgotten, TypeOK
  <2>5. OtherStays(p)' /\ HeldAsFound(p)'
    BY <2>1 DEF OtherStays, HeldAsFound, Removing
  <2> QED BY <1>1, <2>1, <2>4, <2>5, OneDeletes
<1> QED BY <1>2, <1>3, <1>4 DEF Delete

LEMMA OthersDelete ==
    ASSUME DeleteInv, SafeInv', Serial, NEW p \in Proc,
           Begin(p) \/ Render(p) \/ Relink(p) \/ Activate(p) \/ ActivatePrivate(p) \/ Stop(p)
    PROVE  DeleteInv'
<1>1. SafeInv /\ TypeOK /\ cmd \in [Proc -> Command]
  BY DEF DeleteInv, SafeInv, TypeInv, CmdInv
<1>2. cmd'[p].pc \notin Removing /\ \A q \in Proc \ {p} : cmd'[q] = cmd[q]
  BY <1>1, NotRemoving
<1>3. OtherStays(p)' /\ HeldAsFound(p)'
  BY <1>2 DEF OtherStays, HeldAsFound, Removing
<1>4. cmd[p] # Idle \/ Quiet
  <2>1. CASE Begin(p)
    BY <2>1 DEF Begin, StartActivate, StartInit, StartLink, StartDelete, StartPrivateLink, MayStart
  <2>2. CASE Stop(p)
    BY <2>2 DEF Stop
  <2>3. CASE Render(p) \/ Relink(p) \/ Activate(p) \/ ActivatePrivate(p)
    BY <2>3, IdleTyped
       DEF Render, Relink, ReadProfiles, KeepEntry, ClearEntry, LinkEntry, Relinked,
                Relinking, Activate, CheckTarget, ClearTemp, MakeTemp, SwapLink, ApplyCopies,
                ActivatePrivate, NoPrivate, MaterializeFails, Materialized, RemovePrivateLink,
                MakePrivateLink
  <2> QED BY <2>1, <2>2, <2>3
<1>5. Forgotten'
  <2>1. CASE Render(p)
    BY <1>1, <2>1 DEF Render, DeleteInv, Forgotten, TypeOK
  <2>2. ASSUME NEW n \in Name, KeepEntry(p, n) \/ ClearEntry(p, n) \/ LinkEntry(p, n)
        PROVE  Forgotten'
    <3>1. n \in repo
      BY <1>1, <2>2 DEF KeepEntry, ClearEntry, LinkEntry, Relinking, SafeInv, Checked
    <3>2. UNCHANGED <<repo, deleted>> /\ \A m \in Name \ {n} : entry'[m] = entry[m]
      BY <1>1, <2>2 DEF KeepEntry, ClearEntry, LinkEntry, files, history, TypeOK
    <3> QED BY <3>1, <3>2 DEF DeleteInv, Forgotten
  <2>3. CASE UNCHANGED <<repo, entry, deleted>>
    BY <2>3 DEF DeleteInv, Forgotten
  <2>4. Begin(p) \/ ReadProfiles(p) \/ Relinked(p) \/ Activate(p) \/ ActivatePrivate(p) \/ Stop(p)
        => UNCHANGED <<repo, entry, deleted>>
    BY DEF Begin, StartActivate, StartInit, StartLink, StartDelete, StartPrivateLink,
           ReadProfiles, Relinked, Activate, CheckTarget, ClearTemp, MakeTemp, SwapLink, ApplyCopies,
           ActivatePrivate, NoPrivate, MaterializeFails, Materialized, RemovePrivateLink,
           MakePrivateLink, Stop, files, history
  <2> QED BY <2>1, <2>2, <2>3, <2>4 DEF Relink
<1> QED BY <1>2, <1>3, <1>4, <1>5, OneDeletes

LEMMA NextDeletes == ASSUME Serial PROVE DeleteInv /\ [Next]_vars => DeleteInv'
<1> SUFFICES ASSUME DeleteInv, [Next]_vars PROVE DeleteInv'
  OBVIOUS
<1>1. SafeInv /\ SafeInv'
  BY NextSafe DEF DeleteInv
<1>2. ASSUME NEW n \in Name, GitPull(n) PROVE DeleteInv'
  <2>1. \A p \in Proc : cmd'[p].pc = "idle"
    BY <1>2, IdleTyped DEF GitPull, Quiet
  <2>2. Forgotten'
    BY <1>1, <1>2 DEF GitPull, DeleteInv, Forgotten, SafeInv, TypeInv, TypeOK
  <2> QED BY <1>1, <2>1, <2>2 DEF DeleteInv, OtherStays, HeldAsFound, Removing
<1>3. ASSUME UNCHANGED vars PROVE DeleteInv'
  BY <1>1, <1>3 DEF vars, DeleteInv, OtherStays, HeldAsFound, Forgotten, Resolves
<1> QED BY <1>1, <1>2, <1>3, DeleteDeletes, OthersDelete DEF Next

\* What profile delete removed through its link stays deleted: no later command, in
\* any order, failing or dying anywhere, relinks it or makes it resolve again; only
\* init and a git pull, which make it anew.
THEOREM DeletedNeverReturns == ASSUME Serial PROVE Spec => []DeletedStaysDeleted
<1>1. Init => DeleteInv
  BY InitDeletes
<1>2. DeleteInv /\ [Next]_vars => DeleteInv'
  BY NextDeletes
<1>3. DeleteInv => DeletedStaysDeleted
  BY DEF DeleteInv, Forgotten, DeletedStaysDeleted, Resolves
<1> QED BY <1>1, <1>2, <1>3, PTL DEF Spec

\* profile/delete.go: "The last profile cannot go". Whenever content or an entry is
\* removed, another profile resolves afterwards.
THEOREM LastProfileNeverGoes == ASSUME Serial PROVE Spec => LastProfileStays
<1>1. DeleteInv /\ [Next]_vars => [Deleting => \E n \in Name : Resolves(n)']_vars
  <2> SUFFICES ASSUME DeleteInv, Next, Deleting PROVE \E n \in Name : Resolves(n)'
    OBVIOUS
  <2>1. PICK p \in Proc : cmd[p].pc \in Removing /\ cmd[p]' # cmd[p]
    BY DEF Deleting, Removing
  <2>2. PICK m \in Name \ {cmd[p].doomed} : Resolves(m)
    BY <2>1 DEF DeleteInv, OtherStays
  <2>3. cmd \in [Proc -> Command] /\ TypeOK /\ cmd[p] # Idle
    BY <2>1, IdleTyped DEF DeleteInv, SafeInv, TypeInv, CmdInv, Removing
  <2>4. ASSUME NEW q \in Proc, q # p,
               Begin(q) \/ Render(q) \/ Relink(q) \/ Activate(q) \/ ActivatePrivate(q) \/ Stop(q)
        PROVE  FALSE
    BY <2>1, <2>4, NotRemoving DEF DeleteInv
  <2>5. ASSUME NEW q \in Proc, q # p, Delete(q) PROVE FALSE
    <3>1. cmd[q] # Idle
      BY <2>5, IdleTyped DEF Delete, CheckDelete, RemoveBacking, RemoveSite
    <3> QED BY <2>3, <2>5, <3>1 DEF DeleteInv, SafeInv, OneAtATime
  <2>6. ASSUME NEW n \in Name, GitPull(n) PROVE FALSE
    BY <2>1, <2>6 DEF GitPull
  <2>7. Begin(p) \/ Render(p) \/ Relink(p) \/ Activate(p) \/ ActivatePrivate(p) \/ Stop(p) \/ Delete(p)
    BY <2>4, <2>5, <2>6 DEF Next
  <2>8. Stop(p) \/ RemoveBacking(p) \/ RemoveSite(p)
    BY <2>1, <2>3, <2>7
       DEF Removing, Idle, Begin, StartActivate, StartInit, StartLink, StartDelete, StartPrivateLink,
           MayStart, Render, Relink, ReadProfiles, KeepEntry, ClearEntry, LinkEntry, Relinked,
           Relinking, Activate, CheckTarget, ClearTemp, MakeTemp, SwapLink, ApplyCopies,
           ActivatePrivate, NoPrivate, MaterializeFails, Materialized, RemovePrivateLink,
           MakePrivateLink, Delete, CheckDelete
  <2>9. Resolves(m)'
    BY <2>2, <2>3, <2>8 DEF Stop, RemoveBacking, RemoveSite, Resolves, files, TypeOK
  <2> QED BY <2>2, <2>9
<1>2. Init => DeleteInv
  BY InitDeletes
<1>3. DeleteInv /\ [Next]_vars => DeleteInv'
  BY NextDeletes
<1> QED BY <1>1, <1>2, <1>3, PTL DEF Spec, LastProfileStays

-----------------------------------------------------------------------------
\* The private link. A command that has moved active-profile owes the private
\* link a retarget until it is through with it; until then the profile it moved to
\* is the active one and keeps resolving, since nothing else runs. A command that
\* owes nothing keeps the link where it found it.

Following == ~cut /\ active \in HasPrivate => private = active

\* init's second activation owes what its first one moved.
Owing(c) ==
    \/ c.pc \in {"copies", "materialize", "unlink", "symlink"}
    \/ c.op = "init" /\ ~c.again /\ c.pc \in {"check", "clear", "make", "swap"}

Follows(c) ==
    /\ c.op = "init" /\ c.pc \in {"render", "readdir", "relink"} => c.again
    /\ ~Owing(c) => Following
    /\ Owing(c) => active = c.target
    /\ Owing(c) /\ c.pc \notin {"unlink", "symlink"} =>
         Resolves(c.target) \/ (c.op = "private" /\ Following)
    /\ c.pc = "symlink" => private = NoName
    /\ c.op = "private" => c.pc \in {"materialize", "unlink", "symlink"}
    /\ c.op = "link" /\ c.pc = "copies" => cut

FollowInv == SafeInv /\ (Quiet => Following) /\ \A p \in Proc : cmd[p] # Idle => Follows(cmd[p])

\* A step of one process leaves the others idle.
LEMMA OneFollows ==
    ASSUME FollowInv, SafeInv', NEW p \in Proc, cmd[p] # Idle \/ Quiet,
           \A q \in Proc \ {p} : cmd'[q] = cmd[q],
           Follows(cmd[p])'
    PROVE  FollowInv'
<1>1. \A q \in Proc \ {p} : cmd'[q] = Idle
  BY DEF FollowInv, SafeInv, OneAtATime, Quiet
<1>2. Quiet' => Following'
  <2>1. cmd'[p] = Idle => ~Owing(cmd[p])'
    BY IdleTyped DEF Owing
  <2> QED BY <2>1 DEF Follows, Quiet
<1> QED BY <1>1, <1>2 DEF FollowInv

LEMMA InitFollows == Init => FollowInv
<1> SUFFICES ASSUME Init PROVE FollowInv
  OBVIOUS
<1>1. Following /\ \A p \in Proc : cmd[p] = Idle
  BY DEF Init, Following
<1> QED BY <1>1, InitSafe DEF FollowInv

LEMMA BeginFollows ==
    ASSUME FollowInv, SafeInv', Serial, NEW p \in Proc, Begin(p) PROVE FollowInv'
<1>1. Quiet /\ UNCHANGED <<files, history>> /\ Following
  BY DEF Begin, StartActivate, StartInit, StartLink, StartDelete, StartPrivateLink, MayStart, FollowInv
<1>2. cmd \in [Proc -> Command]
  BY DEF FollowInv, SafeInv, TypeInv, CmdInv
<1>3. PICK op \in Op, target \in Name \cup {NoName}, doomed \in Name \cup {NoName},
           pc \in {"check", "render", "readdir", "delete", "materialize"} :
           /\ Start(p, op, pc, target, doomed)
           /\ pc = "materialize" <=> op = "private"
           /\ op = "private" => target = active
  BY HasPrivateAssumption
     DEF Op, Begin, StartActivate, StartInit, StartLink, StartDelete, StartPrivateLink
<1> DEFINE c == [Idle EXCEPT !.op = op, !.pc = pc, !.target = target, !.doomed = doomed,
                             !.again = (op = "init")]
<1>4. cmd'[p] = c /\ \A q \in Proc \ {p} : cmd'[q] = cmd[q]
  BY <1>2, <1>3 DEF Start
<1>5. c.op = op /\ c.pc = pc /\ c.target = target
  BY DEF Idle
<1>6. op = "init" => c.again
  BY DEF Idle
<1> HIDE DEF c
<1>7. Following' /\ active' = active
  BY <1>1 DEF files, history, Following
<1>8. Follows(cmd[p])'
  <2>1. CASE pc = "materialize"
    BY <1>3, <1>4, <1>5, <1>7, <2>1 DEF Follows, Owing
  <2>2. CASE pc # "materialize"
    <3>1. ~Owing(c)
      BY <1>5, <1>6, <2>2 DEF Owing
    <3>2. /\ c.pc \notin {"symlink", "copies"} /\ (c.op = "init" => c.again)
          /\ c.op # "private"
      BY <1>3, <1>5, <1>6, <2>2
    <3> QED BY <1>4, <1>7, <3>1, <3>2 DEF Follows
  <2> QED BY <2>1, <2>2
<1> QED BY <1>1, <1>4, <1>8, OneFollows

\* What Activate and the private steps read of a command they only move on.
LEMMA GotoFollows ==
    ASSUME TypeInv, NEW p \in Proc, NEW pc \in Pc, Goto(p, pc)
    PROVE  /\ cmd'[p].pc = pc /\ cmd'[p].target = cmd[p].target /\ cmd'[p].op = cmd[p].op
           /\ cmd'[p].again = cmd[p].again
           /\ \A q \in Proc \ {p} : cmd'[q] = cmd[q]
BY DEF TypeInv, CmdInv, Goto, Command

\* A step of rendering or relinking, or of the deletion, which owe nothing.
LEMMA UnowingFollows ==
    ASSUME FollowInv, SafeInv', NEW p \in Proc, Render(p) \/ Relink(p) \/ Delete(p)
    PROVE  FollowInv'
<1>1. /\ TypeInv /\ cmd[p].pc \in {"render", "readdir", "relink", "delete", "backing", "site"}
      /\ UNCHANGED <<active, private, cut>>
  BY DEF Render, Relink, ReadProfiles, KeepEntry, ClearEntry, LinkEntry, Relinked, Relinking, Delete,
         CheckDelete, RemoveBacking, RemoveSite, FollowInv, SafeInv, files, history
<1>2. cmd[p] # Idle /\ Follows(cmd[p])
  BY <1>1, IdleTyped DEF FollowInv
<1>3. ~Owing(cmd[p]) /\ Following
  BY <1>1, <1>2 DEF Owing, Follows
<1>4. Following'
  BY <1>1, <1>3 DEF Following
<1>5. /\ \A q \in Proc \ {p} : cmd'[q] = cmd[q]
      /\ cmd'[p].pc \in {"readdir", "relink", "check", "backing", "site", "idle"}
      /\ cmd'[p].op # "init" \/ cmd'[p].again
      /\ cmd'[p].op # "private"
  <2>1. cmd \in [Proc -> Command]
    BY <1>1 DEF TypeInv, CmdInv
  <2>2. /\ cmd[p].op = "init" /\ cmd[p].pc \in {"render", "readdir", "relink"} => cmd[p].again
        /\ cmd[p].op # "private"
    BY <1>1, <1>2 DEF Follows
  <2>3. CASE Render(p)
    BY <1>1, <2>2, <2>3, GotoFollows DEF Render, Pc
  <2>4. CASE ReadProfiles(p)
    BY <2>1, <2>2, <2>4 DEF ReadProfiles, Command
  <2>5. ASSUME NEW n \in Name, KeepEntry(p, n) \/ ClearEntry(p, n) \/ LinkEntry(p, n)
        PROVE  /\ \A q \in Proc \ {p} : cmd'[q] = cmd[q]
               /\ cmd'[p].pc = "relink"
               /\ cmd'[p].op # "init" \/ cmd'[p].again
               /\ cmd'[p].op # "private"
    BY <2>1, <2>2, <2>5 DEF KeepEntry, ClearEntry, LinkEntry, Relinking, Command
  <2>6. CASE Relinked(p)
    BY <1>1, <2>2, <2>6, GotoFollows DEF Relinked, Pc
  <2>7. CASE Delete(p)
    <3>1. cmd[p].op = "delete"
      BY <1>1, <2>1, <2>7 DEF Delete, CheckDelete, RemoveBacking, RemoveSite, TypeInv, CmdInv, Named,
                              Dooming
    <3>2. CASE CheckDelete(p)
      BY <2>1, <3>1, <3>2 DEF CheckDelete, FirstRemoval, Command
    <3>3. CASE RemoveBacking(p)
      BY <1>1, <3>1, <3>3, GotoFollows DEF RemoveBacking, Pc
    <3>4. CASE RemoveSite(p)
      BY <1>1, <3>4, DoneTyped, IdleTyped DEF RemoveSite
    <3> QED BY <2>7, <3>2, <3>3, <3>4 DEF Delete
  <2> QED BY <2>3, <2>4, <2>5, <2>6, <2>7 DEF Relink
<1>6. Follows(cmd[p])'
  <2>1. ~Owing(cmd[p])'
    BY <1>5 DEF Owing
  <2> QED BY <1>4, <1>5, <2>1 DEF Follows
<1> QED BY <1>2, <1>5, <1>6, OneFollows

LEMMA ActivateFollows ==
    ASSUME FollowInv, SafeInv', NEW p \in Proc, Activate(p) PROVE FollowInv'
<1>1. /\ TypeInv /\ cmd[p].pc \in {"check", "clear", "make", "swap", "copies"}
      /\ cmd[p].target \in Name
      /\ UNCHANGED <<repo, clone, entry, private>>
  BY DEF Activate, CheckTarget, ClearTemp, MakeTemp, SwapLink, ApplyCopies, FollowInv, SafeInv,
         TypeInv, CmdInv, Named, Targeting, files, history
<1>2. cmd[p] # Idle /\ Follows(cmd[p]) /\ cmd \in [Proc -> Command]
  BY <1>1, IdleTyped DEF FollowInv, TypeInv, CmdInv
<1>3. \A n \in Name : Resolves(n)' <=> Resolves(n)
  BY <1>1 DEF Resolves
<1>4. CASE CheckTarget(p) \/ ClearTemp(p) \/ MakeTemp(p)
  <2>1. UNCHANGED <<active, cut>>
    BY <1>4 DEF CheckTarget, ClearTemp, MakeTemp, files, history
  <2>2. PICK pc \in {"clear", "make", "swap"} : Goto(p, pc)
    BY <1>4 DEF CheckTarget, ClearTemp, MakeTemp
  <2>3. /\ cmd'[p].pc = pc /\ cmd'[p].target = cmd[p].target /\ cmd'[p].op = cmd[p].op
        /\ cmd'[p].again = cmd[p].again /\ \A q \in Proc \ {p} : cmd'[q] = cmd[q]
    BY <1>1, <2>2, GotoFollows DEF Pc
  <2>4. cmd[p].pc \in {"check", "clear", "make"}
    BY <1>4 DEF CheckTarget, ClearTemp, MakeTemp
  <2>5. Owing(cmd[p])' <=> Owing(cmd[p])
    BY <2>3, <2>4 DEF Owing
  <2>6. Following' <=> Following
    BY <1>1, <2>1 DEF Following
  <2>7. cmd[p].op # "private" /\ (Owing(cmd[p]) => Resolves(cmd[p].target))
    BY <1>2, <2>4 DEF Follows
  <2>8. Owing(cmd[p])' => active' = cmd'[p].target /\ (Resolves(cmd[p].target))'
    BY <1>1, <1>2, <1>3, <2>1, <2>3, <2>5, <2>7 DEF Follows
  <2>9. ~Owing(cmd[p])' => Following'
    BY <1>2, <2>5, <2>6 DEF Follows
  <2>10. Follows(cmd[p])'
    BY <2>3, <2>7, <2>8, <2>9 DEF Follows
  <2> QED BY <1>2, <2>3, <2>10, OneFollows
<1>5. CASE SwapLink(p)
  <2>1. /\ cmd[p].pc = "swap" /\ active' = cmd[p].target /\ Resolves(cmd[p].target)
        /\ cmd[p].op = "link" => cut'
    BY <1>5 DEF SwapLink, FollowInv, SafeInv, Checked
  <2>2. PICK pc \in {"materialize", "copies"} :
          Goto(p, pc) /\ (cmd[p].op = "link" => pc = "copies")
    BY <1>5 DEF SwapLink
  <2>3. /\ cmd'[p].pc = pc /\ cmd'[p].target = cmd[p].target /\ cmd'[p].op = cmd[p].op
        /\ \A q \in Proc \ {p} : cmd'[q] = cmd[q]
    BY <1>1, <2>2, GotoFollows DEF Pc
  <2>4. cmd[p].op # "private"
    BY <1>2, <2>1 DEF Follows
  <2>5. Follows(cmd[p])'
    BY <1>1, <1>3, <2>1, <2>3, <2>4 DEF Follows, Owing
  <2> QED BY <1>2, <2>3, <2>5, OneFollows
<1>6. CASE ApplyCopies(p)
  <2>1. /\ UNCHANGED <<active, cut>> /\ cmd[p].pc = "copies"
    BY <1>6 DEF ApplyCopies, files, history
  <2>2. /\ Owing(cmd[p]) /\ active = cmd[p].target /\ Resolves(cmd[p].target)
        /\ cmd[p].op # "private" /\ (cmd[p].op = "link" => cut)
    BY <1>2, <2>1 DEF Owing, Follows
  <2>3. \A q \in Proc \ {p} : cmd'[q] = cmd[q]
    BY <1>2, <1>6 DEF ApplyCopies
  <2>4. CASE cmd[p].op = "init"
    <3>1. /\ cmd'[p].pc = "check" /\ cmd'[p].op = "init" /\ cmd'[p].again = FALSE
          /\ cmd'[p].target = cmd[p].target
      BY <1>2, <1>6, <2>4 DEF ApplyCopies, Command
    <3>2. Follows(cmd[p])'
      BY <1>1, <1>3, <2>1, <2>2, <3>1 DEF Follows, Owing
    <3> QED BY <1>2, <2>3, <3>2, OneFollows
  <2>5. CASE cmd[p].op = "link"
    <3>1. cmd'[p] = Idle
      BY <1>2, <1>6, <2>5 DEF ApplyCopies
    <3>2. Following'
      BY <2>1, <2>2, <2>5 DEF Following
    <3>3. Follows(cmd[p])'
      BY <3>1, <3>2, IdleTyped DEF Follows, Owing
    <3> QED BY <1>2, <2>3, <3>3, OneFollows
  <2>6. CASE cmd[p].op \notin {"init", "link"}
    <3>1. /\ cmd'[p].pc = "materialize" /\ cmd'[p].op = cmd[p].op
          /\ cmd'[p].target = cmd[p].target
      BY <1>2, <1>6, <2>6 DEF ApplyCopies, Command
    <3>2. Follows(cmd[p])'
      BY <1>1, <1>3, <2>1, <2>2, <2>6, <3>1 DEF Follows, Owing
    <3> QED BY <1>2, <2>3, <3>2, OneFollows
  <2> QED BY <2>4, <2>5, <2>6
<1> QED BY <1>4, <1>5, <1>6 DEF Activate

\* Whichever way the private steps end, the link follows or the command goes on to
\* the retarget; what ends them is a warning that cut records, or the link in place.
LEMMA AfterPrivateFollows ==
    ASSUME FollowInv, SafeInv', NEW p \in Proc, cmd[p] # Idle, AfterPrivate(p), Following'
    PROVE  FollowInv'
<1>1. TypeInv /\ cmd \in [Proc -> Command]
  BY DEF FollowInv, SafeInv, TypeInv, CmdInv
<1>2. \A q \in Proc \ {p} : cmd'[q] = cmd[q]
  BY <1>1, AfterPrivateTyped
<1>3. CASE cmd[p].op = "delete"
  <2>1. cmd'[p].pc = "delete" /\ cmd'[p].op = "delete"
    BY <1>1, <1>3, GotoFollows DEF AfterPrivate, Pc
  <2>2. Follows(cmd[p])'
    BY <2>1 DEF Follows, Owing
  <2> QED BY <1>2, <2>2, OneFollows
<1>4. CASE cmd[p].op # "delete"
  <2>1. cmd'[p] = Idle
    BY <1>1, <1>4, DoneTyped DEF AfterPrivate
  <2>2. Follows(cmd[p])'
    BY <2>1, IdleTyped DEF Follows, Owing
  <2> QED BY <1>2, <2>2, OneFollows
<1> QED BY <1>3, <1>4

LEMMA ActivatePrivateFollows ==
    ASSUME FollowInv, SafeInv', NEW p \in Proc, ActivatePrivate(p) PROVE FollowInv'
<1>1. /\ TypeInv /\ cmd[p].pc \in {"materialize", "unlink", "symlink"}
      /\ active' = active
  BY DEF ActivatePrivate, NoPrivate, MaterializeFails, Materialized, RemovePrivateLink,
         MakePrivateLink, FollowInv, SafeInv, files, history
<1>2. /\ cmd[p] # Idle /\ Follows(cmd[p]) /\ active = cmd[p].target
      /\ cmd[p].pc = "materialize" =>
           Resolves(cmd[p].target) \/ (cmd[p].op = "private" /\ Following)
      /\ cmd[p].pc = "symlink" => private = NoName
  BY <1>1, IdleTyped DEF FollowInv, Follows, Owing
<1>3. CASE NoPrivate(p)
  <2>1. Following
    BY <1>2, <1>3 DEF NoPrivate, Following, Exists, Resolves
  <2>2. AfterPrivate(p) /\ Following'
    BY <1>3, <2>1 DEF NoPrivate, Following, files, history
  <2> QED BY <1>2, <2>2, AfterPrivateFollows
<1>4. CASE MaterializeFails(p)
  BY <1>2, <1>4, AfterPrivateFollows DEF MaterializeFails, Following
<1>5. CASE Materialized(p)
  <2>1. CASE private = cmd[p].target
    <3>1. AfterPrivate(p) /\ Following'
      BY <1>1, <1>2, <1>5, <2>1 DEF Materialized, Following, files
    <3> QED BY <1>2, <3>1, AfterPrivateFollows
  <2>2. CASE private # cmd[p].target
    <3>1. Goto(p, "unlink")
      BY <1>5, <2>2 DEF Materialized
    <3>2. /\ cmd'[p].pc = "unlink" /\ cmd'[p].target = cmd[p].target /\ cmd'[p].op = cmd[p].op
          /\ \A q \in Proc \ {p} : cmd'[q] = cmd[q]
      BY <1>1, <3>1, GotoFollows DEF Pc
    <3>3. Follows(cmd[p])'
      BY <1>1, <1>2, <3>2 DEF Follows, Owing
    <3> QED BY <1>2, <3>2, <3>3, OneFollows
  <2> QED BY <2>1, <2>2
<1>6. CASE RemovePrivateLink(p)
  <2>1. Goto(p, "symlink") /\ private' = NoName
    BY <1>6 DEF RemovePrivateLink
  <2>2. /\ cmd'[p].pc = "symlink" /\ cmd'[p].target = cmd[p].target /\ cmd'[p].op = cmd[p].op
        /\ \A q \in Proc \ {p} : cmd'[q] = cmd[q]
    BY <1>1, <2>1, GotoFollows DEF Pc
  <2>3. Follows(cmd[p])'
    BY <1>1, <1>2, <2>1, <2>2 DEF Follows, Owing
  <2> QED BY <1>2, <2>2, <2>3, OneFollows
<1>7. CASE MakePrivateLink(p)
  <2>1. AfterPrivate(p) /\ Following'
    BY <1>1, <1>2, <1>7 DEF MakePrivateLink, Following
  <2> QED BY <1>2, <2>1, AfterPrivateFollows
<1> QED BY <1>3, <1>4, <1>5, <1>6, <1>7 DEF ActivatePrivate

LEMMA NextFollows == ASSUME Serial PROVE FollowInv /\ [Next]_vars => FollowInv'
<1> SUFFICES ASSUME FollowInv, [Next]_vars PROVE FollowInv'
  OBVIOUS
<1>1. SafeInv /\ SafeInv'
  BY NextSafe DEF FollowInv
<1>2. ASSUME NEW p \in Proc, Stop(p) PROVE FollowInv'
  <2>1. cmd'[p] = Idle /\ \A q \in Proc \ {p} : cmd'[q] = cmd[q]
    BY <1>1, <1>2, DoneTyped DEF Stop, SafeInv
  <2>2. cmd[p] # Idle /\ Following'
    BY <1>2 DEF Stop, Following
  <2>3. Follows(cmd[p])'
    BY <2>1, <2>2, IdleTyped DEF Follows, Owing
  <2> QED BY <1>1, <2>1, <2>2, <2>3, OneFollows
<1>3. ASSUME NEW n \in Name, GitPull(n) PROVE FollowInv'
  <2>1. /\ Quiet /\ Following /\ UNCHANGED <<active, private, cmd, cut>>
    BY <1>3 DEF GitPull, FollowInv
  <2>2. Quiet' /\ Following'
    BY <2>1 DEF Quiet, Following
  <2> QED BY <1>1, <2>2 DEF FollowInv, Quiet
<1>4. ASSUME UNCHANGED vars PROVE FollowInv'
  <2>1. Following' = Following /\ \A c : (Follows(c))' = Follows(c)
    BY <1>4 DEF vars, Following, Follows, Owing, Resolves
  <2> QED BY <1>1, <1>4, <2>1 DEF vars, FollowInv, Quiet
<1> QED
  BY <1>1, <1>2, <1>3, <1>4, BeginFollows, UnowingFollows, ActivateFollows, ActivatePrivateFollows
     DEF Next

\* cmd/profile_activate.go: "activatePrivate swaps the private identity along with the profile".
\* Whatever sequence of commands ran one at a time, with git
\* pulls between them, the link names the active profile if that has a private
\* repository, unless a command was cut short or failed, or never touches the link.
THEOREM PrivateLinkFollows == ASSUME Serial PROVE Spec => []PrivateFollows
<1>1. Init => FollowInv
  BY InitFollows
<1>2. FollowInv /\ [Next]_vars => FollowInv'
  BY NextFollows
<1>3. FollowInv => PrivateFollows
  BY DEF FollowInv, Following, PrivateFollows
<1> QED BY <1>1, <1>2, <1>3, PTL DEF Spec

-----------------------------------------------------------------------------
\* The commands implement ProfileStore: each is a sequence of file-system calls
\* that may end anywhere, and looks like atomic creations, selections and deletions.

\* What the refinement mapping reads.
LEMMA SameStore ==
    ASSUME UNCHANGED <<repo, clone, entry, active, gone>> PROVE UNCHANGED Store!vars
BY DEF Store!vars, Available, Resolves

LEMMA InitStore == Init => Store!Init
BY DEF Init, Store!Init, Available

\* A removal is the deletion, or takes away what was no profile any more.
LEMMA RemovalStore ==
    ASSUME DeleteInv, NEW p \in Proc, RemoveBacking(p) \/ RemoveSite(p)
    PROVE  [Store!Next]_(Store!vars)
<1> DEFINE d == cmd[p].doomed
<1>1. /\ TypeOK /\ d \in Name /\ cmd[p].pc \in Removing
      /\ d # active
  BY DEF RemoveBacking, RemoveSite, DeleteInv, SafeInv, TypeInv, CmdInv, Named, Dooming,
         Removing, Checked
<1>2. PICK m \in Name \ {d} : Resolves(m)
  BY <1>1 DEF DeleteInv, OtherStays
<1>3. /\ repo \ {d} \subseteq repo' /\ repo' \subseteq repo
      /\ clone \ {d} \subseteq clone' /\ clone' \subseteq clone
      /\ \A n \in Name \ {d} : entry'[n] = entry[n]
      /\ entry'[d] \in {entry[d], "none"}
      /\ UNCHANGED <<active, gone>>
  BY <1>1 DEF RemoveBacking, RemoveSite, TypeOK
<1>4. Available' \in {Available, Available \ {d}}
  <2>1. \A n \in Name \ {d} : n \in Available <=> n \in Available'
    BY <1>3 DEF Available, Resolves
  <2>2. d \in Available' => d \in Available
    BY <1>1, <1>3 DEF Available, Resolves
  <2>3. Available \subseteq Name /\ Available' \subseteq Name
    BY DEF Available
  <2> QED BY <2>1, <2>2, <2>3
<1>5. m \in Available /\ m \in Available'
  BY <1>2, <1>3 DEF Available, Resolves
<1>6. CASE Available' = Available
  BY <1>3, <1>6 DEF Store!vars
<1>7. CASE Available' # Available
  <2>1. d \in Available /\ Available' = Available \ {d}
    BY <1>4, <1>7
  <2>2. Store!Delete(d)
    BY <1>1, <1>3, <1>5, <2>1 DEF Store!Delete
  <2> QED BY <1>1, <2>2 DEF Store!Next
<1> QED BY <1>6, <1>7

LEMMA RelinkStore ==
    ASSUME DeleteInv, NEW p \in Proc, NEW n \in Name,
           KeepEntry(p, n) \/ ClearEntry(p, n) \/ LinkEntry(p, n)
    PROVE  UNCHANGED Store!vars
<1>1. n \in repo /\ TypeOK
  BY DEF KeepEntry, ClearEntry, LinkEntry, Relinking, DeleteInv, SafeInv, Checked, TypeInv
<1>2. UNCHANGED <<repo, clone, active, gone>> /\ \A m \in Name \ {n} : entry'[m] = entry[m]
  BY <1>1 DEF KeepEntry, ClearEntry, LinkEntry, files, history, TypeOK
<1>3. Available' = Available
  BY <1>1, <1>2 DEF Available, Resolves
<1> QED BY <1>2, <1>3 DEF Store!vars

LEMMA NextStore == ASSUME Serial PROVE DeleteInv /\ [Next]_vars => [Store!Next]_(Store!vars)
<1> SUFFICES ASSUME DeleteInv, [Next]_vars PROVE [Store!Next]_(Store!vars)
  OBVIOUS
<1>1. ASSUME NEW p \in Proc, Render(p) PROVE Store!Next
  <2>1. cmd[p].target \in Name
    BY <1>1 DEF Render, DeleteInv, SafeInv, TypeInv, CmdInv, Named, Targeting
  <2>2. Store!Create(cmd[p].target)
    BY <1>1, <2>1 DEF Render, Store!Create, Available, Resolves
  <2> QED BY <2>1, <2>2 DEF Store!Next
<1>2. ASSUME NEW p \in Proc, SwapLink(p) PROVE Store!Next
  <2>1. active' = cmd[p].target /\ cmd[p].target \in Name /\ Resolves(cmd[p].target)
    BY <1>2 DEF SwapLink, DeleteInv, SafeInv, Checked, TypeInv, CmdInv, Named, Targeting
  <2>2. Store!Select(cmd[p].target)
    BY <1>2, <2>1 DEF SwapLink, Store!Select, Available, Resolves
  <2> QED BY <2>1, <2>2 DEF Store!Next
<1>3. ASSUME NEW n \in Name, GitPull(n) PROVE Store!Next
  <2>1. CASE n \in repo
    <3>1. Available' \in {Available, Available \ {n}}
      BY <1>3, <2>1 DEF GitPull, Available, Resolves
    <3> QED BY <1>3, <2>1, <3>1 DEF GitPull, Store!PulledAway, Store!Next
  <2>2. CASE n \notin repo
    <3>1. Available' = Available \cup {n}
      BY <1>3, <2>2 DEF GitPull, Available, Resolves
    <3> QED BY <1>3, <2>2, <3>1 DEF GitPull, Store!Create, Store!Next
  <2> QED BY <2>1, <2>2
<1>4. ASSUME NEW p \in Proc,
             \/ Begin(p) \/ ReadProfiles(p) \/ Relinked(p) \/ ActivatePrivate(p) \/ CheckDelete(p)
             \/ Stop(p) \/ CheckTarget(p) \/ ClearTemp(p) \/ MakeTemp(p) \/ ApplyCopies(p)
      PROVE  UNCHANGED Store!vars
  BY <1>4, SameStore
     DEF Begin, StartActivate, StartInit, StartLink, StartDelete, StartPrivateLink, ReadProfiles,
         Relinked, ActivatePrivate, NoPrivate, MaterializeFails, Materialized, RemovePrivateLink,
         MakePrivateLink, CheckDelete, Stop, CheckTarget, ClearTemp, MakeTemp, ApplyCopies,
         files, history
<1>5. ASSUME UNCHANGED vars PROVE UNCHANGED Store!vars
  BY <1>5, SameStore DEF vars
<1> QED BY <1>1, <1>2, <1>3, <1>4, <1>5, RelinkStore, RemovalStore DEF Next, Relink, Activate, Delete

\* Init, activate, delete, dotfiles link and private link, in any order, failing or
\* dying between any two file-system calls, change the profiles and the active one
\* only as ProfileStore allows.
THEOREM Refines == ASSUME Serial PROVE Spec => ImplementsStore
<1>1. Init => DeleteInv /\ Store!Init
  BY InitDeletes, InitStore
<1>2. DeleteInv /\ [Next]_vars => DeleteInv'
  BY NextDeletes
<1>3. DeleteInv /\ [Next]_vars => [Store!Next]_(Store!vars)
  BY NextStore
<1> QED BY <1>1, <1>2, <1>3, PTL DEF Spec, ImplementsStore, Store!Spec

-----------------------------------------------------------------------------
\* The linker: what is inductive.

LinkRun == [pc : RunPc, init : BOOLEAN, left : SUBSET Site, batch : SUBSET Site, todo : SUBSET Site,
            plan : [Site -> State], targets : SUBSET Site, skipped : SUBSET Site,
            at : SUBSET Site, held : {"none"} \cup Content]

DataInv ==
    /\ carried \in Repositories
    /\ live \in [Site -> {"none"} \cup Links \cup Content]
    /\ source \in [Site -> {"none", "broken"} \cup Content]
    /\ backup \subseteq Site \X Content
    /\ managed \subseteq Tree \cup Gen \cup Copy
    /\ mine \in [Site -> {"none"} \cup Content]
    /\ renderedOver \subseteq Template

Migrating == {"codex", "unlink codex", "write codex", "render"}
Linking == {"batch", "prepare", "adopt", "register", "apply"}

\* A site is in one place at a time: to be planned, to be prepared, to be applied,
\* or skipped.
RunInv ==
    /\ run \in LinkRun
    /\ run.todo \subseteq run.batch /\ run.targets \subseteq run.batch
    /\ run.left \subseteq carried \ Codex
    /\ run.batch \cap (Codex \cup Shadow) = {}
    /\ run.pc \in {"idle", "batch", "restore"} \cup Migrating => run.todo = {} /\ run.targets = {}
    /\ run.pc \in {"register", "apply"} => run.todo = {}
    /\ run.pc \in Migrating => run.left = carried \ Codex
    /\ run.pc \notin Linking => run.skipped = {}
    /\ run.todo \cap run.targets = {}
    /\ run.left \cap (run.todo \cup run.targets) = {}
    /\ run.skipped \cap (run.left \cup run.todo \cup run.targets) = {}

\* What a command has seen of a site is still so: a planned one is what it was
\* planned as, and nothing the user wrote is where a target will be put.
SeenInv ==
    /\ run.pc \in {"prepare", "adopt"} => \A s \in run.todo : run.plan[s] = Classify(s)
    /\ run.pc = "adopt" => \A s \in run.at : s \in run.todo \cap Tree /\ live[s] \in Content
    /\ \A s \in run.targets : live[s] \notin (IF s \in Copy THEN Links ELSE Content)
    /\ run.pc = "apply" => run.batch \ Dir \subseteq managed

\* The codex link: backed up before it goes, gone before the render.
CodexInv ==
    /\ run.pc \in {"unlink codex", "write codex"} => run.held \in Content /\ run.at \subseteq Codex
    /\ run.pc = "unlink codex" => \A s \in run.at : live[s] = "ours" /\ <<s, source[s]>> \in backup
    /\ run.pc = "write codex" => \A s \in run.at : live[s] = "none"
    /\ run.pc = "render" => \A s \in Codex : live[s] # "ours"

\* A real file is the user's, unless mise copied it there or it is the codex one.
FileInv ==
    /\ \A s \in Site \ Codex : live[s] \in Content /\ (s \in Copy => s \notin managed) => live[s] = mine[s]
    /\ run.pc = "restore" => \A s \in run.at :
          run.held \in Content /\ mine[s] = run.held /\ <<s, run.held>> \in backup

\* Where his content is: in a source only until a render writes over it.
InSource(s) == source[s] = mine[s] /\ (s \in Tree \/ (s \in Codex /\ live[s] = "ours"))
KeptInv == \A s \in Site \ (Copy \cup renderedOver) : mine[s] # "none" =>
    live[s] = mine[s] \/ <<s, mine[s]>> \in backup \/ InSource(s)

SkipInv == \A s \in run.skipped : live[s] \in Content /\ live[s] = mine[s]

Declared(s) == live[s] = IF s \in Shadow THEN "none" ELSE IF s \in Copy THEN source[s] ELSE "ours"
DoneInv ==
    run.pc \in Linking =>
        \A s \in carried \ (Codex \cup run.skipped \cup run.left \cup run.todo \cup run.targets) :
            Declared(s) \/ s \in Absent

\* What the template makes in the home tree is there while an init links, but for
\* the moment between the two steps of an adoption.
TemplateInv ==
    run.pc \in Linking /\ run.init =>
        \A s \in carried \cap Template : source[s] # "none" \/ (run.pc = "adopt" /\ s \in run.at)

IInv == DataInv /\ RunInv /\ SeenInv /\ CodexInv /\ FileInv /\ KeptInv /\ SkipInv /\ DoneInv /\ TemplateInv

-----------------------------------------------------------------------------
\* The data.

LEMMA SiteKinds ==
    /\ carried \in Repositories => carried \subseteq Site
    /\ Generated \subseteq Site /\ Tree \subseteq Site /\ Shadow \subseteq Site /\ Codex \subseteq Site
    /\ \A s \in Tree : s \notin Generated \cup Shadow \cup Codex
    /\ \A s \in Generated : s \notin Shadow \cup Codex
    /\ \A s \in Shadow : s \notin Codex
    /\ \A s \in Gen : s \notin Dir \cup Copy
    /\ \A s \in Dir : s \notin Copy
    /\ \A s, t \in Codex : s = t
    /\ Gen \subseteq Generated /\ Dir \subseteq Generated /\ Copy \subseteq Generated
    /\ Template \subseteq Tree
BY TemplateAssumption, RepositoriesAssumption, SiteKindsAssumption DEF Site, Generated

LEMMA Contents ==
    /\ "none" \notin Content /\ "ours" \notin Content /\ "stale" \notin Content /\ "broken" \notin Content
    /\ \A l \in Links : l \notin Content
    /\ Links = {"ours", "stale"} /\ Fresh \in Content
BY ContentAssumption, FreshAssumption DEF Links

LEMMA Put ==
    ASSUME NEW V, NEW f \in [Site -> V], NEW s \in Site, NEW v \in V, NEW g, g = [f EXCEPT ![s] = v]
    PROVE  /\ g \in [Site -> V] /\ g[s] = v
           /\ \A u \in Site : u # s => g[u] = f[u]
OBVIOUS

LEMMA Classified ==
    ASSUME DataInv, NEW s \in Site
    PROVE  /\ Classify(s) \in State
           /\ Classify(s) = "link" <=> live[s] = "none"
           /\ Classify(s) = "ok" <=> live[s] = "ours"
           /\ Classify(s) = "relink" <=> live[s] = "stale"
           /\ Classify(s) = "conflict" <=> live[s] \in Content
<1>1. live[s] \in {"none", "ours", "stale"} \cup Content
  BY DEF DataInv, Links
<1> QED BY <1>1, Contents DEF Classify, State

\* A planned site, looked at when it is prepared.
LEMMA Looking ==
    ASSUME DataInv, RunInv, SeenInv, NEW s \in Site, Preparing(s)
    PROVE  /\ s \in run.todo /\ s \notin Codex \cup Shadow
           /\ Looked(s) = "conflict" => live[s] \in Content /\ (s \in Copy => s \notin managed)
           /\ Looked(s) \in {"ok", "link", "relink"} /\ s \notin Copy => live[s] \notin Content
           /\ Looked(s) \in {"ok", "link"} /\ s \in Copy => live[s] \notin Links
<1>1. s \in run.todo /\ s \in run.batch /\ run.pc = "prepare" /\ run.plan[s] = Classify(s)
  BY DEF Preparing, RunInv, SeenInv
<1>2. s \notin Codex \cup Shadow
  BY <1>1 DEF RunInv
<1>3. CASE s \in Copy /\ live[s] \in Links
  BY <1>1, <1>2, <1>3 DEF Looked
<1>4. CASE s \in Copy /\ live[s] \in Content
  BY <1>1, <1>2, <1>4, Contents DEF Looked
<1>5. CASE s \notin Copy \/ live[s] \notin Links \cup Content
  <2>1. Looked(s) = Classify(s)
    BY <1>1, <1>5 DEF Looked
  <2>2. live[s] \in {"none", "ours", "stale"} \cup Content
    BY DEF DataInv, Links
  <2> QED BY <1>1, <1>2, <1>5, <2>1, <2>2, Classified, Contents
<1> QED BY <1>3, <1>4, <1>5

-----------------------------------------------------------------------------
\* The command's record.

LEMMA IdleIs ==
    /\ NoRun \in LinkRun /\ NoRun.pc = "idle" /\ NoRun.left = {} /\ NoRun.batch = {} /\ NoRun.todo = {}
    /\ NoRun.targets = {} /\ NoRun.skipped = {} /\ NoRun.at = {}
BY DEF NoRun, LinkRun, RunPc, State

Unmoved ==
    /\ run'.left = run.left /\ run'.batch = run.batch /\ run'.todo = run.todo /\ run'.plan = run.plan
    /\ run'.targets = run.targets /\ run'.skipped = run.skipped /\ run'.init = run.init

LEMMA GotoDoes ==
    ASSUME run \in LinkRun, NEW pc \in RunPc, GoOn(pc)
    PROVE  run' \in LinkRun /\ run'.pc = pc /\ Unmoved /\ run'.at = run.at /\ run'.held = run.held
BY DEF LinkRun, GoOn, Step, Unmoved

LEMMA AfterCodexIs ==
    AfterCodex \in {"render", "batch"} /\ AfterCodex \in RunPc /\ (AfterCodex = "batch" => ~run.init)
BY DEF AfterCodex, RunPc

LEMMA PlanDoes ==
    ASSUME DataInv, RunInv, NEW sites \in SUBSET Site, NEW walked, Plan(sites, walked)
    PROVE  /\ run' \in LinkRun /\ run'.pc = "prepare" /\ run'.left = run.left \ walked
           /\ run'.init = run.init /\ run'.batch = sites /\ run'.todo = sites /\ run'.targets = {} /\ run'.skipped = run.skipped
           /\ \A s \in sites : run'.plan[s] = Classify(s)
<1> DEFINE p == [s \in Site |-> IF s \in sites THEN Classify(s) ELSE "ok"]
<1>1. p \in [Site -> State] /\ \A s \in sites : p[s] = Classify(s)
  BY Classified DEF State
<1>2. /\ run \in LinkRun
      /\ run' = [run EXCEPT !.pc = "prepare", !.left = run.left \ walked, !.batch = sites, !.todo = sites,
                            !.plan = p, !.targets = {}]
  BY DEF Plan, Step, RunInv
<1> HIDE DEF p
<1>3. run' \in LinkRun /\ run'.plan = p
  BY <1>1, <1>2 DEF LinkRun, RunPc
<1>4. /\ run'.pc = "prepare" /\ run'.left = run.left \ walked
      /\ run'.init = run.init /\ run'.batch = sites /\ run'.todo = sites /\ run'.targets = {} /\ run'.skipped = run.skipped
  BY <1>2 DEF LinkRun
<1> QED BY <1>1, <1>3, <1>4

\* What is prepared goes from the sites to do to the targets.
LEMMA PreparedDoes ==
    ASSUME run \in LinkRun, NEW s \in Site, run' = Prepared(s)
    PROVE  /\ run' \in LinkRun /\ run'.pc = "prepare" /\ run'.left = run.left /\ run'.batch = run.batch
           /\ run'.todo = run.todo \ {s} /\ run'.targets = run.targets \cup {s}
           /\ run'.skipped = run.skipped /\ run'.plan = run.plan /\ run'.init = run.init
BY DEF LinkRun, Prepared, RunPc

LEMMA SkipDoes ==
    ASSUME run \in LinkRun, NEW s \in Site, PrepareSkip(s)
    PROVE  /\ run' \in LinkRun /\ run'.pc = run.pc /\ run'.left = run.left /\ run'.batch = run.batch
           /\ run'.todo = run.todo \ {s} /\ run'.targets = run.targets
           /\ run'.skipped = run.skipped \cup {s} /\ run'.plan = run.plan /\ run'.init = run.init
BY DEF LinkRun, PrepareSkip, Step

LEMMA TargetDoes ==
    ASSUME run \in LinkRun, NEW s \in Site, run' = [run EXCEPT !.targets = run.targets \ {s}]
    PROVE  /\ run' \in LinkRun /\ run'.pc = run.pc /\ run'.left = run.left /\ run'.batch = run.batch
           /\ run'.todo = run.todo /\ run'.targets = run.targets \ {s}
           /\ run'.skipped = run.skipped /\ run'.plan = run.plan /\ run'.init = run.init
BY DEF LinkRun

-----------------------------------------------------------------------------
\* Steps of the command that leave the files alone.

LEMMA QuietKeeps ==
    ASSUME DataInv, FileInv, KeptInv, UNCHANGED <<carried, live, source, backup, managed, mine, renderedOver>>,
           run'.pc # "restore"
    PROVE  DataInv' /\ FileInv' /\ KeptInv'
BY DEF DataInv, FileInv, KeptInv, InSource

\* A command that starts, ends or is cut.
LEMMA IdleKeeps ==
    ASSUME IInv, UNCHANGED <<carried, live, source, backup, managed, mine, renderedOver>>, run' = NoRun
    PROVE  IInv'
<1>1. RunInv'
  BY IdleIs DEF RunInv, Migrating, Linking
<1>2. SeenInv' /\ CodexInv' /\ SkipInv' /\ DoneInv' /\ TemplateInv'
  BY IdleIs DEF SeenInv, CodexInv, SkipInv, DoneInv, TemplateInv, Linking
<1> QED BY <1>1, <1>2, QuietKeeps, IdleIs DEF IInv

LEMMA StartKeeps ==
    ASSUME IInv, carried' = carried, NEW init \in BOOLEAN, StartRun(init)
    PROVE  IInv'
<1> DEFINE left == carried \ Codex
<1>1. run' = [NoRun EXCEPT !.pc = "codex", !.init = init, !.left = left]
  BY DEF StartRun, Step
<1>2. left \in SUBSET Site /\ left = carried \ Codex
  BY SiteKinds DEF IInv, DataInv
<1> HIDE DEF left
<1>3. /\ run' \in LinkRun /\ run'.pc = "codex" /\ run'.left = left /\ run'.todo = {} /\ run'.targets = {}
      /\ run'.batch = {} /\ run'.skipped = {}
  BY <1>1, <1>2, IdleIs DEF LinkRun, RunPc
<1>4. UNCHANGED <<live, source, backup, managed, mine, renderedOver>>
  BY DEF StartRun
<1>5. RunInv'
  BY <1>2, <1>3 DEF RunInv, Migrating, Linking
<1>6. SeenInv' /\ CodexInv' /\ SkipInv' /\ DoneInv' /\ TemplateInv'
  BY <1>3 DEF SeenInv, CodexInv, SkipInv, DoneInv, TemplateInv, Linking
<1> QED BY <1>3, <1>4, <1>5, <1>6, QuietKeeps DEF IInv

\* On to the next phase, nothing seen or put anywhere.
LEMMA GotoKeeps ==
    ASSUME IInv, UNCHANGED <<carried, live, source, backup, mine, renderedOver>>,
           \/ CodexLeftAlone \/ AllPrepared \/ Register \/ Applied
    PROVE  IInv'
<1>1. CASE CodexLeftAlone
  <2>1. /\ run' \in LinkRun /\ run'.pc \in {"render", "batch"} /\ Unmoved /\ run.pc = "codex"
        /\ \A s \in Codex : live[s] # "ours"
        /\ UNCHANGED managed /\ (run'.pc = "batch" => ~run.init)
    BY <1>1, GotoDoes, AfterCodexIs DEF CodexLeftAlone, IInv, RunInv
  <2>2. RunInv'
    BY <2>1 DEF IInv, RunInv, Unmoved, Migrating, Linking
  <2>3. run.targets = {} /\ run.skipped = {} /\ run.left = carried \ Codex
    BY <2>1 DEF IInv, RunInv, Migrating, Linking
  <2>4. SeenInv' /\ CodexInv' /\ SkipInv' /\ DoneInv' /\ TemplateInv'
    BY <2>1, <2>3 DEF SeenInv, CodexInv, SkipInv, DoneInv, TemplateInv, Linking, Unmoved
  <2> QED BY <2>1, <2>2, <2>4, QuietKeeps DEF IInv
<1>2. CASE AllPrepared \/ Applied
  <2>1. /\ run' \in LinkRun /\ Unmoved /\ UNCHANGED managed
        /\ \/ run.pc = "prepare" /\ run'.pc = "register" /\ run.todo = {}
           \/ run.pc = "apply" /\ run'.pc = "batch" /\ run.targets = {}
    BY <1>2, GotoDoes DEF AllPrepared, Applied, IInv, RunInv, RunPc
  <2>2. RunInv'
    BY <2>1 DEF IInv, RunInv, Unmoved, Migrating, Linking
  <2>3. SeenInv' /\ CodexInv' /\ SkipInv' /\ DoneInv' /\ TemplateInv'
    BY <2>1 DEF IInv, SeenInv, CodexInv, SkipInv, DoneInv, TemplateInv, Absent, Declared, Linking, Unmoved
  <2> QED BY <2>1, <2>2, <2>3, QuietKeeps DEF IInv
<1>3. CASE Register
  <2>1. /\ run' \in LinkRun /\ Unmoved /\ run.pc = "register" /\ run'.pc = "apply"
        /\ managed' = managed \cup (run.batch \ Dir)
    BY <1>3, GotoDoes DEF Register, IInv, RunInv, RunPc
  <2>2. RunInv'
    BY <2>1 DEF IInv, RunInv, Unmoved, Migrating, Linking
  <2>3. SeenInv' /\ CodexInv' /\ SkipInv' /\ DoneInv' /\ TemplateInv'
    BY <2>1 DEF IInv, SeenInv, CodexInv, SkipInv, DoneInv, TemplateInv, Absent, Declared, Linking, Unmoved
  <2>4. DataInv'
    <3>1. run.batch \ Dir \subseteq Tree \cup Gen \cup Copy
      BY DEF IInv, RunInv, LinkRun, Site
    <3> QED BY <2>1, <3>1 DEF IInv, DataInv
  <2>5. FileInv' /\ KeptInv'
    BY <2>1 DEF IInv, FileInv, KeptInv, InSource
  <2> QED BY <2>2, <2>3, <2>4, <2>5 DEF IInv
<1> QED BY <1>1, <1>2, <1>3

LEMMA PlanKeeps ==
    ASSUME IInv, carried' = carried, PlanTree \/ \E s \in Site : PlanOne(s)
    PROVE  IInv'
<1>1. ASSUME NEW sites \in SUBSET Site, NEW walked, sites \subseteq run.left \cap walked,
             sites \cap Shadow = {}, \A s \in (run.left \cap walked) \ sites : s \in Absent,
             run.pc = "batch", Plan(sites, walked), UNCHANGED <<live, source, backup, managed, mine, renderedOver>>
      PROVE  IInv'
  <2>1. /\ run' \in LinkRun /\ run'.pc = "prepare" /\ run'.left = run.left \ walked
        /\ run'.init = run.init /\ run'.batch = sites /\ run'.todo = sites /\ run'.targets = {} /\ run'.skipped = run.skipped
        /\ \A s \in sites : run'.plan[s] = Classify(s)
    BY <1>1, PlanDoes DEF IInv
  <2>2. RunInv'
    BY <1>1, <2>1 DEF IInv, RunInv, Migrating, Linking
  <2>3. \A s \in sites : Classify(s)' = Classify(s)
    BY <1>1 DEF Classify
  <2>4. SeenInv'
    BY <2>1, <2>3 DEF SeenInv
  <2>5. run.todo = {} /\ run.targets = {}
    BY <1>1 DEF IInv, RunInv
  <2>6. CodexInv' /\ SkipInv' /\ DoneInv' /\ TemplateInv'
    BY <1>1, <2>1, <2>5 DEF IInv, CodexInv, SkipInv, DoneInv, TemplateInv, Absent, Declared, Linking
  <2> QED BY <1>1, <2>1, <2>2, <2>4, <2>6, QuietKeeps DEF IInv
<1>2. CASE PlanTree
  <2> DEFINE there == {s \in run.left \cap Tree : source[s] # "none"}
  <2>1. there \in SUBSET Site /\ there \subseteq run.left \cap Tree /\ there \cap Shadow = {}
    BY SiteKinds
  <2>2. /\ run.pc = "batch" /\ Plan(there, Tree)
        /\ UNCHANGED <<live, source, backup, managed, mine, renderedOver>>
    BY <1>2 DEF PlanTree
  <2>3. ASSUME NEW s \in (run.left \cap Tree) \ there PROVE s \in Absent
    <3>1. s \in Tree /\ source[s] = "none" /\ s \in carried
      BY <2>3 DEF IInv, RunInv
    <3>2. run.init => s \notin Template
      BY <2>2, <3>1 DEF IInv, TemplateInv, Linking
    <3> QED BY <3>1, <3>2 DEF Absent
  <2> HIDE DEF there
  <2> QED BY <1>1, <2>1, <2>2, <2>3
<1>3. ASSUME NEW s \in Site, PlanOne(s) PROVE IInv'
  <2>1. /\ {s} \in SUBSET Site /\ {s} \subseteq run.left \cap {s} /\ {s} \cap Shadow = {}
        /\ \A u \in (run.left \cap {s}) \ {s} : u \in Absent
    BY <1>3 DEF PlanOne
  <2> QED BY <1>1, <1>3, <2>1 DEF PlanOne
<1> QED BY <1>2, <1>3

-----------------------------------------------------------------------------
\* The codex link.

LEMMA BackUpKeeps ==
    ASSUME IInv, carried' = carried, NEW s \in Codex, BackUpCodex(s)
    PROVE  IInv'
<1>1. /\ run.pc = "codex" /\ live[s] = "ours" /\ source[s] \in Content
      /\ backup' = backup \cup {<<s, source[s]>>}
      /\ run' = [run EXCEPT !.pc = "unlink codex", !.at = {s}, !.held = source[s]]
      /\ UNCHANGED <<live, source, managed, mine, renderedOver>>
  BY DEF BackUpCodex, Step
<1>2. s \in Site
  BY SiteKinds
<1>3. /\ run' \in LinkRun /\ run'.pc = "unlink codex" /\ run'.at = {s} /\ run'.held = source[s]
      /\ Unmoved
  BY <1>1, <1>2 DEF IInv, RunInv, LinkRun, RunPc, Unmoved
<1>4. RunInv'
  BY <1>1, <1>3 DEF IInv, RunInv, Unmoved, Migrating, Linking
<1>5. run.targets = {} /\ run.skipped = {}
  BY <1>1 DEF IInv, RunInv, Migrating, Linking
<1>6. SeenInv' /\ CodexInv' /\ SkipInv' /\ DoneInv' /\ TemplateInv'
  BY <1>1, <1>3, <1>5 DEF SeenInv, CodexInv, SkipInv, DoneInv, TemplateInv, Linking, Unmoved
<1>7. DataInv' /\ FileInv' /\ KeptInv'
  BY <1>1, <1>2, <1>3 DEF IInv, DataInv, FileInv, KeptInv, InSource
<1> QED BY <1>4, <1>6, <1>7 DEF IInv

\* What the codex site holds once its link is gone.
LEMMA UnlinkKeeps ==
    ASSUME IInv, carried' = carried, NEW s \in Codex,
           CodexDangling(s) \/ UnlinkCodex(s) \/ WriteCodex(s)
    PROVE  IInv'
<1> DEFINE v == IF WriteCodex(s) THEN run.held ELSE "none"
<1>1. /\ live' = [live EXCEPT ![s] = v] /\ UNCHANGED <<source, backup, managed, mine, renderedOver>>
      /\ v \in {"none"} \cup Content
  <2>1. CASE WriteCodex(s)
    BY <2>1 DEF WriteCodex, IInv, CodexInv
  <2>2. CASE ~WriteCodex(s)
    BY <2>2 DEF CodexDangling, UnlinkCodex
  <2> QED BY <2>1, <2>2
<1>2. /\ run' \in LinkRun /\ Unmoved
      /\ run.pc \in {"codex", "unlink codex", "write codex"}
      /\ \/ run'.pc = "write codex" /\ run'.at = {s} /\ run'.held \in Content /\ v = "none"
         \/ run'.pc \in {"render", "batch"} /\ (run'.pc = "batch" => ~run'.init)
  <2>1. CASE CodexDangling(s)
    BY <2>1, GotoDoes, AfterCodexIs DEF CodexDangling, IInv, RunInv, Unmoved
  <2>2. CASE UnlinkCodex(s)
    <3>1. run.pc = "unlink codex" /\ run.at = {s} /\ run.held \in Content /\ ~WriteCodex(s)
      BY <2>2 DEF UnlinkCodex, WriteCodex, IInv, CodexInv
    <3> QED BY <2>2, <3>1, GotoDoes DEF UnlinkCodex, IInv, RunInv, RunPc
  <2>3. CASE WriteCodex(s)
    <3>1. run.pc = "write codex" /\ run' = [run EXCEPT !.pc = AfterCodex, !.at = {}, !.held = "none"]
      BY <2>3 DEF WriteCodex, Step
    <3> QED BY <3>1, AfterCodexIs DEF IInv, RunInv, LinkRun, Unmoved
  <2> QED BY <2>1, <2>2, <2>3
<1>3. mine[s] # "none" => <<s, mine[s]>> \in backup
  <2>1. mine[s] \in {"none"} \cup Content /\ s \in Site /\ s \notin Copy \cup renderedOver /\ s \notin Tree
    BY SiteKinds DEF IInv, DataInv
  <2>2. CASE CodexDangling(s)
    BY <2>1, <2>2, Contents DEF CodexDangling, IInv, KeptInv, InSource
  <2>3. CASE UnlinkCodex(s)
    BY <2>1, <2>3, Contents DEF UnlinkCodex, IInv, KeptInv, InSource, CodexInv
  <2>4. CASE WriteCodex(s)
    <3>1. run.pc = "write codex" /\ s \in run.at
      BY <2>4 DEF WriteCodex
    <3>2. live[s] = "none"
      BY <3>1 DEF IInv, CodexInv
    <3> QED BY <2>1, <3>2 DEF IInv, KeptInv, InSource
  <2> QED BY <2>2, <2>3, <2>4
<1> HIDE DEF v
<1>4. /\ live' \in [Site -> {"none"} \cup Links \cup Content] /\ live'[s] = v /\ s \in Site
      /\ \A u \in Site : u # s => live'[u] = live[u]
  <2>1. v \in {"none"} \cup Links \cup Content /\ s \in Site
    BY <1>1, SiteKinds
  <2> QED BY <1>1, <2>1, Put DEF IInv, DataInv
<1>5. RunInv'
  BY <1>2 DEF IInv, RunInv, Unmoved, Migrating, Linking
<1>6. run.targets = {} /\ run.skipped = {} /\ run.left = carried \ Codex
  BY <1>2 DEF IInv, RunInv, Migrating, Linking
<1>7. SeenInv' /\ SkipInv' /\ DoneInv' /\ TemplateInv'
  BY <1>2, <1>6 DEF SeenInv, SkipInv, DoneInv, TemplateInv, Linking, Unmoved
<1>8. CodexInv'
  <2>1. v # "ours"
    BY <1>1, Contents
  <2>2. \A u \in Codex : u = s
    BY SiteKinds
  <2> QED BY <1>2, <1>4, <2>1, <2>2 DEF CodexInv
<1>9. DataInv'
  BY <1>1, <1>4 DEF IInv, DataInv
<1>10. FileInv'
  BY <1>1, <1>2, <1>4 DEF IInv, FileInv
<1>11. KeptInv'
  BY <1>1, <1>3, <1>4 DEF IInv, KeptInv, InSource
<1> QED BY <1>5, <1>7, <1>8, <1>9, <1>10, <1>11 DEF IInv

LEMMA RenderKeeps == ASSUME IInv, carried' = carried, RenderProfile PROVE IInv'
<1>1. /\ run' \in LinkRun /\ run'.pc = "batch" /\ Unmoved /\ run.pc = "render"
      /\ \A s \in Codex : live[s] # "ours"
  BY GotoDoes DEF RenderProfile, IInv, RunInv, CodexInv, RunPc
<1>2. /\ UNCHANGED <<live, backup, managed, mine>>
      /\ source' = [s \in Site |-> IF s \in carried \cap (Generated \cup Template) THEN Fresh
                                   ELSE IF s \in Codex THEN "none" ELSE source[s]]
      /\ renderedOver' = renderedOver \cup
           {s \in carried \cap Template : source[s] = mine[s] /\ mine[s] # Fresh}
  BY DEF RenderProfile
<1>3. source' \in [Site -> {"none", "broken"} \cup Content]
  BY <1>2, Contents DEF IInv, DataInv
<1>4. ASSUME NEW s \in Tree, s \notin renderedOver', source[s] = mine[s] PROVE source'[s] = mine[s]
  <2>1. s \in Site /\ s \notin Generated \cup Codex
    BY SiteKinds
  <2> QED BY <1>2, <1>4, <2>1
<1>5. RunInv'
  BY <1>1 DEF IInv, RunInv, Unmoved, Migrating, Linking
<1>6. run.targets = {} /\ run.skipped = {} /\ run.left = carried \ Codex
  BY <1>1 DEF IInv, RunInv, Migrating, Linking
<1>7. SeenInv' /\ SkipInv' /\ DoneInv' /\ CodexInv'
  BY <1>1, <1>6 DEF SeenInv, SkipInv, DoneInv, CodexInv, Linking, Unmoved
<1>8. TemplateInv'
  <2>1. \A s \in carried \cap Template : source'[s] = Fresh
    BY <1>2, SiteKinds
  <2> QED BY <2>1, Contents DEF TemplateInv
<1>9. DataInv' /\ FileInv'
  BY <1>1, <1>2, <1>3 DEF IInv, DataInv, FileInv
<1>10. KeptInv'
  <2>1. ASSUME NEW s \in Site \ (Copy \cup renderedOver'), mine[s] # "none"
        PROVE  live[s] = mine[s] \/ <<s, mine[s]>> \in backup \/ InSource(s)'
    <3>1. s \notin renderedOver
      BY <1>2, <2>1
    <3>2. live[s] = mine[s] \/ <<s, mine[s]>> \in backup \/ InSource(s)
      BY <2>1, <3>1 DEF IInv, KeptInv
    <3> QED BY <1>1, <1>2, <1>4, <2>1, <3>2 DEF InSource
  <2> QED BY <1>2, <2>1 DEF KeptInv
<1> QED BY <1>5, <1>7, <1>8, <1>9, <1>10 DEF IInv

-----------------------------------------------------------------------------
\* Preparing and applying: one site changes, and what it held is elsewhere.

LEMMA SiteKeeps ==
    ASSUME IInv, UNCHANGED <<carried, managed, mine, renderedOver>>, NEW s \in Site \ Codex,
           live' \in [Site -> {"none"} \cup Links \cup Content],
           source' \in [Site -> {"none", "broken"} \cup Content],
           \A u \in Site : u # s => live'[u] = live[u] /\ source'[u] = source[u],
           backup \subseteq backup', backup' \subseteq Site \X Content,
           \* What is put there, and where what was there is now.
           live'[s] \in Content => live'[s] = live[s] \/ (s \in Copy /\ s \in managed),
           s \in Copy => source'[s] = source[s],
           source'[s] # "none" \/ (source'[s] = source[s] /\ run.pc # "adopt"),
           \/ s \in Copy \cup renderedOver \/ mine[s] = "none" \/ <<s, mine[s]>> \in backup'
           \/ live'[s] = mine[s] \/ (source'[s] = mine[s] /\ s \in Tree),
           \* The command goes on to another site.
           RunInv', run.pc \in Linking, run'.pc \in Linking \ {"adopt"}, run'.init = run.init,
           run.pc = "adopt" => run.at = {s},
           run'.pc = "prepare" => run.pc \in {"prepare", "adopt"},
           run'.pc = "apply" => run.pc = "apply" /\ run'.batch = run.batch,
           run'.todo \subseteq run.todo \ {s}, run'.plan = run.plan, run'.skipped = run.skipped,
           s \notin run.skipped, run'.targets \subseteq run.targets \cup {s},
           run.left \cup run.todo \cup run.targets \subseteq
                run'.left \cup run'.todo \cup run'.targets \cup {s},
           s \in run'.targets => live'[s] \notin (IF s \in Copy THEN Links ELSE Content),
           s \in run'.left \cup run'.todo \cup run'.targets \/ Declared(s)'
    PROVE  IInv'
<1>1. DataInv'
  BY DEF IInv, DataInv
<1>2. SeenInv'
  <2>1. \A u \in run'.todo : u \in run.todo /\ u \in Site /\ u # s /\ Classify(u)' = Classify(u)
    BY DEF IInv, RunInv, LinkRun, Classify
  <2>2. \A u \in run'.targets : u = s \/ (u \in run.targets /\ u \in Site)
    BY DEF IInv, RunInv, LinkRun
  <2> QED BY <2>1, <2>2 DEF IInv, SeenInv
<1>3. CodexInv'
  BY DEF CodexInv, Linking
<1>4. FileInv'
  BY DEF IInv, FileInv, Linking
<1>5. KeptInv'
  BY DEF IInv, KeptInv, InSource
<1>6. SkipInv'
  <2>1. \A u \in run'.skipped : u \in run.skipped /\ u # s /\ u \in Site
    BY DEF IInv, RunInv, LinkRun
  <2> QED BY <2>1 DEF IInv, SkipInv
<1>7. ASSUME NEW u \in carried \ (Codex \cup run'.skipped \cup run'.left \cup run'.todo \cup run'.targets)
      PROVE  Declared(u)' \/ u \in Absent'
  <2>1. u \in Site
    BY SiteKinds DEF IInv, DataInv
  <2>2. CASE u = s
    BY <1>7, <2>2
  <2>3. CASE u # s
    <3>1. u \notin Codex \cup run.skipped \cup run.left \cup run.todo \cup run.targets
      BY <1>7, <2>1, <2>3
    <3> QED BY <1>7, <2>1, <2>3, <3>1 DEF IInv, DoneInv, Declared, Absent
  <2> QED BY <2>2, <2>3
<1>8. DoneInv'
  BY <1>7 DEF DoneInv
<1>9. TemplateInv'
  <2>1. \A u \in carried : u \in Site
    BY SiteKinds DEF IInv, DataInv
  <2> QED BY <2>1 DEF IInv, TemplateInv
<1> QED BY <1>1, <1>2, <1>3, <1>4, <1>5, <1>6, <1>8, <1>9 DEF IInv

\* What the user wrote at a site that holds a file is what it holds.
LEMMA FileIsMine ==
    ASSUME IInv, NEW s \in Site \ (Codex \cup Copy), NEW b, backup \subseteq b,
           live[s] \in Content => <<s, live[s]>> \in b
    PROVE  mine[s] = "none" \/ <<s, mine[s]>> \in b \/ s \in renderedOver \/ (source[s] = mine[s] /\ s \in Tree)
<1>1. live[s] \in Content => live[s] = mine[s]
  BY DEF IInv, FileInv
<1>2. mine[s] \in {"none"} \cup Content
  BY DEF IInv, DataInv
<1> QED BY <1>1, <1>2 DEF IInv, KeptInv, InSource

LEMMA LegacyKeeps ==
    ASSUME IInv, carried' = carried, NEW s \in Site, RetireLegacy(s)
    PROVE  IInv'
<1>1. /\ run.pc = "batch" /\ s \in run.left /\ s \in Shadow /\ UNCHANGED <<source, managed, mine, renderedOver>>
      /\ live' = [live EXCEPT ![s] = "none"]
      /\ backup' = IF live[s] \in Content THEN backup \cup {<<s, live[s]>>} ELSE backup
      /\ run' = [run EXCEPT !.left = run.left \ {s}]
  BY DEF RetireLegacy, Step
<1>2. /\ run' \in LinkRun /\ run'.pc = "batch" /\ run'.left = run.left \ {s} /\ run'.batch = run.batch
      /\ run'.todo = run.todo /\ run'.targets = run.targets /\ run'.skipped = run.skipped
      /\ run'.plan = run.plan
  BY <1>1 DEF IInv, RunInv, LinkRun
<1>3. RunInv'
  BY <1>1, <1>2 DEF IInv, RunInv, Migrating, Linking
<1>4. run.todo = {} /\ run.targets = {} /\ s \notin run.skipped
  BY <1>1 DEF IInv, RunInv
<1>5. s \notin Codex /\ s \notin Copy
  BY <1>1, SiteKinds
<1>6. backup \subseteq backup' /\ backup' \subseteq Site \X Content
  BY <1>1 DEF IInv, DataInv
<1>7. mine[s] = "none" \/ <<s, mine[s]>> \in backup' \/ s \in renderedOver \/ (source[s] = mine[s] /\ s \in Tree)
  BY <1>1, <1>5, <1>6, FileIsMine
<1>8. /\ live' \in [Site -> {"none"} \cup Links \cup Content] /\ live'[s] = "none"
      /\ \A u \in Site : u # s => live'[u] = live[u]
  BY <1>1, Put DEF IInv, DataInv
<1>9. Declared(s)'
  BY <1>1, <1>8 DEF Declared
<1>10. source' \in [Site -> {"none", "broken"} \cup Content]
  BY <1>1 DEF IInv, DataInv
<1> QED BY <1>1, <1>2, <1>3, <1>4, <1>5, <1>6, <1>7, <1>8, <1>9, <1>10, Contents, SiteKeeps DEF Linking

\* Nothing in the way, a link that goes, a file that is backed up, a file adopted.
LEMMA PreparedKeeps ==
    ASSUME IInv, carried' = carried, NEW s \in Site,
           PrepareNothing(s) \/ PrepareUnlink(s) \/ PrepareBackup(s) \/ MoveAdopted(s)
    PROVE  IInv'
<1>1. /\ run' = Prepared(s) /\ s \in run.todo /\ run.pc \in {"prepare", "adopt"}
      /\ (run.pc = "adopt" => MoveAdopted(s) /\ run.at = {s})
      /\ UNCHANGED managed /\ UNCHANGED mine /\ UNCHANGED renderedOver
  <2>1. CASE MoveAdopted(s)
    BY <2>1 DEF MoveAdopted, Step, IInv, SeenInv
  <2>2. CASE ~MoveAdopted(s)
    BY <2>2 DEF PrepareNothing, PrepareUnlink, PrepareBackup, Preparing, Step
  <2> QED BY <2>1, <2>2
<1>2. /\ run' \in LinkRun /\ run'.pc = "prepare" /\ run'.left = run.left /\ run'.batch = run.batch
      /\ run'.todo = run.todo \ {s} /\ run'.targets = run.targets \cup {s}
      /\ run'.skipped = run.skipped /\ run'.plan = run.plan /\ run'.init = run.init
  BY <1>1, PreparedDoes DEF IInv, RunInv
<1>3. RunInv'
  <2>1. /\ run'.left \subseteq carried' \ Codex /\ run'.batch \cap (Codex \cup Shadow) = {}
        /\ run'.todo \subseteq run'.batch /\ run'.targets \subseteq run'.batch
    BY <1>1, <1>2 DEF IInv, RunInv
  <2>2. run'.todo \cap run'.targets = {}
    BY <1>1, <1>2 DEF IInv, RunInv
  <2>3. run'.left \cap (run'.todo \cup run'.targets) = {}
    BY <1>1, <1>2 DEF IInv, RunInv
  <2>4. run'.skipped \cap (run'.left \cup run'.todo \cup run'.targets) = {}
    BY <1>1, <1>2 DEF IInv, RunInv
  <2> QED BY <1>2, <2>1, <2>2, <2>3, <2>4 DEF RunInv, Migrating, Linking
<1>4. s \notin Codex \cup Shadow /\ s \notin run.skipped
  BY <1>1 DEF IInv, RunInv
<1>5. live \in [Site -> {"none"} \cup Links \cup Content]
      /\ source \in [Site -> {"none", "broken"} \cup Content]
  BY DEF IInv, DataInv
<1> DEFINE Keeps(b) ==
      /\ live' \in [Site -> {"none"} \cup Links \cup Content]
      /\ source' \in [Site -> {"none", "broken"} \cup Content]
      /\ \A u \in Site : u # s => live'[u] = live[u] /\ source'[u] = source[u]
      /\ backup \subseteq b /\ b \subseteq Site \X Content
      /\ live'[s] = live[s] \/ live'[s] = "none"
      /\ live'[s] \notin (IF s \in Copy THEN Links ELSE Content)
      /\ s \in Copy => source'[s] = source[s]
      /\ source'[s] # "none" \/ (source'[s] = source[s] /\ run.pc # "adopt")
      /\ \/ s \in Copy \cup renderedOver \/ mine[s] = "none" \/ <<s, mine[s]>> \in b
         \/ source'[s] = mine[s] /\ s \in Tree
<1>6. Keeps(backup')
  <2>1. CASE PrepareNothing(s)
    <3>1. UNCHANGED <<live, source, backup>> /\ run.pc = "prepare"
      BY <2>1 DEF PrepareNothing, Preparing
    <3>2. live[s] \notin (IF s \in Copy THEN Links ELSE Content)
      BY <2>1, Looking DEF PrepareNothing, IInv
    <3>3. s \notin Copy => mine[s] = "none" \/ <<s, mine[s]>> \in backup \/ s \in renderedOver \/ (source[s] = mine[s] /\ s \in Tree)
      BY <1>4, <3>2, FileIsMine
    <3> QED BY <1>5, <3>1, <3>2, <3>3 DEF IInv, DataInv
  <2>2. CASE PrepareUnlink(s)
    <3>1. /\ UNCHANGED <<source, backup>> /\ live[s] \in Links /\ live' = [live EXCEPT ![s] = "none"]
          /\ run.pc = "prepare"
      BY <2>2 DEF PrepareUnlink, Preparing
    <3>2. /\ live' \in [Site -> {"none"} \cup Links \cup Content] /\ live'[s] = "none"
          /\ \A u \in Site : u # s => live'[u] = live[u]
      BY <1>5, <3>1, Put
    <3>3. s \notin Copy => mine[s] = "none" \/ <<s, mine[s]>> \in backup \/ s \in renderedOver \/ (source[s] = mine[s] /\ s \in Tree)
      BY <1>4, <3>1, Contents, FileIsMine
    <3> QED BY <1>5, <3>1, <3>2, <3>3, Contents DEF IInv, DataInv
  <2>3. CASE PrepareBackup(s)
    <3>1. /\ UNCHANGED source /\ live' = [live EXCEPT ![s] = "none"]
          /\ backup' = backup \cup {<<s, live[s]>>} /\ live[s] \in Content
          /\ run.pc = "prepare"
      BY <2>3, Looking DEF PrepareBackup, Preparing, IInv
    <3>2. /\ live' \in [Site -> {"none"} \cup Links \cup Content] /\ live'[s] = "none"
          /\ \A u \in Site : u # s => live'[u] = live[u]
      BY <1>5, <3>1, Put
    <3>3. s \notin Copy => mine[s] = "none" \/ <<s, mine[s]>> \in backup' \/ s \in renderedOver \/ (source[s] = mine[s] /\ s \in Tree)
      BY <1>4, <3>1, FileIsMine
    <3> QED BY <1>5, <3>1, <3>2, <3>3, Contents DEF IInv, DataInv
  <2>4. CASE MoveAdopted(s)
    <3>1. /\ s \in Tree /\ live[s] \in Content /\ UNCHANGED backup
          /\ source' = [source EXCEPT ![s] = live[s]] /\ live' = [live EXCEPT ![s] = "none"]
      BY <2>4 DEF MoveAdopted, IInv, SeenInv
    <3>2. /\ live' \in [Site -> {"none"} \cup Links \cup Content] /\ live'[s] = "none"
          /\ \A u \in Site : u # s => live'[u] = live[u]
      BY <1>5, <3>1, Put
    <3>3. /\ source' \in [Site -> {"none", "broken"} \cup Content] /\ source'[s] = live[s]
          /\ \A u \in Site : u # s => source'[u] = source[u]
      <4>1. live[s] \in {"none", "broken"} \cup Content
        BY <3>1
      <4> QED BY <1>5, <3>1, <4>1, Put
    <3>4. s \notin Copy /\ live[s] = mine[s]
      BY <1>4, <3>1, SiteKinds DEF IInv, FileInv
    <3> QED BY <3>1, <3>2, <3>3, <3>4, Contents DEF IInv, DataInv
  <2> QED BY <2>1, <2>2, <2>3, <2>4
<1>7. live'[s] \in Content => live'[s] = live[s]
  BY <1>6, Contents
<1>8. s \in run'.left \cup run'.todo \cup run'.targets
  BY <1>2
<1> QED BY <1>1, <1>2, <1>3, <1>4, <1>6, <1>7, <1>8, SiteKeeps DEF Linking

LEMMA SkipKeeps ==
    ASSUME IInv, carried' = carried, NEW s \in Site, PrepareSkip(s)
    PROVE  IInv'
<1>1. /\ run' \in LinkRun /\ run'.pc = run.pc /\ run'.left = run.left /\ run'.batch = run.batch
      /\ run'.todo = run.todo \ {s} /\ run'.targets = run.targets
      /\ run'.skipped = run.skipped \cup {s} /\ run'.plan = run.plan /\ run.pc = "prepare"
      /\ run'.init = run.init
  BY SkipDoes DEF IInv, RunInv, PrepareSkip, Preparing
<1>2. /\ s \in run.todo /\ s \notin Codex
      /\ live[s] \in Content /\ (s \in Copy => s \notin managed)
  BY Looking DEF PrepareSkip, IInv
<1>3. UNCHANGED <<live, source, backup, managed, mine, renderedOver>>
  BY DEF PrepareSkip
<1>4. RunInv'
  BY <1>1, <1>2 DEF IInv, RunInv, Migrating, Linking
<1>5. SeenInv' /\ CodexInv'
  BY <1>1, <1>3 DEF IInv, SeenInv, CodexInv, Classify
<1>6. SkipInv'
  BY <1>1, <1>2, <1>3 DEF IInv, SkipInv, FileInv
<1>7. DoneInv'
  BY <1>1, <1>3 DEF IInv, DoneInv, Absent, Declared, Linking
<1>8. TemplateInv'
  BY <1>1, <1>3 DEF IInv, TemplateInv, Linking
<1> QED BY <1>1, <1>3, <1>4, <1>5, <1>6, <1>7, <1>8, QuietKeeps DEF IInv

LEMMA AdoptKeeps ==
    ASSUME IInv, carried' = carried, NEW s \in Site, PrepareAdopt(s)
    PROVE  IInv'
<1>1. /\ run' = [run EXCEPT !.pc = "adopt", !.at = {s}] /\ run.pc = "prepare" /\ run \in LinkRun
      /\ source' = [source EXCEPT ![s] = "none"]
      /\ UNCHANGED <<live, backup, managed, mine, renderedOver>>
  BY DEF PrepareAdopt, Preparing, Step, IInv, RunInv
<1>2. /\ s \in run.todo /\ s \in Tree /\ live[s] \in Content
  <2>1. s \in run.todo /\ s \notin Codex \cup Shadow /\ s \notin Generated /\ live[s] \in Content
    BY Looking DEF PrepareAdopt, IInv
  <2> QED BY <2>1 DEF Site, Generated
<1>3. run' \in LinkRun /\ run'.pc = "adopt" /\ run'.at = {s} /\ Unmoved
  BY <1>1 DEF LinkRun, RunPc, Unmoved
<1>4. /\ source' \in [Site -> {"none", "broken"} \cup Content]
      /\ \A u \in Site : u # s => source'[u] = source[u]
  <2>1. "none" \in {"none", "broken"} \cup Content
    OBVIOUS
  <2> QED BY <1>1, <2>1, Put DEF IInv, DataInv
<1>5. s \notin Copy /\ s \notin Codex /\ live[s] = mine[s]
  BY <1>2, SiteKinds DEF IInv, FileInv
<1>6. RunInv'
  BY <1>1, <1>3 DEF IInv, RunInv, Unmoved, Migrating, Linking
<1>7. SeenInv' /\ CodexInv' /\ SkipInv'
  BY <1>1, <1>2, <1>3 DEF IInv, SeenInv, CodexInv, SkipInv, Classify, Unmoved
<1>8. DataInv' /\ FileInv'
  BY <1>1, <1>3, <1>4 DEF IInv, DataInv, FileInv
<1>9. KeptInv'
  BY <1>1, <1>4, <1>5 DEF IInv, KeptInv, InSource
<1>10. DoneInv' /\ TemplateInv'
  <2>1. \A u \in carried : u \in Site
    BY SiteKinds DEF IInv, DataInv
  <2> QED BY <1>1, <1>2, <1>3, <1>4, <1>5, <2>1 DEF IInv, DoneInv, TemplateInv, Absent, Declared, Linking, Unmoved
<1> QED BY <1>6, <1>7, <1>8, <1>9, <1>10 DEF IInv

LEMMA ApplyKeeps ==
    ASSUME IInv, carried' = carried, NEW s \in Site, ApplyLink(s) \/ ApplyCopy(s)
    PROVE  IInv'
<1>1. /\ run' = [run EXCEPT !.targets = run.targets \ {s}] /\ s \in run.targets /\ run.pc = "apply"
      /\ UNCHANGED <<backup, managed, mine, renderedOver>>
  BY DEF ApplyLink, ApplyCopy, Step
<1>2. /\ run' \in LinkRun /\ run'.pc = run.pc /\ run'.left = run.left /\ run'.batch = run.batch
      /\ run'.todo = run.todo /\ run'.targets = run.targets \ {s}
      /\ run'.skipped = run.skipped /\ run'.plan = run.plan /\ run'.init = run.init
  BY <1>1, TargetDoes DEF IInv, RunInv
<1>3. RunInv'
  BY <1>1, <1>2 DEF IInv, RunInv, Migrating, Linking
<1>4. /\ s \notin Codex \cup Shadow /\ s \notin run.skipped /\ s \in run.batch /\ run.todo = {}
      /\ live[s] \notin (IF s \in Copy THEN Links ELSE Content)
      /\ s \in Copy => s \in managed
  BY <1>1, SiteKinds DEF IInv, RunInv, SeenInv
<1>5. /\ source' = source /\ live' = [live EXCEPT ![s] = IF s \in Copy THEN source[s] ELSE "ours"]
      /\ s \in Copy => source[s] \in Content
  <2>1. CASE ApplyLink(s)
    BY <2>1 DEF ApplyLink
  <2>2. CASE ApplyCopy(s)
    BY <1>4, <2>2, Contents DEF ApplyCopy
  <2> QED BY <2>1, <2>2
<1>6. /\ live' \in [Site -> {"none"} \cup Links \cup Content]
      /\ live'[s] = IF s \in Copy THEN source[s] ELSE "ours"
      /\ \A u \in Site : u # s => live'[u] = live[u]
  <2>1. (IF s \in Copy THEN source[s] ELSE "ours") \in {"none"} \cup Links \cup Content
    BY <1>5, Contents
  <2> QED BY <1>5, <2>1, Put DEF IInv, DataInv
<1>7. s \notin Copy => mine[s] = "none" \/ <<s, mine[s]>> \in backup \/ s \in renderedOver \/ (source[s] = mine[s] /\ s \in Tree)
  BY <1>4, FileIsMine
<1>8. Declared(s)'
  BY <1>4, <1>5, <1>6 DEF Declared
<1>9. /\ source' \in [Site -> {"none", "broken"} \cup Content] /\ backup' \subseteq Site \X Content
      /\ \A u \in Site : source'[u] = source[u]
  BY <1>1, <1>5 DEF IInv, DataInv
<1> QED BY <1>1, <1>2, <1>3, <1>4, <1>5, <1>6, <1>7, <1>8, <1>9, Contents, SiteKeeps DEF Linking

-----------------------------------------------------------------------------
\* The user, git pull and restore, between commands.

\* A step with no command's linking on either side of it.
LEMMA ApartKeeps ==
    ASSUME IInv, DataInv', FileInv', KeptInv', carried' = carried, run.pc \in {"idle", "restore"},
           run' \in LinkRun, run'.pc \in {"idle", "restore"},
           run'.left \in {{}, run.left}, run'.batch \in {{}, run.batch},
           run'.todo \in {{}, run.todo}, run'.targets \in {{}, run.targets},
           run'.skipped \in {{}, run.skipped}
    PROVE  IInv'
<1>1. run.todo = {} /\ run.targets = {} /\ run.skipped = {}
  BY DEF IInv, RunInv, Linking
<1>2. RunInv'
  BY <1>1 DEF IInv, RunInv, Migrating, Linking
<1>3. SeenInv' /\ CodexInv' /\ SkipInv' /\ DoneInv' /\ TemplateInv'
  BY <1>1 DEF SeenInv, CodexInv, SkipInv, DoneInv, TemplateInv, Linking
<1> QED BY <1>2, <1>3 DEF IInv

LEMMA UserKeeps ==
    ASSUME IInv, carried' = carried, NEW s \in carried, NEW c \in Content,
           UserWrites(s, c) \/ UserWritesThrough(s, c) \/ PullSite(s, c)
    PROVE  IInv'
<1>1. s \in Site /\ run' = run /\ run.pc = "idle" /\ UNCHANGED backup
  BY SiteKinds DEF IInv, DataInv, UserWrites, UserWritesThrough, PullSite
<1>2. /\ live \in [Site -> {"none"} \cup Links \cup Content]
      /\ source \in [Site -> {"none", "broken"} \cup Content]
      /\ mine \in [Site -> {"none"} \cup Content]
  BY DEF IInv, DataInv
<1>3. DataInv' /\ FileInv' /\ KeptInv'
  <2>1. CASE UserWrites(s, c)
    <3>1. /\ UNCHANGED <<source, managed>>
          /\ live' = [live EXCEPT ![s] = c] /\ mine' = [mine EXCEPT ![s] = c]
          /\ renderedOver' = renderedOver \ {s}
      BY <2>1 DEF UserWrites
    <3>2. /\ live' \in [Site -> {"none"} \cup Links \cup Content] /\ live'[s] = c
          /\ \A u \in Site : u # s => live'[u] = live[u]
      BY <1>1, <1>2, <3>1, Put
    <3>3. /\ mine' \in [Site -> {"none"} \cup Content] /\ mine'[s] = c
          /\ \A u \in Site : u # s => mine'[u] = mine[u]
      BY <1>1, <1>2, <3>1, Put
    <3> QED BY <1>1, <3>1, <3>2, <3>3 DEF IInv, DataInv, FileInv, KeptInv, InSource
  <2>2. CASE UserWritesThrough(s, c)
    <3>1. /\ UNCHANGED <<live, managed>> /\ s \in Tree \cup Codex /\ live[s] = "ours"
          /\ source' = [source EXCEPT ![s] = c] /\ mine' = [mine EXCEPT ![s] = c]
          /\ renderedOver' = renderedOver \ {s}
      BY <2>2 DEF UserWritesThrough
    <3>2. /\ source' \in [Site -> {"none", "broken"} \cup Content] /\ source'[s] = c
          /\ \A u \in Site : u # s => source'[u] = source[u]
      BY <1>1, <1>2, <3>1, Put
    <3>3. /\ mine' \in [Site -> {"none"} \cup Content] /\ mine'[s] = c
          /\ \A u \in Site : u # s => mine'[u] = mine[u]
      BY <1>1, <1>2, <3>1, Put
    <3> QED BY <1>1, <3>1, <3>2, <3>3, Contents DEF IInv, DataInv, FileInv, KeptInv, InSource
  <2>3. CASE PullSite(s, c)
    <3> DEFINE m == IF live[s] = mine[s] THEN mine[s] ELSE "none"
    <3>1. /\ UNCHANGED <<live, renderedOver>> /\ s \notin Shadow
          /\ managed' = managed \cup ({s} \cap (Tree \cup Gen \cup Copy))
          /\ source' = [source EXCEPT ![s] = c] /\ mine' = [mine EXCEPT ![s] = m]
      BY <2>3 DEF PullSite
    <3>2. m \in {"none"} \cup Content
      BY <1>1, <1>2
    <3>3. /\ source' \in [Site -> {"none", "broken"} \cup Content]
          /\ \A u \in Site : u # s => source'[u] = source[u]
      BY <1>1, <1>2, <3>1, Put
    <3>4. /\ mine' \in [Site -> {"none"} \cup Content] /\ mine'[s] = m
          /\ \A u \in Site : u # s => mine'[u] = mine[u]
      BY <1>1, <1>2, <3>1, <3>2, Put
    <3>5. DataInv'
      BY <1>1, <3>1, <3>3, <3>4 DEF IInv, DataInv
    <3>6. FileInv' /\ KeptInv'
      BY <1>1, <3>1, <3>3, <3>4 DEF IInv, FileInv, KeptInv, InSource
    <3> QED BY <3>5, <3>6
  <2> QED BY <2>1, <2>2, <2>3
<1> QED BY <1>1, <1>3, ApartKeeps DEF IInv, RunInv

LEMMA ClearKeeps ==
    ASSUME IInv, carried' = carried, NEW s \in Site, NEW c \in Content, RestoreClear(s, c)
    PROVE  IInv'
<1>1. /\ run' = [NoRun EXCEPT !.pc = "restore", !.at = {s}, !.held = c]
      /\ run.pc = "idle" /\ <<s, c>> \in backup /\ UNCHANGED <<backup, managed>>
      /\ mine' = [mine EXCEPT ![s] = c] /\ renderedOver' = renderedOver \ {s}
  BY DEF RestoreClear, Step
<1>2. /\ run' \in LinkRun /\ run'.pc = "restore" /\ run'.at = {s} /\ run'.held = c
      /\ run'.left = {} /\ run'.batch = {} /\ run'.todo = {} /\ run'.targets = {} /\ run'.skipped = {}
  BY <1>1, IdleIs DEF LinkRun, RunPc
<1>3. /\ mine' \in [Site -> {"none"} \cup Content] /\ mine'[s] = c
      /\ \A u \in Site : u # s => mine'[u] = mine[u]
  BY <1>1, Put DEF IInv, DataInv
<1>4. /\ live' \in [Site -> {"none"} \cup Links \cup Content]
      /\ source' \in [Site -> {"none", "broken"} \cup Content]
      /\ live'[s] \notin Content
      /\ \A u \in Site : u # s => live'[u] = live[u] /\ source'[u] = source[u]
  <2>1. CASE Through(s)
    <3>1. live' = live /\ live[s] = "ours" /\ source' = [source EXCEPT ![s] = "none"]
      BY <2>1 DEF RestoreClear, Through
    <3>2. "none" \in {"none", "broken"} \cup Content
      OBVIOUS
    <3> QED BY <3>1, <3>2, Put, Contents DEF IInv, DataInv
  <2>2. CASE ~Through(s)
    <3>1. source' = source /\ live' = [live EXCEPT ![s] = "none"]
      BY <2>2 DEF RestoreClear
    <3>2. "none" \in {"none"} \cup Links \cup Content
      OBVIOUS
    <3> QED BY <3>1, <3>2, Put, Contents DEF IInv, DataInv
  <2> QED BY <2>1, <2>2
<1>5. DataInv' /\ FileInv'
  BY <1>1, <1>2, <1>3, <1>4 DEF IInv, DataInv, FileInv
<1>6. KeptInv'
  BY <1>1, <1>3, <1>4 DEF IInv, KeptInv, InSource
<1> QED BY <1>1, <1>2, <1>5, <1>6, ApartKeeps

LEMMA CopyKeeps ==
    ASSUME IInv, carried' = carried, NEW s \in Site, RestoreCopy(s)
    PROVE  IInv'
<1>1. /\ run' = NoRun /\ run.pc = "restore" /\ s \in run.at /\ UNCHANGED <<backup, managed, mine, renderedOver>>
  BY DEF RestoreCopy, Step
<1>2. run.held \in Content /\ mine[s] = run.held /\ <<s, run.held>> \in backup
  BY <1>1 DEF IInv, FileInv
<1>3. /\ live' \in [Site -> {"none"} \cup Links \cup Content]
      /\ source' \in [Site -> {"none", "broken"} \cup Content]
      /\ live'[s] \in Content => live'[s] = run.held
      /\ \A u \in Site : u # s => live'[u] = live[u] /\ source'[u] = source[u]
  <2>1. CASE Through(s)
    <3>1. live' = live /\ live[s] = "ours" /\ source' = [source EXCEPT ![s] = run.held]
      BY <2>1 DEF RestoreCopy, Through
    <3>2. run.held \in {"none", "broken"} \cup Content
      BY <1>2
    <3> QED BY <3>1, <3>2, Put, Contents DEF IInv, DataInv
  <2>2. CASE ~Through(s)
    <3>1. source' = source /\ live' = [live EXCEPT ![s] = run.held]
      BY <2>2 DEF RestoreCopy
    <3>2. run.held \in {"none"} \cup Links \cup Content
      BY <1>2
    <3> QED BY <3>1, <3>2, Put, Contents DEF IInv, DataInv
  <2> QED BY <2>1, <2>2
<1>4. DataInv' /\ FileInv'
  BY <1>1, <1>2, <1>3, IdleIs DEF IInv, DataInv, FileInv
<1>5. KeptInv'
  BY <1>1, <1>2, <1>3 DEF IInv, KeptInv, InSource
<1> QED BY <1>1, <1>4, <1>5, IdleIs, ApartKeeps

-----------------------------------------------------------------------------
LEMMA InitHolds == LinkerInit => IInv
<1> SUFFICES ASSUME LinkerInit PROVE IInv
  OBVIOUS
<1>1. PICK held \in [carried -> {"none", "stale", "ours"} \cup Content] :
        live = [s \in Site |-> IF s \in carried THEN held[s] ELSE "none"]
  BY DEF LinkerInit
<1>2. live \in [Site -> {"none"} \cup Links \cup Content]
  BY <1>1, Contents
<1>3. source \in [Site -> {"none", "broken"} \cup Content]
  BY Contents DEF LinkerInit
<1>4. mine \in [Site -> {"none"} \cup Content] /\ \A s \in Site :
        mine[s] = IF live[s] \in Content THEN live[s] ELSE "none"
  BY <1>2 DEF LinkerInit
<1>5. DataInv
  BY <1>2, <1>3, <1>4 DEF LinkerInit, DataInv
<1>6. FileInv /\ KeptInv
  BY <1>4, IdleIs DEF LinkerInit, FileInv, KeptInv
<1>7. RunInv
  BY IdleIs DEF LinkerInit, RunInv, Migrating, Linking
<1>8. SeenInv /\ CodexInv /\ SkipInv /\ DoneInv /\ TemplateInv
  BY IdleIs DEF LinkerInit, SeenInv, CodexInv, SkipInv, DoneInv, TemplateInv, Linking
<1> QED BY <1>5, <1>6, <1>7, <1>8 DEF IInv

LEMMA Inductive == IInv /\ [LinkerNext]_linkerVars => IInv'
<1> SUFFICES ASSUME IInv, [LinkerNext]_linkerVars PROVE IInv'
  OBVIOUS
<1>1. CASE UNCHANGED linkerVars
  BY <1>1 DEF linkerVars, IInv, DataInv, RunInv, SeenInv, Classify, CodexInv, FileInv, KeptInv, InSource,
              SkipInv, DoneInv, Declared, Absent, TemplateInv
<1>2. CASE LinkerNext
  <2>1. carried' = carried
    BY <1>2 DEF LinkerNext
  <2>2. CASE User
    BY <2>1, <2>2, UserKeeps DEF User
  <2>3. ASSUME NEW init \in BOOLEAN, StartRun(init) PROVE IInv'
    BY <2>1, <2>3, StartKeeps
  <2>4. CASE Migrate
    BY <2>1, <2>4, GotoKeeps, BackUpKeeps, UnlinkKeeps DEF Migrate, CodexLeftAlone
  <2>5. CASE RenderProfile
    BY <2>1, <2>5, RenderKeeps
  <2>6. CASE Link
    <3>1. CASE PlanTree \/ \E s \in Site : PlanOne(s)
      BY <2>1, <3>1, PlanKeeps
    <3>2. CASE AllPrepared \/ Register \/ Applied
      <4>1. UNCHANGED <<live, source, backup, mine, renderedOver>>
        BY <3>2 DEF AllPrepared, Register, Applied
      <4> QED BY <2>1, <3>2, <4>1, GotoKeeps
    <3>3. CASE Finish
      BY <2>1, <3>3, IdleKeeps DEF Finish, Step
    <3>4. ASSUME NEW s \in Site, RetireLegacy(s) \/ Prepare(s) \/ ApplyLink(s) \/ ApplyCopy(s) PROVE IInv'
      BY <2>1, <3>4, LegacyKeeps, PreparedKeeps, SkipKeeps, AdoptKeeps, ApplyKeeps DEF Prepare
    <3> QED BY <2>6, <3>1, <3>2, <3>3, <3>4 DEF Link
  <2>7. CASE Restore
    BY <2>1, <2>7, ClearKeeps, CopyKeeps DEF Restore
  <2>8. CASE StopRun
    BY <2>1, <2>8, IdleKeeps DEF StopRun, Step
  <2> QED BY <1>2, <2>2, <2>3, <2>4, <2>5, <2>6, <2>7, <2>8 DEF LinkerNext
<1> QED BY <1>1, <1>2

LEMMA Invariant == LinkerSpec => []IInv
BY InitHolds, Inductive, PTL DEF LinkerSpec

-----------------------------------------------------------------------------
\* Every variable keeps its type, the sites of a command among them.
THEOREM SitesTyped == LinkerSpec => []LinkerTypeOK
<1>1. IInv => LinkerTypeOK
  BY DEF IInv, DataInv, RunInv, LinkRun, LinkerTypeOK
<1> QED BY <1>1, Invariant, PTL

\* No run costs the user what he wrote, wherever it is cut, but what a render writes
\* over in the repository's home tree, and what he skipped stays as it is
\* (linker/mise.go, linker/linker.go, linker/codex.go, scaffold/render.go).
THEOREM ContentSurvives == LinkerSpec => []UserContentKept
<1>1. ASSUME IInv PROVE ContentKept /\ SkippedUntouched
  <2>1. ContentKept
    BY <1>1 DEF IInv, KeptInv, InSource, ContentKept
  <2>2. SkippedUntouched
    BY <1>1 DEF IInv, SkipInv, SkippedUntouched
  <2> QED BY <2>1, <2>2
<1>2. IInv => UserContentKept
  BY <1>1 DEF UserContentKept
<1> QED BY <1>2, Invariant, PTL

\* A run that gets to its end has linked, copied or retired every site it did not
\* skip, as each was planned, prepared and applied on its own, but a site of the home
\* tree whose source a cut adoption took away; where the template makes that source,
\* an init links this one too.
THEOREM EndsLinked == LinkerSpec => LinkedWhenDone
<1>1. ASSUME IInv, Finish
      PROVE  \A s \in carried \ (Codex \cup run.skipped \cup Absent) :
                live[s] = IF s \in Shadow THEN "none" ELSE IF s \in Copy THEN source[s] ELSE "ours"
  <2>1. run.pc = "batch" /\ run.left = {} /\ run.todo = {} /\ run.targets = {}
    BY <1>1 DEF Finish, IInv, RunInv
  <2> QED BY <1>1, <2>1 DEF IInv, DoneInv, TemplateInv, Absent, Declared, Linking
<1>2. IInv => [Finish => \A s \in carried \ (Codex \cup run.skipped \cup Absent) :
                live[s] = IF s \in Shadow THEN "none" ELSE IF s \in Copy THEN source[s] ELSE "ours"]_linkerVars
  BY <1>1
<1> QED BY <1>2, Invariant, PTL DEF LinkedWhenDone

\* A source changes by adoption only: nothing is copied through a link that is
\* still there, in whatever order sites were prepared and skipped.
THEOREM SourcesStay == LinkerSpec => SourcesIntact
<1> DEFINE Adopted == run.pc \in {"batch", "prepare", "register", "apply"} /\ source' # source =>
         \E s \in Site \ Generated :
            run'.pc = "adopt" /\ run'.at = {s} /\ source' = [source EXCEPT ![s] = "none"]
<1>1. ASSUME IInv, LinkerNext, run.pc \in {"batch", "prepare", "register", "apply"}, source' # source
      PROVE  \E s \in Site : PrepareAdopt(s)
  <2>1. ASSUME NEW s \in Site, ApplyCopy(s) PROVE FALSE
    <3>1. s \in run.targets /\ s \in Copy
      BY <2>1 DEF ApplyCopy
    <3>2. live[s] # "ours"
      BY <1>1, <3>1, Contents DEF IInv, SeenInv
    <3> QED BY <1>1, <2>1, <3>2 DEF ApplyCopy
  <2>2. ~User /\ ~RenderProfile /\ ~StopRun /\ ~Restore
    BY <1>1 DEF User, UserWrites, UserWritesThrough, PullSite, RenderProfile, StopRun, Restore, RestoreClear, RestoreCopy
  <2>3. ~Migrate /\ \A init \in BOOLEAN : ~StartRun(init)
    BY <1>1 DEF Migrate, CodexLeftAlone, CodexDangling, BackUpCodex, UnlinkCodex, WriteCodex, StartRun
  <2>4. Link
    BY <1>1, <2>2, <2>3 DEF LinkerNext
  <2> QED
    BY <1>1, <2>1, <2>4
    DEF Link, PlanTree, AllPrepared, Register, Applied, Finish, RetireLegacy, PlanOne, Prepare,
        PrepareNothing, PrepareUnlink, PrepareSkip, PrepareBackup, MoveAdopted, ApplyLink
<1>2. ASSUME IInv, NEW s \in Site, PrepareAdopt(s) PROVE Adopted
  <2>1. /\ run' = [run EXCEPT !.pc = "adopt", !.at = {s}] /\ run \in LinkRun
        /\ s \notin Generated /\ source' = [source EXCEPT ![s] = "none"]
    BY <1>2 DEF PrepareAdopt, Step, IInv, RunInv
  <2>2. run'.pc = "adopt" /\ run'.at = {s}
    BY <2>1 DEF LinkRun
  <2> QED BY <2>1, <2>2
<1>3. ASSUME IInv, [LinkerNext]_linkerVars PROVE [Adopted]_linkerVars
  <2>1. CASE LinkerNext
    BY <1>1, <1>2, <1>3, <2>1
  <2>2. CASE UNCHANGED linkerVars
    BY <2>2
  <2> QED BY <1>3, <2>1, <2>2
<1>4. SourcesIntact <=> [][Adopted]_linkerVars
  BY DEF SourcesIntact
<1> HIDE DEF Adopted
<1> QED BY <1>3, <1>4, Invariant, PTL DEF LinkerSpec


=============================================================================
