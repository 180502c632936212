--------------------------- MODULE EnrolmentProofs ---------------------------
(* Proofs about Enrolment, for any hardware keys, slots, entries and terminals. *)
EXTENDS Enrolment, TLAPS

-----------------------------------------------------------------------------
\* Type correctness. A command keeps the shape its program counter says.

Enrolling == {"generate", "stub", "read", "append", "tell"}

Shape(r) ==
    /\ r.op = "none" => r = Idle
    /\ r.pc \in Enrolling => r.op = "enroll"
    /\ r.op = "enroll" => r.pc \in Enrolling /\ r.key # {} /\ r.slot \in Slot
    /\ r.pc = "store" => r.op = "encrypt"
    /\ r.op = "rekey" => r.key # {}
    /\ r.pc = "done" => r.op = "rekey" /\ r.todo = {}
    /\ r.op = "init" => r.pc = "complete"

ProcInv == proc \in [Terminal -> Command] /\ \A t \in Terminal : Shape(proc[t])

TypeInv == TypeOK /\ ProcInv

\* The key of a command, whichever else its record says.
The(keys) == CHOOSE k \in keys : TRUE

LEMMA TheKey == ASSUME NEW keys \in SUBSET Key, keys # {} PROVE The(keys) \in Key
BY Zenon DEF The

LEMMA TheOne == ASSUME NEW k \in Key PROVE The({k}) = k
BY Zenon DEF The

LEMMA NewIs == ASSUME NEW t \in Terminal
               PROVE  /\ Serial(t) = The(proc[t].key)
                      /\ New(t) = <<The(proc[t].key), proc[t].slot>>
BY Zenon DEF Serial, New, The

LEMMA NewIsNext == ASSUME NEW t \in Terminal
                   PROVE  /\ Serial(t)' = The(proc'[t].key)
                          /\ New(t)' = <<The(proc'[t].key), proc'[t].slot>>
BY Zenon DEF Serial, New, The

LEMMA NewTyped ==
    ASSUME TypeInv, NEW t \in Terminal, proc[t].op = "enroll"
    PROVE  Serial(t) \in Key /\ New(t) \in Identity
<1>1. proc[t].key \in SUBSET Key /\ proc[t].key # {} /\ proc[t].slot \in Slot
  BY DEF TypeInv, ProcInv, Shape, Command
<1> QED BY <1>1, TheKey, NewIs DEF Identity

LEMMA IdleTyped == Idle \in Command /\ Shape(Idle) /\ Idle.op = "none" /\ Idle.pc = "idle"
                   /\ Idle.seen = {} /\ Idle.todo = {} /\ Idle.beside = {}
BY DEF Idle, Command, Shape, Enrolling, Op

\* A step of a terminal leaves the others what they were.
LEMMA StepTyped ==
    ASSUME TypeInv, NEW t \in Terminal, NEW r \in Command, Shape(r), Step(t, r)
    PROVE  /\ ProcInv'
           /\ proc'[t] = r
           /\ \A u \in Terminal \ {t} : proc'[u] = proc[u]
BY DEF TypeInv, ProcInv, Step

LEMMA GotoTyped ==
    ASSUME TypeInv, NEW t \in Terminal, proc[t].op = "enroll", NEW pc \in Enrolling, Goto(t, pc)
    PROVE  /\ ProcInv'
           /\ proc'[t] = [proc[t] EXCEPT !.pc = pc]
           /\ \A u \in Terminal \ {t} : proc'[u] = proc[u]
<1> DEFINE r == [proc[t] EXCEPT !.pc = pc]
<1>1. proc[t] \in Command /\ Shape(proc[t])
  BY DEF TypeInv, ProcInv
<1>2. r \in Command
  BY <1>1 DEF Command, Enrolling
<1>3. Shape(r)
  BY <1>1 DEF Command, Enrolling, Shape
<1> QED BY <1>2, <1>3, StepTyped DEF Goto

LEMMA StopTyped ==
    ASSUME TypeInv, NEW t \in Terminal, Step(t, Idle)
    PROVE  /\ ProcInv'
           /\ proc'[t] = Idle
           /\ \A u \in Terminal \ {t} : proc'[u] = proc[u]
BY IdleTyped, StepTyped

\* A command that begins is beside those that run, and they beside it.
LEMMA BeginTyped ==
    ASSUME TypeInv, NEW t \in Terminal, NEW r \in Command, Shape(r), r.op \in Op, Begin(t, r)
    PROVE  /\ ProcInv' /\ runs' \in 0..MaxRuns
           /\ proc[t] = Idle
           /\ proc'[t] = [r EXCEPT !.beside = {proc[v].op : v \in Running}]
           /\ \A u \in Running : proc'[u] = [proc[u] EXCEPT !.beside = @ \cup {r.op}]
           /\ \A u \in Terminal \ (Running \cup {t}) : proc'[u] = proc[u]
<1>1. proc[t] = Idle /\ t \notin Running /\ runs \in 0..MaxRuns /\ runs < MaxRuns
  BY IdleTyped DEF Begin, Running, TypeInv, TypeOK
<1>2. /\ proc'[t] = [r EXCEPT !.beside = {proc[v].op : v \in Running}]
      /\ \A u \in Running : proc'[u] = [proc[u] EXCEPT !.beside = @ \cup {r.op}]
      /\ \A u \in Terminal \ (Running \cup {t}) : proc'[u] = proc[u]
      /\ DOMAIN proc' = Terminal /\ proc' = [u \in Terminal |-> proc'[u]]
  BY <1>1 DEF Begin, Running
<1>3. {proc[v].op : v \in Running} \in SUBSET Op
  BY DEF Running, TypeInv, ProcInv, Command
<1>4. proc'[t] \in Command /\ Shape(proc'[t])
  BY <1>2, <1>3 DEF Command, Shape, Op, Idle
<1>5. ASSUME NEW u \in Running PROVE proc'[u] \in Command /\ Shape(proc'[u])
  <2>1. proc[u] \in Command /\ Shape(proc[u]) /\ proc[u].op # "none"
    BY DEF Running, TypeInv, ProcInv
  <2>2. proc'[u] = [proc[u] EXCEPT !.beside = proc[u].beside \cup {r.op}]
    BY <1>2
  <2>3. proc[u].beside \cup {r.op} \in SUBSET Op
    BY <2>1 DEF Command
  <2>4. proc'[u] \in Command
    BY <2>1, <2>2, <2>3 DEF Command
  <2>5. Shape(proc'[u])
    BY <2>1, <2>2 DEF Command, Shape
  <2> QED BY <2>4, <2>5
<1>6. ASSUME NEW u \in Terminal PROVE proc'[u] \in Command /\ Shape(proc'[u])
  BY <1>2, <1>4, <1>5, <1>6 DEF TypeInv, ProcInv
<1>7. runs' \in 0..MaxRuns
  BY <1>1, RunsAssumption DEF Begin
<1> QED BY <1>1, <1>2, <1>6, <1>7 DEF ProcInv

LEMMA InitTyped == Init => TypeInv
<1> SUFFICES ASSUME Init PROVE TypeInv
  OBVIOUS
<1>1. ProcInv
  BY IdleTyped DEF Init, ProcInv
<1>2. has \subseteq Piece \cup {"own"} /\ ("own" \in has => "hook" \in has)
  BY DEF Init, Piece
<1>3. runs \in 0..MaxRuns
  BY RunsAssumption DEF Init
<1> QED BY <1>1, <1>2, <1>3 DEF Init, TypeInv, TypeOK, ProcInv

\* The steps that begin a command, with the record each begins with.
Beginning(t, r) ==
    \/ /\ r = [Idle EXCEPT !.op = "init", !.pc = "complete", !.todo = Piece]
       /\ StartInit(t)
    \/ \E k \in Key : \E s \in Slot :
        /\ r = [Idle EXCEPT !.op = "enroll", !.pc = "generate", !.key = {k}, !.slot = s]
        /\ StartEnroll(t, k, s)
    \/ \E f \in File :
        /\ r = [Idle EXCEPT !.op = "encrypt", !.pc = "store", !.todo = {f}, !.seen = recipients]
        /\ StartEncrypt(t, f)
    \/ \E k \in Key :
        /\ r = [Idle EXCEPT !.op = "rekey", !.pc = "rekey", !.key = {k}, !.todo = ListFiles(k)]
        /\ StartRekey(t, k)

LEMMA BeginningTyped ==
    ASSUME TypeInv, NEW t \in Terminal, NEW r, Beginning(t, r)
    PROVE  /\ r \in Command /\ Shape(r) /\ r.op \in Op
           /\ Begin(t, r)
           /\ UNCHANGED <<token, has, files, history>>
<1>1. CASE /\ r = [Idle EXCEPT !.op = "init", !.pc = "complete", !.todo = Piece]
           /\ StartInit(t)
  BY <1>1 DEF StartInit, Idle, Command, Shape, Op, Enrolling
<1>2. ASSUME NEW k \in Key, NEW s \in Slot,
             r = [Idle EXCEPT !.op = "enroll", !.pc = "generate", !.key = {k}, !.slot = s],
             StartEnroll(t, k, s)
      PROVE  /\ r \in Command /\ Shape(r) /\ r.op \in Op /\ Begin(t, r)
             /\ UNCHANGED <<token, has, files, history>>
  BY <1>2 DEF StartEnroll, Idle, Command, Shape, Op, Enrolling
<1>3. ASSUME NEW f \in File,
             r = [Idle EXCEPT !.op = "encrypt", !.pc = "store", !.todo = {f}, !.seen = recipients],
             StartEncrypt(t, f)
      PROVE  /\ r \in Command /\ Shape(r) /\ r.op \in Op /\ Begin(t, r)
             /\ UNCHANGED <<token, has, files, history>>
  <2>1. recipients \in SUBSET Identity
    BY DEF TypeInv, TypeOK
  <2> QED BY <1>3, <2>1 DEF StartEncrypt, Idle, Command, Shape, Op, Enrolling
<1>4. ASSUME NEW k \in Key,
             r = [Idle EXCEPT !.op = "rekey", !.pc = "rekey", !.key = {k}, !.todo = ListFiles(k)],
             StartRekey(t, k)
      PROVE  /\ r \in Command /\ Shape(r) /\ r.op \in Op /\ Begin(t, r)
             /\ UNCHANGED <<token, has, files, history>>
  <2>1. ListFiles(k) \in SUBSET File
    BY DEF ListFiles
  <2> QED BY <1>4, <2>1 DEF StartRekey, Idle, Command, Shape, Op, Enrolling
<1> QED BY <1>1, <1>2, <1>3, <1>4 DEF Beginning

LEMMA BeginningKeepsType ==
    ASSUME TypeInv, NEW t \in Terminal, NEW r, Beginning(t, r)
    PROVE  TypeInv'
<1>1. UNCHANGED <<token, has, files, history>>
  BY BeginningTyped
<1>2. ProcInv' /\ runs' \in 0..MaxRuns
  BY BeginningTyped, BeginTyped
<1> QED BY <1>1, <1>2 DEF TypeInv, TypeOK, ProcInv, files, history

\* A step of private init.
LEMMA ScaffoldTyped ==
    ASSUME TypeInv, NEW t \in Terminal, NEW p \in Piece, At(t, "init", "complete"),
           Complete(t, p)
    PROVE  /\ ProcInv'
           /\ proc'[t] = [proc[t] EXCEPT !.todo = @ \ {p}]
           /\ \A u \in Terminal \ {t} : proc'[u] = proc[u]
<1> DEFINE r == [proc[t] EXCEPT !.todo = @ \ {p}]
<1>1. proc[t] \in Command /\ Shape(proc[t])
  BY DEF TypeInv, ProcInv
<1>2. r = [proc[t] EXCEPT !.todo = proc[t].todo \ {p}] /\ proc[t].todo \ {p} \in SUBSET (Piece \cup File)
  BY <1>1 DEF Command
<1>3. r \in Command
  BY <1>1, <1>2 DEF Command
<1>4. Shape(r)
  BY <1>1, <1>2 DEF At, Command, Shape, Enrolling
<1>5. Step(t, r)
  BY DEF Complete
<1> QED BY <1>3, <1>4, <1>5, StepTyped

\* Reading the recipients.
LEMMA ReadTyped ==
    ASSUME TypeInv, NEW t \in Terminal, ReadRecipients(t)
    PROVE  /\ ProcInv'
           /\ proc'[t] = [proc[t] EXCEPT !.pc = "append", !.seen = recipients]
           /\ \A u \in Terminal \ {t} : proc'[u] = proc[u]
<1> DEFINE r == [proc[t] EXCEPT !.pc = "append", !.seen = recipients]
<1>1. proc[t] \in Command /\ Shape(proc[t]) /\ recipients \in SUBSET Identity
  BY DEF TypeInv, TypeOK, ProcInv
<1>2. r \in Command
  BY <1>1 DEF Command
<1>3. Shape(r)
  BY <1>1 DEF ReadRecipients, At, Command, Shape, Enrolling
<1> QED BY <1>2, <1>3, StepTyped DEF ReadRecipients

\* A rekey that goes on to its next entry, or ends.
LEMMA RekeyTyped ==
    ASSUME TypeInv, NEW t \in Terminal, NEW f \in File, RekeyFile(t, f)
    PROVE  /\ ProcInv'
           /\ proc'[t] = [proc[t] EXCEPT !.todo = @ \ {f}]
           /\ \A u \in Terminal \ {t} : proc'[u] = proc[u]
<1> DEFINE r == [proc[t] EXCEPT !.todo = @ \ {f}]
<1>1. proc[t] \in Command /\ Shape(proc[t])
  BY DEF TypeInv, ProcInv
<1>2. r = [proc[t] EXCEPT !.todo = proc[t].todo \ {f}] /\ proc[t].todo \ {f} \in SUBSET (Piece \cup File)
  BY <1>1 DEF Command
<1>3. r \in Command
  BY <1>1, <1>2 DEF Command
<1>4. Shape(r)
  BY <1>1, <1>2 DEF RekeyFile, At, Command, Shape, Enrolling
<1> QED BY <1>3, <1>4, StepTyped DEF RekeyFile

LEMMA EndRekeyTyped ==
    ASSUME TypeInv, NEW t \in Terminal, EndRekey(t)
    PROVE  /\ ProcInv'
           /\ proc'[t] = [proc[t] EXCEPT !.pc = "done"]
           /\ \A u \in Terminal \ {t} : proc'[u] = proc[u]
<1> DEFINE r == [proc[t] EXCEPT !.pc = "done"]
<1>1. proc[t] \in Command /\ Shape(proc[t])
  BY DEF TypeInv, ProcInv
<1>2. r \in Command
  BY <1>1 DEF Command
<1>3. Shape(r)
  BY <1>1 DEF EndRekey, At, Command, Shape, Enrolling
<1> QED BY <1>2, <1>3, StepTyped DEF EndRekey, Goto

LEMMA NextTyped == TypeInv /\ [Next]_vars => TypeInv'
<1> SUFFICES ASSUME TypeInv, [Next]_vars PROVE TypeInv'
  OBVIOUS
<1>1. ASSUME NEW t \in Terminal, NEW r, Beginning(t, r) PROVE TypeInv'
  BY <1>1, BeginningKeepsType
<1>2. ASSUME NEW t \in Terminal, ScaffoldPiece(t) PROVE TypeInv'
  <2>1. PICK p \in Piece : Complete(t, p)
    BY <1>2 DEF ScaffoldPiece
  <2>2. ProcInv'
    BY <1>2, <2>1, ScaffoldTyped DEF ScaffoldPiece
  <2>3. has' \subseteq Piece \cup {"own"} /\ ("own" \in has' => "hook" \in has')
    <3>1. has' = has \cup {p} /\ p # "own"
      BY <2>1 DEF Complete, Piece
    <3> QED BY <3>1 DEF TypeInv, TypeOK
  <2> QED BY <1>2, <2>2, <2>3 DEF ScaffoldPiece, TypeInv, TypeOK, ProcInv, files, history
<1>3. ASSUME NEW t \in Terminal, EndInit(t) PROVE TypeInv'
  BY <1>3, StopTyped DEF EndInit, TypeInv, TypeOK, ProcInv, files
<1>4. ASSUME NEW t \in Terminal, Generate(t) PROVE TypeInv'
  <2>1. proc[t].op = "enroll" /\ proc[t].slot \in Slot
    BY <1>4 DEF Generate, At, TypeInv, ProcInv, Shape
  <2>2. Serial(t) \in Key
    BY <2>1, NewTyped
  <2>3. token' \in [Key -> SUBSET Slot]
    BY <1>4, <2>1, <2>2 DEF Generate, TypeInv, TypeOK
  <2>4. ProcInv'
    BY <1>4, <2>1, GotoTyped DEF Generate, Enrolling
  <2> QED BY <1>4, <2>3, <2>4 DEF Generate, TypeInv, TypeOK, ProcInv, files, history
<1>5. ASSUME NEW t \in Terminal, WriteStub(t) PROVE TypeInv'
  <2>1. proc[t].op = "enroll" /\ proc[t].slot \in Slot
    BY <1>5 DEF WriteStub, At, TypeInv, ProcInv, Shape
  <2>2. Serial(t) \in Key
    BY <2>1, NewTyped
  <2>3. stub' \in [Key -> Slot \cup {0}]
    BY <1>5, <2>1, <2>2 DEF WriteStub, Stub, TypeInv, TypeOK
  <2>4. ProcInv'
    BY <1>5, <2>1, GotoTyped DEF WriteStub, Enrolling
  <2>5. replaced' \subseteq Identity
    BY <1>5 DEF WriteStub, TypeInv, TypeOK
  <2> QED BY <1>5, <2>3, <2>4, <2>5 DEF WriteStub, TypeInv, TypeOK, ProcInv
<1>6. ASSUME NEW t \in Terminal, ReadRecipients(t) PROVE TypeInv'
  <2>1. ProcInv'
    BY <1>6, ReadTyped
  <2> QED BY <1>6, <2>1 DEF ReadRecipients, TypeInv, TypeOK, ProcInv, files, history
<1>7. ASSUME NEW t \in Terminal, AppendRecipient(t) PROVE TypeInv'
  <2>1. proc[t].op = "enroll" /\ proc[t].seen \subseteq Identity
    BY <1>7 DEF AppendRecipient, At, TypeInv, ProcInv, Command
  <2>2. recipients' \subseteq Identity
    BY <1>7, <2>1, NewTyped DEF AppendRecipient, Appended
  <2>3. ProcInv'
    BY <1>7, <2>1, GotoTyped DEF AppendRecipient, Enrolling
  <2> QED BY <1>7, <2>2, <2>3 DEF AppendRecipient, TypeInv, TypeOK, ProcInv
<1>8. ASSUME NEW t \in Terminal, Tell(t) PROVE TypeInv'
  <2>1. New(t) \in Identity
    BY <1>8, NewTyped DEF Tell, At
  <2>2. told' \subseteq Identity
    BY <1>8, <2>1 DEF Tell, TypeInv, TypeOK
  <2>3. ProcInv'
    BY <1>8, StopTyped DEF Tell
  <2> QED BY <1>8, <2>2, <2>3 DEF Tell, TypeInv, TypeOK, ProcInv, files
<1>9. ASSUME NEW t \in Terminal, Store(t) PROVE TypeInv'
  <2>1. proc[t].seen \subseteq Identity
    BY DEF TypeInv, ProcInv, Command
  <2>2. cipher' \in [File -> SUBSET Identity]
    BY <1>9, <2>1 DEF Store, TypeInv, TypeOK
  <2>3. ProcInv'
    BY <1>9, StopTyped DEF Store
  <2> QED BY <1>9, <2>2, <2>3 DEF Store, TypeInv, TypeOK, ProcInv, history
<1>10. ASSUME NEW t \in Terminal, NEW f \in File, RekeyFile(t, f) PROVE TypeInv'
  <2>1. cipher' \in [File -> SUBSET Identity]
    BY <1>10 DEF RekeyFile, TypeInv, TypeOK
  <2>2. ProcInv'
    BY <1>10, RekeyTyped
  <2> QED BY <1>10, <2>1, <2>2 DEF RekeyFile, TypeInv, TypeOK, ProcInv, history
<1>11. ASSUME NEW t \in Terminal, EndRekey(t) PROVE TypeInv'
  <2>1. ProcInv'
    BY <1>11, EndRekeyTyped
  <2> QED BY <1>11, <2>1 DEF EndRekey, TypeInv, TypeOK, ProcInv, files, history
<1>12. ASSUME NEW t \in Terminal, Stop(t) PROVE TypeInv'
  <2>1. proc[t].pc = "tell" => New(t) \in Identity
    BY NewTyped DEF TypeInv, ProcInv, Shape, Enrolling
  <2>2. told' \subseteq Identity
    BY <1>12, <2>1 DEF Stop, TypeInv, TypeOK
  <2>3. ProcInv' /\ cut' \in BOOLEAN
    BY <1>12, StopTyped DEF Stop, TypeInv, TypeOK
  <2> QED BY <1>12, <2>2, <2>3 DEF Stop, TypeInv, TypeOK, ProcInv, files
<1>13. ASSUME NEW k \in Key, UserRemovesKey(k) PROVE TypeInv'
  <2>1. /\ stub' \in [Key -> Slot \cup {0}]
        /\ recipients' \subseteq recipients /\ departed' \subseteq departed \cup recipients
    BY <1>13 DEF UserRemovesKey, TypeInv, TypeOK
  <2> QED BY <1>13, <2>1 DEF UserRemovesKey, TypeInv, TypeOK, ProcInv
<1>14. ASSUME NEW f \in File, UserCommitsPlain(f) PROVE TypeInv'
  BY <1>14 DEF UserCommitsPlain, TypeInv, TypeOK, ProcInv, files
<1>15. CASE UNCHANGED vars
  BY <1>15 DEF vars, TypeInv, TypeOK, ProcInv
<1> QED
  BY <1>1, <1>2, <1>3, <1>4, <1>5, <1>6, <1>7, <1>8, <1>9, <1>10, <1>11, <1>12, <1>13, <1>14, <1>15
  DEF Next, Beginning

\* Every variable keeps its type, and every command the shape its place in the
\* program gives it, for any keys, slots, entries and terminals.
THEOREM TypeCorrect == Spec => []TypeOK
<1>1. TypeInv => TypeOK
  BY DEF TypeInv
<1> QED BY <1>1, InitTyped, NextTyped, PTL DEF Spec

-----------------------------------------------------------------------------
\* What the steps do, as the invariants below need it.

\* The identity a command enrolls, from its record.
Who(r) == <<The(r.key), r.slot>>

LEMMA NewIsWho ==
    ASSUME NEW t \in Terminal
    PROVE  New(t) = Who(proc[t]) /\ New(t)[1] = Serial(t) /\ New(t)[2] = proc[t].slot
BY NewIs DEF Who

LEMMA WhoTyped ==
    ASSUME TypeInv, NEW t \in Terminal, proc[t].op = "enroll"
    PROVE  /\ Who(proc[t]) \in Identity
           /\ Who(proc[t])[1] = Serial(t) /\ Who(proc[t])[2] = proc[t].slot
           /\ Serial(t) \in Key /\ proc[t].slot \in Slot /\ proc[t].slot # 0
           /\ Who(proc[t]) = <<Serial(t), proc[t].slot>>
<1>1. proc[t].slot \in Slot
  BY DEF TypeInv, ProcInv, Shape
<1>2. proc[t].slot # 0
  BY <1>1, SlotsAssumption DEF Slot
<1> QED BY <1>1, <1>2, NewTyped, NewIs DEF Who

\* A terminal that only learns who runs beside it.
Same(u) ==
    /\ proc'[u].op = proc[u].op /\ proc'[u].pc = proc[u].pc
    /\ proc'[u].key = proc[u].key /\ proc'[u].slot = proc[u].slot
    /\ proc'[u].seen = proc[u].seen /\ proc'[u].todo = proc[u].todo
    /\ proc[u].beside \subseteq proc'[u].beside

LEMMA BeginningRecord ==
    ASSUME TypeInv, NEW t \in Terminal, NEW r, Beginning(t, r)
    PROVE  /\ r.pc \in {"complete", "generate", "store", "rekey"}
           /\ r.seen # {} => r.pc = "store"
           /\ r.seen \subseteq recipients
           /\ r.op = "encrypt" => r.seen = recipients
           /\ r.op = "init" => r.todo = Piece
           /\ r.op = "rekey" => \A f \in File : cipher[f] # {} => f \in r.todo
           /\ r.key \in SUBSET Key
<1> DEFINE Says ==
             /\ r.pc \in {"complete", "generate", "store", "rekey"}
             /\ r.seen # {} => r.pc = "store"
             /\ r.seen \subseteq recipients
             /\ r.op = "encrypt" => r.seen = recipients
             /\ r.op = "init" => r.todo = Piece
             /\ r.op = "rekey" => \A f \in File : cipher[f] # {} => f \in r.todo
             /\ r.key \in SUBSET Key
<1>1. CASE r = [Idle EXCEPT !.op = "init", !.pc = "complete", !.todo = Piece]
  BY <1>1 DEF Idle
<1>2. ASSUME NEW k \in Key, NEW s \in Slot,
             r = [Idle EXCEPT !.op = "enroll", !.pc = "generate", !.key = {k}, !.slot = s]
      PROVE  Says
  BY <1>2 DEF Idle
<1>3. ASSUME NEW f \in File,
             r = [Idle EXCEPT !.op = "encrypt", !.pc = "store", !.todo = {f}, !.seen = recipients]
      PROVE  Says
  BY <1>3 DEF Idle
<1>4. ASSUME NEW k \in Key,
             r = [Idle EXCEPT !.op = "rekey", !.pc = "rekey", !.key = {k}, !.todo = ListFiles(k)]
      PROVE  Says
  BY <1>4 DEF Idle, ListFiles
<1> QED BY <1>1, <1>2, <1>3, <1>4 DEF Beginning

LEMMA BeginningDoes ==
    ASSUME TypeInv, NEW t \in Terminal, NEW r, Beginning(t, r)
    PROVE  /\ proc[t] = Idle
           /\ proc'[t].op = r.op /\ proc'[t].pc = r.pc /\ proc'[t].key = r.key
           /\ proc'[t].slot = r.slot /\ proc'[t].seen = r.seen /\ proc'[t].todo = r.todo
           /\ \A u \in Terminal \ {t} : Same(u)
           /\ \A u \in Terminal \ {t} : proc[u].op # "none" =>
                proc[u].op \in proc'[t].beside /\ r.op \in proc'[u].beside
           /\ UNCHANGED <<token, has, stub, listed, recipients, cipher,
                          inited, leaks, replaced, departed, told, cut, raced>>
<1>1. /\ r \in Command /\ proc \in [Terminal -> Command]
      /\ UNCHANGED <<token, has, files, history>>
  BY BeginningTyped DEF TypeInv, ProcInv
<1>2. /\ proc[t] = Idle
      /\ proc'[t] = [r EXCEPT !.beside = {proc[v].op : v \in Running}]
      /\ \A u \in Running : proc'[u] = [proc[u] EXCEPT !.beside = @ \cup {r.op}]
      /\ \A u \in Terminal \ (Running \cup {t}) : proc'[u] = proc[u]
  BY BeginningTyped, BeginTyped
<1>3. ASSUME NEW u \in Terminal \ {t} PROVE Same(u)
  <2>1. CASE u \in Running
    <3>1. proc[u] \in Command
      BY <1>1
    <3>2. proc'[u] = [proc[u] EXCEPT !.beside = proc[u].beside \cup {r.op}]
      BY <1>2, <2>1
    <3> QED BY <3>1, <3>2 DEF Command, Same
  <2>2. CASE u \notin Running
    BY <1>2, <2>2 DEF Same
  <2> QED BY <2>1, <2>2
<1>4. ASSUME NEW u \in Terminal \ {t}, proc[u].op # "none"
      PROVE  proc[u].op \in proc'[t].beside /\ r.op \in proc'[u].beside
  <2>1. u \in Running
    BY <1>4 DEF Running
  <2>2. proc[u] \in Command /\ proc'[u] = [proc[u] EXCEPT !.beside = proc[u].beside \cup {r.op}]
    BY <1>1, <1>2, <2>1
  <2>3. r.op \in proc'[u].beside
    BY <2>2 DEF Command
  <2>4. proc'[t].beside = {proc[v].op : v \in Running}
    BY <1>1, <1>2 DEF Command
  <2> QED BY <2>1, <2>3, <2>4
<1>5. /\ proc'[t].op = r.op /\ proc'[t].pc = r.pc /\ proc'[t].key = r.key
      /\ proc'[t].slot = r.slot /\ proc'[t].seen = r.seen /\ proc'[t].todo = r.todo
  BY <1>1, <1>2 DEF Command
<1> QED BY <1>1, <1>2, <1>3, <1>4, <1>5 DEF files, history

\* A step of one terminal that moves its program counter, or ends its command, and
\* touches nothing else of its record.
Moves(t, pc) ==
    /\ proc[t].op # "none"
    /\ proc'[t] = [proc[t] EXCEPT !.pc = pc]
    /\ \A u \in Terminal \ {t} : proc'[u] = proc[u]
Ends(t) ==
    /\ proc'[t] = Idle
    /\ \A u \in Terminal \ {t} : proc'[u] = proc[u]

LEMMA Moving ==
    ASSUME TypeInv, NEW t \in Terminal
    PROVE  /\ Generate(t) => Moves(t, "stub") /\ proc[t].op = "enroll" /\ proc[t].pc = "generate"
           /\ WriteStub(t) => Moves(t, "read") /\ proc[t].op = "enroll" /\ proc[t].pc = "stub"
           /\ AppendRecipient(t) => Moves(t, "tell") /\ proc[t].op = "enroll" /\ proc[t].pc = "append"
           /\ EndRekey(t) => Moves(t, "done") /\ proc[t].op = "rekey" /\ proc[t].todo = {}
<1>1. Generate(t) => Moves(t, "stub") /\ proc[t].op = "enroll" /\ proc[t].pc = "generate"
  BY GotoTyped DEF Generate, At, Moves, Enrolling
<1>2. WriteStub(t) => Moves(t, "read") /\ proc[t].op = "enroll" /\ proc[t].pc = "stub"
  BY GotoTyped DEF WriteStub, At, Moves, Enrolling
<1>3. AppendRecipient(t) => Moves(t, "tell") /\ proc[t].op = "enroll" /\ proc[t].pc = "append"
  BY GotoTyped DEF AppendRecipient, At, Moves, Enrolling
<1>4. EndRekey(t) => Moves(t, "done") /\ proc[t].op = "rekey" /\ proc[t].todo = {}
  BY EndRekeyTyped DEF EndRekey, At, Moves
<1> QED BY <1>1, <1>2, <1>3, <1>4

LEMMA Ending ==
    ASSUME TypeInv, NEW t \in Terminal, EndInit(t) \/ Tell(t) \/ Store(t) \/ Stop(t)
    PROVE  Ends(t) /\ proc[t].op # "none"
BY StopTyped DEF EndInit, Tell, Store, Stop, At, Ends

\* Between commands nobody holds anything.
LEMMA NobodyRuns ==
    ASSUME TypeInv, Running = {}
    PROVE  \A t \in Terminal : proc[t] = Idle
BY DEF Running, TypeInv, ProcInv, Shape

\* The fields of a record whose program counter moves, those of the others, and
\* those of the records that read or work through their entries.
Keeps(t, pc) ==
    /\ proc'[t].pc = pc /\ proc'[t].op = proc[t].op /\ proc'[t].key = proc[t].key
    /\ proc'[t].slot = proc[t].slot /\ proc'[t].beside = proc[t].beside
    /\ Who(proc'[t]) = Who(proc[t])
Others(t) == \A u \in Terminal \ {t} : Same(u) /\ Who(proc'[u]) = Who(proc[u])

LEMMA OthersSame ==
    ASSUME NEW t \in Terminal, \A u \in Terminal \ {t} : proc'[u] = proc[u]
    PROVE  Others(t)
BY DEF Others, Same

LEMMA MovesTyped ==
    ASSUME TypeInv, NEW t \in Terminal, NEW pc, Moves(t, pc)
    PROVE  /\ Keeps(t, pc) /\ Others(t)
           /\ proc'[t].seen = proc[t].seen /\ proc'[t].todo = proc[t].todo
<1>1. proc[t] \in Command /\ proc'[t] = [proc[t] EXCEPT !.pc = pc]
  BY DEF TypeInv, ProcInv, Moves
<1>2. /\ proc'[t].pc = pc /\ proc'[t].op = proc[t].op /\ proc'[t].key = proc[t].key
      /\ proc'[t].slot = proc[t].slot /\ proc'[t].beside = proc[t].beside
      /\ proc'[t].seen = proc[t].seen /\ proc'[t].todo = proc[t].todo
  BY <1>1 DEF Command
<1> QED BY <1>2, OthersSame DEF Moves, Keeps, Who

LEMMA ReadDoes ==
    ASSUME TypeInv, NEW t \in Terminal, ReadRecipients(t)
    PROVE  /\ Keeps(t, "append") /\ Others(t) /\ proc[t].op = "enroll" /\ proc[t].pc = "read"
           /\ proc'[t].seen = recipients
<1>1. proc[t] \in Command /\ proc'[t] = [proc[t] EXCEPT !.pc = "append", !.seen = recipients]
  BY ReadTyped DEF TypeInv, ProcInv
<1>2. /\ proc'[t].pc = "append" /\ proc'[t].op = proc[t].op /\ proc'[t].key = proc[t].key
      /\ proc'[t].slot = proc[t].slot /\ proc'[t].beside = proc[t].beside
      /\ proc'[t].seen = recipients
  BY <1>1 DEF Command
<1> QED BY <1>2, ReadTyped, OthersSame DEF Keeps, Who, ReadRecipients, At

LEMMA ScaffoldDoes ==
    ASSUME TypeInv, NEW t \in Terminal, ScaffoldPiece(t)
    PROVE  /\ Keeps(t, "complete") /\ Others(t) /\ proc[t].op = "init" /\ proc[t].pc = "complete"
           /\ proc'[t].seen = proc[t].seen
           /\ \E p \in Piece : proc'[t].todo = proc[t].todo \ {p} /\ has' = has \cup {p}
<1>1. PICK p \in Piece : Complete(t, p)
  BY DEF ScaffoldPiece
<1>2. At(t, "init", "complete")
  BY DEF ScaffoldPiece
<1>3. /\ proc[t] \in Command
      /\ proc'[t] = [proc[t] EXCEPT !.todo = proc[t].todo \ {p}]
      /\ \A u \in Terminal \ {t} : proc'[u] = proc[u]
  BY <1>1, <1>2, ScaffoldTyped DEF TypeInv, ProcInv
<1>4. /\ proc'[t].pc = proc[t].pc /\ proc'[t].op = proc[t].op /\ proc'[t].key = proc[t].key
      /\ proc'[t].slot = proc[t].slot /\ proc'[t].beside = proc[t].beside
      /\ proc'[t].seen = proc[t].seen /\ proc'[t].todo = proc[t].todo \ {p}
  BY <1>3 DEF Command
<1> QED BY <1>1, <1>2, <1>3, <1>4, OthersSame DEF Keeps, Who, At, Complete

LEMMA RekeyDoes ==
    ASSUME TypeInv, NEW t \in Terminal, NEW f \in File, RekeyFile(t, f)
    PROVE  /\ Keeps(t, "rekey") /\ Others(t) /\ proc[t].op = "rekey" /\ proc[t].pc = "rekey"
           /\ proc'[t].seen = proc[t].seen /\ proc'[t].todo = proc[t].todo \ {f}
           /\ recipients # {} /\ cipher' = [cipher EXCEPT ![f] = recipients]
<1>1. /\ proc[t] \in Command
      /\ proc'[t] = [proc[t] EXCEPT !.todo = proc[t].todo \ {f}]
      /\ \A u \in Terminal \ {t} : proc'[u] = proc[u]
  BY RekeyTyped DEF TypeInv, ProcInv
<1>2. /\ proc'[t].pc = proc[t].pc /\ proc'[t].op = proc[t].op /\ proc'[t].key = proc[t].key
      /\ proc'[t].slot = proc[t].slot /\ proc'[t].beside = proc[t].beside
      /\ proc'[t].seen = proc[t].seen /\ proc'[t].todo = proc[t].todo \ {f}
  BY <1>1 DEF Command
<1> QED BY <1>1, <1>2, OthersSame DEF Keeps, Who, RekeyFile, At

LEMMA EndsDoes ==
    ASSUME TypeInv, NEW t \in Terminal, Ends(t)
    PROVE  /\ Others(t) /\ proc'[t].op = "none" /\ proc'[t].pc = "idle"
           /\ proc'[t].seen = {} /\ proc'[t].todo = {}
BY OthersSame, IdleTyped DEF Ends

LEMMA BeginningOthers ==
    ASSUME TypeInv, NEW t \in Terminal, NEW r, Beginning(t, r)
    PROVE  Others(t)
BY BeginningDoes DEF Others, Same, Who

-----------------------------------------------------------------------------
\* Every two commands that run know of each other.

Mates ==
    \A t, u \in Terminal :
        t # u /\ proc[t].op # "none" /\ proc[u].op # "none" => proc[u].op \in proc[t].beside

LEMMA MatesKept ==
    ASSUME TypeInv, Mates, [Next]_vars
    PROVE  Mates'
<1>1. ASSUME NEW t \in Terminal, NEW r, Beginning(t, r) PROVE Mates'
  BY <1>1, BeginningDoes DEF Mates, Same
<1>2. ASSUME NEW t \in Terminal,
             \A u \in Terminal \ {t} : proc'[u] = proc[u],
             \/ proc'[t] = Idle
             \/ proc'[t].op = proc[t].op /\ proc'[t].beside = proc[t].beside
      PROVE  Mates'
  BY <1>2, IdleTyped DEF Mates
<1>3. ASSUME NEW t \in Terminal, NEW pc, Moves(t, pc) PROVE Mates'
  BY <1>2, <1>3, MovesTyped DEF Moves, Keeps
<1>4. ASSUME NEW t \in Terminal, Ends(t) PROVE Mates'
  BY <1>2, <1>4 DEF Ends
<1>5. ASSUME NEW t \in Terminal, ScaffoldPiece(t) PROVE Mates'
  BY <1>5, ScaffoldDoes DEF Mates, Others, Same, Keeps
<1>6. ASSUME NEW t \in Terminal, ReadRecipients(t) PROVE Mates'
  BY <1>6, ReadDoes DEF Mates, Others, Same, Keeps
<1>7. ASSUME NEW t \in Terminal, NEW f \in File, RekeyFile(t, f) PROVE Mates'
  BY <1>7, RekeyDoes DEF Mates, Others, Same, Keeps
<1>8. CASE UNCHANGED proc
  BY <1>8 DEF Mates
<1> QED
  BY <1>1, <1>3, <1>4, <1>5, <1>6, <1>7, <1>8, Moving, Ending
  DEF Next, Beginning, vars, UserRemovesKey, UserCommitsPlain

-----------------------------------------------------------------------------
\* Every ciphertext can be opened. What is inductive: every identity that is listed,
\* or was read from the list, or is about to be listed, has its stub, unless the stub
\* of another slot replaced it.

Live(id) == stub[id[1]] = id[2] \/ id \in replaced
LiveNext(id) == stub'[id[1]] = id[2] \/ id \in replaced'

HeldInv ==
    /\ \A id \in recipients : Live(id)
    /\ \A t \in Terminal : \A id \in proc[t].seen : Live(id)
    /\ \A t \in Terminal : proc[t].pc \in {"read", "append"} => Live(Who(proc[t]))
    /\ \A f \in File : cipher[f] # {} => \E id \in cipher[f] : Live(id)

LEMMA HeldNext ==
    ASSUME \A id \in recipients' : LiveNext(id),
           \A t \in Terminal : \A id \in proc'[t].seen : LiveNext(id),
           \A t \in Terminal : proc'[t].pc \in {"read", "append"} => LiveNext(Who(proc'[t])),
           \A f \in File : cipher'[f] # {} => \E id \in cipher'[f] : LiveNext(id)
    PROVE  HeldInv'
<1>1. \A t \in Terminal : proc'[t].pc \in {"read", "append"} => Live(Who(proc[t]))'
  BY DEF Live, LiveNext, Who, The
<1> QED BY <1>1 DEF HeldInv, Live, LiveNext

\* A step that takes no stub away and lists what was listed or read.
LEMMA HeldStep ==
    ASSUME HeldInv, NEW t \in Terminal, Others(t),
           stub' = stub, replaced' = replaced,
           recipients' \subseteq recipients \cup proc[t].seen
                \cup (IF proc[t].pc = "append" THEN {Who(proc[t])} ELSE {}),
           \A f \in File : cipher'[f] \in {cipher[f], proc[t].seen, recipients},
           proc'[t].seen \subseteq proc[t].seen \cup recipients,
           proc'[t].pc \in {"read", "append"} =>
                proc[t].pc \in {"read", "append"} /\ Who(proc'[t]) = Who(proc[t])
    PROVE  HeldInv'
<1>1. \A id : Live(id) => LiveNext(id)
  BY DEF Live, LiveNext
<1>2. /\ \A id \in recipients' : LiveNext(id)
      /\ \A u \in Terminal : \A id \in proc'[u].seen : LiveNext(id)
      /\ \A u \in Terminal : proc'[u].pc \in {"read", "append"} => LiveNext(Who(proc'[u]))
  BY <1>1 DEF HeldInv, Others, Same
<1>3. \A f \in File : cipher'[f] # {} => \E id \in cipher'[f] : LiveNext(id)
  BY <1>1 DEF HeldInv
<1> QED BY <1>2, <1>3, HeldNext

LEMMA HeldStub ==
    ASSUME TypeInv, HeldInv, NEW t \in Terminal, WriteStub(t)
    PROVE  HeldInv'
<1>1. /\ Keeps(t, "read") /\ Others(t) /\ proc'[t].seen = proc[t].seen
      /\ recipients' = recipients /\ cipher' = cipher /\ proc[t].op = "enroll"
  BY Moving, MovesTyped DEF WriteStub
<1>2. /\ Serial(t) \in Key /\ proc[t].slot \in Slot
      /\ Who(proc[t]) = <<Serial(t), proc[t].slot>>
  BY <1>1, WhoTyped
<1>3. /\ stub' = [stub EXCEPT ![Serial(t)] = proc[t].slot]
      /\ replaced' = replaced \cup ({<<Serial(t), stub[Serial(t)]>>} \cap Identity)
  BY DEF WriteStub, Stub
<1>4. stub \in [Key -> Slot \cup {0}]
  BY DEF TypeInv, TypeOK
<1>5. ASSUME NEW id \in Identity, Live(id) PROVE LiveNext(id)
  <2>1. id = <<id[1], id[2]>> /\ id[1] \in Key
    BY DEF Identity
  <2> QED BY <1>3, <1>4, <1>5, <2>1 DEF Live, LiveNext
<1>6. LiveNext(Who(proc'[t]))
  BY <1>1, <1>2, <1>3, <1>4 DEF LiveNext, Keeps
<1>7. /\ recipients \subseteq Identity /\ \A u \in Terminal : proc[u].seen \subseteq Identity
      /\ \A f \in File : cipher[f] \subseteq Identity
      /\ \A u \in Terminal : proc[u].pc \in {"read", "append"} => Who(proc[u]) \in Identity
  <2>1. ASSUME NEW u \in Terminal, proc[u].pc \in {"read", "append"} PROVE Who(proc[u]) \in Identity
    BY <2>1, WhoTyped DEF TypeInv, ProcInv, Shape, Enrolling
  <2> QED BY <2>1 DEF TypeInv, TypeOK, ProcInv, Command
<1>8. \A id \in recipients' : LiveNext(id)
  BY <1>1, <1>5, <1>7 DEF HeldInv
<1>9. \A u \in Terminal : \A id \in proc'[u].seen : LiveNext(id)
  BY <1>1, <1>5, <1>7 DEF HeldInv, Others, Same
<1>10. \A u \in Terminal : proc'[u].pc \in {"read", "append"} => LiveNext(Who(proc'[u]))
  BY <1>1, <1>5, <1>6, <1>7 DEF HeldInv, Others, Same
<1>11. \A f \in File : cipher'[f] # {} => \E id \in cipher'[f] : LiveNext(id)
  BY <1>1, <1>5, <1>7 DEF HeldInv
<1> QED BY <1>8, <1>9, <1>10, <1>11, HeldNext

\* The key that goes leaves one that opens everything, and no command runs.
LEMMA HeldRemove ==
    ASSUME TypeInv, HeldInv, NEW k \in Key, UserRemovesKey(k)
    PROVE  HeldInv'
<1>1. /\ stub \in [Key -> Slot \cup {0}] /\ recipients \subseteq Identity
      /\ stub' = [stub EXCEPT ![k] = 0] /\ replaced' = replaced
      /\ recipients' = recipients \ ({k} \X Slot) /\ cipher' = cipher /\ proc' = proc
  BY DEF UserRemovesKey, TypeInv, TypeOK
<1>2. \A u \in Terminal : proc'[u].seen = {} /\ proc'[u].pc = "idle"
  BY <1>1, NobodyRuns, IdleTyped DEF UserRemovesKey
<1>3. ASSUME NEW id \in recipients' PROVE LiveNext(id)
  <2>1. id = <<id[1], id[2]>> /\ id[1] \in Key /\ id[1] # k /\ Live(id)
    BY <1>1 DEF Identity, HeldInv
  <2> QED BY <1>1, <2>1 DEF Live, LiveNext
<1>4. ASSUME NEW f \in File, cipher'[f] # {} PROVE \E id \in cipher'[f] : LiveNext(id)
  <2>1. PICK j \in Key \ {k} : <<j, stub[j]>> \in cipher[f]
    BY <1>1, <1>4 DEF UserRemovesKey, Opens
  <2> QED BY <1>1, <2>1 DEF LiveNext
<1> QED BY <1>2, <1>3, <1>4, HeldNext

LEMMA HeldKept ==
    ASSUME TypeInv, HeldInv, [Next]_vars
    PROVE  HeldInv'
<1>1. ASSUME NEW t \in Terminal, NEW r, Beginning(t, r) PROVE HeldInv'
  <2>1. r.pc \notin {"read", "append"} /\ r.seen \subseteq recipients
    BY <1>1, BeginningRecord
  <2> QED BY <1>1, <2>1, BeginningDoes, BeginningOthers, HeldStep
<1>2. ASSUME NEW t \in Terminal, ScaffoldPiece(t) PROVE HeldInv'
  BY <1>2, ScaffoldDoes, HeldStep DEF ScaffoldPiece, Keeps, files, history
<1>3. ASSUME NEW t \in Terminal, EndInit(t) PROVE HeldInv'
  BY <1>3, Ending, EndsDoes, HeldStep DEF EndInit, files
<1>4. ASSUME NEW t \in Terminal, Generate(t) PROVE HeldInv'
  <2>1. /\ proc'[t].pc = "stub" /\ proc'[t].seen = proc[t].seen /\ Others(t)
        /\ stub' = stub /\ replaced' = replaced /\ recipients' = recipients /\ cipher' = cipher
    BY <1>4, Moving, MovesTyped DEF Generate, Keeps, files, history
  <2> QED BY <2>1, HeldStep
<1>5. ASSUME NEW t \in Terminal, WriteStub(t) PROVE HeldInv'
  BY <1>5, HeldStub
<1>6. ASSUME NEW t \in Terminal, ReadRecipients(t) PROVE HeldInv'
  BY <1>6, ReadDoes, HeldStep DEF ReadRecipients, Keeps, files, history
<1>7. ASSUME NEW t \in Terminal, AppendRecipient(t) PROVE HeldInv'
  <2>1. recipients' = proc[t].seen \cup {Who(proc[t])}
    BY <1>7, NewIsWho DEF AppendRecipient, Appended
  <2> QED BY <1>7, <2>1, Moving, MovesTyped, HeldStep DEF AppendRecipient, Keeps
<1>8. ASSUME NEW t \in Terminal, Tell(t) PROVE HeldInv'
  BY <1>8, Ending, EndsDoes, HeldStep DEF Tell, files
<1>9. ASSUME NEW t \in Terminal, Store(t) PROVE HeldInv'
  BY <1>9, Ending, EndsDoes, HeldStep DEF Store, history
<1>10. ASSUME NEW t \in Terminal, NEW f \in File, RekeyFile(t, f) PROVE HeldInv'
  <2>1. \A g \in File : cipher'[g] \in {cipher[g], recipients}
    BY <1>10, RekeyDoes DEF TypeInv, TypeOK
  <2> QED BY <1>10, <2>1, RekeyDoes, HeldStep DEF RekeyFile, Keeps, history
<1>11. ASSUME NEW t \in Terminal, EndRekey(t) PROVE HeldInv'
  BY <1>11, Moving, MovesTyped, HeldStep DEF EndRekey, Keeps, files, history
<1>12. ASSUME NEW t \in Terminal, Stop(t) PROVE HeldInv'
  BY <1>12, Ending, EndsDoes, HeldStep DEF Stop, files
<1>13. ASSUME NEW k \in Key, UserRemovesKey(k) PROVE HeldInv'
  BY <1>13, HeldRemove
<1>14. CASE UNCHANGED <<stub, recipients, cipher, proc, replaced>>
  BY <1>14, HeldNext DEF HeldInv, Live, LiveNext
<1> QED
  BY <1>1, <1>2, <1>3, <1>4, <1>5, <1>6, <1>7, <1>8, <1>9, <1>10, <1>11, <1>12, <1>13, <1>14
  DEF Next, Beginning, vars, files, UserCommitsPlain

\* A recipient that has its stub opens: CiphertextOpens.
LEMMA HeldOpens == ASSUME TypeInv, HeldInv PROVE CiphertextOpens
<1> SUFFICES ASSUME NEW f \in File, cipher[f] # {}
             PROVE  Opens(f, {}) \/ cipher[f] \cap replaced # {}
  BY DEF CiphertextOpens
<1>1. PICK id \in cipher[f] : Live(id)
  BY DEF HeldInv
<1>2. id = <<id[1], id[2]>> /\ id[1] \in Key /\ id[2] \in Slot /\ id[2] # 0
  BY SlotsAssumption DEF TypeInv, TypeOK, Identity, Slot
<1> QED BY <1>1, <1>2 DEF Live, Opens

-----------------------------------------------------------------------------
\* No plaintext is committed once init completed. What is inductive: a piece is
\* there, or init has still to write it; and what init wrote stays.

GuardInv ==
    /\ inited => {"hook", "hooksPath"} \subseteq has
    /\ \A t \in Terminal : proc[t].op = "init" => Piece \subseteq has \cup proc[t].todo
    /\ "own" \in has \/ "after" \notin leaks

LEMMA GuardStep ==
    ASSUME GuardInv, NEW t \in Terminal, Others(t),
           has \subseteq has', leaks' = leaks,
           inited' => inited \/ Piece \subseteq has,
           proc'[t].op = "init" => Piece \subseteq has' \cup proc'[t].todo
    PROVE  GuardInv'
BY DEF GuardInv, Others, Same, Piece

LEMMA GuardKept ==
    ASSUME TypeInv, GuardInv, [Next]_vars
    PROVE  GuardInv'
<1>1. ASSUME NEW t \in Terminal, NEW r, Beginning(t, r) PROVE GuardInv'
  <2>1. r.op = "init" => r.todo = Piece
    BY <1>1, BeginningRecord
  <2> QED BY <1>1, <2>1, BeginningDoes, BeginningOthers, GuardStep
<1>2. ASSUME NEW t \in Terminal, ScaffoldPiece(t) PROVE GuardInv'
  <2>1. PICK p \in Piece : proc'[t].todo = proc[t].todo \ {p} /\ has' = has \cup {p}
    BY <1>2, ScaffoldDoes
  <2>2. Piece \subseteq has' \cup proc'[t].todo
    BY <1>2, <2>1, ScaffoldDoes DEF GuardInv
  <2> QED BY <1>2, <2>1, <2>2, ScaffoldDoes, GuardStep DEF ScaffoldPiece, history
<1>3. ASSUME NEW t \in Terminal, EndInit(t) PROVE GuardInv'
  <2>1. Piece \subseteq has
    BY <1>3 DEF EndInit, At, GuardInv
  <2> QED BY <1>3, <2>1, Ending, EndsDoes, GuardStep DEF EndInit
<1>4. ASSUME NEW t \in Terminal, Others(t), has' = has, leaks' = leaks, inited' = inited,
             proc'[t].op # "init"
      PROVE  GuardInv'
  BY <1>4, GuardStep
<1>5. ASSUME NEW t \in Terminal, NEW pc, Moves(t, pc), proc[t].op # "init",
             has' = has, leaks' = leaks, inited' = inited
      PROVE  GuardInv'
  BY <1>4, <1>5, MovesTyped DEF Keeps
<1>6. ASSUME NEW t \in Terminal, Ends(t), has' = has, leaks' = leaks, inited' = inited
      PROVE  GuardInv'
  BY <1>4, <1>6, EndsDoes
<1>7. ASSUME NEW t \in Terminal,
             Generate(t) \/ WriteStub(t) \/ AppendRecipient(t) \/ EndRekey(t)
      PROVE  GuardInv'
  BY <1>5, <1>7, Moving DEF Generate, WriteStub, AppendRecipient, EndRekey, history
<1>8. ASSUME NEW t \in Terminal, Tell(t) \/ Store(t) \/ Stop(t) PROVE GuardInv'
  BY <1>6, <1>8, Ending DEF Tell, Store, Stop, history
<1>9. ASSUME NEW t \in Terminal, ReadRecipients(t) PROVE GuardInv'
  BY <1>4, <1>9, ReadDoes DEF ReadRecipients, Keeps, history
<1>10. ASSUME NEW t \in Terminal, NEW f \in File, RekeyFile(t, f) PROVE GuardInv'
  BY <1>4, <1>10, RekeyDoes DEF RekeyFile, Keeps, history
<1>11. ASSUME NEW k \in Key, UserRemovesKey(k) PROVE GuardInv'
  BY <1>11 DEF UserRemovesKey, GuardInv
<1>12. ASSUME NEW f \in File, UserCommitsPlain(f) PROVE GuardInv'
  BY <1>12 DEF UserCommitsPlain, Guarded, GuardInv
<1>13. CASE UNCHANGED vars
  BY <1>13 DEF vars, GuardInv
<1> QED
  BY <1>1, <1>2, <1>3, <1>7, <1>8, <1>9, <1>10, <1>11, <1>12, <1>13 DEF Next, Beginning

-----------------------------------------------------------------------------
\* What verify says of the profile's shape. What is inductive: whoever is listed,
\* read or about to be listed has a stub, and a stub without a list is that of an
\* enrolment that was cut or still runs.

FormInv ==
    /\ recipients # {} => listed
    /\ \A t \in Terminal : proc[t].seen # {} => listed
    /\ \A f \in File : cipher[f] # {} => listed
    /\ listed => recipients # {} \/ departed # {}
    /\ \A id \in recipients : stub[id[1]] # 0
    /\ \A t \in Terminal : \A id \in proc[t].seen : stub[id[1]] # 0
    /\ \A t \in Terminal : proc[t].pc \in {"read", "append", "tell"} => stub[Who(proc[t])[1]] # 0
    /\ StubbedUnlisted => cut \/ \E t \in Terminal : proc[t].pc \in {"read", "append"}

LEMMA FormStep ==
    ASSUME FormInv, NEW t \in Terminal, Others(t), stub' = stub, departed' = departed,
           \/ recipients' = recipients /\ listed' = listed
           \/ recipients' # {} /\ listed' = TRUE,
           recipients' \subseteq recipients \cup proc[t].seen
                \cup (IF proc[t].pc = "append" THEN {Who(proc[t])} ELSE {}),
           \A f \in File : cipher'[f] \in {cipher[f], proc[t].seen, recipients},
           proc'[t].seen \subseteq proc[t].seen \cup recipients,
           proc'[t].pc \in {"read", "append", "tell"} =>
                proc[t].pc \in {"read", "append", "tell"} /\ Who(proc'[t]) = Who(proc[t]),
           cut => cut',
           proc[t].pc \in {"read", "append"} => proc'[t].pc \in {"read", "append"} \/ cut' \/ listed'
    PROVE  FormInv'
<1>1. /\ recipients' # {} => listed'
      /\ \A u \in Terminal : proc'[u].seen # {} => listed'
      /\ \A f \in File : cipher'[f] # {} => listed'
      /\ listed' => recipients' # {} \/ departed' # {}
  BY DEF FormInv, Others, Same
<1>2. /\ \A id \in recipients' : stub'[id[1]] # 0
      /\ \A u \in Terminal : \A id \in proc'[u].seen : stub'[id[1]] # 0
  BY DEF FormInv, Others, Same
<1>3. \A u \in Terminal : proc'[u].pc \in {"read", "append", "tell"} => stub'[Who(proc'[u])[1]] # 0
  BY DEF FormInv, Others, Same
<1>4. StubbedUnlisted' => cut' \/ \E u \in Terminal : proc'[u].pc \in {"read", "append"}
  BY DEF FormInv, Others, Same, StubbedUnlisted
<1>5. \A u \in Terminal : (stub[Who(proc[u])[1]] # 0)' <=> stub'[Who(proc'[u])[1]] # 0
  BY DEF Who, The
<1> QED BY <1>1, <1>2, <1>3, <1>4, <1>5 DEF FormInv

LEMMA FormStub ==
    ASSUME TypeInv, FormInv, NEW t \in Terminal, WriteStub(t)
    PROVE  FormInv'
<1>1. /\ Keeps(t, "read") /\ Others(t) /\ proc'[t].seen = proc[t].seen
      /\ proc[t].op = "enroll" /\ proc[t].pc = "stub"
      /\ UNCHANGED <<listed, recipients, cipher, departed, cut>>
  BY Moving, MovesTyped DEF WriteStub
<1>2. /\ stub \in [Key -> Slot \cup {0}] /\ Serial(t) \in Key
      /\ proc[t].slot # 0 /\ Who(proc[t])[1] = Serial(t)
      /\ stub' = [stub EXCEPT ![Serial(t)] = proc[t].slot]
  BY <1>1, WhoTyped DEF TypeInv, TypeOK, WriteStub, Stub
<1>3. ASSUME NEW k \in Key, stub[k] # 0 PROVE stub'[k] # 0
  BY <1>2, <1>3
<1>4. /\ recipients \subseteq Identity /\ \A u \in Terminal : proc[u].seen \subseteq Identity
      /\ \A u \in Terminal : proc[u].pc \in {"read", "append", "tell"} => Who(proc[u])[1] \in Key
  <2>1. ASSUME NEW u \in Terminal, proc[u].pc \in {"read", "append", "tell"} PROVE Who(proc[u])[1] \in Key
    BY <2>1, WhoTyped DEF TypeInv, ProcInv, Shape, Enrolling
  <2> QED BY <2>1 DEF TypeInv, TypeOK, ProcInv, Command
<1>5. \A id \in Identity : id[1] \in Key
  BY DEF Identity
<1>6. \A id \in recipients' : stub'[id[1]] # 0
  BY <1>1, <1>3, <1>4, <1>5 DEF FormInv
<1>7. \A u \in Terminal : \A id \in proc'[u].seen : stub'[id[1]] # 0
  BY <1>1, <1>3, <1>4, <1>5 DEF FormInv, Others, Same
<1>8. \A u \in Terminal : proc'[u].pc \in {"read", "append", "tell"} => stub'[Who(proc'[u])[1]] # 0
  <2>1. stub'[Who(proc'[t])[1]] # 0
    BY <1>1, <1>2 DEF Keeps
  <2> QED BY <1>1, <1>3, <1>4, <2>1 DEF FormInv, Others, Same
<1>9. \E u \in Terminal : proc'[u].pc \in {"read", "append"}
  BY <1>1 DEF Keeps
<1>10. \A u \in Terminal : proc'[u].seen # {} => listed'
  BY <1>1 DEF FormInv, Others, Same
<1>11. \A u \in Terminal : (stub[Who(proc[u])[1]] # 0)' <=> stub'[Who(proc'[u])[1]] # 0
  BY DEF Who, The
<1> QED BY <1>1, <1>6, <1>7, <1>8, <1>9, <1>10, <1>11 DEF FormInv

LEMMA FormRemove ==
    ASSUME TypeInv, FormInv, NEW k \in Key, UserRemovesKey(k)
    PROVE  FormInv'
<1>1. /\ stub \in [Key -> Slot \cup {0}] /\ recipients \subseteq Identity
      /\ stub' = [stub EXCEPT ![k] = 0] /\ listed' = listed /\ cut' = cut
      /\ recipients' = recipients \ ({k} \X Slot)
      /\ departed' = departed \cup (recipients \cap ({k} \X Slot))
      /\ cipher' = cipher /\ proc' = proc
  BY DEF UserRemovesKey, TypeInv, TypeOK
<1>2. \A u \in Terminal : proc[u].seen = {} /\ proc[u].pc = "idle"
  BY NobodyRuns, IdleTyped DEF UserRemovesKey
<1>3. ASSUME NEW id \in recipients' PROVE stub'[id[1]] # 0
  <2>1. id[1] \in Key /\ id[1] # k /\ stub[id[1]] # 0
    BY <1>1 DEF Identity, FormInv
  <2> QED BY <1>1, <2>1
<1>4. StubbedUnlisted' => cut'
  <2>1. \A j \in Key : stub'[j] # 0 => stub[j] # 0
    BY <1>1
  <2> QED BY <1>1, <1>2, <2>1 DEF FormInv, StubbedUnlisted
<1>5. listed' => recipients' # {} \/ departed' # {}
  BY <1>1 DEF FormInv
<1> QED BY <1>1, <1>2, <1>3, <1>4, <1>5 DEF FormInv

LEMMA FormKept ==
    ASSUME TypeInv, FormInv, [Next]_vars
    PROVE  FormInv'
<1>1. ASSUME NEW t \in Terminal, NEW r, Beginning(t, r) PROVE FormInv'
  <2>1. r.pc \notin {"read", "append", "tell"} /\ r.seen \subseteq recipients
    BY <1>1, BeginningRecord
  <2>2. proc[t].pc = "idle"
    BY <1>1, BeginningDoes, IdleTyped
  <2>3. /\ UNCHANGED <<stub, listed, recipients, cipher, departed, cut>>
        /\ proc'[t].pc = r.pc /\ proc'[t].seen = r.seen
    BY <1>1, BeginningDoes
  <2>4. Others(t)
    BY <1>1, BeginningOthers
  <2> QED BY <2>1, <2>2, <2>3, <2>4, FormStep
<1>2. ASSUME NEW t \in Terminal, Others(t),
             UNCHANGED <<stub, listed, recipients, departed>>, cut => cut',
             \A f \in File : cipher'[f] \in {cipher[f], proc[t].seen, recipients},
             proc'[t].seen \subseteq proc[t].seen \cup recipients,
             proc[t].pc \in {"read", "append"} => proc'[t].pc = "append" \/ cut',
             \/ proc'[t].pc \notin {"read", "append", "tell"}
             \/ proc[t].pc = "read" /\ Who(proc'[t]) = Who(proc[t])
      PROVE  FormInv'
  BY <1>2, FormStep
<1>3. ASSUME NEW t \in Terminal, ScaffoldPiece(t) PROVE FormInv'
  BY <1>2, <1>3, ScaffoldDoes DEF ScaffoldPiece, Keeps, files, history
<1>4. ASSUME NEW t \in Terminal, EndInit(t) PROVE FormInv'
  <2>1. proc[t].pc = "complete"
    BY <1>4 DEF EndInit, At
  <2> QED BY <1>2, <1>4, <2>1, Ending, EndsDoes DEF EndInit, files
<1>5. ASSUME NEW t \in Terminal, Generate(t) \/ EndRekey(t) PROVE FormInv'
  <2>1. PICK pc \in {"stub", "done"} : Moves(t, pc) /\ proc[t].pc \notin {"read", "append"}
    BY <1>5, Moving DEF Generate, EndRekey, At
  <2>2. UNCHANGED <<stub, listed, recipients, cipher, departed, cut>>
    BY <1>5 DEF Generate, EndRekey, files, history
  <2>3. proc'[t].pc = pc /\ Others(t) /\ proc'[t].seen = proc[t].seen
    BY <2>1, MovesTyped DEF Keeps
  <2> QED BY <1>2, <2>1, <2>2, <2>3
<1>6. ASSUME NEW t \in Terminal, WriteStub(t) PROVE FormInv'
  BY <1>6, FormStub
<1>7. ASSUME NEW t \in Terminal, ReadRecipients(t) PROVE FormInv'
  BY <1>2, <1>7, ReadDoes DEF ReadRecipients, Keeps, files, history
<1>8. ASSUME NEW t \in Terminal, AppendRecipient(t) PROVE FormInv'
  <2>1. recipients' = proc[t].seen \cup {Who(proc[t])} /\ listed' = TRUE
    BY <1>8, NewIsWho DEF AppendRecipient, Appended
  <2>2. proc[t].pc = "append" /\ UNCHANGED <<stub, cipher, departed, cut>>
    BY <1>8 DEF AppendRecipient, At
  <2>3. Keeps(t, "tell") /\ Others(t) /\ proc'[t].seen = proc[t].seen
    BY <1>8, Moving, MovesTyped
  <2> QED BY <2>1, <2>2, <2>3, FormStep DEF Keeps
<1>9. ASSUME NEW t \in Terminal, Tell(t) \/ Store(t) PROVE FormInv'
  <2>1. proc[t].pc \in {"tell", "store"} /\ Ends(t)
    BY <1>9, Ending DEF Tell, Store, At
  <2>2. /\ UNCHANGED <<stub, listed, recipients, departed, cut>>
        /\ \A f \in File : cipher'[f] \in {cipher[f], proc[t].seen}
    BY <1>9 DEF Tell, Store, files, history
  <2> QED BY <1>2, <2>1, <2>2, EndsDoes
<1>10. ASSUME NEW t \in Terminal, NEW f \in File, RekeyFile(t, f) PROVE FormInv'
  <2>1. \A g \in File : cipher'[g] \in {cipher[g], recipients}
    BY <1>10, RekeyDoes DEF TypeInv, TypeOK
  <2> QED BY <1>2, <1>10, <2>1, RekeyDoes DEF RekeyFile, Keeps, history
<1>11. ASSUME NEW t \in Terminal, Stop(t) PROVE FormInv'
  BY <1>2, <1>11, Ending, EndsDoes DEF Stop, files
<1>12. ASSUME NEW k \in Key, UserRemovesKey(k) PROVE FormInv'
  BY <1>12, FormRemove
<1>13. CASE UNCHANGED <<stub, listed, recipients, cipher, proc, departed, cut>>
  BY <1>13 DEF FormInv, StubbedUnlisted, Who, The
<1> QED
  BY <1>1, <1>3, <1>4, <1>5, <1>6, <1>7, <1>8, <1>9, <1>10, <1>11, <1>12, <1>13
  DEF Next, Beginning, vars, files, UserCommitsPlain

-----------------------------------------------------------------------------
\* Who is listed, was read, or left: identities their keys hold, and none of those
\* who left is listed or about to be.

Held(id) == id[2] \in token[id[1]]
HeldThen(id) == id[2] \in token'[id[1]]

TokenInv ==
    /\ \A id \in recipients \cup departed : Held(id)
    /\ \A t \in Terminal : \A id \in proc[t].seen : Held(id) /\ id \notin departed
    /\ \A t \in Terminal : proc[t].pc \in {"stub", "read", "append", "tell"} => Held(Who(proc[t]))
    /\ \A t \in Terminal : proc[t].pc \in {"stub", "read", "append"} => Who(proc[t]) \notin departed
    /\ recipients \cap departed = {}

LEMMA TokenNext ==
    ASSUME \A id \in recipients' \cup departed' : HeldThen(id),
           \A t \in Terminal : \A id \in proc'[t].seen : HeldThen(id) /\ id \notin departed',
           \A t \in Terminal : proc'[t].pc \in {"stub", "read", "append", "tell"} => HeldThen(Who(proc'[t])),
           \A t \in Terminal : proc'[t].pc \in {"stub", "read", "append"} => Who(proc'[t]) \notin departed',
           recipients' \cap departed' = {}
    PROVE  TokenInv'
<1>1. \A t \in Terminal : proc'[t].pc \in {"stub", "read", "append", "tell"} => Held(Who(proc[t]))'
  BY DEF Held, HeldThen, Who, The
<1>2. \A t \in Terminal : proc'[t].pc \in {"stub", "read", "append"} => (Who(proc[t]) \notin departed)'
  BY DEF Who, The
<1> QED BY <1>1, <1>2 DEF TokenInv, Held, HeldThen

LEMMA TokenStep ==
    ASSUME TokenInv, NEW t \in Terminal, Others(t), token' = token, departed' = departed,
           recipients' \subseteq recipients \cup proc[t].seen
                \cup (IF proc[t].pc = "append" THEN {Who(proc[t])} ELSE {}),
           proc'[t].seen \subseteq proc[t].seen \cup recipients,
           proc'[t].pc \in {"stub", "read", "append", "tell"} =>
                proc[t].pc \in {"stub", "read", "append"} /\ Who(proc'[t]) = Who(proc[t])
    PROVE  TokenInv'
<1>1. \A id : Held(id) => HeldThen(id)
  BY DEF Held, HeldThen
<1>2. /\ \A id \in recipients' \cup departed' : HeldThen(id)
      /\ recipients' \cap departed' = {}
  BY <1>1 DEF TokenInv
<1>3. \A u \in Terminal : \A id \in proc'[u].seen : HeldThen(id) /\ id \notin departed'
  BY <1>1 DEF TokenInv, Others, Same
<1>4. \A u \in Terminal :
        /\ proc'[u].pc \in {"stub", "read", "append", "tell"} => HeldThen(Who(proc'[u]))
        /\ proc'[u].pc \in {"stub", "read", "append"} => Who(proc'[u]) \notin departed'
  BY <1>1 DEF TokenInv, Others, Same
<1> QED BY <1>2, <1>3, <1>4, TokenNext

LEMMA TokenGenerate ==
    ASSUME TypeInv, TokenInv, NEW t \in Terminal, Generate(t)
    PROVE  TokenInv'
<1>1. /\ Keeps(t, "stub") /\ Others(t) /\ proc'[t].seen = proc[t].seen /\ proc[t].op = "enroll"
      /\ recipients' = recipients /\ departed' = departed
  BY Moving, MovesTyped DEF Generate, files, history
<1>2. /\ token \in [Key -> SUBSET Slot] /\ Serial(t) \in Key
      /\ Who(proc[t])[1] = Serial(t) /\ Who(proc[t])[2] = proc[t].slot
      /\ token' = [token EXCEPT ![Serial(t)] = token[Serial(t)] \cup {proc[t].slot}]
      /\ proc[t].slot \notin token[Serial(t)]
  BY <1>1, WhoTyped DEF TypeInv, TypeOK, Generate
<1>3. ASSUME NEW id, id[1] \in Key, Held(id) PROVE HeldThen(id)
  BY <1>2, <1>3 DEF Held, HeldThen
<1>4. /\ recipients \subseteq Identity /\ departed \subseteq Identity
      /\ \A u \in Terminal : proc[u].seen \subseteq Identity
      /\ \A u \in Terminal : proc[u].pc \in {"stub", "read", "append", "tell"} => Who(proc[u])[1] \in Key
  <2>1. ASSUME NEW u \in Terminal, proc[u].pc \in {"stub", "read", "append", "tell"}
        PROVE  Who(proc[u])[1] \in Key
    BY <2>1, WhoTyped DEF TypeInv, ProcInv, Shape, Enrolling
  <2> QED BY <2>1 DEF TypeInv, TypeOK, ProcInv, Command
<1>5. \A id \in Identity : id[1] \in Key
  BY DEF Identity
<1>6. HeldThen(Who(proc'[t])) /\ Who(proc'[t]) \notin departed
  <2>1. ~Held(Who(proc[t]))
    BY <1>2 DEF Held
  <2>2. Who(proc[t]) \notin departed
    BY <2>1 DEF TokenInv
  <2> QED BY <1>1, <1>2, <2>2 DEF HeldThen, Keeps
<1>7. /\ \A id \in recipients' \cup departed' : HeldThen(id)
      /\ recipients' \cap departed' = {}
  BY <1>1, <1>3, <1>4, <1>5 DEF TokenInv
<1>8. \A u \in Terminal : \A id \in proc'[u].seen : HeldThen(id) /\ id \notin departed'
  BY <1>1, <1>3, <1>4, <1>5 DEF TokenInv, Others, Same
<1>9. \A u \in Terminal :
        /\ proc'[u].pc \in {"stub", "read", "append", "tell"} => HeldThen(Who(proc'[u]))
        /\ proc'[u].pc \in {"stub", "read", "append"} => Who(proc'[u]) \notin departed'
  BY <1>1, <1>3, <1>4, <1>6 DEF TokenInv, Others, Same
<1> QED BY <1>7, <1>8, <1>9, TokenNext

LEMMA TokenRemove ==
    ASSUME TypeInv, TokenInv, NEW k \in Key, UserRemovesKey(k)
    PROVE  TokenInv'
<1>1. /\ token' = token /\ proc' = proc
      /\ recipients' = recipients \ ({k} \X Slot)
      /\ departed' = departed \cup (recipients \cap ({k} \X Slot))
  BY DEF UserRemovesKey
<1>2. \A u \in Terminal : proc'[u].seen = {} /\ proc'[u].pc = "idle"
  BY <1>1, NobodyRuns, IdleTyped DEF UserRemovesKey
<1>3. \A id \in recipients' \cup departed' : HeldThen(id)
  BY <1>1 DEF TokenInv, Held, HeldThen
<1>4. recipients' \cap departed' = {}
  BY <1>1 DEF TokenInv
<1> QED BY <1>2, <1>3, <1>4, TokenNext

LEMMA TokenKept ==
    ASSUME TypeInv, TokenInv, [Next]_vars
    PROVE  TokenInv'
<1>1. ASSUME NEW t \in Terminal, Others(t), UNCHANGED <<token, recipients, departed>>,
             proc'[t].seen \subseteq proc[t].seen \cup recipients,
             \/ proc'[t].pc \notin {"stub", "read", "append", "tell"}
             \/ proc[t].pc \in {"stub", "read"} /\ Who(proc'[t]) = Who(proc[t])
      PROVE  TokenInv'
  BY <1>1, TokenStep
<1>2. ASSUME NEW t \in Terminal, NEW r, Beginning(t, r) PROVE TokenInv'
  <2>1. r.pc \notin {"stub", "read", "append", "tell"} /\ r.seen \subseteq recipients
    BY <1>2, BeginningRecord
  <2>2. /\ UNCHANGED <<token, recipients, departed>>
        /\ proc'[t].pc = r.pc /\ proc'[t].seen = r.seen
    BY <1>2, BeginningDoes
  <2> QED BY <1>1, <1>2, <2>1, <2>2, BeginningOthers
<1>3. ASSUME NEW t \in Terminal, ScaffoldPiece(t) PROVE TokenInv'
  BY <1>1, <1>3, ScaffoldDoes DEF ScaffoldPiece, Keeps, files, history
<1>4. ASSUME NEW t \in Terminal, EndInit(t) \/ Tell(t) \/ Store(t) \/ Stop(t) PROVE TokenInv'
  <2>1. UNCHANGED <<token, recipients, departed>>
    BY <1>4 DEF EndInit, Tell, Store, Stop, files, history
  <2> QED BY <1>1, <1>4, <2>1, Ending, EndsDoes
<1>5. ASSUME NEW t \in Terminal, Generate(t) PROVE TokenInv'
  BY <1>5, TokenGenerate
<1>6. ASSUME NEW t \in Terminal, WriteStub(t) \/ EndRekey(t) PROVE TokenInv'
  <2>1. UNCHANGED <<token, recipients, departed>>
    BY <1>6 DEF WriteStub, EndRekey, files, history
  <2>2. PICK pc \in {"read", "done"} : Moves(t, pc) /\ (pc = "read" => proc[t].pc = "stub")
    BY <1>6, Moving
  <2>3. /\ proc'[t].pc = pc /\ proc'[t].seen = proc[t].seen /\ Others(t)
        /\ Who(proc'[t]) = Who(proc[t])
    BY <2>2, MovesTyped DEF Keeps
  <2> QED BY <1>1, <2>1, <2>2, <2>3
<1>7. ASSUME NEW t \in Terminal, ReadRecipients(t) PROVE TokenInv'
  BY <1>1, <1>7, ReadDoes DEF ReadRecipients, Keeps, files, history
<1>8. ASSUME NEW t \in Terminal, AppendRecipient(t) PROVE TokenInv'
  <2>1. recipients' = proc[t].seen \cup {Who(proc[t])}
    BY <1>8, NewIsWho DEF AppendRecipient, Appended
  <2>2. proc[t].pc = "append" /\ UNCHANGED <<token, departed>>
    BY <1>8 DEF AppendRecipient, At
  <2>3. Keeps(t, "tell") /\ Others(t) /\ proc'[t].seen = proc[t].seen
    BY <1>8, Moving, MovesTyped
  <2> QED BY <2>1, <2>2, <2>3, TokenStep DEF Keeps
<1>9. ASSUME NEW t \in Terminal, NEW f \in File, RekeyFile(t, f) PROVE TokenInv'
  BY <1>1, <1>9, RekeyDoes DEF RekeyFile, Keeps, history
<1>10. ASSUME NEW k \in Key, UserRemovesKey(k) PROVE TokenInv'
  BY <1>10, TokenRemove
<1>11. CASE UNCHANGED <<token, recipients, proc, departed>>
  BY <1>11, TokenNext DEF TokenInv, Held, HeldThen
<1> QED
  BY <1>2, <1>3, <1>4, <1>5, <1>6, <1>7, <1>8, <1>9, <1>10, <1>11
  DEF Next, Beginning, vars, files, UserCommitsPlain

-----------------------------------------------------------------------------
\* An enrolment that runs beside no other: the stub and the list stay as it wrote them.

EnrolledInv ==
    \A t \in Terminal : "enroll" \notin proc[t].beside =>
        /\ proc[t].pc \in {"read", "append", "tell"} => stub[Who(proc[t])[1]] = Who(proc[t])[2]
        /\ proc[t].pc = "tell" => Who(proc[t]) \in recipients

LEMMA EnrolledNext ==
    ASSUME \A t \in Terminal : "enroll" \notin proc'[t].beside =>
              /\ proc'[t].pc \in {"read", "append", "tell"} =>
                    stub'[Who(proc'[t])[1]] = Who(proc'[t])[2]
              /\ proc'[t].pc = "tell" => Who(proc'[t]) \in recipients'
    PROVE  EnrolledInv'
<1>1. \A t \in Terminal :
        /\ (stub[Who(proc[t])[1]] = Who(proc[t])[2])' <=> stub'[Who(proc'[t])[1]] = Who(proc'[t])[2]
        /\ (Who(proc[t]) \in recipients)' <=> Who(proc'[t]) \in recipients'
  BY DEF Who, The
<1> QED BY <1>1 DEF EnrolledInv

LEMMA EnrolledStep ==
    ASSUME EnrolledInv, NEW t \in Terminal, Others(t), stub' = stub, recipients' = recipients,
           \/ proc'[t].pc \notin {"read", "append", "tell"}
           \/ /\ proc[t].pc = "read" /\ proc'[t].pc = "append"
              /\ Who(proc'[t]) = Who(proc[t]) /\ proc'[t].beside = proc[t].beside
    PROVE  EnrolledInv'
<1>1. \A u \in Terminal : "enroll" \notin proc'[u].beside =>
              /\ proc'[u].pc \in {"read", "append", "tell"} =>
                    stub'[Who(proc'[u])[1]] = Who(proc'[u])[2]
              /\ proc'[u].pc = "tell" => Who(proc'[u]) \in recipients'
  BY DEF EnrolledInv, Others, Same
<1> QED BY <1>1, EnrolledNext

\* Beside an enrolment that writes, every other one knows of it.
LEMMA EnrolledWrites ==
    ASSUME TypeInv, Mates, EnrolledInv, NEW t \in Terminal, WriteStub(t) \/ AppendRecipient(t)
    PROVE  EnrolledInv'
<1>1. /\ Others(t) /\ proc[t].op = "enroll" /\ Who(proc'[t]) = Who(proc[t])
      /\ proc'[t].beside = proc[t].beside
  BY Moving, MovesTyped DEF Keeps
<1>2. ASSUME NEW u \in Terminal \ {t}, proc'[u].pc \in {"read", "append", "tell"}
      PROVE  "enroll" \in proc'[u].beside
  <2>1. proc[u].pc \in {"read", "append", "tell"} /\ proc[u].beside \subseteq proc'[u].beside
    BY <1>1, <1>2 DEF Others, Same
  <2>2. proc[u].op = "enroll"
    BY <2>1 DEF TypeInv, ProcInv, Shape, Enrolling
  <2> QED BY <1>1, <2>1, <2>2 DEF Mates
<1>3. /\ Who(proc[t]) = <<Serial(t), proc[t].slot>> /\ Serial(t) \in Key
      /\ stub \in [Key -> Slot \cup {0}]
  BY <1>1, WhoTyped DEF TypeInv, TypeOK
<1>4. CASE WriteStub(t)
  <2>1. stub' = [stub EXCEPT ![Serial(t)] = proc[t].slot] /\ proc'[t].pc = "read"
    BY <1>4, Moving, MovesTyped DEF WriteStub, Stub, Keeps
  <2>2. stub'[Who(proc'[t])[1]] = Who(proc'[t])[2]
    BY <1>1, <1>3, <2>1
  <2> QED BY <1>2, <2>1, <2>2, EnrolledNext
<1>5. CASE AppendRecipient(t)
  <2>1. /\ recipients' = proc[t].seen \cup {Who(proc[t])} /\ stub' = stub
        /\ proc[t].pc = "append"
    BY <1>5, NewIsWho DEF AppendRecipient, Appended, At
  <2>2. "enroll" \notin proc'[t].beside => stub'[Who(proc'[t])[1]] = Who(proc'[t])[2]
    BY <1>1, <2>1 DEF EnrolledInv
  <2> QED BY <1>1, <1>2, <2>1, <2>2, EnrolledNext
<1> QED BY <1>4, <1>5

LEMMA EnrolledKept ==
    ASSUME TypeInv, Mates, EnrolledInv, [Next]_vars
    PROVE  EnrolledInv'
<1>1. ASSUME NEW t \in Terminal, NEW r, Beginning(t, r) PROVE EnrolledInv'
  <2>1. /\ r.pc \notin {"read", "append", "tell"} /\ proc'[t].pc = r.pc
        /\ stub' = stub /\ recipients' = recipients
    BY <1>1, BeginningRecord, BeginningDoes
  <2> QED BY <1>1, <2>1, BeginningOthers, EnrolledStep
<1>2. ASSUME NEW t \in Terminal, ScaffoldPiece(t) PROVE EnrolledInv'
  BY <1>2, ScaffoldDoes, EnrolledStep DEF ScaffoldPiece, Keeps, files
<1>3. ASSUME NEW t \in Terminal, EndInit(t) \/ Tell(t) \/ Store(t) \/ Stop(t) PROVE EnrolledInv'
  <2>1. stub' = stub /\ recipients' = recipients
    BY <1>3 DEF EndInit, Tell, Store, Stop, files
  <2> QED BY <1>3, <2>1, Ending, EndsDoes, EnrolledStep
<1>4. ASSUME NEW t \in Terminal, Generate(t) \/ EndRekey(t) PROVE EnrolledInv'
  <2>1. PICK pc \in {"stub", "done"} : Moves(t, pc)
    BY <1>4, Moving
  <2>2. stub' = stub /\ recipients' = recipients
    BY <1>4 DEF Generate, EndRekey, files
  <2> QED BY <2>1, <2>2, MovesTyped, EnrolledStep DEF Keeps
<1>5. ASSUME NEW t \in Terminal, WriteStub(t) \/ AppendRecipient(t) PROVE EnrolledInv'
  BY <1>5, EnrolledWrites
<1>6. ASSUME NEW t \in Terminal, ReadRecipients(t) PROVE EnrolledInv'
  BY <1>6, ReadDoes, EnrolledStep DEF ReadRecipients, Keeps, files
<1>7. ASSUME NEW t \in Terminal, NEW f \in File, RekeyFile(t, f) PROVE EnrolledInv'
  BY <1>7, RekeyDoes, EnrolledStep DEF RekeyFile, Keeps
<1>8. ASSUME NEW k \in Key, UserRemovesKey(k) PROVE EnrolledInv'
  <2>1. \A u \in Terminal : proc'[u].pc = "idle"
    BY <1>8, NobodyRuns, IdleTyped DEF UserRemovesKey
  <2> QED BY <2>1, EnrolledNext
<1>9. CASE UNCHANGED <<stub, recipients, proc>>
  BY <1>9, EnrolledNext DEF EnrolledInv
<1> QED
  BY <1>1, <1>2, <1>3, <1>4, <1>5, <1>6, <1>7, <1>8, <1>9
  DEF Next, Beginning, vars, files, UserCommitsPlain

LEMMA EnrolledTold ==
    ASSUME TypeInv, FormInv, TokenInv, EnrolledInv
    PROVE  EnrolledWhenTold
<1> SUFFICES ASSUME NEW t \in Terminal, At(t, "enroll", "tell"), "enroll" \notin proc[t].beside
             PROVE  /\ stub[Serial(t)] = proc[t].slot
                    /\ proc[t].slot \in token[Serial(t)]
                    /\ New(t) \in recipients
                    /\ ~CipherUnlisted /\ ~ListedUnstubbed /\ ~StubbedUnlisted
  BY DEF EnrolledWhenTold
<1>1. /\ Who(proc[t])[1] = Serial(t) /\ Who(proc[t])[2] = proc[t].slot
      /\ Serial(t) \in Key /\ proc[t].slot # 0 /\ New(t) = Who(proc[t])
  BY WhoTyped, NewIsWho DEF At
<1>2. stub[Serial(t)] = proc[t].slot /\ New(t) \in recipients
  BY <1>1 DEF EnrolledInv, At
<1>3. proc[t].slot \in token[Serial(t)]
  BY <1>1 DEF TokenInv, Held, At
<1>4. listed
  BY <1>2 DEF FormInv
<1> QED BY <1>1, <1>2, <1>3, <1>4 DEF CipherUnlisted, ListedUnstubbed, StubbedUnlisted

LEMMA FormSound == ASSUME TypeInv, FormInv PROVE VerifySound
<1>1. ~CipherUnlisted
  BY DEF FormInv, CipherUnlisted
<1>2. ListedUnstubbed => departed # {}
  <2>1. \A id \in recipients : id[1] \in Key
    BY DEF TypeInv, TypeOK, Identity
  <2> QED BY <2>1 DEF FormInv, ListedUnstubbed
<1> QED BY <1>1, <1>2 DEF FormInv, VerifySound

-----------------------------------------------------------------------------
\* Recipients a ciphertext does not know. What is inductive: what a command read is
\* still listed, unless two enrolments wrote over each other; and whoever a pending
\* encryption did not read has been told of, or has its enrolment about to tell.

Telling(id) == \E t \in Terminal : proc[t].pc = "tell" /\ Who(proc[t]) = id
TellingThen(id) == \E t \in Terminal : proc'[t].pc = "tell" /\ Who(proc'[t]) = id

ToldInv ==
    raced \/
        /\ \A t \in Terminal : proc[t].seen \subseteq recipients
        /\ \A t \in Terminal : proc[t].op = "encrypt" =>
             \A id \in recipients \ told : id \in proc[t].seen \/ Telling(id)
        /\ \A f \in File : cipher[f] # {} =>
             \A id \in recipients \ told : id \in cipher[f] \/ Telling(id)

LEMMA ToldNext ==
    ASSUME \/ raced'
           \/ /\ \A t \in Terminal : proc'[t].seen \subseteq recipients'
              /\ \A t \in Terminal : proc'[t].op = "encrypt" =>
                   \A id \in recipients' \ told' : id \in proc'[t].seen \/ TellingThen(id)
              /\ \A f \in File : cipher'[f] # {} =>
                   \A id \in recipients' \ told' : id \in cipher'[f] \/ TellingThen(id)
    PROVE  ToldInv'
<1>1. ASSUME NEW id PROVE TellingThen(id) <=> Telling(id)'
  BY DEF Telling, TellingThen, Who, The
<1> QED BY <1>1 DEF ToldInv

\* A step that lists nobody, and leaves the telling of an enrolment to it or does it.
LEMMA ToldStep ==
    ASSUME TypeInv, ToldInv, NEW t \in Terminal, Others(t),
           raced' = raced, recipients' = recipients, told \subseteq told',
           proc'[t].seen \subseteq proc[t].seen \cup recipients,
           proc'[t].op = "encrypt" => proc'[t].seen = recipients,
           \A f \in File : \/ cipher'[f] \in {cipher[f], recipients}
                           \/ proc[t].op = "encrypt" /\ cipher'[f] = proc[t].seen,
           proc[t].pc = "tell" => Who(proc[t]) \in told'
    PROVE  ToldInv'
<1> SUFFICES ASSUME ~raced PROVE ToldInv'
  BY ToldNext
<1>1. ASSUME NEW id \in recipients' \ told', Telling(id) PROVE TellingThen(id)
  <2>1. PICK u \in Terminal : proc[u].pc = "tell" /\ Who(proc[u]) = id
    BY <1>1 DEF Telling
  <2>2. u # t
    BY <1>1, <2>1
  <2> QED BY <2>1, <2>2 DEF TellingThen, Others, Same
<1>2. \A u \in Terminal : proc'[u].seen \subseteq recipients'
  BY DEF ToldInv, Others, Same
<1>3. ASSUME NEW u \in Terminal, proc'[u].op = "encrypt", NEW id \in recipients' \ told'
      PROVE  id \in proc'[u].seen \/ TellingThen(id)
  BY <1>1, <1>3 DEF ToldInv, Others, Same
<1>4. ASSUME NEW f \in File, cipher'[f] # {}, NEW id \in recipients' \ told'
      PROVE  id \in cipher'[f] \/ TellingThen(id)
  BY <1>1, <1>4 DEF ToldInv
<1> QED BY <1>2, <1>3, <1>4, ToldNext

LEMMA ToldAppend ==
    ASSUME TypeInv, ToldInv, NEW t \in Terminal, AppendRecipient(t)
    PROVE  ToldInv'
<1> SUFFICES ASSUME ~raced' PROVE ToldInv'
  BY ToldNext
<1>1. /\ recipients' = proc[t].seen \cup {Who(proc[t])} /\ recipients \subseteq recipients'
      /\ ~raced /\ cipher' = cipher /\ told' = told
  BY NewIsWho DEF AppendRecipient, Appended
<1>2. /\ Keeps(t, "tell") /\ Others(t) /\ proc'[t].seen = proc[t].seen
      /\ proc[t].op = "enroll" /\ proc[t].pc = "append"
  BY Moving, MovesTyped
<1>3. TellingThen(Who(proc[t]))
  BY <1>2 DEF TellingThen, Keeps
<1>4. ASSUME NEW id, Telling(id) PROVE TellingThen(id)
  <2>1. PICK u \in Terminal : proc[u].pc = "tell" /\ Who(proc[u]) = id
    BY <1>4 DEF Telling
  <2>2. u # t
    BY <1>2, <2>1
  <2> QED BY <1>2, <2>1, <2>2 DEF TellingThen, Others, Same
<1>5. proc[t].seen \subseteq recipients
  BY <1>1 DEF ToldInv
<1>6. \A u \in Terminal : proc'[u].seen \subseteq recipients'
  BY <1>1, <1>2 DEF ToldInv, Others, Same
<1>7. ASSUME NEW u \in Terminal, proc'[u].op = "encrypt", NEW id \in recipients' \ told'
      PROVE  id \in proc'[u].seen \/ TellingThen(id)
  <2>1. u # t
    BY <1>2, <1>7 DEF Keeps
  <2> QED BY <1>1, <1>2, <1>3, <1>4, <1>5, <1>7, <2>1 DEF ToldInv, Others, Same
<1>8. ASSUME NEW f \in File, cipher'[f] # {}, NEW id \in recipients' \ told'
      PROVE  id \in cipher'[f] \/ TellingThen(id)
  BY <1>1, <1>3, <1>4, <1>5, <1>8 DEF ToldInv
<1> QED BY <1>6, <1>7, <1>8, ToldNext

\* An enrolment that tells nothing finds no ciphertext, and no encryption is running.
LEMMA ToldTell ==
    ASSUME TypeInv, Mates, ToldInv, NEW t \in Terminal, Tell(t)
    PROVE  ToldInv'
<1>1. /\ Others(t) /\ proc'[t].op = "none" /\ proc'[t].seen = {}
      /\ proc[t].op = "enroll" /\ proc[t].pc = "tell"
      /\ UNCHANGED <<recipients, cipher, raced>>
  BY Ending, EndsDoes DEF Tell, At, files
<1>2. told' = IF HasCiphertext(Serial(t)) \/ "encrypt" \in proc[t].beside
              THEN told \cup {Who(proc[t])} ELSE told
  BY NewIsWho DEF Tell
<1>3. CASE HasCiphertext(Serial(t)) \/ "encrypt" \in proc[t].beside
  BY <1>1, <1>2, <1>3, ToldStep
<1>4. CASE ~HasCiphertext(Serial(t)) /\ "encrypt" \notin proc[t].beside
  <2>1. \A f \in File : cipher'[f] = {}
    BY <1>1, <1>4 DEF HasCiphertext
  <2>2. \A u \in Terminal : proc'[u].op # "encrypt"
    BY <1>1, <1>4 DEF Mates, Others, Same
  <2>3. raced' \/ \A u \in Terminal : proc'[u].seen \subseteq recipients'
    BY <1>1 DEF ToldInv, Others, Same
  <2> QED BY <2>1, <2>2, <2>3, ToldNext
<1> QED BY <1>3, <1>4

LEMMA ToldRemove ==
    ASSUME TypeInv, ToldInv, NEW k \in Key, UserRemovesKey(k)
    PROVE  ToldInv'
<1>1. /\ proc' = proc /\ recipients' \subseteq recipients
      /\ UNCHANGED <<cipher, told, raced>>
  BY DEF UserRemovesKey
<1>2. \A u \in Terminal : proc[u].seen = {} /\ proc[u].op = "none" /\ proc[u].pc = "idle"
  BY NobodyRuns, IdleTyped DEF UserRemovesKey
<1>3. \A id : ~Telling(id)
  BY <1>2 DEF Telling
<1>4. raced' \/ \A f \in File : cipher'[f] # {} => \A id \in recipients' \ told' : id \in cipher'[f]
  BY <1>1, <1>3 DEF ToldInv
<1> QED BY <1>1, <1>2, <1>4, ToldNext

LEMMA ToldKept ==
    ASSUME TypeInv, Mates, ToldInv, [Next]_vars
    PROVE  ToldInv'
<1>1. ASSUME NEW t \in Terminal, Others(t), UNCHANGED <<recipients, cipher, told, raced>>,
             proc'[t].seen \subseteq proc[t].seen \cup recipients,
             proc'[t].op # "encrypt", proc[t].pc # "tell"
      PROVE  ToldInv'
  BY <1>1, ToldStep
<1>2. ASSUME NEW t \in Terminal, NEW r, Beginning(t, r) PROVE ToldInv'
  <2>1. /\ r.seen \subseteq recipients /\ (r.op = "encrypt" => r.seen = recipients)
    BY <1>2, BeginningRecord
  <2>2. /\ UNCHANGED <<recipients, cipher, told, raced>> /\ proc[t].pc = "idle"
        /\ proc'[t].op = r.op /\ proc'[t].seen = r.seen
    BY <1>2, BeginningDoes, IdleTyped
  <2> QED BY <1>2, <2>1, <2>2, BeginningOthers, ToldStep
<1>3. ASSUME NEW t \in Terminal, ScaffoldPiece(t) PROVE ToldInv'
  BY <1>1, <1>3, ScaffoldDoes DEF ScaffoldPiece, Keeps, files, history
<1>4. ASSUME NEW t \in Terminal, EndInit(t) PROVE ToldInv'
  <2>1. proc[t].pc = "complete" /\ UNCHANGED <<recipients, cipher, told, raced>>
    BY <1>4 DEF EndInit, At, files
  <2> QED BY <1>1, <1>4, <2>1, Ending, EndsDoes
<1>5. ASSUME NEW t \in Terminal, Generate(t) \/ WriteStub(t) \/ EndRekey(t) PROVE ToldInv'
  <2>1. UNCHANGED <<recipients, cipher, told, raced>>
    BY <1>5 DEF Generate, WriteStub, EndRekey, files, history
  <2>2. PICK pc : Moves(t, pc) /\ proc[t].pc # "tell" /\ proc[t].op # "encrypt"
    BY <1>5, Moving DEF EndRekey, At
  <2>3. Others(t) /\ proc'[t].op # "encrypt" /\ proc'[t].seen = proc[t].seen
    BY <2>2, MovesTyped DEF Keeps
  <2> QED BY <1>1, <2>1, <2>2, <2>3
<1>6. ASSUME NEW t \in Terminal, ReadRecipients(t) PROVE ToldInv'
  BY <1>1, <1>6, ReadDoes DEF ReadRecipients, Keeps, files, history
<1>7. ASSUME NEW t \in Terminal, AppendRecipient(t) PROVE ToldInv'
  BY <1>7, ToldAppend
<1>8. ASSUME NEW t \in Terminal, Tell(t) PROVE ToldInv'
  BY <1>8, ToldTell
<1>9. ASSUME NEW t \in Terminal, Store(t) PROVE ToldInv'
  <2>1. /\ proc[t].op = "encrypt" /\ proc[t].pc # "tell" /\ UNCHANGED <<recipients, told, raced>>
        /\ \A f \in File : cipher'[f] \in {cipher[f], proc[t].seen}
    BY <1>9 DEF Store, At, history
  <2> QED BY <1>9, <2>1, Ending, EndsDoes, ToldStep
<1>10. ASSUME NEW t \in Terminal, NEW f \in File, RekeyFile(t, f) PROVE ToldInv'
  <2>1. /\ UNCHANGED <<recipients, told, raced>>
        /\ \A g \in File : cipher'[g] \in {cipher[g], recipients}
    BY <1>10, RekeyDoes DEF RekeyFile, TypeInv, TypeOK, history
  <2> QED BY <1>10, <2>1, RekeyDoes, ToldStep DEF Keeps
<1>11. ASSUME NEW t \in Terminal, Stop(t) PROVE ToldInv'
  <2>1. UNCHANGED <<recipients, cipher, raced>>
    BY <1>11 DEF Stop, files
  <2>2. told \subseteq told' /\ (proc[t].pc = "tell" => Who(proc[t]) \in told')
    BY <1>11, NewIsWho DEF Stop
  <2> QED BY <1>11, <2>1, <2>2, Ending, EndsDoes, ToldStep
<1>12. ASSUME NEW k \in Key, UserRemovesKey(k) PROVE ToldInv'
  BY <1>12, ToldRemove
<1>13. CASE UNCHANGED <<recipients, cipher, proc, told, raced>>
  BY <1>13, ToldNext DEF ToldInv, Telling, TellingThen
<1> QED
  BY <1>2, <1>3, <1>4, <1>5, <1>6, <1>7, <1>8, <1>9, <1>10, <1>11, <1>12, <1>13
  DEF Next, Beginning, vars, files, UserCommitsPlain

LEMMA ToldSays == ASSUME TypeInv, ToldInv PROVE UnknownToldOf
<1>1. \A t \in Terminal : proc[t].pc = "tell" => At(t, "enroll", "tell") /\ New(t) = Who(proc[t])
  BY NewIsWho DEF TypeInv, ProcInv, Shape, Enrolling, At
<1> QED BY <1>1 DEF ToldInv, UnknownToldOf, Telling

-----------------------------------------------------------------------------
\* A rekey with no enrolment or encryption beside it: what it has done stays done.

RekeyInv ==
    \A t \in Terminal :
        proc[t].op = "rekey" /\ proc[t].beside \cap {"enroll", "encrypt"} = {} =>
            \A f \in File : cipher[f] # {} /\ f \notin proc[t].todo => cipher[f] = recipients

LEMMA RekeyStep ==
    ASSUME RekeyInv, NEW t \in Terminal, Others(t), recipients' = recipients,
           \A f \in File : cipher'[f] \in {cipher[f], recipients},
           \/ proc'[t].op # "rekey"
           \/ \A f \in File : f \notin proc'[t].todo => cipher'[f] = {}
           \/ /\ proc[t].op = "rekey" /\ proc'[t].beside = proc[t].beside
              /\ \A f \in File : f \notin proc'[t].todo =>
                    f \notin proc[t].todo \/ cipher'[f] = recipients
    PROVE  RekeyInv'
BY DEF RekeyInv, Others, Same

\* Beside a writer of recipients or ciphertexts, every rekey knows of it.
LEMMA RekeyWrites ==
    ASSUME TypeInv, Mates, NEW t \in Terminal, Others(t),
           proc[t].op \in {"enroll", "encrypt"}, proc'[t].op # "rekey"
    PROVE  RekeyInv'
<1>1. ASSUME NEW u \in Terminal, proc'[u].op = "rekey"
      PROVE  proc[t].op \in proc'[u].beside
  BY <1>1 DEF Mates, Others, Same
<1> QED BY <1>1 DEF RekeyInv

LEMMA RekeyKept ==
    ASSUME TypeInv, Mates, RekeyInv, [Next]_vars
    PROVE  RekeyInv'
<1>1. ASSUME NEW t \in Terminal, NEW r, Beginning(t, r) PROVE RekeyInv'
  <2>1. r.op = "rekey" => \A f \in File : cipher[f] # {} => f \in r.todo
    BY <1>1, BeginningRecord
  <2>2. /\ UNCHANGED <<recipients, cipher>>
        /\ proc'[t].op = r.op /\ proc'[t].todo = r.todo
    BY <1>1, BeginningDoes
  <2> QED BY <1>1, <2>1, <2>2, BeginningOthers, RekeyStep
<1>2. ASSUME NEW t \in Terminal, ScaffoldPiece(t) PROVE RekeyInv'
  BY <1>2, ScaffoldDoes, RekeyStep DEF ScaffoldPiece, Keeps, files
<1>3. ASSUME NEW t \in Terminal, EndInit(t) \/ Tell(t) \/ Stop(t) PROVE RekeyInv'
  <2>1. UNCHANGED <<recipients, cipher>>
    BY <1>3 DEF EndInit, Tell, Stop, files
  <2> QED BY <1>3, <2>1, Ending, EndsDoes, RekeyStep
<1>4. ASSUME NEW t \in Terminal,
             Generate(t) \/ WriteStub(t) \/ ReadRecipients(t) \/ AppendRecipient(t)
      PROVE  RekeyInv'
  <2>1. Others(t) /\ proc[t].op = "enroll" /\ proc'[t].op = "enroll"
    BY <1>4, Moving, MovesTyped, ReadDoes DEF Keeps
  <2> QED BY <2>1, RekeyWrites
<1>5. ASSUME NEW t \in Terminal, Store(t) PROVE RekeyInv'
  <2>1. Others(t) /\ proc[t].op = "encrypt" /\ proc'[t].op = "none"
    BY <1>5, Ending, EndsDoes DEF Store, At
  <2> QED BY <2>1, RekeyWrites
<1>6. ASSUME NEW t \in Terminal, NEW f \in File, RekeyFile(t, f) PROVE RekeyInv'
  <2>1. /\ recipients' = recipients /\ proc[t].op = "rekey"
        /\ cipher'[f] = recipients /\ \A g \in File : cipher'[g] \in {cipher[g], recipients}
        /\ proc'[t].todo = proc[t].todo \ {f} /\ proc'[t].beside = proc[t].beside /\ Others(t)
    BY <1>6, RekeyDoes DEF RekeyFile, TypeInv, TypeOK, Keeps
  <2> QED BY <2>1, RekeyStep
<1>7. ASSUME NEW t \in Terminal, EndRekey(t) PROVE RekeyInv'
  <2>1. UNCHANGED <<recipients, cipher>>
    BY <1>7 DEF EndRekey, files
  <2> QED BY <1>7, <2>1, Moving, MovesTyped, RekeyStep DEF Keeps
<1>8. ASSUME NEW k \in Key, UserRemovesKey(k) PROVE RekeyInv'
  <2>1. \A u \in Terminal : proc'[u].op = "none"
    BY <1>8, NobodyRuns, IdleTyped DEF UserRemovesKey
  <2> QED BY <2>1 DEF RekeyInv
<1>9. CASE UNCHANGED <<recipients, cipher, proc>>
  BY <1>9 DEF RekeyInv
<1> QED
  BY <1>1, <1>2, <1>3, <1>4, <1>5, <1>6, <1>7, <1>8, <1>9
  DEF Next, Beginning, vars, files, UserCommitsPlain

LEMMA RekeySays == ASSUME TypeInv, TokenInv, RekeyInv PROVE RekeyComplete
<1> SUFFICES ASSUME NEW t \in Terminal, proc[t].pc = "done",
                    proc[t].beside \cap {"enroll", "encrypt"} = {},
                    NEW f \in File, cipher[f] # {}
             PROVE  cipher[f] = recipients /\ cipher[f] \cap departed = {}
  BY DEF RekeyComplete
<1>1. proc[t].op = "rekey" /\ proc[t].todo = {}
  BY DEF TypeInv, ProcInv, Shape
<1>2. cipher[f] = recipients
  BY <1>1 DEF RekeyInv
<1> QED BY <1>2 DEF TokenInv

-----------------------------------------------------------------------------
\* The inductive invariant, and what it gives.

IInv ==
    /\ TypeInv /\ Mates /\ HeldInv /\ GuardInv
    /\ FormInv /\ TokenInv /\ EnrolledInv /\ ToldInv /\ RekeyInv

LEMMA InitHolds == Init => IInv
<1> SUFFICES ASSUME Init PROVE IInv
  OBVIOUS
<1>1. TypeInv
  BY InitTyped
<1>2. \A t \in Terminal : proc[t] = Idle
  BY DEF Init
<1>3. Mates /\ GuardInv /\ EnrolledInv /\ RekeyInv
  BY <1>2, IdleTyped DEF Init, Mates, GuardInv, EnrolledInv, RekeyInv
<1>4. HeldInv /\ TokenInv /\ ToldInv
  BY <1>2, IdleTyped DEF Init, HeldInv, TokenInv, ToldInv
<1>5. FormInv
  BY <1>2, IdleTyped DEF Init, FormInv, StubbedUnlisted
<1> QED BY <1>1, <1>3, <1>4, <1>5 DEF IInv

LEMMA NextHolds == IInv /\ [Next]_vars => IInv'
<1> SUFFICES ASSUME IInv, [Next]_vars PROVE IInv'
  OBVIOUS
<1>1. TypeInv' /\ Mates' /\ HeldInv' /\ GuardInv'
  BY NextTyped, MatesKept, HeldKept, GuardKept DEF IInv
<1>2. FormInv' /\ TokenInv'
  BY FormKept, TokenKept DEF IInv
<1>3. EnrolledInv' /\ ToldInv' /\ RekeyInv'
  BY EnrolledKept, ToldKept, RekeyKept DEF IInv
<1> QED BY <1>1, <1>2, <1>3 DEF IInv

\* For any keys, slots, entries and terminals, however commands interleave and
\* wherever they are cut: every ciphertext opens with some key's stub, unless a second
\* slot of the same key replaced it.
THEOREM AlwaysOpens == Spec => []CiphertextOpens
<1>1. IInv => CiphertextOpens
  BY HeldOpens DEF IInv
<1> QED BY <1>1, InitHolds, NextHolds, PTL DEF Spec

\* What enroll, verify and rekey tell the user is so, and they tell what the user has
\* to know.
THEOREM AlwaysTrue == Spec => []ReportsTrue
<1>1. IInv => ReportsTrue
  BY EnrolledTold, FormSound, ToldSays, RekeySays DEF IInv, ReportsTrue
<1> QED BY <1>1, InitHolds, NextHolds, PTL DEF Spec

\* Once private init completed on a machine, the hook keeps plaintext out of commits,
\* unless the repository had a pre-commit hook of its own, which stays.
THEOREM AlwaysGuarded == Spec => []CommitsGuarded
<1>1. IInv => CommitsGuarded
  BY DEF IInv, GuardInv, CommitsGuarded
<1> QED BY <1>1, InitHolds, NextHolds, PTL DEF Spec

=============================================================================
