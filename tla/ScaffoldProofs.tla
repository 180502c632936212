--------------------------- MODULE ScaffoldProofs ---------------------------
(* Proofs about Scaffold, for any profiles, any questions, any invocations    *)
(* and any number of runs, deaths and pulls.                                  *)
EXTENDS Scaffold, TLAPS

-----------------------------------------------------------------------------
\* The inductive invariant.

Command == [pc: Pc, who: Profile \cup {NoProfile}, at: Profile \cup {NoProfile}, answers: Answers,
            stamp: 0 .. 2, pruned: SUBSET Question, from: Profile \cup {NoProfile},
            dangled: SUBSET HomeRender, quiet: SUBSET Document]

TypeInv == TypeOK /\ run \in Command

Migrating == {"dissolve", "merge", "forget"}
Stamped == {"seed", "lock", "render", "prune", "save"}
Rendering == Stamped \cup {"compose", "link", "heal", "activate"}

\* Where the run is, and what it has there.
Placed ==
    /\ run.pc = "idle" => run = Idle
    /\ run.pc # "idle" => run.who \in Profile /\ pending = run.who
    /\ run.pc \in Migrating => run.at \in DOMAIN current
    /\ run.pc \notin Migrating => run.at = NoProfile
    /\ run.pc \in Rendering => run.who \in DOMAIN current
    /\ run.pc \in {"prune", "save", "compose"} => current[run.who].config # {}
    /\ active # NoProfile => active \in DOMAIN current
    /\ run.pc \in {"heal", "activate"} => active = run.who

\* What lies in the legacy places is as an older release left it, and is gone
\* once a run has migrated it.
Legacy ==
    /\ \A p \in DOMAIN legacy : legacy[p] \in StartDirs
    /\ DOMAIN legacy # {} => legacyDir
    /\ run.pc \in {"tree", "meta"} \cup Rendering => ~legacyDir
    /\ run.pc \in {"meta"} \cup Rendering => ~stow

\* A directory that is being migrated carries one document, or twice the same.
OneDocument ==
    /\ run.pc \in {"dissolve", "merge"} => current[run.at].meta = {} \/ current[run.at].old = {}
    /\ run.pc = "forget" => current[run.at].old = {} \/ current[run.at].meta = current[run.at].old
    /\ \A p \in Profile : \A one, other \in truth[p] : one = other

\* The creation time the run will write is the one the profile has.
StampRight ==
    run.pc \in Stamped /\ current[run.who].created # 0 => run.stamp = current[run.who].created

\* A quiet run answers what the document it is to reuse answers.
QuietRight ==
    \A doc \in run.quiet : \A q \in DOMAIN doc : doc[q] # "nil" /\ q \in Question /\ run.answers[q] = doc[q]

\* A profile in the current layout is dissolved, unless it is being migrated or
\* a run was cut at it.
Dissolved ==
    /\ \A p \in DOMAIN current \ cut :
           p # run.at => current[p].layer = "none" /\ current[p].old = {}
    /\ run.pc \in {"merge", "forget"} => current[run.at].layer = "none"

\* What dangles in $HOME for the profile that stays active did before, or is
\* what this run pruned; and in the end did before.
Healing ==
    run.pc # "idle" /\ run.from = run.who =>
        /\ run.who \in DOMAIN current
        /\ run.at # run.who
        /\ site \ current[run.who].files \subseteq run.dangled \cup run.pruned
        /\ run.pc = "activate" => site \ current[run.who].files \subseteq run.dangled

IInv ==
    /\ TypeInv /\ Placed /\ Legacy /\ OneDocument /\ AnswersKept /\ PackagesKept
    /\ StampRight /\ QuietRight /\ Dissolved /\ Healing

-----------------------------------------------------------------------------
\* The interview.

LEMMA DocumentTyped ==
    ASSUME NEW doc \in Document
    PROVE  doc = [q \in DOMAIN doc |-> doc[q]] /\ DOMAIN doc \subseteq Question
           /\ \A q \in DOMAIN doc : doc[q] \in Reply
BY DEF Document

\* What is loaded from a document answers every question.
LEMMA LoadTyped ==
    ASSUME NEW doc, DOMAIN doc \subseteq Question, \A q \in DOMAIN doc : doc[q] \in Reply
    PROVE  /\ Load(doc) \in Answers
           /\ \A q \in DOMAIN doc : Load(doc)[q] = doc[q]
<1>1. \A q \in Question : /\ Load(doc)[q] \in Reply \cup {"nil"}
                          /\ q \notin ListQuestion => Load(doc)[q] # "nil"
  BY DEF Load, Zero, Reply
<1>2. Load(doc) \in [Question -> Reply \cup {"nil"}]
  BY <1>1 DEF Load
<1> QED BY <1>1, <1>2 DEF Answers, Load

LEMMA PassedTyped ==
    ASSUME NEW r \in Runs, NEW a \in Answers
    PROVE  /\ Passed(r.flags, a) \in Answers
           /\ DOMAIN r.flags = {} => Passed(r.flags, a) = a
<1>1. /\ r \in [yes: BOOLEAN, interactive: BOOLEAN, flags: Document, reply: [Question -> Reply]]
      /\ a \in [Question -> Reply \cup {"nil"}]
      /\ \A q \in Question \ ListQuestion : a[q] # "nil"
  BY RunsAssumption DEF Answers
<1>2. \A q \in DOMAIN r.flags : r.flags[q] \in Reply
  BY <1>1, DocumentTyped
<1>3. \A q \in Question : /\ Passed(r.flags, a)[q] \in Reply \cup {"nil"}
                          /\ q \notin ListQuestion => Passed(r.flags, a)[q] # "nil"
                          /\ q \notin DOMAIN r.flags => Passed(r.flags, a)[q] = a[q]
  BY <1>1, <1>2 DEF Passed, Reply
<1>4. Passed(r.flags, a) \in [Question -> Reply \cup {"nil"}]
  BY <1>3 DEF Passed
<1>5. ASSUME DOMAIN r.flags = {} PROVE Passed(r.flags, a) = a
  BY <1>1, <1>5 DEF Passed
<1> QED BY <1>3, <1>4, <1>5 DEF Answers

\* A round of questions answers them all, and asks none of those a quiet run's
\* document answers.
LEMMA AnsweredTyped ==
    ASSUME NEW r \in Runs, NEW a \in Answers, NEW qs, NEW known
    PROVE  /\ Answered(qs, a, known, r) \in Answers
           /\ r.yes => \A q \in Question \cap known :
                          a[q] # "nil" => Answered(qs, a, known, r)[q] = a[q]
<1>1. /\ r.reply \in [Question -> Reply]
      /\ a \in [Question -> Reply \cup {"nil"}]
      /\ \A q \in Question \ ListQuestion : a[q] # "nil"
  BY RunsAssumption DEF Answers
<1>2. \A q \in Question : /\ Settle(q, a[q]) \in Reply \cup {"nil"}
                          /\ a[q] # "nil" => Settle(q, a[q]) = a[q]
  BY <1>1 DEF Settle, Reply
<1>3. \A q \in Question : /\ Answered(qs, a, known, r)[q] \in Reply \cup {"nil"}
                          /\ q \notin ListQuestion => Answered(qs, a, known, r)[q] # "nil"
  BY <1>1, <1>2 DEF Answered, Reply
<1>4. Answered(qs, a, known, r) \in [Question -> Reply \cup {"nil"}]
  BY <1>3 DEF Answered
<1>5. ASSUME r.yes, NEW q \in Question \cap known, a[q] # "nil"
      PROVE  Answered(qs, a, known, r)[q] = a[q]
  <2>1. ~Asked(q, a, known, r)
    BY <1>5 DEF Asked
  <2> QED BY <2>1, <1>2, <1>5 DEF Answered
<1> QED BY <1>3, <1>4, <1>5 DEF Answers

\* The interview answers every question; a quiet run without flags as its
\* document did.
LEMMA CollectTyped ==
    ASSUME NEW r \in Runs, NEW doc, DOMAIN doc \subseteq Question,
           \A q \in DOMAIN doc : doc[q] \in Reply
    PROVE  /\ Collect(doc, r) \in Answers
           /\ r.yes /\ DOMAIN r.flags = {} =>
                \A q \in DOMAIN doc : Collect(doc, r)[q] = doc[q]
<1> DEFINE alone == {q \in Question : DependsOn(q) = {}}
           loaded == Load(doc)
           passed == Passed(r.flags, loaded)
           first == Answered(alone, passed, DOMAIN doc, r)
           last == Answered(Question \ alone, first, DOMAIN doc, r)
<1>1. Collect(doc, r) = last
  BY DEF Collect
<1>2. loaded \in Answers /\ \A q \in DOMAIN doc : loaded[q] = doc[q]
  BY LoadTyped
<1> HIDE DEF loaded
<1>3. passed \in Answers /\ (DOMAIN r.flags = {} => passed = loaded)
  BY <1>2, PassedTyped
<1> HIDE DEF passed, alone
<1>4. /\ first \in Answers
      /\ r.yes => \A q \in Question \cap DOMAIN doc : passed[q] # "nil" => first[q] = passed[q]
  BY <1>3, AnsweredTyped
<1> HIDE DEF first
<1>5. /\ last \in Answers
      /\ r.yes => \A q \in Question \cap DOMAIN doc : first[q] # "nil" => last[q] = first[q]
  BY <1>4, AnsweredTyped
<1> HIDE DEF last
<1>6. \A q \in DOMAIN doc : doc[q] # "nil"
  BY DEF Reply
<1> QED BY <1>1, <1>2, <1>3, <1>4, <1>5, <1>6

\* What is saved is a document.
LEMMA SaveTyped ==
    ASSUME NEW a \in Answers
    PROVE  /\ Save(a) \in Document
           /\ \A q \in Question : a[q] # "nil" => q \in DOMAIN Save(a) /\ Save(a)[q] = a[q]
<1> DEFINE S == {r \in Question : a[r] # "nil"}
<1>1. a \in [Question -> Reply \cup {"nil"}]
  BY DEF Answers
<1>2. S \in SUBSET Question /\ \A q \in S : a[q] \in Reply
  BY <1>1
<1>3. Save(a) = [q \in S |-> a[q]]
  BY DEF Save
<1>4. Save(a) \in [S -> Reply]
  BY <1>2, <1>3
<1> QED BY <1>2, <1>3, <1>4 DEF Document

-----------------------------------------------------------------------------
\* What the steps have in common.

LEMMA IdleTyped == Idle \in Command /\ Idle.pc = "idle" /\ Idle.at = NoProfile /\ Idle.quiet = {}
<1>1. Load(<<>>) \in Answers
  BY LoadTyped
<1> QED BY <1>1 DEF Idle, Command, Pc

\* A run that moves on keeps everything but its program counter.
LEMMA GotoDoes ==
    ASSUME run \in Command, NEW pc \in Pc, Goto(pc)
    PROVE  /\ run' \in Command
           /\ run'.pc = pc /\ run'.who = run.who /\ run'.at = run.at /\ run'.answers = run.answers
           /\ run'.stamp = run.stamp /\ run'.pruned = run.pruned /\ run'.from = run.from
           /\ run'.dangled = run.dangled /\ run'.quiet = run.quiet
BY DEF Goto, Command

\* A write to a profile's directory is to that one only.
LEMMA SetDoes ==
    ASSUME NEW p \in DOMAIN current, NEW d \in Dir, Set(p, d), TypeOK
    PROVE  /\ DOMAIN current' = DOMAIN current
           /\ current'[p] = d
           /\ \A q \in DOMAIN current \ {p} : current'[q] = current[q]
           /\ \A q \in DOMAIN current' : current'[q] \in Dir
BY DEF Set, TypeOK

\* The answers are found as before when no directory changes its own.
LEMMA SameAnswers ==
    ASSUME AnswersKept, truth' = truth, legacy' = legacy, DOMAIN current \subseteq DOMAIN current',
           \A q \in DOMAIN current : AnswersOf(current'[q]) = AnswersOf(current[q]),
           \A q \in DOMAIN current' \ DOMAIN current : AnswersOf(current'[q]) = {}
    PROVE  AnswersKept'
<1> SUFFICES ASSUME NEW p \in Profile PROVE (RepoAnswers(p) = truth[p])'
  BY DEF AnswersKept
<1>1. RepoAnswers(p) = truth[p]
  BY DEF AnswersKept
<1> QED BY <1>1 DEF RepoAnswers, AnswersIn

\* So are the packages when no configuration loses one.
LEMMA SamePackages ==
    ASSUME PackagesKept, owned' = owned, DOMAIN current \subseteq DOMAIN current',
           \A q \in DOMAIN current : current[q].config \subseteq current'[q].config
    PROVE  PackagesKept'
<1>1. \A p \in Profile : Config(p) \subseteq Config(p)'
  BY DEF Config, Has
<1> QED BY <1>1 DEF PackagesKept

\* And when the one profile that gains packages has them all.
LEMMA MorePackages ==
    ASSUME PackagesKept, NEW p \in DOMAIN current, DOMAIN current' = DOMAIN current,
           \A q \in DOMAIN current \ {p} : current'[q] = current[q],
           \A q \in Profile \ {p} : owned'[q] = owned[q],
           \A k \in owned'[p] : \E c \in current'[p].config : k \in c
    PROVE  PackagesKept'
<1> SUFFICES ASSUME NEW q \in Profile, NEW k \in owned'[q] PROVE \E c \in Config(q)' : k \in c
  BY DEF PackagesKept
<1>1. CASE q = p
  BY <1>1 DEF Config, Has
<1>2. CASE q # p
  <2>1. Config(q)' = Config(q)
    BY <1>2 DEF Config, Has
  <2> QED BY <1>2, <2>1 DEF PackagesKept
<1> QED BY <1>1, <1>2

\* The parts of the invariant that a run which ends, by itself or by death, needs.
LEMMA IdleKeeps ==
    ASSUME IInv, run' = Idle, DOMAIN current' = DOMAIN current, UNCHANGED <<legacy, legacyDir, active, truth>>
    PROVE  /\ run' \in Command
           /\ Placed' /\ Legacy' /\ OneDocument' /\ StampRight' /\ QuietRight' /\ Healing'
<1>1. run' \in Command /\ run'.pc = "idle" /\ run'.at = NoProfile /\ run'.quiet = {}
  BY IdleTyped
<1>2. Placed'
  BY <1>1 DEF IInv, Placed, Migrating, Rendering, Stamped
<1>3. Legacy'
  BY <1>1 DEF IInv, Legacy, Rendering, Stamped
<1>4. OneDocument' /\ StampRight' /\ QuietRight' /\ Healing'
  BY <1>1 DEF IInv, OneDocument, StampRight, QuietRight, Healing, Stamped
<1> QED BY <1>1, <1>2, <1>3, <1>4

\* The types of a step that leaves the trees, the machine and the history alone.
LEMMA TypeKeeps ==
    ASSUME TypeInv, run' \in Command, pending' \in Profile \cup {NoProfile},
           DOMAIN current' \subseteq Profile, \A p \in DOMAIN current' : current'[p] \in Dir,
           UNCHANGED <<tree, machine, history>>
    PROVE  TypeInv'
<1>1. /\ run'.who \in Profile \cup {NoProfile} /\ run'.at \in Profile \cup {NoProfile}
      /\ run'.pc \in Pc /\ run'.answers \in Answers
  BY DEF Command
<1>2. {active, pending, run.who, run.at}' \subseteq Profile \cup {NoProfile}
  BY <1>1 DEF TypeInv, TypeOK, machine
<1>3. DOMAIN legacy' \subseteq Profile /\ \A p \in DOMAIN legacy' : legacy'[p] \in Dir
  BY DEF TypeInv, TypeOK, tree
<1>4. {legacyDir, stray, stow, home}' \subseteq BOOLEAN
  BY DEF TypeInv, TypeOK, tree
<1>5. /\ live' \in [kind: {"none", "dir", "link"}, pkgs: SUBSET Package, lock: BOOLEAN]
      /\ linked' \in [Profile -> {"none", "legacy", "current"}]
      /\ site' \subseteq HomeRender
      /\ truth' \in [Profile -> SUBSET Document] /\ owned' \in [Profile -> SUBSET Package]
      /\ cut' \subseteq Profile
  BY DEF TypeInv, TypeOK, machine, history
<1> QED BY <1>1, <1>2, <1>3, <1>4, <1>5 DEF TypeInv, TypeOK

-----------------------------------------------------------------------------
\* Each step keeps the invariant.

\* The look-up finds documents, and the repository's when init runs in it or
\* the link leads there.
LEMMA LooksUp ==
    ASSUME IInv, NEW p \in Profile, NEW inside \in BOOLEAN
    PROVE  /\ PreviousAnswers(p, inside) \in SUBSET Document
           /\ (inside \/ Leads(p)) /\ RepoAnswers(p) # {} =>
                PreviousAnswers(p, inside) = RepoAnswers(p)
<1>1. RepoAnswers(p) \in SUBSET Document
  BY DEF IInv, AnswersKept, TypeInv, TypeOK
<1>2. /\ \A q \in DOMAIN current : AnswersOf(current[q]) \in SUBSET Document
      /\ \A q \in DOMAIN legacy : AnswersOf(legacy[q]) \in SUBSET Document
  BY DEF IInv, TypeInv, TypeOK, Dir, AnswersOf
<1>3. LinkedAnswers(p) \in SUBSET Document
  BY <1>2 DEF LinkedAnswers
<1>4. Leads(p) /\ RepoAnswers(p) # {} => LinkedAnswers(p) = RepoAnswers(p)
  BY DEF Leads, LinkedAnswers, RepoAnswers, AnswersIn
<1> QED BY <1>1, <1>3, <1>4 DEF PreviousAnswers

LEMMA BeginKeeps ==
    ASSUME IInv, NEW p \in Profile, NEW r \in Runs, NEW inside \in BOOLEAN, run = Idle,
           Begin(p, r, inside)
    PROVE  IInv'
<1> DEFINE doc == PreviousAnswers(p, inside)
           repo == RepoAnswers(p)
           prev == IF doc = {} THEN <<>> ELSE CHOOSE d \in doc : TRUE
           reuses == r.yes /\ DOMAIN r.flags = {} /\ (inside \/ Leads(p))
           quiet == IF reuses THEN repo ELSE {}
           new == Collect(prev, r)
           dangled == Dangling
<1>1. /\ doc \in SUBSET Document
      /\ reuses /\ repo # {} => doc = repo
      /\ repo \in SUBSET Document /\ \A one, other \in repo : one = other
  BY LooksUp DEF IInv, AnswersKept, OneDocument, TypeInv, TypeOK
<1>2. /\ run' = [Idle EXCEPT !.pc = "layout", !.who = p, !.answers = new,
                             !.from = active, !.dangled = dangled, !.quiet = quiet]
      /\ pending' = p
      /\ UNCHANGED <<tree, current, machine, truth, owned, cut>>
  BY DEF Begin
<1> HIDE DEF doc, repo
<1>3. DOMAIN prev \subseteq Question /\ \A q \in DOMAIN prev : prev[q] \in Reply
  BY <1>1, DocumentTyped
<1>4. doc # {} => prev \in doc
  OBVIOUS
<1> HIDE DEF prev
<1>5. /\ new \in Answers
      /\ r.yes /\ DOMAIN r.flags = {} => \A q \in DOMAIN prev : new[q] = prev[q]
  BY <1>3, CollectTyped
<1> HIDE DEF new
<1>6. quiet \in SUBSET Document /\ \A d \in quiet : /\ d = prev /\ r.yes /\ DOMAIN r.flags = {}
  BY <1>1, <1>4
<1> HIDE DEF quiet
<1>7. /\ dangled \in SUBSET HomeRender
      /\ active \in DOMAIN current => dangled = site \ current[active].files
  BY DEF IInv, TypeInv, TypeOK, Dangling
<1> HIDE DEF dangled
<1>8. /\ run' \in Command
      /\ run'.pc = "layout" /\ run'.who = p /\ run'.at = NoProfile /\ run'.answers = new
      /\ run'.from = active /\ run'.dangled = dangled /\ run'.quiet = quiet /\ run'.pruned = {}
  <2>1. active \in Profile \cup {NoProfile}
    BY DEF IInv, TypeInv, TypeOK
  <2> QED BY <1>2, <1>5, <1>6, <1>7, <2>1, IdleTyped DEF Command, Idle, Pc
<1>9. TypeInv'
  <2>1. DOMAIN current' \subseteq Profile /\ \A q \in DOMAIN current' : current'[q] \in Dir
    BY <1>2 DEF IInv, TypeInv, TypeOK
  <2> QED BY <1>2, <1>8, <2>1, TypeKeeps DEF IInv, history
<1>10. Placed'
  BY <1>2, <1>8 DEF IInv, Placed, Migrating, Rendering, Stamped, machine
<1>11. Legacy' /\ OneDocument'
  BY <1>2, <1>8, IdleTyped DEF IInv, Legacy, OneDocument, Rendering, Stamped, tree
<1>12. AnswersKept' /\ PackagesKept'
  BY <1>2, SameAnswers, SamePackages DEF IInv, tree
<1>13. StampRight' /\ Dissolved'
  BY <1>2, <1>8, IdleTyped DEF IInv, StampRight, Dissolved, Stamped
<1>14. QuietRight'
  <2> SUFFICES ASSUME NEW d \in quiet, NEW q \in DOMAIN d
               PROVE  d[q] # "nil" /\ q \in Question /\ new[q] = d[q]
    BY <1>8 DEF QuietRight
  <2> QED BY <1>3, <1>5, <1>6 DEF Reply
<1>15. Healing'
  <2>1. active = p => p \in DOMAIN current
    BY NoProfileAssumption DEF IInv, Placed
  <2> QED BY <1>2, <1>7, <1>8, <2>1, NoProfileAssumption DEF Healing, machine
<1> QED BY <1>9, <1>10, <1>11, <1>12, <1>13, <1>14, <1>15 DEF IInv

LEMMA FindLayoutKeeps == ASSUME IInv, FindLayout PROVE IInv'
<1> DEFINE pc == IF legacyDir THEN "lift" ELSE "tree"
<1>1. pc \in Pc /\ Goto(pc) /\ run.pc = "layout"
      /\ UNCHANGED <<tree, current, machine, pending, count, history>>
  BY DEF FindLayout, Pc
<1>2. pc = "tree" => ~legacyDir
  OBVIOUS
<1>3. pc \in {"lift", "tree"}
  OBVIOUS
<1> HIDE DEF pc
<1>4. /\ run' \in Command
      /\ run'.pc = pc /\ run'.who = run.who /\ run'.at = run.at /\ run'.answers = run.answers
      /\ run'.stamp = run.stamp /\ run'.pruned = run.pruned /\ run'.from = run.from
      /\ run'.dangled = run.dangled /\ run'.quiet = run.quiet
  BY <1>1, GotoDoes DEF IInv, TypeInv
<1>5. TypeInv'
  BY <1>1, <1>4, TypeKeeps DEF IInv, TypeInv, TypeOK
<1>6. Placed'
  BY <1>1, <1>3, <1>4 DEF IInv, Placed, Migrating, Rendering, Stamped, machine
<1>7. Legacy' /\ OneDocument' /\ StampRight' /\ QuietRight' /\ Dissolved' /\ Healing'
  BY <1>1, <1>2, <1>3, <1>4 DEF IInv, Legacy, OneDocument, StampRight, QuietRight, Dissolved, Healing,
                                Rendering, Stamped, tree, machine, history
<1>8. AnswersKept' /\ PackagesKept'
  BY <1>1, SameAnswers, SamePackages DEF IInv, tree, history
<1> QED BY <1>5, <1>6, <1>7, <1>8 DEF IInv

\* A profile is lifted as it was, answers and all.
LEMMA LiftKeeps == ASSUME IInv, NEW p \in Profile, Lift(p) PROVE IInv'
<1>1. /\ run.pc = "lift" /\ p \in DOMAIN legacy /\ p \notin DOMAIN current
      /\ UNCHANGED <<legacyDir, stray, stow, home, machine, pending, count, history>>
  BY DEF Lift
<1>2. /\ DOMAIN legacy' = DOMAIN legacy \ {p}
      /\ \A q \in DOMAIN legacy \ {p} : legacy'[q] = legacy[q]
  BY DEF Lift, Without
<1>3. /\ DOMAIN current' = DOMAIN current \cup {p}
      /\ current'[p] = legacy[p]
      /\ \A q \in DOMAIN current : current'[q] = current[q]
  BY <1>1 DEF Lift
<1>4. legacy[p] \in StartDirs /\ legacy[p] \in Dir
  BY <1>1 DEF IInv, Legacy, TypeInv, TypeOK
<1>5. /\ run' \in Command
      /\ run'.pc = "dissolve" /\ run'.who = run.who /\ run'.at = p /\ run'.answers = run.answers
      /\ run'.stamp = run.stamp /\ run'.pruned = run.pruned /\ run'.from = run.from
      /\ run'.dangled = run.dangled /\ run'.quiet = run.quiet
  BY DEF Lift, IInv, TypeInv, Command, Pc
<1>6. TypeInv'
  <2>1. /\ DOMAIN current' \subseteq Profile /\ \A q \in DOMAIN current' : current'[q] \in Dir
        /\ DOMAIN legacy' \subseteq Profile /\ \A q \in DOMAIN legacy' : legacy'[q] \in Dir
    BY <1>2, <1>3, <1>4 DEF IInv, TypeInv, TypeOK
  <2>2. {legacyDir, stray, stow, home}' \subseteq BOOLEAN
    BY <1>1 DEF IInv, TypeInv, TypeOK
  <2>3. {active, pending, run.who, run.at}' \subseteq Profile \cup {NoProfile}
        /\ run'.pc \in Pc /\ run'.answers \in Answers
    BY <1>1, <1>5 DEF IInv, TypeInv, TypeOK, Command, machine
  <2>4. /\ live' \in [kind: {"none", "dir", "link"}, pkgs: SUBSET Package, lock: BOOLEAN]
        /\ linked' \in [Profile -> {"none", "legacy", "current"}]
        /\ site' \subseteq HomeRender
        /\ truth' \in [Profile -> SUBSET Document] /\ owned' \in [Profile -> SUBSET Package]
        /\ cut' \subseteq Profile
    BY <1>1 DEF IInv, TypeInv, TypeOK, machine, history
  <2> QED BY <1>5, <2>1, <2>2, <2>3, <2>4 DEF TypeInv, TypeOK
<1>7. Placed'
  BY <1>1, <1>3, <1>5 DEF IInv, Placed, Migrating, Rendering, Stamped, machine
<1>8. Legacy'
  BY <1>1, <1>2, <1>5 DEF IInv, Legacy, Rendering, Stamped
<1>9. OneDocument'
  BY <1>1, <1>3, <1>4, <1>5, StartAssumption DEF IInv, OneDocument, history
<1>10. AnswersKept'
  <2> SUFFICES ASSUME NEW q \in Profile PROVE (RepoAnswers(q) = truth[q])'
    BY DEF AnswersKept
  <2>1. RepoAnswers(q) = truth[q]
    BY DEF IInv, AnswersKept
  <2> QED BY <1>1, <1>2, <1>3, <2>1 DEF RepoAnswers, AnswersIn, history
<1>11. PackagesKept'
  <2>1. owned' = owned
    BY <1>1 DEF history
  <2> QED BY <1>3, <2>1, SamePackages DEF IInv
<1>12. StampRight' /\ QuietRight' /\ Dissolved'
  <2>1. StampRight' /\ QuietRight'
    BY <1>5 DEF IInv, StampRight, QuietRight, Stamped
  <2>2. \A q \in DOMAIN current \ cut : current[q].layer = "none" /\ current[q].old = {}
    BY <1>1, NoProfileAssumption DEF IInv, Dissolved, Placed, Migrating, TypeInv, TypeOK
  <2> QED BY <1>1, <1>3, <1>5, <2>1, <2>2 DEF Dissolved, history
<1>13. Healing'
  BY <1>1, <1>3, <1>5 DEF IInv, Healing, machine
<1> QED BY <1>6, <1>7, <1>8, <1>9, <1>10, <1>11, <1>12, <1>13 DEF IInv

\* What a write to the profile being migrated keeps, when it is neither of the
\* document nor of the packages.
LEMMA DissolveKeeps == ASSUME IInv, Dissolve PROVE IInv'
<1> DEFINE d == current[run.at]
<1>1. /\ run.pc = "dissolve" /\ run.at \in DOMAIN current /\ d \in Dir
      /\ UNCHANGED <<tree, machine, pending, count, history>>
  BY DEF Dissolve, IInv, Placed, Migrating, TypeInv, TypeOK
<1>2. \/ \E e \in Dir : /\ Set(run.at, e) /\ run' = run
                        /\ e.meta = d.meta /\ e.old = d.old /\ e.config = d.config
      \/ d.layer = "none" /\ Goto("merge") /\ UNCHANGED current
  <2>1. CASE d.layer = "tree"
    <3> DEFINE e == [d EXCEPT !.layer = "loose", !.files = d.inner, !.inner = {}]
    <3>1. Set(run.at, e) /\ run' = run
      BY <2>1 DEF Dissolve
    <3>2. e \in Dir /\ e.meta = d.meta /\ e.old = d.old /\ e.config = d.config
      BY <1>1 DEF Dir, Layer
    <3> HIDE DEF e, d
    <3> QED BY <3>1, <3>2
  <2>2. CASE d.layer = "loose"
    <3> DEFINE e == [d EXCEPT !.layer = "empty"]
    <3>1. Set(run.at, e) /\ run' = run
      BY <2>2 DEF Dissolve
    <3>2. e \in Dir /\ e.meta = d.meta /\ e.old = d.old /\ e.config = d.config
      BY <1>1 DEF Dir, Layer
    <3> HIDE DEF e, d
    <3> QED BY <3>1, <3>2
  <2>3. CASE d.layer = "empty"
    <3> DEFINE e == [d EXCEPT !.layer = "none"]
    <3>1. Set(run.at, e) /\ run' = run
      BY <2>3 DEF Dissolve
    <3>2. e \in Dir /\ e.meta = d.meta /\ e.old = d.old /\ e.config = d.config
      BY <1>1 DEF Dir, Layer
    <3> HIDE DEF e, d
    <3> QED BY <3>1, <3>2
  <2>4. CASE d.layer = "none"
    BY <2>4 DEF Dissolve
  <2>5. d.layer \in Layer
    BY <1>1 DEF Dir
  <2> QED BY <2>1, <2>2, <2>3, <2>4, <2>5 DEF Layer
<1>3. /\ run' \in Command /\ run'.pc \in {"dissolve", "merge"}
      /\ run'.who = run.who /\ run'.at = run.at /\ run'.answers = run.answers
      /\ run'.stamp = run.stamp /\ run'.pruned = run.pruned /\ run'.from = run.from
      /\ run'.dangled = run.dangled /\ run'.quiet = run.quiet
  BY <1>1, <1>2, GotoDoes DEF IInv, TypeInv, Pc
<1>4. /\ DOMAIN current' = DOMAIN current /\ current'[run.at] \in Dir
      /\ current'[run.at].meta = d.meta /\ current'[run.at].old = d.old
      /\ current'[run.at].config = d.config
      /\ \A q \in DOMAIN current \ {run.at} : current'[q] = current[q]
      /\ \A q \in DOMAIN current' : current'[q] \in Dir
      /\ run'.pc = "merge" => current'[run.at].layer = "none"
  <2>1. CASE \E e \in Dir : /\ Set(run.at, e) /\ run' = run
                            /\ e.meta = d.meta /\ e.old = d.old /\ e.config = d.config
    BY <1>1, <2>1, SetDoes DEF IInv, TypeInv
  <2>2. CASE d.layer = "none" /\ Goto("merge") /\ UNCHANGED current
    BY <1>1, <2>2 DEF IInv, TypeInv, TypeOK
  <2> QED BY <1>2, <2>1, <2>2
<1> HIDE DEF d
<1>5. TypeInv'
  BY <1>1, <1>3, <1>4, TypeKeeps DEF IInv, TypeInv, TypeOK
<1>6. Placed'
  BY <1>1, <1>3, <1>4 DEF IInv, Placed, Migrating, Rendering, Stamped, machine
<1>7. Legacy'
  BY <1>1, <1>3 DEF IInv, Legacy, Rendering, Stamped, tree
<1>8. OneDocument'
  BY <1>1, <1>3, <1>4 DEF IInv, OneDocument, history, d
<1>9. AnswersKept'
  <2>1. \A q \in DOMAIN current : AnswersOf(current'[q]) = AnswersOf(current[q])
    BY <1>4 DEF AnswersOf, d
  <2> QED BY <1>1, <1>4, <2>1, SameAnswers DEF IInv, tree, history
<1>10. PackagesKept'
  <2>1. \A q \in DOMAIN current : current[q].config \subseteq current'[q].config
    BY <1>4 DEF d
  <2>2. owned' = owned
    BY <1>1 DEF history
  <2> QED BY <1>4, <2>1, <2>2, SamePackages DEF IInv
<1>11. StampRight' /\ QuietRight'
  BY <1>3 DEF IInv, StampRight, QuietRight, Stamped
<1>12. Dissolved'
  BY <1>1, <1>3, <1>4 DEF IInv, Dissolved, history
<1>13. Healing'
  BY <1>1, <1>3, <1>4 DEF IInv, Healing, machine
<1> QED BY <1>5, <1>6, <1>7, <1>8, <1>9, <1>10, <1>11, <1>12, <1>13 DEF IInv

\* Merging a document is taking it over: no release wrote both.
LEMMA MergeDocumentsKeeps == ASSUME IInv, MergeDocuments PROVE IInv'
<1> DEFINE d == current[run.at]
           e == [d EXCEPT !.meta = IF d.meta = {} THEN d.old ELSE d.meta]
<1>1. /\ run.pc = "merge" /\ run.at \in DOMAIN current /\ d \in Dir
      /\ Goto("forget")
      /\ UNCHANGED <<tree, machine, pending, count, history>>
  BY DEF MergeDocuments, IInv, Placed, Migrating, TypeInv, TypeOK
<1>2. d.meta = {} \/ d.old = {}
  BY <1>1 DEF IInv, OneDocument
<1>3. Set(run.at, e)
  <2>1. d.meta # {} => d.old = {}
    BY <1>2
  <2>2. CASE d.meta = {}
    BY <2>2 DEF MergeDocuments
  <2>3. CASE d.meta # {}
    BY <2>1, <2>3 DEF MergeDocuments
  <2> QED BY <2>2, <2>3
<1>4. /\ e \in Dir /\ e.old = d.old /\ e.config = d.config /\ e.layer = d.layer
      /\ e.meta = IF d.meta = {} THEN d.old ELSE d.meta
  BY <1>1 DEF Dir
<1> HIDE DEF e
<1>5. /\ DOMAIN current' = DOMAIN current /\ current'[run.at] = e
      /\ \A q \in DOMAIN current \ {run.at} : current'[q] = current[q]
      /\ \A q \in DOMAIN current' : current'[q] \in Dir
  BY <1>1, <1>3, <1>4, SetDoes DEF IInv, TypeInv
<1>6. /\ run' \in Command
      /\ run'.pc = "forget" /\ run'.who = run.who /\ run'.at = run.at /\ run'.answers = run.answers
      /\ run'.stamp = run.stamp /\ run'.pruned = run.pruned /\ run'.from = run.from
      /\ run'.dangled = run.dangled /\ run'.quiet = run.quiet
  BY <1>1, GotoDoes DEF IInv, TypeInv, Pc
<1> HIDE DEF d
<1>7. TypeInv'
  BY <1>1, <1>5, <1>6, TypeKeeps DEF IInv, TypeInv, TypeOK
<1>8. Placed'
  BY <1>1, <1>5, <1>6 DEF IInv, Placed, Migrating, Rendering, Stamped, machine
<1>9. Legacy'
  BY <1>1, <1>6 DEF IInv, Legacy, Rendering, Stamped, tree
<1>10. OneDocument'
  BY <1>1, <1>2, <1>4, <1>5, <1>6 DEF IInv, OneDocument, history
<1>11. AnswersKept'
  <2>1. \A q \in DOMAIN current : AnswersOf(current'[q]) = AnswersOf(current[q])
    BY <1>4, <1>5 DEF AnswersOf, d
  <2> QED BY <1>1, <1>5, <2>1, SameAnswers DEF IInv, tree, history
<1>12. PackagesKept'
  <2>1. \A q \in DOMAIN current : current[q].config \subseteq current'[q].config
    BY <1>4, <1>5 DEF d
  <2>2. owned' = owned
    BY <1>1 DEF history
  <2> QED BY <1>5, <2>1, <2>2, SamePackages DEF IInv
<1>13. StampRight' /\ QuietRight'
  BY <1>6 DEF IInv, StampRight, QuietRight, Stamped
<1>14. Dissolved'
  BY <1>1, <1>4, <1>5, <1>6 DEF IInv, Dissolved, history, d
<1>15. Healing'
  BY <1>1, <1>5, <1>6 DEF IInv, Healing, machine
<1> QED BY <1>7, <1>8, <1>9, <1>10, <1>11, <1>12, <1>13, <1>14, <1>15 DEF IInv

\* The old document goes once the new one carries what it said.
LEMMA ForgetOldKeeps == ASSUME IInv, ForgetOld PROVE IInv'
<1> DEFINE d == current[run.at]
           e == [d EXCEPT !.old = {}]
<1>1. /\ run.pc = "forget" /\ run.at \in DOMAIN current /\ d \in Dir
      /\ Set(run.at, e)
      /\ UNCHANGED <<tree, machine, pending, count, history>>
  BY DEF ForgetOld, IInv, Placed, Migrating, TypeInv, TypeOK
<1>2. d.old = {} \/ d.meta = d.old
  BY <1>1 DEF IInv, OneDocument
<1>3. e \in Dir /\ e.old = {} /\ e.meta = d.meta /\ e.config = d.config /\ e.layer = d.layer
  BY <1>1 DEF Dir
<1>4. d.layer = "none"
  BY <1>1 DEF IInv, Dissolved
<1> HIDE DEF e
<1>5. /\ DOMAIN current' = DOMAIN current /\ current'[run.at] = e
      /\ \A q \in DOMAIN current \ {run.at} : current'[q] = current[q]
      /\ \A q \in DOMAIN current' : current'[q] \in Dir
  BY <1>1, <1>3, SetDoes DEF IInv, TypeInv
<1>6. /\ run' \in Command
      /\ run'.pc = "lift" /\ run'.who = run.who /\ run'.at = NoProfile /\ run'.answers = run.answers
      /\ run'.stamp = run.stamp /\ run'.pruned = run.pruned /\ run'.from = run.from
      /\ run'.dangled = run.dangled /\ run'.quiet = run.quiet
  BY DEF ForgetOld, IInv, TypeInv, Command, Pc
<1> HIDE DEF d
<1>7. TypeInv'
  BY <1>1, <1>5, <1>6, TypeKeeps DEF IInv, TypeInv, TypeOK
<1>8. Placed'
  BY <1>1, <1>5, <1>6 DEF IInv, Placed, Migrating, Rendering, Stamped, machine
<1>9. Legacy'
  BY <1>1, <1>6 DEF IInv, Legacy, Rendering, Stamped, tree
<1>10. OneDocument'
  BY <1>1, <1>6 DEF IInv, OneDocument, history
<1>11. AnswersKept'
  <2>1. \A q \in DOMAIN current : AnswersOf(current'[q]) = AnswersOf(current[q])
    BY <1>2, <1>3, <1>5 DEF AnswersOf, d
  <2> QED BY <1>1, <1>5, <2>1, SameAnswers DEF IInv, tree, history
<1>12. PackagesKept'
  <2>1. \A q \in DOMAIN current : current[q].config \subseteq current'[q].config
    BY <1>3, <1>5 DEF d
  <2>2. owned' = owned
    BY <1>1 DEF history
  <2> QED BY <1>5, <2>1, <2>2, SamePackages DEF IInv
<1>13. StampRight' /\ QuietRight'
  BY <1>6 DEF IInv, StampRight, QuietRight, Stamped
<1>14. Dissolved'
  BY <1>1, <1>3, <1>4, <1>5, <1>6 DEF IInv, Dissolved, history, d
<1>15. Healing'
  <2>1. ASSUME run.from = run.who PROVE run.who # NoProfile /\ run.at # run.who
    BY <1>1, <2>1, NoProfileAssumption DEF IInv, Healing, Placed
  <2> QED BY <1>1, <1>5, <1>6, <2>1 DEF IInv, Healing, machine
<1> QED BY <1>7, <1>8, <1>9, <1>10, <1>11, <1>12, <1>13, <1>14, <1>15 DEF IInv

LEMMA RemoveLegacyKeeps == ASSUME IInv, RemoveLegacy PROVE IInv'
<1>1. /\ run.pc = "lift" /\ DOMAIN legacy = {} /\ legacyDir' = FALSE /\ Goto("tree")
      /\ UNCHANGED <<legacy, stray, stow, home, current, machine, pending, count, history>>
  BY DEF RemoveLegacy
<1>2. /\ run' \in Command
      /\ run'.pc = "tree" /\ run'.who = run.who /\ run'.at = run.at /\ run'.answers = run.answers
      /\ run'.stamp = run.stamp /\ run'.pruned = run.pruned /\ run'.from = run.from
      /\ run'.dangled = run.dangled /\ run'.quiet = run.quiet
  BY <1>1, GotoDoes DEF IInv, TypeInv, Pc
<1>3. TypeInv'
  <2>1. /\ DOMAIN current' \subseteq Profile /\ \A q \in DOMAIN current' : current'[q] \in Dir
        /\ DOMAIN legacy' \subseteq Profile /\ \A q \in DOMAIN legacy' : legacy'[q] \in Dir
    BY <1>1 DEF IInv, TypeInv, TypeOK
  <2>2. {legacyDir, stray, stow, home}' \subseteq BOOLEAN
    BY <1>1 DEF IInv, TypeInv, TypeOK
  <2>3. {active, pending, run.who, run.at}' \subseteq Profile \cup {NoProfile}
        /\ run'.pc \in Pc /\ run'.answers \in Answers
    BY <1>1, <1>2 DEF IInv, TypeInv, TypeOK, Command, machine
  <2>4. /\ live' \in [kind: {"none", "dir", "link"}, pkgs: SUBSET Package, lock: BOOLEAN]
        /\ linked' \in [Profile -> {"none", "legacy", "current"}]
        /\ site' \subseteq HomeRender
        /\ truth' \in [Profile -> SUBSET Document] /\ owned' \in [Profile -> SUBSET Package]
        /\ cut' \subseteq Profile
    BY <1>1 DEF IInv, TypeInv, TypeOK, machine, history
  <2> QED BY <1>2, <2>1, <2>2, <2>3, <2>4 DEF TypeInv, TypeOK
<1>4. Placed'
  BY <1>1, <1>2 DEF IInv, Placed, Migrating, Rendering, Stamped, machine
<1>5. Legacy' /\ OneDocument' /\ StampRight' /\ QuietRight'
  BY <1>1, <1>2 DEF IInv, Legacy, OneDocument, StampRight, QuietRight, Rendering, Stamped, history
<1>6. Dissolved' /\ Healing'
  BY <1>1, <1>2 DEF IInv, Dissolved, Healing, machine, history
<1>7. AnswersKept' /\ PackagesKept'
  BY <1>1, SameAnswers, SamePackages DEF IInv, history
<1> QED BY <1>3, <1>4, <1>5, <1>6, <1>7 DEF IInv

LEMMA RenameTreeKeeps == ASSUME IInv, RenameTree PROVE IInv'
<1>1. /\ run.pc = "tree" /\ stow' = FALSE /\ Goto("meta")
      /\ UNCHANGED <<legacy, legacyDir, stray, current, machine, pending, count, history>>
  BY DEF RenameTree
<1>2. /\ run' \in Command
      /\ run'.pc = "meta" /\ run'.who = run.who /\ run'.at = run.at /\ run'.answers = run.answers
      /\ run'.stamp = run.stamp /\ run'.pruned = run.pruned /\ run'.from = run.from
      /\ run'.dangled = run.dangled /\ run'.quiet = run.quiet
  BY <1>1, GotoDoes DEF IInv, TypeInv, Pc
<1>3. TypeInv'
  <2>1. /\ DOMAIN current' \subseteq Profile /\ \A q \in DOMAIN current' : current'[q] \in Dir
        /\ DOMAIN legacy' \subseteq Profile /\ \A q \in DOMAIN legacy' : legacy'[q] \in Dir
    BY <1>1 DEF IInv, TypeInv, TypeOK
  <2>2. home' \in BOOLEAN
    BY Zenon DEF RenameTree
  <2>3. {legacyDir, stray, stow, home}' \subseteq BOOLEAN
    BY <1>1, <2>2 DEF IInv, TypeInv, TypeOK
  <2>4. {active, pending, run.who, run.at}' \subseteq Profile \cup {NoProfile}
        /\ run'.pc \in Pc /\ run'.answers \in Answers
    BY <1>1, <1>2 DEF IInv, TypeInv, TypeOK, Command, machine
  <2>5. /\ live' \in [kind: {"none", "dir", "link"}, pkgs: SUBSET Package, lock: BOOLEAN]
        /\ linked' \in [Profile -> {"none", "legacy", "current"}]
        /\ site' \subseteq HomeRender
        /\ truth' \in [Profile -> SUBSET Document] /\ owned' \in [Profile -> SUBSET Package]
        /\ cut' \subseteq Profile
    BY <1>1 DEF IInv, TypeInv, TypeOK, machine, history
  <2> QED BY <1>2, <2>1, <2>3, <2>4, <2>5 DEF TypeInv, TypeOK
<1>4. Placed'
  BY <1>1, <1>2 DEF IInv, Placed, Migrating, Rendering, Stamped, machine
<1>5. Legacy' /\ OneDocument' /\ StampRight' /\ QuietRight'
  BY <1>1, <1>2 DEF IInv, Legacy, OneDocument, StampRight, QuietRight, Rendering, Stamped, history
<1>6. Dissolved' /\ Healing'
  BY <1>1, <1>2 DEF IInv, Dissolved, Healing, machine, history
<1>7. AnswersKept' /\ PackagesKept'
  BY <1>1, SameAnswers, SamePackages DEF IInv, history
<1> QED BY <1>3, <1>4, <1>5, <1>6, <1>7 DEF IInv

\* A migration refused has touched nothing it did not finish.
LEMMA RefuseKeeps == ASSUME IInv, Refuse PROVE IInv'
<1>1. /\ run' = Idle /\ run.pc \in {"lift", "tree"}
      /\ UNCHANGED <<tree, current, machine, pending, count, history>>
  BY DEF Refuse, Refused
<1>2. run' \in Command /\ Placed' /\ Legacy' /\ OneDocument' /\ StampRight' /\ QuietRight' /\ Healing'
  BY <1>1, IdleKeeps DEF tree, machine, history
<1>3. TypeInv'
  BY <1>1, <1>2, TypeKeeps DEF IInv, TypeInv, TypeOK
<1>4. Dissolved'
  BY <1>1, IdleTyped DEF IInv, Placed, Dissolved, Migrating, history
<1>5. AnswersKept' /\ PackagesKept'
  BY <1>1, SameAnswers, SamePackages DEF IInv, tree, history
<1> QED BY <1>2, <1>3, <1>4, <1>5 DEF IInv

LEMMA NewDirTyped ==
    NewDir \in Dir /\ NewDir.meta = {} /\ NewDir.old = {} /\ NewDir.layer = "none" /\ NewDir.created = 0
    /\ NewDir.config = {}
BY DEF NewDir, Dir, Layer

\* The stamp is the time the profile has, if it has one.
LEMMA MetadataKeeps == ASSUME IInv, Metadata PROVE IInv'
<1> DEFINE stamp == IF Has(run.who) /\ current[run.who].created # 0 THEN current[run.who].created ELSE 2
<1>1. /\ run.pc = "meta" /\ run.who \in Profile /\ run.at = NoProfile
      /\ run' = [run EXCEPT !.pc = "seed", !.stamp = stamp]
      /\ UNCHANGED <<tree, machine, pending, count, history>>
  BY DEF Metadata, IInv, Placed, Migrating
<1>2. /\ DOMAIN current' = DOMAIN current \cup {run.who}
      /\ \A q \in DOMAIN current : current'[q] = current[q]
      /\ run.who \notin DOMAIN current => current'[run.who] = NewDir
  BY DEF Metadata, Has
<1>3. /\ stamp \in 0 .. 2
      /\ run.who \in DOMAIN current /\ current[run.who].created # 0 => stamp = current[run.who].created
  BY <1>1 DEF IInv, TypeInv, TypeOK, Dir, Has
<1> HIDE DEF stamp
<1>4. /\ run' \in Command
      /\ run'.pc = "seed" /\ run'.who = run.who /\ run'.at = run.at /\ run'.answers = run.answers
      /\ run'.stamp = stamp /\ run'.pruned = run.pruned /\ run'.from = run.from
      /\ run'.dangled = run.dangled /\ run'.quiet = run.quiet
  BY <1>1, <1>3 DEF IInv, TypeInv, Command, Pc
<1>5. TypeInv'
  <2>1. DOMAIN current' \subseteq Profile /\ \A q \in DOMAIN current' : current'[q] \in Dir
    BY <1>1, <1>2, NewDirTyped DEF IInv, TypeInv, TypeOK
  <2> QED BY <1>1, <1>4, <2>1, TypeKeeps DEF IInv, TypeInv, TypeOK
<1>6. Placed'
  BY <1>1, <1>2, <1>4 DEF IInv, Placed, Migrating, Rendering, Stamped, machine
<1>7. Legacy' /\ OneDocument' /\ QuietRight'
  BY <1>1, <1>4 DEF IInv, Legacy, OneDocument, QuietRight, Rendering, Stamped, tree, history
<1>8. AnswersKept'
  <2>1. \A q \in DOMAIN current' \ DOMAIN current : AnswersOf(current'[q]) = {}
    BY <1>2, NewDirTyped DEF AnswersOf
  <2> QED BY <1>1, <1>2, <2>1, SameAnswers DEF IInv, tree, history
<1>9. PackagesKept'
  BY <1>1, <1>2, SamePackages DEF IInv, history
<1>10. StampRight'
  BY <1>2, <1>3, <1>4, NewDirTyped DEF StampRight
<1>11. Dissolved'
  BY <1>1, <1>2, <1>4, NewDirTyped DEF IInv, Dissolved, history
<1>12. Healing'
  BY <1>1, <1>2, <1>4 DEF IInv, Healing, machine
<1> QED BY <1>5, <1>6, <1>7, <1>8, <1>9, <1>10, <1>11, <1>12 DEF IInv

-----------------------------------------------------------------------------
\* The steps that render a profile write to its directory alone.
LEMMA WriteKeeps ==
    ASSUME IInv, run.pc \in Rendering, NEW e \in Dir, Set(run.who, e),
           e.layer = current[run.who].layer, e.old = current[run.who].old,
           run' \in Command, run'.pc \in Rendering, run'.who = run.who, run'.at = run.at,
           run'.answers = run.answers, run'.quiet = run.quiet, UNCHANGED <<legacy, legacyDir, stow, cut>>
    PROVE  /\ DOMAIN current' = DOMAIN current /\ current'[run.who] = e
           /\ \A q \in DOMAIN current \ {run.who} : current'[q] = current[q]
           /\ \A q \in DOMAIN current' : current'[q] \in Dir
           /\ Legacy' /\ QuietRight' /\ Dissolved'
<1>1. run.who \in DOMAIN current
  BY DEF IInv, Placed
<1>2. /\ DOMAIN current' = DOMAIN current /\ current'[run.who] = e
      /\ \A q \in DOMAIN current \ {run.who} : current'[q] = current[q]
      /\ \A q \in DOMAIN current' : current'[q] \in Dir
  BY <1>1, SetDoes DEF IInv, TypeInv
<1>3. Legacy' /\ QuietRight'
  BY DEF IInv, Legacy, QuietRight, Rendering, Stamped
<1>4. Dissolved'
  BY <1>1, <1>2 DEF IInv, Dissolved, Rendering, Stamped
<1> QED BY <1>2, <1>3, <1>4

LEMMA WhoHas ==
    ASSUME IInv, run.pc \in Rendering
    PROVE  /\ run.who \in DOMAIN current /\ run.who \in Profile
           /\ current[run.who] \in Dir /\ run.at = NoProfile
BY DEF IInv, Placed, Rendering, Stamped, Migrating, TypeInv, TypeOK

\* The seeded configuration is where the packages are declared.
LEMMA SeedKeeps == ASSUME IInv, Seed PROVE IInv'
<1> DEFINE d == current[run.who]
           e == [d EXCEPT !.config = {live.pkgs}]
<1>1. /\ run.pc = "seed" /\ run.pc \in Rendering
      /\ UNCHANGED <<tree, machine, pending, count, truth, cut>>
  BY DEF Seed, Rendering, Stamped
<1>2. /\ run.who \in DOMAIN current /\ run.who \in Profile /\ d \in Dir /\ run.at = NoProfile
  BY <1>1, WhoHas
<1>3. live.pkgs \in SUBSET Package /\ owned \in [Profile -> SUBSET Package]
  BY DEF IInv, TypeInv, TypeOK
<1>4. CASE d.config = {} /\ live.kind = "dir"
  <2>1. /\ Set(run.who, e) /\ Goto("lock")
        /\ owned' = [owned EXCEPT ![run.who] = @ \cup live.pkgs]
    BY <1>4 DEF Seed
  <2>2. /\ e \in Dir /\ e.old = d.old /\ e.meta = d.meta /\ e.layer = d.layer
        /\ e.files = d.files /\ e.created = d.created /\ e.config = {live.pkgs}
    BY <1>2, <1>3 DEF Dir
  <2> HIDE DEF e
  <2>3. /\ run' \in Command
        /\ run'.pc = "lock" /\ run'.who = run.who /\ run'.at = run.at /\ run'.answers = run.answers
        /\ run'.stamp = run.stamp /\ run'.pruned = run.pruned /\ run'.from = run.from
        /\ run'.dangled = run.dangled /\ run'.quiet = run.quiet
    BY <2>1, GotoDoes DEF IInv, TypeInv, Pc
  <2>4. /\ DOMAIN current' = DOMAIN current /\ current'[run.who] = e
        /\ \A q \in DOMAIN current \ {run.who} : current'[q] = current[q]
        /\ \A q \in DOMAIN current' : current'[q] \in Dir
        /\ Legacy' /\ QuietRight' /\ Dissolved'
    BY <1>1, <2>1, <2>2, <2>3, WriteKeeps DEF tree, Rendering, Stamped
  <2> HIDE DEF d
  <2>5. /\ owned' \in [Profile -> SUBSET Package]
        /\ owned'[run.who] = owned[run.who] \cup live.pkgs
        /\ \A q \in Profile \ {run.who} : owned'[q] = owned[q]
    BY <1>2, <1>3, <2>1
  <2>6. TypeInv'
    <3>1. DOMAIN current' \subseteq Profile
      BY <2>4 DEF IInv, TypeInv, TypeOK
    <3>2. DOMAIN legacy' \subseteq Profile /\ \A q \in DOMAIN legacy' : legacy'[q] \in Dir
      BY <1>1 DEF IInv, TypeInv, TypeOK, tree
    <3>3. {legacyDir, stray, stow, home}' \subseteq BOOLEAN
      BY <1>1 DEF IInv, TypeInv, TypeOK, tree
    <3>4. {active, pending, run.who, run.at}' \subseteq Profile \cup {NoProfile}
          /\ run'.pc \in Pc /\ run'.answers \in Answers
      BY <1>1, <2>3 DEF IInv, TypeInv, TypeOK, Command, machine
    <3>5. /\ live' \in [kind: {"none", "dir", "link"}, pkgs: SUBSET Package, lock: BOOLEAN]
          /\ linked' \in [Profile -> {"none", "legacy", "current"}]
          /\ site' \subseteq HomeRender
          /\ truth' \in [Profile -> SUBSET Document]
          /\ cut' \subseteq Profile
      BY <1>1 DEF IInv, TypeInv, TypeOK, machine
    <3> QED BY <2>3, <2>4, <2>5, <3>1, <3>2, <3>3, <3>4, <3>5 DEF TypeInv, TypeOK
  <2>7. Placed'
    BY <1>1, <2>3, <2>4 DEF IInv, Placed, Migrating, Rendering, Stamped, machine
  <2>8. OneDocument'
    BY <1>1, <2>3 DEF IInv, OneDocument
  <2>9. AnswersKept'
    <3>1. \A q \in DOMAIN current : AnswersOf(current'[q]) = AnswersOf(current[q])
      BY <2>2, <2>4 DEF AnswersOf, d
    <3> QED BY <1>1, <2>4, <3>1, SameAnswers DEF IInv, tree
  <2>10. PackagesKept'
    <3>1. owned[run.who] = {}
      BY <1>2, <1>3, <1>4 DEF IInv, PackagesKept, Config, Has, d
    <3>2. \A k \in owned'[run.who] : \E c \in current'[run.who].config : k \in c
      BY <2>2, <2>4, <2>5, <3>1
    <3> QED BY <1>2, <2>4, <2>5, <3>2, MorePackages DEF IInv
  <2>11. StampRight'
    BY <1>1, <2>2, <2>3, <2>4 DEF IInv, StampRight, Stamped, d
  <2>12. Healing'
    BY <1>1, <2>2, <2>3, <2>4 DEF IInv, Healing, machine, d
  <2> QED BY <2>4, <2>6, <2>7, <2>8, <2>9, <2>10, <2>11, <2>12 DEF IInv
<1>5. CASE ~(d.config = {} /\ live.kind = "dir")
  <2>1. Goto("render") /\ UNCHANGED <<current, owned>>
    BY <1>5 DEF Seed
  <2>2. /\ run' \in Command
        /\ run'.pc = "render" /\ run'.who = run.who /\ run'.at = run.at /\ run'.answers = run.answers
        /\ run'.stamp = run.stamp /\ run'.pruned = run.pruned /\ run'.from = run.from
        /\ run'.dangled = run.dangled /\ run'.quiet = run.quiet
    BY <2>1, GotoDoes DEF IInv, TypeInv, Pc
  <2>3. TypeInv'
    BY <1>1, <2>1, <2>2, TypeKeeps DEF IInv, TypeInv, TypeOK, history
  <2>4. Placed'
    BY <1>1, <2>1, <2>2 DEF IInv, Placed, Migrating, Rendering, Stamped, machine
  <2>5. Legacy' /\ OneDocument' /\ StampRight' /\ QuietRight'
    BY <1>1, <2>1, <2>2 DEF IInv, Legacy, OneDocument, StampRight, QuietRight, Rendering, Stamped, tree
  <2>6. Dissolved' /\ Healing'
    BY <1>1, <2>1, <2>2 DEF IInv, Dissolved, Healing, machine
  <2>7. AnswersKept' /\ PackagesKept'
    BY <1>1, <2>1, SameAnswers, SamePackages DEF IInv, tree
  <2> QED BY <2>3, <2>4, <2>5, <2>6, <2>7 DEF IInv
<1> QED BY <1>4, <1>5

LEMMA SeedLockKeeps == ASSUME IInv, SeedLock PROVE IInv'
<1> DEFINE d == current[run.who]
           e == [d EXCEPT !.lock = live.lock]
<1>1. /\ run.pc = "lock" /\ run.pc \in Rendering /\ Set(run.who, e) /\ Goto("render")
      /\ UNCHANGED <<tree, machine, pending, count, history>>
  BY DEF SeedLock, Rendering, Stamped
<1>2. /\ run.who \in DOMAIN current /\ run.who \in Profile /\ d \in Dir /\ run.at = NoProfile
  BY <1>1, WhoHas
<1>3. live.lock \in BOOLEAN
  BY DEF IInv, TypeInv, TypeOK
<1>4. /\ e \in Dir /\ e.old = d.old /\ e.meta = d.meta /\ e.layer = d.layer
      /\ e.files = d.files /\ e.created = d.created /\ e.config = d.config
  BY <1>2, <1>3 DEF Dir
<1> HIDE DEF e
<1>5. /\ run' \in Command
      /\ run'.pc = "render" /\ run'.who = run.who /\ run'.at = run.at /\ run'.answers = run.answers
      /\ run'.stamp = run.stamp /\ run'.pruned = run.pruned /\ run'.from = run.from
      /\ run'.dangled = run.dangled /\ run'.quiet = run.quiet
  BY <1>1, GotoDoes DEF IInv, TypeInv, Pc
<1>6. /\ DOMAIN current' = DOMAIN current /\ current'[run.who] = e
      /\ \A q \in DOMAIN current \ {run.who} : current'[q] = current[q]
      /\ \A q \in DOMAIN current' : current'[q] \in Dir
      /\ Legacy' /\ QuietRight' /\ Dissolved'
  BY <1>1, <1>4, <1>5, WriteKeeps DEF tree, history, Rendering, Stamped
<1> HIDE DEF d
<1>7. TypeInv'
  BY <1>1, <1>5, <1>6, TypeKeeps DEF IInv, TypeInv, TypeOK
<1>8. Placed'
  BY <1>1, <1>5, <1>6 DEF IInv, Placed, Migrating, Rendering, Stamped, machine
<1>9. OneDocument'
  BY <1>1, <1>5 DEF IInv, OneDocument, history
<1>10. AnswersKept'
  <2>1. \A q \in DOMAIN current : AnswersOf(current'[q]) = AnswersOf(current[q])
    BY <1>4, <1>6 DEF AnswersOf, d
  <2> QED BY <1>1, <1>6, <2>1, SameAnswers DEF IInv, tree, history
<1>11. PackagesKept'
  <2>1. \A q \in DOMAIN current : current[q].config \subseteq current'[q].config
    BY <1>4, <1>6 DEF d
  <2>2. owned' = owned
    BY <1>1 DEF history
  <2> QED BY <1>6, <2>1, <2>2, SamePackages DEF IInv
<1>12. StampRight'
  BY <1>1, <1>4, <1>5, <1>6 DEF IInv, StampRight, Stamped, d
<1>13. Healing'
  BY <1>1, <1>4, <1>5, <1>6 DEF IInv, Healing, machine, d
<1> QED BY <1>6, <1>7, <1>8, <1>9, <1>10, <1>11, <1>12, <1>13 DEF IInv

\* config.toml is written only when there is none.
LEMMA RenderKeeps == ASSUME IInv, Render PROVE IInv'
<1> DEFINE d == current[run.who]
           files == d.files \cup Plan(run.answers)
           config == IF d.config = {} THEN {{}} ELSE d.config
           e == [d EXCEPT !.files = files, !.config = config]
<1>1. /\ run.pc = "render" /\ run.pc \in Rendering /\ Set(run.who, e) /\ Goto("prune")
      /\ UNCHANGED <<legacy, legacyDir, stray, stow, machine, pending, count, history>>
      /\ home' = TRUE
  BY DEF Render, Rendering, Stamped
<1>2. /\ run.who \in DOMAIN current /\ run.who \in Profile /\ d \in Dir /\ run.at = NoProfile
  BY <1>1, WhoHas
<1>3. /\ files \in SUBSET Question /\ config \in SUBSET SUBSET Package /\ config # {}
      /\ d.config \subseteq config /\ d.files \subseteq files
  BY <1>2 DEF Dir, Plan, Selected
<1> HIDE DEF files, config
<1>4. /\ e \in Dir /\ e.old = d.old /\ e.meta = d.meta /\ e.layer = d.layer
      /\ e.files = files /\ e.created = d.created /\ e.config = config
  BY <1>2, <1>3 DEF Dir
<1> HIDE DEF e
<1>5. /\ run' \in Command
      /\ run'.pc = "prune" /\ run'.who = run.who /\ run'.at = run.at /\ run'.answers = run.answers
      /\ run'.stamp = run.stamp /\ run'.pruned = run.pruned /\ run'.from = run.from
      /\ run'.dangled = run.dangled /\ run'.quiet = run.quiet
  BY <1>1, GotoDoes DEF IInv, TypeInv, Pc
<1>6. /\ DOMAIN current' = DOMAIN current /\ current'[run.who] = e
      /\ \A q \in DOMAIN current \ {run.who} : current'[q] = current[q]
      /\ \A q \in DOMAIN current' : current'[q] \in Dir
      /\ Legacy' /\ QuietRight' /\ Dissolved'
  BY <1>1, <1>4, <1>5, WriteKeeps DEF history, Rendering, Stamped
<1> HIDE DEF d
<1>7. TypeInv'
  <2>1. DOMAIN current' \subseteq Profile
    BY <1>6 DEF IInv, TypeInv, TypeOK
  <2>2. DOMAIN legacy' \subseteq Profile /\ \A q \in DOMAIN legacy' : legacy'[q] \in Dir
    BY <1>1 DEF IInv, TypeInv, TypeOK
  <2>3. {legacyDir, stray, stow, home}' \subseteq BOOLEAN
    BY <1>1 DEF IInv, TypeInv, TypeOK
  <2>4. {active, pending, run.who, run.at}' \subseteq Profile \cup {NoProfile}
        /\ run'.pc \in Pc /\ run'.answers \in Answers
    BY <1>1, <1>5 DEF IInv, TypeInv, TypeOK, Command, machine
  <2>5. /\ live' \in [kind: {"none", "dir", "link"}, pkgs: SUBSET Package, lock: BOOLEAN]
        /\ linked' \in [Profile -> {"none", "legacy", "current"}]
        /\ site' \subseteq HomeRender
        /\ truth' \in [Profile -> SUBSET Document] /\ owned' \in [Profile -> SUBSET Package]
        /\ cut' \subseteq Profile
    BY <1>1 DEF IInv, TypeInv, TypeOK, machine, history
  <2> QED BY <1>5, <1>6, <2>1, <2>2, <2>3, <2>4, <2>5 DEF TypeInv, TypeOK
<1>8. Placed'
  BY <1>1, <1>3, <1>4, <1>5, <1>6 DEF IInv, Placed, Migrating, Rendering, Stamped, machine
<1>9. OneDocument'
  BY <1>1, <1>5 DEF IInv, OneDocument, history
<1>10. AnswersKept'
  <2>1. \A q \in DOMAIN current : AnswersOf(current'[q]) = AnswersOf(current[q])
    BY <1>4, <1>6 DEF AnswersOf, d
  <2> QED BY <1>1, <1>6, <2>1, SameAnswers DEF IInv, history
<1>11. PackagesKept'
  <2>1. \A q \in DOMAIN current : current[q].config \subseteq current'[q].config
    BY <1>3, <1>4, <1>6 DEF d
  <2>2. owned' = owned
    BY <1>1 DEF history
  <2> QED BY <1>6, <2>1, <2>2, SamePackages DEF IInv
<1>12. StampRight'
  BY <1>1, <1>4, <1>5, <1>6 DEF IInv, StampRight, Stamped, d
<1>13. Healing'
  BY <1>1, <1>3, <1>4, <1>5, <1>6 DEF IInv, Healing, machine, d
<1> QED BY <1>6, <1>7, <1>8, <1>9, <1>10, <1>11, <1>12, <1>13 DEF IInv

\* What is pruned is remembered, for the links that led to it.
LEMMA PruneKeeps == ASSUME IInv, Prune PROVE IInv'
<1> DEFINE d == current[run.who]
<1>1. /\ run.pc = "prune" /\ run.pc \in Rendering
      /\ UNCHANGED <<tree, machine, pending, count, history>>
  BY DEF Prune, Rendering, Stamped
<1>2. /\ run.who \in DOMAIN current /\ run.who \in Profile /\ d \in Dir /\ run.at = NoProfile
      /\ d.config # {}
  BY <1>1, WhoHas DEF IInv, Placed
<1>3. CASE d.files \ Plan(run.answers) = {}
  <2>1. Goto("save") /\ UNCHANGED current
    BY <1>3 DEF Prune
  <2>2. /\ run' \in Command
        /\ run'.pc = "save" /\ run'.who = run.who /\ run'.at = run.at /\ run'.answers = run.answers
        /\ run'.stamp = run.stamp /\ run'.pruned = run.pruned /\ run'.from = run.from
        /\ run'.dangled = run.dangled /\ run'.quiet = run.quiet
    BY <2>1, GotoDoes DEF IInv, TypeInv, Pc
  <2>3. TypeInv'
    BY <1>1, <2>1, <2>2, TypeKeeps DEF IInv, TypeInv, TypeOK
  <2>4. Placed'
    BY <1>1, <1>2, <2>1, <2>2 DEF IInv, Placed, Migrating, Rendering, Stamped, machine
  <2>5. Legacy' /\ OneDocument' /\ StampRight' /\ QuietRight'
    BY <1>1, <2>1, <2>2 DEF IInv, Legacy, OneDocument, StampRight, QuietRight, Rendering, Stamped, tree,
                            history
  <2>6. Dissolved' /\ Healing'
    BY <1>1, <2>1, <2>2 DEF IInv, Dissolved, Healing, machine, history
  <2>7. AnswersKept' /\ PackagesKept'
    BY <1>1, <2>1, SameAnswers, SamePackages DEF IInv, tree, history
  <2> QED BY <2>3, <2>4, <2>5, <2>6, <2>7 DEF IInv
<1>4. CASE d.files \ Plan(run.answers) # {}
  <2>1. PICK c \in d.files \ Plan(run.answers) :
           /\ Set(run.who, [d EXCEPT !.files = @ \ {c}])
           /\ run' = [run EXCEPT !.pruned = @ \cup {c}]
    BY <1>4 DEF Prune
  <2> DEFINE e == [d EXCEPT !.files = @ \ {c}]
  <2>2. /\ e \in Dir /\ e.old = d.old /\ e.meta = d.meta /\ e.layer = d.layer
        /\ e.files = d.files \ {c} /\ e.created = d.created /\ e.config = d.config
        /\ c \in Question
    BY <1>2, <2>1 DEF Dir
  <2>3. Set(run.who, e)
    BY <2>1
  <2> HIDE DEF e
  <2>4. /\ run' \in Command
        /\ run'.pc = "prune" /\ run'.who = run.who /\ run'.at = run.at /\ run'.answers = run.answers
        /\ run'.stamp = run.stamp /\ run'.pruned = run.pruned \cup {c} /\ run'.from = run.from
        /\ run'.dangled = run.dangled /\ run'.quiet = run.quiet
    BY <1>1, <2>1, <2>2 DEF IInv, TypeInv, Command
  <2>5. /\ DOMAIN current' = DOMAIN current /\ current'[run.who] = e
        /\ \A q \in DOMAIN current \ {run.who} : current'[q] = current[q]
        /\ \A q \in DOMAIN current' : current'[q] \in Dir
        /\ Legacy' /\ QuietRight' /\ Dissolved'
    BY <1>1, <2>2, <2>3, <2>4, WriteKeeps DEF tree, history, Rendering, Stamped
  <2> HIDE DEF d
  <2>6. TypeInv'
    BY <1>1, <2>4, <2>5, TypeKeeps DEF IInv, TypeInv, TypeOK
  <2>7. Placed'
    BY <1>1, <1>2, <2>2, <2>4, <2>5 DEF IInv, Placed, Migrating, Rendering, Stamped, machine
  <2>8. OneDocument'
    BY <1>1, <2>4 DEF IInv, OneDocument, history
  <2>9. AnswersKept'
    <3>1. \A q \in DOMAIN current : AnswersOf(current'[q]) = AnswersOf(current[q])
      BY <2>2, <2>5 DEF AnswersOf, d
    <3> QED BY <1>1, <2>5, <3>1, SameAnswers DEF IInv, tree, history
  <2>10. PackagesKept'
    <3>1. \A q \in DOMAIN current : current[q].config \subseteq current'[q].config
      BY <2>2, <2>5 DEF d
    <3>2. owned' = owned
      BY <1>1 DEF history
    <3> QED BY <2>5, <3>1, <3>2, SamePackages DEF IInv
  <2>11. StampRight'
    BY <1>1, <2>2, <2>4, <2>5 DEF IInv, StampRight, Stamped, d
  <2>12. Healing'
    BY <1>1, <2>2, <2>4, <2>5 DEF IInv, Healing, machine, d
  <2> QED BY <2>5, <2>6, <2>7, <2>8, <2>9, <2>10, <2>11, <2>12 DEF IInv
<1> QED BY <1>3, <1>4

\* The document saved is what the profile was last given.
LEMMA SaveAnswersKeeps == ASSUME IInv, SaveAnswers PROVE IInv'
<1> DEFINE d == current[run.who]
           doc == Save(run.answers)
           e == [d EXCEPT !.meta = {doc}, !.created = run.stamp]
<1>1. /\ run.pc = "save" /\ run.pc \in Rendering /\ Set(run.who, e) /\ Goto("compose")
      /\ truth' = [truth EXCEPT ![run.who] = {doc}]
      /\ UNCHANGED <<tree, machine, pending, count, owned, cut>>
  BY DEF SaveAnswers, Rendering, Stamped
<1>2. /\ run.who \in DOMAIN current /\ run.who \in Profile /\ d \in Dir /\ run.at = NoProfile
      /\ d.config # {}
  BY <1>1, WhoHas DEF IInv, Placed
<1>3. doc \in Document /\ run.stamp \in 0 .. 2 /\ truth \in [Profile -> SUBSET Document]
  <2>1. run.answers \in Answers /\ run.stamp \in 0 .. 2 /\ truth \in [Profile -> SUBSET Document]
    BY DEF IInv, TypeInv, TypeOK, Command
  <2> QED BY <2>1, SaveTyped
<1> HIDE DEF doc
<1>4. /\ e \in Dir /\ e.old = d.old /\ e.meta = {doc} /\ e.layer = d.layer
      /\ e.files = d.files /\ e.created = run.stamp /\ e.config = d.config
  BY <1>2, <1>3 DEF Dir
<1> HIDE DEF e
<1>5. /\ run' \in Command
      /\ run'.pc = "compose" /\ run'.who = run.who /\ run'.at = run.at /\ run'.answers = run.answers
      /\ run'.stamp = run.stamp /\ run'.pruned = run.pruned /\ run'.from = run.from
      /\ run'.dangled = run.dangled /\ run'.quiet = run.quiet
  BY <1>1, GotoDoes DEF IInv, TypeInv, Pc
<1>6. /\ DOMAIN current' = DOMAIN current /\ current'[run.who] = e
      /\ \A q \in DOMAIN current \ {run.who} : current'[q] = current[q]
      /\ \A q \in DOMAIN current' : current'[q] \in Dir
      /\ Legacy' /\ QuietRight' /\ Dissolved'
  BY <1>1, <1>4, <1>5, WriteKeeps DEF tree, Rendering, Stamped
<1> HIDE DEF d
<1>7. /\ truth' \in [Profile -> SUBSET Document] /\ truth'[run.who] = {doc}
      /\ \A q \in Profile \ {run.who} : truth'[q] = truth[q]
  BY <1>1, <1>2, <1>3
<1>8. TypeInv'
  <2>1. DOMAIN current' \subseteq Profile
    BY <1>6 DEF IInv, TypeInv, TypeOK
  <2>2. DOMAIN legacy' \subseteq Profile /\ \A q \in DOMAIN legacy' : legacy'[q] \in Dir
    BY <1>1 DEF IInv, TypeInv, TypeOK, tree
  <2>3. {legacyDir, stray, stow, home}' \subseteq BOOLEAN
    BY <1>1 DEF IInv, TypeInv, TypeOK, tree
  <2>4. {active, pending, run.who, run.at}' \subseteq Profile \cup {NoProfile}
        /\ run'.pc \in Pc /\ run'.answers \in Answers
    BY <1>1, <1>5 DEF IInv, TypeInv, TypeOK, Command, machine
  <2>5. /\ live' \in [kind: {"none", "dir", "link"}, pkgs: SUBSET Package, lock: BOOLEAN]
        /\ linked' \in [Profile -> {"none", "legacy", "current"}]
        /\ site' \subseteq HomeRender
        /\ owned' \in [Profile -> SUBSET Package]
        /\ cut' \subseteq Profile
    BY <1>1 DEF IInv, TypeInv, TypeOK, machine
  <2> QED BY <1>5, <1>6, <1>7, <2>1, <2>2, <2>3, <2>4, <2>5 DEF TypeInv, TypeOK
<1>9. Placed'
  BY <1>1, <1>2, <1>4, <1>5, <1>6 DEF IInv, Placed, Migrating, Rendering, Stamped, machine, d
<1>10. OneDocument'
  BY <1>1, <1>5, <1>7 DEF IInv, OneDocument
<1>11. AnswersKept'
  <2> SUFFICES ASSUME NEW q \in Profile
               PROVE  AnswersIn(current', legacy', q) = truth'[q]
    BY DEF AnswersKept, RepoAnswers
  <2>1. CASE q = run.who
    BY <1>2, <1>4, <1>6, <1>7, <2>1 DEF AnswersIn, AnswersOf
  <2>2. CASE q # run.who
    <3>1. AnswersIn(current, legacy, q) = truth[q]
      BY DEF IInv, AnswersKept, RepoAnswers
    <3> QED BY <1>1, <1>6, <1>7, <2>2, <3>1 DEF AnswersIn, tree
  <2> QED BY <2>1, <2>2
<1>12. PackagesKept'
  <2>1. \A q \in DOMAIN current : current[q].config \subseteq current'[q].config
    BY <1>4, <1>6 DEF d
  <2> QED BY <1>1, <1>6, <2>1, SamePackages DEF IInv
<1>13. StampRight'
  BY <1>5 DEF StampRight, Stamped
<1>14. Healing'
  BY <1>1, <1>4, <1>5, <1>6 DEF IInv, Healing, machine, d
<1> QED BY <1>6, <1>8, <1>9, <1>10, <1>11, <1>12, <1>13, <1>14 DEF IInv

\* What the Brewfile and brew add goes into every configuration there is.
LEMMA ComposeKeeps == ASSUME IInv, Compose PROVE IInv'
<1> DEFINE d == current[run.who]
<1>1. /\ run.pc = "compose" /\ run.pc \in Rendering /\ Goto("link")
      /\ UNCHANGED <<tree, machine, pending, count, truth, cut>>
  BY DEF Compose, Rendering, Stamped
<1>2. /\ run.who \in DOMAIN current /\ run.who \in Profile /\ d \in Dir /\ run.at = NoProfile
      /\ d.config # {} /\ owned \in [Profile -> SUBSET Package]
  BY <1>1, WhoHas DEF IInv, Placed, TypeInv, TypeOK
<1>3. PICK new \in SUBSET Package :
         /\ Set(run.who, [d EXCEPT !.config = {c \cup d.brew \cup new : c \in @}])
         /\ owned' = [owned EXCEPT ![run.who] = @ \cup d.brew]
  BY DEF Compose
<1> DEFINE config == {c \cup d.brew \cup new : c \in d.config}
           e == [d EXCEPT !.config = config]
<1>4. Set(run.who, e)
  BY <1>3
<1>5. d.brew \in SUBSET Package /\ d.config \in SUBSET SUBSET Package
  BY <1>2 DEF Dir
<1>6. /\ config \in SUBSET SUBSET Package /\ config # {}
      /\ \A c \in d.config : c \cup d.brew \cup new \in config
  <2> DEFINE brew == d.brew
             old == d.config
  <2>1. brew \in SUBSET Package /\ old \in SUBSET SUBSET Package /\ old # {}
    BY <1>2, <1>5
  <2>2. config = {c \cup brew \cup new : c \in old}
    OBVIOUS
  <2> HIDE DEF config, brew, old
  <2>3. \A c \in old : c \cup brew \cup new \in config
    BY <2>2
  <2>4. config # {}
    BY <2>1, <2>3
  <2>5. \A x \in config : x \in SUBSET Package
    BY <2>1, <2>2
  <2> QED BY <2>3, <2>4, <2>5 DEF brew, old
<1> HIDE DEF config
<1>7. /\ e \in Dir /\ e.old = d.old /\ e.meta = d.meta /\ e.layer = d.layer
      /\ e.files = d.files /\ e.created = d.created /\ e.config = config
  BY <1>2, <1>6 DEF Dir
<1> HIDE DEF e
<1>8. /\ run' \in Command
      /\ run'.pc = "link" /\ run'.who = run.who /\ run'.at = run.at /\ run'.answers = run.answers
      /\ run'.stamp = run.stamp /\ run'.pruned = run.pruned /\ run'.from = run.from
      /\ run'.dangled = run.dangled /\ run'.quiet = run.quiet
  BY <1>1, GotoDoes DEF IInv, TypeInv, Pc
<1>9. /\ DOMAIN current' = DOMAIN current /\ current'[run.who] = e
      /\ \A q \in DOMAIN current \ {run.who} : current'[q] = current[q]
      /\ \A q \in DOMAIN current' : current'[q] \in Dir
      /\ Legacy' /\ QuietRight' /\ Dissolved'
  BY <1>1, <1>4, <1>7, <1>8, WriteKeeps DEF tree, Rendering, Stamped
<1>10. /\ owned' \in [Profile -> SUBSET Package]
       /\ owned'[run.who] = owned[run.who] \cup d.brew
       /\ \A q \in Profile \ {run.who} : owned'[q] = owned[q]
  BY <1>2, <1>3, <1>5
<1>11. \A k \in owned[run.who] : \E c \in d.config : k \in c
  BY <1>2 DEF IInv, PackagesKept, Config, Has
<1> HIDE DEF d
<1>12. TypeInv'
  <2>1. DOMAIN current' \subseteq Profile
    BY <1>9 DEF IInv, TypeInv, TypeOK
  <2>2. DOMAIN legacy' \subseteq Profile /\ \A q \in DOMAIN legacy' : legacy'[q] \in Dir
    BY <1>1 DEF IInv, TypeInv, TypeOK, tree
  <2>3. {legacyDir, stray, stow, home}' \subseteq BOOLEAN
    BY <1>1 DEF IInv, TypeInv, TypeOK, tree
  <2>4. {active, pending, run.who, run.at}' \subseteq Profile \cup {NoProfile}
        /\ run'.pc \in Pc /\ run'.answers \in Answers
    BY <1>1, <1>8 DEF IInv, TypeInv, TypeOK, Command, machine
  <2>5. /\ live' \in [kind: {"none", "dir", "link"}, pkgs: SUBSET Package, lock: BOOLEAN]
        /\ linked' \in [Profile -> {"none", "legacy", "current"}]
        /\ site' \subseteq HomeRender
        /\ truth' \in [Profile -> SUBSET Document]
        /\ cut' \subseteq Profile
    BY <1>1 DEF IInv, TypeInv, TypeOK, machine
  <2> QED BY <1>8, <1>9, <1>10, <2>1, <2>2, <2>3, <2>4, <2>5 DEF TypeInv, TypeOK
<1>13. Placed'
  BY <1>1, <1>8, <1>9 DEF IInv, Placed, Migrating, Rendering, Stamped, machine
<1>14. OneDocument'
  BY <1>1, <1>8 DEF IInv, OneDocument
<1>15. AnswersKept'
  <2>1. \A q \in DOMAIN current : AnswersOf(current'[q]) = AnswersOf(current[q])
    BY <1>7, <1>9 DEF AnswersOf, d
  <2> QED BY <1>1, <1>9, <2>1, SameAnswers DEF IInv, tree
<1>16. PackagesKept'
  <2>1. ASSUME NEW k \in owned'[run.who] PROVE \E c \in config : k \in c
    <3>1. PICK c \in d.config : k \in owned[run.who] => k \in c
      BY <1>2, <1>11
    <3>2. k \in c \cup d.brew \cup new /\ c \cup d.brew \cup new \in config
      BY <1>6, <1>10, <2>1, <3>1
    <3> QED BY <3>2
  <2>2. \A k \in owned'[run.who] : \E c \in current'[run.who].config : k \in c
    BY <1>7, <1>9, <2>1
  <2> QED BY <1>2, <1>9, <1>10, <2>2, MorePackages DEF IInv
<1>17. StampRight'
  BY <1>8 DEF StampRight, Stamped
<1>18. Healing'
  BY <1>1, <1>7, <1>8, <1>9 DEF IInv, Healing, machine, d
<1> QED BY <1>9, <1>12, <1>13, <1>14, <1>15, <1>16, <1>17, <1>18 DEF IInv

\* The types of a step of the machine: links and the active profile.
LEMMA MachineTyped ==
    ASSUME TypeInv, run' \in Command, pending' \in Profile \cup {NoProfile},
           active' \in Profile \cup {NoProfile}, site' \subseteq HomeRender,
           live' \in [kind: {"none", "dir", "link"}, pkgs: SUBSET Package, lock: BOOLEAN],
           linked' \in [Profile -> {"none", "legacy", "current"}],
           UNCHANGED <<tree, current, history>>
    PROVE  TypeInv'
<1>1. /\ run'.who \in Profile \cup {NoProfile} /\ run'.at \in Profile \cup {NoProfile}
      /\ run'.pc \in Pc /\ run'.answers \in Answers
  BY DEF Command
<1>2. {active, pending, run.who, run.at}' \subseteq Profile \cup {NoProfile}
  BY <1>1
<1>3. /\ DOMAIN legacy' \subseteq Profile /\ \A p \in DOMAIN legacy' : legacy'[p] \in Dir
      /\ DOMAIN current' \subseteq Profile /\ \A p \in DOMAIN current' : current'[p] \in Dir
  BY DEF TypeInv, TypeOK, tree
<1>4. {legacyDir, stray, stow, home}' \subseteq BOOLEAN
  BY DEF TypeInv, TypeOK, tree
<1>5. /\ truth' \in [Profile -> SUBSET Document] /\ owned' \in [Profile -> SUBSET Package]
      /\ cut' \subseteq Profile
  BY DEF TypeInv, TypeOK, history
<1> QED BY <1>1, <1>2, <1>3, <1>4, <1>5 DEF TypeInv, TypeOK

LEMMA LinkHomeKeeps == ASSUME IInv, LinkHome PROVE IInv'
<1>1. /\ run.pc = "link" /\ run.pc \in Rendering /\ Goto("heal") /\ active' = run.who
      /\ site' = site \cup (current[run.who].files \cap HomeRender)
      /\ UNCHANGED <<tree, current, pending, count, history>>
  BY DEF LinkHome, Rendering, Stamped
<1>2. live' \in [kind: {"none", "dir", "link"}, pkgs: SUBSET Package, lock: BOOLEAN]
  <2>1. live \in [kind: {"none", "dir", "link"}, pkgs: SUBSET Package, lock: BOOLEAN]
    BY DEF IInv, TypeInv, TypeOK
  <2>2. live' = live \/ live' = [live EXCEPT !.kind = "link"]
    BY DEF LinkHome
  <2> QED BY <2>1, <2>2
<1>10. linked' \in [Profile -> {"none", "legacy", "current"}]
  BY DEF LinkHome, LinkProfiles, IInv, TypeInv, TypeOK
<1>3. run.who \in DOMAIN current /\ run.who \in Profile /\ run.at = NoProfile
  BY <1>1, WhoHas
<1>4. /\ run' \in Command
      /\ run'.pc = "heal" /\ run'.who = run.who /\ run'.at = run.at /\ run'.answers = run.answers
      /\ run'.stamp = run.stamp /\ run'.pruned = run.pruned /\ run'.from = run.from
      /\ run'.dangled = run.dangled /\ run'.quiet = run.quiet
  BY <1>1, GotoDoes DEF IInv, TypeInv, Pc
<1>5. TypeInv'
  BY <1>1, <1>2, <1>10, <1>3, <1>4, MachineTyped DEF IInv, TypeInv, TypeOK
<1>6. Placed'
  BY <1>1, <1>3, <1>4 DEF IInv, Placed, Migrating, Rendering, Stamped
<1>7. Legacy' /\ OneDocument' /\ StampRight' /\ QuietRight'
  BY <1>1, <1>4 DEF IInv, Legacy, OneDocument, StampRight, QuietRight, Rendering, Stamped, tree, history
<1>8. Dissolved' /\ Healing'
  BY <1>1, <1>4 DEF IInv, Dissolved, Healing, history
<1>9. AnswersKept' /\ PackagesKept'
  BY <1>1, SameAnswers, SamePackages DEF IInv, tree, history
<1> QED BY <1>5, <1>6, <1>7, <1>8, <1>9 DEF IInv

\* The links that led to what was pruned go, and with them all this run dangled.
LEMMA PruneSitesKeeps == ASSUME IInv, PruneSites PROVE IInv'
<1>1. /\ run.pc = "heal" /\ run.pc \in Rendering /\ Goto("activate")
      /\ site' = site \ (run.pruned \cap Dangling)
      /\ UNCHANGED <<tree, current, linked, live, active, pending, count, history>>
  BY DEF PruneSites, Rendering, Stamped
<1>2. run.who \in DOMAIN current /\ run.who \in Profile /\ run.at = NoProfile /\ active = run.who
  BY <1>1, WhoHas DEF IInv, Placed
<1>3. Dangling = site \ current[run.who].files
  BY <1>2 DEF Dangling
<1>4. /\ run' \in Command
      /\ run'.pc = "activate" /\ run'.who = run.who /\ run'.at = run.at /\ run'.answers = run.answers
      /\ run'.stamp = run.stamp /\ run'.pruned = run.pruned /\ run'.from = run.from
      /\ run'.dangled = run.dangled /\ run'.quiet = run.quiet
  BY <1>1, GotoDoes DEF IInv, TypeInv, Pc
<1>5. TypeInv'
  BY <1>1, <1>4, MachineTyped DEF IInv, TypeInv, TypeOK
<1>6. Placed'
  BY <1>1, <1>2, <1>4 DEF IInv, Placed, Migrating, Rendering, Stamped
<1>7. Legacy' /\ OneDocument' /\ StampRight' /\ QuietRight'
  BY <1>1, <1>4 DEF IInv, Legacy, OneDocument, StampRight, QuietRight, Rendering, Stamped, tree, history
<1>8. Dissolved' /\ Healing'
  BY <1>1, <1>3, <1>4 DEF IInv, Dissolved, Healing, history
<1>9. AnswersKept' /\ PackagesKept'
  BY <1>1, SameAnswers, SamePackages DEF IInv, tree, history
<1> QED BY <1>5, <1>6, <1>7, <1>8, <1>9 DEF IInv

LEMMA ActivateKeeps == ASSUME IInv, Activate PROVE IInv'
<1>1. /\ run.pc = "activate" /\ run.pc \in Rendering /\ run' = Idle
      /\ active' = run.who /\ pending' = NoProfile
      /\ UNCHANGED <<tree, current, linked, live, site, count, history>>
  BY DEF Activate, Rendering, Stamped
<1>2. run.who \in Profile /\ active = run.who /\ run.at = NoProfile
  BY <1>1, WhoHas DEF IInv, Placed
<1>3. run' \in Command /\ Placed' /\ Legacy' /\ OneDocument' /\ StampRight' /\ QuietRight' /\ Healing'
  BY <1>1, <1>2, IdleKeeps DEF tree, history
<1>4. TypeInv'
  BY <1>1, <1>2, <1>3, MachineTyped DEF IInv, TypeInv, TypeOK
<1>5. Dissolved'
  BY <1>1, <1>2, IdleTyped DEF IInv, Dissolved, history
<1>6. AnswersKept' /\ PackagesKept'
  BY <1>1, SameAnswers, SamePackages DEF IInv, tree, history
<1> QED BY <1>3, <1>4, <1>5, <1>6 DEF IInv

\* A run that dies cuts the profile it was for and the one it was migrating.
LEMMA StopKeeps == ASSUME IInv, Stop PROVE IInv'
<1>1. /\ run.pc # "idle" /\ run' = Idle /\ cut' = cut \cup ({run.who, run.at} \ {NoProfile})
      /\ UNCHANGED <<tree, live, site, active, pending, runs, pulls, truth, owned>>
  BY DEF Stop, IInv, Placed
<1>2. /\ DOMAIN current' = DOMAIN current
      /\ \A q \in DOMAIN current' : current'[q] \in Dir
      /\ \A q \in DOMAIN current : /\ current'[q].meta = current[q].meta
                                   /\ current'[q].old = current[q].old
                                   /\ current'[q].layer = current[q].layer
                                   /\ current'[q].config = current[q].config
  <2>1. CASE run.pc = "render"
    <3>1. PICK S \in SUBSET Plan(run.answers) :
             Set(run.who, [current[run.who] EXCEPT !.files = @ \cup S])
      BY <2>1 DEF Stop
    <3> DEFINE d == current[run.who]
               e == [d EXCEPT !.files = @ \cup S]
    <3>2. run.who \in DOMAIN current /\ d \in Dir
      BY <2>1, WhoHas DEF Rendering, Stamped
    <3>3. /\ e \in Dir /\ e.old = d.old /\ e.meta = d.meta /\ e.layer = d.layer /\ e.config = d.config
      BY <3>2 DEF Dir, Plan, Selected
    <3>4. Set(run.who, e)
      BY <3>1
    <3> HIDE DEF e
    <3>5. /\ DOMAIN current' = DOMAIN current /\ current'[run.who] = e
          /\ \A q \in DOMAIN current \ {run.who} : current'[q] = current[q]
          /\ \A q \in DOMAIN current' : current'[q] \in Dir
      BY <3>2, <3>3, <3>4, SetDoes DEF IInv, TypeInv
    <3> QED BY <3>2, <3>3, <3>5
  <2>2. CASE run.pc # "render"
    BY <2>2 DEF Stop, IInv, TypeInv, TypeOK
  <2> QED BY <2>1, <2>2
<1>3. run' \in Command /\ Placed' /\ Legacy' /\ OneDocument' /\ StampRight' /\ QuietRight' /\ Healing'
  BY <1>1, <1>2, IdleKeeps DEF tree, machine
<1>4. TypeInv'
  <2>1. DOMAIN current' \subseteq Profile
    BY <1>2 DEF IInv, TypeInv, TypeOK
  <2>2. DOMAIN legacy' \subseteq Profile /\ \A q \in DOMAIN legacy' : legacy'[q] \in Dir
    BY <1>1 DEF IInv, TypeInv, TypeOK, tree
  <2>3. {legacyDir, stray, stow, home}' \subseteq BOOLEAN
    BY <1>1 DEF IInv, TypeInv, TypeOK, tree
  <2>4. {active, pending, run.who, run.at}' \subseteq Profile \cup {NoProfile}
        /\ run'.pc \in Pc /\ run'.answers \in Answers
    BY <1>1, <1>3 DEF IInv, TypeInv, TypeOK, Command, machine
  <2>5. cut' \subseteq Profile
    BY <1>1 DEF IInv, TypeInv, TypeOK
  <2>7. linked' \in [Profile -> {"none", "legacy", "current"}]
    BY DEF Stop, LinkProfiles, IInv, TypeInv, TypeOK
  <2>6. /\ live' \in [kind: {"none", "dir", "link"}, pkgs: SUBSET Package, lock: BOOLEAN]
        /\ site' \subseteq HomeRender
        /\ truth' \in [Profile -> SUBSET Document] /\ owned' \in [Profile -> SUBSET Package]
    BY <1>1 DEF IInv, TypeInv, TypeOK, machine
  <2> QED BY <1>2, <1>3, <2>1, <2>2, <2>3, <2>4, <2>5, <2>6, <2>7 DEF TypeInv, TypeOK
<1>5. Dissolved'
  <2>1. run'.pc = "idle"
    BY <1>1, IdleTyped
  <2>2. ASSUME NEW q \in DOMAIN current, q \notin cut'
        PROVE  current[q].layer = "none" /\ current[q].old = {}
    <3>1. q \notin cut /\ q # run.at
      BY <1>1, <2>2, NoProfileAssumption DEF IInv, TypeInv, TypeOK
    <3> QED BY <2>2, <3>1 DEF IInv, Dissolved
  <2> QED BY <1>2, <2>1, <2>2 DEF Dissolved
<1>6. AnswersKept'
  <2>1. \A q \in DOMAIN current : AnswersOf(current'[q]) = AnswersOf(current[q])
    BY <1>2 DEF AnswersOf
  <2> QED BY <1>1, <1>2, <2>1, SameAnswers DEF IInv, tree
<1>7. PackagesKept'
  BY <1>1, <1>2, SamePackages DEF IInv
<1> QED BY <1>3, <1>4, <1>5, <1>6, <1>7 DEF IInv

LEMMA UserAddsKeeps == ASSUME IInv, NEW p \in Profile, NEW k \in Package, UserAdds(p, k) PROVE IInv'
<1> DEFINE d == current[p]
           config == {c \cup {k} : c \in d.config}
           e == [d EXCEPT !.config = config]
<1>1. /\ run = Idle /\ p \in DOMAIN current /\ d.config # {} /\ d \in Dir
      /\ owned' = [owned EXCEPT ![p] = @ \cup {k}] /\ owned \in [Profile -> SUBSET Package]
      /\ UNCHANGED <<tree, machine, run, pending, count, truth, cut>>
  BY DEF UserAdds, Has, IInv, TypeInv, TypeOK
<1>2. Set(p, e)
  BY DEF UserAdds
<1>3. d.config \in SUBSET SUBSET Package
  BY <1>1 DEF Dir
<1>4. /\ \A c \in d.config : c \cup {k} \in config
      /\ config \in SUBSET SUBSET Package
  <2> DEFINE old == d.config
  <2>1. old \in SUBSET SUBSET Package /\ config = {c \cup {k} : c \in old}
    BY <1>3
  <2> HIDE DEF config, old
  <2>2. \A c \in old : c \cup {k} \in config
    BY <2>1
  <2>3. \A x \in config : x \in SUBSET Package
    BY <2>1
  <2> QED BY <2>2, <2>3 DEF old
<1> HIDE DEF config
<1>5. /\ e \in Dir /\ e.old = d.old /\ e.meta = d.meta /\ e.layer = d.layer
      /\ e.files = d.files /\ e.created = d.created /\ e.config = config
  BY <1>1, <1>4 DEF Dir
<1> HIDE DEF e
<1>6. /\ DOMAIN current' = DOMAIN current /\ current'[p] = e
      /\ \A q \in DOMAIN current \ {p} : current'[q] = current[q]
      /\ \A q \in DOMAIN current' : current'[q] \in Dir
  BY <1>1, <1>2, <1>5, SetDoes DEF IInv, TypeInv
<1>7. /\ owned' \in [Profile -> SUBSET Package]
      /\ owned'[p] = owned[p] \cup {k}
      /\ \A q \in Profile \ {p} : owned'[q] = owned[q]
  BY <1>1
<1>8. PackagesKept'
  <2>1. ASSUME NEW l \in owned'[p] PROVE \E c \in config : l \in c
    <3>1. PICK c \in d.config : l \in owned[p] => l \in c
      BY <1>1 DEF IInv, PackagesKept, Config, Has
    <3>2. l \in c \cup {k} /\ c \cup {k} \in config
      BY <1>4, <1>7, <2>1, <3>1
    <3> QED BY <3>2
  <2>2. \A l \in owned'[p] : \E c \in current'[p].config : l \in c
    BY <1>5, <1>6, <2>1
  <2> QED BY <1>1, <1>6, <1>7, <2>2, MorePackages DEF IInv
<1> HIDE DEF d
<1>9. run.pc = "idle" /\ run'.pc = "idle" /\ run' = run
  BY <1>1, IdleTyped
<1>10. TypeInv'
  <2>1. DOMAIN current' \subseteq Profile
    BY <1>6 DEF IInv, TypeInv, TypeOK
  <2>2. DOMAIN legacy' \subseteq Profile /\ \A q \in DOMAIN legacy' : legacy'[q] \in Dir
    BY <1>1 DEF IInv, TypeInv, TypeOK, tree
  <2>3. {legacyDir, stray, stow, home}' \subseteq BOOLEAN
    BY <1>1 DEF IInv, TypeInv, TypeOK, tree
  <2>4. {active, pending, run.who, run.at}' \subseteq Profile \cup {NoProfile}
        /\ run' \in Command /\ run'.pc \in Pc /\ run'.answers \in Answers
    BY <1>1 DEF IInv, TypeInv, TypeOK, machine
  <2>5. /\ live' \in [kind: {"none", "dir", "link"}, pkgs: SUBSET Package, lock: BOOLEAN]
        /\ linked' \in [Profile -> {"none", "legacy", "current"}]
        /\ site' \subseteq HomeRender
        /\ truth' \in [Profile -> SUBSET Document]
        /\ cut' \subseteq Profile
    BY <1>1 DEF IInv, TypeInv, TypeOK, machine
  <2> QED BY <1>6, <1>7, <2>1, <2>2, <2>3, <2>4, <2>5 DEF TypeInv, TypeOK
<1>11. Placed'
  BY <1>1, <1>6, <1>9 DEF IInv, Placed, Migrating, Rendering, Stamped, machine
<1>12. Legacy' /\ OneDocument' /\ StampRight' /\ QuietRight' /\ Healing'
  BY <1>1, <1>9 DEF IInv, Legacy, OneDocument, StampRight, QuietRight, Healing, Stamped, tree
<1>13. AnswersKept'
  <2>1. \A q \in DOMAIN current : AnswersOf(current'[q]) = AnswersOf(current[q])
    BY <1>5, <1>6 DEF AnswersOf, d
  <2> QED BY <1>1, <1>6, <2>1, SameAnswers DEF IInv, tree
<1>14. Dissolved'
  BY <1>1, <1>5, <1>6, <1>9 DEF IInv, Dissolved, d
<1> QED BY <1>8, <1>10, <1>11, <1>12, <1>13, <1>14 DEF IInv

LEMMA PullLegacyKeeps ==
    ASSUME IInv, NEW p \in Profile, NEW d \in StartDirs, PullLegacy(p, d) PROVE IInv'
<1>1. /\ run = Idle /\ p \notin DOMAIN legacy /\ legacyDir' = TRUE /\ stow' = TRUE
      /\ UNCHANGED <<stray, home, current, machine, run, pending, owned, cut>>
      /\ d \in Dir /\ run.pc = "idle" /\ run.at = NoProfile
  BY StartAssumption, IdleTyped DEF PullLegacy
<1>2. /\ DOMAIN legacy' = DOMAIN legacy \cup {p} /\ legacy'[p] = d
      /\ \A q \in DOMAIN legacy : legacy'[q] = legacy[q]
  BY <1>1 DEF PullLegacy
<1>3. /\ truth \in [Profile -> SUBSET Document]
      /\ truth' = [truth EXCEPT ![p] = AnswersIn(current, legacy', p)]
  BY DEF PullLegacy, IInv, TypeInv, TypeOK
<1>4. /\ truth'[p] = AnswersIn(current, legacy', p)
      /\ \A q \in Profile \ {p} : truth'[q] = truth[q]
  BY <1>3
<1>5. \A q \in Profile : AnswersIn(current, legacy, q) = truth[q]
  BY DEF IInv, AnswersKept, RepoAnswers
<1>6. /\ truth'[p] = truth[p] \/ truth'[p] = AnswersOf(d)
      /\ AnswersOf(d) \in SUBSET Document
      /\ \A one, other \in AnswersOf(d) : one = other
  <2>1. d.meta \in SUBSET Document /\ d.old \in SUBSET Document
    BY <1>1 DEF Dir
  <2>2. truth'[p] = truth[p] \/ truth'[p] = AnswersOf(d)
    BY <1>1, <1>2, <1>4, <1>5 DEF AnswersIn
  <2> QED BY <2>1, <2>2, StartAssumption DEF AnswersOf
<1>7. TypeInv'
  <2>1. /\ DOMAIN current' \subseteq Profile /\ \A q \in DOMAIN current' : current'[q] \in Dir
        /\ DOMAIN legacy' \subseteq Profile /\ \A q \in DOMAIN legacy' : legacy'[q] \in Dir
    BY <1>1, <1>2 DEF IInv, TypeInv, TypeOK
  <2>2. {legacyDir, stray, stow, home}' \subseteq BOOLEAN
    BY <1>1 DEF IInv, TypeInv, TypeOK
  <2>3. {active, pending, run.who, run.at}' \subseteq Profile \cup {NoProfile}
        /\ run' \in Command /\ run'.pc \in Pc /\ run'.answers \in Answers
    BY <1>1 DEF IInv, TypeInv, TypeOK, machine
  <2>4. truth' \in [Profile -> SUBSET Document]
    BY <1>3, <1>4, <1>6
  <2>5. /\ live' \in [kind: {"none", "dir", "link"}, pkgs: SUBSET Package, lock: BOOLEAN]
        /\ linked' \in [Profile -> {"none", "legacy", "current"}]
        /\ site' \subseteq HomeRender
        /\ owned' \in [Profile -> SUBSET Package]
        /\ cut' \subseteq Profile
    BY <1>1 DEF IInv, TypeInv, TypeOK, machine
  <2> QED BY <2>1, <2>2, <2>3, <2>4, <2>5 DEF TypeInv, TypeOK
<1>8. Placed'
  BY <1>1 DEF IInv, Placed, Migrating, Rendering, Stamped, machine
<1>9. Legacy'
  BY <1>1, <1>2 DEF IInv, Legacy, Rendering, Stamped
<1>10. OneDocument'
  BY <1>1, <1>4, <1>6 DEF IInv, OneDocument
<1>11. AnswersKept'
  <2> SUFFICES ASSUME NEW q \in Profile PROVE AnswersIn(current', legacy', q) = truth'[q]
    BY DEF AnswersKept, RepoAnswers
  <2>1. CASE q = p
    BY <1>1, <1>4, <2>1
  <2>2. CASE q # p
    BY <1>1, <1>2, <1>4, <1>5, <2>2 DEF AnswersIn
  <2> QED BY <2>1, <2>2
<1>12. PackagesKept'
  BY <1>1, SamePackages DEF IInv
<1>13. StampRight' /\ QuietRight' /\ Dissolved' /\ Healing'
  BY <1>1 DEF IInv, StampRight, QuietRight, Dissolved, Healing, Stamped
<1> QED BY <1>7, <1>8, <1>9, <1>10, <1>11, <1>12, <1>13 DEF IInv

LEMMA RemoveClashKeeps == ASSUME IInv, RemoveClash PROVE IInv'
<1>1. /\ run = Idle /\ run.pc = "idle" /\ run.at = NoProfile
      /\ UNCHANGED <<legacyDir, home, current, machine, run, pending, count, owned, cut>>
      /\ truth' = [p \in Profile |-> AnswersIn(current, legacy', p)]
  BY IdleTyped DEF RemoveClash
<1>2. /\ DOMAIN legacy' \subseteq DOMAIN legacy
      /\ \A q \in DOMAIN legacy' : legacy'[q] = legacy[q]
  BY DEF RemoveClash
<1>3. stray' \in BOOLEAN /\ stow' \in BOOLEAN
  <2>1. stray \in BOOLEAN /\ stow \in BOOLEAN
    BY DEF IInv, TypeInv, TypeOK
  <2> QED BY <2>1, Zenon DEF RemoveClash
<1>4. \A q \in Profile : /\ AnswersIn(current, legacy', q) \in SUBSET Document
                         /\ \A one, other \in AnswersIn(current, legacy', q) : one = other
  <2> SUFFICES ASSUME NEW q \in Profile
               PROVE  /\ AnswersIn(current, legacy', q) \in SUBSET Document
                      /\ \A one, other \in AnswersIn(current, legacy', q) : one = other
    OBVIOUS
  <2>1. AnswersIn(current, legacy, q) = truth[q] /\ truth[q] \in SUBSET Document
        /\ \A one, other \in truth[q] : one = other
    BY DEF IInv, AnswersKept, RepoAnswers, OneDocument, TypeInv, TypeOK
  <2>2. AnswersIn(current, legacy', q) = AnswersIn(current, legacy, q) \/ AnswersIn(current, legacy', q) = {}
    BY <1>2 DEF AnswersIn
  <2> QED BY <2>1, <2>2
<1>5. TypeInv'
  <2>1. /\ DOMAIN current' \subseteq Profile /\ \A q \in DOMAIN current' : current'[q] \in Dir
        /\ DOMAIN legacy' \subseteq Profile /\ \A q \in DOMAIN legacy' : legacy'[q] \in Dir
    BY <1>1, <1>2 DEF IInv, TypeInv, TypeOK
  <2>2. {legacyDir, stray, stow, home}' \subseteq BOOLEAN
    BY <1>1, <1>3 DEF IInv, TypeInv, TypeOK
  <2>3. {active, pending, run.who, run.at}' \subseteq Profile \cup {NoProfile}
        /\ run' \in Command /\ run'.pc \in Pc /\ run'.answers \in Answers
    BY <1>1 DEF IInv, TypeInv, TypeOK, machine
  <2>4. truth' \in [Profile -> SUBSET Document]
    BY <1>1, <1>4
  <2>5. /\ live' \in [kind: {"none", "dir", "link"}, pkgs: SUBSET Package, lock: BOOLEAN]
        /\ linked' \in [Profile -> {"none", "legacy", "current"}]
        /\ site' \subseteq HomeRender
        /\ owned' \in [Profile -> SUBSET Package]
        /\ cut' \subseteq Profile
    BY <1>1 DEF IInv, TypeInv, TypeOK, machine
  <2> QED BY <2>1, <2>2, <2>3, <2>4, <2>5 DEF TypeInv, TypeOK
<1>6. Placed'
  BY <1>1 DEF IInv, Placed, Migrating, Rendering, Stamped, machine
<1>7. Legacy'
  BY <1>1, <1>2 DEF IInv, Legacy, Rendering, Stamped
<1>8. OneDocument'
  BY <1>1, <1>4 DEF IInv, OneDocument
<1>9. AnswersKept'
  BY <1>1 DEF AnswersKept, RepoAnswers
<1>10. PackagesKept'
  BY <1>1, SamePackages DEF IInv
<1>11. StampRight' /\ QuietRight' /\ Dissolved' /\ Healing'
  BY <1>1 DEF IInv, StampRight, QuietRight, Dissolved, Healing, Stamped
<1> QED BY <1>5, <1>6, <1>7, <1>8, <1>9, <1>10, <1>11 DEF IInv

LEMMA StutterKeeps == ASSUME IInv, UNCHANGED vars PROVE IInv'
<1>1. UNCHANGED <<tree, current, machine, run, pending, count, history>>
  BY DEF vars, tree, machine, count, history
<1>2. TypeInv'
  BY <1>1, TypeKeeps DEF IInv, TypeInv, TypeOK
<1>3. Placed'
  BY <1>1 DEF IInv, Placed, machine
<1>4. Legacy' /\ OneDocument' /\ StampRight' /\ QuietRight' /\ Dissolved' /\ Healing'
  BY <1>1 DEF IInv, Legacy, OneDocument, StampRight, QuietRight, Dissolved, Healing, tree, machine, history
<1>5. AnswersKept' /\ PackagesKept'
  BY <1>1, SameAnswers, SamePackages DEF IInv, tree, history
<1> QED BY <1>2, <1>3, <1>4, <1>5 DEF IInv

LEMMA RerunBegins == ASSUME IInv, NEW r \in Runs, NEW inside \in BOOLEAN, Rerun(r, inside) PROVE IInv'
<1>1. pending \in Profile
  BY DEF Rerun, IInv, TypeInv, TypeOK
<1>2. PICK p \in Profile : p = pending
  BY <1>1
<1>3. run = Idle /\ Begin(p, r, inside)
  BY <1>2 DEF Rerun
<1> QED BY <1>3, BeginKeeps

LEMMA MigrateKeeps == ASSUME IInv, Migrate PROVE IInv'
BY FindLayoutKeeps, LiftKeeps, DissolveKeeps, MergeDocumentsKeeps, ForgetOldKeeps, RemoveLegacyKeeps,
   RenameTreeKeeps, RefuseKeeps DEF Migrate

LEMMA RenderRepositoryKeeps == ASSUME IInv, RenderRepository PROVE IInv'
BY MetadataKeeps, SeedKeeps, SeedLockKeeps, RenderKeeps, PruneKeeps, SaveAnswersKeeps, ComposeKeeps
   DEF RenderRepository

LEMMA StepKeeps == ASSUME IInv, Step PROVE IInv'
BY MigrateKeeps, RenderRepositoryKeeps, LinkHomeKeeps, PruneSitesKeeps, ActivateKeeps DEF Step

LEMMA NextKeeps == ASSUME IInv, [Next]_vars PROVE IInv'
<1>1. CASE \E p \in Profile, r \in Runs, inside \in BOOLEAN : Start(p, r, inside)
  BY <1>1, BeginKeeps DEF Start
<1>2. CASE \E r \in Runs, inside \in BOOLEAN : Rerun(r, inside)
  BY <1>2, RerunBegins
<1>3. CASE Step
  BY <1>3, StepKeeps
<1>4. CASE Stop
  BY <1>4, StopKeeps
<1>5. CASE \E p \in Profile, k \in Package : UserAdds(p, k)
  BY <1>5, UserAddsKeeps
<1>6. CASE \E p \in Profile, d \in StartDirs : PullLegacy(p, d)
  BY <1>6, PullLegacyKeeps
<1>7. CASE RemoveClash
  BY <1>7, RemoveClashKeeps
<1>8. CASE UNCHANGED vars
  BY <1>8, StutterKeeps
<1> QED BY <1>1, <1>2, <1>3, <1>4, <1>5, <1>6, <1>7, <1>8 DEF Next

LEMMA Starts == ASSUME Init PROVE IInv
<1>1. /\ DOMAIN legacy \subseteq Profile
      /\ \A p \in DOMAIN legacy : legacy[p] \in StartDirs /\ legacy[p] \in Dir
  BY StartAssumption DEF Init
<1>2. /\ DOMAIN current = {} /\ site = {} /\ active = NoProfile /\ run = Idle /\ pending = NoProfile
      /\ cut = {} /\ owned = [p \in Profile |-> {}]
      /\ truth = [p \in Profile |-> IF p \in DOMAIN legacy THEN AnswersOf(legacy[p]) ELSE {}]
  BY DEF Init
<1>3. run \in Command /\ run.pc = "idle" /\ run.at = NoProfile /\ run.quiet = {}
  BY <1>2, IdleTyped
<1>4. \A p \in DOMAIN legacy : /\ AnswersOf(legacy[p]) \in SUBSET Document
                               /\ \A one, other \in AnswersOf(legacy[p]) : one = other
  BY <1>1, StartAssumption DEF AnswersOf, Dir
<1>5. TypeInv
  <2>1. {legacyDir, stray, stow, home} \subseteq BOOLEAN
    <3>1. legacyDir \in BOOLEAN /\ stray \in BOOLEAN /\ home \in BOOLEAN /\ stow = legacyDir
      BY Zenon DEF Init
    <3> QED BY <3>1
  <2>2. live \in [kind: {"none", "dir", "link"}, pkgs: SUBSET Package, lock: BOOLEAN]
    <3>1. live \in [kind: StartLive, pkgs: {Package}, lock: {TRUE}]
      BY DEF Init
    <3>2. StartLive \subseteq {"none", "dir", "link"} /\ Package \in SUBSET Package
      BY StartAssumption
    <3> QED BY <3>1, <3>2
  <2>5. linked \in [Profile -> {"none", "legacy", "current"}]
    BY DEF Init
  <2>3. {active, pending, run.who, run.at} \subseteq Profile \cup {NoProfile}
        /\ run.pc \in Pc /\ run.answers \in Answers
    BY <1>2, <1>3 DEF Command
  <2>4. truth \in [Profile -> SUBSET Document] /\ owned \in [Profile -> SUBSET Package]
    BY <1>2, <1>4
  <2> QED BY <1>1, <1>2, <1>3, <2>1, <2>2, <2>3, <2>4, <2>5 DEF TypeInv, TypeOK
<1>6. Placed
  BY <1>2, <1>3 DEF Placed, Migrating, Rendering, Stamped
<1>7. Legacy
  <2>1. legacyDir = (DOMAIN legacy # {})
    BY DEF Init
  <2> QED BY <1>1, <1>3, <2>1 DEF Legacy, Rendering, Stamped
<1>8. OneDocument
  BY <1>2, <1>3, <1>4 DEF OneDocument
<1>9. AnswersKept
  BY <1>2 DEF AnswersKept, RepoAnswers, AnswersIn
<1>10. PackagesKept /\ StampRight /\ QuietRight /\ Dissolved /\ Healing
  BY <1>2, <1>3 DEF PackagesKept, StampRight, QuietRight, Dissolved, Healing, Stamped
<1> QED BY <1>5, <1>6, <1>7, <1>8, <1>9, <1>10 DEF IInv

\* At every moment, however often init was started, died and was repeated: the
\* invariant the properties follow from.
THEOREM Inductive == Spec => []IInv
<1>1. Init => IInv
  BY Starts
<1>2. IInv /\ [Next]_vars => IInv'
  BY NextKeeps
<1> QED BY <1>1, <1>2, PTL DEF Spec

\* Every variable keeps its type: directories are directories with documents that
\* answer questions, the run is one of init's.
THEOREM TypeCorrect == Spec => []TypeOK
<1>1. IInv => TypeOK
  BY DEF IInv, TypeInv
<1> QED BY <1>1, Inductive, PTL

\* A profile's answers are found to be those it was last given, and the packages the
\* user declared are in its configuration, wherever migrations, saves and deaths of
\* init have left its files.
THEOREM ProfileSurvives == Spec => []ProfileKept
<1>1. IInv => ProfileKept
  BY DEF IInv, ProfileKept
<1> QED BY <1>1, Inductive, PTL

-----------------------------------------------------------------------------
\* The action properties.

\* Only saving changes what a profile was given while a run is at it.
LEMMA SavesOnly ==
    ASSUME IInv, [Next]_vars, run.pc = "save", truth' # truth
    PROVE  SaveAnswers
<1>1. run # Idle
  BY IdleTyped
<1>2. /\ ~(\E p \in Profile, r \in Runs, inside \in BOOLEAN : Start(p, r, inside))
      /\ ~(\E r \in Runs, inside \in BOOLEAN : Rerun(r, inside))
  BY <1>1 DEF Start, Rerun
<1>3. ~(\E p \in Profile, k \in Package : UserAdds(p, k))
      /\ ~(\E p \in Profile, d \in StartDirs : PullLegacy(p, d)) /\ ~RemoveClash
  BY <1>1 DEF UserAdds, PullLegacy, RemoveClash
<1>4. ~Stop /\ ~UNCHANGED vars
  BY DEF Stop, vars
<1>5. ~Migrate
  BY DEF Migrate, FindLayout, Lift, Dissolve, MergeDocuments, ForgetOld, RemoveLegacy, RenameTree,
         Refuse, Refused, history
<1>6. ~LinkHome /\ ~PruneSites /\ ~Activate
  BY DEF LinkHome, PruneSites, Activate
<1>7. ~Metadata /\ ~Seed /\ ~SeedLock /\ ~Render /\ ~Prune /\ ~Compose
  BY DEF Metadata, Seed, SeedLock, Render, Prune, Compose, history
<1> QED BY <1>2, <1>3, <1>4, <1>5, <1>6, <1>7 DEF Next, Step, RenderRepository

LEMMA AnswersStay == ASSUME IInv, [Next]_vars PROVE AnswersStick
<1> SUFFICES ASSUME NEW doc \in run.quiet, run.pc = "save", truth' # truth, NEW q \in DOMAIN doc,
                    NEW new \in truth'[run'.who]
             PROVE  q \in DOMAIN new /\ new[q] = doc[q]
  BY DEF AnswersStick
<1>1. SaveAnswers
  BY SavesOnly
<1>2. run'.who = run.who /\ run.who \in Profile /\ run.answers \in Answers
  BY <1>1 DEF SaveAnswers, Goto, IInv, Placed, TypeInv, TypeOK, Command
<1>3. truth'[run.who] = {Save(run.answers)}
  BY <1>1, <1>2 DEF SaveAnswers, IInv, TypeInv, TypeOK
<1>4. doc[q] # "nil" /\ q \in Question /\ run.answers[q] = doc[q]
  BY DEF IInv, QuietRight
<1> QED BY <1>2, <1>3, <1>4, SaveTyped

\* A step that leaves each directory its creation time leaves every profile its own.
LEMMA SameCreated ==
    ASSUME DOMAIN current \subseteq DOMAIN current',
           \A q \in DOMAIN current : current[q].created # 0 => current'[q].created = current[q].created,
           \A q \in DOMAIN legacy \ DOMAIN current :
               IF q \in DOMAIN current' THEN current'[q].created = legacy[q].created
               ELSE legacy'[q].created = legacy[q].created
    PROVE  CreatedOnce
BY DEF CreatedOnce, Has

LEMMA WriteSameCreated ==
    ASSUME IInv, NEW p \in DOMAIN current, NEW e \in Dir, Set(p, e),
           current[p].created # 0 => e.created = current[p].created, legacy' = legacy
    PROVE  CreatedOnce
<1>1. /\ DOMAIN current' = DOMAIN current /\ current'[p] = e
      /\ \A q \in DOMAIN current \ {p} : current'[q] = current[q]
  BY SetDoes DEF IInv, TypeInv
<1>2. \A q \in DOMAIN current : current[q].created # 0 => current'[q].created = current[q].created
  BY <1>1
<1> QED BY <1>1, <1>2, SameCreated

LEMMA MigrateSameCreated == ASSUME IInv, Migrate PROVE CreatedOnce
<1>1. CASE FindLayout \/ RemoveLegacy \/ RenameTree \/ Refuse
  <2>1. UNCHANGED <<current, legacy>>
    BY <1>1 DEF FindLayout, RemoveLegacy, RenameTree, Refuse, tree
  <2> QED BY <2>1, SameCreated
<1>2. ASSUME NEW p \in Profile, Lift(p) PROVE CreatedOnce
  <2>1. /\ p \notin DOMAIN current
        /\ DOMAIN current' = DOMAIN current \cup {p}
        /\ current'[p] = legacy[p]
        /\ \A q \in DOMAIN current : current'[q] = current[q]
        /\ \A q \in DOMAIN legacy \ {p} : legacy'[q] = legacy[q]
    BY <1>2 DEF Lift, Without
  <2> QED BY <2>1, SameCreated
<1>3. CASE Dissolve \/ MergeDocuments \/ ForgetOld
  <2> DEFINE d == current[run.at]
  <2>1. run.at \in DOMAIN current /\ d \in Dir /\ legacy' = legacy
    BY <1>3 DEF Dissolve, MergeDocuments, ForgetOld, IInv, Placed, Migrating, TypeInv, TypeOK, tree
  <2>2. CASE Dissolve
    <3>1. CASE d.layer = "tree"
      <4> DEFINE e == [d EXCEPT !.layer = "loose", !.files = d.inner, !.inner = {}]
      <4>1. Set(run.at, e)
        BY <2>2, <3>1 DEF Dissolve
      <4>2. e \in Dir /\ e.created = d.created
        BY <2>1 DEF Dir, Layer
      <4> HIDE DEF e
      <4> QED BY <2>1, <4>1, <4>2, WriteSameCreated
    <3>2. CASE d.layer = "loose"
      <4> DEFINE e == [d EXCEPT !.layer = "empty"]
      <4>1. Set(run.at, e)
        BY <2>2, <3>2 DEF Dissolve
      <4>2. e \in Dir /\ e.created = d.created
        BY <2>1 DEF Dir, Layer
      <4> HIDE DEF e
      <4> QED BY <2>1, <4>1, <4>2, WriteSameCreated
    <3>3. CASE d.layer = "empty"
      <4> DEFINE e == [d EXCEPT !.layer = "none"]
      <4>1. Set(run.at, e)
        BY <2>2, <3>3 DEF Dissolve
      <4>2. e \in Dir /\ e.created = d.created
        BY <2>1 DEF Dir, Layer
      <4> HIDE DEF e
      <4> QED BY <2>1, <4>1, <4>2, WriteSameCreated
    <3>4. CASE d.layer = "none"
      <4>1. UNCHANGED current
        BY <2>2, <3>4 DEF Dissolve
      <4> QED BY <2>1, <4>1, SameCreated
    <3> QED BY <2>1, <3>1, <3>2, <3>3, <3>4 DEF Dir, Layer
  <2>3. CASE MergeDocuments
    <3> DEFINE e == [d EXCEPT !.meta = IF d.meta = {} THEN d.old ELSE d.meta]
    <3>1. d.meta = {} \/ d.old = {}
      BY <2>3 DEF MergeDocuments, IInv, OneDocument
    <3>2. Set(run.at, e)
      <4>1. CASE d.meta = {}
        BY <2>3, <4>1 DEF MergeDocuments
      <4>2. CASE d.meta # {}
        BY <2>3, <3>1, <4>2 DEF MergeDocuments
      <4> QED BY <4>1, <4>2
    <3>3. e \in Dir /\ e.created = d.created
      BY <2>1 DEF Dir
    <3> HIDE DEF e
    <3> QED BY <2>1, <3>2, <3>3, WriteSameCreated
  <2>4. CASE ForgetOld
    <3> DEFINE e == [d EXCEPT !.old = {}]
    <3>1. Set(run.at, e)
      BY <2>4 DEF ForgetOld
    <3>2. e \in Dir /\ e.created = d.created
      BY <2>1 DEF Dir
    <3> HIDE DEF e
    <3> QED BY <2>1, <3>1, <3>2, WriteSameCreated
  <2> QED BY <1>3, <2>2, <2>3, <2>4
<1> QED BY <1>1, <1>2, <1>3 DEF Migrate

LEMMA RenderSameCreated == ASSUME IInv, RenderRepository PROVE CreatedOnce
<1> DEFINE d == current[run.who]
<1>1. CASE Metadata
  <2>1. /\ DOMAIN current' = DOMAIN current \cup {run.who} /\ legacy' = legacy
        /\ \A q \in DOMAIN current : current'[q] = current[q]
        /\ DOMAIN legacy = {}
    BY <1>1 DEF Metadata, Has, tree, IInv, Legacy
  <2> QED BY <2>1, SameCreated
<1>2. CASE Seed \/ SeedLock \/ Render \/ Prune \/ SaveAnswers \/ Compose
  <2>1. run.pc \in Rendering /\ legacy' = legacy
    BY <1>2 DEF Seed, SeedLock, Render, Prune, SaveAnswers, Compose, Rendering, Stamped, tree
  <2>2. run.who \in DOMAIN current /\ d \in Dir
    BY <2>1, WhoHas
  <2>3. CASE Seed
    <3> DEFINE e == [d EXCEPT !.config = {live.pkgs}]
    <3>1. Set(run.who, e) \/ UNCHANGED current
      BY <2>3 DEF Seed
    <3>2. e \in Dir /\ e.created = d.created
      BY <2>2 DEF Dir, IInv, TypeInv, TypeOK
    <3> HIDE DEF e
    <3> QED BY <2>1, <2>2, <3>1, <3>2, WriteSameCreated, SameCreated
  <2>4. CASE SeedLock
    <3> DEFINE e == [d EXCEPT !.lock = live.lock]
    <3>1. Set(run.who, e)
      BY <2>4 DEF SeedLock
    <3>2. e \in Dir /\ e.created = d.created
      BY <2>2 DEF Dir, IInv, TypeInv, TypeOK
    <3> HIDE DEF e
    <3> QED BY <2>1, <2>2, <3>1, <3>2, WriteSameCreated
  <2>5. CASE Render
    <3> DEFINE files == d.files \cup Plan(run.answers)
               config == IF d.config = {} THEN {{}} ELSE d.config
               e == [d EXCEPT !.files = files, !.config = config]
    <3>1. Set(run.who, e)
      BY <2>5 DEF Render
    <3>2. files \in SUBSET Question /\ config \in SUBSET SUBSET Package
      BY <2>2 DEF Dir, Plan, Selected
    <3> HIDE DEF files, config
    <3>3. e \in Dir /\ e.created = d.created
      BY <2>2, <3>2 DEF Dir
    <3> HIDE DEF e
    <3> QED BY <2>1, <2>2, <3>1, <3>3, WriteSameCreated
  <2>6. CASE Prune
    <3>1. CASE UNCHANGED current
      BY <2>1, <3>1, SameCreated
    <3>2. CASE \E c \in d.files : Set(run.who, [d EXCEPT !.files = @ \ {c}])
      <4>1. PICK c \in d.files : Set(run.who, [d EXCEPT !.files = @ \ {c}])
        BY <3>2
      <4> DEFINE e == [d EXCEPT !.files = @ \ {c}]
      <4>2. Set(run.who, e)
        BY <4>1
      <4>3. e \in Dir /\ e.created = d.created
        BY <2>2 DEF Dir
      <4> HIDE DEF e
      <4> QED BY <2>1, <2>2, <4>2, <4>3, WriteSameCreated
    <3> QED BY <2>6, <3>1, <3>2 DEF Prune
  <2>7. CASE SaveAnswers
    <3> DEFINE doc == Save(run.answers)
               e == [d EXCEPT !.meta = {doc}, !.created = run.stamp]
    <3>1. Set(run.who, e)
      BY <2>7 DEF SaveAnswers
    <3>2. doc \in Document /\ run.stamp \in 0 .. 2
      <4>1. run.answers \in Answers /\ run.stamp \in 0 .. 2
        BY DEF IInv, TypeInv, Command
      <4> QED BY <4>1, SaveTyped
    <3>3. d.created # 0 => run.stamp = d.created
      BY <2>7 DEF SaveAnswers, IInv, StampRight, Stamped
    <3> HIDE DEF doc
    <3>4. e \in Dir /\ e.created = run.stamp
      BY <2>2, <3>2 DEF Dir
    <3> HIDE DEF e
    <3> QED BY <2>1, <2>2, <3>1, <3>3, <3>4, WriteSameCreated
  <2>8. CASE Compose
    <3>1. PICK new \in SUBSET Package :
             Set(run.who, [d EXCEPT !.config = {c \cup d.brew \cup new : c \in @}])
      BY <2>8 DEF Compose
    <3> DEFINE config == {c \cup d.brew \cup new : c \in d.config}
               e == [d EXCEPT !.config = config]
    <3>2. Set(run.who, e)
      BY <3>1
    <3>3. config \in SUBSET SUBSET Package
      <4>1. d.brew \in SUBSET Package /\ d.config \in SUBSET SUBSET Package
        BY <2>2 DEF Dir
      <4>2. \A x \in config : x \in SUBSET Package
        BY <4>1
      <4> QED BY <4>2
    <3> HIDE DEF config
    <3>4. e \in Dir /\ e.created = d.created
      BY <2>2, <3>3 DEF Dir
    <3> HIDE DEF e
    <3> QED BY <2>1, <2>2, <3>2, <3>4, WriteSameCreated
  <2> QED BY <1>2, <2>3, <2>4, <2>5, <2>6, <2>7, <2>8
<1> QED BY <1>1, <1>2 DEF RenderRepository

LEMMA StopSameCreated == ASSUME IInv, Stop PROVE CreatedOnce
<1> DEFINE d == current[run.who]
<1>1. legacy' = legacy
  BY DEF Stop, tree
<1>2. CASE run.pc = "render"
  <2>1. PICK S \in SUBSET Plan(run.answers) : Set(run.who, [d EXCEPT !.files = @ \cup S])
    BY <1>2 DEF Stop
  <2> DEFINE e == [d EXCEPT !.files = @ \cup S]
  <2>2. Set(run.who, e)
    BY <2>1
  <2>3. run.who \in DOMAIN current /\ d \in Dir
    BY <1>2, WhoHas DEF Rendering, Stamped
  <2>4. e \in Dir /\ e.created = d.created
    BY <2>3 DEF Dir, Plan, Selected
  <2> HIDE DEF e
  <2> QED BY <1>1, <2>2, <2>3, <2>4, WriteSameCreated
<1>3. CASE run.pc # "render"
  BY <1>1, <1>3, SameCreated DEF Stop
<1> QED BY <1>2, <1>3

LEMMA UserSameCreated ==
    ASSUME IInv, NEW p \in Profile, NEW k \in Package, UserAdds(p, k) PROVE CreatedOnce
<1> DEFINE d == current[p]
           config == {c \cup {k} : c \in d.config}
           e == [d EXCEPT !.config = config]
<1>1. Set(p, e) /\ p \in DOMAIN current /\ d \in Dir /\ legacy' = legacy
  BY DEF UserAdds, Has, IInv, TypeInv, TypeOK, tree
<1>2. config \in SUBSET SUBSET Package
  <2>1. d.config \in SUBSET SUBSET Package
    BY <1>1 DEF Dir
  <2>2. \A x \in config : x \in SUBSET Package
    BY <2>1
  <2> QED BY <2>2
<1> HIDE DEF config
<1>3. e \in Dir /\ e.created = d.created
  BY <1>1, <1>2 DEF Dir
<1> HIDE DEF e
<1> QED BY <1>1, <1>3, WriteSameCreated

LEMMA CreatedStays == ASSUME IInv, [Next]_vars PROVE CreatedOnce
<1>1. CASE \E p \in Profile, r \in Runs, inside \in BOOLEAN : Start(p, r, inside)
  BY <1>1, SameCreated DEF Start, Begin, tree
<1>2. CASE \E r \in Runs, inside \in BOOLEAN : Rerun(r, inside)
  BY <1>2, SameCreated DEF Rerun, Begin, tree
<1>3. CASE Migrate
  BY <1>3, MigrateSameCreated
<1>4. CASE RenderRepository
  BY <1>4, RenderSameCreated
<1>5. CASE LinkHome \/ PruneSites \/ Activate
  BY <1>5, SameCreated DEF LinkHome, PruneSites, Activate, tree
<1>6. CASE Stop
  BY <1>6, StopSameCreated
<1>7. CASE \E p \in Profile, k \in Package : UserAdds(p, k)
  BY <1>7, UserSameCreated
<1>8. ASSUME NEW p \in Profile, NEW d \in StartDirs, PullLegacy(p, d) PROVE CreatedOnce
  <2>1. UNCHANGED current /\ \A q \in DOMAIN legacy : legacy'[q] = legacy[q]
    BY <1>8 DEF PullLegacy
  <2> QED BY <2>1, SameCreated
<1>9. CASE RemoveClash
  <2>1. UNCHANGED current /\ \A q \in DOMAIN legacy \ DOMAIN current : legacy'[q] = legacy[q]
    BY <1>9 DEF RemoveClash
  <2> QED BY <2>1, SameCreated
<1>10. CASE UNCHANGED vars
  BY <1>10, SameCreated DEF vars
<1> QED BY <1>1, <1>2, <1>3, <1>4, <1>5, <1>6, <1>7, <1>8, <1>9, <1>10 DEF Next, Step

\* An init that completes has put the layout in order, and its links.
LEMMA CompletesInOrder == ASSUME IInv, [Next]_vars PROVE LayoutWhenDone /\ HealedWhenDone
<1> SUFFICES ASSUME run.pc = "activate", pending' = NoProfile
             PROVE  /\ ~legacyDir /\ ~stow /\ DOMAIN legacy = {}
                    /\ \A p \in DOMAIN current \ cut : current[p].layer = "none" /\ current[p].old = {}
                    /\ run.from = run.who => Dangling' \subseteq run.dangled
  BY DEF LayoutWhenDone, HealedWhenDone, Completes
<1>1. /\ run.pc \in Rendering /\ run.who \in DOMAIN current /\ run.who \in Profile /\ run.at = NoProfile
      /\ pending = run.who
  BY WhoHas DEF Rendering, IInv, Placed
<1>2. pending' # pending
  BY <1>1, NoProfileAssumption
<1>3. Activate
  <2>1. /\ ~(\E p \in Profile, r \in Runs, inside \in BOOLEAN : Start(p, r, inside))
        /\ ~(\E r \in Runs, inside \in BOOLEAN : Rerun(r, inside))
    BY IdleTyped DEF Start, Rerun
  <2>2. ~(\E p \in Profile, k \in Package : UserAdds(p, k))
        /\ ~(\E p \in Profile, d \in StartDirs : PullLegacy(p, d)) /\ ~RemoveClash
    BY <1>2 DEF UserAdds, PullLegacy, RemoveClash
  <2>3. ~Stop /\ ~UNCHANGED vars /\ ~LinkHome /\ ~PruneSites
    BY <1>2 DEF Stop, vars, LinkHome, PruneSites
  <2>4. ~Migrate
    BY <1>2 DEF Migrate, FindLayout, Lift, Dissolve, MergeDocuments, ForgetOld, RemoveLegacy, RenameTree,
                Refuse
  <2>5. ~RenderRepository
    BY <1>2 DEF RenderRepository, Metadata, Seed, SeedLock, Render, Prune, SaveAnswers, Compose
  <2> QED BY <2>1, <2>2, <2>3, <2>4, <2>5 DEF Next, Step
<1>4. ~legacyDir /\ ~stow /\ DOMAIN legacy = {}
  BY <1>1 DEF IInv, Legacy
<1>5. \A p \in DOMAIN current \ cut : current[p].layer = "none" /\ current[p].old = {}
  BY <1>1, NoProfileAssumption DEF IInv, Dissolved, TypeInv, TypeOK
<1>6. ASSUME run.from = run.who PROVE Dangling' \subseteq run.dangled
  <2>1. active' = run.who /\ current' = current /\ site' = site
    BY <1>3 DEF Activate
  <2>2. Dangling' = site \ current[run.who].files
    BY <1>1, <2>1 DEF Dangling
  <2> QED BY <1>6, <2>2 DEF IInv, Healing
<1> QED BY <1>4, <1>5, <1>6

\* Repeating init takes nothing back: a --yes run without flags, in the repository
\* or where the profile's link leads to it, changes no answer of the document the
\* repository holds, and every profile keeps the time it was created.
THEOREM NothingTakenBack == Spec => RerunKeeps
<1>1. IInv /\ [Next]_vars => [AnswersStick /\ CreatedOnce]_vars
  BY AnswersStay, CreatedStays
<1> QED BY <1>1, Inductive, PTL DEF Spec, RerunKeeps

\* An init that completes leaves nothing in the legacy places, every profile no run
\* was cut at dissolved, and no link dangling that did not dangle before.
THEOREM LeftInOrder == Spec => InOrderWhenDone
<1>1. IInv /\ [Next]_vars => [LayoutWhenDone /\ HealedWhenDone]_vars
  BY CompletesInOrder
<1> QED BY <1>1, Inductive, PTL DEF Spec, InOrderWhenDone
=============================================================================
