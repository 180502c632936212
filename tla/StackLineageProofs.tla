------------------------- MODULE StackLineageProofs -------------------------
(* Proofs about StackLineage, for any set of branches, any stack ids and any  *)
(* bounds on what the user and the commands do.                               *)
(*                                                                            *)
(* A command's tasks say what is to become of the refs and of the keys.  What *)
(* they may overwrite or delete is spare: trunk or the branch the command     *)
(* works for has its patches.  And the lineage is in order at two times only, *)
(* as it stands while no config write has been run, and as it will be once    *)
(* those that are left have been.                                             *)
EXTENDS StackLineage, FiniteSetTheorems, SequenceTheorems, WellFoundedInduction, TLAPS

-----------------------------------------------------------------------------
\* The inductive invariant.

Op == {"idle", "start", "append", "discover", "adopt", "expand", "undo", "merge", "absorb",
       "finish", "prune", "done", "remotes"}
Making == {"create", "start"}
Saving == {"set key", "set layers"}
Config == Saving \cup Unset
Removing == {"drop", "drop origin"} \cup Config

\* The tasks each command may have.
KindsOf ==
    [op \in Op |->
        CASE op = "idle"                  -> {}
          [] op \in {"start", "append"}   -> {"start", "push"} \cup Saving
          [] op \in {"discover", "adopt"} -> Saving
          [] op = "expand"                -> {"create", "detach", "reset"} \cup Saving
          [] op = "undo"                  -> {"reset", "drop"}
          [] op = "merge"                 -> {"rebase"}
          [] op = "absorb"                -> Removing
          [] op = "finish"                -> {"checkout", "push"}
          [] op = "prune"                 -> {"leave"} \cup Removing
          [] op = "done"                  -> {"drop"} \cup Config
          [] op = "remotes"               -> {"drop origin"}]

Task == [do : Kind, branch : Branch \cup {NoBranch}, onto : Branch \cup {Trunk, NoBranch},
         id : Id \cup {NoId}, list : Seq(Branch), hist : Seq(Commit)]
Run == [op : Op, todo : Seq(Task), stack : Seq(Branch), id : Id \cup {NoId}, left : SUBSET Branch,
        cur : Branch \cup {NoBranch}, cleanup : BOOLEAN, rebased : BOOLEAN, made : SUBSET Branch,
        orig : Seq(Commit) \cup {None}, was : SUBSET Branch]

\* The operands a task needs.
Formed(t) ==
    /\ t.do \notin {"detach", "set layers", "unset layers"} => t.branch \in Branch
    /\ t.do \in {"set key", "set layers", "unset layers"} => t.id \in Id
    /\ t.do = "unset layers" => t.list = <<>>
    /\ t.do = "leave" => t.onto # Trunk

Todo == ToSet(run.todo)

\* The variables apart from the command: HEAD is never on a branch that is gone, no list
\* has a branch twice.
DataInv ==
    /\ tip \in [Branch -> Seq(Commit) \cup {None}] /\ origin \in [Branch -> Seq(Commit) \cup {None}]
    /\ trunk \in Seq(Commit)
    /\ key \in [Branch -> Id \cup {NoId}]
    /\ layers \in [Id -> Seq(Branch)]
    /\ merged \subseteq Branch
    /\ head \in {Trunk, NoBranch} \/ (head \in Branch /\ Exists(head))
    /\ bound \in Bounds /\ made \in 0..bound.patch /\ work \subseteq 1..made
    /\ cut \in BOOLEAN
    /\ \A id \in Id : IsInjective(layers[id])

\* The command, and what its tasks need.
RunInv ==
    /\ run \in Run
    /\ \A t \in Todo : Formed(t) /\ t.do \in KindsOf[run.op]
    /\ run.op = "idle" => run = Idle
    /\ run.op \in {"merge", "absorb", "prune"} => IsInjective(run.stack) /\ run.id \in Id

\* A branch that is to be made is not there, and one to be rebased or checked out is.
RefInv ==
    /\ \A t \in Todo :
        /\ t.do \in Making => ~Exists(t.branch)
        /\ t.do \in {"rebase", "checkout"} => Exists(t.branch)
        /\ t.do = "rebase" /\ t.onto # Trunk => t.onto \in Branch /\ Exists(t.onto)
    /\ \A i, j \in DOMAIN run.todo :
        run.todo[i].do \in Making /\ run.todo[j].do \in Making /\ i # j => run.todo[i].branch # run.todo[j].branch
    /\ run.op \in {"expand", "undo", "merge", "absorb", "finish"} => run.cur \in Branch /\ Exists(run.cur)
    /\ run.op = "merge" => IF run.todo = <<>> THEN head = run.cur ELSE Last(run.todo).branch = run.cur
    /\ run.op = "absorb" => head = run.cur

\* A branch whose patches are on trunk, or in the branch the command works for.
Spare(b) == Patches(tip[b]) \subseteq
    Patches(trunk) \cup IF run.cur \in Branch \ {b} THEN Patches(tip[run.cur]) ELSE {}

\* What is or will be deleted is spare.
SpareInv ==
    /\ run.op \in {"absorb", "prune", "done"} => \A b \in run.left : Spare(b)
    /\ run.op # "remotes" => run.cur \notin run.left
    /\ \A t \in Todo : t.do = "drop" => Spare(t.branch) /\ t.branch # run.cur

\* An expand keeps all its patches in the branch it expands.
ExpandInv ==
    run.op \in {"expand", "undo"} =>
        /\ run.orig # None /\ Patches(tip[run.cur]) = Patches(run.orig)
        /\ \A b \in run.made : b # run.cur /\ Patches(tip[b]) \subseteq Patches(run.orig)
        /\ \A t \in Todo :
            /\ t.do = "reset" => t.branch = run.cur /\ Patches(t.hist) = Patches(run.orig)
            /\ t.do = "create" => Patches(t.hist) \subseteq Patches(run.orig)

\* The histories a branch may end with.
WillBe(b, hist) ==
    \/ \E t \in Todo : t.do \in {"create", "reset"} /\ t.branch = b /\ t.hist = hist
    \/ hist = tip[b] /\ \A t \in Todo : ~(t.do \in {"create", "reset"} /\ t.branch = b)

\* A list to be written, when nothing is left but that, is a chain by then.
ChainInv ==
    run.op \in {"discover", "expand"} =>
        /\ \A i, j \in DOMAIN run.todo : i <= j /\ run.todo[i].do \in Saving => run.todo[j].do \in Saving
        /\ \A t \in Todo : t.do = "set layers" =>
            \A j \in 2..Len(t.list) : \A lower, upper \in Seq(Commit) \cup {None} :
                WillBe(t.list[j - 1], lower) /\ WillBe(t.list[j], upper) => IsStrictPrefix(lower, upper)

\* What a key and a list will be once the tasks have been run.
KeyTo(b, id) ==
    \/ \E t \in Todo : t.do = "set key" /\ t.branch = b /\ t.id = id
    \/ key[b] = id /\ \A t \in Todo : t.do \in {"set key", "unset key"} => t.branch # b
Writes(t, id) == t.do \in {"set layers", "unset layers"} /\ t.id = id
Coming(id, list) ==
    \/ \E t \in Todo : Writes(t, id) /\ t.list = list
    \/ list = layers[id] /\ \A t \in Todo : ~Writes(t, id)

\* The config writes among the tasks come together, at most one of them a list, after
\* the keys of its branches, and no list has a branch twice.
InBlock(ts) ==
    /\ \A i, j \in DOMAIN ts :
        /\ ts[i].do \in {"set layers", "unset layers"} /\ ts[j].do \in {"set layers", "unset layers"} => i = j
        /\ ts[i].do \in Config /\ ts[j].do \in Config => \A k \in i..j : ts[k].do \in Config
        /\ ts[i].do = "unset key" /\ ts[j].do = "set layers" => ts[i].branch \notin ToSet(ts[j].list)
    /\ \A i \in DOMAIN ts : ts[i].do = "set key" =>
         \E j \in DOMAIN ts : /\ i < j /\ ts[j].do = "set layers" /\ ts[j].id = ts[i].id
                              /\ ts[i].branch \in ToSet(ts[j].list)
    /\ \A i \in DOMAIN ts : IsInjective(ts[i].list)

Cleaning == {"absorb", "finish", "prune", "done", "remotes"}
Cleaned(b) == run.op \in Cleaning /\ Spare(b)
Apart == run.todo = <<>> \/ Head(run.todo).do \notin Config

Settled == \A b \in Branch, id \in Id : key[b] = id => b \in ToSet(layers[id]) \/ layers[id] = <<>>

\* No branch is in a stack that does not list it, and none has left its stack but
\* those that are spare: as things stand,
NowInv == ~cut /\ Apart => Settled /\ \A b \in run.was : Cleaned(b) \/ b \in Recorded
\* and once the tasks have been run.
ThenInv ==
    ~cut =>
        /\ \A b \in Branch, id \in Id : \A list \in Seq(Branch) :
             KeyTo(b, id) /\ Coming(id, list) => b \in ToSet(list) \/ list = <<>>
        /\ \A b \in run.was :
             \/ Cleaned(b)
             \/ \E id \in Id : \E list \in Seq(Branch) : KeyTo(b, id) /\ Coming(id, list) /\ b \in ToSet(list)
        /\ run.op \in {"merge", "absorb", "prune"} =>
             \A list \in Seq(Branch) : Coming(run.id, list) => list = run.stack

IInv ==
    /\ DataInv /\ WorkKept /\ RunInv /\ RefInv /\ SpareInv /\ ExpandInv
    /\ ChainInv /\ InBlock(run.todo) /\ NowInv /\ ThenInv

-----------------------------------------------------------------------------
\* Sequences.

LEMMA LeastNat ==
    ASSUME NEW T, T \subseteq Nat, T # {} PROVE \E x \in T : \A y \in T : x <= y
<1> DEFINE R == OpToRel(<, Nat)
<1>1. IsWellFoundedOn(R, Nat)
  BY NatLessThanWellFounded
<1>2. \A x, y \in Nat : y < x => <<y, x>> \in R
  BY Zenon DEF OpToRel
<1> HIDE DEF R
<1>3. PICK x \in T : \A y \in T : ~ (<<y, x>> \in R)
  BY <1>1, WFMin
<1>4. ASSUME NEW y \in T PROVE x <= y
  <2>1. x \in Nat /\ y \in Nat /\ ~ (<<y, x>> \in R)
    BY <1>3
  <2>2. ~ (y < x)
    BY <1>2, <2>1
  <2> QED BY <2>1, <2>2
<1> QED BY <1>4

LEMMA MinIs ==
    ASSUME NEW T, T \subseteq Nat, T # {} PROVE Min(T) \in T /\ \A y \in T : Min(T) <= y
<1>1. \E x \in T : \A y \in T : x <= y
  BY LeastNat
<1> QED BY <1>1 DEF Min

LEMMA SeqIs ==
    ASSUME NEW S, NEW s \in Seq(S)
    PROVE  /\ Len(s) \in Nat /\ DOMAIN s = 1..Len(s) /\ \A i \in DOMAIN s : s[i] \in S
           /\ s = <<>> <=> Len(s) = 0
           /\ ToSet(s) \subseteq S
           /\ \A x : x \in ToSet(s) <=> \E i \in DOMAIN s : s[i] = x
BY LenProperties, EmptySeq DEF ToSet

LEMMA ConcatIs ==
    ASSUME NEW S, NEW s \in Seq(S), NEW t \in Seq(S)
    PROVE  /\ s \o t \in Seq(S) /\ Len(s \o t) = Len(s) + Len(t)
           /\ \A i \in DOMAIN s : i \in DOMAIN (s \o t) /\ (s \o t)[i] = s[i]
           /\ \A i \in DOMAIN t : Len(s) + i \in DOMAIN (s \o t) /\ (s \o t)[Len(s) + i] = t[i]
           /\ \A i \in DOMAIN (s \o t) :
                 \/ i \in DOMAIN s
                 \/ i - Len(s) \in DOMAIN t /\ i = Len(s) + (i - Len(s))
           /\ ToSet(s \o t) = ToSet(s) \cup ToSet(t)
<1> DEFINE u == s \o t
<1>1. /\ u \in Seq(S) /\ Len(u) = Len(s) + Len(t)
      /\ \A i \in 1..(Len(s) + Len(t)) : u[i] = IF i <= Len(s) THEN s[i] ELSE t[i - Len(s)]
  BY ConcatProperties
<1> HIDE DEF u
<1>2. /\ DOMAIN s = 1..Len(s) /\ DOMAIN t = 1..Len(t) /\ DOMAIN u = 1..(Len(s) + Len(t))
      /\ Len(s) \in Nat /\ Len(t) \in Nat
  BY <1>1, LenProperties
<1>3. \A i \in DOMAIN s : i \in DOMAIN u /\ u[i] = s[i]
  BY <1>1, <1>2
<1>4. \A i \in DOMAIN t : Len(s) + i \in DOMAIN u /\ u[Len(s) + i] = t[i]
  BY <1>1, <1>2
<1>5. \A i \in DOMAIN u : i \in DOMAIN s \/ (i - Len(s) \in DOMAIN t /\ i = Len(s) + (i - Len(s)))
  BY <1>2
<1>6. ToSet(u) = ToSet(s) \cup ToSet(t)
  <2>1. ASSUME NEW i \in DOMAIN u PROVE u[i] \in ToSet(s) \cup ToSet(t)
    <3>1. CASE i \in DOMAIN s
      BY <1>3, <3>1 DEF ToSet
    <3>2. CASE i - Len(s) \in DOMAIN t /\ i = Len(s) + (i - Len(s))
      <4>1. u[i] = t[i - Len(s)]
        BY <1>4, <3>2
      <4> QED BY <3>2, <4>1 DEF ToSet
    <3> QED BY <1>5, <3>1, <3>2
  <2>2. ToSet(u) \subseteq ToSet(s) \cup ToSet(t)
    BY <2>1 DEF ToSet
  <2>3. ToSet(s) \subseteq ToSet(u) /\ ToSet(t) \subseteq ToSet(u)
    BY <1>3, <1>4 DEF ToSet
  <2> QED BY <2>2, <2>3
<1> QED BY <1>1, <1>3, <1>4, <1>5, <1>6 DEF u

LEMMA TailIs ==
    ASSUME NEW S, NEW s \in Seq(S), s # <<>>
    PROVE  /\ Tail(s) \in Seq(S) /\ Len(Tail(s)) = Len(s) - 1 /\ 1 \in DOMAIN s /\ Head(s) = s[1]
           /\ \A i \in DOMAIN Tail(s) : i + 1 \in DOMAIN s /\ Tail(s)[i] = s[i + 1]
           /\ \A i \in DOMAIN s : i # 1 => i - 1 \in DOMAIN Tail(s) /\ Tail(s)[i - 1] = s[i]
           /\ ToSet(s) = {Head(s)} \cup ToSet(Tail(s))
<1>1. Len(s) \in Nat /\ Len(s) # 0 /\ DOMAIN s = 1..Len(s)
  BY SeqIs
<1>2. /\ Tail(s) \in Seq(S) /\ Len(Tail(s)) = Len(s) - 1 /\ Head(s) = s[1]
      /\ \A i \in 1..(Len(s) - 1) : Tail(s)[i] = s[i + 1]
  BY <1>1, HeadTailProperties
<1>3. DOMAIN Tail(s) = 1..(Len(s) - 1)
  BY <1>1, <1>2, SeqIs
<1>4. \A i \in DOMAIN Tail(s) : i + 1 \in DOMAIN s /\ Tail(s)[i] = s[i + 1]
  BY <1>1, <1>2, <1>3
<1>5. \A i \in DOMAIN s : i # 1 => i - 1 \in DOMAIN Tail(s) /\ Tail(s)[i - 1] = s[i]
  BY <1>1, <1>2, <1>3
<1>6. 1 \in DOMAIN s
  BY <1>1
<1>7. ToSet(s) = {Head(s)} \cup ToSet(Tail(s))
  <2>1. ToSet(s) \subseteq {Head(s)} \cup ToSet(Tail(s))
    BY <1>2, <1>5 DEF ToSet
  <2>2. {Head(s)} \cup ToSet(Tail(s)) \subseteq ToSet(s)
    BY <1>2, <1>4, <1>6 DEF ToSet
  <2> QED BY <2>1, <2>2
<1> QED BY <1>2, <1>4, <1>5, <1>6, <1>7

LEMMA PrefixMeans ==
    ASSUME NEW S, NEW s \in Seq(S), NEW t \in Seq(S)
    PROVE  IsPrefix(s, t) <=> Len(s) <= Len(t) /\ \A i \in 1..Len(s) : s[i] = t[i]
<1>1. /\ Len(s) \in Nat /\ Len(t) \in Nat
      /\ \A i \in 1..Len(s) : s[i] \in S
      /\ \A i \in 1..Len(t) : t[i] \in S
  OBVIOUS
<1>2. SubSeq(s, 1, Len(s)) = s
  BY SubSeqFull
<1>3. ASSUME Len(s) <= Len(t)
      PROVE  SubSeq(t, 1, Len(s)) = s <=> \A i \in 1..Len(s) : s[i] = t[i]
  <2>1. /\ SubSeq(t, 1, Len(s)) \in Seq(S)
        /\ Len(SubSeq(t, 1, Len(s))) = Len(s)
        /\ \A i \in 1..Len(s) : SubSeq(t, 1, Len(s))[i] = t[i]
    <3>1. \A i \in 1..Len(s) : t[i] \in S
      BY <1>1, <1>3
    <3> QED BY <1>1, <3>1, SubSeqProperties
  <2> DEFINE u == SubSeq(t, 1, Len(s))
  <2> HIDE DEF u
  <2>2. u = s => \A i \in 1..Len(s) : s[i] = t[i]
    BY <2>1 DEF u
  <2>3. (\A i \in 1..Len(s) : s[i] = t[i]) => u = s
    BY <2>1, SeqEqual DEF u
  <2> QED BY <2>2, <2>3 DEF u
<1> QED BY <1>1, <1>2, <1>3 DEF IsPrefix

LEMMA PrefixOrder ==
    ASSUME NEW S, NEW s \in Seq(S)
    PROVE  /\ IsPrefix(s, s)
           /\ \A t, u \in Seq(S) : IsPrefix(s, t) /\ IsPrefix(t, u) => IsPrefix(s, u)
           /\ \A t \in Seq(S) : IsPrefix(s, t) /\ Len(s) = Len(t) => s = t
<1>1. IsPrefix(s, s)
  BY PrefixMeans
<1>2. ASSUME NEW t \in Seq(S), NEW u \in Seq(S), IsPrefix(s, t), IsPrefix(t, u)
      PROVE  IsPrefix(s, u)
  <2>1. Len(s) <= Len(t) /\ \A i \in 1..Len(s) : s[i] = t[i]
    BY <1>2, PrefixMeans
  <2>2. Len(t) <= Len(u) /\ \A i \in 1..Len(t) : t[i] = u[i]
    BY <1>2, PrefixMeans
  <2>3. Len(s) <= Len(u) /\ \A i \in 1..Len(s) : s[i] = u[i]
    BY <2>1, <2>2
  <2> QED BY <2>3, PrefixMeans
<1>3. ASSUME NEW t \in Seq(S), IsPrefix(s, t), Len(s) = Len(t) PROVE s = t
  BY <1>3, PrefixMeans, SeqEqual
<1> QED BY <1>1, <1>2, <1>3

Upto(K, i) == {j \in K : j <= i}
Rank(K, i) == Cardinality(Upto(K, i))

\* Counting the elements of a finite set of numbers up to each numbers them.
LEMMA RankIs ==
    ASSUME NEW K, K \subseteq Nat, IsFiniteSet(K)
    PROVE  /\ Cardinality(K) \in Nat
           /\ \A i \in K : Rank(K, i) \in 1..Cardinality(K)
           /\ \A i, j \in K : Rank(K, i) = Rank(K, j) => i = j
           /\ \A n \in 1..Cardinality(K) : \E i \in K : Rank(K, i) = n
<1> DEFINE N == Cardinality(K)
<1>1. N \in Nat /\ IsFiniteSet(1..N) /\ Cardinality(1..N) = N
  BY FS_CardinalityType, FS_Interval
<1>2. ASSUME NEW i \in K
      PROVE  IsFiniteSet(Upto(K, i)) /\ Rank(K, i) \in 1..N
  <2>1. Upto(K, i) \in SUBSET K /\ i \in Upto(K, i)
    BY DEF Upto
  <2>2. IsFiniteSet(Upto(K, i)) /\ Rank(K, i) <= N
    BY <2>1, FS_Subset DEF Rank
  <2>3. Rank(K, i) \in Nat /\ Rank(K, i) # 0
    BY <2>1, <2>2, FS_CardinalityType, FS_EmptySet DEF Rank
  <2> QED BY <1>1, <2>2, <2>3
<1>3. ASSUME NEW i \in K, NEW j \in K, i < j PROVE Rank(K, i) # Rank(K, j)
  <2>1. Upto(K, i) \in SUBSET Upto(K, j) /\ j \in Upto(K, j) /\ j \notin Upto(K, i)
    <3>1. \A k \in K : k \in Nat
      OBVIOUS
    <3>2. \A k \in K : k <= i => k <= j
      BY <1>3, <3>1
    <3>3. j <= j /\ ~ (j <= i)
      BY <1>3, <3>1
    <3> QED BY <3>2, <3>3 DEF Upto
  <2>2. IsFiniteSet(Upto(K, j))
    BY <1>2
  <2>3. Rank(K, i) = Rank(K, j) => Upto(K, i) = Upto(K, j)
    BY <2>1, <2>2, FS_Subset DEF Rank
  <2> QED BY <2>1, <2>3
<1>4. ASSUME NEW i \in K, NEW j \in K, Rank(K, i) = Rank(K, j) PROVE i = j
  <2>1. i \in Nat /\ j \in Nat
    OBVIOUS
  <2> QED BY <1>3, <1>4, <2>1
<1> DEFINE f == [i \in K |-> Rank(K, i)]
<1>5. f \in [K -> 1..N] /\ \A i \in K : f[i] = Rank(K, i)
  BY <1>2
<1> HIDE DEF f
<1>6. f \in Injection(K, 1..N)
  BY <1>4, <1>5 DEF Injection, IsInjective
<1>7. f \in Surjection(K, 1..N)
  BY <1>1, <1>6, FS_Injection
<1>8. \A n \in 1..N : \E i \in K : Rank(K, i) = n
  BY <1>5, <1>7 DEF Surjection
<1> QED BY <1>1, <1>2, <1>4, <1>8

\* What Filtered keeps.
LEMMA FilteredIs ==
    ASSUME NEW S, NEW s \in Seq(S), NEW K, K \subseteq DOMAIN s
    PROVE  /\ Filtered(s, K) \in Seq(S)
           /\ ToSet(Filtered(s, K)) = {s[i] : i \in K}
           /\ IsInjective(s) => IsInjective(Filtered(s, K))
<1> DEFINE N == Cardinality(K)
           At0(n) == CHOOSE i \in K : Rank(K, i) = n
           r == [n \in 1..N |-> s[At0(n)]]
<1>1. DOMAIN s = 1..Len(s) /\ Len(s) \in Nat /\ \A i \in DOMAIN s : s[i] \in S
  BY SeqIs
<1>2. K \subseteq Nat /\ IsFiniteSet(K)
  <2>1. K \in SUBSET (1..Len(s)) /\ 1..Len(s) \subseteq Nat
    BY <1>1
  <2>2. IsFiniteSet(1..Len(s))
    BY <1>1, FS_Interval
  <2> QED BY <2>1, <2>2, FS_Subset
<1>3. Filtered(s, K) = r
  BY DEF Filtered, Rank, Upto
<1>4. N \in Nat
  BY <1>2, RankIs
<1>5. \A n \in 1..N : At0(n) \in K /\ Rank(K, At0(n)) = n
  BY <1>2, RankIs
<1>6. \A i \in K : Rank(K, i) \in 1..N /\ At0(Rank(K, i)) = i
  <2>1. ASSUME NEW i \in K PROVE Rank(K, i) \in 1..N /\ At0(Rank(K, i)) = i
    <3>1. Rank(K, i) \in 1..N
      BY <1>2, RankIs
    <3>2. At0(Rank(K, i)) \in K /\ Rank(K, At0(Rank(K, i))) = Rank(K, i)
      BY <1>5, <3>1
    <3> HIDE DEF At0, N
    <3>3. At0(Rank(K, i)) = i
      BY <1>2, <3>2, RankIs
    <3> QED BY <3>1, <3>3
  <2> QED BY <2>1
<1> HIDE DEF N, At0
<1>7. r \in Seq(S) /\ DOMAIN r = 1..N /\ \A n \in 1..N : r[n] = s[At0(n)]
  <2>1. \A n \in 1..N : s[At0(n)] \in S
    BY <1>1, <1>5
  <2>2. r \in [1..N -> S]
    BY <2>1
  <2> QED BY <1>4, <2>2, SeqDef
<1> HIDE DEF r
<1>8. ToSet(r) = {s[i] : i \in K}
  <2>1. \A n \in 1..N : r[n] \in {s[i] : i \in K}
    BY <1>5, <1>7
  <2>2. ASSUME NEW i \in K PROVE s[i] \in ToSet(r)
    <3>1. Rank(K, i) \in DOMAIN r /\ r[Rank(K, i)] = s[i]
      BY <1>6, <1>7
    <3> QED BY <3>1 DEF ToSet
  <2>3. ToSet(r) \subseteq {s[i] : i \in K}
    BY <1>7, <2>1 DEF ToSet
  <2> QED BY <2>2, <2>3
<1>9. ASSUME IsInjective(s) PROVE IsInjective(r)
  <2>1. ASSUME NEW m \in 1..N, NEW n \in 1..N, r[m] = r[n] PROVE m = n
    <3>1. At0(m) \in DOMAIN s /\ At0(n) \in DOMAIN s /\ s[At0(m)] = s[At0(n)]
      BY <1>5, <1>7, <2>1
    <3>2. At0(m) = At0(n)
      BY <1>9, <3>1 DEF IsInjective
    <3> QED BY <1>5, <3>2
  <2> QED BY <1>7, <2>1 DEF IsInjective
<1> QED BY <1>3, <1>7, <1>8, <1>9

LEMMA WithoutIs ==
    ASSUME NEW s \in Seq(Branch), NEW b
    PROVE  /\ Without(s, b) \in Seq(Branch)
           /\ ToSet(Without(s, b)) = ToSet(s) \ {b}
           /\ IsInjective(s) => IsInjective(Without(s, b))
<1> DEFINE K == {i \in DOMAIN s : s[i] # b}
<1>1. {s[i] : i \in K} = ToSet(s) \ {b}
  BY DEF ToSet
<1>2. Without(s, b) = Filtered(s, K) /\ K \subseteq DOMAIN s
  BY DEF Without
<1> HIDE DEF K
<1> QED BY <1>1, <1>2, FilteredIs

-----------------------------------------------------------------------------
\* Histories and their patches.

Hist == Seq(Commit) \cup {None}

LEMMA HistIs ==
    /\ Hist \subseteq Seq(SUBSET Nat) /\ Seq(Commit) \subseteq Hist /\ None \in Hist /\ None \notin Seq(Commit)
    /\ Patches(None) = {} /\ <<>> \in Seq(Commit) /\ Patches(<<>>) = {}
    /\ \A hist : \A p : p \in Patches(hist) <=> \E i \in DOMAIN hist : p \in hist[i]
<1>1. Seq(Commit) \subseteq Seq(SUBSET Nat)
  <2>1. \A c \in Commit : c \in SUBSET Nat
    BY DEF Commit
  <2>2. ASSUME NEW s \in Seq(Commit) PROVE s \in Seq(SUBSET Nat)
    <3>1. s \in [1..Len(s) -> Commit] /\ Len(s) \in Nat
      BY LenProperties
    <3>2. s \in [1..Len(s) -> SUBSET Nat]
      BY <2>1, <3>1
    <3> QED BY <3>1, <3>2, SeqDef
  <2> QED BY <2>2
<1>2. {} \in SUBSET Nat /\ {} \notin Commit
  BY DEF Commit
<1>3. None \in Seq(SUBSET Nat) /\ DOMAIN None = {1} /\ None[1] = {}
  BY <1>2 DEF None
<1>4. None \notin Seq(Commit)
  BY <1>2, <1>3, SeqIs
<1>5. ASSUME NEW hist, NEW p PROVE p \in Patches(hist) <=> \E i \in DOMAIN hist : p \in hist[i]
  BY DEF Patches, ToSet
<1>6. <<>> \in Seq(Commit) /\ DOMAIN <<>> = {}
  OBVIOUS
<1>7. Patches(None) = {}
  BY <1>3, <1>5
<1>8. Patches(<<>>) = {}
  BY <1>5, <1>6
<1> QED BY <1>1, <1>3, <1>4, <1>5, <1>6, <1>7, <1>8 DEF Hist

LEMMA AncestorPatches ==
    ASSUME NEW anc \in Hist, NEW desc \in Hist, IsPrefix(anc, desc)
    PROVE  Patches(anc) \subseteq Patches(desc)
<1>1. anc \in Seq(SUBSET Nat) /\ desc \in Seq(SUBSET Nat)
  BY HistIs
<1>2. /\ DOMAIN anc = 1..Len(anc) /\ DOMAIN desc = 1..Len(desc) /\ Len(anc) \in Nat /\ Len(desc) \in Nat
      /\ Len(anc) <= Len(desc) /\ \A i \in 1..Len(anc) : anc[i] = desc[i]
  BY <1>1, PrefixMeans, LenProperties
<1>3. \A i \in DOMAIN anc : i \in DOMAIN desc /\ anc[i] = desc[i]
  BY <1>2
<1> QED BY <1>3, HistIs

LEMMA ConcatPatches ==
    ASSUME NEW s \in Seq(Commit), NEW t \in Seq(Commit)
    PROVE  s \o t \in Seq(Commit) /\ Patches(s \o t) = Patches(s) \cup Patches(t)
<1>1. s \o t \in Seq(Commit) /\ ToSet(s \o t) = ToSet(s) \cup ToSet(t)
  BY ConcatIs
<1> QED BY <1>1 DEF Patches

\* A rebase loses no patch.
LEMMA RebasedKeeps ==
    ASSUME NEW hist \in Seq(Commit), NEW base \in Seq(Commit)
    PROVE  Rebased(hist, base) \in Seq(Commit) /\ Patches(hist) \subseteq Patches(Rebased(hist, base))
<1>1. CASE IsAncestor(base, hist)
  BY <1>1 DEF Rebased
<1>2. CASE ~IsAncestor(base, hist)
  <2> DEFINE K == {i \in DOMAIN hist : ~(hist[i] \subseteq Patches(base))}
             kept == Filtered(hist, K)
  <2>1. Rebased(hist, base) = base \o kept
    BY <1>2 DEF Rebased
  <2>2. kept \in Seq(Commit) /\ ToSet(kept) = {hist[i] : i \in K}
    BY FilteredIs
  <2> HIDE DEF kept
  <2>3. \A i \in DOMAIN hist : hist[i] \subseteq Patches(base) \/ hist[i] \in ToSet(kept)
    BY <2>2
  <2>4. \A i \in DOMAIN hist : hist[i] \subseteq Patches(base) \cup Patches(kept)
    BY <2>3 DEF Patches
  <2>5. Patches(hist) \subseteq Patches(base) \cup Patches(kept)
    BY <2>4, HistIs
  <2> QED BY <2>1, <2>2, <2>5, ConcatPatches
<1> QED BY <1>1, <1>2

\* What plain git does to a history.
LEMMA AppendPatches ==
    ASSUME NEW hist \in Seq(Commit), NEW c \in Commit
    PROVE  Append(hist, c) \in Seq(Commit) /\ Patches(Append(hist, c)) = Patches(hist) \cup c
<1>1. /\ Append(hist, c) \in Seq(Commit) /\ DOMAIN hist = 1..Len(hist) /\ Len(hist) \in Nat
      /\ DOMAIN Append(hist, c) = 1..(Len(hist) + 1) /\ Append(hist, c)[Len(hist) + 1] = c
      /\ \A i \in 1..Len(hist) : Append(hist, c)[i] = hist[i]
  BY AppendProperties, LenProperties
<1>2. \A p : (\E i \in DOMAIN Append(hist, c) : p \in Append(hist, c)[i])
                <=> p \in c \/ \E i \in DOMAIN hist : p \in hist[i]
  <2>1. \A i \in DOMAIN Append(hist, c) : i \in DOMAIN hist \/ i = Len(hist) + 1
    BY <1>1
  <2>2. \A i \in DOMAIN hist : i \in DOMAIN Append(hist, c)
    BY <1>1
  <2>3. Len(hist) + 1 \in DOMAIN Append(hist, c)
    BY <1>1
  <2> QED BY <1>1, <2>1, <2>2, <2>3
<1> QED BY <1>1, <1>2, HistIs

-----------------------------------------------------------------------------
\* Tasks.

LEMMA NoneIs ==
    /\ DOMAIN <<>> = {} /\ ToSet(<<>>) = {} /\ IsInjective(<<>>) /\ Len(<<>>) = 0
    /\ \A S : <<>> \in Seq(S)
<1>1. DOMAIN <<>> = {} /\ Len(<<>>) = 0 /\ \A S : <<>> \in Seq(S)
  OBVIOUS
<1>2. ToSet(<<>>) = {}
  BY <1>1 DEF ToSet
<1>3. IsInjective(<<>>)
  BY <1>1 DEF IsInjective
<1> QED BY <1>1, <1>2, <1>3

LEMMA DoIs ==
    ASSUME NEW kind \in Kind
    PROVE  Do(kind) \in Task /\ Do(kind).do = kind /\ Do(kind).branch = NoBranch /\ Do(kind).list = <<>>
BY NoneIs DEF Do, Task

LEMMA OnIs ==
    ASSUME NEW kind \in Kind, NEW b \in Branch
    PROVE  /\ On(kind, b) \in Task /\ On(kind, b).do = kind /\ On(kind, b).branch = b /\ On(kind, b).list = <<>>
           /\ On(kind, b).onto = NoBranch
BY NoneIs DEF Do, On, Task

LEMMA AtIs ==
    ASSUME NEW kind \in Kind, NEW b \in Branch, NEW hist \in Seq(Commit)
    PROVE  /\ At(kind, b, hist) \in Task /\ At(kind, b, hist).do = kind /\ At(kind, b, hist).branch = b
           /\ At(kind, b, hist).hist = hist /\ At(kind, b, hist).list = <<>>
BY NoneIs DEF Do, On, At, Task

Onto(kind, b, onto) == [On(kind, b) EXCEPT !.onto = onto]
Keyed(b, id) == [On("set key", b) EXCEPT !.id = id]
Listed(id, list) == [Do("set layers") EXCEPT !.id = id, !.list = list]
Unlisted(id) == [Do("unset layers") EXCEPT !.id = id]

LEMMA OntoIs ==
    ASSUME NEW kind \in Kind, NEW b \in Branch, NEW onto \in Branch \cup {Trunk, NoBranch}
    PROVE  /\ Onto(kind, b, onto) \in Task /\ Onto(kind, b, onto).do = kind /\ Onto(kind, b, onto).branch = b
           /\ Onto(kind, b, onto).onto = onto /\ Onto(kind, b, onto).list = <<>>
BY NoneIs DEF Do, On, Onto, Task

LEMMA KeyedIs ==
    ASSUME NEW b \in Branch, NEW id \in Id
    PROVE  /\ Keyed(b, id) \in Task /\ Keyed(b, id).do = "set key" /\ Keyed(b, id).branch = b
           /\ Keyed(b, id).id = id /\ Keyed(b, id).list = <<>>
BY NoneIs DEF Do, On, Keyed, Task, Kind

LEMMA ListedIs ==
    ASSUME NEW id \in Id, NEW list \in Seq(Branch)
    PROVE  /\ Listed(id, list) \in Task /\ Listed(id, list).do = "set layers"
           /\ Listed(id, list).id = id /\ Listed(id, list).list = list
BY NoneIs DEF Do, Listed, Task, Kind

LEMMA UnlistedIs ==
    ASSUME NEW id \in Id
    PROVE  Unlisted(id) \in Task /\ Unlisted(id).do = "unset layers" /\ Unlisted(id).id = id /\ Unlisted(id).list = <<>>
BY NoneIs DEF Do, Unlisted, Task, Kind

LEMMA InjectiveMeans ==
    ASSUME NEW f, IsInjective(f), NEW i \in DOMAIN f, NEW j \in DOMAIN f, f[i] = f[j] PROVE i = j
BY DEF IsInjective

\* The config writes that give a stack its list and take some branches out of it.
Block(ts, id, list, gone) ==
    /\ ts \in Seq(Task) /\ InBlock(ts) /\ \A t \in ToSet(ts) : Formed(t) /\ t.do \in Config
    /\ \A t \in ToSet(ts) : t.do \in {"set layers", "unset layers"} => t.id = id /\ t.list = list
    /\ \E t \in ToSet(ts) : t.do \in {"set layers", "unset layers"}
    /\ \A t \in ToSet(ts) : t.do = "set key" => t.id = id /\ t.branch \in ToSet(list)
    /\ \A b \in ToSet(list) : \E t \in ToSet(ts) : t.do = "set key" /\ t.branch = b
    /\ \A t \in ToSet(ts) : t.do = "unset key" => t.branch \in gone
    /\ \A b \in gone : \E t \in ToSet(ts) : t.do = "unset key" /\ t.branch = b

\* What SaveStack and RemoveLayer write.
LEMMA SaveStackIs ==
    ASSUME NEW stack \in Seq(Branch), IsInjective(stack), NEW id \in Id
    PROVE  Block(SaveStack(stack, id), id, stack, {}) /\ \A t \in ToSet(SaveStack(stack, id)) : t.do \in Saving
<1> DEFINE n == Len(stack)
           ts == SaveStack(stack, id)
           Key(i) == Keyed(stack[i], id)
           Write == Listed(id, stack)
<1>1. n \in Nat /\ DOMAIN stack = 1..n /\ \A i \in 1..n : stack[i] \in Branch /\ stack[i] \in ToSet(stack)
  BY SeqIs DEF ToSet
<1>2. \A i \in 1..n : /\ Key(i) \in Task /\ Key(i).do = "set key" /\ Key(i).branch = stack[i]
                      /\ Key(i).id = id /\ Key(i).list = <<>>
  <2>1. ASSUME NEW i \in 1..n
        PROVE  /\ Key(i) \in Task /\ Key(i).do = "set key" /\ Key(i).branch = stack[i]
               /\ Key(i).id = id /\ Key(i).list = <<>>
    BY <1>1, KeyedIs
  <2> QED BY <2>1
<1>3. Write \in Task /\ Write.do = "set layers" /\ Write.id = id /\ Write.list = stack
  BY ListedIs
<1>4. ts = [i \in 1..(n + 1) |-> IF i <= n THEN Key(i) ELSE Write]
  BY DEF SaveStack, Keyed, Listed
<1> HIDE DEF Key, Write, ts
<1>5. /\ DOMAIN ts = 1..(n + 1) /\ ts[n + 1] = Write /\ n + 1 \in 1..(n + 1)
      /\ \A i \in 1..n : ts[i] = Key(i) /\ i \in 1..(n + 1)
      /\ \A i \in 1..(n + 1) : i \in 1..n \/ i = n + 1
  BY <1>1, <1>4
<1>6. ts \in Seq(Task)
  <2>1. ts \in [1..(n + 1) -> Task]
    BY <1>2, <1>3, <1>4, <1>5
  <2>2. n + 1 \in Nat
    BY <1>1
  <2> QED BY <2>1, <2>2, SeqDef
<1>7. \A t \in ToSet(ts) : t = Write \/ \E i \in 1..n : t = Key(i)
  BY <1>5 DEF ToSet
<1>8. Write \in ToSet(ts) /\ \A i \in 1..n : Key(i) \in ToSet(ts)
  BY <1>5 DEF ToSet
<1>9. \A t \in ToSet(ts) : Formed(t) /\ t.do \in Saving
  BY <1>1, <1>2, <1>3, <1>7 DEF Formed, Saving
<1>10. InBlock(ts)
  <2>1. ASSUME NEW i \in 1..n PROVE IsInjective(Key(i).list)
    <3>1. Key(i).list = <<>>
      BY <1>2
    <3> QED BY ONLY <3>1, NoneIs
  <2>2. \A i \in DOMAIN ts : IsInjective(ts[i].list)
    BY <1>3, <1>5, <2>1
  <2>3. \A i \in 1..n : i < n + 1
    BY <1>1
  <2>4. \A i \in DOMAIN ts : ts[i].do = "set key" =>
         \E j \in DOMAIN ts : /\ i < j /\ ts[j].do = "set layers" /\ ts[j].id = ts[i].id
                              /\ ts[i].branch \in ToSet(ts[j].list)
    <3>1. \A i \in DOMAIN ts : ts[i].do = "set key" => i \in 1..n /\ ts[i] = Key(i)
      BY <1>3, <1>5
    <3>2. \A i \in 1..n : Key(i).id = Write.id /\ Key(i).branch \in ToSet(Write.list)
      BY <1>1, <1>2, <1>3
    <3> QED BY <1>3, <1>5, <2>3, <3>1, <3>2
  <2>5. \A i, j \in DOMAIN ts :
          ts[i].do \in {"set layers", "unset layers"} /\ ts[j].do \in {"set layers", "unset layers"} => i = j
    BY <1>2, <1>5
  <2>6. \A i, j \in DOMAIN ts : \A k \in i..j : ts[k].do \in Config
    <3>1. \A i, j \in DOMAIN ts : \A k \in i..j : k \in DOMAIN ts
      BY <1>1, <1>5
    <3>2. \A k \in DOMAIN ts : ts[k].do \in Config
      BY <1>9 DEF ToSet, Config
    <3> QED BY <3>1, <3>2
  <2>7. \A i \in DOMAIN ts : ts[i].do # "unset key"
    BY <1>2, <1>3, <1>5
  <2> QED BY <2>2, <2>4, <2>5, <2>6, <2>7 DEF InBlock
<1>11. \A b \in ToSet(stack) : \E t \in ToSet(ts) : t.do = "set key" /\ t.branch = b
  <2>1. ASSUME NEW b \in ToSet(stack) PROVE \E t \in ToSet(ts) : t.do = "set key" /\ t.branch = b
    <3>1. PICK i \in 1..n : stack[i] = b
      BY <1>1, <2>1, SeqIs
    <3> QED BY <1>2, <1>8, <3>1
  <2> QED BY <2>1
<1>12. \A t \in ToSet(ts) :
         /\ t.do \in {"set layers", "unset layers"} => t.id = id /\ t.list = stack
         /\ t.do = "set key" => t.id = id /\ t.branch \in ToSet(stack)
         /\ t.do # "unset key" /\ t.do \in Config
  BY <1>1, <1>2, <1>3, <1>7 DEF Config, Saving
<1>13. Block(ts, id, stack, {})
  BY <1>3, <1>6, <1>8, <1>9, <1>10, <1>11, <1>12 DEF Block
<1> QED BY <1>9, <1>13 DEF ts

LEMMA QuietBefore ==
    ASSUME NEW p \in Seq(Task), NEW s \in Seq(Task), InBlock(s),
           \A t \in ToSet(p) : t.do \notin Config /\ IsInjective(t.list)
    PROVE  InBlock(p \o s)
<1> DEFINE ListKinds == {"set layers", "unset layers"}
<1>0. /\ \A i, j \in DOMAIN s : s[i].do \in ListKinds /\ s[j].do \in ListKinds => i = j
      /\ \A i, j \in DOMAIN s : s[i].do \in Config /\ s[j].do \in Config => \A k \in i..j : s[k].do \in Config
      /\ \A i, j \in DOMAIN s : s[i].do = "unset key" /\ s[j].do = "set layers" => s[i].branch \notin ToSet(s[j].list)
      /\ \A i \in DOMAIN s : s[i].do = "set key" =>
            \E j \in DOMAIN s : /\ i < j /\ s[j].do = "set layers" /\ s[j].id = s[i].id
                                 /\ s[i].branch \in ToSet(s[j].list)
      /\ \A i \in DOMAIN s : IsInjective(s[i].list)
  BY DEF InBlock
<1> DEFINE u == p \o s
           m == Len(p)
<1>1. /\ m \in Nat /\ DOMAIN p = 1..m /\ DOMAIN s = 1..Len(s) /\ Len(s) \in Nat
      /\ DOMAIN u = 1..(m + Len(s))
      /\ \A i \in DOMAIN p : u[i].do \notin Config /\ IsInjective(u[i].list)
      /\ \A i \in DOMAIN s : u[m + i] = s[i]
  <2>1. u \in Seq(Task) /\ Len(u) = m + Len(s)
    BY ConcatIs
  <2>2. \A i \in DOMAIN p : u[i] = p[i] /\ p[i] \in ToSet(p)
    BY ConcatIs DEF ToSet
  <2>3. \A i \in DOMAIN s : u[m + i] = s[i]
    BY ConcatIs
  <2> HIDE DEF u
  <2> QED BY <2>1, <2>2, <2>3, SeqIs
<1> HIDE DEF u, m
<1>2. \A i \in DOMAIN u : i \in DOMAIN p \/ (i - m \in DOMAIN s /\ i = m + (i - m))
  BY <1>1
<1>3. \A i \in DOMAIN u : i \notin DOMAIN p => i - m \in DOMAIN s /\ u[i] = s[i - m]
  BY <1>1, <1>2
<1>4. \A i \in DOMAIN u : u[i].do \in Config => i - m \in DOMAIN s /\ u[i] = s[i - m]
  BY <1>1, <1>3
<1>5. {"set layers", "unset layers", "unset key", "set key"} \subseteq Config
  BY DEF Config, Saving, Unset
<1>6. ASSUME NEW i \in DOMAIN u, NEW j \in DOMAIN u,
             u[i].do \in {"set layers", "unset layers"}, u[j].do \in {"set layers", "unset layers"}
      PROVE  i = j
  <2>1. /\ i - m \in DOMAIN s /\ u[i] = s[i - m] /\ i = m + (i - m)
        /\ j - m \in DOMAIN s /\ u[j] = s[j - m] /\ j = m + (j - m)
    BY <1>1, <1>2, <1>4, <1>5, <1>6
  <2>2. i - m = j - m
    BY <1>0, <1>6, <2>1
  <2> QED BY <2>1, <2>2
<1>7. ASSUME NEW i \in DOMAIN u, NEW j \in DOMAIN u, u[i].do \in Config, u[j].do \in Config, NEW k \in i..j
      PROVE  u[k].do \in Config
  <2>1. i - m \in DOMAIN s /\ j - m \in DOMAIN s /\ s[i - m].do \in Config /\ s[j - m].do \in Config
    BY <1>4, <1>7
  <2>2. k - m \in (i - m)..(j - m) /\ k - m \in DOMAIN s /\ k = m + (k - m)
    BY <1>1, <1>7, <2>1
  <2>3. s[k - m].do \in Config
    BY <1>0, <2>1, <2>2
  <2> QED BY <1>1, <2>2, <2>3
<1>8. ASSUME NEW i \in DOMAIN u, NEW j \in DOMAIN u, u[i].do = "unset key", u[j].do = "set layers"
      PROVE  u[i].branch \notin ToSet(u[j].list)
  <2>1. i - m \in DOMAIN s /\ j - m \in DOMAIN s /\ u[i] = s[i - m] /\ u[j] = s[j - m]
    BY <1>4, <1>5, <1>8
  <2> QED BY <1>0, <1>8, <2>1
<1>9. ASSUME NEW i \in DOMAIN u, u[i].do = "set key"
      PROVE  \E j \in DOMAIN u : /\ i < j /\ u[j].do = "set layers" /\ u[j].id = u[i].id
                                 /\ u[i].branch \in ToSet(u[j].list)
  <2>1. i - m \in DOMAIN s /\ u[i] = s[i - m]
    BY <1>4, <1>5, <1>9
  <2>2. PICK l \in DOMAIN s : /\ i - m < l /\ s[l].do = "set layers" /\ s[l].id = u[i].id
                              /\ u[i].branch \in ToSet(s[l].list)
    BY <1>0, <1>9, <2>1
  <2>3. m + l \in DOMAIN u /\ i < m + l /\ u[m + l] = s[l]
    <3>1. i \in 1..(m + Len(s)) /\ l \in 1..Len(s) /\ i - m < l
      BY <1>1, <2>2
    <3>2. m + l \in 1..(m + Len(s)) /\ i < m + l
      BY <1>1, <3>1
    <3> QED BY <1>1, <3>2
  <2> QED BY <2>2, <2>3
<1>10. \A i \in DOMAIN u : IsInjective(u[i].list)
  BY <1>0, <1>1, <1>3
<1>11. InBlock(u)
  BY <1>6, <1>7, <1>8, <1>9, <1>10 DEF InBlock
<1> QED BY <1>11 DEF u

LEMMA QuietAfter ==
    ASSUME NEW s \in Seq(Task), NEW q \in Seq(Task), InBlock(s),
           \A t \in ToSet(q) : t.do \notin Config /\ IsInjective(t.list)
    PROVE  InBlock(s \o q)
<1> DEFINE ListKinds == {"set layers", "unset layers"}
<1>0. /\ \A i, j \in DOMAIN s : s[i].do \in ListKinds /\ s[j].do \in ListKinds => i = j
      /\ \A i, j \in DOMAIN s : s[i].do \in Config /\ s[j].do \in Config => \A k \in i..j : s[k].do \in Config
      /\ \A i, j \in DOMAIN s : s[i].do = "unset key" /\ s[j].do = "set layers" => s[i].branch \notin ToSet(s[j].list)
      /\ \A i \in DOMAIN s : s[i].do = "set key" =>
            \E j \in DOMAIN s : /\ i < j /\ s[j].do = "set layers" /\ s[j].id = s[i].id
                                 /\ s[i].branch \in ToSet(s[j].list)
      /\ \A i \in DOMAIN s : IsInjective(s[i].list)
  BY DEF InBlock
<1> DEFINE u == s \o q
           m == Len(s)
<1>1. /\ m \in Nat /\ DOMAIN s = 1..m /\ Len(q) \in Nat /\ DOMAIN u = 1..(m + Len(q))
      /\ \A i \in DOMAIN s : i \in DOMAIN u /\ u[i] = s[i]
      /\ \A i \in DOMAIN u : i \in DOMAIN s \/ (u[i].do \notin Config /\ IsInjective(u[i].list))
  <2>1. u \in Seq(Task) /\ Len(u) = m + Len(q)
    BY ConcatIs
  <2>2. \A i \in DOMAIN s : i \in DOMAIN u /\ u[i] = s[i]
    BY ConcatIs
  <2>3. \A i \in DOMAIN q : u[m + i] = q[i] /\ q[i] \in ToSet(q)
    BY ConcatIs DEF ToSet
  <2>4. \A i \in DOMAIN u : i \in DOMAIN s \/ (i - m \in DOMAIN q /\ i = m + (i - m))
    BY ConcatIs
  <2> HIDE DEF u
  <2>5. ASSUME NEW i \in DOMAIN u, i \notin DOMAIN s PROVE u[i].do \notin Config /\ IsInjective(u[i].list)
    <3>1. i - m \in DOMAIN q /\ u[i] = u[m + (i - m)]
      BY <2>4, <2>5
    <3>2. u[i] \in ToSet(q)
      BY <2>3, <3>1
    <3> QED BY <3>2
  <2>6. /\ DOMAIN u = 1..Len(u) /\ m \in Nat /\ DOMAIN s = 1..m /\ Len(q) \in Nat
    BY <2>1, SeqIs
  <2>7. DOMAIN u = 1..(m + Len(q))
    BY <2>1, <2>6
  <2>8. \A i \in DOMAIN u : i \in DOMAIN s \/ (u[i].do \notin Config /\ IsInjective(u[i].list))
    BY <2>5
  <2> QED BY <2>2, <2>6, <2>7, <2>8
<1> HIDE DEF u, m
<1>2. \A i \in DOMAIN u : u[i].do \in Config => i \in DOMAIN s /\ u[i] = s[i]
  BY <1>1
<1>3. {"set layers", "unset layers", "unset key", "set key"} \subseteq Config
  BY DEF Config, Saving, Unset
<1>4. ASSUME NEW i \in DOMAIN u, NEW j \in DOMAIN u,
             u[i].do \in {"set layers", "unset layers"}, u[j].do \in {"set layers", "unset layers"}
      PROVE  i = j
  <2>1. i \in DOMAIN s /\ j \in DOMAIN s /\ u[i] = s[i] /\ u[j] = s[j]
    BY <1>2, <1>3, <1>4
  <2> QED BY <1>0, <1>4, <2>1
<1>5. ASSUME NEW i \in DOMAIN u, NEW j \in DOMAIN u, u[i].do \in Config, u[j].do \in Config, NEW k \in i..j
      PROVE  u[k].do \in Config
  <2>1. i \in DOMAIN s /\ j \in DOMAIN s /\ s[i].do \in Config /\ s[j].do \in Config
    BY <1>2, <1>5
  <2>2. k \in DOMAIN s
    BY <1>1, <1>5, <2>1
  <2>3. s[k].do \in Config
    BY <1>0, <1>5, <2>1
  <2> QED BY <1>1, <2>2, <2>3
<1>6. ASSUME NEW i \in DOMAIN u, NEW j \in DOMAIN u, u[i].do = "unset key", u[j].do = "set layers"
      PROVE  u[i].branch \notin ToSet(u[j].list)
  <2>1. i \in DOMAIN s /\ j \in DOMAIN s /\ u[i] = s[i] /\ u[j] = s[j]
    BY <1>2, <1>3, <1>6
  <2> QED BY <1>0, <1>6, <2>1
<1>7. ASSUME NEW i \in DOMAIN u, u[i].do = "set key"
      PROVE  \E j \in DOMAIN u : /\ i < j /\ u[j].do = "set layers" /\ u[j].id = u[i].id
                                 /\ u[i].branch \in ToSet(u[j].list)
  <2>1. i \in DOMAIN s /\ u[i] = s[i]
    BY <1>2, <1>3, <1>7
  <2>2. PICK l \in DOMAIN s : /\ i < l /\ s[l].do = "set layers" /\ s[l].id = u[i].id
                              /\ u[i].branch \in ToSet(s[l].list)
    BY <1>0, <1>7, <2>1
  <2> QED BY <1>1, <2>2
<1>8. \A i \in DOMAIN u : IsInjective(u[i].list)
  BY <1>0, <1>1
<1>9. InBlock(u)
  BY <1>4, <1>5, <1>6, <1>7, <1>8 DEF InBlock
<1> QED BY <1>9 DEF u

LEMMA TailInBlock ==
    ASSUME NEW s \in Seq(Task), s # <<>>, InBlock(s) PROVE InBlock(Tail(s))
<1> DEFINE ListKinds == {"set layers", "unset layers"}
<1>0. /\ \A i, j \in DOMAIN s : s[i].do \in ListKinds /\ s[j].do \in ListKinds => i = j
      /\ \A i, j \in DOMAIN s : s[i].do \in Config /\ s[j].do \in Config => \A k \in i..j : s[k].do \in Config
      /\ \A i, j \in DOMAIN s : s[i].do = "unset key" /\ s[j].do = "set layers" => s[i].branch \notin ToSet(s[j].list)
      /\ \A i \in DOMAIN s : s[i].do = "set key" =>
            \E j \in DOMAIN s : /\ i < j /\ s[j].do = "set layers" /\ s[j].id = s[i].id
                                 /\ s[i].branch \in ToSet(s[j].list)
      /\ \A i \in DOMAIN s : IsInjective(s[i].list)
  BY DEF InBlock
<1> DEFINE u == Tail(s)
<1>1. /\ DOMAIN s = 1..Len(s) /\ Len(s) \in Nat /\ DOMAIN u = 1..(Len(s) - 1)
      /\ \A i \in DOMAIN u : i + 1 \in DOMAIN s /\ u[i] = s[i + 1]
      /\ \A i \in DOMAIN s : i # 1 => i - 1 \in DOMAIN u /\ u[i - 1] = s[i]
  <2>1. u \in Seq(Task) /\ Len(u) = Len(s) - 1
    BY TailIs
  <2>2. /\ \A i \in DOMAIN u : i + 1 \in DOMAIN s /\ u[i] = s[i + 1]
        /\ \A i \in DOMAIN s : i # 1 => i - 1 \in DOMAIN u /\ u[i - 1] = s[i]
    BY TailIs
  <2> HIDE DEF u
  <2> QED BY <2>1, <2>2, SeqIs
<1> HIDE DEF u
<1>2. ASSUME NEW i \in DOMAIN u, NEW j \in DOMAIN u,
             u[i].do \in {"set layers", "unset layers"}, u[j].do \in {"set layers", "unset layers"}
      PROVE  i = j
  <2>1. i + 1 \in DOMAIN s /\ j + 1 \in DOMAIN s /\ u[i] = s[i + 1] /\ u[j] = s[j + 1]
    BY <1>1
  <2>2. i + 1 = j + 1
    BY <1>0, <1>2, <2>1
  <2> QED BY <1>1, <2>2
<1>3. ASSUME NEW i \in DOMAIN u, NEW j \in DOMAIN u, u[i].do \in Config, u[j].do \in Config, NEW k \in i..j
      PROVE  u[k].do \in Config
  <2>1. k \in DOMAIN u /\ k + 1 \in (i + 1)..(j + 1)
    BY <1>1, <1>3
  <2>2. s[k + 1].do \in Config
    <3>1. i + 1 \in DOMAIN s /\ j + 1 \in DOMAIN s /\ u[i] = s[i + 1] /\ u[j] = s[j + 1]
      BY <1>1
    <3> QED BY <1>0, <1>3, <2>1, <3>1
  <2> QED BY <1>1, <2>1, <2>2
<1>4. ASSUME NEW i \in DOMAIN u, NEW j \in DOMAIN u, u[i].do = "unset key", u[j].do = "set layers"
      PROVE  u[i].branch \notin ToSet(u[j].list)
  <2>1. i + 1 \in DOMAIN s /\ j + 1 \in DOMAIN s /\ u[i] = s[i + 1] /\ u[j] = s[j + 1]
    BY <1>1
  <2> QED BY <1>0, <1>4, <2>1
<1>5. ASSUME NEW i \in DOMAIN u, u[i].do = "set key"
      PROVE  \E j \in DOMAIN u : /\ i < j /\ u[j].do = "set layers" /\ u[j].id = u[i].id
                                 /\ u[i].branch \in ToSet(u[j].list)
  <2>1. PICK l \in DOMAIN s : /\ i + 1 < l /\ s[l].do = "set layers" /\ s[l].id = u[i].id
                              /\ u[i].branch \in ToSet(s[l].list)
    <3>1. i + 1 \in DOMAIN s /\ u[i] = s[i + 1]
      BY <1>1
    <3> QED BY <1>0, <1>5, <3>1
  <2>2. l # 1 /\ i < l - 1
    <3>1. i \in 1..(Len(s) - 1) /\ l \in 1..Len(s) /\ i + 1 < l
      BY <1>1, <2>1
    <3> QED BY <1>1, <3>1
  <2>3. l - 1 \in DOMAIN u /\ u[l - 1] = s[l]
    BY <1>1, <2>2
  <2> QED BY <2>1, <2>2, <2>3
<1>6. \A i \in DOMAIN u : IsInjective(u[i].list)
  BY <1>0, <1>1
<1>7. InBlock(u)
  BY <1>2, <1>3, <1>4, <1>5, <1>6 DEF InBlock
<1> QED BY <1>7 DEF u

LEMMA NoBlock ==
    ASSUME NEW s \in Seq(Task), \A t \in ToSet(s) : t.do \notin Config /\ IsInjective(t.list)
    PROVE  InBlock(s)
<1>1. \A i \in DOMAIN s : s[i].do \notin Config /\ IsInjective(s[i].list)
  BY DEF ToSet
<1> QED BY <1>1 DEF InBlock, Config, Saving, Unset

LEMMA OneIs ==
    ASSUME NEW S, NEW a \in S, NEW s, s = <<a>>
    PROVE  s \in Seq(S) /\ DOMAIN s = {1} /\ Len(s) = 1 /\ s[1] = a /\ ToSet(s) = {a}
<1>1. DOMAIN s = {1} /\ Len(s) = 1 /\ s[1] = a
  OBVIOUS
<1>2. s \in Seq(S)
  OBVIOUS
<1>3. ToSet(s) = {a}
  BY <1>1 DEF ToSet
<1> QED BY <1>1, <1>2, <1>3

LEMMA TwoIs ==
    ASSUME NEW S, NEW a \in S, NEW b \in S, NEW s, s = <<a, b>>
    PROVE  /\ s \in Seq(S) /\ DOMAIN s = {1, 2} /\ Len(s) = 2
           /\ s[1] = a /\ s[2] = b /\ ToSet(s) = {a, b}
<1>1. DOMAIN s = {1, 2} /\ Len(s) = 2 /\ s[1] = a /\ s[2] = b
  OBVIOUS
<1>2. s \in Seq(S)
  OBVIOUS
<1>3. ToSet(s) = {a, b}
  BY <1>1 DEF ToSet
<1> QED BY <1>1, <1>2, <1>3

\* u is s followed by t.
Joined(S, u, s, t) ==
    /\ u \in Seq(S) /\ Len(u) = Len(s) + Len(t) /\ DOMAIN u = 1..(Len(s) + Len(t))
    /\ \A i \in DOMAIN s : i \in DOMAIN u /\ u[i] = s[i]
    /\ \A i \in DOMAIN t : Len(s) + i \in DOMAIN u /\ u[Len(s) + i] = t[i]
    /\ \A i \in DOMAIN u : i \in DOMAIN s \/ (i - Len(s) \in DOMAIN t /\ i = Len(s) + (i - Len(s)))
    /\ ToSet(u) = ToSet(s) \cup ToSet(t)

LEMMA JoinIs ==
    ASSUME NEW S, NEW s \in Seq(S), NEW t \in Seq(S), NEW u, u = s \o t
    PROVE  Joined(S, u, s, t)
<1>1. u \in Seq(S) /\ Len(u) = Len(s) + Len(t)
  BY ConcatIs
<1>2. \A i \in DOMAIN s : i \in DOMAIN u /\ u[i] = s[i]
  BY ConcatIs
<1>3. \A i \in DOMAIN t : Len(s) + i \in DOMAIN u /\ u[Len(s) + i] = t[i]
  BY ConcatIs
<1>4. \A i \in DOMAIN u : i \in DOMAIN s \/ (i - Len(s) \in DOMAIN t /\ i = Len(s) + (i - Len(s)))
  BY ConcatIs
<1>5. ToSet(u) = ToSet(s) \cup ToSet(t)
  BY ConcatIs
<1>6. DOMAIN u = 1..(Len(s) + Len(t))
  BY <1>1, SeqIs
<1> QED BY <1>1, <1>2, <1>3, <1>4, <1>5, <1>6 DEF Joined

UnsetsOf(b) == <<On("unset key", b), On("unset pr", b)>>

LEMMA UnsetsIs ==
    ASSUME NEW b \in Branch, NEW p, p = UnsetsOf(b)
    PROVE  /\ p \in Seq(Task) /\ Len(p) = 2 /\ DOMAIN p = {1, 2} /\ ToSet(p) = {p[1], p[2]}
           /\ p[1] = On("unset key", b) /\ p[2] = On("unset pr", b)
<1> DEFINE key0 == On("unset key", b)
           pr0 == On("unset pr", b)
<1>1. key0 \in Task /\ pr0 \in Task
  <2>1. "unset key" \in Kind /\ "unset pr" \in Kind
    BY DEF Kind
  <2> QED BY <2>1, OnIs
<1>2. p = <<key0, pr0>>
  BY DEF UnsetsOf
<1> HIDE DEF key0, pr0
<1>3. p \in Seq(Task) /\ DOMAIN p = {1, 2} /\ Len(p) = 2 /\ p[1] = key0 /\ p[2] = pr0 /\ ToSet(p) = {key0, pr0}
  BY <1>1, <1>2, TwoIs
<1> QED BY <1>3 DEF key0, pr0

LEMMA TakenOut ==
    ASSUME NEW x, NEW id \in Id, NEW rest \in Seq(Branch), NEW b \in Branch,
           Block(x, id, rest, {}), b \notin ToSet(rest),
           NEW p, p = UnsetsOf(b), NEW u, Joined(Task, u, p, x)
    PROVE  Block(u, id, rest, {b})
<1>3. /\ x \in Seq(Task) /\ InBlock(x) /\ \A t \in ToSet(x) : Formed(t) /\ t.do \in Config /\ t.do # "unset key"
      /\ \A t \in ToSet(x) : t.do \in {"set layers", "unset layers"} => t.id = id /\ t.list = rest
      /\ \E t \in ToSet(x) : t.do \in {"set layers", "unset layers"}
      /\ \A t \in ToSet(x) : t.do = "set key" => t.id = id /\ t.branch \in ToSet(rest)
      /\ \A c \in ToSet(rest) : \E t \in ToSet(x) : t.do = "set key" /\ t.branch = c
  BY DEF Block
<1>1. b \in Branch /\ b \notin ToSet(rest)
  OBVIOUS
<1>4. /\ p[1].do = "unset key" /\ p[2].do = "unset pr" /\ p[1].branch = b /\ p[2].branch = b
      /\ p[1].list = <<>> /\ p[2].list = <<>>
  <2>1. "unset key" \in Kind /\ "unset pr" \in Kind
    BY DEF Kind
  <2>2. p[1] = On("unset key", b) /\ p[2] = On("unset pr", b)
    BY UnsetsIs
  <2>3. /\ On("unset key", b).do = "unset key" /\ On("unset pr", b).do = "unset pr"
        /\ On("unset key", b).branch = b /\ On("unset pr", b).branch = b
        /\ On("unset key", b).list = <<>> /\ On("unset pr", b).list = <<>>
    BY <2>1, OnIs
  <2> QED BY ONLY <2>2, <2>3, Zenon
<1>2. DOMAIN p = {1, 2} /\ Len(p) = 2 /\ ToSet(p) = {p[1], p[2]}
  BY UnsetsIs
<1>5. /\ u \in Seq(Task) /\ ToSet(u) = ToSet(p) \cup ToSet(x) /\ DOMAIN x = 1..Len(x) /\ Len(x) \in Nat
      /\ u[1] = p[1] /\ u[2] = p[2] /\ DOMAIN u = 1..(2 + Len(x)) /\ \A i \in DOMAIN x : u[2 + i] = x[i]
  <2>1. DOMAIN x = 1..Len(x) /\ Len(x) \in Nat
    BY <1>3, SeqIs
  <2>2. u \in Seq(Task) /\ ToSet(u) = ToSet(p) \cup ToSet(x)
    BY DEF Joined
  <2>3. DOMAIN u = 1..(2 + Len(x)) /\ u[1] = p[1] /\ u[2] = p[2]
    BY <1>2 DEF Joined
  <2>4. \A i \in DOMAIN x : u[2 + i] = x[i]
    BY <1>2 DEF Joined
  <2> QED BY <2>1, <2>2, <2>3, <2>4
<1>6. \A i \in DOMAIN u : i = 1 \/ i = 2 \/ (i - 2 \in DOMAIN x /\ i = 2 + (i - 2) /\ u[i] = x[i - 2])
  <2>1. \A i \in DOMAIN u : i \in 1..(2 + Len(x))
    BY <1>5
  <2>2. ASSUME NEW i \in DOMAIN u, i # 1, i # 2 PROVE i - 2 \in DOMAIN x /\ i = 2 + (i - 2) /\ u[i] = x[i - 2]
    <3>1. i - 2 \in 1..Len(x) /\ i = 2 + (i - 2)
      BY <1>5, <2>1, <2>2
    <3> QED BY <1>5, <3>1
  <2> QED BY <2>2
<1>7. \A t \in ToSet(u) : Formed(t) /\ t.do \in Config
  <2>1. Formed(p[1]) /\ Formed(p[2]) /\ p[1].do \in Config /\ p[2].do \in Config
    BY <1>1, <1>4 DEF Formed, Config, Unset
  <2> QED BY <1>2, <1>3, <1>4, <1>5, <2>1
<1>8. InBlock(u)
  <2>1. /\ \A i, j \in DOMAIN x :
             x[i].do \in {"set layers", "unset layers"} /\ x[j].do \in {"set layers", "unset layers"} => i = j
        /\ \A i \in DOMAIN x : x[i].do = "set key" =>
             \E j \in DOMAIN x : /\ i < j /\ x[j].do = "set layers" /\ x[j].id = x[i].id
                                 /\ x[i].branch \in ToSet(x[j].list)
        /\ \A i \in DOMAIN x : IsInjective(x[i].list)
    BY <1>3 DEF InBlock
  <2>2. ASSUME NEW i \in DOMAIN u, NEW j \in DOMAIN u,
               u[i].do \in {"set layers", "unset layers"}, u[j].do \in {"set layers", "unset layers"}
        PROVE  i = j
    <3>1. /\ i - 2 \in DOMAIN x /\ i = 2 + (i - 2) /\ u[i] = x[i - 2]
          /\ j - 2 \in DOMAIN x /\ j = 2 + (j - 2) /\ u[j] = x[j - 2]
      BY <1>4, <1>5, <1>6, <2>2
    <3>2. i - 2 = j - 2
      BY <2>1, <2>2, <3>1
    <3> QED BY <3>1, <3>2
  <2>3. \A i, j \in DOMAIN u : \A k \in i..j : u[k].do \in Config
    <3>1. \A i, j \in DOMAIN u : \A k \in i..j : k \in DOMAIN u
      BY <1>5
    <3>2. \A k \in DOMAIN u : u[k].do \in Config
      BY <1>7 DEF ToSet
    <3> QED BY <3>1, <3>2
  <2>4. ASSUME NEW i \in DOMAIN u, NEW j \in DOMAIN u, u[i].do = "unset key", u[j].do = "set layers"
        PROVE  u[i].branch \notin ToSet(u[j].list)
    <3>1. \A k \in DOMAIN x : x[k] \in ToSet(x)
      BY DEF ToSet
    <3>2. i = 1 \/ i = 2
      BY <1>3, <1>6, <2>4, <3>1
    <3>3. u[i].branch = b
      BY <1>4, <1>5, <3>2
    <3>4. j - 2 \in DOMAIN x /\ u[j] = x[j - 2]
      BY <1>4, <1>5, <1>6, <2>4
    <3>5. u[j].list = rest
      BY <1>3, <2>4, <3>1, <3>4
    <3> QED BY <1>1, <3>3, <3>5
  <2>5. ASSUME NEW i \in DOMAIN u, u[i].do = "set key"
        PROVE  \E j \in DOMAIN u : /\ i < j /\ u[j].do = "set layers" /\ u[j].id = u[i].id
                                   /\ u[i].branch \in ToSet(u[j].list)
    <3>1. i - 2 \in DOMAIN x /\ i = 2 + (i - 2) /\ u[i] = x[i - 2]
      BY <1>4, <1>5, <1>6, <2>5
    <3>2. PICK l \in DOMAIN x : /\ i - 2 < l /\ x[l].do = "set layers" /\ x[l].id = u[i].id
                                /\ u[i].branch \in ToSet(x[l].list)
      BY <2>1, <2>5, <3>1
    <3>3. 2 + l \in DOMAIN u /\ i < 2 + l /\ u[2 + l] = x[l]
      <4>1. l \in 1..Len(x) /\ i \in 1..(2 + Len(x))
        BY <1>5
      <4>2. i - 2 < l /\ Len(x) \in Nat
        BY <1>5, <3>2
      <4>3. 2 + l \in 1..(2 + Len(x)) /\ i < 2 + l
        BY <4>1, <4>2
      <4> QED BY <1>5, <4>3
    <3> QED BY <3>2, <3>3
  <2>6. \A i \in DOMAIN u : IsInjective(u[i].list)
    <3>1. ASSUME NEW i \in DOMAIN u PROVE IsInjective(u[i].list)
      <4>1. CASE i = 1 \/ i = 2
        <5>1. u[i].list = <<>>
          BY <1>4, <1>5, <4>1
        <5> QED BY ONLY <5>1, NoneIs
      <4>2. CASE i - 2 \in DOMAIN x /\ u[i] = x[i - 2]
        BY <2>1, <4>2
      <4> QED BY <1>6, <4>1, <4>2
    <3> QED BY <3>1
  <2> QED BY <2>2, <2>3, <2>4, <2>5, <2>6 DEF InBlock
<1>9. /\ \A t \in ToSet(u) : t.do \in {"set layers", "unset layers"} => t.id = id /\ t.list = rest
      /\ \E t \in ToSet(u) : t.do \in {"set layers", "unset layers"}
      /\ \A t \in ToSet(u) : t.do = "set key" => t.id = id /\ t.branch \in ToSet(rest)
      /\ \A c \in ToSet(rest) : \E t \in ToSet(u) : t.do = "set key" /\ t.branch = c
      /\ \A t \in ToSet(u) : t.do = "unset key" => t.branch \in {b}
      /\ \A c \in {b} : \E t \in ToSet(u) : t.do = "unset key" /\ t.branch = c
  BY <1>2, <1>3, <1>4, <1>5
<1> QED BY <1>5, <1>7, <1>8, <1>9 DEF Block

\* What taking a branch out of its stack writes.
LEMMA RemoveLayerIs ==
    ASSUME NEW stack \in Seq(Branch), IsInjective(stack), NEW id \in Id, NEW b \in ToSet(stack)
    PROVE  Block(RemoveLayer(stack, id, b), id, Without(stack, b), {b})
<1> DEFINE rest == Without(stack, b)
           x == IF rest = <<>> THEN <<Unlisted(id)>> ELSE SaveStack(rest, id)
<1>1. b \in Branch /\ rest \in Seq(Branch) /\ IsInjective(rest) /\ ToSet(rest) = ToSet(stack) \ {b}
  BY SeqIs, WithoutIs
<1>2. RemoveLayer(stack, id, b) = UnsetsOf(b) \o x
  <2>1. rest # stack
    BY <1>1
  <2> QED BY <2>1 DEF RemoveLayer, Unlisted, UnsetsOf
<1> HIDE DEF rest
<1>3. Block(x, id, rest, {})
  <2>1. CASE rest = <<>>
    <3> DEFINE w == Unlisted(id)
    <3>1. w \in Task /\ w.do = "unset layers" /\ w.id = id /\ w.list = <<>>
      BY UnlistedIs
    <3> HIDE DEF w
    <3>2. x = <<w>>
      BY <2>1 DEF w
    <3> HIDE DEF x
    <3>3. x \in Seq(Task) /\ DOMAIN x = {1} /\ x[1] = w /\ ToSet(x) = {w}
      BY <3>1, <3>2, OneIs
    <3>4. Formed(w) /\ w.do \in Config
      BY <3>1 DEF Formed, Config, Unset
    <3>5. InBlock(x)
      <4>1. \A i \in DOMAIN x : i = 1 /\ x[i] = w
        BY <3>3
      <4>2. IsInjective(w.list)
        BY ONLY <3>1, NoneIs
      <4>3. \A i, j \in DOMAIN x : \A k \in i..j : k = 1
        BY <4>1
      <4> QED BY <3>1, <3>3, <3>4, <4>1, <4>2, <4>3 DEF InBlock
    <3> QED BY <2>1, <3>1, <3>3, <3>4, <3>5, NoneIs DEF Block
  <2>2. CASE rest # <<>>
    BY <1>1, <2>2, SaveStackIs
  <2> QED BY <2>1, <2>2
<1> HIDE DEF x
<1>4. x \in Seq(Task) /\ UnsetsOf(b) \in Seq(Task)
  BY <1>1, <1>3, UnsetsIs DEF Block
<1>5. Joined(Task, UnsetsOf(b) \o x, UnsetsOf(b), x)
  BY <1>4, JoinIs
<1>6. Block(UnsetsOf(b) \o x, id, rest, {b})
  BY <1>1, <1>3, <1>5, TakenOut
<1> QED BY <1>2, <1>6 DEF rest

-----------------------------------------------------------------------------
\* The command's record.

LEMMA IdleIs ==
    /\ Idle \in Run /\ Idle.op = "idle" /\ Idle.todo = <<>> /\ Idle.stack = <<>> /\ Idle.left = {}
    /\ Idle.cur = NoBranch /\ Idle.made = {} /\ Idle.was = {}
BY NoneIs DEF Idle, Run, Op

LEMMA RecordedIn == Recorded \subseteq Branch
BY DEF Recorded

LEMMA BeginIs ==
    ASSUME NEW op \in Op, NEW todo \in Seq(Task)
    PROVE  /\ Begin(op, todo) \in Run /\ Begin(op, todo).op = op /\ Begin(op, todo).todo = todo
           /\ Begin(op, todo).left = {} /\ Begin(op, todo).cur = NoBranch /\ Begin(op, todo).made = {}
           /\ Begin(op, todo).was = Recorded
BY RecordedIn, NoneIs DEF Begin, Idle, Run

\* A command's fields apart from what it still has to do.
Same == /\ run'.op = run.op /\ run'.stack = run.stack /\ run'.id = run.id /\ run'.left = run.left
        /\ run'.cur = run.cur /\ run'.orig = run.orig /\ run'.was = run.was

\* One run of git done, or given up.
Ran == /\ run \in Run /\ run' \in Run /\ Same /\ run.todo # <<>> /\ run'.todo = Tail(run.todo)

LEMMA RestIs ==
    ASSUME run \in Run, run.todo # <<>>, run' = Rest
    PROVE  Ran /\ run'.made = run.made
<1>1. Tail(run.todo) \in Seq(Task)
  BY TailIs DEF Run
<1> QED BY <1>1 DEF Rest, Ran, Same, Run

LEMMA RestMade ==
    ASSUME run \in Run, run.todo # <<>>, NEW b \in Branch, run' = [Rest EXCEPT !.made = @ \cup {b}]
    PROVE  Ran /\ run'.made = run.made \cup {b}
<1>1. Tail(run.todo) \in Seq(Task)
  BY TailIs DEF Run
<1> QED BY <1>1 DEF Rest, Ran, Same, Run

\* What is left to do after one run of git.
LEMMA RanTodo ==
    ASSUME Ran, RunInv
    PROVE  /\ Now \in Task /\ Formed(Now) /\ Now.do \in KindsOf[run.op] /\ Now \in Todo
           /\ Todo' \subseteq Todo /\ \A t \in Todo : t = Now \/ t \in Todo'
           /\ run.op # "idle" /\ RunInv'
           /\ run.todo[1] = Now /\ 1 \in DOMAIN run.todo
           /\ \A i \in DOMAIN run'.todo : i + 1 \in DOMAIN run.todo /\ run'.todo[i] = run.todo[i + 1]
<1>1. run.todo \in Seq(Task) /\ run.todo # <<>> /\ run'.todo = Tail(run.todo)
  BY DEF Ran, Run
<1>2. /\ 1 \in DOMAIN run.todo /\ Now = run.todo[1] /\ Todo = {Now} \cup Todo'
      /\ \A i \in DOMAIN run'.todo : i + 1 \in DOMAIN run.todo /\ run'.todo[i] = run.todo[i + 1]
  <2>1. /\ 1 \in DOMAIN run.todo /\ Head(run.todo) = run.todo[1]
        /\ ToSet(run.todo) = {Head(run.todo)} \cup ToSet(Tail(run.todo))
    BY <1>1, TailIs
  <2>2. \A i \in DOMAIN Tail(run.todo) : i + 1 \in DOMAIN run.todo /\ Tail(run.todo)[i] = run.todo[i + 1]
    BY <1>1, TailIs
  <2> QED BY <1>1, <2>1, <2>2 DEF Now, Todo
<1>3. Now \in Task /\ Todo \subseteq Task
  BY <1>1, <1>2, SeqIs DEF Todo
<1>4. Formed(Now) /\ Now.do \in KindsOf[run.op] /\ Now \in Todo
  BY <1>2 DEF RunInv
<1>5. run.op # "idle"
  BY <1>1, IdleIs DEF RunInv
<1>6. RunInv'
  <2>1. run' \in Run /\ run'.op = run.op /\ run'.stack = run.stack /\ run'.id = run.id
    BY DEF Ran, Same
  <2>2. \A t \in Todo' : Formed(t) /\ t.do \in KindsOf[run'.op]
    BY <1>2, <2>1 DEF RunInv
  <2> QED BY <1>5, <2>1, <2>2 DEF RunInv
<1> QED BY <1>2, <1>3, <1>4, <1>5, <1>6

\* The kinds of each command, as far as the arguments below tell them apart.
LEMMA KindsAre ==
    /\ \A op \in Op : "drop" \in KindsOf[op] => op \in {"undo", "absorb", "prune", "done"}
    /\ \A op \in Op : "reset" \in KindsOf[op] => op \in {"expand", "undo"}
    /\ \A op \in Op : "create" \in KindsOf[op] => op = "expand"
    /\ \A op \in Op : "start" \in KindsOf[op] => op \in {"start", "append"}
    /\ \A op \in Op : "rebase" \in KindsOf[op] => op = "merge"
    /\ \A op \in Op : "checkout" \in KindsOf[op] => op = "finish"
    /\ \A op \in Op : "leave" \in KindsOf[op] => op = "prune"
    /\ \A op \in Op : "detach" \in KindsOf[op] => op = "expand"
    /\ \A op \in {"merge", "undo"} : KindsOf[op] \cap Config = {}
    /\ \A op \in {"finish", "remotes"} : KindsOf[op] \cap Config = {}
    /\ KindsOf["discover"] \subseteq Saving /\ KindsOf["idle"] = {} /\ KindsOf["merge"] = {"rebase"}
BY DEF KindsOf, Op, Removing, Config, Saving, Unset

-----------------------------------------------------------------------------
\* What a run of git leaves in order, whatever it was for.

LEMMA BlockRan ==
    ASSUME Ran, InBlock(run.todo) PROVE InBlock(run.todo)'
<1>1. run.todo \in Seq(Task) /\ run.todo # <<>> /\ run'.todo = Tail(run.todo)
  BY DEF Ran, Run
<1>2. InBlock(run'.todo)
  BY <1>1, TailInBlock
<1> QED BY <1>2 DEF InBlock

LEMMA LastRan ==
    ASSUME Ran, RunInv, RefInv, run.op = "merge"
    PROVE  IF run'.todo = <<>> THEN Now.branch = run.cur ELSE Last(run'.todo).branch = run.cur
<1>1. run.todo \in Seq(Task) /\ run.todo # <<>> /\ run'.todo = Tail(run.todo)
  BY DEF Ran, Run
<1>2. /\ Len(run.todo) \in Nat /\ Len(run.todo) # 0 /\ Len(run'.todo) = Len(run.todo) - 1 /\ Now = run.todo[1]
      /\ run'.todo \in Seq(Task) /\ \A i \in 1..(Len(run.todo) - 1) : run'.todo[i] = run.todo[i + 1]
  <2>1. Tail(run.todo) \in Seq(Task) /\ Len(Tail(run.todo)) = Len(run.todo) - 1 /\ Head(run.todo) = run.todo[1]
    BY <1>1, TailIs
  <2>2. Len(run.todo) \in Nat /\ Len(run.todo) # 0
    BY <1>1, SeqIs
  <2>3. \A i \in DOMAIN Tail(run.todo) : Tail(run.todo)[i] = run.todo[i + 1]
    BY <1>1, TailIs
  <2>4. DOMAIN Tail(run.todo) = 1..Len(Tail(run.todo))
    BY <2>1, SeqIs
  <2> QED BY <1>1, <2>1, <2>2, <2>3, <2>4 DEF Now
<1>3. run.todo[Len(run.todo)].branch = run.cur
  BY <1>1 DEF RefInv, Last
<1> DEFINE n == Len(run.todo)
           m == Len(run'.todo)
<1>4. /\ n \in Nat /\ n # 0 /\ m = n - 1 /\ Now = run.todo[1] /\ run.todo[n].branch = run.cur
      /\ run'.todo = <<>> <=> m = 0
      /\ \A i \in 1..(n - 1) : run'.todo[i] = run.todo[i + 1]
  BY <1>2, <1>3, SeqIs
<1>5. Last(run'.todo) = run'.todo[m]
  BY DEF Last
<1> HIDE DEF n, m
<1>6. m = 0 => n = 1
  BY <1>4
<1>7. m # 0 => m \in 1..(n - 1) /\ m + 1 = n
  BY <1>4
<1>8. m # 0 => run'.todo[m] = run.todo[n]
  BY <1>4, <1>7
<1> QED BY <1>4, <1>5, <1>6, <1>8

LEMMA RefRan ==
    ASSUME Ran, RunInv, RefInv, NEW b0,
           \A b \in Branch : b # b0 => tip'[b] = tip[b],
           ~Exists(b0) /\ Exists(b0)' => \A t \in Todo' : t.do \in Making => t.branch # b0,
           Exists(b0) /\ ~Exists(b0)' => b0 # run.cur /\ run.op \notin {"merge", "finish"},
           run.op = "merge" => head' = Now.branch,
           run.op = "absorb" => head' = head
    PROVE  RefInv'
<1>1. /\ Todo' \subseteq Todo /\ \A t \in Todo' : Formed(t) /\ t.do \in KindsOf[run.op]
      /\ run'.op = run.op /\ run'.cur = run.cur /\ run.op \in Op
  BY RanTodo DEF Ran, Same, RunInv, Run
<1>2. ASSUME NEW t \in Todo', t.do \in Making PROVE ~Exists(t.branch)'
  <2>1. t.branch \in Branch /\ ~Exists(t.branch)
    BY <1>1, <1>2 DEF Formed, RefInv, Making
  <2> QED BY <1>2, <2>1 DEF Exists
<1>3. ASSUME NEW t \in Todo', t.do \in {"rebase", "checkout"} PROVE Exists(t.branch)'
  <2>1. t.branch \in Branch /\ Exists(t.branch) /\ run.op \in {"merge", "finish"}
    <3>1. t.branch \in Branch
      BY <1>1, <1>3 DEF Formed
    <3>2. Exists(t.branch)
      BY <1>1, <1>3 DEF RefInv
    <3>3. t.do \in KindsOf[run.op] /\ run.op \in Op
      BY <1>1
    <3>4. run.op \in {"merge", "finish"}
      BY <1>3, <3>3, KindsAre
    <3> QED BY <3>1, <3>2, <3>4
  <2> QED BY <2>1 DEF Exists
<1>4. ASSUME NEW t \in Todo', t.do = "rebase", t.onto # Trunk PROVE t.onto \in Branch /\ Exists(t.onto)'
  <2>1. t.onto \in Branch /\ Exists(t.onto) /\ run.op = "merge"
    BY <1>1, <1>4, KindsAre DEF RefInv
  <2> QED BY <2>1 DEF Exists
<1>5. ASSUME NEW i \in DOMAIN run'.todo, NEW j \in DOMAIN run'.todo,
             run'.todo[i].do \in Making, run'.todo[j].do \in Making, i # j
      PROVE  run'.todo[i].branch # run'.todo[j].branch
  <2>1. /\ i + 1 \in DOMAIN run.todo /\ run'.todo[i] = run.todo[i + 1]
        /\ j + 1 \in DOMAIN run.todo /\ run'.todo[j] = run.todo[j + 1]
    BY RanTodo
  <2>2. i + 1 # j + 1
    <3>1. DOMAIN run'.todo \subseteq Nat
      <4>1. run'.todo \in Seq(Task)
        BY DEF Ran, Run
      <4> QED BY <4>1, SeqIs
    <3> QED BY <1>5, <3>1
  <2> QED BY <1>5, <2>1, <2>2 DEF RefInv
<1>6. ASSUME run.op \in {"expand", "undo", "merge", "absorb", "finish"}
      PROVE  run.cur \in Branch /\ Exists(run.cur)'
  <2>1. run.cur \in Branch /\ Exists(run.cur)
    BY <1>6 DEF RefInv
  <2> QED BY <1>1, <2>1 DEF Exists
<1>7. run.op = "merge" => IF run'.todo = <<>> THEN head' = run.cur ELSE Last(run'.todo).branch = run.cur
  BY LastRan
<1>8. run.op = "absorb" => head' = run.cur
  BY DEF RefInv
<1> QED BY <1>1, <1>2, <1>3, <1>4, <1>5, <1>6, <1>7, <1>8 DEF RefInv

Shrunk == \A b \in Branch : /\ Patches(tip'[b]) \subseteq Patches(tip[b])
                            /\ b = run.cur => Patches(tip[b]) \subseteq Patches(tip'[b])

LEMMA SpareStays ==
    ASSUME NEW b \in Branch, trunk' = trunk, run'.cur = run.cur, Shrunk, Spare(b) PROVE Spare(b)'
BY DEF Spare, Shrunk

LEMMA SpareRan ==
    ASSUME Ran, RunInv, SpareInv, trunk' = trunk, run.op \in {"undo"} \cup Cleaning => Shrunk
    PROVE  SpareInv' /\ \A b \in Branch : Cleaned(b) => Cleaned(b)'
<1>1. /\ Todo' \subseteq Todo /\ \A t \in Todo' : Formed(t) /\ t.do \in KindsOf[run.op]
      /\ run'.op = run.op /\ run'.cur = run.cur /\ run'.left = run.left /\ run.op \in Op /\ run.left \subseteq Branch
  BY RanTodo DEF Ran, Same, RunInv, Run
<1>2. ASSUME NEW t \in Todo', t.do = "drop" PROVE Spare(t.branch)' /\ t.branch # run.cur
  <2>1. t.branch \in Branch /\ run.op \in {"undo"} \cup Cleaning
    BY <1>1, <1>2, KindsAre DEF Formed, Cleaning
  <2>2. Spare(t.branch) /\ t.branch # run.cur
    BY <1>1, <1>2 DEF SpareInv
  <2> QED BY <1>1, <2>1, <2>2, SpareStays
<1>3. ASSUME NEW b \in run.left, run.op \in {"absorb", "prune", "done"} PROVE Spare(b)'
  <2>1. b \in Branch /\ run.op \in Cleaning /\ Spare(b)
    BY <1>1, <1>3 DEF Cleaning, SpareInv
  <2> QED BY <1>1, <2>1, SpareStays
<1>4. ASSUME NEW b \in Branch, Cleaned(b) PROVE Cleaned(b)'
  <2>1. run.op \in Cleaning /\ Spare(b)
    BY <1>4 DEF Cleaned
  <2>2. Spare(b)'
    BY <1>1, <2>1, SpareStays
  <2> QED BY <1>1, <2>1, <2>2 DEF Cleaned
<1>5. run.op # "remotes" => run.cur \notin run.left
  BY DEF SpareInv
<1>6. SpareInv'
  BY <1>1, <1>2, <1>3, <1>5 DEF SpareInv
<1> QED BY <1>4, <1>6

-----------------------------------------------------------------------------
\* The lineage, run by run of git.

LEMMA NoConfigLeft ==
    ASSUME Ran, RunInv, InBlock(run.todo), Apart', Now.do \in Config
    PROVE  \A t \in Todo' : t.do \notin Config
<1>1. SUFFICES ASSUME NEW i \in DOMAIN run'.todo, run'.todo[i].do \in Config PROVE FALSE
  BY DEF Todo, ToSet
<1>2. run'.todo \in Seq(Task) /\ run'.todo # <<>>
  BY <1>1, NoneIs DEF Ran, Run
<1>3. /\ 1 \in DOMAIN run.todo /\ run.todo[1].do \in Config
      /\ \A k \in DOMAIN run'.todo : k + 1 \in DOMAIN run.todo /\ run'.todo[k] = run.todo[k + 1]
  BY RanTodo
<1>4. 1 \in DOMAIN run'.todo /\ run'.todo[1].do \notin Config
  <2>1. 1 \in DOMAIN run'.todo /\ Head(run'.todo) = run'.todo[1]
    BY <1>2, TailIs
  <2> QED BY <1>2, <2>1 DEF Apart
<1>5. i \in Nat /\ 1 <= i
  BY <1>1, <1>2, SeqIs
<1>6. 2 \in 1..(i + 1) /\ 1 + 1 = 2
  BY <1>5
<1>7. run.todo[i + 1].do \in Config /\ i + 1 \in DOMAIN run.todo
  BY <1>1, <1>3
<1>8. run.todo[2].do \in Config
  BY <1>3, <1>6, <1>7 DEF InBlock
<1> QED BY <1>3, <1>4, <1>6, <1>8

\* Once no config write is left, the keys and lists are what they were to be.
LEMMA NowFromThen ==
    ASSUME DataInv', run' \in Run, ThenInv', \A t \in Todo' : t.do \notin Config
    PROVE  NowInv'
<1>1. {"set key", "unset key", "set layers", "unset layers"} \subseteq Config
  BY DEF Config, Saving, Unset
<1>2. ASSUME NEW b \in Branch, NEW id \in Id PROVE KeyTo(b, id)' <=> key'[b] = id
  BY <1>1 DEF KeyTo
<1>3. ASSUME NEW id \in Id, NEW list \in Seq(Branch) PROVE Coming(id, list)' <=> list = layers'[id]
  BY <1>1 DEF Coming, Writes
<1>4. \A id \in Id : layers'[id] \in Seq(Branch)
  BY DEF DataInv
<1>5. SUFFICES ASSUME ~cut' PROVE Settled' /\ \A b \in run'.was : Cleaned(b)' \/ b \in Recorded'
  BY DEF NowInv
<1>6. Settled'
  <2>1. SUFFICES ASSUME NEW b \in Branch, NEW id \in Id, key'[b] = id
                 PROVE  b \in ToSet(layers'[id]) \/ layers'[id] = <<>>
    BY DEF Settled
  <2> QED BY <1>2, <1>3, <1>4, <1>5, <2>1 DEF ThenInv
<1>7. ASSUME NEW b \in run'.was PROVE Cleaned(b)' \/ b \in Recorded'
  <2>1. b \in Branch
    BY DEF Run
  <2>2. SUFFICES ASSUME ~Cleaned(b)' PROVE b \in Recorded'
    OBVIOUS
  <2>3. PICK id \in Id : \E list \in Seq(Branch) : KeyTo(b, id)' /\ Coming(id, list)' /\ b \in ToSet(list)
    BY <1>5, <1>7, <2>2 DEF ThenInv
  <2>4. key'[b] = id /\ b \in ToSet(layers'[id])
    BY <1>2, <1>3, <2>1, <2>3
  <2> QED BY <2>1, <2>4, IdAssumption DEF Recorded, StackOf
<1> QED BY <1>6, <1>7

\* A run of git that is no config write.
LEMMA LineageQuiet ==
    ASSUME Ran, RunInv, NowInv, ThenInv, Now.do \notin Config, key' = key, layers' = layers, cut' = cut,
           \A b \in Branch : Cleaned(b) => Cleaned(b)'
    PROVE  NowInv' /\ ThenInv'
<1>1. /\ Todo' \subseteq Todo /\ \A t \in Todo : t = Now \/ t \in Todo'
      /\ run'.op = run.op /\ run'.was = run.was /\ run'.id = run.id /\ run'.stack = run.stack
      /\ run.was \subseteq Branch /\ run.todo # <<>>
  BY RanTodo DEF Ran, Same, Run
<1>2. Now.do \notin {"set key", "unset key", "set layers", "unset layers"}
  BY DEF Config, Saving, Unset
<1>3. \A b, id : KeyTo(b, id)' <=> KeyTo(b, id)
  BY <1>1, <1>2 DEF KeyTo
<1>4. \A id, list : Coming(id, list)' <=> Coming(id, list)
  BY <1>1, <1>2 DEF Coming, Writes
<1>5. NowInv'
  <2>1. Recorded' = Recorded /\ (Settled' <=> Settled)
    BY DEF Recorded, StackOf, Settled
  <2>2. Apart
    BY DEF Apart, Now
  <2> QED BY <1>1, <2>1, <2>2 DEF NowInv
<1>6. ThenInv'
  BY <1>1, <1>3, <1>4 DEF ThenInv
<1> QED BY <1>5, <1>6

\* A config write.
LEMMA LineageWritten ==
    ASSUME Ran, RunInv, InBlock(run.todo), ThenInv, Now.do \in Config, DataInv', cut' = cut,
           \A b \in Branch, id \in Id : KeyTo(b, id)' <=> KeyTo(b, id),
           \A id \in Id : \A list \in Seq(Branch) : Coming(id, list)' <=> Coming(id, list),
           \A b \in Branch : Cleaned(b) => Cleaned(b)'
    PROVE  NowInv' /\ ThenInv'
<1>1. /\ run'.op = run.op /\ run'.was = run.was /\ run'.id = run.id /\ run'.stack = run.stack
      /\ run.was \subseteq Branch /\ run' \in Run
  BY DEF Ran, Same, Run
<1>2. run.op \in {"merge", "absorb", "prune"} => run.id \in Id
  BY DEF RunInv
<1>3. ThenInv'
  BY <1>1, <1>2 DEF ThenInv
<1>4. NowInv'
  <2>1. CASE Apart'
    BY <1>1, <1>3, <2>1, NoConfigLeft, NowFromThen
  <2>2. CASE ~Apart'
    BY <2>2 DEF NowInv
  <2> QED BY <2>1, <2>2
<1> QED BY <1>3, <1>4

LEMMA LineageCut == ASSUME cut' PROVE NowInv' /\ ThenInv'
BY DEF NowInv, ThenInv

LEMMA TodoRan ==
    ASSUME Ran, RunInv, NEW t \in Todo'
    PROVE  \E i \in DOMAIN run.todo : i # 1 /\ run.todo[i] = t
<1>1. PICK i \in DOMAIN run'.todo : run'.todo[i] = t
  BY DEF Todo, ToSet
<1>2. i + 1 \in DOMAIN run.todo /\ run.todo[i + 1] = t
  BY <1>1, RanTodo
<1>3. i \in Nat /\ 1 <= i
  <2>1. run'.todo \in Seq(Task)
    BY DEF Ran, Run
  <2> QED BY <1>1, <2>1, SeqIs
<1> QED BY <1>2, <1>3

LEMMA KeySet ==
    ASSUME Ran, RunInv, DataInv, InBlock(run.todo), Now.do = "set key",
           key' = [key EXCEPT ![Now.branch] = Now.id], NEW b \in Branch, NEW id \in Id
    PROVE  KeyTo(b, id)' <=> KeyTo(b, id)
<1>1. /\ Now \in Todo /\ Todo' \subseteq Todo /\ \A t \in Todo : t = Now \/ t \in Todo'
      /\ run.todo[1] = Now /\ 1 \in DOMAIN run.todo
  BY RanTodo
<1>2. ASSUME NEW t \in Todo', t.do \in {"set key", "unset key"}, t.branch = Now.branch
      PROVE  t.do = "set key" /\ t.id = Now.id
  <2>1. PICK i \in DOMAIN run.todo : run.todo[i] = t
    BY TodoRan
  <2>2. PICK j \in DOMAIN run.todo : /\ run.todo[j].do = "set layers" /\ run.todo[j].id = Now.id
                                     /\ Now.branch \in ToSet(run.todo[j].list)
    BY <1>1 DEF InBlock
  <2>3. t.do = "set key"
    BY <1>2, <2>1, <2>2 DEF InBlock
  <2>4. PICK k \in DOMAIN run.todo : run.todo[k].do = "set layers" /\ run.todo[k].id = t.id
    BY <2>1, <2>3 DEF InBlock
  <2>5. j = k
    BY <2>2, <2>4 DEF InBlock
  <2> QED BY <2>2, <2>3, <2>4, <2>5
<1>3. key'[b] = IF b = Now.branch THEN Now.id ELSE key[b]
  BY DEF DataInv
<1>4. ASSUME KeyTo(b, id)' PROVE KeyTo(b, id)
  <2>1. CASE \E t \in Todo' : t.do = "set key" /\ t.branch = b /\ t.id = id
    BY <1>1, <2>1 DEF KeyTo
  <2>2. CASE key'[b] = id /\ \A t \in Todo' : t.do \in {"set key", "unset key"} => t.branch # b
    <3>1. CASE b = Now.branch
      BY <1>1, <1>3, <2>2, <3>1 DEF KeyTo
    <3>2. CASE b # Now.branch
      BY <1>1, <1>3, <2>2, <3>2 DEF KeyTo
    <3> QED BY <3>1, <3>2
  <2> QED BY <1>4, <2>1, <2>2 DEF KeyTo
<1>5. ASSUME KeyTo(b, id) PROVE KeyTo(b, id)'
  <2>1. CASE \E t \in Todo : t.do = "set key" /\ t.branch = b /\ t.id = id
    <3>1. PICK t \in Todo : t.do = "set key" /\ t.branch = b /\ t.id = id
      BY <2>1
    <3>2. CASE t \in Todo'
      BY <3>1, <3>2 DEF KeyTo
    <3>3. CASE t = Now
      <4>1. key'[b] = id
        BY <1>3, <3>1, <3>3
      <4>2. ASSUME NEW s \in Todo', s.do \in {"set key", "unset key"}, s.branch = b
            PROVE  s.do = "set key" /\ s.id = id
        BY <1>2, <3>1, <3>3, <4>2
      <4> QED BY <4>1, <4>2 DEF KeyTo
    <3> QED BY <1>1, <3>2, <3>3
  <2>2. CASE key[b] = id /\ \A t \in Todo : t.do \in {"set key", "unset key"} => t.branch # b
    <3>1. b # Now.branch
      BY <1>1, <2>2
    <3> QED BY <1>1, <1>3, <2>2, <3>1 DEF KeyTo
  <2> QED BY <1>5, <2>1, <2>2 DEF KeyTo
<1> QED BY <1>4, <1>5

LEMMA KeyUnset ==
    ASSUME Ran, RunInv, DataInv, Now.do = "unset key",
           key' = [key EXCEPT ![Now.branch] = NoId], NEW b \in Branch, NEW id \in Id
    PROVE  KeyTo(b, id)' <=> KeyTo(b, id)
<1>1. Now \in Todo /\ Todo' \subseteq Todo /\ \A t \in Todo : t = Now \/ t \in Todo'
  BY RanTodo
<1>2. key'[b] = (IF b = Now.branch THEN NoId ELSE key[b]) /\ id # NoId
  BY IdAssumption DEF DataInv
<1>3. CASE b = Now.branch
  <2>1. ~ (\A t \in Todo : t.do \in {"set key", "unset key"} => t.branch # b)
    BY <1>1, <1>3
  <2>2. \A t \in Todo : t.do = "set key" => t \in Todo'
    BY <1>1
  <2> QED BY <1>1, <1>2, <1>3, <2>1, <2>2 DEF KeyTo
<1>4. CASE b # Now.branch
  BY <1>1, <1>2, <1>4 DEF KeyTo
<1> QED BY <1>3, <1>4

LEMMA KeyRan ==
    ASSUME Ran, RunInv, Now.do \notin {"set key", "unset key"}, key' = key, NEW b \in Branch, NEW id \in Id
    PROVE  KeyTo(b, id)' <=> KeyTo(b, id)
<1>1. Todo' \subseteq Todo /\ \A t \in Todo : t = Now \/ t \in Todo'
  BY RanTodo
<1> QED BY <1>1 DEF KeyTo

LEMMA ListRan ==
    ASSUME Ran, RunInv, Now.do \notin {"set layers", "unset layers"}, layers' = layers,
           NEW id \in Id, NEW list \in Seq(Branch)
    PROVE  Coming(id, list)' <=> Coming(id, list)
<1>1. Todo' \subseteq Todo /\ \A t \in Todo : t = Now \/ t \in Todo'
  BY RanTodo
<1> QED BY <1>1 DEF Coming, Writes

LEMMA ListWritten ==
    ASSUME Ran, RunInv, DataInv, InBlock(run.todo), Now.do \in {"set layers", "unset layers"},
           layers' = [layers EXCEPT ![Now.id] = Now.list], NEW id \in Id, NEW list \in Seq(Branch)
    PROVE  Coming(id, list)' <=> Coming(id, list)
<1>1. /\ Now \in Todo /\ Todo' \subseteq Todo /\ \A t \in Todo : t = Now \/ t \in Todo'
      /\ run.todo[1] = Now /\ 1 \in DOMAIN run.todo
  BY RanTodo
<1>2. ASSUME NEW t \in Todo' PROVE t.do \notin {"set layers", "unset layers"}
  <2>1. PICK i \in DOMAIN run.todo : i # 1 /\ run.todo[i] = t
    BY TodoRan
  <2> QED BY <1>1, <2>1 DEF InBlock
<1>3. layers'[id] = IF id = Now.id THEN Now.list ELSE layers[id]
  BY DEF DataInv
<1>4. Coming(id, list)' <=> list = layers'[id]
  BY <1>2 DEF Coming, Writes
<1>5. Coming(id, list) <=> list = layers'[id]
  <2>1. CASE id = Now.id
    BY <1>1, <1>2, <1>3, <2>1 DEF Coming, Writes
  <2>2. CASE id # Now.id
    BY <1>1, <1>2, <1>3, <2>2 DEF Coming, Writes
  <2> QED BY <2>1, <2>2
<1> QED BY <1>4, <1>5

-----------------------------------------------------------------------------
\* Each run of git.

LEMMA ExpandRan ==
    ASSUME Ran, RunInv, ExpandInv,
           run.op \in {"expand", "undo"} =>
                /\ Patches(tip'[run.cur]) = Patches(tip[run.cur])
                /\ \A b \in run'.made : b # run.cur /\ Patches(tip'[b]) \subseteq Patches(run.orig)
    PROVE  ExpandInv'
<1>1. run'.op = run.op /\ run'.cur = run.cur /\ run'.orig = run.orig /\ Todo' \subseteq Todo
  BY RanTodo DEF Ran, Same
<1>2. SUFFICES ASSUME run.op \in {"expand", "undo"} PROVE ExpandInv'
  BY <1>1 DEF ExpandInv
<1>3. run.orig # None /\ Patches(tip[run.cur]) = Patches(run.orig)
  BY <1>2 DEF ExpandInv
<1>4. \A t \in Todo' :
            /\ t.do = "reset" => t.branch = run.cur /\ Patches(t.hist) = Patches(run.orig)
            /\ t.do = "create" => Patches(t.hist) \subseteq Patches(run.orig)
  BY <1>1, <1>2 DEF ExpandInv
<1> QED BY <1>1, <1>2, <1>3, <1>4 DEF ExpandInv

LEMMA ChainRan ==
    ASSUME Ran, RunInv, ChainInv,
           run.op \in {"discover", "expand"} =>
                \A b \in Branch : \A hist \in Seq(Commit) \cup {None} : WillBe(b, hist)' => WillBe(b, hist)
    PROVE  ChainInv'
<1>1. run'.op = run.op /\ Todo' \subseteq Todo /\ run'.todo \in Seq(Task)
  BY RanTodo DEF Ran, Same, Run
<1>2. SUFFICES ASSUME run.op \in {"discover", "expand"} PROVE ChainInv'
  BY <1>1 DEF ChainInv
<1>3. ASSUME NEW i \in DOMAIN run'.todo, NEW j \in DOMAIN run'.todo, i <= j, run'.todo[i].do \in Saving
      PROVE  run'.todo[j].do \in Saving
  <2>1. /\ i + 1 \in DOMAIN run.todo /\ run'.todo[i] = run.todo[i + 1]
        /\ j + 1 \in DOMAIN run.todo /\ run'.todo[j] = run.todo[j + 1]
    BY RanTodo
  <2>2. i + 1 <= j + 1
    <3>1. i \in Nat /\ j \in Nat
      BY <1>1, SeqIs
    <3> QED BY <1>3, <3>1
  <2> QED BY <1>2, <1>3, <2>1, <2>2 DEF ChainInv
<1>4. ASSUME NEW t \in Todo', t.do = "set layers", NEW j \in 2..Len(t.list),
             NEW lower \in Seq(Commit) \cup {None}, NEW upper \in Seq(Commit) \cup {None},
             WillBe(t.list[j - 1], lower)', WillBe(t.list[j], upper)'
      PROVE  IsStrictPrefix(lower, upper)
  <2>1. t.list \in Seq(Branch)
    <3>1. t \in Task
      BY <1>1, SeqIs DEF Todo
    <3> QED BY <3>1 DEF Task
  <2>2. t.list[j - 1] \in Branch /\ t.list[j] \in Branch
    <3>1. j - 1 \in 1..Len(t.list) /\ j \in 1..Len(t.list)
      BY <2>1, SeqIs
    <3> QED BY <2>1, <3>1, SeqIs
  <2>3. WillBe(t.list[j - 1], lower) /\ WillBe(t.list[j], upper)
    BY <1>2, <1>4, <2>2
  <2> QED BY <1>1, <1>2, <1>4, <2>3 DEF ChainInv
<1> QED BY <1>1, <1>3, <1>4 DEF ChainInv

LEMMA StillRan ==
    ASSUME IInv, Ran, run'.made = run.made, tip' = tip, trunk' = trunk, run.op # "merge",
           run.op \in {"discover", "expand"} => Now.do \notin {"create", "reset"},
           run.op = "absorb" => head' = head
    PROVE  /\ RunInv' /\ RefInv' /\ SpareInv' /\ ExpandInv' /\ ChainInv' /\ InBlock(run.todo)'
           /\ \A b \in Branch : Cleaned(b) => Cleaned(b)'
<1>1. RunInv /\ RefInv /\ SpareInv /\ ExpandInv /\ ChainInv /\ InBlock(run.todo)
  BY DEF IInv
<1>2. RunInv' /\ InBlock(run.todo)'
  BY <1>1, RanTodo, BlockRan
<1>3. RefInv'
  <2>1. Exists(NoBranch)' <=> Exists(NoBranch)
    BY DEF Exists
  <2> QED BY <1>1, <2>1, RefRan
<1>4. Shrunk
  BY DEF Shrunk
<1>5. SpareInv' /\ \A b \in Branch : Cleaned(b) => Cleaned(b)'
  BY <1>1, <1>4, SpareRan
<1>6. ExpandInv'
  <2>1. run.op \in {"expand", "undo"} => \A b \in run'.made : b # run.cur /\ Patches(tip[b]) \subseteq Patches(run.orig)
    BY <1>1 DEF ExpandInv
  <2> QED BY <1>1, <2>1, ExpandRan
<1>7. ChainInv'
  <2>1. Todo' \subseteq Todo /\ \A t \in Todo : t = Now \/ t \in Todo'
    BY <1>1, RanTodo
  <2>2. run.op \in {"discover", "expand"} =>
            \A b \in Branch : \A hist \in Seq(Commit) \cup {None} : WillBe(b, hist)' => WillBe(b, hist)
    BY <2>1 DEF WillBe
  <2> QED BY <1>1, <2>2, ChainRan
<1> QED BY <1>2, <1>3, <1>5, <1>6, <1>7

LEMMA StillKeeps ==
    ASSUME IInv, Ran, run'.made = run.made, tip' = tip, trunk' = trunk, work' = work, run.op # "merge",
           run.op \in {"discover", "expand"} => Now.do \notin {"create", "reset"},
           run.op = "absorb" => head' = head, DataInv',
           (\A b \in Branch : Cleaned(b) => Cleaned(b)') => NowInv' /\ ThenInv'
    PROVE  IInv'
<1>1. /\ RunInv' /\ RefInv' /\ SpareInv' /\ ExpandInv' /\ ChainInv' /\ InBlock(run.todo)'
      /\ NowInv' /\ ThenInv'
  BY StillRan
<1>2. WorkKept'
  BY DEF IInv, WorkKept
<1> QED BY <1>1, <1>2 DEF IInv

LEMMA QuietKeeps ==
    ASSUME IInv, Ran, run'.made = run.made, tip' = tip, trunk' = trunk, work' = work, run.op # "merge",
           Now.do \notin {"create", "reset"} \cup Config,
           run.op = "absorb" => head' = head, DataInv', key' = key, layers' = layers, cut' = cut
    PROVE  IInv'
<1>1. RunInv /\ NowInv /\ ThenInv
  BY DEF IInv
<1> QED BY <1>1, StillKeeps, LineageQuiet

LEMMA MoveHeadKeeps == ASSUME IInv, MoveHead, UNCHANGED bound PROVE IInv'
<1> USE DEF Doing
<1>1. run.todo # <<>> /\ RunInv /\ run \in Run /\ DataInv /\ RefInv
  BY DEF MoveHead, IInv, RunInv
<1>2. Ran /\ run'.made = run.made
  BY <1>1, RestIs DEF MoveHead, Step
<1>3. Now \in Task /\ Formed(Now) /\ Now.do \in KindsOf[run.op] /\ Now \in Todo /\ run.op \in Op
  BY <1>1, <1>2, RanTodo DEF Run
<1>4. Now.do \in {"detach", "checkout", "leave"}
  BY DEF MoveHead, Now
<1>5. run.op \in {"expand", "finish", "prune"}
  BY <1>3, <1>4, KindsAre
<1>6. tip' = tip /\ trunk' = trunk /\ origin' = origin /\ key' = key /\ layers' = layers /\ merged' = merged
      /\ work' = work /\ cut' = cut /\ made' = made /\ bound' = bound
  BY DEF MoveHead, refs, config, history
<1>7. head' \in {Trunk, NoBranch} \/ (head' \in Branch /\ Exists(head'))
  <2>1. CASE Now.do = "detach"
    BY <2>1 DEF MoveHead, Now
  <2>2. CASE Now.do = "checkout"
    <3>1. Now.branch \in Branch /\ Exists(Now.branch)
      BY <1>1, <1>3, <2>2 DEF Formed, RefInv
    <3>2. head' = Now.branch
      BY <2>2 DEF MoveHead, Now
    <3> QED BY <3>1, <3>2
  <2>3. CASE Now.do = "leave"
    <3>1. head' = IF head = Now.branch /\ (Now.onto = NoBranch \/ Exists(Now.onto)) THEN Now.onto ELSE head
      BY <2>3 DEF MoveHead, Now
    <3>2. Now.onto \in Branch \cup {NoBranch}
      BY <1>3, <2>3 DEF Formed, Task
    <3> QED BY <1>1, <3>1, <3>2 DEF DataInv
  <2> QED BY <1>4, <2>1, <2>2, <2>3
<1>8. DataInv'
  <2>1. Exists(head') <=> Exists(head)'
    BY <1>6 DEF Exists
  <2> QED BY <1>1, <1>6, <1>7, <2>1 DEF DataInv
<1>9. Now.do \notin {"create", "reset"} \cup Config
  BY <1>4 DEF Config, Saving, Unset
<1> QED BY <1>2, <1>5, <1>6, <1>8, <1>9, QuietKeeps

LEMMA RemoteKeeps ==
    ASSUME IInv, Doing("drop origin") \/ Doing("push"), run' = Rest, origin' \in [Branch -> Seq(Commit) \cup {None}],
           UNCHANGED <<tip, trunk, config, head, history, bound>>
    PROVE  IInv'
<1>1. run.todo # <<>> /\ RunInv /\ run \in Run /\ DataInv
  BY DEF Doing, IInv, RunInv
<1>2. Ran /\ run'.made = run.made
  BY <1>1, RestIs
<1>3. Now.do \in KindsOf[run.op] /\ Now.do \in {"drop origin", "push"}
  BY <1>1, <1>2, RanTodo DEF Doing, Now
<1>4. run.op # "merge" /\ Now.do \notin {"create", "reset"} \cup Config
  BY <1>3, KindsAre DEF Config, Saving, Unset
<1>5. key' = key /\ layers' = layers /\ merged' = merged /\ work' = work /\ cut' = cut /\ made' = made
  BY DEF config, history
<1>6. DataInv'
  BY <1>1, <1>5 DEF DataInv, Exists
<1> QED BY <1>2, <1>4, <1>5, <1>6, QuietKeeps

LEMMA DropRemoteKeeps == ASSUME IInv, DropRemote, UNCHANGED bound PROVE IInv'
<1>1. origin \in [Branch -> Seq(Commit) \cup {None}]
  BY DEF IInv, DataInv
<1> QED BY <1>1, RemoteKeeps DEF DropRemote, Step

LEMMA PushKeeps == ASSUME IInv, Push, UNCHANGED bound PROVE IInv'
<1>1. origin \in [Branch -> Seq(Commit) \cup {None}] /\ tip \in [Branch -> Seq(Commit) \cup {None}]
  BY DEF IInv, DataInv
<1>2. Now.branch \in Branch
  <2>1. run.todo # <<>> /\ RunInv /\ run \in Run /\ Now.do = "push"
    BY DEF Push, Doing, IInv, RunInv, Now
  <2>2. Formed(Now)
    BY <2>1, RestIs, RanTodo DEF Push, Step
  <2> QED BY <2>1, <2>2 DEF Formed
<1>3. origin' \in [Branch -> Seq(Commit) \cup {None}]
  BY <1>1, <1>2 DEF Push
<1> QED BY <1>3, RemoteKeeps DEF Push, Step

\* What every config write starts from.
LEMMA ConfigRuns ==
    ASSUME IInv, run.todo # <<>>, Now.do \in Config, run' = Rest
    PROVE  /\ Ran /\ run'.made = run.made /\ RunInv /\ DataInv /\ InBlock(run.todo) /\ NowInv /\ ThenInv
           /\ Now \in Task /\ Formed(Now) /\ run.op # "merge" /\ Now.do \notin {"create", "reset"}
           /\ IsInjective(Now.list)
<1>1. RunInv /\ run \in Run /\ DataInv /\ InBlock(run.todo) /\ NowInv /\ ThenInv
  BY DEF IInv, RunInv
<1>2. Ran /\ run'.made = run.made
  BY <1>1, RestIs
<1>3. Now \in Task /\ Formed(Now) /\ Now.do \in KindsOf[run.op] /\ run.todo[1] = Now /\ 1 \in DOMAIN run.todo
  BY <1>1, <1>2, RanTodo
<1>4. run.op # "merge" /\ Now.do \notin {"create", "reset"}
  BY <1>3, KindsAre DEF Config, Saving, Unset
<1>5. IsInjective(Now.list)
  BY <1>1, <1>3 DEF InBlock
<1> QED BY <1>1, <1>2, <1>3, <1>4, <1>5

LEMMA SetKeyKeeps == ASSUME IInv, SetKey, UNCHANGED bound PROVE IInv'
<1>1. run.todo # <<>> /\ Now.do = "set key" /\ run' = Rest /\ Now.do \in Config
  BY DEF SetKey, Doing, Step, Now, Config, Saving
<1>2. /\ Ran /\ run'.made = run.made /\ RunInv /\ DataInv /\ InBlock(run.todo) /\ NowInv /\ ThenInv
      /\ Now \in Task /\ Formed(Now) /\ run.op # "merge" /\ Now.do \notin {"create", "reset"}
  BY <1>1, ConfigRuns
<1>3. key' = [key EXCEPT ![Now.branch] = Now.id] /\ tip' = tip /\ trunk' = trunk /\ origin' = origin
      /\ layers' = layers /\ merged' = merged /\ head' = head /\ made' = made /\ work' = work /\ cut' = cut
  BY DEF SetKey, refs, history
<1>4. DataInv'
  <2>1. Now.branch \in Branch /\ Now.id \in Id
    BY <1>1, <1>2 DEF Formed
  <2>2. key' \in [Branch -> Id \cup {NoId}]
    BY <1>2, <1>3, <2>1 DEF DataInv
  <2> QED BY <1>2, <1>3, <2>2 DEF DataInv, Exists
<1>5. \A b \in Branch, id \in Id : KeyTo(b, id)' <=> KeyTo(b, id)
  BY <1>1, <1>2, <1>3, KeySet
<1>6. \A id \in Id : \A list \in Seq(Branch) : Coming(id, list)' <=> Coming(id, list)
  BY <1>1, <1>2, <1>3, ListRan
<1>7. (\A b \in Branch : Cleaned(b) => Cleaned(b)') => NowInv' /\ ThenInv'
  BY <1>1, <1>2, <1>3, <1>4, <1>5, <1>6, LineageWritten
<1> QED BY <1>2, <1>3, <1>4, <1>7, StillKeeps

LEMMA UnsetKeyKeeps == ASSUME IInv, UnsetKey, UNCHANGED bound PROVE IInv'
<1>1. run.todo # <<>> /\ Now.do = "unset key" /\ run' = Rest /\ Now.do \in Config
  BY DEF UnsetKey, Doing, Step, Now, Config, Unset
<1>2. /\ Ran /\ run'.made = run.made /\ RunInv /\ DataInv /\ InBlock(run.todo) /\ NowInv /\ ThenInv
      /\ Now \in Task /\ Formed(Now) /\ run.op # "merge" /\ Now.do \notin {"create", "reset"}
  BY <1>1, ConfigRuns
<1>3. key' = [key EXCEPT ![Now.branch] = NoId] /\ tip' = tip /\ trunk' = trunk /\ origin' = origin
      /\ layers' = layers /\ merged' = merged /\ head' = head /\ made' = made /\ work' = work /\ cut' = cut
  BY DEF UnsetKey, refs, history
<1>4. DataInv'
  <2>1. key' \in [Branch -> Id \cup {NoId}]
    BY <1>2, <1>3 DEF DataInv
  <2> QED BY <1>2, <1>3, <2>1 DEF DataInv, Exists
<1>5. \A b \in Branch, id \in Id : KeyTo(b, id)' <=> KeyTo(b, id)
  BY <1>1, <1>2, <1>3, KeyUnset
<1>6. \A id \in Id : \A list \in Seq(Branch) : Coming(id, list)' <=> Coming(id, list)
  BY <1>1, <1>2, <1>3, ListRan
<1>7. (\A b \in Branch : Cleaned(b) => Cleaned(b)') => NowInv' /\ ThenInv'
  BY <1>1, <1>2, <1>3, <1>4, <1>5, <1>6, LineageWritten
<1> QED BY <1>2, <1>3, <1>4, <1>7, StillKeeps

LEMMA UnsetPRKeeps == ASSUME IInv, UnsetPR, UNCHANGED bound PROVE IInv'
<1>1. run.todo # <<>> /\ Now.do = "unset pr" /\ run' = Rest /\ Now.do \in Config
  BY DEF UnsetPR, Doing, Step, Now, Config, Unset
<1>2. /\ Ran /\ run'.made = run.made /\ RunInv /\ DataInv /\ InBlock(run.todo) /\ NowInv /\ ThenInv
      /\ Now \in Task /\ Formed(Now) /\ run.op # "merge" /\ Now.do \notin {"create", "reset"}
  BY <1>1, ConfigRuns
<1>3. key' = key /\ tip' = tip /\ trunk' = trunk /\ origin' = origin /\ merged' \subseteq merged
      /\ layers' = layers /\ head' = head /\ made' = made /\ work' = work /\ cut' = cut
  BY DEF UnsetPR, refs, history
<1>4. DataInv'
  BY <1>2, <1>3 DEF DataInv, Exists
<1>5. \A b \in Branch, id \in Id : KeyTo(b, id)' <=> KeyTo(b, id)
  BY <1>1, <1>2, <1>3, KeyRan
<1>6. \A id \in Id : \A list \in Seq(Branch) : Coming(id, list)' <=> Coming(id, list)
  BY <1>1, <1>2, <1>3, ListRan
<1>7. (\A b \in Branch : Cleaned(b) => Cleaned(b)') => NowInv' /\ ThenInv'
  BY <1>1, <1>2, <1>3, <1>4, <1>5, <1>6, LineageWritten
<1> QED BY <1>2, <1>3, <1>4, <1>7, StillKeeps

LEMMA ListKeeps ==
    ASSUME IInv, run.todo # <<>>, Now.do \in {"set layers", "unset layers"}, run' = Rest,
           layers' = [layers EXCEPT ![Now.id] = Now.list], UNCHANGED <<refs, key, merged, head, history, bound>>
    PROVE  IInv'
<1>1. Now.do \in Config
  BY DEF Config, Saving, Unset
<1>2. /\ Ran /\ run'.made = run.made /\ RunInv /\ DataInv /\ InBlock(run.todo) /\ NowInv /\ ThenInv
      /\ Now \in Task /\ Formed(Now) /\ run.op # "merge" /\ Now.do \notin {"create", "reset"}
      /\ IsInjective(Now.list)
  BY <1>1, ConfigRuns
<1>3. key' = key /\ tip' = tip /\ trunk' = trunk /\ origin' = origin /\ merged' = merged
      /\ head' = head /\ made' = made /\ work' = work /\ cut' = cut
  BY DEF refs, history
<1>4. DataInv'
  <2>1. Now.id \in Id /\ Now.list \in Seq(Branch)
    BY <1>2 DEF Formed, Task
  <2>2. layers' \in [Id -> Seq(Branch)] /\ \A id \in Id : IsInjective(layers'[id])
    <3>1. \A id \in Id : layers'[id] = IF id = Now.id THEN Now.list ELSE layers[id]
      BY <1>2 DEF DataInv
    <3>2. layers' \in [Id -> Seq(Branch)]
      BY <1>2, <2>1 DEF DataInv
    <3> QED BY <1>2, <3>1, <3>2 DEF DataInv
  <2> QED BY <1>2, <1>3, <2>2 DEF DataInv, Exists
<1>5. \A b \in Branch, id \in Id : KeyTo(b, id)' <=> KeyTo(b, id)
  BY <1>2, <1>3, KeyRan
<1>6. \A id \in Id : \A list \in Seq(Branch) : Coming(id, list)' <=> Coming(id, list)
  BY <1>2, ListWritten
<1>7. (\A b \in Branch : Cleaned(b) => Cleaned(b)') => NowInv' /\ ThenInv'
  BY <1>1, <1>2, <1>3, <1>4, <1>5, <1>6, LineageWritten
<1> QED BY <1>2, <1>3, <1>4, <1>7, StillKeeps

LEMMA SetLayersKeeps == ASSUME IInv, SetLayers, UNCHANGED bound PROVE IInv'
BY ListKeeps DEF SetLayers, Doing, Step, Now

LEMMA UnsetLayersKeeps == ASSUME IInv, UnsetLayers, UNCHANGED bound PROVE IInv'
<1>1. run.todo # <<>> /\ Now.do = "unset layers" /\ run' = Rest /\ Now.do \in Config
  BY DEF UnsetLayers, Doing, Step, Now, Config, Unset
<1>2. Now.list = <<>>
  BY <1>1, ConfigRuns DEF Formed
<1> QED BY <1>1, <1>2, ListKeeps DEF UnsetLayers

LEMMA SkipKeeps == ASSUME IInv, Skip, UNCHANGED bound PROVE IInv'
<1>1. run.todo # <<>> /\ RunInv /\ run \in Run /\ DataInv /\ NowInv /\ ThenInv
  BY DEF Skip, IInv, RunInv
<1>2. Ran /\ run'.made = run.made
  BY <1>1, RestIs DEF Skip, Step
<1>3. Now.do \in KindsOf[run.op] /\ run.op \in Op
  BY <1>1, <1>2, RanTodo DEF Run
<1>4. tip' = tip /\ trunk' = trunk /\ origin' = origin /\ key' = key /\ layers' = layers /\ merged' = merged
      /\ head' = head /\ work' = work /\ made' = made /\ cut' \in BOOLEAN
  BY DEF Skip, refs, config
<1>5. DataInv'
  BY <1>1, <1>4 DEF DataInv, Exists
<1>6. Now.do \in {"leave", "drop", "drop origin", "push"} \cup Unset \/ run.op = "undo"
  BY DEF Skip
<1>7. run.op # "merge" /\ (run.op \in {"discover", "expand"} => Now.do \notin {"create", "reset"})
  BY <1>3, <1>6, KindsAre DEF Unset
<1>8. (\A b \in Branch : Cleaned(b) => Cleaned(b)') => NowInv' /\ ThenInv'
  <2>1. CASE Now.do \in Unset
    <3>1. cut'
      BY <2>1 DEF Skip
    <3> QED BY <3>1, LineageCut
  <2>2. CASE Now.do \notin Unset
    <3>1. cut' = cut
      BY <1>1, <2>2 DEF Skip, DataInv
    <3>2. Now.do \notin Config
      BY <1>3, <1>6, <2>2, KindsAre DEF Config, Saving
    <3> QED BY <1>1, <1>2, <1>4, <3>1, <3>2, LineageQuiet
  <2> QED BY <2>1, <2>2
<1> QED BY <1>2, <1>4, <1>5, <1>7, <1>8, StillKeeps

\* A run of git that gives one branch another history.
LEMMA TipKeeps ==
    ASSUME IInv, Ran, trunk' = trunk, work' = work, cut' = cut, key' = key, layers' = layers,
           Now.do \notin Config, DataInv', NEW b0 \in Branch,
           \A b \in Branch : b # b0 => tip'[b] = tip[b],
           ~Exists(b0) /\ Exists(b0)' => \A t \in Todo' : t.do \in Making => t.branch # b0,
           Exists(b0) /\ ~Exists(b0)' => b0 # run.cur /\ run.op \notin {"merge", "finish"},
           run.op = "merge" => head' = Now.branch,
           run.op = "absorb" => head' = head,
           run.op \in {"undo"} \cup Cleaning => Shrunk,
           run.op \in {"expand", "undo"} =>
                /\ Patches(tip'[run.cur]) = Patches(tip[run.cur])
                /\ \A b \in run'.made : b # run.cur /\ Patches(tip'[b]) \subseteq Patches(run.orig),
           run.op \in {"discover", "expand"} =>
                \A b \in Branch : \A hist \in Seq(Commit) \cup {None} : WillBe(b, hist)' => WillBe(b, hist),
           Patches(tip[b0]) \subseteq Patches(trunk) \cup UNION {Patches(tip'[b]) : b \in Branch}
    PROVE  IInv'
<1>1. RunInv /\ RefInv /\ SpareInv /\ ExpandInv /\ ChainInv /\ InBlock(run.todo) /\ NowInv /\ ThenInv /\ WorkKept
  BY DEF IInv
<1>2. RunInv' /\ InBlock(run.todo)'
  BY <1>1, RanTodo, BlockRan
<1>3. RefInv'
  BY <1>1, RefRan
<1>4. SpareInv' /\ \A b \in Branch : Cleaned(b) => Cleaned(b)'
  BY <1>1, SpareRan
<1>5. ExpandInv'
  BY <1>1, ExpandRan
<1>6. ChainInv'
  BY <1>1, ChainRan
<1>7. NowInv' /\ ThenInv'
  BY <1>1, <1>4, LineageQuiet
<1>8. WorkKept'
  <2>1. \A b \in Branch : Patches(tip[b]) \subseteq Patches(trunk) \cup UNION {Patches(tip'[c]) : c \in Branch}
    <3>1. SUFFICES ASSUME NEW b \in Branch
                   PROVE  Patches(tip[b]) \subseteq Patches(trunk) \cup UNION {Patches(tip'[c]) : c \in Branch}
      OBVIOUS
    <3>2. CASE b = b0
      BY <3>2
    <3>3. CASE b # b0
      BY <3>3
    <3> QED BY <3>2, <3>3
  <2> QED BY <1>1, <2>1 DEF WorkKept
<1> QED BY <1>2, <1>3, <1>4, <1>5, <1>6, <1>7, <1>8 DEF IInv

\* A new branch takes a name no other task is to make.
LEMMA MakesOnce ==
    ASSUME Ran, RunInv, RefInv, Now.do \in Making
    PROVE  ~Exists(Now.branch) /\ \A t \in Todo' : t.do \in Making => t.branch # Now.branch
<1>1. Now \in Todo /\ run.todo[1] = Now /\ 1 \in DOMAIN run.todo
  BY RanTodo
<1>2. ASSUME NEW t \in Todo', t.do \in Making PROVE t.branch # Now.branch
  <2>1. PICK i \in DOMAIN run.todo : i # 1 /\ run.todo[i] = t
    BY TodoRan
  <2> QED BY <1>1, <1>2, <2>1 DEF RefInv
<1> QED BY <1>1, <1>2 DEF RefInv

\* A branch made or reset becomes what it was to be.
LEMMA BecomesWhatItWillBe ==
    ASSUME Ran, RunInv, Now.do \in {"create", "reset"}, Now.branch \in Branch, DataInv,
           tip' = [tip EXCEPT ![Now.branch] = Now.hist], NEW b \in Branch, NEW hist, WillBe(b, hist)'
    PROVE  WillBe(b, hist)
<1>1. Now \in Todo /\ Todo' \subseteq Todo /\ \A t \in Todo : t = Now \/ t \in Todo'
  BY RanTodo
<1>2. tip'[b] = IF b = Now.branch THEN Now.hist ELSE tip[b]
  BY DEF DataInv
<1>3. CASE \E t \in Todo' : t.do \in {"create", "reset"} /\ t.branch = b /\ t.hist = hist
  BY <1>1, <1>3 DEF WillBe
<1>4. CASE hist = tip'[b] /\ \A t \in Todo' : ~(t.do \in {"create", "reset"} /\ t.branch = b)
  <2>1. CASE b = Now.branch
    <3>1. hist = Now.hist
      BY <1>2, <1>4, <2>1
    <3> QED BY <1>1, <2>1, <3>1 DEF WillBe
  <2>2. CASE b # Now.branch
    <3>1. hist = tip[b] /\ \A t \in Todo : ~(t.do \in {"create", "reset"} /\ t.branch = b)
      BY <1>1, <1>2, <1>4, <2>2
    <3> QED BY <3>1 DEF WillBe
  <2> QED BY <2>1, <2>2
<1> QED BY <1>3, <1>4 DEF WillBe

LEMMA CreateBranchKeeps == ASSUME IInv, CreateBranch, UNCHANGED bound PROVE IInv'
<1>1. /\ run.todo # <<>> /\ RunInv /\ run \in Run /\ DataInv /\ RefInv /\ ExpandInv /\ Now.do = "create"
      /\ Now.do \in Making /\ Now.do \notin Config
  BY DEF CreateBranch, Doing, Now, IInv, RunInv, Making, Config, Saving, Unset
<1>2. Now \in Task /\ Formed(Now) /\ Now.do \in KindsOf[run.op] /\ Now \in Todo
  <2>1. Now \in Todo /\ Now \in Task
    BY <1>1, TailIs, SeqIs DEF Todo, Now, Run
  <2> QED BY <1>1, <2>1 DEF RunInv
<1> PICK b0 : b0 = Now.branch
  OBVIOUS
<1>3. b0 \in Branch /\ Now.hist \in Seq(Commit) /\ run.op = "expand"
  <2>1. run.op \in Op
    BY <1>1 DEF Run
  <2> QED BY <1>1, <1>2, <2>1, KindsAre DEF Formed, Task
<1>4. Ran /\ run'.made = run.made \cup {b0}
  BY <1>1, <1>3, RestMade DEF CreateBranch, Step
<1>5. /\ tip' = [tip EXCEPT ![b0] = Now.hist] /\ trunk' = trunk /\ origin' = origin /\ key' = key
      /\ layers' = layers /\ merged' = merged /\ head' = head /\ made' = made /\ work' = work /\ cut' = cut
  BY DEF CreateBranch, config, history
<1>6. ~Exists(b0) /\ \A t \in Todo' : t.do \in Making => t.branch # b0
  BY <1>1, <1>4, MakesOnce
<1>7. \A b \in Branch : tip'[b] = IF b = b0 THEN Now.hist ELSE tip[b]
  BY <1>1, <1>3, <1>5 DEF DataInv
<1>8. DataInv'
  <2>1. tip' \in [Branch -> Seq(Commit) \cup {None}]
    BY <1>1, <1>3, <1>5 DEF DataInv
  <2>2. \A b \in Branch : Exists(b) => Exists(b)'
    BY <1>6, <1>7 DEF Exists
  <2>3. head \in {Trunk, NoBranch} \/ (head \in Branch /\ Exists(head)')
    BY <1>1, <1>5, <2>2 DEF DataInv
  <2> QED BY <1>1, <1>5, <2>1, <2>3 DEF DataInv, Exists
<1>9. run.cur \in Branch /\ Exists(run.cur) /\ run.cur # b0
  BY <1>1, <1>3, <1>6 DEF RefInv
<1>10. /\ Patches(tip'[run.cur]) = Patches(tip[run.cur])
       /\ \A b \in run'.made : b # run.cur /\ Patches(tip'[b]) \subseteq Patches(run.orig)
  <2>1. \A b \in run.made : b \in Branch /\ b # run.cur /\ Patches(tip[b]) \subseteq Patches(run.orig)
    BY <1>1, <1>3 DEF ExpandInv, Run
  <2>2. Patches(Now.hist) \subseteq Patches(run.orig)
    BY <1>1, <1>2, <1>3 DEF ExpandInv
  <2> QED BY <1>3, <1>4, <1>7, <1>9, <2>1, <2>2
<1>11. \A b \in Branch : \A hist \in Seq(Commit) \cup {None} : WillBe(b, hist)' => WillBe(b, hist)
  BY <1>1, <1>3, <1>4, <1>5, BecomesWhatItWillBe
<1>12. Patches(tip[b0]) = {}
  BY <1>6, HistIs DEF Exists
<1>13. run.op \notin {"undo"} \cup Cleaning
  BY <1>3 DEF Cleaning
<1> QED BY <1>1, <1>3, <1>4, <1>5, <1>6, <1>7, <1>8, <1>9, <1>10, <1>11, <1>12, <1>13, TipKeeps

LEMMA CheckoutNewKeeps == ASSUME IInv, CheckoutNew, UNCHANGED bound PROVE IInv'
<1>1. /\ run.todo # <<>> /\ RunInv /\ run \in Run /\ DataInv /\ RefInv /\ ExpandInv /\ Now.do \in {"start", "reset"}
      /\ Now.do \notin Config
  BY DEF CheckoutNew, Doing, Now, IInv, RunInv, Config, Saving, Unset
<1>2. Ran /\ run'.made = run.made
  BY <1>1, RestIs DEF CheckoutNew, Step
<1>3. Now \in Task /\ Formed(Now) /\ Now.do \in KindsOf[run.op] /\ Now \in Todo /\ run.op \in Op
  BY <1>1, <1>2, RanTodo DEF Run
<1> PICK b0 : b0 = Now.branch
  OBVIOUS
<1>4. b0 \in Branch /\ Now.hist \in Seq(Commit) /\ Now.hist # None
  BY <1>1, <1>3, HistIs DEF Formed, Task
<1>5. /\ tip' = [tip EXCEPT ![b0] = Now.hist] /\ trunk' = trunk /\ origin' = origin /\ key' = key
      /\ layers' = layers /\ merged' = merged /\ head' = b0 /\ made' = made /\ work' = work /\ cut' = cut
  BY DEF CheckoutNew, config, history
<1>6. \A b \in Branch : tip'[b] = IF b = b0 THEN Now.hist ELSE tip[b]
  BY <1>1, <1>4, <1>5 DEF DataInv
<1>7. DataInv'
  <2>1. tip' \in [Branch -> Seq(Commit) \cup {None}]
    BY <1>1, <1>4, <1>5 DEF DataInv
  <2>2. head' \in Branch /\ Exists(head)'
    BY <1>4, <1>5, <1>6 DEF Exists
  <2> QED BY <1>1, <1>5, <2>1, <2>2 DEF DataInv
<1>8. CASE Now.do = "start"
  <2>1. run.op \in {"start", "append"} /\ run.op \notin {"undo"} \cup Cleaning
    BY <1>3, <1>8, KindsAre DEF Cleaning
  <2>2. ~Exists(b0) /\ \A t \in Todo' : t.do \in Making => t.branch # b0
    BY <1>1, <1>2, <1>8, MakesOnce DEF Making
  <2>3. Patches(tip[b0]) = {}
    BY <2>2, HistIs DEF Exists
  <2> QED BY <1>1, <1>2, <1>4, <1>5, <1>6, <1>7, <2>1, <2>2, <2>3, TipKeeps
<1>9. CASE Now.do = "reset"
  <2>1. run.op \in {"expand", "undo"} /\ run.op \notin Cleaning
    BY <1>3, <1>9, KindsAre DEF Cleaning
  <2>2. b0 = run.cur /\ Patches(Now.hist) = Patches(run.orig) /\ Patches(tip[run.cur]) = Patches(run.orig)
    BY <1>1, <1>3, <1>9, <2>1 DEF ExpandInv
  <2>3. Exists(b0)
    BY <1>1, <2>1, <2>2 DEF RefInv
  <2>4. Patches(tip'[b0]) = Patches(tip[b0])
    BY <1>4, <1>6, <2>2
  <2>5. Shrunk
    BY <1>6, <2>4 DEF Shrunk
  <2>6. /\ Patches(tip'[run.cur]) = Patches(tip[run.cur])
        /\ \A b \in run'.made : b # run.cur /\ Patches(tip'[b]) \subseteq Patches(run.orig)
    <3>1. \A b \in run.made : b \in Branch /\ b # run.cur /\ Patches(tip[b]) \subseteq Patches(run.orig)
      BY <1>1, <2>1 DEF ExpandInv, Run
    <3> QED BY <1>2, <1>6, <2>2, <2>4, <3>1
  <2>7. \A b \in Branch : \A hist \in Seq(Commit) \cup {None} : WillBe(b, hist)' => WillBe(b, hist)
    BY <1>1, <1>2, <1>4, <1>5, <1>9, BecomesWhatItWillBe
  <2>8. Patches(tip[b0]) \subseteq Patches(trunk) \cup UNION {Patches(tip'[b]) : b \in Branch}
    BY <1>4, <2>4
  <2>9. Exists(b0)'
    BY <1>5, <1>7, <1>4, <1>6 DEF Exists
  <2> QED BY <1>1, <1>2, <1>4, <1>5, <1>6, <1>7, <2>1, <2>3, <2>5, <2>6, <2>7, <2>8, <2>9, TipKeeps
<1> QED BY <1>1, <1>8, <1>9

LEMMA RebaseKeeps == ASSUME IInv, Rebase, UNCHANGED bound PROVE IInv'
<1>1. /\ run.todo # <<>> /\ RunInv /\ run \in Run /\ DataInv /\ RefInv /\ Now.do = "rebase" /\ Now.do \notin Config
  BY DEF Rebase, Doing, Now, IInv, RunInv, Config, Saving, Unset
<1>2. Ran /\ run'.made = run.made
  BY <1>1, RestIs DEF Rebase, Step
<1>3. Now \in Task /\ Formed(Now) /\ Now.do \in KindsOf[run.op] /\ Now \in Todo /\ run.op \in Op
  BY <1>1, <1>2, RanTodo DEF Run
<1>4. run.op = "merge" /\ run.op \notin {"undo"} \cup Cleaning
  BY <1>1, <1>3, KindsAre DEF Cleaning
<1> PICK b0 : b0 = Now.branch
  OBVIOUS
<1> DEFINE onto == TipOf(Now.onto)
           hist == Rebased(tip[b0], onto)
<1>5. b0 \in Branch /\ Exists(b0) /\ tip[b0] \in Seq(Commit)
  <2>1. b0 \in Branch /\ Exists(b0)
    BY <1>1, <1>3 DEF Formed, RefInv
  <2> QED BY <1>1, <2>1 DEF DataInv, Exists
<1>6. onto \in Seq(Commit)
  <2>1. CASE Now.onto = Trunk
    BY <1>1, <2>1 DEF TipOf, DataInv
  <2>2. CASE Now.onto # Trunk
    <3>1. Now.onto \in Branch /\ Exists(Now.onto)
      BY <1>1, <1>3, <2>2 DEF RefInv
    <3> QED BY <1>1, <2>2, <3>1 DEF TipOf, DataInv, Exists
  <2> QED BY <2>1, <2>2
<1>7. hist \in Seq(Commit) /\ hist # None /\ Patches(tip[b0]) \subseteq Patches(hist)
  BY <1>5, <1>6, RebasedKeeps, HistIs
<1>8. /\ tip' = [tip EXCEPT ![b0] = hist] /\ trunk' = trunk /\ origin' = origin /\ key' = key
      /\ layers' = layers /\ merged' = merged /\ head' = b0 /\ made' = made /\ work' = work /\ cut' = cut
  BY DEF Rebase, config, history
<1> HIDE DEF hist, onto
<1>9. \A b \in Branch : tip'[b] = IF b = b0 THEN hist ELSE tip[b]
  BY <1>1, <1>5, <1>8 DEF DataInv
<1>10. DataInv'
  <2>1. tip' \in [Branch -> Seq(Commit) \cup {None}]
    BY <1>1, <1>7, <1>8 DEF DataInv
  <2>2. head' \in Branch /\ Exists(head)'
    BY <1>5, <1>7, <1>8, <1>9 DEF Exists
  <2> QED BY <1>1, <1>8, <2>1, <2>2 DEF DataInv
<1>11. Exists(b0)'
  BY <1>5, <1>7, <1>9 DEF Exists
<1>12. Patches(tip[b0]) \subseteq Patches(trunk) \cup UNION {Patches(tip'[b]) : b \in Branch}
  <2>1. tip'[b0] = hist
    BY <1>5, <1>9
  <2> QED BY <1>5, <1>7, <2>1
<1>13. head' = Now.branch
  BY <1>8
<1> QED BY <1>1, <1>2, <1>4, <1>5, <1>8, <1>9, <1>10, <1>11, <1>12, <1>13, TipKeeps

LEMMA DropBranchKeeps == ASSUME IInv, DropBranch, UNCHANGED bound PROVE IInv'
<1>1. /\ run.todo # <<>> /\ RunInv /\ run \in Run /\ DataInv /\ RefInv /\ ExpandInv /\ SpareInv
      /\ Now.do = "drop" /\ Now.do \notin Config
  BY DEF DropBranch, Doing, Now, IInv, RunInv, Config, Saving, Unset
<1>2. Ran /\ run'.made = run.made
  BY <1>1, RestIs DEF DropBranch, Step
<1>3. Now \in Task /\ Formed(Now) /\ Now.do \in KindsOf[run.op] /\ Now \in Todo /\ run.op \in Op
  BY <1>1, <1>2, RanTodo DEF Run
<1>4. run.op \notin {"merge", "finish", "discover", "expand"}
  BY <1>1, <1>3, KindsAre
<1> PICK b0 : b0 = Now.branch
  OBVIOUS
<1>5. b0 \in Branch /\ Spare(b0) /\ b0 # run.cur
  BY <1>1, <1>3 DEF Formed, SpareInv
<1>6. /\ trunk' = trunk /\ origin' = origin /\ key' = key
      /\ layers' = layers /\ merged' = merged /\ head' = head /\ made' = made /\ work' = work /\ cut' = cut
  BY DEF DropBranch, config, history
<1>7. \A b \in Branch : tip'[b] = IF b = b0 /\ head # b0 THEN None ELSE tip[b]
  BY <1>1, <1>5 DEF DataInv, DropBranch
<1>8. DataInv'
  <2>1. tip' \in [Branch -> Seq(Commit) \cup {None}]
    BY <1>1, <1>5 DEF DataInv, DropBranch
  <2>2. head \in {Trunk, NoBranch} \/ (head \in Branch /\ Exists(head)')
    BY <1>1, <1>6, <1>7 DEF DataInv, Exists
  <2> QED BY <1>1, <1>6, <2>1, <2>2 DEF DataInv, Exists
<1>9. Shrunk
  BY <1>5, <1>7, HistIs DEF Shrunk
<1>10. Exists(b0)' => Exists(b0)
  BY <1>5, <1>7 DEF Exists
<1>11. run.op \in {"expand", "undo"} =>
                /\ Patches(tip'[run.cur]) = Patches(tip[run.cur])
                /\ \A b \in run'.made : b # run.cur /\ Patches(tip'[b]) \subseteq Patches(run.orig)
  <2>1. SUFFICES ASSUME run.op = "undo"
                 PROVE /\ Patches(tip'[run.cur]) = Patches(tip[run.cur])
                       /\ \A b \in run.made : b # run.cur /\ Patches(tip'[b]) \subseteq Patches(run.orig)
    BY <1>2, <1>4
  <2>2. run.cur \in Branch
    BY <1>1, <2>1 DEF RefInv
  <2>3. \A b \in run.made : b \in Branch /\ b # run.cur /\ Patches(tip[b]) \subseteq Patches(run.orig)
    BY <1>1, <2>1 DEF ExpandInv, Run
  <2> QED BY <1>9, <2>2, <2>3 DEF Shrunk
<1>12. Patches(tip[b0]) \subseteq Patches(trunk) \cup UNION {Patches(tip'[b]) : b \in Branch}
  <2>1. CASE run.cur \in Branch \ {b0}
    <3>1. tip'[run.cur] = tip[run.cur]
      BY <1>7, <2>1
    <3> QED BY <1>5, <2>1, <3>1 DEF Spare
  <2>2. CASE run.cur \notin Branch \ {b0}
    BY <1>5, <2>2 DEF Spare
  <2> QED BY <2>1, <2>2
<1> QED BY <1>1, <1>2, <1>4, <1>5, <1>6, <1>7, <1>8, <1>9, <1>10, <1>11, <1>12, TipKeeps

LEMMA SaveFailsKeeps == ASSUME IInv, SaveFails, UNCHANGED bound PROVE IInv'
<1>1. /\ run.todo # <<>> /\ RunInv /\ run \in Run /\ DataInv /\ RefInv /\ SpareInv /\ WorkKept /\ InBlock(run.todo)
      /\ run.op = "done"
  BY DEF SaveFails, Doing, IInv, RunInv
<1> DEFINE t0 == Last(run.todo)
<1>2. run'.todo = <<t0>> /\ Same /\ run' \in Run /\ run'.made = run.made /\ t0 \in Todo
  <2>1. t0 \in Todo /\ t0 \in Task
    <3>1. run.todo \in Seq(Task) /\ Len(run.todo) \in DOMAIN run.todo
      <4>1. run.todo \in Seq(Task)
        BY <1>1 DEF Run
      <4>2. Len(run.todo) \in Nat /\ Len(run.todo) # 0 /\ DOMAIN run.todo = 1..Len(run.todo)
        BY <1>1, <4>1, SeqIs
      <4> QED BY <4>1, <4>2
    <3> QED BY <3>1, SeqIs DEF Todo, Last
  <2>2. <<t0>> \in Seq(Task)
    BY <2>1
  <2> HIDE DEF t0
  <2>3. run' = [run EXCEPT !.todo = <<t0>>]
    BY DEF SaveFails, Step, t0
  <2> QED BY <1>1, <2>1, <2>2, <2>3 DEF Same, Run
<1>3. Todo' = {t0} /\ DOMAIN run'.todo = {1} /\ run'.todo[1] = t0
  <2> HIDE DEF t0
  <2> QED BY <1>2, OneIs DEF Todo
<1>4. /\ tip' = tip /\ trunk' = trunk /\ origin' = origin /\ key' = key /\ layers' = layers /\ merged' = merged
      /\ head' = head /\ made' = made /\ work' = work /\ cut'
  BY DEF SaveFails, refs, config
<1> HIDE DEF t0
<1>5. DataInv'
  BY <1>1, <1>4 DEF DataInv, Exists
<1>6. RunInv'
  BY <1>1, <1>2, <1>3 DEF RunInv, Same
<1>7. RefInv'
  BY <1>1, <1>2, <1>3, <1>4 DEF RefInv, Same, Exists
<1>8. SpareInv'
  <2>1. \A b : Spare(b)' <=> Spare(b)
    BY <1>2, <1>4 DEF Spare, Same
  <2> QED BY <1>1, <1>2, <1>3, <2>1 DEF SpareInv, Same
<1>9. ExpandInv' /\ ChainInv'
  BY <1>1, <1>2 DEF ExpandInv, ChainInv, Same
<1>10. InBlock(run.todo)'
  <2> DEFINE n == Len(run.todo)
  <2>1. run.todo[n] = t0 /\ n \in DOMAIN run.todo /\ n \in Nat /\ \A j \in DOMAIN run.todo : j \in Nat /\ j <= n
    <3>1. run.todo \in Seq(Task)
      BY <1>1 DEF Run
    <3>2. Len(run.todo) \in Nat /\ Len(run.todo) # 0 /\ DOMAIN run.todo = 1..Len(run.todo)
      BY <1>1, <3>1, SeqIs
    <3> QED BY <3>2 DEF t0, Last
  <2> HIDE DEF n
  <2>2. t0.do # "set key"
    <3>1. SUFFICES ASSUME t0.do = "set key" PROVE FALSE
      OBVIOUS
    <3>2. PICK j \in DOMAIN run.todo : n < j
      BY <1>1, <2>1, <3>1 DEF InBlock
    <3> QED BY <2>1, <3>2
  <2>3. IsInjective(t0.list)
    BY <1>1, <2>1 DEF InBlock
  <2>4. \A k \in 1..1 : k = 1
    OBVIOUS
  <2>5. InBlock(run'.todo)
    BY <1>3, <2>2, <2>3, <2>4 DEF InBlock
  <2> QED BY <2>5 DEF InBlock
<1>11. NowInv' /\ ThenInv'
  BY <1>4, LineageCut
<1>12. WorkKept'
  BY <1>1, <1>4 DEF WorkKept
<1> QED BY <1>5, <1>6, <1>7, <1>8, <1>9, <1>10, <1>11, <1>12 DEF IInv

-----------------------------------------------------------------------------
\* Between commands, and the end of one.

LEMMA IdleKeeps ==
    ASSUME IInv, run' = Idle, key' = key, layers' = layers, ~cut' => ~cut /\ Apart, DataInv', WorkKept'
    PROVE  IInv'
<1>1. /\ run' \in Run /\ run'.op = "idle" /\ run'.todo = <<>> /\ run'.left = {} /\ run'.cur = NoBranch
      /\ run'.made = {} /\ run'.was = {} /\ Todo' = {} /\ DOMAIN run'.todo = {}
  BY IdleIs, NoneIs DEF Todo
<1>2. RunInv'
  BY <1>1 DEF RunInv
<1>3. RefInv'
  BY <1>1 DEF RefInv
<1>4. SpareInv'
  BY <1>1 DEF SpareInv
<1>5. ExpandInv' /\ ChainInv'
  BY <1>1 DEF ExpandInv, ChainInv
<1>6. InBlock(run.todo)'
  BY <1>1 DEF InBlock
<1>7. ~cut' => Settled'
  BY DEF IInv, NowInv, Settled
<1>8. NowInv'
  BY <1>1, <1>7 DEF NowInv
<1>9. ThenInv'
  <2>1. SUFFICES ASSUME ~cut', NEW b \in Branch, NEW id \in Id, NEW list \in Seq(Branch), KeyTo(b, id)', Coming(id, list)'
                 PROVE  b \in ToSet(list) \/ list = <<>>
    BY <1>1 DEF ThenInv
  <2>2. key'[b] = id /\ list = layers'[id]
    BY <1>1, <2>1 DEF KeyTo, Coming
  <2> QED BY <1>7, <2>1, <2>2 DEF Settled
<1> QED BY <1>2, <1>3, <1>4, <1>5, <1>6, <1>8, <1>9 DEF IInv

LEMMA ApartIdle == ASSUME IInv, run = Idle PROVE Apart
BY IdleIs DEF Apart

LEMMA UserCommitsKeeps == ASSUME IInv, UserCommits, UNCHANGED bound PROVE IInv'
<1>1. DataInv /\ WorkKept
  BY DEF IInv
<1>2. /\ run = Idle /\ head \in Branch /\ made < bound.patch /\ tip' = [tip EXCEPT ![head] = Append(tip[head], {made + 1})]
      /\ made' = made + 1 /\ work' = work \cup {made + 1} /\ trunk' = trunk /\ origin' = origin /\ key' = key
      /\ layers' = layers /\ merged' = merged /\ head' = head /\ run' = run /\ cut' = cut
  BY DEF UserCommits, config
<1>3. bound.patch \in Nat /\ made \in Nat /\ made + 1 \in 0..bound.patch
  <2>1. bound.patch \in Nat
    BY <1>1, BoundAssumption DEF DataInv
  <2> QED BY <1>1, <1>2, <2>1 DEF DataInv
<1> DEFINE new == Append(tip[head], {made + 1})
<1>4. new \in Seq(Commit) /\ Patches(new) = Patches(tip[head]) \cup {made + 1}
  <2>1. {made + 1} \in Commit
    BY <1>3 DEF Commit
  <2>2. tip[head] \in Seq(Commit)
    BY <1>1, <1>2, BranchAssumption DEF DataInv, Exists
  <2> QED BY <2>1, <2>2, AppendPatches
<1> HIDE DEF new
<1>5. \A b \in Branch : tip'[b] = IF b = head THEN new ELSE tip[b]
  BY <1>1, <1>2 DEF DataInv, new
<1>6. DataInv'
  <2>1. tip' \in [Branch -> Seq(Commit) \cup {None}]
    BY <1>1, <1>2, <1>4 DEF DataInv, new
  <2>2. tip'[head] # None
    BY <1>2, <1>4, <1>5, HistIs
  <2>3. made' \in 0..bound.patch /\ work' \subseteq 1..made'
    <3>1. work \subseteq 1..made
      BY <1>1 DEF DataInv
    <3> QED BY <1>2, <1>3, <3>1
  <2> QED BY <1>1, <1>2, <2>1, <2>2, <2>3 DEF DataInv, Exists
<1>7. WorkKept'
  <2>1. \A b \in Branch : Patches(tip[b]) \subseteq Patches(tip'[b])
    BY <1>4, <1>5
  <2>2. made + 1 \in Patches(tip'[head])
    BY <1>2, <1>4, <1>5
  <2>3. work \subseteq Patches(trunk) \cup UNION {Patches(tip'[b]) : b \in Branch}
    BY <1>1, <2>1 DEF WorkKept
  <2>4. made + 1 \in UNION {Patches(tip'[b]) : b \in Branch}
    BY <1>2, <2>2
  <2> QED BY <1>2, <2>3, <2>4 DEF WorkKept
<1> QED BY <1>2, <1>6, <1>7, ApartIdle, IdleKeeps

LEMMA UserBranchesKeeps == ASSUME IInv, NEW b \in Branch, UserBranches(b), UNCHANGED bound PROVE IInv'
<1>1. DataInv /\ WorkKept
  BY DEF IInv
<1>2. /\ run = Idle /\ ~Exists(b) /\ head # NoBranch /\ tip' = [tip EXCEPT ![b] = TipOf(head)]
      /\ made' = made /\ work' = work /\ trunk' = trunk /\ origin' = origin /\ key' = key
      /\ layers' = layers /\ merged' = merged /\ head' = b /\ run' = run /\ cut' = cut
  BY DEF UserBranches, Plain, config
<1>3. TipOf(head) \in Seq(Commit)
  BY <1>1, <1>2, BranchAssumption DEF DataInv, Exists, TipOf
<1>4. \A c \in Branch : tip'[c] = IF c = b THEN TipOf(head) ELSE tip[c]
  BY <1>1, <1>2 DEF DataInv
<1>5. DataInv'
  <2>1. tip' \in [Branch -> Seq(Commit) \cup {None}]
    BY <1>1, <1>2, <1>3 DEF DataInv
  <2>2. tip'[b] # None
    BY <1>3, <1>4, HistIs
  <2> QED BY <1>1, <1>2, <2>1, <2>2 DEF DataInv, Exists
<1>6. WorkKept'
  <2>1. Patches(tip[b]) = {}
    BY <1>2, HistIs DEF Exists
  <2>2. \A c \in Branch : Patches(tip[c]) \subseteq Patches(tip'[c])
    BY <1>4, <2>1
  <2> QED BY <1>1, <1>2, <2>2 DEF WorkKept
<1> QED BY <1>2, <1>5, <1>6, ApartIdle, IdleKeeps

LEMMA UserSwitchesKeeps == ASSUME IInv, NEW b, UserSwitches(b), UNCHANGED bound PROVE IInv'
<1>1. DataInv /\ WorkKept
  BY DEF IInv
<1>2. /\ run = Idle /\ b \in {Trunk} \cup {c \in Branch : Exists(c)} /\ tip' = tip
      /\ made' = made /\ work' = work /\ trunk' = trunk /\ origin' = origin /\ key' = key
      /\ layers' = layers /\ merged' = merged /\ head' = b /\ run' = run /\ cut' = cut
  BY DEF UserSwitches, config, refs, history
<1>3. DataInv'
  BY <1>1, <1>2 DEF DataInv, Exists
<1>4. WorkKept'
  BY <1>1, <1>2 DEF WorkKept
<1> QED BY <1>2, <1>3, <1>4, ApartIdle, IdleKeeps

LEMMA UserDeletesKeeps == ASSUME IInv, NEW b \in Branch, UserDeletes(b), UNCHANGED bound PROVE IInv'
<1>1. DataInv /\ WorkKept
  BY DEF IInv
<1>2. /\ run = Idle /\ head # b /\ tip' = [tip EXCEPT ![b] = None]
      /\ work' = work \cap (Patches(trunk) \cup UNION {Patches(tip[c]) : c \in Branch \ {b}})
      /\ made' = made /\ trunk' = trunk /\ origin' = origin /\ key' = key
      /\ layers' = layers /\ merged' = merged /\ head' = head /\ run' = run /\ cut' = cut
  BY DEF UserDeletes, Plain, config
<1>3. \A c \in Branch : tip'[c] = IF c = b THEN None ELSE tip[c]
  BY <1>1, <1>2 DEF DataInv
<1>4. DataInv'
  <2>1. tip' \in [Branch -> Seq(Commit) \cup {None}]
    BY <1>1, <1>2 DEF DataInv
  <2>2. head \in {Trunk, NoBranch} \/ (head \in Branch /\ tip'[head] # None)
    BY <1>1, <1>2, <1>3 DEF DataInv, Exists
  <2> QED BY <1>1, <1>2, <2>1, <2>2 DEF DataInv, Exists
<1>5. WorkKept'
  <2>1. UNION {Patches(tip[c]) : c \in Branch \ {b}} \subseteq UNION {Patches(tip'[c]) : c \in Branch}
    BY <1>3
  <2> QED BY <1>2, <2>1 DEF WorkKept
<1> QED BY <1>2, <1>4, <1>5, ApartIdle, IdleKeeps

LEMMA UserPushesKeeps == ASSUME IInv, NEW b \in Branch, UserPushes(b), UNCHANGED bound PROVE IInv'
<1>1. DataInv /\ WorkKept
  BY DEF IInv
<1>2. /\ run = Idle /\ tip' = tip /\ origin' = [origin EXCEPT ![b] = tip[b]]
      /\ made' = made /\ work' = work /\ trunk' = trunk /\ key' = key
      /\ layers' = layers /\ merged' = merged /\ head' = head /\ run' = run /\ cut' = cut
  BY DEF UserPushes, Plain, config
<1>3. DataInv'
  <2>1. origin' \in [Branch -> Seq(Commit) \cup {None}]
    BY <1>1, <1>2 DEF DataInv
  <2> QED BY <1>1, <1>2, <2>1 DEF DataInv, Exists
<1>4. WorkKept'
  BY <1>1, <1>2 DEF WorkKept
<1> QED BY <1>2, <1>3, <1>4, ApartIdle, IdleKeeps

LEMMA LandKeeps == ASSUME IInv, NEW b \in Branch, Land(b), UNCHANGED bound PROVE IInv'
<1>1. DataInv /\ WorkKept
  BY DEF IInv
<1>2. /\ run = Idle /\ origin[b] # None /\ IsStrictPrefix(trunk, origin[b]) /\ trunk' = origin[b]
      /\ merged' \subseteq merged \cup {b} /\ tip' = tip /\ origin' = origin
      /\ made' = made /\ work' = work /\ key' = key
      /\ layers' = layers /\ head' = head /\ run' = run /\ cut' = cut
  BY DEF Land, Plain
<1>3. trunk' \in Seq(Commit)
  BY <1>1, <1>2 DEF DataInv
<1>4. DataInv'
  BY <1>1, <1>2, <1>3 DEF DataInv, Exists
<1>5. WorkKept'
  <2>1. Patches(trunk) \subseteq Patches(trunk')
    <3>1. IsPrefix(trunk, trunk') /\ trunk \in Seq(Commit)
      BY <1>1, <1>2 DEF IsStrictPrefix, DataInv
    <3> QED BY <1>3, <3>1, AncestorPatches, HistIs
  <2> QED BY <1>1, <1>2, <2>1 DEF WorkKept
<1> QED BY <1>2, <1>4, <1>5, ApartIdle, IdleKeeps

LEMMA FinishKeeps == ASSUME IInv, Finish, UNCHANGED bound PROVE IInv'
<1>1. DataInv /\ WorkKept
  BY DEF IInv
<1>2. /\ run.todo = <<>> /\ run' = Idle /\ tip' = tip /\ trunk' = trunk /\ origin' = origin /\ key' = key
      /\ layers' = layers /\ merged' = merged /\ head' = head /\ made' = made /\ work' = work /\ cut' = cut
  BY DEF Finish, Step, refs, config, history
<1>3. DataInv' /\ WorkKept'
  BY <1>1, <1>2 DEF DataInv, WorkKept, Exists
<1> QED BY <1>2, <1>3, IdleKeeps DEF Apart

LEMMA StopKeeps == ASSUME IInv, Stop, UNCHANGED bound PROVE IInv'
<1>1. DataInv /\ WorkKept
  BY DEF IInv
<1>2. /\ run' = Idle /\ tip' = tip /\ trunk' = trunk /\ origin' = origin /\ key' = key
      /\ layers' = layers /\ merged' = merged /\ head' = head /\ made' = made /\ work' = work
      /\ cut' = (cut \/ Now.do \in Config)
  BY DEF Stop, Step, refs, config, Config, Saving
<1>3. DataInv' /\ WorkKept'
  BY <1>1, <1>2 DEF DataInv, WorkKept, Exists
<1>4. ~cut' => ~cut /\ Apart
  BY <1>2 DEF Apart, Now
<1> QED BY <1>2, <1>3, <1>4, IdleKeeps

-----------------------------------------------------------------------------
\* What a command's new tasks make of the lineage.

\* A step that takes on other tasks and touches no ref and no key.
Planned == /\ tip' = tip /\ trunk' = trunk /\ origin' = origin /\ key' = key /\ layers' = layers /\ merged' = merged
           /\ made' = made /\ work' = work /\ bound' = bound

LEMMA NewQuiet ==
    ASSUME DataInv, Planned, run' \in Run, \A t \in Todo' : t.do \notin Config,
           ~cut' => Settled /\ \A b \in run'.was : Cleaned(b)' \/ b \in Recorded,
           ~cut' /\ run'.op \in {"merge", "absorb", "prune"} => layers[run'.id] = run'.stack
    PROVE  NowInv' /\ ThenInv'
<1>1. {"set key", "unset key", "set layers", "unset layers"} \subseteq Config
  BY DEF Config, Saving, Unset
<1>2. ASSUME NEW b, NEW id PROVE KeyTo(b, id)' <=> key[b] = id
  BY <1>1 DEF KeyTo, Planned
<1>3. ASSUME NEW id, NEW list PROVE Coming(id, list)' <=> list = layers[id]
  BY <1>1 DEF Coming, Writes, Planned
<1>4. Recorded' = Recorded /\ (Settled' <=> Settled)
  BY DEF Recorded, StackOf, Settled, Planned
<1>5. NowInv'
  BY <1>4 DEF NowInv
<1>6. SUFFICES ASSUME ~cut' PROVE ThenInv'
  BY <1>5 DEF ThenInv
<1>7. ASSUME NEW b \in run'.was, ~Cleaned(b)'
      PROVE  \E id \in Id : \E list \in Seq(Branch) : KeyTo(b, id)' /\ Coming(id, list)' /\ b \in ToSet(list)
  <2>1. b \in Branch /\ key[b] # NoId /\ b \in ToSet(layers[key[b]])
    <3>1. b \in Recorded
      BY <1>6, <1>7
    <3> QED BY <3>1, NoneIs DEF Recorded, StackOf
  <2>2. key[b] \in Id /\ layers[key[b]] \in Seq(Branch)
    BY <2>1 DEF DataInv
  <2> QED BY <1>2, <1>3, <2>1, <2>2
<1>8. \A b \in Branch, id \in Id : \A list \in Seq(Branch) :
             KeyTo(b, id)' /\ Coming(id, list)' => b \in ToSet(list) \/ list = <<>>
  BY <1>2, <1>3, <1>6 DEF Settled
<1>9. run'.op \in {"merge", "absorb", "prune"} => \A list \in Seq(Branch) : Coming(run.id, list)' => list = run'.stack
  BY <1>3, <1>6 DEF Run
<1> QED BY <1>5, <1>7, <1>8, <1>9 DEF ThenInv

LEMMA NewBlock ==
    ASSUME DataInv, Planned, run' \in Run, NEW ts, NEW id \in Id, NEW list \in Seq(Branch), NEW gone \in SUBSET Branch,
           Block(ts, id, list, gone), \A t : t \in ToSet(ts) <=> t \in Todo' /\ t.do \in Config,
           ~cut' => Settled /\ \A b \in run'.was : Cleaned(b)' \/ b \in Recorded,
           ~cut' => ToSet(layers[id]) \subseteq ToSet(list) \cup gone
                    /\ \A b \in Branch : key[b] = id => b \in ToSet(list) \cup gone,
           ~cut' => \A b \in gone : Cleaned(b)',
           run'.op \in {"merge", "absorb", "prune"} => run'.id = id /\ run'.stack = list
    PROVE  NowInv' /\ ThenInv'
<1>1. {"set key", "unset key", "set layers", "unset layers"} \subseteq Config
  BY DEF Config, Saving, Unset
<1>2. Recorded' = Recorded /\ (Settled' <=> Settled)
  BY DEF Recorded, StackOf, Settled, Planned
<1>3. NowInv'
  BY <1>2 DEF NowInv
<1>4. SUFFICES ASSUME ~cut' PROVE ThenInv'
  BY <1>3 DEF ThenInv
<1>5. ASSUME NEW b, NEW j PROVE KeyTo(b, j)' <=> \/ j = id /\ b \in ToSet(list)
                                                 \/ key[b] = j /\ b \notin ToSet(list) \cup gone
  <2>1. \A t \in Todo' : t.do = "set key" => t.id = id /\ t.branch \in ToSet(list)
    BY <1>1 DEF Block
  <2>2. \A t \in Todo' : t.do = "unset key" => t.branch \in gone
    BY <1>1 DEF Block
  <2>3. b \in ToSet(list) => \E t \in Todo' : t.do = "set key" /\ t.branch = b /\ t.id = id
    <3>1. SUFFICES ASSUME b \in ToSet(list) PROVE \E t \in Todo' : t.do = "set key" /\ t.branch = b /\ t.id = id
      OBVIOUS
    <3>2. PICK t \in ToSet(ts) : t.do = "set key" /\ t.branch = b
      BY <3>1 DEF Block
    <3> QED BY <2>1, <3>2
  <2>4. b \in gone => \E t \in Todo' : t.do = "unset key" /\ t.branch = b
    BY DEF Block
  <2>5. (\A t \in Todo' : t.do \in {"set key", "unset key"} => t.branch # b) <=> b \notin ToSet(list) \cup gone
    BY <2>1, <2>2, <2>3, <2>4
  <2>6. (\E t \in Todo' : t.do = "set key" /\ t.branch = b /\ t.id = j) <=> j = id /\ b \in ToSet(list)
    BY <2>1, <2>3
  <2> QED BY <2>5, <2>6 DEF KeyTo, Planned
<1>6. ASSUME NEW j, NEW l PROVE Coming(j, l)' <=> IF j = id THEN l = list ELSE l = layers[j]
  <2>1. \A t \in Todo' : t.do \in {"set layers", "unset layers"} => t.id = id /\ t.list = list
    <3>1. ASSUME NEW t \in Todo', t.do \in {"set layers", "unset layers"} PROVE t.id = id /\ t.list = list
      <4>1. t \in ToSet(ts)
        BY <1>1, <3>1
      <4> QED BY <3>1, <4>1 DEF Block
    <3> QED BY <3>1
  <2>2. \E t \in Todo' : t.do \in {"set layers", "unset layers"}
    BY DEF Block
  <2>3. (\A t \in Todo' : ~Writes(t, j)) <=> j # id
    BY <2>1, <2>2 DEF Writes
  <2>4. (\E t \in Todo' : Writes(t, j) /\ t.list = l) <=> j = id /\ l = list
    BY <2>1, <2>2 DEF Writes
  <2> QED BY <2>3, <2>4 DEF Coming, Planned
<1>7. \A b \in Branch, j \in Id : \A l \in Seq(Branch) : KeyTo(b, j)' /\ Coming(j, l)' => b \in ToSet(l) \/ l = <<>>
  <2>1. SUFFICES ASSUME NEW b \in Branch, NEW j \in Id, NEW l \in Seq(Branch), KeyTo(b, j)', Coming(j, l)'
                 PROVE  b \in ToSet(l) \/ l = <<>>
    OBVIOUS
  <2>2. CASE j = id
    BY <1>4, <1>5, <1>6, <2>1, <2>2
  <2>3. CASE j # id
    BY <1>4, <1>5, <1>6, <2>1, <2>3 DEF Settled
  <2> QED BY <2>2, <2>3
<1>8. ASSUME NEW b \in run'.was, ~Cleaned(b)'
      PROVE  \E j \in Id : \E l \in Seq(Branch) : KeyTo(b, j)' /\ Coming(j, l)' /\ b \in ToSet(l)
  <2>1. b \in Branch /\ key[b] # NoId /\ b \in ToSet(layers[key[b]])
    <3>1. b \in Recorded
      BY <1>4, <1>8
    <3> QED BY <3>1, NoneIs DEF Recorded, StackOf
  <2>2. key[b] \in Id /\ layers[key[b]] \in Seq(Branch) /\ b \notin gone
    BY <1>4, <1>8, <2>1 DEF DataInv
  <2>3. CASE b \in ToSet(list)
    BY <1>5, <1>6, <2>3
  <2>4. CASE b \notin ToSet(list)
    <3>1. key[b] # id
      BY <1>4, <2>1, <2>2, <2>4
    <3> QED BY <1>5, <1>6, <2>1, <2>2, <2>4, <3>1
  <2> QED BY <2>3, <2>4
<1>9. run'.op \in {"merge", "absorb", "prune"} => \A l \in Seq(Branch) : Coming(run.id, l)' => l = run'.stack
  BY <1>6
<1> QED BY <1>7, <1>8, <1>9, <1>4 DEF ThenInv

LEMMA PlannedKeeps ==
    ASSUME Planned, DataInv, WorkKept, cut' \in BOOLEAN, head' = head \/ head' = Trunk
    PROVE  DataInv' /\ WorkKept'
<1>1. DataInv'
  BY DEF DataInv, Planned, Exists
<1>2. WorkKept'
  BY DEF WorkKept, Planned
<1> QED BY <1>1, <1>2

\* The lineage as a command finds it when it starts.
LEMMA Found == ASSUME IInv, run = Idle, ~cut PROVE Settled
BY ApartIdle DEF IInv, NowInv

LEMMA StackIs ==
    ASSUME DataInv, NEW b \in Branch, InStack(b)
    PROVE  /\ key[b] \in Id /\ StackOf(b) = layers[key[b]] /\ StackOf(b) \in Seq(Branch) /\ IsInjective(StackOf(b))
           /\ StackOf(b) # <<>>
BY DEF InStack, StackOf, DataInv

LEMMA NoTasks ==
    ASSUME run'.todo = <<>>
    PROVE  Todo' = {} /\ DOMAIN run'.todo = {} /\ InBlock(run.todo)'
<1>1. Todo' = {} /\ DOMAIN run'.todo = {}
  BY NoneIs DEF Todo
<1> QED BY <1>1 DEF InBlock

-----------------------------------------------------------------------------
\* Starting to prune, to clean up and to merge.

LEMMA PruneKeeps == ASSUME IInv, NEW cleanup \in BOOLEAN, Prune(cleanup), UNCHANGED bound PROVE IInv'
<1> DEFINE stack == StackOf(head)
           landed == {b \in ToSet(StackOf(head)) : Landed(b)}
<1>1. DataInv /\ WorkKept
  BY DEF IInv
<1>2. /\ Planned /\ run = Idle /\ head \in Branch /\ InStack(head) /\ cut' = cut /\ head' = head
      /\ run' = [Begin("prune", <<>>) EXCEPT !.stack = stack, !.id = key[head], !.cleanup = cleanup, !.left = landed]
  BY DEF Prune, Starts, Planned, refs, config
<1>3. /\ key[head] \in Id /\ stack = layers[key[head]] /\ stack \in Seq(Branch) /\ IsInjective(stack)
  BY <1>1, <1>2, StackIs
<1>4. landed \subseteq Branch
  BY <1>3, SeqIs
<1>5. \A b \in landed : Landed(b)
  OBVIOUS
<1> HIDE DEF stack, landed
<1>6. /\ run' \in Run /\ run'.op = "prune" /\ run'.todo = <<>> /\ run'.stack = stack /\ run'.id = key[head]
      /\ run'.left = landed /\ run'.cur = NoBranch /\ run'.was = Recorded
  BY <1>2, <1>3, <1>4, RecordedIn, NoneIs DEF Begin, Idle, Run, Op
<1>7. Todo' = {} /\ DOMAIN run'.todo = {} /\ InBlock(run.todo)'
  BY <1>6, NoTasks
<1>8. DataInv' /\ WorkKept'
  BY <1>1, <1>2, PlannedKeeps DEF DataInv
<1>9. RunInv'
  BY <1>3, <1>6, <1>7 DEF RunInv
<1>10. RefInv' /\ ExpandInv' /\ ChainInv'
  BY <1>6, <1>7 DEF RefInv, ExpandInv, ChainInv
<1>11. SpareInv'
  <2>1. ASSUME NEW b \in landed PROVE Spare(b)'
    <3>1. b \in Branch /\ Landed(b)
      BY <1>4, <1>5
    <3>2. Patches(tip[b]) \subseteq Patches(trunk)
      <4>1. CASE ~Exists(b)
        BY <4>1, HistIs DEF Exists
      <4>2. CASE IsStrictPrefix(tip[b], trunk)
        BY <1>1, <3>1, <4>2, AncestorPatches, HistIs DEF IsStrictPrefix, DataInv, Hist
      <4>3. CASE tip[b] = trunk
        BY <4>3
      <4> QED BY <3>1, <4>1, <4>2, <4>3 DEF Landed
    <3> QED BY <1>2, <3>2 DEF Spare, Planned
  <2>2. NoBranch \notin landed
    BY <1>4, BranchAssumption
  <2> QED BY <1>6, <1>7, <2>1, <2>2 DEF SpareInv
<1>12. NowInv' /\ ThenInv'
  BY <1>1, <1>2, <1>3, <1>6, <1>7, Found, NewQuiet
<1> QED BY <1>7, <1>8, <1>9, <1>10, <1>11, <1>12 DEF IInv

LEMMA StartDoneKeeps == ASSUME IInv, StartDone, UNCHANGED bound PROVE IInv'
<1> DEFINE landed == {b \in Branch : Exists(b) /\ IsAncestor(tip[b], trunk)}
<1>1. DataInv /\ WorkKept
  BY DEF IInv
<1>2. /\ Planned /\ run = Idle /\ cut' = cut /\ head' = Trunk
      /\ run' = [Begin("done", <<>>) EXCEPT !.left = landed]
  BY DEF StartDone, Starts, Planned, refs, config
<1>3. landed \subseteq Branch /\ \A b \in landed : IsPrefix(tip[b], trunk)
  BY DEF IsAncestor
<1> HIDE DEF landed
<1>4. /\ run' \in Run /\ run'.op = "done" /\ run'.todo = <<>>
      /\ run'.left = landed /\ run'.cur = NoBranch /\ run'.was = Recorded
  BY <1>2, <1>3, RecordedIn, NoneIs DEF Begin, Idle, Run, Op
<1>5. Todo' = {} /\ DOMAIN run'.todo = {} /\ InBlock(run.todo)'
  BY <1>4, NoTasks
<1>6. DataInv' /\ WorkKept'
  BY <1>1, <1>2, PlannedKeeps DEF DataInv
<1>7. RunInv'
  BY <1>4, <1>5 DEF RunInv
<1>8. RefInv' /\ ExpandInv' /\ ChainInv'
  BY <1>4, <1>5 DEF RefInv, ExpandInv, ChainInv
<1>9. SpareInv'
  <2>1. ASSUME NEW b \in landed PROVE Spare(b)'
    <3>1. Patches(tip[b]) \subseteq Patches(trunk)
      BY <1>1, <1>3, AncestorPatches, HistIs DEF DataInv, Hist
    <3> QED BY <1>2, <3>1 DEF Spare, Planned
  <2>2. NoBranch \notin landed
    BY <1>3, BranchAssumption
  <2> QED BY <1>4, <1>5, <2>1, <2>2 DEF SpareInv
<1>10. NowInv' /\ ThenInv'
  BY <1>1, <1>2, <1>4, <1>5, Found, NewQuiet
<1> QED BY <1>5, <1>6, <1>7, <1>8, <1>9, <1>10 DEF IInv

\* The rebases a merge is to run, bottom up and the last of them of HEAD's branch.
Rebases(stack, i, first) ==
    [k \in 1..(i + 1 - first) |->
        [On("rebase", stack[first + k - 1]) EXCEPT !.onto = Below(stack, first + k - 1)]]

LEMMA RebasesAre ==
    ASSUME NEW stack \in Seq(Branch), NEW i \in DOMAIN stack, NEW first \in 1..(i + 1), \A j \in 1..i : Exists(stack[j])
    PROVE  LET ts == Rebases(stack, i, first) IN
           /\ ts \in Seq(Task)
           /\ ts # <<>> => Last(ts).branch = stack[i]
           /\ \A t \in ToSet(ts) : /\ t.do = "rebase" /\ t.branch \in Branch /\ Exists(t.branch) /\ IsInjective(t.list)
                                   /\ t.onto # Trunk => t.onto \in Branch /\ Exists(t.onto)
<1> DEFINE ts == Rebases(stack, i, first)
           n == i + 1 - first
           at(k) == first + k - 1
<1>1. /\ i \in Nat /\ n \in Nat /\ Len(stack) \in Nat /\ i <= Len(stack) /\ first \in Nat /\ 1 <= first
      /\ \A j \in 1..i : stack[j] \in Branch
  <2>1. Len(stack) \in Nat /\ DOMAIN stack = 1..Len(stack) /\ \A j \in DOMAIN stack : stack[j] \in Branch
    BY SeqIs
  <2> QED BY <2>1
<1>2. ASSUME NEW k \in 1..n PROVE at(k) \in 1..i /\ (at(k) # 1 => at(k) - 1 \in 1..i)
  BY <1>1
<1>3. ASSUME NEW k \in 1..n
      PROVE  /\ ts[k] = Onto("rebase", stack[at(k)], Below(stack, at(k)))
             /\ Below(stack, at(k)) \in Branch \cup {Trunk}
             /\ Below(stack, at(k)) # Trunk => Exists(Below(stack, at(k)))
  BY <1>1, <1>2 DEF Rebases, Below, Onto
<1>4. ASSUME NEW k \in 1..n
      PROVE  /\ ts[k] \in Task /\ ts[k].do = "rebase" /\ ts[k].branch = stack[at(k)] /\ ts[k].list = <<>>
             /\ ts[k].onto = Below(stack, at(k))
  <2>1. "rebase" \in Kind /\ stack[at(k)] \in Branch /\ Below(stack, at(k)) \in Branch \cup {Trunk, NoBranch}
    BY <1>1, <1>2, <1>3 DEF Kind
  <2> HIDE DEF ts, at
  <2> QED BY <1>3, <2>1, OntoIs
<1>5. ts \in Seq(Task) /\ Len(ts) = n /\ DOMAIN ts = 1..n
  <2>1. ts = [k \in 1..n |-> ts[k]]
    BY DEF Rebases
  <2> HIDE DEF ts
  <2>2. \A k \in 1..n : ts[k] \in Task
    BY <1>4
  <2>3. n \in Nat
    BY <1>1
  <2> HIDE DEF n, at
  <2>4. ts \in [1..n -> Task]
    BY <2>1, <2>2
  <2> QED BY <2>3, <2>4
<1> HIDE DEF ts
<1>6. ts # <<>> => Last(ts).branch = stack[i]
  <2>1. SUFFICES ASSUME ts # <<>> PROVE ts[n].branch = stack[i]
    BY <1>5 DEF Last
  <2>2. n \in 1..n /\ at(n) = i
    BY <1>1, <1>5, <2>1, SeqIs
  <2> QED BY <1>4, <2>2
<1>7. ASSUME NEW t \in ToSet(ts)
      PROVE  /\ t.do = "rebase" /\ t.branch \in Branch /\ Exists(t.branch) /\ IsInjective(t.list)
             /\ t.onto # Trunk => t.onto \in Branch /\ Exists(t.onto)
  <2>1. PICK k \in 1..n : ts[k] = t
    BY <1>5, <1>7, SeqIs
  <2>2. at(k) \in 1..i
    BY <1>2
  <2> HIDE DEF at, n
  <2> QED BY <1>1, <1>3, <1>4, <2>1, <2>2, NoneIs
<1> QED BY <1>5, <1>6, <1>7 DEF ts

LEMMA MergeKeeps ==
    ASSUME IInv, NEW n \in 1..Cardinality(Branch), NEW cleanup \in BOOLEAN, Merge(n, cleanup), UNCHANGED bound
    PROVE  IInv'
<1> DEFINE stack == StackOf(head)
           Missing(i) == {j \in 1..i : ~IsAncestor(TipOf(Below(stack, j)), tip[stack[j]])}
           First(i) == IF Missing(i) = {} THEN i + 1 ELSE Min(Missing(i))
           Left(i) == {stack[j] : j \in (i - n)..(i - 1)}
<1>1. DataInv /\ WorkKept
  BY DEF IInv
<1>2. /\ Planned /\ head \in Branch /\ InStack(head) /\ cut' = cut /\ head' = head
  BY DEF Merge, Planned, refs, config
<1>3. PICK i \in DOMAIN stack :
        /\ stack[i] = head /\ n < i /\ \A j \in 1..i : Exists(stack[j])
        /\ Starts([Begin("merge", Rebases(stack, i, First(i)))
                        EXCEPT !.stack = stack, !.id = key[head], !.cur = head, !.cleanup = cleanup,
                               !.left = Left(i), !.rebased = Missing(i) # {}])
  BY DEF Merge, Rebases
<1>4. /\ key[head] \in Id /\ stack = layers[key[head]] /\ stack \in Seq(Branch) /\ IsInjective(stack)
  BY <1>1, <1>2, StackIs
<1>5. i \in Nat /\ n \in Nat /\ 1 <= n /\ i <= Len(stack) /\ Len(stack) \in Nat /\ DOMAIN stack = 1..Len(stack)
      /\ \A j \in DOMAIN stack : stack[j] \in Branch
  <2>1. Len(stack) \in Nat /\ DOMAIN stack = 1..Len(stack) /\ \A j \in DOMAIN stack : stack[j] \in Branch
    BY <1>4, SeqIs
  <2>2. n \in Nat /\ 1 <= n
    OBVIOUS
  <2> HIDE DEF stack
  <2> QED BY <1>3, <2>1, <2>2
<1>6. First(i) \in 1..(i + 1)
  <2>1. CASE Missing(i) = {}
    BY <1>5, <2>1
  <2>2. CASE Missing(i) # {}
    <3>1. Missing(i) \subseteq 1..i /\ Missing(i) \subseteq Nat
      BY <1>5
    <3>2. Min(Missing(i)) \in Missing(i)
      <4> HIDE DEF Missing
      <4> QED BY <2>2, <3>1, MinIs
    <3>3. Min(Missing(i)) \in 1..(i + 1)
      <4> HIDE DEF Missing
      <4> QED BY <1>5, <3>1, <3>2
    <3> QED BY <2>2, <3>3
  <2> QED BY <2>1, <2>2
<1>7. Left(i) \subseteq Branch /\ head \notin Left(i)
  <2>1. ASSUME NEW j \in (i - n)..(i - 1) PROVE j \in DOMAIN stack /\ j # i
    <3> HIDE DEF stack
    <3> QED BY <1>3, <1>5, <2>1
  <2>2. ASSUME NEW j \in (i - n)..(i - 1) PROVE stack[j] \in Branch /\ stack[j] # head
    <3> HIDE DEF stack
    <3>1. j \in DOMAIN stack /\ j # i
      BY <2>1
    <3> QED BY <1>3, <1>4, <1>5, <3>1, InjectiveMeans
  <2> QED BY <2>2
<1> DEFINE ts == Rebases(stack, i, First(i))
<1>8. /\ ts \in Seq(Task)
      /\ ts # <<>> => Last(ts).branch = stack[i]
      /\ \A t \in ToSet(ts) : /\ t.do = "rebase" /\ t.branch \in Branch /\ Exists(t.branch) /\ IsInjective(t.list)
                              /\ t.onto # Trunk => t.onto \in Branch /\ Exists(t.onto)
  <2> HIDE DEF stack, First
  <2> QED BY <1>3, <1>4, <1>6, RebasesAre
<1>9. run = Idle /\ run' = [Begin("merge", ts) EXCEPT !.stack = stack, !.id = key[head], !.cur = head,
                               !.cleanup = cleanup, !.left = Left(i), !.rebased = Missing(i) # {}]
  BY <1>3 DEF Starts
<1> HIDE DEF stack, ts, First, Left, Missing
<1>10. /\ run' \in Run /\ run'.op = "merge" /\ run'.todo = ts /\ run'.stack = stack /\ run'.id = key[head]
       /\ run'.left = Left(i) /\ run'.cur = head /\ run'.was = Recorded
  BY <1>2, <1>4, <1>7, <1>8, <1>9, RecordedIn, NoneIs DEF Begin, Idle, Run, Op
<1>11. /\ \A t \in Todo' : /\ t.do = "rebase" /\ t.branch \in Branch /\ Exists(t.branch) /\ IsInjective(t.list)
                           /\ t.onto # Trunk => t.onto \in Branch /\ Exists(t.onto)
       /\ \A k \in DOMAIN run'.todo : run'.todo[k] \in Todo'
  <2>1. Todo' = ToSet(ts)
    BY <1>10 DEF Todo
  <2>2. \A k \in DOMAIN ts : ts[k] \in ToSet(ts)
    BY <1>8, SeqIs
  <2> QED BY <1>8, <1>10, <2>1, <2>2
<1>12. DataInv' /\ WorkKept'
  BY <1>1, <1>2, PlannedKeeps DEF DataInv
<1>13. RunInv'
  BY <1>4, <1>10, <1>11, KindsAre DEF RunInv, Formed
<1>14. \A b \in Branch : Exists(b)' <=> Exists(b)
  BY <1>2 DEF Exists, Planned
<1>15. RefInv'
  <2>1. head \in Branch /\ Exists(head) /\ tip'[head] # None
    BY <1>1, <1>2, BranchAssumption DEF DataInv, Exists, Planned
  <2>2. IF ts = <<>> THEN head' = head ELSE Last(ts).branch = head
    BY <1>2, <1>3, <1>8
  <2>3. \A t \in Todo' : t.do \notin Making /\ t.do # "checkout"
    BY <1>11 DEF Making
  <2>4. ASSUME NEW t \in Todo' PROVE Exists(t.branch)' /\ (t.onto # Trunk => t.onto \in Branch /\ Exists(t.onto)')
    BY <1>11, <1>14
  <2> QED BY <1>2, <1>10, <1>11, <2>1, <2>2, <2>3, <2>4 DEF RefInv, Exists
<1>16. SpareInv' /\ ExpandInv' /\ ChainInv'
  BY <1>7, <1>10, <1>11 DEF SpareInv, ExpandInv, ChainInv
<1>17. InBlock(run.todo)'
  <2>1. "rebase" \notin Config
    BY DEF Config, Saving, Unset
  <2>2. InBlock(ts)
    <3>1. \A t \in ToSet(ts) : t.do \notin Config /\ IsInjective(t.list)
      BY <1>8, <2>1
    <3> QED BY <1>8, <3>1, NoBlock
  <2>3. InBlock(run'.todo)
    BY <1>10, <2>2
  <2> QED BY <2>3 DEF InBlock
<1>18. NowInv' /\ ThenInv'
  <2>1. \A t \in Todo' : t.do \notin Config
    BY <1>11 DEF Config, Saving, Unset
  <2> QED BY <1>1, <1>2, <1>4, <1>9, <1>10, <2>1, Found, NewQuiet
<1> QED BY <1>12, <1>13, <1>15, <1>16, <1>17, <1>18 DEF IInv

-----------------------------------------------------------------------------
\* From one part of a command to the next.

\* What a stack in memory and the branches that had one say of the lineage.
LEMMA Kept ==
    ASSUME IInv, Apart, ~cut
    PROVE  /\ Settled /\ \A b \in run.was : Cleaned(b) \/ b \in Recorded
           /\ run.todo = <<>> /\ run.op \in {"merge", "absorb", "prune"} =>
                    run.id \in Id /\ layers[run.id] = run.stack
<1>1. Settled /\ \A b \in run.was : Cleaned(b) \/ b \in Recorded
  BY DEF IInv, NowInv
<1>2. ASSUME run.todo = <<>>, run.op \in {"merge", "absorb", "prune"}
      PROVE  run.id \in Id /\ layers[run.id] = run.stack
  <2>1. run.id \in Id /\ layers[run.id] \in Seq(Branch)
    BY <1>2 DEF IInv, RunInv, DataInv
  <2>2. Todo = {}
    BY <1>2, NoneIs DEF Todo
  <2>3. Coming(run.id, layers[run.id])
    BY <2>2 DEF Coming
  <2> QED BY <1>2, <2>1, <2>3 DEF IInv, ThenInv
<1> QED BY <1>1, <1>2

LEMMA MergeVerifiedKeeps == ASSUME IInv, MergeVerified, UNCHANGED bound PROVE IInv'
<1>1. DataInv /\ WorkKept /\ RunInv /\ run \in Run /\ RefInv /\ SpareInv
  BY DEF IInv, RunInv
<1>2. Planned /\ cut' = cut /\ head' = head /\ run.op = "merge" /\ run.todo = <<>> /\ Apart
  BY DEF MergeVerified, Planned, refs, config, history, Apart
<1>3. DataInv' /\ WorkKept'
  BY <1>1, <1>2, PlannedKeeps DEF DataInv
<1>4. CASE run' = Idle
  BY <1>2, <1>3, <1>4, IdleKeeps DEF Planned
<1>5. CASE run' = [run EXCEPT !.op = "absorb"] /\ \A b \in run.left : IsAncestor(tip[b], tip[run.cur])
  <2>1. run' \in Run /\ run'.op = "absorb" /\ run'.todo = <<>> /\ run'.stack = run.stack /\ run'.id = run.id
        /\ run'.left = run.left /\ run'.cur = run.cur /\ run'.was = run.was
    BY <1>1, <1>2, <1>5 DEF Run, Op
  <2>2. Todo' = {} /\ DOMAIN run'.todo = {} /\ InBlock(run.todo)'
    BY <2>1, NoTasks
  <2>3. RunInv'
    BY <1>1, <1>2, <2>1, <2>2 DEF RunInv
  <2>4. RefInv'
    <3>1. head' = run.cur /\ run.cur \in Branch /\ tip'[run.cur] # None
      BY <1>1, <1>2 DEF RefInv, Planned, Exists
    <3> QED BY <2>1, <2>2, <3>1 DEF RefInv, Exists
  <2>5. SpareInv'
    <3>1. ASSUME NEW b \in run.left PROVE Spare(b)'
      <4>1. b \in Branch /\ run.cur \in Branch \ {b} /\ tip[b] \in Hist /\ tip[run.cur] \in Hist
        BY <1>1, <1>2 DEF RefInv, SpareInv, Run, DataInv, Hist
      <4>2. Patches(tip[b]) \subseteq Patches(tip[run.cur])
        BY <1>5, <4>1, AncestorPatches DEF IsAncestor
      <4> QED BY <1>2, <2>1, <4>1, <4>2 DEF Spare, Planned
    <3> QED BY <1>1, <1>2, <2>1, <2>2, <3>1 DEF SpareInv
  <2>6. ExpandInv' /\ ChainInv'
    BY <2>1 DEF ExpandInv, ChainInv
  <2>7. NowInv' /\ ThenInv'
    <3>1. \A b : ~Cleaned(b)
      BY <1>2 DEF Cleaned, Cleaning
    <3> QED BY <1>1, <1>2, <2>1, <2>2, <3>1, Kept, NewQuiet
  <2> QED BY <1>3, <2>2, <2>3, <2>4, <2>5, <2>6, <2>7 DEF IInv
<1> QED BY <1>4, <1>5 DEF MergeVerified, Step

\* Cleaning goes on, for the same branch.
LEMMA StillCleaned ==
    ASSUME Planned, run'.cur = run.cur, run.op \in Cleaning, run'.op \in Cleaning
    PROVE  /\ \A b \in Branch : Cleaned(b) <=> Cleaned(b)'
           /\ \A b \in Branch : Spare(b) <=> Spare(b)'
BY DEF Cleaned, Spare, Planned

LEMMA DoneRemotesKeeps == ASSUME IInv, DoneRemotes, UNCHANGED bound PROVE IInv'
<1>1. DataInv /\ WorkKept /\ RunInv /\ run \in Run /\ SpareInv
  BY DEF IInv, RunInv
<1>2. Planned /\ cut' = cut /\ head' = head /\ run.op = "done" /\ run.todo = <<>> /\ Apart
  BY DEF DoneRemotes, Planned, refs, config, history, Apart
<1> DEFINE landed == {b \in Branch : origin[b] # None /\ IsAncestor(origin[b], trunk)}
<1>3. run' = [run EXCEPT !.op = "remotes", !.left = landed] /\ landed \subseteq Branch
  BY DEF DoneRemotes, Step
<1> HIDE DEF landed
<1>4. DataInv' /\ WorkKept'
  BY <1>1, <1>2, PlannedKeeps DEF DataInv
<1>5. run' \in Run /\ run'.op = "remotes" /\ run'.todo = <<>> /\ run'.left = landed
        /\ run'.cur = run.cur /\ run'.was = run.was
  BY <1>1, <1>2, <1>3 DEF Run, Op
<1>6. Todo' = {} /\ DOMAIN run'.todo = {} /\ InBlock(run.todo)'
  BY <1>5, NoTasks
<1>7. RunInv' /\ RefInv' /\ ExpandInv' /\ ChainInv'
  BY <1>5, <1>6 DEF RunInv, RefInv, ExpandInv, ChainInv
<1>8. SpareInv'
  BY <1>5, <1>6 DEF SpareInv
<1>9. NowInv' /\ ThenInv'
  <2>1. run.op \in Cleaning /\ run'.op \in Cleaning /\ run.was \subseteq Branch
    BY <1>1, <1>2, <1>5 DEF Cleaning, Run
  <2>2. \A b \in Branch : Cleaned(b) <=> Cleaned(b)'
    BY <1>2, <1>5, <2>1, StillCleaned
  <2> QED BY <1>1, <1>2, <1>5, <1>6, <2>1, <2>2, Kept, NewQuiet
<1> QED BY <1>4, <1>6, <1>7, <1>8, <1>9 DEF IInv

\* The tasks of a todo made of one or two.
LEMMA OneTask ==
    ASSUME NEW t \in Task, run'.todo = <<t>>, t.do \notin Config, IsInjective(t.list)
    PROVE  /\ Todo' = {t} /\ DOMAIN run'.todo = {1} /\ run'.todo[1] = t /\ run'.todo \in Seq(Task) /\ InBlock(run.todo)'
<1>1. run'.todo \in Seq(Task) /\ DOMAIN run'.todo = {1} /\ run'.todo[1] = t /\ ToSet(run'.todo) = {t}
  BY OneIs
<1>2. InBlock(run'.todo)
  BY <1>1, NoBlock
<1> QED BY <1>1, <1>2 DEF InBlock, Todo

LEMMA TwoTasks ==
    ASSUME NEW t \in Task, NEW u \in Task, run'.todo = <<t, u>>,
           t.do \notin Config, IsInjective(t.list), u.do \notin Config, IsInjective(u.list)
    PROVE  Todo' = {t, u} /\ DOMAIN run'.todo = {1, 2} /\ run'.todo[1] = t /\ run'.todo[2] = u
           /\ run'.todo \in Seq(Task) /\ InBlock(run.todo)'
<1>1. /\ run'.todo \in Seq(Task) /\ DOMAIN run'.todo = {1, 2} /\ run'.todo[1] = t /\ run'.todo[2] = u
      /\ ToSet(run'.todo) = {t, u}
  BY TwoIs
<1>2. InBlock(run'.todo)
  BY <1>1, NoBlock
<1> QED BY <1>1, <1>2 DEF InBlock, Todo

LEMMA PairIs == ASSUME NEW S, NEW a \in S, NEW b \in S PROVE <<a>> \o <<b>> = <<a, b>>
<1> DEFINE u == <<a>> \o <<b>>
           v == <<a, b>>
<1>1. <<a>> \in Seq(S) /\ <<b>> \in Seq(S) /\ Len(<<a>>) = 1 /\ Len(<<b>>) = 1 /\ <<a>>[1] = a /\ <<b>>[1] = b
  OBVIOUS
<1>2. u \in Seq(S) /\ Len(u) = 2 /\ u[1] = a /\ u[2] = b
  <2> DEFINE s == <<a>>
             t == <<b>>
  <2>1. s \in Seq(S) /\ t \in Seq(S) /\ Len(s) = 1 /\ Len(t) = 1 /\ s[1] = a /\ t[1] = b
    BY <1>1
  <2> HIDE DEF s, t
  <2>2. 1 \in DOMAIN s /\ 1 \in DOMAIN t
    BY <2>1, SeqIs
  <2>3. s \o t \in Seq(S) /\ Len(s \o t) = 2 /\ (s \o t)[1] = a /\ (s \o t)[2] = b
    BY <2>1, <2>2, ConcatIs
  <2> QED BY <2>3 DEF s, t
<1>3. v \in Seq(S) /\ Len(v) = 2 /\ v[1] = a /\ v[2] = b
  OBVIOUS
<1> HIDE DEF u, v
<1>4. u = [i \in 1..2 |-> u[i]] /\ v = [i \in 1..2 |-> v[i]]
  BY <1>2, <1>3
<1>5. \A i \in 1..2 : u[i] = v[i]
  BY <1>2, <1>3
<1>6. u = v
  BY <1>4, <1>5
<1> QED BY <1>6 DEF u, v

LEMMA AbsorbedKeeps == ASSUME IInv, Absorbed, UNCHANGED bound PROVE IInv'
<1>1. DataInv /\ WorkKept /\ RunInv /\ run \in Run /\ RefInv
  BY DEF IInv, RunInv
<1>2. /\ Planned /\ cut' = cut /\ head' = head /\ run.op = "absorb" /\ run.todo = <<>> /\ Apart /\ run.left = {}
  BY DEF Absorbed, Planned, refs, config, history, Apart
<1>3. run.cur \in Branch /\ Exists(run.cur)
  BY <1>1, <1>2 DEF RefInv
<1> DEFINE leave == On("checkout", run.cur)
           push == On("push", run.cur)
           ts == <<leave>> \o IF run.rebased THEN <<push>> ELSE <<>>
<1>4. run' = [run EXCEPT !.op = "finish", !.todo = ts]
  BY DEF Absorbed, Step
<1>5. /\ leave \in Task /\ leave.do = "checkout" /\ leave.branch = run.cur /\ IsInjective(leave.list)
      /\ push \in Task /\ push.do = "push" /\ push.branch = run.cur /\ IsInjective(push.list)
  <2>1. "checkout" \in Kind /\ "push" \in Kind
    BY DEF Kind
  <2> QED BY <1>3, <2>1, OnIs, NoneIs
<1>6. ts = <<leave>> \/ ts = <<leave, push>>
  <2> HIDE DEF leave, push
  <2>1. <<leave>> \o <<push>> = <<leave, push>>
    BY <1>5, PairIs
  <2>2. <<leave>> \o <<>> = <<leave>>
    OBVIOUS
  <2>3. CASE run.rebased
    BY <2>1, <2>3
  <2>4. CASE ~run.rebased
    BY <2>2, <2>4
  <2> QED BY <2>3, <2>4
<1>7. ts \in Seq(Task)
  <2> HIDE DEF leave, push, ts
  <2> QED BY <1>5, <1>6, OneIs, TwoIs
<1> HIDE DEF leave, push, ts
<1>8. run' \in Run /\ run'.op = "finish" /\ run'.todo = ts /\ run'.left = {} /\ run'.cur = run.cur
      /\ run'.was = run.was /\ run'.todo # <<>>
  <2>1. run' \in Run /\ run'.op = "finish" /\ run'.todo = ts /\ run'.left = {} /\ run'.cur = run.cur
        /\ run'.was = run.was
    BY <1>1, <1>2, <1>4, <1>7 DEF Run, Op
  <2>2. ts # <<>>
    BY <1>5, <1>6, <1>7, OneIs, TwoIs, NoneIs
  <2> QED BY <2>1, <2>2
<1>9. /\ leave.do \notin Config /\ push.do \notin Config
  BY <1>5 DEF Config, Saving, Unset
<1>10. Todo' \subseteq {leave, push} /\ run'.todo \in Seq(Task) /\ InBlock(run.todo)'
       /\ \A i \in DOMAIN run'.todo : run'.todo[i] \in {leave, push}
  <2>1. CASE ts = <<leave>>
    <3>1. run'.todo = <<leave>>
      BY <1>8, <2>1
    <3> QED BY <1>5, <1>9, <3>1, OneTask
  <2>2. CASE ts = <<leave, push>>
    <3>1. run'.todo = <<leave, push>>
      BY <1>8, <2>2
    <3> QED BY <1>5, <1>9, <3>1, TwoTasks
  <2> QED BY <1>6, <2>1, <2>2
<1>11. DataInv' /\ WorkKept'
  BY <1>1, <1>2, PlannedKeeps DEF DataInv
<1>12. RunInv'
  <2>1. {"checkout", "push"} \subseteq KindsOf["finish"]
    BY DEF KindsOf, Op
  <2> QED BY <1>3, <1>5, <1>8, <1>10, <2>1 DEF RunInv, Formed
<1>13. RefInv'
  <2>1. run.cur \in Branch /\ tip'[run.cur] # None
    BY <1>2, <1>3 DEF Planned, Exists
  <2>2. \A t \in {leave, push} : t.do \notin Making /\ t.do # "rebase" /\ t.branch = run.cur
    BY <1>5 DEF Making
  <2> QED BY <1>8, <1>10, <2>1, <2>2 DEF RefInv, Exists
<1>14. SpareInv' /\ ExpandInv' /\ ChainInv'
  BY <1>5, <1>8, <1>10 DEF SpareInv, ExpandInv, ChainInv
<1>15. NowInv' /\ ThenInv'
  <2>1. run.op \in Cleaning /\ run'.op \in Cleaning /\ run.was \subseteq Branch
    BY <1>1, <1>2, <1>8 DEF Cleaning, Run
  <2>2. \A b \in Branch : Cleaned(b) <=> Cleaned(b)'
    BY <1>2, <1>8, <2>1, StillCleaned
  <2>3. \A t \in Todo' : t.do \notin Config
    BY <1>9, <1>10
  <2> QED BY <1>1, <1>2, <1>8, <2>1, <2>2, <2>3, Kept, NewQuiet
<1> QED BY <1>10, <1>11, <1>12, <1>13, <1>14, <1>15 DEF IInv

LEMMA ExpandFailsKeeps == ASSUME IInv, ExpandFails, UNCHANGED bound PROVE IInv'
<1>1. DataInv /\ WorkKept /\ RunInv /\ run \in Run /\ RefInv /\ ExpandInv
  BY DEF IInv, RunInv
<1>2. /\ Planned /\ head' = head /\ run.op = "expand" /\ run.todo # <<>>
      /\ cut' = (cut \/ Head(run.todo).do \in {"set key", "set layers"})
  BY DEF ExpandFails, Planned, refs, config
<1> DEFINE kept == {i \in DOMAIN run.stack : run.stack[i] \in run.made}
           created == Filtered(run.stack, kept)
           back == At("reset", run.cur, run.orig)
           drops == [j \in DOMAIN created |-> On("drop", created[j])]
           ts == <<back>> \o drops
<1>3. run' = [run EXCEPT !.op = "undo", !.todo = ts]
  BY DEF ExpandFails, Step
<1>4. run.cur \in Branch /\ Exists(run.cur) /\ run.orig \in Seq(Commit) /\ Patches(tip[run.cur]) = Patches(run.orig)
  BY <1>1, <1>2 DEF RefInv, ExpandInv, Run
<1>5. created \in Seq(Branch) /\ ToSet(created) \subseteq run.made
  <2>1. run.stack \in Seq(Branch) /\ kept \subseteq DOMAIN run.stack /\ \A i \in kept : run.stack[i] \in run.made
    BY <1>1 DEF Run
  <2> HIDE DEF kept
  <2> QED BY <2>1, FilteredIs
<1>6. back \in Task /\ back.do = "reset" /\ back.branch = run.cur /\ back.hist = run.orig /\ IsInjective(back.list)
  <2>1. "reset" \in Kind
    BY DEF Kind
  <2> QED BY <1>4, <2>1, AtIs, NoneIs
<1>7. drops \in Seq(Task) /\ \A t \in ToSet(drops) : t.do = "drop" /\ t.branch \in run.made /\ IsInjective(t.list)
  <2> HIDE DEF created
  <2>1. \A j \in DOMAIN created : created[j] \in Branch /\ created[j] \in run.made
    BY <1>5, SeqIs
  <2>2. "drop" \in Kind
    BY DEF Kind
  <2>3. ASSUME NEW j \in DOMAIN created
        PROVE  /\ drops[j] \in Task /\ drops[j].do = "drop" /\ drops[j].branch \in run.made /\ IsInjective(drops[j].list)
    BY <2>1, <2>2, OnIs, NoneIs
  <2>4. DOMAIN created = 1..Len(created) /\ Len(created) \in Nat
    BY <1>5, SeqIs
  <2>5. drops \in [1..Len(created) -> Task]
    BY <2>3, <2>4
  <2>6. drops \in Seq(Task) /\ DOMAIN drops = DOMAIN created
    <3> HIDE DEF drops
    <3> QED BY <2>4, <2>5
  <2> HIDE DEF drops
  <2> QED BY <2>3, <2>6, SeqIs
<1>8. ts \in Seq(Task) /\ ToSet(ts) = {back} \cup ToSet(drops)
  <2> HIDE DEF back, drops, created
  <2> DEFINE one == <<back>>
  <2>1. one \in Seq(Task) /\ ToSet(one) = {back}
    BY <1>6, OneIs
  <2> HIDE DEF one
  <2>2. one \o drops \in Seq(Task) /\ ToSet(one \o drops) = ToSet(one) \cup ToSet(drops)
    BY <1>7, <2>1, ConcatIs
  <2> QED BY <2>1, <2>2 DEF one
<1> HIDE DEF kept, created, back, drops, ts
<1>9. run' \in Run /\ run'.op = "undo" /\ run'.todo = ts /\ run'.left = run.left /\ run'.cur = run.cur
      /\ run'.was = run.was /\ run'.made = run.made /\ run'.orig = run.orig
  BY <1>1, <1>3, <1>8 DEF Run, Op
<1>10. /\ Todo' = {back} \cup ToSet(drops) /\ \A i \in DOMAIN run'.todo : run'.todo[i] \in Todo'
  BY <1>8, <1>9, SeqIs DEF Todo
<1>11. DataInv' /\ WorkKept'
  <2>1. cut' \in BOOLEAN
    BY <1>2
  <2> QED BY <1>1, <1>2, <2>1, PlannedKeeps
<1>12. RunInv'
  <2>1. {"reset", "drop"} \subseteq KindsOf["undo"] /\ run.made \subseteq Branch
    BY <1>1 DEF KindsOf, Op, Run
  <2> QED BY <1>4, <1>6, <1>7, <1>9, <1>10, <2>1 DEF RunInv, Formed
<1>13. RefInv'
  <2>1. run.cur \in Branch /\ tip'[run.cur] # None
    BY <1>2, <1>4 DEF Planned, Exists
  <2>2. \A t \in Todo' : t.do \notin Making \cup {"rebase", "checkout"}
    BY <1>6, <1>7, <1>10 DEF Making
  <2> QED BY <1>9, <1>10, <2>1, <2>2 DEF RefInv, Exists
<1>14. ExpandInv' /\ ChainInv'
  <2>1. \A b \in run.made : b # run.cur /\ Patches(tip'[b]) \subseteq Patches(run.orig)
    BY <1>1, <1>2 DEF ExpandInv, Planned
  <2>2. run.orig # None /\ Patches(tip'[run.cur]) = Patches(run.orig)
    BY <1>1, <1>2 DEF ExpandInv, Planned
  <2>3. \A t \in Todo' :
            /\ t.do = "reset" => t.branch = run.cur /\ Patches(t.hist) = Patches(run.orig)
            /\ t.do # "create"
    BY <1>6, <1>7, <1>10
  <2> QED BY <1>9, <2>1, <2>2, <2>3 DEF ExpandInv, ChainInv
<1>15. SpareInv'
  <2>1. ASSUME NEW t \in Todo', t.do = "drop" PROVE Spare(t.branch)' /\ t.branch # run.cur
    <3>1. t.branch \in run.made
      BY <1>6, <1>7, <1>10, <2>1
    <3>2. t.branch # run.cur /\ Patches(tip[t.branch]) \subseteq Patches(tip[run.cur])
      BY <1>1, <1>2, <1>4, <3>1 DEF ExpandInv
    <3> QED BY <1>2, <1>4, <1>9, <3>2 DEF Spare, Planned
  <2>2. run.cur \notin run.left
    BY <1>2 DEF IInv, SpareInv
  <2> QED BY <1>9, <2>1, <2>2 DEF SpareInv
<1>16. InBlock(run.todo)'
  <2>1. \A t \in ToSet(ts) : t.do \notin Config /\ IsInjective(t.list)
    BY <1>6, <1>7, <1>8 DEF Config, Saving, Unset
  <2>2. InBlock(ts)
    BY <1>8, <2>1, NoBlock
  <2>3. InBlock(run'.todo)
    BY <1>9, <2>2
  <2> QED BY <2>3 DEF InBlock
<1>17. NowInv' /\ ThenInv'
  <2>1. \A t \in Todo' : t.do \notin Config
    BY <1>6, <1>7, <1>10 DEF Config, Saving, Unset
  <2>2. Head(run.todo).do \in KindsOf["expand"]
    <3>1. Head(run.todo) \in Todo
      BY <1>1, <1>2, TailIs DEF Todo, Run
    <3> QED BY <1>1, <1>2, <3>1 DEF RunInv
  <2>3. ~cut' => ~cut /\ Apart
    BY <1>2, <2>2 DEF Apart, KindsOf, Op, Config, Saving, Unset
  <2>4. \A b : ~Cleaned(b)
    BY <1>2 DEF Cleaned, Cleaning
  <2> QED BY <1>1, <1>2, <1>9, <2>1, <2>3, <2>4, Kept, NewQuiet
<1> QED BY <1>11, <1>12, <1>13, <1>14, <1>15, <1>16, <1>17 DEF IInv

-----------------------------------------------------------------------------
\* Cleaning up a branch.

LEMMA RankAll == ASSUME NEW n \in Nat, NEW i \in 1..n PROVE Rank(1..n, i) = i
<1>1. Upto(1..n, i) = 1..i /\ i \in Nat
  BY DEF Upto
<1>2. \A p, q \in Int : Cardinality(p..q) = IF p > q THEN 0 ELSE q - p + 1
  BY FS_Interval
<1>3. Cardinality(1..i) = i
  BY <1>1, <1>2
<1> QED BY <1>1, <1>3 DEF Rank

LEMMA WithoutNone ==
    ASSUME NEW s \in Seq(Branch), NEW b, b \notin ToSet(s) PROVE Without(s, b) = s
<1> DEFINE n == Len(s)
           K == 1..n
           At0(m) == CHOOSE i \in K : Rank(K, i) = m
<1>1. n \in Nat /\ DOMAIN s = K /\ \A i \in K : s[i] # b
  BY SeqIs
<1>2. {i \in DOMAIN s : s[i] # b} = K
  BY <1>1
<1>3. \A i \in K : Rank(K, i) = i
  BY <1>1, RankAll
<1>4. Cardinality(K) = n
  <2>1. \A p, q \in Int : Cardinality(p..q) = IF p > q THEN 0 ELSE q - p + 1
    BY FS_Interval
  <2>2. n \in Nat
    BY <1>1
  <2> HIDE DEF n
  <2> QED BY <2>1, <2>2
<1>5. \A m \in K : At0(m) = m
  BY <1>3
<1>6. Without(s, b) = [m \in 1..Cardinality(K) |-> s[At0(m)]]
  <2>1. Without(s, b) = Filtered(s, K)
    BY <1>2 DEF Without
  <2>2. Filtered(s, K) = [m \in 1..Cardinality(K) |-> s[At0(m)]]
    BY DEF Filtered, Rank, Upto
  <2> QED BY <2>1, <2>2
<1>7. Without(s, b) = [m \in K |-> s[m]]
  <2> HIDE DEF At0
  <2> QED BY <1>4, <1>5, <1>6
<1> QED BY <1>1, <1>7

\* Tasks for one branch around the block that takes it out of its stack.
Aside(q, b) ==
    q \in Seq(Task) /\ \A t \in ToSet(q) :
        /\ Formed(t) /\ t.do \notin Config /\ t.do \in KindsOf[run.op] /\ t.branch = b /\ t.list = <<>>
        /\ t.do \in {"leave", "drop", "drop origin"}

CleansUp(ts, b) ==
    /\ ts \in Seq(Task) /\ InBlock(ts)
    /\ \A t \in ToSet(ts) : /\ Formed(t) /\ t.do \in KindsOf[run.op] /\ (t.do = "drop" => t.branch = b)
                            /\ t.do \notin Making \cup {"rebase", "checkout", "reset"}

LEMMA AsideAlone ==
    ASSUME NEW q, NEW b, Aside(q, b)
    PROVE  CleansUp(q, b) /\ \A t \in ToSet(q) : t.do \notin Config
<1>1. \A t \in ToSet(q) : IsInjective(t.list) /\ t.do \notin Config
  BY NoneIs DEF Aside
<1>2. InBlock(q)
  BY <1>1, NoBlock DEF Aside
<1> QED BY <1>1, <1>2 DEF Aside, CleansUp, Making

LEMMA AsideAround ==
    ASSUME NEW q, NEW b, Aside(q, b), NEW x, NEW id, NEW list, Block(x, id, list, {b}), Config \subseteq KindsOf[run.op],
           NEW ts, ts = q \o x \/ ts = x \o q
    PROVE  CleansUp(ts, b) /\ \A t : t \in ToSet(x) <=> t \in ToSet(ts) /\ t.do \in Config
<1>1. q \in Seq(Task) /\ x \in Seq(Task) /\ \A t \in ToSet(q) : IsInjective(t.list) /\ t.do \notin Config
  BY NoneIs DEF Aside, Block
<1>2. ts \in Seq(Task) /\ ToSet(ts) = ToSet(q) \cup ToSet(x)
  <2>1. q \o x \in Seq(Task) /\ ToSet(q \o x) = ToSet(q) \cup ToSet(x)
    BY <1>1, ConcatIs
  <2>2. x \o q \in Seq(Task) /\ ToSet(x \o q) = ToSet(x) \cup ToSet(q)
    BY <1>1, ConcatIs
  <2> QED BY <2>1, <2>2
<1>3. InBlock(ts)
  <2>1. InBlock(x)
    BY DEF Block
  <2> QED BY <1>1, <2>1, QuietBefore, QuietAfter
<1>4. \A t \in ToSet(x) : /\ Formed(t) /\ t.do \in Config /\ t.do \in KindsOf[run.op] /\ t.do # "drop"
                          /\ t.do \notin Making \cup {"rebase", "checkout", "reset"}
  <2>1. \A t \in ToSet(x) : Formed(t) /\ t.do \in Config
    BY DEF Block
  <2> QED BY <2>1 DEF Config, Saving, Unset, Making
<1>5. \A t \in ToSet(q) : /\ Formed(t) /\ t.do \in KindsOf[run.op] /\ (t.do = "drop" => t.branch = b)
                          /\ t.do \notin Making \cup {"rebase", "checkout", "reset"}
  BY DEF Aside, Making
<1> QED BY <1>1, <1>2, <1>3, <1>4, <1>5 DEF CleansUp

LEMMA DroppedIs ==
    ASSUME NEW b \in Branch, run.op \in {"absorb", "prune"} PROVE Aside(Dropped(b), b)
<1> DEFINE d == On("drop", b)
           o == On("drop origin", b)
<1>1. /\ d \in Task /\ d.do = "drop" /\ d.branch = b /\ d.list = <<>>
      /\ o \in Task /\ o.do = "drop origin" /\ o.branch = b /\ o.list = <<>>
  <2>1. "drop" \in Kind /\ "drop origin" \in Kind
    BY DEF Kind
  <2> QED BY <2>1, OnIs
<1>2. Dropped(b) = <<>> \/ Dropped(b) = <<d, o>>
  BY DEF Dropped
<1> HIDE DEF d, o
<1>3. Dropped(b) \in Seq(Task) /\ ToSet(Dropped(b)) \subseteq {d, o}
  <2>1. CASE Dropped(b) = <<>>
    BY <2>1, NoneIs
  <2>2. CASE Dropped(b) = <<d, o>>
    <3>1. d \in Task /\ o \in Task
      BY <1>1
    <3>2. ASSUME NEW u, u = <<d, o>> PROVE u \in Seq(Task) /\ ToSet(u) = {d, o}
      BY ONLY <3>1, <3>2, TwoIs
    <3> QED BY <2>2, <3>2
  <2> QED BY <1>2, <2>1, <2>2
<1>4. {"drop", "drop origin"} \subseteq KindsOf[run.op] /\ {"drop", "drop origin"} \cap Config = {}
  BY DEF KindsOf, Op, Removing, Config, Saving, Unset
<1> QED BY <1>1, <1>3, <1>4 DEF Aside, Formed

LEMMA LeaveIs ==
    ASSUME NEW stack \in Seq(Branch), NEW b \in Branch, NEW q, Aside(q, b), run.op = "prune"
    PROVE  Aside(<<Leave(stack, b)>> \o q, b)
<1> DEFINE rest == Without(stack, b)
           onto == IF rest = <<>> THEN NoBranch ELSE Last(rest)
           l == Onto("leave", b, onto)
           one == <<l>>
<1>1. Leave(stack, b) = l
  BY DEF Leave, Onto
<1>2. onto \in Branch \cup {NoBranch} /\ onto # Trunk
  <2>1. rest \in Seq(Branch)
    BY WithoutIs
  <2> HIDE DEF rest
  <2>2. rest # <<>> => Last(rest) \in Branch
    <3>1. rest # <<>> => Len(rest) \in DOMAIN rest
      <4>1. Len(rest) \in Nat /\ DOMAIN rest = 1..Len(rest) /\ (rest = <<>> <=> Len(rest) = 0)
        BY <2>1, SeqIs
      <4> QED BY <4>1
    <3> QED BY <2>1, <3>1, SeqIs DEF Last
  <2> QED BY <2>2, BranchAssumption
<1> HIDE DEF onto
<1>3. l \in Task /\ l.do = "leave" /\ l.branch = b /\ l.onto = onto /\ l.list = <<>>
  <2>1. "leave" \in Kind
    BY DEF Kind
  <2> QED BY <1>2, <2>1, OntoIs
<1> HIDE DEF l
<1>4. one \in Seq(Task) /\ ToSet(one) = {l}
  BY <1>3, OneIs
<1> HIDE DEF one
<1>5. one \o q \in Seq(Task) /\ ToSet(one \o q) = {l} \cup ToSet(q)
  <2>1. q \in Seq(Task)
    BY DEF Aside
  <2> QED BY <1>4, <2>1, ConcatIs
<1>6. "leave" \in KindsOf[run.op] /\ "leave" \notin Config
  BY DEF KindsOf, Op, Config, Saving, Unset
<1>7. Formed(l)
  BY <1>2, <1>3 DEF Formed
<1>8. Aside(one \o q, b)
  BY <1>3, <1>5, <1>6, <1>7 DEF Aside
<1> QED BY <1>1, <1>8 DEF one

\* The tasks, and the block among them if there is one.
LEMMA CleanupIs ==
    ASSUME DataInv, RunInv, NEW b \in Branch, run.op \in {"absorb", "prune", "done", "remotes"},
           run.op \in {"absorb", "prune"} => b \in ToSet(run.stack)
    PROVE  /\ CleansUp(Cleanup(b), b)
           /\ \/ /\ run.op \in {"done", "remotes"}
                 /\ \A t \in ToSet(Cleanup(b)) : t.do \notin Config
              \/ \E x, id, stack :
                   /\ id \in Id /\ stack \in Seq(Branch) /\ b \in ToSet(stack)
                   /\ IF run.op = "done" THEN stack = layers[id] ELSE id = run.id /\ stack = run.stack
                   /\ Block(x, id, Without(stack, b), {b})
                   /\ \A t : t \in ToSet(x) <=> t \in ToSet(Cleanup(b)) /\ t.do \in Config
<1>1. run \in Run
  BY DEF RunInv
<1>2. CASE run.op \in {"absorb", "prune"}
  <2> DEFINE x == RemoveLayer(run.stack, run.id, b)
             q == IF run.op = "absorb" THEN Dropped(b) ELSE <<Leave(run.stack, b)>> \o Dropped(b)
  <2>1. run.stack \in Seq(Branch) /\ IsInjective(run.stack) /\ run.id \in Id /\ b \in ToSet(run.stack)
    BY <1>2 DEF RunInv, Run
  <2>2. Block(x, run.id, Without(run.stack, b), {b})
    BY <2>1, RemoveLayerIs
  <2>3. Aside(q, b)
    <3>1. Aside(Dropped(b), b)
      BY <1>2, DroppedIs
    <3>2. run.op = "prune" => Aside(<<Leave(run.stack, b)>> \o Dropped(b), b)
      BY <2>1, <3>1, LeaveIs
    <3> QED BY <1>2, <3>1, <3>2
  <2>4. Cleanup(b) = q \o x
    BY <1>2 DEF Cleanup
  <2>5. Config \subseteq KindsOf[run.op]
    BY <1>2 DEF KindsOf, Op, Removing
  <2> HIDE DEF x, q
  <2>6. CleansUp(Cleanup(b), b) /\ \A t : t \in ToSet(x) <=> t \in ToSet(Cleanup(b)) /\ t.do \in Config
    BY <2>2, <2>3, <2>4, <2>5, AsideAround
  <2> QED BY <1>2, <2>1, <2>2, <2>6
<1> DEFINE d == On("drop", b)
           one == <<d>>
<1>3. Aside(one, b) \/ run.op # "done"
  <2>1. SUFFICES ASSUME run.op = "done" PROVE Aside(one, b)
    OBVIOUS
  <2>2. d \in Task /\ d.do = "drop" /\ d.branch = b /\ d.list = <<>>
    <3>1. "drop" \in Kind
      BY DEF Kind
    <3> QED BY <3>1, OnIs
  <2> HIDE DEF d
  <2>3. one \in Seq(Task) /\ ToSet(one) = {d}
    BY <2>2, OneIs
  <2>4. "drop" \in KindsOf[run.op] /\ "drop" \notin Config
    BY <2>1 DEF KindsOf, Op, Config, Saving, Unset
  <2> HIDE DEF one
  <2> QED BY <2>2, <2>3, <2>4 DEF Aside, Formed
<1>4. CASE run.op = "done" /\ ~InStack(b)
  <2>1. Cleanup(b) = <<>> \o one
    BY <1>4 DEF Cleanup
  <2> HIDE DEF one
  <2>2. Cleanup(b) = one
    BY <1>3, <1>4, <2>1, ConcatEmptySeq DEF Aside
  <2> QED BY <1>3, <1>4, <2>2, AsideAlone
<1>5. CASE run.op = "done" /\ InStack(b)
  <2> DEFINE stack == StackOf(b)
             x == RemoveLayer(stack, key[b], b)
  <2>1. /\ key[b] \in Id /\ stack = layers[key[b]] /\ stack \in Seq(Branch) /\ IsInjective(stack)
    BY <1>5, StackIs
  <2>2. Cleanup(b) = x \o one
    BY <1>5 DEF Cleanup
  <2> HIDE DEF one
  <2>3. CASE b \in ToSet(stack)
    <3>1. Block(x, key[b], Without(stack, b), {b})
      BY <2>1, <2>3, RemoveLayerIs
    <3>2. Config \subseteq KindsOf[run.op]
      BY <1>5 DEF KindsOf, Op
    <3> HIDE DEF x, stack
    <3>3. CleansUp(Cleanup(b), b) /\ \A t : t \in ToSet(x) <=> t \in ToSet(Cleanup(b)) /\ t.do \in Config
      BY <1>3, <1>5, <2>2, <3>1, <3>2, AsideAround
    <3> QED BY <1>5, <2>1, <2>3, <3>1, <3>3
  <2>4. CASE b \notin ToSet(stack)
    <3>1. x = <<>>
      BY <2>1, <2>4, WithoutNone DEF RemoveLayer
    <3>2. Cleanup(b) = one
      BY <1>3, <1>5, <2>2, <3>1, ConcatEmptySeq DEF Aside
    <3> QED BY <1>3, <1>5, <3>2, AsideAlone
  <2> QED BY <2>3, <2>4
<1>6. CASE run.op = "remotes"
  <2> DEFINE o == On("drop origin", b)
             two == <<o>>
  <2>1. o \in Task /\ o.do = "drop origin" /\ o.branch = b /\ o.list = <<>>
    <3>1. "drop origin" \in Kind
      BY DEF Kind
    <3> QED BY <3>1, OnIs
  <2>2. Cleanup(b) = two
    BY <1>6 DEF Cleanup
  <2> HIDE DEF o
  <2>3. two \in Seq(Task) /\ ToSet(two) = {o}
    BY <2>1, OneIs
  <2>4. "drop origin" \in KindsOf[run.op] /\ "drop origin" \notin Config
    BY <1>6 DEF KindsOf, Op, Config, Saving, Unset
  <2> HIDE DEF two
  <2>5. Aside(two, b)
    BY <2>1, <2>3, <2>4 DEF Aside, Formed
  <2> QED BY <1>6, <2>2, <2>5, AsideAlone
<1> QED BY <1>2, <1>4, <1>5, <1>6

LEMMA CleanUpKeeps == ASSUME IInv, NEW b \in Branch, CleanUp(b), UNCHANGED bound PROVE IInv'
<1>1. DataInv /\ WorkKept /\ RunInv /\ run \in Run /\ RefInv /\ SpareInv
  BY DEF IInv, RunInv
<1>2. /\ Planned /\ cut' = cut /\ head' = head /\ run.op \in {"absorb", "prune", "done", "remotes"} /\ run.todo = <<>>
      /\ Apart /\ b \in run.left
  BY DEF CleanUp, Planned, refs, config, history, Apart
<1>3. run' = [run EXCEPT !.todo = Cleanup(b), !.left = run.left \ {b}, !.stack = Without(run.stack, b)]
  BY DEF CleanUp, Step
<1>4. run.op \in {"absorb", "prune"} => b \in ToSet(run.stack)
  <2>1. SUFFICES ASSUME run.op \in {"absorb", "prune"} PROVE b \in ToSet(run.stack)
    OBVIOUS
  <2>2. PICK i \in DOMAIN run.stack : run.stack[i] = b
    BY <2>1 DEF CleanUp
  <2>3. run.stack \in Seq(Branch)
    BY <1>1 DEF Run
  <2> QED BY <2>2, <2>3, SeqIs
<1> DEFINE ts == Cleanup(b)
<1>5. /\ CleansUp(ts, b)
      /\ \/ /\ run.op \in {"done", "remotes"}
            /\ \A t \in ToSet(ts) : t.do \notin Config
         \/ \E x, id, stack :
              /\ id \in Id /\ stack \in Seq(Branch) /\ b \in ToSet(stack)
              /\ IF run.op = "done" THEN stack = layers[id] ELSE id = run.id /\ stack = run.stack
              /\ Block(x, id, Without(stack, b), {b})
              /\ \A t : t \in ToSet(x) <=> t \in ToSet(ts) /\ t.do \in Config
  BY <1>1, <1>2, <1>4, CleanupIs
<1>6. /\ Without(run.stack, b) \in Seq(Branch) /\ ts \in Seq(Task)
      /\ IsInjective(run.stack) => IsInjective(Without(run.stack, b))
  BY <1>1, <1>5, WithoutIs DEF Run, CleansUp
<1> HIDE DEF ts
<1>7. /\ run' \in Run /\ run'.op = run.op /\ run'.todo = ts /\ run'.left = run.left \ {b} /\ run'.cur = run.cur
      /\ run'.was = run.was /\ run'.id = run.id /\ run'.stack = Without(run.stack, b)
  BY <1>1, <1>3, <1>6 DEF Run, ts
<1>8. Todo' = ToSet(ts) /\ \A i \in DOMAIN run'.todo : run'.todo[i] \in Todo'
  BY <1>6, <1>7, SeqIs DEF Todo
<1>9. DataInv' /\ WorkKept'
  BY <1>1, <1>2, PlannedKeeps DEF DataInv
<1>10. RunInv'
  BY <1>1, <1>2, <1>5, <1>6, <1>7, <1>8 DEF RunInv, CleansUp
<1>11. \A t \in Todo' : /\ t.do = "drop" => t.branch = b
                        /\ t.do \notin Making \cup {"rebase", "checkout", "reset"}
  BY <1>5, <1>8 DEF CleansUp
<1>12. RefInv'
  <2>1. run.op = "absorb" => run.cur \in Branch /\ tip'[run.cur] # None /\ head' = run.cur
    BY <1>1, <1>2 DEF RefInv, Planned, Exists
  <2> QED BY <1>2, <1>7, <1>8, <1>11, <2>1 DEF RefInv, Exists
<1>13. ExpandInv' /\ ChainInv'
  BY <1>2, <1>7 DEF ExpandInv, ChainInv
<1>14. run.op \in Cleaning /\ run'.op \in Cleaning /\ run.was \subseteq Branch /\ run.left \subseteq Branch
  BY <1>1, <1>2, <1>7 DEF Cleaning, Run
<1>15. /\ \A c \in Branch : Cleaned(c) <=> Cleaned(c)'
       /\ \A c \in Branch : Spare(c) <=> Spare(c)'
  BY <1>2, <1>7, <1>14, StillCleaned
<1>16. SpareInv'
  <2>1. ASSUME NEW c \in run'.left, run.op \in {"absorb", "prune", "done"} PROVE Spare(c)'
    <3>1. c \in Branch /\ Spare(c)
      BY <1>1, <1>7, <1>14, <2>1 DEF SpareInv
    <3> QED BY <1>15, <3>1
  <2>2. ASSUME NEW t \in Todo', t.do = "drop" PROVE Spare(t.branch)' /\ t.branch # run.cur
    <3>1. t.branch = b /\ run.op # "remotes"
      <4>1. t.do \in KindsOf[run.op] /\ run.op \in Op
        BY <1>5, <1>8, <1>2 DEF CleansUp, Op
      <4> QED BY <1>11, <2>2, <4>1, KindsAre
    <3>2. Spare(b) /\ b # run.cur
      BY <1>1, <1>2, <3>1 DEF SpareInv
    <3> QED BY <1>15, <3>1, <3>2
  <2>3. run.op # "remotes" => run.cur \notin run'.left
    BY <1>1, <1>7 DEF SpareInv
  <2> QED BY <1>7, <2>1, <2>2, <2>3 DEF SpareInv
<1>17. InBlock(run.todo)'
  <2>1. InBlock(run'.todo)
    BY <1>5, <1>7 DEF CleansUp
  <2> QED BY <2>1 DEF InBlock
<1>18. ~cut' => Settled /\ \A c \in run'.was : Cleaned(c)' \/ c \in Recorded
  BY <1>1, <1>2, <1>7, <1>14, <1>15, Kept
<1>19. NowInv' /\ ThenInv'
  <2>1. CASE run.op \in {"done", "remotes"} /\ \A t \in ToSet(ts) : t.do \notin Config
    BY <1>1, <1>2, <1>7, <1>8, <1>18, <2>1, NewQuiet
  <2>2. CASE \E x, id, stack :
              /\ id \in Id /\ stack \in Seq(Branch) /\ b \in ToSet(stack)
              /\ IF run.op = "done" THEN stack = layers[id] ELSE id = run.id /\ stack = run.stack
              /\ Block(x, id, Without(stack, b), {b})
              /\ \A t : t \in ToSet(x) <=> t \in ToSet(ts) /\ t.do \in Config
    <3>1. PICK x, id, stack :
              /\ id \in Id /\ stack \in Seq(Branch) /\ b \in ToSet(stack)
              /\ IF run.op = "done" THEN stack = layers[id] ELSE id = run.id /\ stack = run.stack
              /\ Block(x, id, Without(stack, b), {b})
              /\ \A t : t \in ToSet(x) <=> t \in ToSet(ts) /\ t.do \in Config
      BY <2>2
    <3> DEFINE list == Without(stack, b)
    <3>2. list \in Seq(Branch) /\ ToSet(list) = ToSet(stack) \ {b}
      BY <3>1, WithoutIs
    <3>3. ~cut => Settled /\ layers[id] = stack
      <4>1. CASE run.op = "done"
        BY <1>1, <1>2, <3>1, <4>1, Kept
      <4>2. CASE run.op \in {"absorb", "prune"}
        BY <1>1, <1>2, <3>1, <4>2, Kept
      <4>3. CASE run.op = "remotes"
        <5>1. ToSet(x) = {}
          <6>1. \A t \in ToSet(ts) : t.do \in KindsOf["remotes"]
            BY <1>5, <4>3 DEF CleansUp
          <6>2. KindsOf["remotes"] \cap Config = {}
            BY KindsAre
          <6> QED BY <3>1, <6>1, <6>2
        <5> QED BY <3>1, <5>1 DEF Block
      <4> QED BY <1>2, <4>1, <4>2, <4>3
    <3>4. stack # <<>>
      BY <3>1, NoneIs
    <3>5. ~cut' => /\ ToSet(layers[id]) \subseteq ToSet(list) \cup {b}
                   /\ \A c \in Branch : key[c] = id => c \in ToSet(list) \cup {b}
      BY <1>2, <3>1, <3>2, <3>3, <3>4 DEF Settled
    <3>6. ~cut' => \A c \in {b} : Cleaned(c)'
      <4>1. CASE run.op = "remotes"
        <5>1. ToSet(x) = {}
          <6>1. \A t \in ToSet(ts) : t.do \in KindsOf["remotes"]
            BY <1>5, <4>1 DEF CleansUp
          <6>2. KindsOf["remotes"] \cap Config = {}
            BY KindsAre
          <6> QED BY <3>1, <6>1, <6>2
        <5> QED BY <3>1, <5>1 DEF Block
      <4>2. CASE run.op # "remotes"
        <5>1. Cleaned(b)
          BY <1>1, <1>2, <1>14, <4>2 DEF SpareInv, Cleaned
        <5> QED BY <1>15, <5>1
      <4> QED BY <4>1, <4>2
    <3>7. run'.op \in {"merge", "absorb", "prune"} => run'.id = id /\ run'.stack = list
      BY <1>2, <1>7, <3>1
    <3>8. {b} \in SUBSET Branch /\ Block(x, id, list, {b}) /\ \A t : t \in ToSet(x) <=> t \in Todo' /\ t.do \in Config
      BY <1>8, <3>1
    <3> HIDE DEF list
    <3> QED BY <1>1, <1>2, <1>7, <1>18, <3>1, <3>2, <3>5, <3>6, <3>7, <3>8, NewBlock
  <2> QED BY <1>5, <2>1, <2>2
<1> QED BY <1>9, <1>10, <1>12, <1>13, <1>16, <1>17, <1>19 DEF IInv

-----------------------------------------------------------------------------
\* Starting to make, to adopt and to find a stack.

LEMMA SavesStack ==
    ASSUME IInv, run = Idle, Planned, cut' = cut, run' \in Run, run'.was = Recorded,
           run'.op \notin {"merge", "absorb", "prune"},
           NEW stack \in Seq(Branch), IsInjective(stack), NEW id \in Id,
           \A t : t \in ToSet(SaveStack(stack, id)) <=> t \in Todo' /\ t.do \in Config,
           ~cut => /\ ToSet(layers[id]) \subseteq ToSet(stack)
                   /\ \A b \in Branch : key[b] = id => b \in ToSet(stack)
    PROVE  NowInv' /\ ThenInv'
<1>1. DataInv
  BY DEF IInv
<1>2. Block(SaveStack(stack, id), id, stack, {})
  BY SaveStackIs
<1>3. ~cut' => Settled /\ \A b \in run'.was : Cleaned(b)' \/ b \in Recorded
  BY Found
<1>4. {} \in SUBSET Branch /\ \A b \in {} : Cleaned(b)'
  OBVIOUS
<1>5. ~cut' => ToSet(layers[id]) \subseteq ToSet(stack) \cup {}
                    /\ \A b \in Branch : key[b] = id => b \in ToSet(stack) \cup {}
  OBVIOUS
<1>6. PICK ts : ts = SaveStack(stack, id)
  OBVIOUS
<1> QED BY <1>1, <1>2, <1>3, <1>4, <1>5, <1>6, NewBlock

\* Nothing is recorded under a fresh id.
LEMMA FreshIs ==
    ASSUME NEW id \in Id, FreshId(id), NEW stack
    PROVE  /\ ToSet(layers[id]) \subseteq ToSet(stack)
           /\ \A b \in Branch : key[b] = id => b \in ToSet(stack)
BY NoneIs DEF FreshId

LEMMA MakingStarts ==
    ASSUME IInv, run = Idle, Planned, cut' = cut, head' = head, NEW op \in {"start", "append"},
           NEW b \in Branch, ~Exists(b), NEW hist \in Seq(Commit),
           NEW stack \in Seq(Branch), IsInjective(stack), NEW id \in Id,
           run' = Begin(op, <<At("start", b, hist)>> \o SaveStack(stack, id) \o <<On("push", b)>>),
           ~cut => /\ ToSet(layers[id]) \subseteq ToSet(stack)
                   /\ \A c \in Branch : key[c] = id => c \in ToSet(stack)
    PROVE  IInv'
<1> DEFINE at0 == At("start", b, hist)
           push == On("push", b)
           one == <<at0>>
           two == <<push>>
           saves == SaveStack(stack, id)
           ts == one \o saves \o two
<1>1. DataInv /\ WorkKept
  BY DEF IInv
<1>2. /\ at0 \in Task /\ at0.do = "start" /\ at0.branch = b /\ at0.list = <<>>
      /\ push \in Task /\ push.do = "push" /\ push.branch = b /\ push.list = <<>>
  <2>1. "start" \in Kind /\ "push" \in Kind
    BY DEF Kind
  <2> QED BY <2>1, AtIs, OnIs
<1>3. /\ saves \in Seq(Task) /\ InBlock(saves) /\ \A t \in ToSet(saves) : Formed(t) /\ t.do \in Saving
  BY SaveStackIs DEF Block
<1>4. run' = Begin(op, ts)
  OBVIOUS
<1> HIDE DEF at0, push, saves
<1>5. one \in Seq(Task) /\ ToSet(one) = {at0} /\ two \in Seq(Task) /\ ToSet(two) = {push}
      /\ DOMAIN one = {1} /\ one[1] = at0 /\ Len(one) = 1
  BY <1>2, OneIs
<1> HIDE DEF one, two
<1> DEFINE s == one \o saves
<1>6. Joined(Task, s, one, saves) /\ Joined(Task, ts, s, two)
  <2>1. Joined(Task, s, one, saves)
    BY <1>3, <1>5, JoinIs
  <2>2. s \in Seq(Task) /\ ts = s \o two
    BY <2>1 DEF Joined
  <2> HIDE DEF s, ts
  <2> QED BY <1>5, <2>1, <2>2, JoinIs
<1>7. InBlock(ts)
  <2>1. \A t \in ToSet(one) \cup ToSet(two) : t.do \notin Config /\ IsInjective(t.list)
    BY <1>2, <1>5, NoneIs DEF Config, Saving, Unset
  <2>2. InBlock(s) /\ s \in Seq(Task)
    BY <1>3, <1>5, <1>6, <2>1, QuietBefore DEF Joined
  <2> HIDE DEF s
  <2>3. InBlock(s \o two)
    BY <1>5, <2>1, <2>2, QuietAfter
  <2> QED BY <2>3 DEF s
<1> HIDE DEF s, ts
<1>8. \A i, j \in DOMAIN ts : ts[i].do \in Making /\ ts[j].do \in Making => i = j
  <2>1. Len(saves) \in Nat /\ (\A i \in DOMAIN saves : saves[i].do \in Saving) /\ (\A i \in DOMAIN two : two[i] = push)
        /\ Len(one) = 1 /\ DOMAIN one = {1}
    <3>1. saves \in Seq(Task) /\ two \in Seq(Task)
      BY <1>3, <1>5
    <3>2. Len(saves) \in Nat /\ \A i \in DOMAIN saves : saves[i] \in ToSet(saves)
      BY ONLY <3>1, SeqIs
    <3>3. \A i \in DOMAIN two : two[i] \in ToSet(two)
      BY ONLY <3>1, SeqIs
    <3> QED BY <1>3, <1>5, <3>2, <3>3
  <2>2. ASSUME NEW i \in DOMAIN s, i # 1 PROVE s[i].do \notin Making
    <3>1. i - 1 \in DOMAIN saves /\ s[i] = saves[i - 1]
      BY <1>6, <2>1, <2>2 DEF Joined
    <3> QED BY <2>1, <3>1 DEF Saving, Making
  <2>3. ASSUME NEW i \in DOMAIN ts, i # 1 PROVE ts[i].do \notin Making
    <3>1. CASE i \in DOMAIN s
      BY <1>6, <2>2, <2>3, <3>1 DEF Joined
    <3>2. CASE i \notin DOMAIN s
      <4>1. ts[i] = push
        BY <1>6, <2>1, <3>2 DEF Joined
      <4> QED BY <1>2, <4>1 DEF Making
    <3> QED BY <3>1, <3>2
  <2> QED BY <2>3
<1>9. op \in Op
  BY DEF Op
<1>10. /\ run' \in Run /\ run'.op = op /\ run'.todo = ts /\ run'.left = {} /\ run'.cur = NoBranch
       /\ run'.made = {} /\ run'.was = Recorded
  <2>1. ts \in Seq(Task)
    BY <1>6 DEF Joined
  <2> QED BY ONLY <1>4, <1>9, <2>1, BeginIs
<1>11. Todo' = {at0, push} \cup ToSet(saves) /\ \A i \in DOMAIN run'.todo : run'.todo[i] = ts[i]
  BY <1>5, <1>6, <1>10 DEF Todo, Joined
<1>12. DataInv' /\ WorkKept'
  BY <1>1, <1>2, PlannedKeeps DEF DataInv
<1>13. RunInv'
  <2>1. {"start", "push"} \cup Saving \subseteq KindsOf[op]
    BY DEF KindsOf, Op
  <2> QED BY <1>2, <1>3, <1>10, <1>11, <2>1 DEF RunInv, Formed
<1>14. RefInv'
  <2>1. tip'[b] = None
    BY DEF Planned, Exists
  <2>2. \A t \in Todo' : /\ t.do \in Making => t.branch = b
                         /\ t.do \notin {"rebase", "checkout"}
    BY <1>2, <1>3, <1>11 DEF Making, Saving
  <2> QED BY <1>8, <1>10, <2>1, <2>2 DEF RefInv, Exists
<1>15. SpareInv' /\ ExpandInv' /\ ChainInv'
  BY <1>2, <1>3, <1>10, <1>11 DEF SpareInv, ExpandInv, ChainInv, Saving
<1>16. InBlock(run.todo)'
  <2>1. InBlock(run'.todo)
    BY <1>7, <1>10
  <2> QED BY <2>1 DEF InBlock
<1>17. NowInv' /\ ThenInv'
  <2>1. \A t : t \in ToSet(SaveStack(stack, id)) <=> t \in Todo' /\ t.do \in Config
    BY <1>2, <1>3, <1>11 DEF Config, Saving, Unset, saves
  <2> QED BY <1>10, <2>1, SavesStack
<1> QED BY <1>12, <1>13, <1>14, <1>15, <1>16, <1>17 DEF IInv

LEMMA StartKeeps ==
    ASSUME IInv, NEW b \in Branch, NEW id \in Id, Start(b, id), UNCHANGED bound PROVE IInv'
<1>1. /\ Planned /\ run = Idle /\ cut' = cut /\ head' = head /\ ~Exists(b) /\ FreshId(id)
      /\ run' = Begin("start", <<At("start", b, trunk)>> \o SaveStack(<<b>>, id) \o <<On("push", b)>>)
  BY DEF Start, Starts, Planned, refs, config
<1> DEFINE stack == <<b>>
<1>2. stack \in Seq(Branch) /\ IsInjective(stack)
  BY DEF IsInjective
<1>3. trunk \in Seq(Commit)
  BY DEF IInv, DataInv
<1> HIDE DEF stack
<1>4. run' = Begin("start", <<At("start", b, trunk)>> \o SaveStack(stack, id) \o <<On("push", b)>>)
  BY <1>1 DEF stack
<1>5. /\ ToSet(layers[id]) \subseteq ToSet(stack)
      /\ \A c \in Branch : key[c] = id => c \in ToSet(stack)
  BY <1>1, FreshIs
<1> QED BY <1>1, <1>2, <1>3, <1>4, <1>5, MakingStarts

LEMMA AppendLayerKeeps ==
    ASSUME IInv, NEW b \in Branch, AppendLayer(b), UNCHANGED bound PROVE IInv'
<1> DEFINE stack == StackOf(head)
           longer == Append(stack, b)
<1>1. /\ Planned /\ run = Idle /\ cut' = cut /\ head' = head /\ ~Exists(b) /\ head \in Branch /\ InStack(head)
      /\ b \notin ToSet(stack)
      /\ run' = Begin("append", <<At("start", b, tip[head])>> \o SaveStack(longer, key[head]) \o <<On("push", b)>>)
  BY DEF AppendLayer, Starts, Planned, refs, config
<1>2. DataInv
  BY DEF IInv
<1>3. key[head] \in Id /\ stack = layers[key[head]] /\ stack \in Seq(Branch) /\ IsInjective(stack) /\ stack # <<>>
  BY <1>1, <1>2, StackIs
<1>4. tip[head] \in Seq(Commit)
  BY <1>1, <1>2, BranchAssumption DEF DataInv, Exists
<1> HIDE DEF stack
<1>5. /\ longer \in Seq(Branch) /\ IsInjective(longer) /\ ToSet(stack) \subseteq ToSet(longer)
  <2>1. /\ longer \in Seq(Branch) /\ Len(longer) = Len(stack) + 1 /\ longer[Len(stack) + 1] = b
        /\ \A i \in 1..Len(stack) : longer[i] = stack[i]
    BY <1>3, AppendProperties
  <2>2. DOMAIN stack = 1..Len(stack) /\ DOMAIN longer = 1..(Len(stack) + 1) /\ Len(stack) \in Nat
    BY <1>3, <2>1, SeqIs
  <2>3. \A i \in DOMAIN stack : stack[i] # b
    BY <1>1, <1>3, SeqIs
  <2> HIDE DEF longer
  <2>4. ToSet(stack) \subseteq ToSet(longer)
    <3>1. ASSUME NEW c \in ToSet(stack) PROVE c \in ToSet(longer)
      <4>1. PICK i \in DOMAIN stack : stack[i] = c
        BY <1>3, <3>1, SeqIs
      <4>2. i \in DOMAIN longer /\ longer[i] = c
        BY <2>1, <2>2, <4>1
      <4> QED BY <2>1, <4>2, SeqIs
    <3> QED BY <3>1
  <2>5. ASSUME NEW i \in DOMAIN longer, NEW j \in DOMAIN longer, longer[i] = longer[j] PROVE i = j
    <3>1. i \in DOMAIN stack \/ i = Len(stack) + 1
      BY <2>2
    <3>2. j \in DOMAIN stack \/ j = Len(stack) + 1
      BY <2>2
    <3>3. CASE i \in DOMAIN stack /\ j \in DOMAIN stack
      BY <1>3, <2>1, <2>2, <2>5, <3>3, InjectiveMeans
    <3> QED BY <2>1, <2>2, <2>3, <2>5, <3>1, <3>2, <3>3
  <2>6. IsInjective(longer)
    BY <2>5 DEF IsInjective
  <2> QED BY <2>1, <2>4, <2>6
<1>6. ~cut => /\ ToSet(layers[key[head]]) \subseteq ToSet(longer)
              /\ \A c \in Branch : key[c] = key[head] => c \in ToSet(longer)
  BY <1>1, <1>3, <1>5, Found DEF Settled
<1> HIDE DEF longer
<1> QED BY <1>1, <1>3, <1>4, <1>5, <1>6, MakingStarts

LEMMA FoundStarts ==
    ASSUME IInv, run = Idle, Planned, cut' = cut, head' = head, NEW op \in {"discover", "adopt"},
           NEW stack \in Seq(Branch), IsInjective(stack), NEW id \in Id, FreshId(id),
           run' = Begin(op, SaveStack(stack, id)),
           op = "discover" => \A j \in 2..Len(stack) : IsStrictPrefix(tip[stack[j - 1]], tip[stack[j]])
    PROVE  IInv'
<1> DEFINE saves == SaveStack(stack, id)
<1>1. DataInv /\ WorkKept
  BY DEF IInv
<1>2. /\ saves \in Seq(Task) /\ InBlock(saves) /\ \A t \in ToSet(saves) : Formed(t) /\ t.do \in Saving
      /\ \A t \in ToSet(saves) : t.do = "set layers" => t.list = stack
  <2>1. Block(saves, id, stack, {}) /\ \A t \in ToSet(saves) : t.do \in Saving
    BY SaveStackIs
  <2> HIDE DEF saves
  <2> QED BY ONLY <2>1 DEF Block
<1>3. run' = Begin(op, saves) /\ op \in Op
  BY DEF Op
<1> HIDE DEF saves
<1>4. /\ run' \in Run /\ run'.op = op /\ run'.todo = saves /\ run'.left = {} /\ run'.cur = NoBranch
      /\ run'.made = {} /\ run'.was = Recorded
  <2>1. saves \in Seq(Task)
    BY <1>2
  <2> QED BY ONLY <1>3, <2>1, BeginIs
<1>5. Todo' = ToSet(saves) /\ \A i \in DOMAIN run'.todo : run'.todo[i] \in Todo'
  <2>1. saves \in Seq(Task)
    BY <1>2
  <2>2. \A i \in DOMAIN saves : saves[i] \in ToSet(saves)
    BY ONLY <2>1, SeqIs
  <2> QED BY <1>4, <2>2 DEF Todo
<1>6. DataInv' /\ WorkKept'
  BY <1>1, PlannedKeeps DEF DataInv
<1>7. RunInv'
  <2>1. Saving \subseteq KindsOf[op]
    BY DEF KindsOf, Op
  <2> QED BY <1>2, <1>4, <1>5, <2>1 DEF RunInv
<1>8. RefInv' /\ SpareInv' /\ ExpandInv'
  <2>1. \A t \in Todo' : t.do \notin Making \cup {"rebase", "checkout", "drop"}
    BY <1>2, <1>5 DEF Making, Saving
  <2> QED BY <1>4, <1>5, <2>1 DEF RefInv, SpareInv, ExpandInv
<1>9. ChainInv'
  <2>1. \A i \in DOMAIN run'.todo : run'.todo[i].do \in Saving
    BY <1>2, <1>5
  <2>2. SUFFICES ASSUME op = "discover", NEW t \in Todo', t.do = "set layers", NEW j \in 2..Len(t.list),
                        NEW lower, NEW upper, WillBe(t.list[j - 1], lower)', WillBe(t.list[j], upper)'
                 PROVE  IsStrictPrefix(lower, upper)
    BY <1>4, <2>1 DEF ChainInv
  <2>3. t.list = stack
    BY <1>2, <1>5, <2>2
  <2>4. \A b, hist : WillBe(b, hist)' => hist = tip[b]
    BY <1>2, <1>5 DEF WillBe, Planned, Saving
  <2>5. lower = tip[stack[j - 1]] /\ upper = tip[stack[j]]
    BY <2>2, <2>3, <2>4
  <2> QED BY <2>2, <2>3, <2>5
<1>10. InBlock(run.todo)'
  <2>1. InBlock(run'.todo)
    BY <1>2, <1>4
  <2> QED BY <2>1 DEF InBlock
<1>11. NowInv' /\ ThenInv'
  <2>1. \A t : t \in ToSet(SaveStack(stack, id)) <=> t \in Todo' /\ t.do \in Config
    BY <1>2, <1>5 DEF Config, saves
  <2> QED BY <1>4, <2>1, FreshIs, SavesStack
<1> QED BY <1>6, <1>7, <1>8, <1>9, <1>10, <1>11 DEF IInv

LEMMA AdoptBranchKeeps ==
    ASSUME IInv, NEW id \in Id, AdoptBranch(id), UNCHANGED bound PROVE IInv'
<1>1. /\ Planned /\ run = Idle /\ cut' = cut /\ head' = head /\ head \in Branch /\ FreshId(id)
      /\ run' = Begin("adopt", SaveStack(<<head>>, id))
  BY DEF AdoptBranch, Starts, Planned, refs, config
<1> DEFINE stack == <<head>>
<1>2. stack \in Seq(Branch) /\ IsInjective(stack)
  BY <1>1 DEF IsInjective
<1> HIDE DEF stack
<1>3. run' = Begin("adopt", SaveStack(stack, id))
  BY <1>1 DEF stack
<1> QED BY <1>1, <1>2, <1>3, FoundStarts

\* What grows from each index to the next grows throughout.
LEMMA Ascends ==
    ASSUME NEW n \in Nat, NEW f, \A j \in 1..n : f[j] \in Nat, \A j \in 2..n : f[j - 1] < f[j],
           NEW i \in 1..n, NEW k \in 1..n, i < k
    PROVE  f[i] < f[k]
<1> DEFINE T == {j \in 1..n : i < j /\ ~(f[i] < f[j])}
<1>1. SUFFICES ASSUME T # {} PROVE FALSE
  OBVIOUS
<1>2. PICK j \in T : \A l \in T : j <= l
  <2>1. T \subseteq Nat
    OBVIOUS
  <2> HIDE DEF T
  <2> QED BY <1>1, <2>1, LeastNat
<1>3. j \in 2..n /\ j - 1 \in 1..n /\ f[j - 1] < f[j] /\ f[j - 1] \in Nat /\ f[j] \in Nat /\ f[i] \in Nat
  BY <1>2
<1>4. CASE j - 1 = i
  BY <1>2, <1>3, <1>4
<1>5. CASE j - 1 # i
  <2>1. i < j - 1 /\ j - 1 \notin T
    BY <1>2, <1>3, <1>5
  <2> QED BY <1>2, <1>3, <2>1
<1> QED BY <1>4, <1>5

LEMMA DiscoverKeeps ==
    ASSUME IInv, NEW id \in Id, Discover(id), UNCHANGED bound PROVE IInv'
<1>1. /\ Planned /\ run = Idle /\ cut' = cut /\ head' = head /\ FreshId(id)
  BY DEF Discover, Starts, Planned, refs, config
<1>2. PICK stack \in Discovered : run' = Begin("discover", SaveStack(stack, id))
  BY DEF Discover, Starts
<1>3. DataInv
  BY DEF IInv
<1>4. PICK parent \in ClosestParents, n \in 2..Cardinality(Features) :
         stack \in [1..n -> Features] /\ LineagePath(parent, stack)
  BY <1>2 DEF Discovered
<1>5. n \in Nat
  BY <1>4
<1>6. stack \in Seq(Branch) /\ Len(stack) = n /\ DOMAIN stack = 1..n /\ \A j \in 1..n : stack[j] \in Features
  BY <1>4, <1>5 DEF Features
<1>7. \A j \in 2..n : IsStrictPrefix(tip[stack[j - 1]], tip[stack[j]])
  <2>1. SUFFICES ASSUME NEW j \in 2..n PROVE IsStrictPrefix(tip[stack[j - 1]], tip[stack[j]])
    OBVIOUS
  <2>2. j \in 1..n /\ j - 1 \in 1..n
    BY <1>5, <2>1
  <2>3. parent[stack[j]] = stack[j - 1] /\ stack[j] \in Features /\ stack[j - 1] \in Features
    BY <1>4, <1>6, <2>1, <2>2 DEF LineagePath
  <2>4. parent[stack[j]] \in Closest(stack[j])
    BY <1>4, <2>3 DEF ClosestParents
  <2>5. stack[j - 1] # NoBranch
    BY <2>3, BranchAssumption DEF Features
  <2> QED BY <2>3, <2>4, <2>5 DEF Closest
<1>8. IsInjective(stack)
  <2> DEFINE f == [j \in 1..n |-> Len(tip[stack[j]])]
  <2>1. \A j \in 1..n : f[j] \in Nat /\ tip[stack[j]] \in Seq(Commit)
    <3>1. SUFFICES ASSUME NEW j \in 1..n PROVE Len(tip[stack[j]]) \in Nat /\ tip[stack[j]] \in Seq(Commit)
      OBVIOUS
    <3>2. tip[stack[j]] \in Seq(Commit)
      BY <1>3, <1>6 DEF Features, DataInv, Exists
    <3> QED BY <3>2, SeqIs
  <2>2. \A j \in 2..n : f[j - 1] < f[j]
    <3>1. SUFFICES ASSUME NEW j \in 2..n PROVE f[j - 1] < f[j]
      OBVIOUS
    <3>2. j \in 1..n /\ j - 1 \in 1..n
      BY <1>5, <3>1
    <3>3. IsPrefix(tip[stack[j - 1]], tip[stack[j]]) /\ tip[stack[j - 1]] # tip[stack[j]]
      BY <1>7 DEF IsStrictPrefix
    <3>4. Len(tip[stack[j - 1]]) <= Len(tip[stack[j]]) /\ Len(tip[stack[j - 1]]) # Len(tip[stack[j]])
      BY <2>1, <3>2, <3>3, PrefixMeans, PrefixOrder
    <3>5. Len(tip[stack[j - 1]]) \in Nat /\ Len(tip[stack[j]]) \in Nat
      BY <2>1, <3>2
    <3> QED BY <3>2, <3>4, <3>5
  <2>3. \A i, k \in 1..n : i < k => f[i] < f[k]
    <3> HIDE DEF f
    <3> QED BY <1>5, <2>1, <2>2, Ascends
  <2>4. ASSUME NEW i \in 1..n, NEW k \in 1..n, stack[i] = stack[k] PROVE i = k
    <3>1. f[i] = f[k] /\ f[i] \in Nat
      BY <2>1, <2>4
    <3> HIDE DEF f
    <3>2. ~(i < k) /\ ~(k < i)
      BY <2>3, <3>1
    <3> QED BY <1>5, <3>2
  <2> QED BY <1>6, <2>4 DEF IsInjective
<1> QED BY <1>1, <1>2, <1>6, <1>7, <1>8, FoundStarts

-----------------------------------------------------------------------------
\* Expanding a branch into layers.

\* A history is its part below trunk's end and its own commits.
LEMMA SplitIs ==
    ASSUME NEW hist \in Seq(Commit), trunk \in Seq(Commit)
    PROVE  Base(hist) \in Seq(Commit) /\ Own(hist) \in Seq(Commit) /\ hist = Base(hist) \o Own(hist)
<1> DEFINE n == Len(hist)
           S == {k \in 1..Len(hist) : IsPrefix(SubSeq(hist, 1, k), trunk)}
           s == Shared(hist)
<1>1. n \in Nat /\ \A i \in 1..n : hist[i] \in Commit
  BY SeqIs
<1>2. s \in Nat /\ s <= n
  <2>1. \A p, q \in Int : IsFiniteSet(p..q) /\ Cardinality(p..q) = IF p > q THEN 0 ELSE q - p + 1
    BY FS_Interval
  <2> DEFINE T == 1..n
  <2>2. IsFiniteSet(T) /\ Cardinality(T) = n
    <3> HIDE DEF n
    <3> QED BY <1>1, <2>1
  <2>3. S \in SUBSET T /\ s = Cardinality(S)
    BY DEF Shared
  <2> HIDE DEF S, T, n, s
  <2>4. IsFiniteSet(S) /\ Cardinality(S) <= Cardinality(T)
    BY <2>2, <2>3, FS_Subset
  <2> QED BY <2>2, <2>3, <2>4, FS_CardinalityType
<1> DEFINE b == SubSeq(hist, 1, s)
           o == SubSeq(hist, s + 1, n)
<1> HIDE DEF s, n
<1>3. b \in Seq(Commit) /\ Len(b) = s /\ \A i \in 1..s : b[i] = hist[i]
  <2>1. \A i \in 1..s : hist[i] \in Commit
    BY <1>1, <1>2
  <2>2. /\ SubSeq(hist, 1, s) \in Seq(Commit) /\ Len(SubSeq(hist, 1, s)) = IF 1 <= s THEN s - 1 + 1 ELSE 0
        /\ \A i \in 1..(s - 1 + 1) : SubSeq(hist, 1, s)[i] = hist[1 + i - 1]
    BY <1>2, <2>1, SubSeqProperties
  <2> HIDE DEF b
  <2>3. \A i \in 1..s : i \in 1..(s - 1 + 1) /\ 1 + i - 1 = i
    BY <1>2
  <2> QED BY <1>2, <2>2, <2>3 DEF b
<1>4. o \in Seq(Commit) /\ Len(o) = n - s /\ \A i \in 1..(n - s) : o[i] = hist[s + i]
  <2>1. \A i \in (s + 1)..n : hist[i] \in Commit
    BY <1>1, <1>2
  <2>2. /\ SubSeq(hist, s + 1, n) \in Seq(Commit)
        /\ Len(SubSeq(hist, s + 1, n)) = IF s + 1 <= n THEN n - (s + 1) + 1 ELSE 0
        /\ \A i \in 1..(n - (s + 1) + 1) : SubSeq(hist, s + 1, n)[i] = hist[s + 1 + i - 1]
    BY <1>1, <1>2, <2>1, SubSeqProperties
  <2> HIDE DEF o
  <2>3. \A i \in 1..(n - s) : i \in 1..(n - (s + 1) + 1) /\ s + 1 + i - 1 = s + i
    BY <1>1, <1>2
  <2>4. (IF s + 1 <= n THEN n - (s + 1) + 1 ELSE 0) = n - s
    BY <1>1, <1>2
  <2> QED BY <1>2, <2>2, <2>3, <2>4 DEF o
<1> HIDE DEF b, o
<1>5. hist = b \o o
  <2> DEFINE u == b \o o
  <2>1. u \in Seq(Commit) /\ Len(u) = n /\ \A i \in 1..n : u[i] = IF i <= s THEN b[i] ELSE o[i - s]
    <3>1. /\ b \o o \in Seq(Commit) /\ Len(b \o o) = Len(b) + Len(o)
          /\ \A i \in 1..(Len(b) + Len(o)) : (b \o o)[i] = IF i <= Len(b) THEN b[i] ELSE o[i - Len(b)]
      BY <1>3, <1>4, ConcatProperties
    <3>2. s + (n - s) = n
      BY <1>1, <1>2
    <3> QED BY <1>3, <1>4, <3>1, <3>2
  <2> HIDE DEF u
  <2>2. \A i \in 1..n : u[i] = hist[i]
    <3>1. ASSUME NEW i \in 1..n PROVE u[i] = hist[i]
      <4>1. CASE i <= s
        <5>1. i \in 1..s
          BY <1>2, <4>1
        <5> QED BY <1>3, <2>1, <4>1, <5>1
      <4>2. CASE ~(i <= s)
        <5>1. i - s \in 1..(n - s) /\ s + (i - s) = i
          BY <1>1, <1>2, <4>2
        <5> QED BY <1>4, <2>1, <4>2, <5>1
      <4> QED BY <4>1, <4>2
    <3> QED BY <3>1
  <2>3. Len(hist) = n
    BY DEF n
  <2>4. u = hist
    BY <2>1, <2>2, <2>3, SeqEqual
  <2> QED BY <2>4 DEF u
<1>6. Base(hist) = b /\ Own(hist) = o
  BY DEF Base, Own, b, o, s, n
<1> QED BY <1>3, <1>4, <1>5, <1>6

\* Which layer each commit goes to.
LEMMA LayerIs ==
    ASSUME NEW n \in Nat, n # 0, NEW chores \in SUBSET (2..n)
    PROVE  LET K == (1..n) \ chores
               m == n - Cardinality(chores) IN
           /\ m \in Nat /\ m # 0 /\ Cardinality((1..n) \ chores) = m
           /\ \A i \in 1..n : Cardinality((1..i) \ chores) \in 1..m
           /\ \A j \in 1..m : \E i \in 1..n : Cardinality((1..i) \ chores) = j
           /\ \A i \in 1..n : (\A c \in chores : i < c) => Cardinality((1..i) \ chores) = i
<1> DEFINE K == (1..n) \ chores
           m == n - Cardinality(chores)
           Layer(i) == Cardinality((1..i) \ chores)
<1>1. \A p, q \in Int : IsFiniteSet(p..q) /\ Cardinality(p..q) = IF p > q THEN 0 ELSE q - p + 1
  BY FS_Interval
<1>2. IsFiniteSet(1..n) /\ Cardinality(1..n) = n
  BY <1>1
<1>3. IsFiniteSet(K) /\ Cardinality(K) = m /\ K \subseteq Nat /\ 1 \in K
  <2>1. \A c \in chores : c \in 2..n
    OBVIOUS
  <2>2. \A c \in 2..n : c \in 1..n /\ c # 1
    BY SMT
  <2> DEFINE D == 1..n
  <2>3. \A c \in chores : c \in D
    BY <2>1, <2>2
  <2>4. 1 \in D /\ 1 \notin chores /\ D \subseteq Nat
    BY <2>1, <2>2
  <2>5. K = D \ chores
    BY DEF K
  <2>6. IsFiniteSet(D) /\ Cardinality(D) = n
    BY <1>2
  <2> HIDE DEF D, K
  <2>7. D \cap chores = chores
    BY <2>3
  <2>8. IsFiniteSet(D \ chores) /\ Cardinality(D \ chores) = Cardinality(D) - Cardinality(D \cap chores)
    BY <2>6, FS_Difference
  <2>9. Cardinality(K) = m
    BY <2>5, <2>6, <2>7, <2>8
  <2> QED BY <2>4, <2>5, <2>8, <2>9
<1>4. \A i \in 1..n : (1..i) \ chores = Upto(K, i)
  BY DEF Upto
<1>5. \A i \in 1..n : Layer(i) = Rank(K, i)
  BY <1>4 DEF Rank
<1> HIDE DEF K, Layer, m
<1>6. m \in Nat /\ m # 0
  <2>1. Cardinality(K) \in Nat /\ Cardinality(K) # 0
    BY <1>3, FS_CardinalityType, FS_EmptySet
  <2> QED BY <1>3, <2>1
<1>7. ASSUME NEW i \in 1..n PROVE Rank(K, i) \in 1..m
  <2>1. Upto(K, i) \in SUBSET K /\ 1 \in Upto(K, i)
    BY <1>3 DEF Upto
  <2>2. IsFiniteSet(Upto(K, i)) /\ Rank(K, i) <= m
    BY <1>3, <2>1, FS_Subset DEF Rank
  <2>3. Rank(K, i) \in Nat /\ Rank(K, i) # 0
    BY <2>1, <2>2, FS_CardinalityType, FS_EmptySet DEF Rank
  <2> QED BY <1>6, <2>2, <2>3
<1>8. \A j \in 1..m : \E i \in 1..n : Rank(K, i) = j
  <2>1. \A j \in 1..Cardinality(K) : \E i \in K : Rank(K, i) = j
    BY <1>3, RankIs
  <2>2. K \subseteq 1..n
    BY DEF K
  <2> QED BY <1>3, <2>1, <2>2
<1>9. ASSUME NEW i \in 1..n, \A c \in chores : i < c PROVE Layer(i) = i
  <2>1. (1..i) \ chores = 1..i
    <3>1. \A k \in 1..i : k \notin chores
      BY <1>9
    <3> QED BY <3>1
  <2>2. Cardinality(1..i) = i
    BY <1>1
  <2> QED BY <2>1, <2>2 DEF Layer
<1> QED BY <1>3, <1>5, <1>6, <1>7, <1>8, <1>9 DEF K, m, Layer

\* The squashed commits keep the patches, and are the commits themselves when there
\* are no chores.
LEMMA GroupedIs ==
    ASSUME NEW own \in Seq(Commit), own # <<>>, NEW chores \in SUBSET (2..Len(own))
    PROVE  LET g == Grouped(own, chores) IN
           /\ g \in Seq(Commit) /\ Len(g) = Len(own) - Cardinality(chores) /\ Len(g) \in Nat /\ Len(g) # 0
           /\ Patches(g) = Patches(own)
           /\ chores = {} => g = own
<1> DEFINE n == Len(own)
           m == n - Cardinality(chores)
           Layer(i) == Cardinality((1..i) \ chores)
           g == Grouped(own, chores)
<1>1. n \in Nat /\ n # 0 /\ DOMAIN own = 1..n /\ \A i \in 1..n : own[i] \in Commit
  BY SeqIs
<1>2. /\ m \in Nat /\ m # 0 /\ Layer(n) = m
      /\ \A i \in 1..n : Layer(i) \in 1..m
      /\ \A j \in 1..m : \E i \in 1..n : Layer(i) = j
      /\ chores = {} => \A i \in 1..n : Layer(i) = i
  <2> HIDE DEF n
  <2>1. chores \in SUBSET (2..n)
    BY DEF n
  <2> QED BY <1>1, <2>1, LayerIs
<1>3. g = [j \in 1..Layer(n) |-> UNION {own[i] : i \in {k \in DOMAIN own : Layer(k) = j}}]
  BY DEF Grouped
<1> HIDE DEF n, m, Layer, g
<1>4. g = [j \in 1..m |-> UNION {own[i] : i \in {k \in 1..n : Layer(k) = j}}]
  BY <1>1, <1>2, <1>3
<1>5. ASSUME NEW j \in 1..m PROVE g[j] \in Commit
  <2>1. g[j] = UNION {own[i] : i \in {k \in 1..n : Layer(k) = j}}
    BY <1>4, <1>5
  <2>2. PICK i \in 1..n : Layer(i) = j
    BY <1>2, <1>5
  <2>3. own[i] \subseteq g[j]
    BY <2>1, <2>2
  <2>4. g[j] \subseteq Nat
    BY <1>1, <2>1 DEF Commit
  <2> QED BY <1>1, <2>2, <2>3, <2>4 DEF Commit
<1>6. g \in Seq(Commit) /\ Len(g) = m /\ DOMAIN g = 1..m
  <2>1. g \in [1..m -> Commit]
    BY <1>4, <1>5
  <2> QED BY <1>2, <2>1
<1>7. Patches(g) = Patches(own)
  <2>1. ASSUME NEW p PROVE p \in Patches(g) <=> p \in Patches(own)
    <3>1. p \in Patches(g) <=> \E j \in 1..m : p \in g[j]
      BY <1>6, HistIs
    <3>2. p \in Patches(own) <=> \E i \in 1..n : p \in own[i]
      BY <1>1, HistIs
    <3>3. \A j \in 1..m : p \in g[j] <=> \E i \in 1..n : Layer(i) = j /\ p \in own[i]
      BY <1>4
    <3> QED BY <1>2, <3>1, <3>2, <3>3
  <2> QED BY <2>1
<1>8. chores = {} => g = own
  <2>1. SUFFICES ASSUME chores = {} PROVE g = own
    OBVIOUS
  <2>2. m = n
    BY <1>1, <2>1, FS_EmptySet DEF m
  <2>3. \A j \in 1..n : g[j] = own[j]
    <3>1. SUFFICES ASSUME NEW j \in 1..n PROVE g[j] = own[j]
      OBVIOUS
    <3>2. {k \in 1..n : Layer(k) = j} = {j}
      BY <1>2, <2>1, <3>1
    <3>3. g[j] = UNION {own[i] : i \in {j}}
      BY <1>4, <2>2, <3>1, <3>2
    <3> QED BY <3>3
  <2>4. Len(own) = n
    BY DEF n
  <2> QED BY <1>6, <2>2, <2>3, <2>4, SeqEqual
<1> QED BY <1>2, <1>6, <1>7, <1>8 DEF n, m, g

\* The histories an expand gives its layers, each a commit longer than the one below; the
\* last has all the patches.
Rung(hist, chores, j) == Base(hist) \o SubSeq(Grouped(Own(hist), chores), 1, j)

LEMMA RungIs ==
    ASSUME NEW hist \in Seq(Commit), trunk \in Seq(Commit), Own(hist) # <<>>,
           NEW chores \in SUBSET (2..Len(Own(hist))), NEW m, m = Len(Own(hist)) - Cardinality(chores)
    PROVE  /\ m \in Nat /\ m # 0
           /\ \A j \in 1..m : Rung(hist, chores, j) \in Seq(Commit) /\ Patches(Rung(hist, chores, j)) \subseteq Patches(hist)
           /\ \A j \in 2..m : IsStrictPrefix(Rung(hist, chores, j - 1), Rung(hist, chores, j))
           /\ Patches(Rung(hist, chores, m)) = Patches(hist)
           /\ chores = {} => Rung(hist, chores, m) = hist
<1> DEFINE base == Base(hist)
           own == Own(hist)
           g == Grouped(own, chores)
           G(j) == SubSeq(g, 1, j)
           H(j) == base \o G(j)
<1>1. base \in Seq(Commit) /\ own \in Seq(Commit) /\ hist = base \o own
  BY SplitIs
<1>2. g \in Seq(Commit) /\ Len(g) = m /\ m \in Nat /\ m # 0 /\ Patches(g) = Patches(own) /\ (chores = {} => g = own)
  <2> HIDE DEF own, g
  <2>1. own \in Seq(Commit) /\ own # <<>> /\ chores \in SUBSET (2..Len(own)) /\ m = Len(own) - Cardinality(chores)
    BY <1>1 DEF own
  <2> QED BY ONLY <2>1, GroupedIs DEF g
<1>3. \A j : Rung(hist, chores, j) = H(j)
  BY DEF Rung
<1> HIDE DEF base, own, g
<1>4. \A i \in 1..m : g[i] \in Commit
  BY <1>2, SeqIs
<1>5. ASSUME NEW j \in 1..m
      PROVE  G(j) \in Seq(Commit) /\ Len(G(j)) = j /\ \A i \in 1..j : G(j)[i] = g[i]
  <2>1. j \in Nat /\ \A i \in 1..j : g[i] \in Commit
    BY <1>2, <1>4
  <2>2. /\ SubSeq(g, 1, j) \in Seq(Commit) /\ Len(SubSeq(g, 1, j)) = IF 1 <= j THEN j - 1 + 1 ELSE 0
        /\ \A i \in 1..(j - 1 + 1) : SubSeq(g, 1, j)[i] = g[1 + i - 1]
    BY <2>1, SubSeqProperties
  <2>3. \A i \in 1..j : i \in 1..(j - 1 + 1) /\ 1 + i - 1 = i
    BY <2>1
  <2> QED BY <2>1, <2>2, <2>3
<1>6. G(m) = g
  <2>1. m \in 1..m
    BY <1>2
  <2>2. G(m) \in Seq(Commit) /\ Len(G(m)) = m /\ \A i \in 1..m : G(m)[i] = g[i]
    BY <1>5, <2>1
  <2> HIDE DEF G
  <2> QED BY <1>2, <2>2, SeqEqual
<1> HIDE DEF G
<1>7. ASSUME NEW j \in 1..m
      PROVE  /\ H(j) \in Seq(Commit) /\ Len(H(j)) = Len(base) + j
             /\ \A i \in 1..(Len(base) + j) : H(j)[i] = IF i <= Len(base) THEN base[i] ELSE g[i - Len(base)]
             /\ Patches(H(j)) = Patches(base) \cup Patches(G(j))
  <2>1. G(j) \in Seq(Commit) /\ Len(G(j)) = j /\ \A i \in 1..j : G(j)[i] = g[i]
    BY <1>5
  <2>2. Len(base) \in Nat
    BY <1>1, SeqIs
  <2>3. /\ base \o G(j) \in Seq(Commit) /\ Len(base \o G(j)) = Len(base) + Len(G(j))
        /\ \A i \in 1..(Len(base) + Len(G(j))) : (base \o G(j))[i] = IF i <= Len(base) THEN base[i] ELSE G(j)[i - Len(base)]
    BY <1>1, <2>1, ConcatProperties
  <2>4. \A i \in 1..(Len(base) + j) : ~(i <= Len(base)) => i - Len(base) \in 1..j
    BY <2>2
  <2>5. Patches(H(j)) = Patches(base) \cup Patches(G(j))
    BY <1>1, <2>1, ConcatPatches
  <2> QED BY <2>1, <2>3, <2>4, <2>5
<1>8. Patches(hist) = Patches(base) \cup Patches(g)
  BY <1>1, <1>2, ConcatPatches
<1>9. ASSUME NEW j \in 1..m PROVE Patches(G(j)) \subseteq Patches(g)
  <2>1. IsPrefix(G(j), g)
    BY <1>2, <1>5, PrefixMeans
  <2> QED BY <1>2, <1>5, <2>1, AncestorPatches, HistIs
<1>10. ASSUME NEW j \in 2..m PROVE IsStrictPrefix(H(j - 1), H(j))
  <2>1. j \in 1..m /\ j - 1 \in 1..m /\ Len(base) \in Nat
    BY <1>1, <1>2, SeqIs
  <2>2. PICK s : s = H(j - 1)
    OBVIOUS
  <2>3. PICK u : u = H(j)
    OBVIOUS
  <2>4. /\ s \in Seq(Commit) /\ Len(s) = Len(base) + (j - 1)
        /\ \A i \in 1..(Len(base) + (j - 1)) : s[i] = IF i <= Len(base) THEN base[i] ELSE g[i - Len(base)]
    BY <1>7, <2>1, <2>2
  <2>5. /\ u \in Seq(Commit) /\ Len(u) = Len(base) + j
        /\ \A i \in 1..(Len(base) + j) : u[i] = IF i <= Len(base) THEN base[i] ELSE g[i - Len(base)]
    BY <1>7, <2>1, <2>3
  <2>6. Len(s) <= Len(u) /\ Len(s) # Len(u) /\ \A i \in 1..Len(s) : i \in 1..(Len(base) + j)
    BY <2>1, <2>4, <2>5
  <2>7. \A i \in 1..Len(s) : s[i] = u[i]
    BY <2>4, <2>5, <2>6
  <2>8. IsPrefix(s, u)
    BY <2>4, <2>5, <2>6, <2>7, PrefixMeans
  <2> QED BY <2>2, <2>3, <2>6, <2>8 DEF IsStrictPrefix
<1>11. Patches(H(m)) = Patches(hist) /\ (chores = {} => H(m) = hist)
  BY <1>1, <1>2, <1>6, <1>7, <1>8
<1> QED BY <1>2, <1>3, <1>7, <1>8, <1>9, <1>10, <1>11

\* u is s with d put in before its f-th entry.
Spliced(S, u, s, d, f) ==
    /\ u \in Seq(S) /\ Len(u) = Len(s) + 1
    /\ \A i \in 1..(Len(s) + 1) : u[i] = IF i < f THEN s[i] ELSE IF i = f THEN d ELSE s[i - 1]

LEMMA SplicedIs ==
    ASSUME NEW S, NEW s \in Seq(S), NEW d \in S, NEW f \in 1..Len(s), NEW one, one = <<d>>,
           NEW lower, lower = SubSeq(s, 1, f - 1), NEW upper, upper = SubSeq(s, f, Len(s)), NEW u, u = lower \o (one \o upper)
    PROVE  Spliced(S, u, s, d, f)
<1> DEFINE n == Len(s)
<1>1. n \in Nat /\ f \in Nat /\ f - 1 \in Nat /\ 1 <= f /\ f <= n /\ \A i \in 1..n : s[i] \in S
  BY SeqIs
<1> HIDE DEF n
<1>2. lower \in Seq(S) /\ Len(lower) = f - 1 /\ \A i \in 1..(f - 1) : lower[i] = s[i]
  <2>1. \A i \in 1..(f - 1) : s[i] \in S
    BY <1>1
  <2>2. /\ SubSeq(s, 1, f - 1) \in Seq(S) /\ Len(SubSeq(s, 1, f - 1)) = IF 1 <= f - 1 THEN (f - 1) - 1 + 1 ELSE 0
        /\ \A i \in 1..((f - 1) - 1 + 1) : SubSeq(s, 1, f - 1)[i] = s[1 + i - 1]
    BY <1>1, <2>1, SubSeqProperties
  <2>3. \A i \in 1..(f - 1) : i \in 1..((f - 1) - 1 + 1) /\ 1 + i - 1 = i
    BY <1>1
  <2>4. (IF 1 <= f - 1 THEN (f - 1) - 1 + 1 ELSE 0) = f - 1
    BY <1>1
  <2> QED BY <2>2, <2>3, <2>4
<1>3. upper \in Seq(S) /\ Len(upper) = n - f + 1 /\ \A i \in 1..(n - f + 1) : upper[i] = s[f + i - 1]
  <2>1. \A i \in f..n : s[i] \in S
    BY <1>1
  <2>2. /\ SubSeq(s, f, n) \in Seq(S) /\ Len(SubSeq(s, f, n)) = IF f <= n THEN n - f + 1 ELSE 0
        /\ \A i \in 1..(n - f + 1) : SubSeq(s, f, n)[i] = s[f + i - 1]
    BY <1>1, <2>1, SubSeqProperties
  <2>3. upper = SubSeq(s, f, n)
    BY DEF n
  <2> QED BY <1>1, <2>2, <2>3
<1>4. one \in Seq(S) /\ Len(one) = 1 /\ one[1] = d
  BY OneIs
<1>5. u = lower \o (one \o upper)
  OBVIOUS
<1> DEFINE v == one \o upper
<1>6. v \in Seq(S) /\ Len(v) = n - f + 2 /\ \A i \in 1..(n - f + 2) : v[i] = IF i = 1 THEN d ELSE s[f + (i - 1) - 1]
  <2>1. /\ v \in Seq(S) /\ Len(v) = Len(one) + Len(upper)
        /\ \A i \in 1..(Len(one) + Len(upper)) : v[i] = IF i <= Len(one) THEN one[i] ELSE upper[i - Len(one)]
    BY <1>3, <1>4, ConcatProperties
  <2>2. 1 + (n - f + 1) = n - f + 2
    BY <1>1
  <2> HIDE DEF v
  <2>3. ASSUME NEW i \in 1..(n - f + 2) PROVE v[i] = IF i = 1 THEN d ELSE s[f + (i - 1) - 1]
    <3>1. v[i] = IF i <= 1 THEN one[i] ELSE upper[i - 1]
      BY <1>3, <1>4, <2>1, <2>2, <2>3
    <3>2. CASE i = 1
      BY <1>4, <3>1, <3>2
    <3>3. CASE i # 1
      <4>1. ~(i <= 1) /\ i - 1 \in 1..(n - f + 1)
        BY <1>1, <3>3
      <4> QED BY <1>3, <3>1, <3>3, <4>1
    <3> QED BY <3>2, <3>3
  <2> QED BY <1>3, <1>4, <2>1, <2>2, <2>3
<1> HIDE DEF v
<1>7. /\ u \in Seq(S) /\ Len(u) = Len(lower) + Len(v)
      /\ \A i \in 1..(Len(lower) + Len(v)) : u[i] = IF i <= Len(lower) THEN lower[i] ELSE v[i - Len(lower)]
  <2>1. u = lower \o v
    BY <1>5 DEF v
  <2>2. lower \in Seq(S) /\ v \in Seq(S)
    BY <1>2, <1>6
  <2>3. /\ lower \o v \in Seq(S) /\ Len(lower \o v) = Len(lower) + Len(v)
        /\ \A i \in 1..(Len(lower) + Len(v)) : (lower \o v)[i] = IF i <= Len(lower) THEN lower[i] ELSE v[i - Len(lower)]
    BY ONLY <2>2, ConcatProperties
  <2> QED BY ONLY <2>1, <2>3
<1>8. (f - 1) + (n - f + 2) = n + 1
  BY <1>1
<1>9. ASSUME NEW i \in 1..(n + 1) PROVE u[i] = IF i < f THEN s[i] ELSE IF i = f THEN d ELSE s[i - 1]
  <2>1. u[i] = IF i <= f - 1 THEN lower[i] ELSE v[i - (f - 1)]
    BY <1>2, <1>6, <1>7, <1>8, <1>9
  <2>2. CASE i < f
    <3>1. i <= f - 1 /\ i \in 1..(f - 1)
      BY <1>1, <2>2
    <3> QED BY <1>2, <2>1, <2>2, <3>1
  <2>3. CASE i = f
    <3>1. ~(i <= f - 1) /\ i - (f - 1) = 1 /\ 1 \in 1..(n - f + 2) /\ ~(i < f)
      BY <1>1, <2>3
    <3> QED BY <1>6, <2>1, <2>3, <3>1
  <2>4. CASE i > f
    <3>1. /\ ~(i <= f - 1) /\ i - (f - 1) \in 1..(n - f + 2) /\ i - (f - 1) # 1 /\ ~(i < f) /\ i # f
          /\ f + ((i - (f - 1)) - 1) - 1 = i - 1
      BY <1>1, <2>4
    <3> QED BY <1>6, <2>1, <3>1
  <2>5. i < f \/ i = f \/ i > f
    BY <1>1
  <2> QED BY <2>2, <2>3, <2>4, <2>5
<1>10. Len(u) = n + 1
  BY <1>2, <1>6, <1>7, <1>8
<1> QED BY <1>7, <1>9, <1>10 DEF n, Spliced

\* What brings a layer to its history: the last layer is the branch that is expanded.
Layered(hist, stack, chores, j) ==
    At(IF j < Len(stack) THEN "create" ELSE "reset", stack[j], Rung(hist, chores, j))

\* Before the f-th task the layers are made below it, then HEAD is detached, and the rest follow.
ReplayedAt(ts, hist, stack, chores, f) ==
    \A i \in DOMAIN ts :
        /\ ts[i] = IF i < f THEN Layered(hist, stack, chores, i)
                   ELSE IF i = f THEN Do("detach") ELSE Layered(hist, stack, chores, i - 1)
        /\ i < f => i \in 1..Len(stack)
        /\ i > f => i - 1 \in 1..Len(stack)

LEMMA ReplayIs ==
    ASSUME NEW hist \in Seq(Commit), trunk \in Seq(Commit), Own(hist) # <<>>,
           NEW chores \in SUBSET (2..Len(Own(hist))), NEW stack \in Seq(Branch),
           Len(stack) = Len(Own(hist)) - Cardinality(chores), NEW ts, ts = Replay(hist, stack, chores)
    PROVE  /\ ts \in Seq(Task)
           /\ \E f \in 1..Len(stack) : ReplayedAt(ts, hist, stack, chores, f)
           /\ \A j \in 1..Len(stack) : j < Len(stack) \/ chores # {} => Layered(hist, stack, chores, j) \in ToSet(ts)
<1> DEFINE m == Len(stack)
           own == Own(hist)
           n == Len(own)
           f == FirstSquash(stack, chores)
           ls == Rewritten(hist, stack, chores)
           L(j) == Layered(hist, stack, chores, j)
           detach == Do("detach")
<1>1. own \in Seq(Commit) /\ n \in Nat /\ n # 0 /\ m \in Nat /\ m = n - Cardinality(chores) /\ m # 0 /\ DOMAIN stack = 1..m
      /\ \A j \in 1..m : stack[j] \in Branch
  <2>1. own \in Seq(Commit)
    BY SplitIs
  <2>2. n \in Nat /\ n # 0
    <3>1. own # <<>>
      OBVIOUS
    <3> HIDE DEF own
    <3> QED BY <2>1, <3>1, SeqIs
  <2>3. m \in Nat /\ DOMAIN stack = 1..m /\ \A j \in 1..m : stack[j] \in Branch
    BY SeqIs
  <2>4. Len(stack) # 0
    BY RungIs
  <2> QED BY <2>1, <2>2, <2>3, <2>4
<1>2. chores \in SUBSET (2..n) /\ \A c \in chores : c \in Nat /\ 2 <= c /\ c <= n
  OBVIOUS
<1>3. \A j \in 1..m : L(j) \in Task
  <2>1. \A j \in 1..m : Rung(hist, chores, j) \in Seq(Commit)
    BY RungIs
  <2>2. "create" \in Kind /\ "reset" \in Kind
    BY DEF Kind
  <2>3. \A j \in 1..m : (IF j < m THEN "create" ELSE "reset") \in Kind
    BY <2>2
  <2> QED BY <1>1, <2>1, <2>3, AtIs DEF Layered
<1>4. ls = [j \in 1..m |-> L(j)]
  BY <1>1 DEF Rewritten, Layered, Rung
<1>5. detach \in Task
  BY DoIs DEF Kind
<1>6. ts = SubSeq(ls, 1, f - 1) \o IF chores = {} THEN <<>> ELSE <<detach>> \o SubSeq(ls, f, m)
  BY DEF Replay
<1>7. (chores = {} => f = m) /\ (chores # {} => f = Min(chores) - 1)
  BY DEF FirstSquash
<1> HIDE DEF n, own
<1>8. f \in 1..m
  <2>1. CASE chores = {}
    <3>1. m \in 1..m
      BY <1>1
    <3> QED BY <1>7, <2>1, <3>1
  <2>2. CASE chores # {}
    <3>1. PICK a : a = Min(chores)
      OBVIOUS
    <3>2. a \in chores /\ \A c \in chores : a <= c
      BY <1>2, <2>2, <3>1, MinIs
    <3>3. a - 1 \in 1..n /\ \A c \in chores : a - 1 < c
      BY <1>1, <1>2, <3>2
    <3>4. PICK i \in 1..n : i = a - 1
      BY <3>3
    <3>5. Cardinality((1..i) \ chores) \in 1..m /\ Cardinality((1..i) \ chores) = i
      BY <1>1, <1>2, <3>3, <3>4, LayerIs
    <3> QED BY <1>7, <2>2, <3>1, <3>4, <3>5
  <2> QED BY <2>1, <2>2
<1> HIDE DEF m, f, L, ls, detach
<1>9. ls \in Seq(Task) /\ Len(ls) = m /\ \A j \in 1..m : ls[j] = L(j)
  <2>1. ls \in [1..m -> Task]
    BY <1>3, <1>4
  <2> QED BY <1>1, <1>4, <2>1
<1>10. CASE chores = {}
  <2>1. f = m
    BY <1>7, <1>10
  <2>2. PICK k : k = m - 1
    OBVIOUS
  <2>3. k \in Nat /\ \A i \in 1..k : i \in 1..m /\ i < m
    BY <1>1, <2>2
  <2>4. /\ SubSeq(ls, 1, k) \in Seq(Task) /\ Len(SubSeq(ls, 1, k)) = IF 1 <= k THEN k - 1 + 1 ELSE 0
        /\ \A i \in 1..(k - 1 + 1) : SubSeq(ls, 1, k)[i] = ls[1 + i - 1]
    <3>1. \A i \in 1..k : ls[i] \in Task
      BY <1>3, <1>9, <2>3
    <3> QED BY <2>3, <3>1, SubSeqProperties
  <2>5. ts = SubSeq(ls, 1, k)
    <3>1. ts = SubSeq(ls, 1, k) \o <<>>
      BY <1>6, <1>10, <2>1, <2>2
    <3> QED BY <2>4, <3>1, ConcatEmptySeq
  <2>6. ts \in Seq(Task) /\ Len(ts) = k /\ DOMAIN ts = 1..k /\ \A i \in 1..k : ts[i] = L(i)
    <3>1. Len(ts) = k
      BY <2>3, <2>4, <2>5
    <3>2. \A i \in 1..k : i \in 1..(k - 1 + 1) /\ 1 + i - 1 = i
      BY <2>3
    <3> QED BY <1>9, <2>3, <2>4, <2>5, <3>1, <3>2, SeqIs
  <2>7. ReplayedAt(ts, hist, stack, chores, f)
    <3>1. \A i \in DOMAIN ts : i < f /\ i \in 1..m /\ ~(i > f)
      BY <1>1, <2>1, <2>3, <2>6
    <3> QED BY <2>6, <3>1 DEF ReplayedAt, L, m
  <2>8. \A j \in 1..m : j < m \/ chores # {} => L(j) \in ToSet(ts)
    <3>1. SUFFICES ASSUME NEW j \in 1..m, j < m PROVE L(j) \in ToSet(ts)
      BY <1>10
    <3>2. j \in 1..k
      BY <1>1, <2>2, <3>1
    <3> QED BY <2>6, <3>2, SeqIs
  <2> QED BY <1>8, <2>6, <2>7, <2>8 DEF L, m
<1>11. CASE chores # {}
  <2> DEFINE one == <<detach>>
  <2>1. ts = SubSeq(ls, 1, f - 1) \o (one \o SubSeq(ls, f, Len(ls)))
    BY <1>6, <1>9, <1>11
  <2>2. /\ ts \in Seq(Task) /\ Len(ts) = Len(ls) + 1
        /\ \A i \in 1..(Len(ls) + 1) : ts[i] = IF i < f THEN ls[i] ELSE IF i = f THEN detach ELSE ls[i - 1]
    <3>1. f \in 1..Len(ls) /\ ls \in Seq(Task)
      BY <1>8, <1>9
    <3>2. PICK d : d = detach
      OBVIOUS
    <3>3. PICK p : p = one
      OBVIOUS
    <3>4. PICK lower : lower = SubSeq(ls, 1, f - 1)
      OBVIOUS
    <3>5. PICK upper : upper = SubSeq(ls, f, Len(ls))
      OBVIOUS
    <3>6. d \in Task /\ p = <<d>> /\ ts = lower \o (p \o upper)
      BY <1>5, <2>1, <3>2, <3>3, <3>4, <3>5
    <3>7. Spliced(Task, ts, ls, d, f)
      BY ONLY <3>1, <3>4, <3>5, <3>6, SplicedIs
    <3> QED BY <3>2, <3>7 DEF Spliced
  <2>3. DOMAIN ts = 1..(m + 1)
    BY <1>9, <2>2, SeqIs
  <2>4. ReplayedAt(ts, hist, stack, chores, f)
    <3>1. \A i \in 1..(m + 1) : (i < f => i \in 1..m) /\ (i > f => i - 1 \in 1..m) /\ (i < f \/ i = f \/ i > f)
      BY <1>1, <1>8
    <3>2. ASSUME NEW i \in 1..(m + 1) PROVE ts[i] = IF i < f THEN L(i) ELSE IF i = f THEN detach ELSE L(i - 1)
      <4>1. ts[i] = IF i < f THEN ls[i] ELSE IF i = f THEN detach ELSE ls[i - 1]
        BY <1>9, <2>2, <3>2
      <4>2. CASE i < f
        BY <1>9, <3>1, <4>1, <4>2
      <4>3. CASE i = f
        <5>1. ~(i < f)
          BY <1>8, <4>3
        <5> QED BY <4>1, <4>3, <5>1
      <4>4. CASE i > f
        <5>1. ~(i < f) /\ i # f
          BY <1>8, <4>4
        <5> QED BY <1>9, <3>1, <4>1, <4>4, <5>1
      <4> QED BY <3>1, <4>2, <4>3, <4>4
    <3> QED BY <2>3, <3>1, <3>2 DEF ReplayedAt, L, m, detach
  <2>5. \A j \in 1..m : L(j) \in ToSet(ts)
    <3>1. SUFFICES ASSUME NEW j \in 1..m PROVE L(j) \in ToSet(ts)
      OBVIOUS
    <3>2. CASE j < f
      <4>1. j \in 1..(m + 1)
        BY <1>1
      <4>2. ts[j] = L(j)
        BY <1>9, <2>2, <3>2, <4>1
      <4> QED BY <2>2, <2>3, <4>1, <4>2, SeqIs
    <3>3. CASE ~(j < f)
      <4>1. j + 1 \in 1..(m + 1) /\ ~(j + 1 < f) /\ j + 1 # f /\ (j + 1) - 1 = j
        BY <1>1, <1>8, <3>3
      <4>2. ts[j + 1] = L(j)
        BY <1>9, <2>2, <4>1
      <4> QED BY <2>2, <2>3, <4>1, <4>2, SeqIs
    <3> QED BY <3>2, <3>3
  <2> QED BY <1>8, <2>2, <2>4, <2>5 DEF L, m
<1> QED BY <1>10, <1>11

LEMMA ExpandKeeps ==
    ASSUME IInv, NEW id \in Id, NEW chores, Expand(id, chores), UNCHANGED bound PROVE IInv'
<1> DEFINE hist == tip[head]
           own == Own(hist)
           m == Len(own) - Cardinality(chores)
<1>1. /\ Planned /\ run = Idle /\ cut' = cut /\ head' = head /\ head \in Branch
      /\ Len(own) >= 2 /\ chores \in SUBSET (2..Len(own))
      /\ IF InStack(head) THEN Len(StackOf(head)) = 1 /\ id = key[head] ELSE FreshId(id)
  BY DEF Expand, Starts, Planned, refs, config
<1>2. DataInv /\ WorkKept
  BY DEF IInv
<1>3. PICK stack \in LayerNames(m) :
        run' = [Begin("expand", Replay(hist, stack, chores) \o SaveStack(stack, id))
                    EXCEPT !.stack = stack, !.cur = head, !.orig = hist]
  BY DEF Expand, Starts
<1>4. hist \in Seq(Commit) /\ trunk \in Seq(Commit) /\ own # <<>> /\ hist # None
  <2>1. hist \in Seq(Commit) /\ trunk \in Seq(Commit) /\ hist # None
    BY <1>1, <1>2, BranchAssumption DEF DataInv, Exists
  <2>2. own \in Seq(Commit)
    BY <2>1, SplitIs
  <2>3. own # <<>>
    BY <1>1, <2>2, SeqIs
  <2> QED BY <2>1, <2>3
<1>5. /\ m \in Nat /\ m # 0
      /\ \A j \in 1..m : Rung(hist, chores, j) \in Seq(Commit) /\ Patches(Rung(hist, chores, j)) \subseteq Patches(hist)
      /\ \A j \in 2..m : IsStrictPrefix(Rung(hist, chores, j - 1), Rung(hist, chores, j))
      /\ Patches(Rung(hist, chores, m)) = Patches(hist)
      /\ chores = {} => Rung(hist, chores, m) = hist
  BY <1>1, <1>4, RungIs
<1> DEFINE H(j) == Rung(hist, chores, j)
           L(j) == Layered(hist, stack, chores, j)
           ts == Replay(hist, stack, chores)
           saves == SaveStack(stack, id)
           todo == ts \o saves
<1>6. run' = [Begin("expand", todo) EXCEPT !.stack = stack, !.cur = head, !.orig = hist]
  BY <1>3
<1>7. /\ stack \in Seq(Branch) /\ IsInjective(stack) /\ Len(stack) = m /\ DOMAIN stack = 1..m /\ stack[m] = head
      /\ \A j \in 1..m : stack[j] \in Branch /\ (~Exists(stack[j]) \/ stack[j] = head)
  <2>1. /\ stack \in [1..m -> {b \in Branch : ~Exists(b)} \cup {head}] /\ IsInjective(stack) /\ stack[m] = head
    BY <1>3 DEF LayerNames
  <2> HIDE DEF m
  <2>2. stack \in [1..m -> Branch] /\ m \in Nat
    BY <1>1, <1>5, <2>1
  <2>3. stack \in Seq(Branch) /\ Len(stack) = m /\ DOMAIN stack = 1..m
    BY <2>2
  <2> QED BY <1>1, <2>1, <2>3
<1>8. /\ ts \in Seq(Task)
      /\ \E f \in 1..Len(stack) : ReplayedAt(ts, hist, stack, chores, f)
      /\ \A j \in 1..Len(stack) : j < Len(stack) \/ chores # {} => L(j) \in ToSet(ts)
  <2>1. PICK s : s = ts
    OBVIOUS
  <2>2. Len(stack) = Len(own) - Cardinality(chores) /\ s = Replay(hist, stack, chores)
    BY <1>7, <2>1
  <2>3. /\ hist \in Seq(Commit) /\ trunk \in Seq(Commit) /\ own # <<>>
        /\ chores \in SUBSET (2..Len(own)) /\ stack \in Seq(Branch)
    BY <1>1, <1>4, <1>7
  <2> QED BY <2>1, <2>2, <2>3, ReplayIs
<1>9. PICK f \in 1..Len(stack) : ReplayedAt(ts, hist, stack, chores, f)
  BY <1>8
<1> DEFINE detach == Do("detach")
<1>10. /\ \A j \in 1..m : /\ L(j).do = (IF j < m THEN "create" ELSE "reset") /\ L(j).branch = stack[j]
                          /\ L(j).hist = H(j) /\ L(j).list = <<>>
       /\ detach.do = "detach" /\ detach.list = <<>>
  <2>1. "create" \in Kind /\ "reset" \in Kind /\ "detach" \in Kind
    BY DEF Kind
  <2>2. detach.do = "detach" /\ detach.list = <<>>
    BY <2>1, DoIs
  <2>3. ASSUME NEW j \in 1..m
        PROVE  /\ L(j).do = (IF j < m THEN "create" ELSE "reset") /\ L(j).branch = stack[j]
               /\ L(j).hist = H(j) /\ L(j).list = <<>>
    <3>1. PICK kind : kind = IF j < m THEN "create" ELSE "reset"
      OBVIOUS
    <3>2. kind \in Kind /\ H(j) \in Seq(Commit) /\ stack[j] \in Branch /\ L(j) = At(kind, stack[j], H(j))
      BY <1>5, <1>7, <2>1, <2>3, <3>1 DEF Layered
    <3> QED BY <3>1, <3>2, AtIs
  <2> QED BY <2>2, <2>3
<1>11. /\ saves \in Seq(Task) /\ InBlock(saves) /\ \A t \in ToSet(saves) : Formed(t) /\ t.do \in Saving
       /\ \A t \in ToSet(saves) : t.do = "set layers" => t.list = stack
  <2>1. Block(saves, id, stack, {}) /\ \A t \in ToSet(saves) : t.do \in Saving
    BY <1>7, SaveStackIs
  <2> HIDE DEF saves
  <2> QED BY ONLY <2>1 DEF Block
<1> HIDE DEF hist, own, m, H, L, ts, saves, detach
<1>12. \A i \in DOMAIN ts :
        \/ i < f /\ i \in 1..m /\ ts[i] = L(i)
        \/ i = f /\ ts[i] = detach
        \/ i > f /\ i - 1 \in 1..m /\ ts[i] = L(i - 1)
  <2>1. SUFFICES ASSUME NEW i \in DOMAIN ts
                 PROVE  \/ i < f /\ i \in 1..m /\ ts[i] = L(i)
                        \/ i = f /\ ts[i] = detach
                        \/ i > f /\ i - 1 \in 1..m /\ ts[i] = L(i - 1)
    OBVIOUS
  <2>2. /\ ts[i] = IF i < f THEN L(i) ELSE IF i = f THEN detach ELSE L(i - 1)
        /\ i < f => i \in 1..m
        /\ i > f => i - 1 \in 1..m
    BY <1>7, <1>9 DEF ReplayedAt, L, detach
  <2>3. i \in Nat /\ f \in Nat
    <3>1. DOMAIN ts = 1..Len(ts)
      BY <1>8, SeqIs
    <3> QED BY <3>1
  <2>4. i < f \/ i = f \/ i > f
    BY <2>3
  <2>5. i = f \/ i > f => ~(i < f)
    BY <2>3
  <2>6. i > f => i # f
    BY <2>3
  <2> QED BY <2>2, <2>4, <2>5, <2>6
<1>13. \A t \in ToSet(ts) : t = detach \/ \E j \in 1..m : t = L(j)
  <2>1. ASSUME NEW t \in ToSet(ts) PROVE t = detach \/ \E j \in 1..m : t = L(j)
    <3>1. PICK i \in DOMAIN ts : ts[i] = t
      BY <1>8, SeqIs
    <3> QED BY <1>12, <3>1
  <2> QED BY <2>1
<1>14. Joined(Task, todo, ts, saves)
  BY <1>8, <1>11, JoinIs
<1>15. InBlock(todo)
  <2>1. \A t \in ToSet(ts) : t.do \notin Config /\ t.list = <<>>
    BY <1>10, <1>13 DEF Config, Saving, Unset
  <2>2. \A t \in ToSet(ts) : t.do \notin Config /\ IsInjective(t.list)
    BY <2>1, NoneIs
  <2> QED BY <1>8, <1>11, <2>2, QuietBefore
<1> HIDE DEF todo
<1>16. /\ run' \in Run /\ run'.op = "expand" /\ run'.todo = todo /\ run'.left = {} /\ run'.cur = head
       /\ run'.made = {} /\ run'.orig = hist /\ run'.was = Recorded
  <2>1. todo \in Seq(Task)
    BY <1>14 DEF Joined
  <2> QED BY <1>1, <1>4, <1>6, <1>7, <2>1, RecordedIn, NoneIs DEF Begin, Idle, Run, Op
<1>17. /\ Todo' = ToSet(ts) \cup ToSet(saves)
       /\ \A t \in Todo' : /\ t = detach \/ t \in ToSet(saves) \/ \E j \in 1..m : t = L(j)
  BY <1>13, <1>14, <1>16 DEF Todo, Joined
<1>18. DataInv' /\ WorkKept'
  BY <1>1, <1>2, PlannedKeeps DEF DataInv
<1>19. RunInv'
  <2>1. {"create", "detach", "reset"} \cup Saving \subseteq KindsOf["expand"]
    BY DEF KindsOf, Op
  <2>2. ASSUME NEW t \in Todo' PROVE Formed(t) /\ t.do \in {"create", "detach", "reset"} \cup Saving
    <3>1. CASE t = detach
      BY <1>10, <3>1 DEF Formed
    <3>2. CASE t \in ToSet(saves)
      BY <1>11, <3>2
    <3>3. ASSUME NEW j \in 1..m, t = L(j) PROVE Formed(t) /\ t.do \in {"create", "detach", "reset"} \cup Saving
      <4>1. t.do \in {"create", "reset"} /\ t.branch \in Branch
        BY <1>7, <1>10, <3>3
      <4> QED BY <4>1 DEF Formed
    <3> QED BY <1>17, <3>1, <3>2, <3>3
  <2> QED BY <1>16, <2>1, <2>2 DEF RunInv
<1>20. \A b \in Branch : Exists(b)' <=> Exists(b)
  BY <1>1 DEF Exists, Planned
<1>21. \A t \in Todo' : /\ t.do \in Making => \E j \in 1..m : t = L(j) /\ j < m
                        /\ t.do = "reset" => t = L(m)
                        /\ t.do \notin {"start", "rebase", "checkout", "drop"}
  <2>1. SUFFICES ASSUME NEW t \in Todo'
                 PROVE  /\ t.do \in Making => \E j \in 1..m : t = L(j) /\ j < m
                        /\ t.do = "reset" => t = L(m)
                        /\ t.do \notin {"start", "rebase", "checkout", "drop"}
    OBVIOUS
  <2>2. CASE t = detach
    BY <1>10, <2>2 DEF Making
  <2>3. CASE t \in ToSet(saves)
    BY <1>11, <2>3 DEF Making, Saving
  <2>4. CASE \E j \in 1..m : t = L(j)
    <3>1. PICK j \in 1..m : t = L(j)
      BY <2>4
    <3>2. j < m \/ j = m
      BY <1>5
    <3> QED BY <1>10, <3>1, <3>2 DEF Making
  <2> QED BY <1>17, <2>2, <2>3, <2>4
<1>22. \A i \in DOMAIN todo : (i \in DOMAIN ts /\ todo[i] = ts[i]) \/ (i \notin DOMAIN ts /\ todo[i] \in ToSet(saves))
  <2>1. ASSUME NEW i \in DOMAIN todo
        PROVE  (i \in DOMAIN ts /\ todo[i] = ts[i]) \/ (i \notin DOMAIN ts /\ todo[i] \in ToSet(saves))
    <3>1. CASE i \in DOMAIN ts
      BY <1>14, <3>1 DEF Joined
    <3>2. CASE i \notin DOMAIN ts
      <4>1. i - Len(ts) \in DOMAIN saves /\ todo[i] = saves[i - Len(ts)]
        BY <1>14, <2>1, <3>2 DEF Joined
      <4> QED BY <1>11, <3>2, <4>1, SeqIs
    <3> QED BY <3>1, <3>2
  <2> QED BY <2>1
<1>23. head \in Branch /\ Exists(head)' /\ Exists(head) /\ \A j \in 1..m : j < m => ~Exists(stack[j])
  <2>1. Exists(head)
    BY <1>4 DEF Exists, hist
  <2>2. \A j \in 1..m : j < m => stack[j] # head
    <3>1. SUFFICES ASSUME NEW j \in 1..m, j < m, stack[j] = head PROVE FALSE
      OBVIOUS
    <3>2. m \in 1..m
      BY <1>5
    <3>3. j = m
      BY <1>7, <3>1, <3>2, InjectiveMeans
    <3> QED BY <1>5, <3>1, <3>3
  <2> QED BY <1>1, <1>7, <1>20, <2>1, <2>2
<1>24. ASSUME NEW i \in DOMAIN todo, NEW k \in DOMAIN todo, todo[i].do \in Making, todo[k].do \in Making,
              todo[i].branch = todo[k].branch
       PROVE  i = k
  <2>1. \A l \in DOMAIN todo : todo[l].do \in Making => l \in DOMAIN ts /\ todo[l] = ts[l]
    BY <1>11, <1>22 DEF Making, Saving
  <2>2. ASSUME NEW l \in DOMAIN ts, ts[l].do \in Making
        PROVE  \/ l < f /\ l \in 1..m /\ ts[l].branch = stack[l]
               \/ l > f /\ l - 1 \in 1..m /\ ts[l].branch = stack[l - 1]
    BY <1>10, <1>12, <2>2 DEF Making
  <2>3. /\ \/ i < f /\ i \in 1..m /\ todo[i].branch = stack[i]
           \/ i > f /\ i - 1 \in 1..m /\ todo[i].branch = stack[i - 1]
        /\ \/ k < f /\ k \in 1..m /\ todo[k].branch = stack[k]
           \/ k > f /\ k - 1 \in 1..m /\ todo[k].branch = stack[k - 1]
    BY <1>24, <2>1, <2>2
  <2>4. \A p, q \in 1..m : stack[p] = stack[q] => p = q
    BY <1>7, InjectiveMeans
  <2>5. i \in Nat /\ k \in Nat /\ f \in Nat
    <3>1. DOMAIN todo = 1..(Len(ts) + Len(saves)) /\ Len(ts) \in Nat /\ Len(saves) \in Nat
      BY <1>8, <1>11, <1>14, SeqIs DEF Joined
    <3> QED BY <3>1
  <2>6. CASE i < f /\ k < f
    <3>1. i \in 1..m /\ k \in 1..m /\ stack[i] = stack[k]
      BY <1>24, <2>3, <2>5, <2>6
    <3> QED BY <2>4, <3>1
  <2>7. CASE i > f /\ k > f
    <3>1. i - 1 \in 1..m /\ k - 1 \in 1..m /\ stack[i - 1] = stack[k - 1]
      BY <1>24, <2>3, <2>5, <2>7
    <3>2. i - 1 = k - 1
      BY <2>4, <3>1
    <3> QED BY <2>5, <3>2
  <2>8. CASE i < f /\ k > f
    <3>1. i \in 1..m /\ k - 1 \in 1..m /\ stack[i] = stack[k - 1]
      BY <1>24, <2>3, <2>5, <2>8
    <3>2. i = k - 1
      BY <2>4, <3>1
    <3> QED BY <2>5, <2>8, <3>2
  <2>9. CASE i > f /\ k < f
    <3>1. i - 1 \in 1..m /\ k \in 1..m /\ stack[i - 1] = stack[k]
      BY <1>24, <2>3, <2>5, <2>9
    <3>2. i - 1 = k
      BY <2>4, <3>1
    <3> QED BY <2>5, <2>9, <3>2
  <2> QED BY <2>3, <2>6, <2>7, <2>8, <2>9
<1>25. RefInv'
  <2>1. \A t \in Todo' : t.do \in Making => ~Exists(t.branch)'
    <3>1. SUFFICES ASSUME NEW t \in Todo', t.do \in Making PROVE ~Exists(t.branch)'
      OBVIOUS
    <3>2. PICK j \in 1..m : t = L(j) /\ j < m
      BY <1>21, <3>1
    <3>3. t.branch = stack[j] /\ stack[j] \in Branch /\ ~Exists(stack[j])
      BY <1>7, <1>10, <1>23, <3>2
    <3> QED BY <1>20, <3>3
  <2>2. \A i, k \in DOMAIN run'.todo :
            run'.todo[i].do \in Making /\ run'.todo[k].do \in Making /\ i # k => run'.todo[i].branch # run'.todo[k].branch
    BY <1>16, <1>24
  <2>3. run'.cur \in Branch /\ tip'[run'.cur] # None
    BY <1>1, <1>16, <1>23 DEF Exists
  <2> QED BY <1>16, <1>21, <2>1, <2>2, <2>3 DEF RefInv, Exists
<1>26. SpareInv'
  BY <1>16, <1>21 DEF SpareInv
<1>27. ExpandInv'
  <2>1. \A t \in Todo' : /\ t.do = "reset" => t.branch = head /\ Patches(t.hist) = Patches(hist)
                         /\ t.do = "create" => Patches(t.hist) \subseteq Patches(hist)
    <3>1. m \in 1..m
      BY <1>5
    <3>2. L(m).branch = head /\ Patches(L(m).hist) = Patches(hist)
      BY <1>5, <1>7, <1>10, <3>1 DEF H
    <3>3. \A j \in 1..m : Patches(L(j).hist) \subseteq Patches(hist)
      BY <1>5, <1>10 DEF H
    <3> QED BY <1>21, <3>2, <3>3 DEF Making
  <2>2. tip'[head] = hist
    BY <1>1 DEF Planned, hist
  <2> QED BY <1>4, <1>16, <2>1, <2>2 DEF ExpandInv
<1>28. ChainInv'
  <2>1. ASSUME NEW i \in DOMAIN todo, NEW k \in DOMAIN todo, i <= k, todo[i].do \in Saving
        PROVE  todo[k].do \in Saving
    <3>1. \A t \in ToSet(ts) : t.do \notin Saving
      BY <1>10, <1>13 DEF Saving
    <3>2. i \notin DOMAIN ts
      <4>1. \A l \in DOMAIN ts : ts[l] \in ToSet(ts)
        BY <1>8, SeqIs
      <4> QED BY <1>22, <2>1, <3>1, <4>1
    <3>3. k \notin DOMAIN ts
      <4>1. DOMAIN ts = 1..Len(ts) /\ Len(ts) \in Nat /\ i \in Nat /\ k \in Nat /\ 1 <= i
        <5>1. DOMAIN todo = 1..(Len(ts) + Len(saves)) /\ Len(ts) \in Nat /\ Len(saves) \in Nat /\ DOMAIN ts = 1..Len(ts)
          BY <1>8, <1>11, <1>14, SeqIs DEF Joined
        <5> QED BY <5>1
      <4> QED BY <2>1, <3>2, <4>1
    <3> QED BY <1>11, <1>22, <3>3
  <2>2. ASSUME NEW j \in 1..m, NEW h, WillBe(stack[j], h)' PROVE h = H(j)
    <3>1. CASE \E t \in Todo' : t.do \in {"create", "reset"} /\ t.branch = stack[j] /\ t.hist = h
      <4>1. PICK t \in Todo' : t.do \in {"create", "reset"} /\ t.branch = stack[j] /\ t.hist = h
        BY <3>1
      <4>2. PICK i \in 1..m : t = L(i)
        <5>1. m \in 1..m
          BY <1>5
        <5> QED BY <1>21, <4>1, <5>1 DEF Making
      <4>3. stack[i] = stack[j] /\ h = H(i)
        BY <1>10, <4>1, <4>2
      <4>4. i = j
        BY <1>7, <4>3, InjectiveMeans
      <4> QED BY <4>3, <4>4
    <3>2. CASE h = tip'[stack[j]] /\ \A t \in Todo' : ~(t.do \in {"create", "reset"} /\ t.branch = stack[j])
      <4>1. L(j) \notin Todo'
        BY <1>10, <3>2
      <4>2. ~(j < m) /\ chores = {}
        BY <1>7, <1>8, <1>17, <4>1
      <4>3. j = m
        BY <1>5, <4>2
      <4> QED BY <1>1, <1>5, <1>7, <3>2, <4>2, <4>3 DEF Planned, hist, H
    <3> QED BY <2>2, <3>1, <3>2 DEF WillBe
  <2>3. \A t \in Todo' : t.do = "set layers" => t.list = stack
    BY <1>10, <1>11, <1>17
  <2>4. ASSUME NEW j \in 2..Len(stack), NEW lower, NEW upper, WillBe(stack[j - 1], lower)', WillBe(stack[j], upper)'
        PROVE  IsStrictPrefix(lower, upper)
    <3>1. j \in 2..m /\ j \in 1..m /\ j - 1 \in 1..m
      BY <1>5, <1>7, <2>4
    <3>2. lower = H(j - 1) /\ upper = H(j)
      BY <2>2, <2>4, <3>1
    <3> QED BY <1>5, <3>1, <3>2 DEF H
  <2>5. \A i, k \in DOMAIN run'.todo : i <= k /\ run'.todo[i].do \in Saving => run'.todo[k].do \in Saving
    BY <1>16, <2>1
  <2>6. ASSUME NEW t \in Todo', t.do = "set layers", NEW j \in 2..Len(t.list),
               NEW lower, NEW upper, WillBe(t.list[j - 1], lower)', WillBe(t.list[j], upper)'
        PROVE  IsStrictPrefix(lower, upper)
    <3>1. t.list = stack
      BY <2>3, <2>6
    <3>2. j \in 2..Len(stack) /\ WillBe(stack[j - 1], lower)' /\ WillBe(stack[j], upper)'
      BY <2>6, <3>1
    <3> QED BY <2>4, <3>2
  <2> QED BY <2>5, <2>6 DEF ChainInv
<1>29. InBlock(run.todo)'
  <2>1. InBlock(run'.todo)
    BY <1>15, <1>16
  <2> QED BY <2>1 DEF InBlock
<1>30. NowInv' /\ ThenInv'
  <2>1. \A t : t \in ToSet(SaveStack(stack, id)) <=> t \in Todo' /\ t.do \in Config
    BY <1>10, <1>11, <1>13, <1>17 DEF Config, Saving, Unset, saves
  <2>2. ~cut => /\ ToSet(layers[id]) \subseteq ToSet(stack)
                /\ \A b \in Branch : key[b] = id => b \in ToSet(stack)
    <3>1. CASE ~InStack(head)
      BY <1>1, <3>1, FreshIs
    <3>2. CASE InStack(head)
      <4>1. SUFFICES ASSUME ~cut
                     PROVE  ToSet(layers[id]) \subseteq ToSet(stack) /\ \A b \in Branch : key[b] = id => b \in ToSet(stack)
        OBVIOUS
      <4>2. id = key[head] /\ layers[id] \in Seq(Branch) /\ Len(layers[id]) = 1 /\ layers[id] # <<>>
        BY <1>1, <1>2, <3>2, StackIs
      <4>3. Settled
        BY <1>1, <4>1, Found
      <4>4. \A b \in Branch : key[b] = id => b \in ToSet(layers[id])
        BY <4>2, <4>3 DEF Settled
      <4>5. ToSet(layers[id]) = {layers[id][1]}
        BY <4>2, SeqIs
      <4>6. head \in ToSet(layers[id])
        BY <1>1, <4>2, <4>4
      <4>7. head \in ToSet(stack)
        <5>1. m \in DOMAIN stack
          BY <1>5, <1>7
        <5> QED BY <1>7, <5>1, SeqIs
      <4> QED BY <4>4, <4>5, <4>6, <4>7
    <3> QED BY <3>1, <3>2
  <2>3. run'.was = Recorded /\ run'.op \notin {"merge", "absorb", "prune"} /\ run' \in Run
    BY <1>16
  <2> QED BY <1>1, <1>7, <2>1, <2>2, <2>3, SavesStack
<1> QED BY <1>18, <1>19, <1>25, <1>26, <1>27, <1>28, <1>29, <1>30 DEF IInv

-----------------------------------------------------------------------------
\* The invariant holds from the start and every step keeps it.

LEMMA Initially == ASSUME Init PROVE IInv
<1>1. run = Idle /\ Todo = {} /\ run.todo = <<>> /\ DOMAIN run.todo = {} /\ ~cut
  BY IdleIs, NoneIs DEF Init, Todo
<1>2. DataInv
  <2>1. IsInjective(<<>>) /\ <<>> \in Seq(Branch) /\ <<>> \in Seq(Commit)
    BY NoneIs
  <2>2. \A id \in Id : layers[id] = <<>>
    BY DEF Init
  <2>3. layers \in [Id -> Seq(Branch)] /\ \A id \in Id : IsInjective(layers[id])
    BY <2>1, <2>2 DEF Init
  <2>4. bound \in Bounds /\ bound.patch \in Nat
    BY BoundAssumption DEF Init
  <2>5. made \in 0..bound.patch
    BY <2>4 DEF Init
  <2> QED BY <2>1, <2>3, <2>4, <2>5 DEF Init, DataInv
<1>3. WorkKept
  BY DEF Init, WorkKept
<1>4. RunInv /\ RefInv /\ SpareInv /\ ExpandInv /\ ChainInv
  BY <1>1, IdleIs DEF RunInv, RefInv, SpareInv, ExpandInv, ChainInv
<1>5. InBlock(run.todo)
  BY <1>1 DEF InBlock
<1>6. NowInv
  BY <1>1, IdleIs DEF Init, NowInv, Settled
<1>7. ThenInv
  <2>1. \A b \in Branch, id \in Id : ~KeyTo(b, id)
    BY <1>1, IdAssumption DEF Init, KeyTo
  <2> QED BY <1>1, <2>1, IdleIs DEF ThenInv
<1> QED BY <1>2, <1>3, <1>4, <1>5, <1>6, <1>7 DEF IInv

LEMMA StutterKeeps == ASSUME IInv, UNCHANGED vars PROVE IInv'
<1>1. /\ tip' = tip /\ trunk' = trunk /\ origin' = origin /\ key' = key /\ layers' = layers /\ merged' = merged
      /\ head' = head /\ run' = run /\ made' = made /\ work' = work /\ cut' = cut /\ bound' = bound
  BY DEF vars, refs, config, history
<1>2. /\ Todo' = Todo /\ Recorded' = Recorded
      /\ \A b : Exists(b)' = Exists(b) /\ Spare(b)' = Spare(b) /\ Cleaned(b)' = Cleaned(b)
      /\ \A b, hist : WillBe(b, hist)' = WillBe(b, hist)
      /\ \A b, id : KeyTo(b, id)' = KeyTo(b, id)
      /\ \A id, list : Coming(id, list)' = Coming(id, list)
  <2>1. Todo' = Todo
    BY <1>1 DEF Todo
  <2>2. Recorded' = Recorded
    BY <1>1 DEF Recorded, StackOf
  <2> QED BY <1>1, <2>1, <2>2 DEF Exists, Spare, Cleaned, WillBe, KeyTo, Coming, Writes
<1>3. DataInv' /\ WorkKept'
  BY <1>1 DEF IInv, DataInv, WorkKept, Exists
<1>4. RunInv'
  BY <1>1, <1>2 DEF IInv, RunInv
<1>5. RefInv'
  BY <1>1, <1>2 DEF IInv, RefInv, Exists
<1>6. SpareInv'
  BY <1>1, <1>2 DEF IInv, SpareInv, Spare
<1>7. ExpandInv'
  BY <1>1, <1>2 DEF IInv, ExpandInv
<1>8. ChainInv'
  BY <1>1, <1>2 DEF IInv, ChainInv
<1>9. InBlock(run.todo)'
  <2>1. InBlock(run'.todo)
    BY <1>1 DEF IInv
  <2> QED BY <2>1 DEF InBlock
<1>10. NowInv'
  <2>1. Settled' = Settled /\ Apart' = Apart
    BY <1>1 DEF Settled, Apart
  <2> QED BY <1>1, <1>2, <2>1 DEF IInv, NowInv
<1>11. ThenInv'
  BY <1>1, <1>2 DEF IInv, ThenInv
<1> QED BY <1>3, <1>4, <1>5, <1>6, <1>7, <1>8, <1>9, <1>10, <1>11 DEF IInv

LEMMA UserKeeps == ASSUME IInv, User, UNCHANGED bound PROVE IInv'
<1>1. CASE UserCommits
  BY <1>1, UserCommitsKeeps
<1>2. ASSUME NEW b \in Branch, UserBranches(b) PROVE IInv'
  BY <1>2, UserBranchesKeeps
<1>3. ASSUME NEW b \in Branch, UserDeletes(b) PROVE IInv'
  BY <1>3, UserDeletesKeeps
<1>4. ASSUME NEW b \in Branch, UserPushes(b) PROVE IInv'
  BY <1>4, UserPushesKeeps
<1>5. ASSUME NEW b \in Branch, Land(b) PROVE IInv'
  BY <1>5, LandKeeps
<1>6. ASSUME NEW b \in Branch \cup {Trunk}, UserSwitches(b) PROVE IInv'
  BY <1>6, UserSwitchesKeeps
<1> QED BY <1>1, <1>2, <1>3, <1>4, <1>5, <1>6 DEF User

LEMMA CommandKeeps == ASSUME IInv, Command, UNCHANGED bound PROVE IInv'
<1>1. ASSUME NEW id \in Id, Discover(id) PROVE IInv'
  BY <1>1, DiscoverKeeps
<1>2. ASSUME NEW id \in Id, AdoptBranch(id) PROVE IInv'
  BY <1>2, AdoptBranchKeeps
<1>3. ASSUME NEW id \in Id, NEW b \in Branch, Start(b, id) PROVE IInv'
  BY <1>3, StartKeeps
<1>4. ASSUME NEW id \in Id, NEW chores, Expand(id, chores) PROVE IInv'
  BY <1>4, ExpandKeeps
<1>5. ASSUME NEW b \in Branch, AppendLayer(b) PROVE IInv'
  BY <1>5, AppendLayerKeeps
<1>6. ASSUME NEW b \in Branch, CleanUp(b) PROVE IInv'
  BY <1>6, CleanUpKeeps
<1>7. ASSUME NEW cleanup \in BOOLEAN, Prune(cleanup) PROVE IInv'
  BY <1>7, PruneKeeps
<1>8. ASSUME NEW cleanup \in BOOLEAN, NEW n \in 1..Cardinality(Branch), Merge(n, cleanup) PROVE IInv'
  BY <1>8, MergeKeeps
<1>9. CASE StartDone \/ DoneRemotes \/ MergeVerified \/ Absorbed \/ ExpandFails
  BY <1>9, StartDoneKeeps, DoneRemotesKeeps, MergeVerifiedKeeps, AbsorbedKeeps, ExpandFailsKeeps
<1> QED BY <1>1, <1>2, <1>3, <1>4, <1>5, <1>6, <1>7, <1>8, <1>9 DEF Command

LEMMA GitKeeps == ASSUME IInv, Git, UNCHANGED bound PROVE IInv'
<1>1. CASE CreateBranch \/ CheckoutNew \/ Rebase \/ MoveHead \/ DropBranch \/ DropRemote \/ Push
  BY <1>1, CreateBranchKeeps, CheckoutNewKeeps, RebaseKeeps, MoveHeadKeeps, DropBranchKeeps, DropRemoteKeeps, PushKeeps
<1>2. CASE SetKey \/ UnsetKey \/ UnsetPR \/ SetLayers \/ UnsetLayers \/ Skip \/ SaveFails
  BY <1>2, SetKeyKeeps, UnsetKeyKeeps, UnsetPRKeeps, SetLayersKeeps, UnsetLayersKeeps, SkipKeeps, SaveFailsKeeps
<1> QED BY <1>1, <1>2 DEF Git

LEMMA StepKeeps == ASSUME IInv, [Next]_vars PROVE IInv'
<1>1. CASE UNCHANGED vars
  BY <1>1, StutterKeeps
<1>2. CASE Next
  BY <1>2, UserKeeps, CommandKeeps, GitKeeps, FinishKeeps, StopKeeps DEF Next
<1> QED BY <1>1, <1>2

LEMMA Always == Spec => []IInv
<1>1. Init => IInv
  BY Initially
<1>2. IInv /\ [Next]_vars => IInv'
  BY StepKeeps
<1> QED BY <1>1, <1>2, PTL DEF Spec

-----------------------------------------------------------------------------
\* What it implies.

\* Every variable keeps its type, and no step of any command leaves HEAD on a branch
\* that is gone.
THEOREM TypeCorrect == Spec => []TypeOK
<1>1. IInv => TypeOK
  <2>1. SUFFICES ASSUME IInv PROVE TypeOK
    OBVIOUS
  <2>2. DataInv /\ run \in Run
    BY <2>1 DEF IInv, RunInv
  <2>3. run.todo \in Seq(Task) /\ run.left \cup run.made \cup run.was \subseteq Branch
    BY <2>2 DEF Run
  <2>4. \A i \in DOMAIN run.todo : run.todo[i].do \in Kind
    <3>1. \A i \in DOMAIN run.todo : run.todo[i] \in Task
      BY <2>3, SeqIs
    <3> QED BY <3>1 DEF Task
  <2> QED BY <2>2, <2>3, <2>4 DEF TypeOK, DataInv
<1> QED BY <1>1, Always, PTL

\* A commit the user has not thrown away stays on trunk or on a local branch, whatever
\* commands are run, in whatever order with plain git, and wherever they are cut short.
THEOREM WorkSurvives == Spec => []WorkKept
<1>1. IInv => WorkKept
  BY DEF IInv
<1> QED BY <1>1, Always, PTL

\* Unless a config write has been left out, a branch that has a stack is one of its layers
\* whenever no command is running.
THEOREM StackListsIt == Spec => []StackHasBranch
<1>1. IInv => StackHasBranch
  <2>1. SUFFICES ASSUME IInv, run = Idle, ~cut, NEW b \in Branch, InStack(b) PROVE b \in ToSet(StackOf(b))
    BY DEF StackHasBranch
  <2>2. Settled
    BY <2>1, Found
  <2>3. key[b] \in Id /\ StackOf(b) = layers[key[b]] /\ StackOf(b) # <<>>
    BY <2>1, StackIs DEF IInv
  <2> QED BY <2>2, <2>3 DEF Settled
<1> QED BY <1>1, Always, PTL

\* The list a discovery or an expansion writes is a chain when it is written, and a command
\* that ends well leaves no branch without its stack but one whose work is elsewhere.
THEOREM LineageStaysRight == Spec => LineageRight
<1>1. IInv => RegisteredIsChain
  <2>1. SUFFICES ASSUME IInv, SetLayers, run.op \in {"discover", "expand"}, NEW j \in 2..Len(Now.list)
                 PROVE  IsStrictPrefix(tip[Now.list[j - 1]], tip[Now.list[j]])
    BY DEF RegisteredIsChain
  <2>2. run.todo \in Seq(Task) /\ run.todo # <<>> /\ Now.do = "set layers"
    BY <2>1 DEF IInv, RunInv, Run, SetLayers, Doing, Now
  <2>3. Now \in Todo /\ Now \in Task /\ 1 \in DOMAIN run.todo /\ run.todo[1] = Now
    <3>1. 1 \in DOMAIN run.todo /\ Head(run.todo) = run.todo[1] /\ Head(run.todo) \in ToSet(run.todo)
      BY <2>2, TailIs
    <3>2. run.todo[1] \in Task
      BY <2>2, <3>1, SeqIs
    <3> QED BY <3>1, <3>2 DEF Now, Todo
  <2>4. \A t \in Todo : t.do \in Saving
    <3>1. ASSUME NEW t \in Todo PROVE t.do \in Saving
      <4>1. PICK i \in DOMAIN run.todo : run.todo[i] = t
        BY <2>2, SeqIs DEF Todo
      <4>2. 1 <= i
        <5>1. DOMAIN run.todo = 1..Len(run.todo)
          BY <2>2, SeqIs
        <5> QED BY <5>1
      <4>3. "set layers" \in Saving
        BY DEF Saving
      <4>4. \A l, i0 \in DOMAIN run.todo : l <= i0 /\ run.todo[l].do \in Saving => run.todo[i0].do \in Saving
        BY <2>1 DEF IInv, ChainInv
      <4> QED BY <2>2, <2>3, <4>1, <4>2, <4>3, <4>4
    <3> QED BY <3>1
  <2>5. \A b : WillBe(b, tip[b])
    BY <2>4 DEF WillBe, Saving
  <2>6. \A i \in 1..Len(Now.list) : Now.list[i] \in Branch
    <3>1. Now.list \in Seq(Branch)
      BY <2>3 DEF Task
    <3> QED BY <3>1, SeqIs
  <2>7. Len(Now.list) \in Nat
    <3>1. Now.list \in Seq(Branch)
      BY <2>3 DEF Task
    <3> QED BY <3>1, SeqIs
  <2>8. Now.list[j - 1] \in Branch /\ Now.list[j] \in Branch
    <3>1. j \in 1..Len(Now.list) /\ j - 1 \in 1..Len(Now.list)
      BY <2>7
    <3> QED BY <2>6, <3>1
  <2>9. tip[Now.list[j - 1]] \in Seq(Commit) \cup {None} /\ tip[Now.list[j]] \in Seq(Commit) \cup {None}
    BY <2>1, <2>8 DEF IInv, DataInv
  <2> QED BY <2>1, <2>2, <2>3, <2>5, <2>9 DEF IInv, ChainInv
<1>2. IInv => RecordedStay
  <2>1. SUFFICES ASSUME IInv, Finish, ~cut, NEW b \in run.was \ Recorded
                 PROVE  Patches(tip[b]) \subseteq Patches(trunk) \cup UNION {Patches(tip[c]) : c \in Branch \ {b}}
    BY DEF RecordedStay
  <2>2. Apart
    BY <2>1 DEF Finish, Apart
  <2>3. Cleaned(b)
    BY <2>1, <2>2 DEF IInv, NowInv
  <2>4. Spare(b)
    BY <2>3 DEF Cleaned
  <2> QED BY <2>4 DEF Spare
<1>3. IInv /\ [Next]_vars => [RegisteredIsChain /\ RecordedStay]_vars
  BY <1>1, <1>2
<1> QED BY <1>3, Always, PTL DEF Spec, LineageRight

=============================================================================
