---------------------------- MODULE GitSyncProofs ----------------------------
(* Proofs about GitSync, for a stack of any height and any bounds on what the *)
(* user, the trunk and the commands do.                                       *)
(*                                                                            *)
(* Patches are numbered as they are made, so a new one is in no tip; what git *)
(* makes of two tips has the patches of both, once.  The layers a rebase has  *)
(* gone through are a chain on the trunk, and it takes the next layer up; the *)
(* layers it rewrote are on a list in memory, or in the state file plus the   *)
(* one layer git was stopped on.                                              *)
EXTENDS GitSync, FiniteSetTheorems, SequenceTheorems, WellFoundedInduction, TLAPS

-----------------------------------------------------------------------------
\* The inductive invariant.

Rebasing == {"rebase", "resign", "push"}

\* The executing command, as TypeOK has it.
Command == [pc : {"idle", "rebase", "resign", "push", "publish", "done"},
            cmd : {"none", "sync", "propose"}, st : RunState,
            through : SUBSET Layer, opened : SUBSET Layer]

\* TypeOK, and that no tip is empty which TypeOK lets be.
TypeInv ==
    /\ TypeOK
    /\ upstream # <<>> /\ trunkRef # <<>>
    /\ gitRebase.on # Trunk => gitRebase.result # <<>>

\* A command that rebases works on the stack as recorded, and so would the one
\* that continues a rebase git has stopped; both know where HEAD was.
Placed ==
    /\ run.pc = "idle" => run = Idle
    /\ gitRebase.on = Trunk => gitRebase = NoRebase
    /\ run.pc \in Rebasing =>
         /\ run.st.open = stack /\ run.st.at \in stack /\ home \in stack /\ run.st.orig = home
         /\ run.st.rewritten \subseteq stack
    /\ gitRebase # NoRebase =>
         /\ run = Idle
         /\ saved.open = stack /\ saved.at = gitRebase.on /\ home \in stack
         /\ saved.rewritten \subseteq stack
    /\ saved # NoState => saved.orig = home
    /\ run.pc = "resign" => run.st = Resumed(saved)
    /\ run.pc = "publish" => run.cmd # "sync"
    /\ run.opened \subseteq run.through /\ run.through \subseteq stack

\* Patches of a kind are numbered as they are made, and no tip has one that was
\* not made, nor one twice.
Number(ps, k) == Cardinality({p \in ps : p[1] = k})
Numbered(ps, k) ==
    /\ IsFiniteSet({p \in ps : p[1] = k})
    /\ \A p \in ps : p[1] = k => p[2] < Number(ps, k)

Made == {p \in Patch : IF p[1] = Trunk THEN p \in Patches(upstream) ELSE p \in authored[p[1]]}
Once(tip) == \A i, j \in DOMAIN tip : tip[i].patch = tip[j].patch => i = j
Sound(tip) == Once(tip) /\ Patches(tip) \subseteq Made

Grown ==
    /\ Numbered(Patches(upstream), Trunk)
    /\ \A l \in Layer : Numbered(authored[l], l)
    /\ Sound(upstream) /\ Sound(trunkRef) /\ Sound(gitRebase.result)
    /\ \A l \in Layer : Sound(branch[l]) /\ Sound(origin[l])
    /\ IsPrefix(trunkRef, upstream)

\* Every patch committed to a layer is in its branch, and in what git will make of
\* the branch once the rebase it stopped at goes on.
Kept ==
    /\ \A l \in stack : authored[l] \subseteq Patches(branch[l])
    /\ gitRebase # NoRebase => authored[gitRebase.on] \subseteq Patches(gitRebase.result)

\* A tip that sits on the trunk and on every layer below l.
Sits(tip, l) == IsPrefix(trunkRef, tip) /\ \A k \in Below(stack, l) : IsPrefix(branch[k], tip)

\* The layers the rebase is through with are a chain.
Chain ==
    /\ run.pc \in {"rebase", "resign"} => \A l \in Below(stack, run.st.at) : Sits(branch[l], l)
    /\ run.pc = "resign" => Sits(branch[run.st.at], run.st.at)
    /\ run.pc = "push" \/ (run.pc = "done" /\ run.cmd = "sync") =>
         \A l \in stack : Sits(branch[l], l)
    /\ gitRebase # NoRebase =>
         /\ \A l \in Below(stack, gitRebase.on) : Sits(branch[l], l)
         /\ Sits(gitRebase.result, gitRebase.on)

\* What was rewritten and not pushed is on some list, in memory or in the file.
Listed ==
    cut = {} => owed \subseteq
        IF run.pc \in Rebasing THEN run.st.rewritten
        ELSE IF gitRebase # NoRebase THEN saved.rewritten \cup {gitRebase.on} ELSE {}

\* Only the layer that is being signed has commits without a signature.
Signed(tip) == \A i \in DOMAIN tip : tip[i].signed
Signable == IF run.pc = "resign" THEN {run.st.at} ELSE {gitRebase.on}
AllSigned ==
    cut = {} => /\ Signed(upstream) /\ Signed(trunkRef)
                /\ \A l \in Layer : Signed(origin[l])
                /\ \A l \in Layer \ Signable : Signed(branch[l])

IInv == TypeInv /\ Placed /\ Grown /\ Kept /\ Chain /\ Listed /\ AllSigned

-----------------------------------------------------------------------------
\* Least and greatest layers.

LEMMA LeastNat ==
    ASSUME NEW T, T \subseteq Nat, T # {} PROVE \E x \in T : \A y \in T : x <= y
<1> DEFINE R == OpToRel(<, Nat)
<1>1. IsWellFoundedOn(R, Nat)
  BY NatLessThanWellFounded
<1>2. \A x, y \in Nat : y < x => <<y, x>> \in R
  BY Zenon DEF OpToRel
<1> HIDE DEF R
<1>3. PICK x \in T : \A y \in T : ~ (<<y, x>> \in R)
  BY <1>1, WFMin
<1>4. ASSUME NEW y \in T PROVE x <= y
  <2>1. x \in Nat /\ y \in Nat /\ ~ (<<y, x>> \in R)
    BY <1>3
  <2>2. ~ (y < x)
    BY <1>2, <2>1
  <2> QED BY <2>1, <2>2
<1> QED BY <1>4

LEMMA MinIs ==
    ASSUME NEW T, T \subseteq Nat, T # {} PROVE Min(T) \in T /\ \A y \in T : Min(T) <= y
<1>1. \E x \in T : \A y \in T : x <= y
  BY LeastNat
<1> QED BY <1>1 DEF Min

LEMMA MaxIs ==
    ASSUME NEW T, T \subseteq Layer, T # {} PROVE Max(T) \in T /\ \A y \in T : y <= Max(T)
<1> DEFINE Bounds == {b \in Nat : \A y \in T : y <= b}
<1>1. NLayers \in Bounds
  BY SyncConstants DEF Layer
<1>2. PICK b \in Bounds : \A c \in Bounds : b <= c
  BY <1>1, LeastNat
<1>3. b \in T
  <2> SUFFICES ASSUME b \notin T PROVE FALSE
    OBVIOUS
  <2>1. \A y \in T : y \in Nat /\ y # 0 /\ y < b
    BY <1>2, SyncConstants DEF Layer
  <2>2. b - 1 \in Bounds
    BY <1>2, <2>1
  <2> QED BY <1>2, <2>2
<1>4. \E x \in T : \A y \in T : x >= y
  BY <1>2, <1>3, SyncConstants DEF Layer
<1>5. Max(T) \in T /\ \A y \in T : Max(T) >= y
  BY <1>4 DEF Max
<1> QED BY <1>5, SyncConstants DEF Layer

LEMMA LayerTyped == Layer \subseteq Nat /\ Trunk \notin Layer /\ NLayers \in Layer
BY SyncConstants DEF Layer, Trunk

-----------------------------------------------------------------------------
\* Prefixes.

LEMMA PrefixMeans ==
    ASSUME NEW S, NEW s \in Seq(S), NEW t \in Seq(S)
    PROVE  IsPrefix(s, t) <=> Len(s) <= Len(t) /\ \A i \in 1..Len(s) : s[i] = t[i]
<1>1. /\ Len(s) \in Nat /\ Len(t) \in Nat
      /\ \A i \in 1..Len(s) : s[i] \in S
      /\ \A i \in 1..Len(t) : t[i] \in S
  OBVIOUS
<1>2. SubSeq(s, 1, Len(s)) = s
  BY SubSeqFull
<1>3. ASSUME Len(s) <= Len(t)
      PROVE  SubSeq(t, 1, Len(s)) = s <=> \A i \in 1..Len(s) : s[i] = t[i]
  <2>1. /\ SubSeq(t, 1, Len(s)) \in Seq(S)
        /\ Len(SubSeq(t, 1, Len(s))) = Len(s)
        /\ \A i \in 1..Len(s) : SubSeq(t, 1, Len(s))[i] = t[i]
    <3>1. \A i \in 1..Len(s) : t[i] \in S
      BY <1>1, <1>3
    <3> QED BY <1>1, <3>1, SubSeqProperties
  <2> DEFINE u == SubSeq(t, 1, Len(s))
  <2> HIDE DEF u
  <2>2. u = s => \A i \in 1..Len(s) : s[i] = t[i]
    BY <2>1 DEF u
  <2>3. (\A i \in 1..Len(s) : s[i] = t[i]) => u = s
    BY <2>1, SeqEqual DEF u
  <2> QED BY <2>2, <2>3 DEF u
<1> QED BY <1>1, <1>2, <1>3 DEF IsPrefix

LEMMA PrefixOrder ==
    ASSUME NEW S, NEW s \in Seq(S)
    PROVE  /\ IsPrefix(s, s)
           /\ \A t, u \in Seq(S) : IsPrefix(s, t) /\ IsPrefix(t, u) => IsPrefix(s, u)
           /\ \A t \in Seq(S) : IsPrefix(s, t) /\ Len(s) = Len(t) => s = t
<1>1. IsPrefix(s, s)
  BY PrefixMeans
<1>2. ASSUME NEW t \in Seq(S), NEW u \in Seq(S), IsPrefix(s, t), IsPrefix(t, u)
      PROVE  IsPrefix(s, u)
  <2>1. Len(s) <= Len(t) /\ \A i \in 1..Len(s) : s[i] = t[i]
    BY <1>2, PrefixMeans
  <2>2. Len(t) <= Len(u) /\ \A i \in 1..Len(t) : t[i] = u[i]
    BY <1>2, PrefixMeans
  <2>3. Len(s) <= Len(u) /\ \A i \in 1..Len(s) : s[i] = u[i]
    BY <2>1, <2>2
  <2> QED BY <2>3, PrefixMeans
<1>3. ASSUME NEW t \in Seq(S), IsPrefix(s, t), Len(s) = Len(t) PROVE s = t
  BY <1>3, PrefixMeans, SeqEqual
<1> QED BY <1>1, <1>2, <1>3

-----------------------------------------------------------------------------
\* git rebase: what Replayed keeps.

Upto(K, i) == {j \in K : j <= i}
Rank(K, i) == Cardinality(Upto(K, i))

\* Counting the elements of a finite set of numbers up to each numbers them.
LEMMA RankIs ==
    ASSUME NEW K, K \subseteq Nat, IsFiniteSet(K)
    PROVE  /\ Cardinality(K) \in Nat
           /\ \A i \in K : Rank(K, i) \in 1..Cardinality(K)
           /\ \A i, j \in K : Rank(K, i) = Rank(K, j) => i = j
           /\ \A n \in 1..Cardinality(K) : \E i \in K : Rank(K, i) = n
<1> DEFINE N == Cardinality(K)
<1>1. N \in Nat /\ IsFiniteSet(1..N) /\ Cardinality(1..N) = N
  BY FS_CardinalityType, FS_Interval
<1>2. ASSUME NEW i \in K
      PROVE  IsFiniteSet(Upto(K, i)) /\ Rank(K, i) \in 1..N
  <2>1. Upto(K, i) \in SUBSET K /\ i \in Upto(K, i)
    BY DEF Upto
  <2>2. IsFiniteSet(Upto(K, i)) /\ Rank(K, i) <= N
    BY <2>1, FS_Subset DEF Rank
  <2>3. Rank(K, i) \in Nat /\ Rank(K, i) # 0
    BY <2>1, <2>2, FS_CardinalityType, FS_EmptySet DEF Rank
  <2> QED BY <1>1, <2>2, <2>3
<1>3. ASSUME NEW i \in K, NEW j \in K, i < j PROVE Rank(K, i) # Rank(K, j)
  <2>1. Upto(K, i) \in SUBSET Upto(K, j) /\ j \in Upto(K, j) /\ j \notin Upto(K, i)
    <3>1. \A k \in K : k \in Nat
      OBVIOUS
    <3>2. \A k \in K : k <= i => k <= j
      BY <1>3, <3>1
    <3>3. j <= j /\ ~ (j <= i)
      BY <1>3, <3>1
    <3> QED BY <3>2, <3>3 DEF Upto
  <2>2. IsFiniteSet(Upto(K, j))
    BY <1>2
  <2>3. Rank(K, i) = Rank(K, j) => Upto(K, i) = Upto(K, j)
    BY <2>1, <2>2, FS_Subset DEF Rank
  <2> QED BY <2>1, <2>3
<1>4. ASSUME NEW i \in K, NEW j \in K, Rank(K, i) = Rank(K, j) PROVE i = j
  <2>1. i \in Nat /\ j \in Nat
    OBVIOUS
  <2> QED BY <1>3, <1>4, <2>1
<1> DEFINE f == [i \in K |-> Rank(K, i)]
<1>5. f \in [K -> 1..N] /\ \A i \in K : f[i] = Rank(K, i)
  BY <1>2
<1> HIDE DEF f
<1>6. f \in Injection(K, 1..N)
  BY <1>4, <1>5 DEF Injection, IsInjective
<1>7. f \in Surjection(K, 1..N)
  BY <1>1, <1>6, FS_Injection
<1>8. \A n \in 1..N : \E i \in K : Rank(K, i) = n
  BY <1>5, <1>7 DEF Surjection
<1> QED BY <1>1, <1>2, <1>4, <1>8

LEMMA ReplayedDoes ==
    ASSUME NEW tip \in Seq(Commit), NEW among
    PROVE  /\ Replayed(tip, among) \in Seq(Commit)
           /\ Patches(Replayed(tip, among)) = Patches(tip) \ among
           /\ Once(tip) => Once(Replayed(tip, among))
<1> DEFINE K == {i \in DOMAIN tip : tip[i].patch \notin among}
           N == Cardinality(K)
           At(n) == CHOOSE i \in K : Rank(K, i) = n
           r == [n \in 1..N |-> tip[At(n)]]
<1>1. DOMAIN tip = 1..Len(tip) /\ Len(tip) \in Nat /\ \A i \in DOMAIN tip : tip[i] \in Commit
  BY LenProperties
<1>2. K \subseteq Nat /\ IsFiniteSet(K)
  <2>1. K \in SUBSET (1..Len(tip)) /\ 1..Len(tip) \subseteq Nat
    BY <1>1
  <2>2. IsFiniteSet(1..Len(tip))
    BY <1>1, FS_Interval
  <2> QED BY <2>1, <2>2, FS_Subset
<1>3. Replayed(tip, among) = r
  BY DEF Replayed, Rank, Upto
<1>4. N \in Nat
  BY <1>2, RankIs
<1>5. \A n \in 1..N : At(n) \in K /\ Rank(K, At(n)) = n
  BY <1>2, RankIs
<1>6. \A i \in K : Rank(K, i) \in 1..N /\ At(Rank(K, i)) = i
  <2>1. ASSUME NEW i \in K PROVE Rank(K, i) \in 1..N /\ At(Rank(K, i)) = i
    <3>1. Rank(K, i) \in 1..N
      BY <1>2, RankIs
    <3>2. At(Rank(K, i)) \in K /\ Rank(K, At(Rank(K, i))) = Rank(K, i)
      BY <1>5, <3>1
    <3> HIDE DEF At, N
    <3>3. At(Rank(K, i)) = i
      BY <1>2, <3>2, RankIs
    <3> QED BY <3>1, <3>3
  <2> QED BY <2>1
<1>7. \A i : i \in K <=> i \in DOMAIN tip /\ tip[i].patch \notin among
  OBVIOUS
<1> HIDE DEF K, N, At
<1>8. r \in Seq(Commit) /\ DOMAIN r = 1..N /\ \A n \in 1..N : r[n] = tip[At(n)]
  <2>1. \A n \in 1..N : tip[At(n)] \in Commit
    BY <1>1, <1>5, <1>7
  <2>2. r \in [1..N -> Commit]
    BY <2>1
  <2> QED BY <1>4, <2>2, SeqDef
<1> HIDE DEF r
<1>9. Patches(r) = Patches(tip) \ among
  <2>1. ASSUME NEW x \in Patches(r) PROVE x \in Patches(tip) \ among
    <3>1. PICK n \in 1..N : x = r[n].patch
      BY <1>8 DEF Patches
    <3> QED BY <1>5, <1>7, <1>8, <3>1 DEF Patches
  <2>2. ASSUME NEW x \in Patches(tip) \ among PROVE x \in Patches(r)
    <3>1. PICK i \in DOMAIN tip : x = tip[i].patch
      BY DEF Patches
    <3>2. i \in K
      BY <1>7, <3>1
    <3>3. Rank(K, i) \in 1..N /\ r[Rank(K, i)] = tip[i]
      BY <1>6, <1>8, <3>2
    <3> QED BY <1>8, <3>1, <3>3 DEF Patches
  <2> QED BY <2>1, <2>2
<1>10. ASSUME Once(tip) PROVE Once(r)
  <2>1. ASSUME NEW m \in 1..N, NEW n \in 1..N, r[m].patch = r[n].patch PROVE m = n
    <3>1. At(m) \in DOMAIN tip /\ At(n) \in DOMAIN tip /\ tip[At(m)].patch = tip[At(n)].patch
      BY <1>5, <1>7, <1>8, <2>1
    <3>2. At(m) = At(n)
      BY <1>10, <3>1 DEF Once
    <3> QED BY <1>5, <3>2
  <2> QED BY <1>8, <2>1 DEF Once
<1> QED BY <1>3, <1>8, <1>9, <1>10

-----------------------------------------------------------------------------
\* What each operation on a tip does to its patches.

LEMMA PrefixPatches ==
    ASSUME NEW s \in Seq(Commit), NEW t \in Seq(Commit), IsPrefix(s, t)
    PROVE  Patches(s) \subseteq Patches(t)
<1>1. DOMAIN s = 1..Len(s) /\ DOMAIN t = 1..Len(t) /\ Len(s) \in Nat /\ Len(t) \in Nat
  BY LenProperties
<1>2. Len(s) <= Len(t) /\ \A i \in 1..Len(s) : s[i] = t[i]
  BY PrefixMeans
<1>3. ASSUME NEW x \in Patches(s) PROVE x \in Patches(t)
  <2>1. PICK i \in DOMAIN s : x = s[i].patch
    BY DEF Patches
  <2>2. i \in DOMAIN t /\ x = t[i].patch
    BY <1>1, <1>2, <2>1
  <2> QED BY <2>2 DEF Patches
<1> QED BY <1>3

LEMMA PatchesTyped ==
    ASSUME NEW tip \in Seq(Commit)
    PROVE  Patches(tip) \subseteq Patch /\ (tip # <<>> => tip[1].patch \in Patches(tip))
<1>1. DOMAIN tip = 1..Len(tip) /\ Len(tip) \in Nat /\ \A i \in DOMAIN tip : tip[i] \in Commit
  BY LenProperties
<1>2. tip # <<>> => 1 \in DOMAIN tip
  BY <1>1, EmptySeq
<1> QED BY <1>1, <1>2 DEF Patches, Commit

\* A tip made of another one and what is put on top of it.
LEMMA ConcatDoes ==
    ASSUME NEW base \in Seq(Commit), NEW rest \in Seq(Commit)
    PROVE  /\ base \o rest \in Seq(Commit)
           /\ Len(base \o rest) = Len(base) + Len(rest)
           /\ IsPrefix(base, base \o rest)
           /\ Patches(base \o rest) = Patches(base) \cup Patches(rest)
           /\ Once(base) /\ Once(rest) /\ Patches(base) \cap Patches(rest) = {} => Once(base \o rest)
           /\ Signed(base) /\ Signed(rest) => Signed(base \o rest)
<1> DEFINE new == base \o rest
<1>1. /\ new \in Seq(Commit) /\ Len(new) = Len(base) + Len(rest)
      /\ \A i \in 1..(Len(base) + Len(rest)) :
             new[i] = IF i <= Len(base) THEN base[i] ELSE rest[i - Len(base)]
  BY ConcatProperties
<1> HIDE DEF new
<1>2. /\ DOMAIN base = 1..Len(base) /\ DOMAIN rest = 1..Len(rest)
      /\ DOMAIN new = 1..(Len(base) + Len(rest)) /\ Len(base) \in Nat /\ Len(rest) \in Nat
  BY <1>1, LenProperties
<1>3. \A i \in DOMAIN base : i \in DOMAIN new /\ new[i] = base[i]
  BY <1>1, <1>2
<1>4. \A i \in DOMAIN rest : Len(base) + i \in DOMAIN new /\ new[Len(base) + i] = rest[i]
  BY <1>1, <1>2
<1>5. \A i \in DOMAIN new : \/ i \in DOMAIN base
                            \/ i - Len(base) \in DOMAIN rest /\ i = Len(base) + (i - Len(base))
  BY <1>2
<1>6. IsPrefix(base, new)
  BY <1>1, <1>2, <1>3, PrefixMeans
<1>7. Patches(new) = Patches(base) \cup Patches(rest)
  <2>1. ASSUME NEW x \in Patches(new) PROVE x \in Patches(base) \cup Patches(rest)
    <3>1. PICK i \in DOMAIN new : x = new[i].patch
      BY DEF Patches
    <3>2. CASE i \in DOMAIN base
      BY <1>3, <3>1, <3>2 DEF Patches
    <3>3. CASE i \notin DOMAIN base
      <4>1. i - Len(base) \in DOMAIN rest /\ new[i] = rest[i - Len(base)]
        BY <1>4, <1>5, <3>3
      <4> QED BY <3>1, <4>1 DEF Patches
    <3> QED BY <3>2, <3>3
  <2>2. Patches(base) \subseteq Patches(new)
    BY <1>3 DEF Patches
  <2>3. ASSUME NEW x \in Patches(rest) PROVE x \in Patches(new)
    <3>1. PICK i \in DOMAIN rest : x = rest[i].patch
      BY DEF Patches
    <3>2. Len(base) + i \in DOMAIN new /\ x = new[Len(base) + i].patch
      BY <1>4, <3>1
    <3> QED BY <3>2 DEF Patches
  <2> QED BY <2>1, <2>2, <2>3
<1>8. ASSUME Once(base), Once(rest), Patches(base) \cap Patches(rest) = {} PROVE Once(new)
  <2>1. ASSUME NEW i \in DOMAIN new, NEW j \in DOMAIN new, new[i].patch = new[j].patch,
               i \in DOMAIN base
        PROVE  i = j
    <3>1. CASE j \in DOMAIN base
      BY <1>3, <1>8, <2>1, <3>1 DEF Once
    <3>2. CASE j \notin DOMAIN base
      <4>1. j - Len(base) \in DOMAIN rest /\ new[j] = rest[j - Len(base)]
        BY <1>4, <1>5, <3>2
      <4>2. new[j].patch \in Patches(rest) /\ new[i].patch \in Patches(base)
        BY <1>3, <2>1, <4>1 DEF Patches
      <4> QED BY <1>8, <2>1, <4>2
    <3> QED BY <3>1, <3>2
  <2>2. ASSUME NEW i \in DOMAIN new, NEW j \in DOMAIN new, new[i].patch = new[j].patch,
               i \notin DOMAIN base, j \notin DOMAIN base
        PROVE  i = j
    <3>1. /\ i - Len(base) \in DOMAIN rest /\ new[i] = rest[i - Len(base)]
          /\ j - Len(base) \in DOMAIN rest /\ new[j] = rest[j - Len(base)]
      BY <1>4, <1>5, <2>2
    <3>2. i - Len(base) = j - Len(base)
      BY <1>8, <2>2, <3>1 DEF Once
    <3> QED BY <1>2, <3>2
  <2> QED BY <2>1, <2>2 DEF Once
<1>9. ASSUME Signed(base), Signed(rest) PROVE Signed(new)
  <2>1. ASSUME NEW i \in DOMAIN new PROVE new[i].signed
    <3>1. CASE i \in DOMAIN base
      BY <1>3, <1>9, <3>1 DEF Signed
    <3>2. CASE i \notin DOMAIN base
      <4>1. i - Len(base) \in DOMAIN rest /\ new[i] = rest[i - Len(base)]
        BY <1>4, <1>5, <3>2
      <4> QED BY <1>9, <4>1 DEF Signed
    <3> QED BY <3>1, <3>2
  <2> QED BY <2>1 DEF Signed
<1> QED BY <1>1, <1>6, <1>7, <1>8, <1>9 DEF new

\* Rewriting a commit leaves its patch.
LEMMA CommitRewritten ==
    ASSUME NEW c \in Commit, NEW b \in BOOLEAN
    PROVE  LET d == [c EXCEPT !.sha = @ + 1, !.signed = b]
           IN d \in Commit /\ d.patch = c.patch /\ d.signed = b
<1>1. c.sha + 1 \in Nat
  BY DEF Commit
<1> QED BY <1>1 DEF Commit

LEMMA RebasedDoes ==
    ASSUME NEW tip \in Seq(Commit), NEW base \in Seq(Commit), tip # <<>>, base # <<>>
    PROVE  /\ Rebased(tip, base) \in Seq(Commit) \ {<<>>}
           /\ IsPrefix(base, Rebased(tip, base))
           /\ Patches(Rebased(tip, base)) = Patches(base) \cup Patches(tip)
           /\ Once(base) /\ Once(tip) => Once(Rebased(tip, base))
<1>1. CASE IsAncestor(base, tip)
  <2>1. Rebased(tip, base) = tip /\ IsPrefix(base, tip)
    BY <1>1 DEF Rebased, IsAncestor
  <2> QED BY <2>1, PrefixPatches
<1>2. CASE ~IsAncestor(base, tip)
  <2> DEFINE kept == Replayed(tip, Patches(base))
             rest == [i \in DOMAIN kept |-> [kept[i] EXCEPT !.sha = @ + 1, !.signed = FALSE]]
  <2>1. Rebased(tip, base) = base \o rest
    BY <1>2 DEF Rebased
  <2>2. /\ kept \in Seq(Commit) /\ Patches(kept) = Patches(tip) \ Patches(base)
        /\ Once(tip) => Once(kept)
    BY ReplayedDoes
  <2> HIDE DEF kept
  <2>3. DOMAIN kept = 1..Len(kept) /\ Len(kept) \in Nat /\ \A i \in DOMAIN kept : kept[i] \in Commit
    BY <2>2, LenProperties
  <2>4. rest \in Seq(Commit) /\ DOMAIN rest = DOMAIN kept
        /\ \A i \in DOMAIN kept : rest[i].patch = kept[i].patch
    <3>1. ASSUME NEW i \in DOMAIN kept PROVE rest[i] \in Commit /\ rest[i].patch = kept[i].patch
      <4>1. kept[i] \in Commit /\ rest[i] = [kept[i] EXCEPT !.sha = @ + 1, !.signed = FALSE]
        BY <2>3
      <4> QED BY <4>1, CommitRewritten
    <3>2. rest \in [1..Len(kept) -> Commit]
      BY <2>3, <3>1
    <3> QED BY <2>3, <3>1, <3>2, SeqDef
  <2> HIDE DEF rest
  <2>5. Patches(rest) = Patches(tip) \ Patches(base) /\ (Once(tip) => Once(rest))
    <3>1. Patches(rest) = Patches(kept)
      BY <2>4 DEF Patches
    <3>2. Once(kept) => Once(rest)
      BY <2>4 DEF Once
    <3> QED BY <2>2, <3>1, <3>2
  <2>6. Len(base) # 0 /\ Len(base) \in Nat /\ Len(rest) \in Nat
    BY <2>4, EmptySeq, LenProperties
  <2>7. /\ base \o rest \in Seq(Commit) /\ Len(base \o rest) = Len(base) + Len(rest)
        /\ IsPrefix(base, base \o rest)
        /\ Patches(base \o rest) = Patches(base) \cup Patches(rest)
        /\ Once(base) /\ Once(rest) /\ Patches(base) \cap Patches(rest) = {} => Once(base \o rest)
    BY <2>4, ConcatDoes
  <2>8. base \o rest # <<>>
    BY <2>6, <2>7, EmptySeq
  <2> QED BY <2>1, <2>5, <2>7, <2>8
<1> QED BY <1>1, <1>2

LEMMA ResignedDoes ==
    ASSUME NEW tip \in Seq(Commit), NEW base \in Seq(Commit), tip # <<>>, IsPrefix(base, tip)
    PROVE  /\ Resigned(tip, base) \in Seq(Commit) \ {<<>>}
           /\ IsPrefix(base, Resigned(tip, base))
           /\ Patches(Resigned(tip, base)) = Patches(tip)
           /\ Once(tip) => Once(Resigned(tip, base))
           /\ Signed(base) => Signed(Resigned(tip, base))
<1> DEFINE N == Len(tip) - Len(base)
           rest == [i \in 1..N |-> [tip[Len(base) + i] EXCEPT !.sha = @ + 1, !.signed = TRUE]]
           new == base \o rest
<1>1. Resigned(tip, base) = new
  BY DEF Resigned
<1>2. /\ Len(base) <= Len(tip) /\ \A i \in 1..Len(base) : base[i] = tip[i]
      /\ Len(base) \in Nat /\ Len(tip) \in Nat /\ N \in Nat
      /\ DOMAIN base = 1..Len(base) /\ DOMAIN tip = 1..Len(tip)
      /\ \A i \in DOMAIN tip : tip[i] \in Commit
  BY PrefixMeans, LenProperties
<1>3. \A i \in 1..N : Len(base) + i \in DOMAIN tip
  BY <1>2
<1>4. ASSUME NEW i \in 1..N
      PROVE  /\ rest[i] \in Commit /\ rest[i].patch = tip[Len(base) + i].patch
             /\ rest[i].signed = TRUE
  <2>1. /\ tip[Len(base) + i] \in Commit
        /\ rest[i] = [tip[Len(base) + i] EXCEPT !.sha = @ + 1, !.signed = TRUE]
    BY <1>2, <1>3
  <2> QED BY <2>1, CommitRewritten
<1>5. rest \in Seq(Commit) /\ DOMAIN rest = 1..N /\ Len(rest) = N
  <2>0. rest = [i \in 1..N |-> rest[i]]
    OBVIOUS
  <2>1. \A i \in 1..N : rest[i] \in Commit
    BY <1>4
  <2> HIDE DEF rest
  <2>2. rest \in [1..N -> Commit]
    BY <2>0, <2>1
  <2>3. rest \in Seq(Commit) /\ DOMAIN rest = 1..N
    BY <1>2, <2>2, SeqDef
  <2>4. Len(rest) \in Nat /\ DOMAIN rest = 1..Len(rest)
    BY <2>3, LenProperties
  <2>5. N \in Nat
    BY <1>2
  <2> HIDE DEF N
  <2> QED BY <2>3, <2>4, <2>5
<1> HIDE DEF rest
<1>6. /\ new \in Seq(Commit) /\ Len(new) = Len(tip) /\ IsPrefix(base, new)
      /\ \A i \in 1..Len(tip) : new[i] = IF i <= Len(base) THEN base[i] ELSE rest[i - Len(base)]
  <2>1. Len(base) + Len(rest) = Len(tip)
    BY <1>2, <1>5
  <2>2. new \in Seq(Commit) /\ Len(new) = Len(base) + Len(rest) /\ IsPrefix(base, new)
    BY <1>5, ConcatDoes
  <2>3. \A i \in 1..(Len(base) + Len(rest)) :
            new[i] = IF i <= Len(base) THEN base[i] ELSE rest[i - Len(base)]
    BY <1>5, ConcatProperties
  <2> HIDE DEF new
  <2> QED BY <2>1, <2>2, <2>3
<1>7. ASSUME Signed(base) PROVE Signed(new)
  <2>1. \A i \in DOMAIN rest : rest[i].signed
    BY <1>4, <1>5
  <2> QED BY <1>5, <1>7, <2>1, ConcatDoes DEF Signed
<1> HIDE DEF new
<1>8. DOMAIN new = DOMAIN tip /\ \A i \in DOMAIN tip : new[i].patch = tip[i].patch
  <2>1. DOMAIN new = 1..Len(tip)
    BY <1>6, LenProperties
  <2> HIDE DEF N
  <2>2. ASSUME NEW i \in 1..Len(tip) PROVE new[i].patch = tip[i].patch
    <3>1. CASE i <= Len(base)
      <4>1. i \in 1..Len(base)
        BY <1>2, <3>1
      <4> QED BY <1>2, <1>6, <3>1, <4>1
    <3>2. CASE ~ (i <= Len(base))
      <4>1. i - Len(base) \in 1..N /\ Len(base) + (i - Len(base)) = i
        BY <1>2, <3>2 DEF N
      <4>2. new[i] = rest[i - Len(base)]
        BY <1>6, <3>2
      <4> QED BY <1>4, <4>1, <4>2
    <3> QED BY <3>1, <3>2
  <2> QED BY <1>2, <2>1, <2>2
<1>9. Patches(new) = Patches(tip) /\ (Once(tip) => Once(new))
  <2>1. Patches(new) = Patches(tip)
    BY <1>8 DEF Patches
  <2>2. Once(tip) => Once(new)
    BY <1>8 DEF Once
  <2> QED BY <2>1, <2>2
<1>10. new # <<>>
  BY <1>6, EmptySeq
<1> QED BY <1>1, <1>6, <1>7, <1>9, <1>10

LEMMA AppendDoes ==
    ASSUME NEW tip \in Seq(Commit), NEW c \in Commit
    PROVE  /\ Append(tip, c) \in Seq(Commit) \ {<<>>}
           /\ IsPrefix(tip, Append(tip, c))
           /\ Patches(Append(tip, c)) = Patches(tip) \cup {c.patch}
           /\ Once(tip) /\ c.patch \notin Patches(tip) => Once(Append(tip, c))
           /\ Signed(tip) /\ c.signed => Signed(Append(tip, c))
<1>1. Append(tip, c) = tip \o <<c>> /\ Append(tip, c) # <<>>
  BY AppendIsConcat, AppendProperties
<1>2. <<c>> \in Seq(Commit) /\ DOMAIN <<c>> = {1} /\ <<c>>[1] = c
  OBVIOUS
<1>3. Patches(<<c>>) = {c.patch} /\ Once(<<c>>) /\ (c.signed => Signed(<<c>>))
  BY <1>2 DEF Patches, Once, Signed
<1> DEFINE one == <<c>>
<1>4. one \in Seq(Commit) /\ Patches(one) = {c.patch} /\ Once(one) /\ (c.signed => Signed(one))
  BY <1>2, <1>3
<1>5. Append(tip, c) = tip \o one /\ Append(tip, c) # <<>>
  BY <1>1
<1> HIDE DEF one
<1>6. Patches(tip) \cap Patches(one) = {} <=> c.patch \notin Patches(tip)
  BY <1>4
<1> QED BY <1>4, <1>5, <1>6, ConcatDoes

-----------------------------------------------------------------------------
\* What a layer sits on.

LEMMA TipsTyped ==
    ASSUME TypeInv
    PROVE  /\ upstream \in Seq(Commit) \ {<<>>} /\ trunkRef \in Seq(Commit) \ {<<>>}
           /\ \A l \in Layer : branch[l] \in Seq(Commit) \ {<<>>} /\ origin[l] \in Seq(Commit)
           /\ stack \subseteq Layer /\ stack \subseteq Nat /\ Trunk \notin stack
           /\ run.st \in RunState /\ saved \in RunState
BY LayerTyped DEF TypeInv, TypeOK

LEMMA BelowIs ==
    ASSUME NEW S, S \subseteq Layer, NEW l \in Layer, Below(S, l) # {}
    PROVE  /\ Max(Below(S, l)) \in S /\ Max(Below(S, l)) < l
           /\ \A k \in Below(S, l) : k = Max(Below(S, l)) \/ k \in Below(S, Max(Below(S, l)))
<1> DEFINE B == Below(S, l)
           m == Max(B)
<1>1. B \subseteq Layer /\ B # {}
  BY DEF Below
<1>2. m \in B /\ \A k \in B : k <= m
  BY <1>1, MaxIs
<1>3. \A k \in B : k \in S /\ k \in Nat /\ m \in Nat
  BY <1>1, <1>2, LayerTyped DEF Below
<1>4. m \in S /\ m < l
  BY <1>2 DEF Below
<1> HIDE DEF m
<1>5. \A k \in B : k = m \/ k < m
  BY <1>2, <1>3
<1>6. \A k \in B : k = m \/ k \in Below(S, m)
  BY <1>3, <1>5 DEF Below
<1> QED BY <1>4, <1>6 DEF m

\* The base of a layer is the trunk, or the branch of the highest layer below it.
LEMMA UnderIs ==
    ASSUME TypeInv, NEW l \in Layer
    PROVE  /\ Under(stack, l) \in Seq(Commit) \ {<<>>}
           /\ \/ Below(stack, l) = {} /\ Under(stack, l) = trunkRef
              \/ \E m \in Below(stack, l) :
                    /\ Under(stack, l) = branch[m]
                    /\ \A k \in Below(stack, l) : k = m \/ k \in Below(stack, m)
<1>1. CASE Below(stack, l) = {}
  BY <1>1, TipsTyped DEF Under
<1>2. CASE Below(stack, l) # {}
  <2> DEFINE m == Max(Below(stack, l))
  <2>1. /\ m \in stack /\ m < l
        /\ \A k \in Below(stack, l) : k = m \/ k \in Below(stack, m)
    BY <1>2, TipsTyped, BelowIs
  <2>2. Under(stack, l) = branch[m]
    BY <1>2 DEF Under
  <2> HIDE DEF m
  <2>3. m \in Below(stack, l) /\ m \in Layer
    BY <2>1, TipsTyped DEF Below
  <2> QED BY <2>1, <2>2, <2>3, TipsTyped
<1> QED BY <1>1, <1>2

LEMMA SitsOnBase ==
    ASSUME TypeInv, NEW l \in stack, \A k \in Below(stack, l) : Sits(branch[k], k),
           NEW tip \in Seq(Commit)
    PROVE  IsPrefix(Under(stack, l), tip) <=> Sits(tip, l)
<1>1. l \in Layer /\ trunkRef \in Seq(Commit)
      /\ \A k \in stack : branch[k] \in Seq(Commit)
  BY TipsTyped
<1>2. CASE Below(stack, l) = {} /\ Under(stack, l) = trunkRef
  BY <1>2 DEF Sits
<1>3. ASSUME NEW m \in Below(stack, l), Under(stack, l) = branch[m],
             \A k \in Below(stack, l) : k = m \/ k \in Below(stack, m)
      PROVE  IsPrefix(Under(stack, l), tip) <=> Sits(tip, l)
  <2>1. m \in stack /\ \A k \in Below(stack, l) : k \in stack
    BY DEF Below
  <2>2. Sits(tip, l) => IsPrefix(branch[m], tip)
    BY DEF Sits
  <2>3. ASSUME IsPrefix(branch[m], tip) PROVE Sits(tip, l)
    <3>1. IsPrefix(trunkRef, branch[m]) /\ \A k \in Below(stack, m) : IsPrefix(branch[k], branch[m])
      BY DEF Sits
    <3>2. IsPrefix(trunkRef, tip)
      BY <1>1, <2>1, <2>3, <3>1, PrefixOrder
    <3>3. ASSUME NEW k \in Below(stack, l) PROVE IsPrefix(branch[k], tip)
      <4>1. CASE k = m
        BY <2>3, <4>1
      <4>2. CASE k \in Below(stack, m)
        BY <1>1, <2>1, <2>3, <3>1, <4>2, PrefixOrder
      <4> QED BY <1>3, <4>1, <4>2
    <3> QED BY <3>2, <3>3 DEF Sits
  <2> QED BY <1>3, <2>2, <2>3
<1> QED BY <1>1, <1>2, <1>3, UnderIs

\* When no layer of open is out of step with the one right below it, open is a chain.
LEMMA NotStaleIsChain ==
    ASSUME TypeInv, NEW open, open \subseteq stack, ~AnyStale(open)
    PROVE  \A l \in open : \A k \in Below(open, l) : IsPrefix(branch[k], branch[l])
<1> DEFINE Bad == {l \in open : \E k \in Below(open, l) : ~IsPrefix(branch[k], branch[l])}
<1>1. open \subseteq Layer /\ open \subseteq Nat /\ \A k \in open : branch[k] \in Seq(Commit)
  BY TipsTyped
<1>2. ASSUME Bad # {} PROVE FALSE
  <2>1. PICK l \in Bad : \A j \in Bad : l <= j
    <3>1. Bad \subseteq Nat
      BY <1>1
    <3> QED BY <1>2, <3>1, LeastNat
  <2>2. PICK k \in Below(open, l) : ~IsPrefix(branch[k], branch[l])
    BY <2>1
  <2> DEFINE m == Max(Below(open, l))
  <2>3. /\ m \in open /\ m < l
        /\ \A j \in Below(open, l) : j = m \/ j \in Below(open, m)
    BY <1>1, <2>2, BelowIs
  <2>4. IsPrefix(branch[m], branch[l])
    BY <2>1, <2>2 DEF AnyStale, IsAncestor
  <2> HIDE DEF m
  <2>5. m \notin Bad
    BY <1>1, <2>1, <2>3
  <2>6. k \in Below(open, m) /\ k \in open /\ l \in open
    BY <2>2, <2>3, <2>4 DEF Below
  <2>7. IsPrefix(branch[k], branch[m])
    BY <2>3, <2>5, <2>6
  <2> QED BY <1>1, <2>2, <2>3, <2>4, <2>6, <2>7, PrefixOrder
<1> QED BY <1>2

-----------------------------------------------------------------------------
\* Numbers of patches, and what a step leaves of Grown.

LEMMA NumberFresh ==
    ASSUME NEW ps, ps \subseteq Patch, NEW k \in Layer \cup {Trunk}, Numbered(ps, k)
    PROVE  LET p == <<k, Number(ps, k)>>
           IN p \in Patch /\ p \notin ps /\ Numbered(ps \cup {p}, k)
<1> DEFINE n == Number(ps, k)
           p == <<k, n>>
           old == {q \in ps : q[1] = k}
           new == {q \in ps \cup {p} : q[1] = k}
<1>1. IsFiniteSet(old) /\ n = Cardinality(old) /\ n \in Nat
  BY FS_CardinalityType DEF Numbered, Number
<1>2. \A q \in ps : q[1] = k => q[2] < n
  BY DEF Numbered
<1> HIDE DEF n
<1>3. p \in Patch /\ p[1] = k /\ p[2] = n
  BY <1>1 DEF Patch
<1>4. p \notin ps
  BY <1>1, <1>2, <1>3
<1>5. new = old \cup {p}
  BY <1>3
<1>6. IsFiniteSet(new) /\ Cardinality(new) = n + 1
  <2>1. p \notin old
    BY <1>4
  <2> HIDE DEF old, p, new
  <2> QED BY <1>1, <1>5, <2>1, FS_AddElement
<1>7. \A q \in ps \cup {p} : q[1] = k => q[2] < n + 1
  <2>1. \A q \in ps : q[2] \in Nat
    BY DEF Patch
  <2> QED BY <1>1, <1>2, <1>3, <2>1
<1> QED BY <1>3, <1>4, <1>6, <1>7 DEF n, Numbered, Number

LEMMA MadeGrows ==
    ASSUME Patches(upstream) \subseteq Patches(upstream)',
           \A l \in Layer : authored[l] \subseteq authored'[l]
    PROVE  Made \subseteq Made' /\ \A tip : Sound(tip) => Once(tip) /\ Patches(tip) \subseteq Made'
<1>1. Made \subseteq Made'
  <2>1. \A p \in Patch : p[1] # Trunk => p[1] \in Layer
    BY DEF Patch
  <2> QED BY <2>1 DEF Made
<1> QED BY <1>1 DEF Sound

\* Moving tips about makes no patch and keeps them sound.
LEMMA GrownMoves ==
    ASSUME Grown, UNCHANGED <<upstream, authored>>,
           trunkRef' \in {trunkRef, upstream}, IsPrefix(trunkRef', upstream),
           Sound(gitRebase'.result),
           \A l \in Layer : Sound(branch'[l]) /\ Sound(origin'[l])
    PROVE  Grown'
<1>1. Made' = Made
  BY DEF Made
<1>2. Sound(trunkRef')
  BY DEF Grown
<1>3. Sound(upstream)'
  BY <1>1 DEF Grown, Sound
<1>4. Sound(trunkRef)'
  BY <1>1, <1>2 DEF Sound
<1>5. Sound(gitRebase.result)'
  BY <1>1 DEF Sound
<1>6. \A l \in Layer : Sound(branch[l])' /\ Sound(origin[l])'
  BY <1>1 DEF Sound
<1> QED BY <1>3, <1>4, <1>5, <1>6 DEF Grown

LEMMA SoundNothing == Once(<<>>) /\ Patches(<<>>) = {} /\ Sound(<<>>) /\ Sound(NoRebase.result)
<1>1. DOMAIN <<>> = {}
  OBVIOUS
<1>2. Once(<<>>) /\ Patches(<<>>) = {}
  BY <1>1 DEF Once, Patches
<1> QED BY <1>2 DEF Sound, NoRebase

\* What two sound tips make of one another is sound.
LEMMA RebaseSound ==
    ASSUME NEW tip \in Seq(Commit) \ {<<>>}, NEW base \in Seq(Commit) \ {<<>>},
           Sound(tip), Sound(base)
    PROVE  /\ Sound(Rebased(tip, base))
           /\ IsPrefix(base, tip) => Sound(Resigned(tip, base))
BY RebasedDoes, ResignedDoes DEF Sound

-----------------------------------------------------------------------------
\* The world around dotty keeps the invariant.

LEMMA TrunkAdvancesKeeps ==
    ASSUME IInv, TrunkAdvances PROVE IInv'
<1> USE DEF IInv
<1> DEFINE n == Cardinality({p \in Patches(upstream) : p[1] = Trunk})
           c == [patch |-> <<Trunk, n>>, sha |-> 0, signed |-> TRUE]
<1>1. /\ upstream' = Append(upstream, c)
      /\ UNCHANGED <<trunkRef, branch, origin, pr, recorded, stack, head, gitRebase,
                     saved, run, runs, authored, home, owed, cut>>
  BY DEF TrunkAdvances, lineage, history
<1>2. upstream \in Seq(Commit) \ {<<>>} /\ trunkRef \in Seq(Commit)
  BY TipsTyped
<1>3. n = Number(Patches(upstream), Trunk) /\ Numbered(Patches(upstream), Trunk)
  BY DEF Number, Grown
<1> HIDE DEF n
<1>4. /\ <<Trunk, n>> \in Patch /\ <<Trunk, n>> \notin Patches(upstream)
      /\ Numbered(Patches(upstream) \cup {<<Trunk, n>>}, Trunk)
  BY <1>2, <1>3, PatchesTyped, NumberFresh
<1>5. c \in Commit /\ c.patch = <<Trunk, n>> /\ c.signed
  BY <1>4 DEF Commit
<1> HIDE DEF c
<1>6. /\ upstream' \in Seq(Commit) \ {<<>>} /\ IsPrefix(upstream, upstream')
      /\ Patches(upstream') = Patches(upstream) \cup {<<Trunk, n>>}
      /\ Once(upstream) => Once(upstream')
      /\ Signed(upstream) => Signed(upstream')
  BY <1>1, <1>2, <1>4, <1>5, AppendDoes
<1>7. TypeInv'
  BY <1>1, <1>6 DEF TypeInv, TypeOK
<1>8. Placed'
  BY <1>1 DEF Placed, Rebasing
<1>9. Grown'
  <2>1. Made \subseteq Made' /\ \A tip : Sound(tip) => Once(tip) /\ Patches(tip) \subseteq Made'
    BY <1>1, <1>6, MadeGrows
  <2>2. Numbered(Patches(upstream), Trunk)'
    BY <1>4, <1>6
  <2>3. Sound(upstream)'
    <3>1. <<Trunk, n>> \in Made'
      BY <1>4, <1>6 DEF Made
    <3>2. Once(upstream) /\ Patches(upstream) \subseteq Made'
      BY <2>1 DEF Grown
    <3> QED BY <1>6, <3>1, <3>2 DEF Sound
  <2>4. IsPrefix(trunkRef, upstream)'
    BY <1>1, <1>2, <1>6, PrefixOrder DEF Grown
  <2> QED BY <1>1, <2>1, <2>2, <2>3, <2>4 DEF Grown, Sound
<1>10. Kept'
  BY <1>1 DEF Kept
<1>11. Chain'
  BY <1>1 DEF Chain, Sits, Below
<1>12. Listed' /\ AllSigned'
  BY <1>1, <1>6 DEF Listed, AllSigned, Signable, Rebasing
<1> QED BY <1>7, <1>8, <1>9, <1>10, <1>11, <1>12

LEMMA LandPRKeeps ==
    ASSUME IInv, NEW l \in Layer, LandPR(l) PROVE IInv'
<1> USE DEF IInv
<1>1. /\ upstream' = origin[l] /\ IsPrefix(upstream, origin[l])
      /\ pr' = [k \in Layer |-> IF pr[k] = "open" /\ IsAncestor(origin[k], origin[l])
                                THEN "merged" ELSE pr[k]]
      /\ UNCHANGED <<trunkRef, branch, origin, recorded, stack, head, gitRebase,
                     saved, run, runs, authored, home, owed, cut>>
  BY DEF LandPR, lineage, history, IsAncestor
<1>2. upstream \in Seq(Commit) \ {<<>>} /\ trunkRef \in Seq(Commit) /\ origin[l] \in Seq(Commit)
  BY TipsTyped
<1>3. origin[l] # <<>>
  <2>1. Len(upstream) <= Len(origin[l]) /\ Len(upstream) \in Nat /\ Len(origin[l]) \in Nat
    BY <1>1, <1>2, PrefixMeans, LenProperties
  <2> QED BY <1>2, <2>1, EmptySeq
<1>4. Patches(upstream) \subseteq Patches(origin[l])
  BY <1>1, <1>2, PrefixPatches
<1>5. TypeInv'
  <2>1. pr' \in [Layer -> {"none", "open", "merged"}]
    BY <1>1 DEF TypeInv, TypeOK
  <2> QED BY <1>1, <1>2, <1>3, <2>1 DEF TypeInv, TypeOK
<1>6. Placed'
  BY <1>1 DEF Placed, Rebasing
<1>7. Grown'
  <2>1. Made \subseteq Made' /\ \A tip : Sound(tip) => Once(tip) /\ Patches(tip) \subseteq Made'
    BY <1>1, <1>4, MadeGrows
  <2>2. Numbered(Patches(upstream), Trunk)'
    <3>1. \A p \in Patches(origin[l]) : p[1] = Trunk => p \in Patches(upstream)
      BY DEF Grown, Sound, Made
    <3>2. {p \in Patches(origin[l]) : p[1] = Trunk} = {p \in Patches(upstream) : p[1] = Trunk}
      BY <1>4, <3>1
    <3>3. Numbered(Patches(origin[l]), Trunk)
      BY <3>1, <3>2 DEF Grown, Numbered, Number
    <3> QED BY <1>1, <3>3
  <2>3. IsPrefix(trunkRef, upstream)'
    BY <1>1, <1>2, PrefixOrder DEF Grown
  <2>4. Sound(upstream)'
    BY <1>1, <2>1 DEF Grown, Sound
  <2> QED BY <1>1, <2>1, <2>2, <2>3, <2>4 DEF Grown, Sound
<1>8. Kept'
  BY <1>1 DEF Kept
<1>9. Chain'
  BY <1>1 DEF Chain, Sits, Below
<1>10. Listed' /\ AllSigned'
  BY <1>1 DEF Listed, AllSigned, Signable, Rebasing
<1> QED BY <1>5, <1>6, <1>7, <1>8, <1>9, <1>10

\* A commit is new, and only a stack nobody is rebasing gets one.
LEMMA UserCommitsKeeps ==
    ASSUME IInv, UserCommits PROVE IInv'
<1> USE DEF IInv
<1> DEFINE n == Cardinality({p \in authored[head] : p[1] = head})
           q == <<head, n>>
           c == [patch |-> q, sha |-> 0, signed |-> TRUE]
<1>1. /\ run = Idle /\ gitRebase = NoRebase /\ head \in stack
      /\ branch' = [branch EXCEPT ![head] = Append(@, c)]
      /\ authored' = [authored EXCEPT ![head] = @ \cup {q}]
      /\ UNCHANGED <<upstream, pr, trunkRef, origin, recorded, stack, head, gitRebase,
                     saved, run, runs, home, owed, cut>>
  BY DEF UserCommits, lineage, server
<1>2. /\ head \in Layer /\ head # Trunk /\ branch[head] \in Seq(Commit) \ {<<>>}
      /\ authored \in [Layer -> SUBSET Patch] /\ branch \in [Layer -> Seq(Commit) \ {<<>>}]
  BY <1>1, TipsTyped DEF TypeInv, TypeOK
<1>3. n = Number(authored[head], head) /\ Numbered(authored[head], head)
  BY <1>2 DEF Number, Grown
<1> HIDE DEF n
<1>4. q \in Patch /\ q \notin authored[head] /\ Numbered(authored[head] \cup {q}, head)
  BY <1>2, <1>3, NumberFresh
<1>5. q \notin Patches(branch[head])
  BY <1>2, <1>4 DEF Grown, Sound, Made
<1>6. c \in Commit /\ c.patch = q /\ c.signed
  BY <1>4 DEF Commit
<1>7. q[1] = head
  OBVIOUS
<1> HIDE DEF c, q
<1>8. /\ branch'[head] \in Seq(Commit) \ {<<>>}
      /\ Patches(branch'[head]) = Patches(branch[head]) \cup {q}
      /\ Once(branch[head]) => Once(branch'[head])
      /\ Signed(branch[head]) => Signed(branch'[head])
  <2>1. branch'[head] = Append(branch[head], c)
    BY <1>1, <1>2
  <2> QED BY <1>2, <1>5, <1>6, <2>1, AppendDoes
<1>9. \A k \in Layer : k # head => branch'[k] = branch[k] /\ authored'[k] = authored[k]
  BY <1>1, <1>2
<1>10. authored'[head] = authored[head] \cup {q}
  BY <1>1, <1>2
<1>11. TypeInv'
  <2>1. branch' \in [Layer -> Seq(Commit) \ {<<>>}] /\ authored' \in [Layer -> SUBSET Patch]
    <3>1. branch' = [k \in Layer |-> branch'[k]] /\ authored' = [k \in Layer |-> authored'[k]]
      BY <1>1, <1>2
    <3>2. \A k \in Layer : branch'[k] \in Seq(Commit) \ {<<>>} /\ authored'[k] \in SUBSET Patch
      BY <1>2, <1>4, <1>8, <1>9, <1>10
    <3> QED BY <3>1, <3>2
  <2> QED BY <1>1, <2>1 DEF TypeInv, TypeOK
<1>12. Placed'
  BY <1>1 DEF Placed, Rebasing
<1>13. Grown'
  <2>1. Made \subseteq Made' /\ \A tip : Sound(tip) => Once(tip) /\ Patches(tip) \subseteq Made'
    BY <1>1, <1>9, <1>10, MadeGrows
  <2>2. \A k \in Layer : Numbered(authored[k], k)'
    BY <1>4, <1>9, <1>10 DEF Grown
  <2>3. q \in Made'
    BY <1>2, <1>4, <1>7, <1>10 DEF Made
  <2>4. \A k \in Layer : Once(branch'[k]) /\ Patches(branch'[k]) \subseteq Made'
    BY <1>8, <1>9, <2>1, <2>3 DEF Grown, Sound
  <2>5. \A k \in Layer : Sound(branch[k])' /\ Sound(origin[k])'
    BY <1>1, <2>1, <2>4 DEF Grown, Sound
  <2>6. Sound(upstream)' /\ Sound(trunkRef)' /\ Sound(gitRebase.result)'
    BY <1>1, <2>1 DEF Grown, Sound
  <2> QED BY <1>1, <2>2, <2>5, <2>6 DEF Grown
<1>14. Kept'
  BY <1>1, <1>2, <1>8, <1>9, <1>10, TipsTyped DEF Kept
<1>15. Chain'
  BY <1>1 DEF Chain, Idle
<1>16. Listed'
  BY <1>1 DEF Listed
<1>17. AllSigned'
  <2>1. Signable = {Trunk} /\ Signable' = {Trunk}
    BY <1>1 DEF Signable, Idle, NoRebase
  <2>2. \A k \in Layer \ {Trunk} : Signed(branch[k]) => Signed(branch'[k])
    BY <1>8, <1>9
  <2> QED BY <1>1, <2>1, <2>2 DEF AllSigned
<1> QED BY <1>11, <1>12, <1>13, <1>14, <1>15, <1>16, <1>17

LEMMA UserSwitchesKeeps ==
    ASSUME IInv, NEW l \in Layer, UserSwitches(l) PROVE IInv'
<1> USE DEF IInv
<1>1. /\ head' \in stack
      /\ UNCHANGED <<upstream, pr, trunkRef, branch, origin, recorded, stack, gitRebase,
                     saved, run, runs, authored, home, owed, cut>>
  BY DEF UserSwitches, lineage, history, server
<1>2. TypeInv'
  BY <1>1 DEF TypeInv, TypeOK
<1>3. Placed' /\ Kept' /\ Listed' /\ AllSigned'
  BY <1>1 DEF Placed, Kept, Listed, AllSigned, Signable, Rebasing
<1>4. Grown'
  BY <1>1 DEF Grown, Sound, Made
<1>5. Chain'
  BY <1>1 DEF Chain, Sits, Below
<1> QED BY <1>2, <1>3, <1>4, <1>5

-----------------------------------------------------------------------------
\* Sync and propose, up to the rebase.

LEMMA RelationMeans ==
    ASSUME NEW tip \in Seq(Commit), NEW trunk \in Seq(Commit)
    PROVE  /\ Relation(tip, trunk) \in {"merged", "identical"} => IsPrefix(tip, trunk)
           /\ Relation(tip, trunk) \notin {"merged", "diverged"} => IsPrefix(trunk, tip)
BY PrefixOrder DEF Relation, IsStrictPrefix

LEMMA LandedMeans ==
    ASSUME TypeInv, NEW trunk \in Seq(Commit), NEW ghUp,
           NEW landed, landed = LandedLayers(Status(stack, trunk), ghUp)
    PROVE  /\ landed \subseteq stack
           /\ \A l \in landed : IsPrefix(branch[l], trunk)
           /\ \A l \in stack \ landed :
                 Relation(branch[l], trunk) # "diverged" => IsPrefix(trunk, branch[l])
<1> DEFINE rel == Status(stack, trunk)
<1>1. DOMAIN rel = stack /\ \A l \in stack : rel[l] = Relation(branch[l], trunk)
  BY DEF Status
<1> HIDE DEF rel
<1>2. landed \subseteq stack /\ \A l \in landed : rel[l] \in {"merged", "identical"}
  BY <1>1 DEF LandedLayers, rel
<1>3. \A l \in stack : rel[l] = "merged" => l \in landed
  BY <1>1 DEF LandedLayers, rel
<1>4. \A l \in stack : branch[l] \in Seq(Commit)
  BY TipsTyped
<1> QED BY <1>1, <1>2, <1>3, <1>4, RelationMeans

LEMMA HeadMeans ==
    ASSUME TypeInv, head \in stack, NEW landed
    PROVE  /\ HeadAfterCleanup(landed) \in (stack \ landed) \cup {Trunk}
           /\ stack \ landed # {} => HeadAfterCleanup(landed) \in stack \ landed
<1>1. stack \ landed \subseteq Layer
  BY TipsTyped
<1>2. stack \ landed # {} => Max(stack \ landed) \in stack \ landed
  BY <1>1, MaxIs
<1> QED BY <1>2 DEF HeadAfterCleanup

\* What Begin does, whatever it decides.
LEMMA BeginDoes ==
    ASSUME IInv, NEW cmd \in {"sync", "propose"}, NEW fetched \in BOOLEAN, NEW ghUp \in BOOLEAN,
           NEW deleted \in BOOLEAN, NEW all \in BOOLEAN, Begin(cmd, fetched, ghUp, deleted, all)
    PROVE  /\ run = Idle /\ gitRebase = NoRebase
           /\ trunkRef' \in {trunkRef, upstream}
           /\ stack' \subseteq stack /\ recorded' \subseteq stack' /\ head' \in stack' \cup {Trunk}
           /\ \A l \in stack \ stack' : IsPrefix(branch[l], trunkRef')
           /\ origin' = [l \in Layer |-> origin'[l]]
           /\ \A l \in Layer : origin'[l] \in {origin[l], <<>>}
           /\ owed' \subseteq owed /\ owed' \subseteq stack'
           /\ UNCHANGED <<upstream, pr, branch, gitRebase, authored, cut>>
           /\ \/ /\ UNCHANGED <<saved, home>>
                 /\ run' = Idle \/ (run' = [Idle EXCEPT !.pc = "done", !.cmd = cmd] /\ stack' = {})
              \/ /\ run'.pc = "rebase" /\ stack' # {} /\ head' \in stack' /\ home' = head'
                 /\ saved' = [open |-> stack', at |-> Min(stack'), rewritten |-> {}, orig |-> head']
                 /\ \E scope \in SUBSET stack' :
                       run' = [Idle EXCEPT !.pc = "rebase", !.cmd = cmd, !.st = saved', !.through = scope]
              \/ /\ UNCHANGED <<saved, home>>
                 /\ \E scope \in SUBSET stack' :
                       run' = [Idle EXCEPT !.pc = IF cmd = "sync" THEN "done" ELSE "publish",
                                           !.cmd = cmd, !.through = scope]
                 /\ cmd = "sync" => /\ ~AnyStale(stack')
                                    /\ \A l \in stack' : IsPrefix(trunkRef', branch[l])
<1> USE DEF IInv
<1> DEFINE trunk   == IF fetched THEN upstream ELSE trunkRef
           landed  == LandedLayers(Status(stack, trunk), ghUp)
           open    == stack \ landed
           cur     == HeadAfterCleanup(landed)
           scope   == {l \in open : all \/ l <= cur}
           checked == IF cmd = "sync" THEN open ELSE scope
           rel     == Status(checked, trunk)
           st      == [open |-> open, at |-> IF open = {} THEN Trunk ELSE Min(open),
                       rewritten |-> {}, orig |-> cur]
           needs   == AnyDiverged(rel) \/ AnyStale(checked)
<1>1. /\ run = Idle /\ gitRebase = NoRebase /\ head \in stack
      /\ trunkRef' = trunk /\ stack' = open /\ recorded' = recorded \ landed
      /\ origin' = [l \in Layer |-> IF l \in landed /\ deleted THEN <<>> ELSE origin[l]]
      /\ head' = cur /\ owed' = owed \ landed
      /\ UNCHANGED <<upstream, pr, branch, gitRebase, authored, cut>>
  BY DEF Begin, server
<1>2. \/ open = {} /\ run' = [Idle EXCEPT !.pc = "done", !.cmd = cmd] /\ UNCHANGED <<saved, home>>
      \/ /\ open # {} /\ saved' = st /\ home' = cur
         /\ run' = [Idle EXCEPT !.pc = "rebase", !.cmd = cmd, !.st = st, !.through = scope]
      \/ run' = Idle /\ UNCHANGED <<saved, home>>
      \/ /\ ~needs /\ UNCHANGED <<saved, home>>
         /\ run' = [Idle EXCEPT !.pc = IF cmd = "sync" THEN "done" ELSE "publish",
                                !.cmd = cmd, !.through = scope]
  BY DEF Begin
<1>3. trunk \in {trunkRef, upstream} /\ trunk \in Seq(Commit)
  BY TipsTyped
<1> HIDE DEF trunk
<1>4. /\ landed \subseteq stack /\ \A l \in landed : IsPrefix(branch[l], trunk)
      /\ \A l \in open : Relation(branch[l], trunk) # "diverged" => IsPrefix(trunk, branch[l])
  BY <1>3, LandedMeans
<1>5. cur \in open \cup {Trunk} /\ (open # {} => cur \in open)
  BY <1>1, HeadMeans
<1>6. scope \subseteq open
  OBVIOUS
<1>7. ASSUME cmd = "sync", ~needs
      PROVE  ~AnyStale(open) /\ \A l \in open : IsPrefix(trunk, branch[l])
  <2>1. rel = [l \in open |-> Relation(branch[l], trunk)] /\ ~AnyStale(open)
    BY <1>7 DEF Status
  <2>2. ~AnyDiverged(rel)
    BY <1>7
  <2>3. \A l \in open : Relation(branch[l], trunk) # "diverged"
    BY <2>1, <2>2 DEF AnyDiverged
  <2> QED BY <1>4, <2>1, <2>3
<1> HIDE DEF landed, cur, scope, needs
<1>8. recorded' \subseteq stack' /\ owed' \subseteq stack' /\ owed' \subseteq owed
  BY <1>1 DEF TypeInv, TypeOK
<1>9. /\ origin' = [l \in Layer |-> origin'[l]]
      /\ \A l \in Layer : origin'[l] \in {origin[l], <<>>}
  BY <1>1
<1>10. \A l \in stack \ stack' : IsPrefix(branch[l], trunkRef')
  BY <1>1, <1>4
<1>11. CASE open = {} /\ run' = [Idle EXCEPT !.pc = "done", !.cmd = cmd] /\ UNCHANGED <<saved, home>>
  BY <1>1, <1>3, <1>5, <1>8, <1>9, <1>10, <1>11
<1>12. CASE /\ open # {} /\ saved' = st /\ home' = cur
            /\ run' = [Idle EXCEPT !.pc = "rebase", !.cmd = cmd, !.st = st, !.through = scope]
  <2>1. saved' = [open |-> stack', at |-> Min(stack'), rewritten |-> {}, orig |-> head']
    BY <1>1, <1>12
  <2>2. run' = [Idle EXCEPT !.pc = "rebase", !.cmd = cmd, !.st = saved', !.through = scope]
    BY <1>12
  <2>3. run'.pc = "rebase"
    BY <2>2 DEF Idle
  <2>4. scope \in SUBSET stack' /\ stack' # {} /\ head' \in stack' /\ home' = head'
    BY <1>1, <1>5, <1>6, <1>12
  <2> QED BY <1>1, <1>3, <1>5, <1>8, <1>9, <1>10, <2>1, <2>2, <2>3, <2>4
<1>13. CASE run' = Idle /\ UNCHANGED <<saved, home>>
  BY <1>1, <1>3, <1>5, <1>8, <1>9, <1>10, <1>13
<1>14. CASE /\ ~needs /\ UNCHANGED <<saved, home>>
            /\ run' = [Idle EXCEPT !.pc = IF cmd = "sync" THEN "done" ELSE "publish",
                                   !.cmd = cmd, !.through = scope]
  <2>1. cmd = "sync" => /\ ~AnyStale(stack')
                        /\ \A l \in stack' : IsPrefix(trunkRef', branch[l])
    BY <1>1, <1>7, <1>14
  <2>2. scope \in SUBSET stack'
    BY <1>1, <1>6
  <2> QED BY <1>1, <1>3, <1>5, <1>8, <1>9, <1>10, <1>14, <2>1, <2>2
<1> QED BY <1>2, <1>11, <1>12, <1>13, <1>14

LEMMA IdleTyped ==
    /\ Idle \in Command /\ Idle.pc = "idle" /\ NoState \in RunState /\ NoRebase.on = Trunk
    /\ Idle.opened = {} /\ Idle.through = {} /\ NoState.open = {}
<1>1. NoState \in RunState
  BY DEF NoState, RunState
<1> QED BY <1>1 DEF Idle, Command, NoRebase, NoState

LEMMA BeginKeeps ==
    ASSUME IInv, NEW cmd \in {"sync", "propose"}, NEW fetched \in BOOLEAN, NEW ghUp \in BOOLEAN,
           NEW deleted \in BOOLEAN, NEW all \in BOOLEAN, Begin(cmd, fetched, ghUp, deleted, all)
    PROVE  IInv'
<1> USE DEF IInv
<1> DEFINE Stopped ==
              /\ UNCHANGED <<saved, home>>
              /\ run' = Idle \/ (run' = [Idle EXCEPT !.pc = "done", !.cmd = cmd] /\ stack' = {})
           Rebase ==
              /\ run'.pc = "rebase" /\ stack' # {} /\ head' \in stack' /\ home' = head'
              /\ saved' = [open |-> stack', at |-> Min(stack'), rewritten |-> {}, orig |-> head']
              /\ \E scope \in SUBSET stack' :
                    run' = [Idle EXCEPT !.pc = "rebase", !.cmd = cmd, !.st = saved', !.through = scope]
           Fine ==
              /\ UNCHANGED <<saved, home>>
              /\ \E scope \in SUBSET stack' :
                    run' = [Idle EXCEPT !.pc = IF cmd = "sync" THEN "done" ELSE "publish",
                                        !.cmd = cmd, !.through = scope]
              /\ cmd = "sync" => /\ ~AnyStale(stack')
                                 /\ \A l \in stack' : IsPrefix(trunkRef', branch[l])
<1>1. /\ run = Idle /\ gitRebase = NoRebase
      /\ trunkRef' \in {trunkRef, upstream}
      /\ stack' \subseteq stack /\ recorded' \subseteq stack' /\ head' \in stack' \cup {Trunk}
      /\ origin' = [l \in Layer |-> origin'[l]]
      /\ \A l \in Layer : origin'[l] \in {origin[l], <<>>}
      /\ owed' \subseteq owed /\ owed' \subseteq stack'
      /\ UNCHANGED <<upstream, pr, branch, gitRebase, authored, cut>>
  BY BeginDoes
<1>2. Stopped \/ Rebase \/ Fine
  BY BeginDoes
<1> HIDE DEF Stopped, Rebase, Fine
<1>3. /\ stack' \subseteq Layer /\ trunkRef' \in Seq(Commit) \ {<<>>} /\ stack \subseteq Layer
      /\ \A l \in Layer : branch[l] \in Seq(Commit) \ {<<>>} /\ origin[l] \in Seq(Commit)
      /\ saved \in RunState
  BY <1>1, TipsTyped
<1>4. stack' # {} => Min(stack') \in stack' /\ \A l \in stack' : Min(stack') <= l
  BY <1>3, LayerTyped, MinIs
<1>5. saved' \in RunState /\ home' \in Layer \cup {Trunk}
  <2>1. CASE Stopped \/ Fine
    BY <1>3, <2>1 DEF TypeInv, TypeOK, Stopped, Fine
  <2>2. CASE Rebase
    <3>1. head' \in Layer /\ Min(stack') \in Layer
      BY <1>3, <1>4, <2>2 DEF Rebase
    <3> QED BY <1>3, <2>2, <3>1 DEF RunState, Rebase
  <2> QED BY <1>2, <2>1, <2>2
<1>6. /\ run' \in Command /\ run'.opened = {} /\ run'.through \subseteq stack'
      /\ run'.pc \in {"idle", "done", "publish", "rebase"}
      /\ run'.pc = "idle" => run' = Idle
      /\ run'.pc = "publish" => run'.cmd # "sync"
  <2>1. CASE Stopped
    BY <2>1, IdleTyped DEF Command, Idle, Stopped
  <2>2. CASE Rebase
    BY <1>3, <1>5, <2>2, IdleTyped DEF Command, Idle, Rebase
  <2>3. CASE Fine
    BY <1>3, <2>3, IdleTyped DEF Command, Idle, Fine
  <2> QED BY <1>2, <2>1, <2>2, <2>3
<1>7. run'.pc = "rebase" => Rebase /\ run'.st = saved'
  <2>1. CASE Stopped
    <3>1. run' = Idle \/ run' = [Idle EXCEPT !.pc = "done", !.cmd = cmd]
      BY <2>1 DEF Stopped
    <3>2. Idle.pc = "idle" /\ [Idle EXCEPT !.pc = "done", !.cmd = cmd].pc = "done"
      BY DEF Idle
    <3>3. run'.pc # "rebase"
      BY <3>1, <3>2
    <3> QED BY <3>3
  <2>2. CASE Rebase
    <3>1. run'.st = saved'
      BY <2>2 DEF Idle, Rebase
    <3> QED BY <2>2, <3>1
  <2>3. CASE Fine
    <3>1. run'.pc # "rebase"
      BY <2>3 DEF Idle, Fine
    <3> QED BY <3>1
  <2> QED BY <1>2, <2>1, <2>2, <2>3
<1>8. run'.pc = "done" /\ run'.cmd = "sync" =>
        \/ stack' = {}
        \/ ~AnyStale(stack') /\ \A l \in stack' : IsPrefix(trunkRef', branch[l])
  <2>1. CASE Stopped
    BY <2>1 DEF Idle, Stopped
  <2>2. CASE Rebase
    BY <2>2 DEF Rebase
  <2>3. CASE Fine
    BY <2>3 DEF Idle, Fine
  <2> QED BY <1>2, <2>1, <2>2, <2>3
<1>9. TypeInv'
  <2>1. origin' \in [Layer -> Seq(Commit)]
    <3>1. \A l \in Layer : origin'[l] \in Seq(Commit)
      <4>1. <<>> \in Seq(Commit)
        OBVIOUS
      <4> QED BY <1>1, <1>3, <4>1
    <3> QED BY <1>1, <3>1
  <2>2. gitRebase' \in [on : stack' \cup {Trunk}, result : Seq(Commit)] /\ gitRebase'.on = Trunk
    BY <1>1 DEF NoRebase
  <2> QED BY <1>1, <1>3, <1>5, <1>6, <2>1, <2>2 DEF TypeInv, TypeOK, Command
<1>10. Placed'
  <2>1. gitRebase' = NoRebase
    BY <1>1
  <2>2. run'.pc \in Rebasing =>
          /\ run'.st.open = stack' /\ run'.st.at \in stack' /\ home' \in stack' /\ run'.st.orig = home'
          /\ run'.st.rewritten \subseteq stack'
    <3>1. ASSUME run'.pc = "rebase"
          PROVE  /\ run'.st.open = stack' /\ run'.st.at \in stack' /\ home' \in stack'
                 /\ run'.st.orig = home' /\ run'.st.rewritten \subseteq stack'
      <4>1. run'.st = [open |-> stack', at |-> Min(stack'), rewritten |-> {}, orig |-> head']
        BY <1>7, <3>1 DEF Rebase
      <4>2. Min(stack') \in stack' /\ head' \in stack' /\ home' = head'
        BY <1>4, <1>7, <3>1 DEF Rebase
      <4> QED BY <4>1, <4>2
    <3> QED BY <1>6, <3>1 DEF Rebasing
  <2>3. saved' # NoState => saved'.orig = home'
    <3>1. CASE Stopped \/ Fine
      BY <3>1 DEF Placed, Stopped, Fine
    <3>2. CASE Rebase
      BY <3>2 DEF Rebase
    <3> QED BY <1>2, <3>1, <3>2
  <2> QED BY <1>6, <2>1, <2>2, <2>3 DEF Placed
<1>11. Grown'
  <2>1. \A l \in Layer : Sound(branch'[l]) /\ Sound(origin'[l])
    BY <1>1, SoundNothing DEF Grown
  <2>2. IsPrefix(trunkRef', upstream) /\ Sound(gitRebase'.result)
    BY <1>1, TipsTyped, PrefixOrder DEF Grown
  <2> QED BY <1>1, <2>1, <2>2, GrownMoves
<1>12. Kept'
  BY <1>1 DEF Kept
<1>13. Chain'
  <2>1. run'.pc = "rebase" => Below(stack', run'.st.at) = {}
    <3>1. ASSUME run'.pc = "rebase" PROVE Below(stack', Min(stack')) = {}
      <4>1. stack' # {} /\ \A l \in stack' : l \in Nat
        BY <1>3, <1>7, <3>1, LayerTyped DEF Rebase
      <4>2. Min(stack') \in stack' /\ \A l \in stack' : Min(stack') <= l
        BY <1>4, <4>1
      <4> DEFINE m == Min(stack')
      <4> HIDE DEF m
      <4>3. m \in Nat /\ \A l \in stack' : m <= l
        BY <4>1, <4>2 DEF m
      <4>4. \A l \in stack' : ~ (l < m)
        BY <4>1, <4>3
      <4>5. {k \in stack' : k < m} = {}
        BY <4>4
      <4> QED BY <4>5 DEF Below, m
    <3>2. ASSUME run'.pc = "rebase" PROVE run'.st.at = Min(stack')
      <4>1. run'.st = [open |-> stack', at |-> Min(stack'), rewritten |-> {}, orig |-> head']
        BY <1>7, <3>2 DEF Rebase
      <4> QED BY <4>1
    <3> QED BY <3>1, <3>2
  <2>2. ASSUME run'.pc = "done", run'.cmd = "sync", NEW l \in stack' PROVE Sits(branch[l], l)'
    <3>1. ~AnyStale(stack') /\ IsPrefix(trunkRef', branch[l])
      BY <1>8, <2>2
    <3>2. \A k \in Below(stack', l) : IsPrefix(branch[k], branch[l])
      BY <1>1, <3>1, NotStaleIsChain
    <3> QED BY <1>1, <3>1, <3>2 DEF Sits
  <2>3. run'.pc # "resign" /\ run'.pc # "push" /\ gitRebase' = NoRebase
    BY <1>1, <1>6
  <2>4. run'.pc = "rebase" => \A l \in Below(stack', run'.st.at) : Sits(branch[l], l)'
    BY <2>1
  <2> QED BY <2>2, <2>3, <2>4 DEF Chain
<1>14. Listed'
  <2>1. cut = {} => owed = {}
    BY <1>1, IdleTyped DEF Listed, Rebasing
  <2> QED BY <1>1, <2>1 DEF Listed
<1>15. AllSigned'
  <2>1. Signable = {Trunk}
    BY <1>1, IdleTyped DEF Signable
  <2>2. Signed(<<>>)
    BY DEF Signed
  <2>3. Trunk \notin Layer
    BY LayerTyped
  <2>4. cut = {} => Signed(trunkRef') /\ \A l \in Layer : Signed(origin'[l]) /\ Signed(branch'[l])
    BY <1>1, <2>1, <2>2, <2>3 DEF AllSigned
  <2> QED BY <1>1, <2>4 DEF AllSigned, Signed
<1> QED BY <1>9, <1>10, <1>11, <1>12, <1>13, <1>14, <1>15

-----------------------------------------------------------------------------
\* The rebase of one layer, its signatures, and the next layer.

LEMMA RunningIs ==
    ASSUME IInv, run.pc # "idle"
    PROVE  /\ gitRebase = NoRebase /\ gitRebase.on = Trunk
           /\ Signable = IF run.pc = "resign" THEN {run.st.at} ELSE {Trunk}
           /\ run.pc # "resign" => \A k \in Layer : k \notin Signable
<1>1. gitRebase = NoRebase
  BY IdleTyped DEF IInv, Placed
<1>2. gitRebase.on = Trunk
  BY <1>1, IdleTyped
<1> QED BY <1>1, <1>2, LayerTyped DEF Signable

LEMMA BaseIs ==
    ASSUME IInv, run.pc \in {"rebase", "resign"}, NEW l, l = run.st.at, NEW base, base = BaseOf(run.st)
    PROVE  /\ l \in stack /\ l \in Layer
           /\ base \in Seq(Commit) \ {<<>>} /\ Sound(base)
           /\ cut = {} => Signed(base)
           /\ \A tip \in Seq(Commit) : IsPrefix(base, tip) <=> Sits(tip, l)
<1> USE DEF IInv
<1>1. l \in stack /\ run.st.open = stack /\ \A k \in Below(stack, l) : Sits(branch[k], k)
  BY DEF Placed, Chain, Rebasing
<1>2. l \in Layer /\ stack \subseteq Layer /\ stack \subseteq Nat
  BY <1>1, TipsTyped
<1>3. base = Under(stack, l)
  BY <1>1 DEF BaseOf
<1>4. /\ base \in Seq(Commit) \ {<<>>}
      /\ base = trunkRef \/ \E m \in Below(stack, l) : base = branch[m]
  BY <1>2, <1>3, UnderIs
<1>5. \A tip \in Seq(Commit) : IsPrefix(base, tip) <=> Sits(tip, l)
  BY <1>1, <1>3, SitsOnBase
<1>6. \A m \in Below(stack, l) : m \in Layer /\ m # l
  BY <1>1, <1>2 DEF Below
<1>7. Sound(base)
  BY <1>4, <1>6 DEF Grown
<1>8. ASSUME cut = {} PROVE Signed(base)
  <2>1. \A m \in Below(stack, l) : m \in Layer /\ m \notin Signable
    BY <1>6, RunningIs, LayerTyped
  <2> QED BY <1>4, <1>8, <2>1 DEF AllSigned
<1> QED BY <1>1, <1>2, <1>4, <1>5, <1>7, <1>8

\* Rewriting a layer leaves the ones below it, and what it sits on, alone.
LEMMA OneTip ==
    ASSUME TypeInv, NEW l \in Layer, NEW new \in Seq(Commit) \ {<<>>},
           branch' = [branch EXCEPT ![l] = new], UNCHANGED <<trunkRef, stack>>
    PROVE  /\ branch' \in [Layer -> Seq(Commit) \ {<<>>}]
           /\ branch'[l] = new /\ \A k \in Layer : k # l => branch'[k] = branch[k]
           /\ Sits(new, l) => Sits(branch[l], l)'
           /\ \A k \in Below(stack, l) : Sits(branch[k], k) => Sits(branch[k], k)'
<1>1. branch \in [Layer -> Seq(Commit) \ {<<>>}]
  BY DEF TypeInv, TypeOK
<1>2. /\ branch' \in [Layer -> Seq(Commit) \ {<<>>}]
      /\ branch'[l] = new /\ \A k \in Layer : k # l => branch'[k] = branch[k]
  BY <1>1
<1>3. stack \subseteq Layer /\ \A k \in stack : k \in Nat /\ l \in Nat
  BY TipsTyped, LayerTyped
<1>4. \A k \in Below(stack, l) : branch'[k] = branch[k]
  BY <1>2, <1>3 DEF Below
<1>5. Sits(new, l) => Sits(branch[l], l)'
  BY <1>2, <1>4 DEF Sits, Below
<1>6. \A k \in Below(stack, l) : \A j \in Below(stack, k) : j \in Below(stack, l)
  BY <1>3 DEF Below
<1>7. \A k \in Below(stack, l) : Sits(branch[k], k) => Sits(branch[k], k)'
  BY <1>4, <1>6 DEF Sits, Below
<1> QED BY <1>2, <1>5, <1>7

LEMMA AdvanceDoes ==
    ASSUME IInv, run.pc \in {"rebase", "resign"}, NEW next, next = Advance(run.st)
    PROVE  /\ next \in Command /\ next.pc \in {"rebase", "push"}
           /\ next.st.open = stack /\ next.st.orig = home /\ next.st.at \in stack
           /\ next.st.rewritten = run.st.rewritten
           /\ next.through = run.through /\ next.opened = run.opened
           /\ \A k \in stack : next.pc = "push" \/ k \in Below(stack, next.st.at) =>
                 k = run.st.at \/ k \in Below(stack, run.st.at)
<1> USE DEF IInv
<1> DEFINE above == Above(run.st.open, run.st.at)
<1>1. /\ run.st.open = stack /\ run.st.at \in stack /\ run.st.orig = home
      /\ run \in Command /\ run.st \in RunState
  BY TipsTyped DEF Placed, Rebasing, TypeInv, TypeOK, Command
<1>2. stack \subseteq Layer /\ \A k \in stack : k \in Nat
  BY TipsTyped
<1>3. \A k \in stack : k \in above <=> k > run.st.at
  BY <1>1 DEF Above
<1>4. CASE above = {}
  <2>1. next = [run EXCEPT !.pc = "push"]
    BY <1>4 DEF Advance
  <2>2. next \in Command /\ next.pc = "push" /\ next.st = run.st
        /\ next.through = run.through /\ next.opened = run.opened
    BY <1>1, <2>1 DEF Command
  <2>3. \A k \in stack : k = run.st.at \/ k < run.st.at
    BY <1>1, <1>2, <1>3, <1>4
  <2> QED BY <1>1, <2>2, <2>3 DEF Below
<1>5. CASE above # {}
  <2> DEFINE m == Min(above)
  <2>1. next = [run EXCEPT !.pc = "rebase", !.st.at = m]
    BY <1>5 DEF Advance
  <2>2. m \in above /\ \A k \in above : m <= k
    <3>1. above \subseteq Nat
      BY <1>1, <1>2 DEF Above
    <3> QED BY <1>5, <3>1, MinIs
  <2>3. m \in stack /\ m \in Layer
    BY <1>1, <1>2, <2>2 DEF Above
  <2> HIDE DEF m, above
  <2>4. /\ next \in Command /\ next.pc = "rebase" /\ next.st = [run.st EXCEPT !.at = m]
        /\ next.through = run.through /\ next.opened = run.opened
    <3>1. [run.st EXCEPT !.at = m] \in RunState
      BY <1>1, <2>3 DEF RunState
    <3> QED BY <1>1, <2>1, <3>1 DEF Command
  <2>5. /\ next.st.at = m /\ next.st.open = run.st.open /\ next.st.orig = run.st.orig
        /\ next.st.rewritten = run.st.rewritten
    BY <1>1, <2>4 DEF RunState
  <2>6. \A k \in stack : k < m => k = run.st.at \/ k < run.st.at
    BY <1>1, <1>2, <1>3, <2>2, <2>3
  <2> QED BY <1>1, <2>3, <2>4, <2>5, <2>6 DEF Below
<1> QED BY <1>4, <1>5

\* Going on to the next layer, once the layer the rebase was at sits where it should.
LEMMA AdvanceKeeps ==
    ASSUME IInv, run.pc \in {"rebase", "resign"}, run' = Advance(run.st),
           UNCHANGED <<stack, home, gitRebase>>,
           saved' # NoState => saved'.orig = home,
           \A k \in Below(stack, run.st.at) \cup {run.st.at} : Sits(branch[k], k)'
    PROVE  Placed' /\ Chain'
<1> USE DEF IInv
<1>1. /\ run' \in Command /\ run'.pc \in {"rebase", "push"}
      /\ run'.st.open = stack /\ run'.st.orig = home /\ run'.st.at \in stack
      /\ run'.st.rewritten = run.st.rewritten
      /\ run'.through = run.through /\ run'.opened = run.opened
      /\ \A k \in stack : run'.pc = "push" \/ k \in Below(stack, run'.st.at) =>
            k = run.st.at \/ k \in Below(stack, run.st.at)
  BY AdvanceDoes
<1>2. gitRebase' = NoRebase /\ home \in stack /\ run.st.rewritten \subseteq stack
  BY RunningIs DEF Placed, Rebasing
<1>3. Placed'
  BY <1>1, <1>2 DEF Placed, Rebasing
<1>4. Chain'
  <2>1. \A k \in stack : run'.pc = "push" \/ k \in Below(stack, run'.st.at) => Sits(branch[k], k)'
    BY <1>1
  <2>2. Below(stack, run'.st.at) \subseteq stack
    BY DEF Below
  <2>3. \A k \in Below(stack, run.st.at)' : Sits(branch[k], k)'
    BY <1>1, <2>1, <2>2 DEF Below
  <2> QED BY <1>1, <1>2, <2>1, <2>2, <2>3 DEF Chain
<1> QED BY <1>3, <1>4

LEMMA RebaseLayerKeeps ==
    ASSUME IInv, RebaseLayer PROVE IInv'
<1> USE DEF IInv
<1>0. PICK l : l = run.st.at
  OBVIOUS
<1> DEFINE st == run.st
           base == BaseOf(st)
           new == Rebased(branch[l], base)
<1>1. /\ run.pc = "rebase" /\ saved' = st /\ head' = l
      /\ UNCHANGED <<upstream, pr, trunkRef, origin, recorded, stack, runs, authored, home, cut>>
  BY <1>0 DEF RebaseLayer, server, lineage, history
<1>2. \/ new = branch[l] /\ run' = Advance(st) /\ UNCHANGED <<branch, gitRebase, owed>>
      \/ /\ branch' = [branch EXCEPT ![l] = new] /\ owed' = owed \cup {l} /\ UNCHANGED gitRebase
         /\ run' = [run EXCEPT !.pc = "resign", !.st.rewritten = @ \cup {l}]
      \/ /\ gitRebase' = [on |-> l, result |-> new] /\ run' = Idle /\ UNCHANGED <<branch, owed>>
  BY <1>0 DEF RebaseLayer
<1>3. /\ l \in stack /\ l \in Layer /\ l # Trunk
      /\ base \in Seq(Commit) \ {<<>>} /\ Sound(base)
      /\ cut = {} => Signed(base)
      /\ \A tip \in Seq(Commit) : IsPrefix(base, tip) <=> Sits(tip, l)
  BY <1>0, <1>1, BaseIs, TipsTyped
<1>4. branch[l] \in Seq(Commit) \ {<<>>} /\ Sound(branch[l])
  BY <1>3, TipsTyped DEF Grown
<1> HIDE DEF base
<1>5. /\ new \in Seq(Commit) \ {<<>>} /\ Sound(new) /\ Sits(new, l)
      /\ Patches(branch[l]) \subseteq Patches(new)
  BY <1>3, <1>4, RebasedDoes, RebaseSound
<1> HIDE DEF new
<1>6. /\ gitRebase = NoRebase /\ gitRebase.on = Trunk /\ \A k \in Layer : k \notin Signable
      /\ st.open = stack /\ st.orig = home /\ home \in stack /\ st \in RunState
      /\ st.rewritten \subseteq stack /\ run \in Command
      /\ \A k \in Below(stack, l) : Sits(branch[k], k)
      /\ run.through \subseteq stack /\ run.opened \subseteq run.through
      /\ authored[l] \subseteq Patches(branch[l])
      /\ cut = {} => owed \subseteq st.rewritten
  BY <1>0, <1>1, <1>3, RunningIs, TipsTyped
     DEF Placed, Rebasing, TypeInv, TypeOK, Command, Chain, Listed, Kept
<1>7. owed \subseteq stack /\ head' \in stack /\ saved' \in RunState /\ saved' # NoState
  BY <1>1, <1>3, <1>6, IdleTyped DEF TypeInv, TypeOK
<1>8. cut = {} => Signed(upstream') /\ Signed(trunkRef') /\ \A k \in Layer : Signed(origin'[k])
  BY <1>1 DEF AllSigned
<1>9. cut = {} => \A k \in Layer : Signed(branch[k])
  BY <1>6 DEF AllSigned
<1>10. CASE new = branch[l] /\ run' = Advance(st) /\ UNCHANGED <<branch, gitRebase, owed>>
  <2>1. \A k \in Below(stack, l) \cup {l} : Sits(branch[k], k)'
    BY <1>1, <1>5, <1>6, <1>10 DEF Sits, Below
  <2>2. Placed' /\ Chain'
    BY <1>1, <1>6, <1>7, <1>10, <2>1, <1>0, AdvanceKeeps
  <2>3. run' \in Command /\ run'.pc \in Rebasing /\ run'.pc # "resign" /\ run'.st.rewritten = st.rewritten
    BY <1>1, <1>10, AdvanceDoes DEF Rebasing
  <2>4. TypeInv'
    BY <1>1, <1>3, <1>7, <1>10, <2>3 DEF TypeInv, TypeOK, Command
  <2>5. Grown' /\ Kept'
    BY <1>1, <1>10 DEF Grown, Sound, Made, Kept
  <2>6. Listed'
    BY <1>1, <1>6, <1>10, <2>3 DEF Listed
  <2>7. AllSigned'
    BY <1>1, <1>8, <1>9, <1>10 DEF AllSigned, Signed
  <2> QED BY <2>2, <2>4, <2>5, <2>6, <2>7
<1>11. CASE /\ branch' = [branch EXCEPT ![l] = new] /\ owed' = owed \cup {l} /\ UNCHANGED gitRebase
            /\ run' = [run EXCEPT !.pc = "resign", !.st.rewritten = @ \cup {l}]
  <2>1. /\ branch' \in [Layer -> Seq(Commit) \ {<<>>}]
        /\ branch'[l] = new /\ \A k \in Layer : k # l => branch'[k] = branch[k]
        /\ Sits(branch[l], l)' /\ \A k \in Below(stack, l) : Sits(branch[k], k)'
    BY <1>1, <1>3, <1>5, <1>6, <1>11, OneTip
  <2>2. /\ run' \in Command /\ run'.pc = "resign"
        /\ run'.st = [st EXCEPT !.rewritten = @ \cup {l}]
        /\ run'.through = run.through /\ run'.opened = run.opened
    <3>1. [st EXCEPT !.rewritten = @ \cup {l}] \in RunState
      BY <1>3, <1>6 DEF RunState
    <3> QED BY <1>6, <1>11, <3>1 DEF Command
  <2>3. /\ run'.st.open = stack /\ run'.st.at = l /\ run'.st.orig = home
        /\ run'.st.rewritten = st.rewritten \cup {l}
    BY <1>0, <1>6, <2>2 DEF RunState
  <2>4. run'.st = Resumed(saved')
    BY <1>0, <1>1, <2>2 DEF Resumed
  <2>5. TypeInv'
    BY <1>1, <1>3, <1>7, <1>11, <2>1, <2>2 DEF TypeInv, TypeOK, Command
  <2>6. Placed'
    BY <1>1, <1>3, <1>6, <1>11, <2>2, <2>3, <2>4 DEF Placed, Rebasing
  <2>7. Grown'
    <3>1. \A k \in Layer : Sound(branch'[k]) /\ Sound(origin'[k])
      BY <1>1, <1>5, <2>1 DEF Grown
    <3> QED BY <1>1, <1>11, <3>1, GrownMoves DEF Grown
  <2>8. Kept'
    BY <1>1, <1>5, <1>6, <1>11, <2>1, TipsTyped DEF Kept
  <2>9. Chain'
    <3>1. Below(stack, run.st.at)' = Below(stack, l)
      BY <1>1, <2>3 DEF Below
    <3> QED BY <1>1, <1>6, <1>11, <2>1, <2>2, <2>3, <3>1 DEF Chain
  <2>10. Listed'
    BY <1>1, <1>6, <1>11, <2>2, <2>3 DEF Listed, Rebasing
  <2>11. AllSigned'
    <3>1. Signable' = {l}
      BY <2>2, <2>3 DEF Signable
    <3>2. cut = {} => \A k \in Layer \ {l} : Signed(branch'[k])
      BY <1>9, <2>1
    <3> QED BY <1>1, <1>8, <3>1, <3>2 DEF AllSigned, Signed
  <2> QED BY <2>5, <2>6, <2>7, <2>8, <2>9, <2>10, <2>11
<1>12. CASE gitRebase' = [on |-> l, result |-> new] /\ run' = Idle /\ UNCHANGED <<branch, owed>>
  <2>1. gitRebase'.on = l /\ gitRebase'.result = new /\ gitRebase' # NoRebase
    BY <1>3, <1>12, IdleTyped
  <2>2. saved'.open = stack /\ saved'.at = l /\ saved'.orig = home /\ saved'.rewritten = st.rewritten
    BY <1>0, <1>1, <1>6
  <2>3. TypeInv'
    BY <1>1, <1>3, <1>5, <1>7, <1>12, <2>1, IdleTyped DEF TypeInv, TypeOK, Command
  <2>4. Placed'
    BY <1>1, <1>3, <1>6, <1>12, <2>1, <2>2, IdleTyped DEF Placed, Rebasing
  <2>5. Grown'
    BY <1>1, <1>5, <1>12, <2>1, GrownMoves DEF Grown
  <2>6. Kept'
    BY <1>1, <1>5, <1>6, <1>12, <2>1 DEF Kept
  <2>7. Chain'
    <3>1. Below(stack, gitRebase.on)' = Below(stack, l)
      BY <1>1, <2>1 DEF Below
    <3>2. \A k \in Below(stack, l) : Sits(branch[k], k)'
      BY <1>1, <1>6, <1>12 DEF Sits, Below
    <3>3. Sits(gitRebase.result, gitRebase.on)'
      BY <1>1, <1>5, <1>12, <2>1 DEF Sits, Below
    <3> QED BY <1>12, <3>1, <3>2, <3>3, IdleTyped DEF Chain
  <2>8. Listed'
    BY <1>1, <1>6, <1>12, <2>1, <2>2, IdleTyped DEF Listed, Rebasing
  <2>9. AllSigned'
    BY <1>1, <1>8, <1>9, <1>12 DEF AllSigned, Signed
  <2> QED BY <2>3, <2>4, <2>5, <2>6, <2>7, <2>8, <2>9
<1> HIDE DEF st
<1> QED BY <1>2, <1>10, <1>11, <1>12

LEMMA ResignLayerKeeps ==
    ASSUME IInv, ResignLayer PROVE IInv'
<1> USE DEF IInv
<1>0. PICK l : l = run.st.at
  OBVIOUS
<1> DEFINE st == run.st
           base == BaseOf(st)
           new == Resigned(branch[l], base)
<1>1. /\ run.pc = "resign"
      /\ UNCHANGED <<upstream, pr, trunkRef, origin, recorded, stack, head, saved, runs,
                     authored, home, owed, cut>>
  BY DEF ResignLayer, server, lineage, history
<1>2. \/ /\ Len(branch[l]) = Len(base)
         /\ run' = Advance(st) /\ UNCHANGED <<branch, gitRebase>>
      \/ branch' = [branch EXCEPT ![l] = new] /\ run' = Advance(st) /\ UNCHANGED gitRebase
      \/ gitRebase' = [on |-> l, result |-> new] /\ run' = Idle /\ UNCHANGED branch
  BY <1>0 DEF ResignLayer
<1>3. /\ l \in stack /\ l \in Layer /\ l # Trunk
      /\ base \in Seq(Commit) \ {<<>>} /\ Sound(base)
      /\ cut = {} => Signed(base)
      /\ \A tip \in Seq(Commit) : IsPrefix(base, tip) <=> Sits(tip, l)
  BY <1>0, <1>1, BaseIs, TipsTyped
<1>4. /\ branch[l] \in Seq(Commit) \ {<<>>} /\ Sound(branch[l])
      /\ Sits(branch[l], l) /\ IsPrefix(base, branch[l])
  <2>1. branch[l] \in Seq(Commit) \ {<<>>} /\ Sound(branch[l])
    BY <1>3, TipsTyped DEF Grown
  <2>2. Sits(branch[l], l)
    BY <1>0, <1>1 DEF Chain
  <2> QED BY <1>3, <2>1, <2>2
<1> HIDE DEF base
<1>5. /\ new \in Seq(Commit) \ {<<>>} /\ Sound(new) /\ Sits(new, l)
      /\ Patches(new) = Patches(branch[l])
      /\ cut = {} => Signed(new)
  BY <1>3, <1>4, ResignedDoes, RebaseSound
<1> HIDE DEF new
<1>6. /\ gitRebase = NoRebase /\ gitRebase.on = Trunk /\ Signable = {l}
      /\ st.open = stack /\ st.orig = home /\ home \in stack /\ st \in RunState
      /\ st = Resumed(saved) /\ st.rewritten \subseteq stack /\ run \in Command
      /\ \A k \in Below(stack, l) : Sits(branch[k], k)
      /\ run.through \subseteq stack /\ run.opened \subseteq run.through
      /\ authored[l] \subseteq Patches(branch[l])
      /\ cut = {} => owed \subseteq st.rewritten
      /\ saved # NoState => saved.orig = home
  BY <1>0, <1>1, <1>3, RunningIs, TipsTyped
     DEF Placed, Rebasing, TypeInv, TypeOK, Command, Chain, Listed, Kept
<1>7. /\ saved.open = stack /\ saved.at = l /\ saved \in RunState
      /\ st.rewritten = saved.rewritten \cup {l}
  <2>1. saved \in RunState
    BY TipsTyped
  <2> QED BY <1>0, <1>6, <2>1 DEF Resumed, RunState
<1>8. cut = {} => /\ Signed(upstream') /\ Signed(trunkRef') /\ \A k \in Layer : Signed(origin'[k])
                  /\ \A k \in Layer \ {l} : Signed(branch[k])
  BY <1>1, <1>6 DEF AllSigned
<1>9. CASE UNCHANGED gitRebase /\ run' = Advance(st)
           /\ \/ Len(branch[l]) = Len(base) /\ UNCHANGED branch
              \/ branch' = [branch EXCEPT ![l] = new]
  <2>1. /\ branch' \in [Layer -> Seq(Commit) \ {<<>>}]
        /\ Sound(branch'[l]) /\ authored[l] \subseteq Patches(branch'[l])
        /\ cut = {} => Signed(branch'[l])
        /\ \A k \in Layer : k # l => branch'[k] = branch[k]
        /\ Sits(branch[l], l)' /\ \A k \in Below(stack, l) : Sits(branch[k], k)'
    <3>1. CASE Len(branch[l]) = Len(base) /\ UNCHANGED branch
      <4>1. base = branch[l]
        BY <1>3, <1>4, <3>1, PrefixOrder
      <4>2. Sits(branch[l], l)' /\ \A k \in Below(stack, l) : Sits(branch[k], k)'
        BY <1>1, <1>4, <1>6, <3>1 DEF Sits, Below
      <4> QED BY <1>3, <1>4, <1>6, <3>1, <4>1, <4>2 DEF TypeInv, TypeOK
    <3>2. CASE branch' = [branch EXCEPT ![l] = new]
      <4>1. /\ branch' \in [Layer -> Seq(Commit) \ {<<>>}]
            /\ branch'[l] = new /\ \A k \in Layer : k # l => branch'[k] = branch[k]
            /\ Sits(branch[l], l)' /\ \A k \in Below(stack, l) : Sits(branch[k], k)'
        BY <1>1, <1>3, <1>5, <1>6, <3>2, OneTip
      <4> QED BY <1>5, <1>6, <4>1
    <3> QED BY <1>9, <3>1, <3>2
  <2>2. Placed' /\ Chain'
    <3>1. \A k \in Below(stack, l) \cup {l} : Sits(branch[k], k)'
      BY <2>1
    <3> QED BY <1>0, <1>1, <1>6, <1>9, <3>1, AdvanceKeeps
  <2>3. run' \in Command /\ run'.pc \in Rebasing /\ run'.pc # "resign" /\ run'.st.rewritten = st.rewritten
    BY <1>1, <1>9, AdvanceDoes DEF Rebasing
  <2>4. TypeInv'
    BY <1>1, <1>9, <2>1, <2>3 DEF TypeInv, TypeOK, Command
  <2>5. Grown'
    <3>1. \A k \in Layer : Sound(branch'[k]) /\ Sound(origin'[k])
      BY <1>1, <2>1 DEF Grown
    <3> QED BY <1>1, <1>9, <3>1, GrownMoves DEF Grown
  <2>6. Kept'
    BY <1>1, <1>6, <1>9, <2>1, TipsTyped DEF Kept
  <2>7. Listed'
    BY <1>1, <1>6, <1>9, <2>3 DEF Listed
  <2>8. AllSigned'
    <3>1. cut = {} => \A k \in Layer : Signed(branch'[k])
      BY <1>8, <2>1
    <3> QED BY <1>1, <1>8, <3>1 DEF AllSigned, Signed
  <2> QED BY <2>2, <2>4, <2>5, <2>6, <2>7, <2>8
<1>10. CASE gitRebase' = [on |-> l, result |-> new] /\ run' = Idle /\ UNCHANGED branch
  <2>1. gitRebase'.on = l /\ gitRebase'.result = new /\ gitRebase' # NoRebase
    BY <1>3, <1>10, IdleTyped
  <2>2. saved.rewritten \subseteq stack
    BY <1>6, <1>7
  <2>3. TypeInv'
    BY <1>1, <1>3, <1>5, <1>7, <1>10, <2>1, IdleTyped DEF TypeInv, TypeOK, Command
  <2>4. Placed'
    BY <1>1, <1>3, <1>6, <1>7, <1>10, <2>1, <2>2, IdleTyped DEF Placed, Rebasing
  <2>5. Grown'
    BY <1>1, <1>5, <1>10, <2>1, GrownMoves DEF Grown
  <2>6. Kept'
    BY <1>1, <1>5, <1>6, <1>10, <2>1 DEF Kept
  <2>7. Chain'
    <3>1. Below(stack, gitRebase.on)' = Below(stack, l)
      BY <1>1, <2>1 DEF Below
    <3>2. \A k \in Below(stack, l) : Sits(branch[k], k)'
      BY <1>1, <1>6, <1>10 DEF Sits, Below
    <3>3. Sits(gitRebase.result, gitRebase.on)'
      BY <1>1, <1>5, <1>10, <2>1 DEF Sits, Below
    <3> QED BY <1>10, <3>1, <3>2, <3>3, IdleTyped DEF Chain
  <2>8. Listed'
    BY <1>1, <1>6, <1>7, <1>10, <2>1, IdleTyped DEF Listed, Rebasing
  <2>9. AllSigned'
    <3>1. Signable' = {l}
      BY <1>10, <2>1, IdleTyped DEF Signable
    <3> QED BY <1>1, <1>8, <1>10, <3>1 DEF AllSigned, Signed
  <2> QED BY <2>3, <2>4, <2>5, <2>6, <2>7, <2>8, <2>9
<1> HIDE DEF st
<1> QED BY <1>2, <1>9, <1>10

LEMMA PushRewrittenKeeps ==
    ASSUME IInv, PushRewritten PROVE IInv'
<1> USE DEF IInv
<1>0. PICK l : l = Min(run.st.rewritten)
  OBVIOUS
<1>1. /\ run.pc = "push" /\ run.st.rewritten # {}
      /\ UNCHANGED <<upstream, pr, trunkRef, branch, recorded, stack, head, gitRebase, saved, runs,
                     authored, home>>
  BY DEF PushRewritten, server, lineage, history
<1>2. \/ /\ origin' = [origin EXCEPT ![l] = branch[l]] /\ owed' = owed \ {l} /\ UNCHANGED cut
         /\ run' = [run EXCEPT !.st.rewritten = @ \ {l}]
      \/ run' = Idle /\ cut' = cut \cup {"push"} /\ UNCHANGED <<origin, owed>>
  BY <1>0 DEF PushRewritten
<1>3. /\ gitRebase = NoRebase /\ gitRebase.on = Trunk /\ \A k \in Layer : k \notin Signable
      /\ run.st.open = stack /\ run.st.orig = home /\ home \in stack /\ run.st \in RunState
      /\ run.st.at \in stack /\ run.st.rewritten \subseteq stack /\ run \in Command
      /\ run.through \subseteq stack /\ run.opened \subseteq run.through
      /\ cut = {} => owed \subseteq run.st.rewritten
      /\ saved # NoState => saved.orig = home
      /\ \A k \in stack : Sits(branch[k], k)
  BY <1>1, RunningIs, TipsTyped DEF Placed, Rebasing, TypeInv, TypeOK, Command, Chain, Listed
<1>4. l \in stack /\ l \in Layer /\ branch[l] \in Seq(Commit) /\ Sound(branch[l])
  <2>1. run.st.rewritten \subseteq Nat
    BY <1>3, TipsTyped
  <2>2. l \in stack
    BY <1>0, <1>1, <1>3, <2>1, MinIs
  <2> QED BY <2>2, TipsTyped DEF Grown
<1>5. Kept'
  BY <1>1 DEF Kept
<1>6. CASE /\ origin' = [origin EXCEPT ![l] = branch[l]] /\ owed' = owed \ {l} /\ UNCHANGED cut
           /\ run' = [run EXCEPT !.st.rewritten = @ \ {l}]
  <2>1. /\ origin' \in [Layer -> Seq(Commit)]
        /\ \A k \in Layer : origin'[k] \in {origin[k], branch[k]}
    BY <1>4, <1>6 DEF TypeInv, TypeOK
  <2>2. /\ run' \in Command /\ run'.pc = "push" /\ run'.st = [run.st EXCEPT !.rewritten = @ \ {l}]
        /\ run'.through = run.through /\ run'.opened = run.opened
    <3>1. [run.st EXCEPT !.rewritten = @ \ {l}] \in RunState
      BY <1>3 DEF RunState
    <3> QED BY <1>1, <1>3, <1>6, <3>1 DEF Command
  <2>3. /\ run'.st.open = stack /\ run'.st.at = run.st.at /\ run'.st.orig = home
        /\ run'.st.rewritten = run.st.rewritten \ {l}
    BY <1>3, <2>2 DEF RunState
  <2>4. TypeInv'
    BY <1>1, <1>6, <2>1, <2>2 DEF TypeInv, TypeOK, Command
  <2>5. Placed'
    BY <1>1, <1>3, <2>2, <2>3 DEF Placed, Rebasing
  <2>6. Grown'
    BY <1>1, <2>1, GrownMoves DEF Grown
  <2>7. Chain'
    BY <1>1, <1>3, <2>2 DEF Chain, Sits, Below
  <2>8. Listed'
    BY <1>3, <1>6, <2>2, <2>3 DEF Listed, Rebasing
  <2>9. AllSigned'
    <3>1. cut = {} => \A k \in Layer : Signed(branch'[k]) /\ Signed(origin'[k])
      BY <1>1, <1>3, <2>1 DEF AllSigned
    <3> QED BY <1>1, <1>6, <3>1 DEF AllSigned, Signed
  <2> QED BY <1>5, <2>4, <2>5, <2>6, <2>7, <2>8, <2>9
<1>7. CASE run' = Idle /\ cut' = cut \cup {"push"} /\ UNCHANGED <<origin, owed>>
  <2>1. cut' # {}
    BY <1>7
  <2>2. TypeInv'
    BY <1>1, <1>7, IdleTyped DEF TypeInv, TypeOK, Command
  <2>3. Placed'
    BY <1>1, <1>3, <1>7, IdleTyped DEF Placed, Rebasing
  <2>4. Grown'
    BY <1>1, <1>7 DEF Grown, Sound, Made
  <2>5. Chain'
    BY <1>1, <1>3, <1>7, IdleTyped DEF Chain
  <2> QED BY <1>5, <2>1, <2>2, <2>3, <2>4, <2>5 DEF Listed, AllSigned
<1> QED BY <1>2, <1>6, <1>7

LEMMA FinishRebaseKeeps ==
    ASSUME IInv, FinishRebase PROVE IInv'
<1> USE DEF IInv
<1>1. /\ run.pc = "push" /\ run.st.rewritten = {} /\ head' = run.st.orig /\ saved' = NoState
      /\ run' = [run EXCEPT !.pc = IF run.cmd = "sync" THEN "done" ELSE "publish"]
      /\ UNCHANGED <<upstream, pr, trunkRef, branch, origin, recorded, stack, gitRebase, runs,
                     authored, home, owed, cut>>
  BY DEF FinishRebase, server, lineage, history
<1>2. /\ gitRebase = NoRebase /\ gitRebase.on = Trunk /\ \A k \in Layer : k \notin Signable
      /\ run.st.orig = home /\ home \in stack /\ run \in Command
      /\ run.through \subseteq stack /\ run.opened \subseteq run.through
      /\ cut = {} => owed = {}
      /\ \A k \in stack : Sits(branch[k], k)
  BY <1>1, RunningIs DEF Placed, Rebasing, TypeInv, TypeOK, Command, Chain, Listed
<1>3. /\ run' \in Command /\ run'.pc \in {"done", "publish"}
      /\ run'.pc = "publish" => run'.cmd # "sync"
      /\ run'.through = run.through /\ run'.opened = run.opened
  BY <1>1, <1>2 DEF Command
<1>4. TypeInv'
  BY <1>1, <1>2, <1>3, IdleTyped DEF TypeInv, TypeOK, Command
<1>5. Placed'
  BY <1>1, <1>2, <1>3 DEF Placed, Rebasing
<1>6. Grown' /\ Kept'
  BY <1>1 DEF Grown, Sound, Made, Kept
<1>7. Chain'
  BY <1>1, <1>2, <1>3 DEF Chain, Sits, Below
<1>8. Listed'
  BY <1>1, <1>2 DEF Listed
<1>9. AllSigned'
  <2>1. cut = {} => \A k \in Layer : Signed(branch[k])
    BY <1>2 DEF AllSigned
  <2> QED BY <1>1, <2>1 DEF AllSigned, Signed
<1> QED BY <1>4, <1>5, <1>6, <1>7, <1>8, <1>9

LEMMA ContinueKeeps ==
    ASSUME IInv, Continue PROVE IInv'
<1> USE DEF IInv
<1>0. PICK l : l = gitRebase.on
  OBVIOUS
<1> DEFINE new == gitRebase.result
<1>1. /\ run = Idle /\ saved # NoState /\ gitRebase # NoRebase
      /\ branch' = [branch EXCEPT ![l] = new] /\ gitRebase' = NoRebase
      /\ owed' = owed \cup {l} /\ head' = saved.at
      /\ run' = [Idle EXCEPT !.pc = "resign", !.cmd = "sync", !.st = Resumed(saved)]
      /\ UNCHANGED <<upstream, pr, trunkRef, origin, recorded, stack, saved, authored, home, cut>>
  BY <1>0 DEF Continue, server, lineage, history
<1>2. l \in stack /\ l \in Layer /\ l # Trunk
  <2>1. l # Trunk
    BY <1>0, <1>1 DEF Placed
  <2>2. gitRebase.on \in stack \cup {Trunk}
    BY DEF TypeInv, TypeOK
  <2> QED BY <1>0, <2>1, <2>2, TipsTyped
<1>3. /\ saved.open = stack /\ saved.at = l /\ saved.orig = home /\ home \in stack
      /\ saved.rewritten \subseteq stack /\ saved \in RunState
  BY <1>0, <1>1, TipsTyped DEF Placed
<1>4. /\ new \in Seq(Commit) \ {<<>>} /\ Sound(new) /\ Sits(new, l)
      /\ authored[l] \subseteq Patches(new) /\ \A k \in Below(stack, l) : Sits(branch[k], k)
      /\ cut = {} => owed \subseteq saved.rewritten \cup {l}
  <2>1. new \in Seq(Commit) \ {<<>>}
    BY <1>0, <1>2 DEF TypeInv, TypeOK
  <2>2. cut = {} => owed \subseteq saved.rewritten \cup {l}
    BY <1>0, <1>1, IdleTyped DEF Listed, Rebasing
  <2> QED BY <1>0, <1>1, <2>1, <2>2 DEF Grown, Kept, Chain
<1> HIDE DEF new
<1>5. /\ branch' \in [Layer -> Seq(Commit) \ {<<>>}]
      /\ branch'[l] = new /\ \A k \in Layer : k # l => branch'[k] = branch[k]
      /\ Sits(branch[l], l)' /\ \A k \in Below(stack, l) : Sits(branch[k], k)'
  BY <1>1, <1>2, <1>4, OneTip
<1>6. Resumed(saved) \in RunState
  BY <1>2, <1>3 DEF Resumed, RunState
<1>7. /\ run' \in Command /\ run'.pc = "resign" /\ run'.cmd = "sync" /\ run'.st = Resumed(saved)
      /\ run'.through = {} /\ run'.opened = {}
  BY <1>1, <1>6, IdleTyped DEF Command, Idle
<1>8. /\ run'.st.open = stack /\ run'.st.at = l /\ run'.st.orig = home
      /\ run'.st.rewritten = saved.rewritten \cup {l}
  BY <1>3, <1>7 DEF Resumed, RunState
<1>9. TypeInv'
  <2>1. owed' \subseteq stack
    BY <1>1, <1>2 DEF TypeInv, TypeOK
  <2> QED BY <1>1, <1>2, <1>3, <1>5, <1>7, <2>1, IdleTyped, SoundNothing
      DEF TypeInv, TypeOK, Command, NoRebase
<1>10. Placed'
  BY <1>1, <1>2, <1>3, <1>7, <1>8 DEF Placed, Rebasing
<1>11. Grown'
  <2>1. \A k \in Layer : Sound(branch'[k]) /\ Sound(origin'[k])
    BY <1>1, <1>4, <1>5 DEF Grown
  <2> QED BY <1>1, <2>1, SoundNothing, GrownMoves DEF Grown
<1>12. Kept'
  BY <1>1, <1>4, <1>5, TipsTyped DEF Kept
<1>13. Chain'
  <2>1. Below(stack, run.st.at)' = Below(stack, l)
    BY <1>1, <1>8 DEF Below
  <2> QED BY <1>1, <1>5, <1>7, <1>8, <2>1 DEF Chain
<1>14. Listed'
  BY <1>1, <1>4, <1>7, <1>8 DEF Listed, Rebasing
<1>15. AllSigned'
  <2>1. Signable = {l} /\ Signable' = {l}
    BY <1>0, <1>1, <1>7, <1>8, IdleTyped DEF Signable
  <2>2. cut = {} => \A k \in Layer \ {l} : Signed(branch'[k])
    BY <1>5, <2>1 DEF AllSigned
  <2> QED BY <1>1, <2>1, <2>2 DEF AllSigned, Signed
<1> QED BY <1>9, <1>10, <1>11, <1>12, <1>13, <1>14, <1>15

LEMMA AbortKeeps ==
    ASSUME IInv, Abort PROVE IInv'
<1> USE DEF IInv
<1>1. /\ run = Idle /\ saved.orig \in stack /\ head' = saved.orig /\ gitRebase' = NoRebase
      /\ saved' = NoState /\ cut' = cut \cup {"abort"}
      /\ UNCHANGED <<upstream, pr, trunkRef, branch, origin, recorded, stack, run, runs,
                     authored, home, owed>>
  BY DEF Abort, server, lineage, history
<1>2. TypeInv'
  BY <1>1, IdleTyped DEF TypeInv, TypeOK, NoRebase
<1>3. Placed'
  BY <1>1, IdleTyped DEF Placed, Rebasing
<1>4. Grown'
  BY <1>1, SoundNothing DEF Grown, Sound, Made
<1>5. Kept'
  BY <1>1 DEF Kept
<1>6. Chain'
  BY <1>1, IdleTyped DEF Chain
<1>7. cut' # {}
  BY <1>1
<1> QED BY <1>2, <1>3, <1>4, <1>5, <1>6, <1>7 DEF Listed, AllSigned

LEMMA InterruptedKeeps ==
    ASSUME IInv, Interrupted PROVE IInv'
<1> USE DEF IInv
<1>1. /\ run.pc # "idle" /\ run' = Idle /\ cut' = cut \cup {"kill"}
      /\ UNCHANGED <<upstream, pr, trunkRef, branch, origin, recorded, stack, head, gitRebase,
                     saved, runs, authored, home, owed>>
  BY DEF Interrupted, server, lineage, history
<1>2. gitRebase = NoRebase
  BY <1>1, RunningIs
<1>3. TypeInv'
  BY <1>1, IdleTyped DEF TypeInv, TypeOK, Command
<1>4. Placed'
  BY <1>1, <1>2, IdleTyped DEF Placed, Rebasing
<1>5. Grown' /\ Kept'
  BY <1>1 DEF Grown, Sound, Made, Kept
<1>6. Chain'
  BY <1>1, <1>2, IdleTyped DEF Chain
<1>7. cut' # {}
  BY <1>1
<1> QED BY <1>3, <1>4, <1>5, <1>6, <1>7 DEF Listed, AllSigned

-----------------------------------------------------------------------------
\* The end of propose.

LEMMA PublishLayerKeeps ==
    ASSUME IInv, PublishLayer PROVE IInv'
<1> USE DEF IInv
<1> DEFINE todo == run.through \ run.opened
<1>0. PICK l : l = Min(todo)
  OBVIOUS
<1>1. /\ run.pc = "publish" /\ todo # {}
      /\ UNCHANGED <<upstream, trunkRef, branch, recorded, stack, head, gitRebase, saved, runs,
                     authored, home, cut>>
  BY DEF PublishLayer, lineage, history
<1>2. /\ \/ origin' = [origin EXCEPT ![l] = branch[l]] /\ owed' = owed \ {l}
         \/ UNCHANGED <<origin, owed>>
      /\ \/ pr' = [pr EXCEPT ![l] = IF l \in recorded THEN @ ELSE "open"]
         \/ UNCHANGED pr
      /\ run' = Idle \/ run' = [run EXCEPT !.opened = @ \cup {l}]
  BY <1>0 DEF PublishLayer
<1>3. /\ gitRebase = NoRebase /\ gitRebase.on = Trunk /\ \A k \in Layer : k \notin Signable
      /\ run \in Command /\ run.cmd # "sync"
      /\ run.through \subseteq stack /\ run.opened \subseteq run.through
      /\ cut = {} => owed = {}
  BY <1>1, RunningIs DEF Placed, Rebasing, TypeInv, TypeOK, Command, Listed
<1>4. l \in run.through /\ l \in stack /\ l \in Layer
  <2>1. todo \subseteq Nat
    BY <1>3, TipsTyped
  <2>2. l \in todo
    BY <1>0, <1>1, <2>1, MinIs
  <2> QED BY <1>3, <2>2, TipsTyped
<1>5. /\ origin' \in [Layer -> Seq(Commit)] /\ \A k \in Layer : origin'[k] \in {origin[k], branch[k]}
      /\ owed' \subseteq owed
  <2>1. origin \in [Layer -> Seq(Commit)] /\ branch[l] \in Seq(Commit)
    BY <1>4, TipsTyped DEF TypeInv, TypeOK
  <2> QED BY <1>2, <1>4, <2>1
<1>6. /\ run' \in Command /\ run'.pc \in {"idle", "publish"} /\ run'.cmd # "sync"
      /\ run'.pc = "idle" => run' = Idle
      /\ run'.pc = "publish" => run'.cmd # "sync"
      /\ run'.opened \subseteq run'.through /\ run'.through \subseteq stack
  <2>1. CASE run' = Idle
    BY <2>1, IdleTyped DEF Idle
  <2>2. CASE run' = [run EXCEPT !.opened = @ \cup {l}]
    BY <1>1, <1>3, <1>4, <2>2, TipsTyped DEF Command
  <2> QED BY <1>2, <2>1, <2>2
<1>7. TypeInv'
  <2>1. pr' \in [Layer -> {"none", "open", "merged"}]
    BY <1>2, <1>4 DEF TypeInv, TypeOK
  <2> QED BY <1>1, <1>5, <1>6, <2>1 DEF TypeInv, TypeOK, Command
<1>8. Placed'
  BY <1>1, <1>3, <1>6 DEF Placed, Rebasing
<1>9. Grown'
  BY <1>1, <1>5, GrownMoves DEF Grown
<1>10. Kept'
  BY <1>1 DEF Kept
<1>11. Chain'
  BY <1>1, <1>3, <1>6 DEF Chain
<1>12. Listed'
  BY <1>1, <1>3, <1>5 DEF Listed
<1>13. AllSigned'
  <2>1. cut = {} => \A k \in Layer : Signed(branch'[k]) /\ Signed(origin'[k])
    BY <1>1, <1>3, <1>5 DEF AllSigned
  <2> QED BY <1>1, <2>1 DEF AllSigned, Signed
<1> QED BY <1>7, <1>8, <1>9, <1>10, <1>11, <1>12, <1>13

LEMMA SaveProposedKeeps ==
    ASSUME IInv, SaveProposed PROVE IInv'
<1> USE DEF IInv
<1>1. /\ run.pc = "publish" /\ recorded' = recorded \cup run.opened
      /\ run' = [run EXCEPT !.pc = "done"]
      /\ UNCHANGED <<upstream, pr, trunkRef, branch, origin, stack, head, gitRebase, saved, runs,
                     authored, home, owed, cut>>
  BY DEF SaveProposed, server, history
<1>2. /\ gitRebase = NoRebase /\ gitRebase.on = Trunk /\ \A k \in Layer : k \notin Signable
      /\ run \in Command /\ run.cmd # "sync"
      /\ run.through \subseteq stack /\ run.opened \subseteq run.through
      /\ cut = {} => owed = {}
  BY <1>1, RunningIs DEF Placed, Rebasing, TypeInv, TypeOK, Command, Listed
<1>3. /\ run' \in Command /\ run'.pc = "done" /\ run'.cmd # "sync"
      /\ run'.opened = run.opened /\ run'.through = run.through
  BY <1>1, <1>2 DEF Command
<1>4. TypeInv'
  <2>1. recorded' \subseteq stack
    BY <1>1, <1>2 DEF TypeInv, TypeOK
  <2> QED BY <1>1, <1>3, <2>1 DEF TypeInv, TypeOK, Command
<1>5. Placed'
  BY <1>1, <1>2, <1>3 DEF Placed, Rebasing
<1>6. Grown' /\ Kept'
  BY <1>1 DEF Grown, Sound, Made, Kept
<1>7. Chain'
  BY <1>1, <1>2, <1>3 DEF Chain
<1>8. Listed'
  BY <1>1, <1>2 DEF Listed
<1>9. AllSigned'
  <2>1. cut = {} => \A k \in Layer : Signed(branch[k])
    BY <1>2 DEF AllSigned
  <2> QED BY <1>1, <2>1 DEF AllSigned, Signed
<1> QED BY <1>4, <1>5, <1>6, <1>7, <1>8, <1>9

LEMMA ReturnKeeps ==
    ASSUME IInv, Return PROVE IInv'
<1> USE DEF IInv
<1>1. /\ run.pc = "done" /\ run' = Idle
      /\ UNCHANGED <<upstream, pr, trunkRef, branch, origin, recorded, stack, head, gitRebase,
                     saved, runs, authored, home, owed, cut>>
  BY DEF Return, server, lineage, history
<1>2. /\ gitRebase = NoRebase /\ \A k \in Layer : k \notin Signable
      /\ cut = {} => owed = {}
  BY <1>1, RunningIs DEF Listed, Rebasing
<1>3. TypeInv'
  BY <1>1, IdleTyped DEF TypeInv, TypeOK, Command
<1>4. Placed'
  BY <1>1, <1>2, IdleTyped DEF Placed, Rebasing
<1>5. Grown' /\ Kept'
  BY <1>1 DEF Grown, Sound, Made, Kept
<1>6. Chain'
  BY <1>1, <1>2, IdleTyped DEF Chain
<1>7. Listed'
  BY <1>1, <1>2 DEF Listed
<1>8. AllSigned'
  <2>1. cut = {} => \A k \in Layer : Signed(branch[k])
    BY <1>2 DEF AllSigned
  <2> QED BY <1>1, <2>1 DEF AllSigned, Signed
<1> QED BY <1>3, <1>4, <1>5, <1>6, <1>7, <1>8

-----------------------------------------------------------------------------
\* The invariant holds of every behaviour.

LEMMA NextKeeps == ASSUME IInv, [Next]_vars PROVE IInv'
<1>1. CASE TrunkAdvances
  BY <1>1, TrunkAdvancesKeeps
<1>2. ASSUME NEW l \in Layer, LandPR(l) \/ UserSwitches(l) PROVE IInv'
  BY <1>2, LandPRKeeps, UserSwitchesKeeps
<1>3. CASE UserCommits
  BY <1>3, UserCommitsKeeps
<1>4. CASE Sync
  BY <1>4, BeginKeeps DEF Sync
<1>5. CASE Propose
  BY <1>5, BeginKeeps DEF Propose
<1>6. CASE RebaseLayer
  BY <1>6, RebaseLayerKeeps
<1>7. CASE ResignLayer
  BY <1>7, ResignLayerKeeps
<1>8. CASE PushRewritten
  BY <1>8, PushRewrittenKeeps
<1>9. CASE FinishRebase
  BY <1>9, FinishRebaseKeeps
<1>10. CASE Continue
  BY <1>10, ContinueKeeps
<1>11. CASE Abort
  BY <1>11, AbortKeeps
<1>12. CASE Interrupted
  BY <1>12, InterruptedKeeps
<1>13. CASE PublishLayer
  BY <1>13, PublishLayerKeeps
<1>14. CASE SaveProposed
  BY <1>14, SaveProposedKeeps
<1>15. CASE Return
  BY <1>15, ReturnKeeps
<1>16. CASE UNCHANGED vars
  <2>1. TypeInv' /\ Placed'
    BY <1>16 DEF vars, IInv, TypeInv, TypeOK, Placed
  <2>2. Grown' /\ Kept'
    BY <1>16 DEF vars, IInv, Grown, Sound, Made, Kept
  <2>3. Chain'
    BY <1>16 DEF vars, IInv, Chain, Sits, Below
  <2>4. Listed' /\ AllSigned'
    BY <1>16 DEF vars, IInv, Listed, AllSigned, Signable
  <2> QED BY <2>1, <2>2, <2>3, <2>4 DEF IInv
<1> QED
  BY <1>1, <1>2, <1>3, <1>4, <1>5, <1>6, <1>7, <1>8, <1>9, <1>10, <1>11, <1>12, <1>13, <1>14,
     <1>15, <1>16 DEF Next

\* What the stack starts as: a branch for each layer, with one patch of each below.
FirstTrunk == <<[patch |-> <<Trunk, 0>>, sha |-> 0, signed |-> TRUE]>>
FirstCommits(l) == [i \in 1..l |-> [patch |-> <<i, 0>>, sha |-> 0, signed |-> TRUE]]
FirstTip(l) == FirstTrunk \o FirstCommits(l)

LEMMA FirstTrunkIs ==
    /\ FirstTrunk \in Seq(Commit) \ {<<>>} /\ Patches(FirstTrunk) = {<<Trunk, 0>>}
    /\ Once(FirstTrunk) /\ Signed(FirstTrunk)
<1> DEFINE c == [patch |-> <<Trunk, 0>>, sha |-> 0, signed |-> TRUE]
<1>1. c \in Commit /\ c.patch = <<Trunk, 0>> /\ c.signed
  BY DEF Commit, Patch
<1>2. FirstTrunk = <<c>>
  BY DEF FirstTrunk
<1> HIDE DEF c
<1> DEFINE one == <<c>>
<1>3. one \in Seq(Commit) \ {<<>>} /\ DOMAIN one = {1} /\ one[1] = c
  BY <1>1
<1> HIDE DEF one
<1>4. Patches(one) = {<<Trunk, 0>>} /\ Once(one) /\ Signed(one)
  BY <1>1, <1>3 DEF Patches, Once, Signed
<1> QED BY <1>2, <1>3, <1>4 DEF one

LEMMA FirstCommitsAre ==
    ASSUME NEW l \in Layer
    PROVE  /\ FirstCommits(l) \in Seq(Commit)
           /\ Patches(FirstCommits(l)) = {<<i, 0>> : i \in 1..l}
           /\ Once(FirstCommits(l)) /\ Signed(FirstCommits(l))
<1> DEFINE c(i) == [patch |-> <<i, 0>>, sha |-> 0, signed |-> TRUE]
           rest == [i \in 1..l |-> c(i)]
<1>1. l \in Nat /\ 1..l \subseteq Layer
  BY SyncConstants DEF Layer
<1>2. ASSUME NEW i \in 1..l PROVE c(i) \in Commit /\ c(i).patch = <<i, 0>> /\ c(i).signed
  <2>1. <<i, 0>> \in Patch
    BY <1>1 DEF Patch
  <2> QED BY <2>1 DEF Commit
<1>3. FirstCommits(l) = rest
  BY DEF FirstCommits
<1> HIDE DEF c
<1>4. rest \in Seq(Commit) /\ DOMAIN rest = 1..l /\ \A i \in 1..l : rest[i] = c(i)
  <2>1. rest \in [1..l -> Commit]
    BY <1>2
  <2> QED BY <1>1, <2>1, SeqDef
<1> HIDE DEF rest
<1>5. Patches(rest) = {<<i, 0>> : i \in 1..l}
  BY <1>2, <1>4 DEF Patches
<1>6. Once(rest)
  <2>1. ASSUME NEW i \in 1..l, NEW j \in 1..l, rest[i].patch = rest[j].patch PROVE i = j
    <3>1. <<i, 0>> = <<j, 0>>
      BY <1>2, <1>4, <2>1
    <3> QED BY <3>1
  <2> QED BY <1>4, <2>1 DEF Once
<1>7. Signed(rest)
  BY <1>2, <1>4 DEF Signed
<1> QED BY <1>3, <1>4, <1>5, <1>6, <1>7

LEMMA FirstTipIs ==
    ASSUME NEW l \in Layer
    PROVE  /\ FirstTip(l) \in Seq(Commit) \ {<<>>}
           /\ Patches(FirstTip(l)) = {<<Trunk, 0>>} \cup {<<i, 0>> : i \in 1..l}
           /\ Once(FirstTip(l)) /\ Signed(FirstTip(l))
<1>1. Patches(FirstTrunk) \cap Patches(FirstCommits(l)) = {}
  <2>1. l \in Nat /\ \A i \in 1..l : <<i, 0>> # <<Trunk, 0>>
    BY SyncConstants DEF Layer, Trunk
  <2> QED BY <2>1, FirstTrunkIs, FirstCommitsAre
<1>2. /\ FirstTip(l) \in Seq(Commit) /\ IsPrefix(FirstTrunk, FirstTip(l))
      /\ Patches(FirstTip(l)) = Patches(FirstTrunk) \cup Patches(FirstCommits(l))
      /\ Once(FirstTip(l)) /\ Signed(FirstTip(l))
  BY <1>1, FirstTrunkIs, FirstCommitsAre, ConcatDoes DEF FirstTip
<1>3. FirstTip(l) # <<>>
  <2>1. Patches(FirstTip(l)) # {}
    BY <1>2, FirstTrunkIs
  <2> QED BY <2>1, SoundNothing
<1> QED BY <1>2, <1>3, FirstTrunkIs, FirstCommitsAre

LEMMA NumberedFirst == ASSUME NEW k \in Nat, NEW ps, {p \in ps : p[1] = k} = {<<k, 0>>} PROVE Numbered(ps, k)
<1>1. IsFiniteSet({<<k, 0>>}) /\ Cardinality({<<k, 0>>}) = 1
  BY FS_Singleton
<1>2. \A p \in ps : p[1] = k => p[2] = 0
  <2>1. ASSUME NEW p \in ps, p[1] = k PROVE p = <<k, 0>>
    BY <2>1
  <2> QED BY <2>1
<1>3. IsFiniteSet({p \in ps : p[1] = k}) /\ Number(ps, k) = 1
  BY <1>1 DEF Number
<1>4. \A p \in ps : p[1] = k => p[2] < 1
  BY <1>2
<1> QED BY <1>3, <1>4 DEF Numbered

LEMMA InitHas == ASSUME Init PROVE IInv
<1>1. PICK pushed \in 0..NLayers :
          /\ upstream = FirstTrunk /\ trunkRef = FirstTrunk
          /\ branch = [l \in Layer |-> FirstTip(l)]
          /\ origin = [l \in Layer |-> IF l <= pushed THEN FirstTip(l) ELSE <<>>]
          /\ pr = [l \in Layer |-> IF l <= pushed THEN "open" ELSE "none"]
          /\ recorded = 1..pushed /\ stack = Layer /\ head \in Layer /\ gitRebase = NoRebase
          /\ saved = NoState /\ run = Idle /\ runs = 0
          /\ authored = [l \in Layer |-> {<<i, 0>> : i \in 1..l}]
          /\ owed = {} /\ home = Trunk /\ cut = {}
  BY DEF Init, FirstTip, FirstTrunk, FirstCommits
<1>2. \A l \in Layer :
          /\ FirstTrunk \in Seq(Commit) \ {<<>>} /\ FirstTip(l) \in Seq(Commit) \ {<<>>}
          /\ Patches(FirstTrunk) = {<<Trunk, 0>>}
          /\ Patches(FirstTip(l)) = {<<Trunk, 0>>} \cup {<<i, 0>> : i \in 1..l}
          /\ Once(FirstTrunk) /\ Once(FirstTip(l)) /\ Signed(FirstTrunk) /\ Signed(FirstTip(l))
  BY FirstTrunkIs, FirstTipIs
<1>3. Layer # {} /\ Layer \subseteq Nat /\ Trunk \notin Layer /\ \A l \in Layer : 1..l \subseteq Layer
  BY SyncConstants DEF Layer, Trunk
<1>4. /\ FirstTrunk \in Seq(Commit) \ {<<>>} /\ Patches(FirstTrunk) = {<<Trunk, 0>>}
      /\ Once(FirstTrunk) /\ Signed(FirstTrunk)
  BY <1>2, <1>3
<1>5. \A l \in Layer : /\ branch[l] = FirstTip(l) /\ origin[l] \in {FirstTip(l), <<>>}
                     /\ authored[l] = {<<i, 0>> : i \in 1..l}
  BY <1>1
<1>6. \A l \in Layer : authored[l] \subseteq Patch
  BY <1>3, <1>5 DEF Patch
<1>7. TypeInv
  <2>1. branch \in [Layer -> Seq(Commit) \ {<<>>}]
    BY <1>1, <1>2
  <2>2. origin \in [Layer -> Seq(Commit)]
    <3>1. <<>> \in Seq(Commit)
      OBVIOUS
    <3> QED BY <1>1, <1>2, <3>1
  <2>3. authored \in [Layer -> SUBSET Patch]
    BY <1>1, <1>5, <1>6
  <2>4. recorded \subseteq Layer
    BY <1>1, SyncConstants DEF Layer
  <2>5. gitRebase \in [on : stack \cup {Trunk}, result : Seq(Commit)] /\ gitRebase.on = Trunk
    <3>1. <<>> \in Seq(Commit)
      OBVIOUS
    <3> QED BY <1>1, <3>1 DEF NoRebase
  <2>6. pr \in [Layer -> {"none", "open", "merged"}]
    BY <1>1
  <2> QED BY <1>1, <1>4, <2>1, <2>2, <2>3, <2>4, <2>5, <2>6, IdleTyped DEF TypeInv, TypeOK, Command
<1>8. Placed
  BY <1>1, IdleTyped DEF Placed, Rebasing
<1>9. Grown
  <2>1. Numbered(Patches(upstream), Trunk)
    <3>1. {p \in {<<Trunk, 0>>} : p[1] = Trunk} = {<<Trunk, 0>>}
      OBVIOUS
    <3> QED BY <1>1, <1>4, <3>1, NumberedFirst DEF Trunk
  <2>2. ASSUME NEW l \in Layer PROVE Numbered(authored[l], l)
    <3>1. l \in 1..l /\ l \in Nat
      BY SyncConstants DEF Layer
    <3>2. {p \in {<<i, 0>> : i \in 1..l} : p[1] = l} = {<<l, 0>>}
      BY <3>1
    <3> QED BY <1>5, <3>1, <3>2, NumberedFirst
  <2>3. <<Trunk, 0>> \in Made
    BY <1>1, <1>4 DEF Made, Patch
  <2>4. ASSUME NEW i \in Layer PROVE <<i, 0>> \in Made
    <3>1. i \in 1..i /\ i # Trunk
      BY SyncConstants DEF Layer, Trunk
    <3>2. <<i, 0>> \in authored[i]
      BY <1>5, <3>1
    <3> QED BY <1>6, <3>1, <3>2 DEF Made
  <2>5. Sound(FirstTrunk) /\ \A l \in Layer : Sound(FirstTip(l))
    BY <1>2, <1>3, <1>4, <2>3, <2>4 DEF Sound
  <2>6. IsPrefix(trunkRef, upstream)
    BY <1>1, <1>4, PrefixOrder
  <2> QED BY <1>1, <1>5, <2>1, <2>2, <2>5, <2>6, SoundNothing DEF Grown
<1>10. Kept
  BY <1>1, <1>2, <1>5 DEF Kept
<1>11. Chain
  BY <1>1, IdleTyped DEF Chain
<1>12. Listed
  BY <1>1 DEF Listed
<1>13. AllSigned
  <2>1. Signed(<<>>)
    BY DEF Signed
  <2>2. \A l \in Layer : Signed(branch[l]) /\ Signed(origin[l])
    BY <1>2, <1>5, <2>1
  <2> QED BY <1>1, <1>4, <2>2 DEF AllSigned
<1> QED BY <1>7, <1>8, <1>9, <1>10, <1>11, <1>12, <1>13 DEF IInv

\* The invariant holds of every state a stack of branches gets to.
THEOREM Inductive == Spec => []IInv
<1>1. Init => IInv
  BY InitHas
<1>2. IInv /\ [Next]_vars => IInv'
  BY NextKeeps
<1> QED BY <1>1, <1>2, PTL DEF Spec

-----------------------------------------------------------------------------
\* The properties.

\* Every variable of a stack of branches keeps its type, with any number of layers.
THEOREM TypeCorrect == Spec => []TypeOK
<1>1. IInv => TypeOK
  BY DEF IInv, TypeInv
<1> QED BY <1>1, Inductive, PTL

LEMMA OnceCounts ==
    ASSUME NEW tip \in Seq(Commit), Once(tip) PROVE Cardinality(Patches(tip)) = Len(tip)
<1>1. DOMAIN tip = 1..Len(tip) /\ Len(tip) \in Nat
  BY LenProperties
<1>2. IsFiniteSet(1..Len(tip)) /\ Cardinality(1..Len(tip)) = Len(tip)
  BY <1>1, FS_Interval
<1> DEFINE f == [i \in 1..Len(tip) |-> tip[i].patch]
<1>3. /\ f \in [1..Len(tip) -> Patches(tip)]
      /\ \A p \in Patches(tip) : \E i \in 1..Len(tip) : f[i] = p
  BY <1>1 DEF Patches
<1>4. \A i, j \in 1..Len(tip) : f[i] = f[j] => i = j
  BY <1>1 DEF Once
<1> HIDE DEF f
<1>5. f \in Surjection(1..Len(tip), Patches(tip)) /\ f \in Injection(1..Len(tip), Patches(tip))
  BY <1>3, <1>4 DEF Surjection, Injection, IsInjective
<1> QED BY <1>2, <1>5, FS_Surjection

\* No patch committed to a layer in the stack is lost or doubled, through any number of
\* rebases, conflicts, refused signatures, aborts and interruptions.
THEOREM PatchesSurvive == Spec => []NoPatchLost
<1>1. IInv => NoPatchLost
  <2> SUFFICES ASSUME IInv, NEW l \in stack
               PROVE  /\ authored[l] \subseteq Patches(branch[l])
                      /\ Cardinality(Patches(branch[l])) = Len(branch[l])
    BY DEF NoPatchLost
  <2>1. l \in Layer /\ branch[l] \in Seq(Commit)
    BY TipsTyped DEF IInv
  <2>2. Once(branch[l]) /\ authored[l] \subseteq Patches(branch[l])
    BY <2>1 DEF IInv, Grown, Sound, Kept
  <2> QED BY <2>1, <2>2, OnceCounts
<1> QED BY <1>1, Inductive, PTL

\* A sync that ends well leaves a chain of branches on the fetched trunk; and when
\* nothing cut a command short, all that dotty rewrote is pushed, and pushed signed.
THEOREM EndsWell == Spec => []SyncEndsWell
<1>1. IInv => LinearWhenDone
  <2> SUFFICES ASSUME IInv, run.pc = "done", run.cmd = "sync", NEW l \in stack
               PROVE  /\ IsPrefix(trunkRef, branch[l])
                      /\ \A k \in stack : k < l => IsPrefix(branch[k], branch[l])
    BY DEF LinearWhenDone, IsAncestor
  <2>1. Sits(branch[l], l)
    BY DEF IInv, Chain
  <2> QED BY <2>1 DEF Sits, Below
<1>2. IInv => PublishedUnlessCut
  <2> SUFFICES ASSUME IInv, run.pc = "done", cut = {} PROVE owed = {}
    BY DEF PublishedUnlessCut
  <2> QED BY RunningIs DEF IInv, Listed, Rebasing
<1>3. IInv => SignedUnlessCut
  BY DEF IInv, AllSigned, Signed, SignedUnlessCut
<1>4. IInv => SyncEndsWell
  BY <1>1, <1>2, <1>3 DEF SyncEndsWell
<1> QED BY <1>4, Inductive, PTL

LEMMA OnlyBeginDrops ==
    ASSUME [Next]_vars, stack' # stack
    PROVE  \E cmd \in {"sync", "propose"} : \E fetched, ghUp, deleted, all \in BOOLEAN :
               Begin(cmd, fetched, ghUp, deleted, all)
<1>1. Sync \/ Propose
  BY DEF Next, vars, lineage, history, server, TrunkAdvances, LandPR, UserSwitches, UserCommits, RebaseLayer,
         ResignLayer, PushRewritten, FinishRebase, Continue, Abort, Interrupted, PublishLayer,
         SaveProposed, Return
<1> QED BY <1>1 DEF Sync, Propose

LEMMA DroppedHasLanded ==
    ASSUME IInv, [Next]_vars, NEW l \in stack \ stack'
    PROVE  authored[l] \subseteq Patches(upstream)
<1>1. PICK cmd \in {"sync", "propose"} : \E fetched, ghUp, deleted, all \in BOOLEAN :
               Begin(cmd, fetched, ghUp, deleted, all)
  BY OnlyBeginDrops
<1>2. trunkRef' \in {trunkRef, upstream} /\ IsPrefix(branch[l], trunkRef')
  BY <1>1, BeginDoes
<1>3. /\ branch[l] \in Seq(Commit) /\ trunkRef \in Seq(Commit) /\ upstream \in Seq(Commit)
      /\ IsPrefix(trunkRef, upstream) /\ authored[l] \subseteq Patches(branch[l])
  BY TipsTyped DEF IInv, Grown, Kept
<1>4. IsPrefix(branch[l], upstream)
  BY <1>2, <1>3, PrefixOrder
<1> QED BY <1>3, <1>4, PrefixPatches

\* Sync and propose only drop a layer, and its branches, when trunk has all its patches.
THEOREM DropsLanded == Spec => DropsOnlyLanded
<1>1. IInv /\ [Next]_vars => [\A l \in stack \ stack' : authored[l] \subseteq Patches(upstream)]_vars
  BY DroppedHasLanded
<1> QED BY <1>1, Inductive, PTL DEF Spec, DropsOnlyLanded

LEMMA HeadIsHome ==
    ASSUME IInv, [Next]_vars, saved # NoState, saved' = NoState PROVE head' = home
<1>1. CASE FinishRebase
  BY <1>1 DEF FinishRebase, IInv, Placed, Rebasing
<1>2. CASE Abort
  BY <1>2 DEF Abort, IInv, Placed
<1>3. CASE RebaseLayer
  <2>1. saved' = run.st /\ run.st.open # {}
    BY <1>3 DEF RebaseLayer, IInv, Placed, Rebasing
  <2> QED BY <2>1, IdleTyped
<1>4. ASSUME NEW cmd \in {"sync", "propose"}, NEW fetched \in BOOLEAN, NEW ghUp \in BOOLEAN,
             NEW deleted \in BOOLEAN, NEW all \in BOOLEAN, Begin(cmd, fetched, ghUp, deleted, all)
      PROVE  FALSE
  <2>1. \/ saved' = saved
        \/ /\ stack' # {}
           /\ saved' = [open |-> stack', at |-> Min(stack'), rewritten |-> {}, orig |-> head']
    BY <1>4, BeginDoes
  <2> QED BY <2>1, IdleTyped
<1>5. CASE Sync \/ Propose
  BY <1>4, <1>5 DEF Sync, Propose
<1>6. FinishRebase \/ Abort \/ RebaseLayer \/ Sync \/ Propose
  BY DEF Next, vars, TrunkAdvances, LandPR, UserSwitches, UserCommits, ResignLayer, PushRewritten,
         Continue, Interrupted, PublishLayer, SaveProposed, Return
<1> QED BY <1>1, <1>2, <1>3, <1>5, <1>6

\* Whenever the state file goes, HEAD is back on the branch the stack rebase began on.
THEOREM HeadReturns == Spec => HeadComesHome
<1>1. IInv /\ [Next]_vars => [saved # NoState /\ saved' = NoState => head' = home]_vars
  BY HeadIsHome
<1> QED BY <1>1, Inductive, PTL DEF Spec, HeadComesHome

=============================================================================
