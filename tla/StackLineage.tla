---------------------------- MODULE StackLineage ----------------------------
(* The lineage of stacked branches: which branches make up which stack, kept  *)
(* in the local git config as one key per branch (its stack's id) and one per *)
(* stack (its layers, bottom to tip), next to the branches themselves, which  *)
(* plain git and the merge bot change too. git start, append, status, expand, *)
(* merge, done, and the adopting and pruning halves of propose and sync.      *)
(*                                                                            *)
(* A command reads the lineage, works out in memory what it will do, and then *)
(* runs git once for every ref and every key: a step of the model is one such *)
(* run of git, after any of which the command may die or give up.             *)
EXTENDS Naturals, FiniteSets, Sequences, SequencesExt, FiniteSetsExt

CONSTANTS
    Branch,    \* branch names, trunk's aside
    NoBranch,  \* "no such branch"; as HEAD, a detached one
    Trunk,     \* the local trunk branch, as HEAD and as a base
    Id,        \* stack ids
    NoId,      \* "no such key"
    Bounds     \* how many commits the user makes, commands are started, and branches
               \* made, deleted, pushed and landed by plain git: one of these, for good

ASSUME BranchAssumption == NoBranch \notin Branch \cup {Trunk} /\ Trunk \notin Branch
ASSUME IdAssumption == NoId \notin Id
ASSUME BoundAssumption == Bounds \subseteq [patch : Nat, runs : Nat, plain : Nat]

VARIABLES
    tip,     \* history of each local branch, None when there is no such branch
    trunk,   \* history of the trunk ref, as fetched
    origin,  \* history of each branch on the push remote
    key,     \* dotty.branch.<branch>.stack
    layers,  \* dotty.stack.<id>.layers, empty when unset
    merged,  \* branches whose recorded PR the forge reports as merged
    head,    \* the checked out branch
    run,     \* the command in progress
    \* History, read by properties only.
    made,    \* commits made
    work,    \* those the user has not thrown away
    cut,     \* a command was cut short among its config writes
    runs,    \* commands started
    plain,   \* plain git actions so far
    bound    \* the bound chosen

refs == <<tip, trunk, origin>>
config == <<key, layers, merged>>
history == <<made, work, cut, runs, plain>>
vars == <<tip, trunk, origin, key, layers, merged, head, run, made, work, cut, runs, plain, bound>>

\* A commit stands for the patches it applies (a squash applies several) and a
\* history is the sequence of its commits, so that "is an ancestor of" is "is a
\* prefix of" and a commit replayed on another base is another commit.
Commit == (SUBSET Nat) \ {{}}
None == <<{}>>
Exists(b) == tip[b] # None
Patches(hist) == UNION ToSet(hist)
IsAncestor(anc, desc) == IsPrefix(anc, desc)
TipOf(b) == IF b = Trunk THEN trunk ELSE tip[b]

\* trunk..tip: what follows the longest common beginning.
Shared(hist) == Cardinality({n \in 1..Len(hist) : IsPrefix(SubSeq(hist, 1, n), trunk)})
Base(hist) == SubSeq(hist, 1, Shared(hist))
Own(hist) == SubSeq(hist, Shared(hist) + 1, Len(hist))

\* The entries of a sequence at the indices to keep: the n-th is the one at the index
\* with n of them up to it.
Filtered(seq, keep) ==
    LET Upto(i) == {j \in keep : j <= i}
    IN [n \in 1..Cardinality(keep) |-> seq[CHOOSE i \in keep : Cardinality(Upto(i)) = n]]

\* git rebase: the commits whose patches the base lacks, on the base.
Rebased(hist, base) ==
    IF IsAncestor(base, hist) THEN hist
    ELSE base \o Filtered(hist, {i \in DOMAIN hist : ~(hist[i] \subseteq Patches(base))})

-----------------------------------------------------------------------------
\* The stack a branch is recorded in: its layers, or none.

StackOf(b) == IF key[b] = NoId THEN <<>> ELSE layers[key[b]]
InStack(b) == StackOf(b) # <<>>

Without(stack, b) == Filtered(stack, {i \in DOMAIN stack : stack[i] # b})
FreshId(id) == layers[id] = <<>> /\ \A b \in Branch : key[b] # id

-----------------------------------------------------------------------------
\* Commands as what they still have to do.

Kind == {"create", "start", "detach", "reset", "rebase", "leave", "drop", "drop origin", "checkout", "push",
         "set key", "set layers", "unset key", "unset pr", "unset layers"}
Unset == {"unset key", "unset pr", "unset layers"}

Do(kind) == [do |-> kind, branch |-> NoBranch, onto |-> NoBranch, id |-> NoId, list |-> <<>>, hist |-> <<>>]
On(kind, b) == [Do(kind) EXCEPT !.branch = b]
At(kind, b, hist) == [On(kind, b) EXCEPT !.hist = hist]

\* saveStack: a key for each layer, then the list.
SaveStack(stack, id) ==
    [i \in 1..(Len(stack) + 1) |->
        IF i <= Len(stack) THEN [On("set key", stack[i]) EXCEPT !.id = id]
                           ELSE [Do("set layers") EXCEPT !.id = id, !.list = stack]]

\* Mutant: the branch keeps its key.
RemoveLayerOnly(stack, id, b) ==
    LET rest == Without(stack, b) IN
    IF rest = <<>> THEN <<[Do("unset layers") EXCEPT !.id = id]>> ELSE SaveStack(rest, id)
\* Mutant: the layers above go too.
RemoveLayerAbove(stack, id, b) ==
    LET rest == SubSeq(stack, 1, (CHOOSE i \in 1..(Len(stack) + 1) : i > Len(stack) \/ stack[i] = b) - 1) IN
    IF rest = stack THEN <<>>
    ELSE <<On("unset key", b), On("unset pr", b)>>
            \o IF rest = <<>> THEN <<[Do("unset layers") EXCEPT !.id = id]>> ELSE SaveStack(rest, id)
RemoveLayer(stack, id, b) ==
    LET rest == Without(stack, b) IN
    IF rest = stack THEN <<>>
    ELSE <<On("unset key", b), On("unset pr", b)>>
            \o IF rest = <<>> THEN <<[Do("unset layers") EXCEPT !.id = id]>> ELSE SaveStack(rest, id)

\* todo: what git is still to be run for; stack, id: the stack in memory; left:
\* the branches a merge, done or prune has still to clean up; cur: the branch it
\* was started on; made: branches an expand has made so far; orig: the history it
\* started from; was: the branches recorded in a stack when the command began.
Idle == [op |-> "idle", todo |-> <<>>, stack |-> <<>>, id |-> NoId, left |-> {}, cur |-> NoBranch,
         cleanup |-> TRUE, rebased |-> FALSE, made |-> {}, orig |-> None, was |-> {}]

Recorded == {b \in Branch : b \in ToSet(StackOf(b))}

Step(r) == run' = r
Starts(r) == run = Idle /\ runs < bound.runs /\ run' = r /\ runs' = runs + 1
Begin(op, todo) == [Idle EXCEPT !.op = op, !.todo = todo, !.was = Recorded]

Init ==
    /\ tip = [b \in Branch |-> None]
    /\ trunk = <<>>
    /\ origin = [b \in Branch |-> None]
    /\ key = [b \in Branch |-> NoId]
    /\ layers = [id \in Id |-> <<>>]
    /\ merged = {}
    /\ head = Trunk
    /\ run = Idle
    /\ made = 0
    /\ work = {}
    /\ cut = FALSE
    /\ runs = 0
    /\ plain = 0
    /\ bound \in Bounds

-----------------------------------------------------------------------------
\* Plain git and the merge bot, between commands.

Plain == run = Idle /\ plain < bound.plain /\ plain' = plain + 1

UserCommits ==
    /\ run = Idle
    /\ head \in Branch
    /\ made < bound.patch
    /\ tip' = [tip EXCEPT ![head] = Append(@, {made + 1})]
    /\ made' = made + 1
    /\ work' = work \cup {made + 1}
    /\ UNCHANGED <<trunk, origin, config, head, run, cut, runs, plain>>

UserBranches(b) ==
    /\ Plain
    /\ ~Exists(b)
    /\ head # NoBranch
    /\ tip' = [tip EXCEPT ![b] = TipOf(head)]
    /\ head' = b
    /\ UNCHANGED <<trunk, origin, config, run, made, work, cut, runs>>

UserSwitches(b) ==
    /\ run = Idle
    /\ b \in {Trunk} \cup {c \in Branch : Exists(c)}
    /\ head' = b
    /\ UNCHANGED <<refs, config, run, history>>

UserDeletes(b) ==
    /\ Plain
    /\ Exists(b) /\ head # b
    /\ tip' = [tip EXCEPT ![b] = None]
    /\ work' = work \cap (Patches(trunk) \cup UNION {Patches(tip[c]) : c \in Branch \ {b}})
    /\ UNCHANGED <<trunk, origin, config, head, run, made, cut, runs>>

UserPushes(b) ==
    /\ Plain
    /\ Exists(b)
    /\ origin' = [origin EXCEPT ![b] = tip[b]]
    /\ UNCHANGED <<tip, trunk, config, head, run, made, work, cut, runs>>

\* A pushed branch lands by fast-forward, by a PR dotty recorded or another.
Land(b) ==
    /\ Plain
    /\ origin[b] # None /\ IsStrictPrefix(trunk, origin[b])
    /\ trunk' = origin[b]
    /\ merged' \in {merged} \cup IF InStack(b) THEN {merged \cup {b}} ELSE {}
    /\ UNCHANGED <<tip, origin, key, layers, head, run, made, work, cut, runs>>

-----------------------------------------------------------------------------
\* start, append, and the two ways a branch of plain git gets a stack.

Start(b, id) ==
    /\ ~Exists(b)
    /\ FreshId(id)
    /\ Starts(Begin("start", <<At("start", b, trunk)>> \o SaveStack(<<b>>, id) \o <<On("push", b)>>))
    /\ UNCHANGED <<refs, config, head, made, work, cut, plain>>

AppendLayer(b) ==
    /\ head \in Branch /\ InStack(head)
    /\ LET stack == StackOf(head) IN
        /\ b \notin ToSet(stack) /\ ~Exists(b)
        /\ head = Last(stack)
        /\ Starts(Begin("append", <<At("start", b, tip[head])>> \o SaveStack(Append(stack, b), key[head])
                                    \o <<On("push", b)>>))
    /\ UNCHANGED <<refs, config, head, made, work, cut, plain>>

Features == {b \in Branch : Exists(b) /\ IsStrictPrefix(trunk, tip[b])}

\* closestParents: the nearest feature strictly below; of several with one tip,
\* the one git lists last.
Closest(b) ==
    LET below == {a \in Features : IsStrictPrefix(tip[a], tip[b])}
    IN IF below = {} THEN {NoBranch}
       ELSE {a \in below : \A c \in below : IsAncestor(tip[c], tip[a])}
ClosestParents == {p \in [Features -> Features \cup {NoBranch}] : \A b \in DOMAIN p : p[b] \in Closest(b)}

\* lineagePath: up from trunk through HEAD, then for as long as there is one child.
LineagePath(parent, path) ==
    LET Kids(b) == {k \in DOMAIN parent : parent[k] = b}
    IN /\ parent[path[1]] = NoBranch
       /\ \A j \in 2..Len(path) : parent[path[j]] = path[j - 1]
       /\ Cardinality(Kids(Last(path))) # 1
       /\ \E h \in DOMAIN path :
            /\ path[h] = head
            /\ \A j \in h..(Len(path) - 1) : Kids(path[j]) = {path[j + 1]}

\* DiscoverStack: a chain of two branches at least.
Discovered ==
    IF head \notin Features THEN {}
    ELSE UNION {{path \in [1..n -> Features] : LineagePath(parent, path)} :
                    parent \in ClosestParents, n \in 2..Cardinality(Features)}

Discover(id) ==
    /\ head \in Branch /\ ~InStack(head)
    /\ FreshId(id)
    /\ \E stack \in Discovered : Starts(Begin("discover", SaveStack(stack, id)))
    /\ UNCHANGED <<refs, config, head, made, work, cut, plain>>

AdoptBranch(id) ==
    /\ head \in Branch /\ ~InStack(head)
    /\ FreshId(id)
    /\ Discovered = {}
    /\ Starts(Begin("adopt", SaveStack(<<head>>, id)))
    /\ UNCHANGED <<refs, config, head, made, work, cut, plain>>

-----------------------------------------------------------------------------
\* expand: one layer per commit, or per commit and the chores above it.

\* The commits of each layer squashed into one; chores are positions, and each goes
\* with the commit below it.
Grouped(own, chores) ==
    LET Layer(i) == Cardinality((1..i) \ chores)
    IN [j \in 1..Layer(Len(own)) |-> UNION {own[i] : i \in {k \in DOMAIN own : Layer(k) = j}}]

Rewritten(hist, stack, chores) ==
    LET grouped == Grouped(Own(hist), chores)
    IN [j \in DOMAIN stack |->
            At(IF j < Len(stack) THEN "create" ELSE "reset", stack[j], Base(hist) \o SubSeq(grouped, 1, j))]
FirstSquash(stack, chores) ==
    IF chores = {} THEN Len(stack) ELSE Min(chores) - 1

\* Mutant: the expanded branch stays on its original commits.
ReplayInPlace(hist, stack, chores) ==
    SubSeq(Rewritten(hist, stack, chores), 1, Len(stack) - 1) \o <<Do("detach")>>
\* Below the first squash branches are made on the commits there are; from it
\* on, new commits on a detached HEAD, and the branch is reset to the last.
Replay(hist, stack, chores) ==
    LET first == FirstSquash(stack, chores)
        layered == Rewritten(hist, stack, chores)
    IN SubSeq(layered, 1, first - 1)
        \o IF chores = {} THEN <<>> ELSE <<Do("detach")>> \o SubSeq(layered, first, Len(stack))

\* The tip layer is the branch itself, the others take names nobody has.
LayerNames(n) ==
    {s \in [1..n -> {b \in Branch : ~Exists(b)} \cup {head}] :
        IsInjective(s) /\ s[n] = head}

Expand(id, chores) ==
    /\ head \in Branch
    /\ LET own == Own(tip[head]) IN
        /\ Len(own) >= 2
        /\ chores \subseteq 2..Len(own)
        /\ IF InStack(head) THEN Len(StackOf(head)) = 1 /\ id = key[head] ELSE FreshId(id)
        /\ \E stack \in LayerNames(Len(own) - Cardinality(chores)) :
            Starts([Begin("expand", Replay(tip[head], stack, chores) \o SaveStack(stack, id))
                    EXCEPT !.stack = stack, !.cur = head, !.orig = tip[head]])
    /\ UNCHANGED <<refs, config, head, made, work, cut, plain>>

\* An error: the branch goes back where it was and the new branches go.
ExpandFails ==
    /\ run.op = "expand" /\ run.todo # <<>>
    /\ LET created == Filtered(run.stack, {i \in DOMAIN run.stack : run.stack[i] \in run.made}) IN
        Step([run EXCEPT !.op = "undo",
                !.todo = <<At("reset", run.cur, run.orig)>> \o [j \in DOMAIN created |-> On("drop", created[j])]])
    /\ cut' = (cut \/ Head(run.todo).do \in {"set key", "set layers"})
    /\ UNCHANGED <<refs, config, head, made, work, runs, plain>>

-----------------------------------------------------------------------------
\* merge: the layers below are brought in sync, then absorbed.

Below(stack, i) == IF i = 1 THEN Trunk ELSE stack[i - 1]

Merge(n, cleanup) ==
    /\ head \in Branch /\ InStack(head)
    /\ LET stack == StackOf(head) IN
        \E i \in DOMAIN stack :
            LET missing == {j \in 1..i : ~IsAncestor(TipOf(Below(stack, j)), tip[stack[j]])}
                first == IF missing = {} THEN i + 1 ELSE Min(missing)
            IN /\ stack[i] = head
               /\ n < i
               /\ \A j \in 1..i : Exists(stack[j])
               /\ Starts([Begin("merge", [k \in 1..(i + 1 - first) |->
                            [On("rebase", stack[first + k - 1]) EXCEPT !.onto = Below(stack, first + k - 1)]])
                        EXCEPT !.stack = stack, !.id = key[head], !.cur = head, !.cleanup = cleanup,
                               !.left = {stack[j] : j \in (i - n)..(i - 1)}, !.rebased = missing # {}])
    /\ UNCHANGED <<refs, config, head, made, work, cut, plain>>

\* Every parent is verified before the first is deleted.
MergeVerified ==
    /\ run.op = "merge" /\ run.todo = <<>>
    /\ IF \A b \in run.left : IsAncestor(tip[b], tip[run.cur])
         THEN Step([run EXCEPT !.op = "absorb"])
         ELSE Step(Idle)
    /\ UNCHANGED <<refs, config, head, history>>

Absorbed ==
    /\ run.op = "absorb" /\ run.todo = <<>> /\ run.left = {}
    /\ Step([run EXCEPT !.op = "finish", !.todo = <<On("checkout", run.cur)>>
                \o IF run.rebased THEN <<On("push", run.cur)>> ELSE <<>>])
    /\ UNCHANGED <<refs, config, head, history>>

-----------------------------------------------------------------------------
\* The pruning half of sync and propose.

\* Mutant: the pull request alone decides.
LandedByPR(b) == ~Exists(b) \/ b \in merged

\* A layer with no local branch counts as landed; one at trunk's tip does when
\* its PR is merged.
Landed(b) ==
    \/ ~Exists(b)
    \/ IsStrictPrefix(tip[b], trunk)
    \/ (tip[b] = trunk /\ b \in merged)

Prune(cleanup) ==
    /\ head \in Branch /\ InStack(head)
    /\ \E b \in ToSet(StackOf(head)) : Landed(b)
    /\ Starts([Begin("prune", <<>>) EXCEPT !.stack = StackOf(head), !.id = key[head], !.cleanup = cleanup,
                    !.left = {b \in ToSet(StackOf(head)) : Landed(b)}])
    /\ UNCHANGED <<refs, config, head, made, work, cut, plain>>

\* HEAD leaves the branch for the topmost of the others, or for trunk's commit.
Leave(stack, b) ==
    [On("leave", b) EXCEPT !.onto = IF Without(stack, b) = <<>> THEN NoBranch ELSE Last(Without(stack, b))]

\* done: every branch that trunk contains, whether or not it is in a stack.
StartDone ==
    /\ head' = Trunk
    /\ Starts([Begin("done", <<>>) EXCEPT !.left = {b \in Branch : Exists(b) /\ IsAncestor(tip[b], trunk)}])
    /\ UNCHANGED <<refs, config, made, work, cut, plain>>

DoneRemotes ==
    /\ run.op = "done" /\ run.todo = <<>> /\ run.left = {}
    /\ Step([run EXCEPT !.op = "remotes",
                !.left = {b \in Branch : origin[b] # None /\ IsAncestor(origin[b], trunk)}])
    /\ UNCHANGED <<refs, config, head, history>>

\* What cleaning up one branch takes. A merge or a prune works on the stack it
\* has in memory, done loads the branch's own anew.
Dropped(b) == IF run.cleanup THEN <<On("drop", b), On("drop origin", b)>> ELSE <<>>
Cleanup(b) ==
    CASE run.op = "absorb"  -> Dropped(b) \o RemoveLayer(run.stack, run.id, b)
      [] run.op = "prune"   -> <<Leave(run.stack, b)>> \o Dropped(b) \o RemoveLayer(run.stack, run.id, b)
      [] run.op = "done"    -> (IF InStack(b) THEN RemoveLayer(StackOf(b), key[b], b) ELSE <<>>) \o <<On("drop", b)>>
      [] run.op = "remotes" -> <<On("drop origin", b)>>

CleanUp(b) ==
    /\ run.op \in {"absorb", "prune", "done", "remotes"} /\ run.todo = <<>>
    /\ b \in run.left
    /\ run.op \in {"absorb", "prune"} =>
        \E i \in DOMAIN run.stack :
            run.stack[i] = b /\ \A j \in 1..(i - 1) : run.stack[j] \notin run.left
    /\ Step([run EXCEPT !.todo = Cleanup(b), !.left = @ \ {b}, !.stack = Without(@, b)])
    /\ UNCHANGED <<refs, config, head, history>>

-----------------------------------------------------------------------------
\* Running git.

Doing(kind) == run.todo # <<>> /\ Head(run.todo).do = kind
Now == Head(run.todo)
Rest == [run EXCEPT !.todo = Tail(@)]

CreateBranch ==
    /\ Doing("create")
    /\ tip' = [tip EXCEPT ![Now.branch] = Now.hist]
    /\ Step([Rest EXCEPT !.made = @ \cup {Now.branch}])
    /\ UNCHANGED <<trunk, origin, config, head, history>>

\* checkout -b of a new branch, checkout -B of the expanded one.
CheckoutNew ==
    /\ Doing("start") \/ Doing("reset")
    /\ tip' = [tip EXCEPT ![Now.branch] = Now.hist]
    /\ head' = Now.branch
    /\ Step(Rest)
    /\ UNCHANGED <<trunk, origin, config, history>>

Rebase ==
    /\ Doing("rebase")
    /\ tip' = [tip EXCEPT ![Now.branch] = Rebased(@, TipOf(Now.onto))]
    /\ head' = Now.branch
    /\ Step(Rest)
    /\ UNCHANGED <<trunk, origin, config, history>>

MoveHead ==
    /\ \/ Doing("detach") /\ head' = NoBranch
       \/ Doing("checkout") /\ head' = Now.branch
       \/ /\ Doing("leave")
          /\ head' = IF head = Now.branch /\ (Now.onto = NoBranch \/ Exists(Now.onto)) THEN Now.onto ELSE head
    /\ Step(Rest)
    /\ UNCHANGED <<refs, config, history>>

\* Mutant: the ref is deleted whether or not it is checked out.
DropRef ==
    /\ Doing("drop")
    /\ tip' = [tip EXCEPT ![Now.branch] = None]
    /\ Step(Rest)
    /\ UNCHANGED <<trunk, origin, config, head, history>>

\* git deletes no branch that is checked out.
DropBranch ==
    /\ Doing("drop")
    /\ tip' = [tip EXCEPT ![Now.branch] = IF head = Now.branch THEN @ ELSE None]
    /\ Step(Rest)
    /\ UNCHANGED <<trunk, origin, config, head, history>>

DropRemote ==
    /\ Doing("drop origin")
    /\ origin' = [origin EXCEPT ![Now.branch] = None]
    /\ Step(Rest)
    /\ UNCHANGED <<tip, trunk, config, head, history>>

Push ==
    /\ Doing("push")
    /\ origin' = [origin EXCEPT ![Now.branch] = tip[Now.branch]]
    /\ Step(Rest)
    /\ UNCHANGED <<tip, trunk, config, head, history>>

SetKey ==
    /\ Doing("set key")
    /\ key' = [key EXCEPT ![Now.branch] = Now.id]
    /\ Step(Rest)
    /\ UNCHANGED <<refs, layers, merged, head, history>>

UnsetKey ==
    /\ Doing("unset key")
    /\ key' = [key EXCEPT ![Now.branch] = NoId]
    /\ Step(Rest)
    /\ UNCHANGED <<refs, layers, merged, head, history>>

UnsetPR ==
    /\ Doing("unset pr")
    /\ merged' = merged \ {Now.branch}
    /\ Step(Rest)
    /\ UNCHANGED <<refs, key, layers, head, history>>

SetLayers ==
    /\ Doing("set layers")
    /\ layers' = [layers EXCEPT ![Now.id] = Now.list]
    /\ Step(Rest)
    /\ UNCHANGED <<refs, key, merged, head, history>>

UnsetLayers ==
    /\ Doing("unset layers")
    /\ layers' = [layers EXCEPT ![Now.id] = <<>>]
    /\ Step(Rest)
    /\ UNCHANGED <<refs, key, merged, head, history>>

\* Leaving a branch, deletions, pushes, the unsetting of keys and the steps of an
\* undo may fail without ending the command.
Skip ==
    /\ run.todo # <<>>
    /\ Now.do \in {"leave", "drop", "drop origin", "push"} \cup Unset \/ run.op = "undo"
    /\ Step(Rest)
    /\ cut' = (cut \/ Now.do \in Unset)
    /\ UNCHANGED <<refs, config, head, made, work, runs, plain>>

\* done warns of a stack it cannot save and deletes the branch all the same.
SaveFails ==
    /\ Doing("set key") \/ Doing("set layers")
    /\ run.op = "done"
    /\ Step([run EXCEPT !.todo = <<Last(@)>>])
    /\ cut' = TRUE
    /\ UNCHANGED <<refs, config, head, made, work, runs, plain>>

Finish ==
    /\ run # Idle /\ run.todo = <<>>
    /\ run.op \in {"prune", "remotes"} => run.left = {}
    /\ run.op \notin {"merge", "absorb", "done"}
    /\ Step(Idle)
    /\ UNCHANGED <<refs, config, head, history>>

\* An error, or the end of the process: nothing is undone.
Stop ==
    /\ run.todo # <<>>
    /\ Step(Idle)
    /\ cut' = (cut \/ Now.do \in {"set key", "set layers"} \cup Unset)
    /\ UNCHANGED <<refs, config, head, made, work, runs, plain>>

-----------------------------------------------------------------------------
User ==
    \/ UserCommits
    \/ \E b \in Branch : UserBranches(b) \/ UserDeletes(b) \/ UserPushes(b) \/ Land(b)
    \/ \E b \in Branch \cup {Trunk} : UserSwitches(b)

Command ==
    \/ \E id \in Id : \/ Discover(id) \/ AdoptBranch(id)
                      \/ \E b \in Branch : Start(b, id)
                      \/ \E chores \in SUBSET (2..bound.patch) : Expand(id, chores)
    \/ \E b \in Branch : AppendLayer(b) \/ CleanUp(b)
    \/ \E cleanup \in BOOLEAN : Prune(cleanup) \/ \E n \in 1..Cardinality(Branch) : Merge(n, cleanup)
    \/ StartDone \/ DoneRemotes \/ MergeVerified \/ Absorbed \/ ExpandFails

Git ==
    \/ CreateBranch \/ CheckoutNew \/ Rebase \/ MoveHead \/ DropBranch \/ DropRemote \/ Push
    \/ SetKey \/ UnsetKey \/ UnsetPR \/ SetLayers \/ UnsetLayers \/ Skip \/ SaveFails

Next == (User \/ Command \/ Git \/ Finish \/ Stop) /\ UNCHANGED bound

Spec == Init /\ [][Next]_vars

-----------------------------------------------------------------------------
\* Properties.

\* The type of every variable; HEAD is never left on a branch that is gone.
TypeOK ==
    /\ tip \in [Branch -> Seq(Commit) \cup {None}] /\ origin \in [Branch -> Seq(Commit) \cup {None}]
    /\ trunk \in Seq(Commit)
    /\ key \in [Branch -> Id \cup {NoId}]
    /\ layers \in [Id -> Seq(Branch)]
    /\ merged \subseteq Branch
    /\ head \in {Trunk, NoBranch} \/ (head \in Branch /\ Exists(head))
    /\ \A i \in DOMAIN run.todo : run.todo[i].do \in Kind
    /\ run.left \cup run.made \cup run.was \subseteq Branch
    /\ bound \in Bounds /\ made \in 0..bound.patch /\ work \subseteq 1..made
    /\ cut \in BOOLEAN

\* No command loses a commit the user has not thrown away, whatever it deletes,
\* rebases, squashes or undoes and wherever it is cut short: it is on trunk or on
\* a local branch.
WorkKept == work \subseteq Patches(trunk) \cup UNION {Patches(tip[b]) : b \in Branch}

\* While no config write has been left out, a branch that has a stack is one of
\* its layers, although several stacks may have listed it and every command
\* rewrites only some of the keys.
StackHasBranch ==
    run = Idle /\ ~cut => \A b \in Branch : Exists(b) /\ InStack(b) => b \in ToSet(StackOf(b))

\* A stack dotty finds or makes is one line of branches, each strictly above the
\* one below, when its list is written.
RegisteredIsChain ==
    SetLayers /\ run.op \in {"discover", "expand"} =>
        \A j \in 2..Len(Now.list) : IsStrictPrefix(tip[Now.list[j - 1]], tip[Now.list[j]])

\* A command that ends well leaves no branch without a stack that had one, unless
\* its work is on trunk or in another branch.
RecordedStay ==
    Finish /\ ~cut => \A b \in run.was \ Recorded :
        Patches(tip[b]) \subseteq Patches(trunk) \cup UNION {Patches(tip[c]) : c \in Branch \ {b}}

\* The lineage a command leaves is right: no list is written that is not a chain,
\* and no branch is forgotten that still has work of its own.
LineageRight == [][RegisteredIsChain /\ RecordedStay]_vars

-----------------------------------------------------------------------------
\* What the repository says and the code does not keep.

\* sync drops, and deletes on origin, layers whose work is on trunk.
LandedIsOnTrunk ==
    [][DropRemote /\ run.op = "prune" => Patches(origin[Now.branch]) \subseteq Patches(trunk)]_vars

=============================================================================
