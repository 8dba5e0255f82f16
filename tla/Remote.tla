------------------------------- MODULE Remote -------------------------------
(***************************************************************************)
(* A project and its remote: instances checkpoint and merge, the remote    *)
(* lands merges and follows them (manager.rs, remote.rs, endpoint.rs, and  *)
(* the worker's index.ts, project.ts, follow.ts).                          *)
(*                                                                         *)
(* A commit is a number; `made` says what each is: the tracker it is of,   *)
(* the commits behind it (itself too), for a commit of root its pins, and  *)
(* whether it changed a file a tracker outside Git owns.  What composing   *)
(* and splitting make of a commit's files is in Compose: here the view     *)
(* commit of a workspace and the root commit it splits to are one.         *)
(*                                                                         *)
(* A process is an instance, a machine's project root (it has no           *)
(* checkpoint to sync), or the remote's own pull of a mirror.  The merges  *)
(* are into `main`, and every repo holds its whole history: no snapshots.  *)
(***************************************************************************)
EXTENDS Integers, FiniteSets, Sequences, Functions

CONSTANTS
    Instance, ProjectRoot, Mirror,  \* the kinds of process
    Host, Home,    \* the machine each runs on, and where the project started
    Fresh,         \* the instances not spawned yet
    Edits,         \* what each process edits: the trackers, those with a
                   \* secret among them, and whether it commits
    Linked,        \* whether the project may start on its remote: BOOLEANs
    MaxCommit, MaxCommand, MaxUpdate, MaxDeath,  \* bounds
    MaxKill,       \* and one off the remote, one on it
    LocalAtOnce,   \* commands a project without a remote runs at once
    Updates,       \* the trackers others push commits to
    Sideways       \* whether pulls may leave commits of their pin behind

VARIABLES
    made,      \* every commit made anywhere
    inst,      \* each process's committed work, and that with the rest on top
    main,      \* each machine: trackers' `main`, refs/newgit/trackers in the project,
    kept,      \* and refs/trackers in the tracker store, until it is on its remote
    has,       \* each machine: the commits its project holds
    linked,    \* whether the project is on its remote
    list,      \* the remote: the head of each tracker on `main`
    was,       \* what root's head has been
    pending,   \* the merges begun and not landed
    stored,    \* the checkpoints on the remote
    repo,      \* each tracker's repo there
    fork,      \* each instance's forks there: what each holds
    follows,   \* landings whose branches have yet to follow
    op,        \* what each process's command is doing
    acked,     \* the root commits that merges said they merged
    spent      \* commands, updates, kills and deaths so far

remote == <<list, was, pending, stored>>
local == <<main, kept, has>>
vars == <<made, inst, local, linked, remote, repo, fork, follows, op, acked, spent>>

Process == Instance \union ProjectRoot \union Mirror
Root == "root"
Children == {"a", "b"}
Tracker == Children \union {Root}

ASSUME RemoteAssumption ==
    /\ IsFiniteSet(Process) /\ Fresh \subseteq Instance
    /\ DOMAIN Host = Process /\ DOMAIN Edits = Process /\ Home \in Range(Host)
    /\ \A p \in Process : Edits[p] \subseteq [in : SUBSET Tracker, secret : SUBSET Tracker,
                                             commits : BOOLEAN]
    /\ Linked \subseteq BOOLEAN /\ Updates \subseteq Children /\ Sideways \in BOOLEAN
    /\ {MaxCommit, MaxCommand, MaxUpdate, MaxDeath, LocalAtOnce} \subseteq Nat
    /\ MaxKill \in [BOOLEAN -> Nat]

(***************************************************************************)
(* Commits.                                                                *)
(***************************************************************************)
With(commits, tracker, parents, pins, secret) ==
    LET new == Len(commits) + 1
    IN  Append(commits, [of |-> tracker, pins |-> pins, secret |-> secret,
                         behind |-> (UNION {commits[q].behind : q \in parents}) \union {new}])
Behind(c) == IF c = 0 THEN {} ELSE made[c].behind
Ancestor(a, b) == a \in Behind(b)
Index(r) == IF r = 0 THEN <<>> ELSE [made[r].pins EXCEPT ![Root] = r]
At(trackers, t) == IF t \in DOMAIN trackers THEN trackers[t] ELSE 0
Put(trackers, t, c) == [u \in DOMAIN trackers \union {t} |-> IF u = t THEN c ELSE trackers[u]]

\* The history the project was adopted with: a commit of `a`, and root's.
Adopted == {1, 2}

\* Commits with a new one of a tracker, which a root commit will pin; and with
\* that root commit.
Pinning(so, t, parents, secret) ==
    [commits |-> With(so.commits, t, parents, <<>>, secret),
     pins |-> Put(so.pins, t, Len(so.commits) + 1)]
Rooted(so, parents, secret) ==
    With(so.commits, Root, parents, Put(so.pins, Root, Len(so.commits) + 1), secret)

\* The commits of an edit, on root commit `head`.  (A secret is in a commit
\* that was split before its file was given to a tracker outside Git.)
EditChild(so, t, head, edit) ==
    IF t \in edit.in THEN Pinning(so, t, {At(Index(head), t)} \ {0}, t \in edit.secret) ELSE so
Edited(head, edit) ==
    LET one == EditChild([commits |-> made, pins |-> Index(head)], "a", head, edit)
        two == EditChild(one, "b", head, edit)
    IN  Rooted(two, {head} \ {0}, edit.secret # {})

\* The later of two commits, if one is behind the other.
Later(a, b) == IF a = 0 \/ (b # 0 /\ Ancestor(a, b)) THEN {b}
               ELSE IF b = 0 \/ Ancestor(b, a) THEN {a} ELSE {}
BothMoved(a, b) == {t \in DOMAIN a \intersect DOMAIN b : Later(a[t], b[t]) = {}}

\* Two root commits merged in a view and split: each child's later pin, or a
\* merge of the two.
JoinChild(so, t, a, b) ==
    IF a = 0 /\ b = 0 THEN so
    ELSE IF Later(a, b) = {} THEN Pinning(so, t, {a, b}, FALSE)
    ELSE [so EXCEPT !.pins = Put(@, t, CHOOSE c \in Later(a, b) : TRUE)]
Joined(ours, theirs) ==
    LET a == Index(ours)
        b == Index(theirs)
        one == JoinChild([commits |-> made, pins |-> a], "a", At(a, "a"), At(b, "a"))
        two == JoinChild(one, "b", At(a, "b"), At(b, "b"))
    IN  Rooted(two, {ours, theirs}, FALSE)

(***************************************************************************)
(* The gate: what a tracker outside Git owns never leaves through Git.     *)
(***************************************************************************)
RefusedNewest(r) == r \notin Adopted \union {0} /\ made[r].secret
Refused(r) == \E c \in Behind(r) \ Adopted : made[c].secret
RefusedTrackers(commits, trackers) ==
    \E t \in trackers : \E c \in Behind(commits[t]) \ Adopted : made[c].secret

(***************************************************************************)
(* Commands.                                                               *)
(***************************************************************************)
NoOp == [cmd |-> "none", at |-> "idle", theirs |-> 0, tip |-> 0, base |-> <<>>, heads |-> <<>>,
         merged |-> 0, moves |-> {}, writes |-> {}, todo |-> <<>>]
Idle(p) == op[p].at = "idle"
Becomes(p, record) == op' = [op EXCEPT ![p] = record]
GoOn(p, at) == Becomes(p, [op[p] EXCEPT !.at = at])
Stop(p) == Becomes(p, NoOp)
Busy(m) == {q \in Process : ~Idle(q) /\ Host[q] = m}
Spend(what) == spent' = [spent EXCEPT ![what] = @ + 1]
Only(t, trackers) == IF t \in trackers THEN <<t>> ELSE <<>>
InOrder(trackers) == Only("a", trackers) \o Only("b", trackers) \o Only(Root, trackers)
RootFirst(trackers) == <<Root>> \o InOrder(trackers \ {Root})

\* fetch_carved_trackers: the store's branches, over the project's.
Fetched(m) == [t \in DOMAIN main[m] \union DOMAIN kept[m] |->
                  IF t \in DOMAIN kept[m] THEN kept[m][t] ELSE main[m][t]]

(***************************************************************************)
(* Work.                                                                   *)
(***************************************************************************)
Make(p, commits) ==
    /\ Len(commits) <= MaxCommit
    /\ made' = commits
    /\ has' = [has EXCEPT ![Host[p]] = @ \union (Len(made) + 1 .. Len(commits))]

\* Somebody edits a workspace, and commits it or not.
Edit(p) ==
    /\ Idle(p) /\ p \notin Mirror /\ inst[p].head # 0
    /\ \E edit \in Edits[p] :
          LET commits == Edited(inst[p].head, edit)
          IN  /\ Make(p, commits)
              /\ inst' = [inst EXCEPT ![p] =
                    [head |-> IF edit.commits THEN Len(commits) ELSE @.head, tip |-> Len(commits)]]
    /\ UNCHANGED <<main, kept, linked, remote, repo, fork, follows, op, acked, spent>>

\* Somebody else, an upstream's sync say, moves a tracker's own `main`.
Update(t) ==
    /\ linked /\ t \in DOMAIN repo
    /\ spent.updates < MaxUpdate /\ Spend("updates")
    /\ LET commits == With(made, t, {repo[t].main}, <<>>, FALSE)
       IN  /\ Len(commits) <= MaxCommit
           /\ made' = commits
           /\ repo' = [repo EXCEPT ![t].main = Len(commits),
                                   ![t].holds = @ \union commits[Len(commits)].behind]
    /\ UNCHANGED <<inst, local, linked, remote, fork, follows, op, acked>>

\* The remote's endpoint serves `main` once the repos' branches have it.
Served == \A t \in DOMAIN list : Ancestor(list[t], repo[t].main)

\* git pull: a workspace takes `main` in, and what the remote made of it is
\* learnt (learn_view_from).
TakeIn(p) ==
    LET theirs == IF linked THEN At(list, Root) ELSE At(main[Host[p]], Root)
        head == inst[p].head
        commits == Joined(head, theirs)
    IN  /\ Idle(p) /\ p \notin Mirror /\ head # 0 /\ inst[p].tip = head
        /\ linked => Served
        /\ theirs # 0 /\ ~Ancestor(theirs, head)
        /\ IF Ancestor(head, theirs)
           THEN /\ inst' = [inst EXCEPT ![p] = [head |-> theirs, tip |-> theirs]]
                /\ has' = [has EXCEPT ![Host[p]] = @ \union
                                UNION {Behind(c) : c \in Range(Index(theirs))}]
                /\ UNCHANGED made
           ELSE /\ Len(commits) <= MaxCommit
                /\ made' = commits
                /\ inst' = [inst EXCEPT ![p] = [head |-> Len(commits), tip |-> Len(commits)]]
                /\ has' = [has EXCEPT ![Host[p]] = @ \union (Len(made) + 1 .. Len(commits))
                                \union UNION {Behind(c) : c \in Range(Index(theirs))}]
        /\ UNCHANGED <<main, kept, linked, remote, repo, fork, follows, op, acked, spent>>

\* A tracker's `main`, where the project's truth is.
Upstream(m, t) == IF linked /\ t \in DOMAIN repo THEN repo[t].main ELSE At(kept[m], t)

\* newgit pull: a commit moving a tracker's pin to its `main`, which need not
\* have what was pinned behind it.
Pull(p, t) ==
    LET m == Host[p]
        head == inst[p].head
        new == Upstream(m, t)
        old == At(Index(head), t)
        id == Len(made) + 1
        commits == With(made, Root, {head}, Put(Put(Index(head), t, new), Root, id), FALSE)
    IN  /\ Idle(p) /\ p \notin Mirror /\ head # 0 /\ inst[p].tip = head
        /\ ~linked => Cardinality(Busy(m)) < LocalAtOnce
        /\ new # 0 /\ old # 0 /\ ~Ancestor(new, old)
        /\ Sideways \/ Ancestor(old, new)
        /\ Len(commits) <= MaxCommit
        /\ made' = commits
        /\ inst' = [inst EXCEPT ![p] = [head |-> id, tip |-> id]]
        /\ main' = IF linked THEN main ELSE [main EXCEPT ![m] = Fetched(m)]
        /\ has' = [has EXCEPT ![m] = @ \union Behind(new) \union {id}]
        /\ UNCHANGED <<kept, linked, remote, repo, fork, follows, op, acked, spent>>

(***************************************************************************)
(* Putting a checkpoint on the remote (sync_checkpoint).                   *)
(***************************************************************************)
\* A command begins, with its checkpoint: the instance's work is split, and
\* anything secret stops it here.
Begin(p, cmd) ==
    LET m == Host[p]
        syncs == linked /\ p \in Instance
        stops == linked /\ Refused(IF syncs THEN inst[p].tip ELSE inst[p].head)
    IN  /\ Idle(p) /\ p \notin Mirror /\ inst[p].head # 0
        /\ ~linked => Cardinality(Busy(m)) < LocalAtOnce
        /\ cmd = "checkpoint" => syncs
        /\ spent.commands < MaxCommand /\ Spend("commands")
        /\ main' = IF linked THEN main ELSE [main EXCEPT ![m] = Fetched(m)]
        /\ Becomes(p, IF stops THEN NoOp
                      ELSE [NoOp EXCEPT !.cmd = cmd, !.at = IF syncs THEN "sync" ELSE "merge",
                                        !.theirs = inst[p].head, !.tip = inst[p].tip])
        /\ UNCHANGED <<made, inst, kept, has, linked, remote, repo, fork, follows, acked>>

\* What the root commit an instance last shared with `main` pins, if that can
\* be told: the best of the commits behind both, any of them.
SharedPins(p) ==
    LET theirs == list[Root]
        common == Behind(op[p].theirs) \intersect Behind(theirs)
        best == {b \in common : \A c \in common : Ancestor(b, c) => b = c}
    IN  IF theirs \in has[Host[p]] \union Behind(repo[Root].main)
        THEN {Index(b) : b \in best} ELSE {<<>>}

NothingToSend(p, t, shared) ==
    LET o == op[p]
        head == At(Index(o.theirs), t)
        tip == At(Index(o.tip), t)
    IN  /\ head \in {0, tip}
        /\ At(list, t) = tip \/ (t \in DOMAIN list /\ At(shared, t) = tip)

PublishRead(p) ==
    /\ op[p].at = "sync"
    /\ \E shared \in SharedPins(p) :
          LET changed == {t \in DOMAIN Index(op[p].tip) : ~NothingToSend(p, t, shared)}
          IN  Becomes(p, [op[p] EXCEPT !.at = "publish", !.base = list, !.todo = InOrder(changed)])
    /\ UNCHANGED <<made, inst, local, linked, remote, repo, fork, follows, acked, spent>>

\* A changed tracker is forked the first time, and pushed to the fork; one
\* that is not on `main` yet fails the sync, and the merge.
PublishNext(p) ==
    LET t == Head(op[p].todo)
        sent == Behind(At(Index(op[p].theirs), t)) \union Behind(Index(op[p].tip)[t])
        copied == IF t \in DOMAIN fork[p] THEN fork[p][t] ELSE Behind(repo[t].main)
    IN  /\ op[p].at = "publish" /\ op[p].todo # <<>>
        /\ IF t \notin DOMAIN op[p].base THEN Stop(p) /\ UNCHANGED fork
           ELSE /\ fork' = [fork EXCEPT ![p] = Put(@, t, copied \union sent)]
                /\ Becomes(p, [op[p] EXCEPT !.todo = Tail(@)])
        /\ UNCHANGED <<made, inst, local, linked, remote, repo, follows, acked, spent>>

\* The record goes last, and a merge goes on from it.
PublishEnd(p) ==
    /\ op[p].at = "publish" /\ op[p].todo = <<>>
    /\ stored' = stored \union {[by |-> p, head |-> op[p].theirs, tip |-> op[p].tip]}
    /\ IF op[p].cmd = "merge" THEN GoOn(p, "merge") ELSE Stop(p)
    /\ UNCHANGED <<made, inst, local, linked, list, was, pending, repo, fork, follows, acked, spent>>

\* Where import_code looks for a tracker's commits: the author's fork when
\* there is one, the tracker's own repo otherwise.
FoundFor(author, t) ==
    IF t \in DOMAIN fork[author] THEN fork[author][t]
    ELSE IF t \in DOMAIN repo THEN Behind(repo[t].main) ELSE {}
Importable(checkpoint, here) ==
    \A t \in DOMAIN Index(checkpoint.tip) : \A r \in {checkpoint.head, checkpoint.tip} :
        At(Index(r), t) \in {0} \union here \union FoundFor(checkpoint.by, t)

\* Somebody spawns a checkpoint: an instance that comes up as it was.
SpawnFrom(p) ==
    /\ linked /\ Idle(p) /\ p \in Instance /\ inst[p].head = 0
    /\ \E c \in stored :
          LET m == Host[p]
              trackers == DOMAIN Index(c.tip)
          IN  /\ Importable(c, has[m])
              /\ inst' = [inst EXCEPT ![p] = [head |-> c.head, tip |-> c.tip]]
              /\ has' = [has EXCEPT ![m] = @ \union UNION {FoundFor(c.by, t) : t \in trackers}]
    /\ UNCHANGED <<made, main, kept, linked, remote, repo, fork, follows, op, acked, spent>>

(***************************************************************************)
(* newgit merge.                                                           *)
(***************************************************************************)
\* What `main` is, where the project's truth is: the remote's list, or root's
\* branch in the project, after the store's.
MergeRead(p) ==
    LET m == Host[p]
    IN  /\ op[p].at = "merge"
        /\ main' = IF linked THEN main ELSE [main EXCEPT ![m] = Fetched(m)]
        /\ Becomes(p, [op[p] EXCEPT
                !.base = IF linked THEN list ELSE Index(At(main'[m], Root)),
                !.heads = IF linked THEN <<>> ELSE main'[m],
                !.at = IF linked THEN "fetch" ELSE "make"])
        /\ UNCHANGED <<made, inst, kept, has, linked, remote, repo, fork, follows, acked, spent>>

\* The branches of the list's repos are fetched (branch_list).
MergeFetch(p) ==
    /\ op[p].at = "fetch"
    /\ has' = [has EXCEPT ![Host[p]] = @ \union
                  UNION {Behind(repo[t].main) : t \in DOMAIN op[p].base}]
    /\ Becomes(p, [op[p] EXCEPT !.heads = [t \in DOMAIN op[p].base |-> repo[t].main],
                                !.at = "make"])
    /\ UNCHANGED <<made, inst, main, kept, linked, remote, repo, fork, follows, acked, spent>>

\* The trackers an index moves from another.
Moved(base, index) == {t \in DOMAIN index : At(base, t) # index[t]}

CatchUpNone(commits, trackers, pins, heads) == [commits |-> commits, moves |-> {}]
\* Each child's `main` catches up with its pin: what it moves from, and to.
Moving(so, t, head, c) == [so EXCEPT !.moves = @ \union {[tracker |-> t, old |-> head, new |-> c]}]
CatchUpChild(so, t, trackers, pins, head) ==
    IF t \notin trackers \/ (head # 0 /\ pins[t] \in so.commits[head].behind) THEN so
    ELSE IF head = 0 \/ head \in so.commits[pins[t]].behind THEN Moving(so, t, head, pins[t])
    ELSE Moving([so EXCEPT !.commits = With(@, t, {head, pins[t]}, <<>>, FALSE)],
                t, head, Len(so.commits) + 1)
CatchUp(commits, trackers, pins, heads) ==
    LET one == CatchUpChild([commits |-> commits, moves |-> {}], "a", trackers, pins, At(heads, "a"))
    IN  CatchUpChild(one, "b", trackers, pins, At(heads, "b"))

\* The merge commit, the index it makes, and what must catch up.  A commit
\* of `main` that is not here, or a conflict, ends it and nothing moved.
MergeMake(p) ==
    LET o == op[p]
        m == Host[p]
        ours == At(o.base, Root)
        forward == ours = 0 \/ Ancestor(ours, o.theirs)
        joins == ~forward /\ ~Ancestor(o.theirs, ours)
        absent == ours # 0 /\ ours \notin has[m]
        unseen == {t \in BothMoved(o.base, Index(o.theirs)) \ {Root} : o.base[t] \notin has[m]}
        commits == IF joins THEN Joined(ours, o.theirs) ELSE made
        merged == IF joins THEN Len(commits) ELSE IF forward THEN o.theirs ELSE ours
        index == [commits[merged].pins EXCEPT ![Root] = merged]
        moved == Moved(o.base, index)
        caught == CatchUp(commits, moved \ {Root}, index, o.heads)
        all == caught.commits
        sent == {index[t] : t \in moved} \union {v.new : v \in caught.moves}
        stops == linked /\ \E c \in (UNION {all[d].behind : d \in sent}) \ Adopted : all[c].secret
    IN  /\ o.at = "make"
        /\ \/ /\ absent \/ stops \/ (joins /\ BothMoved(o.base, Index(o.theirs)) # {Root})
              /\ Stop(p) /\ UNCHANGED <<made, has>>
           \/ /\ ~absent /\ ~stops /\ ~(joins /\ unseen # {})
              /\ Make(p, all)
              /\ Becomes(p, [o EXCEPT !.merged = merged, !.moves = caught.moves,
                    !.todo = InOrder({t \in moved : t \notin DOMAIN o.base}),
                    !.at = IF ~linked THEN "root" ELSE IF moved = {} THEN "children" ELSE "seed"])
        /\ UNCHANGED <<inst, main, kept, linked, remote, repo, fork, follows, acked, spent>>

\* The move a merge makes of a tracker's `main`: one at most.
MoveOf(o, t) == CHOOSE v \in o.moves : v.tracker = t

\* A tracker new to the branch: a repo is seeded for it.
NewRepo == [main |-> 0, landing |-> {}, stray |-> {}, holds |-> {}]
MergeSeed(p) ==
    LET t == Head(op[p].todo)
        c == Index(op[p].merged)[t]
        r == IF t \in DOMAIN repo THEN repo[t] ELSE NewRepo
    IN  /\ op[p].at = "seed" /\ op[p].todo # <<>> /\ p \notin Mirror
        /\ IF r.main \notin {0, c} THEN Stop(p) /\ UNCHANGED repo
           ELSE /\ repo' = Put(repo, t, [r EXCEPT !.main = c, !.holds = @ \union Behind(c)])
                /\ Becomes(p, [op[p] EXCEPT !.todo = Tail(@)])
        /\ UNCHANGED <<made, inst, local, linked, remote, fork, follows, acked, spent>>

\* check_ancestry: a commit on its tracker's `main` needs no password to move.
OnMain(t, c) == Ancestor(c, repo[t].main)

\* begin_merge: refused once `main` moved; merges begun too long ago are
\* forgotten; and a write password for root and for each `main` to move.
MergeBegin(p) ==
    LET o == op[p]
        index == Index(o.merged)
        writes == {Root} \union {t \in Moved(o.base, index) \ {Root} :
                                    t \in DOMAIN o.base /\ ~OnMain(t, index[t])}
        todo == {Root} \union {v.tracker : v \in {u \in o.moves : u.tracker \in writes}}
    IN  /\ o.at = "seed" /\ o.todo = <<>> /\ p \notin Mirror
        /\ IF list # o.base THEN Stop(p) /\ UNCHANGED pending
           ELSE /\ \E stale \in {{}, pending} :
                      pending' = (pending \ stale) \union {[by |-> p, root |-> o.merged, writes |-> writes]}
                /\ Becomes(p, [o EXCEPT !.at = "land", !.writes = writes,
                                        !.todo = RootFirst(todo)])
        /\ UNCHANGED <<made, inst, local, linked, list, was, stored, repo, fork, follows, acked, spent>>

\* Objects first: each commit waits at a landing ref.
LandNext(p) ==
    LET o == op[p]
        t == Head(o.todo)
        c == IF t = Root THEN o.merged ELSE MoveOf(o, t).new
    IN  /\ o.at = "land" /\ o.todo # <<>>
        /\ repo' = [repo EXCEPT ![t].landing = @ \union {c}, ![t].holds = @ \union Behind(c)]
        /\ Becomes(p, [o EXCEPT !.todo = Tail(@)])
        /\ UNCHANGED <<made, inst, local, linked, remote, fork, follows, acked, spent>>

\* check_index: root's commit is there, and pins what the index says.
IndexHolds(root) == \A t \in DOMAIN Index(root) : t \in DOMAIN repo /\ Index(root)[t] \in repo[t].holds

\* The commit point: the heads this merge moves, root's always among them,
\* are compared and swapped.  (What `main` is already has landed.)
SwappableAlways(base, index) == TRUE
Swappable(base, index) ==
    \A t \in {Root} \union {u \in DOMAIN base \union DOMAIN index : At(base, u) # At(index, u)} :
        At(list, t) = At(base, t)

Finish(p) ==
    LET o == op[p]
        index == Index(o.merged)
        begun == {x \in pending : x.by = p /\ x.root = o.merged}
        asked == {v \in o.moves : v.tracker \in o.writes}
        lands == /\ begun # {} \/ p \in Mirror
                 /\ IndexHolds(o.merged) /\ Swappable(o.base, index)
    IN  /\ o.at = "land" /\ o.todo = <<>>
        /\ IF ~lands /\ list # index
           THEN Stop(p) /\ UNCHANGED <<list, was, pending, follows>>
           ELSE /\ list' = index
                /\ was' = was \union {o.merged}
                /\ pending' = pending \ begun
                /\ follows' = follows \union {[by |-> p, moves |-> asked, at |-> "read",
                                              held |-> 0, head |-> 0, drop |-> {}, tries |-> 0]}
                /\ GoOn(p, "wait")
        /\ UNCHANGED <<made, inst, local, linked, stored, repo, fork, acked, spent>>

(***************************************************************************)
(* The remote follows a landing.                                           *)
(***************************************************************************)
FollowAttempts == 3

Following(f, g) == follows' = (follows \ {f}) \union {g}

\* The head root's branch is to follow: the head now, not this landing's own.
FollowRead(f) ==
    LET head == list[Root]
        r == repo[Root]
        landed == r.landing \intersect (was \union {head})
    IN  /\ f.at = "read"
        /\ Following(f, IF r.main = head /\ landed = {} THEN [f EXCEPT !.at = "moves"]
                        ELSE [f EXCEPT !.at = "move", !.head = head, !.held = r.main, !.drop = landed])
        /\ UNCHANGED <<made, inst, local, linked, remote, repo, fork, op, acked, spent>>

\* Each ref by compare-and-swap; a commit no list ever named is kept.
UnmovedAlways(f) == TRUE
Unmoved(f) == repo[Root].main = f.held
FollowMove(f) ==
    LET r == repo[Root]
        moves == Unmoved(f)
        again == f.held # f.head /\ ~moves
    IN  /\ f.at = "move"
        /\ repo' = [repo EXCEPT ![Root] =
              [r EXCEPT !.main = IF moves THEN f.head ELSE @, !.landing = @ \ f.drop,
                        !.stray = IF f.held \in was \union {0, f.head} THEN @ ELSE @ \union {f.held}]]
        /\ Following(f, IF again /\ f.tries + 1 < FollowAttempts
                        THEN [f EXCEPT !.at = "read", !.tries = @ + 1]
                        ELSE [f EXCEPT !.at = "moves"])
        /\ UNCHANGED <<made, inst, local, linked, remote, fork, op, acked, spent>>

\* A child's `main` moves if it is where the merge saw it; its commit's
\* landing ref goes either way.
FollowChild(f) ==
    \E v \in f.moves :
        /\ f.at = "moves"
        /\ repo' = [repo EXCEPT ![v.tracker].main = IF @ = v.old THEN v.new ELSE @,
                                ![v.tracker].landing = @ \ {v.new}]
        /\ Following(f, [f EXCEPT !.moves = @ \ {v}])
        /\ UNCHANGED <<made, inst, local, linked, remote, fork, op, acked, spent>>

\* The landing has followed, and its client hears.
Answer(f) ==
    /\ f.at = "moves" /\ f.moves = {}
    /\ follows' = follows \ {f}
    /\ IF op[f.by].at # "wait" THEN UNCHANGED op
       ELSE IF f.by \in Mirror THEN Stop(f.by) ELSE GoOn(f.by, "children")
    /\ UNCHANGED <<made, inst, local, linked, remote, repo, fork, acked, spent>>

WorkerDies(f) ==
    /\ spent.deaths < MaxDeath /\ Spend("deaths")
    /\ follows' = follows \ {f}
    /\ IF op[f.by].at = "wait" THEN Stop(f.by) ELSE UNCHANGED op
    /\ UNCHANGED <<made, inst, local, linked, remote, repo, fork, acked>>

(***************************************************************************)
(* The end of a merge, here.                                               *)
(***************************************************************************)
\* Root's branch, by compare-and-swap where it is the truth: on a remote, all
\* of these are copies nothing reads.
LocalRoot(p) ==
    LET o == op[p]
        m == Host[p]
        moved == At(o.base, Root) # 0 /\ At(main[m], Root) # o.base[Root]
    IN  /\ o.at = "root"
        /\ IF moved THEN Stop(p) /\ UNCHANGED main
           ELSE /\ main' = [main EXCEPT ![m] = Put(@, Root, o.merged)]
                /\ GoOn(p, "keep")
        /\ UNCHANGED <<made, inst, kept, has, linked, remote, repo, fork, follows, acked, spent>>

\* publish_carved_refs: what the project's branch is now, into the store.
LocalKeep(p) ==
    LET m == Host[p]
    IN  /\ op[p].at = "keep"
        /\ kept' = [kept EXCEPT ![m] = Put(@, Root, main[m][Root])]
        /\ GoOn(p, "children")
        /\ UNCHANGED <<made, inst, main, has, linked, remote, repo, fork, follows, acked, spent>>

\* The children's branches; then the project root fast-forwards if it can.
LocalEnd(p) ==
    LET o == op[p]
        m == Host[p]
        moved == {v.tracker : v \in o.moves}
        moves(trackers) == [t \in DOMAIN trackers \union moved |->
            IF t \in moved THEN MoveOf(o, t).new ELSE trackers[t]]
        along == {q \in ProjectRoot \ {p} : Host[q] = m /\ Ancestor(inst[q].head, o.merged)
                                            /\ inst[q].tip = inst[q].head}
    IN  /\ o.at = "children"
        /\ main' = IF linked THEN main ELSE [main EXCEPT ![m] = moves(@)]
        /\ kept' = IF linked THEN kept ELSE [kept EXCEPT ![m] = moves(@)]
        /\ inst' = [q \in Process |-> IF q \in along THEN [head |-> o.merged, tip |-> o.merged]
                                      ELSE inst[q]]
        /\ acked' = acked \union {o.theirs}
        /\ IF o.cmd = "create" THEN GoOn(p, "create") ELSE Stop(p)
        /\ UNCHANGED <<made, has, linked, remote, repo, fork, follows, spent>>

(***************************************************************************)
(* A project is created on its remote, after its root merged (add-remote). *)
(***************************************************************************)
CreateRead(p) ==
    LET m == Host[p]
        index == Index(At(Fetched(m), Root))
        mains == [t \in DOMAIN index |-> IF At(Fetched(m), t) # 0 THEN Fetched(m)[t] ELSE index[t]]
    IN  /\ op[p].at = "create"
        /\ main' = [main EXCEPT ![m] = Fetched(m)]
        /\ IF RefusedTrackers(mains, DOMAIN mains) THEN Stop(p)
           ELSE Becomes(p, [op[p] EXCEPT !.base = index, !.heads = mains, !.at = "seeds",
                                         !.todo = InOrder(DOMAIN mains)])
        /\ UNCHANGED <<made, inst, kept, has, linked, remote, repo, fork, follows, acked, spent>>

\* Repos are made, and each is pushed its tracker's `main`, by force: one that
\* was begun and never finished is picked up where it stopped.
CreateSeed(p) ==
    LET t == Head(op[p].todo)
        c == op[p].heads[t]
        r == IF t \in DOMAIN repo THEN repo[t] ELSE NewRepo
    IN  /\ op[p].at = "seeds" /\ op[p].todo # <<>>
        /\ repo' = Put(repo, t, [r EXCEPT !.main = c, !.holds = @ \union Behind(c)])
        /\ Becomes(p, [op[p] EXCEPT !.todo = Tail(@)])
        /\ UNCHANGED <<made, inst, local, linked, remote, fork, follows, acked, spent>>

CreateBranch(p) ==
    /\ op[p].at = "seeds" /\ op[p].todo = <<>>
    /\ list = <<>>
    /\ list' = op[p].base
    /\ was' = {op[p].base[Root]}
    /\ linked' = TRUE
    /\ Stop(p)
    /\ UNCHANGED <<made, inst, local, pending, stored, repo, fork, follows, acked, spent>>

(***************************************************************************)
(* The remote pulls a mirror: it merges what was pushed there (pull_mirror).*)
(***************************************************************************)
MirrorPull(p) ==
    /\ linked /\ p \in Mirror /\ Idle(p)
    /\ spent.commands < MaxCommand /\ Spend("commands")
    /\ \E edit \in Edits[p], on \in was :
          LET commits == Edited(on, edit)
              theirs == Len(commits)
          IN  /\ Make(p, commits)
              /\ Becomes(p, IF edit.secret # {} THEN NoOp
                            ELSE [NoOp EXCEPT !.cmd = "pull", !.at = "merge", !.theirs = theirs])
    /\ UNCHANGED <<inst, main, kept, linked, remote, repo, fork, follows, acked>>

\* It may write to every tracker it moves, adds none, and begins no merge.
MirrorLand(p) ==
    LET o == op[p]
        writes == {Root} \union {v.tracker : v \in o.moves}
    IN  /\ p \in Mirror /\ o.at = "seed"
        /\ IF o.todo # <<>> THEN Stop(p)
           ELSE Becomes(p, [o EXCEPT !.at = "land", !.writes = writes, !.todo = RootFirst(writes)])
        /\ UNCHANGED <<made, inst, local, linked, remote, repo, fork, follows, acked, spent>>

\* A newgit process killed, or one whose network went.
Kill(p) ==
    /\ ~Idle(p) /\ spent.kills < MaxKill[linked] /\ Spend("kills")
    /\ Stop(p)
    /\ UNCHANGED <<made, inst, local, linked, remote, repo, fork, follows, acked>>

(***************************************************************************)
(* The specification.                                                      *)
(***************************************************************************)
Init ==
    /\ linked \in Linked
    /\ made = <<[of |-> "a", pins |-> <<>>, secret |-> FALSE, behind |-> {1}],
                [of |-> Root, pins |-> [a |-> 1, root |-> 2], secret |-> FALSE, behind |-> {2}]>>
    /\ inst = [p \in Process |-> IF p \in Fresh \union Mirror \/ (~linked /\ Host[p] # Home) THEN [head |-> 0, tip |-> 0]
                                 ELSE [head |-> 2, tip |-> 2]]
    /\ main = [m \in Range(Host) |-> IF \E p \in Process : Host[p] = m /\ inst[p].head # 0
                                     THEN Index(2) ELSE <<>>]
    /\ kept = main
    /\ has = [m \in Range(Host) |-> Range(main[m])]
    /\ list = IF linked THEN Index(2) ELSE <<>>
    /\ was = IF linked THEN {2} ELSE {}
    /\ repo = IF linked THEN [t \in {"a", Root} |-> [NewRepo EXCEPT !.main = Index(2)[t],
                                                                    !.holds = {Index(2)[t]}]]
              ELSE <<>>
    /\ pending = {} /\ stored = {} /\ follows = {} /\ acked = {}
    /\ fork = [p \in Process |-> <<>>]
    /\ op = [p \in Process |-> NoOp]
    /\ spent = [commands |-> 0, updates |-> 0, kills |-> 0, deaths |-> 0]

\* git push: from a workspace a checkpoint, refused before it is taken when
\* what is pushed may not leave; from the project root, a merge.
Push(p) == linked /\ p \in Instance /\ ~Refused(inst[p].head) /\ Begin(p, "checkpoint")
ProjectPush(p) == p \in ProjectRoot /\ Begin(p, "merge")

Command(p) ==
    \/ Begin(p, "checkpoint") \/ Begin(p, "merge") \/ Push(p) \/ ProjectPush(p)
    \/ p \in ProjectRoot /\ ~linked /\ Begin(p, "create")
    \/ MirrorPull(p)
Step(p) ==
    \/ PublishRead(p) \/ PublishNext(p) \/ PublishEnd(p)
    \/ MergeRead(p) \/ MergeFetch(p) \/ MergeMake(p)
    \/ MergeSeed(p) \/ MergeBegin(p) \/ MirrorLand(p)
    \/ LandNext(p) \/ Finish(p)
    \/ LocalRoot(p) \/ LocalKeep(p) \/ LocalEnd(p)
    \/ CreateRead(p) \/ CreateSeed(p) \/ CreateBranch(p)
Work(p) ==
    \/ Edit(p) \/ TakeIn(p) \/ SpawnFrom(p) \/ Kill(p)
    \/ \E t \in Children : Pull(p, t)
Follow(f) ==
    FollowRead(f) \/ FollowMove(f) \/ FollowChild(f) \/ Answer(f) \/ WorkerDies(f)

Next ==
    \/ \E p \in Process : Command(p) \/ Step(p) \/ Work(p)
    \/ \E f \in follows : Follow(f)
    \/ \E t \in Updates : Update(t)

Spec == Init /\ [][Next]_vars

(***************************************************************************)
(* Properties.                                                             *)
(***************************************************************************)
\* Work a merge said it merged stays merged, whoever merges after or at once,
\* and when the project reaches a remote (merge, create_on_remote).
NothingLost ==
    \A c \in acked : Ancestor(c, IF linked THEN list[Root] ELSE At(kept[Home], Root))

\* Every commit `main` names is in its tracker's repo (land_at), and every one a
\* checkpoint on the remote names is there or in its author's fork
\* (sync_checkpoint).
NamedIsThere ==
    /\ \A t \in DOMAIN list : list[t] \in repo[t].holds
    /\ \A c \in stored, t \in Tracker :
        {At(Index(c.head), t), At(Index(c.tip), t)} \subseteq
            {0} \union (IF t \in DOMAIN fork[c.by] THEN fork[c.by][t] ELSE {})
                \union (IF t \in DOMAIN repo THEN repo[t].holds ELSE {})

\* No file of a tracker outside Git reaches the remote (trackers.md, "What a
\* tracker outside Git owns never leaves through Git"), new work at least.
NothingOutsideGitLeaves ==
    \A c \in ((UNION {repo[t].holds : t \in DOMAIN repo}) \union
              UNION {UNION {fork[p][t] : t \in DOMAIN fork[p]} : p \in Process}) \ Adopted :
        ~made[c].secret

\* Once every landing followed and none was cut short, root's branch is where
\* `main` is, in whatever order they followed (follow.ts).
RootFollows ==
    linked /\ follows = {} /\ spent.deaths = 0 => repo[Root].main = list[Root]

\* What a repo's refs keep: what root pins is kept in the child's own repo
\* (trackers.md, "every repository references what it needs").
Referenced(t) == Behind(repo[t].main) \union
                 UNION {Behind(c) : c \in repo[t].landing \union repo[t].stray}
PinnedReferenced == \A t \in DOMAIN list : list[t] \in Referenced(t)

\* Any member can spawn a checkpoint that is on the remote (sync_checkpoint).
CheckpointSpawnable == \A c \in stored : Importable(c, {})
=============================================================================
