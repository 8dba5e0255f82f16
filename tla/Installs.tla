------------------------------ MODULE Installs ------------------------------
(* The install store (installs.rs) and the commands of manager.rs that use   *)
(* it: one built tree per identity, copied into every instance that asks for  *)
(* the same one. The store stands in front of an install at three points: a   *)
(* bind (spawn, or a resource bound back) fills an empty workspace, a change  *)
(* of binding and an undo replace a tree that is there, and every install     *)
(* that ran publishes what it built. Nothing locks the store: instances hold  *)
(* only their own lock, and `newgit cleanup` prunes under all of them.        *)
(*                                                                            *)
(* One resource stands for each: reachability is computed per resource. A     *)
(* tree is what it was built from, whether it is all there, and whose         *)
(* workspace its files name. Reading the definition's renders never fails     *)
(* here: a failure is the miss it is reported as.                             *)
EXTENDS Naturals, Sequences, FiniteSets, Functions

CONSTANTS
    Instance,      \* branch instances, each with one workspace
    Lock,          \* contents the `[identity] paths` may have
    Tracker,       \* the trackers a binding may drop
    Sparse,        \* those in Git that own paths: dropped, they leave the checkout
    Told,          \* whether the install is told the bound trackers' names
    Produces,      \* `[identity] produces`, in order
    RenderAt,      \* the produced path a `[[render]]` targets a file of
    Bakes,         \* Bakes[l]: where an install of l may write its own path
    RemovesAtOnce, \* whether removing an entry is one step (it is not)
    SweepsLive,    \* whether cleanup may sweep a live publish's staging (it may)
    EditsLive,     \* whether the inputs may be edited while a command runs
    MaxCommand,    \* commands begun in a run, cleanups included
    MaxEvent       \* edits, deletions, failures and kills in a run

Path == Range(Produces)
Absent == 0        \* no identity path is in the workspace
Nobody == "nobody"
Find == "find"     \* the render's own text, in place of a workspace
Spots == {"plain", "rendered"}

ASSUME InstallAssumption ==
    /\ Sparse \subseteq Tracker /\ Told \in BOOLEAN /\ Absent \notin Lock
    /\ Produces \in Seq(Path) /\ RenderAt \in Path /\ IsInjective(Produces)
    /\ {Nobody, Find} \cap Instance = {}
    /\ Bakes \in [Lock -> SUBSET (Spots \cup {"nowhere"})]

VARIABLES
    lock,     \* the identity paths of each workspace
    rec,      \* the record: here, its binding, and the install's status
    tree,     \* the produced paths of each workspace
    parked,   \* trees moved aside by a replace
    ckpt,     \* the checkpoint an undo returns to
    cmd,      \* the command each instance is running
    store,    \* the entries under `.newgit/installs/`
    stage,    \* the staging directory of each running publish
    strays,   \* whether publishes that were killed left theirs
    gc,       \* the cleanup that is running
    astray,   \* history: edited, damaged or cut short since its last install
    spent     \* commands and events so far

vars == <<lock, rec, tree, parked, ckpt, cmd, store, stage, strays, gc, astray, spent>>
work == <<lock, ckpt, gc, spent>>
inputs == <<lock, rec, tree, parked, ckpt, astray>>

-----------------------------------------------------------------------------
\* What an install reads: the identity paths, the members the checkout holds,
\* and the names it is told.
Sees(l, dropped) == [lock |-> l, out |-> dropped \cap Sparse,
                     told |-> IF Told THEN dropped ELSE {}]
Seen == {Sees(l, d) : l \in Lock \cup {Absent}, d \in SUBSET Tracker}

\* What of a binding reaches the install, for its key.
InstallBinding(dropped) == <<dropped \cap Sparse, IF Told THEN dropped ELSE {}>>

\* The key before bindings were part of it.
KeyOfInputs(l, dropped) == <<l, InstallBinding({})>>
IdentityKey(l, dropped) == <<l, InstallBinding(dropped)>>
Key == {IdentityKey(l, d) : l \in Lock, d \in SUBSET Tracker}
NoKey == <<>>

\* One produced path: built from `of`, `whole` or cut short, its rendered file
\* naming `home`, and any other text naming the workspace of baked[1].
NoTree == [of |-> Nobody]
NoBake == <<Nobody, "nowhere">>

Nothing == [p \in Path |-> NoTree]
NoDir == [p \in {} |-> NoTree]   \* no directory, not even an empty one
\* What a copy or a removal that is not over leaves.
Cut(t) == [t EXCEPT !.whole = FALSE]
Wholes(T) == \A p \in Path : T[p] # NoTree /\ T[p].whole
Present(i) == \A p \in Path : tree[i][p] # NoTree

Build(i, sees, spot) == [p \in Path |->
    [of |-> sees, whole |-> TRUE,
     home |-> IF p = RenderAt THEN i ELSE Nobody,
     baked |-> IF spot = "plain" \/ (spot = "rendered" /\ p = RenderAt)
                   THEN <<i, spot>> ELSE NoBake]]

NoCmd == [op |-> "none", step |-> "idle", key |-> NoKey, n |-> 0, force |-> FALSE,
          sees |-> <<>>, aside |-> {}]
NoGc == [step |-> "idle", live |-> {}, todo |-> {}, keys |-> {}, unkeyed |-> FALSE,
         busy |-> {}]

Init ==
    /\ lock = [i \in Instance |-> Absent]
    /\ rec = [i \in Instance |-> [here |-> FALSE, dropped |-> {}, status |-> "pending"]]
    /\ tree = [i \in Instance |-> Nothing] /\ parked = tree
    /\ ckpt = [i \in Instance |-> <<>>]
    /\ cmd = [i \in Instance |-> NoCmd]
    /\ store = [k \in Key |-> NoDir]
    /\ stage = [i \in Instance |-> NoDir] /\ strays = FALSE
    /\ gc = NoGc
    /\ astray = [i \in Instance |-> FALSE]
    /\ spent = [command |-> 0, event |-> 0]

-----------------------------------------------------------------------------
(* Commands begin: one per instance at a time, under the instance's lock.     *)
Happens == spent.event < MaxEvent /\ spent' = [spent EXCEPT !.event = @ + 1]
Runs == spent.command < MaxCommand /\ spent' = [spent EXCEPT !.command = @ + 1]
Idle(i) == cmd[i] = NoCmd
At(i, step) == cmd[i].step = step
Go(i, c) == cmd' = [cmd EXCEPT ![i] = c]
Status(i, s) == rec' = [rec EXCEPT ![i].status = s]
Moved(i) == gc' = [gc EXCEPT !.busy = IF gc = NoGc THEN @ ELSE @ \cup {i}]

Begin(i, c) ==
    /\ Idle(i) /\ Runs /\ Go(i, c) /\ Moved(i)

\* A spawn clones a workspace whose source holds some lockfile, or none yet.
Spawn(i) == \E l \in Lock \cup {Absent}, d \in SUBSET Tracker :
    /\ ~rec[i].here
    /\ Begin(i, [NoCmd EXCEPT !.op = "bind", !.step = "key"])
    /\ rec' = [rec EXCEPT ![i] = [here |-> TRUE, dropped |-> d, status |-> "pending"]]
    /\ lock' = [lock EXCEPT ![i] = l]
    /\ UNCHANGED <<tree, parked, ckpt, store, stage, strays, astray>>

\* The resource is bound back, over whatever its workspace holds.
Bind(i) ==
    /\ rec[i].here /\ Begin(i, [NoCmd EXCEPT !.op = "bind", !.step = "key"])
    /\ Status(i, "pending")
    /\ UNCHANGED <<lock, tree, parked, ckpt, store, stage, strays, astray>>

\* The install starts, and reads its inputs.
Running(i, c) == [c EXCEPT !.step = "running", !.n = 1,
                           !.sees = <<Sees(lock[i], rec[i].dropped)>>]

\* `newgit action <resource>.prepare`: always runs the command.
Prepare(i) ==
    /\ rec[i].here /\ Begin(i, Running(i, [NoCmd EXCEPT !.op = "prepare"]))
    /\ UNCHANGED <<inputs, store, stage, strays>>

\* A tree is rebuilt only when it is there and the binding's reach moved.
Rebuilds(i, before, after) == Present(i) /\ InstallBinding(before) # InstallBinding(after)

\* `newgit tracker use` or `drop`: the record and the checkout move first, and
\* the install follows.
Rebind(i) == \E t \in Tracker :
    LET before == rec[i].dropped
        after == IF t \in before THEN before \ {t} ELSE before \cup {t} IN
    /\ rec[i].here
    /\ Begin(i, IF Rebuilds(i, before, after)
                    THEN [NoCmd EXCEPT !.op = "rebind", !.step = "key"] ELSE NoCmd)
    /\ rec' = [rec EXCEPT ![i].dropped = after]
    /\ UNCHANGED <<lock, tree, parked, ckpt, store, stage, strays, astray>>

\* The skip that looked at the lockfile alone.
SkipsOnLock(i, force) == ~force /\ Present(i) /\ lock[i] = ckpt[i][1]

\* The recompute is skipped when the recorded inputs and the binding's reach
\* are what they were before the undo, and the tree is there.
Skips(i, force) ==
    /\ SkipsOnLock(i, force)
    /\ InstallBinding(rec[i].dropped) = InstallBinding(ckpt[i][2])

\* Undo restores the binding and the source before any resource (Snapshots).
Undo(i) == \E force \in BOOLEAN :
    /\ rec[i].here /\ ckpt[i] # <<>>
    /\ Begin(i, IF Skips(i, force) THEN NoCmd
                    ELSE [NoCmd EXCEPT !.op = "undo", !.step = "key", !.force = force])
    /\ lock' = [lock EXCEPT ![i] = ckpt[i][1]]
    /\ rec' = [rec EXCEPT ![i].dropped = ckpt[i][2]]
    /\ UNCHANGED <<tree, parked, ckpt, store, stage, strays, astray>>

\* The workspace goes with the record; the store keeps what it published.
Remove(i) ==
    /\ rec[i].here /\ Idle(i) /\ Runs
    /\ rec' = [rec EXCEPT ![i] = [here |-> FALSE, dropped |-> {}, status |-> "pending"]]
    /\ lock' = [lock EXCEPT ![i] = Absent]
    /\ tree' = [tree EXCEPT ![i] = Nothing] /\ parked' = [parked EXCEPT ![i] = Nothing]
    /\ ckpt' = [ckpt EXCEPT ![i] = <<>>]
    /\ astray' = [astray EXCEPT ![i] = FALSE]
    /\ Moved(i)
    /\ UNCHANGED <<cmd, store, stage, strays>>

\* A command's last save: the install's status, and the lock let go.
Done(i, s) == Status(i, s) /\ Go(i, NoCmd)
Fit(i) == astray' = [astray EXCEPT ![i] = FALSE]

-----------------------------------------------------------------------------
(* The key, and the entry it finds.                                           *)

\* No key without inputs, nor when the `key_command` fails.
HasKey(i, key) == lock[i] # Absent /\ key = IdentityKey(lock[i], rec[i].dropped)
                  /\ UNCHANGED spent
HasNone(i, key) == key = NoKey /\ IF lock[i] = Absent THEN UNCHANGED spent ELSE Happens
InstallKey(i, key) == HasKey(i, key) \/ HasNone(i, key)

\* Computed once per command: before a bind, a rebind or an undo builds, and
\* after a `prepare` run by hand.
ComputeKey(i) == \E key \in Key \cup {NoKey} :
    /\ At(i, "key") /\ InstallKey(i, key)
    /\ LET c == [cmd[i] EXCEPT !.key = key]
           by(step) == [c EXCEPT !.step = step] IN
       Go(i, CASE cmd[i].op = "prepare" -> IF key = NoKey THEN NoCmd ELSE by("admit")
               [] cmd[i].op # "prepare" /\ key = NoKey -> Running(i, c)
               [] OTHER -> by(IF cmd[i].force THEN "forget" ELSE "lookup"))
    /\ UNCHANGED <<lock, ckpt, gc, rec, tree, parked, store, stage, strays, astray>>

\* A forced undo trusts neither the tree nor the entry.
ForgetEntry(i) ==
    /\ At(i, "forget")
    /\ store' = [store EXCEPT ![cmd[i].key] = NoDir]
    /\ Go(i, Running(i, cmd[i]))
    /\ UNCHANGED <<work, rec, tree, parked, stage, strays, astray>>

Aside(i) == {p \in Path : tree[i][p] # NoTree}
Unpark(i) == parked' = [parked EXCEPT ![i] =
                 [p \in Path |-> IF p \in cmd[i].aside THEN NoTree ELSE @[p]]]

\* A bind fills only a workspace that holds none of the produced paths; the
\* others move aside what is there, then fill.
Lookup(i) ==
    LET hit == store[cmd[i].key] # NoDir
        clear == tree[i] = Nothing IN
    /\ At(i, "lookup")
    /\ IF ~hit \/ (cmd[i].op = "bind" /\ ~clear)
           THEN Go(i, Running(i, cmd[i])) /\ UNCHANGED <<tree, parked>>
           ELSE /\ Go(i, [cmd[i] EXCEPT !.step = "copy", !.n = 1, !.aside = Aside(i)])
                /\ parked' = [parked EXCEPT ![i] =
                       [p \in Path |-> IF p \in Aside(i) THEN tree[i][p] ELSE @[p]]]
                /\ tree' = [tree EXCEPT ![i] = Nothing]
    /\ UNCHANGED <<work, rec, store, stage, strays, astray>>

\* One produced path copied out of the entry.
CopyIn(i) ==
    LET entry == store[cmd[i].key]
        p == Produces[cmd[i].n] IN
    /\ At(i, "copy") /\ entry # NoDir /\ entry[p] # NoTree
    /\ tree' = [tree EXCEPT ![i][p] = entry[p]]
    /\ IF cmd[i].n = Len(Produces) THEN Go(i, [cmd[i] EXCEPT !.step = "render"])
                                   ELSE Go(i, [cmd[i] EXCEPT !.n = @ + 1])
    /\ UNCHANGED <<work, rec, parked, store, stage, strays, astray>>

\* The copy fails, its path gone from the entry or the disk full: a replace puts
\* back what it moved aside, a fill leaves what it copied, and the install runs.
CopyFails(i) ==
    /\ At(i, "copy")
    /\ IF store[cmd[i].key] = NoDir THEN UNCHANGED spent ELSE Happens
    /\ tree' = [tree EXCEPT ![i] =
                    [p \in Path |-> IF p \in cmd[i].aside THEN parked[i][p] ELSE @[p]]]
    /\ Unpark(i)
    /\ Go(i, Running(i, cmd[i]))
    /\ UNCHANGED <<lock, ckpt, gc, rec, store, stage, strays, astray>>

\* The render restores this workspace's path, what was moved aside goes, and the
\* install counts as done without having run.
Filled(i) ==
    /\ At(i, "render")
    /\ tree' = [tree EXCEPT ![i][RenderAt].home = IF @ = Find THEN i ELSE @]
    /\ Unpark(i) /\ Done(i, "ready") /\ Fit(i)
    /\ UNCHANGED <<work, store, stage, strays>>

-----------------------------------------------------------------------------
(* The install itself, and the publish of what it built.                      *)
\* It builds every path it declares from what it read. A `prepare` by hand
\* saves its status before it computes the key.
Installed(i) ==
    LET l == cmd[i].sees[1].lock IN
    /\ At(i, "running")
    /\ \E spot \in IF l = Absent THEN {"nowhere"} ELSE Bakes[l] :
           tree' = [tree EXCEPT ![i] = Build(i, cmd[i].sees[1], spot)]
    /\ CASE cmd[i].op = "prepare" -> Status(i, "ready") /\ Go(i, [cmd[i] EXCEPT !.step = "key"])
         [] cmd[i].op # "prepare" /\ cmd[i].key = NoKey -> Done(i, "ready")
         [] OTHER -> UNCHANGED rec /\ Go(i, [cmd[i] EXCEPT !.step = "admit"])
    /\ Fit(i)
    /\ UNCHANGED <<work, parked, store, stage, strays>>

\* A failed install leaves what it got to.
InstallFails(i) ==
    /\ At(i, "running") /\ Happens
    /\ tree' = [tree EXCEPT ![i][Produces[1]] =
                    Cut(Build(i, cmd[i].sees[1], "nowhere")[Produces[1]])]
    /\ Done(i, "failed")
    /\ UNCHANGED <<lock, ckpt, gc, parked, store, stage, strays, astray>>

\* The scan: every file and link of a produced path for the workspace's path,
\* except the file the render vouches for.
NamesSelf(i, p) == tree[i][p].baked = <<i, "plain">>

\* Another instance published the key already, or the tree names its workspace
\* outside the file the render covers: nothing to store.
Admit(i) ==
    /\ At(i, "admit")
    /\ IF store[cmd[i].key] # NoDir \/ \E p \in Path : NamesSelf(i, p)
           THEN Done(i, "ready") /\ UNCHANGED stage
           ELSE /\ stage' = [stage EXCEPT ![i] = Nothing]
                /\ Go(i, [cmd[i] EXCEPT !.step = "stage", !.n = 1]) /\ UNCHANGED rec
    /\ UNCHANGED <<work, tree, parked, store, strays, astray>>

Staged(i) == Go(i, IF cmd[i].n = Len(Produces) THEN [cmd[i] EXCEPT !.step = "publish"]
                                               ELSE [cmd[i] EXCEPT !.n = @ + 1])
Adding(dir, p, t) == [(IF dir = NoDir THEN Nothing ELSE dir) EXCEPT ![p] = t]

\* A publish that copies straight into the entry.
StageInPlace(i) ==
    LET p == Produces[cmd[i].n] IN
    /\ At(i, "stage")
    /\ store' = [store EXCEPT ![cmd[i].key] = Adding(@, p, tree[i][p])]
    /\ stage' = [stage EXCEPT ![i] = Adding(@, p, tree[i][p])]
    /\ Staged(i)
    /\ UNCHANGED <<work, rec, tree, parked, strays, astray>>

\* One produced path into the staging directory, which is made again if gone.
StageCopy(i) ==
    LET p == Produces[cmd[i].n] IN
    /\ At(i, "stage")
    /\ stage' = [stage EXCEPT ![i] = Adding(@, p, tree[i][p])]
    /\ Staged(i)
    /\ UNCHANGED <<work, rec, tree, parked, store, strays, astray>>

\* The copy fails: nothing is stored, and the staging directory goes.
StageFails(i) ==
    /\ At(i, "stage") /\ Happens
    /\ stage' = [stage EXCEPT ![i] = NoDir]
    /\ Done(i, "ready")
    /\ UNCHANGED <<lock, ckpt, gc, tree, parked, store, strays, astray>>

\* A staged copy is published when its rendered file is there, and no longer
\* names the workspace once the render is reversed in it.
PublishableUnread(i) == stage[i] # NoDir /\ stage[i][RenderAt] # NoTree
Publishable(i) == PublishableUnread(i) /\ stage[i][RenderAt].baked # <<i, "rendered">>
Reversed(i) == [stage[i] EXCEPT ![RenderAt].home = IF @ = i THEN Find ELSE @]

\* The rename of the reversed copy: whoever comes first wins, and a loser
\* discards its own.
Publish(i) ==
    /\ At(i, "publish")
    /\ IF Publishable(i) /\ store[cmd[i].key] = NoDir
           THEN store' = [store EXCEPT ![cmd[i].key] = Reversed(i)] ELSE UNCHANGED store
    /\ stage' = [stage EXCEPT ![i] = NoDir]
    /\ Done(i, "ready")
    /\ UNCHANGED <<work, tree, parked, strays, astray>>

-----------------------------------------------------------------------------
(* `newgit cleanup` over the store, under no instance's lock.                 *)
instances == <<inputs, cmd, spent>>

\* The surviving instances are listed first. `busy` (history) are
\* those that ran something while this cleanup did.
GcStart ==
    /\ gc = NoGc /\ Runs
    /\ gc' = [NoGc EXCEPT !.step = "sweep", !.live = {i \in Instance : rec[i].here},
                       !.busy = {i \in Instance : ~Idle(i)}]
    /\ UNCHANGED <<inputs, cmd, store, stage, strays>>

\* Entries only: a staging directory is not one.
GcList == gc' = [gc EXCEPT !.step = "keys", !.todo = {k \in Key : store[k] # NoDir}]

\* Every staging directory goes, whoever's it is; then the entries are listed.
GcSweep ==
    /\ gc.step = "sweep" /\ (SweepsLive \/ \A i \in Instance : stage[i] = NoDir)
    /\ stage' = [i \in Instance |-> NoDir] /\ strays' = FALSE
    /\ GcList
    /\ UNCHANGED <<instances, store>>

\* Each survivor's key, taking the ones that have none as keying to nothing.
GcKeyAnyway(i) == \E key \in Key \cup {NoKey} :
    /\ InstallKey(i, key) /\ gc.step = "keys" /\ i \in gc.live
    /\ gc' = [gc EXCEPT !.live = @ \ {i}, !.keys = @ \cup {key}]
    /\ UNCHANGED <<inputs, cmd, store, stage, strays>>

\* Each survivor's key; one that cannot be computed withholds every entry.
GcKey(i) == \E key \in Key \cup {NoKey} :
    /\ InstallKey(i, key) /\ gc.step = "keys" /\ i \in gc.live
    /\ gc' = [gc EXCEPT !.live = @ \ {i}, !.keys = @ \cup {key},
                        !.unkeyed = @ \/ key = NoKey]
    /\ UNCHANGED <<inputs, cmd, store, stage, strays>>

Garbage == IF gc.unkeyed THEN {} ELSE gc.todo \ gc.keys

\* The files of an entry go one by one: until the last, it is still a directory.
CutFirst(k) == ~RemovesAtOnce /\ store[k] # NoDir /\ Wholes(store[k])
CutAt(k, p) == [store[k] EXCEPT ![p] = Cut(store[k][p])]

GcRemove == \E k \in Garbage, p \in Path :
    /\ gc.step = "keys" /\ gc.live = {}
    /\ store' = [store EXCEPT ![k] = IF CutFirst(k) THEN CutAt(k, p) ELSE NoDir]
    /\ gc' = [gc EXCEPT !.todo = IF CutFirst(k) THEN @ ELSE @ \ {k}]
    /\ UNCHANGED <<instances, stage, strays>>

GcEnd ==
    /\ gc.step = "keys" /\ gc.live = {} /\ Garbage = {}
    /\ gc' = NoGc
    /\ UNCHANGED <<instances, store, stage, strays>>

-----------------------------------------------------------------------------
(* People, and the end of a process.                                          *)

\* Someone edits the inputs, or deletes a built tree.
Touch(i) ==
    /\ rec[i].here /\ (EditsLive \/ Idle(i)) /\ Happens
    /\ \/ \E l \in Lock \ {lock[i]} : lock' = [lock EXCEPT ![i] = l] /\ UNCHANGED tree
       \/ \E p \in Path : /\ Idle(i) /\ tree[i][p] # NoTree
                          /\ tree' = [tree EXCEPT ![i][p] = NoTree] /\ UNCHANGED lock
    /\ astray' = [astray EXCEPT ![i] = TRUE]
    /\ Moved(i)
    /\ UNCHANGED <<rec, parked, ckpt, cmd, store, stage, strays>>

\* A checkpoint records the inputs and the binding, not the tree.
Checkpoint(i) ==
    /\ rec[i].here /\ Idle(i) /\ ckpt[i] # <<lock[i], rec[i].dropped>>
    /\ ckpt' = [ckpt EXCEPT ![i] = <<lock[i], rec[i].dropped>>]
    /\ UNCHANGED <<lock, rec, tree, parked, cmd, store, stage, strays, gc, astray, spent>>

\* A command is killed: what it was copying is cut short, what it staged stays.
Kill(i) ==
    LET p == Produces[cmd[i].n]
        cut == CASE At(i, "copy") /\ store[cmd[i].key] # NoDir -> store[cmd[i].key][p]
                 [] At(i, "running") -> Build(i, cmd[i].sees[1], "nowhere")[p]
                 [] OTHER -> NoTree IN
    /\ ~Idle(i) /\ Happens
    /\ tree' = IF cut = NoTree THEN tree ELSE [tree EXCEPT ![i][p] = Cut(cut)]
    /\ strays' = (strays \/ stage[i] # NoDir)
    /\ stage' = [stage EXCEPT ![i] = NoDir]
    /\ astray' = [astray EXCEPT ![i] = TRUE]
    /\ Go(i, NoCmd)
    /\ UNCHANGED <<lock, rec, parked, ckpt, store, gc>>

KillCleanup ==
    /\ gc # NoGc /\ Happens /\ gc' = NoGc
    /\ UNCHANGED <<inputs, cmd, store, stage, strays>>

-----------------------------------------------------------------------------
Command(i) == Spawn(i) \/ Bind(i) \/ Prepare(i) \/ Rebind(i) \/ Undo(i) \/ Remove(i)
Fill(i) == ComputeKey(i) \/ ForgetEntry(i) \/ Lookup(i) \/ CopyIn(i) \/ CopyFails(i) \/ Filled(i)
Install(i) == Installed(i) \/ InstallFails(i)
Store(i) == \/ Admit(i) \/ StageCopy(i) \/ StageFails(i) \/ Publish(i)
Cleanup == GcStart \/ GcSweep \/ GcRemove \/ GcEnd \/ KillCleanup

Next ==
    \/ \E i \in Instance : \/ Command(i) \/ Fill(i) \/ Install(i) \/ Store(i)
                           \/ GcKey(i) \/ Touch(i) \/ Checkpoint(i) \/ Kill(i)
    \/ Cleanup

Spec == Init /\ [][Next]_vars

-----------------------------------------------------------------------------
(* What the store promises.                                                   *)

\* An entry holds the whole tree of its key's inputs, in every path the resource
\* declares, whatever else was publishing, failing or being killed meanwhile:
\* `admit` renames a finished copy into place, and computes its key from the
\* inputs the install read.
EntriesComplete == \A k \in Key : store[k] # NoDir =>
    /\ Wholes(store[k])
    /\ \A p \in Path : LET sees == store[k][p].of IN <<sees.lock, <<sees.out, sees.told>>>> = k

\* No workspace holds text that names another workspace, and no entry names
\* any: the scan declines it, the reversal takes it out, and what the reversal
\* misses is scanned again.
NoForeignPath ==
    /\ \A i \in Instance, p \in Path : tree[i][p] # NoTree =>
           tree[i][p].home \in {i, Nobody, Find} /\ tree[i][p].baked[1] \in {i, Nobody}
    /\ \A k \in Key, p \in Path : store[k] # NoDir /\ store[k][p] # NoTree =>
           store[k][p].home \in {Nobody, Find} /\ store[k][p].baked = NoBake

\* An install that is `ready`, in an instance nobody edited since and no command
\* died in, is whole and was built from what its workspace and binding hold now,
\* whether it was filled, replaced, rebuilt, or left alone by a skip.
ReadyFits == \A i \in Instance :
    rec[i].here /\ Idle(i) /\ rec[i].status = "ready" /\ ~astray[i] =>
        /\ Wholes(tree[i])
        /\ \A p \in Path : /\ tree[i][p].of = Sees(lock[i], rec[i].dropped)
                           /\ tree[i][p].home # Find

\* Cleanup never removes the entry that an instance, there since it began and
\* running nothing meanwhile, would be filled from.
SparesReachable == \A k \in Key :
    store[k] # NoDir /\ store'[k] = NoDir /\ gc.step = "keys" /\ cmd' = cmd =>
        \A i \in Instance \ gc.busy :
            rec[i].here => lock[i] = Absent \/ k # IdentityKey(lock[i], rec[i].dropped)

\* One nobody worked beside, and that could key every instance, leaves only
\* entries that some instance keys to, and no staging directory.
Reclaims ==
    /\ gc.step = "keys" /\ gc' = NoGc /\ spent' = spent
    /\ ~gc.unkeyed /\ gc.busy = {}
    => /\ ~strays /\ \A i \in Instance : stage[i] = NoDir
       /\ \A k \in Key : store[k] # NoDir =>
              \E i \in Instance : rec[i].here /\ k = IdentityKey(lock[i], rec[i].dropped)

\* Cleanup keeps of the install store exactly what an instance would be filled
\* from (manager.rs: prune_install_store).
PrunesExactly == [][SparesReachable /\ Reclaims]_vars

=============================================================================
