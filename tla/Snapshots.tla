----------------------------- MODULE Snapshots -----------------------------
(***************************************************************************)
(* Checkpoints, undo and cleanup over the tracker lanes                    *)
(* (newgit-core: manager.rs, checkpoint.rs, cleanup.rs, tracker_repo.rs).  *)
(*                                                                         *)
(* A lane keeps the revs of one tracker; a rev can be read only while its  *)
(* pin ref exists.  An instance has a binding record (which rev of each    *)
(* tracker it is on), a workspace, and a log of checkpoint records, each   *)
(* naming revs and a store ref for the source.  `cleanup` forgets the pins *)
(* nothing names.                                                          *)
(*                                                                         *)
(* Commands on one instance are serialised by its lock (module             *)
(* InstanceLock), so an instance has at most one command under way, in     *)
(* steps that a crash or a command on another instance can come between.   *)
(* Processes, ports and renders are left out here.                         *)
(***************************************************************************)
EXTENDS Naturals, FiniteSetsExt

CONSTANTS Slug,        \* instances, by slug
          Owned,       \* trackers that own workspace paths
          Deposit,     \* deposit-only trackers, each fed by one resource
          Content,     \* what a path, a database or the source can hold
          Empty,       \* the content of nothing
          Commands,    \* bound: the commands a behaviour uses
          Concurrent,  \* commands that may be under way while a cleanup is
          MaxRev,      \* bound: revs made in a behaviour
          MaxId,       \* bound: checkpoint ids of one instance
          MaxEdit,     \* bound: edits of files, source or data in a behaviour
          MaxCrash     \* bound: processes killed in a behaviour

Ops == {"checkpoint", "undo", "capture", "checkout", "pull", "drop", "use",
        "spawn", "remove", "seed", "merge", "cleanup"}

ASSUME SnapshotsAssumption ==
    /\ Owned \cap Deposit = {} /\ Empty \in Content
    /\ Commands \subseteq Ops /\ Concurrent \subseteq Ops
    /\ MaxRev \in Nat /\ MaxId \in Nat /\ MaxEdit \in Nat /\ MaxCrash \in Nat

Tracker == Owned \cup Deposit
Rev     == 1 .. MaxRev
Rev0    == 0 .. MaxRev        \* 0: no rev
Id      == 1 .. MaxId
Binding == [Tracker -> Rev0]
Status  == [Deposit -> {"ready", "failed"}]

NoRecord == [none |-> "record"]
NoCkpt   == [none |-> "checkpoint"]
NoTip    == "no tip"

\* `BranchInstance`: what the record on disk says of an instance.
Record == [bind : Binding, dropped : SUBSET Owned, status : Status]

\* `CheckpointRecord`: the trackers' revs, each resource's `tracker:` state
\* ref (0 for mode "none"), the binding, the source, and whether the undo it
\* was taken ahead of completed.
Ckpt == [bind : Binding, dump : [Deposit -> Rev0], dropped : SUBSET Owned,
         src : Content, done : {"unset", "yes", "no"}]

VARIABLES
    rec,      \* rec[s]: the binding record, or NoRecord
    dir,      \* dir[s]: the workspace directory exists
    files,    \* files[s][t]: what the workspace holds in tracker t's paths
    src,      \* src[s]: the workspace's source, uncommitted work included
    db,       \* db[s][t]: the data of the resource that deposits into t
    log,      \* log[s][i]: checkpoint record i of s, or NoCkpt
    tip,      \* tip[s][i]: what refs/newgit/checkpoints/<s>/<i> holds, or NoTip
    pins,     \* the pin refs: <<tracker, rev>>
    main,     \* main[t]: the lane's `main`, 0 before anything is on it
    tree,     \* tree[r]: the content rev r holds
    lastRev,  \* revs made so far
    cmd,      \* cmd[s]: the command under way on s and what it has in memory
    head,     \* a `tracker seed` or `tracker merge` about to move a `main`
    gc,       \* the cleanup under way
    cut,      \* history: instances whose purge deleted refs and not yet the log
    edits, crashes

instVars == <<rec, dir, files, src, db>>
ckptVars == <<log, tip>>
laneVars == <<pins, main, tree, lastRev>>
bounds   == <<edits, crashes>>
vars == <<instVars, ckptVars, laneVars, cmd, head, gc, cut, bounds>>

NoBinding == [t \in Tracker |-> 0]
NoDump    == [t \in Deposit |-> 0]
AllReady  == [t \in Deposit |-> "ready"]
NoFiles   == [t \in Owned |-> Empty]
NoData    == [t \in Deposit |-> Empty]

NoCmd == [op |-> "none", step |-> "idle", id |-> 0, to |-> 0, bind |-> NoBinding,
          dump |-> NoDump, src |-> Empty, dropped |-> {}, status |-> AllReady, todo |-> {},
          only |-> {}, failed |-> FALSE, purge |-> FALSE,
          before |-> [files |-> NoFiles, src |-> Empty, db |-> NoData]]
NoHead == [op |-> "none", t |-> "none", r |-> 0]
NoGc == [step |-> "idle", purge |-> FALSE, claimed |-> {}, live |-> {},
         bind |-> [s \in Slug |-> NoBinding], todo |-> {}, now |-> "none",
         roots |-> {}, forget |-> {}]

Steps == {"idle", "source", "capture", "record", "fetch", "rebind",
          "worktree", "restore", "resources", "save", "stamp", "clear", "bind",
          "create", "teardown", "archive", "purge", "unlog"}
GcSteps == {"idle", "stale", "purge", "unlog", "heads", "forget"}

\* What a command has in memory, an undo's `before` being history, and what a
\* cleanup has.
Memory == [op : Ops \cup {"none"}, step : Steps, id : 0 .. MaxId, to : Nat,
           bind : Binding, dump : [Deposit -> Rev0], src : Content,
           dropped : SUBSET Owned, status : Status, todo : SUBSET Tracker,
           only : SUBSET Deposit, failed : BOOLEAN, purge : BOOLEAN,
           before : [files : [Owned -> Content], src : Content,
                     db : [Deposit -> Content]]]
GcMemory == [step : GcSteps, purge : BOOLEAN, claimed : SUBSET Slug,
             live : SUBSET Slug, bind : [Slug -> Binding], todo : SUBSET Slug,
             now : Slug \cup {"none"}, roots : SUBSET (Tracker \X Rev),
             forget : SUBSET (Tracker \X Rev)]

(***************************************************************************)
(* Type invariant.                                                         *)
(***************************************************************************)
TypeOK ==
    /\ rec \in [Slug -> Record \cup {NoRecord}]
    /\ dir \in [Slug -> BOOLEAN]
    /\ files \in [Slug -> [Owned -> Content]]
    /\ src \in [Slug -> Content]
    /\ db \in [Slug -> [Deposit -> Content]]
    /\ log \in [Slug -> [Id -> Ckpt \cup {NoCkpt}]]
    /\ tip \in [Slug -> [Id -> Content \cup {NoTip}]]
    /\ pins \subseteq Tracker \X Rev
    /\ main \in [Tracker -> Rev0]
    /\ tree \in [Rev -> Content]
    /\ lastRev \in Rev0
    /\ cmd \in [Slug -> Memory]
    /\ head \in [op : {"seed", "merge"}, t : Tracker, r : Rev] \cup {NoHead}
    /\ gc \in GcMemory
    /\ cut \subseteq Slug
    /\ edits \in 0 .. MaxEdit /\ crashes \in 0 .. MaxCrash

Init ==
    /\ rec = [s \in Slug |-> NoRecord]
    /\ dir = [s \in Slug |-> FALSE]
    /\ files = [s \in Slug |-> NoFiles]
    /\ src = [s \in Slug |-> Empty]
    /\ db = [s \in Slug |-> NoData]
    /\ log = [s \in Slug |-> [i \in Id |-> NoCkpt]]
    /\ tip = [s \in Slug |-> [i \in Id |-> NoTip]]
    /\ pins = {}
    /\ main = [t \in Tracker |-> 0]
    /\ tree = [r \in Rev |-> Empty]
    /\ lastRev = 0
    /\ cmd = [s \in Slug |-> NoCmd]
    /\ head = NoHead
    /\ gc = NoGc
    /\ cut = {}
    /\ edits = 0
    /\ crashes = 0

-----------------------------------------------------------------------------
(* The lane store (tracker_repo.rs).                                       *)

\* `commit_for`: a rev resolves through its pin ref or not at all.
Pinned(t, r) == <<t, r>> \in pins

\* A rev an operation reads, or starts a commit from, when there is one.
Readable(t, r) == r = 0 \/ Pinned(t, r)

\* `commit_files`: content equal to the parent's is the parent's rev again.
CommitRev(c, parent) ==
    IF parent # 0 /\ tree[parent] = c THEN parent ELSE lastRev + 1

\* Rev r, holding c, is pinned in t's lane.
Commit(t, c, r) ==
    /\ r \in Rev
    /\ pins' = pins \cup {<<t, r>>}
    /\ tree' = [tree EXCEPT ![r] = c]
    /\ lastRev' = IF r > lastRev THEN r ELSE lastRev

-----------------------------------------------------------------------------
(* Commands.  Each is under way on its instance from Begin to Done.        *)

MayRun(op) == op \in Commands /\ (gc.step = "idle" \/ op \in Concurrent)

\* The lock is free, and the environment lets the command run now.
Begin(s, op) == cmd[s] = NoCmd /\ MayRun(op)

Go(s, c) == cmd' = [cmd EXCEPT ![s] = c]
Done(s) == Go(s, NoCmd)

\* `locked_branch`: the record, read under the lock.
Loaded(s, op, step) ==
    [NoCmd EXCEPT !.op = op, !.step = step, !.bind = rec[s].bind,
                  !.dropped = rec[s].dropped, !.status = rec[s].status]

\* `require_workspace`.
Live(s) == rec[s] # NoRecord /\ dir[s]

\* `save_branch_record`.
SaveMemory(s) ==
    rec' = [rec EXCEPT ![s] = [bind |-> cmd[s].bind, dropped |-> cmd[s].dropped,
                               status |-> cmd[s].status]]

\* `CheckpointLog::list`.
Ids(s) == {i \in Id : log[s][i] # NoCkpt}

\* `CheckpointLog::next_id`: one past the last record's.
NextId(s) == Max({0} \cup Ids(s)) + 1

-----------------------------------------------------------------------------
(* `checkpoint_branch`, for `checkpoint` and as the first part of `undo`.  *)

BeginCheckpoint(s) ==
    /\ Begin(s, "checkpoint") /\ Live(s) /\ NextId(s) \in Id
    /\ Go(s, [Loaded(s, "checkpoint", "source") EXCEPT !.id = NextId(s)])
    /\ UNCHANGED <<instVars, ckptVars, laneVars, head, gc, cut, bounds>>

\* `undo --to i`, with `--only` and some resources when `only` names any.
BeginUndo(s, i, only) ==
    /\ Begin(s, "undo") /\ Live(s) /\ NextId(s) \in Id
    /\ i \in Ids(s)
    /\ Go(s, [Loaded(s, "undo", "source")
                EXCEPT !.id = NextId(s), !.to = i, !.only = only,
                       !.before = [files |-> files[s], src |-> src[s], db |-> db[s]]])
    /\ UNCHANGED <<instVars, ckptVars, laneVars, head, gc, cut, bounds>>

\* Mutant: only the source and the resources are captured, not the trackers.
FetchTipShallow(s) ==
    /\ cmd[s].step = "source"
    /\ tip' = [tip EXCEPT ![s][cmd[s].id] = src[s]]
    /\ Go(s, [cmd[s] EXCEPT !.step = "capture", !.src = src[s], !.todo = Deposit])
    /\ UNCHANGED <<instVars, log, laneVars, head, gc, cut, bounds>>

\* The workspace's tip, uncommitted work included, fetched into the store.
FetchTip(s) ==
    /\ cmd[s].step = "source"
    /\ tip' = [tip EXCEPT ![s][cmd[s].id] = src[s]]
    /\ Go(s, [cmd[s] EXCEPT !.step = "capture", !.src = src[s],
                            !.todo = Tracker \ cmd[s].dropped])
    /\ UNCHANGED <<instVars, log, laneVars, head, gc, cut, bounds>>

\* `checkpoint_resource` with `into_tracker`: the dump is committed to the
\* deposit lane, on top of the rev bound there.
DepositOk(s, t) ==
    LET r == CommitRev(db[s][t], cmd[s].bind[t])
    IN  /\ Readable(t, cmd[s].bind[t])
        /\ Commit(t, db[s][t], r)
        /\ Go(s, [cmd[s] EXCEPT !.todo = @ \ {t}, !.bind[t] = r, !.dump[t] = r])

\* A resource that is not up does not take the checkpoint down with it: it
\* goes ahead without the resource, and ahead of an undo without trying.
DepositDegraded(s, t) ==
    /\ cmd[s].status[t] = "failed"
    /\ Go(s, [cmd[s] EXCEPT !.todo = @ \ {t}])
    /\ UNCHANGED <<pins, tree, lastRev>>

\* One that was up and fails to capture aborts the command.
DepositAborts(s, t) ==
    /\ cmd[s].status[t] = "ready"
    /\ Done(s)
    /\ UNCHANGED <<pins, tree, lastRev>>

DepositStep(s, t) ==
    /\ cmd[s].step = "capture" /\ t \in cmd[s].todo \cap Deposit
    /\ \/ /\ ~ (cmd[s].op = "undo" /\ cmd[s].status[t] = "failed")
          /\ DepositOk(s, t)
       \/ DepositDegraded(s, t)
       \/ DepositAborts(s, t)
    /\ UNCHANGED <<instVars, ckptVars, main, head, gc, cut, bounds>>

\* The trackers, after the resources: `capture` of every owned path, on top
\* of the rev bound, which has to resolve.
CaptureStep(s, t) ==
    LET r == CommitRev(files[s][t], cmd[s].bind[t])
    IN  /\ cmd[s].op \in {"checkpoint", "undo"} /\ cmd[s].step = "capture"
        /\ cmd[s].todo \cap Deposit = {} /\ t \in cmd[s].todo
        /\ \/ /\ Readable(t, cmd[s].bind[t])
              /\ Commit(t, files[s][t], r)
              /\ Go(s, [cmd[s] EXCEPT !.todo = @ \ {t}, !.bind[t] = r])
           \/ /\ ~ Readable(t, cmd[s].bind[t])
              /\ Done(s)
              /\ UNCHANGED <<pins, tree, lastRev>>
        /\ UNCHANGED <<instVars, ckptVars, main, head, gc, cut, bounds>>

\* `log.save(record)`: from here on the checkpoint exists.
SaveCheckpoint(s) ==
    /\ cmd[s].step = "capture" /\ cmd[s].todo = {}
    /\ cmd[s].op \in {"checkpoint", "undo"}
    /\ log' = [log EXCEPT ![s][cmd[s].id] =
                 [bind |-> cmd[s].bind, dump |-> cmd[s].dump,
                  dropped |-> cmd[s].dropped, src |-> cmd[s].src,
                  done |-> "unset"]]
    /\ Go(s, [cmd[s] EXCEPT !.step = "record"])
    /\ UNCHANGED <<instVars, tip, laneVars, head, gc, cut, bounds>>

\* Resources the checkpoint an undo goes to holds state for; the others are
\* left alone, and those a partial undo does not name.
Restored(s) == {t \in Deposit : /\ log[s][cmd[s].to].dump[t] # 0
                                /\ cmd[s].only = {} \/ t \in cmd[s].only}

\* The binding record follows.  An undo goes on from its safety checkpoint,
\* a partial one with the resources alone.
SaveRecord(s) ==
    /\ cmd[s].step = "record"
    /\ SaveMemory(s)
    /\ CASE cmd[s].op = "undo" /\ cmd[s].only = {} ->
                Go(s, [cmd[s] EXCEPT !.step = "fetch"])
         [] cmd[s].op = "undo" /\ cmd[s].only # {} ->
                Go(s, [cmd[s] EXCEPT !.step = "resources", !.todo = Restored(s)])
         [] cmd[s].op = "drop" -> Go(s, [cmd[s] EXCEPT !.step = "clear"])
         [] OTHER -> Done(s)
    /\ UNCHANGED <<dir, files, src, db, ckptVars, laneVars, head, gc, cut, bounds>>

-----------------------------------------------------------------------------
(* `undo`, once its safety checkpoint is saved.                            *)

\* The checkpoint an undo restores.
Target(s) == log[s][cmd[s].to]

\* The source ref is fetched first: a checkpoint whose ref is gone fails here.
UndoFetch(s) ==
    /\ cmd[s].step = "fetch"
    /\ IF tip[s][cmd[s].to] = NoTip THEN Done(s)
                                    ELSE Go(s, [cmd[s] EXCEPT !.step = "rebind"])
    /\ UNCHANGED <<instVars, ckptVars, laneVars, head, gc, cut, bounds>>

\* What the checkpoint did not bind is dropped again, what it bound comes
\* back below, and the record says so before anything else can fail.
UndoRebind(s) ==
    /\ cmd[s].step = "rebind"
    /\ files' = [files EXCEPT ![s] =
                   [t \in Owned |-> IF t \in Target(s).dropped \ cmd[s].dropped
                                    THEN Empty ELSE @[t]]]
    /\ rec' = [rec EXCEPT ![s].dropped = Target(s).dropped]
    /\ Go(s, [cmd[s] EXCEPT !.step = "worktree", !.dropped = Target(s).dropped])
    /\ UNCHANGED <<dir, src, db, ckptVars, laneVars, head, gc, cut, bounds>>

UndoSource(s) ==
    /\ cmd[s].step = "worktree"
    /\ src' = [src EXCEPT ![s] = Target(s).src]
    /\ Go(s, [cmd[s] EXCEPT !.step = "restore",
                            !.todo = Tracker \ cmd[s].dropped])
    /\ UNCHANGED <<rec, dir, files, db, ckptVars, laneVars, head, gc, cut, bounds>>

\* Tracker content, exactly as captured; a rev that does not resolve is a
\* hard error in the middle of the undo.
UndoTracker(s, t) ==
    LET r == Target(s).bind[t]
    IN  /\ cmd[s].op = "undo" /\ cmd[s].step = "restore" /\ t \in cmd[s].todo
        /\ \/ /\ Readable(t, r)
              /\ files' = [files EXCEPT ![s] =
                    [u \in Owned |-> CASE u # t -> @[u]
                                       [] u = t /\ r = 0 -> Empty
                                       [] u = t /\ r # 0 -> tree[r]]]
              /\ Go(s, [cmd[s] EXCEPT !.todo = @ \ {t}, !.bind[t] = r])
           \/ /\ ~ Readable(t, r)
              /\ Done(s)
              /\ UNCHANGED files
        /\ UNCHANGED <<rec, dir, src, db, ckptVars, laneVars, head, gc, cut, bounds>>

\* The trackers are back.
UndoTrackersDone(s) ==
    /\ cmd[s].op = "undo" /\ cmd[s].step = "restore" /\ cmd[s].todo = {}
    /\ Go(s, [cmd[s] EXCEPT !.step = "resources", !.todo = Restored(s)])
    /\ UNCHANGED <<instVars, ckptVars, laneVars, head, gc, cut, bounds>>

\* Mutant: a failed restore is not remembered.
UndoResourceSilent(s, t) ==
    LET r == Target(s).dump[t]
    IN  /\ cmd[s].step = "resources" /\ t \in cmd[s].todo
        /\ Pinned(t, r)
        /\ \E c \in Content : db' = [db EXCEPT ![s][t] = c]
        /\ Go(s, [cmd[s] EXCEPT !.todo = @ \ {t}])
        /\ UNCHANGED <<rec, dir, files, src, ckptVars, laneVars, head, gc,
                       cut, bounds>>

\* `restore_resource`: the restore command, handed the deposit, succeeds, or
\* fails and leaves the data anyhow; a deposit that does not resolve is fatal.
UndoResource(s, t) ==
    LET r == Target(s).dump[t]
    IN  /\ cmd[s].step = "resources" /\ t \in cmd[s].todo
        /\ \/ /\ Pinned(t, r)
              /\ db' = [db EXCEPT ![s][t] = tree[r]]
              /\ Go(s, [cmd[s] EXCEPT !.todo = @ \ {t}, !.status[t] = "ready"])
           \/ /\ Pinned(t, r)
              /\ \E c \in Content : db' = [db EXCEPT ![s][t] = c]
              /\ Go(s, [cmd[s] EXCEPT !.todo = @ \ {t}, !.status[t] = "failed",
                                      !.failed = TRUE])
           \/ /\ ~ Pinned(t, r)
              /\ Done(s)
              /\ UNCHANGED db
        /\ UNCHANGED <<rec, dir, files, src, ckptVars, laneVars, head, gc,
                       cut, bounds>>

UndoResourcesDone(s) ==
    /\ cmd[s].step = "resources" /\ cmd[s].todo = {}
    /\ Go(s, [cmd[s] EXCEPT !.step = "save"])
    /\ UNCHANGED <<instVars, ckptVars, laneVars, head, gc, cut, bounds>>

\* The record is saved for the last time; of an undo, what is left is to say
\* on the safety checkpoint whether it completed.
SaveLast(s) ==
    /\ cmd[s].step = "save"
    /\ SaveMemory(s)
    /\ IF cmd[s].op = "undo" THEN Go(s, [cmd[s] EXCEPT !.step = "stamp"])
                             ELSE Done(s)
    /\ UNCHANGED <<dir, files, src, db, ckptVars, laneVars, head, gc, cut, bounds>>

UndoStamp(s) ==
    /\ cmd[s].step = "stamp"
    /\ log' = [log EXCEPT ![s][cmd[s].id].done =
                              IF cmd[s].failed THEN "no" ELSE "yes"]
    /\ Done(s)
    /\ UNCHANGED <<instVars, tip, laneVars, head, gc, cut, bounds>>

-----------------------------------------------------------------------------
(* `tracker capture`, `checkout`, `pull`, `drop` and `use` on an instance. *)

BeginTracker(s, op, c) ==
    /\ Begin(s, op) /\ Live(s)
    /\ Go(s, c)
    /\ UNCHANGED <<instVars, ckptVars, laneVars, head, gc, cut, bounds>>

BeginCapture(s, t) ==
    BeginTracker(s, "capture",
                 [Loaded(s, "capture", "capture") EXCEPT !.todo = {t}])

\* `has_rev` is asked before anything is captured.
BeginCheckout(s, t, r) ==
    /\ Pinned(t, r)
    /\ BeginTracker(s, "checkout",
                    [Loaded(s, "checkout", "capture") EXCEPT !.todo = {t}, !.to = r])

\* The safety capture is only for paths that hold something.
CaptureFirst(s, t) == IF files[s][t] = Empty THEN "restore" ELSE "capture"

BeginPull(s, t) ==
    /\ main[t] # 0
    /\ BeginTracker(s, "pull",
                    [Loaded(s, "pull", CaptureFirst(s, t)) EXCEPT !.todo = {t}])

BeginDrop(s, t) ==
    /\ rec[s] # NoRecord /\ t \notin rec[s].dropped
    /\ BeginTracker(s, "drop",
                    [Loaded(s, "drop", "capture") EXCEPT !.todo = {t}])

\* The last content of the tracker here, or the lane's `main` if it has none.
BeginUse(s, t) ==
    /\ rec[s] # NoRecord /\ t \in rec[s].dropped
    /\ BeginTracker(s, "use",
          [Loaded(s, "use", IF rec[s].bind[t] # 0 THEN "restore"
                            ELSE CaptureFirst(s, t))
             EXCEPT !.todo = {t}, !.to = rec[s].bind[t], !.dropped = @ \ {t}])

\* `lane.capture` of one tracker: bound by `capture` and `drop`, a safety
\* net that no record names for the others.
TrackerCapture(s, t) ==
    LET r == CommitRev(files[s][t], cmd[s].bind[t])
    IN  /\ cmd[s].op \in {"capture", "drop", "checkout", "pull", "use"}
        /\ cmd[s].step = "capture" /\ t \in cmd[s].todo
        /\ \/ /\ Readable(t, cmd[s].bind[t])
              /\ Commit(t, files[s][t], r)
              /\ IF cmd[s].op \in {"capture", "drop"}
                 THEN Go(s, [cmd[s] EXCEPT !.step = "record", !.bind[t] = r])
                 ELSE Go(s, [cmd[s] EXCEPT !.step = "restore"])
           \/ /\ ~ Readable(t, cmd[s].bind[t])
              /\ Done(s)
              /\ UNCHANGED <<pins, tree, lastRev>>
        /\ UNCHANGED <<instVars, ckptVars, main, head, gc, cut, bounds>>

\* The rev is put into the workspace and bound.
RestoreRev(s, t) ==
    LET r == IF cmd[s].to # 0 THEN cmd[s].to ELSE main[t]
    IN  /\ cmd[s].op \in {"checkout", "pull", "use"}
        /\ cmd[s].step = "restore" /\ t \in cmd[s].todo
        /\ \/ /\ Readable(t, r)
              /\ files' = [files EXCEPT ![s][t] = IF r = 0 THEN @ ELSE tree[r]]
              /\ Go(s, [cmd[s] EXCEPT !.step = "save", !.bind[t] = r])
           \/ /\ ~ Readable(t, r)
              /\ Done(s)
              /\ UNCHANGED files
        /\ UNCHANGED <<rec, dir, src, db, ckptVars, laneVars, head, gc, cut, bounds>>

\* `drop`, after its capture is in the record: the paths are cleared.
DropClear(s, t) ==
    /\ cmd[s].step = "clear" /\ t \in cmd[s].todo
    /\ files' = [files EXCEPT ![s][t] = Empty]
    /\ Go(s, [cmd[s] EXCEPT !.step = "save", !.dropped = @ \cup {t}])
    /\ UNCHANGED <<rec, dir, src, db, ckptVars, laneVars, head, gc, cut, bounds>>

-----------------------------------------------------------------------------
(* `spawn` and `remove`.                                                   *)

\* The workspace is materialized under the lock, before any record names it;
\* one already there refuses the spawn.
BeginSpawn(s, dropped) ==
    /\ Begin(s, "spawn")
    /\ rec[s] = NoRecord /\ ~ dir[s]
    /\ dir' = [dir EXCEPT ![s] = TRUE]
    /\ Go(s, [NoCmd EXCEPT !.op = "spawn", !.step = "bind", !.dropped = dropped])
    /\ UNCHANGED <<rec, files, src, db, ckptVars, laneVars, head, gc, cut, bounds>>

\* `bind_tracker`: every tracker not dropped is bound to its lane's `main`.
SpawnBind(s) ==
    LET bound == Tracker \ cmd[s].dropped
    IN  /\ cmd[s].step = "bind"
        /\ \/ /\ \A t \in bound : Readable(t, main[t])
              /\ files' = [files EXCEPT ![s] =
                    [t \in Owned |-> IF t \in bound /\ main[t] # 0
                                     THEN tree[main[t]] ELSE Empty]]
              /\ Go(s, [cmd[s] EXCEPT !.step = "create", !.bind =
                    [t \in Tracker |-> IF t \in bound THEN main[t] ELSE 0]])
           \/ /\ \E t \in bound : ~ Readable(t, main[t])
              /\ Done(s)
              /\ UNCHANGED files
        /\ UNCHANGED <<rec, dir, src, db, ckptVars, laneVars, head, gc, cut, bounds>>

\* The record is created, the resources prepared (or not), the record saved.
SpawnCreate(s) ==
    /\ cmd[s].step = "create"
    /\ \E st \in Status :
          rec' = [rec EXCEPT ![s] = [bind |-> cmd[s].bind,
                                     dropped |-> cmd[s].dropped, status |-> st]]
    /\ db' = [db EXCEPT ![s] = NoData]
    /\ Done(s)
    /\ UNCHANGED <<dir, files, src, ckptVars, laneVars, head, gc, cut, bounds>>

BeginRemove(s, purge) ==
    /\ Begin(s, "remove") /\ rec[s] # NoRecord
    /\ Go(s, [Loaded(s, "remove", "teardown") EXCEPT !.purge = purge])
    /\ UNCHANGED <<instVars, ckptVars, laneVars, head, gc, cut, bounds>>

\* Cleanup hooks have run and the workspace goes.
WorkspaceGone(s) ==
    /\ dir' = [dir EXCEPT ![s] = FALSE]
    /\ files' = [files EXCEPT ![s] = NoFiles]
    /\ src' = [src EXCEPT ![s] = Empty]

RemoveTeardown(s) ==
    /\ cmd[s].step = "teardown"
    /\ WorkspaceGone(s)
    /\ db' = [db EXCEPT ![s] = NoData]
    /\ Go(s, [cmd[s] EXCEPT !.step = "archive"])
    /\ UNCHANGED <<rec, ckptVars, laneVars, head, gc, cut, bounds>>

RemoveArchive(s) ==
    /\ cmd[s].step = "archive"
    /\ rec' = [rec EXCEPT ![s] = NoRecord]
    /\ IF cmd[s].purge /\ Ids(s) # {} THEN Go(s, [cmd[s] EXCEPT !.step = "purge"])
                                      ELSE Done(s)
    /\ UNCHANGED <<dir, files, src, db, ckptVars, laneVars, head, gc, cut, bounds>>

\* `purge_checkpoints`: the store refs are deleted first, then the log.
PurgeTips(s) ==
    /\ tip' = [tip EXCEPT ![s] = [i \in Id |-> NoTip]]
    /\ cut' = cut \cup {s}
    /\ UNCHANGED log

PurgeLog(s) ==
    /\ log' = [log EXCEPT ![s] = [i \in Id |-> NoCkpt]]
    /\ cut' = cut \ {s}
    /\ UNCHANGED tip

RemovePurge(s) ==
    /\ \/ cmd[s].step = "purge" /\ PurgeTips(s)
          /\ Go(s, [cmd[s] EXCEPT !.step = "unlog"])
       \/ cmd[s].step = "unlog" /\ PurgeLog(s) /\ Done(s)
    /\ UNCHANGED <<instVars, laneVars, head, gc, bounds>>

-----------------------------------------------------------------------------
(* `tracker seed` and `tracker merge` move a lane's `main`, with no lock.  *)

HeadIdle(op) == head = NoHead /\ MayRun(op)

\* `seed_tracker_from_store`: the project's files, committed on `main`: the
\* pin ref is written first ...
SeedCommit(t, c) ==
    LET r == CommitRev(c, main[t])
    IN  /\ HeadIdle("seed") /\ Readable(t, main[t])
        /\ Commit(t, c, r)
        /\ head' = [op |-> "seed", t |-> t, r |-> r]
        /\ UNCHANGED <<instVars, ckptVars, main, cmd, gc, cut, bounds>>

\* `merge_tracker`: the rev bound in an instance, read without its lock.
MergeRead(s, t) ==
    /\ HeadIdle("merge") /\ rec[s] # NoRecord /\ rec[s].bind[t] # 0
    /\ Pinned(t, rec[s].bind[t])
    /\ head' = [op |-> "merge", t |-> t, r |-> rec[s].bind[t]]
    /\ UNCHANGED <<instVars, ckptVars, laneVars, cmd, gc, cut, bounds>>

\* ... and then `main`; a merge (`set_main`) resolves the rev once more.
MoveMain ==
    /\ head # NoHead
    /\ main' = IF head.op = "seed" \/ Pinned(head.t, head.r)
               THEN [main EXCEPT ![head.t] = head.r] ELSE main
    /\ head' = NoHead
    /\ UNCHANGED <<instVars, ckptVars, pins, tree, lastRev, cmd, gc, cut, bounds>>

-----------------------------------------------------------------------------
(* `cleanup`: takes no instance's lock but those of the stale ones.        *)

\* Mutant: an instance is live when it has a record, workspace or not.
GcStartKnown(purge) ==
    LET known == {s \in Slug : rec[s] # NoRecord}
    IN  /\ gc.step = "idle" /\ "cleanup" \in Commands
        /\ \A s \in Slug : cmd[s].op \in Concurrent \cup {"none"}
        /\ head.op \in Concurrent \cup {"none"}
        /\ gc' = [NoGc EXCEPT !.step = "stale", !.purge = purge,
                              !.claimed = known, !.live = known,
                              !.todo = {s \in known : ~ dir[s]},
                              !.bind = [s \in Slug |-> IF s \in known
                                            THEN rec[s].bind ELSE NoBinding]]
        /\ UNCHANGED <<instVars, ckptVars, laneVars, cmd, head, cut, bounds>>

\* `load_branches`: the records as they are now, live when their workspace is
\* there.
GcStart(purge) ==
    LET known == {s \in Slug : rec[s] # NoRecord}
        live  == {s \in known : dir[s]}
    IN  /\ gc.step = "idle" /\ "cleanup" \in Commands
        /\ \A s \in Slug : cmd[s].op \in Concurrent \cup {"none"}
        /\ head.op \in Concurrent \cup {"none"}
        /\ gc' = [NoGc EXCEPT !.step = "stale", !.purge = purge,
                              !.claimed = known, !.live = live,
                              !.todo = known \ live,
                              !.bind = [s \in Slug |-> IF s \in live
                                            THEN rec[s].bind ELSE NoBinding]]
        /\ UNCHANGED <<instVars, ckptVars, laneVars, cmd, head, cut, bounds>>

\* Mutant: the stale instance is finished without reading its record again.
GcStaleUnread(s) ==
    /\ gc.step = "stale" /\ s \in gc.todo /\ cmd[s] = NoCmd
    /\ rec' = [rec EXCEPT ![s] = NoRecord]
    /\ gc' = [gc EXCEPT !.todo = @ \ {s}]
    /\ UNCHANGED <<dir, files, src, db, ckptVars, laneVars, cmd, head, cut, bounds>>

\* Under its lock, read again: gone by now, live again by now, or finished,
\* its hooks run and its record archived.
GcStale(s) ==
    /\ gc.step = "stale" /\ s \in gc.todo /\ cmd[s] = NoCmd
    /\ \/ /\ rec[s] = NoRecord
          /\ gc' = [gc EXCEPT !.todo = @ \ {s}]
          /\ UNCHANGED <<rec, db>>
       \/ /\ Live(s)
          /\ gc' = [gc EXCEPT !.todo = @ \ {s}, !.live = @ \cup {s},
                              !.bind[s] = rec[s].bind]
          /\ UNCHANGED <<rec, db>>
       \/ /\ rec[s] # NoRecord /\ ~ dir[s]
          /\ rec' = [rec EXCEPT ![s] = NoRecord]
          /\ db' = [db EXCEPT ![s] = NoData]
          /\ gc' = [gc EXCEPT !.todo = @ \ {s}]
    /\ UNCHANGED <<dir, files, src, ckptVars, laneVars, cmd, head, cut, bounds>>

\* `orphan_workspaces`: directories none of the records read above claims.
GcOrphans ==
    LET orphans == {s \in Slug : dir[s]} \ gc.claimed
    IN  /\ gc.step = "stale" /\ gc.todo = {}
        /\ dir' = [s \in Slug |-> dir[s] /\ s \notin orphans]
        /\ files' = [s \in Slug |-> IF s \in orphans THEN NoFiles ELSE files[s]]
        /\ src' = [s \in Slug |-> IF s \in orphans THEN Empty ELSE src[s]]
        /\ gc' = [gc EXCEPT !.step = "purge",
                            !.todo = IF gc.purge
                                     THEN {s \in Slug : Ids(s) # {}} \ gc.live
                                     ELSE {}]
        /\ UNCHANGED <<rec, db, ckptVars, laneVars, cmd, head, cut, bounds>>

\* `--purge`: the logs of instances with no record, one after the other.
GcPurge(s) ==
    /\ \/ /\ gc.step = "purge" /\ s \in gc.todo
          /\ PurgeTips(s)
          /\ gc' = [gc EXCEPT !.step = "unlog", !.todo = @ \ {s}, !.now = s]
       \/ /\ gc.step = "unlog" /\ s = gc.now
          /\ PurgeLog(s)
          /\ gc' = [gc EXCEPT !.step = "purge", !.now = "none"]
    /\ UNCHANGED <<instVars, laneVars, cmd, head, bounds>>

Keys == Tracker \X Rev

\* Every rev a checkpoint of s names: its trackers' and its deposits'.
ClaimedBy(s) ==
    ({<<t, log[s][i].bind[t]>> : i \in Ids(s), t \in Tracker}
       \cup {<<t, log[s][i].dump[t]>> : i \in Ids(s), t \in Deposit}) \cap Keys

\* Mutant: the checkpoints of live instances are roots, a removed one's not.
GcRootsLive ==
    /\ gc.step = "purge" /\ gc.todo = {}
    /\ gc' = [gc EXCEPT !.step = "heads", !.roots =
         ({<<t, gc.bind[s][t]>> : s \in gc.live, t \in Tracker} \cap Keys)
           \cup UNION {ClaimedBy(s) : s \in gc.live}]
    /\ UNCHANGED <<instVars, ckptVars, laneVars, cmd, head, cut, bounds>>

\* `SnapshotRoots::collect`: the bindings read at the start, every checkpoint
\* record there is now (when purging, of the surviving instances) ...
GcRoots ==
    /\ gc.step = "purge" /\ gc.todo = {}
    /\ gc' = [gc EXCEPT !.step = "heads", !.roots =
         ({<<t, gc.bind[s][t]>> : s \in gc.live, t \in Tracker} \cap Keys)
           \cup UNION {ClaimedBy(s) : s \in IF gc.purge THEN gc.live ELSE Slug}]
    /\ UNCHANGED <<instVars, ckptVars, laneVars, cmd, head, cut, bounds>>

\* Mutant: a lane's `main` keeps nothing.
GcHeadsNone ==
    /\ gc.step = "heads"
    /\ gc' = [gc EXCEPT !.step = "forget", !.forget = pins \ gc.roots]
    /\ UNCHANGED <<instVars, ckptVars, laneVars, cmd, head, cut, bounds>>

\* ... and the lanes' heads; then the pins listed that are none of these.
GcHeads ==
    LET roots == gc.roots \cup ({<<t, main[t]>> : t \in Tracker} \cap Keys)
    IN  /\ gc.step = "heads"
        /\ gc' = [gc EXCEPT !.step = "forget", !.roots = roots,
                            !.forget = pins \ roots]
        /\ UNCHANGED <<instVars, ckptVars, laneVars, cmd, head, cut, bounds>>

\* `forget`: the pin goes, and with it the only way to the rev.
GcForget(t, r) ==
    /\ gc.step = "forget" /\ <<t, r>> \in gc.forget
    /\ pins' = pins \ {<<t, r>>}
    /\ gc' = [gc EXCEPT !.forget = @ \ {<<t, r>>}]
    /\ UNCHANGED <<instVars, ckptVars, main, tree, lastRev, cmd, head, cut, bounds>>

GcEnd ==
    /\ gc.step = "forget" /\ gc.forget = {}
    /\ gc' = NoGc
    /\ UNCHANGED <<instVars, ckptVars, laneVars, cmd, head, cut, bounds>>

-----------------------------------------------------------------------------
(* The environment.                                                        *)

\* A person or an agent changes files, source or data between commands.
Edit(s) ==
    /\ cmd[s] = NoCmd /\ Live(s)
    /\ edits < MaxEdit /\ edits' = edits + 1
    /\ \E c \in Content :
          \/ /\ \E t \in Owned : files' = [files EXCEPT ![s][t] = c]
             /\ UNCHANGED <<src, db>>
          \/ src' = [src EXCEPT ![s] = c] /\ UNCHANGED <<files, db>>
          \/ /\ \E t \in Deposit : db' = [db EXCEPT ![s][t] = c]
             /\ UNCHANGED <<files, src>>
    /\ UNCHANGED <<rec, dir, ckptVars, laneVars, cmd, head, gc, cut, crashes>>

\* Someone deletes a workspace by hand.
LoseWorkspace(s) ==
    /\ cmd[s] = NoCmd /\ Live(s)
    /\ edits < MaxEdit /\ edits' = edits + 1
    /\ WorkspaceGone(s)
    /\ UNCHANGED <<rec, db, ckptVars, laneVars, cmd, head, gc, cut, crashes>>

\* A process is killed: what it had in memory is gone, nothing else is.
Crash ==
    /\ crashes < MaxCrash
    /\ crashes' = crashes + 1
    /\ \/ /\ \E s \in Slug : cmd[s] # NoCmd /\ Done(s)
          /\ UNCHANGED <<head, gc>>
       \/ head # NoHead /\ head' = NoHead /\ UNCHANGED <<cmd, gc>>
       \/ gc # NoGc /\ gc' = NoGc /\ UNCHANGED <<cmd, head>>
    /\ UNCHANGED <<instVars, ckptVars, laneVars, cut, edits>>

-----------------------------------------------------------------------------
CheckpointNext(s) ==
    \/ BeginCheckpoint(s) \/ FetchTip(s)
    \/ \E t \in Deposit : DepositStep(s, t)
    \/ \E t \in Owned : CaptureStep(s, t)
    \/ SaveCheckpoint(s) \/ SaveRecord(s)

UndoNext(s) ==
    \/ \E i \in Id, only \in SUBSET Deposit : BeginUndo(s, i, only)
    \/ UndoFetch(s) \/ UndoRebind(s) \/ UndoSource(s)
    \/ \E t \in Tracker : UndoTracker(s, t)
    \/ UndoTrackersDone(s)
    \/ \E t \in Deposit : UndoResource(s, t)
    \/ UndoResourcesDone(s) \/ SaveLast(s) \/ UndoStamp(s)

TrackerNext(s) ==
    \E t \in Owned :
        \/ BeginCapture(s, t) \/ BeginPull(s, t)
        \/ BeginDrop(s, t) \/ BeginUse(s, t)
        \/ \E r \in Rev : BeginCheckout(s, t, r)
        \/ TrackerCapture(s, t) \/ RestoreRev(s, t) \/ DropClear(s, t)

LifeNext(s) ==
    \/ \E d \in SUBSET Owned : BeginSpawn(s, d)
    \/ SpawnBind(s) \/ SpawnCreate(s)
    \/ \E purge \in BOOLEAN : BeginRemove(s, purge)
    \/ RemoveTeardown(s) \/ RemoveArchive(s) \/ RemovePurge(s)
    \/ Edit(s) \/ LoseWorkspace(s)

HeadNext ==
    \/ \E t \in Owned, c \in Content : SeedCommit(t, c)
    \/ \E s \in Slug, t \in Tracker : MergeRead(s, t)
    \/ MoveMain

GcNext ==
    \/ \E purge \in BOOLEAN : GcStart(purge)
    \/ \E s \in Slug : GcStale(s) \/ GcPurge(s)
    \/ GcOrphans \/ GcRoots \/ GcHeads
    \/ \E t \in Tracker, r \in Rev : GcForget(t, r)
    \/ GcEnd

Next ==
    \/ \E s \in Slug : CheckpointNext(s) \/ UndoNext(s) \/ TrackerNext(s)
                       \/ LifeNext(s)
    \/ HeadNext \/ GcNext \/ Crash

Spec == Init /\ [][Next]_vars

-----------------------------------------------------------------------------
(* Properties.                                                             *)

\* Every checkpoint on disk can be restored: each rev it names, deposits
\* included, still resolves, and its source ref is there (unless a purge of
\* that very log was cut short).  cleanup.rs: "a checkpoint pointing at a
\* pruned rev is not a smaller store, it is a broken undo".
NoBrokenUndo ==
    \A s \in Slug :
        /\ ClaimedBy(s) \subseteq pins
        /\ \A i \in Ids(s) : s \in cut \/ tip[s][i] = log[s][i].src

\* What a binding record or a lane's `main` names still resolves: otherwise
\* every later capture, checkpoint or spawn fails (commit_files resolves the
\* bound rev as its parent, bind_tracker resolves `main`).
BoundRevsResolve ==
    /\ \A s \in Slug : rec[s] # NoRecord =>
           \A t \in Tracker : Readable(t, rec[s].bind[t])
    /\ \A t \in Tracker : Readable(t, main[t])

\* Once an undo has its safety checkpoint, that record holds every bound
\* tracker, the source and every resource that was up, as the undo found
\* them: "undo is always undoable" (manager.rs: undo).
UndoUndoable ==
    \A s \in Slug :
        cmd[s].op = "undo" /\ cmd[s].step \notin {"source", "capture"} =>
            LET safety == log[s][cmd[s].id]
            IN  /\ safety # NoCkpt
                /\ safety.src = cmd[s].before.src
                /\ \A t \in Owned \ safety.dropped :
                       /\ safety.bind[t] # 0
                       /\ tree[safety.bind[t]] = cmd[s].before.files[t]
                /\ \A t \in Deposit : safety.dump[t] # 0 =>
                       tree[safety.dump[t]] = cmd[s].before.db[t]

\* When an undo is about to say how it went, the source and the bound
\* trackers are exactly the checkpoint's and the record on disk agrees (a
\* partial undo has left them exactly as it found them), and without a
\* recorded failure so is the data of every resource it was to restore
\* (manager.rs: undo's restore steps).
UndoExact ==
    \A s \in Slug : cmd[s].step = "stamp" =>
        /\ cmd[s].only = {} =>
               /\ src[s] = Target(s).src
               /\ rec[s].dropped = Target(s).dropped
               /\ \A t \in Owned \ Target(s).dropped :
                      /\ rec[s].bind[t] = Target(s).bind[t]
                      /\ files[s][t] = IF rec[s].bind[t] = 0 THEN Empty
                                       ELSE tree[rec[s].bind[t]]
        /\ cmd[s].only # {} =>
               /\ src[s] = cmd[s].before.src
               /\ files[s] = cmd[s].before.files
        /\ ~ cmd[s].failed =>
               \A t \in Restored(s) : /\ db[s][t] = tree[Target(s).dump[t]]
                                      /\ rec[s].status[t] = "ready"

\* What nothing names when a cleanup with nothing else under way ends is
\* gone: no pin is left but those of records, checkpoints and heads
\* (manager.rs: cleanup's lane pruning).
CleanupReclaims ==
    [][gc.step = "forget" /\ gc'.step = "idle" /\ crashes' = crashes =>
         \A k \in pins : \/ \E s \in Slug : k \in ClaimedBy(s)
                         \/ \E s \in Slug : rec[s] # NoRecord
                                              /\ rec[s].bind[k[1]] = k[2]
                         \/ main[k[1]] = k[2]]_vars

\* A cleanup deletes no workspace that a binding record claims by then
\* (cleanup.rs: orphan_workspaces, "Workspace directories ... that no binding
\* record claims").  A spawn that saves its record once cleanup has read the
\* records breaks it: no run lists it.
CleanupSparesLive ==
    [][\A s \in Slug : gc.step # "idle" /\ gc' # gc /\ dir[s] /\ ~ dir'[s] =>
          rec[s] = NoRecord]_vars

\* A cleanup archives no record of an instance whose workspace is there, even
\* one spawned again since the cleanup found it stale (manager.rs: cleanup's
\* second look under the lock).
CleanupKeepsRespawned ==
    [][\A s \in Slug : gc.step = "stale" /\ gc' # gc /\ gc' # NoGc =>
          ~ (Live(s) /\ rec'[s] = NoRecord)]_vars

\* While a tracker stays dropped its binding keeps the content it had when it
\* was dropped (branch.rs: "a dropped tracker outside Git keeps its binding's
\* content for when it is used again").
DroppedContentStands ==
    [][\A s \in Slug : rec[s] # NoRecord /\ rec'[s] # NoRecord =>
          \A t \in rec[s].dropped \cap rec'[s].dropped :
              rec'[s].bind[t] = rec[s].bind[t]]_vars
=============================================================================
