-------------------------- MODULE SnapshotsProofs --------------------------
(***************************************************************************)
(* Theorems about checkpoints, undo and cleanup, for any instances,        *)
(* trackers and contents, and any interleaving of the commands on one      *)
(* instance with those on others, crashes anywhere, and cleanups.          *)
(***************************************************************************)
EXTENDS Snapshots, FiniteSetTheorems, TLAPS

-----------------------------------------------------------------------------
(* The number of the next checkpoint.                                      *)

LEMMA MaxOfSome ==
    ASSUME NEW n \in Nat, NEW S \in SUBSET (0 .. n), S # {}
    PROVE  Max(S) \in S /\ \A y \in S : Max(S) >= y
<1> DEFINE Above(i) == {j \in S : j > i}
           Aboves == {Above(i) : i \in S}
<1>1. IsFiniteSet(S) /\ S \subseteq Nat
  <2>1. 0 \in Int /\ n \in Int
    OBVIOUS
  <2>2. IsFiniteSet(0 .. n)
    BY <2>1, FS_Interval
  <2>3. IsFiniteSet(S)
    BY <2>2, FS_Subset
  <2>4. S \subseteq Nat
    OBVIOUS
  <2> QED
    BY <2>3, <2>4
<1>2. \A i \in S : Above(i) \in SUBSET S /\ IsFiniteSet(Above(i))
  BY <1>1, FS_Subset
<1>3. Aboves \subseteq FiniteSubsetsOf(S) /\ Aboves # {}
  BY <1>2 DEF FiniteSubsetsOf
<1>4. PICK A \in Aboves : \A B \in Aboves : ~ (<<B, A>> \in StrictSubsetOrdering(S))
  BY <1>3, FS_StrictSubsetOrderingWellFounded, WFMin
<1>5. PICK i \in S : A = Above(i)
  OBVIOUS
<1>6. \A j \in S : ~ (j > i)
  <2> SUFFICES ASSUME NEW j \in S, j > i PROVE FALSE
    OBVIOUS
  <2>1. Above(j) \subseteq Above(i) /\ j \in Above(i) /\ j \notin Above(j)
    <3>1. i \in Nat /\ j \in Nat /\ ~ (j > j)
      BY <1>1
    <3>2. \A k \in S : k > j => k > i
      BY <1>1, <3>1
    <3> QED
      BY <3>1, <3>2
  <2>2. <<Above(j), Above(i)>> \in StrictSubsetOrdering(S)
    BY <1>2, <2>1 DEF StrictSubsetOrdering
  <2> QED
    BY <1>4, <1>5, <2>2
<1>7. \E x \in S : \A y \in S : x >= y
  BY <1>6
<1> QED
  BY <1>7 DEF Max


\* `next_id` is the id of no checkpoint there is.
LEMMA NextIdFresh ==
    ASSUME NEW s \in Slug
    PROVE  NextId(s) \in Nat /\ NextId(s) \notin Ids(s)
<1>1. Ids(s) \subseteq 1 .. MaxId /\ MaxId \in Nat
  BY SnapshotsAssumption DEF Ids, Id
<1>2. {0} \cup Ids(s) \in SUBSET (0 .. MaxId) /\ {0} \cup Ids(s) # {}
  BY <1>1
<1>3. Max({0} \cup Ids(s)) \in 0 .. MaxId /\ \A i \in Ids(s) : Max({0} \cup Ids(s)) >= i
  BY <1>1, <1>2, MaxOfSome
<1> QED
  BY <1>1, <1>3 DEF NextId

-----------------------------------------------------------------------------
(* What a command is doing, step by step.                                  *)

\* No spawn races a cleanup that a checkpoint or an undo may race too: the
\* instance it spawns could have its old checkpoints purged under them.
SpawnApart == "spawn" \notin Concurrent \/ {"checkpoint", "undo"} \cap Concurrent = {}

\* The steps of each command.
Phase(c) ==
    /\ c.op = "none" => c = NoCmd
    /\ c.op = "checkpoint" => c.step \in {"source", "capture", "record"}
    /\ c.op = "undo" => c.step \in {"source", "capture", "record", "fetch", "rebind",
                                    "worktree", "restore", "resources", "save", "stamp"}
    /\ c.op = "capture" => c.step \in {"capture", "record"}
    /\ c.op = "drop" => c.step \in {"capture", "record", "clear", "save"}
    /\ c.op \in {"checkout", "pull", "use"} => c.step \in {"capture", "restore", "save"}
    /\ c.op = "spawn" => c.step \in {"bind", "create"}
    /\ c.op = "remove" => c.step \in {"teardown", "archive", "purge", "unlog"}
    /\ c.op \notin {"seed", "merge", "cleanup"}

Captures == {"checkpoint", "undo"}

\* A checkpoint takes an id no checkpoint has, and is there when saved; what an
\* undo goes back to is there, and so are the instance and its workspace; the
\* other commands have at least its record.
Numbered(s) ==
    /\ cmd[s].op \notin {"none", "spawn", "remove"} => rec[s] # NoRecord
    /\ cmd[s].op \in Captures =>
           /\ cmd[s].id \in Id /\ Live(s)
           /\ cmd[s].step \in {"source", "capture"} <=> cmd[s].id \notin Ids(s)
    /\ cmd[s].op = "undo" => cmd[s].to \in Ids(s)
    /\ cmd[s].op \in {"checkout", "pull", "use"} => cmd[s].to \in Rev0

\* A cleanup knows the instances that commands may work in beside it, and
\* takes nothing of theirs.
GcKnows ==
    gc.step # "idle" =>
        /\ gc.live \subseteq gc.claimed
        /\ gc.step = "stale" => gc.todo \subseteq gc.claimed
        /\ \A s \in Slug : cmd[s].op \in Concurrent \cup {"none"}
        /\ "spawn" \notin Concurrent => \A s \in Slug : Live(s) => s \in gc.live
        /\ gc.step \in {"purge", "unlog"} => gc.todo \cap gc.live = {}
        /\ gc.step = "unlog" => gc.now \in Slug \ gc.live

LifeInv == TypeOK /\ (\A s \in Slug : Phase(cmd[s]) /\ Numbered(s)) /\ GcKnows

\* An instance's command goes a step, or the environment does something to it.
Moves(s) ==
    /\ TypeOK'
    /\ \A r \in Slug \ {s} : /\ cmd'[r] = cmd[r] /\ rec'[r] = rec[r]
                             /\ dir'[r] = dir[r] /\ log'[r] = log[r]
    /\ gc' = gc
    /\ cmd'[s].op \in {cmd[s].op, "none"} \/ MayRun(cmd'[s].op)
    /\ Live(s)' => Live(s) \/ cmd[s].op = "spawn"
    /\ Phase(cmd'[s]) /\ Numbered(s)'

LEMMA MovesKeeps ==
    ASSUME LifeInv, NEW s \in Slug, Moves(s) PROVE LifeInv'
<1>1. \A r \in Slug \ {s} : (Live(r)' <=> Live(r)) /\ Ids(r)' = Ids(r)
  BY DEF Moves, Live, Ids
<1>2. \A r \in Slug : Phase(cmd[r])' /\ Numbered(r)'
  <2> SUFFICES ASSUME NEW r \in Slug \ {s} PROVE Phase(cmd[r])' /\ Numbered(r)'
    BY DEF Moves
  <2>1. cmd'[r] = cmd[r] /\ rec'[r] = rec[r]
    BY DEF Moves
  <2> QED
    BY <1>1, <2>1 DEF LifeInv, Phase, Numbered
<1>3. GcKnows'
  <2> SUFFICES ASSUME gc.step # "idle" PROVE GcKnows'
    BY DEF Moves, GcKnows
  <2>1. \A r \in Slug : cmd'[r].op \in Concurrent \cup {"none"}
    BY DEF LifeInv, Moves, GcKnows, MayRun
  <2>2. "spawn" \notin Concurrent /\ Live(s)' => Live(s)
    BY DEF LifeInv, Moves, GcKnows
  <2> QED
    BY <1>1, <2>1, <2>2 DEF LifeInv, Moves, GcKnows
<1> QED
  BY <1>2, <1>3 DEF LifeInv, Moves

LEMMA InitLifeInv == Init => LifeInv
<1> SUFFICES ASSUME Init PROVE LifeInv
  OBVIOUS
<1> USE SnapshotsAssumption
<1>1. NoCmd \in Memory
  BY DEF NoCmd, Memory, NoBinding, NoDump, AllReady, NoFiles, NoData, Binding,
         Status, Rev0, Steps, Tracker
<1>2. NoGc \in GcMemory
  BY DEF NoGc, GcMemory, NoBinding, Binding, Rev0, GcSteps
<1>3. TypeOK
  BY <1>1, <1>2 DEF Init, TypeOK, NoFiles, NoData, Rev0
<1>4. \A s \in Slug : Phase(cmd[s]) /\ Numbered(s)
  BY DEF Init, Phase, Numbered, NoCmd, Captures
<1>5. GcKnows
  BY DEF Init, GcKnows, NoGc
<1> QED
  BY <1>3, <1>4, <1>5 DEF LifeInv

LEMMA Going ==
    ASSUME TypeOK, NEW s \in Slug, NEW c \in Memory, Go(s, c)
    PROVE  /\ cmd' \in [Slug -> Memory] /\ cmd'[s] = c
           /\ \A r \in Slug \ {s} : cmd'[r] = cmd[r]
  BY DEF TypeOK, Go

LEMMA NoCmdType == NoCmd \in Memory /\ Phase(NoCmd) /\ NoCmd.op = "none" /\ NoCmd.step = "idle"
<1>1. NoCmd \in Memory
  BY SnapshotsAssumption
     DEF NoCmd, Memory, NoBinding, NoDump, AllReady, NoFiles, NoData, Binding,
         Status, Rev0, Steps, Tracker
<1> QED
  BY <1>1 DEF NoCmd, Phase

LEMMA Recorded ==
    ASSUME TypeOK, NEW s \in Slug, rec[s] # NoRecord
    PROVE  /\ rec[s] \in Record
           /\ rec[s].bind \in Binding /\ rec[s].dropped \in SUBSET Owned
           /\ rec[s].status \in Status
  BY DEF TypeOK, Record

\* What a command loads.
LEMMA Loading ==
    ASSUME TypeOK, NEW s \in Slug, rec[s] # NoRecord, NEW op \in Ops, NEW step \in Steps
    PROVE  /\ Loaded(s, op, step) \in Memory
           /\ Loaded(s, op, step).op = op /\ Loaded(s, op, step).step = step
           /\ Loaded(s, op, step).bind = rec[s].bind
           /\ Loaded(s, op, step).dropped = rec[s].dropped
           /\ Loaded(s, op, step).status = rec[s].status
           /\ Loaded(s, op, step).dump = NoDump
           /\ Loaded(s, op, step).to = 0
           /\ Loaded(s, op, step).only = {}
<1>1. NoCmd \in Memory /\ NoCmd.dump = NoDump /\ NoCmd.only = {} /\ NoCmd.to = 0
  BY NoCmdType DEF NoCmd
<1> QED
  BY <1>1, Recorded DEF Loaded, Memory

\* A command that begins, ends, or goes on, the record and the log standing.
LEMMA MovesOn ==
    ASSUME LifeInv, NEW s \in Slug, TypeOK', NEW c \in Memory, Go(s, c), Phase(c),
           UNCHANGED <<rec, log, gc>>,
           \A r \in Slug : dir'[r] = dir[r],
           \/ c = NoCmd
           \/ /\ c.op = cmd[s].op /\ c.id = cmd[s].id /\ c.to = cmd[s].to
              /\ c.step \in {"source", "capture"} <=> cmd[s].step \in {"source", "capture"}
    PROVE  Moves(s)
<1>1. /\ cmd'[s] = c
      /\ \A r \in Slug \ {s} : cmd'[r] = cmd[r]
  BY Going DEF LifeInv
<1>2. Ids(s)' = Ids(s) /\ (Live(s)' <=> Live(s))
  BY DEF Ids, Live
<1>3. Numbered(s)'
  <2>1. CASE c = NoCmd
    BY <1>1, <2>1, NoCmdType DEF Numbered, Captures
  <2>2. CASE c # NoCmd
    BY <1>1, <1>2, <2>2 DEF LifeInv, Numbered
  <2> QED
    BY <2>1, <2>2
<1> QED
  BY <1>1, <1>2, <1>3, NoCmdType DEF Moves

\* The same when the record is written, and when a checkpoint's own record is.
LEMMA MovesSaving ==
    ASSUME LifeInv, NEW s \in Slug, TypeOK', NEW c \in Memory, Go(s, c), Phase(c),
           gc' = gc, Ids(s)' = Ids(s),
           \A r \in Slug : dir'[r] = dir[r],
           \A r \in Slug \ {s} : rec'[r] = rec[r] /\ log'[r] = log[r],
           rec[s] # NoRecord, rec'[s] # NoRecord,
           \/ c = NoCmd
           \/ /\ c.op = cmd[s].op /\ c.id = cmd[s].id /\ c.to = cmd[s].to
              /\ c.step \in {"source", "capture"} <=> cmd[s].step \in {"source", "capture"}
    PROVE  Moves(s)
<1>1. /\ cmd'[s] = c
      /\ \A r \in Slug \ {s} : cmd'[r] = cmd[r]
  BY Going DEF LifeInv
<1>2. Live(s)' <=> Live(s)
  BY DEF Live
<1>3. Numbered(s)'
  <2>1. CASE c = NoCmd
    BY <1>1, <2>1, NoCmdType DEF Numbered, Captures
  <2>2. CASE c # NoCmd
    BY <1>1, <1>2, <2>2 DEF LifeInv, Numbered
  <2> QED
    BY <2>1, <2>2
<1> QED
  BY <1>1, <1>2, <1>3, NoCmdType DEF Moves

\* What `save_branch_record` writes.
LEMMA Saving ==
    ASSUME TypeOK, NEW s \in Slug, SaveMemory(s)
    PROVE  /\ rec' \in [Slug -> Record \cup {NoRecord}]
           /\ rec'[s] = [bind |-> cmd[s].bind, dropped |-> cmd[s].dropped,
                         status |-> cmd[s].status]
           /\ rec'[s] # NoRecord
           /\ \A r \in Slug \ {s} : rec'[r] = rec[r]
<1> DEFINE k == [bind |-> cmd[s].bind, dropped |-> cmd[s].dropped,
                 status |-> cmd[s].status]
<1>1. rec' = [rec EXCEPT ![s] = k]
  BY DEF SaveMemory
<1>2. k \in Record /\ k # NoRecord
  BY DEF TypeOK, Memory, Record, NoRecord
<1> HIDE DEF k
<1>3. rec' \in [Slug -> Record \cup {NoRecord}] /\ rec'[s] = k
      /\ \A r \in Slug \ {s} : rec'[r] = rec[r]
  BY <1>1, <1>2 DEF TypeOK
<1> QED
  BY <1>2, <1>3 DEF k

-----------------------------------------------------------------------------
(* The lanes.                                                              *)

\* A commit makes a rev of the lane, and what other revs hold stands.
LEMMA Committing ==
    ASSUME TypeOK, NEW t \in Tracker, NEW c \in Content, NEW p \in Rev0,
           Commit(t, c, CommitRev(c, p))
    PROVE  LET r == CommitRev(c, p)
           IN  /\ r \in Rev
               /\ pins' = pins \cup {<<t, r>>} /\ pins' \subseteq Tracker \X Rev
               /\ tree' \in [Rev -> Content] /\ tree'[r] = c
               /\ lastRev' \in Rev0 /\ lastRev <= lastRev'
               /\ r <= lastRev'
               /\ \A q \in 1 .. lastRev : tree'[q] = tree[q]
<1> DEFINE r == CommitRev(c, p)
<1>1. r \in Rev /\ pins' = pins \cup {<<t, r>>} /\ tree' = [tree EXCEPT ![r] = c]
      /\ lastRev' = IF r > lastRev THEN r ELSE lastRev
  BY DEF Commit
<1>2. MaxRev \in Nat /\ lastRev \in 0 .. MaxRev /\ r \in Nat
  BY <1>1, SnapshotsAssumption DEF TypeOK, Rev0, Rev
<1>3. pins' \subseteq Tracker \X Rev /\ tree' \in [Rev -> Content] /\ tree'[r] = c
  BY <1>1 DEF TypeOK
<1>4. lastRev' \in Rev0 /\ lastRev <= lastRev' /\ r <= lastRev'
  BY <1>1, <1>2 DEF Rev0, Rev
<1>5. ASSUME NEW q \in 1 .. lastRev PROVE tree'[q] = tree[q]
  <2>1. q \in Rev
    BY <1>2, <1>5 DEF Rev
  <2>2. CASE q # r
    BY <1>1, <2>1, <2>2 DEF TypeOK
  <2>3. CASE q = r
    <3>1. r # lastRev + 1
      BY <1>2, <2>3
    <3>2. tree[p] = c /\ r = p
      BY <3>1 DEF CommitRev
    <3> QED
      BY <1>3, <2>3, <3>2
  <2> QED
    BY <2>2, <2>3
<1> QED
  BY <1>1, <1>3, <1>4, <1>5

LEMMA CheckpointMoves ==
    ASSUME LifeInv, NEW s \in Slug, CheckpointNext(s) PROVE Moves(s)
<1>0. TypeOK /\ Phase(cmd[s]) /\ Numbered(s) /\ cmd[s] \in Memory
  BY DEF LifeInv, TypeOK
<1> USE SnapshotsAssumption
<1>1. CASE BeginCheckpoint(s)
  <2> DEFINE c == [Loaded(s, "checkpoint", "source") EXCEPT !.id = NextId(s)]
  <2>1. cmd[s] = NoCmd /\ MayRun("checkpoint") /\ Live(s) /\ NextId(s) \in Id /\ Go(s, c)
        /\ rec[s] # NoRecord
    BY <1>1 DEF BeginCheckpoint, Begin, Live
  <2>2. c \in Memory /\ c.op = "checkpoint" /\ c.step = "source" /\ c.id = NextId(s)
    <3>1. "checkpoint" \in Ops /\ "source" \in Steps /\ NextId(s) \in 0 .. MaxId
      BY <2>1 DEF Ops, Steps, Id
    <3>2. Loaded(s, "checkpoint", "source") \in Memory
          /\ Loaded(s, "checkpoint", "source").op = "checkpoint"
          /\ Loaded(s, "checkpoint", "source").step = "source"
      BY <1>0, <2>1, <3>1, Loading
    <3> QED
      BY <3>1, <3>2 DEF Memory
  <2> HIDE DEF c
  <2>3. TypeOK'
    BY <1>0, <1>1, <2>1, <2>2, Going
       DEF BeginCheckpoint, TypeOK, instVars, ckptVars, laneVars, bounds
  <2>4. UNCHANGED <<rec, dir, log, gc>>
    BY <1>1 DEF BeginCheckpoint, instVars, ckptVars
  <2>5. cmd'[s] = c /\ \A r \in Slug \ {s} : cmd'[r] = cmd[r]
    BY <1>0, <2>1, <2>2, Going
  <2>6. Live(s)' /\ Ids(s)' = Ids(s) /\ rec'[s] # NoRecord
    BY <2>1, <2>4 DEF Live, Ids
  <2>7. Phase(c) /\ Numbered(s)'
    BY <2>1, <2>2, <2>5, <2>6, NextIdFresh DEF Phase, Numbered, Captures
  <2> QED
    BY <2>1, <2>2, <2>3, <2>4, <2>5, <2>6, <2>7 DEF Moves
<1>2. CASE FetchTip(s)
  <2> DEFINE c == [cmd[s] EXCEPT !.step = "capture", !.src = src[s],
                                 !.todo = Tracker \ cmd[s].dropped]
  <2>1. cmd[s].step = "source" /\ Go(s, c) /\ tip' = [tip EXCEPT ![s][cmd[s].id] = src[s]]
    BY <1>2 DEF FetchTip
  <2>2. src[s] \in Content
    BY <1>0 DEF TypeOK
  <2>3. c \in Memory /\ c.op = cmd[s].op /\ c.id = cmd[s].id /\ c.to = cmd[s].to
        /\ c.step = "capture"
    BY <1>0, <2>2 DEF Memory, Steps
  <2> HIDE DEF c
  <2>4. tip' \in [Slug -> [Id -> Content \cup {NoTip}]]
    BY <1>0, <2>1, <2>2 DEF TypeOK
  <2>5. TypeOK'
    BY <1>0, <1>2, <2>1, <2>3, <2>4, Going
       DEF FetchTip, TypeOK, instVars, laneVars, bounds
  <2>6. Phase(c)
    BY <1>0, <2>1, <2>3, NoCmdType DEF Phase
  <2> QED
    BY <1>2, <2>1, <2>3, <2>5, <2>6, MovesOn DEF FetchTip, instVars
<1>3. ASSUME NEW t \in Deposit, DepositStep(s, t) PROVE Moves(s)
  <2>1. UNCHANGED <<instVars, ckptVars, main, head, gc, cut, bounds>>
        /\ cmd[s].step = "capture" /\ t \in Tracker
    BY <1>3 DEF DepositStep, Tracker
  <2> DEFINE r == CommitRev(db[s][t], cmd[s].bind[t])
             c == [cmd[s] EXCEPT !.todo = @ \ {t}, !.bind[t] = r, !.dump[t] = r]
             d == [cmd[s] EXCEPT !.todo = @ \ {t}]
  <2>2. CASE Commit(t, db[s][t], r) /\ Go(s, c)
    <3>1. db[s][t] \in Content /\ cmd[s].bind[t] \in Rev0
      BY <1>0, <2>1 DEF TypeOK, Memory, Binding
    <3>2. r \in Rev /\ tree' \in [Rev -> Content] /\ lastRev' \in Rev0
          /\ pins' \subseteq Tracker \X Rev
      BY <1>0, <2>1, <2>2, <3>1, Committing
    <3>3. r \in Rev0
      BY <3>2 DEF Rev, Rev0
    <3> HIDE DEF r
    <3>4. c \in Memory /\ c.op = cmd[s].op /\ c.id = cmd[s].id /\ c.to = cmd[s].to
          /\ c.step = "capture"
      BY <1>0, <2>1, <3>3 DEF Memory, Binding
    <3> HIDE DEF c
    <3>5. TypeOK'
      BY <1>0, <2>1, <2>2, <3>2, <3>4, Going DEF TypeOK, instVars, ckptVars, bounds
    <3>6. Phase(c)
      BY <1>0, <2>1, <3>4, NoCmdType DEF Phase
    <3> QED
      BY <2>1, <2>2, <3>4, <3>5, <3>6, MovesOn DEF instVars, ckptVars
  <2>3. CASE UNCHANGED <<pins, tree, lastRev>> /\ Go(s, d)
    <3>1. d \in Memory /\ d.op = cmd[s].op /\ d.id = cmd[s].id /\ d.to = cmd[s].to
          /\ d.step = "capture"
      BY <1>0, <2>1 DEF Memory
    <3> HIDE DEF d
    <3>2. TypeOK'
      BY <1>0, <2>1, <2>3, <3>1, Going DEF TypeOK, instVars, ckptVars, bounds
    <3>3. Phase(d)
      BY <1>0, <2>1, <3>1, NoCmdType DEF Phase
    <3> QED
      BY <2>1, <2>3, <3>1, <3>2, <3>3, MovesOn DEF instVars, ckptVars
  <2>4. CASE UNCHANGED <<pins, tree, lastRev>> /\ Go(s, NoCmd)
    <3>1. TypeOK'
      BY <1>0, <2>1, <2>4, NoCmdType, Going DEF TypeOK, instVars, ckptVars, bounds
    <3> QED
      BY <2>1, <2>4, <3>1, NoCmdType, MovesOn DEF instVars, ckptVars
  <2> QED
    BY <1>3, <2>2, <2>3, <2>4
       DEF DepositStep, DepositOk, DepositDegraded, DepositAborts, Done
<1>4. ASSUME NEW t \in Owned, CaptureStep(s, t) PROVE Moves(s)
  <2> DEFINE r == CommitRev(files[s][t], cmd[s].bind[t])
             c == [cmd[s] EXCEPT !.todo = @ \ {t}, !.bind[t] = r]
  <2>1. UNCHANGED <<instVars, ckptVars, main, head, gc, cut, bounds>>
        /\ cmd[s].step = "capture" /\ t \in Tracker
    BY <1>4 DEF CaptureStep, Tracker
  <2>2. CASE Commit(t, files[s][t], r) /\ Go(s, c)
    <3>1. files[s][t] \in Content /\ cmd[s].bind[t] \in Rev0
      BY <1>0, <2>1 DEF TypeOK, Memory, Binding
    <3>2. r \in Rev /\ tree' \in [Rev -> Content] /\ lastRev' \in Rev0
          /\ pins' \subseteq Tracker \X Rev
      BY <1>0, <2>1, <2>2, <3>1, Committing
    <3>3. r \in Rev0
      BY <3>2 DEF Rev, Rev0
    <3> HIDE DEF r
    <3>4. c \in Memory /\ c.op = cmd[s].op /\ c.id = cmd[s].id /\ c.to = cmd[s].to
          /\ c.step = "capture"
      BY <1>0, <2>1, <3>3 DEF Memory, Binding
    <3> HIDE DEF c
    <3>5. TypeOK'
      BY <1>0, <2>1, <2>2, <3>2, <3>4, Going DEF TypeOK, instVars, ckptVars, bounds
    <3>6. Phase(c)
      BY <1>0, <2>1, <3>4, NoCmdType DEF Phase
    <3> QED
      BY <2>1, <2>2, <3>4, <3>5, <3>6, MovesOn DEF instVars, ckptVars
  <2>3. CASE Go(s, NoCmd) /\ UNCHANGED <<pins, tree, lastRev>>
    <3>1. TypeOK'
      BY <1>0, <2>1, <2>3, NoCmdType, Going DEF TypeOK, instVars, ckptVars, bounds
    <3> QED
      BY <2>1, <2>3, <3>1, NoCmdType, MovesOn DEF instVars, ckptVars
  <2> QED
    BY <1>4, <2>2, <2>3 DEF CaptureStep, Done
<1>5. CASE SaveCheckpoint(s)
  <2> DEFINE c == [cmd[s] EXCEPT !.step = "record"]
             k == [bind |-> cmd[s].bind, dump |-> cmd[s].dump,
                   dropped |-> cmd[s].dropped, src |-> cmd[s].src, done |-> "unset"]
  <2>1. cmd[s].step = "capture" /\ cmd[s].op \in {"checkpoint", "undo"} /\ Go(s, c)
        /\ log' = [log EXCEPT ![s][cmd[s].id] = k]
        /\ UNCHANGED <<instVars, tip, laneVars, head, gc, cut, bounds>>
    BY <1>5 DEF SaveCheckpoint
  <2>2. c \in Memory /\ c.op = cmd[s].op /\ c.id = cmd[s].id /\ c.to = cmd[s].to
        /\ c.step = "record"
    BY <1>0 DEF Memory, Steps
  <2>3. k \in Ckpt /\ k # NoCkpt
    <3>1. k \in Ckpt
      BY <1>0 DEF Memory, Ckpt
    <3>2. k.done = "unset"
      OBVIOUS
    <3> QED
      BY <3>1 DEF NoCkpt
  <2>4. cmd[s].id \in Id
    BY <1>0, <2>1 DEF Numbered, Captures
  <2> HIDE DEF c, k
  <2>5. log' \in [Slug -> [Id -> Ckpt \cup {NoCkpt}]]
        /\ (\A r \in Slug \ {s} : log'[r] = log[r])
        /\ \A i \in Id : log'[s][i] = IF i = cmd[s].id THEN k ELSE log[s][i]
    BY <1>0, <2>1, <2>3, <2>4 DEF TypeOK
  <2>6. TypeOK'
    BY <1>0, <2>1, <2>2, <2>5, Going DEF TypeOK, instVars, laneVars, bounds
  <2>7. cmd'[s] = c /\ \A r \in Slug \ {s} : cmd'[r] = cmd[r]
    BY <1>0, <2>1, <2>2, Going
  <2>8. Ids(s)' = Ids(s) \cup {cmd[s].id} /\ (Live(s)' <=> Live(s)) /\ rec'[s] = rec[s]
    BY <2>1, <2>3, <2>4, <2>5 DEF Ids, Live, instVars
  <2>9. Phase(c)
    BY <2>1, <2>2, NoCmdType DEF Phase
  <2>10. Numbered(s)'
    BY <1>0, <2>1, <2>2, <2>4, <2>7, <2>8 DEF Numbered, Captures
  <2> QED
    BY <2>1, <2>2, <2>5, <2>6, <2>7, <2>8, <2>9, <2>10 DEF Moves, instVars
<1>6. CASE SaveRecord(s)
  <2>1. cmd[s].step = "record" /\ SaveMemory(s)
        /\ UNCHANGED <<dir, files, src, db, ckptVars, laneVars, head, gc, cut, bounds>>
    BY <1>6 DEF SaveRecord
  <2>2. rec[s] # NoRecord /\ cmd[s].op \in {"checkpoint", "undo", "capture", "drop"}
    BY <1>0, <2>1, NoCmdType DEF Phase, Numbered, Memory, Ops
  <2>3. /\ rec' \in [Slug -> Record \cup {NoRecord}] /\ rec'[s] # NoRecord
        /\ \A r \in Slug \ {s} : rec'[r] = rec[r]
    BY <1>0, <2>1, Saving
  <2>4. ASSUME NEW c \in Memory, Go(s, c), Phase(c),
               \/ c = NoCmd
               \/ /\ c.op = cmd[s].op /\ c.id = cmd[s].id /\ c.to = cmd[s].to
                  /\ c.step \notin {"source", "capture"}
        PROVE  Moves(s)
    <3>1. TypeOK'
      BY <1>0, <2>1, <2>3, <2>4, Going DEF TypeOK, ckptVars, laneVars, bounds
    <3>2. Ids(s)' = Ids(s)
      BY <2>1 DEF Ids, ckptVars
    <3> QED
      BY <2>1, <2>2, <2>3, <2>4, <3>1, <3>2, MovesSaving DEF ckptVars
  <2>5. CASE cmd[s].op = "undo" /\ Go(s, [cmd[s] EXCEPT !.step = "fetch"])
    <3> DEFINE c == [cmd[s] EXCEPT !.step = "fetch"]
    <3>1. c \in Memory /\ c.op = cmd[s].op /\ c.id = cmd[s].id /\ c.to = cmd[s].to
          /\ c.step = "fetch"
      BY <1>0 DEF Memory, Steps
    <3> HIDE DEF c
    <3>2. Phase(c)
      BY <2>5, <3>1 DEF Phase
    <3> QED
      BY <2>4, <2>5, <3>1, <3>2 DEF c
  <2>6. CASE cmd[s].op = "undo"
             /\ Go(s, [cmd[s] EXCEPT !.step = "resources", !.todo = Restored(s)])
    <3> DEFINE c == [cmd[s] EXCEPT !.step = "resources", !.todo = Restored(s)]
    <3>0. Restored(s) \in SUBSET Tracker
      BY DEF Restored, Tracker
    <3>1. c \in Memory /\ c.op = cmd[s].op /\ c.id = cmd[s].id /\ c.to = cmd[s].to
          /\ c.step = "resources"
      BY <1>0, <3>0 DEF Memory, Steps
    <3> HIDE DEF c
    <3>2. Phase(c)
      BY <2>6, <3>1 DEF Phase
    <3> QED
      BY <2>4, <2>6, <3>1, <3>2 DEF c
  <2>7. CASE cmd[s].op = "drop" /\ Go(s, [cmd[s] EXCEPT !.step = "clear"])
    <3> DEFINE c == [cmd[s] EXCEPT !.step = "clear"]
    <3>1. c \in Memory /\ c.op = cmd[s].op /\ c.id = cmd[s].id /\ c.to = cmd[s].to
          /\ c.step = "clear"
      BY <1>0 DEF Memory, Steps
    <3> HIDE DEF c
    <3>2. Phase(c)
      BY <2>7, <3>1 DEF Phase
    <3> QED
      BY <2>4, <2>7, <3>1, <3>2 DEF c
  <2>8. CASE Go(s, NoCmd)
    BY <2>4, <2>8, NoCmdType
  <2> QED
    BY <1>6, <2>5, <2>6, <2>7, <2>8 DEF SaveRecord, Done
<1> QED
  BY <1>1, <1>2, <1>3, <1>4, <1>5, <1>6 DEF CheckpointNext

\* A command goes on from one step to another with only the workspace, the data
\* or the lanes changed.
LEMMA StepsOn ==
    ASSUME LifeInv, NEW s \in Slug, NEW c \in Memory, Go(s, c),
           files' \in [Slug -> [Owned -> Content]], src' \in [Slug -> Content],
           db' \in [Slug -> [Deposit -> Content]],
           pins' \subseteq Tracker \X Rev, tree' \in [Rev -> Content],
           lastRev' \in Rev0,
           UNCHANGED <<rec, dir, ckptVars, main, head, gc, cut, bounds>>,
           Phase(c),
           \/ c = NoCmd
           \/ /\ c.op = cmd[s].op /\ c.id = cmd[s].id /\ c.to = cmd[s].to
              /\ c.step \in {"source", "capture"} <=> cmd[s].step \in {"source", "capture"}
    PROVE  Moves(s)
<1>1. TypeOK'
  BY Going DEF LifeInv, TypeOK, ckptVars, bounds
<1> QED
  BY <1>1, MovesOn DEF ckptVars

\* What `undo` goes back to.
LEMMA TargetThere ==
    ASSUME TypeOK, NEW s \in Slug, cmd[s].op = "undo", Numbered(s)
    PROVE  /\ cmd[s].to \in Id /\ Target(s) \in Ckpt
           /\ Target(s).bind \in Binding /\ Target(s).dropped \in SUBSET Owned
           /\ Target(s).src \in Content
           /\ Target(s).dump \in [Deposit -> Rev0]
<1>1. cmd[s].to \in Id /\ Target(s) \in Ckpt
  BY DEF TypeOK, Numbered, Ids, Target
<1> QED
  BY <1>1 DEF Ckpt

LEMMA UndoMoves ==
    ASSUME LifeInv, NEW s \in Slug, UndoNext(s) PROVE Moves(s)
<1>0. TypeOK /\ Phase(cmd[s]) /\ Numbered(s) /\ cmd[s] \in Memory
  BY DEF LifeInv, TypeOK
<1> USE SnapshotsAssumption
<1>1. ASSUME NEW i \in Id, NEW only \in SUBSET Deposit, BeginUndo(s, i, only)
      PROVE  Moves(s)
  <2> DEFINE b == [files |-> files[s], src |-> src[s], db |-> db[s]]
             c == [Loaded(s, "undo", "source")
                     EXCEPT !.id = NextId(s), !.to = i, !.only = only, !.before = b]
  <2>1. cmd[s] = NoCmd /\ MayRun("undo") /\ Live(s) /\ NextId(s) \in Id /\ Go(s, c)
        /\ rec[s] # NoRecord /\ i \in Ids(s)
    BY <1>1 DEF BeginUndo, Begin, Live
  <2>2. b \in [files : [Owned -> Content], src : Content, db : [Deposit -> Content]]
    BY <1>0 DEF TypeOK
  <2> HIDE DEF b
  <2>3. c \in Memory /\ c.op = "undo" /\ c.step = "source" /\ c.id = NextId(s) /\ c.to = i
    <3>1. "undo" \in Ops /\ "source" \in Steps /\ NextId(s) \in 0 .. MaxId /\ i \in Nat
      BY <2>1 DEF Ops, Steps, Id
    <3>2. Loaded(s, "undo", "source") \in Memory
          /\ Loaded(s, "undo", "source").op = "undo"
          /\ Loaded(s, "undo", "source").step = "source"
      BY <1>0, <2>1, <3>1, Loading
    <3> QED
      BY <2>2, <3>1, <3>2 DEF Memory
  <2> HIDE DEF c
  <2>4. UNCHANGED <<instVars, ckptVars, laneVars, head, gc, cut, bounds>>
    BY <1>1 DEF BeginUndo
  <2>5. TypeOK'
    BY <1>0, <2>1, <2>3, <2>4, Going DEF TypeOK, instVars, ckptVars, laneVars, bounds
  <2>6. cmd'[s] = c /\ \A r \in Slug \ {s} : cmd'[r] = cmd[r]
    BY <1>0, <2>1, <2>3, Going
  <2>7. Live(s)' /\ Ids(s)' = Ids(s) /\ rec'[s] # NoRecord
    BY <2>1, <2>4 DEF Live, Ids, instVars, ckptVars
  <2>8. Phase(c) /\ Numbered(s)'
    BY <2>1, <2>3, <2>6, <2>7, NextIdFresh DEF Phase, Numbered, Captures
  <2> QED
    BY <2>1, <2>3, <2>4, <2>5, <2>6, <2>7, <2>8 DEF Moves, instVars, ckptVars
<1>2. CASE UndoFetch(s)
  <2>1. cmd[s].step = "fetch" /\ UNCHANGED <<instVars, ckptVars, laneVars, head, gc, cut, bounds>>
    BY <1>2 DEF UndoFetch
  <2> DEFINE c == [cmd[s] EXCEPT !.step = "rebind"]
  <2>2. c \in Memory /\ c.op = cmd[s].op /\ c.id = cmd[s].id /\ c.to = cmd[s].to
        /\ c.step = "rebind"
    BY <1>0 DEF Memory, Steps
  <2>3. Go(s, NoCmd) \/ Go(s, c)
    BY <1>2 DEF UndoFetch, Done
  <2> HIDE DEF c
  <2>4. Phase(c)
    BY <1>0, <2>1, <2>2, NoCmdType DEF Phase, Memory, Ops
  <2> QED
    BY <1>0, <2>1, <2>2, <2>3, <2>4, NoCmdType, StepsOn DEF instVars, laneVars, TypeOK
<1>3. CASE UndoRebind(s)
  <2>1. cmd[s].step = "rebind" /\ UNCHANGED <<dir, src, db, ckptVars, laneVars, head, gc, cut, bounds>>
    BY <1>3 DEF UndoRebind
  <2>2. cmd[s].op = "undo"
    BY <1>0, <2>1, NoCmdType DEF Phase, Memory, Ops
  <2>3. rec[s] \in Record /\ Target(s).dropped \in SUBSET Owned /\ rec[s] # NoRecord
    BY <1>0, <2>2, TargetThere, Recorded DEF Numbered
  <2> DEFINE c == [cmd[s] EXCEPT !.step = "worktree", !.dropped = Target(s).dropped]
             k == [rec[s] EXCEPT !.dropped = Target(s).dropped]
  <2>4. c \in Memory /\ c.op = cmd[s].op /\ c.id = cmd[s].id /\ c.to = cmd[s].to
        /\ c.step = "worktree"
    BY <1>0, <2>3 DEF Memory, Steps
  <2>5. k \in Record /\ k # NoRecord
    BY <2>3 DEF Record, NoRecord
  <2>6. Go(s, c) /\ rec' = [rec EXCEPT ![s] = k]
    BY <1>0, <1>3 DEF UndoRebind, TypeOK
  <2> HIDE DEF c, k
  <2>7. Phase(c)
    BY <2>2, <2>4 DEF Phase
  <2>8. /\ rec' \in [Slug -> Record \cup {NoRecord}] /\ rec'[s] # NoRecord
        /\ \A r \in Slug \ {s} : rec'[r] = rec[r]
    BY <1>0, <2>5, <2>6 DEF TypeOK
  <2>9. files' \in [Slug -> [Owned -> Content]]
    <3> DEFINE f == [t \in Owned |-> IF t \in Target(s).dropped \ cmd[s].dropped
                                     THEN Empty ELSE files[s][t]]
    <3>1. f \in [Owned -> Content]
      BY <1>0 DEF TypeOK
    <3>2. files' = [files EXCEPT ![s] = f]
      BY <1>3, <1>0 DEF UndoRebind, TypeOK
    <3> HIDE DEF f
    <3> QED
      BY <1>0, <3>1, <3>2 DEF TypeOK
  <2>10. TypeOK'
    BY <1>0, <2>1, <2>4, <2>6, <2>8, <2>9, Going DEF TypeOK, ckptVars, laneVars, bounds
  <2>11. Ids(s)' = Ids(s)
    BY <2>1 DEF Ids, ckptVars
  <2> QED
    BY <2>1, <2>3, <2>4, <2>6, <2>7, <2>8, <2>10, <2>11, MovesSaving DEF ckptVars
<1>4. CASE UndoSource(s)
  <2>1. cmd[s].step = "worktree"
        /\ UNCHANGED <<rec, dir, files, db, ckptVars, laneVars, head, gc, cut, bounds>>
        /\ src' = [src EXCEPT ![s] = Target(s).src]
    BY <1>4 DEF UndoSource
  <2>2. cmd[s].op = "undo"
    BY <1>0, <2>1, NoCmdType DEF Phase, Memory, Ops
  <2>3. src' \in [Slug -> Content]
    BY <1>0, <2>1, <2>2, TargetThere DEF TypeOK
  <2> DEFINE c == [cmd[s] EXCEPT !.step = "restore", !.todo = Tracker \ cmd[s].dropped]
  <2>4. c \in Memory /\ c.op = cmd[s].op /\ c.id = cmd[s].id /\ c.to = cmd[s].to
        /\ c.step = "restore" /\ Go(s, c)
    BY <1>0, <1>4 DEF Memory, Steps, UndoSource
  <2> HIDE DEF c
  <2>5. Phase(c)
    BY <2>2, <2>4 DEF Phase
  <2> QED
    BY <1>0, <2>1, <2>3, <2>4, <2>5, StepsOn DEF laneVars, TypeOK
<1>5. ASSUME NEW t \in Tracker, UndoTracker(s, t) PROVE Moves(s)
  <2> DEFINE r == Target(s).bind[t]
             f == [u \in Owned |-> CASE u # t -> files[s][u]
                                     [] u = t /\ r = 0 -> Empty
                                     [] u = t /\ r # 0 -> tree[r]]
             c == [cmd[s] EXCEPT !.todo = @ \ {t}, !.bind[t] = r]
  <2>1. cmd[s].step = "restore" /\ cmd[s].op = "undo"
        /\ UNCHANGED <<rec, dir, src, db, ckptVars, laneVars, head, gc, cut, bounds>>
    BY <1>5 DEF UndoTracker
  <2>2. r \in Rev0
    BY <1>0, <2>1, TargetThere DEF Binding
  <2>3. (files' = [files EXCEPT ![s] = f] /\ Go(s, c)) \/ (files' = files /\ Go(s, NoCmd))
    BY <1>0, <1>5 DEF UndoTracker, Done, TypeOK
  <2> HIDE DEF r
  <2>4. f \in [Owned -> Content]
    <3> SUFFICES ASSUME NEW u \in Owned PROVE f[u] \in Content
      OBVIOUS
    <3>1. CASE u # t
      BY <1>0, <3>1 DEF TypeOK
    <3>2. CASE u = t /\ r = 0
      BY <3>2
    <3>3. CASE u = t /\ r # 0
      <4>1. r \in Rev
        BY <2>2, <3>3 DEF Rev, Rev0
      <4> QED
        BY <1>0, <3>3, <4>1 DEF TypeOK
    <3> QED
      BY <3>1, <3>2, <3>3
  <2>5. c \in Memory /\ c.op = cmd[s].op /\ c.id = cmd[s].id /\ c.to = cmd[s].to
        /\ c.step = "restore"
    BY <1>0, <2>1, <2>2 DEF Memory, Binding
  <2> HIDE DEF c, f
  <2>6. Phase(c)
    BY <2>1, <2>5 DEF Phase
  <2>7. files' \in [Slug -> [Owned -> Content]]
    BY <1>0, <2>3, <2>4 DEF TypeOK
  <2> QED
    BY <1>0, <2>1, <2>3, <2>5, <2>6, <2>7, NoCmdType, StepsOn DEF laneVars, TypeOK
<1>6. CASE UndoTrackersDone(s)
  <2> DEFINE c == [cmd[s] EXCEPT !.step = "resources", !.todo = Restored(s)]
  <2>1. cmd[s].op = "undo" /\ cmd[s].step = "restore" /\ Go(s, c)
        /\ UNCHANGED <<instVars, ckptVars, laneVars, head, gc, cut, bounds>>
    BY <1>6 DEF UndoTrackersDone
  <2>2. Restored(s) \in SUBSET Tracker
    BY DEF Restored, Tracker
  <2>3. c \in Memory /\ c.op = cmd[s].op /\ c.id = cmd[s].id /\ c.to = cmd[s].to
        /\ c.step = "resources"
    BY <1>0, <2>2 DEF Memory, Steps
  <2> HIDE DEF c
  <2>4. Phase(c)
    BY <2>1, <2>3 DEF Phase
  <2> QED
    BY <1>0, <2>1, <2>3, <2>4, StepsOn DEF instVars, laneVars, TypeOK
<1>7. ASSUME NEW t \in Deposit, UndoResource(s, t) PROVE Moves(s)
  <2> DEFINE r == Target(s).dump[t]
             c == [cmd[s] EXCEPT !.todo = @ \ {t}, !.status[t] = "ready"]
             d == [cmd[s] EXCEPT !.todo = @ \ {t}, !.status[t] = "failed", !.failed = TRUE]
  <2>1. cmd[s].step = "resources"
        /\ UNCHANGED <<rec, dir, files, src, ckptVars, laneVars, head, gc, cut, bounds>>
    BY <1>7 DEF UndoResource
  <2>2. cmd[s].op = "undo"
    BY <1>0, <2>1, NoCmdType DEF Phase, Memory, Ops
  <2>3. \/ Pinned(t, r) /\ db' = [db EXCEPT ![s][t] = tree[r]] /\ Go(s, c)
        \/ (\E x \in Content : db' = [db EXCEPT ![s][t] = x]) /\ Go(s, d)
        \/ db' = db /\ Go(s, NoCmd)
    BY <1>7 DEF UndoResource, Done
  <2> HIDE DEF r
  <2>4. Pinned(t, r) => tree[r] \in Content
    BY <1>0 DEF Pinned, TypeOK
  <2>5. db' \in [Slug -> [Deposit -> Content]]
    <3>1. \A x \in Content : [db EXCEPT ![s][t] = x] \in [Slug -> [Deposit -> Content]]
      BY <1>0 DEF TypeOK
    <3>2. db' = db \/ \E x \in Content : db' = [db EXCEPT ![s][t] = x]
      BY <2>3, <2>4
    <3>3. db \in [Slug -> [Deposit -> Content]]
      BY <1>0 DEF TypeOK
    <3> QED
      BY <3>1, <3>2, <3>3
  <2>6. /\ c \in Memory /\ c.op = cmd[s].op /\ c.id = cmd[s].id /\ c.to = cmd[s].to
        /\ c.step = "resources"
    BY <1>0, <2>1 DEF Memory, Status
  <2>7. /\ d \in Memory /\ d.op = cmd[s].op /\ d.id = cmd[s].id /\ d.to = cmd[s].to
        /\ d.step = "resources"
    BY <1>0, <2>1 DEF Memory, Status
  <2> HIDE DEF c, d
  <2>8. Phase(c) /\ Phase(d)
    BY <2>2, <2>6, <2>7 DEF Phase
  <2> QED
    BY <1>0, <2>1, <2>3, <2>5, <2>6, <2>7, <2>8, NoCmdType, StepsOn DEF laneVars, TypeOK
<1>8. CASE UndoResourcesDone(s)
  <2> DEFINE c == [cmd[s] EXCEPT !.step = "save"]
  <2>1. cmd[s].step = "resources" /\ Go(s, c)
        /\ UNCHANGED <<instVars, ckptVars, laneVars, head, gc, cut, bounds>>
    BY <1>8 DEF UndoResourcesDone
  <2>2. cmd[s].op = "undo"
    BY <1>0, <2>1, NoCmdType DEF Phase, Memory, Ops
  <2>3. c \in Memory /\ c.op = cmd[s].op /\ c.id = cmd[s].id /\ c.to = cmd[s].to
        /\ c.step = "save"
    BY <1>0 DEF Memory, Steps
  <2> HIDE DEF c
  <2>4. Phase(c)
    BY <2>2, <2>3 DEF Phase
  <2> QED
    BY <1>0, <2>1, <2>3, <2>4, StepsOn DEF instVars, laneVars, TypeOK
<1>9. CASE SaveLast(s)
  <2> DEFINE c == [cmd[s] EXCEPT !.step = "stamp"]
  <2>1. cmd[s].step = "save" /\ SaveMemory(s)
        /\ UNCHANGED <<dir, files, src, db, ckptVars, laneVars, head, gc, cut, bounds>>
    BY <1>9 DEF SaveLast
  <2>2. rec[s] # NoRecord
    BY <1>0, <2>1, NoCmdType DEF Phase, Numbered, Memory, Ops
  <2>3. (cmd[s].op = "undo" /\ Go(s, c)) \/ Go(s, NoCmd)
    BY <1>9 DEF SaveLast, Done
  <2>4. c \in Memory /\ c.op = cmd[s].op /\ c.id = cmd[s].id /\ c.to = cmd[s].to
        /\ c.step = "stamp"
    BY <1>0 DEF Memory, Steps
  <2> HIDE DEF c
  <2>5. cmd[s].op = "undo" => Phase(c)
    BY <2>4 DEF Phase
  <2>6. /\ rec' \in [Slug -> Record \cup {NoRecord}] /\ rec'[s] # NoRecord
        /\ \A r \in Slug \ {s} : rec'[r] = rec[r]
    BY <1>0, <2>1, Saving
  <2>7. TypeOK'
    BY <1>0, <2>1, <2>3, <2>4, <2>6, NoCmdType, Going DEF TypeOK, ckptVars, laneVars, bounds
  <2>8. Ids(s)' = Ids(s)
    BY <2>1 DEF Ids, ckptVars
  <2> QED
    BY <2>1, <2>2, <2>3, <2>4, <2>5, <2>6, <2>7, <2>8, NoCmdType, MovesSaving DEF ckptVars
<1>10. CASE UndoStamp(s)
  <2> DEFINE v == IF cmd[s].failed THEN "no" ELSE "yes"
             k == [log[s][cmd[s].id] EXCEPT !.done = v]
  <2>1. cmd[s].step = "stamp" /\ Go(s, NoCmd)
        /\ UNCHANGED <<instVars, tip, laneVars, head, gc, cut, bounds>>
    BY <1>10 DEF UndoStamp, Done
  <2>2. cmd[s].op = "undo"
    BY <1>0, <2>1, NoCmdType DEF Phase, Memory, Ops
  <2>3. cmd[s].id \in Ids(s) /\ cmd[s].id \in Id /\ rec[s] # NoRecord
    BY <1>0, <2>1, <2>2 DEF Numbered, Captures
  <2>4. log[s][cmd[s].id] \in Ckpt
    BY <1>0, <2>3 DEF TypeOK, Ids
  <2>5. log' = [log EXCEPT ![s][cmd[s].id] = k]
    BY <1>0, <1>10, <2>3 DEF UndoStamp, TypeOK
  <2>6. k \in Ckpt /\ k # NoCkpt
    <3>1. v \in {"unset", "yes", "no"}
      OBVIOUS
    <3> HIDE DEF v
    <3>2. k \in Ckpt
      BY <2>4, <3>1 DEF Ckpt
    <3> HIDE DEF k
    <3>3. k # NoCkpt
      BY <3>2 DEF Ckpt, NoCkpt
    <3> QED
      BY <3>2, <3>3
  <2> HIDE DEF k
  <2>7. log' \in [Slug -> [Id -> Ckpt \cup {NoCkpt}]]
        /\ (\A r \in Slug \ {s} : log'[r] = log[r])
        /\ \A i \in Id : log'[s][i] = IF i = cmd[s].id THEN k ELSE log[s][i]
    BY <1>0, <2>3, <2>5, <2>6 DEF TypeOK
  <2>8. Ids(s)' = Ids(s)
    BY <2>3, <2>6, <2>7 DEF Ids
  <2>9. TypeOK'
    BY <1>0, <2>1, <2>7, NoCmdType, Going DEF TypeOK, instVars, laneVars, bounds
  <2> QED
    BY <2>1, <2>3, <2>7, <2>8, <2>9, NoCmdType, MovesSaving DEF instVars
<1> QED
  BY <1>1, <1>2, <1>3, <1>4, <1>5, <1>6, <1>7, <1>8, <1>9, <1>10 DEF UndoNext

\* The commands on one tracker.
TrackerOps == {"capture", "checkout", "pull", "drop", "use"}

LEMMA TrackerBegins ==
    ASSUME LifeInv, NEW s \in Slug, NEW op \in TrackerOps, NEW c \in Memory,
           BeginTracker(s, op, c), c.op = op, Phase(c),
           op \in {"checkout", "pull", "use"} => c.to \in Rev0
    PROVE  Moves(s)
<1>1. TypeOK /\ cmd[s] = NoCmd /\ MayRun(op) /\ Live(s) /\ Go(s, c) /\ rec[s] # NoRecord
      /\ UNCHANGED <<instVars, ckptVars, laneVars, head, gc, cut, bounds>>
  BY DEF LifeInv, BeginTracker, Begin, Live
<1>2. TypeOK'
  BY <1>1, Going DEF TypeOK, instVars, ckptVars, laneVars, bounds
<1>3. cmd'[s] = c /\ \A r \in Slug \ {s} : cmd'[r] = cmd[r]
  BY <1>1, Going
<1>4. Live(s)' /\ rec'[s] # NoRecord
  BY <1>1 DEF Live, instVars
<1>5. Numbered(s)'
  BY <1>3, <1>4 DEF Numbered, Captures, TrackerOps
<1> QED
  BY <1>1, <1>2, <1>3, <1>4, <1>5 DEF Moves, instVars, ckptVars

LEMMA TrackerMoves ==
    ASSUME LifeInv, NEW s \in Slug, TrackerNext(s) PROVE Moves(s)
<1>0. TypeOK /\ Phase(cmd[s]) /\ Numbered(s) /\ cmd[s] \in Memory
  BY DEF LifeInv, TypeOK
<1> USE SnapshotsAssumption
<1> SUFFICES ASSUME NEW t \in Owned,
                    \/ BeginCapture(s, t) \/ BeginPull(s, t)
                    \/ BeginDrop(s, t) \/ BeginUse(s, t)
                    \/ \E r \in Rev : BeginCheckout(s, t, r)
                    \/ TrackerCapture(s, t) \/ RestoreRev(s, t) \/ DropClear(s, t)
             PROVE  Moves(s)
  BY DEF TrackerNext
<1> t \in Tracker
  BY DEF Tracker
<1>1. CASE BeginCapture(s, t)
  <2> DEFINE c == [Loaded(s, "capture", "capture") EXCEPT !.todo = {t}]
  <2>0. rec[s] # NoRecord /\ BeginTracker(s, "capture", c)
    BY <1>1 DEF BeginCapture, BeginTracker, Live
  <2>a. "capture" \in Ops /\ "capture" \in Steps
    BY DEF Ops, Steps
  <2>1. Loaded(s, "capture", "capture") \in Memory
        /\ Loaded(s, "capture", "capture").op = "capture"
        /\ Loaded(s, "capture", "capture").step = "capture"
    BY <1>0, <2>0, <2>a, Loading
  <2>2. c \in Memory /\ c.op = "capture" /\ c.step = "capture"
    BY <2>1 DEF Memory
  <2> HIDE DEF c
  <2>3. Phase(c)
    BY <2>2 DEF Phase
  <2> QED
    BY <2>0, <2>2, <2>3, TrackerBegins DEF TrackerOps
<1>2. CASE BeginPull(s, t)
  <2> DEFINE f == CaptureFirst(s, t)
             c == [Loaded(s, "pull", f) EXCEPT !.todo = {t}]
  <2>1. f \in Steps /\ f \in {"capture", "restore"}
    BY DEF CaptureFirst, Steps
  <2>2. rec[s] # NoRecord /\ BeginTracker(s, "pull", c)
    BY <1>2 DEF BeginPull, BeginTracker, Live
  <2> HIDE DEF f
  <2>3. Loaded(s, "pull", f) \in Memory /\ Loaded(s, "pull", f).op = "pull"
        /\ Loaded(s, "pull", f).step = f /\ Loaded(s, "pull", f).to = 0
    BY <1>0, <2>1, <2>2, Loading DEF Ops
  <2>4. c \in Memory /\ c.op = "pull" /\ c.step = f /\ c.to = 0
    BY <2>3 DEF Memory
  <2> HIDE DEF c
  <2>5. Phase(c)
    BY <2>1, <2>4 DEF Phase
  <2> QED
    BY <2>2, <2>4, <2>5, TrackerBegins DEF TrackerOps, Rev0
<1>3. CASE BeginDrop(s, t)
  <2> DEFINE c == [Loaded(s, "drop", "capture") EXCEPT !.todo = {t}]
  <2>1. rec[s] # NoRecord /\ BeginTracker(s, "drop", c)
    BY <1>3 DEF BeginDrop
  <2>a. "drop" \in Ops /\ "capture" \in Steps
    BY DEF Ops, Steps
  <2>2. Loaded(s, "drop", "capture") \in Memory
        /\ Loaded(s, "drop", "capture").op = "drop"
        /\ Loaded(s, "drop", "capture").step = "capture"
    BY <1>0, <2>1, <2>a, Loading
  <2>3. c \in Memory /\ c.op = "drop" /\ c.step = "capture"
    BY <2>2 DEF Memory
  <2> HIDE DEF c
  <2>4. Phase(c)
    BY <2>3 DEF Phase
  <2> QED
    BY <2>1, <2>3, <2>4, TrackerBegins DEF TrackerOps
<1>4. CASE BeginUse(s, t)
  <2> DEFINE f == IF rec[s].bind[t] # 0 THEN "restore" ELSE CaptureFirst(s, t)
             d == Loaded(s, "use", f)
             c == [d EXCEPT !.todo = {t}, !.to = rec[s].bind[t], !.dropped = @ \ {t}]
  <2>1. f \in Steps /\ f \in {"capture", "restore"}
    BY DEF CaptureFirst, Steps
  <2>2. rec[s] # NoRecord /\ BeginTracker(s, "use", c)
    BY <1>4 DEF BeginUse
  <2> HIDE DEF f
  <2>3. d \in Memory /\ d.op = "use" /\ d.step = f
    BY <1>0, <2>1, <2>2, Loading DEF Ops
  <2>4. rec[s].bind[t] \in Rev0 /\ rec[s].bind[t] \in Nat
    BY <1>0, <2>2, Recorded DEF Binding, Rev0
  <2> HIDE DEF d
  <2>5. c \in Memory /\ c.op = "use" /\ c.step = f /\ c.to = rec[s].bind[t]
    BY <2>3, <2>4 DEF Memory
  <2> HIDE DEF c
  <2>6. Phase(c)
    BY <2>1, <2>5 DEF Phase
  <2> QED
    BY <2>2, <2>4, <2>5, <2>6, TrackerBegins DEF TrackerOps
<1>5. ASSUME NEW r \in Rev, BeginCheckout(s, t, r) PROVE Moves(s)
  <2> DEFINE d == Loaded(s, "checkout", "capture")
             c == [d EXCEPT !.todo = {t}, !.to = r]
  <2>1. BeginTracker(s, "checkout", c)
    BY <1>5, Zenon DEF BeginCheckout
  <2> HIDE DEF c
  <2>6. rec[s] # NoRecord
    BY <2>1 DEF BeginTracker, Live
  <2>a. "checkout" \in Ops /\ "capture" \in Steps
    BY DEF Ops, Steps
  <2>2. d \in Memory /\ d.op = "checkout" /\ d.step = "capture"
    BY <1>0, <2>6, <2>a, Loading
  <2>3. r \in Rev0 /\ r \in Nat
    BY DEF Rev, Rev0
  <2> HIDE DEF d
  <2>4. c \in Memory /\ c.op = "checkout" /\ c.step = "capture" /\ c.to = r
    BY <2>2, <2>3 DEF Memory, c
  <2>5. Phase(c)
    BY <2>4 DEF Phase
  <2> QED
    BY <2>1, <2>3, <2>4, <2>5, TrackerBegins DEF TrackerOps
<1>6. CASE TrackerCapture(s, t)
  <2> DEFINE r == CommitRev(files[s][t], cmd[s].bind[t])
             c == [cmd[s] EXCEPT !.step = "record", !.bind[t] = r]
             d == [cmd[s] EXCEPT !.step = "restore"]
  <2>1. UNCHANGED <<instVars, ckptVars, main, head, gc, cut, bounds>>
        /\ cmd[s].step = "capture" /\ cmd[s].op \in TrackerOps
    BY <1>6 DEF TrackerCapture, TrackerOps
  <2>2. CASE Commit(t, files[s][t], r)
    <3>1. files[s][t] \in Content /\ cmd[s].bind[t] \in Rev0
      BY <1>0 DEF TypeOK, Memory, Binding
    <3>2. r \in Rev /\ tree' \in [Rev -> Content] /\ lastRev' \in Rev0
          /\ pins' \subseteq Tracker \X Rev
      BY <1>0, <2>2, <3>1, Committing
    <3>3. r \in Rev0
      BY <3>2 DEF Rev, Rev0
    <3>4. \/ cmd[s].op \in {"capture", "drop"} /\ Go(s, c)
          \/ cmd[s].op \notin {"capture", "drop"} /\ Go(s, d)
          \/ Go(s, NoCmd)
      BY <1>6 DEF TrackerCapture, Done
    <3> HIDE DEF r
    <3>5. /\ c \in Memory /\ c.op = cmd[s].op /\ c.id = cmd[s].id /\ c.to = cmd[s].to
          /\ c.step = "record"
      BY <1>0, <3>3 DEF Memory, Binding, Steps
    <3>6. /\ d \in Memory /\ d.op = cmd[s].op /\ d.id = cmd[s].id /\ d.to = cmd[s].to
          /\ d.step = "restore"
      BY <1>0 DEF Memory, Steps
    <3> HIDE DEF c, d
    <3>7. /\ cmd[s].op \in {"capture", "drop"} => Phase(c)
          /\ cmd[s].op \notin {"capture", "drop"} => Phase(d)
      BY <2>1, <3>5, <3>6 DEF Phase, TrackerOps
    <3>8. ASSUME NEW e \in Memory, Go(s, e), Phase(e),
                 \/ e = NoCmd
                 \/ e.op = cmd[s].op /\ e.id = cmd[s].id /\ e.to = cmd[s].to
          PROVE  Moves(s)
      <4>1. TypeOK'
        BY <1>0, <2>1, <3>2, <3>8, Going DEF TypeOK, instVars, ckptVars, bounds
      <4>2. cmd'[s] = e /\ \A q \in Slug \ {s} : cmd'[q] = cmd[q]
        BY <1>0, <3>8, Going
      <4>3. rec'[s] = rec[s] /\ (Live(s)' <=> Live(s))
        BY <2>1 DEF Live, instVars
      <4>4. Numbered(s)'
        BY <1>0, <2>1, <3>8, <4>2, <4>3, NoCmdType DEF Numbered, Captures, TrackerOps
      <4> QED
        BY <2>1, <3>8, <4>1, <4>2, <4>3, <4>4, NoCmdType DEF Moves, instVars, ckptVars
    <3> QED
      BY <3>4, <3>5, <3>6, <3>7, <3>8, NoCmdType
  <2>3. CASE Go(s, NoCmd) /\ UNCHANGED <<pins, tree, lastRev>>
    BY <1>0, <2>1, <2>3, NoCmdType, StepsOn DEF instVars, TypeOK
  <2> QED
    BY <1>6, <2>2, <2>3 DEF TrackerCapture, Done
<1>7. CASE RestoreRev(s, t)
  <2> DEFINE r == IF cmd[s].to # 0 THEN cmd[s].to ELSE main[t]
             v == IF r = 0 THEN files[s][t] ELSE tree[r]
             c == [cmd[s] EXCEPT !.step = "save", !.bind[t] = r]
  <2>1. UNCHANGED <<rec, dir, src, db, ckptVars, laneVars, head, gc, cut, bounds>>
        /\ cmd[s].op \in {"checkout", "pull", "use"} /\ cmd[s].step = "restore"
    BY <1>7 DEF RestoreRev
  <2>2. r \in Rev0
    BY <1>0, <2>1 DEF TypeOK, Numbered
  <2>3. (files' = [files EXCEPT ![s][t] = v] /\ Go(s, c)) \/ (files' = files /\ Go(s, NoCmd))
    BY <1>0, <1>7 DEF RestoreRev, Done, TypeOK
  <2> HIDE DEF r
  <2>4. v \in Content
    <3>1. r # 0 => r \in Rev
      BY <2>2 DEF Rev, Rev0
    <3> QED
      BY <1>0, <3>1 DEF TypeOK
  <2>5. c \in Memory /\ c.op = cmd[s].op /\ c.id = cmd[s].id /\ c.to = cmd[s].to
        /\ c.step = "save"
    BY <1>0, <2>1, <2>2 DEF Memory, Binding, Steps
  <2> HIDE DEF c, v
  <2>6. Phase(c)
    BY <2>1, <2>5 DEF Phase
  <2>7. files' \in [Slug -> [Owned -> Content]]
    <3>1. files \in [Slug -> [Owned -> Content]]
      BY <1>0 DEF TypeOK
    <3>2. [files EXCEPT ![s][t] = v] \in [Slug -> [Owned -> Content]]
      BY <2>4, <3>1
    <3> QED
      BY <2>3, <3>1, <3>2
  <2> QED
    BY <1>0, <2>1, <2>3, <2>5, <2>6, <2>7, NoCmdType, StepsOn DEF laneVars, TypeOK
<1>8. CASE DropClear(s, t)
  <2> DEFINE c == [cmd[s] EXCEPT !.step = "save", !.dropped = @ \cup {t}]
  <2>1. UNCHANGED <<rec, dir, src, db, ckptVars, laneVars, head, gc, cut, bounds>>
        /\ cmd[s].step = "clear" /\ Go(s, c) /\ files' = [files EXCEPT ![s][t] = Empty]
    BY <1>8 DEF DropClear
  <2>2. cmd[s].op = "drop"
    BY <1>0, <2>1, NoCmdType DEF Phase, Memory, Ops
  <2>3. c \in Memory /\ c.op = cmd[s].op /\ c.id = cmd[s].id /\ c.to = cmd[s].to
        /\ c.step = "save"
    BY <1>0 DEF Memory, Steps
  <2> HIDE DEF c
  <2>4. Phase(c)
    BY <2>2, <2>3 DEF Phase
  <2>5. files' \in [Slug -> [Owned -> Content]]
    BY <1>0, <2>1 DEF TypeOK
  <2> QED
    BY <1>0, <2>1, <2>3, <2>4, <2>5, StepsOn DEF laneVars, TypeOK
<1> QED
  BY <1>1, <1>2, <1>3, <1>4, <1>5, <1>6, <1>7, <1>8

\* A workspace taken down.
LEMMA Gone ==
    ASSUME TypeOK, NEW s \in Slug, WorkspaceGone(s)
    PROVE  /\ dir' \in [Slug -> BOOLEAN] /\ files' \in [Slug -> [Owned -> Content]]
           /\ src' \in [Slug -> Content]
           /\ ~ dir'[s] /\ \A r \in Slug \ {s} : dir'[r] = dir[r]
<1>1. NoFiles \in [Owned -> Content] /\ Empty \in Content
  BY SnapshotsAssumption DEF NoFiles
<1> QED
  BY <1>1 DEF WorkspaceGone, TypeOK

\* `purge_checkpoints`, either half of it.
LEMMA Purging ==
    ASSUME TypeOK, NEW s \in Slug, PurgeTips(s) \/ PurgeLog(s)
    PROVE  /\ log' \in [Slug -> [Id -> Ckpt \cup {NoCkpt}]]
           /\ tip' \in [Slug -> [Id -> Content \cup {NoTip}]] /\ cut' \subseteq Slug
           /\ \A r \in Slug \ {s} : log'[r] = log[r]
<1>1. log \in [Slug -> [Id -> Ckpt \cup {NoCkpt}]] /\ cut \subseteq Slug
      /\ tip \in [Slug -> [Id -> Content \cup {NoTip}]]
  BY DEF TypeOK
<1>2. CASE PurgeTips(s)
  <2> DEFINE f == [i \in Id |-> NoTip]
  <2>1. f \in [Id -> Content \cup {NoTip}]
    OBVIOUS
  <2>2. tip' = [tip EXCEPT ![s] = f] /\ log' = log /\ cut' = cut \cup {s}
    BY <1>2 DEF PurgeTips
  <2> HIDE DEF f
  <2> QED
    BY <1>1, <2>1, <2>2
<1>3. CASE PurgeLog(s)
  <2> DEFINE f == [i \in Id |-> NoCkpt]
  <2>1. f \in [Id -> Ckpt \cup {NoCkpt}]
    OBVIOUS
  <2>2. log' = [log EXCEPT ![s] = f] /\ tip' = tip /\ cut' = cut \ {s}
    BY <1>3 DEF PurgeLog
  <2> HIDE DEF f
  <2> QED
    BY <1>1, <2>1, <2>2
<1> QED
  BY <1>2, <1>3

LEMMA LifeMoves ==
    ASSUME LifeInv, NEW s \in Slug, LifeNext(s) PROVE Moves(s)
<1>0. TypeOK /\ Phase(cmd[s]) /\ Numbered(s) /\ cmd[s] \in Memory
  BY DEF LifeInv, TypeOK
<1>01. NoData \in [Deposit -> Content]
  BY SnapshotsAssumption DEF NoData
<1> USE SnapshotsAssumption
<1>1. ASSUME NEW d \in SUBSET Owned, BeginSpawn(s, d) PROVE Moves(s)
  <2> DEFINE c == [NoCmd EXCEPT !.op = "spawn", !.step = "bind", !.dropped = d]
  <2>1. cmd[s] = NoCmd /\ MayRun("spawn") /\ rec[s] = NoRecord /\ Go(s, c)
        /\ dir' = [dir EXCEPT ![s] = TRUE]
        /\ UNCHANGED <<rec, files, src, db, ckptVars, laneVars, head, gc, cut, bounds>>
    BY <1>1 DEF BeginSpawn, Begin
  <2>2. c \in Memory /\ c.op = "spawn" /\ c.step = "bind"
    BY NoCmdType DEF Memory, Ops, Steps
  <2> HIDE DEF c
  <2>3. TypeOK'
    BY <1>0, <2>1, <2>2, Going DEF TypeOK, ckptVars, laneVars, bounds
  <2>4. /\ cmd'[s] = c
        /\ \A r \in Slug \ {s} : cmd'[r] = cmd[r] /\ dir'[r] = dir[r]
    BY <1>0, <2>1, <2>2, Going DEF TypeOK
  <2>5. Phase(c) /\ Numbered(s)' /\ ~ Live(s)'
    BY <2>1, <2>2, <2>4 DEF Phase, Numbered, Captures, Live
  <2> QED
    BY <2>1, <2>2, <2>3, <2>4, <2>5 DEF Moves, ckptVars
<1>2. CASE SpawnBind(s)
  <2> DEFINE bound == Tracker \ cmd[s].dropped
             f == [t \in Owned |-> IF t \in bound /\ main[t] # 0
                                   THEN tree[main[t]] ELSE Empty]
             b == [t \in Tracker |-> IF t \in bound THEN main[t] ELSE 0]
             c == [cmd[s] EXCEPT !.step = "create", !.bind = b]
  <2>1. cmd[s].step = "bind"
        /\ UNCHANGED <<rec, dir, src, db, ckptVars, laneVars, head, gc, cut, bounds>>
    BY <1>2 DEF SpawnBind
  <2>2. (files' = [files EXCEPT ![s] = f] /\ Go(s, c)) \/ (files' = files /\ Go(s, NoCmd))
    BY <1>2 DEF SpawnBind, Done
  <2>3. cmd[s].op = "spawn"
    BY <1>0, <2>1, NoCmdType DEF Phase, Memory, Ops
  <2>4. f \in [Owned -> Content]
    <3> SUFFICES ASSUME NEW t \in Owned PROVE f[t] \in Content
      OBVIOUS
    <3>1. main[t] # 0 => main[t] \in Rev
      BY <1>0 DEF TypeOK, Tracker, Rev, Rev0
    <3> QED
      BY <1>0, <3>1 DEF TypeOK
  <2>5. b \in Binding
    BY <1>0 DEF TypeOK, Binding, Rev0
  <2> HIDE DEF b, f
  <2>6. c \in Memory /\ c.op = cmd[s].op /\ c.id = cmd[s].id /\ c.to = cmd[s].to
        /\ c.step = "create"
    BY <1>0, <2>5 DEF Memory, Steps
  <2> HIDE DEF c
  <2>7. Phase(c)
    BY <2>3, <2>6 DEF Phase
  <2>8. files' \in [Slug -> [Owned -> Content]]
    BY <1>0, <2>2, <2>4 DEF TypeOK
  <2> QED
    BY <1>0, <2>1, <2>2, <2>6, <2>7, <2>8, NoCmdType, StepsOn DEF laneVars, TypeOK
<1>3. CASE SpawnCreate(s)
  <2> DEFINE k(st) == [bind |-> cmd[s].bind, dropped |-> cmd[s].dropped, status |-> st]
  <2>1. /\ cmd[s].step = "create" /\ db' = [db EXCEPT ![s] = NoData] /\ Go(s, NoCmd)
        /\ UNCHANGED <<dir, files, src, ckptVars, laneVars, head, gc, cut, bounds>>
    BY <1>3 DEF SpawnCreate, Done
  <2>2. cmd[s].op = "spawn"
    BY <1>0, <2>1, NoCmdType DEF Phase, Memory, Ops
  <2>3. PICK st \in Status : rec' = [rec EXCEPT ![s] = k(st)]
    BY <1>3 DEF SpawnCreate
  <2>4. k(st) \in Record
    BY <1>0 DEF Memory, Record
  <2> HIDE DEF k
  <2>5. rec' \in [Slug -> Record \cup {NoRecord}] /\ \A r \in Slug \ {s} : rec'[r] = rec[r]
    BY <1>0, <2>3, <2>4 DEF TypeOK
  <2>6. db' \in [Slug -> [Deposit -> Content]]
    BY <1>0, <1>01, <2>1 DEF TypeOK
  <2>7. TypeOK'
    BY <1>0, <2>1, <2>5, <2>6, NoCmdType, Going DEF TypeOK, ckptVars, laneVars, bounds
  <2>8. cmd'[s] = NoCmd /\ \A r \in Slug \ {s} : cmd'[r] = cmd[r]
    BY <1>0, <2>1, NoCmdType, Going
  <2>9. Numbered(s)'
    BY <2>8, NoCmdType DEF Numbered, Captures
  <2> QED
    BY <2>1, <2>2, <2>5, <2>7, <2>8, <2>9, NoCmdType DEF Moves, ckptVars
<1>4. ASSUME NEW purge \in BOOLEAN, BeginRemove(s, purge) PROVE Moves(s)
  <2> DEFINE d == Loaded(s, "remove", "teardown")
             c == [d EXCEPT !.purge = purge]
  <2>1. cmd[s] = NoCmd /\ MayRun("remove") /\ rec[s] # NoRecord /\ Go(s, c)
        /\ UNCHANGED <<instVars, ckptVars, laneVars, head, gc, cut, bounds>>
    BY <1>4 DEF BeginRemove, Begin
  <2>a. "remove" \in Ops /\ "teardown" \in Steps
    BY DEF Ops, Steps
  <2>2. d \in Memory /\ d.op = "remove" /\ d.step = "teardown"
    BY <1>0, <2>1, <2>a, Loading
  <2> HIDE DEF d
  <2>3. c \in Memory /\ c.op = "remove" /\ c.step = "teardown"
    BY <2>2 DEF Memory
  <2> HIDE DEF c
  <2>4. TypeOK'
    BY <1>0, <2>1, <2>3, Going DEF TypeOK, instVars, ckptVars, laneVars, bounds
  <2>5. cmd'[s] = c /\ \A r \in Slug \ {s} : cmd'[r] = cmd[r]
    BY <1>0, <2>1, <2>3, Going
  <2>6. Phase(c) /\ Numbered(s)' /\ (Live(s)' <=> Live(s))
    BY <2>1, <2>3, <2>5 DEF Phase, Numbered, Captures, Live, instVars
  <2> QED
    BY <2>1, <2>3, <2>4, <2>5, <2>6 DEF Moves, instVars, ckptVars
<1>5. CASE RemoveTeardown(s)
  <2> DEFINE c == [cmd[s] EXCEPT !.step = "archive"]
  <2>1. cmd[s].step = "teardown" /\ WorkspaceGone(s) /\ Go(s, c)
        /\ db' = [db EXCEPT ![s] = NoData]
        /\ UNCHANGED <<rec, ckptVars, laneVars, head, gc, cut, bounds>>
    BY <1>5 DEF RemoveTeardown
  <2>2. cmd[s].op = "remove"
    BY <1>0, <2>1, NoCmdType DEF Phase, Memory, Ops
  <2>3. c \in Memory /\ c.op = cmd[s].op /\ c.step = "archive"
    BY <1>0 DEF Memory, Steps
  <2> HIDE DEF c
  <2>4. db' \in [Slug -> [Deposit -> Content]]
    BY <1>0, <1>01, <2>1 DEF TypeOK
  <2>5. TypeOK'
    BY <1>0, <2>1, <2>3, <2>4, Going, Gone DEF TypeOK, ckptVars, laneVars, bounds
  <2>6. /\ cmd'[s] = c /\ ~ dir'[s]
        /\ \A r \in Slug \ {s} : cmd'[r] = cmd[r] /\ dir'[r] = dir[r]
    BY <1>0, <2>1, <2>3, Going, Gone
  <2>7. Phase(c) /\ Numbered(s)' /\ ~ Live(s)'
    BY <2>2, <2>3, <2>6 DEF Phase, Numbered, Captures, Live
  <2> QED
    BY <2>1, <2>3, <2>5, <2>6, <2>7 DEF Moves, ckptVars
<1>6. CASE RemoveArchive(s)
  <2> DEFINE c == [cmd[s] EXCEPT !.step = "purge"]
  <2>1. cmd[s].step = "archive" /\ rec' = [rec EXCEPT ![s] = NoRecord]
        /\ (Go(s, c) \/ Go(s, NoCmd))
        /\ UNCHANGED <<dir, files, src, db, ckptVars, laneVars, head, gc, cut, bounds>>
    BY <1>6 DEF RemoveArchive, Done
  <2>2. cmd[s].op = "remove"
    BY <1>0, <2>1, NoCmdType DEF Phase, Memory, Ops
  <2>3. c \in Memory /\ c.op = cmd[s].op /\ c.step = "purge"
    BY <1>0 DEF Memory, Steps
  <2> HIDE DEF c
  <2>4. /\ rec' \in [Slug -> Record \cup {NoRecord}] /\ rec'[s] = NoRecord
        /\ \A r \in Slug \ {s} : rec'[r] = rec[r]
    BY <1>0, <2>1 DEF TypeOK
  <2>5. TypeOK'
    BY <1>0, <2>1, <2>3, <2>4, NoCmdType, Going DEF TypeOK, ckptVars, laneVars, bounds
  <2>6. cmd'[s] \in {c, NoCmd} /\ \A r \in Slug \ {s} : cmd'[r] = cmd[r]
    BY <1>0, <2>1, <2>3, NoCmdType, Going
  <2>7. Phase(c) /\ Numbered(s)' /\ ~ Live(s)'
    BY <2>2, <2>3, <2>4, <2>6, NoCmdType DEF Phase, Numbered, Captures, Live
  <2> QED
    BY <2>1, <2>3, <2>4, <2>5, <2>6, <2>7, NoCmdType DEF Moves, ckptVars
<1>7. CASE RemovePurge(s)
  <2> DEFINE c == [cmd[s] EXCEPT !.step = "unlog"]
  <2>1. /\ \/ cmd[s].step = "purge" /\ PurgeTips(s) /\ Go(s, c)
           \/ cmd[s].step = "unlog" /\ PurgeLog(s) /\ Go(s, NoCmd)
        /\ UNCHANGED <<instVars, laneVars, head, gc, bounds>>
    BY <1>7 DEF RemovePurge, Done
  <2>2. cmd[s].op = "remove"
    BY <1>0, <2>1, NoCmdType DEF Phase, Memory, Ops
  <2>3. c \in Memory /\ c.op = cmd[s].op /\ c.step = "unlog"
    BY <1>0 DEF Memory, Steps
  <2> HIDE DEF c
  <2>4. /\ log' \in [Slug -> [Id -> Ckpt \cup {NoCkpt}]]
        /\ tip' \in [Slug -> [Id -> Content \cup {NoTip}]] /\ cut' \subseteq Slug
        /\ \A r \in Slug \ {s} : log'[r] = log[r]
    BY <1>0, <2>1, Purging
  <2>5. TypeOK'
    BY <1>0, <2>1, <2>3, <2>4, NoCmdType, Going DEF TypeOK, instVars, laneVars, bounds
  <2>6. cmd'[s] \in {c, NoCmd} /\ \A r \in Slug \ {s} : cmd'[r] = cmd[r]
    BY <1>0, <2>1, <2>3, NoCmdType, Going
  <2>7. Phase(c) /\ Numbered(s)' /\ (Live(s)' <=> Live(s))
    BY <2>1, <2>2, <2>3, <2>6, NoCmdType DEF Phase, Numbered, Captures, Live, instVars
  <2> QED
    BY <2>1, <2>3, <2>4, <2>5, <2>6, <2>7, NoCmdType DEF Moves, instVars
<1>8. CASE Edit(s)
  <2>1. /\ cmd[s] = NoCmd /\ edits < MaxEdit /\ edits' = edits + 1
        /\ UNCHANGED <<rec, dir, ckptVars, laneVars, cmd, head, gc, cut, crashes>>
    BY <1>8 DEF Edit
  <2>2. /\ files' \in [Slug -> [Owned -> Content]] /\ src' \in [Slug -> Content]
        /\ db' \in [Slug -> [Deposit -> Content]]
    <3>1. PICK x \in Content :
             \/ (\E t \in Owned : files' = [files EXCEPT ![s][t] = x])
                /\ UNCHANGED <<src, db>>
             \/ src' = [src EXCEPT ![s] = x] /\ UNCHANGED <<files, db>>
             \/ (\E t \in Deposit : db' = [db EXCEPT ![s][t] = x])
                /\ UNCHANGED <<files, src>>
      BY <1>8 DEF Edit
    <3>2. /\ files \in [Slug -> [Owned -> Content]] /\ src \in [Slug -> Content]
          /\ db \in [Slug -> [Deposit -> Content]]
      BY <1>0 DEF TypeOK
    <3>3. /\ \A t \in Owned : [files EXCEPT ![s][t] = x] \in [Slug -> [Owned -> Content]]
          /\ \A t \in Deposit : [db EXCEPT ![s][t] = x] \in [Slug -> [Deposit -> Content]]
          /\ [src EXCEPT ![s] = x] \in [Slug -> Content]
      <4>1. \A t \in Owned : [files EXCEPT ![s][t] = x] \in [Slug -> [Owned -> Content]]
        BY <3>2
      <4>2. \A t \in Deposit : [db EXCEPT ![s][t] = x] \in [Slug -> [Deposit -> Content]]
        BY <3>2
      <4>3. [src EXCEPT ![s] = x] \in [Slug -> Content]
        BY <3>2
      <4> QED
        BY <4>1, <4>2, <4>3
    <3> QED
      BY <3>1, <3>2, <3>3
  <2>3. edits' \in 0 .. MaxEdit
    BY <1>0, <2>1 DEF TypeOK
  <2>4. TypeOK'
    BY <1>0, <2>1, <2>2, <2>3 DEF TypeOK, ckptVars, laneVars
  <2>5. Numbered(s)' /\ (Live(s)' <=> Live(s))
    BY <1>0, <2>1, NoCmdType DEF Numbered, Captures, Live, Ids, ckptVars
  <2> QED
    BY <1>0, <2>1, <2>4, <2>5 DEF Moves, ckptVars
<1>9. CASE LoseWorkspace(s)
  <2>1. /\ cmd[s] = NoCmd /\ edits < MaxEdit /\ edits' = edits + 1 /\ WorkspaceGone(s)
        /\ UNCHANGED <<rec, db, ckptVars, laneVars, cmd, head, gc, cut, crashes>>
    BY <1>9 DEF LoseWorkspace
  <2>2. edits' \in 0 .. MaxEdit
    BY <1>0, <2>1 DEF TypeOK
  <2>3. TypeOK'
    BY <1>0, <2>1, <2>2, Gone DEF TypeOK, ckptVars, laneVars
  <2>4. \A r \in Slug \ {s} : dir'[r] = dir[r]
    BY <1>0, <2>1, Gone
  <2>5. Numbered(s)' /\ ~ Live(s)'
    BY <1>0, <2>1, Gone, NoCmdType DEF Numbered, Captures, Live
  <2> QED
    BY <1>0, <2>1, <2>3, <2>4, <2>5 DEF Moves, ckptVars
<1> QED
  BY <1>1, <1>2, <1>3, <1>4, <1>5, <1>6, <1>7, <1>8, <1>9 DEF LifeNext

-----------------------------------------------------------------------------
(* Cleanup.                                                                *)

\* A cleanup's step that touches nothing of the instances.
LEMMA GcGoes ==
    ASSUME LifeInv, gc' \in GcMemory, GcKnows', pins' \subseteq pins,
           UNCHANGED <<instVars, ckptVars, main, tree, lastRev, cmd, head, cut, bounds>>
    PROVE  LifeInv'
<1>1. TypeOK'
  BY DEF LifeInv, TypeOK, instVars, ckptVars, bounds
<1>2. ASSUME NEW s \in Slug PROVE Phase(cmd[s])' /\ Numbered(s)'
  BY DEF LifeInv, Phase, Numbered, Live, Ids, instVars, ckptVars
<1> QED
  BY <1>1, <1>2 DEF LifeInv

LEMMA GcKeeps ==
    ASSUME LifeInv, SpawnApart, GcNext PROVE LifeInv'
<1>0. TypeOK /\ GcKnows /\ gc \in GcMemory /\ (\A s \in Slug : Phase(cmd[s]) /\ Numbered(s))
  BY DEF LifeInv, TypeOK
<1>1. ASSUME NEW purge \in BOOLEAN, GcStart(purge) PROVE LifeInv'
  <2> DEFINE known == {s \in Slug : rec[s] # NoRecord}
             live == {s \in known : dir[s]}
             b == [s \in Slug |-> IF s \in live THEN rec[s].bind ELSE NoBinding]
             g == [NoGc EXCEPT !.step = "stale", !.purge = purge, !.claimed = known,
                               !.live = live, !.todo = known \ live, !.bind = b]
  <2>1. gc' = g /\ (\A s \in Slug : cmd[s].op \in Concurrent \cup {"none"})
        /\ UNCHANGED <<instVars, ckptVars, laneVars, cmd, head, cut, bounds>>
    BY <1>1 DEF GcStart
  <2>2. b \in [Slug -> Binding]
    <3> SUFFICES ASSUME NEW s \in Slug PROVE b[s] \in Binding
      OBVIOUS
    <3>1. NoBinding \in Binding
      BY SnapshotsAssumption DEF NoBinding, Binding, Rev0
    <3>2. s \in live => rec[s].bind \in Binding
      BY <1>0, Recorded
    <3> QED
      BY <3>1, <3>2
  <2>3. live \subseteq known /\ known \ live \subseteq known /\ known \subseteq Slug /\ (\A s \in Slug : Live(s) => s \in live)
    BY DEF Live
  <2> HIDE DEF b, known, live
  <2>4. g \in GcMemory /\ g.step = "stale" /\ g.live = live /\ g.claimed = known
        /\ g.todo = known \ live
    BY <2>2, <2>3 DEF NoGc, GcMemory, GcSteps
  <2> HIDE DEF g
  <2>5. GcKnows'
    BY <2>1, <2>3, <2>4 DEF GcKnows, Live, instVars
  <2> QED
    BY <2>1, <2>4, <2>5, GcGoes DEF laneVars
<1>2. ASSUME NEW s \in Slug, GcStale(s) PROVE LifeInv'
  <2>1. gc.step = "stale" /\ s \in gc.todo /\ cmd[s] = NoCmd
        /\ UNCHANGED <<dir, files, src, ckptVars, laneVars, cmd, head, cut, bounds>>
    BY <1>2 DEF GcStale
  <2> DEFINE g == [gc EXCEPT !.todo = @ \ {s}]
             h == [gc EXCEPT !.todo = @ \ {s}, !.live = @ \cup {s}, !.bind[s] = rec[s].bind]
  <2>2. g \in GcMemory /\ g.step = "stale" /\ g.live = gc.live /\ g.claimed = gc.claimed
        /\ g.todo \subseteq gc.todo
    BY <1>0, <2>1 DEF GcMemory
  <2>3. CASE rec[s] = NoRecord /\ gc' = g /\ UNCHANGED <<rec, db>>
    <3> HIDE DEF g
    <3>1. GcKnows'
      BY <1>0, <2>1, <2>2, <2>3 DEF GcKnows, Live
    <3> QED
      BY <2>1, <2>2, <2>3, <3>1, GcGoes DEF instVars, laneVars
  <2>4. CASE Live(s) /\ gc' = h /\ UNCHANGED <<rec, db>>
    <3>1. rec[s].bind \in Binding
      BY <1>0, <2>4, Recorded DEF Live
    <3>2. h \in GcMemory /\ h.step = "stale" /\ h.live = gc.live \cup {s}
          /\ h.claimed = gc.claimed /\ h.todo \subseteq gc.todo
      BY <1>0, <2>1, <3>1 DEF GcMemory
    <3> HIDE DEF h
    <3>3. s \in gc.claimed
      BY <1>0, <2>1, <2>4 DEF GcKnows
    <3>4. GcKnows'
      BY <1>0, <2>1, <2>4, <3>2, <3>3 DEF GcKnows, Live
    <3> QED
      BY <2>1, <2>4, <3>2, <3>4, GcGoes DEF instVars, laneVars
  <2>5. CASE /\ rec' = [rec EXCEPT ![s] = NoRecord] /\ db' = [db EXCEPT ![s] = NoData]
             /\ gc' = g
    <3> HIDE DEF g
    <3>1. /\ rec' \in [Slug -> Record \cup {NoRecord}]
          /\ rec'[s] = NoRecord /\ \A r \in Slug \ {s} : rec'[r] = rec[r]
      BY <1>0, <2>5 DEF TypeOK
    <3>2. db' \in [Slug -> [Deposit -> Content]]
      BY <1>0, <2>5, SnapshotsAssumption DEF TypeOK, NoData
    <3>3. TypeOK'
      BY <1>0, <2>1, <2>2, <2>5, <3>1, <3>2 DEF TypeOK, ckptVars, laneVars, bounds
    <3>4. GcKnows'
      BY <1>0, <2>1, <2>2, <2>5, <3>1 DEF GcKnows, Live
    <3>5. ASSUME NEW r \in Slug PROVE Phase(cmd[r])' /\ Numbered(r)'
      <4>1. CASE r = s
        BY <2>1, <4>1, NoCmdType DEF Phase, Numbered, Captures
      <4>2. CASE r # s
        BY <1>0, <2>1, <3>1, <4>2 DEF Phase, Numbered, Live, Ids, ckptVars
      <4> QED
        BY <4>1, <4>2
    <3> QED
      BY <3>3, <3>4, <3>5 DEF LifeInv
  <2> QED
    BY <1>2, <2>3, <2>4, <2>5 DEF GcStale
<1>3. CASE GcOrphans
  <2> DEFINE orphans == {s \in Slug : dir[s]} \ gc.claimed
             todo == IF gc.purge THEN {s \in Slug : Ids(s) # {}} \ gc.live ELSE {}
             g == [gc EXCEPT !.step = "purge", !.todo = todo]
  <2>1. /\ gc.step = "stale" /\ gc' = g
        /\ dir' = [s \in Slug |-> dir[s] /\ s \notin orphans]
        /\ files' = [s \in Slug |-> IF s \in orphans THEN NoFiles ELSE files[s]]
        /\ src' = [s \in Slug |-> IF s \in orphans THEN Empty ELSE src[s]]
        /\ UNCHANGED <<rec, db, ckptVars, laneVars, cmd, head, cut, bounds>>
    BY <1>3 DEF GcOrphans
  <2>2. todo \subseteq Slug /\ todo \cap gc.live = {}
    OBVIOUS
  <2> HIDE DEF todo
  <2>3. g \in GcMemory /\ g.step = "purge" /\ g.live = gc.live /\ g.claimed = gc.claimed
        /\ g.todo = todo
    BY <1>0, <2>2 DEF GcMemory, GcSteps
  <2> HIDE DEF g
  <2>4. dir' \in [Slug -> BOOLEAN] /\ files' \in [Slug -> [Owned -> Content]]
        /\ src' \in [Slug -> Content]
    BY <1>0, <2>1, SnapshotsAssumption DEF TypeOK, NoFiles
  <2>5. TypeOK'
    BY <1>0, <2>1, <2>3, <2>4 DEF TypeOK, ckptVars, laneVars, bounds
  <2>6. \A s \in Slug : /\ Live(s)' => Live(s)
                        /\ Live(s) /\ s \in gc.live => Live(s)'
    BY <1>0, <2>1 DEF Live, GcKnows
  <2>7. GcKnows'
    BY <1>0, <2>1, <2>2, <2>3, <2>6 DEF GcKnows
  <2>8. ASSUME NEW s \in Slug PROVE Phase(cmd[s])' /\ Numbered(s)'
    <3>1. cmd[s].op \in Captures => s \in gc.live
      BY <1>0, <2>1 DEF Numbered, GcKnows, SpawnApart, Captures
    <3>2. cmd[s].op \in Captures => Live(s)'
      BY <1>0, <2>6, <3>1 DEF Numbered
    <3> QED
      BY <1>0, <2>1, <3>2 DEF Phase, Numbered, Ids, ckptVars
  <2> QED
    BY <2>5, <2>7, <2>8 DEF LifeInv
<1>4. ASSUME NEW s \in Slug, GcPurge(s) PROVE LifeInv'
  <2> DEFINE g == [gc EXCEPT !.step = "unlog", !.todo = @ \ {s}, !.now = s]
             h == [gc EXCEPT !.step = "purge", !.now = "none"]
  <2>1. /\ UNCHANGED <<instVars, laneVars, cmd, head, bounds>>
        /\ \/ gc.step = "purge" /\ s \in gc.todo /\ PurgeTips(s) /\ gc' = g
           \/ gc.step = "unlog" /\ s = gc.now /\ PurgeLog(s) /\ gc' = h
    BY <1>4 DEF GcPurge
  <2>2. /\ g \in GcMemory /\ g.step = "unlog" /\ g.live = gc.live /\ g.claimed = gc.claimed
        /\ g.todo = gc.todo \ {s} /\ g.now = s
    BY <1>0 DEF GcMemory, GcSteps
  <2>3. /\ h \in GcMemory /\ h.step = "purge" /\ h.live = gc.live /\ h.claimed = gc.claimed
        /\ h.todo = gc.todo
    BY <1>0 DEF GcMemory, GcSteps
  <2> HIDE DEF g, h
  <2>4. TypeOK'
    BY <1>0, <2>1, <2>2, <2>3, Purging DEF TypeOK, instVars, laneVars, bounds
  <2>5. GcKnows'
    BY <1>0, <2>1, <2>2, <2>3 DEF GcKnows, Live, instVars
  <2>6. s \notin gc.live
    BY <1>0, <2>1 DEF GcKnows
  <2>7. ASSUME NEW r \in Slug PROVE Phase(cmd[r])' /\ Numbered(r)'
    <3>1. cmd[s].op \notin Captures
      BY <1>0, <2>1, <2>6 DEF Numbered, GcKnows, SpawnApart, Captures
    <3>2. CASE r = s
      BY <1>0, <2>1, <3>1, <3>2 DEF Phase, Numbered, instVars, Captures
    <3>3. CASE r # s
      <4>1. log'[r] = log[r]
        BY <1>0, <2>1, <3>3, Purging
      <4> QED
        BY <1>0, <2>1, <4>1 DEF Phase, Numbered, Live, Ids, instVars
    <3> QED
      BY <3>2, <3>3
  <2> QED
    BY <2>4, <2>5, <2>7 DEF LifeInv
<1>5. ASSUME gc' \in GcMemory, gc'.step \in {"heads", "forget"},
             gc'.live = gc.live, gc'.claimed = gc.claimed,
             gc.step # "idle", pins' \subseteq pins,
             UNCHANGED <<instVars, ckptVars, main, tree, lastRev, cmd, head, cut, bounds>>
      PROVE  LifeInv'
  <2>1. GcKnows'
    BY <1>0, <1>5 DEF GcKnows, Live, instVars
  <2> QED
    BY <1>5, <2>1, GcGoes
<1>6. CASE GcRoots
  <2> DEFINE R == ({<<t, gc.bind[s][t]>> : s \in gc.live, t \in Tracker} \cap Keys)
                    \cup UNION {ClaimedBy(s) : s \in IF gc.purge THEN gc.live ELSE Slug}
             g == [gc EXCEPT !.step = "heads", !.roots = R]
  <2>1. R \in SUBSET (Tracker \X Rev)
    BY DEF Keys, ClaimedBy
  <2>2. gc' = g /\ gc.step = "purge"
        /\ UNCHANGED <<instVars, ckptVars, laneVars, cmd, head, cut, bounds>>
    BY <1>6 DEF GcRoots
  <2> HIDE DEF R
  <2>3. g \in GcMemory /\ g.step = "heads" /\ g.live = gc.live /\ g.claimed = gc.claimed
    BY <1>0, <2>1 DEF GcMemory, GcSteps
  <2> HIDE DEF g
  <2> QED
    BY <1>5, <2>2, <2>3 DEF laneVars
<1>7. CASE GcHeads
  <2> DEFINE R == gc.roots \cup ({<<t, main[t]>> : t \in Tracker} \cap Keys)
             g == [gc EXCEPT !.step = "forget", !.roots = R, !.forget = pins \ R]
  <2>1. R \in SUBSET (Tracker \X Rev) /\ pins \ R \in SUBSET (Tracker \X Rev)
    BY <1>0 DEF Keys, GcMemory, TypeOK
  <2>2. gc' = g /\ gc.step = "heads"
        /\ UNCHANGED <<instVars, ckptVars, laneVars, cmd, head, cut, bounds>>
    BY <1>7 DEF GcHeads
  <2> HIDE DEF R
  <2>3. g \in GcMemory /\ g.step = "forget" /\ g.live = gc.live /\ g.claimed = gc.claimed
    BY <1>0, <2>1 DEF GcMemory, GcSteps
  <2> HIDE DEF g
  <2> QED
    BY <1>5, <2>2, <2>3 DEF laneVars
<1>8. ASSUME NEW t \in Tracker, NEW r \in Rev, GcForget(t, r) PROVE LifeInv'
  <2> DEFINE g == [gc EXCEPT !.forget = @ \ {<<t, r>>}]
  <2>1. gc' = g /\ gc.step = "forget" /\ pins' = pins \ {<<t, r>>}
        /\ UNCHANGED <<instVars, ckptVars, main, tree, lastRev, cmd, head, cut, bounds>>
    BY <1>8 DEF GcForget
  <2>2. g \in GcMemory /\ g.step = "forget" /\ g.live = gc.live /\ g.claimed = gc.claimed
    BY <1>0, <2>1 DEF GcMemory
  <2> HIDE DEF g
  <2> QED
    BY <1>5, <2>1, <2>2
<1>9. CASE GcEnd
  <2>1. gc' = NoGc /\ UNCHANGED <<instVars, ckptVars, laneVars, cmd, head, cut, bounds>>
    BY <1>9 DEF GcEnd
  <2>2. NoGc \in GcMemory /\ NoGc.step = "idle"
    BY SnapshotsAssumption DEF NoGc, GcMemory, NoBinding, Binding, Rev0, GcSteps
  <2>3. GcKnows'
    BY <2>1, <2>2 DEF GcKnows
  <2> QED
    BY <2>1, <2>2, <2>3, GcGoes DEF laneVars
<1> QED
  BY <1>1, <1>2, <1>3, <1>4, <1>6, <1>7, <1>8, <1>9 DEF GcNext

-----------------------------------------------------------------------------
(* Lane heads, crashes, and the whole.                                     *)

LEMMA HeadKeeps ==
    ASSUME LifeInv, HeadNext PROVE LifeInv'
<1>0. TypeOK
  BY DEF LifeInv
<1>1. UNCHANGED <<instVars, ckptVars, cmd, gc, cut, bounds>>
  BY DEF HeadNext, SeedCommit, MergeRead, MoveMain, laneVars
<1>2. /\ head' \in [op : {"seed", "merge"}, t : Tracker, r : Rev] \cup {NoHead}
      /\ pins' \subseteq Tracker \X Rev /\ main' \in [Tracker -> Rev0]
      /\ tree' \in [Rev -> Content] /\ lastRev' \in Rev0
  <2>1. ASSUME NEW t \in Owned, NEW c \in Content, SeedCommit(t, c) PROVE <1>2
    <3>1. t \in Tracker /\ main[t] \in Rev0
      BY <1>0 DEF TypeOK, Tracker
    <3> DEFINE r == CommitRev(c, main[t])
    <3>2. Commit(t, c, r) /\ head' = [op |-> "seed", t |-> t, r |-> r] /\ main' = main
      BY <2>1 DEF SeedCommit
    <3>3. /\ r \in Rev /\ pins' \subseteq Tracker \X Rev
          /\ tree' \in [Rev -> Content] /\ lastRev' \in Rev0
      BY <1>0, <3>1, <3>2, Committing
    <3> HIDE DEF r
    <3> QED
      BY <1>0, <3>1, <3>2, <3>3 DEF TypeOK
  <2>2. ASSUME NEW s \in Slug, NEW t \in Tracker, MergeRead(s, t) PROVE <1>2
    <3>1. rec[s].bind[t] \in Rev
      BY <1>0, <2>2, Recorded DEF MergeRead, Binding, Rev, Rev0
    <3>2. head' = [op |-> "merge", t |-> t, r |-> rec[s].bind[t]]
          /\ UNCHANGED laneVars
      BY <2>2 DEF MergeRead
    <3> QED
      BY <1>0, <3>1, <3>2 DEF TypeOK, laneVars
  <2>3. CASE MoveMain
    <3>1. head \in [op : {"seed", "merge"}, t : Tracker, r : Rev]
      BY <1>0, <2>3 DEF MoveMain, TypeOK
    <3>2. head.t \in Tracker /\ head.r \in Rev0
      BY <3>1 DEF Rev, Rev0
    <3> QED
      BY <1>0, <2>3, <3>2 DEF MoveMain, TypeOK
  <2> QED
    BY <2>1, <2>2, <2>3 DEF HeadNext
<1>3. TypeOK'
  BY <1>0, <1>1, <1>2 DEF TypeOK, instVars, ckptVars, bounds
<1> QED
  BY <1>1, <1>3 DEF LifeInv, Phase, Numbered, GcKnows, Live, Ids, instVars, ckptVars

LEMMA CrashKeeps ==
    ASSUME LifeInv, Crash PROVE LifeInv'
<1>0. TypeOK /\ crashes < MaxCrash /\ crashes' = crashes + 1
      /\ UNCHANGED <<instVars, ckptVars, laneVars, cut, edits>>
  BY DEF LifeInv, Crash
<1>1. crashes' \in 0 .. MaxCrash
  BY <1>0, SnapshotsAssumption DEF TypeOK
<1>2. CASE \E s \in Slug : Go(s, NoCmd) /\ UNCHANGED <<head, gc>>
  <2>1. PICK s \in Slug : Go(s, NoCmd) /\ UNCHANGED <<head, gc>>
    BY <1>2
  <2>2. TypeOK'
    BY <1>0, <1>1, <2>1, NoCmdType, Going DEF TypeOK, instVars, ckptVars, laneVars
  <2>3. Moves(s)
    BY <1>0, <2>1, <2>2, NoCmdType, MovesOn DEF instVars, ckptVars
  <2> QED
    BY <2>3, MovesKeeps
<1>3. CASE head' = NoHead /\ UNCHANGED <<cmd, gc>>
  <2>1. TypeOK'
    BY <1>0, <1>1, <1>3 DEF TypeOK, instVars, ckptVars, laneVars
  <2> QED
    BY <1>0, <1>3, <2>1
       DEF LifeInv, Phase, Numbered, GcKnows, Live, Ids, instVars, ckptVars
<1>4. CASE gc' = NoGc /\ UNCHANGED <<cmd, head>>
  <2>1. NoGc \in GcMemory /\ NoGc.step = "idle"
    BY SnapshotsAssumption DEF NoGc, GcMemory, NoBinding, Binding, Rev0, GcSteps
  <2>2. TypeOK'
    BY <1>0, <1>1, <1>4, <2>1 DEF TypeOK, instVars, ckptVars, laneVars
  <2>3. GcKnows'
    BY <1>4, <2>1 DEF GcKnows
  <2>4. ASSUME NEW s \in Slug PROVE Phase(cmd[s])' /\ Numbered(s)'
    BY <1>0, <1>4 DEF LifeInv, Phase, Numbered, Live, Ids, instVars, ckptVars
  <2> QED
    BY <2>2, <2>3, <2>4 DEF LifeInv
<1> QED
  BY <1>2, <1>3, <1>4 DEF Crash, Done

LEMMA NextLifeInv ==
    ASSUME SpawnApart, LifeInv, [Next]_vars PROVE LifeInv'
<1>1. ASSUME NEW s \in Slug,
             CheckpointNext(s) \/ UndoNext(s) \/ TrackerNext(s) \/ LifeNext(s)
      PROVE  LifeInv'
  BY <1>1, CheckpointMoves, UndoMoves, TrackerMoves, LifeMoves, MovesKeeps
<1>2. CASE HeadNext
  BY <1>2, HeadKeeps
<1>3. CASE GcNext
  BY <1>3, GcKeeps
<1>4. CASE Crash
  BY <1>4, CrashKeeps
<1>5. CASE UNCHANGED vars
  BY <1>5 DEF vars, instVars, ckptVars, laneVars, bounds, LifeInv, TypeOK, Phase,
              Numbered, GcKnows, Live, Ids
<1> QED
  BY <1>1, <1>2, <1>3, <1>4, <1>5 DEF Next

\* Every reachable state of the instances, the lanes, the commands under way and
\* the cleanup is well typed: in particular no checkpoint is saved over another,
\* and the one an undo stamps is there.
THEOREM TypeCorrect ==
    ASSUME SpawnApart PROVE Spec => []TypeOK
<1>1. LifeInv /\ [Next]_vars => LifeInv'
  BY NextLifeInv
<1>2. LifeInv => TypeOK
  BY DEF LifeInv
<1> QED
  BY InitLifeInv, <1>1, <1>2, PTL DEF Spec

-----------------------------------------------------------------------------
(***************************************************************************)
(* Safety, from what is shown above of records and commands.  First what   *)
(* cleanup leaves alone: every rev a checkpoint names keeps its pin, and   *)
(* every checkpoint its source, whatever instances, trackers, spawns,      *)
(* removals and moves of a lane's `main` a cleanup meets.  Then what undo  *)
(* promises: its safety checkpoint holds all it found, and when it is over *)
(* the workspace and the record are exactly the checkpoint's it went back  *)
(* to.                                                                     *)
(***************************************************************************)

-----------------------------------------------------------------------------
(* What has to stay readable.                                              *)

\* The revs that b names for the trackers T are all in S.
In(b, T, S) == \A t \in T : b[t] = 0 \/ <<t, b[t]>> \in S

\* A spawn beside a cleanup binds revs the cleanup may forget (a tracker not
\* dropped is captured again before a checkpoint names it): those of T are sure
\* to stay then, and without such spawns all.
Lasting(T) == IF "spawn" \in Concurrent THEN T ELSE Tracker

RecIn(s, S) == rec[s] # NoRecord => In(rec[s].bind, Lasting(rec[s].dropped), S)

ClaimsIn(s, S) ==
    \A i \in Ids(s) : In(log[s][i].bind, Tracker, S) /\ In(log[s][i].dump, Deposit, S)

\* The trackers whose revs a command has made sure of.
Settled(c) ==
    {t \in Tracker :
        \/ t \in c.dropped
        \/ c.op \in Captures /\ c.step = "capture" /\ t \notin c.todo
        \/ c.op \in Captures /\ c.step \notin {"source", "capture"}
        \/ c.op = "drop" /\ c.step # "capture" /\ t \in c.todo}

MemIn(c, S) ==
    c.op \notin {"none", "remove"} =>
        In(c.bind, Lasting(Settled(c)), S) /\ In(c.dump, Deposit, S)

\* What an instance names, and what its command is about to have it name,
\* resolves.
Resolves(s) == RecIn(s, pins) /\ ClaimsIn(s, pins) /\ MemIn(cmd[s], pins)

\* A spawn binds nothing for what it drops, and a drop is of one tracker.
Shaped(c) ==
    /\ c.op = "spawn" => \A t \in c.dropped : c.bind[t] = 0
    /\ c.op = "drop" => \A t, u \in c.todo : t = u

\* An undo that is about to go back has its record saved.
UndoSaved(s) ==
    cmd[s].op = "undo" /\ cmd[s].step \in {"fetch", "rebind"} => rec[s].bind = cmd[s].bind

\* Each checkpoint's source is in the store, and that of the one being made.
Sourced(s) ==
    /\ \A i \in Ids(s) : s \in cut \/ tip[s][i] = log[s][i].src
    /\ cmd[s].op \in Captures /\ cmd[s].step = "capture" => tip[s][cmd[s].id] = cmd[s].src

\* A cleanup has in memory, or will read, all that is to stay.
GcSaves(s) ==
    /\ gc.step \in {"stale", "purge", "unlog"} =>
           \/ RecIn(s, {})
           \/ s \in gc.live /\ rec[s].bind = gc.bind[s]
           \/ gc.step = "stale" /\ s \in gc.todo
    /\ gc.step \in {"purge", "unlog"} /\ gc.purge /\ Ids(s) # {} =>
           s \in gc.live \cup gc.todo \/ (gc.step = "unlog" /\ s = gc.now)
    /\ gc.step \in {"heads", "forget"} => RecIn(s, gc.roots) /\ ClaimsIn(s, gc.roots)

PinInv ==
    /\ LifeInv
    /\ \A s \in Slug : /\ Resolves(s) /\ Shaped(cmd[s]) /\ UndoSaved(s)
                       /\ Sourced(s) /\ GcSaves(s)
    /\ gc.step = "forget" => gc.forget \cap gc.roots = {}

\* Cleanup runs beside spawns, removals, seeds and merges alone, and beside
\* spawns only where no tracker is fed by a resource.
Beside ==
    /\ Concurrent \subseteq {"spawn", "remove", "seed", "merge"}
    /\ "spawn" \in Concurrent => Deposit = {}

LEMMA BesideApart == Beside => SpawnApart
  BY DEF Beside, SpawnApart

\* While a cleanup is under way no command has revs in memory that matter.
LEMMA MemQuiet ==
    ASSUME Beside, LifeInv, NEW s \in Slug, Shaped(cmd[s]), gc.step # "idle", NEW S
    PROVE  MemIn(cmd[s], S) /\ cmd[s].op \in {"none", "spawn", "remove"}
<1>1. cmd[s].op \in {"none", "spawn", "remove"}
  BY DEF LifeInv, GcKnows, Phase, Beside
<1>2. ASSUME cmd[s].op = "spawn" PROVE MemIn(cmd[s], S)
  <2>1. "spawn" \in Concurrent /\ Deposit = {}
    BY <1>2 DEF LifeInv, GcKnows, Beside
  <2>2. Lasting(Settled(cmd[s])) \subseteq cmd[s].dropped
    BY <1>2, <2>1 DEF Lasting, Settled, Captures
  <2> QED
    BY <1>2, <2>1, <2>2 DEF MemIn, In, Shaped
<1> QED
  BY <1>1, <1>2 DEF MemIn

\* An instance's command goes a step, as the pins see it.
PinMoves(s) ==
    /\ pins \subseteq pins' /\ gc' = gc
    /\ \A r \in Slug \ {s} : /\ cmd'[r] = cmd[r] /\ rec'[r] = rec[r]
                             /\ log'[r] = log[r] /\ tip'[r] = tip[r]
                             /\ r \in cut' <=> r \in cut
    /\ Resolves(s)' /\ Shaped(cmd'[s]) /\ UndoSaved(s)' /\ Sourced(s)'
    /\ gc.step # "idle" => /\ rec'[s] = rec[s] \/ RecIn(s, {})'
                           /\ log'[s] = log[s] \/ Ids(s)' = {}

LEMMA PinMovesKeeps ==
    ASSUME PinInv, LifeInv', NEW s \in Slug, PinMoves(s) PROVE PinInv'
<1>1. ASSUME NEW r \in Slug \ {s}
      PROVE  (Resolves(r) /\ Shaped(cmd[r]) /\ UndoSaved(r) /\ Sourced(r) /\ GcSaves(r))'
  <2>1. cmd'[r] = cmd[r] /\ rec'[r] = rec[r] /\ log'[r] = log[r] /\ tip'[r] = tip[r]
        /\ pins \subseteq pins' /\ gc' = gc /\ (r \in cut' <=> r \in cut)
    BY DEF PinMoves
  <2>2. Resolves(r) /\ Shaped(cmd[r]) /\ UndoSaved(r) /\ Sourced(r) /\ GcSaves(r)
    BY DEF PinInv
  <2>3. Resolves(r)'
    BY <2>1, <2>2 DEF Resolves, RecIn, ClaimsIn, MemIn, In, Ids
  <2>4. (Shaped(cmd[r]) /\ UndoSaved(r) /\ Sourced(r))'
    BY <2>1, <2>2 DEF Shaped, UndoSaved, Sourced, Ids
  <2>5. GcSaves(r)'
    BY <2>1, <2>2 DEF GcSaves, RecIn, ClaimsIn, Ids
  <2> QED
    BY <2>3, <2>4, <2>5
<1>2. GcSaves(s)'
  <2> SUFFICES ASSUME gc.step # "idle" PROVE GcSaves(s)'
    BY DEF PinMoves, GcSaves
  <2>1. rec'[s] = rec[s] \/ RecIn(s, {})'
    BY DEF PinMoves
  <2>2. log'[s] = log[s] \/ Ids(s)' = {}
    BY DEF PinMoves
  <2>3. GcSaves(s) /\ gc' = gc
    BY DEF PinInv, PinMoves
  <2>4. RecIn(s, {})' => \A S : RecIn(s, S)'
    BY DEF RecIn, In
  <2>5. rec'[s] = rec[s] => \A S : RecIn(s, S) => RecIn(s, S)'
    BY DEF RecIn
  <2>6. Ids(s)' = {} => \A S : ClaimsIn(s, S)'
    BY DEF ClaimsIn
  <2>7. log'[s] = log[s] => Ids(s)' = Ids(s) /\ \A S : ClaimsIn(s, S) => ClaimsIn(s, S)'
    BY DEF ClaimsIn, Ids
  <2>8. gc.step \in {"stale", "purge", "unlog"} =>
           \/ RecIn(s, {})'
           \/ s \in gc.live /\ rec'[s].bind = gc.bind[s]
           \/ gc.step = "stale" /\ s \in gc.todo
    BY <2>1, <2>3, <2>5 DEF GcSaves
  <2>9. gc.step \in {"purge", "unlog"} /\ gc.purge /\ Ids(s)' # {} =>
           s \in gc.live \cup gc.todo \/ (gc.step = "unlog" /\ s = gc.now)
    BY <2>2, <2>3, <2>7 DEF GcSaves
  <2>10. gc.step \in {"heads", "forget"} => RecIn(s, gc.roots)' /\ ClaimsIn(s, gc.roots)'
    BY <2>1, <2>2, <2>3, <2>4, <2>5, <2>6, <2>7 DEF GcSaves
  <2> QED
    BY <2>3, <2>8, <2>9, <2>10 DEF GcSaves
<1> QED
  BY <1>1, <1>2 DEF PinInv, PinMoves

LEMMA PinsOf ==
    ASSUME PinInv, NEW s \in Slug
    PROVE  /\ TypeOK /\ Phase(cmd[s]) /\ Numbered(s) /\ cmd[s] \in Memory
           /\ RecIn(s, pins) /\ ClaimsIn(s, pins) /\ MemIn(cmd[s], pins)
           /\ Shaped(cmd[s]) /\ UndoSaved(s) /\ Sourced(s)
  BY DEF PinInv, LifeInv, TypeOK, Resolves

\* No command names a rev once it is over.
LEMMA NoCmdNames ==
    NoCmd \in Memory /\ NoCmd.op = "none" /\ Shaped(NoCmd) /\ \A S : MemIn(NoCmd, S)
  BY NoCmdType DEF Shaped, MemIn

\* Only what a cleanup may run beside is under way beside one.
LEMMA Alone ==
    ASSUME Beside, PinInv, NEW s \in Slug, cmd[s].op \notin {"none", "spawn", "remove"}
    PROVE  gc.step = "idle"
  BY DEF PinInv, LifeInv, GcKnows, Phase, Beside

LEMMA GoingTo ==
    ASSUME TypeOK, NEW s \in Slug, NEW c, Go(s, c)
    PROVE  cmd'[s] = c /\ \A r \in Slug \ {s} : cmd'[r] = cmd[r]
  BY DEF TypeOK, Go

\* A command that goes on, the record and the checkpoints standing.
LEMMA PinGoesOn ==
    ASSUME PinInv, NEW s \in Slug, NEW c, Go(s, c), pins \subseteq pins',
           UNCHANGED <<rec, log, tip, cut, gc>>,
           MemIn(c, pins'), Shaped(c),
           c.op = "undo" /\ c.step \in {"fetch", "rebind"} => rec[s].bind = c.bind,
           c.op \in Captures /\ c.step = "capture" =>
               /\ cmd[s].op \in Captures /\ cmd[s].step = "capture"
               /\ c.id = cmd[s].id /\ c.src = cmd[s].src
    PROVE  PinMoves(s)
<1>1. cmd'[s] = c /\ \A r \in Slug \ {s} : cmd'[r] = cmd[r]
  BY GoingTo DEF PinInv, LifeInv
<1>2. RecIn(s, pins) /\ ClaimsIn(s, pins) /\ Sourced(s)
  BY PinsOf
<1>3. Resolves(s)'
  BY <1>1, <1>2 DEF Resolves, RecIn, ClaimsIn, In, Ids
<1>4. UndoSaved(s)'
  BY <1>1 DEF UndoSaved
<1>5. Sourced(s)'
  BY <1>1, <1>2 DEF Sourced, Ids
<1> QED
  BY <1>1, <1>3, <1>4, <1>5 DEF PinMoves

\* What a command loads resolves, the trackers it takes up again apart.
LEMMA LoadedIn ==
    ASSUME PinInv, NEW s \in Slug, rec[s] # NoRecord, NEW c,
           c.bind = rec[s].bind, c.dropped \subseteq rec[s].dropped, c.dump = NoDump,
           Settled(c) \subseteq c.dropped, c.op # "spawn",
           c.op = "drop" => \A t, u \in c.todo : t = u
    PROVE  MemIn(c, pins) /\ Shaped(c)
<1>1. In(rec[s].bind, Lasting(rec[s].dropped), pins)
  BY PinsOf DEF RecIn
<1>2. Lasting(Settled(c)) \subseteq Lasting(rec[s].dropped)
  BY DEF Lasting
<1>3. In(c.bind, Lasting(Settled(c)), pins)
  BY <1>1, <1>2 DEF In
<1>4. In(c.dump, Deposit, pins)
  BY DEF In, NoDump
<1> QED
  BY <1>3, <1>4 DEF MemIn, Shaped

\* One more tracker bound, to a rev that resolves.
LEMMA InWith ==
    ASSUME NEW b, NEW d, NEW T, NEW U, NEW S, NEW R, NEW t, NEW r,
           In(b, T, S), S \subseteq R, U \subseteq T \cup {t},
           d[t] = r, \A u \in T \ {t} : d[u] = b[u],
           r = 0 \/ <<t, r>> \in R
    PROVE  In(d, U, R)
  BY DEF In

LEMMA InMore ==
    ASSUME NEW b, NEW T, NEW U, NEW S, NEW R, In(b, T, S), S \subseteq R, U \subseteq T
    PROVE  In(b, U, R)
  BY DEF In

\* What a commit pins resolves.
LEMMA CommitPins ==
    ASSUME NEW t, NEW c, NEW r, Commit(t, c, r)
    PROVE  pins \subseteq pins' /\ <<t, r>> \in pins'
  BY DEF Commit

\* A command that writes the record.
LEMMA PinSaves ==
    ASSUME Beside, PinInv, NEW s \in Slug, cmd[s].op \notin {"none", "spawn", "remove"},
           SaveMemory(s), UNCHANGED <<log, tip, pins, cut, gc>>,
           NEW c, Go(s, c), MemIn(c, pins), Shaped(c),
           c.op = "undo" => c.bind = cmd[s].bind,
           ~ (c.op \in Captures /\ c.step = "capture")
    PROVE  PinMoves(s)
<1>0. /\ TypeOK /\ cmd[s] \in Memory /\ ClaimsIn(s, pins) /\ MemIn(cmd[s], pins) /\ Sourced(s)
  BY PinsOf
<1>1. /\ rec'[s] = [bind |-> cmd[s].bind, dropped |-> cmd[s].dropped,
                    status |-> cmd[s].status]
      /\ \A r \in Slug \ {s} : rec'[r] = rec[r]
  BY <1>0, Saving
<1>2. RecIn(s, pins)'
  <2>1. cmd[s].dropped \subseteq Settled(cmd[s])
    BY <1>0 DEF Settled, Memory, Tracker
  <2>2. Lasting(cmd[s].dropped) \subseteq Lasting(Settled(cmd[s]))
    BY <2>1 DEF Lasting
  <2> QED
    BY <1>0, <1>1, <2>2 DEF RecIn, MemIn, In
<1>3. gc.step = "idle"
  BY Alone
<1>4. cmd'[s] = c /\ \A r \in Slug \ {s} : cmd'[r] = cmd[r]
  BY <1>0, GoingTo
<1>5. Resolves(s)'
  BY <1>0, <1>2, <1>4 DEF Resolves, ClaimsIn, In, Ids
<1>6. UndoSaved(s)' /\ Sourced(s)'
  BY <1>0, <1>1, <1>4 DEF UndoSaved, Sourced, Ids
<1> QED
  BY <1>1, <1>3, <1>4, <1>5, <1>6 DEF PinMoves

LEMMA CheckpointPins ==
    ASSUME Beside, PinInv, LifeInv', NEW s \in Slug, CheckpointNext(s) PROVE PinMoves(s)
<1>0. /\ TypeOK /\ Phase(cmd[s]) /\ Numbered(s) /\ cmd[s] \in Memory
      /\ RecIn(s, pins) /\ ClaimsIn(s, pins) /\ MemIn(cmd[s], pins)
      /\ Shaped(cmd[s]) /\ UndoSaved(s) /\ Sourced(s)
  BY PinsOf
<1>1. CASE BeginCheckpoint(s)
  <2> DEFINE c == [Loaded(s, "checkpoint", "source") EXCEPT !.id = NextId(s)]
  <2>1. Go(s, c) /\ rec[s] # NoRecord
        /\ UNCHANGED <<instVars, ckptVars, laneVars, head, gc, cut, bounds>>
    BY <1>1 DEF BeginCheckpoint, Live
  <2>2. /\ c.op = "checkpoint" /\ c.step = "source" /\ c.bind = rec[s].bind
        /\ c.dropped = rec[s].dropped /\ c.dump = NoDump
    <3>a. "checkpoint" \in Ops /\ "source" \in Steps
      BY DEF Ops, Steps
    <3>1. /\ Loaded(s, "checkpoint", "source") \in Memory
          /\ Loaded(s, "checkpoint", "source").op = "checkpoint"
          /\ Loaded(s, "checkpoint", "source").step = "source"
          /\ Loaded(s, "checkpoint", "source").bind = rec[s].bind
          /\ Loaded(s, "checkpoint", "source").dropped = rec[s].dropped
          /\ Loaded(s, "checkpoint", "source").dump = NoDump
      BY <1>0, <2>1, <3>a, Loading
    <3> QED
      BY <3>1 DEF Memory
  <2> HIDE DEF c
  <2>3. MemIn(c, pins) /\ Shaped(c)
    BY <2>1, <2>2, LoadedIn DEF Settled
  <2> QED
    BY <2>1, <2>2, <2>3, PinGoesOn DEF instVars, ckptVars, laneVars
<1>2. CASE FetchTip(s)
  <2> DEFINE c == [cmd[s] EXCEPT !.step = "capture", !.src = src[s],
                                 !.todo = Tracker \ cmd[s].dropped]
  <2>1. /\ cmd[s].step = "source" /\ Go(s, c) /\ tip' = [tip EXCEPT ![s][cmd[s].id] = src[s]]
        /\ UNCHANGED <<instVars, log, laneVars, head, gc, cut, bounds>>
    BY <1>2 DEF FetchTip
  <2>2. cmd[s].op \in Captures
    BY <1>0, <2>1, NoCmdType DEF Phase, Memory, Ops, Captures
  <2>3. /\ c.op = cmd[s].op /\ c.step = "capture" /\ c.bind = cmd[s].bind /\ c.id = cmd[s].id
        /\ c.dump = cmd[s].dump /\ c.src = src[s] /\ c.todo = Tracker \ cmd[s].dropped
        /\ c.dropped = cmd[s].dropped
    BY <1>0 DEF Memory
  <2> HIDE DEF c
  <2>4. cmd'[s] = c /\ \A r \in Slug \ {s} : cmd'[r] = cmd[r]
    BY <1>0, <2>1, GoingTo
  <2>5. Settled(c) \subseteq Settled(cmd[s])
    BY <2>1, <2>2, <2>3 DEF Settled
  <2>6. MemIn(c, pins)
    <3>1. Lasting(Settled(c)) \subseteq Lasting(Settled(cmd[s]))
      BY <2>5 DEF Lasting
    <3> QED
      BY <1>0, <2>2, <2>3, <3>1 DEF MemIn, In, Captures
  <2>7. Resolves(s)'
    BY <1>0, <2>1, <2>4, <2>6
       DEF Resolves, RecIn, ClaimsIn, In, Ids, instVars, laneVars
  <2>8. Shaped(c) /\ UndoSaved(s)'
    BY <2>2, <2>3, <2>4 DEF Shaped, UndoSaved, Captures
  <2>9. cmd[s].id \in Id /\ cmd[s].id \notin Ids(s)
    BY <1>0, <2>1, <2>2 DEF Numbered
  <2>10. /\ tip'[s][cmd[s].id] = src[s] /\ \A i \in Id \ {cmd[s].id} : tip'[s][i] = tip[s][i]
         /\ \A r \in Slug \ {s} : tip'[r] = tip[r]
    BY <1>0, <2>1, <2>9 DEF TypeOK
  <2>11. Sourced(s)'
    BY <1>0, <2>1, <2>3, <2>4, <2>9, <2>10 DEF Sourced, Ids
  <2> QED
    BY <2>1, <2>4, <2>7, <2>8, <2>10, <2>11 DEF PinMoves, instVars, laneVars
<1>3. ASSUME NEW t \in Deposit, DepositStep(s, t) PROVE PinMoves(s)
  <2>1. UNCHANGED <<instVars, ckptVars, main, head, gc, cut, bounds>>
        /\ cmd[s].step = "capture" /\ t \in Tracker /\ t \in cmd[s].todo
    BY <1>3 DEF DepositStep, Tracker
  <2> DEFINE r == CommitRev(db[s][t], cmd[s].bind[t])
             c == [cmd[s] EXCEPT !.todo = @ \ {t}, !.bind[t] = r, !.dump[t] = r]
             d == [cmd[s] EXCEPT !.todo = @ \ {t}]
  <2>2. cmd[s].op \notin {"none", "remove", "spawn"}
    BY <1>0, <2>1, NoCmdType DEF Phase
  <2>3. CASE Commit(t, db[s][t], r) /\ Go(s, c)
    <3>1. pins \subseteq pins' /\ <<t, r>> \in pins'
      BY <2>3, CommitPins
    <3> HIDE DEF r
    <3>2. /\ c.op = cmd[s].op /\ c.id = cmd[s].id /\ c.src = cmd[s].src /\ c.step = "capture"
          /\ c.dropped = cmd[s].dropped /\ c.todo = cmd[s].todo \ {t}
          /\ c.bind[t] = r /\ (\A u \in Tracker \ {t} : c.bind[u] = cmd[s].bind[u])
          /\ c.dump[t] = r /\ (\A u \in Deposit \ {t} : c.dump[u] = cmd[s].dump[u])
      BY <1>0, <2>1 DEF Memory, Binding
    <3> HIDE DEF c
    <3>3. Settled(c) \subseteq Settled(cmd[s]) \cup {t} /\ Settled(cmd[s]) \subseteq Tracker
      BY <1>0, <2>1, <3>2 DEF Settled, Memory, Tracker
    <3>4. In(c.bind, Lasting(Settled(c)), pins')
      <4>1. Lasting(Settled(c)) \subseteq Lasting(Settled(cmd[s])) \cup {t}
            /\ Lasting(Settled(cmd[s])) \subseteq Tracker
        BY <3>3 DEF Lasting
      <4> QED
        BY <1>0, <2>2, <3>1, <3>2, <4>1, InWith DEF MemIn
    <3>5. In(c.dump, Deposit, pins')
      BY <1>0, <2>2, <3>1, <3>2, InWith DEF MemIn
    <3>6. Shaped(c)
      BY <1>0, <2>2, <3>2 DEF Shaped
    <3>7. MemIn(c, pins')
      BY <3>4, <3>5 DEF MemIn
    <3>8. UNCHANGED <<rec, log, tip, cut, gc>>
      BY <2>1 DEF instVars, ckptVars
    <3> QED
      BY <2>1, <2>2, <2>3, <3>1, <3>2, <3>6, <3>7, <3>8, PinsOf, PinGoesOn DEF UndoSaved
  <2>4. CASE UNCHANGED <<pins, tree, lastRev>> /\ Go(s, d)
    <3>1. /\ d.op = cmd[s].op /\ d.id = cmd[s].id /\ d.src = cmd[s].src /\ d.step = "capture"
          /\ d.dropped = cmd[s].dropped /\ d.bind = cmd[s].bind /\ d.dump = cmd[s].dump
          /\ d.todo \subseteq cmd[s].todo
      BY <1>0, <2>1 DEF Memory
    <3> HIDE DEF d
    <3>2. Lasting(Settled(d)) = Lasting(Settled(cmd[s]))
      BY DEF Beside, Lasting
    <3> QED
      BY <1>0, <2>1, <2>2, <2>4, <3>1, <3>2, PinGoesOn
         DEF MemIn, Shaped, instVars, ckptVars
  <2>5. CASE UNCHANGED <<pins, tree, lastRev>> /\ Go(s, NoCmd)
    BY <2>1, <2>5, NoCmdNames, PinGoesOn DEF instVars, ckptVars, Captures
  <2> QED
    BY <1>3, <2>3, <2>4, <2>5
       DEF DepositStep, DepositOk, DepositDegraded, DepositAborts, Done
<1>4. ASSUME NEW t \in Owned, CaptureStep(s, t) PROVE PinMoves(s)
  <2> DEFINE r == CommitRev(files[s][t], cmd[s].bind[t])
             c == [cmd[s] EXCEPT !.todo = @ \ {t}, !.bind[t] = r]
  <2>1. UNCHANGED <<instVars, ckptVars, main, head, gc, cut, bounds>>
        /\ cmd[s].step = "capture" /\ t \in Tracker /\ cmd[s].op \in Captures
    BY <1>4 DEF CaptureStep, Tracker, Captures
  <2>2. CASE Commit(t, files[s][t], r) /\ Go(s, c)
    <3>1. pins \subseteq pins' /\ <<t, r>> \in pins'
      BY <2>2, CommitPins
    <3> HIDE DEF r
    <3>2. /\ c.op = cmd[s].op /\ c.id = cmd[s].id /\ c.src = cmd[s].src /\ c.step = "capture"
          /\ c.dropped = cmd[s].dropped /\ c.todo = cmd[s].todo \ {t} /\ c.dump = cmd[s].dump
          /\ c.bind[t] = r /\ (\A u \in Tracker \ {t} : c.bind[u] = cmd[s].bind[u])
      BY <1>0, <2>1 DEF Memory, Binding
    <3> HIDE DEF c
    <3>3. Settled(c) \subseteq Settled(cmd[s]) \cup {t} /\ Settled(cmd[s]) \subseteq Tracker
      BY <1>0, <2>1, <3>2 DEF Settled, Memory, Tracker
    <3>4. In(c.bind, Lasting(Settled(c)), pins')
      <4>1. Lasting(Settled(c)) \subseteq Lasting(Settled(cmd[s])) \cup {t}
            /\ Lasting(Settled(cmd[s])) \subseteq Tracker
        BY <3>3 DEF Lasting
      <4>2. In(cmd[s].bind, Lasting(Settled(cmd[s])), pins)
        BY <1>0, <2>1 DEF MemIn, Captures
      <4> QED
        BY <3>1, <3>2, <4>1, <4>2, InWith
    <3>5. In(c.dump, Deposit, pins')
      BY <1>0, <2>1, <3>1, <3>2 DEF MemIn, In, Captures
    <3> QED
      BY <2>1, <2>2, <3>1, <3>2, <3>4, <3>5, PinGoesOn
         DEF MemIn, Shaped, instVars, ckptVars, Captures
  <2>3. CASE Go(s, NoCmd) /\ UNCHANGED <<pins, tree, lastRev>>
    BY <2>1, <2>3, NoCmdNames, PinGoesOn DEF instVars, ckptVars, Captures
  <2> QED
    BY <1>4, <2>2, <2>3 DEF CaptureStep, Done
<1>5. CASE SaveCheckpoint(s)
  <2> DEFINE c == [cmd[s] EXCEPT !.step = "record"]
             k == [bind |-> cmd[s].bind, dump |-> cmd[s].dump,
                   dropped |-> cmd[s].dropped, src |-> cmd[s].src, done |-> "unset"]
  <2>1. cmd[s].step = "capture" /\ cmd[s].todo = {} /\ cmd[s].op \in Captures /\ Go(s, c)
        /\ log' = [log EXCEPT ![s][cmd[s].id] = k]
        /\ UNCHANGED <<instVars, tip, laneVars, head, gc, cut, bounds>>
    BY <1>5 DEF SaveCheckpoint, Captures
  <2>2. /\ c.op = cmd[s].op /\ c.bind = cmd[s].bind /\ c.dump = cmd[s].dump
        /\ c.step = "record"
    BY <1>0 DEF Memory
  <2>3. k.bind = cmd[s].bind /\ k.dump = cmd[s].dump /\ k.src = cmd[s].src
    OBVIOUS
  <2>4. cmd[s].id \in Id /\ gc.step = "idle"
    BY <1>0, <2>1, Alone DEF Numbered, Captures
  <2> HIDE DEF c, k
  <2>5. /\ \A r \in Slug \ {s} : log'[r] = log[r]
        /\ \A i \in Id : log'[s][i] = IF i = cmd[s].id THEN k ELSE log[s][i]
    BY <1>0, <2>1, <2>4 DEF TypeOK
  <2>6. cmd'[s] = c /\ \A r \in Slug \ {s} : cmd'[r] = cmd[r]
    BY <1>0, <2>1, GoingTo
  <2>7. In(cmd[s].bind, Tracker, pins) /\ In(cmd[s].dump, Deposit, pins)
    <3>1. Lasting(Settled(cmd[s])) = Tracker
      BY <2>1 DEF Settled, Lasting
    <3> QED
      BY <1>0, <2>1, <3>1 DEF MemIn, Captures
  <2>8. MemIn(c, pins)
    <3>1. Lasting(Settled(c)) = Tracker
      BY <2>1, <2>2 DEF Settled, Lasting
    <3> QED
      BY <2>2, <2>7, <3>1 DEF MemIn
  <2>9. ClaimsIn(s, pins)'
    BY <1>0, <2>1, <2>3, <2>5, <2>7 DEF ClaimsIn, Ids, laneVars, In
  <2>10. Resolves(s)'
    BY <1>0, <2>1, <2>6, <2>8, <2>9 DEF Resolves, RecIn, In, instVars, laneVars
  <2>11. (Shaped(cmd[s]) /\ UndoSaved(s))'
    BY <2>1, <2>2, <2>6 DEF Shaped, UndoSaved, Captures
  <2>12. Sourced(s)'
    BY <1>0, <2>1, <2>2, <2>3, <2>5, <2>6 DEF Sourced, Ids
  <2> QED
    BY <2>1, <2>4, <2>5, <2>6, <2>10, <2>11, <2>12 DEF PinMoves, instVars, laneVars
<1>6. CASE SaveRecord(s)
  <2>1. cmd[s].step = "record" /\ SaveMemory(s)
        /\ UNCHANGED <<dir, files, src, db, ckptVars, laneVars, head, gc, cut, bounds>>
    BY <1>6 DEF SaveRecord
  <2>2. cmd[s].op \in Captures \cup {"capture", "drop"}
    BY <1>0, <2>1, NoCmdType DEF Phase, Memory, Ops, Captures
  <2>3. ASSUME NEW c, Go(s, c), MemIn(c, pins), Shaped(c),
               c.op = "undo" => c.bind = cmd[s].bind,
               ~ (c.op \in Captures /\ c.step = "capture")
        PROVE  PinMoves(s)
    BY <2>1, <2>2, <2>3, PinSaves DEF ckptVars, laneVars, Captures
  <2>4. ASSUME NEW c, Go(s, c), c.op = cmd[s].op, c.bind = cmd[s].bind,
               c.dump = cmd[s].dump, c.dropped = cmd[s].dropped,
               c.step \notin {"source", "capture"}, c.op = "drop" => c.todo = cmd[s].todo
        PROVE  PinMoves(s)
    <3>1. Settled(c) \subseteq Settled(cmd[s])
      BY <2>1, <2>4 DEF Settled
    <3>2. Lasting(Settled(c)) \subseteq Lasting(Settled(cmd[s]))
      BY <3>1 DEF Lasting
    <3>3. MemIn(c, pins) /\ Shaped(c)
      BY <1>0, <2>4, <3>2 DEF MemIn, In, Shaped
    <3> QED
      BY <2>3, <2>4, <3>3
  <2>5. CASE Go(s, NoCmd)
    BY <2>3, <2>5, NoCmdNames DEF Captures
  <2> DEFINE f == [cmd[s] EXCEPT !.step = "fetch"]
             g == [cmd[s] EXCEPT !.step = "clear"]
             h == [cmd[s] EXCEPT !.step = "resources", !.todo = Restored(s)]
  <2>6. Go(s, f) \/ Go(s, g) \/ (cmd[s].op = "undo" /\ Go(s, h)) \/ Go(s, NoCmd)
    BY <1>6 DEF SaveRecord, Done
  <2>7. /\ f.op = cmd[s].op /\ f.bind = cmd[s].bind /\ f.dump = cmd[s].dump
         /\ f.dropped = cmd[s].dropped /\ f.todo = cmd[s].todo /\ f.step = "fetch"
    BY <1>0 DEF Memory
  <2>8. /\ g.op = cmd[s].op /\ g.bind = cmd[s].bind /\ g.dump = cmd[s].dump
         /\ g.dropped = cmd[s].dropped /\ g.todo = cmd[s].todo /\ g.step = "clear"
    BY <1>0 DEF Memory
  <2>9. /\ h.op = cmd[s].op /\ h.bind = cmd[s].bind /\ h.dump = cmd[s].dump
         /\ h.dropped = cmd[s].dropped /\ h.step = "resources"
    BY <1>0 DEF Memory
  <2> HIDE DEF f, g, h
  <2>10. Go(s, f) => PinMoves(s)
    BY <2>4, <2>7
  <2>11. Go(s, g) => PinMoves(s)
    BY <2>4, <2>8
  <2>12. cmd[s].op = "undo" /\ Go(s, h) => PinMoves(s)
    BY <2>4, <2>9
  <2> QED
    BY <2>5, <2>6, <2>10, <2>11, <2>12
<1> QED
  BY <1>1, <1>2, <1>3, <1>4, <1>5, <1>6 DEF CheckpointNext

\* An undo past its safety checkpoint, which has settled every tracker.
LEMMA UndoSettled ==
    ASSUME PinInv, NEW s \in Slug, cmd[s].op = "undo", cmd[s].step \notin {"source", "capture"}
    PROVE  In(cmd[s].bind, Tracker, pins) /\ In(cmd[s].dump, Deposit, pins)
<1>1. Lasting(Settled(cmd[s])) = Tracker
  BY DEF Settled, Lasting, Captures
<1> QED
  BY <1>1, PinsOf DEF MemIn

\* Its next step, when it changes no record and no checkpoint.
LEMMA UndoGoesOn ==
    ASSUME PinInv, NEW s \in Slug, cmd[s].op = "undo",
           cmd[s].step \notin {"source", "capture"},
           NEW c, Go(s, c), UNCHANGED <<rec, log, tip, pins, cut, gc>>,
           \/ c = NoCmd
           \/ /\ c.op = "undo" /\ c.step \notin {"source", "capture", "fetch"}
              /\ In(c.bind, Tracker, pins) /\ c.dump = cmd[s].dump
              /\ c.step = "rebind" => cmd[s].step = "fetch" /\ c.bind = cmd[s].bind
    PROVE  PinMoves(s)
<1>1. CASE c = NoCmd
  BY <1>1, NoCmdNames, PinGoesOn DEF Captures
<1>2. CASE c.op = "undo" /\ c.step \notin {"source", "capture", "fetch"}
           /\ In(c.bind, Tracker, pins) /\ c.dump = cmd[s].dump
           /\ (c.step = "rebind" => cmd[s].step = "fetch" /\ c.bind = cmd[s].bind)
  <2>1. Lasting(Settled(c)) \subseteq Tracker
    BY DEF Settled, Lasting
  <2>2. MemIn(c, pins) /\ Shaped(c)
    BY <1>2, <2>1, UndoSettled DEF MemIn, In, Shaped
  <2>3. c.step = "rebind" => rec[s].bind = c.bind
    BY <1>2, PinsOf DEF UndoSaved
  <2> QED
    BY <1>2, <2>2, <2>3, PinGoesOn
<1> QED
  BY <1>1, <1>2

LEMMA UndoPins ==
    ASSUME Beside, PinInv, LifeInv', NEW s \in Slug, UndoNext(s) PROVE PinMoves(s)
<1>0. /\ TypeOK /\ Phase(cmd[s]) /\ Numbered(s) /\ cmd[s] \in Memory
      /\ RecIn(s, pins) /\ ClaimsIn(s, pins) /\ MemIn(cmd[s], pins)
      /\ Shaped(cmd[s]) /\ UndoSaved(s) /\ Sourced(s)
  BY PinsOf
<1>1. ASSUME NEW i \in Id, NEW only \in SUBSET Deposit, BeginUndo(s, i, only)
      PROVE  PinMoves(s)
  <2> DEFINE b == [files |-> files[s], src |-> src[s], db |-> db[s]]
             d == Loaded(s, "undo", "source")
             c == [d EXCEPT !.id = NextId(s), !.to = i, !.only = only, !.before = b]
  <2>1. Go(s, c) /\ UNCHANGED <<instVars, ckptVars, laneVars, head, gc, cut, bounds>>
    BY <1>1 DEF BeginUndo
  <2>2. rec[s] # NoRecord
    BY <1>1 DEF BeginUndo, Live
  <2>a. "undo" \in Ops /\ "source" \in Steps
    BY DEF Ops, Steps
  <2>3. /\ d \in Memory /\ d.op = "undo" /\ d.step = "source" /\ d.bind = rec[s].bind
        /\ d.dropped = rec[s].dropped /\ d.dump = NoDump
    BY <1>0, <2>2, <2>a, Loading
  <2> HIDE DEF d, b
  <2>4. /\ c.op = "undo" /\ c.step = "source" /\ c.bind = rec[s].bind
        /\ c.dropped = rec[s].dropped /\ c.dump = NoDump
    BY <2>3 DEF Memory
  <2> HIDE DEF c
  <2>5. MemIn(c, pins) /\ Shaped(c)
    BY <2>2, <2>4, LoadedIn DEF Settled
  <2> QED
    BY <2>1, <2>4, <2>5, PinGoesOn DEF instVars, ckptVars, laneVars
<1>2. CASE UndoFetch(s)
  <2> DEFINE c == [cmd[s] EXCEPT !.step = "rebind"]
  <2>1. /\ cmd[s].step = "fetch" /\ (Go(s, c) \/ Go(s, NoCmd))
        /\ UNCHANGED <<instVars, ckptVars, laneVars, head, gc, cut, bounds>>
    BY <1>2 DEF UndoFetch, Done
  <2>2. cmd[s].op = "undo"
    BY <1>0, <2>1, NoCmdType DEF Phase, Memory, Ops
  <2>3. c.op = "undo" /\ c.step = "rebind" /\ c.bind = cmd[s].bind /\ c.dump = cmd[s].dump
    BY <1>0, <2>2 DEF Memory
  <2> HIDE DEF c
  <2> QED
    BY <2>1, <2>2, <2>3, UndoSettled, UndoGoesOn DEF instVars, ckptVars, laneVars
<1>3. CASE UndoRebind(s)
  <2> DEFINE c == [cmd[s] EXCEPT !.step = "worktree", !.dropped = Target(s).dropped]
             k == [rec[s] EXCEPT !.dropped = Target(s).dropped]
  <2>1. /\ cmd[s].step = "rebind" /\ Go(s, c)
        /\ UNCHANGED <<dir, src, db, ckptVars, laneVars, head, gc, cut, bounds>>
    BY <1>3 DEF UndoRebind
  <2>2. cmd[s].op = "undo"
    BY <1>0, <2>1, NoCmdType DEF Phase, Memory, Ops
  <2>3. /\ c.op = "undo" /\ c.step = "worktree" /\ c.bind = cmd[s].bind
        /\ c.dump = cmd[s].dump
    BY <1>0, <2>2 DEF Memory
  <2>4. rec[s] \in Record
    BY <1>0, <2>2, Recorded DEF Numbered
  <2>5. k.bind = rec[s].bind
    BY <2>4 DEF Record
  <2>6. rec' = [rec EXCEPT ![s] = k]
    BY <1>0, <1>3 DEF UndoRebind, TypeOK
  <2> HIDE DEF c, k
  <2>7. rec'[s] = k /\ \A r \in Slug \ {s} : rec'[r] = rec[r]
    BY <1>0, <2>6 DEF TypeOK
  <2>8. cmd'[s] = c /\ \A r \in Slug \ {s} : cmd'[r] = cmd[r]
    BY <1>0, <2>1, GoingTo
  <2>9. gc.step = "idle"
    BY <2>2, Alone
  <2>10. In(cmd[s].bind, Tracker, pins) /\ In(cmd[s].dump, Deposit, pins)
    BY <2>1, <2>2, UndoSettled
  <2>11. Lasting(Settled(c)) \subseteq Tracker /\ Lasting(rec'[s].dropped) \subseteq Tracker
    <3>1. rec'[s] # NoRecord => rec'[s].dropped \subseteq Owned
      BY DEF LifeInv, TypeOK, Record
    <3>2. rec'[s] # NoRecord
      <4>1. k \in Record
        BY <1>0, <2>2, <2>4, TargetThere DEF Record, k
      <4> HIDE DEF k
      <4> QED
        BY <2>7, <4>1 DEF Record, NoRecord
    <3> QED
      BY <3>1, <3>2 DEF Settled, Lasting, Tracker
  <2>12. rec'[s].bind = cmd[s].bind
    BY <1>0, <2>1, <2>2, <2>5, <2>7 DEF UndoSaved
  <2>13. Resolves(s)'
    <3>1. RecIn(s, pins)'
      BY <2>1, <2>10, <2>11, <2>12 DEF RecIn, In, laneVars
    <3>2. ClaimsIn(s, pins)'
      BY <1>0, <2>1 DEF ClaimsIn, In, Ids, laneVars, ckptVars
    <3>3. MemIn(c, pins)
      BY <2>3, <2>10, <2>11 DEF MemIn, In
    <3> QED
      BY <2>1, <2>8, <3>1, <3>2, <3>3 DEF Resolves, laneVars
  <2>14. (Shaped(cmd[s]) /\ UndoSaved(s) /\ Sourced(s))'
    BY <1>0, <2>1, <2>3, <2>8 DEF Shaped, UndoSaved, Sourced, Ids, ckptVars
  <2> QED
    BY <2>1, <2>7, <2>8, <2>9, <2>13, <2>14 DEF PinMoves, ckptVars, laneVars
<1>4. CASE UndoSource(s)
  <2> DEFINE c == [cmd[s] EXCEPT !.step = "restore", !.todo = Tracker \ cmd[s].dropped]
  <2>1. /\ cmd[s].step = "worktree" /\ Go(s, c)
        /\ UNCHANGED <<rec, dir, files, db, ckptVars, laneVars, head, gc, cut, bounds>>
    BY <1>4 DEF UndoSource
  <2>2. cmd[s].op = "undo"
    BY <1>0, <2>1, NoCmdType DEF Phase, Memory, Ops
  <2>3. c.op = "undo" /\ c.step = "restore" /\ c.bind = cmd[s].bind /\ c.dump = cmd[s].dump
    BY <1>0, <2>2 DEF Memory
  <2> HIDE DEF c
  <2> QED
    BY <2>1, <2>2, <2>3, UndoSettled, UndoGoesOn DEF ckptVars, laneVars
<1>5. ASSUME NEW t \in Tracker, UndoTracker(s, t) PROVE PinMoves(s)
  <2> DEFINE r == Target(s).bind[t]
             c == [cmd[s] EXCEPT !.todo = @ \ {t}, !.bind[t] = r]
  <2>1. /\ cmd[s].step = "restore" /\ cmd[s].op = "undo"
        /\ (Readable(t, r) /\ Go(s, c)) \/ Go(s, NoCmd)
        /\ UNCHANGED <<rec, dir, src, db, ckptVars, laneVars, head, gc, cut, bounds>>
    BY <1>5 DEF UndoTracker, Done
  <2> HIDE DEF r
  <2>2. /\ c.op = "undo" /\ c.step = "restore" /\ c.dump = cmd[s].dump
        /\ c.bind[t] = r /\ \A u \in Tracker \ {t} : c.bind[u] = cmd[s].bind[u]
    BY <1>0, <2>1 DEF Memory, Binding
  <2> HIDE DEF c
  <2>3. Readable(t, r) => In(c.bind, Tracker, pins)
    BY <2>1, <2>2, UndoSettled DEF In, Readable, Pinned
  <2> QED
    BY <2>1, <2>2, <2>3, UndoGoesOn DEF ckptVars, laneVars
<1>6. CASE UndoTrackersDone(s)
  <2> DEFINE c == [cmd[s] EXCEPT !.step = "resources", !.todo = Restored(s)]
  <2>1. /\ cmd[s].step = "restore" /\ cmd[s].op = "undo" /\ Go(s, c)
        /\ UNCHANGED <<instVars, ckptVars, laneVars, head, gc, cut, bounds>>
    BY <1>6 DEF UndoTrackersDone
  <2>2. c.op = "undo" /\ c.step = "resources" /\ c.bind = cmd[s].bind /\ c.dump = cmd[s].dump
    BY <1>0, <2>1 DEF Memory
  <2> HIDE DEF c
  <2> QED
    BY <2>1, <2>2, UndoSettled, UndoGoesOn DEF instVars, ckptVars, laneVars
<1>7. ASSUME NEW t \in Deposit, UndoResource(s, t) PROVE PinMoves(s)
  <2> DEFINE c == [cmd[s] EXCEPT !.todo = @ \ {t}, !.status[t] = "ready"]
             d == [cmd[s] EXCEPT !.todo = @ \ {t}, !.status[t] = "failed", !.failed = TRUE]
  <2>1. /\ cmd[s].step = "resources" /\ (Go(s, c) \/ Go(s, d) \/ Go(s, NoCmd))
        /\ UNCHANGED <<rec, dir, files, src, ckptVars, laneVars, head, gc, cut, bounds>>
    BY <1>7 DEF UndoResource, Done
  <2>2. cmd[s].op = "undo"
    BY <1>0, <2>1, NoCmdType DEF Phase, Memory, Ops
  <2>3. c.op = "undo" /\ c.step = "resources" /\ c.bind = cmd[s].bind /\ c.dump = cmd[s].dump
    BY <1>0, <2>1, <2>2 DEF Memory
  <2>4. d.op = "undo" /\ d.step = "resources" /\ d.bind = cmd[s].bind /\ d.dump = cmd[s].dump
    BY <1>0, <2>1, <2>2 DEF Memory
  <2> HIDE DEF c, d
  <2> QED
    BY <2>1, <2>2, <2>3, <2>4, UndoSettled, UndoGoesOn DEF ckptVars, laneVars
<1>8. CASE UndoResourcesDone(s)
  <2> DEFINE c == [cmd[s] EXCEPT !.step = "save"]
  <2>1. /\ cmd[s].step = "resources" /\ Go(s, c)
        /\ UNCHANGED <<instVars, ckptVars, laneVars, head, gc, cut, bounds>>
    BY <1>8 DEF UndoResourcesDone
  <2>2. cmd[s].op = "undo"
    BY <1>0, <2>1, NoCmdType DEF Phase, Memory, Ops
  <2>3. c.op = "undo" /\ c.step = "save" /\ c.bind = cmd[s].bind /\ c.dump = cmd[s].dump
    BY <1>0, <2>2 DEF Memory
  <2> HIDE DEF c
  <2> QED
    BY <2>1, <2>2, <2>3, UndoSettled, UndoGoesOn DEF instVars, ckptVars, laneVars
<1>9. CASE SaveLast(s)
  <2> DEFINE c == [cmd[s] EXCEPT !.step = "stamp"]
  <2>1. /\ cmd[s].step = "save" /\ SaveMemory(s)
        /\ (cmd[s].op = "undo" /\ Go(s, c)) \/ Go(s, NoCmd)
        /\ UNCHANGED <<dir, files, src, db, ckptVars, laneVars, head, gc, cut, bounds>>
    BY <1>9 DEF SaveLast, Done
  <2>2. cmd[s].op \notin {"none", "spawn", "remove"}
    BY <1>0, <2>1, NoCmdType DEF Phase
  <2>3. CASE cmd[s].op = "undo" /\ Go(s, c)
    <3>1. c.op = "undo" /\ c.step = "stamp" /\ c.bind = cmd[s].bind /\ c.dump = cmd[s].dump
      BY <1>0, <2>3 DEF Memory
    <3> HIDE DEF c
    <3>2. Lasting(Settled(c)) \subseteq Tracker
      BY DEF Settled, Lasting
    <3>3. MemIn(c, pins) /\ Shaped(c)
      BY <2>1, <2>3, <3>1, <3>2, UndoSettled DEF MemIn, In, Shaped
    <3> QED
      BY <2>1, <2>2, <2>3, <3>1, <3>3, PinSaves DEF ckptVars, laneVars
  <2>4. CASE Go(s, NoCmd)
    BY <2>1, <2>2, <2>4, NoCmdNames, PinSaves DEF ckptVars, laneVars, Captures
  <2> QED
    BY <2>1, <2>3, <2>4
<1>10. CASE UndoStamp(s)
  <2> DEFINE v == IF cmd[s].failed THEN "no" ELSE "yes"
             k == [log[s][cmd[s].id] EXCEPT !.done = v]
  <2>1. cmd[s].step = "stamp" /\ Go(s, NoCmd)
        /\ UNCHANGED <<instVars, tip, laneVars, head, gc, cut, bounds>>
    BY <1>10 DEF UndoStamp, Done
  <2>2. cmd[s].op = "undo"
    BY <1>0, <2>1, NoCmdType DEF Phase, Memory, Ops
  <2>3. cmd[s].id \in Ids(s) /\ cmd[s].id \in Id /\ gc.step = "idle"
    BY <1>0, <2>1, <2>2, Alone DEF Numbered, Captures
  <2>4. log[s][cmd[s].id] \in Ckpt
    BY <1>0, <2>3 DEF TypeOK, Ids
  <2>5. log' = [log EXCEPT ![s][cmd[s].id] = k]
    BY <1>0, <1>10, <2>3 DEF UndoStamp, TypeOK
  <2>6. /\ k.bind = log[s][cmd[s].id].bind /\ k.dump = log[s][cmd[s].id].dump
        /\ k.src = log[s][cmd[s].id].src
    BY <2>4 DEF Ckpt
  <2> HIDE DEF k
  <2>7. /\ \A r \in Slug \ {s} : log'[r] = log[r]
        /\ \A i \in Id : log'[s][i] = IF i = cmd[s].id THEN k ELSE log[s][i]
    BY <1>0, <2>3, <2>5 DEF TypeOK
  <2>8. \A i \in Ids(s)' : /\ i \in Ids(s) /\ log'[s][i].bind = log[s][i].bind
                           /\ log'[s][i].dump = log[s][i].dump
                           /\ log'[s][i].src = log[s][i].src
    BY <2>3, <2>6, <2>7 DEF Ids
  <2>9. cmd'[s] = NoCmd /\ \A r \in Slug \ {s} : cmd'[r] = cmd[r]
    BY <1>0, <2>1, GoingTo
  <2>10. Resolves(s)'
    BY <1>0, <2>1, <2>8, <2>9, NoCmdNames
       DEF Resolves, RecIn, ClaimsIn, In, instVars, laneVars
  <2>11. (Shaped(cmd[s]) /\ UndoSaved(s) /\ Sourced(s))'
    BY <1>0, <2>1, <2>8, <2>9, NoCmdNames DEF UndoSaved, Sourced, Captures
  <2> QED
    BY <2>1, <2>3, <2>7, <2>9, <2>10, <2>11 DEF PinMoves, instVars, laneVars
<1> QED
  BY <1>1, <1>2, <1>3, <1>4, <1>5, <1>6, <1>7, <1>8, <1>9, <1>10 DEF UndoNext

LEMMA TrackerPins ==
    ASSUME Beside, PinInv, LifeInv', NEW s \in Slug, TrackerNext(s) PROVE PinMoves(s)
<1>0. /\ TypeOK /\ Phase(cmd[s]) /\ Numbered(s) /\ cmd[s] \in Memory
      /\ RecIn(s, pins) /\ ClaimsIn(s, pins) /\ MemIn(cmd[s], pins)
      /\ Shaped(cmd[s]) /\ UndoSaved(s) /\ Sourced(s)
  BY PinsOf
<1> SUFFICES ASSUME NEW t \in Owned,
                    \/ BeginCapture(s, t) \/ BeginPull(s, t)
                    \/ BeginDrop(s, t) \/ BeginUse(s, t)
                    \/ \E r \in Rev : BeginCheckout(s, t, r)
                    \/ TrackerCapture(s, t) \/ RestoreRev(s, t) \/ DropClear(s, t)
             PROVE  PinMoves(s)
  BY DEF TrackerNext
<1> t \in Tracker
  BY DEF Tracker
<1>1. ASSUME NEW c, Go(s, c), UNCHANGED <<instVars, ckptVars, laneVars, head, gc, cut, bounds>>,
             rec[s] # NoRecord, c.bind = rec[s].bind, c.dropped \subseteq rec[s].dropped,
             c.dump = NoDump, c.op \in TrackerOps,
             c.op = "drop" => c.step = "capture" /\ \A u, v \in c.todo : u = v
      PROVE  PinMoves(s)
  <2>1. Settled(c) \subseteq c.dropped
    BY <1>1 DEF Settled, TrackerOps, Captures
  <2>2. MemIn(c, pins) /\ Shaped(c)
    BY <1>1, <2>1, LoadedIn DEF TrackerOps
  <2> QED
    BY <1>1, <2>2, PinGoesOn DEF instVars, ckptVars, laneVars, TrackerOps, Captures
<1>2. ASSUME NEW op \in TrackerOps, NEW step \in Steps, rec[s] # NoRecord
      PROVE  LET d == Loaded(s, op, step)
             IN  /\ d \in Memory /\ d.op = op /\ d.step = step /\ d.bind = rec[s].bind
                 /\ d.dropped = rec[s].dropped /\ d.dump = NoDump
  <2>1. op \in Ops
    BY DEF TrackerOps, Ops
  <2> QED
    BY <1>0, <1>2, <2>1, Loading
<1>3. CASE BeginCapture(s, t)
  <2> DEFINE d == Loaded(s, "capture", "capture")
             c == [d EXCEPT !.todo = {t}]
  <2>1. BeginTracker(s, "capture", c)
    BY <1>3, Zenon DEF BeginCapture
  <2> HIDE DEF c
  <2>2. rec[s] # NoRecord /\ Go(s, c)
        /\ UNCHANGED <<instVars, ckptVars, laneVars, head, gc, cut, bounds>>
    BY <2>1 DEF BeginTracker, Live
  <2>3. /\ d \in Memory /\ d.op = "capture" /\ d.step = "capture" /\ d.bind = rec[s].bind
        /\ d.dropped = rec[s].dropped /\ d.dump = NoDump
    BY <1>2, <2>2 DEF TrackerOps, Steps
  <2> HIDE DEF d
  <2>4. /\ c.op = "capture" /\ c.bind = rec[s].bind /\ c.dropped = rec[s].dropped
        /\ c.dump = NoDump
    BY <2>3 DEF Memory, c
  <2> QED
    BY <1>1, <2>2, <2>4 DEF TrackerOps
<1>4. CASE BeginPull(s, t)
  <2> DEFINE f == CaptureFirst(s, t)
             d == Loaded(s, "pull", f)
             c == [d EXCEPT !.todo = {t}]
  <2>0. f \in Steps
    BY DEF CaptureFirst, Steps
  <2>1. BeginTracker(s, "pull", c)
    BY <1>4, Zenon DEF BeginPull
  <2> HIDE DEF c, f
  <2>2. rec[s] # NoRecord /\ Go(s, c)
        /\ UNCHANGED <<instVars, ckptVars, laneVars, head, gc, cut, bounds>>
    BY <2>1 DEF BeginTracker, Live
  <2>3. /\ d \in Memory /\ d.op = "pull" /\ d.bind = rec[s].bind
        /\ d.dropped = rec[s].dropped /\ d.dump = NoDump
    BY <1>2, <2>0, <2>2 DEF TrackerOps
  <2> HIDE DEF d
  <2>4. /\ c.op = "pull" /\ c.bind = rec[s].bind /\ c.dropped = rec[s].dropped
        /\ c.dump = NoDump
    BY <2>3 DEF Memory, c
  <2> QED
    BY <1>1, <2>2, <2>4 DEF TrackerOps
<1>5. CASE BeginDrop(s, t)
  <2> DEFINE d == Loaded(s, "drop", "capture")
             c == [d EXCEPT !.todo = {t}]
  <2>1. BeginTracker(s, "drop", c)
    BY <1>5, Zenon DEF BeginDrop
  <2> HIDE DEF c
  <2>2. rec[s] # NoRecord /\ Go(s, c)
        /\ UNCHANGED <<instVars, ckptVars, laneVars, head, gc, cut, bounds>>
    BY <2>1 DEF BeginTracker, Live
  <2>3. /\ d \in Memory /\ d.op = "drop" /\ d.step = "capture" /\ d.bind = rec[s].bind
        /\ d.dropped = rec[s].dropped /\ d.dump = NoDump
    BY <1>2, <2>2 DEF TrackerOps, Steps
  <2> HIDE DEF d
  <2>4. /\ c.op = "drop" /\ c.bind = rec[s].bind /\ c.dropped = rec[s].dropped
        /\ c.dump = NoDump /\ c.step = "capture" /\ c.todo = {t}
    BY <2>3 DEF Memory, c
  <2> QED
    BY <1>1, <2>2, <2>4 DEF TrackerOps
<1>6. CASE BeginUse(s, t)
  <2> DEFINE f == IF rec[s].bind[t] # 0 THEN "restore" ELSE CaptureFirst(s, t)
             d == Loaded(s, "use", f)
             c == [d EXCEPT !.todo = {t}, !.to = rec[s].bind[t], !.dropped = @ \ {t}]
  <2>0. f \in Steps
    BY DEF CaptureFirst, Steps
  <2>1. BeginTracker(s, "use", c)
    BY <1>6, Zenon DEF BeginUse
  <2> HIDE DEF c, f
  <2>2. rec[s] # NoRecord /\ Go(s, c)
        /\ UNCHANGED <<instVars, ckptVars, laneVars, head, gc, cut, bounds>>
    BY <2>1 DEF BeginTracker, Live
  <2>3. /\ d \in Memory /\ d.op = "use" /\ d.bind = rec[s].bind
        /\ d.dropped = rec[s].dropped /\ d.dump = NoDump
    BY <1>2, <2>0, <2>2 DEF TrackerOps
  <2> HIDE DEF d
  <2>4. /\ c.op = "use" /\ c.bind = rec[s].bind /\ c.dropped \subseteq rec[s].dropped
        /\ c.dump = NoDump
    BY <2>3 DEF Memory, c
  <2> QED
    BY <1>1, <2>2, <2>4 DEF TrackerOps
<1>7. ASSUME NEW r \in Rev, BeginCheckout(s, t, r) PROVE PinMoves(s)
  <2> DEFINE d == Loaded(s, "checkout", "capture")
             c == [d EXCEPT !.todo = {t}, !.to = r]
  <2>1. BeginTracker(s, "checkout", c)
    BY <1>7, Zenon DEF BeginCheckout
  <2> HIDE DEF c
  <2>2. rec[s] # NoRecord /\ Go(s, c)
        /\ UNCHANGED <<instVars, ckptVars, laneVars, head, gc, cut, bounds>>
    BY <2>1 DEF BeginTracker, Live
  <2>3. /\ d \in Memory /\ d.op = "checkout" /\ d.bind = rec[s].bind
        /\ d.dropped = rec[s].dropped /\ d.dump = NoDump
    BY <1>2, <2>2 DEF TrackerOps, Steps
  <2> HIDE DEF d
  <2>4. /\ c.op = "checkout" /\ c.bind = rec[s].bind /\ c.dropped = rec[s].dropped
        /\ c.dump = NoDump
    BY <2>3 DEF Memory, c
  <2> QED
    BY <1>1, <2>2, <2>4 DEF TrackerOps
<1>8. CASE TrackerCapture(s, t)
  <2> DEFINE r == CommitRev(files[s][t], cmd[s].bind[t])
             c == [cmd[s] EXCEPT !.step = "record", !.bind[t] = r]
             d == [cmd[s] EXCEPT !.step = "restore"]
  <2>1. UNCHANGED <<instVars, ckptVars, main, head, gc, cut, bounds>>
        /\ cmd[s].step = "capture" /\ cmd[s].op \in TrackerOps /\ t \in cmd[s].todo
    BY <1>8 DEF TrackerCapture, TrackerOps
  <2>2. CASE Commit(t, files[s][t], r) /\ cmd[s].op \in {"capture", "drop"} /\ Go(s, c)
    <3>1. pins \subseteq pins' /\ <<t, r>> \in pins'
      BY <2>2, CommitPins
    <3> HIDE DEF r
    <3>2. /\ c.op = cmd[s].op /\ c.step = "record" /\ c.dump = cmd[s].dump
          /\ c.dropped = cmd[s].dropped /\ c.todo = cmd[s].todo
          /\ c.bind[t] = r /\ \A u \in Tracker \ {t} : c.bind[u] = cmd[s].bind[u]
      BY <1>0 DEF Memory, Binding
    <3> HIDE DEF c
    <3>3. cmd[s].op = "drop" => cmd[s].todo \subseteq {t}
      BY <1>0, <2>1 DEF Shaped
    <3>4. Lasting(Settled(c)) \subseteq Lasting(Settled(cmd[s])) \cup {t}
          /\ Lasting(Settled(cmd[s])) \subseteq Tracker
      <4>1. Settled(c) \subseteq Settled(cmd[s]) \cup {t}
        BY <2>2, <3>2, <3>3 DEF Settled, Captures
      <4> QED
        BY <4>1 DEF Lasting, Settled
    <3>5. In(cmd[s].bind, Lasting(Settled(cmd[s])), pins) /\ In(cmd[s].dump, Deposit, pins)
      BY <1>0, <2>2 DEF MemIn
    <3>6. In(c.bind, Lasting(Settled(c)), pins') /\ In(c.dump, Deposit, pins')
      BY <3>1, <3>2, <3>4, <3>5, InWith, InMore
    <3>7. Shaped(c) /\ MemIn(c, pins')
      BY <1>0, <2>2, <3>2, <3>6 DEF Shaped, MemIn
    <3>8. UNCHANGED <<rec, log, tip, cut, gc>>
      BY <2>1 DEF instVars, ckptVars
    <3> QED
      BY <2>2, <3>1, <3>2, <3>7, <3>8, PinGoesOn DEF Captures
  <2>3. CASE Commit(t, files[s][t], r) /\ cmd[s].op \notin {"capture", "drop"} /\ Go(s, d)
    <3>1. pins \subseteq pins'
      BY <2>3, CommitPins
    <3>2. /\ d.op = cmd[s].op /\ d.step = "restore" /\ d.dump = cmd[s].dump
          /\ d.dropped = cmd[s].dropped /\ d.bind = cmd[s].bind
      BY <1>0 DEF Memory
    <3> HIDE DEF d
    <3>3. Lasting(Settled(d)) \subseteq Lasting(Settled(cmd[s]))
      BY <2>1, <2>3, <3>2 DEF Lasting, Settled, TrackerOps, Captures
    <3> QED
      BY <1>0, <2>1, <2>3, <3>1, <3>2, <3>3, PinGoesOn
         DEF MemIn, In, Shaped, instVars, ckptVars, TrackerOps, Captures
  <2>4. CASE Go(s, NoCmd) /\ UNCHANGED <<pins, tree, lastRev>>
    BY <2>1, <2>4, NoCmdNames, PinGoesOn DEF instVars, ckptVars, Captures
  <2> QED
    BY <1>8, <2>2, <2>3, <2>4 DEF TrackerCapture, Done
<1>9. CASE RestoreRev(s, t)
  <2> DEFINE r == IF cmd[s].to # 0 THEN cmd[s].to ELSE main[t]
             c == [cmd[s] EXCEPT !.step = "save", !.bind[t] = r]
  <2>1. UNCHANGED <<rec, dir, src, db, ckptVars, laneVars, head, gc, cut, bounds>>
        /\ cmd[s].op \in {"checkout", "pull", "use"}
        /\ ((Readable(t, r) /\ Go(s, c)) \/ Go(s, NoCmd))
    BY <1>9 DEF RestoreRev, Done
  <2> HIDE DEF r
  <2>2. /\ c.op = cmd[s].op /\ c.step = "save" /\ c.dump = cmd[s].dump
        /\ c.dropped = cmd[s].dropped
        /\ c.bind[t] = r /\ \A u \in Tracker \ {t} : c.bind[u] = cmd[s].bind[u]
    BY <1>0 DEF Memory, Binding
  <2> HIDE DEF c
  <2>3. Lasting(Settled(c)) \subseteq Lasting(Settled(cmd[s]))
        /\ Lasting(Settled(cmd[s])) \subseteq Tracker
    BY <2>1, <2>2 DEF Lasting, Settled, Captures
  <2>4. Readable(t, r) => MemIn(c, pins)
    BY <1>0, <2>1, <2>2, <2>3 DEF MemIn, In, Readable, Pinned
  <2> QED
    BY <2>1, <2>2, <2>4, NoCmdNames, PinGoesOn
       DEF Shaped, ckptVars, laneVars, Captures
<1>10. CASE DropClear(s, t)
  <2> DEFINE c == [cmd[s] EXCEPT !.step = "save", !.dropped = @ \cup {t}]
  <2>1. UNCHANGED <<rec, dir, src, db, ckptVars, laneVars, head, gc, cut, bounds>>
        /\ cmd[s].step = "clear" /\ Go(s, c) /\ t \in cmd[s].todo
    BY <1>10 DEF DropClear
  <2>2. cmd[s].op = "drop"
    BY <1>0, <2>1, NoCmdType DEF Phase, Memory, Ops
  <2>3. /\ c.op = "drop" /\ c.step = "save" /\ c.bind = cmd[s].bind /\ c.dump = cmd[s].dump
        /\ c.dropped = cmd[s].dropped \cup {t} /\ c.todo = cmd[s].todo
    BY <1>0, <2>2 DEF Memory
  <2> HIDE DEF c
  <2>4. Lasting(Settled(c)) \subseteq Lasting(Settled(cmd[s]))
    BY <2>1, <2>2, <2>3 DEF Lasting, Settled, Captures
  <2> QED
    BY <1>0, <2>1, <2>2, <2>3, <2>4, PinGoesOn
       DEF MemIn, In, Shaped, ckptVars, laneVars, Captures
<1> QED
  BY <1>3, <1>4, <1>5, <1>6, <1>7, <1>8, <1>9, <1>10

LEMMA LifePins ==
    ASSUME Beside, PinInv, LifeInv', NEW s \in Slug, LifeNext(s) PROVE PinMoves(s)
<1>0. /\ TypeOK /\ Phase(cmd[s]) /\ Numbered(s) /\ cmd[s] \in Memory
      /\ RecIn(s, pins) /\ ClaimsIn(s, pins) /\ MemIn(cmd[s], pins)
      /\ Shaped(cmd[s]) /\ UndoSaved(s) /\ Sourced(s)
  BY PinsOf
<1>1. ASSUME NEW d \in SUBSET Owned, BeginSpawn(s, d) PROVE PinMoves(s)
  <2> DEFINE c == [NoCmd EXCEPT !.op = "spawn", !.step = "bind", !.dropped = d]
  <2>1. Go(s, c) /\ UNCHANGED <<rec, files, src, db, ckptVars, laneVars, head, gc, cut, bounds>>
    BY <1>1 DEF BeginSpawn
  <2>2. c.op = "spawn" /\ c.bind = NoBinding /\ c.dump = NoDump
    BY NoCmdType DEF NoCmd, Memory
  <2> HIDE DEF c
  <2>3. d \subseteq Tracker
    BY DEF Tracker
  <2>4. Settled(c) \subseteq Tracker
    BY DEF Settled
  <2>5. MemIn(c, pins)
    BY <2>2, <2>4 DEF MemIn, In, Lasting, NoBinding, NoDump
  <2>6. c.dropped = d
    BY NoCmdType DEF c, Memory
  <2>7. Shaped(c)
    BY <2>2, <2>3, <2>6 DEF Shaped, NoBinding
  <2> QED
    BY <2>1, <2>2, <2>5, <2>7, PinGoesOn DEF ckptVars, laneVars, Captures
<1>2. CASE SpawnBind(s)
  <2> DEFINE bound == Tracker \ cmd[s].dropped
             b == [t \in Tracker |-> IF t \in bound THEN main[t] ELSE 0]
             c == [cmd[s] EXCEPT !.step = "create", !.bind = b]
  <2>1. /\ UNCHANGED <<rec, dir, src, db, ckptVars, laneVars, head, gc, cut, bounds>>
        /\ cmd[s].step = "bind"
        /\ \/ Go(s, c) /\ \A t \in bound : Readable(t, main[t])
           \/ Go(s, NoCmd)
    BY <1>2 DEF SpawnBind, Done
  <2>2. cmd[s].op = "spawn"
    BY <1>0, <2>1, NoCmdType DEF Phase, Memory, Ops
  <2>3. c.op = "spawn" /\ c.dump = cmd[s].dump /\ c.dropped = cmd[s].dropped /\ c.bind = b
    BY <1>0, <2>2 DEF Memory
  <2>4. cmd[s].dropped \subseteq Tracker
    BY <1>0 DEF Memory, Tracker
  <2>5. \A t \in cmd[s].dropped : b[t] = 0
    BY <2>4
  <2>6. (\A t \in bound : Readable(t, main[t])) => In(b, Tracker, pins)
    BY DEF In, Readable, Pinned
  <2> HIDE DEF b, c
  <2>7. CASE Go(s, c) /\ \A t \in bound : Readable(t, main[t])
    <3>1. Lasting(Settled(c)) \subseteq Tracker
      BY DEF Lasting, Settled
    <3>2. MemIn(c, pins)
      BY <1>0, <2>2, <2>3, <2>6, <2>7, <3>1 DEF MemIn, In
    <3>3. Shaped(c)
      BY <2>3, <2>5 DEF Shaped
    <3> QED
      BY <2>1, <2>3, <2>7, <3>2, <3>3, PinGoesOn DEF ckptVars, laneVars, Captures
  <2>8. CASE Go(s, NoCmd)
    BY <2>1, <2>8, NoCmdNames, PinGoesOn DEF ckptVars, laneVars, Captures
  <2> QED
    BY <2>1, <2>7, <2>8
<1>3. CASE SpawnCreate(s)
  <2>1. /\ cmd[s].step = "create" /\ Go(s, NoCmd)
        /\ UNCHANGED <<dir, files, src, ckptVars, laneVars, head, gc, cut, bounds>>
    BY <1>3 DEF SpawnCreate, Done
  <2>2. PICK st \in Status :
            rec' = [rec EXCEPT ![s] = [bind |-> cmd[s].bind,
                                       dropped |-> cmd[s].dropped, status |-> st]]
    BY <1>3 DEF SpawnCreate
  <2>3. /\ rec'[s] = [bind |-> cmd[s].bind, dropped |-> cmd[s].dropped, status |-> st]
        /\ \A r \in Slug \ {s} : rec'[r] = rec[r]
    BY <1>0, <2>2 DEF TypeOK
  <2>4. rec'[s].bind = cmd[s].bind /\ rec'[s].dropped = cmd[s].dropped
    BY <2>3
  <2>5. cmd[s].op = "spawn"
    BY <1>0, <2>1, NoCmdType DEF Phase, Memory, Ops
  <2>6. cmd'[s] = NoCmd /\ \A r \in Slug \ {s} : cmd'[r] = cmd[r]
    BY <1>0, <2>1, GoingTo
  <2>7. RecIn(s, pins)'
    <3>1. Lasting(cmd[s].dropped) \subseteq Lasting(Settled(cmd[s]))
      BY <1>0 DEF Lasting, Settled, Memory, Tracker
    <3> QED
      BY <1>0, <2>1, <2>4, <2>5, <3>1 DEF RecIn, MemIn, In, laneVars
  <2>8. gc.step # "idle" => RecIn(s, {})'
    <3>1. gc.step # "idle" => "spawn" \in Concurrent
      BY <2>5 DEF PinInv, LifeInv, GcKnows
    <3> QED
      BY <1>0, <2>4, <2>5, <3>1 DEF RecIn, In, Lasting, Shaped
  <2>9. Resolves(s)' /\ UndoSaved(s)' /\ Sourced(s)' /\ Shaped(cmd'[s])
    BY <1>0, <2>1, <2>6, <2>7, NoCmdNames
       DEF Resolves, UndoSaved, Sourced, ClaimsIn, In, Ids, ckptVars, laneVars, Captures
  <2> QED
    BY <2>1, <2>3, <2>6, <2>8, <2>9 DEF PinMoves, ckptVars, laneVars
<1>4. ASSUME NEW c, Go(s, c), UNCHANGED <<rec, ckptVars, laneVars, gc, cut>>,
             c.op = "remove" \/ c = NoCmd
      PROVE  PinMoves(s)
  <2>1. MemIn(c, pins) /\ Shaped(c) /\ c.op \notin {"undo", "checkpoint"}
    BY <1>4, NoCmdNames DEF MemIn, Shaped
  <2> QED
    BY <1>4, <2>1, PinGoesOn DEF ckptVars, laneVars, Captures
<1>5. ASSUME NEW purge \in BOOLEAN, BeginRemove(s, purge) PROVE PinMoves(s)
  <2> DEFINE d == Loaded(s, "remove", "teardown")
             c == [d EXCEPT !.purge = purge]
  <2>1. Go(s, c) /\ rec[s] # NoRecord
        /\ UNCHANGED <<instVars, ckptVars, laneVars, head, gc, cut, bounds>>
    BY <1>5 DEF BeginRemove
  <2>a. "remove" \in Ops /\ "teardown" \in Steps
    BY DEF Ops, Steps
  <2>2. d \in Memory /\ d.op = "remove"
    BY <1>0, <2>1, <2>a, Loading
  <2> HIDE DEF d
  <2>3. c.op = "remove"
    BY <2>2 DEF Memory
  <2> QED
    BY <1>4, <2>1, <2>3 DEF instVars
<1>6. CASE RemoveTeardown(s)
  <2> DEFINE c == [cmd[s] EXCEPT !.step = "archive"]
  <2>1. cmd[s].step = "teardown" /\ Go(s, c) /\ UNCHANGED <<rec, ckptVars, laneVars, gc, cut>>
    BY <1>6 DEF RemoveTeardown
  <2>2. cmd[s].op = "remove"
    BY <1>0, <2>1, NoCmdType DEF Phase, Memory, Ops
  <2>3. c.op = "remove"
    BY <1>0, <2>2 DEF Memory
  <2> QED
    BY <1>4, <2>1, <2>3
\* What an instance has once its record or its checkpoints are gone.
<1>7. ASSUME NEW c, Go(s, c), c.op = "remove" \/ c = NoCmd,
             UNCHANGED <<laneVars, gc>>,
             rec'[s] = rec[s] \/ rec'[s] = NoRecord,
             log'[s] = log[s] \/ Ids(s)' = {},
             (log'[s] = log[s] /\ tip'[s] = tip[s] /\ cut' = cut) \/ s \in cut' \/ Ids(s)' = {},
             \A r \in Slug \ {s} : /\ rec'[r] = rec[r] /\ log'[r] = log[r]
                                   /\ tip'[r] = tip[r]
                                   /\ r \in cut' <=> r \in cut
      PROVE  PinMoves(s)
  <2>1. cmd'[s] = c /\ \A r \in Slug \ {s} : cmd'[r] = cmd[r]
    BY <1>0, <1>7, GoingTo
  <2>2. (\A S : MemIn(c, S)) /\ Shaped(c) /\ c.op \notin {"undo", "checkpoint"}
    BY <1>7, NoCmdNames DEF MemIn, Shaped
  <2>3. RecIn(s, pins)' /\ (rec'[s] = rec[s] \/ RecIn(s, {})')
    BY <1>0, <1>7 DEF RecIn, laneVars
  <2>4. ClaimsIn(s, pins)'
    BY <1>0, <1>7 DEF ClaimsIn, In, Ids, laneVars
  <2>5. Sourced(s)'
    BY <1>0, <1>7, <2>1, <2>2 DEF Sourced, Ids, Captures
  <2>6. Resolves(s)' /\ UndoSaved(s)' /\ Shaped(cmd'[s])
    BY <2>1, <2>2, <2>3, <2>4 DEF Resolves, UndoSaved
  <2>7. pins' = pins /\ gc' = gc
    BY <1>7 DEF laneVars
  <2>8. \A r \in Slug \ {s} : /\ cmd'[r] = cmd[r] /\ rec'[r] = rec[r]
                              /\ log'[r] = log[r] /\ tip'[r] = tip[r]
                              /\ r \in cut' <=> r \in cut
    BY <1>7, <2>1
  <2>9. log'[s] = log[s] \/ Ids(s)' = {}
    BY <1>7
  <2> QED
    BY <2>3, <2>5, <2>6, <2>7, <2>8, <2>9 DEF PinMoves
<1>8. CASE RemoveArchive(s)
  <2> DEFINE c == [cmd[s] EXCEPT !.step = "purge"]
  <2>1. /\ cmd[s].step = "archive" /\ (Go(s, c) \/ Go(s, NoCmd))
        /\ rec' = [rec EXCEPT ![s] = NoRecord]
        /\ UNCHANGED <<dir, files, src, db, ckptVars, laneVars, head, gc, cut, bounds>>
    BY <1>8 DEF RemoveArchive, Done
  <2>2. cmd[s].op = "remove"
    BY <1>0, <2>1, NoCmdType DEF Phase, Memory, Ops
  <2>3. c.op = "remove"
    BY <1>0, <2>2 DEF Memory
  <2> HIDE DEF c
  <2>4. rec'[s] = NoRecord /\ \A r \in Slug \ {s} : rec'[r] = rec[r]
    BY <1>0, <2>1 DEF TypeOK
  <2> QED
    BY <1>7, <2>1, <2>3, <2>4 DEF ckptVars
<1>9. CASE RemovePurge(s)
  <2> DEFINE c == [cmd[s] EXCEPT !.step = "unlog"]
  <2>1. /\ UNCHANGED <<instVars, laneVars, head, gc, bounds>>
        /\ \/ cmd[s].step = "purge" /\ PurgeTips(s) /\ Go(s, c)
           \/ PurgeLog(s) /\ Go(s, NoCmd)
    BY <1>9 DEF RemovePurge, Done
  <2>2. cmd[s].step = "purge" => c.op = "remove"
    <3>1. cmd[s].step = "purge" => cmd[s].op = "remove"
      BY <1>0, NoCmdType DEF Phase, Memory, Ops
    <3> QED
      BY <1>0, <3>1 DEF Memory
  <2> HIDE DEF c
  <2>3. CASE cmd[s].step = "purge" /\ PurgeTips(s) /\ Go(s, c)
    <3>1. log' = log /\ s \in cut' /\ \A r \in Slug \ {s} : tip'[r] = tip[r] /\ (r \in cut' <=> r \in cut)
      BY <1>0, <2>3 DEF PurgeTips, TypeOK
    <3> QED
      BY <1>7, <2>1, <2>2, <2>3, <3>1 DEF instVars
  <2>4. CASE PurgeLog(s) /\ Go(s, NoCmd)
    <3>1. tip' = tip /\ Ids(s)' = {}
          /\ \A r \in Slug \ {s} : log'[r] = log[r] /\ (r \in cut' <=> r \in cut)
      BY <1>0, <2>4 DEF PurgeLog, TypeOK, Ids
    <3> QED
      BY <1>7, <2>1, <2>4, <3>1 DEF instVars
  <2> QED
    BY <2>1, <2>3, <2>4
<1>10. CASE Edit(s) \/ LoseWorkspace(s)
  <2>1. cmd[s] = NoCmd /\ cmd' = cmd /\ UNCHANGED <<rec, ckptVars, laneVars, gc, cut>>
    BY <1>10 DEF Edit, LoseWorkspace
  <2>2. Go(s, NoCmd)
    BY <1>0, <2>1 DEF Go, TypeOK
  <2> QED
    BY <1>4, <2>1, <2>2
<1> QED
  BY <1>1, <1>2, <1>3, <1>5, <1>6, <1>8, <1>9, <1>10 DEF LifeNext

\* A `main` moves, or a rev is pinned ahead of it.
LEMMA HeadPins ==
    ASSUME PinInv, LifeInv', pins \subseteq pins', UNCHANGED <<rec, log, tip, cmd, gc, cut>>
    PROVE  PinInv'
<1>1. ASSUME NEW s \in Slug
      PROVE  (Resolves(s) /\ Shaped(cmd[s]) /\ UndoSaved(s) /\ Sourced(s) /\ GcSaves(s))'
  <2>1. Resolves(s)'
    BY <1>1, PinsOf DEF Resolves, RecIn, ClaimsIn, MemIn, In, Ids
  <2>2. (Shaped(cmd[s]) /\ UndoSaved(s) /\ Sourced(s))'
    BY <1>1, PinsOf DEF Shaped, UndoSaved, Sourced, Ids
  <2>3. GcSaves(s)'
    BY <1>1 DEF PinInv, GcSaves, RecIn, ClaimsIn, Ids
  <2> QED
    BY <2>1, <2>2, <2>3
<1> QED
  BY <1>1 DEF PinInv

\* What `claimed_by` collects is what the checkpoints name.
LEMMA Claims ==
    ASSUME TypeOK, NEW s \in Slug, NEW S PROVE ClaimsIn(s, S) <=> ClaimedBy(s) \subseteq S
<1>1. \A i \in Ids(s) : /\ log[s][i].bind \in [Tracker -> Rev0]
                        /\ log[s][i].dump \in [Deposit -> Rev0]
  BY DEF TypeOK, Ids, Ckpt, Binding
<1>2. \A t \in Tracker, r \in Rev0 : r = 0 \/ <<t, r>> \in Keys
  BY SnapshotsAssumption DEF Keys, Rev, Rev0
<1>3. \A t \in Tracker : <<t, 0>> \notin Keys
  BY SnapshotsAssumption DEF Keys, Rev
<1>4. ASSUME ClaimsIn(s, S) PROVE ClaimedBy(s) \subseteq S
  BY <1>1, <1>3, <1>4 DEF ClaimsIn, ClaimedBy, In, Tracker
<1>5. ASSUME ClaimedBy(s) \subseteq S PROVE ClaimsIn(s, S)
  BY <1>1, <1>2, <1>5 DEF ClaimsIn, ClaimedBy, In, Tracker
<1> QED
  BY <1>4, <1>5

\* A cleanup goes a step that touches nothing but what it has in memory.
LEMMA GcThinks ==
    ASSUME PinInv, LifeInv', UNCHANGED <<rec, log, tip, pins, cmd, cut>>,
           \A s \in Slug : GcSaves(s)', gc'.step = "forget" => gc'.forget \cap gc'.roots = {}
    PROVE  PinInv'
<1>1. ASSUME NEW s \in Slug PROVE (Resolves(s) /\ Shaped(cmd[s]) /\ UndoSaved(s) /\ Sourced(s))'
  <2>1. Resolves(s)'
    BY <1>1, PinsOf DEF Resolves, RecIn, ClaimsIn, MemIn, In, Ids
  <2>2. (Shaped(cmd[s]) /\ UndoSaved(s) /\ Sourced(s))'
    BY <1>1, PinsOf DEF Shaped, UndoSaved, Sourced, Ids
  <2> QED
    BY <2>1, <2>2
<1> QED
  BY <1>1 DEF PinInv

LEMMA GcPins ==
    ASSUME Beside, PinInv, LifeInv', GcNext PROVE PinInv'
<1>0. TypeOK /\ gc \in GcMemory /\ gc.step \in GcSteps
  BY DEF PinInv, LifeInv, TypeOK, GcMemory
<1>1. ASSUME NEW purge \in BOOLEAN, GcStart(purge) PROVE PinInv'
  <2> DEFINE known == {s \in Slug : rec[s] # NoRecord}
             live == {s \in known : dir[s]}
             b == [s \in Slug |-> IF s \in live THEN rec[s].bind ELSE NoBinding]
  <2>1. gc' = [NoGc EXCEPT !.step = "stale", !.purge = purge, !.claimed = known,
                           !.live = live, !.todo = known \ live, !.bind = b]
        /\ UNCHANGED <<instVars, ckptVars, laneVars, cmd, head, cut, bounds>>
    BY <1>1 DEF GcStart
  <2>2. gc'.step = "stale" /\ gc'.live = live /\ gc'.todo = known \ live /\ gc'.bind = b
    BY <2>1 DEF NoGc
  <2>3. \A s \in Slug : GcSaves(s)'
    BY <2>1, <2>2 DEF GcSaves, RecIn, instVars
  <2> QED
    BY <2>1, <2>2, <2>3, GcThinks DEF instVars, ckptVars, laneVars
<1>2. ASSUME NEW r \in Slug, GcStale(r) PROVE PinInv'
  <2>1. /\ gc.step = "stale" /\ r \in gc.todo /\ cmd[r] = NoCmd
        /\ UNCHANGED <<dir, files, src, ckptVars, laneVars, cmd, head, cut, bounds>>
    BY <1>2 DEF GcStale
  <2> DEFINE g == [gc EXCEPT !.todo = @ \ {r}]
             h == [gc EXCEPT !.todo = @ \ {r}, !.live = @ \cup {r}, !.bind[r] = rec[r].bind]
  <2>2. /\ g.step = "stale" /\ g.live = gc.live /\ g.bind = gc.bind
        /\ g.todo = gc.todo \ {r}
    BY <1>0, <2>1 DEF GcMemory
  <2>3. /\ h.step = "stale" /\ h.live = gc.live \cup {r} /\ h.todo = gc.todo \ {r}
        /\ h.bind = [gc.bind EXCEPT ![r] = rec[r].bind]
    BY <1>0, <2>1 DEF GcMemory
  <2>4. h.bind[r] = rec[r].bind /\ \A s \in Slug \ {r} : h.bind[s] = gc.bind[s]
    BY <1>0, <2>3 DEF GcMemory
  <2>5. \/ rec[r] = NoRecord /\ gc' = g /\ rec' = rec
        \/ gc' = h /\ rec' = rec
        \/ gc' = g /\ rec' = [rec EXCEPT ![r] = NoRecord]
    BY <1>2 DEF GcStale
  <2> HIDE DEF g, h
  <2>6. rec'[r] = rec[r] \/ rec'[r] = NoRecord
    BY <1>0, <2>5 DEF TypeOK
  <2>7. \A s \in Slug \ {r} : rec'[s] = rec[s]
    BY <1>0, <2>5 DEF TypeOK
  <2>8. gc'.step = "stale"
    BY <2>2, <2>3, <2>5
  <2>9. \A s \in Slug : GcSaves(s)'
    <3>1. ASSUME NEW s \in Slug \ {r} PROVE GcSaves(s)'
      <4>1. rec'[s] = rec[s] /\ (s \in gc'.live <=> s \in gc.live) /\ gc'.bind[s] = gc.bind[s]
            /\ (s \in gc'.todo <=> s \in gc.todo)
        BY <2>2, <2>3, <2>4, <2>5, <2>7
      <4>2. GcSaves(s)
        BY DEF PinInv
      <4> QED
        BY <2>1, <2>8, <4>1, <4>2 DEF GcSaves, RecIn
    <3>2. rec'[r] = NoRecord \/ (r \in gc'.live /\ rec'[r].bind = gc'.bind[r])
      BY <1>0, <2>3, <2>4, <2>5 DEF TypeOK
    <3>3. GcSaves(r)'
      BY <2>8, <3>2 DEF GcSaves, RecIn
    <3> QED
      BY <3>1, <3>3
  <2>10. ASSUME NEW s \in Slug
         PROVE  (Resolves(s) /\ Shaped(cmd[s]) /\ UndoSaved(s) /\ Sourced(s))'
    <3>1. RecIn(s, pins)'
      BY <2>1, <2>6, <2>7, PinsOf DEF RecIn, laneVars
    <3>2. (ClaimsIn(s, pins) /\ MemIn(cmd[s], pins) /\ Shaped(cmd[s]) /\ Sourced(s))'
      BY <2>1, PinsOf DEF ClaimsIn, MemIn, In, Ids, Shaped, Sourced, ckptVars, laneVars
    <3>3. UndoSaved(s)'
      BY <2>1, <2>7, PinsOf, NoCmdType DEF UndoSaved
    <3> QED
      BY <3>1, <3>2, <3>3 DEF Resolves
  <2> QED
    BY <2>8, <2>9, <2>10 DEF PinInv
<1>3. CASE GcOrphans
  <2> DEFINE work == IF gc.purge THEN {s \in Slug : Ids(s) # {}} \ gc.live ELSE {}
  <2>1. /\ gc.step = "stale" /\ gc.todo = {}
        /\ gc' = [gc EXCEPT !.step = "purge", !.todo = work]
        /\ UNCHANGED <<rec, db, ckptVars, laneVars, cmd, head, cut, bounds>>
    BY <1>3 DEF GcOrphans
  <2>2. /\ gc'.step = "purge" /\ gc'.live = gc.live /\ gc'.todo = work
        /\ gc'.bind = gc.bind /\ gc'.purge = gc.purge
    BY <1>0, <2>1 DEF GcMemory
  <2>3. ASSUME NEW s \in Slug PROVE GcSaves(s)'
    <3>1. RecIn(s, {}) \/ (s \in gc.live /\ rec[s].bind = gc.bind[s])
      BY <2>1 DEF PinInv, GcSaves
    <3>2. gc.purge /\ Ids(s)' # {} => s \in gc'.live \cup gc'.todo
      BY <2>1, <2>2 DEF Ids, ckptVars
    <3> QED
      BY <2>1, <2>2, <3>1, <3>2 DEF GcSaves, RecIn
  <2> QED
    BY <2>1, <2>2, <2>3, GcThinks DEF ckptVars, laneVars
<1>4. ASSUME NEW r \in Slug, GcPurge(r) PROVE PinInv'
  <2>1. UNCHANGED <<instVars, laneVars, cmd, head, bounds>> /\ gc.step # "idle"
    BY <1>4 DEF GcPurge
  <2>2. \A s \in Slug : MemIn(cmd[s], pins) /\ cmd[s].op \in {"none", "spawn", "remove"}
    BY <2>1, MemQuiet DEF PinInv
  <2>3. ASSUME NEW s \in Slug PROVE (RecIn(s, pins) /\ MemIn(cmd[s], pins) /\ Shaped(cmd[s]) /\ UndoSaved(s))'
    BY <2>1, PinsOf DEF RecIn, MemIn, In, Shaped, UndoSaved, instVars, laneVars
  <2>4. CASE gc.step = "purge" /\ r \in gc.todo /\ PurgeTips(r)
             /\ gc' = [gc EXCEPT !.step = "unlog", !.todo = @ \ {r}, !.now = r]
    <3>1. /\ gc'.step = "unlog" /\ gc'.live = gc.live /\ gc'.todo = gc.todo \ {r} /\ gc'.now = r
          /\ gc'.bind = gc.bind /\ gc'.purge = gc.purge
      BY <1>0, <2>4 DEF GcMemory
    <3>2. /\ log' = log /\ r \in cut'
          /\ \A s \in Slug \ {r} : tip'[s] = tip[s] /\ (s \in cut' <=> s \in cut)
      BY <1>0, <2>4 DEF PurgeTips, TypeOK
    <3>3. ASSUME NEW s \in Slug PROVE (ClaimsIn(s, pins) /\ Sourced(s) /\ GcSaves(s))'
      <4>1. ClaimsIn(s, pins)'
        BY <2>1, <3>2, PinsOf DEF ClaimsIn, In, Ids, laneVars
      <4>2. Sourced(s)'
        BY <2>1, <2>2, <3>2, PinsOf DEF Sourced, Ids, Captures
      <4>3. GcSaves(s)
        BY DEF PinInv
      <4>4. GcSaves(s)'
        BY <2>1, <2>4, <3>1, <3>2, <4>3 DEF GcSaves, RecIn, Ids, instVars
      <4> QED
        BY <4>1, <4>2, <4>4
    <3> QED
      BY <2>3, <3>1, <3>3 DEF PinInv, Resolves
  <2>5. CASE gc.step = "unlog" /\ r = gc.now /\ PurgeLog(r)
             /\ gc' = [gc EXCEPT !.step = "purge", !.now = "none"]
    <3>1. /\ gc'.step = "purge" /\ gc'.live = gc.live /\ gc'.todo = gc.todo
          /\ gc'.bind = gc.bind /\ gc'.purge = gc.purge
      BY <1>0, <2>5 DEF GcMemory
    <3>2. /\ tip' = tip /\ Ids(r)' = {}
          /\ \A s \in Slug \ {r} : log'[s] = log[s] /\ (s \in cut' <=> s \in cut)
      BY <1>0, <2>5 DEF PurgeLog, TypeOK, Ids
    <3>3. ASSUME NEW s \in Slug PROVE (ClaimsIn(s, pins) /\ Sourced(s) /\ GcSaves(s))'
      <4>1. ClaimsIn(s, pins)'
        BY <2>1, <3>2, PinsOf DEF ClaimsIn, In, Ids, laneVars
      <4>2. Sourced(s)'
        BY <2>1, <2>2, <3>2, PinsOf DEF Sourced, Ids, Captures
      <4>3. GcSaves(s)
        BY DEF PinInv
      <4>4. GcSaves(s)'
        BY <2>1, <2>5, <3>1, <3>2, <4>3 DEF GcSaves, RecIn, Ids, instVars
      <4> QED
        BY <4>1, <4>2, <4>4
    <3> QED
      BY <2>3, <3>1, <3>3 DEF PinInv, Resolves
  <2> QED
    BY <1>4, <2>4, <2>5 DEF GcPurge
<1>5. CASE GcRoots
  <2> DEFINE base == {<<t, gc.bind[s][t]>> : s \in gc.live, t \in Tracker} \cap Keys
             held == UNION {ClaimedBy(s) : s \in IF gc.purge THEN gc.live ELSE Slug}
  <2>1. /\ gc.step = "purge" /\ gc.todo = {}
        /\ gc' = [gc EXCEPT !.step = "heads", !.roots = base \cup held]
        /\ UNCHANGED <<instVars, ckptVars, laneVars, cmd, head, cut, bounds>>
    BY <1>5 DEF GcRoots
  <2>2. gc'.step = "heads" /\ gc'.roots = base \cup held
    BY <1>0, <2>1 DEF GcMemory
  <2>3. ASSUME NEW s \in Slug PROVE GcSaves(s)'
    <3>1. /\ RecIn(s, {}) \/ (s \in gc.live /\ rec[s].bind = gc.bind[s])
          /\ gc.purge /\ Ids(s) # {} => s \in gc.live
      BY <2>1 DEF PinInv, GcSaves
    <3>2. RecIn(s, base \cup held)
      <4> SUFFICES ASSUME rec[s] # NoRecord PROVE In(rec[s].bind, Lasting(rec[s].dropped), base \cup held)
        BY DEF RecIn
      <4>1. rec[s].bind \in [Tracker -> Rev0] /\ rec[s].dropped \subseteq Owned
        BY <1>0, Recorded DEF Binding
      <4>2. Lasting(rec[s].dropped) \subseteq Tracker
        BY <4>1 DEF Lasting, Tracker
      <4>3. \A t \in Tracker : rec[s].bind[t] = 0 \/ <<t, rec[s].bind[t]>> \in Keys
        BY <4>1, SnapshotsAssumption DEF Keys, Rev, Rev0
      <4>4. CASE RecIn(s, {})
        BY <4>4 DEF RecIn, In
      <4>5. CASE s \in gc.live /\ rec[s].bind = gc.bind[s]
        BY <4>2, <4>3, <4>5 DEF In
      <4> QED
        BY <3>1, <4>4, <4>5
    <3>3. ClaimsIn(s, base \cup held)
      <4>1. CASE Ids(s) = {}
        BY <4>1 DEF ClaimsIn
      <4>2. CASE Ids(s) # {}
        <5>1. ClaimedBy(s) \subseteq base \cup held
          BY <3>1, <4>2
        <5> HIDE DEF base, held
        <5> QED
          BY <1>0, <5>1, Claims
      <4> QED
        BY <4>1, <4>2
    <3> HIDE DEF base, held
    <3> QED
      BY <2>1, <2>2, <3>2, <3>3 DEF GcSaves, RecIn, ClaimsIn, Ids, instVars, ckptVars
  <2> QED
    BY <2>1, <2>2, <2>3, GcThinks DEF instVars, ckptVars, laneVars
<1>6. CASE GcHeads
  <2> DEFINE roots == gc.roots \cup ({<<t, main[t]>> : t \in Tracker} \cap Keys)
  <2>1. /\ gc.step = "heads"
        /\ gc' = [gc EXCEPT !.step = "forget", !.roots = roots, !.forget = pins \ roots]
        /\ UNCHANGED <<instVars, ckptVars, laneVars, cmd, head, cut, bounds>>
    BY <1>6 DEF GcHeads
  <2>2. gc'.step = "forget" /\ gc'.roots = roots /\ gc'.forget = pins \ roots
    BY <1>0, <2>1 DEF GcMemory
  <2>3. gc.roots \subseteq roots /\ roots \cap (pins \ roots) = {}
    OBVIOUS
  <2> HIDE DEF roots
  <2>4. ASSUME NEW s \in Slug PROVE GcSaves(s)'
    <3>1. RecIn(s, gc.roots) /\ ClaimsIn(s, gc.roots)
      BY <2>1 DEF PinInv, GcSaves
    <3>2. RecIn(s, roots)' /\ ClaimsIn(s, roots)'
      BY <2>1, <2>2, <2>3, <3>1 DEF RecIn, ClaimsIn, In, Ids, instVars, ckptVars, roots, laneVars
    <3> QED
      BY <2>1, <2>2, <3>1, <2>3 DEF GcSaves, RecIn, ClaimsIn, In, Ids, instVars, ckptVars
  <2> QED
    BY <2>1, <2>2, <2>3, <2>4, GcThinks DEF instVars, ckptVars, laneVars
<1>7. ASSUME NEW t \in Tracker, NEW r \in Rev, GcForget(t, r) PROVE PinInv'
  <2>1. /\ gc.step = "forget" /\ <<t, r>> \in gc.forget /\ pins' = pins \ {<<t, r>>}
        /\ gc' = [gc EXCEPT !.forget = @ \ {<<t, r>>}]
        /\ UNCHANGED <<instVars, ckptVars, main, tree, lastRev, cmd, head, cut, bounds>>
    BY <1>7 DEF GcForget
  <2>2. gc'.step = "forget" /\ gc'.roots = gc.roots /\ gc'.forget \subseteq gc.forget
    BY <1>0, <2>1 DEF GcMemory
  <2>3. gc.forget \cap gc.roots = {}
    BY <2>1 DEF PinInv
  <2>4. ASSUME NEW s \in Slug
        PROVE  (Resolves(s) /\ Shaped(cmd[s]) /\ UndoSaved(s) /\ Sourced(s) /\ GcSaves(s))'
    <3>1. RecIn(s, gc.roots) /\ ClaimsIn(s, gc.roots) /\ RecIn(s, pins) /\ ClaimsIn(s, pins)
      BY <2>1, PinsOf DEF PinInv, GcSaves
    <3>2. MemIn(cmd[s], pins')
      BY <2>1, MemQuiet DEF PinInv
    <3>3. RecIn(s, pins)'
      BY <2>1, <2>3, <3>1 DEF RecIn, In, instVars
    <3>4. ClaimsIn(s, pins)'
      BY <2>1, <2>3, <3>1 DEF ClaimsIn, In, Ids, ckptVars
    <3>5. Resolves(s)'
      BY <2>1, <3>2, <3>3, <3>4 DEF Resolves
    <3>6. (Shaped(cmd[s]) /\ UndoSaved(s) /\ Sourced(s))'
      BY <2>1, PinsOf DEF Shaped, UndoSaved, Sourced, Ids, instVars, ckptVars
    <3>7. GcSaves(s)'
      BY <2>1, <2>2, <3>1 DEF GcSaves, RecIn, ClaimsIn, Ids, instVars, ckptVars
    <3> QED
      BY <3>5, <3>6, <3>7
  <2> QED
    BY <2>2, <2>3, <2>4 DEF PinInv
<1>8. CASE GcEnd
  <2>1. gc' = NoGc /\ UNCHANGED <<instVars, ckptVars, laneVars, cmd, head, cut, bounds>>
    BY <1>8 DEF GcEnd
  <2>2. gc'.step = "idle" /\ \A s \in Slug : GcSaves(s)'
    BY <2>1 DEF NoGc, GcSaves
  <2> QED
    BY <2>1, <2>2, GcThinks DEF instVars, ckptVars, laneVars
<1> QED
  BY <1>1, <1>2, <1>3, <1>4, <1>5, <1>6, <1>7, <1>8 DEF GcNext

LEMMA CrashPins ==
    ASSUME PinInv, LifeInv', Crash PROVE PinInv'
<1>1. UNCHANGED <<instVars, ckptVars, laneVars, cut, edits>>
  BY DEF Crash
<1>2. ASSUME NEW s \in Slug, Go(s, NoCmd), gc' = gc PROVE PinInv'
  <2>1. PinMoves(s)
    BY <1>1, <1>2, NoCmdNames, PinGoesOn DEF instVars, ckptVars, laneVars, Captures
  <2> QED
    BY <2>1, PinMovesKeeps
<1>3. CASE UNCHANGED <<cmd, gc>>
  BY <1>1, <1>3, HeadPins DEF instVars, ckptVars, laneVars
<1>4. CASE gc' = NoGc /\ cmd' = cmd
  <2>1. gc'.step = "idle" /\ \A s \in Slug : GcSaves(s)'
    BY <1>4 DEF NoGc, GcSaves
  <2> QED
    BY <1>1, <1>4, <2>1, GcThinks DEF instVars, ckptVars, laneVars
<1> QED
  BY <1>2, <1>3, <1>4 DEF Crash, Done

LEMMA InitPinInv == Init => PinInv
<1> SUFFICES ASSUME Init PROVE PinInv
  OBVIOUS
<1>1. LifeInv
  BY InitLifeInv
<1>2. ASSUME NEW s \in Slug
      PROVE  Resolves(s) /\ Shaped(cmd[s]) /\ UndoSaved(s) /\ Sourced(s) /\ GcSaves(s)
  <2>1. rec[s] = NoRecord /\ cmd[s] = NoCmd /\ Ids(s) = {} /\ gc.step = "idle"
    BY DEF Init, Ids, NoGc
  <2> QED
    BY <2>1, NoCmdNames
       DEF Resolves, RecIn, ClaimsIn, UndoSaved, Sourced, GcSaves, Captures
<1> QED
  BY <1>1, <1>2 DEF PinInv, Init, NoGc

LEMMA NextPinInv ==
    ASSUME Beside, PinInv, [Next]_vars PROVE PinInv'
<1>1. LifeInv'
  BY BesideApart, NextLifeInv DEF PinInv
<1>2. CASE Next
  <2>1. ASSUME NEW s \in Slug, CheckpointNext(s) \/ UndoNext(s) \/ TrackerNext(s) \/ LifeNext(s)
        PROVE  PinInv'
    <3>1. PinMoves(s)
      BY <1>1, <2>1, CheckpointPins, UndoPins, TrackerPins, LifePins
    <3> QED
      BY <1>1, <3>1, PinMovesKeeps
  <2>2. ASSUME HeadNext PROVE PinInv'
    <3>1. pins \subseteq pins' /\ UNCHANGED <<rec, log, tip, cmd, gc, cut>>
      BY <2>2 DEF HeadNext, SeedCommit, MergeRead, MoveMain, Commit, instVars, ckptVars,
                  laneVars
    <3> QED
      BY <1>1, <3>1, HeadPins
  <2> QED
    BY <1>1, <1>2, <2>1, <2>2, GcPins, CrashPins DEF Next
<1>3. CASE UNCHANGED vars
  BY <1>1, <1>3, HeadPins DEF vars, instVars, ckptVars, laneVars
<1> QED
  BY <1>2, <1>3

\* Every checkpoint on disk can be restored, whatever cleanups, removals, crashes
\* and other commands came since it was taken (cleanup.rs: SnapshotRoots::collect).
THEOREM CheckpointsKept ==
    ASSUME Beside PROVE Spec => []NoBrokenUndo
<1>1. Init => PinInv
  BY InitPinInv
<1>2. PinInv /\ [Next]_vars => PinInv'
  BY NextPinInv
<1>3. PinInv => NoBrokenUndo
  <2> SUFFICES ASSUME PinInv, NEW s \in Slug
               PROVE  /\ ClaimedBy(s) \subseteq pins
                      /\ \A i \in Ids(s) : s \in cut \/ tip[s][i] = log[s][i].src
    BY DEF NoBrokenUndo
  <2> QED
    BY PinsOf, Claims DEF Sourced
<1> QED
  BY <1>1, <1>2, <1>3, PTL DEF Spec

-----------------------------------------------------------------------------
(* What a record or a lane's `main` names is there.                        *)

\* Nothing but removals may be under way beside a cleanup.
RemovesBeside == Concurrent \subseteq {"remove"}

\* Every `main` resolves, the one about to be set too, and is a root of the
\* cleanup that forgets.
MainInv ==
    /\ \A t \in Tracker : Readable(t, main[t])
    /\ head # NoHead => gc.step = "idle" /\ Pinned(head.t, head.r)
    /\ gc.step = "forget" => \A t \in Tracker : main[t] = 0 \/ <<t, main[t]>> \in gc.roots

\* An instance's command, and the environment, leave every `main` alone.
LEMMA MainStands ==
    ASSUME NEW s \in Slug, CheckpointNext(s) \/ UndoNext(s) \/ TrackerNext(s) \/ LifeNext(s)
    PROVE  UNCHANGED <<main, head, gc>> /\ pins \subseteq pins'
<1>1. CASE CheckpointNext(s)
  <2>1. BeginCheckpoint(s) => UNCHANGED <<main, head, gc>> /\ pins \subseteq pins'
    BY DEF BeginCheckpoint, laneVars
  <2>2. FetchTip(s) => UNCHANGED <<main, head, gc>> /\ pins \subseteq pins'
    BY DEF FetchTip, laneVars
  <2>3. ASSUME NEW t \in Deposit, DepositStep(s, t)
        PROVE  UNCHANGED <<main, head, gc>> /\ pins \subseteq pins'
    BY <2>3 DEF DepositStep, DepositOk, DepositDegraded, DepositAborts, Commit
  <2>4. ASSUME NEW t \in Owned, CaptureStep(s, t)
        PROVE  UNCHANGED <<main, head, gc>> /\ pins \subseteq pins'
    BY <2>4 DEF CaptureStep, Commit
  <2>5. SaveCheckpoint(s) => UNCHANGED <<main, head, gc>> /\ pins \subseteq pins'
    BY DEF SaveCheckpoint, laneVars
  <2>6. SaveRecord(s) => UNCHANGED <<main, head, gc>> /\ pins \subseteq pins'
    BY DEF SaveRecord, laneVars
  <2> QED
    BY <1>1, <2>1, <2>2, <2>3, <2>4, <2>5, <2>6 DEF CheckpointNext
<1>2. CASE UndoNext(s)
  <2>1. ASSUME NEW i \in Id, NEW only \in SUBSET Deposit, BeginUndo(s, i, only)
        PROVE  UNCHANGED <<laneVars, head, gc>>
    BY <2>1 DEF BeginUndo
  <2>2. UndoFetch(s) => UNCHANGED <<laneVars, head, gc>>
    BY DEF UndoFetch
  <2>3. UndoRebind(s) => UNCHANGED <<laneVars, head, gc>>
    BY DEF UndoRebind
  <2>4. UndoSource(s) => UNCHANGED <<laneVars, head, gc>>
    BY DEF UndoSource
  <2>5. ASSUME NEW t \in Tracker, UndoTracker(s, t) PROVE UNCHANGED <<laneVars, head, gc>>
    BY <2>5 DEF UndoTracker
  <2>6. UndoTrackersDone(s) => UNCHANGED <<laneVars, head, gc>>
    BY DEF UndoTrackersDone
  <2>7. ASSUME NEW t \in Deposit, UndoResource(s, t) PROVE UNCHANGED <<laneVars, head, gc>>
    BY <2>7 DEF UndoResource
  <2>8. UndoResourcesDone(s) => UNCHANGED <<laneVars, head, gc>>
    BY DEF UndoResourcesDone
  <2>9. SaveLast(s) => UNCHANGED <<laneVars, head, gc>>
    BY DEF SaveLast
  <2>10. UndoStamp(s) => UNCHANGED <<laneVars, head, gc>>
    BY DEF UndoStamp
  <2>11. UNCHANGED <<laneVars, head, gc>>
    BY <1>2, <2>1, <2>2, <2>3, <2>4, <2>5, <2>6, <2>7, <2>8, <2>9, <2>10 DEF UndoNext
  <2> QED
    BY <2>11 DEF laneVars
<1>3. CASE TrackerNext(s)
  <2>1. PICK t \in Owned :
            \/ BeginCapture(s, t) \/ BeginPull(s, t)
            \/ BeginDrop(s, t) \/ BeginUse(s, t)
            \/ \E r \in Rev : BeginCheckout(s, t, r)
            \/ TrackerCapture(s, t) \/ RestoreRev(s, t) \/ DropClear(s, t)
    BY <1>3 DEF TrackerNext
  <2>2. ASSUME NEW op, NEW c, BeginTracker(s, op, c) PROVE UNCHANGED <<laneVars, head, gc>>
    BY <2>2 DEF BeginTracker
  <2>3. BeginCapture(s, t) => UNCHANGED <<laneVars, head, gc>>
    BY <2>2, Zenon DEF BeginCapture
  <2>4. BeginPull(s, t) => UNCHANGED <<laneVars, head, gc>>
    BY <2>2, Zenon DEF BeginPull
  <2>5. BeginDrop(s, t) => UNCHANGED <<laneVars, head, gc>>
    BY <2>2, Zenon DEF BeginDrop
  <2>6. BeginUse(s, t) => UNCHANGED <<laneVars, head, gc>>
    BY <2>2, Zenon DEF BeginUse
  <2>7. ASSUME NEW r \in Rev, BeginCheckout(s, t, r) PROVE UNCHANGED <<laneVars, head, gc>>
    BY <2>2, <2>7, Zenon DEF BeginCheckout
  <2>8. RestoreRev(s, t) => UNCHANGED <<laneVars, head, gc>>
    BY DEF RestoreRev
  <2>9. DropClear(s, t) => UNCHANGED <<laneVars, head, gc>>
    BY DEF DropClear
  <2>10. TrackerCapture(s, t) => UNCHANGED <<main, head, gc>> /\ pins \subseteq pins'
    BY DEF TrackerCapture, Commit
  <2>11. UNCHANGED <<laneVars, head, gc>> => UNCHANGED <<main, head, gc>> /\ pins \subseteq pins'
    BY DEF laneVars
  <2> QED
    BY <2>1, <2>3, <2>4, <2>5, <2>6, <2>7, <2>8, <2>9, <2>10, <2>11
<1>4. CASE LifeNext(s)
  <2>1. ASSUME NEW d \in SUBSET Owned, BeginSpawn(s, d) PROVE UNCHANGED <<laneVars, head, gc>>
    BY <2>1 DEF BeginSpawn
  <2>2. SpawnBind(s) => UNCHANGED <<laneVars, head, gc>>
    BY DEF SpawnBind
  <2>3. SpawnCreate(s) => UNCHANGED <<laneVars, head, gc>>
    BY DEF SpawnCreate
  <2>4. ASSUME NEW purge \in BOOLEAN, BeginRemove(s, purge)
        PROVE  UNCHANGED <<laneVars, head, gc>>
    BY <2>4 DEF BeginRemove
  <2>5. RemoveTeardown(s) => UNCHANGED <<laneVars, head, gc>>
    BY DEF RemoveTeardown
  <2>6. RemoveArchive(s) => UNCHANGED <<laneVars, head, gc>>
    BY DEF RemoveArchive
  <2>7. RemovePurge(s) => UNCHANGED <<laneVars, head, gc>>
    BY DEF RemovePurge
  <2>8. Edit(s) => UNCHANGED <<laneVars, head, gc>>
    BY DEF Edit
  <2>9. LoseWorkspace(s) => UNCHANGED <<laneVars, head, gc>>
    BY DEF LoseWorkspace
  <2>10. UNCHANGED <<laneVars, head, gc>>
    BY <1>4, <2>1, <2>2, <2>3, <2>4, <2>5, <2>6, <2>7, <2>8, <2>9 DEF LifeNext
  <2> QED
    BY <2>10 DEF laneVars
<1> QED
  BY <1>1, <1>2, <1>3, <1>4

LEMMA NextMainInv ==
    ASSUME RemovesBeside, PinInv, MainInv, [Next]_vars PROVE MainInv'
<1>0. TypeOK /\ gc.step \in GcSteps
  BY DEF PinInv, LifeInv, TypeOK, GcMemory
<1>1. ASSUME UNCHANGED <<main, head, gc>>, pins \subseteq pins' PROVE MainInv'
  BY <1>1 DEF MainInv, Readable, Pinned
<1>2. ASSUME HeadNext PROVE MainInv'
  <2>1. ASSUME NEW t \in Owned, NEW c \in Content, SeedCommit(t, c) PROVE MainInv'
    <3> DEFINE r == CommitRev(c, main[t])
    <3>1. Commit(t, c, r) /\ head' = [op |-> "seed", t |-> t, r |-> r] /\ MayRun("seed")
          /\ main' = main /\ gc' = gc
      BY <2>1 DEF SeedCommit, HeadIdle
    <3> HIDE DEF r
    <3>2. gc.step = "idle" /\ head'.t = t /\ head'.r = r
      BY <3>1 DEF MayRun, RemovesBeside
    <3>3. pins \subseteq pins' /\ <<t, r>> \in pins'
      BY <3>1, CommitPins
    <3> QED
      BY <3>1, <3>2, <3>3 DEF MainInv, Readable, Pinned
  <2>2. ASSUME NEW s \in Slug, NEW t \in Tracker, MergeRead(s, t) PROVE MainInv'
    <3>1. /\ MayRun("merge") /\ Pinned(t, rec[s].bind[t])
          /\ head' = [op |-> "merge", t |-> t, r |-> rec[s].bind[t]]
          /\ UNCHANGED <<laneVars, gc>>
      BY <2>2 DEF MergeRead, HeadIdle
    <3>2. gc.step = "idle" /\ head'.t = t /\ head'.r = rec[s].bind[t]
      BY <3>1 DEF MayRun, RemovesBeside
    <3> QED
      BY <3>1, <3>2 DEF MainInv, Readable, Pinned, laneVars
  <2>3. CASE MoveMain
    <3>1. /\ head # NoHead /\ head' = NoHead /\ gc' = gc /\ pins' = pins
          /\ main' = [main EXCEPT ![head.t] = head.r] \/ main' = main
      BY <2>3 DEF MoveMain
    <3>2. Pinned(head.t, head.r) /\ gc.step = "idle"
      BY <3>1 DEF MainInv
    <3>3. \A t \in Tracker : main'[t] = main[t] \/ (t = head.t /\ main'[t] = head.r)
      BY <1>0, <3>1 DEF TypeOK
    <3> QED
      BY <3>1, <3>2, <3>3 DEF MainInv, Readable, Pinned
  <2> QED
    BY <1>2, <2>1, <2>2, <2>3 DEF HeadNext
<1>3. ASSUME NEW purge \in BOOLEAN, GcStart(purge) PROVE MainInv'
  <2>1. head.op \in Concurrent \cup {"none"} /\ gc'.step = "stale"
        /\ UNCHANGED <<laneVars, head>>
    BY <1>3 DEF GcStart, NoGc
  <2>2. head = NoHead
    BY <1>0, <2>1 DEF TypeOK, RemovesBeside
  <2> QED
    BY <2>1, <2>2 DEF MainInv, Readable, Pinned, laneVars
<1>4. CASE GcHeads
  <2> DEFINE roots == gc.roots \cup ({<<t, main[t]>> : t \in Tracker} \cap Keys)
  <2>1. /\ gc.step = "heads" /\ UNCHANGED <<laneVars, head>>
        /\ gc' = [gc EXCEPT !.step = "forget", !.roots = roots, !.forget = pins \ roots]
    BY <1>4 DEF GcHeads
  <2>2. gc'.roots = roots
    BY <1>0, <2>1 DEF TypeOK, GcMemory
  <2>3. \A t \in Tracker : main[t] = 0 \/ <<t, main[t]>> \in Keys
    BY <1>0, SnapshotsAssumption DEF TypeOK, Keys, Rev, Rev0
  <2> QED
    BY <2>1, <2>2, <2>3 DEF MainInv, Readable, Pinned, laneVars
<1>5. ASSUME NEW t \in Tracker, NEW r \in Rev, GcForget(t, r) PROVE MainInv'
  <2>1. /\ gc.step = "forget" /\ <<t, r>> \in gc.forget /\ pins' = pins \ {<<t, r>>}
        /\ gc' = [gc EXCEPT !.forget = @ \ {<<t, r>>}] /\ main' = main /\ head' = head
    BY <1>5 DEF GcForget
  <2>2. gc'.roots = gc.roots /\ gc.forget \cap gc.roots = {} /\ head = NoHead
    BY <1>0, <2>1 DEF TypeOK, GcMemory, PinInv, MainInv
  <2> QED
    BY <2>1, <2>2 DEF MainInv, Readable, Pinned
<1>6. ASSUME UNCHANGED <<laneVars, head>>, gc'.step # "forget", head # NoHead => gc' = gc
      PROVE  MainInv'
  BY <1>6 DEF MainInv, Readable, Pinned, laneVars
<1>7. ASSUME NEW s \in Slug, GcStale(s) \/ GcPurge(s) PROVE MainInv'
  BY <1>0, <1>6, <1>7 DEF GcStale, GcPurge, TypeOK, GcMemory, MainInv
<1>8. CASE GcOrphans \/ GcRoots \/ GcEnd
  <2>0. gc \in GcMemory
    BY <1>0 DEF TypeOK
  <2>1. UNCHANGED <<laneVars, head>> /\ gc'.step \in {"purge", "heads", "idle"}
    <3>1. ASSUME NEW T, gc' = [gc EXCEPT !.step = "purge", !.todo = T] PROVE gc'.step = "purge"
      BY <2>0, <3>1 DEF GcMemory
    <3>2. ASSUME NEW T, gc' = [gc EXCEPT !.step = "heads", !.roots = T] PROVE gc'.step = "heads"
      BY <2>0, <3>2 DEF GcMemory
    <3>3. GcOrphans => gc'.step = "purge"
      BY <3>1, Zenon DEF GcOrphans
    <3>4. ASSUME GcRoots PROVE gc'.step = "heads"
      <4> DEFINE T == ({<<t, gc.bind[s][t]>> : s \in gc.live, t \in Tracker} \cap Keys)
                        \cup UNION {ClaimedBy(s) : s \in IF gc.purge THEN gc.live ELSE Slug}
      <4>1. gc' = [gc EXCEPT !.step = "heads", !.roots = T]
        BY <3>4 DEF GcRoots
      <4> HIDE DEF T
      <4> QED
        BY <3>2, <4>1
    <3>5. GcEnd => gc'.step = "idle"
      BY DEF GcEnd, NoGc
    <3>6. UNCHANGED <<laneVars, head>>
      BY <1>8 DEF GcOrphans, GcRoots, GcEnd
    <3> QED
      BY <1>8, <3>3, <3>4, <3>5, <3>6
  <2>2. gc.step # "idle"
    BY <1>8 DEF GcOrphans, GcRoots, GcEnd
  <2> QED
    BY <1>6, <2>1, <2>2 DEF MainInv
<1>9. CASE Crash
  <2>1. UNCHANGED laneVars
    BY <1>9 DEF Crash
  <2>2. UNCHANGED <<head, gc>> \/ (head' = NoHead /\ gc' = gc) \/ (head' = head /\ gc' = NoGc)
    BY <1>9 DEF Crash
  <2> QED
    BY <2>1, <2>2 DEF MainInv, Readable, Pinned, laneVars, NoGc
<1>10. CASE UNCHANGED vars
  BY <1>1, <1>10 DEF vars, laneVars
<1> QED
  BY <1>1, <1>2, <1>3, <1>4, <1>5, <1>7, <1>8, <1>9, <1>10, MainStands DEF Next, GcNext

\* What a binding record or a lane's `main` names resolves, whatever cleanups
\* came: no capture, checkpoint or spawn fails for a rev cleanup forgot
\* (cleanup.rs: SnapshotRoots::collect, the bindings and the heads).
THEOREM NamedRevsKept ==
    ASSUME RemovesBeside PROVE Spec => []BoundRevsResolve
<1>1. Init => PinInv /\ MainInv
  BY InitPinInv DEF Init, MainInv, Readable, NoGc
<1>2. Beside
  BY DEF Beside, RemovesBeside
<1>3. PinInv /\ MainInv /\ [Next]_vars => (PinInv /\ MainInv)'
  BY <1>2, NextPinInv, NextMainInv
<1>4. PinInv /\ MainInv => BoundRevsResolve
  <2> SUFFICES ASSUME PinInv, MainInv, NEW s \in Slug, rec[s] # NoRecord, NEW t \in Tracker
               PROVE  Readable(t, rec[s].bind[t])
    BY DEF BoundRevsResolve, MainInv
  <2>1. RecIn(s, pins)
    BY PinsOf
  <2> QED
    BY <2>1 DEF RecIn, In, Lasting, RemovesBeside, Readable, Pinned
<1> QED
  BY <1>1, <1>3, <1>4, PTL DEF Spec

-----------------------------------------------------------------------------
(* What cleanup takes, and what it does not.                               *)

\* A cleanup archives no record of an instance that has a workspace, spawned
\* again since it was found stale or not (manager.rs: cleanup's second look
\* under the lock).
THEOREM RespawnedKept ==
    ASSUME SpawnApart PROVE Spec => CleanupKeepsRespawned
<1>1. Spec => []TypeOK
  BY TypeCorrect
<1>2. TypeOK /\ [Next]_vars =>
          [\A s \in Slug : gc.step = "stale" /\ gc' # gc /\ gc' # NoGc =>
              ~ (Live(s) /\ rec'[s] = NoRecord)]_vars
  <2> SUFFICES ASSUME TypeOK, [Next]_vars, NEW s \in Slug,
                      gc.step = "stale", gc' # gc, gc' # NoGc, Live(s)
               PROVE  rec'[s] # NoRecord
    OBVIOUS
  <2>1. rec[s] # NoRecord /\ dir[s]
    BY DEF Live
  <2>2. GcNext
    <3>1. gc' = gc \/ GcNext \/ Crash
      BY MainStands DEF Next, HeadNext, SeedCommit, MergeRead, MoveMain, vars
    <3> QED
      BY <3>1 DEF Crash
  <2>3. ASSUME NEW r \in Slug, GcStale(r) PROVE rec'[s] # NoRecord
    <3>1. rec' = rec \/ (rec' = [rec EXCEPT ![r] = NoRecord] /\ ~ dir[r])
      BY <2>3 DEF GcStale
    <3> QED
      BY <2>1, <3>1 DEF TypeOK
  <2>4. ASSUME NEW purge \in BOOLEAN, GcStart(purge) PROVE FALSE
    BY <2>4 DEF GcStart
  <2>5. ASSUME NEW r \in Slug, GcPurge(r) PROVE FALSE
    BY <2>5 DEF GcPurge
  <2>6. GcOrphans => rec' = rec
    BY DEF GcOrphans
  <2>7. ~ GcRoots /\ ~ GcHeads /\ ~ GcEnd
    BY DEF GcRoots, GcHeads, GcEnd
  <2>8. ASSUME NEW t \in Tracker, NEW r \in Rev, GcForget(t, r) PROVE FALSE
    BY <2>8 DEF GcForget
  <2> QED
    BY <2>1, <2>2, <2>3, <2>4, <2>5, <2>6, <2>7, <2>8 DEF GcNext
<1> QED
  BY <1>1, <1>2, PTL DEF Spec, CleanupKeepsRespawned

\* The revs that records, checkpoints and heads name.
Named(k) ==
    \/ \E s \in Slug : k \in ClaimedBy(s)
    \/ \E s \in Slug : rec[s] # NoRecord /\ rec[s].bind[k[1]] = k[2]
    \/ main[k[1]] = k[2]

\* A cleanup that has the project to itself remembers what there is, and is
\* left to forget all else.
GcExact ==
    /\ gc.step # "idle" => head = NoHead
    /\ gc.step = "stale" => gc.todo \cap gc.live = {}
    /\ gc.step \in {"stale", "purge", "unlog"} =>
           \A s \in gc.live : rec[s] # NoRecord /\ rec[s].bind = gc.bind[s]
    /\ gc.step \in {"heads", "forget"} => \A k \in gc.roots : Named(k)
    /\ gc.step = "forget" => pins \subseteq gc.roots \cup gc.forget

\* It does have the project to itself.
LEMMA GcAlone ==
    ASSUME Concurrent = {}, LifeInv, GcExact, gc.step # "idle", [Next]_vars
    PROVE  GcNext \/ Crash \/ UNCHANGED <<rec, log, pins, main, head, gc>>
<1>1. ASSUME NEW op PROVE ~ MayRun(op)
  BY DEF MayRun
<1>2. ASSUME NEW s \in Slug PROVE cmd[s] = NoCmd /\ cmd[s].step = "idle"
  BY NoCmdType DEF LifeInv, GcKnows, Phase
<1>3. ASSUME NEW s \in Slug PROVE ~ CheckpointNext(s)
  <2>1. ~ BeginCheckpoint(s)
    BY <1>1, <1>2 DEF BeginCheckpoint, Begin
  <2>2. ~ FetchTip(s)
    BY <1>1, <1>2 DEF FetchTip
  <2>3. ASSUME NEW t \in Deposit, DepositStep(s, t) PROVE FALSE
    BY <1>1, <1>2, <2>3 DEF DepositStep
  <2>4. ASSUME NEW t \in Owned, CaptureStep(s, t) PROVE FALSE
    BY <1>1, <1>2, <2>4 DEF CaptureStep
  <2>5. ~ SaveCheckpoint(s)
    BY <1>1, <1>2 DEF SaveCheckpoint
  <2>6. ~ SaveRecord(s)
    BY <1>1, <1>2 DEF SaveRecord
  <2> QED
    BY <2>1, <2>2, <2>3, <2>4, <2>5, <2>6 DEF CheckpointNext
<1>4. ASSUME NEW s \in Slug PROVE ~ UndoNext(s)
  <2>1. ASSUME NEW i \in Id, NEW only \in SUBSET Deposit, BeginUndo(s, i, only) PROVE FALSE
    BY <1>1, <1>2, <2>1 DEF BeginUndo, Begin
  <2>2. ~ UndoFetch(s)
    BY <1>1, <1>2 DEF UndoFetch
  <2>3. ~ UndoRebind(s)
    BY <1>1, <1>2 DEF UndoRebind
  <2>4. ~ UndoSource(s)
    BY <1>1, <1>2 DEF UndoSource
  <2>5. ASSUME NEW t \in Tracker, UndoTracker(s, t) PROVE FALSE
    BY <1>1, <1>2, <2>5 DEF UndoTracker
  <2>6. ~ UndoTrackersDone(s)
    BY <1>1, <1>2 DEF UndoTrackersDone
  <2>7. ASSUME NEW t \in Deposit, UndoResource(s, t) PROVE FALSE
    BY <1>1, <1>2, <2>7 DEF UndoResource
  <2>8. ~ UndoResourcesDone(s)
    BY <1>1, <1>2 DEF UndoResourcesDone
  <2>9. ~ SaveLast(s)
    BY <1>1, <1>2 DEF SaveLast
  <2>10. ~ UndoStamp(s)
    BY <1>1, <1>2 DEF UndoStamp
  <2> QED
    BY <2>1, <2>2, <2>3, <2>4, <2>5, <2>6, <2>7, <2>8, <2>9, <2>10 DEF UndoNext
<1>5. ASSUME NEW s \in Slug PROVE ~ TrackerNext(s)
  <2>1. ASSUME NEW op, NEW c, BeginTracker(s, op, c) PROVE FALSE
    BY <1>1, <2>1 DEF BeginTracker, Begin
  <2>2. ASSUME NEW t \in Owned, BeginCapture(s, t) PROVE FALSE
    BY <2>1, <2>2, Zenon DEF BeginCapture
  <2>3. ASSUME NEW t \in Owned, BeginPull(s, t) PROVE FALSE
    BY <2>1, <2>3, Zenon DEF BeginPull
  <2>4. ASSUME NEW t \in Owned, BeginDrop(s, t) PROVE FALSE
    BY <2>1, <2>4, Zenon DEF BeginDrop
  <2>5. ASSUME NEW t \in Owned, BeginUse(s, t) PROVE FALSE
    BY <2>1, <2>5, Zenon DEF BeginUse
  <2>6. ASSUME NEW t \in Owned, NEW r \in Rev, BeginCheckout(s, t, r) PROVE FALSE
    BY <2>1, <2>6, Zenon DEF BeginCheckout
  <2>7. ASSUME NEW t \in Owned, TrackerCapture(s, t) PROVE FALSE
    BY <1>2, <2>7 DEF TrackerCapture
  <2>8. ASSUME NEW t \in Owned, RestoreRev(s, t) PROVE FALSE
    BY <1>2, <2>8 DEF RestoreRev
  <2>9. ASSUME NEW t \in Owned, DropClear(s, t) PROVE FALSE
    BY <1>2, <2>9 DEF DropClear
  <2> QED
    BY <2>2, <2>3, <2>4, <2>5, <2>6, <2>7, <2>8, <2>9 DEF TrackerNext
<1>6. ASSUME NEW s \in Slug, LifeNext(s) PROVE Edit(s) \/ LoseWorkspace(s)
  <2>1. ASSUME NEW d \in SUBSET Owned, BeginSpawn(s, d) PROVE FALSE
    BY <1>1, <1>2, <2>1 DEF BeginSpawn, Begin
  <2>2. ~ SpawnBind(s)
    BY <1>1, <1>2 DEF SpawnBind
  <2>3. ~ SpawnCreate(s)
    BY <1>1, <1>2 DEF SpawnCreate
  <2>4. ASSUME NEW purge \in BOOLEAN, BeginRemove(s, purge) PROVE FALSE
    BY <1>1, <1>2, <2>4 DEF BeginRemove, Begin
  <2>5. ~ RemoveTeardown(s)
    BY <1>1, <1>2 DEF RemoveTeardown
  <2>6. ~ RemoveArchive(s)
    BY <1>1, <1>2 DEF RemoveArchive
  <2>7. ~ RemovePurge(s)
    BY <1>1, <1>2 DEF RemovePurge
  <2> QED
    BY <1>6, <2>1, <2>2, <2>3, <2>4, <2>5, <2>6, <2>7 DEF LifeNext
<1>7. ~ HeadNext
  BY <1>1 DEF HeadNext, SeedCommit, MergeRead, HeadIdle, MoveMain, GcExact
<1>8. ASSUME NEW s \in Slug, Edit(s) \/ LoseWorkspace(s)
      PROVE  UNCHANGED <<rec, log, pins, main, head, gc>>
  BY <1>8 DEF Edit, LoseWorkspace, ckptVars, laneVars
<1>9. UNCHANGED vars => UNCHANGED <<rec, log, pins, main, head, gc>>
  BY DEF vars, instVars, ckptVars, laneVars
<1> QED
  BY <1>3, <1>4, <1>5, <1>6, <1>7, <1>8, <1>9 DEF Next

LEMMA NextGcExact ==
    ASSUME Concurrent = {}, LifeInv, GcExact, [Next]_vars PROVE GcExact'
<1>0. TypeOK /\ gc \in GcMemory /\ gc.step \in GcSteps
  BY DEF LifeInv, TypeOK, GcMemory
<1>1. ASSUME UNCHANGED <<rec, log, pins, main, head, gc>> PROVE GcExact'
  <2>1. \A k : Named(k) => Named(k)'
    BY <1>1 DEF Named, ClaimedBy, Ids
  <2> QED
    BY <1>1, <2>1 DEF GcExact
<1>2. ASSUME gc'.step = "idle" PROVE GcExact'
  BY <1>2 DEF GcExact
<1>3. ASSUME NEW purge \in BOOLEAN, GcStart(purge) PROVE GcExact'
  <2> DEFINE known == {s \in Slug : rec[s] # NoRecord}
             live == {s \in known : dir[s]}
             b == [s \in Slug |-> IF s \in live THEN rec[s].bind ELSE NoBinding]
  <2>1. /\ gc' = [NoGc EXCEPT !.step = "stale", !.purge = purge, !.claimed = known,
                              !.live = live, !.todo = known \ live, !.bind = b]
        /\ rec' = rec /\ head' = head /\ head.op \in Concurrent \cup {"none"}
    BY <1>3 DEF GcStart, instVars
  <2>2. gc'.step = "stale" /\ gc'.live = live /\ gc'.todo = known \ live /\ gc'.bind = b
    BY <2>1 DEF NoGc
  <2>3. head' = NoHead
    BY <1>0, <2>1 DEF TypeOK
  <2> QED
    BY <2>1, <2>2, <2>3 DEF GcExact
<1>4. ASSUME NEW r \in Slug, GcStale(r) PROVE GcExact'
  <2>1. gc.step = "stale" /\ r \in gc.todo /\ head' = head
    BY <1>4 DEF GcStale
  <2> DEFINE g == [gc EXCEPT !.todo = @ \ {r}]
             h == [gc EXCEPT !.todo = @ \ {r}, !.live = @ \cup {r}, !.bind[r] = rec[r].bind]
  <2>2. /\ g.step = "stale" /\ g.live = gc.live /\ g.bind = gc.bind
        /\ g.todo = gc.todo \ {r}
    BY <1>0, <2>1 DEF GcMemory
  <2>3. /\ h.step = "stale" /\ h.live = gc.live \cup {r} /\ h.todo = gc.todo \ {r}
        /\ h.bind = [gc.bind EXCEPT ![r] = rec[r].bind]
    BY <1>0, <2>1 DEF GcMemory
  <2>4. h.bind[r] = rec[r].bind /\ \A s \in Slug \ {r} : h.bind[s] = gc.bind[s]
    BY <1>0, <2>3 DEF GcMemory
  <2>5. \/ gc' = g /\ rec' = rec
        \/ gc' = h /\ rec' = rec /\ rec[r] # NoRecord
        \/ gc' = g /\ rec' = [rec EXCEPT ![r] = NoRecord]
    BY <1>4 DEF GcStale, Live
  <2> HIDE DEF g, h
  <2>6. gc'.step = "stale" /\ gc'.todo = gc.todo \ {r}
    BY <2>2, <2>3, <2>5
  <2>7. gc.live \subseteq Slug /\ r \notin gc.live /\ head = NoHead
    BY <1>0, <2>1 DEF GcMemory, GcExact
  <2>8. \A s \in gc.live : rec[s] # NoRecord /\ rec[s].bind = gc.bind[s]
    BY <2>1 DEF GcExact
  <2>9. \A s \in gc'.live : rec'[s] # NoRecord /\ rec'[s].bind = gc'.bind[s]
    <3>1. CASE gc' = g
      <4>1. \A s \in gc.live : rec'[s] = rec[s]
        BY <1>0, <2>2, <2>5, <2>7 DEF TypeOK
      <4> QED
        BY <2>2, <2>8, <3>1, <4>1
    <3>2. CASE gc' = h /\ rec' = rec /\ rec[r] # NoRecord
      BY <2>3, <2>4, <2>7, <2>8, <3>2
    <3> QED
      BY <2>5, <3>1, <3>2
  <2>10. gc'.todo \cap gc'.live = {}
    BY <2>1, <2>2, <2>3, <2>5 DEF GcExact
  <2> QED
    BY <2>1, <2>6, <2>7, <2>9, <2>10 DEF GcExact
<1>5. ASSUME gc.step \in {"stale", "purge", "unlog"}, gc'.step \in {"purge", "unlog"},
             gc'.live = gc.live, gc'.bind = gc.bind, rec' = rec, head' = head
      PROVE  GcExact'
  BY <1>5 DEF GcExact
<1>6. CASE GcOrphans
  <2> DEFINE work == IF gc.purge THEN {s \in Slug : Ids(s) # {}} \ gc.live ELSE {}
  <2>1. /\ gc.step = "stale" /\ gc' = [gc EXCEPT !.step = "purge", !.todo = work]
        /\ rec' = rec /\ head' = head
    BY <1>6 DEF GcOrphans
  <2> HIDE DEF work
  <2>2. gc'.step = "purge" /\ gc'.live = gc.live /\ gc'.bind = gc.bind
    BY <1>0, <2>1 DEF GcMemory
  <2> QED
    BY <1>5, <2>1, <2>2
<1>7. ASSUME NEW r \in Slug, GcPurge(r) PROVE GcExact'
  <2>1. /\ gc.step \in {"purge", "unlog"} /\ rec' = rec /\ head' = head
        /\ \/ gc' = [gc EXCEPT !.step = "unlog", !.todo = @ \ {r}, !.now = r]
           \/ gc' = [gc EXCEPT !.step = "purge", !.now = "none"]
    BY <1>7 DEF GcPurge, instVars
  <2>2. gc'.step \in {"purge", "unlog"} /\ gc'.live = gc.live /\ gc'.bind = gc.bind
    BY <1>0, <2>1 DEF GcMemory
  <2> QED
    BY <1>5, <2>1, <2>2
<1>8. CASE GcRoots
  <2> DEFINE base == {<<t, gc.bind[s][t]>> : s \in gc.live, t \in Tracker} \cap Keys
             held == UNION {ClaimedBy(s) : s \in IF gc.purge THEN gc.live ELSE Slug}
  <2>1. /\ gc.step = "purge" /\ gc' = [gc EXCEPT !.step = "heads", !.roots = base \cup held]
        /\ UNCHANGED <<instVars, ckptVars, laneVars, cmd, head, cut, bounds>>
    BY <1>8 DEF GcRoots
  <2>2. gc'.step = "heads" /\ gc'.roots = base \cup held
    BY <1>0, <2>1 DEF GcMemory
  <2>3. gc.live \subseteq Slug
    BY <1>0 DEF GcMemory
  <2>4. ASSUME NEW k \in base PROVE Named(k)
    <3>1. PICK s \in gc.live, t \in Tracker : k = <<t, gc.bind[s][t]>>
      OBVIOUS
    <3>2. s \in Slug /\ rec[s] # NoRecord /\ rec[s].bind[k[1]] = k[2]
      BY <2>1, <2>3, <3>1 DEF GcExact
    <3> QED
      BY <3>2 DEF Named
  <2>5. ASSUME NEW k \in held PROVE Named(k)
    BY <2>3, <2>5 DEF Named
  <2> HIDE DEF base, held
  <2>6. \A k : Named(k) => Named(k)'
    BY <2>1 DEF Named, ClaimedBy, Ids, instVars, ckptVars, laneVars
  <2> QED
    BY <2>1, <2>2, <2>4, <2>5, <2>6 DEF GcExact
<1>9. CASE GcHeads
  <2> DEFINE heads == {<<t, main[t]>> : t \in Tracker} \cap Keys
             roots == gc.roots \cup heads
  <2>1. /\ gc.step = "heads"
        /\ gc' = [gc EXCEPT !.step = "forget", !.roots = roots, !.forget = pins \ roots]
        /\ UNCHANGED <<instVars, ckptVars, laneVars, cmd, head, cut, bounds>>
    BY <1>9 DEF GcHeads
  <2>2. gc'.step = "forget" /\ gc'.roots = roots /\ gc'.forget = pins \ roots
    BY <1>0, <2>1 DEF GcMemory
  <2>3. \A k \in roots : Named(k)
    BY <2>1 DEF GcExact, Named
  <2>4. pins \subseteq roots \cup (pins \ roots)
    OBVIOUS
  <2> HIDE DEF roots
  <2>5. \A k : Named(k) => Named(k)'
    BY <2>1 DEF Named, ClaimedBy, Ids, instVars, ckptVars, laneVars
  <2> QED
    BY <2>1, <2>2, <2>3, <2>4, <2>5 DEF GcExact, laneVars
<1>10. ASSUME NEW t \in Tracker, NEW r \in Rev, GcForget(t, r) PROVE GcExact'
  <2>1. /\ gc.step = "forget" /\ pins' = pins \ {<<t, r>>}
        /\ gc' = [gc EXCEPT !.forget = @ \ {<<t, r>>}]
        /\ UNCHANGED <<instVars, ckptVars, main, head>>
    BY <1>10 DEF GcForget
  <2>2. gc'.step = "forget" /\ gc'.roots = gc.roots /\ gc'.forget = gc.forget \ {<<t, r>>}
    BY <1>0, <2>1 DEF GcMemory
  <2>3. \A k : Named(k) => Named(k)'
    BY <2>1 DEF Named, ClaimedBy, Ids, instVars, ckptVars
  <2> QED
    BY <2>1, <2>2, <2>3 DEF GcExact
<1>11. CASE gc.step = "idle" /\ gc' = gc
  BY <1>2, <1>11
<1>12. GcEnd => gc'.step = "idle"
  BY DEF GcEnd, NoGc
<1>13. CASE Crash
  <2>1. UNCHANGED <<rec, log, pins, main>>
    BY <1>13 DEF Crash, instVars, ckptVars, laneVars
  <2>2. gc' = NoGc \/ (gc' = gc /\ (head' = head \/ head' = NoHead))
    BY <1>13 DEF Crash
  <2>3. \A k : Named(k) => Named(k)'
    BY <2>1 DEF Named, ClaimedBy, Ids
  <2>4. CASE gc' = NoGc
    BY <1>2, <2>4 DEF NoGc
  <2>5. CASE gc' = gc /\ (head' = head \/ head' = NoHead)
    BY <2>1, <2>3, <2>5 DEF GcExact
  <2> QED
    BY <2>2, <2>4, <2>5
<1>14. GcNext => GcExact'
  BY <1>2, <1>3, <1>4, <1>6, <1>7, <1>8, <1>9, <1>10, <1>12 DEF GcNext
<1>15. CASE gc.step # "idle"
  BY <1>1, <1>13, <1>14, <1>15, GcAlone
<1>16. CASE gc.step = "idle"
  <2>1. gc' = gc \/ GcNext \/ Crash
    BY MainStands DEF Next, HeadNext, SeedCommit, MergeRead, MoveMain, vars
  <2> QED
    BY <1>11, <1>13, <1>14, <1>16, <2>1
<1> QED
  BY <1>15, <1>16

\* What nothing names when a cleanup that has the project to itself ends is
\* gone (manager.rs: cleanup's lane pruning).
THEOREM NothingWasted ==
    ASSUME Concurrent = {} PROVE Spec => CleanupReclaims
<1>1. Init => LifeInv /\ GcExact
  BY InitLifeInv DEF Init, GcExact, NoGc
<1>2. SpawnApart
  BY DEF SpawnApart
<1>3. LifeInv /\ GcExact /\ [Next]_vars => (LifeInv /\ GcExact)'
  BY <1>2, NextLifeInv, NextGcExact
<1>4. LifeInv /\ GcExact /\ [Next]_vars =>
          [gc.step = "forget" /\ gc'.step = "idle" /\ crashes' = crashes =>
              \A k \in pins : \/ \E s \in Slug : k \in ClaimedBy(s)
                              \/ \E s \in Slug : rec[s] # NoRecord
                                                   /\ rec[s].bind[k[1]] = k[2]
                              \/ main[k[1]] = k[2]]_vars
  <2> SUFFICES ASSUME LifeInv, GcExact, [Next]_vars, gc.step = "forget",
                      gc'.step = "idle", crashes' = crashes, NEW k \in pins
               PROVE  Named(k)
    BY DEF Named
  <2>1. gc \in GcMemory /\ crashes \in Nat
    BY SnapshotsAssumption DEF LifeInv, TypeOK
  <2>2. GcNext
    BY <2>1, GcAlone DEF Crash
  <2>3. ASSUME NEW t \in Tracker, NEW r \in Rev PROVE ~ GcForget(t, r)
    BY <2>1 DEF GcForget, GcMemory
  <2>4. GcEnd
    BY <2>2, <2>3 DEF GcNext, GcStart, GcStale, GcPurge, GcOrphans, GcRoots, GcHeads
  <2>5. gc.forget = {}
    BY <2>4 DEF GcEnd
  <2> QED
    BY <2>5 DEF GcExact
<1> QED
  BY <1>1, <1>3, <1>4, PTL DEF Spec, CleanupReclaims


-----------------------------------------------------------------------------
(* Revs hold what they hold for good.                                      *)

\* Every rev anything names has been made.
RevsMade(s) ==
    /\ rec[s] # NoRecord => \A t \in Tracker : rec[s].bind[t] <= lastRev
    /\ \A t \in Tracker : cmd[s].bind[t] <= lastRev
    /\ \A t \in Deposit : cmd[s].dump[t] <= lastRev
    /\ \A i \in Ids(s) : /\ \A t \in Tracker : log[s][i].bind[t] <= lastRev
                         /\ \A t \in Deposit : log[s][i].dump[t] <= lastRev

-----------------------------------------------------------------------------
(* An undo, step by step.                                                  *)

\* Nothing of the trackers or the source has changed since the undo began.
AsFound(s) == src[s] = cmd[s].before.src /\ files[s] = cmd[s].before.files

\* What memory holds of the captures made so far is what they found.
Captured(s) ==
    /\ cmd[s].src = cmd[s].before.src
    /\ cmd[s].todo \subseteq Tracker \ cmd[s].dropped
    /\ \A t \in Owned \ (cmd[s].dropped \cup cmd[s].todo) :
           cmd[s].bind[t] # 0 /\ tree[cmd[s].bind[t]] = cmd[s].before.files[t]

Dumped(s) ==
    \A t \in Deposit : cmd[s].dump[t] # 0 => tree[cmd[s].dump[t]] = cmd[s].before.db[t]

\* The safety checkpoint holds what the undo found.
Safe(s) ==
    LET safety == log[s][cmd[s].id]
    IN  /\ safety # NoCkpt
        /\ safety.src = cmd[s].before.src
        /\ \A t \in Owned \ safety.dropped :
               /\ safety.bind[t] # 0
               /\ tree[safety.bind[t]] = cmd[s].before.files[t]
        /\ \A t \in Deposit : safety.dump[t] # 0 =>
               tree[safety.dump[t]] = cmd[s].before.db[t]

\* Tracker t is back, in the workspace and in memory.
Back(s, t) ==
    /\ cmd[s].bind[t] = Target(s).bind[t]
    /\ files[s][t] = IF Target(s).bind[t] = 0 THEN Empty ELSE tree[Target(s).bind[t]]

TrackersBack(s) ==
    CASE cmd[s].step = "restore" -> \A t \in Owned \ (Target(s).dropped \cup cmd[s].todo) : Back(s, t)
      [] cmd[s].step \in {"resources", "save", "stamp"} -> \A t \in Owned \ Target(s).dropped : Back(s, t)
      [] OTHER -> TRUE

\* The resources restored so far are back, unless one failed.
ResourcesBack(s) ==
    /\ cmd[s].step \in {"save", "stamp"} => cmd[s].todo = {}
    /\ ~ cmd[s].failed => \A t \in Restored(s) \ cmd[s].todo :
           db[s][t] = tree[Target(s).dump[t]] /\ cmd[s].status[t] = "ready"

UndoInv(s) ==
    cmd[s].op = "undo" =>
        /\ cmd[s].step \in {"source", "capture"} => AsFound(s) /\ db[s] = cmd[s].before.db /\ Dumped(s)
        /\ cmd[s].step = "source" => cmd[s].dump = NoDump
        /\ cmd[s].step = "capture" => Captured(s)
        /\ cmd[s].step \notin {"source", "capture"} => Safe(s)
        /\ cmd[s].step = "record" => AsFound(s)
        /\ cmd[s].only # {} => /\ cmd[s].step \notin {"fetch", "rebind", "worktree", "restore"}
                               /\ AsFound(s)
        /\ cmd[s].only = {} =>
               /\ cmd[s].step \in {"worktree", "restore", "resources", "save", "stamp"} =>
                      cmd[s].dropped = Target(s).dropped
               /\ cmd[s].step \in {"restore", "resources", "save", "stamp"} =>
                      src[s] = Target(s).src
               /\ TrackersBack(s)
        /\ cmd[s].step \in {"resources", "save", "stamp"} => ResourcesBack(s)
        /\ cmd[s].step = "stamp" => rec[s] = [bind |-> cmd[s].bind, dropped |-> cmd[s].dropped,
                                              status |-> cmd[s].status]

RestoreInv ==
    /\ LifeInv
    /\ \A k \in pins : k[2] <= lastRev
    /\ \A s \in Slug : RevsMade(s) /\ UndoInv(s)

-----------------------------------------------------------------------------
(* How a step is seen.                                                     *)

\* Revs made stay as they are.
Kept ==
    /\ lastRev <= lastRev' /\ lastRev' \in Nat
    /\ \A q \in 1 .. lastRev : tree'[q] = tree[q]
    /\ \A k \in pins' : k[2] <= lastRev'

\* Step of an instance's command, as undo sees it.
RestMoves(s) ==
    /\ Kept
    /\ \A r \in Slug \ {s} : /\ cmd'[r] = cmd[r] /\ rec'[r] = rec[r] /\ log'[r] = log[r]
                             /\ files'[r] = files[r] /\ src'[r] = src[r] /\ db'[r] = db[r]
    /\ RevsMade(s)' /\ UndoInv(s)'

LEMMA RestoreOf ==
    ASSUME RestoreInv, NEW s \in Slug
    PROVE  /\ TypeOK /\ Phase(cmd[s]) /\ Numbered(s) /\ cmd[s] \in Memory
           /\ RevsMade(s) /\ UndoInv(s)
           /\ lastRev \in Nat
           /\ \A t \in Tracker : cmd[s].bind[t] \in Nat
           /\ \A t \in Deposit : cmd[s].dump[t] \in Nat
           /\ rec[s] # NoRecord => \A t \in Tracker : rec[s].bind[t] \in Nat
           /\ \A i \in Ids(s) : /\ log[s][i] \in Ckpt
                                /\ \A t \in Tracker : log[s][i].bind[t] \in Nat
                                /\ \A t \in Deposit : log[s][i].dump[t] \in Nat
<1> USE SnapshotsAssumption
<1>1. TypeOK /\ cmd[s] \in Memory
  BY DEF RestoreInv, LifeInv, TypeOK
<1>2. lastRev \in Nat /\ Rev0 \subseteq Nat
  BY <1>1 DEF TypeOK, Rev0
<1>3. \A i \in Ids(s) : log[s][i] \in Ckpt
  BY <1>1 DEF TypeOK, Ids
<1>4. rec[s] # NoRecord => rec[s].bind \in Binding
  BY <1>1, Recorded
<1>5. cmd[s].bind \in Binding /\ cmd[s].dump \in [Deposit -> Rev0]
  BY <1>1 DEF Memory
<1>6. \A i \in Ids(s) : log[s][i].bind \in Binding /\ log[s][i].dump \in [Deposit -> Rev0]
  BY <1>3 DEF Ckpt
<1>7. Phase(cmd[s]) /\ Numbered(s) /\ RevsMade(s) /\ UndoInv(s)
  BY DEF RestoreInv, LifeInv
<1> QED
  BY <1>1, <1>2, <1>3, <1>4, <1>5, <1>6, <1>7 DEF Binding

\* What an undo goes back to is there.
LEMMA UndoTarget ==
    ASSUME RestoreInv, NEW s \in Slug, cmd[s].op = "undo"
    PROVE  /\ Target(s) \in Ckpt /\ cmd[s].to \in Ids(s)
           /\ \A t \in Tracker : Target(s).bind[t] \in 0 .. lastRev
           /\ \A t \in Deposit : Target(s).dump[t] \in 0 .. lastRev
<1>1. cmd[s].to \in Ids(s)
  BY RestoreOf DEF Numbered
<1> QED
  BY <1>1, RestoreOf DEF Target, RevsMade

\* The safety checkpoint still holds what the undo found, where the revs it
\* names hold what they held.
LEMMA SafeGoesOn ==
    ASSUME NEW s \in Slug, Safe(s), log'[s] = log[s],
           cmd'[s].id = cmd[s].id, cmd'[s].before = cmd[s].before,
           NEW k, k = log[s][cmd[s].id],
           \A t \in Owned : k.bind[t] # 0 => tree'[k.bind[t]] = tree[k.bind[t]],
           \A t \in Deposit : k.dump[t] # 0 => tree'[k.dump[t]] = tree[k.dump[t]]
    PROVE  Safe(s)'
<1>1. PICK b : b = cmd[s].before /\ b = cmd'[s].before
  OBVIOUS
<1>2. k = log'[s][cmd'[s].id]
  OBVIOUS
<1>3. k # NoCkpt /\ k.src = b.src
  BY <1>1 DEF Safe
<1>4. ASSUME NEW t \in Owned \ k.dropped PROVE k.bind[t] # 0 /\ tree'[k.bind[t]] = b.files[t]
  <2>1. k.bind[t] # 0 /\ tree[k.bind[t]] = b.files[t]
    BY <1>1 DEF Safe
  <2> QED
    BY <2>1
<1>5. ASSUME NEW t \in Deposit, k.dump[t] # 0 PROVE tree'[k.dump[t]] = b.db[t]
  <2>1. tree[k.dump[t]] = b.db[t]
    BY <1>1, <1>5 DEF Safe
  <2> QED
    BY <1>5, <2>1
<1> QED
  BY <1>1, <1>2, <1>3, <1>4, <1>5 DEF Safe

\* It stands while no tree and none of its own names change.
LEMMA SafeStands ==
    ASSUME NEW s \in Slug, Safe(s), log'[s] = log[s], tree' = tree,
           cmd'[s].id = cmd[s].id, cmd'[s].before = cmd[s].before
    PROVE  Safe(s)'
<1>1. PICK k : k = log[s][cmd[s].id]
  OBVIOUS
<1> QED
  BY <1>1, SafeGoesOn

\* What an instance has is as it was, whatever revs others made.
LEMMA RestKept ==
    ASSUME RestoreInv, NEW s \in Slug, Kept,
           cmd'[s] = cmd[s], rec'[s] = rec[s], log'[s] = log[s],
           files'[s] = files[s], src'[s] = src[s], db'[s] = db[s]
    PROVE  RevsMade(s)' /\ UndoInv(s)'
<1>0. RevsMade(s) /\ UndoInv(s) /\ lastRev \in Nat
  BY RestoreOf
<1>1. RevsMade(s)'
  BY RestoreOf DEF RevsMade, Ids, Kept
<1>2. ASSUME cmd[s].op = "undo" PROVE UndoInv(s)'
  <2>1. \A q \in 1 .. lastRev : tree'[q] = tree[q]
    BY DEF Kept
  <2>2. Target(s)' = Target(s) /\ Restored(s)' = Restored(s)
    BY DEF Target, Restored
  <2>3. /\ \A t \in Tracker : cmd[s].bind[t] \in 0 .. lastRev
        /\ \A t \in Deposit : cmd[s].dump[t] \in 0 .. lastRev
    BY <1>0, RestoreOf DEF RevsMade
  <2>4. /\ AsFound(s)' <=> AsFound(s)
        /\ Captured(s) => Captured(s)'
        /\ Dumped(s) => Dumped(s)'
    <3>1. AsFound(s)' <=> AsFound(s)
      BY DEF AsFound
    <3>2. Captured(s) => Captured(s)'
      BY <1>0, <2>1, <2>3 DEF Captured, Tracker
    <3>3. Dumped(s) => Dumped(s)'
      BY <1>0, <2>1, <2>3 DEF Dumped
    <3> QED
      BY <3>1, <3>2, <3>3
  <2>5. cmd[s].step \notin {"source", "capture"} => Safe(s)'
    <3> SUFFICES ASSUME cmd[s].step \notin {"source", "capture"} PROVE Safe(s)'
      OBVIOUS
    <3>1. Safe(s)
      BY <1>0, <1>2 DEF UndoInv
    <3>2. cmd[s].id \in Ids(s)
      BY <1>2, RestoreOf DEF Numbered, Captures
    <3>3. /\ \A t \in Tracker : log[s][cmd[s].id].bind[t] \in 0 .. lastRev
          /\ \A t \in Deposit : log[s][cmd[s].id].dump[t] \in 0 .. lastRev
      BY <1>0, <3>2, RestoreOf DEF RevsMade
    <3>4. PICK k : k = log[s][cmd[s].id]
      OBVIOUS
    <3>5. \A t \in Owned : k.bind[t] # 0 => tree'[k.bind[t]] = tree[k.bind[t]]
      BY <1>0, <2>1, <3>3, <3>4 DEF Tracker
    <3>6. \A t \in Deposit : k.dump[t] # 0 => tree'[k.dump[t]] = tree[k.dump[t]]
      BY <1>0, <2>1, <3>3, <3>4
    <3> QED
      BY <3>1, <3>4, <3>5, <3>6, SafeGoesOn
  <2>6. TrackersBack(s) => TrackersBack(s)'
    <3>1. \A t \in Owned : Target(s).bind[t] \in 0 .. lastRev
      BY <1>2, UndoTarget DEF Tracker
    <3>2. \A t \in Owned : Back(s, t) => Back(s, t)'
      BY <1>0, <2>1, <2>2, <3>1 DEF Back
    <3> QED
      BY <2>2, <3>2 DEF TrackersBack
  <2>7. ResourcesBack(s) => ResourcesBack(s)'
    <3>1. \A t \in Restored(s) : Target(s).dump[t] \in 1 .. lastRev
      BY <1>0, <1>2, UndoTarget DEF Restored, Target
    <3> QED
      BY <2>1, <2>2, <3>1 DEF ResourcesBack
  <2> QED
    BY <1>0, <1>2, <2>2, <2>4, <2>5, <2>6, <2>7 DEF UndoInv
<1>3. cmd[s].op # "undo" => UndoInv(s)'
  BY DEF UndoInv
<1> QED
  BY <1>1, <1>2, <1>3

LEMMA RestMovesKeeps ==
    ASSUME RestoreInv, LifeInv', NEW s \in Slug, RestMoves(s) PROVE RestoreInv'
<1>1. Kept
  BY DEF RestMoves
<1>2. ASSUME NEW r \in Slug \ {s} PROVE RevsMade(r)' /\ UndoInv(r)'
  BY <1>1, RestKept DEF RestMoves
<1> QED
  BY <1>1, <1>2 DEF RestoreInv, RestMoves, Kept

\* No rev is made.
LEMMA LanesStand ==
    ASSUME RestoreInv, UNCHANGED <<tree, lastRev>>, pins' \subseteq pins PROVE Kept
<1>1. lastRev \in Nat
  BY SnapshotsAssumption DEF RestoreInv, LifeInv, TypeOK, Rev0
<1> QED
  BY <1>1 DEF Kept, RestoreInv

\* One is, or one there is again.
LEMMA LaneGrows ==
    ASSUME RestoreInv, NEW t \in Tracker, NEW c \in Content, NEW p \in Rev0,
           Commit(t, c, CommitRev(c, p))
    PROVE  LET r == CommitRev(c, p)
           IN  /\ Kept /\ r \in 1 .. lastRev' /\ tree'[r] = c /\ r \in Rev0
<1> DEFINE r == CommitRev(c, p)
<1>1. TypeOK /\ Rev \subseteq Rev0 /\ lastRev \in Nat
  BY SnapshotsAssumption DEF RestoreInv, LifeInv, TypeOK, Rev0, Rev
<1>2. /\ r \in Rev
      /\ pins' = pins \cup {<<t, r>>}
      /\ tree' \in [Rev -> Content] /\ tree'[r] = c
      /\ lastRev' \in Rev0 /\ lastRev <= lastRev'
      /\ r <= lastRev'
      /\ \A q \in 1 .. lastRev : tree'[q] = tree[q]
  BY <1>1, Committing
<1>3. lastRev' \in Nat /\ r \in 1 .. lastRev'
  BY <1>2, SnapshotsAssumption DEF Rev0, Rev
<1> HIDE DEF r
<1>4. \A k \in pins' : k[2] <= lastRev'
  <2>1. \A k \in pins : k[2] <= lastRev /\ k[2] \in Nat
    BY <1>1, SnapshotsAssumption DEF RestoreInv, TypeOK, Rev
  <2> QED
    BY <1>1, <1>2, <1>3, <2>1
<1>5. Kept
  BY <1>2, <1>3, <1>4 DEF Kept
<1> QED
  BY <1>1, <1>2, <1>3, <1>5 DEF r

-----------------------------------------------------------------------------
(* The safety checkpoint, and checkpoints.                                 *)

\* A command goes on, the record and the checkpoints standing.
LEMMA RestGoes ==
    ASSUME RestoreInv, NEW s \in Slug, NEW c, Go(s, c), Kept, UNCHANGED <<rec, log>>,
           \A r \in Slug \ {s} : files'[r] = files[r] /\ src'[r] = src[r] /\ db'[r] = db[r],
           \A t \in Tracker : c.bind[t] \in 0 .. lastRev',
           \A t \in Deposit : c.dump[t] \in 0 .. lastRev',
           UndoInv(s)'
    PROVE  RestMoves(s)
<1>1. cmd'[s] = c /\ \A r \in Slug \ {s} : cmd'[r] = cmd[r]
  BY RestoreOf, Going DEF TypeOK, Go
<1>2. lastRev' \in Nat /\ lastRev <= lastRev' /\ lastRev \in Nat
  BY RestoreOf DEF Kept
<1>3. RevsMade(s)'
  BY <1>1, <1>2, RestoreOf DEF RevsMade, Ids
<1> QED
  BY <1>1, <1>3 DEF RestMoves

\* What a command has in memory.
LEMMA InMemory ==
    ASSUME RestoreInv, Kept, NEW s \in Slug
    PROVE  /\ \A t \in Tracker : cmd[s].bind[t] \in 0 .. lastRev /\ cmd[s].bind[t] \in 0 .. lastRev'
           /\ \A t \in Deposit : cmd[s].dump[t] \in 0 .. lastRev /\ cmd[s].dump[t] \in 0 .. lastRev'
<1>1. lastRev' \in Nat /\ lastRev <= lastRev' /\ lastRev \in Nat
  BY RestoreOf DEF Kept
<1> QED
  BY <1>1, RestoreOf DEF RevsMade

\* A command that is over.
LEMMA RestEnds ==
    ASSUME RestoreInv, NEW s \in Slug, Go(s, NoCmd), Kept, UNCHANGED <<rec, log>>,
           \A r \in Slug \ {s} : files'[r] = files[r] /\ src'[r] = src[r] /\ db'[r] = db[r]
    PROVE  RestMoves(s)
<1>1. cmd'[s] = NoCmd
  BY RestoreOf DEF TypeOK, Go
<1>2. /\ NoCmd.op = "none" /\ \A t \in Tracker : NoCmd.bind[t] = 0
      /\ \A t \in Deposit : NoCmd.dump[t] = 0
  BY DEF NoCmd, NoBinding, NoDump
<1>3. lastRev' \in Nat
  BY DEF Kept
<1>4. UndoInv(s)'
  BY <1>1, <1>2 DEF UndoInv
<1> QED
  BY <1>2, <1>3, <1>4, RestGoes

\* One more capture in memory.
LEMMA OneMore ==
    ASSUME RestoreInv, NEW s \in Slug, cmd[s].op = "undo", cmd[s].step = "capture",
           NEW t \in Tracker, NEW r \in 1 .. lastRev', Kept,
           NEW c, cmd'[s] = c, c.op = "undo", c.step = "capture", c.todo = cmd[s].todo \ {t},
           c.dropped = cmd[s].dropped, c.src = cmd[s].src, c.before = cmd[s].before,
           c.only = cmd[s].only,
           c.bind[t] = r, \A u \in Tracker \ {t} : c.bind[u] = cmd[s].bind[u],
           t \in Owned => tree'[r] = files[s][t],
           \A u \in Deposit : \/ c.dump[u] = cmd[s].dump[u]
                              \/ u = t /\ c.dump[u] = r /\ tree'[r] = db[s][u],
           files'[s] = files[s], src'[s] = src[s], db'[s] = db[s]
    PROVE  UndoInv(s)'
<1>1. AsFound(s) /\ db[s] = cmd[s].before.db /\ Dumped(s) /\ Captured(s)
  BY RestoreOf DEF UndoInv
<1>2. AsFound(s)' /\ db'[s] = c.before.db
  BY <1>1 DEF AsFound
<1>3. \A q \in 1 .. lastRev : tree'[q] = tree[q]
  BY DEF Kept
<1>4. Captured(s)'
  <2>1. c.todo \subseteq Tracker \ c.dropped
    BY <1>1 DEF Captured
  <2>2. ASSUME NEW u \in Owned \ (c.dropped \cup c.todo)
        PROVE  c.bind[u] # 0 /\ tree'[c.bind[u]] = c.before.files[u]
    <3>1. u \in Tracker
      BY DEF Tracker
    <3>2. CASE u = t
      BY <1>1, <3>2 DEF AsFound
    <3>3. CASE u # t
      <4>1. u \in Owned \ (cmd[s].dropped \cup cmd[s].todo)
        BY <3>3
      <4>2. cmd[s].bind[u] # 0 /\ tree[cmd[s].bind[u]] = cmd[s].before.files[u]
        BY <1>1, <4>1 DEF Captured
      <4>3. cmd[s].bind[u] \in 1 .. lastRev
        BY <3>1, <4>2, InMemory
      <4> QED
        BY <1>3, <3>1, <3>3, <4>2, <4>3
    <3> QED
      BY <3>2, <3>3
  <2> QED
    BY <1>1, <2>1, <2>2 DEF Captured
<1>5. Dumped(s)'
  <2> SUFFICES ASSUME NEW u \in Deposit, c.dump[u] # 0 PROVE tree'[c.dump[u]] = c.before.db[u]
    BY DEF Dumped
  <2>1. CASE c.dump[u] = cmd[s].dump[u]
    <3>1. cmd[s].dump[u] \in 1 .. lastRev
      BY <2>1, InMemory
    <3> QED
      BY <1>1, <1>3, <2>1, <3>1 DEF Dumped
  <2>2. CASE c.dump[u] = r /\ tree'[r] = db[s][u]
    BY <1>1, <2>2
  <2> QED
    BY <2>1, <2>2
<1>6. cmd[s].only # {} => AsFound(s)'
  BY <1>2
<1>7. TrackersBack(s)'
  BY DEF TrackersBack
<1> QED
  BY <1>2, <1>4, <1>5, <1>7 DEF UndoInv

LEMMA CheckpointRests ==
    ASSUME RestoreInv, LifeInv', NEW s \in Slug, CheckpointNext(s) PROVE RestMoves(s)
<1>0. /\ TypeOK /\ Phase(cmd[s]) /\ Numbered(s) /\ cmd[s] \in Memory
      /\ RevsMade(s) /\ UndoInv(s) /\ lastRev \in Nat
  BY RestoreOf
<1>1. CASE BeginCheckpoint(s)
  <2> DEFINE d == Loaded(s, "checkpoint", "source")
             c == [d EXCEPT !.id = NextId(s)]
  <2>1. Go(s, c) /\ rec[s] # NoRecord
        /\ UNCHANGED <<instVars, ckptVars, laneVars, head, gc, cut, bounds>>
    BY <1>1 DEF BeginCheckpoint, Live
  <2>a. "checkpoint" \in Ops /\ "source" \in Steps
    BY DEF Ops, Steps
  <2>2. /\ d \in Memory /\ d.op = "checkpoint" /\ d.bind = rec[s].bind /\ d.dump = NoDump
    BY <1>0, <2>1, <2>a, Loading
  <2> HIDE DEF d
  <2>3. c.op = "checkpoint" /\ c.bind = rec[s].bind /\ c.dump = NoDump
    BY <2>2 DEF Memory
  <2> HIDE DEF c
  <2>4. cmd'[s] = c
    BY <1>0, <2>1 DEF TypeOK, Go
  <2>5. UndoInv(s)'
    BY <2>3, <2>4 DEF UndoInv
  <2>6. Kept
    BY <2>1, LanesStand DEF laneVars
  <2>7. /\ \A t \in Tracker : c.bind[t] \in 0 .. lastRev
        /\ \A t \in Deposit : c.dump[t] \in 0 .. lastRev
    BY <1>0, <2>1, <2>3, RestoreOf DEF RevsMade, NoDump
  <2> QED
    BY <2>1, <2>5, <2>6, <2>7, RestGoes DEF instVars, ckptVars, laneVars
<1>2. CASE FetchTip(s)
  <2> DEFINE c == [cmd[s] EXCEPT !.step = "capture", !.src = src[s],
                                 !.todo = Tracker \ cmd[s].dropped]
  <2>1. /\ cmd[s].step = "source" /\ Go(s, c)
        /\ UNCHANGED <<instVars, log, laneVars, head, gc, cut, bounds>>
    BY <1>2 DEF FetchTip
  <2>2. /\ c.op = cmd[s].op /\ c.step = "capture" /\ c.bind = cmd[s].bind
        /\ c.dump = cmd[s].dump /\ c.src = src[s] /\ c.todo = Tracker \ cmd[s].dropped
        /\ c.dropped = cmd[s].dropped /\ c.before = cmd[s].before /\ c.only = cmd[s].only
    BY <1>0 DEF Memory
  <2> HIDE DEF c
  <2>3. cmd'[s] = c
    BY <1>0, <2>1 DEF TypeOK, Go
  <2>4. Kept
    BY <2>1, LanesStand DEF laneVars
  <2>5. ASSUME c.op = "undo" PROVE UndoInv(s)'
    <3>1. AsFound(s) /\ db[s] = cmd[s].before.db /\ cmd[s].dump = NoDump
      BY <1>0, <2>1, <2>2, <2>5 DEF UndoInv
    <3>2. AsFound(s)' /\ db'[s] = c.before.db
      BY <2>1, <2>2, <2>3, <3>1 DEF AsFound, instVars
    <3>3. Dumped(s)'
      BY <2>2, <2>3, <3>1 DEF Dumped, NoDump
    <3>4. Captured(s)'
      BY <2>2, <2>3, <3>1 DEF Captured, AsFound, Tracker
    <3>5. TrackersBack(s)'
      BY <2>2, <2>3 DEF TrackersBack
    <3> QED
      BY <2>2, <2>3, <3>2, <3>3, <3>4, <3>5 DEF UndoInv
  <2>6. UndoInv(s)'
    BY <2>3, <2>5 DEF UndoInv
  <2>7. /\ \A t \in Tracker : c.bind[t] \in 0 .. lastRev'
        /\ \A t \in Deposit : c.dump[t] \in 0 .. lastRev'
    BY <2>2, <2>4, InMemory
  <2> QED
    BY <2>1, <2>4, <2>6, <2>7, RestGoes DEF instVars
<1>3. ASSUME NEW t \in Deposit, DepositStep(s, t) PROVE RestMoves(s)
  <2>1. UNCHANGED <<instVars, ckptVars, main, head, gc, cut, bounds>>
        /\ cmd[s].step = "capture" /\ t \in Tracker /\ t \notin Owned /\ t \in cmd[s].todo
    BY <1>3, SnapshotsAssumption DEF DepositStep, Tracker
  <2> DEFINE p == cmd[s].bind[t]
             r == CommitRev(db[s][t], p)
             c == [cmd[s] EXCEPT !.todo = @ \ {t}, !.bind[t] = r, !.dump[t] = r]
             d == [cmd[s] EXCEPT !.todo = @ \ {t}]
  <2>2. CASE Commit(t, db[s][t], r) /\ Go(s, c)
    <3>1. db[s][t] \in Content /\ p \in Rev0
      BY <1>0, <2>1 DEF TypeOK, Memory, Binding
    <3>2. Kept /\ r \in 1 .. lastRev' /\ tree'[r] = db[s][t]
      BY <2>1, <2>2, <3>1, LaneGrows
    <3> HIDE DEF r
    <3>3. /\ c.op = cmd[s].op /\ c.step = "capture" /\ c.dropped = cmd[s].dropped
          /\ c.todo = cmd[s].todo \ {t} /\ c.src = cmd[s].src /\ c.before = cmd[s].before
          /\ c.only = cmd[s].only
          /\ c.bind[t] = r /\ (\A u \in Tracker \ {t} : c.bind[u] = cmd[s].bind[u])
          /\ c.dump[t] = r /\ (\A u \in Deposit \ {t} : c.dump[u] = cmd[s].dump[u])
      BY <1>0, <2>1 DEF Memory, Binding
    <3> HIDE DEF c
    <3>4. cmd'[s] = c
      BY <1>0, <2>2 DEF TypeOK, Go
    <3>5. /\ \A u \in Tracker : c.bind[u] \in 0 .. lastRev'
          /\ \A u \in Deposit : c.dump[u] \in 0 .. lastRev'
      BY <3>2, <3>3, InMemory
    <3>6. cmd[s].op = "undo" => UndoInv(s)'
      BY <2>1, <3>2, <3>3, <3>4, OneMore DEF instVars
    <3>7. UndoInv(s)'
      BY <3>3, <3>4, <3>6 DEF UndoInv
    <3> QED
      BY <2>1, <2>2, <3>2, <3>5, <3>7, RestGoes DEF instVars, ckptVars
  <2>3. CASE UNCHANGED <<pins, tree, lastRev>> /\ Go(s, d)
    <3>1. /\ d.op = cmd[s].op /\ d.step = "capture" /\ d.dropped = cmd[s].dropped
          /\ d.bind = cmd[s].bind /\ d.dump = cmd[s].dump /\ d.todo = cmd[s].todo \ {t}
          /\ d.src = cmd[s].src /\ d.before = cmd[s].before /\ d.only = cmd[s].only
      BY <1>0, <2>1 DEF Memory
    <3> HIDE DEF d
    <3>2. cmd'[s] = d
      BY <1>0, <2>3 DEF TypeOK, Go
    <3>3. Kept
      BY <2>3, LanesStand
    <3>4. ASSUME cmd[s].op = "undo" PROVE UndoInv(s)'
      <4>1. AsFound(s) /\ db[s] = cmd[s].before.db /\ Dumped(s) /\ Captured(s)
        BY <1>0, <2>1, <3>4 DEF UndoInv
      <4>2. AsFound(s)' /\ db'[s] = d.before.db
        BY <2>1, <3>1, <3>2, <4>1 DEF AsFound, instVars
      <4>3. Dumped(s)'
        BY <2>3, <3>1, <3>2, <4>1 DEF Dumped
      <4>4. Captured(s)'
        BY <2>1, <2>3, <3>1, <3>2, <4>1 DEF Captured
      <4>5. TrackersBack(s)'
        BY <3>1, <3>2 DEF TrackersBack
      <4> QED
        BY <3>1, <3>2, <4>2, <4>3, <4>4, <4>5 DEF UndoInv
    <3>5. UndoInv(s)'
      BY <3>1, <3>2, <3>4 DEF UndoInv
    <3> QED
      BY <2>1, <2>3, <3>1, <3>3, <3>5, InMemory, RestGoes DEF instVars, ckptVars
  <2>4. CASE UNCHANGED <<pins, tree, lastRev>> /\ Go(s, NoCmd)
    BY <2>1, <2>4, LanesStand, RestEnds DEF instVars, ckptVars
  <2> QED
    BY <1>3, <2>2, <2>3, <2>4
       DEF DepositStep, DepositOk, DepositDegraded, DepositAborts, Done
<1>4. ASSUME NEW t \in Owned, CaptureStep(s, t) PROVE RestMoves(s)
  <2>1. UNCHANGED <<instVars, ckptVars, main, head, gc, cut, bounds>>
        /\ cmd[s].step = "capture" /\ t \in Tracker /\ t \notin Deposit
    BY <1>4, SnapshotsAssumption DEF CaptureStep, Tracker
  <2> DEFINE p == cmd[s].bind[t]
             r == CommitRev(files[s][t], p)
             c == [cmd[s] EXCEPT !.todo = @ \ {t}, !.bind[t] = r]
  <2>2. CASE Commit(t, files[s][t], r) /\ Go(s, c)
    <3>1. files[s][t] \in Content /\ p \in Rev0
      BY <1>0, <2>1 DEF TypeOK, Memory, Binding
    <3>2. Kept /\ r \in 1 .. lastRev' /\ tree'[r] = files[s][t]
      BY <2>1, <2>2, <3>1, LaneGrows
    <3> HIDE DEF r
    <3>3. /\ c.op = cmd[s].op /\ c.step = "capture" /\ c.dropped = cmd[s].dropped
          /\ c.todo = cmd[s].todo \ {t} /\ c.src = cmd[s].src /\ c.before = cmd[s].before
          /\ c.only = cmd[s].only /\ c.dump = cmd[s].dump
          /\ c.bind[t] = r /\ (\A u \in Tracker \ {t} : c.bind[u] = cmd[s].bind[u])
      BY <1>0, <2>1 DEF Memory, Binding
    <3> HIDE DEF c
    <3>4. cmd'[s] = c
      BY <1>0, <2>2 DEF TypeOK, Go
    <3>5. /\ \A u \in Tracker : c.bind[u] \in 0 .. lastRev'
          /\ \A u \in Deposit : c.dump[u] \in 0 .. lastRev'
      BY <3>2, <3>3, InMemory
    <3>6. cmd[s].op = "undo" => UndoInv(s)'
      BY <2>1, <3>2, <3>3, <3>4, OneMore DEF instVars
    <3>7. UndoInv(s)'
      BY <3>3, <3>4, <3>6 DEF UndoInv
    <3> QED
      BY <2>1, <2>2, <3>2, <3>5, <3>7, RestGoes DEF instVars, ckptVars
  <2>3. CASE UNCHANGED <<pins, tree, lastRev>> /\ Go(s, NoCmd)
    BY <2>1, <2>3, LanesStand, RestEnds DEF instVars, ckptVars
  <2> QED
    BY <1>4, <2>2, <2>3 DEF CaptureStep, Done
<1>5. CASE SaveCheckpoint(s)
  <2> DEFINE c == [cmd[s] EXCEPT !.step = "record"]
             k == [bind |-> cmd[s].bind, dump |-> cmd[s].dump,
                   dropped |-> cmd[s].dropped, src |-> cmd[s].src, done |-> "unset"]
  <2>1. cmd[s].step = "capture" /\ cmd[s].todo = {} /\ cmd[s].op \in Captures /\ Go(s, c)
        /\ log' = [log EXCEPT ![s][cmd[s].id] = k]
        /\ UNCHANGED <<instVars, tip, laneVars, head, gc, cut, bounds>>
    BY <1>5 DEF SaveCheckpoint, Captures
  <2>2. /\ c.op = cmd[s].op /\ c.bind = cmd[s].bind /\ c.dump = cmd[s].dump
        /\ c.step = "record" /\ c.id = cmd[s].id /\ c.before = cmd[s].before
        /\ c.only = cmd[s].only
    BY <1>0 DEF Memory
  <2>3. /\ k.bind = cmd[s].bind /\ k.dump = cmd[s].dump /\ k.src = cmd[s].src
        /\ k.dropped = cmd[s].dropped /\ k # NoCkpt
    BY DEF NoCkpt
  <2>4. cmd[s].id \in Id
    BY <1>0, <2>1 DEF Numbered
  <2> HIDE DEF c, k
  <2>5. /\ \A r \in Slug \ {s} : log'[r] = log[r]
        /\ \A i \in Id : log'[s][i] = IF i = cmd[s].id THEN k ELSE log[s][i]
    BY <1>0, <2>1, <2>4 DEF TypeOK
  <2>6. cmd'[s] = c /\ \A r \in Slug \ {s} : cmd'[r] = cmd[r]
    BY <1>0, <2>1 DEF TypeOK, Go
  <2>7. Kept
    BY <2>1, LanesStand DEF laneVars
  <2>8. RevsMade(s)'
    <3>1. \A i \in Ids(s)' : i = cmd[s].id \/ (i \in Ids(s) /\ log'[s][i] = log[s][i])
      BY <2>5 DEF Ids
    <3>2. log'[s][cmd[s].id] = k
      BY <2>4, <2>5
    <3> QED
      BY <1>0, <2>1, <2>2, <2>3, <2>6, <3>1, <3>2 DEF RevsMade, instVars, laneVars
  <2>9. ASSUME cmd[s].op = "undo" PROVE UndoInv(s)'
    <3>1. AsFound(s) /\ db[s] = cmd[s].before.db /\ Dumped(s) /\ Captured(s)
      BY <1>0, <2>1, <2>9 DEF UndoInv
    <3>2. AsFound(s)'
      BY <2>1, <2>2, <2>6, <3>1 DEF AsFound, instVars
    <3>3. log'[s][c.id] = k
      BY <2>2, <2>4, <2>5
    <3>4. Safe(s)'
      BY <2>1, <2>2, <2>3, <2>6, <3>1, <3>3 DEF Safe, Captured, Dumped, laneVars
    <3>5. TrackersBack(s)'
      BY <2>2, <2>6 DEF TrackersBack
    <3> QED
      BY <2>2, <2>6, <3>2, <3>4, <3>5 DEF UndoInv
  <2>10. UndoInv(s)'
    BY <2>2, <2>6, <2>9 DEF UndoInv
  <2> QED
    BY <2>1, <2>5, <2>6, <2>7, <2>8, <2>10 DEF RestMoves, instVars
<1>6. CASE SaveRecord(s)
  <2> DEFINE f == [cmd[s] EXCEPT !.step = "fetch"]
             g == [cmd[s] EXCEPT !.step = "clear"]
             h == [cmd[s] EXCEPT !.step = "resources", !.todo = Restored(s)]
  <2>1. /\ cmd[s].step = "record" /\ SaveMemory(s)
        /\ UNCHANGED <<dir, files, src, db, ckptVars, laneVars, head, gc, cut, bounds>>
        /\ \/ cmd[s].op = "undo" /\ cmd[s].only = {} /\ Go(s, f)
           \/ cmd[s].op = "undo" /\ cmd[s].only # {} /\ Go(s, h)
           \/ cmd[s].op = "drop" /\ Go(s, g)
           \/ Go(s, NoCmd)
    BY <1>6 DEF SaveRecord, Done
  <2>2. Kept
    BY <2>1, LanesStand DEF laneVars
  <2>3. /\ rec'[s] = [bind |-> cmd[s].bind, dropped |-> cmd[s].dropped,
                      status |-> cmd[s].status]
        /\ \A r \in Slug \ {s} : rec'[r] = rec[r]
    BY <1>0, <2>1, Saving
  <2>4. ASSUME NEW c, Go(s, c), \A t \in Tracker : c.bind[t] \in 0 .. lastRev,
               \A t \in Deposit : c.dump[t] \in 0 .. lastRev, UndoInv(s)'
        PROVE  RestMoves(s)
    <3>1. cmd'[s] = c /\ \A r \in Slug \ {s} : cmd'[r] = cmd[r]
      BY <1>0, <2>4 DEF TypeOK, Go
    <3>2. rec'[s].bind = cmd[s].bind
      BY <2>3
    <3>3. RevsMade(s)'
      BY <1>0, <2>1, <2>4, <3>1, <3>2 DEF RevsMade, Ids, ckptVars, laneVars
    <3> QED
      BY <2>1, <2>2, <2>3, <2>4, <3>1, <3>3 DEF RestMoves, ckptVars
  <2>5. CASE cmd[s].op = "undo" /\ cmd[s].only = {} /\ Go(s, f)
    <3>1. /\ f.op = "undo" /\ f.step = "fetch" /\ f.bind = cmd[s].bind /\ f.dump = cmd[s].dump
          /\ f.id = cmd[s].id /\ f.before = cmd[s].before /\ f.only = {}
      BY <1>0, <2>5 DEF Memory
    <3> HIDE DEF f
    <3>2. cmd'[s] = f
      BY <1>0, <2>5 DEF TypeOK, Go
    <3>3. Safe(s)'
      <4>1. Safe(s)
        BY <1>0, <2>1, <2>5 DEF UndoInv
      <4> QED
        BY <2>1, <3>1, <3>2, <4>1, SafeStands DEF ckptVars, laneVars
    <3>4. TrackersBack(s)'
      BY <3>1, <3>2 DEF TrackersBack
    <3>5. UndoInv(s)'
      BY <3>1, <3>2, <3>3, <3>4 DEF UndoInv
    <3> QED
      BY <2>2, <2>4, <2>5, <3>1, <3>5, InMemory
  <2>6. CASE cmd[s].op = "undo" /\ cmd[s].only # {} /\ Go(s, h)
    <3>1. /\ h.op = "undo" /\ h.step = "resources" /\ h.bind = cmd[s].bind
          /\ h.dump = cmd[s].dump /\ h.to = cmd[s].to
          /\ h.id = cmd[s].id /\ h.before = cmd[s].before /\ h.only = cmd[s].only
          /\ h.todo = Restored(s)
      BY <1>0, <2>6 DEF Memory, Restored
    <3> HIDE DEF h
    <3>2. cmd'[s] = h
      BY <1>0, <2>6 DEF TypeOK, Go
    <3>3. Safe(s)' /\ AsFound(s)'
      <4>1. Safe(s) /\ AsFound(s)
        BY <1>0, <2>1, <2>6 DEF UndoInv
      <4>2. Safe(s)'
        BY <2>1, <3>1, <3>2, <4>1, SafeStands DEF ckptVars, laneVars
      <4>3. AsFound(s)'
        BY <2>1, <3>1, <3>2, <4>1 DEF AsFound
      <4> QED
        BY <4>2, <4>3
    <3>4. Restored(s)' = Restored(s)
      BY <2>1, <3>1, <3>2 DEF Restored, ckptVars
    <3>5. ResourcesBack(s)'
      BY <3>1, <3>2, <3>4 DEF ResourcesBack
    <3>6. UndoInv(s)'
      BY <2>6, <3>1, <3>2, <3>3, <3>5 DEF UndoInv
    <3> QED
      BY <2>2, <2>4, <2>6, <3>1, <3>6, InMemory
  <2>7. CASE cmd[s].op = "drop" /\ Go(s, g)
    <3>1. g.op = "drop" /\ g.bind = cmd[s].bind /\ g.dump = cmd[s].dump
      BY <1>0, <2>7 DEF Memory
    <3> HIDE DEF g
    <3>2. cmd'[s] = g
      BY <1>0, <2>7 DEF TypeOK, Go
    <3>3. UndoInv(s)'
      BY <3>1, <3>2 DEF UndoInv
    <3> QED
      BY <2>2, <2>4, <2>7, <3>1, <3>3, InMemory
  <2>8. CASE Go(s, NoCmd)
    <3>1. /\ NoCmd.op = "none" /\ \A t \in Tracker : NoCmd.bind[t] = 0
          /\ \A t \in Deposit : NoCmd.dump[t] = 0
      BY DEF NoCmd, NoBinding, NoDump
    <3>2. cmd'[s] = NoCmd
      BY <1>0, <2>8 DEF TypeOK, Go
    <3>3. UndoInv(s)'
      BY <3>1, <3>2 DEF UndoInv
    <3> QED
      BY <1>0, <2>4, <2>8, <3>1, <3>3
  <2> QED
    BY <2>1, <2>5, <2>6, <2>7, <2>8
<1> QED
  BY <1>1, <1>2, <1>3, <1>4, <1>5, <1>6 DEF CheckpointNext

-----------------------------------------------------------------------------
(* Going back.                                                             *)

\* A step of an undo past its safety checkpoint.
LEMMA UndoOn ==
    ASSUME RestoreInv, NEW s \in Slug, cmd[s].op = "undo",
           cmd[s].step \notin {"source", "capture"},
           NEW c, Go(s, c), c.op = "undo", c.id = cmd[s].id, c.to = cmd[s].to,
           c.only = cmd[s].only, c.before = cmd[s].before, c.dump = cmd[s].dump,
           \A t \in Tracker : c.bind[t] \in 0 .. lastRev,
           UNCHANGED <<log, pins, tree, lastRev>>,
           \A r \in Slug \ {s} : /\ rec'[r] = rec[r] /\ files'[r] = files[r]
                                 /\ src'[r] = src[r] /\ db'[r] = db[r],
           rec'[s] # NoRecord => \A t \in Tracker : rec'[s].bind[t] \in 0 .. lastRev
    PROVE  /\ cmd'[s] = c /\ Safe(s)' /\ Target(s)' = Target(s) /\ Restored(s)' = Restored(s)
           /\ UndoInv(s)' => RestMoves(s)
<1>0. TypeOK /\ RevsMade(s) /\ UndoInv(s) /\ lastRev \in Nat
  BY RestoreOf
<1>1. cmd'[s] = c /\ \A r \in Slug \ {s} : cmd'[r] = cmd[r]
  BY <1>0 DEF TypeOK, Go
<1>2. Safe(s)
  BY <1>0 DEF UndoInv
<1>3. Target(s)' = Target(s) /\ Restored(s)' = Restored(s)
  BY <1>1 DEF Target, Restored
<1>4. Safe(s)'
  BY <1>1, <1>2, SafeStands
<1>5. Kept
  BY LanesStand
<1>6. RevsMade(s)'
  BY <1>0, <1>1, InMemory, <1>5 DEF RevsMade, Ids
<1> QED
  BY <1>1, <1>3, <1>4, <1>5, <1>6 DEF RestMoves

LEMMA UndoRests ==
    ASSUME RestoreInv, LifeInv', NEW s \in Slug, UndoNext(s) PROVE RestMoves(s)
<1>0. /\ TypeOK /\ Phase(cmd[s]) /\ Numbered(s) /\ cmd[s] \in Memory
      /\ RevsMade(s) /\ UndoInv(s) /\ lastRev \in Nat
  BY RestoreOf
<1>1. ASSUME NEW i \in Id, NEW only \in SUBSET Deposit, BeginUndo(s, i, only)
      PROVE  RestMoves(s)
  <2> DEFINE b == [files |-> files[s], src |-> src[s], db |-> db[s]]
             d == Loaded(s, "undo", "source")
             c == [d EXCEPT !.id = NextId(s), !.to = i, !.only = only, !.before = b]
  <2>1. Go(s, c) /\ UNCHANGED <<instVars, ckptVars, laneVars, head, gc, cut, bounds>>
    BY <1>1 DEF BeginUndo
  <2>2. rec[s] # NoRecord
    BY <1>1 DEF BeginUndo, Live
  <2>a. "undo" \in Ops /\ "source" \in Steps
    BY DEF Ops, Steps
  <2>3. /\ d \in Memory /\ d.op = "undo" /\ d.step = "source" /\ d.bind = rec[s].bind
        /\ d.dropped = rec[s].dropped /\ d.dump = NoDump
    BY <1>0, <2>2, <2>a, Loading
  <2>4. b.files = files[s] /\ b.src = src[s] /\ b.db = db[s]
    OBVIOUS
  <2> HIDE DEF d, b
  <2>5. /\ c.op = "undo" /\ c.step = "source" /\ c.bind = rec[s].bind
        /\ c.dump = NoDump /\ c.before = b
    BY <2>3 DEF Memory
  <2> HIDE DEF c
  <2>6. cmd'[s] = c
    BY <1>0, <2>1 DEF TypeOK, Go
  <2>7. Kept
    BY <2>1, LanesStand DEF laneVars
  <2>8. /\ \A t \in Tracker : c.bind[t] \in 0 .. lastRev
        /\ \A t \in Deposit : c.dump[t] \in 0 .. lastRev
    BY <1>0, <2>2, <2>5, RestoreOf DEF RevsMade, NoDump
  <2>9. AsFound(s)' /\ db'[s] = c.before.db
    BY <2>1, <2>4, <2>5, <2>6 DEF AsFound, instVars
  <2>10. Dumped(s)' /\ TrackersBack(s)'
    BY <2>5, <2>6 DEF Dumped, NoDump, TrackersBack
  <2>11. UndoInv(s)'
    BY <2>5, <2>6, <2>9, <2>10 DEF UndoInv
  <2> QED
    BY <2>1, <2>7, <2>8, <2>11, RestGoes DEF instVars, ckptVars, laneVars
<1>2. CASE UndoFetch(s)
  <2> DEFINE c == [cmd[s] EXCEPT !.step = "rebind"]
  <2>1. /\ cmd[s].step = "fetch" /\ (Go(s, c) \/ Go(s, NoCmd))
        /\ UNCHANGED <<instVars, ckptVars, laneVars, head, gc, cut, bounds>>
    BY <1>2 DEF UndoFetch, Done
  <2>2. cmd[s].op = "undo"
    BY <1>0, <2>1, NoCmdType DEF Phase, Memory, Ops
  <2>3. /\ c.op = "undo" /\ c.step = "rebind" /\ c.bind = cmd[s].bind /\ c.dump = cmd[s].dump
        /\ c.id = cmd[s].id /\ c.to = cmd[s].to /\ c.only = cmd[s].only
        /\ c.before = cmd[s].before
    BY <1>0, <2>2 DEF Memory
  <2> HIDE DEF c
  <2>4. Kept
    BY <2>1, LanesStand DEF laneVars
  <2>5. CASE Go(s, c)
    <3>1. /\ cmd'[s] = c /\ Safe(s)'
          /\ UndoInv(s)' => RestMoves(s)
      BY <1>0, <2>1, <2>2, <2>3, <2>4, <2>5, UndoOn, InMemory, RestoreOf
         DEF RevsMade, instVars, ckptVars, laneVars
    <3>2. cmd[s].only = {} /\ TrackersBack(s)'
      BY <1>0, <2>1, <2>2, <2>3, <3>1 DEF UndoInv, TrackersBack
    <3>3. UndoInv(s)'
      BY <2>3, <3>1, <3>2 DEF UndoInv
    <3> QED
      BY <3>1, <3>3
  <2>6. CASE Go(s, NoCmd)
    BY <2>1, <2>4, <2>6, RestEnds DEF instVars, ckptVars
  <2> QED
    BY <2>1, <2>5, <2>6
<1>3. CASE UndoRebind(s)
  <2> DEFINE c == [cmd[s] EXCEPT !.step = "worktree", !.dropped = Target(s).dropped]
             k == [rec[s] EXCEPT !.dropped = Target(s).dropped]
  <2>1. /\ cmd[s].step = "rebind" /\ Go(s, c)
        /\ UNCHANGED <<dir, src, db, ckptVars, laneVars, head, gc, cut, bounds>>
    BY <1>3 DEF UndoRebind
  <2>2. cmd[s].op = "undo"
    BY <1>0, <2>1, NoCmdType DEF Phase, Memory, Ops
  <2>3. /\ c.op = "undo" /\ c.step = "worktree" /\ c.bind = cmd[s].bind
        /\ c.dump = cmd[s].dump /\ c.id = cmd[s].id /\ c.to = cmd[s].to
        /\ c.only = cmd[s].only /\ c.before = cmd[s].before
        /\ c.dropped = Target(s).dropped
    BY <1>0, <2>2 DEF Memory, Target
  <2>4. rec[s] \in Record /\ rec[s] # NoRecord
    BY <1>0, <2>2, Recorded DEF Numbered
  <2>5. k.bind = rec[s].bind
    BY <2>4 DEF Record
  <2>6. rec' = [rec EXCEPT ![s] = k]
    BY <1>0, <1>3 DEF UndoRebind, TypeOK
  <2>7. files' = [files EXCEPT ![s] =
                    [t \in Owned |-> IF t \in Target(s).dropped \ cmd[s].dropped
                                     THEN Empty ELSE files[s][t]]]
    BY <1>0, <1>3 DEF UndoRebind, TypeOK
  <2> HIDE DEF c, k
  <2>8. \A r \in Slug \ {s} : rec'[r] = rec[r] /\ files'[r] = files[r]
    BY <1>0, <2>6, <2>7 DEF TypeOK
  <2>9. rec'[s] = k
    BY <1>0, <2>6 DEF TypeOK
  <2>10. Kept
    BY <2>1, LanesStand DEF laneVars
  <2>11. \A t \in Tracker : rec'[s].bind[t] \in 0 .. lastRev /\ c.bind[t] \in 0 .. lastRev
    BY <1>0, <2>3, <2>4, <2>5, <2>9, <2>10, InMemory, RestoreOf DEF RevsMade
  <2>12. /\ cmd'[s] = c /\ Safe(s)' /\ Target(s)' = Target(s)
         /\ UndoInv(s)' => RestMoves(s)
    BY <2>1, <2>2, <2>3, <2>8, <2>11, UndoOn DEF ckptVars, laneVars
  <2>13. cmd[s].only = {}
    BY <1>0, <2>1, <2>2 DEF UndoInv
  <2>14. TrackersBack(s)'
    BY <2>3, <2>12 DEF TrackersBack
  <2>15. UndoInv(s)'
    BY <2>3, <2>12, <2>13, <2>14 DEF UndoInv
  <2> QED
    BY <2>12, <2>15
<1>4. CASE UndoSource(s)
  <2> DEFINE c == [cmd[s] EXCEPT !.step = "restore", !.todo = Tracker \ cmd[s].dropped]
  <2>1. /\ cmd[s].step = "worktree" /\ Go(s, c) /\ src' = [src EXCEPT ![s] = Target(s).src]
        /\ UNCHANGED <<rec, dir, files, db, ckptVars, laneVars, head, gc, cut, bounds>>
    BY <1>4 DEF UndoSource
  <2>2. cmd[s].op = "undo"
    BY <1>0, <2>1, NoCmdType DEF Phase, Memory, Ops
  <2>3. /\ c.op = "undo" /\ c.step = "restore" /\ c.bind = cmd[s].bind
        /\ c.dump = cmd[s].dump /\ c.id = cmd[s].id /\ c.to = cmd[s].to
        /\ c.only = cmd[s].only /\ c.before = cmd[s].before
        /\ c.dropped = cmd[s].dropped /\ c.todo = Tracker \ cmd[s].dropped
    BY <1>0, <2>2 DEF Memory
  <2> HIDE DEF c
  <2>4. src'[s] = Target(s).src /\ \A r \in Slug \ {s} : src'[r] = src[r]
    BY <1>0, <2>1 DEF TypeOK
  <2>5. Kept
    BY <2>1, LanesStand DEF laneVars
  <2>6. /\ cmd'[s] = c /\ Safe(s)' /\ Target(s)' = Target(s)
        /\ UndoInv(s)' => RestMoves(s)
    BY <1>0, <2>1, <2>2, <2>3, <2>4, <2>5, UndoOn, InMemory, RestoreOf
       DEF RevsMade, ckptVars, laneVars
  <2>7. cmd[s].only = {} /\ cmd[s].dropped = Target(s).dropped
    BY <1>0, <2>1, <2>2 DEF UndoInv
  <2>8. TrackersBack(s)'
    BY <2>3, <2>6, <2>7 DEF TrackersBack, Tracker
  <2>9. UndoInv(s)'
    BY <2>3, <2>4, <2>6, <2>7, <2>8 DEF UndoInv
  <2> QED
    BY <2>6, <2>9
<1>5. ASSUME NEW t \in Tracker, UndoTracker(s, t) PROVE RestMoves(s)
  <2> DEFINE r == Target(s).bind[t]
             c == [cmd[s] EXCEPT !.todo = @ \ {t}, !.bind[t] = r]
             f == [u \in Owned |-> CASE u # t -> files[s][u]
                                     [] u = t /\ r = 0 -> Empty
                                     [] u = t /\ r # 0 -> tree[r]]
  <2>1. /\ cmd[s].step = "restore" /\ cmd[s].op = "undo"
        /\ UNCHANGED <<rec, dir, src, db, ckptVars, laneVars, head, gc, cut, bounds>>
        /\ \/ Go(s, c) /\ files' = [files EXCEPT ![s] = f]
           \/ Go(s, NoCmd) /\ files' = files
    BY <1>0, <1>5 DEF UndoTracker, Done, TypeOK
  <2>2. r \in 0 .. lastRev
    BY <2>1, UndoTarget
  <2>3. \A u \in Owned : f[u] = IF u = t THEN IF r = 0 THEN Empty ELSE tree[r] ELSE files[s][u]
    OBVIOUS
  <2> HIDE DEF r, f
  <2>4. /\ c.op = "undo" /\ c.step = "restore" /\ c.dump = cmd[s].dump /\ c.id = cmd[s].id
        /\ c.to = cmd[s].to /\ c.only = cmd[s].only /\ c.before = cmd[s].before
        /\ c.dropped = cmd[s].dropped /\ c.todo = cmd[s].todo \ {t}
        /\ c.bind[t] = r /\ \A u \in Tracker \ {t} : c.bind[u] = cmd[s].bind[u]
    BY <1>0, <2>1 DEF Memory, Binding
  <2> HIDE DEF c
  <2>5. Kept
    BY <2>1, LanesStand DEF laneVars
  <2>6. CASE Go(s, c) /\ files' = [files EXCEPT ![s] = f]
    <3>1. files'[s] = f /\ \A q \in Slug \ {s} : files'[q] = files[q]
      BY <1>0, <2>6 DEF TypeOK
    <3>2. \A u \in Tracker : c.bind[u] \in 0 .. lastRev
      BY <2>2, <2>4, <2>5, InMemory
    <3>3. /\ cmd'[s] = c /\ Safe(s)' /\ Target(s)' = Target(s)
          /\ UndoInv(s)' => RestMoves(s)
      BY <1>0, <2>1, <2>4, <2>6, <3>1, <3>2, UndoOn, RestoreOf
         DEF RevsMade, ckptVars, laneVars
    <3>4. /\ cmd[s].only = {} /\ cmd[s].dropped = Target(s).dropped /\ src[s] = Target(s).src
          /\ \A u \in Owned \ (Target(s).dropped \cup cmd[s].todo) : Back(s, u)
      BY <1>0, <2>1 DEF UndoInv, TrackersBack
    <3>5. ASSUME NEW u \in Owned \ (Target(s).dropped \cup c.todo) PROVE Back(s, u)'
      <4>1. CASE u = t
        BY <2>1, <2>3, <2>4, <3>1, <3>3, <4>1 DEF Back, laneVars, r
      <4>2. CASE u # t
        <5>1. Back(s, u) /\ u \in Tracker
          BY <2>4, <3>4, <4>2 DEF Tracker
        <5> QED
          BY <2>1, <2>3, <2>4, <3>1, <3>3, <4>2, <5>1 DEF Back, laneVars
      <4> QED
        BY <4>1, <4>2
    <3>6. TrackersBack(s)'
      BY <2>4, <3>3, <3>5 DEF TrackersBack
    <3>7. UndoInv(s)'
      BY <2>1, <2>4, <3>3, <3>4, <3>6 DEF UndoInv
    <3> QED
      BY <3>3, <3>7
  <2>7. CASE Go(s, NoCmd) /\ files' = files
    BY <2>1, <2>5, <2>7, RestEnds DEF ckptVars
  <2> QED
    BY <2>1, <2>6, <2>7
<1>6. CASE UndoTrackersDone(s)
  <2> DEFINE c == [cmd[s] EXCEPT !.step = "resources", !.todo = Restored(s)]
  <2>1. /\ cmd[s].step = "restore" /\ cmd[s].op = "undo" /\ cmd[s].todo = {} /\ Go(s, c)
        /\ UNCHANGED <<instVars, ckptVars, laneVars, head, gc, cut, bounds>>
    BY <1>6 DEF UndoTrackersDone
  <2>2. /\ c.op = "undo" /\ c.step = "resources" /\ c.bind = cmd[s].bind
        /\ c.dump = cmd[s].dump /\ c.id = cmd[s].id /\ c.to = cmd[s].to
        /\ c.only = cmd[s].only /\ c.before = cmd[s].before
        /\ c.dropped = cmd[s].dropped /\ c.todo = Restored(s)
    BY <1>0, <2>1 DEF Memory
  <2> HIDE DEF c
  <2>3. Kept
    BY <2>1, LanesStand DEF laneVars
  <2>4. /\ cmd'[s] = c /\ Safe(s)' /\ Target(s)' = Target(s) /\ Restored(s)' = Restored(s)
        /\ UndoInv(s)' => RestMoves(s)
    BY <1>0, <2>1, <2>2, <2>3, UndoOn, InMemory, RestoreOf
       DEF RevsMade, instVars, ckptVars, laneVars
  <2>5. /\ cmd[s].only = {} /\ cmd[s].dropped = Target(s).dropped /\ src[s] = Target(s).src
        /\ \A u \in Owned \ Target(s).dropped : Back(s, u)
    BY <1>0, <2>1 DEF UndoInv, TrackersBack
  <2>6. \A u \in Owned \ Target(s).dropped : Back(s, u)'
    BY <2>1, <2>2, <2>4, <2>5 DEF Back, instVars, laneVars
  <2>7. TrackersBack(s)' /\ ResourcesBack(s)'
    BY <2>2, <2>4, <2>6 DEF TrackersBack, ResourcesBack
  <2>8. UndoInv(s)'
    BY <2>1, <2>2, <2>4, <2>5, <2>7 DEF UndoInv, instVars
  <2> QED
    BY <2>4, <2>8
\* What the last steps leave alone.
<1>7. ASSUME cmd[s].op = "undo", cmd[s].step \in {"resources", "save"},
             NEW c, c.op = "undo", c.step \in {"resources", "save", "stamp"},
             c.bind = cmd[s].bind, c.id = cmd[s].id, c.to = cmd[s].to, c.only = cmd[s].only,
             c.before = cmd[s].before, c.dropped = cmd[s].dropped, cmd'[s] = c,
             files' = files, src' = src, UNCHANGED <<log, tree>>, Safe(s)',
             ResourcesBack(s)',
             c.step = "stamp" => rec'[s] = [bind |-> c.bind, dropped |-> c.dropped,
                                            status |-> c.status]
      PROVE  UndoInv(s)'
  <2>1. Target(s)' = Target(s)
    BY <1>7 DEF Target
  <2>2. cmd[s].only # {} => AsFound(s)'
    BY <1>0, <1>7 DEF UndoInv, AsFound
  <2>3. ASSUME cmd[s].only = {}
        PROVE  /\ cmd[s].dropped = Target(s).dropped /\ src[s] = Target(s).src
               /\ TrackersBack(s)'
    <3>1. /\ cmd[s].dropped = Target(s).dropped /\ src[s] = Target(s).src
          /\ \A u \in Owned \ Target(s).dropped : Back(s, u)
      BY <1>0, <1>7, <2>3 DEF UndoInv, TrackersBack
    <3>2. \A u \in Owned \ Target(s).dropped : Back(s, u)'
      BY <1>7, <2>1, <3>1 DEF Back
    <3> QED
      BY <1>7, <2>1, <3>1, <3>2 DEF TrackersBack
  <2> QED
    BY <1>7, <2>1, <2>2, <2>3 DEF UndoInv
<1>8. ASSUME NEW t \in Deposit, UndoResource(s, t) PROVE RestMoves(s)
  <2> DEFINE r == Target(s).dump[t]
             c == [cmd[s] EXCEPT !.todo = @ \ {t}, !.status[t] = "ready"]
             d == [cmd[s] EXCEPT !.todo = @ \ {t}, !.status[t] = "failed", !.failed = TRUE]
  <2>1. /\ cmd[s].step = "resources"
        /\ UNCHANGED <<rec, dir, files, src, ckptVars, laneVars, head, gc, cut, bounds>>
        /\ \/ Go(s, c) /\ db' = [db EXCEPT ![s][t] = tree[r]]
           \/ Go(s, d) /\ \E v \in Content : db' = [db EXCEPT ![s][t] = v]
           \/ Go(s, NoCmd) /\ db' = db
    BY <1>8 DEF UndoResource, Done
  <2>2. cmd[s].op = "undo"
    BY <1>0, <2>1, NoCmdType DEF Phase, Memory, Ops
  <2>3. /\ c.op = "undo" /\ c.step = "resources" /\ c.bind = cmd[s].bind
        /\ c.dump = cmd[s].dump /\ c.id = cmd[s].id /\ c.to = cmd[s].to
        /\ c.only = cmd[s].only /\ c.before = cmd[s].before /\ c.dropped = cmd[s].dropped
        /\ c.todo = cmd[s].todo \ {t} /\ c.failed = cmd[s].failed
        /\ c.status[t] = "ready" /\ \A u \in Deposit \ {t} : c.status[u] = cmd[s].status[u]
    BY <1>0, <2>1, <2>2 DEF Memory, Status
  <2>4. /\ d.op = "undo" /\ d.step = "resources" /\ d.bind = cmd[s].bind
        /\ d.dump = cmd[s].dump /\ d.id = cmd[s].id /\ d.to = cmd[s].to
        /\ d.only = cmd[s].only /\ d.before = cmd[s].before /\ d.dropped = cmd[s].dropped
        /\ d.failed = TRUE
    BY <1>0, <2>1, <2>2 DEF Memory, Status
  <2> HIDE DEF r, c, d
  <2>5. Kept
    BY <2>1, LanesStand DEF laneVars
  <2>6. ASSUME NEW v, db' = [db EXCEPT ![s][t] = v]
        PROVE  /\ db'[s][t] = v /\ \A u \in Deposit \ {t} : db'[s][u] = db[s][u]
               /\ \A q \in Slug \ {s} : db'[q] = db[q]
    BY <1>0, <2>6 DEF TypeOK
  <2>7. CASE Go(s, c) /\ db' = [db EXCEPT ![s][t] = tree[r]]
    <3>1. /\ cmd'[s] = c /\ Safe(s)' /\ Target(s)' = Target(s) /\ Restored(s)' = Restored(s)
          /\ UndoInv(s)' => RestMoves(s)
      BY <1>0, <2>1, <2>2, <2>3, <2>5, <2>6, <2>7, UndoOn, InMemory, RestoreOf
         DEF RevsMade, ckptVars, laneVars
    <3>2. ResourcesBack(s)
      BY <1>0, <2>1, <2>2 DEF UndoInv
    <3>3. ResourcesBack(s)'
      <4> SUFFICES ASSUME ~ c.failed, NEW u \in Restored(s) \ c.todo
                   PROVE  db'[s][u] = tree[Target(s).dump[u]] /\ c.status[u] = "ready"
        BY <2>1, <2>3, <3>1 DEF ResourcesBack, laneVars
      <4>1. CASE u = t
        <5>1. db'[s][t] = tree[r]
          BY <2>6, <2>7
        <5> QED
          BY <2>3, <4>1, <5>1 DEF r
      <4>2. CASE u # t
        <5>1. u \in Restored(s) \ cmd[s].todo /\ u \in Deposit
          BY <2>3, <4>2 DEF Restored
        <5> QED
          BY <2>3, <2>6, <2>7, <3>2, <4>2, <5>1 DEF ResourcesBack
      <4> QED
        BY <4>1, <4>2
    <3> QED
      BY <1>7, <2>1, <2>2, <2>3, <3>1, <3>3 DEF ckptVars, laneVars
  <2>8. CASE Go(s, d) /\ \E v \in Content : db' = [db EXCEPT ![s][t] = v]
    <3>0. \A q \in Slug \ {s} : db'[q] = db[q]
      BY <2>6, <2>8
    <3>1. /\ cmd'[s] = d /\ Safe(s)'
          /\ UndoInv(s)' => RestMoves(s)
      BY <1>0, <2>1, <2>2, <2>4, <2>5, <2>8, <3>0, UndoOn, InMemory, RestoreOf
         DEF RevsMade, ckptVars, laneVars
    <3>2. ResourcesBack(s)'
      BY <2>4, <3>1 DEF ResourcesBack
    <3> QED
      BY <1>7, <2>1, <2>2, <2>4, <3>1, <3>2 DEF ckptVars, laneVars
  <2>9. CASE Go(s, NoCmd) /\ db' = db
    BY <2>1, <2>5, <2>9, RestEnds DEF ckptVars
  <2> QED
    BY <2>1, <2>7, <2>8, <2>9
<1>9. CASE UndoResourcesDone(s)
  <2> DEFINE c == [cmd[s] EXCEPT !.step = "save"]
  <2>1. /\ cmd[s].step = "resources" /\ cmd[s].todo = {} /\ Go(s, c)
        /\ UNCHANGED <<instVars, ckptVars, laneVars, head, gc, cut, bounds>>
    BY <1>9 DEF UndoResourcesDone
  <2>2. cmd[s].op = "undo"
    BY <1>0, <2>1, NoCmdType DEF Phase, Memory, Ops
  <2>3. /\ c.op = "undo" /\ c.step = "save" /\ c.bind = cmd[s].bind
        /\ c.dump = cmd[s].dump /\ c.id = cmd[s].id /\ c.to = cmd[s].to
        /\ c.only = cmd[s].only /\ c.before = cmd[s].before /\ c.dropped = cmd[s].dropped
        /\ c.todo = {} /\ c.failed = cmd[s].failed /\ c.status = cmd[s].status
    BY <1>0, <2>1, <2>2 DEF Memory
  <2> HIDE DEF c
  <2>4. Kept
    BY <2>1, LanesStand DEF laneVars
  <2>5. /\ cmd'[s] = c /\ Safe(s)' /\ Target(s)' = Target(s) /\ Restored(s)' = Restored(s)
        /\ UndoInv(s)' => RestMoves(s)
    BY <1>0, <2>1, <2>2, <2>3, <2>4, UndoOn, InMemory, RestoreOf
       DEF RevsMade, instVars, ckptVars, laneVars
  <2>6. ResourcesBack(s)
    BY <1>0, <2>1, <2>2 DEF UndoInv
  <2>7. ResourcesBack(s)'
    BY <2>1, <2>3, <2>5, <2>6 DEF ResourcesBack, instVars, laneVars
  <2> QED
    BY <1>7, <2>1, <2>2, <2>3, <2>5, <2>7 DEF instVars, ckptVars, laneVars
<1>10. CASE SaveLast(s)
  <2> DEFINE c == [cmd[s] EXCEPT !.step = "stamp"]
  <2>1. /\ cmd[s].step = "save" /\ SaveMemory(s)
        /\ (cmd[s].op = "undo" /\ Go(s, c)) \/ Go(s, NoCmd)
        /\ UNCHANGED <<dir, files, src, db, ckptVars, laneVars, head, gc, cut, bounds>>
    BY <1>10 DEF SaveLast, Done
  <2>2. Kept
    BY <2>1, LanesStand DEF laneVars
  <2>3. /\ rec'[s] = [bind |-> cmd[s].bind, dropped |-> cmd[s].dropped,
                      status |-> cmd[s].status]
        /\ \A r \in Slug \ {s} : rec'[r] = rec[r]
    BY <1>0, <2>1, Saving
  <2>4. rec'[s].bind = cmd[s].bind
    BY <2>3
  <2>5. CASE cmd[s].op = "undo" /\ Go(s, c)
    <3>1. /\ c.op = "undo" /\ c.step = "stamp" /\ c.bind = cmd[s].bind
          /\ c.dump = cmd[s].dump /\ c.id = cmd[s].id /\ c.to = cmd[s].to
          /\ c.only = cmd[s].only /\ c.before = cmd[s].before /\ c.dropped = cmd[s].dropped
          /\ c.todo = cmd[s].todo /\ c.failed = cmd[s].failed /\ c.status = cmd[s].status
      BY <1>0, <2>5 DEF Memory
    <3> HIDE DEF c
    <3>2. /\ cmd'[s] = c /\ Safe(s)' /\ Target(s)' = Target(s) /\ Restored(s)' = Restored(s)
          /\ UndoInv(s)' => RestMoves(s)
      BY <2>1, <2>2, <2>3, <2>4, <2>5, <3>1, UndoOn, InMemory DEF ckptVars, laneVars
    <3>3. ResourcesBack(s)
      BY <1>0, <2>1, <2>5 DEF UndoInv
    <3>4. ResourcesBack(s)'
      BY <2>1, <3>1, <3>2, <3>3 DEF ResourcesBack, laneVars
    <3> QED
      BY <1>7, <2>1, <2>3, <2>5, <3>1, <3>2, <3>4 DEF ckptVars, laneVars
  <2>6. CASE Go(s, NoCmd)
    <3>1. /\ NoCmd.op = "none" /\ \A t \in Tracker : NoCmd.bind[t] = 0
          /\ \A t \in Deposit : NoCmd.dump[t] = 0
      BY DEF NoCmd, NoBinding, NoDump
    <3>2. cmd'[s] = NoCmd /\ \A r \in Slug \ {s} : cmd'[r] = cmd[r]
      BY <1>0, <2>6 DEF TypeOK, Go
    <3>3. UndoInv(s)'
      BY <3>1, <3>2 DEF UndoInv
    <3>4. RevsMade(s)'
      BY <1>0, <2>1, <2>4, <3>1, <3>2 DEF RevsMade, Ids, ckptVars, laneVars
    <3> QED
      BY <2>1, <2>2, <2>3, <3>2, <3>3, <3>4 DEF RestMoves, ckptVars
  <2> QED
    BY <2>1, <2>5, <2>6
<1>11. CASE UndoStamp(s)
  <2> DEFINE v == IF cmd[s].failed THEN "no" ELSE "yes"
             k == [log[s][cmd[s].id] EXCEPT !.done = v]
  <2>1. cmd[s].step = "stamp" /\ Go(s, NoCmd)
        /\ UNCHANGED <<instVars, tip, laneVars, head, gc, cut, bounds>>
    BY <1>11 DEF UndoStamp, Done
  <2>2. cmd[s].op = "undo"
    BY <1>0, <2>1, NoCmdType DEF Phase, Memory, Ops
  <2>3. cmd[s].id \in Ids(s) /\ cmd[s].id \in Id
    BY <1>0, <2>1, <2>2 DEF Numbered, Captures
  <2>4. log[s][cmd[s].id] \in Ckpt
    BY <1>0, <2>3 DEF TypeOK, Ids
  <2>5. log' = [log EXCEPT ![s][cmd[s].id] = k]
    BY <1>0, <1>11, <2>3 DEF UndoStamp, TypeOK
  <2>6. k.bind = log[s][cmd[s].id].bind /\ k.dump = log[s][cmd[s].id].dump
    BY <2>4 DEF Ckpt
  <2> HIDE DEF k
  <2>7. /\ \A r \in Slug \ {s} : log'[r] = log[r]
        /\ \A i \in Id : log'[s][i] = IF i = cmd[s].id THEN k ELSE log[s][i]
    BY <1>0, <2>3, <2>5 DEF TypeOK
  <2>8. \A i \in Ids(s)' : /\ i \in Ids(s) /\ log'[s][i].bind = log[s][i].bind
                           /\ log'[s][i].dump = log[s][i].dump
    BY <2>3, <2>6, <2>7 DEF Ids
  <2>9. cmd'[s] = NoCmd /\ \A r \in Slug \ {s} : cmd'[r] = cmd[r]
    BY <1>0, <2>1 DEF TypeOK, Go
  <2>10. /\ NoCmd.op = "none" /\ \A t \in Tracker : NoCmd.bind[t] = 0
         /\ \A t \in Deposit : NoCmd.dump[t] = 0
    BY DEF NoCmd, NoBinding, NoDump
  <2>11. UndoInv(s)'
    BY <2>9, <2>10 DEF UndoInv
  <2>12. RevsMade(s)'
    BY <1>0, <2>1, <2>8, <2>9, <2>10 DEF RevsMade, instVars, laneVars
  <2>13. Kept
    BY <2>1, LanesStand DEF laneVars
  <2> QED
    BY <2>1, <2>7, <2>9, <2>11, <2>12, <2>13 DEF RestMoves, instVars
<1> QED
  BY <1>1, <1>2, <1>3, <1>4, <1>5, <1>6, <1>8, <1>9, <1>10, <1>11 DEF UndoNext

-----------------------------------------------------------------------------
(* The other commands.                                                     *)

\* A step of a command that is not an undo, in the files at most.
LEMMA OthersGo ==
    ASSUME RestoreInv, NEW s \in Slug, NEW c, Go(s, c), c.op # "undo", Kept,
           UNCHANGED <<rec, log>>,
           \A r \in Slug \ {s} : files'[r] = files[r] /\ src'[r] = src[r] /\ db'[r] = db[r],
           \A t \in Tracker : c.bind[t] \in 0 .. lastRev',
           \A t \in Deposit : c.dump[t] \in 0 .. lastRev'
    PROVE  RestMoves(s)
<1>1. cmd'[s] = c
  BY RestoreOf DEF TypeOK, Go
<1>2. UndoInv(s)'
  BY <1>1 DEF UndoInv
<1> QED
  BY <1>2, RestGoes

\* A rev that can be read has been made.
LEMMA ReadableMade ==
    ASSUME RestoreInv, NEW t \in Tracker, NEW r \in Rev0, Readable(t, r)
    PROVE  r \in 0 .. lastRev
<1>1. r \in Nat /\ lastRev \in Nat /\ \A k \in pins : k[2] <= lastRev
  BY SnapshotsAssumption DEF RestoreInv, LifeInv, TypeOK, Rev0
<1>2. CASE r = 0
  BY <1>1, <1>2
<1>3. CASE <<t, r>> \in pins
  <2>1. <<t, r>>[2] <= lastRev
    BY <1>1, <1>3
  <2> QED
    BY <1>1, <2>1
<1> QED
  BY <1>2, <1>3 DEF Readable, Pinned

LEMMA TrackerRests ==
    ASSUME RestoreInv, LifeInv', NEW s \in Slug, TrackerNext(s) PROVE RestMoves(s)
<1>0. /\ TypeOK /\ Phase(cmd[s]) /\ Numbered(s) /\ cmd[s] \in Memory
      /\ RevsMade(s) /\ UndoInv(s) /\ lastRev \in Nat
  BY RestoreOf
<1> SUFFICES ASSUME NEW t \in Owned,
                    \/ BeginCapture(s, t) \/ BeginPull(s, t)
                    \/ BeginDrop(s, t) \/ BeginUse(s, t)
                    \/ \E r \in Rev : BeginCheckout(s, t, r)
                    \/ TrackerCapture(s, t) \/ RestoreRev(s, t) \/ DropClear(s, t)
             PROVE  RestMoves(s)
  BY DEF TrackerNext
<1> t \in Tracker
  BY DEF Tracker
\* The commands begin with the record.
<1>1. ASSUME NEW op \in TrackerOps, NEW step \in Steps, rec[s] # NoRecord, NEW c,
             BeginTracker(s, op, c),
             c.op = op, c.bind = Loaded(s, op, step).bind, c.dump = Loaded(s, op, step).dump
      PROVE  RestMoves(s)
  <2>1. Go(s, c) /\ UNCHANGED <<instVars, ckptVars, laneVars, head, gc, cut, bounds>>
    BY <1>1 DEF BeginTracker
  <2>2. op \in Ops /\ op # "undo"
    BY <1>1 DEF TrackerOps, Ops
  <2>3. c.bind = rec[s].bind /\ c.dump = NoDump
    BY <1>0, <1>1, <2>2, Loading
  <2>4. Kept
    BY <2>1, LanesStand DEF laneVars
  <2>5. /\ \A u \in Tracker : c.bind[u] \in 0 .. lastRev
        /\ \A u \in Deposit : c.dump[u] \in 0 .. lastRev
    BY <1>0, <1>1, <2>3, RestoreOf DEF RevsMade, NoDump
  <2> QED
    BY <1>1, <2>1, <2>2, <2>4, <2>5, OthersGo DEF instVars, ckptVars, laneVars
<1>2. ASSUME NEW op \in TrackerOps, NEW step \in Steps, rec[s] # NoRecord
      PROVE  Loaded(s, op, step) \in Memory /\ Loaded(s, op, step).op = op
  <2>1. op \in Ops
    BY DEF TrackerOps, Ops
  <2> QED
    BY <1>0, <1>2, <2>1, Loading
<1>3. CASE BeginCapture(s, t)
  <2> DEFINE d == Loaded(s, "capture", "capture")
             c == [d EXCEPT !.todo = {t}]
  <2>1. BeginTracker(s, "capture", c)
    BY <1>3, Zenon DEF BeginCapture
  <2>2. rec[s] # NoRecord
    BY <2>1 DEF BeginTracker, Live
  <2>3. d \in Memory /\ d.op = "capture"
    BY <1>2, <2>2 DEF TrackerOps, Steps
  <2>4. c.op = "capture" /\ c.bind = d.bind /\ c.dump = d.dump
    BY <2>3 DEF Memory
  <2> HIDE DEF c
  <2> QED
    BY <1>1, <2>1, <2>2, <2>4 DEF TrackerOps, Steps
<1>4. CASE BeginPull(s, t)
  <2> DEFINE f == CaptureFirst(s, t)
             d == Loaded(s, "pull", f)
             c == [d EXCEPT !.todo = {t}]
  <2>0. f \in Steps
    BY DEF CaptureFirst, Steps
  <2>1. BeginTracker(s, "pull", c)
    BY <1>4, Zenon DEF BeginPull
  <2> HIDE DEF f
  <2>2. rec[s] # NoRecord
    BY <2>1 DEF BeginTracker, Live
  <2>3. d \in Memory /\ d.op = "pull"
    BY <1>2, <2>0, <2>2 DEF TrackerOps
  <2>4. c.op = "pull" /\ c.bind = d.bind /\ c.dump = d.dump
    BY <2>3 DEF Memory
  <2> HIDE DEF c
  <2> QED
    BY <1>1, <2>0, <2>1, <2>2, <2>4 DEF TrackerOps
<1>5. CASE BeginDrop(s, t)
  <2> DEFINE d == Loaded(s, "drop", "capture")
             c == [d EXCEPT !.todo = {t}]
  <2>1. BeginTracker(s, "drop", c)
    BY <1>5, Zenon DEF BeginDrop
  <2>2. rec[s] # NoRecord
    BY <2>1 DEF BeginTracker, Live
  <2>3. d \in Memory /\ d.op = "drop"
    BY <1>2, <2>2 DEF TrackerOps, Steps
  <2>4. c.op = "drop" /\ c.bind = d.bind /\ c.dump = d.dump
    BY <2>3 DEF Memory
  <2> HIDE DEF c
  <2> QED
    BY <1>1, <2>1, <2>2, <2>4 DEF TrackerOps, Steps
<1>6. CASE BeginUse(s, t)
  <2> DEFINE f == IF rec[s].bind[t] # 0 THEN "restore" ELSE CaptureFirst(s, t)
             d == Loaded(s, "use", f)
             c == [d EXCEPT !.todo = {t}, !.to = rec[s].bind[t], !.dropped = @ \ {t}]
  <2>0. f \in Steps
    BY DEF CaptureFirst, Steps
  <2>1. BeginTracker(s, "use", c)
    BY <1>6, Zenon DEF BeginUse
  <2> HIDE DEF f
  <2>2. rec[s] # NoRecord
    BY <2>1 DEF BeginTracker, Live
  <2>3. d \in Memory /\ d.op = "use"
    BY <1>2, <2>0, <2>2 DEF TrackerOps
  <2>4. c.op = "use" /\ c.bind = d.bind /\ c.dump = d.dump
    BY <2>3 DEF Memory
  <2> HIDE DEF c
  <2> QED
    BY <1>1, <2>0, <2>1, <2>2, <2>4 DEF TrackerOps
<1>7. ASSUME NEW r \in Rev, BeginCheckout(s, t, r) PROVE RestMoves(s)
  <2> DEFINE d == Loaded(s, "checkout", "capture")
             c == [d EXCEPT !.todo = {t}, !.to = r]
  <2>1. BeginTracker(s, "checkout", c)
    BY <1>7, Zenon DEF BeginCheckout
  <2>2. rec[s] # NoRecord
    BY <2>1 DEF BeginTracker, Live
  <2>3. d \in Memory /\ d.op = "checkout"
    BY <1>2, <2>2 DEF TrackerOps, Steps
  <2>4. c.op = "checkout" /\ c.bind = d.bind /\ c.dump = d.dump
    BY <2>3 DEF Memory
  <2> HIDE DEF c
  <2> QED
    BY <1>1, <2>1, <2>2, <2>4 DEF TrackerOps, Steps
<1>8. CASE TrackerCapture(s, t)
  <2> DEFINE p == cmd[s].bind[t]
             r == CommitRev(files[s][t], p)
             c == [cmd[s] EXCEPT !.step = "record", !.bind[t] = r]
             d == [cmd[s] EXCEPT !.step = "restore"]
  <2>1. UNCHANGED <<instVars, ckptVars, main, head, gc, cut, bounds>>
        /\ cmd[s].op \in TrackerOps
    BY <1>8 DEF TrackerCapture, TrackerOps
  <2>2. files[s][t] \in Content /\ p \in Rev0
    BY <1>0 DEF TypeOK, Memory, Binding
  <2>3. CASE Commit(t, files[s][t], r) /\ Go(s, c)
    <3>1. Kept /\ r \in 1 .. lastRev'
      BY <2>2, <2>3, LaneGrows
    <3> HIDE DEF r
    <3>2. /\ c.op = cmd[s].op /\ c.dump = cmd[s].dump
          /\ c.bind[t] = r /\ \A u \in Tracker \ {t} : c.bind[u] = cmd[s].bind[u]
      BY <1>0 DEF Memory, Binding
    <3> HIDE DEF c
    <3>3. /\ \A u \in Tracker : c.bind[u] \in 0 .. lastRev'
          /\ \A u \in Deposit : c.dump[u] \in 0 .. lastRev'
      BY <3>1, <3>2, InMemory
    <3> QED
      BY <2>1, <2>3, <3>1, <3>2, <3>3, OthersGo DEF TrackerOps, instVars, ckptVars
  <2>4. CASE Commit(t, files[s][t], r) /\ Go(s, d)
    <3>1. Kept
      BY <2>2, <2>4, LaneGrows
    <3>2. d.op = cmd[s].op /\ d.dump = cmd[s].dump /\ d.bind = cmd[s].bind
      BY <1>0 DEF Memory
    <3> HIDE DEF d
    <3> QED
      BY <2>1, <2>4, <3>1, <3>2, InMemory, OthersGo DEF TrackerOps, instVars, ckptVars
  <2>5. CASE Go(s, NoCmd) /\ UNCHANGED <<pins, tree, lastRev>>
    BY <2>1, <2>5, LanesStand, RestEnds DEF instVars, ckptVars
  <2> QED
    BY <1>8, <2>3, <2>4, <2>5 DEF TrackerCapture, Done
<1>9. CASE RestoreRev(s, t)
  <2> DEFINE r == IF cmd[s].to # 0 THEN cmd[s].to ELSE main[t]
             c == [cmd[s] EXCEPT !.step = "save", !.bind[t] = r]
  <2>1. /\ UNCHANGED <<rec, dir, src, db, ckptVars, laneVars, head, gc, cut, bounds>>
        /\ cmd[s].op \in {"checkout", "pull", "use"}
        /\ (Readable(t, r) /\ Go(s, c)) \/ Go(s, NoCmd)
        /\ \A q \in Slug \ {s} : files'[q] = files[q]
    BY <1>0, <1>9 DEF RestoreRev, Done, TypeOK
  <2>2. r \in Rev0
    BY <1>0, <2>1 DEF Numbered, TypeOK
  <2> HIDE DEF r
  <2>3. Kept
    BY <2>1, LanesStand DEF laneVars
  <2>4. CASE Readable(t, r) /\ Go(s, c)
    <3>1. r \in 0 .. lastRev
      BY <2>2, <2>4, ReadableMade
    <3>2. /\ c.op = cmd[s].op /\ c.dump = cmd[s].dump
          /\ c.bind[t] = r /\ \A u \in Tracker \ {t} : c.bind[u] = cmd[s].bind[u]
      BY <1>0 DEF Memory, Binding
    <3> HIDE DEF c
    <3>3. /\ \A u \in Tracker : c.bind[u] \in 0 .. lastRev'
          /\ \A u \in Deposit : c.dump[u] \in 0 .. lastRev'
      BY <2>1, <2>3, <3>1, <3>2, InMemory DEF laneVars
    <3> QED
      BY <2>1, <2>3, <2>4, <3>2, <3>3, OthersGo DEF ckptVars
  <2>5. CASE Go(s, NoCmd)
    BY <2>1, <2>3, <2>5, RestEnds DEF ckptVars
  <2> QED
    BY <2>1, <2>4, <2>5
<1>10. CASE DropClear(s, t)
  <2> DEFINE c == [cmd[s] EXCEPT !.step = "save", !.dropped = @ \cup {t}]
  <2>1. /\ UNCHANGED <<rec, dir, src, db, ckptVars, laneVars, head, gc, cut, bounds>>
        /\ cmd[s].step = "clear" /\ Go(s, c)
        /\ \A q \in Slug \ {s} : files'[q] = files[q]
    BY <1>0, <1>10 DEF DropClear, TypeOK
  <2>2. cmd[s].op = "drop"
    BY <1>0, <2>1, NoCmdType DEF Phase, Memory, Ops
  <2>3. c.op = "drop" /\ c.bind = cmd[s].bind /\ c.dump = cmd[s].dump
    BY <1>0, <2>2 DEF Memory
  <2> HIDE DEF c
  <2>4. Kept
    BY <2>1, LanesStand DEF laneVars
  <2> QED
    BY <2>1, <2>3, <2>4, InMemory, OthersGo DEF ckptVars
<1> QED
  BY <1>3, <1>4, <1>5, <1>6, <1>7, <1>8, <1>9, <1>10

\* A step of an instance with no undo under way, whatever it has written.
LEMMA OthersWrite ==
    ASSUME RestoreInv, NEW s \in Slug, Kept, cmd'[s].op # "undo",
           \A r \in Slug \ {s} : /\ cmd'[r] = cmd[r] /\ rec'[r] = rec[r] /\ log'[r] = log[r]
                                 /\ files'[r] = files[r] /\ src'[r] = src[r] /\ db'[r] = db[r],
           \A t \in Tracker : cmd'[s].bind[t] \in 0 .. lastRev',
           \A t \in Deposit : cmd'[s].dump[t] \in 0 .. lastRev',
           rec'[s] = rec[s] \/ rec'[s] = NoRecord
               \/ \A t \in Tracker : rec'[s].bind[t] \in 0 .. lastRev',
           log'[s] = log[s] \/ Ids(s)' = {}
    PROVE  RestMoves(s)
<1>1. lastRev' \in Nat /\ lastRev <= lastRev' /\ lastRev \in Nat
  BY RestoreOf DEF Kept
<1>2. UndoInv(s)'
  BY DEF UndoInv
<1>3. rec'[s] # NoRecord => \A t \in Tracker : rec'[s].bind[t] <= lastRev'
  BY <1>1, RestoreOf DEF RevsMade
<1>4. \A i \in Ids(s)' : /\ \A t \in Tracker : log'[s][i].bind[t] <= lastRev'
                         /\ \A t \in Deposit : log'[s][i].dump[t] <= lastRev'
  BY <1>1, RestoreOf DEF RevsMade, Ids
<1>5. RevsMade(s)'
  BY <1>1, <1>3, <1>4 DEF RevsMade
<1> QED
  BY <1>2, <1>5 DEF RestMoves

\* What is in memory of no command, and of one that has loaded nothing.
LEMMA NoRevs ==
    ASSUME RestoreInv, Kept
    PROVE  /\ NoCmd.op = "none"
           /\ \A t \in Tracker : NoCmd.bind[t] \in 0 .. lastRev'
           /\ \A t \in Deposit : NoCmd.dump[t] \in 0 .. lastRev'
<1>1. lastRev' \in Nat
  BY DEF Kept
<1> QED
  BY <1>1 DEF NoCmd, NoBinding, NoDump

LEMMA LifeRests ==
    ASSUME RestoreInv, LifeInv', NEW s \in Slug, LifeNext(s) PROVE RestMoves(s)
<1>0. /\ TypeOK /\ Phase(cmd[s]) /\ Numbered(s) /\ cmd[s] \in Memory
      /\ RevsMade(s) /\ UndoInv(s) /\ lastRev \in Nat
  BY RestoreOf
<1>1. ASSUME NEW d \in SUBSET Owned, BeginSpawn(s, d) PROVE RestMoves(s)
  <2> DEFINE c == [NoCmd EXCEPT !.op = "spawn", !.step = "bind", !.dropped = d]
  <2>1. Go(s, c) /\ UNCHANGED <<rec, files, src, db, ckptVars, laneVars, head, gc, cut, bounds>>
    BY <1>1 DEF BeginSpawn
  <2>2. c.op = "spawn" /\ c.bind = NoCmd.bind /\ c.dump = NoCmd.dump
    BY DEF NoCmd
  <2> HIDE DEF c
  <2>3. Kept
    BY <2>1, LanesStand DEF laneVars
  <2> QED
    BY <2>1, <2>2, <2>3, NoRevs, OthersGo DEF ckptVars
<1>2. CASE SpawnBind(s)
  <2> DEFINE bound == Tracker \ cmd[s].dropped
             b == [t \in Tracker |-> IF t \in bound THEN main[t] ELSE 0]
             c == [cmd[s] EXCEPT !.step = "create", !.bind = b]
  <2>1. /\ cmd[s].step = "bind"
        /\ UNCHANGED <<rec, dir, src, db, ckptVars, laneVars, head, gc, cut, bounds>>
        /\ (Go(s, c) /\ \A t \in bound : Readable(t, main[t])) \/ Go(s, NoCmd)
        /\ \A q \in Slug \ {s} : files'[q] = files[q]
    BY <1>0, <1>2 DEF SpawnBind, Done, TypeOK
  <2>2. cmd[s].op = "spawn"
    BY <1>0, <2>1, NoCmdType DEF Phase, Memory, Ops
  <2>3. Kept
    BY <2>1, LanesStand DEF laneVars
  <2>4. CASE Go(s, c) /\ \A t \in bound : Readable(t, main[t])
    <3>1. ASSUME NEW t \in Tracker PROVE b[t] \in 0 .. lastRev
      <4>1. main[t] \in Rev0
        BY <1>0 DEF TypeOK
      <4> QED
        BY <1>0, <2>4, <4>1, ReadableMade
    <3> HIDE DEF b
    <3>2. c.op = "spawn" /\ c.bind = b /\ c.dump = cmd[s].dump
      BY <1>0, <2>2 DEF Memory
    <3> HIDE DEF c
    <3> QED
      BY <2>1, <2>3, <2>4, <3>1, <3>2, InMemory, OthersGo DEF ckptVars, laneVars
  <2>5. CASE Go(s, NoCmd)
    BY <2>1, <2>3, <2>5, RestEnds DEF ckptVars
  <2> QED
    BY <2>1, <2>4, <2>5
<1>3. CASE SpawnCreate(s)
  <2> DEFINE k(st) == [bind |-> cmd[s].bind, dropped |-> cmd[s].dropped, status |-> st]
  <2>1. /\ db' = [db EXCEPT ![s] = NoData] /\ Go(s, NoCmd)
        /\ UNCHANGED <<dir, files, src, ckptVars, laneVars, head, gc, cut, bounds>>
    BY <1>3 DEF SpawnCreate, Done
  <2>2. PICK st \in Status : rec' = [rec EXCEPT ![s] = k(st)]
    BY <1>3 DEF SpawnCreate
  <2>3. k(st).bind = cmd[s].bind
    OBVIOUS
  <2> HIDE DEF k
  <2>4. /\ rec'[s].bind = cmd[s].bind /\ \A r \in Slug \ {s} : rec'[r] = rec[r]
        /\ \A r \in Slug \ {s} : db'[r] = db[r]
        /\ cmd'[s] = NoCmd /\ \A r \in Slug \ {s} : cmd'[r] = cmd[r]
    BY <1>0, <2>1, <2>2, <2>3 DEF TypeOK, Go
  <2>5. Kept
    BY <2>1, LanesStand DEF laneVars
  <2> QED
    BY <2>1, <2>4, <2>5, NoRevs, InMemory, OthersWrite DEF ckptVars
<1>4. ASSUME NEW purge \in BOOLEAN, BeginRemove(s, purge) PROVE RestMoves(s)
  <2> DEFINE d == Loaded(s, "remove", "teardown")
             c == [d EXCEPT !.purge = purge]
  <2>1. rec[s] # NoRecord /\ Go(s, c)
        /\ UNCHANGED <<instVars, ckptVars, laneVars, head, gc, cut, bounds>>
    BY <1>4 DEF BeginRemove, Begin
  <2>a. "remove" \in Ops /\ "teardown" \in Steps
    BY DEF Ops, Steps
  <2>2. d \in Memory /\ d.op = "remove" /\ d.bind = rec[s].bind /\ d.dump = NoDump
    BY <1>0, <2>1, <2>a, Loading
  <2> HIDE DEF d
  <2>3. c.op = "remove" /\ c.bind = rec[s].bind /\ c.dump = NoDump
    BY <2>2 DEF Memory
  <2> HIDE DEF c
  <2>4. Kept
    BY <2>1, LanesStand DEF laneVars
  <2>5. /\ \A t \in Tracker : c.bind[t] \in 0 .. lastRev
        /\ \A t \in Deposit : c.dump[t] \in 0 .. lastRev
    BY <1>0, <2>1, <2>3, RestoreOf DEF RevsMade, NoDump
  <2> QED
    BY <2>1, <2>3, <2>4, <2>5, OthersGo DEF instVars, ckptVars, laneVars
<1>5. CASE RemoveTeardown(s)
  <2> DEFINE c == [cmd[s] EXCEPT !.step = "archive"]
  <2>1. /\ cmd[s].step = "teardown" /\ Go(s, c)
        /\ UNCHANGED <<rec, ckptVars, laneVars, head, gc, cut, bounds>>
        /\ \A q \in Slug \ {s} : files'[q] = files[q] /\ src'[q] = src[q] /\ db'[q] = db[q]
    BY <1>0, <1>5 DEF RemoveTeardown, WorkspaceGone, TypeOK
  <2>2. cmd[s].op = "remove"
    BY <1>0, <2>1, NoCmdType DEF Phase, Memory, Ops
  <2>3. c.op = "remove" /\ c.bind = cmd[s].bind /\ c.dump = cmd[s].dump
    BY <1>0, <2>2 DEF Memory
  <2> HIDE DEF c
  <2>4. Kept
    BY <2>1, LanesStand DEF laneVars
  <2> QED
    BY <2>1, <2>3, <2>4, InMemory, OthersGo DEF ckptVars
<1>6. CASE RemoveArchive(s)
  <2> DEFINE c == [cmd[s] EXCEPT !.step = "purge"]
  <2>1. /\ cmd[s].step = "archive" /\ rec' = [rec EXCEPT ![s] = NoRecord]
        /\ (Go(s, c) \/ Go(s, NoCmd))
        /\ UNCHANGED <<dir, files, src, db, ckptVars, laneVars, head, gc, cut, bounds>>
    BY <1>6 DEF RemoveArchive, Done
  <2>2. cmd[s].op = "remove"
    BY <1>0, <2>1, NoCmdType DEF Phase, Memory, Ops
  <2>3. c.op = "remove" /\ c.bind = cmd[s].bind /\ c.dump = cmd[s].dump
    BY <1>0, <2>2 DEF Memory
  <2> HIDE DEF c
  <2>4. Kept
    BY <2>1, LanesStand DEF laneVars
  <2>5. /\ rec'[s] = NoRecord /\ \A r \in Slug \ {s} : rec'[r] = rec[r]
        /\ cmd'[s] \in {c, NoCmd} /\ \A r \in Slug \ {s} : cmd'[r] = cmd[r]
    BY <1>0, <2>1 DEF TypeOK, Go
  <2> QED
    BY <2>1, <2>3, <2>4, <2>5, NoRevs, InMemory, OthersWrite DEF ckptVars
<1>7. CASE RemovePurge(s)
  <2> DEFINE c == [cmd[s] EXCEPT !.step = "unlog"]
  <2>1. /\ \/ cmd[s].step = "purge" /\ PurgeTips(s) /\ Go(s, c)
           \/ cmd[s].step = "unlog" /\ PurgeLog(s) /\ Go(s, NoCmd)
        /\ UNCHANGED <<instVars, laneVars, head, gc, bounds>>
    BY <1>7 DEF RemovePurge, Done
  <2>2. cmd[s].op = "remove"
    BY <1>0, <2>1, NoCmdType DEF Phase, Memory, Ops
  <2>3. c.op = "remove" /\ c.bind = cmd[s].bind /\ c.dump = cmd[s].dump
    BY <1>0, <2>2 DEF Memory
  <2> HIDE DEF c
  <2>4. Kept
    BY <2>1, LanesStand DEF laneVars
  <2>5. /\ \A r \in Slug \ {s} : log'[r] = log[r]
        /\ log'[s] = log[s] \/ Ids(s)' = {}
        /\ cmd'[s] \in {c, NoCmd} /\ \A r \in Slug \ {s} : cmd'[r] = cmd[r]
    BY <1>0, <2>1 DEF TypeOK, Go, PurgeTips, PurgeLog, Ids
  <2> QED
    BY <2>1, <2>3, <2>4, <2>5, NoRevs, InMemory, OthersWrite DEF instVars
<1>8. ASSUME cmd[s] = NoCmd, UNCHANGED <<rec, ckptVars, laneVars, cmd>>,
             \A q \in Slug \ {s} : files'[q] = files[q] /\ src'[q] = src[q] /\ db'[q] = db[q]
      PROVE  RestMoves(s)
  <2>1. Kept
    BY <1>8, LanesStand DEF laneVars
  <2> QED
    BY <1>8, <2>1, NoRevs, OthersWrite DEF ckptVars
<1>9. CASE Edit(s)
  <2>1. cmd[s] = NoCmd /\ UNCHANGED <<rec, ckptVars, laneVars, cmd>>
    BY <1>9 DEF Edit
  <2>2. \A q \in Slug \ {s} : files'[q] = files[q] /\ src'[q] = src[q] /\ db'[q] = db[q]
    <3>1. PICK x \in Content :
             \/ (\E t \in Owned : files' = [files EXCEPT ![s][t] = x])
                /\ UNCHANGED <<src, db>>
             \/ src' = [src EXCEPT ![s] = x] /\ UNCHANGED <<files, db>>
             \/ (\E t \in Deposit : db' = [db EXCEPT ![s][t] = x])
                /\ UNCHANGED <<files, src>>
      BY <1>9 DEF Edit
    <3> QED
      BY <1>0, <3>1 DEF TypeOK
  <2> QED
    BY <1>8, <2>1, <2>2
<1>10. CASE LoseWorkspace(s)
  <2>1. cmd[s] = NoCmd /\ UNCHANGED <<rec, db, ckptVars, laneVars, cmd>>
    BY <1>10 DEF LoseWorkspace
  <2>2. \A q \in Slug \ {s} : files'[q] = files[q] /\ src'[q] = src[q]
    BY <1>0, <1>10 DEF LoseWorkspace, WorkspaceGone, TypeOK
  <2> QED
    BY <1>8, <2>1, <2>2
<1> QED
  BY <1>1, <1>2, <1>3, <1>4, <1>5, <1>6, <1>7, <1>9, <1>10 DEF LifeNext

-----------------------------------------------------------------------------
(* Lane heads, cleanup, crashes, and the whole.                            *)

\* Where no instance moves, only revs are made.
LEMMA AllRest ==
    ASSUME RestoreInv, LifeInv', Kept, UNCHANGED <<rec, log, cmd, files, src, db>>
    PROVE  RestoreInv'
<1>1. ASSUME NEW s \in Slug PROVE RevsMade(s)' /\ UndoInv(s)'
  BY RestKept
<1> QED
  BY <1>1 DEF RestoreInv, Kept

LEMMA HeadRests ==
    ASSUME RestoreInv, LifeInv', HeadNext PROVE RestoreInv'
<1>1. UNCHANGED <<instVars, ckptVars, cmd>>
  BY DEF HeadNext, SeedCommit, MergeRead, MoveMain, laneVars
<1>2. ASSUME NEW t \in Owned, NEW c \in Content, SeedCommit(t, c) PROVE Kept
  <2>1. t \in Tracker /\ main[t] \in Rev0
    BY DEF RestoreInv, LifeInv, TypeOK, Tracker
  <2>2. Commit(t, c, CommitRev(c, main[t]))
    BY <1>2 DEF SeedCommit
  <2> QED
    BY <2>1, <2>2, LaneGrows
<1>3. ASSUME NEW s \in Slug, NEW t \in Tracker, MergeRead(s, t) PROVE Kept
  BY <1>3, LanesStand DEF MergeRead, laneVars
<1>4. ASSUME MoveMain PROVE Kept
  BY <1>4, LanesStand DEF MoveMain
<1>5. Kept
  BY <1>2, <1>3, <1>4 DEF HeadNext
<1> QED
  BY <1>1, <1>5, AllRest DEF instVars, ckptVars

LEMMA GcRests ==
    ASSUME SpawnApart, RestoreInv, LifeInv', GcNext PROVE RestoreInv'
<1>0. TypeOK /\ GcKnows /\ \A s \in Slug : Numbered(s)
  BY DEF RestoreInv, LifeInv
<1>1. CASE /\ UNCHANGED <<instVars, ckptVars, main, tree, lastRev, cmd, head, cut, bounds>>
           /\ pins' \subseteq pins
  BY <1>1, LanesStand, AllRest DEF instVars, ckptVars
<1>2. ASSUME NEW s \in Slug, GcStale(s) PROVE RestoreInv'
  <2>1. /\ cmd[s] = NoCmd /\ UNCHANGED <<dir, files, src, ckptVars, laneVars, cmd>>
        /\ rec'[s] = rec[s] \/ rec'[s] = NoRecord
        /\ \A r \in Slug \ {s} : rec'[r] = rec[r] /\ db'[r] = db[r]
    BY <1>0, <1>2 DEF GcStale, TypeOK
  <2>2. Kept
    BY <2>1, LanesStand DEF laneVars
  <2>3. RestMoves(s)
    BY <2>1, <2>2, NoRevs, OthersWrite DEF ckptVars
  <2> QED
    BY <2>3, RestMovesKeeps
<1>3. CASE GcOrphans
  <2>1. /\ gc.step = "stale" /\ UNCHANGED <<rec, db, ckptVars, laneVars, cmd, head, cut, bounds>>
        /\ \A s \in Slug : s \in gc.claimed \/ ~ dir[s] =>
               files'[s] = files[s] /\ src'[s] = src[s]
    BY <1>3 DEF GcOrphans
  <2>2. Kept
    BY <2>1, LanesStand DEF laneVars
  <2>3. ASSUME NEW s \in Slug PROVE RevsMade(s)' /\ UndoInv(s)'
    <3>1. CASE cmd[s].op = "undo"
      <4>1. s \in gc.live
        BY <1>0, <2>1, <3>1 DEF Numbered, GcKnows, SpawnApart, Captures
      <4>2. files'[s] = files[s] /\ src'[s] = src[s]
        BY <1>0, <2>1, <4>1 DEF GcKnows
      <4> QED
        BY <2>1, <2>2, <4>2, RestKept DEF ckptVars
    <3>2. CASE cmd[s].op # "undo"
      <4>1. RevsMade(s)'
        BY <2>1, RestoreOf DEF RevsMade, Ids, ckptVars, laneVars
      <4>2. UndoInv(s)'
        BY <2>1, <3>2 DEF UndoInv
      <4> QED
        BY <4>1, <4>2
    <3> QED
      BY <3>1, <3>2
  <2> QED
    BY <2>2, <2>3 DEF RestoreInv, Kept
<1>4. ASSUME NEW s \in Slug, GcPurge(s) PROVE RestoreInv'
  <2>1. /\ gc.step \in {"purge", "unlog"}
        /\ gc.step = "purge" => s \in gc.todo
        /\ gc.step = "unlog" => s = gc.now
        /\ PurgeTips(s) \/ PurgeLog(s)
        /\ UNCHANGED <<instVars, laneVars, cmd, head, bounds>>
    BY <1>4 DEF GcPurge
  <2>2. s \notin gc.live
    BY <1>0, <2>1 DEF GcKnows
  <2>3. cmd[s].op # "undo"
    BY <1>0, <2>1, <2>2 DEF Numbered, GcKnows, SpawnApart, Captures
  <2>4. /\ \A r \in Slug \ {s} : log'[r] = log[r]
        /\ log'[s] = log[s] \/ Ids(s)' = {}
    BY <1>0, <2>1 DEF TypeOK, PurgeTips, PurgeLog, Ids
  <2>5. Kept
    BY <2>1, LanesStand DEF laneVars
  <2>6. RestMoves(s)
    BY <2>1, <2>3, <2>4, <2>5, InMemory, OthersWrite DEF instVars
  <2> QED
    BY <2>6, RestMovesKeeps
<1>5. ASSUME NEW purge \in BOOLEAN, GcStart(purge) PROVE RestoreInv'
  BY <1>1, <1>5 DEF GcStart, laneVars
<1>6. ASSUME GcRoots \/ GcHeads \/ GcEnd PROVE RestoreInv'
  BY <1>1, <1>6 DEF GcRoots, GcHeads, GcEnd, laneVars
<1>7. ASSUME NEW t \in Tracker, NEW r \in Rev, GcForget(t, r) PROVE RestoreInv'
  BY <1>1, <1>7 DEF GcForget
<1> QED
  BY <1>2, <1>3, <1>4, <1>5, <1>6, <1>7 DEF GcNext

LEMMA CrashRests ==
    ASSUME RestoreInv, LifeInv', Crash PROVE RestoreInv'
<1>1. UNCHANGED <<instVars, ckptVars, laneVars>>
  BY DEF Crash
<1>2. Kept
  BY <1>1, LanesStand DEF laneVars
<1>3. CASE \E s \in Slug : Go(s, NoCmd)
  <2>1. PICK s \in Slug : Go(s, NoCmd)
    BY <1>3
  <2>2. RestMoves(s)
    BY <1>1, <1>2, <2>1, RestEnds DEF instVars, ckptVars
  <2> QED
    BY <2>2, RestMovesKeeps
<1>4. CASE cmd' = cmd
  BY <1>1, <1>2, <1>4, AllRest DEF instVars, ckptVars
<1> QED
  BY <1>3, <1>4 DEF Crash, Done

LEMMA InitRestoreInv == Init => RestoreInv
<1> SUFFICES ASSUME Init PROVE RestoreInv
  OBVIOUS
<1>1. LifeInv
  BY InitLifeInv
<1>2. ASSUME NEW s \in Slug PROVE RevsMade(s) /\ UndoInv(s)
  <2>1. cmd[s] = NoCmd /\ rec[s] = NoRecord /\ Ids(s) = {} /\ lastRev = 0
    BY DEF Init, Ids
  <2>2. /\ NoCmd.op = "none" /\ \A t \in Tracker : NoCmd.bind[t] = 0
        /\ \A t \in Deposit : NoCmd.dump[t] = 0
    BY DEF NoCmd, NoBinding, NoDump
  <2> QED
    BY <2>1, <2>2 DEF RevsMade, UndoInv
<1> QED
  BY <1>1, <1>2 DEF RestoreInv, Init

LEMMA NextRestoreInv ==
    ASSUME SpawnApart, RestoreInv, [Next]_vars PROVE RestoreInv'
<1>0. LifeInv'
  BY NextLifeInv DEF RestoreInv
<1>1. ASSUME NEW s \in Slug,
             CheckpointNext(s) \/ UndoNext(s) \/ TrackerNext(s) \/ LifeNext(s)
      PROVE  RestoreInv'
  <2>1. RestMoves(s)
    BY <1>0, <1>1, CheckpointRests, UndoRests, TrackerRests, LifeRests
  <2> QED
    BY <1>0, <2>1, RestMovesKeeps
<1>2. CASE HeadNext
  BY <1>0, <1>2, HeadRests
<1>3. CASE GcNext
  BY <1>0, <1>3, GcRests
<1>4. CASE Crash
  BY <1>0, <1>4, CrashRests
<1>5. CASE UNCHANGED vars
  <2>1. Kept
    BY <1>5, LanesStand DEF vars, laneVars
  <2> QED
    BY <1>0, <1>5, <2>1, AllRest DEF vars, instVars, ckptVars
<1> QED
  BY <1>1, <1>2, <1>3, <1>4, <1>5 DEF Next

-----------------------------------------------------------------------------
(* What undo promises.                                                     *)

\* An undo is always undoable: past its captures, its safety checkpoint holds
\* every bound tracker, the source and every resource that was up as the undo
\* found them, whatever other commands, seeds, merges, cleanups and crashes
\* come between its steps.
THEOREM SafetyCheckpoint ==
    ASSUME SpawnApart PROVE Spec => []UndoUndoable
<1>1. RestoreInv => UndoUndoable
  <2> SUFFICES ASSUME RestoreInv, NEW s \in Slug, cmd[s].op = "undo",
                      cmd[s].step \notin {"source", "capture"}
               PROVE  Safe(s)
    BY DEF UndoUndoable, Safe
  <2> QED
    BY RestoreOf DEF UndoInv
<1>2. RestoreInv /\ [Next]_vars => RestoreInv'
  BY NextRestoreInv
<1> QED
  BY InitRestoreInv, <1>1, <1>2, PTL DEF Spec

\* An undo about to say how it went has put back exactly what the checkpoint
\* holds: the source, every bound tracker and, unless it recorded a failure,
\* every resource; and the record on disk says so.  A partial one has left the
\* source and the trackers exactly as it found them.
THEOREM RestoredExactly ==
    ASSUME SpawnApart PROVE Spec => []UndoExact
<1>1. RestoreInv => UndoExact
  <2> SUFFICES ASSUME RestoreInv, NEW s \in Slug, cmd[s].step = "stamp"
               PROVE  /\ cmd[s].only = {} =>
                             /\ src[s] = Target(s).src
                             /\ rec[s].dropped = Target(s).dropped
                             /\ \A t \in Owned \ Target(s).dropped :
                                    /\ rec[s].bind[t] = Target(s).bind[t]
                                    /\ files[s][t] = IF rec[s].bind[t] = 0 THEN Empty
                                                     ELSE tree[rec[s].bind[t]]
                      /\ cmd[s].only # {} => AsFound(s)
                      /\ ~ cmd[s].failed =>
                             \A t \in Restored(s) : /\ db[s][t] = tree[Target(s).dump[t]]
                                                    /\ rec[s].status[t] = "ready"
    BY DEF UndoExact, AsFound
  <2>1. cmd[s].op = "undo" /\ UndoInv(s)
    BY RestoreOf, NoCmdType DEF Phase, Memory, Ops
  <2>2. rec[s] = [bind |-> cmd[s].bind, dropped |-> cmd[s].dropped, status |-> cmd[s].status]
    BY <2>1 DEF UndoInv
  <2>3. /\ rec[s].bind = cmd[s].bind /\ rec[s].dropped = cmd[s].dropped
        /\ rec[s].status = cmd[s].status
    BY <2>2
  <2>4. ASSUME cmd[s].only = {}
        PROVE  /\ src[s] = Target(s).src /\ cmd[s].dropped = Target(s).dropped
               /\ \A t \in Owned \ Target(s).dropped : Back(s, t)
    BY <2>1, <2>4 DEF UndoInv, TrackersBack
  <2>5. cmd[s].only # {} => AsFound(s)
    BY <2>1 DEF UndoInv
  <2>6. ASSUME ~ cmd[s].failed, NEW t \in Restored(s)
        PROVE  db[s][t] = tree[Target(s).dump[t]] /\ cmd[s].status[t] = "ready"
    BY <2>1, <2>6 DEF UndoInv, ResourcesBack
  <2> QED
    BY <2>3, <2>4, <2>5, <2>6 DEF Back
<1>2. RestoreInv /\ [Next]_vars => RestoreInv'
  BY NextRestoreInv
<1> QED
  BY InitRestoreInv, <1>1, <1>2, PTL DEF Spec
=============================================================================
