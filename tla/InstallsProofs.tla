--------------------------- MODULE InstallsProofs ---------------------------
(***************************************************************************)
(* Theorems about the install store, for any instances, lockfiles,         *)
(* trackers, produced paths and places an install may write its own path   *)
(* to, through every kill and failure: what an entry and a workspace may   *)
(* name, what cleanup prunes, and, where inputs stand still under a        *)
(* command and removals under a copy (Steady), what entries and installs   *)
(* hold.                                                                   *)
(***************************************************************************)
EXTENDS Installs, TLAPS

-----------------------------------------------------------------------------
(* The state.                                                              *)

Places == {Nobody, Find} \cup Instance
Tree == [of : Seen, whole : BOOLEAN, home : Places,
         baked : Places \X (Spots \cup {"nowhere"})]
Dir == [Path -> Tree \cup {NoTree}]
Record == [here : BOOLEAN, dropped : SUBSET Tracker,
           status : {"pending", "ready", "failed"}]
Keyed == {"forget", "lookup", "copy", "render", "admit", "stage", "publish"}
Memory == [op : {"none", "bind", "prepare", "rebind", "undo"},
           step : Keyed \cup {"idle", "key", "running"},
           key : Key \cup {NoKey}, n : Nat, force : BOOLEAN,
           sees : {<<>>} \cup {<<s>> : s \in Seen}, aside : SUBSET Path]
GcMemory == [step : {"idle", "sweep", "keys"}, live : SUBSET Instance, todo : SUBSET Key,
             keys : SUBSET (Key \cup {NoKey}), unkeyed : BOOLEAN, busy : SUBSET Instance]

TypeOK ==
    /\ lock \in [Instance -> Lock \cup {Absent}]
    /\ rec \in [Instance -> Record]
    /\ tree \in [Instance -> Dir] /\ parked \in [Instance -> Dir]
    /\ ckpt \in [Instance -> {<<>>} \cup ((Lock \cup {Absent}) \X SUBSET Tracker)]
    /\ cmd \in [Instance -> Memory]
    /\ store \in [Key -> Dir \cup {NoDir}]
    /\ stage \in [Instance -> Dir \cup {NoDir}]
    /\ strays \in BOOLEAN
    /\ gc \in GcMemory
    /\ astray \in [Instance -> BOOLEAN]
    /\ spent \in [command : Nat, event : Nat]

\* What a command has at each of its steps.
Phase(c) ==
    /\ c.step = "idle" => c = NoCmd
    /\ c.step \in Keyed => c.key \in Key
    /\ c.step \in {"copy", "stage", "running"} => c.n \in DOMAIN Produces
    /\ c.step = "running" => c.sees # <<>>
    /\ c.op = "prepare" => c.step \notin {"forget", "lookup", "copy", "render"}
    /\ c.op = "none" => c = NoCmd

StateInv == TypeOK /\ \A i \in Instance : Phase(cmd[i])

-----------------------------------------------------------------------------
\* Tree t, at path p of a workspace or of its staging directory, names no
\* other workspace.
Own(i, p, t) ==
    t # NoTree =>
        /\ t.home \in IF p = RenderAt THEN {i, Nobody, Find} ELSE {Nobody}
        /\ t.baked \in {NoBake, <<i, "plain">>} \cup
                           IF p = RenderAt THEN {<<i, "rendered">>} ELSE {}

\* Tree t, at path p of an entry, names none.
Clean(p, t) ==
    t # NoTree => /\ t.home \in IF p = RenderAt THEN {Nobody, Find} ELSE {Nobody}
                  /\ t.baked = NoBake

HomeInv ==
    /\ \A i \in Instance, p \in Path :
           /\ Own(i, p, tree[i][p]) /\ Own(i, p, parked[i][p])
           /\ cmd[i].step = "stage" => ~ NamesSelf(i, p)
           /\ stage[i] # NoDir => /\ Own(i, p, stage[i][p])
                                  /\ stage[i][p] # NoTree => stage[i][p].baked # <<i, "plain">>
    /\ \A k \in Key, p \in Path : store[k] # NoDir => Clean(p, store[k][p])

-----------------------------------------------------------------------------
\* The key of what an install reads.
KeyFor(s) == <<s.lock, <<s.out, s.told>>>>
Now(i) == Sees(lock[i], rec[i].dropped)

\* Tree t is whole, and built from what workspace and binding hold.
Good(i, t) == t # NoTree /\ t.whole /\ t.of = Now(i)
Fits(i) == \A p \in Path : Good(i, tree[i][p]) /\ tree[i][p].home # Find

\* The fill so far; the publish so far.
Filling(i) ==
    /\ cmd[i].step = "copy" => \A m \in 1 .. cmd[i].n - 1 : Good(i, tree[i][Produces[m]])
    /\ cmd[i].step = "render" => \A p \in Path : Good(i, tree[i][p])
Staging(i) ==
    /\ cmd[i].step = "stage" =>
           \A m \in 1 .. cmd[i].n - 1 : /\ stage[i] # NoDir
                                        /\ stage[i][Produces[m]] = tree[i][Produces[m]]
    /\ cmd[i].step = "publish" =>
           stage[i] # NoDir /\ \A p \in Path : stage[i][p] = tree[i][p]

Current(i) ==
    /\ cmd[i].key # NoKey => lock[i] # Absent /\ cmd[i].key = IdentityKey(lock[i], rec[i].dropped)
    /\ cmd[i].step = "running" => cmd[i].sees = <<Now(i)>>

Built(i) ==
    \/ cmd[i].step \in {"admit", "stage", "publish"}
    \/ cmd[i].op = "prepare" /\ cmd[i].step = "key"
    \/ Idle(i) /\ rec[i].here /\ rec[i].status = "ready" /\ ~ astray[i]

Follows(i) == Current(i) /\ Filling(i) /\ Staging(i) /\ (Built(i) => Fits(i))
FitInv == EntriesComplete /\ \A i \in Instance : Follows(i)

-----------------------------------------------------------------------------
\* An instance that ran nothing since the cleanup began is listed or has been
\* keyed.
Accounted(i) ==
    /\ Idle(i)
    /\ rec[i].here => \/ i \in gc.live
                      \/ /\ gc.step = "keys"
                         /\ \/ gc.unkeyed \/ lock[i] = Absent
                            \/ IdentityKey(lock[i], rec[i].dropped) \in gc.keys

GcInv ==
    /\ gc.step = "idle" => gc = NoGc
    /\ gc.step = "sweep" => gc.keys = {}
    /\ gc # NoGc =>
           /\ \A i \in Instance \ gc.busy : Accounted(i)
           /\ gc.busy = {} =>
                  /\ \A i \in gc.live : rec[i].here
                  /\ gc.step = "keys" =>
                         /\ ~ strays /\ \A i \in Instance : stage[i] = NoDir
                         /\ \A k \in Key : store[k] # NoDir => k \in gc.todo
                         /\ \A k \in gc.keys : k = NoKey \/ \E i \in Instance :
                                rec[i].here /\ k = IdentityKey(lock[i], rec[i].dropped)

-----------------------------------------------------------------------------
(* Paths, keys and trees.                                                  *)

LEMMA Paths ==
    /\ DOMAIN Produces = 1 .. Len(Produces) /\ Len(Produces) \in Nat /\ 1 \in DOMAIN Produces
    /\ \A n \in DOMAIN Produces : Produces[n] \in Path
    /\ \A p \in Path : \E n \in DOMAIN Produces : Produces[n] = p
<1>1. Produces \in Seq(Path) /\ RenderAt \in Path
  BY InstallAssumption
<1>2. Path = {Produces[n] : n \in DOMAIN Produces}
  BY DEF Path, Range
<1> HIDE DEF Path
<1>3. DOMAIN Produces = 1 .. Len(Produces) /\ Len(Produces) \in Nat
  BY <1>1
<1>4. PICK n \in DOMAIN Produces : Produces[n] = RenderAt
  BY <1>1, <1>2
<1>5. 1 \in DOMAIN Produces
  BY <1>3, <1>4
<1> QED
  BY <1>2, <1>3, <1>5

LEMMA SeesSeen ==
    ASSUME NEW l \in Lock \cup {Absent}, NEW d \in SUBSET Tracker
    PROVE  /\ Sees(l, d) \in Seen /\ Sees(l, d).lock = l
           /\ KeyFor(Sees(l, d)) = IdentityKey(l, d)
<1>1. Sees(l, d) \in Seen
  BY DEF Seen
<1>2. /\ Sees(l, d).lock = l /\ Sees(l, d).out = d \cap Sparse
      /\ Sees(l, d).told = IF Told THEN d ELSE {}
  BY DEF Sees
<1>3. IdentityKey(l, d) = <<l, <<d \cap Sparse, IF Told THEN d ELSE {}>>>>
  BY DEF IdentityKey, InstallBinding
<1> HIDE DEF Sees
<1>4. KeyFor(Sees(l, d)) = IdentityKey(l, d)
  BY <1>2, <1>3 DEF KeyFor
<1> QED
  BY <1>1, <1>2, <1>4

LEMMA SeenFields ==
    ASSUME NEW s \in Seen
    PROVE  s = [lock |-> s.lock, out |-> s.out, told |-> s.told] /\ s.lock \in Lock \cup {Absent}
  BY DEF Seen, Sees

\* What was read is known from its key.
LEMMA KeyTells ==
    ASSUME NEW s \in Seen, NEW r \in Seen, KeyFor(s) = KeyFor(r)
    PROVE  s = r
<1>1. s.lock = r.lock /\ s.out = r.out /\ s.told = r.told
  BY DEF KeyFor
<1> QED
  BY <1>1, SeenFields

LEMMA Keys ==
    /\ NoKey \notin Key
    /\ \A l \in Lock, d \in SUBSET Tracker : IdentityKey(l, d) \in Key
    /\ \A k \in Key : \E l \in Lock, d \in SUBSET Tracker : k = IdentityKey(l, d)
<1>1. \A l \in Lock, d \in SUBSET Tracker : IdentityKey(l, d) # NoKey
  BY DEF IdentityKey, NoKey
<1> QED
  BY <1>1 DEF Key

LEMMA Trees ==
    /\ NoTree \notin Tree /\ Nothing \in Dir /\ NoDir \notin Dir
    /\ \A D \in Dir, p \in Path : D[p] \in Tree \cup {NoTree}
    /\ \A t \in Tree : Cut(t) \in Tree
<1>1. NoTree \notin Tree
  BY DEF NoTree, Tree
<1>2. Nothing \in Dir
  BY DEF Nothing, Dir
<1>3. NoDir \notin Dir
  BY InstallAssumption DEF NoDir, Dir
<1>4. \A t \in Tree : Cut(t) \in Tree
  BY DEF Tree, Cut
<1> QED
  BY <1>1, <1>2, <1>3, <1>4 DEF Dir

LEMMA NoCmdType == NoCmd \in Memory /\ Phase(NoCmd) /\ NoCmd.step = "idle" /\ NoCmd.op = "none"
                   /\ NoCmd.key = NoKey
  BY DEF NoCmd, Memory, Phase, Keyed

LEMMA NoGcType == NoGc \in GcMemory /\ NoGc.step = "idle"
  BY DEF NoGc, GcMemory

\* What an install builds.
LEMMA Building ==
    ASSUME NEW i \in Instance, NEW s \in Seen, NEW spot \in Spots \cup {"nowhere"}
    PROVE  /\ Build(i, s, spot) \in [Path -> Tree]
           /\ \A p \in Path :
                  /\ Build(i, s, spot)[p].of = s /\ Build(i, s, spot)[p].whole
                  /\ Build(i, s, spot)[p].home = IF p = RenderAt THEN i ELSE Nobody
                  /\ Build(i, s, spot)[p].baked =
                        IF spot = "plain" \/ (spot = "rendered" /\ p = RenderAt)
                        THEN <<i, spot>> ELSE NoBake
<1> DEFINE t(p) == [of |-> s, whole |-> TRUE, home |-> IF p = RenderAt THEN i ELSE Nobody,
                    baked |-> IF spot = "plain" \/ (spot = "rendered" /\ p = RenderAt)
                                 THEN <<i, spot>> ELSE NoBake]
<1>1. Build(i, s, spot) = [p \in Path |-> t(p)]
  BY DEF Build
<1>2. ASSUME NEW p \in Path
      PROVE  /\ t(p) \in Tree /\ t(p).of = s /\ t(p).whole
             /\ t(p).home = IF p = RenderAt THEN i ELSE Nobody
             /\ t(p).baked = IF spot = "plain" \/ (spot = "rendered" /\ p = RenderAt)
                             THEN <<i, spot>> ELSE NoBake
  BY DEF Tree, Places, NoBake, Spots
<1> HIDE DEF t
<1> QED
  BY <1>1, <1>2

LEMMA InitState == Init => StateInv
<1> SUFFICES ASSUME Init PROVE StateInv
  OBVIOUS
<1>1. rec \in [Instance -> Record]
  BY DEF Init, Record
<1>2. /\ lock \in [Instance -> Lock \cup {Absent}]
      /\ tree \in [Instance -> Dir] /\ parked \in [Instance -> Dir]
      /\ ckpt \in [Instance -> {<<>>} \cup ((Lock \cup {Absent}) \X SUBSET Tracker)]
      /\ cmd \in [Instance -> Memory]
      /\ store \in [Key -> Dir \cup {NoDir}]
      /\ stage \in [Instance -> Dir \cup {NoDir}]
      /\ gc \in GcMemory
      /\ astray \in [Instance -> BOOLEAN] /\ strays \in BOOLEAN
      /\ spent \in [command : Nat, event : Nat]
  BY Trees, NoCmdType, NoGcType DEF Init
<1>3. \A i \in Instance : Phase(cmd[i])
  BY NoCmdType DEF Init
<1> QED
  BY <1>1, <1>2, <1>3 DEF StateInv, TypeOK

-----------------------------------------------------------------------------
(* Every step keeps the state's shape: first what the actions are made of. *)

LEMMA GoType ==
    ASSUME StateInv, NEW i \in Instance, NEW c \in Memory, Phase(c), Go(i, c)
    PROVE  /\ cmd' \in [Instance -> Memory] /\ \A j \in Instance : Phase(cmd'[j])
           /\ cmd'[i] = c /\ \A j \in Instance \ {i} : cmd'[j] = cmd[j]
  BY DEF StateInv, TypeOK, Go

LEMMA MovedType ==
    ASSUME StateInv, NEW i \in Instance, Moved(i)
    PROVE  /\ gc' \in GcMemory /\ gc'.live = gc.live /\ gc'.step = gc.step
           /\ gc'.todo = gc.todo /\ gc'.keys = gc.keys /\ gc'.unkeyed = gc.unkeyed
           /\ gc = NoGc => gc' = NoGc
           /\ gc # NoGc => gc'.busy = gc.busy \cup {i}
           /\ gc' # NoGc => gc # NoGc
<1>1. gc \in GcMemory
  BY DEF StateInv, TypeOK
<1>2. CASE gc = NoGc
  <2>1. gc' = gc
    BY <1>1, <1>2 DEF Moved, GcMemory
  <2> QED
    BY <1>1, <1>2, <2>1
<1>3. CASE gc # NoGc
  BY <1>1, <1>3 DEF Moved, GcMemory
<1> QED
  BY <1>2, <1>3

LEMMA SpentType ==
    ASSUME StateInv
    PROVE  /\ Runs => spent' \in [command : Nat, event : Nat]
           /\ Happens => spent' \in [command : Nat, event : Nat]
  BY DEF StateInv, TypeOK, Runs, Happens

LEMMA StatusType ==
    ASSUME StateInv, NEW i \in Instance, NEW s \in {"pending", "ready", "failed"}, Status(i, s)
    PROVE  /\ rec' \in [Instance -> Record]
           /\ rec'[i].here = rec[i].here /\ rec'[i].dropped = rec[i].dropped
           /\ rec'[i].status = s
           /\ \A j \in Instance \ {i} : rec'[j] = rec[j]
<1> DEFINE r == [rec[i] EXCEPT !.status = s]
<1>1. rec \in [Instance -> Record]
  BY DEF StateInv, TypeOK
<1>2. r \in Record /\ r.here = rec[i].here /\ r.dropped = rec[i].dropped /\ r.status = s
  BY <1>1 DEF Record
<1>3. rec' = [rec EXCEPT ![i] = r]
  BY DEF Status
<1> HIDE DEF r
<1> QED
  BY <1>1, <1>2, <1>3

\* A command that moves on to another step.
LEMMA StepType ==
    ASSUME NEW c \in Memory, NEW s \in Keyed \cup {"key"}, c.op # "none",
           s \in Keyed => c.key \in Key,
           s \in {"copy", "stage"} => c.n \in DOMAIN Produces,
           c.op = "prepare" => s \notin {"forget", "lookup", "copy", "render"}
    PROVE  LET d == [c EXCEPT !.step = s] IN
           /\ d \in Memory /\ Phase(d) /\ d.step = s /\ d.op = c.op /\ d.key = c.key
           /\ d.n = c.n /\ d.sees = c.sees /\ d.force = c.force /\ d.aside = c.aside
<1> DEFINE d == [c EXCEPT !.step = s]
<1>1. /\ d \in Memory /\ d.step = s /\ d.op = c.op /\ d.key = c.key
      /\ d.n = c.n /\ d.sees = c.sees /\ d.force = c.force /\ d.aside = c.aside
  BY DEF Memory
<1> HIDE DEF d
<1>2. s \notin {"idle", "running"}
  BY DEF Keyed
<1>3. Phase(d)
  BY <1>1, <1>2 DEF Phase
<1> QED
  BY <1>1, <1>3 DEF d

LEMMA NowSeen ==
    ASSUME StateInv, NEW i \in Instance
    PROVE  /\ Now(i) \in Seen /\ KeyFor(Now(i)) = IdentityKey(lock[i], rec[i].dropped)
           /\ Now(i).lock = lock[i]
           /\ lock[i] \in Lock \cup {Absent} /\ rec[i].dropped \in SUBSET Tracker
<1>1. lock[i] \in Lock \cup {Absent} /\ rec[i].dropped \in SUBSET Tracker
  BY DEF StateInv, TypeOK, Record
<1> QED
  BY <1>1, SeesSeen DEF Now

LEMMA RunningType ==
    ASSUME StateInv, NEW i \in Instance, NEW c \in Memory, c.op # "none"
    PROVE  LET d == Running(i, c) IN
           /\ d \in Memory /\ Phase(d) /\ d.step = "running" /\ d.op = c.op /\ d.key = c.key
           /\ d.n = 1 /\ d.sees = <<Now(i)>> /\ d.force = c.force /\ d.aside = c.aside
<1> DEFINE d == Running(i, c)
<1>1. Now(i) \in Seen
  BY NowSeen
<1>2. d = [[[c EXCEPT !.step = "running"] EXCEPT !.n = 1] EXCEPT !.sees = <<Now(i)>>]
  BY DEF Running, Now
<1>3. /\ d \in Memory /\ d.step = "running" /\ d.op = c.op /\ d.key = c.key
      /\ d.n = 1 /\ d.sees = <<Now(i)>> /\ d.force = c.force /\ d.aside = c.aside
  <2> DEFINE s == <<Now(i)>>
             e == [c EXCEPT !.step = "running"]
  <2>1. s \in {<<>>} \cup {<<r>> : r \in Seen} /\ d = [[e EXCEPT !.n = 1] EXCEPT !.sees = s]
    BY <1>1, <1>2
  <2> HIDE DEF s
  <2>2. /\ e \in Memory /\ e.step = "running" /\ e.op = c.op /\ e.key = c.key
        /\ e.force = c.force /\ e.aside = c.aside
    BY DEF Memory
  <2> HIDE DEF e, d
  <2>3. /\ d \in Memory /\ d.step = e.step /\ d.op = e.op /\ d.key = e.key
        /\ d.n = 1 /\ d.sees = s /\ d.force = e.force /\ d.aside = e.aside
    BY <2>1, <2>2 DEF Memory
  <2> QED
    BY <2>2, <2>3 DEF s
<1> HIDE DEF d
<1>4. Phase(d)
  BY <1>3, Paths DEF Phase, Keyed
<1> QED
  BY <1>3, <1>4 DEF d

\* A command that begins.
LEMMA BeginType ==
    ASSUME NEW op \in {"bind", "prepare", "rebind", "undo"}, NEW f \in BOOLEAN
    PROVE  LET c == [NoCmd EXCEPT !.op = op, !.step = "key", !.force = f] IN
           /\ c \in Memory /\ Phase(c) /\ c.step = "key" /\ c.op = op /\ c.key = NoKey
           /\ c.force = f /\ c = [NoCmd EXCEPT !.op = op, !.step = "key", !.force = f]
  BY DEF NoCmd, Memory, Phase, Keyed

LEMMA SetPath ==
    ASSUME NEW i \in Instance, NEW D \in [Instance -> Dir], NEW p \in Path,
           NEW t \in Tree \cup {NoTree}
    PROVE  LET E == [D EXCEPT ![i][p] = t] IN
           /\ E \in [Instance -> Dir] /\ E[i][p] = t
           /\ \A q \in Path \ {p} : E[i][q] = D[i][q]
           /\ \A j \in Instance \ {i} : E[j] = D[j]
  BY DEF Dir

LEMMA SetDir ==
    ASSUME NEW i \in Instance, NEW D \in [Instance -> Dir], NEW d \in Dir
    PROVE  LET E == [D EXCEPT ![i] = d] IN
           /\ E \in [Instance -> Dir] /\ E[i] = d
           /\ \A j \in Instance \ {i} : E[j] = D[j]
  OBVIOUS

LEMMA AddingType ==
    ASSUME NEW D \in Dir \cup {NoDir}, NEW p \in Path, NEW t \in Tree \cup {NoTree}
    PROVE  /\ Adding(D, p, t) \in Dir /\ Adding(D, p, t)[p] = t
           /\ \A q \in Path \ {p} :
                  Adding(D, p, t)[q] = IF D = NoDir THEN NoTree ELSE D[q]
<1> DEFINE E == IF D = NoDir THEN Nothing ELSE D
<1>1. E \in Dir /\ \A q \in Path : E[q] = IF D = NoDir THEN NoTree ELSE D[q]
  BY Trees DEF Nothing
<1>2. Adding(D, p, t) = [E EXCEPT ![p] = t]
  BY DEF Adding
<1> HIDE DEF E
<1> QED
  BY <1>1, <1>2 DEF Dir

\* A tree whose rendered file names another workspace, or whose text is `cut`.
LEMMA HomeType ==
    ASSUME NEW t \in Tree \cup {NoTree}, NEW h \in Places
    PROVE  LET u == [t EXCEPT !.home = h] IN
           /\ u \in Tree \cup {NoTree} /\ (t = NoTree <=> u = NoTree)
           /\ t # NoTree => /\ u.home = h /\ u.baked = t.baked
                            /\ u.of = t.of /\ u.whole = t.whole
<1>1. CASE t = NoTree
  <2>1. [NoTree EXCEPT !.home = h] = NoTree
    BY DEF NoTree
  <2> QED
    BY <1>1, <2>1
<1>2. CASE t \in Tree
  <2>1. [t EXCEPT !.home = h] \in Tree
    BY <1>2 DEF Tree
  <2>2. /\ [t EXCEPT !.home = h].home = h /\ [t EXCEPT !.home = h].baked = t.baked
        /\ [t EXCEPT !.home = h].of = t.of /\ [t EXCEPT !.home = h].whole = t.whole
    BY <1>2 DEF Tree
  <2> QED
    BY <1>2, <2>1, <2>2, Trees
<1> QED
  BY <1>1, <1>2

LEMMA CutType ==
    ASSUME NEW t \in Tree
    PROVE  /\ Cut(t) \in Tree /\ Cut(t).home = t.home /\ Cut(t).baked = t.baked
           /\ Cut(t).of = t.of /\ ~ Cut(t).whole
  BY DEF Tree, Cut

LEMMA DroppedType ==
    ASSUME NEW r \in Record, NEW d \in SUBSET Tracker
    PROVE  LET q == [r EXCEPT !.dropped = d] IN
           q \in Record /\ q.dropped = d /\ q.here = r.here /\ q.status = r.status
  BY DEF Record

\* A command begins, or is over with its first step.
LEMMA CommandType ==
    ASSUME StateInv, NEW i \in Instance, Command(i)
    PROVE  StateInv'
<1> USE DEF StateInv, TypeOK
<1>1. ASSUME NEW c \in Memory, Phase(c), Begin(i, c)
      PROVE  /\ cmd' \in [Instance -> Memory] /\ \A j \in Instance : Phase(cmd'[j])
             /\ gc' \in GcMemory /\ spent' \in [command : Nat, event : Nat]
  BY <1>1, GoType, MovedType, SpentType DEF Begin
<1>2. CASE Spawn(i)
  <2>1. PICK l \in Lock \cup {Absent}, d \in SUBSET Tracker :
          /\ Begin(i, [NoCmd EXCEPT !.op = "bind", !.step = "key"])
          /\ rec' = [rec EXCEPT ![i] = [here |-> TRUE, dropped |-> d, status |-> "pending"]]
          /\ lock' = [lock EXCEPT ![i] = l]
          /\ UNCHANGED <<tree, parked, ckpt, store, stage, strays, astray>>
    BY <1>2 DEF Spawn
  <2>2. [NoCmd EXCEPT !.op = "bind", !.step = "key"] \in Memory
        /\ Phase([NoCmd EXCEPT !.op = "bind", !.step = "key"])
    BY DEF NoCmd, Memory, Phase, Keyed
  <2>3. rec' \in [Instance -> Record] /\ lock' \in [Instance -> Lock \cup {Absent}]
    BY <2>1 DEF Record
  <2> QED
    BY <1>1, <2>1, <2>2, <2>3
<1>3. CASE Bind(i)
  <2>1. [NoCmd EXCEPT !.op = "bind", !.step = "key"] \in Memory
        /\ Phase([NoCmd EXCEPT !.op = "bind", !.step = "key"])
    BY DEF NoCmd, Memory, Phase, Keyed
  <2>2. rec' \in [Instance -> Record]
    BY <1>3, StatusType DEF Bind
  <2> QED
    BY <1>1, <1>3, <2>1, <2>2 DEF Bind
<1>4. CASE Prepare(i)
  <2>1. [NoCmd EXCEPT !.op = "prepare"] \in Memory /\ [NoCmd EXCEPT !.op = "prepare"].op # "none"
    BY DEF NoCmd, Memory, Keyed
  <2>2. Running(i, [NoCmd EXCEPT !.op = "prepare"]) \in Memory
        /\ Phase(Running(i, [NoCmd EXCEPT !.op = "prepare"]))
    BY <2>1, RunningType
  <2> QED
    BY <1>1, <1>4, <2>2 DEF Prepare, inputs
<1>5. CASE Rebind(i)
  <2>1. PICK t \in Tracker :
          LET before == rec[i].dropped
              after == IF t \in before THEN before \ {t} ELSE before \cup {t} IN
          /\ Begin(i, IF Rebuilds(i, before, after)
                          THEN [NoCmd EXCEPT !.op = "rebind", !.step = "key"] ELSE NoCmd)
          /\ rec' = [rec EXCEPT ![i].dropped = after]
          /\ UNCHANGED <<lock, tree, parked, ckpt, store, stage, strays, astray>>
    BY <1>5 DEF Rebind
  <2> DEFINE after == IF t \in rec[i].dropped THEN rec[i].dropped \ {t}
                                              ELSE rec[i].dropped \cup {t}
             b == Rebuilds(i, rec[i].dropped, after)
             c == IF b THEN [NoCmd EXCEPT !.op = "rebind", !.step = "key"] ELSE NoCmd
             r == [rec[i] EXCEPT !.dropped = after]
  <2>2. [NoCmd EXCEPT !.op = "rebind", !.step = "key"] \in Memory
        /\ Phase([NoCmd EXCEPT !.op = "rebind", !.step = "key"])
    BY DEF NoCmd, Memory, Phase, Keyed
  <2>3. c \in Memory /\ Phase(c)
    BY <2>2, NoCmdType
  <2>4. r \in Record
    <3>1. after \in SUBSET Tracker /\ rec[i] \in Record
      BY DEF Record
    <3> HIDE DEF after
    <3> QED
      BY <3>1, DroppedType
  <2>5. Begin(i, c) /\ rec' = [rec EXCEPT ![i] = r]
    BY <2>1
  <2> HIDE DEF c, r
  <2>6. rec' \in [Instance -> Record]
    BY <2>4, <2>5
  <2> QED
    BY <1>1, <2>1, <2>3, <2>5, <2>6
<1>6. CASE Undo(i)
  <2>1. PICK force \in BOOLEAN :
          /\ ckpt[i] # <<>>
          /\ Begin(i, IF Skips(i, force) THEN NoCmd
                          ELSE [NoCmd EXCEPT !.op = "undo", !.step = "key", !.force = force])
          /\ lock' = [lock EXCEPT ![i] = ckpt[i][1]]
          /\ rec' = [rec EXCEPT ![i].dropped = ckpt[i][2]]
          /\ UNCHANGED <<tree, parked, ckpt, store, stage, strays, astray>>
    <3> HIDE DEF StateInv, TypeOK
    <3> QED
      BY <1>6, Zenon DEF Undo
  <2> DEFINE c == IF Skips(i, force) THEN NoCmd
                  ELSE [NoCmd EXCEPT !.op = "undo", !.step = "key", !.force = force]
             r == [rec[i] EXCEPT !.dropped = ckpt[i][2]]
  <2>2. [NoCmd EXCEPT !.op = "undo", !.step = "key", !.force = force] \in Memory
        /\ Phase([NoCmd EXCEPT !.op = "undo", !.step = "key", !.force = force])
    BY DEF NoCmd, Memory, Phase, Keyed
  <2>3. c \in Memory /\ Phase(c)
    BY <2>2, NoCmdType
  <2>4. ckpt[i][1] \in Lock \cup {Absent} /\ ckpt[i][2] \in SUBSET Tracker
    BY <2>1
  <2>5. r \in Record
    BY <2>4, DroppedType
  <2>6. Begin(i, c) /\ rec' = [rec EXCEPT ![i] = r]
    BY <2>1
  <2> HIDE DEF c, r
  <2>7. rec' \in [Instance -> Record] /\ lock' \in [Instance -> Lock \cup {Absent}]
    BY <2>1, <2>4, <2>5, <2>6
  <2> QED
    BY <1>1, <2>1, <2>3, <2>6, <2>7
<1>7. CASE Remove(i)
  <2>1. rec' \in [Instance -> Record]
    BY <1>7 DEF Remove, Record
  <2>2. tree' \in [Instance -> Dir] /\ parked' \in [Instance -> Dir]
    BY <1>7, Trees DEF Remove
  <2>3. gc' \in GcMemory /\ spent' \in [command : Nat, event : Nat]
    BY <1>7, MovedType, SpentType DEF Remove
  <2>4. /\ lock' \in [Instance -> Lock \cup {Absent}] /\ astray' \in [Instance -> BOOLEAN]
        /\ ckpt' \in [Instance -> {<<>>} \cup ((Lock \cup {Absent}) \X SUBSET Tracker)]
    BY <1>7 DEF Remove
  <2> QED
    BY <1>7, <2>1, <2>2, <2>3, <2>4 DEF Remove
<1> QED
  BY <1>2, <1>3, <1>4, <1>5, <1>6, <1>7 DEF Command

\* What a computed key is.
LEMMA KeyedBy ==
    ASSUME StateInv, NEW i \in Instance, NEW key, InstallKey(i, key)
    PROVE  /\ spent' \in [command : Nat, event : Nat]
           /\ key # NoKey => /\ lock[i] # Absent /\ key \in Key
                             /\ key = IdentityKey(lock[i], rec[i].dropped)
<1>1. UNCHANGED spent => spent' \in [command : Nat, event : Nat]
  BY DEF StateInv, TypeOK
<1> QED
  BY <1>1, SpentType, NowSeen, Keys DEF InstallKey, HasKey, HasNone

LEMMA Fields ==
    ASSUME StateInv, NEW i \in Instance
    PROVE  /\ cmd[i] \in Memory /\ Phase(cmd[i])
           /\ cmd[i].key \in Key \cup {NoKey} /\ cmd[i].n \in Nat /\ cmd[i].aside \in SUBSET Path
           /\ cmd[i].sees # <<>> => cmd[i].sees[1] \in Seen /\ cmd[i].sees = <<cmd[i].sees[1]>>
           /\ cmd[i].step \in Keyed \cup {"idle", "key", "running"}
           /\ cmd[i].op # "none" <=> ~ Idle(i)
           /\ cmd[i].step = "idle" <=> Idle(i)
<1>1. cmd[i] \in Memory /\ Phase(cmd[i])
  BY DEF StateInv, TypeOK
<1>2. /\ cmd[i].key \in Key \cup {NoKey} /\ cmd[i].n \in Nat /\ cmd[i].aside \in SUBSET Path
      /\ cmd[i].step \in Keyed \cup {"idle", "key", "running"}
      /\ cmd[i].sees \in {<<>>} \cup {<<s>> : s \in Seen}
  BY <1>1 DEF Memory
<1>3. cmd[i].sees # <<>> => cmd[i].sees[1] \in Seen /\ cmd[i].sees = <<cmd[i].sees[1]>>
  BY <1>2
<1>4. Idle(i) => cmd[i].op = "none" /\ cmd[i].step = "idle"
  BY NoCmdType DEF Idle
<1>5. cmd[i].op = "none" \/ cmd[i].step = "idle" => Idle(i)
  BY <1>1 DEF Phase, Idle
<1> QED
  BY <1>1, <1>2, <1>3, <1>4, <1>5

\* Where a command goes from its key.
LEMMA ComputeKeyTo ==
    ASSUME StateInv, NEW i \in Instance, ComputeKey(i)
    PROVE  /\ \E d \in Memory :
                  /\ Go(i, d) /\ Phase(d)
                  /\ d.key # NoKey => /\ lock[i] # Absent
                                      /\ d.key = IdentityKey(lock[i], rec[i].dropped)
                  /\ \/ d = NoCmd /\ cmd[i].op = "prepare"
                     \/ d.step = "admit" /\ cmd[i].op = "prepare"
                     \/ d.step = "running" /\ d.sees = <<Now(i)>>
                     \/ d.step \in {"forget", "lookup"}
           /\ spent' \in [command : Nat, event : Nat]
<1> DEFINE c(key) == [cmd[i] EXCEPT !.key = key]
           by(key, step) == [c(key) EXCEPT !.step = step]
           to(key) == CASE cmd[i].op = "prepare" -> IF key = NoKey THEN NoCmd ELSE by(key, "admit")
                        [] cmd[i].op # "prepare" /\ key = NoKey -> Running(i, c(key))
                        [] OTHER -> by(key, IF cmd[i].force THEN "forget" ELSE "lookup")
<1>1. PICK key \in Key \cup {NoKey} : At(i, "key") /\ InstallKey(i, key) /\ Go(i, to(key))
  BY Zenon DEF ComputeKey
<1> DEFINE e == [cmd[i] EXCEPT !.key = key]
<1>2. /\ cmd[i] \in Memory /\ cmd[i].op # "none"
      /\ cmd[i].step = "key"
  <2>1. cmd[i].step = "key"
    BY <1>1 DEF At
  <2> QED
    BY <2>1, Fields
<1>3. e \in Memory /\ e.key = key /\ e.op = cmd[i].op
  BY <1>2 DEF Memory
<1>4. key # NoKey => key \in Key /\ lock[i] # Absent /\ key = IdentityKey(lock[i], rec[i].dropped)
  BY <1>1, KeyedBy
<1>5. spent' \in [command : Nat, event : Nat]
  BY <1>1, KeyedBy
<1> HIDE DEF e
<1>6. CASE cmd[i].op = "prepare" /\ key = NoKey
  <2>1. to(key) = NoCmd
    BY <1>6
  <2> QED
    BY <1>1, <1>5, <1>6, <2>1, NoCmdType
<1>7. CASE cmd[i].op = "prepare" /\ key # NoKey
  <2>1. to(key) = [e EXCEPT !.step = "admit"]
    BY <1>7 DEF e
  <2>2. LET d == [e EXCEPT !.step = "admit"] IN
        d \in Memory /\ Phase(d) /\ d.step = "admit" /\ d.key = key
    BY <1>2, <1>3, <1>4, <1>7, StepType DEF Keyed
  <2> HIDE DEF to
  <2> QED
    BY <1>1, <1>4, <1>5, <1>7, <2>1, <2>2
<1>8. CASE cmd[i].op # "prepare" /\ key = NoKey
  <2>1. to(key) = Running(i, e)
    BY <1>8 DEF e
  <2>2. LET d == Running(i, e) IN
        d \in Memory /\ Phase(d) /\ d.step = "running" /\ d.key = key /\ d.sees = <<Now(i)>>
    BY <1>2, <1>3, RunningType
  <2> HIDE DEF to
  <2> QED
    BY <1>1, <1>5, <1>8, <2>1, <2>2
<1>9. CASE cmd[i].op # "prepare" /\ key # NoKey
  <2> DEFINE s == IF cmd[i].force THEN "forget" ELSE "lookup"
  <2>1. to(key) = [e EXCEPT !.step = s]
    BY <1>9 DEF e
  <2>2. s \in {"forget", "lookup"}
    OBVIOUS
  <2> HIDE DEF s
  <2>3. LET d == [e EXCEPT !.step = s] IN
        d \in Memory /\ Phase(d) /\ d.step = s /\ d.key = key
    BY <1>2, <1>3, <1>4, <1>9, <2>2, StepType DEF Keyed
  <2> HIDE DEF to
  <2> QED
    BY <1>1, <1>4, <1>5, <2>1, <2>2, <2>3
<1> QED
  BY <1>6, <1>7, <1>8, <1>9

\* A fill moves on.
LEMMA FillType ==
    ASSUME StateInv, NEW i \in Instance, Fill(i)
    PROVE  StateInv'
<1>0. /\ cmd[i] \in Memory /\ Phase(cmd[i]) /\ cmd[i].key \in Key \cup {NoKey}
      /\ cmd[i].n \in Nat /\ cmd[i].aside \in SUBSET Path
  BY Fields
<1>1. CASE ComputeKey(i)
  <2>1. PICK d \in Memory : Go(i, d) /\ Phase(d)
    BY <1>1, ComputeKeyTo
  <2>2. cmd' \in [Instance -> Memory] /\ \A j \in Instance : Phase(cmd'[j])
    BY <2>1, GoType
  <2>3. spent' \in [command : Nat, event : Nat]
    BY <1>1, ComputeKeyTo
  <2>4. UNCHANGED <<lock, ckpt, gc, rec, tree, parked, store, stage, strays, astray>>
    BY <1>1 DEF ComputeKey
  <2> QED
    BY <2>2, <2>3, <2>4 DEF StateInv, TypeOK
<1>2. ASSUME cmd[i].op # "none", NEW c \in Memory, c = Running(i, cmd[i]) \/ c = NoCmd, Go(i, c)
      PROVE  cmd' \in [Instance -> Memory] /\ \A j \in Instance : Phase(cmd'[j])
  <2>1. Phase(c)
    BY <1>0, <1>2, RunningType, NoCmdType
  <2> QED
    BY <1>2, <2>1, GoType
<1>3. \A s \in Keyed \cup {"key", "running"} : At(i, s) => cmd[i].step = s /\ cmd[i].op # "none"
  BY Fields DEF At, Keyed
<1>4. cmd[i].op # "none" => Running(i, cmd[i]) \in Memory
  BY <1>0, RunningType, NoCmdType
<1>5. CASE ForgetEntry(i)
  <2>1. cmd[i].op # "none" /\ cmd[i].key \in Key
    BY <1>0, <1>3, <1>5 DEF ForgetEntry, Phase, Keyed
  <2>2. store' \in [Key -> Dir \cup {NoDir}]
    BY <1>5, <2>1 DEF ForgetEntry, StateInv, TypeOK
  <2>3. cmd' \in [Instance -> Memory] /\ \A j \in Instance : Phase(cmd'[j])
    BY <1>2, <1>4, <1>5, <2>1 DEF ForgetEntry
  <2> QED
    BY <1>5, <2>2, <2>3 DEF ForgetEntry, work, StateInv, TypeOK
<1>6. CASE Lookup(i)
  <2>1. cmd[i].op # "none" /\ cmd[i].step = "lookup" /\ cmd[i].key \in Key
        /\ cmd[i].op # "prepare"
    BY <1>0, <1>3, <1>6 DEF Lookup, Phase, Keyed
  <2> DEFINE c == [cmd[i] EXCEPT !.step = "copy", !.n = 1, !.aside = Aside(i)]
  <2>2. c \in Memory /\ Phase(c)
    <3>1. Aside(i) \in SUBSET Path
      BY DEF Aside
    <3> HIDE DEF Path
    <3>2. /\ c \in Memory /\ c.step = "copy" /\ c.n = 1 /\ c.op = cmd[i].op
          /\ c.key = cmd[i].key /\ c.sees = cmd[i].sees
      BY <1>0, <3>1 DEF Memory, Keyed
    <3> HIDE DEF c
    <3> QED
      BY <2>1, <3>2, Paths DEF Phase, Keyed
  <2> HIDE DEF c
  <2>3. \/ Go(i, Running(i, cmd[i])) /\ UNCHANGED <<tree, parked>>
        \/ /\ Go(i, c)
           /\ parked' = [parked EXCEPT ![i] =
                  [p \in Path |-> IF p \in Aside(i) THEN tree[i][p] ELSE @[p]]]
           /\ tree' = [tree EXCEPT ![i] = Nothing]
    BY <1>6 DEF Lookup, c
  <2>4. cmd' \in [Instance -> Memory] /\ \A j \in Instance : Phase(cmd'[j])
    BY <1>2, <1>4, <2>1, <2>2, <2>3, GoType, NoCmdType
  <2>5. tree' \in [Instance -> Dir] /\ parked' \in [Instance -> Dir]
    <3>1. tree \in [Instance -> Dir] /\ parked \in [Instance -> Dir]
      BY DEF StateInv, TypeOK
    <3>2. [p \in Path |-> IF p \in Aside(i) THEN tree[i][p] ELSE parked[i][p]] \in Dir
      BY <3>1 DEF Dir
    <3> QED
      BY <2>3, <3>1, <3>2, Trees
  <2> QED
    BY <1>6, <2>4, <2>5 DEF Lookup, work, StateInv, TypeOK
<1>7. CASE CopyIn(i)
  <2> DEFINE p == Produces[cmd[i].n]
  <2>1. cmd[i].op # "none" /\ cmd[i].step = "copy" /\ cmd[i].key \in Key
        /\ cmd[i].n \in DOMAIN Produces /\ cmd[i].op # "prepare" /\ p \in Path
    BY <1>0, <1>3, <1>7, Paths DEF CopyIn, Phase, Keyed
  <2>2. tree' \in [Instance -> Dir]
    <3>1. tree \in [Instance -> Dir] /\ store[cmd[i].key] \in Dir
      BY <1>7, <2>1 DEF CopyIn, StateInv, TypeOK
    <3>2. store[cmd[i].key][p] \in Tree \cup {NoTree}
      BY <2>1, <3>1, Trees
    <3> QED
      BY <1>7, <2>1, <3>1, <3>2 DEF CopyIn, Dir
  <2> DEFINE c == [cmd[i] EXCEPT !.step = "render"]
             d == [cmd[i] EXCEPT !.n = @ + 1]
  <2>3. c \in Memory /\ Phase(c)
    BY <1>0, <2>1, StepType DEF Keyed
  <2>4. cmd[i].n # Len(Produces) => d \in Memory /\ Phase(d)
    <3>1. d \in Memory /\ d.n = cmd[i].n + 1 /\ d.step = "copy" /\ d.op = cmd[i].op
          /\ d.key = cmd[i].key
      BY <1>0, <2>1 DEF Memory
    <3> HIDE DEF d
    <3> QED
      BY <1>0, <2>1, <3>1, Paths DEF Phase, Keyed
  <2>5. Go(i, c) \/ (cmd[i].n # Len(Produces) /\ Go(i, d))
    BY <1>7 DEF CopyIn
  <2> HIDE DEF c, d
  <2>6. cmd' \in [Instance -> Memory] /\ \A j \in Instance : Phase(cmd'[j])
    BY <2>3, <2>4, <2>5, GoType
  <2> QED
    BY <1>7, <2>2, <2>6 DEF CopyIn, work, StateInv, TypeOK
<1>8. ASSUME Unpark(i)
      PROVE  parked' \in [Instance -> Dir]
  <2>1. parked \in [Instance -> Dir]
    BY DEF StateInv, TypeOK
  <2>2. [p \in Path |-> IF p \in cmd[i].aside THEN NoTree ELSE parked[i][p]] \in Dir
    BY <2>1 DEF Dir
  <2> QED
    BY <1>8, <2>1, <2>2 DEF Unpark
<1>9. CASE CopyFails(i)
  <2>1. cmd[i].op # "none"
    BY <1>3, <1>9 DEF CopyFails, Keyed
  <2>2. tree' \in [Instance -> Dir]
    <3>1. tree \in [Instance -> Dir] /\ parked \in [Instance -> Dir]
      BY DEF StateInv, TypeOK
    <3>2. [p \in Path |-> IF p \in cmd[i].aside THEN parked[i][p] ELSE tree[i][p]] \in Dir
      BY <3>1 DEF Dir
    <3> QED
      BY <1>9, <3>1, <3>2 DEF CopyFails
  <2>3. spent' \in [command : Nat, event : Nat]
    BY <1>9, SpentType DEF CopyFails, StateInv, TypeOK
  <2>4. cmd' \in [Instance -> Memory] /\ \A j \in Instance : Phase(cmd'[j])
    BY <1>2, <1>4, <1>9, <2>1 DEF CopyFails
  <2>5. parked' \in [Instance -> Dir]
    BY <1>8, <1>9 DEF CopyFails
  <2> QED
    BY <1>9, <2>2, <2>3, <2>4, <2>5 DEF CopyFails, StateInv, TypeOK
<1>10. CASE Filled(i)
  <2>1. cmd[i].op # "none"
    BY <1>3, <1>10 DEF Filled, Keyed
  <2>2. tree' \in [Instance -> Dir]
    <3> DEFINE t == tree[i][RenderAt]
               h == IF t.home = Find THEN i ELSE t.home
               u == [t EXCEPT !.home = h]
    <3>1. tree \in [Instance -> Dir] /\ RenderAt \in Path
      BY InstallAssumption DEF StateInv, TypeOK
    <3>2. t \in Tree \cup {NoTree}
      BY <3>1, Trees
    <3>3. tree' = [tree EXCEPT ![i][RenderAt] = u]
      BY <1>10, <3>1 DEF Filled, Dir
    <3>4. u \in Tree \cup {NoTree}
      <4>1. CASE t = NoTree
        <5>1. u = NoTree
          BY <4>1 DEF NoTree
        <5> QED
          BY <5>1
      <4>2. CASE t \in Tree
        <5>1. h \in Places
          BY <4>2 DEF Tree, Places
        <5> HIDE DEF h, t, Places
        <5> QED
          BY <4>2, <5>1 DEF Tree
      <4> QED
        BY <3>2, <4>1, <4>2
    <3> HIDE DEF u
    <3> QED
      BY <3>1, <3>3, <3>4 DEF Dir
  <2>3. rec' \in [Instance -> Record] /\ cmd' \in [Instance -> Memory]
        /\ \A j \in Instance : Phase(cmd'[j])
    BY <1>2, <1>10, <2>1, NoCmdType, StatusType DEF Filled, Done
  <2>4. parked' \in [Instance -> Dir]
    BY <1>8, <1>10 DEF Filled
  <2> QED
    BY <1>10, <2>2, <2>3, <2>4 DEF Filled, Fit, work, StateInv, TypeOK
<1> QED
  BY <1>1, <1>5, <1>6, <1>7, <1>9, <1>10 DEF Fill

\* What an install that ran has built.
LEMMA InstalledTree ==
    ASSUME StateInv, NEW i \in Instance, Installed(i)
    PROVE  LET s == cmd[i].sees[1] IN
           /\ cmd[i].step = "running" /\ cmd[i].op # "none" /\ s \in Seen
           /\ \E spot \in Spots \cup {"nowhere"} : tree' = [tree EXCEPT ![i] = Build(i, s, spot)]
<1>1. cmd[i].step = "running"
  BY DEF Installed, At
<1>2. cmd[i].op # "none" /\ cmd[i].sees # <<>>
  BY <1>1, Fields DEF Phase
<1>3. cmd[i].sees[1] \in Seen
  BY <1>2, Fields
<1>4. cmd[i].sees[1].lock \in Lock \cup {Absent}
  BY <1>3, SeenFields
<1>5. PICK spot \in IF cmd[i].sees[1].lock = Absent THEN {"nowhere"} ELSE Bakes[cmd[i].sees[1].lock] :
          tree' = [tree EXCEPT ![i] = Build(i, cmd[i].sees[1], spot)]
  BY DEF Installed
<1>6. spot \in Spots \cup {"nowhere"}
  BY <1>4, <1>5, InstallAssumption
<1> QED
  BY <1>1, <1>2, <1>3, <1>5, <1>6

\* The path a failed install leaves cut short.
LEMMA FailedTree ==
    ASSUME StateInv, NEW i \in Instance, cmd[i].step = "running", NEW n \in DOMAIN Produces
    PROVE  LET t == Build(i, cmd[i].sees[1], "nowhere")[Produces[n]] IN
           /\ Produces[n] \in Path /\ t \in Tree /\ t.baked = NoBake
           /\ t.home = IF Produces[n] = RenderAt THEN i ELSE Nobody
<1>1. cmd[i].sees[1] \in Seen
  BY Fields DEF Phase
<1>2. Produces[n] \in Path
  BY Paths
<1> DEFINE s == cmd[i].sees[1]
<1> HIDE DEF s
<1>3. s \in Seen
  BY <1>1 DEF s
<1>4. Build(i, s, "nowhere") \in [Path -> Tree]
  BY <1>3, Building
<1>5. \A p \in Path : Build(i, s, "nowhere")[p].baked = NoBake
                    /\ Build(i, s, "nowhere")[p].home = IF p = RenderAt THEN i ELSE Nobody
  <2> TAKE p \in Path
  <2>1. Build(i, s, "nowhere")[p].home = IF p = RenderAt THEN i ELSE Nobody
    BY <1>3, Building
  <2>2. Build(i, s, "nowhere")[p].baked =
           IF "nowhere" = "plain" \/ ("nowhere" = "rendered" /\ p = RenderAt)
               THEN <<i, "nowhere">> ELSE NoBake
    BY <1>3, Building
  <2> QED
    BY <2>1, <2>2
<1> QED
  BY <1>2, <1>4, <1>5 DEF s

\* What a run leaves in the directory is a tree at every path.
LEMMA BuildingType ==
    ASSUME NEW i \in Instance, NEW s \in Seen, NEW spot \in Spots \cup {"nowhere"}
    PROVE  Build(i, s, spot) \in [Path -> Tree]
  BY Building

LEMMA InstallType ==
    ASSUME StateInv, NEW i \in Instance, Install(i)
    PROVE  StateInv'
<1>0. /\ cmd[i] \in Memory /\ Phase(cmd[i]) /\ cmd[i].key \in Key \cup {NoKey}
      /\ tree \in [Instance -> Dir]
  BY Fields DEF StateInv, TypeOK
<1>1. CASE Installed(i)
  <2>1. cmd[i].step = "running" /\ cmd[i].op # "none"
    BY <1>1, InstalledTree
  <2>2. tree' \in [Instance -> Dir]
    <3>1. cmd[i].sees[1] \in Seen
      BY <1>1, InstalledTree
    <3>2. PICK spot \in Spots \cup {"nowhere"} :
              tree' = [tree EXCEPT ![i] = Build(i, cmd[i].sees[1], spot)]
      BY <1>1, InstalledTree
    <3>3. Build(i, cmd[i].sees[1], spot) \in [Path -> Tree]
      BY <3>1, BuildingType
    <3> QED
      BY <1>0, <3>2, <3>3 DEF Dir
  <2>3. /\ cmd' \in [Instance -> Memory] /\ \A j \in Instance : Phase(cmd'[j])
        /\ rec' \in [Instance -> Record]
    <3>1. CASE cmd[i].op = "prepare"
      <4> DEFINE d == [cmd[i] EXCEPT !.step = "key"]
      <4>1. Status(i, "ready") /\ Go(i, d)
        BY <1>1, <3>1 DEF Installed
      <4>2. d \in Memory /\ Phase(d)
        BY <1>0, <3>1, StepType DEF Keyed
      <4> HIDE DEF d
      <4> QED
        BY <4>1, <4>2, GoType, StatusType
    <3>2. CASE cmd[i].op # "prepare" /\ cmd[i].key = NoKey
      <4>1. Status(i, "ready") /\ Go(i, NoCmd)
        BY <1>1, <3>2 DEF Installed, Done
      <4> QED
        BY <4>1, GoType, StatusType, NoCmdType
    <3>3. CASE cmd[i].op # "prepare" /\ cmd[i].key # NoKey
      <4> DEFINE d == [cmd[i] EXCEPT !.step = "admit"]
      <4>1. UNCHANGED rec /\ Go(i, d)
        BY <1>1, <3>3 DEF Installed
      <4>2. d \in Memory /\ Phase(d)
        BY <1>0, <2>1, <3>3, StepType DEF Keyed
      <4> HIDE DEF d
      <4> QED
        BY <4>1, <4>2, GoType DEF StateInv, TypeOK
    <3> QED
      BY <3>1, <3>2, <3>3
  <2> QED
    BY <1>1, <2>2, <2>3 DEF Installed, Fit, work, StateInv, TypeOK
<1>2. CASE InstallFails(i)
  <2> DEFINE v == Cut(Build(i, cmd[i].sees[1], "nowhere")[Produces[1]])
  <2>1. cmd[i].step = "running" /\ 1 \in DOMAIN Produces
    BY <1>2, Paths DEF InstallFails, At
  <2>2. v \in Tree /\ Produces[1] \in Path
    <3>1. Build(i, cmd[i].sees[1], "nowhere")[Produces[1]] \in Tree /\ Produces[1] \in Path
      BY <2>1, FailedTree
    <3> QED
      BY <3>1, CutType
  <2>3. tree' = [tree EXCEPT ![i][Produces[1]] = v] /\ Done(i, "failed") /\ Happens
    BY <1>2 DEF InstallFails
  <2> HIDE DEF v
  <2>4. tree' \in [Instance -> Dir]
    BY <1>0, <2>2, <2>3 DEF Dir
  <2>5. /\ cmd' \in [Instance -> Memory] /\ \A j \in Instance : Phase(cmd'[j])
        /\ rec' \in [Instance -> Record] /\ spent' \in [command : Nat, event : Nat]
    BY <2>3, GoType, StatusType, SpentType, NoCmdType DEF Done
  <2> QED
    BY <1>2, <2>4, <2>5 DEF InstallFails, StateInv, TypeOK
<1> QED
  BY <1>1, <1>2 DEF Install

\* A publish moves on.
LEMMA StagedType ==
    ASSUME StateInv, NEW i \in Instance, At(i, "stage"), Staged(i)
    PROVE  /\ cmd' \in [Instance -> Memory] /\ \A j \in Instance : Phase(cmd'[j])
           /\ \A j \in Instance \ {i} : cmd'[j] = cmd[j]
           /\ cmd'[i].key = cmd[i].key /\ cmd'[i].op = cmd[i].op
           /\ \/ cmd'[i].step = "publish" /\ cmd[i].n = Len(Produces)
              \/ cmd'[i].step = "stage" /\ cmd'[i].n = cmd[i].n + 1
<1>0. cmd[i] \in Memory /\ Phase(cmd[i]) /\ cmd[i].step = "stage" /\ cmd[i].op # "none"
  BY Fields DEF At
<1>1. cmd[i].key \in Key /\ cmd[i].n \in DOMAIN Produces
  BY <1>0 DEF Phase, Keyed
<1> DEFINE c == [cmd[i] EXCEPT !.step = "publish"]
           d == [cmd[i] EXCEPT !.n = @ + 1]
<1>2. c \in Memory /\ Phase(c) /\ c.step = "publish" /\ c.key = cmd[i].key /\ c.op = cmd[i].op
  BY <1>0, <1>1, StepType DEF Keyed
<1>3. d \in Memory /\ d.n = cmd[i].n + 1 /\ d.step = "stage" /\ d.key = cmd[i].key
      /\ d.op = cmd[i].op
  BY <1>0 DEF Memory
<1>4. (cmd[i].n = Len(Produces) /\ Go(i, c)) \/ (cmd[i].n # Len(Produces) /\ Go(i, d))
  BY DEF Staged
<1> HIDE DEF c, d
<1>5. cmd[i].n # Len(Produces) => Phase(d)
  BY <1>0, <1>1, <1>3, Paths DEF Phase, Keyed
<1> QED
  BY <1>2, <1>3, <1>4, <1>5, GoType

LEMMA StoreType ==
    ASSUME StateInv, NEW i \in Instance, Store(i)
    PROVE  StateInv'
<1>0. /\ cmd[i] \in Memory /\ Phase(cmd[i]) /\ tree \in [Instance -> Dir]
      /\ store \in [Key -> Dir \cup {NoDir}] /\ stage \in [Instance -> Dir \cup {NoDir}]
  BY Fields DEF StateInv, TypeOK
<1>1. CASE Admit(i)
  <2>1. cmd[i].step = "admit" /\ cmd[i].key \in Key /\ cmd[i].op # "none"
    BY <1>0, <1>1, Fields DEF Admit, At, Phase, Keyed
  <2> DEFINE d == [cmd[i] EXCEPT !.step = "stage", !.n = 1]
  <2>2. d \in Memory /\ Phase(d)
    <3>1. d \in Memory /\ d.step = "stage" /\ d.n = 1 /\ d.key = cmd[i].key /\ d.op = cmd[i].op
      BY <1>0 DEF Memory, Keyed
    <3> HIDE DEF d
    <3> QED
      BY <2>1, <3>1, Paths DEF Phase, Keyed
  <2>3. \/ Done(i, "ready") /\ UNCHANGED stage
        \/ stage' = [stage EXCEPT ![i] = Nothing] /\ Go(i, d) /\ UNCHANGED rec
    BY <1>1 DEF Admit
  <2> HIDE DEF d
  <2>4. stage' \in [Instance -> Dir \cup {NoDir}] /\ rec \in [Instance -> Record]
    BY <1>0, <2>3, Trees DEF StateInv, TypeOK
  <2>5. /\ cmd' \in [Instance -> Memory] /\ \A j \in Instance : Phase(cmd'[j])
        /\ rec' \in [Instance -> Record]
    BY <2>2, <2>3, <2>4, GoType, StatusType, NoCmdType DEF Done
  <2> QED
    BY <1>1, <2>4, <2>5 DEF Admit, work, StateInv, TypeOK
<1>2. CASE StageCopy(i)
  <2> DEFINE p == Produces[cmd[i].n]
             v == Adding(stage[i], p, tree[i][p])
  <2>1. cmd[i].n \in DOMAIN Produces
    BY <1>0, <1>2 DEF StageCopy, At, Phase
  <2>2. p \in Path
    BY <2>1, Paths
  <2>3. v \in Dir
    <3>1. tree[i][p] \in Tree \cup {NoTree}
      BY <1>0, <2>2, Trees
    <3> QED
      BY <1>0, <2>2, <3>1, AddingType
  <2>4. stage' = [stage EXCEPT ![i] = v]
    BY <1>2 DEF StageCopy
  <2> HIDE DEF v
  <2>5. stage' \in [Instance -> Dir \cup {NoDir}]
    BY <1>0, <2>3, <2>4
  <2>6. cmd' \in [Instance -> Memory] /\ \A j \in Instance : Phase(cmd'[j])
    BY <1>2, StagedType DEF StageCopy
  <2> QED
    BY <1>2, <2>5, <2>6 DEF StageCopy, work, StateInv, TypeOK
<1>3. CASE StageFails(i)
  <2>1. /\ cmd' \in [Instance -> Memory] /\ \A j \in Instance : Phase(cmd'[j])
        /\ rec' \in [Instance -> Record] /\ spent' \in [command : Nat, event : Nat]
    BY <1>3, GoType, StatusType, SpentType, NoCmdType DEF StageFails, Done
  <2>2. stage' \in [Instance -> Dir \cup {NoDir}]
    BY <1>0, <1>3 DEF StageFails
  <2> QED
    BY <1>3, <2>1, <2>2 DEF StageFails, StateInv, TypeOK
<1>4. CASE Publish(i)
  <2>1. /\ cmd' \in [Instance -> Memory] /\ \A j \in Instance : Phase(cmd'[j])
        /\ rec' \in [Instance -> Record]
    BY <1>4, GoType, StatusType, NoCmdType DEF Publish, Done
  <2>2. stage' \in [Instance -> Dir \cup {NoDir}]
    BY <1>0, <1>4 DEF Publish
  <2>3. store' \in [Key -> Dir \cup {NoDir}]
    <3>1. CASE Publishable(i) /\ store' = [store EXCEPT ![cmd[i].key] = Reversed(i)]
      <4> DEFINE t == stage[i][RenderAt]
                 h == IF t.home = i THEN Find ELSE t.home
                 u == [t EXCEPT !.home = h]
      <4>1. stage[i] \in Dir /\ RenderAt \in Path /\ t # NoTree
        BY <1>0, <3>1, InstallAssumption DEF Publishable, PublishableUnread
      <4>2. t \in Tree
        BY <4>1, Trees
      <4>3. u \in Tree
        <5>1. h \in Places
          BY <4>2 DEF Tree, Places
        <5> HIDE DEF h, t, Places
        <5> QED
          BY <4>2, <5>1 DEF Tree
      <4>4. Reversed(i) = [stage[i] EXCEPT ![RenderAt] = u]
        BY <4>1 DEF Reversed, Dir
      <4> HIDE DEF u
      <4>5. Reversed(i) \in Dir
        BY <4>1, <4>3, <4>4 DEF Dir
      <4> QED
        BY <1>0, <3>1, <4>5
    <3> QED
      BY <1>0, <1>4, <3>1 DEF Publish
  <2> QED
    BY <1>4, <2>1, <2>2, <2>3 DEF Publish, work, StateInv, TypeOK
<1> QED
  BY <1>1, <1>2, <1>3, <1>4 DEF Store

\* Cleanup leaves commands alone, and keeps an entry's shape.
LEMMA GcKeyTo ==
    ASSUME StateInv, NEW i \in Instance, GcKey(i)
    PROVE  /\ gc.step = "keys" /\ i \in gc.live /\ UNCHANGED <<inputs, cmd, store, stage, strays>>
           /\ spent' \in [command : Nat, event : Nat]
           /\ \E key \in Key \cup {NoKey} :
                  /\ gc' \in GcMemory /\ gc'.live = gc.live \ {i} /\ gc'.keys = gc.keys \cup {key}
                  /\ gc'.unkeyed = (gc.unkeyed \/ key = NoKey) /\ gc'.step = gc.step
                  /\ gc'.todo = gc.todo /\ gc'.busy = gc.busy
                  /\ key # NoKey => /\ lock[i] # Absent
                                    /\ key = IdentityKey(lock[i], rec[i].dropped)
<1>1. PICK key \in Key \cup {NoKey} :
          /\ InstallKey(i, key) /\ gc.step = "keys" /\ i \in gc.live
          /\ gc' = [gc EXCEPT !.live = @ \ {i}, !.keys = @ \cup {key},
                              !.unkeyed = @ \/ key = NoKey]
          /\ UNCHANGED <<inputs, cmd, store, stage, strays>>
  BY Zenon DEF GcKey
<1>2. gc \in GcMemory
  BY DEF StateInv, TypeOK
<1> DEFINE b == gc.unkeyed \/ key = NoKey
<1>3. gc' = [gc EXCEPT !.live = gc.live \ {i}, !.keys = gc.keys \cup {key}, !.unkeyed = b]
  BY <1>1
<1>4. b \in BOOLEAN
  OBVIOUS
<1> HIDE DEF b
<1>5. /\ gc' \in GcMemory /\ gc'.live = gc.live \ {i} /\ gc'.keys = gc.keys \cup {key}
      /\ gc'.unkeyed = b /\ gc'.step = gc.step
      /\ gc'.todo = gc.todo /\ gc'.busy = gc.busy
  BY <1>2, <1>3, <1>4 DEF GcMemory
<1>6. /\ spent' \in [command : Nat, event : Nat]
      /\ key # NoKey => lock[i] # Absent /\ key = IdentityKey(lock[i], rec[i].dropped)
  BY <1>1, KeyedBy
<1> QED
  BY <1>1, <1>5, <1>6 DEF b

LEMMA GcListType ==
    ASSUME StateInv, GcList
    PROVE  /\ gc' \in GcMemory /\ gc'.step = "keys" /\ gc'.live = gc.live /\ gc'.keys = gc.keys
           /\ gc'.todo = {k \in Key : store[k] # NoDir}
           /\ gc'.unkeyed = gc.unkeyed /\ gc'.busy = gc.busy
<1> DEFINE T == {k \in Key : store[k] # NoDir}
<1>1. gc \in GcMemory /\ T \in SUBSET Key
  BY DEF StateInv, TypeOK
<1>2. gc' = [[gc EXCEPT !.step = "keys"] EXCEPT !.todo = T]
  BY DEF GcList
<1> HIDE DEF T
<1>3. /\ gc' \in GcMemory /\ gc'.step = "keys" /\ gc'.live = gc.live /\ gc'.keys = gc.keys
      /\ gc'.todo = T /\ gc'.unkeyed = gc.unkeyed /\ gc'.busy = gc.busy
  BY <1>1, <1>2 DEF GcMemory
<1> QED
  BY <1>3 DEF T

LEMMA CleanupType ==
    ASSUME StateInv, Cleanup
    PROVE  StateInv'
<1>0. gc \in GcMemory /\ store \in [Key -> Dir \cup {NoDir}]
  BY DEF StateInv, TypeOK
<1>1. CASE GcStart
  <2>1. gc' \in GcMemory
    <3> DEFINE l == {i \in Instance : rec[i].here}
               b == {i \in Instance : ~Idle(i)}
    <3>1. l \in SUBSET Instance /\ b \in SUBSET Instance
      OBVIOUS
    <3>2. gc' = [NoGc EXCEPT !.step = "sweep", !.live = l, !.busy = b]
      BY <1>1 DEF GcStart
    <3> HIDE DEF l, b
    <3> QED
      BY <3>1, <3>2 DEF NoGc, GcMemory
  <2> QED
    BY <1>1, <2>1, SpentType DEF GcStart, inputs, StateInv, TypeOK
<1>2. CASE GcSweep
  <2>1. gc' \in GcMemory
    BY <1>2, GcListType DEF GcSweep
  <2>2. stage' \in [Instance -> Dir \cup {NoDir}] /\ strays' \in BOOLEAN
    BY <1>2 DEF GcSweep
  <2> QED
    BY <1>2, <2>1, <2>2 DEF GcSweep, instances, inputs, StateInv, TypeOK
<1>3. CASE GcRemove
  <2>1. PICK k \in Garbage, p \in Path :
          /\ store' = [store EXCEPT ![k] =
                          IF CutFirst(k) THEN CutAt(k, p) ELSE NoDir]
          /\ gc' = [gc EXCEPT !.todo = IF CutFirst(k) THEN @ ELSE @ \ {k}]
    BY <1>3 DEF GcRemove
  <2>2. k \in Key
    BY <1>0, <2>1 DEF Garbage, GcMemory
  <2>3. gc' \in GcMemory
    BY <1>0, <2>1 DEF GcMemory
  <2>4. store' \in [Key -> Dir \cup {NoDir}]
    <3>1. CASE CutFirst(k)
      <4>1. store[k] \in Dir /\ store[k][p] \in Tree
        BY <1>0, <2>1, <2>2, <3>1, Trees DEF CutFirst, Wholes
      <4> DEFINE v == Cut(store[k][p])
      <4>2. v \in Tree
        BY <4>1, CutType
      <4> DEFINE e == [store[k] EXCEPT ![p] = v]
                 f == IF CutFirst(k) THEN e ELSE NoDir
      <4>5. store' = [store EXCEPT ![k] = f]
        BY <2>1 DEF CutAt
      <4>6. f = e
        BY <3>1
      <4> HIDE DEF f
      <4>3. store' = [store EXCEPT ![k] = e]
        BY <4>5, <4>6
      <4> HIDE DEF v
      <4>4. [store[k] EXCEPT ![p] = v] \in Dir
        BY <4>1, <4>2 DEF Dir
      <4> QED
        BY <1>0, <4>3, <4>4
    <3>2. CASE ~ CutFirst(k)
      BY <1>0, <2>1, <3>2
    <3> QED
      BY <3>1, <3>2
  <2> QED
    BY <1>3, <2>3, <2>4 DEF GcRemove, instances, inputs, StateInv, TypeOK
<1>4. CASE GcEnd
  BY <1>4, NoGcType DEF GcEnd, instances, inputs, StateInv, TypeOK
<1>5. CASE KillCleanup
  BY <1>5, NoGcType, SpentType DEF KillCleanup, inputs, StateInv, TypeOK
<1> QED
  BY <1>1, <1>2, <1>3, <1>4, <1>5 DEF Cleanup

\* The path a killed command was writing.
CutShort(i) ==
    LET p == Produces[cmd[i].n] IN
    CASE At(i, "copy") /\ store[cmd[i].key] # NoDir -> store[cmd[i].key][p]
      [] At(i, "running") -> Build(i, cmd[i].sees[1], "nowhere")[p]
      [] OTHER -> NoTree

LEMMA KillTree ==
    ASSUME StateInv, NEW i \in Instance, Kill(i)
    PROVE  LET t == CutShort(i)
               p == Produces[cmd[i].n] IN
           /\ tree' = IF t = NoTree THEN tree ELSE [tree EXCEPT ![i][p] = Cut(t)]
           /\ t # NoTree => /\ t \in Tree /\ p \in Path /\ cmd[i].step \in {"copy", "running"}
                            /\ \/ /\ cmd[i].key \in Key /\ store[cmd[i].key] # NoDir
                                  /\ t = store[cmd[i].key][p]
                               \/ /\ t.baked = NoBake
                                  /\ t.home = IF p = RenderAt THEN i ELSE Nobody
<1> DEFINE p == Produces[cmd[i].n]
<1>1. tree' = IF CutShort(i) = NoTree THEN tree ELSE [tree EXCEPT ![i][p] = Cut(CutShort(i))]
  BY DEF Kill, CutShort
<1>2. Phase(cmd[i]) /\ store \in [Key -> Dir \cup {NoDir}]
  BY Fields DEF StateInv, TypeOK
<1>3. CASE At(i, "copy") /\ store[cmd[i].key] # NoDir
  <2>1. cmd[i].step = "copy" /\ cmd[i].key \in Key /\ cmd[i].n \in DOMAIN Produces
    BY <1>2, <1>3 DEF At, Phase, Keyed
  <2>2. CutShort(i) = store[cmd[i].key][p] /\ p \in Path
    BY <1>3, <2>1, Paths DEF CutShort, At
  <2>3. CutShort(i) \in Tree \cup {NoTree}
    BY <1>2, <1>3, <2>1, <2>2, Trees
  <2> QED
    BY <1>1, <1>3, <2>1, <2>2, <2>3
<1>4. CASE At(i, "running")
  <2>1. cmd[i].step = "running" /\ cmd[i].n \in DOMAIN Produces
    BY <1>2, <1>4 DEF At, Phase
  <2> DEFINE t == Build(i, cmd[i].sees[1], "nowhere")[p]
  <2>2. CutShort(i) = t
    BY <1>4, <2>1 DEF CutShort, At
  <2>3. p \in Path /\ t \in Tree /\ t.baked = NoBake
        /\ t.home = IF p = RenderAt THEN i ELSE Nobody
    BY <2>1, FailedTree
  <2> HIDE DEF t
  <2> QED
    BY <1>1, <2>1, <2>2, <2>3
<1>5. CASE ~ (At(i, "copy") /\ store[cmd[i].key] # NoDir) /\ ~ At(i, "running")
  <2>1. CutShort(i) = NoTree
    BY <1>5 DEF CutShort
  <2> QED
    BY <1>1, <2>1
<1> QED
  BY <1>3, <1>4, <1>5

LEMMA KillType ==
    ASSUME StateInv, NEW i \in Instance, Kill(i)
    PROVE  StateInv'
<1> DEFINE p == Produces[cmd[i].n]
           v == Cut(CutShort(i))
<1>1. tree \in [Instance -> Dir]
  BY DEF StateInv, TypeOK
<1>2. tree' = tree \/ (tree' = [tree EXCEPT ![i][p] = v] /\ p \in Path /\ v \in Tree)
  <2>1. CutShort(i) # NoTree => CutShort(i) \in Tree /\ p \in Path
    BY KillTree
  <2>2. CutShort(i) # NoTree => v \in Tree
    BY <2>1, CutType
  <2>3. tree' = IF CutShort(i) = NoTree THEN tree ELSE [tree EXCEPT ![i][p] = v]
    BY KillTree
  <2> HIDE DEF v, p
  <2> QED
    BY <2>1, <2>2, <2>3
<1> HIDE DEF v, p
<1>3. tree' \in [Instance -> Dir]
  BY <1>1, <1>2 DEF Dir
<1>4. cmd' \in [Instance -> Memory] /\ \A j \in Instance : Phase(cmd'[j])
  BY GoType, NoCmdType DEF Kill
<1>5. spent' \in [command : Nat, event : Nat]
  BY SpentType DEF Kill
<1>6. /\ stage' \in [Instance -> Dir \cup {NoDir}] /\ strays' \in BOOLEAN
      /\ astray' \in [Instance -> BOOLEAN]
  BY DEF Kill, StateInv, TypeOK
<1> QED
  BY <1>3, <1>4, <1>5, <1>6 DEF Kill, StateInv, TypeOK

LEMMA TouchType ==
    ASSUME StateInv, NEW i \in Instance, Touch(i)
    PROVE  StateInv'
<1>0. lock \in [Instance -> Lock \cup {Absent}] /\ tree \in [Instance -> Dir]
  BY DEF StateInv, TypeOK
<1>1. lock' \in [Instance -> Lock \cup {Absent}] /\ tree' \in [Instance -> Dir]
  <2>1. CASE \E l \in Lock \ {lock[i]} : lock' = [lock EXCEPT ![i] = l] /\ UNCHANGED tree
    BY <1>0, <2>1
  <2>2. CASE \E p \in Path : /\ tree' = [tree EXCEPT ![i][p] = NoTree] /\ UNCHANGED lock
    BY <1>0, <2>2 DEF Dir
  <2> QED
    BY <2>1, <2>2 DEF Touch
<1>2. gc' \in GcMemory /\ spent' \in [command : Nat, event : Nat]
      /\ astray' \in [Instance -> BOOLEAN]
  BY MovedType, SpentType DEF Touch, StateInv, TypeOK
<1> QED
  BY <1>1, <1>2 DEF Touch, StateInv, TypeOK

LEMMA StateStep ==
    ASSUME StateInv, [Next]_vars
    PROVE  StateInv'
<1>1. CASE UNCHANGED vars
  BY <1>1 DEF vars, StateInv, TypeOK, Phase
<1>2. ASSUME NEW i \in Instance, GcKey(i)
      PROVE  StateInv'
  BY <1>2, GcKeyTo DEF inputs, StateInv, TypeOK
<1>3. ASSUME NEW i \in Instance, Checkpoint(i)
      PROVE  StateInv'
  <2>1. <<lock[i], rec[i].dropped>> \in (Lock \cup {Absent}) \X SUBSET Tracker
    BY NowSeen
  <2> QED
    BY <1>3, <2>1 DEF Checkpoint, StateInv, TypeOK
<1> QED
  BY <1>1, <1>2, <1>3, CommandType, FillType, InstallType, StoreType, CleanupType, TouchType,
     KillType DEF Next

\* Every variable stays in its type, and every command has what its step needs.
THEOREM TypeCorrect == Spec => []StateInv
<1>1. Init => StateInv
  BY InitState
<1>2. StateInv /\ [Next]_vars => StateInv'
  BY StateStep
<1> QED
  BY <1>1, <1>2, PTL DEF Spec

-----------------------------------------------------------------------------
(* Whom a tree names. Only an install writes its workspace's path, a publish  *)
(* takes it out of the one file the render puts it back in, and what it could *)
(* not take out is never published.                                           *)

LEMMA Names ==
    ASSUME NEW i \in Instance, NEW p \in Path
    PROVE  /\ Own(i, p, NoTree) /\ Clean(p, NoTree) /\ Own(i, p, Nothing[p])
           /\ \A t : Clean(p, t) => Own(i, p, t)
           /\ \A t \in Tree : Own(i, p, t) => Own(i, p, Cut(t))
           /\ \A t \in Tree : Clean(p, t) => Clean(p, Cut(t))
<1>1. Own(i, p, NoTree) /\ Clean(p, NoTree) /\ Nothing[p] = NoTree
  BY DEF Own, Clean, Nothing
<1>2. ASSUME NEW t, Clean(p, t)
      PROVE  Own(i, p, t)
  BY <1>2 DEF Own, Clean
<1>3. ASSUME NEW t \in Tree
      PROVE  /\ Own(i, p, t) => Own(i, p, Cut(t))
             /\ Clean(p, t) => Clean(p, Cut(t))
  <2>1. Cut(t).home = t.home /\ Cut(t).baked = t.baked /\ t # NoTree
    BY CutType, Trees
  <2> QED
    BY <2>1 DEF Own, Clean
<1> QED
  BY <1>1, <1>2, <1>3

LEMMA BuiltOwn ==
    ASSUME NEW i \in Instance, NEW s \in Seen, NEW spot \in Spots \cup {"nowhere"}, NEW p \in Path
    PROVE  Own(i, p, Build(i, s, spot)[p])
<1> DEFINE t == Build(i, s, spot)[p]
<1>1. t.home = IF p = RenderAt THEN i ELSE Nobody
  BY Building
<1>2. t.baked = IF spot = "plain" \/ (spot = "rendered" /\ p = RenderAt)
                    THEN <<i, spot>> ELSE NoBake
  BY Building
<1> HIDE DEF t
<1>3. Own(i, p, t)
  BY <1>1, <1>2 DEF Own
<1> QED
  BY <1>3 DEF t

\* Nothing but instance i's own and the store's entries moved.
LEMMA HomeFrame ==
    ASSUME HomeInv, NEW i \in Instance,
           \A j \in Instance \ {i} : /\ tree'[j] = tree[j] /\ parked'[j] = parked[j]
                                     /\ stage'[j] = stage[j] /\ cmd'[j] = cmd[j],
           \A p \in Path : /\ Own(i, p, tree'[i][p]) /\ Own(i, p, parked'[i][p])
                           /\ cmd'[i].step = "stage" => tree'[i][p].baked # <<i, "plain">>
                           /\ stage'[i] # NoDir =>
                                  /\ Own(i, p, stage'[i][p])
                                  /\ stage'[i][p] # NoTree => stage'[i][p].baked # <<i, "plain">>,
           \A k \in Key, p \in Path : store'[k] # NoDir => Clean(p, store'[k][p])
    PROVE  HomeInv'
<1>1. ASSUME NEW j \in Instance, NEW p \in Path
      PROVE  /\ Own(j, p, tree'[j][p]) /\ Own(j, p, parked'[j][p])
             /\ cmd'[j].step = "stage" => tree'[j][p].baked # <<j, "plain">>
             /\ stage'[j] # NoDir =>
                    /\ Own(j, p, stage'[j][p])
                    /\ stage'[j][p] # NoTree => stage'[j][p].baked # <<j, "plain">>
  <2>1. CASE j = i
    BY <2>1
  <2>2. CASE j # i
    <3>1. /\ tree'[j] = tree[j] /\ parked'[j] = parked[j]
          /\ stage'[j] = stage[j] /\ cmd'[j] = cmd[j]
      BY <2>2
    <3> QED
      BY <3>1 DEF HomeInv, NamesSelf
  <2> QED
    BY <2>1, <2>2
<1> QED
  BY <1>1 DEF HomeInv, NamesSelf

\* What HomeInv says of one instance.
LEMMA HomeOf ==
    ASSUME HomeInv, NEW i \in Instance, NEW p \in Path
    PROVE  /\ Own(i, p, tree[i][p]) /\ Own(i, p, parked[i][p])
           /\ cmd[i].step = "stage" => tree[i][p].baked # <<i, "plain">>
           /\ stage[i] # NoDir => /\ Own(i, p, stage[i][p])
                                  /\ stage[i][p] # NoTree => stage[i][p].baked # <<i, "plain">>
           /\ \A k \in Key : store[k] # NoDir => Clean(p, store[k][p])
  BY DEF HomeInv, NamesSelf

LEMMA HomeCommand ==
    ASSUME StateInv, HomeInv, NEW i \in Instance, Command(i)
    PROVE  HomeInv'
<1>1. UNCHANGED <<stage, store>> /\ (Remove(i) \/ UNCHANGED <<tree, parked>>)
  <2>1. Spawn(i) => UNCHANGED <<tree, parked, stage, store>>
    BY DEF Spawn
  <2>2. Bind(i) \/ Prepare(i) => UNCHANGED <<tree, parked, stage, store>>
    BY DEF Bind, Prepare, inputs
  <2>3. Rebind(i) => UNCHANGED <<tree, parked, stage, store>>
    BY DEF Rebind
  <2>4. Undo(i) => UNCHANGED <<tree, parked, ckpt, store, stage, strays, astray>>
    BY Zenon DEF Undo
  <2>5. Remove(i) => UNCHANGED <<cmd, store, stage, strays>>
    BY DEF Remove
  <2> QED
    BY <2>1, <2>2, <2>3, <2>4, <2>5 DEF Command
<1>2. \A j \in Instance : cmd'[j] = cmd[j] \/ (j = i /\ cmd'[j].step # "stage")
  <2>1. ASSUME NEW c \in Memory, c.step # "stage", Go(i, c)
        PROVE  \A j \in Instance : cmd'[j] = cmd[j] \/ (j = i /\ cmd'[j].step # "stage")
    BY <2>1 DEF StateInv, TypeOK, Go
  <2>2. \A op \in {"bind", "prepare", "rebind"} :
            LET c == [NoCmd EXCEPT !.op = op, !.step = "key"] IN c \in Memory /\ c.step # "stage"
    BY DEF NoCmd, Memory, Keyed
  <2>3. NoCmd \in Memory /\ NoCmd.step # "stage"
    BY NoCmdType
  <2>4. CASE Spawn(i) \/ Bind(i)
    <3>1. Go(i, [NoCmd EXCEPT !.op = "bind", !.step = "key"])
      BY <2>4 DEF Spawn, Bind, Begin
    <3> QED
      BY <2>1, <2>2, <3>1
  <2>5. CASE Prepare(i)
    <3> DEFINE c == [NoCmd EXCEPT !.op = "prepare"]
    <3>1. c \in Memory /\ c.op # "none"
      BY DEF NoCmd, Memory
    <3>2. Go(i, Running(i, c))
      BY <2>5 DEF Prepare, Begin
    <3> HIDE DEF c
    <3>3. Running(i, c) \in Memory /\ Running(i, c).step = "running"
      BY <3>1, RunningType
    <3> QED
      BY <2>1, <3>2, <3>3
  <2>6. CASE Rebind(i)
    <3> DEFINE c == [NoCmd EXCEPT !.op = "rebind", !.step = "key"]
    <3>1. Go(i, c) \/ Go(i, NoCmd)
      BY <2>6 DEF Rebind, Begin
    <3>2. c \in Memory /\ c.step # "stage"
      BY <2>2
    <3> HIDE DEF c
    <3>3. CASE Go(i, c)
      BY <2>1, <3>2, <3>3
    <3>4. CASE Go(i, NoCmd)
      BY <2>1, <2>3, <3>4
    <3> QED
      BY <3>1, <3>3, <3>4
  <2>7. CASE Undo(i)
    <3>1. PICK force \in BOOLEAN :
            Go(i, IF Skips(i, force) THEN NoCmd
                  ELSE [NoCmd EXCEPT !.op = "undo", !.step = "key", !.force = force])
      BY <2>7, Zenon DEF Undo, Begin
    <3> DEFINE c == [NoCmd EXCEPT !.op = "undo", !.step = "key", !.force = force]
    <3>2. c \in Memory /\ c.step # "stage"
      BY DEF NoCmd, Memory, Keyed
    <3>3. Go(i, c) \/ Go(i, NoCmd)
      BY <3>1
    <3> HIDE DEF c
    <3>4. CASE Go(i, c)
      BY <2>1, <3>2, <3>4
    <3>5. CASE Go(i, NoCmd)
      BY <2>1, <2>3, <3>5
    <3> QED
      BY <3>3, <3>4, <3>5
  <2>8. CASE Remove(i)
    BY <2>8 DEF Remove
  <2> QED
    BY <2>4, <2>5, <2>6, <2>7, <2>8 DEF Command
<1>3. CASE UNCHANGED <<tree, parked>>
  <2>1. UNCHANGED <<tree, parked, stage, store>>
    BY <1>1, <1>3
  <2>2. \A j \in Instance : cmd'[j].step = "stage" => cmd[j].step = "stage"
    BY <1>2
  <2> QED
    BY <2>1, <2>2 DEF HomeInv, NamesSelf
<1>4. CASE Remove(i)
  <2>1. UNCHANGED cmd /\ cmd[i].step # "stage"
    BY <1>4, NoCmdType DEF Remove, Idle
  <2>2. /\ tree' = [tree EXCEPT ![i] = Nothing] /\ parked' = [parked EXCEPT ![i] = Nothing]
        /\ tree \in [Instance -> Dir] /\ parked \in [Instance -> Dir]
    BY <1>4 DEF Remove, StateInv, TypeOK
  <2>3. \A p \in Path : Own(i, p, Nothing[p])
    BY Names
  <2> QED
    BY <1>1, <2>1, <2>2, <2>3, HomeOf, HomeFrame
<1> QED
  BY <1>1, <1>3, <1>4

LEMMA HomeFill ==
    ASSUME StateInv, HomeInv, NEW i \in Instance, Fill(i)
    PROVE  HomeInv'
<1>0. /\ tree \in [Instance -> Dir] /\ parked \in [Instance -> Dir]
      /\ store \in [Key -> Dir \cup {NoDir}] /\ cmd \in [Instance -> Memory]
  BY DEF StateInv, TypeOK
<1>1. CASE ComputeKey(i)
  <2>1. PICK d \in Memory : Go(i, d) /\ d.step # "stage"
    BY <1>1, ComputeKeyTo, NoCmdType
  <2>2. UNCHANGED <<tree, parked, stage, store>>
    BY <1>1 DEF ComputeKey
  <2>3. \A j \in Instance : cmd'[j].step = "stage" => cmd[j].step = "stage"
    BY <1>0, <2>1 DEF Go
  <2> QED
    BY <2>2, <2>3 DEF HomeInv, NamesSelf
<1>2. ASSUME cmd[i].op # "none", Go(i, Running(i, cmd[i]))
      PROVE  cmd'[i].step # "stage" /\ \A j \in Instance \ {i} : cmd'[j] = cmd[j]
  <2>1. Running(i, cmd[i]).step = "running"
    BY <1>0, <1>2, RunningType
  <2> QED
    BY <1>0, <1>2, <2>1 DEF Go
<1>3. \A s \in Keyed : At(i, s) => cmd[i].step = s /\ cmd[i].op # "none"
  BY Fields DEF At, Keyed
<1>4. CASE ForgetEntry(i)
  <2>1. cmd[i].op # "none" /\ cmd[i].key \in Key
    BY <1>3, <1>4, Fields DEF ForgetEntry, Phase, Keyed
  <2>2. cmd'[i].step # "stage" /\ \A j \in Instance \ {i} : cmd'[j] = cmd[j]
    BY <1>2, <1>4, <2>1 DEF ForgetEntry
  <2>3. UNCHANGED <<tree, parked, stage>> /\ store' = [store EXCEPT ![cmd[i].key] = NoDir]
    BY <1>4 DEF ForgetEntry
  <2>4. \A k \in Key : store'[k] # NoDir => store'[k] = store[k]
    BY <1>0, <2>3
  <2> QED
    BY <2>2, <2>3, <2>4 DEF HomeInv, NamesSelf
<1>5. CASE Lookup(i)
  <2>1. cmd[i].op # "none"
    BY <1>3, <1>5 DEF Lookup, Keyed
  <2> DEFINE c == [cmd[i] EXCEPT !.step = "copy", !.n = 1, !.aside = Aside(i)]
             d == [p \in Path |-> IF p \in Aside(i) THEN tree[i][p] ELSE parked[i][p]]
  <2>2. c.step # "stage"
    BY <1>0 DEF Memory
  <2>3. \/ Go(i, Running(i, cmd[i])) /\ UNCHANGED <<tree, parked>>
        \/ /\ Go(i, c) /\ parked' = [parked EXCEPT ![i] = d]
           /\ tree' = [tree EXCEPT ![i] = Nothing]
    BY <1>5 DEF Lookup
  <2>4. UNCHANGED <<stage, store>>
    BY <1>5 DEF Lookup
  <2>5. \A p \in Path : Own(i, p, d[p])
    BY HomeOf
  <2> HIDE DEF c, d
  <2>6. cmd'[i].step # "stage" /\ \A j \in Instance \ {i} : cmd'[j] = cmd[j]
    <3>1. CASE Go(i, Running(i, cmd[i]))
      BY <1>2, <2>1, <3>1
    <3>2. CASE Go(i, c)
      BY <1>0, <2>2, <3>2 DEF Go
    <3> QED
      BY <2>3, <3>1, <3>2
  <2>7. CASE UNCHANGED <<tree, parked>>
    BY <2>4, <2>6, <2>7 DEF HomeInv, NamesSelf
  <2>8. CASE /\ parked' = [parked EXCEPT ![i] = d]
             /\ tree' = [tree EXCEPT ![i] = Nothing]
    BY <1>0, <2>4, <2>5, <2>6, <2>8, Names, HomeOf, HomeFrame
  <2> QED
    BY <2>3, <2>7, <2>8
<1>6. CASE CopyIn(i)
  <2> DEFINE p == Produces[cmd[i].n]
             t == store[cmd[i].key][p]
  <2>1. cmd[i].key \in Key /\ cmd[i].n \in DOMAIN Produces /\ cmd[i].step = "copy"
    BY <1>3, <1>6, Fields DEF CopyIn, Phase, Keyed
  <2>2. p \in Path /\ Own(i, p, t)
    <3>1. p \in Path /\ store[cmd[i].key] # NoDir
      BY <1>6, <2>1, Paths DEF CopyIn
    <3>2. Clean(p, t)
      BY <2>1, <3>1, HomeOf
    <3> QED
      BY <3>1, <3>2, Names
  <2>3. tree' = [tree EXCEPT ![i][p] = t] /\ UNCHANGED <<stage, store, parked>>
    BY <1>6 DEF CopyIn
  <2>4. cmd'[i].step # "stage" /\ \A j \in Instance \ {i} : cmd'[j] = cmd[j]
    <3>1. cmd' = [cmd EXCEPT ![i] = [cmd[i] EXCEPT !.step = "render"]]
          \/ cmd' = [cmd EXCEPT ![i] = [cmd[i] EXCEPT !.n = cmd[i].n + 1]]
      BY <1>6 DEF CopyIn, Go
    <3>2. [cmd[i] EXCEPT !.step = "render"].step = "render"
          /\ [cmd[i] EXCEPT !.n = cmd[i].n + 1].step = "copy"
      BY <1>0, <2>1 DEF Memory
    <3> QED
      BY <1>0, <3>1, <3>2
  <2> HIDE DEF t, p
  <2>5. \A q \in Path : Own(i, q, tree'[i][q])
    BY <1>0, <2>2, <2>3, HomeOf DEF Dir
  <2>6. \A j \in Instance \ {i} : tree'[j] = tree[j]
    BY <1>0, <2>3
  <2> QED
    BY <2>3, <2>4, <2>5, <2>6, HomeOf, HomeFrame
<1>7. ASSUME Unpark(i)
      PROVE  /\ \A j \in Instance \ {i} : parked'[j] = parked[j]
             /\ \A p \in Path : Own(i, p, parked'[i][p])
  <2> DEFINE d == [p \in Path |-> IF p \in cmd[i].aside THEN NoTree ELSE parked[i][p]]
  <2>1. parked' = [parked EXCEPT ![i] = d]
    BY <1>7 DEF Unpark
  <2>2. \A p \in Path : Own(i, p, d[p])
    BY HomeOf, Names
  <2> HIDE DEF d
  <2> QED
    BY <1>0, <2>1, <2>2
<1>8. CASE CopyFails(i)
  <2> DEFINE d == [p \in Path |-> IF p \in cmd[i].aside THEN parked[i][p] ELSE tree[i][p]]
  <2>1. tree' = [tree EXCEPT ![i] = d] /\ Unpark(i) /\ UNCHANGED <<stage, store>>
    BY <1>8 DEF CopyFails
  <2>2. \A p \in Path : Own(i, p, d[p])
    BY HomeOf
  <2>3. cmd'[i].step # "stage" /\ \A j \in Instance \ {i} : cmd'[j] = cmd[j]
    BY <1>2, <1>3, <1>8 DEF CopyFails, Keyed
  <2> HIDE DEF d
  <2>4. /\ \A j \in Instance \ {i} : tree'[j] = tree[j]
        /\ \A p \in Path : Own(i, p, tree'[i][p])
    BY <1>0, <2>1, <2>2
  <2> QED
    BY <1>7, <2>1, <2>3, <2>4, HomeOf, HomeFrame
<1>9. CASE Filled(i)
  <2> DEFINE t == tree[i][RenderAt]
             h == IF t.home = Find THEN i ELSE t.home
             u == [t EXCEPT !.home = h]
  <2>1. RenderAt \in Path /\ t \in Tree \cup {NoTree}
    BY <1>0, Trees, InstallAssumption
  <2>2. tree' = [tree EXCEPT ![i][RenderAt] = u] /\ Unpark(i) /\ UNCHANGED <<stage, store>>
    BY <1>0, <1>9, <2>1 DEF Filled, Dir
  <2>3. Own(i, RenderAt, u)
    <3>1. Own(i, RenderAt, t)
      BY <2>1, HomeOf
    <3>2. CASE t = NoTree
      <4>1. u = NoTree
        BY <3>2 DEF NoTree
      <4> QED
        BY <2>1, <4>1, Names
    <3>3. CASE t \in Tree
      <4>1. u.home = h /\ u.baked = t.baked /\ t # NoTree
        BY <3>3, Trees DEF Tree
      <4>2. h \in {i, Nobody, Find}
        BY <3>1, <4>1 DEF Own
      <4>3. t.baked \in {NoBake, <<i, "plain">>, <<i, "rendered">>}
        BY <3>1, <4>1 DEF Own
      <4> HIDE DEF u, h, t
      <4> QED
        BY <4>1, <4>2, <4>3 DEF Own
    <3> QED
      BY <2>1, <3>2, <3>3
  <2>4. cmd'[i].step # "stage" /\ \A j \in Instance \ {i} : cmd'[j] = cmd[j]
    BY <1>0, <1>9, NoCmdType DEF Filled, Done, Go
  <2> HIDE DEF u
  <2>5. /\ \A j \in Instance \ {i} : tree'[j] = tree[j]
        /\ \A p \in Path : Own(i, p, tree'[i][p])
    BY <1>0, <2>1, <2>2, <2>3, HomeOf DEF Dir
  <2> QED
    BY <1>7, <2>2, <2>4, <2>5, HomeOf, HomeFrame
<1> QED
  BY <1>1, <1>4, <1>5, <1>6, <1>8, <1>9 DEF Fill

LEMMA HomeInstall ==
    ASSUME StateInv, HomeInv, NEW i \in Instance, Install(i)
    PROVE  HomeInv'
<1>0. /\ tree \in [Instance -> Dir] /\ cmd \in [Instance -> Memory]
      /\ NoCmd.step # "stage"
  BY NoCmdType DEF StateInv, TypeOK
<1>1. CASE Installed(i)
  <2>1. cmd[i].step = "running" /\ cmd[i].sees[1] \in Seen
    BY <1>1, InstalledTree
  <2>2. PICK spot \in Spots \cup {"nowhere"} :
            tree' = [tree EXCEPT ![i] = Build(i, cmd[i].sees[1], spot)]
    BY <1>1, InstalledTree
  <2> DEFINE b == Build(i, cmd[i].sees[1], spot)
  <2>3. \A p \in Path : Own(i, p, b[p])
    BY <2>1, BuiltOwn
  <2> HIDE DEF b
  <2>4. tree' = [tree EXCEPT ![i] = b] /\ UNCHANGED <<parked, store, stage>>
    BY <1>1, <2>2 DEF Installed, b
  <2>5. cmd'[i].step # "stage" /\ \A j \in Instance \ {i} : cmd'[j] = cmd[j]
    <3> DEFINE d == [cmd[i] EXCEPT !.step = "key"]
               e == [cmd[i] EXCEPT !.step = "admit"]
    <3>1. Go(i, d) \/ Go(i, e) \/ Go(i, NoCmd)
      <4>1. CASE cmd[i].op = "prepare"
        BY <1>1, <4>1 DEF Installed
      <4>2. CASE cmd[i].op # "prepare" /\ cmd[i].key = NoKey
        BY <1>1, <4>2 DEF Installed, Done
      <4>3. CASE cmd[i].op # "prepare" /\ cmd[i].key # NoKey
        BY <1>1, <4>3 DEF Installed
      <4> QED
        BY <4>1, <4>2, <4>3
    <3>2. d.step # "stage" /\ e.step # "stage"
      BY <1>0 DEF Memory
    <3> HIDE DEF d, e
    <3> QED
      BY <1>0, <3>1, <3>2 DEF Go
  <2>6. /\ \A j \in Instance \ {i} : tree'[j] = tree[j]
        /\ \A p \in Path : Own(i, p, tree'[i][p])
    BY <1>0, <2>3, <2>4
  <2> QED
    BY <2>4, <2>5, <2>6, HomeOf, HomeFrame
<1>2. CASE InstallFails(i)
  <2> DEFINE p == Produces[1]
             t == Build(i, cmd[i].sees[1], "nowhere")[p]
             v == Cut(t)
  <2>1. cmd[i].step = "running" /\ 1 \in DOMAIN Produces
    BY <1>2, Paths DEF InstallFails, At
  <2>2. p \in Path /\ t \in Tree /\ t.baked = NoBake
        /\ t.home = IF p = RenderAt THEN i ELSE Nobody
    BY <2>1, FailedTree
  <2>3. tree' = [tree EXCEPT ![i][p] = v] /\ UNCHANGED <<parked, store, stage>>
        /\ Go(i, NoCmd)
    BY <1>2 DEF InstallFails, Done
  <2> HIDE DEF t, p
  <2>4. Own(i, p, t)
    BY <2>2 DEF Own
  <2>5. Own(i, p, v)
    BY <2>2, <2>4, Names
  <2> HIDE DEF v
  <2>6. /\ \A j \in Instance \ {i} : tree'[j] = tree[j]
        /\ \A q \in Path : Own(i, q, tree'[i][q])
    BY <1>0, <2>2, <2>3, <2>5, HomeOf DEF Dir
  <2>7. cmd'[i].step # "stage" /\ \A j \in Instance \ {i} : cmd'[j] = cmd[j]
    BY <1>0, <2>3 DEF Go
  <2> QED
    BY <2>3, <2>6, <2>7, HomeOf, HomeFrame
<1> QED
  BY <1>1, <1>2 DEF Install

\* What a publish renames into place names no workspace.
LEMMA ReversedClean ==
    ASSUME StateInv, HomeInv, NEW i \in Instance, NEW p \in Path, Publishable(i)
    PROVE  Clean(p, Reversed(i)[p])
<1> DEFINE t == stage[i][RenderAt]
           h == IF t.home = i THEN Find ELSE t.home
           u == [t EXCEPT !.home = h]
<1>1. stage[i] \in Dir /\ RenderAt \in Path /\ t # NoTree /\ t.baked # <<i, "rendered">>
  BY InstallAssumption DEF Publishable, PublishableUnread, StateInv, TypeOK
<1>2. t \in Tree
  BY <1>1, Trees
<1>3. Reversed(i) = [stage[i] EXCEPT ![RenderAt] = u]
  BY <1>1 DEF Reversed, Dir
<1>4. stage[i] # NoDir
  BY <1>1, Trees
<1>5. u.home = h /\ u.baked = t.baked
  BY <1>2 DEF Tree
<1>6. /\ t.home \in {i, Nobody, Find}
      /\ t.baked \in {NoBake, <<i, "plain">>, <<i, "rendered">>} /\ t.baked # <<i, "plain">>
  BY <1>1, <1>4, HomeOf DEF Own
<1>7. h \in {Nobody, Find}
  BY <1>6
<1> HIDE DEF u, h, t
<1>8. CASE p = RenderAt
  <2>1. Reversed(i)[p] = u
    BY <1>1, <1>3, <1>8 DEF Dir
  <2> QED
    BY <1>1, <1>5, <1>6, <1>7, <1>8, <2>1 DEF Clean
<1>9. CASE p # RenderAt
  <2>1. Reversed(i)[p] = stage[i][p]
    BY <1>1, <1>3, <1>9 DEF Dir
  <2>2. Own(i, p, stage[i][p]) /\ (stage[i][p] # NoTree => stage[i][p].baked # <<i, "plain">>)
    BY <1>4, HomeOf
  <2> QED
    BY <1>9, <2>1, <2>2 DEF Own, Clean
<1> QED
  BY <1>8, <1>9

LEMMA HomeStore ==
    ASSUME StateInv, HomeInv, NEW i \in Instance, Store(i)
    PROVE  HomeInv'
<1>0. /\ tree \in [Instance -> Dir] /\ cmd \in [Instance -> Memory]
      /\ store \in [Key -> Dir \cup {NoDir}] /\ stage \in [Instance -> Dir \cup {NoDir}]
      /\ NoCmd.step # "stage"
  BY NoCmdType DEF StateInv, TypeOK
<1>1. CASE Admit(i)
  <2> DEFINE d == [cmd[i] EXCEPT !.step = "stage", !.n = 1]
  <2>1. UNCHANGED <<tree, parked, store>>
    BY <1>1 DEF Admit
  <2>2. CASE Go(i, NoCmd) /\ UNCHANGED stage
    <3>1. \A j \in Instance : cmd'[j].step = "stage" => cmd[j].step = "stage"
      BY <1>0, <2>2 DEF Go
    <3> QED
      BY <2>1, <2>2, <3>1 DEF HomeInv, NamesSelf
  <2>3. CASE /\ \A p \in Path : ~ NamesSelf(i, p)
             /\ stage' = [stage EXCEPT ![i] = Nothing] /\ Go(i, d)
    <3>1. \A j \in Instance \ {i} : stage'[j] = stage[j] /\ cmd'[j] = cmd[j]
      BY <1>0, <2>3 DEF Go
    <3>2. \A p \in Path : Own(i, p, stage'[i][p]) /\ stage'[i][p] = NoTree
      BY <1>0, <2>3, Names DEF Nothing
    <3>3. \A p \in Path : tree'[i][p].baked # <<i, "plain">>
      BY <2>1, <2>3 DEF NamesSelf
    <3> QED
      BY <2>1, <3>1, <3>2, <3>3, HomeOf, HomeFrame
  <2>4. \/ Go(i, NoCmd) /\ UNCHANGED stage
        \/ /\ \A p \in Path : ~ NamesSelf(i, p)
           /\ stage' = [stage EXCEPT ![i] = Nothing] /\ Go(i, d)
    BY <1>1 DEF Admit, Done
  <2> QED
    BY <2>2, <2>3, <2>4
<1>2. CASE StageCopy(i)
  <2> DEFINE p == Produces[cmd[i].n]
             t == tree[i][p]
             v == Adding(stage[i], p, t)
  <2>1. cmd[i].n \in DOMAIN Produces /\ cmd[i].step = "stage" /\ At(i, "stage")
    BY <1>2, Fields DEF StageCopy, At, Phase
  <2>2. p \in Path /\ t \in Tree \cup {NoTree} /\ stage[i] \in Dir \cup {NoDir}
    <3>1. p \in Path
      BY <2>1, Paths
    <3> QED
      BY <1>0, <3>1, Trees
  <2>3. /\ v[p] = t
        /\ \A q \in Path \ {p} : v[q] = IF stage[i] = NoDir THEN NoTree ELSE stage[i][q]
    BY <2>2, AddingType
  <2>4. /\ stage' = [stage EXCEPT ![i] = v] /\ UNCHANGED <<tree, parked, store>>
        /\ Staged(i)
    BY <1>2 DEF StageCopy
  <2>5. \A j \in Instance \ {i} : cmd'[j] = cmd[j]
    BY <2>1, <2>4, StagedType
  <2>6. \A q \in Path : Own(i, q, tree[i][q]) /\ tree[i][q].baked # <<i, "plain">>
    BY <2>1, HomeOf
  <2>7. Own(i, p, t) /\ t.baked # <<i, "plain">>
    BY <2>2, <2>6
  <2> HIDE DEF v, t, p
  <2>8. \A q \in Path : Own(i, q, v[q]) /\ (v[q] # NoTree => v[q].baked # <<i, "plain">>)
    <3> TAKE q \in Path
    <3>1. CASE q = p
      BY <2>3, <2>7, <3>1
    <3>2. CASE q # p /\ stage[i] = NoDir
      BY <2>3, <3>2, Names
    <3>3. CASE q # p /\ stage[i] # NoDir
      BY <2>3, <3>3, HomeOf
    <3> QED
      BY <3>1, <3>2, <3>3
  <2>9. stage'[i] = v /\ \A j \in Instance \ {i} : stage'[j] = stage[j]
    BY <1>0, <2>4
  <2>10. \A q \in Path : /\ Own(i, q, tree'[i][q]) /\ Own(i, q, parked'[i][q])
                         /\ tree'[i][q].baked # <<i, "plain">>
    BY <2>4, <2>6, HomeOf
  <2>11. \A q \in Path : /\ Own(i, q, stage'[i][q])
                         /\ stage'[i][q] # NoTree => stage'[i][q].baked # <<i, "plain">>
    BY <2>8, <2>9
  <2>12. \A j \in Instance \ {i} : /\ tree'[j] = tree[j] /\ parked'[j] = parked[j]
                                   /\ stage'[j] = stage[j] /\ cmd'[j] = cmd[j]
    BY <2>4, <2>5, <2>9
  <2>13. \A k \in Key, q \in Path : store'[k] # NoDir => Clean(q, store'[k][q])
    BY <2>4, HomeOf
  <2> QED
    BY <2>10, <2>11, <2>12, <2>13, HomeFrame
<1>3. CASE StageFails(i)
  <2>1. /\ UNCHANGED <<tree, parked, store>> /\ Go(i, NoCmd)
        /\ stage' = [stage EXCEPT ![i] = NoDir]
    BY <1>3 DEF StageFails, Done
  <2>2. \A j \in Instance : /\ cmd'[j].step = "stage" => cmd[j].step = "stage"
                            /\ stage'[j] # NoDir => stage'[j] = stage[j]
    BY <1>0, <2>1 DEF Go
  <2> QED
    BY <2>1, <2>2 DEF HomeInv, NamesSelf
<1>4. CASE Publish(i)
  <2>1. /\ UNCHANGED <<tree, parked>> /\ Go(i, NoCmd)
        /\ stage' = [stage EXCEPT ![i] = NoDir]
        /\ (Publishable(i) /\ store' = [store EXCEPT ![cmd[i].key] = Reversed(i)])
           \/ UNCHANGED store
    BY <1>4 DEF Publish, Done
  <2>2. \A j \in Instance : /\ cmd'[j].step = "stage" => cmd[j].step = "stage"
                            /\ stage'[j] # NoDir => stage'[j] = stage[j]
    BY <1>0, <2>1 DEF Go
  <2>3. \A k \in Key, p \in Path : store'[k] # NoDir => Clean(p, store'[k][p])
    <3>1. CASE Publishable(i) /\ store' = [store EXCEPT ![cmd[i].key] = Reversed(i)]
      <4>1. \A p \in Path : Clean(p, Reversed(i)[p])
        BY <3>1, ReversedClean
      <4> QED
        BY <1>0, <3>1, <4>1, HomeOf
    <3>2. CASE UNCHANGED store
      BY <3>2, HomeOf
    <3> QED
      BY <2>1, <3>1, <3>2
  <2> QED
    BY <2>1, <2>2, <2>3 DEF HomeInv, NamesSelf
<1> QED
  BY <1>1, <1>2, <1>3, <1>4 DEF Store

LEMMA HomeKill ==
    ASSUME StateInv, HomeInv, NEW i \in Instance, Kill(i)
    PROVE  HomeInv'
<1> DEFINE p == Produces[cmd[i].n]
           t == CutShort(i)
           v == Cut(t)
<1>0. /\ tree \in [Instance -> Dir] /\ cmd \in [Instance -> Memory]
      /\ stage \in [Instance -> Dir \cup {NoDir}] /\ NoCmd.step # "stage"
  BY NoCmdType DEF StateInv, TypeOK
<1>1. /\ UNCHANGED <<parked, store>> /\ Go(i, NoCmd)
      /\ stage' = [stage EXCEPT ![i] = NoDir]
  BY DEF Kill
<1>2. cmd'[i].step # "stage" /\ stage'[i] = NoDir
      /\ \A j \in Instance \ {i} : cmd'[j] = cmd[j] /\ stage'[j] = stage[j]
  BY <1>0, <1>1 DEF Go
<1>3. /\ tree' = IF t = NoTree THEN tree ELSE [tree EXCEPT ![i][p] = v]
      /\ t # NoTree => /\ t \in Tree /\ p \in Path
                       /\ \/ /\ cmd[i].key \in Key /\ store[cmd[i].key] # NoDir
                             /\ t = store[cmd[i].key][p]
                          \/ /\ t.baked = NoBake
                             /\ t.home = IF p = RenderAt THEN i ELSE Nobody
  BY KillTree
<1> HIDE DEF t, p
<1>4. CASE t = NoTree
  BY <1>1, <1>2, <1>3, <1>4, HomeOf, HomeFrame
<1>5. CASE t # NoTree
  <2>1. Own(i, p, t)
    <3>1. CASE cmd[i].key \in Key /\ store[cmd[i].key] # NoDir /\ t = store[cmd[i].key][p]
      <4>1. Clean(p, t)
        BY <1>3, <1>5, <3>1, HomeOf
      <4> QED
        BY <1>3, <1>5, <4>1, Names
    <3>2. CASE t.baked = NoBake /\ t.home = IF p = RenderAt THEN i ELSE Nobody
      BY <3>2 DEF Own
    <3> QED
      BY <1>3, <1>5, <3>1, <3>2
  <2>2. Own(i, p, v)
    BY <1>3, <1>5, <2>1, Names
  <2> HIDE DEF v
  <2>3. /\ \A j \in Instance \ {i} : tree'[j] = tree[j]
        /\ \A q \in Path : Own(i, q, tree'[i][q])
    BY <1>0, <1>3, <1>5, <2>2, HomeOf DEF Dir
  <2> QED
    BY <1>1, <1>2, <2>3, HomeOf, HomeFrame
<1> QED
  BY <1>4, <1>5

LEMMA HomeCleanup ==
    ASSUME StateInv, HomeInv, Cleanup
    PROVE  HomeInv'
<1>0. store \in [Key -> Dir \cup {NoDir}] /\ stage \in [Instance -> Dir \cup {NoDir}]
  BY DEF StateInv, TypeOK
<1>4. \A k \in Key, p \in Path :
          /\ store[k] # NoDir => Clean(p, store[k][p])
          /\ \A t \in Tree : Clean(p, t) => Clean(p, Cut(t))
  <2>1. ASSUME NEW p \in Path, NEW t \in Tree, Clean(p, t) PROVE Clean(p, Cut(t))
    <3>1. Cut(t).home = t.home /\ Cut(t).baked = t.baked /\ t # NoTree
      BY CutType, Trees
    <3> QED
      BY <2>1, <3>1 DEF Clean
  <2> QED
    BY <2>1 DEF HomeInv
<1>1. UNCHANGED <<tree, parked, cmd>>
  BY DEF Cleanup, GcStart, GcSweep, GcRemove, GcEnd, KillCleanup, instances, inputs
<1>2. \A j \in Instance : stage'[j] # NoDir => stage'[j] = stage[j]
  BY DEF Cleanup, GcStart, GcSweep, GcRemove, GcEnd, KillCleanup
<1>3. \A k \in Key, p \in Path : store'[k] # NoDir => Clean(p, store'[k][p])
  <2>1. CASE UNCHANGED store
    BY <2>1, <1>4
  <2>2. CASE GcRemove
    <3>1. PICK k \in Garbage, p \in Path :
            store' = [store EXCEPT ![k] = IF CutFirst(k) THEN CutAt(k, p) ELSE NoDir]
      BY <2>2 DEF GcRemove
    <3>2. k \in Key
      BY <3>1 DEF Garbage, StateInv, TypeOK, GcMemory
    <3>3. CASE CutFirst(k)
      <4>1. store[k] # NoDir /\ store[k] \in Dir /\ store[k][p] \in Tree
        BY <1>0, <3>1, <3>2, <3>3, Trees DEF CutFirst, Wholes
      <4> DEFINE v == Cut(store[k][p])
      <4>2. Clean(p, v)
        BY <3>1, <3>2, <4>1, <1>4
      <4>3. store' = [store EXCEPT ![k] = [store[k] EXCEPT ![p] = v]]
        BY <3>1, <3>3 DEF CutAt
      <4> HIDE DEF v
      <4>4. \A q \in Path : Clean(q, [store[k] EXCEPT ![p] = v][q])
        BY <3>1, <3>2, <4>1, <4>2, <1>4 DEF Dir
      <4> DEFINE e == [store[k] EXCEPT ![p] = v]
      <4> HIDE DEF e
      <4>5. store' = [store EXCEPT ![k] = e] /\ \A q \in Path : Clean(q, e[q])
        BY <4>3, <4>4 DEF e
      <4> QED
        BY <1>0, <4>5, <1>4
    <3>4. CASE ~ CutFirst(k)
      BY <1>0, <3>1, <3>4, <1>4
    <3> QED
      BY <3>3, <3>4
  <2> QED
    BY <2>1, <2>2 DEF Cleanup, GcStart, GcSweep, GcEnd, KillCleanup
<1> QED
  BY <1>1, <1>2, <1>3 DEF HomeInv, NamesSelf

LEMMA HomeTouch ==
    ASSUME StateInv, HomeInv, NEW i \in Instance, Touch(i)
    PROVE  HomeInv'
<1>0. tree \in [Instance -> Dir]
  BY DEF StateInv, TypeOK
<1>1. UNCHANGED <<parked, cmd, store, stage>>
  BY DEF Touch
<1>2. CASE UNCHANGED tree
  BY <1>1, <1>2 DEF HomeInv, NamesSelf
<1>3. CASE Idle(i) /\ \E p \in Path : tree' = [tree EXCEPT ![i][p] = NoTree]
  <2>1. /\ \A j \in Instance \ {i} : tree'[j] = tree[j]
        /\ \A p \in Path : Own(i, p, tree'[i][p])
    BY <1>0, <1>3, Names, HomeOf DEF Dir
  <2>2. cmd'[i].step # "stage"
    BY <1>1, <1>3, NoCmdType DEF Idle
  <2> QED
    BY <1>1, <2>1, <2>2, HomeOf, HomeFrame
<1> QED
  BY <1>2, <1>3 DEF Touch

LEMMA HomeStep ==
    ASSUME StateInv, HomeInv, [Next]_vars
    PROVE  HomeInv'
<1>1. CASE UNCHANGED vars
  BY <1>1 DEF vars, HomeInv, NamesSelf
<1>2. ASSUME NEW i \in Instance, GcKey(i) \/ Checkpoint(i)
      PROVE  HomeInv'
  <2>1. UNCHANGED <<tree, parked, cmd, store, stage>>
    BY <1>2, GcKeyTo DEF Checkpoint, inputs
  <2> QED
    BY <2>1 DEF HomeInv, NamesSelf
<1> QED
  BY <1>1, <1>2, HomeCommand, HomeFill, HomeInstall, HomeStore, HomeCleanup, HomeTouch, HomeKill
  DEF Next

\* No workspace ever names another, and no entry names any: whatever builds,
\* copies, fails, is killed or is cleaned up, a path an install wrote of its own
\* is only ever in its workspace and its staging directory (installs.rs: the
\* scan of `admit`, the reversal and the second scan of `publish`).
THEOREM NamesOnlyItself == Spec => []NoForeignPath
<1>1. Init => HomeInv
  BY Names, NoCmdType DEF Init, HomeInv, NamesSelf
<1>2. StateInv /\ StateInv' /\ HomeInv /\ [Next]_vars => HomeInv'
  BY HomeStep
<1>3. StateInv /\ HomeInv => NoForeignPath
  <2> SUFFICES ASSUME StateInv, HomeInv PROVE NoForeignPath
    OBVIOUS
  <2>1. ASSUME NEW i \in Instance, NEW p \in Path, tree[i][p] # NoTree
        PROVE  tree[i][p].home \in {i, Nobody, Find} /\ tree[i][p].baked[1] \in {i, Nobody}
    <3>1. Own(i, p, tree[i][p])
      BY HomeOf
    <3> QED
      BY <2>1, <3>1 DEF Own, NoBake
  <2>2. ASSUME NEW k \in Key, NEW p \in Path, store[k] # NoDir, store[k][p] # NoTree
        PROVE  store[k][p].home \in {Nobody, Find} /\ store[k][p].baked = NoBake
    <3>1. Clean(p, store[k][p])
      BY <2>2 DEF HomeInv
    <3> QED
      BY <2>2, <3>1 DEF Clean
  <2> QED
    BY <2>1, <2>2 DEF NoForeignPath
<1> QED
  BY <1>1, <1>2, <1>3, TypeCorrect, PTL DEF Spec

-----------------------------------------------------------------------------
(* What cleanup prunes. An instance that worked beside it is `busy`; the others *)
(* are still listed, or their key is known, so an entry nobody keyed to is not *)
(* theirs.                                                                   *)

Act(i) == Command(i) \/ Fill(i) \/ Install(i) \/ Store(i) \/ Touch(i) \/ Kill(i)

\* An instance's step leaves the others' state alone.
LEMMA OthersStay ==
    ASSUME StateInv, NEW i \in Instance, Act(i), NEW j \in Instance, j # i
    PROVE  /\ lock'[j] = lock[j] /\ rec'[j] = rec[j] /\ tree'[j] = tree[j]
           /\ cmd'[j] = cmd[j] /\ stage'[j] = stage[j] /\ astray'[j] = astray[j]
<1> USE DEF Go, Status, Done, Fit, Begin
<1>0. /\ DOMAIN lock = Instance /\ DOMAIN rec = Instance /\ DOMAIN tree = Instance
      /\ DOMAIN cmd = Instance /\ DOMAIN stage = Instance /\ DOMAIN astray = Instance
  BY DEF StateInv, TypeOK
<1>1. CASE Command(i)
  <2>1. CASE Spawn(i)
    BY <1>0, <2>1 DEF Spawn
  <2>2. CASE Bind(i)
    BY <1>0, <2>2 DEF Bind
  <2>3. CASE Prepare(i)
    BY <1>0, <2>3 DEF Prepare, inputs
  <2>4. CASE Rebind(i)
    BY <1>0, <2>4 DEF Rebind
  <2>5. CASE Undo(i)
    <3>1. /\ \E c : cmd' = [cmd EXCEPT ![i] = c]
          /\ lock' = [lock EXCEPT ![i] = ckpt[i][1]]
          /\ rec' = [rec EXCEPT ![i].dropped = ckpt[i][2]]
          /\ UNCHANGED <<tree, parked, ckpt, store, stage, strays, astray>>
      BY <2>5, Zenon DEF Undo
    <3> QED
      BY <1>0, <3>1
  <2>6. CASE Remove(i)
    BY <1>0, <2>6 DEF Remove
  <2> QED
    BY <1>1, <2>1, <2>2, <2>3, <2>4, <2>5, <2>6 DEF Command
<1>2. CASE Fill(i)
  <2>1. CASE ComputeKey(i)
    <3>1. /\ \E d : cmd' = [cmd EXCEPT ![i] = d]
          /\ UNCHANGED <<lock, ckpt, gc, rec, tree, parked, store, stage, strays, astray>>
      BY <2>1, Zenon DEF ComputeKey
    <3> QED
      BY <1>0, <3>1
  <2>2. CASE ForgetEntry(i)
    BY <1>0, <2>2 DEF ForgetEntry, work
  <2>3. CASE Lookup(i)
    BY <1>0, <2>3 DEF Lookup, work
  <2>4. CASE CopyIn(i)
    BY <1>0, <2>4 DEF CopyIn, work
  <2>5. CASE CopyFails(i)
    BY <1>0, <2>5 DEF CopyFails
  <2>6. CASE Filled(i)
    BY <1>0, <2>6 DEF Filled, work
  <2> QED
    BY <1>2, <2>1, <2>2, <2>3, <2>4, <2>5, <2>6 DEF Fill
<1>3. CASE Install(i)
  <2>1. CASE Installed(i)
    <3>1. /\ \E t : tree' = [tree EXCEPT ![i] = t]
          /\ \E c : cmd' = [cmd EXCEPT ![i] = c]
          /\ UNCHANGED rec \/ rec' = [rec EXCEPT ![i].status = "ready"]
          /\ Fit(i) /\ UNCHANGED <<work, parked, store, stage, strays>>
      <4>1. /\ \E t : tree' = [tree EXCEPT ![i] = t]
            /\ Fit(i) /\ UNCHANGED <<work, parked, store, stage, strays>>
        BY <2>1, Zenon DEF Installed
      <4>2. CASE cmd[i].op = "prepare"
        BY <2>1, <4>1, <4>2 DEF Installed
      <4>3. CASE cmd[i].op # "prepare" /\ cmd[i].key = NoKey
        BY <2>1, <4>1, <4>3 DEF Installed
      <4>4. CASE cmd[i].op # "prepare" /\ cmd[i].key # NoKey
        BY <2>1, <4>1, <4>4 DEF Installed
      <4> QED
        BY <4>2, <4>3, <4>4
    <3> QED
      BY <1>0, <3>1 DEF work
  <2>2. CASE InstallFails(i)
    BY <1>0, <2>2 DEF InstallFails
  <2> QED
    BY <1>3, <2>1, <2>2 DEF Install
<1>4. CASE Store(i)
  <2>1. CASE Admit(i)
    BY <1>0, <2>1 DEF Admit, work
  <2>2. CASE StageCopy(i)
    BY <1>0, <2>2 DEF StageCopy, Staged, work
  <2>3. CASE StageFails(i)
    BY <1>0, <2>3 DEF StageFails
  <2>4. CASE Publish(i)
    BY <1>0, <2>4 DEF Publish, work
  <2> QED
    BY <1>4, <2>1, <2>2, <2>3, <2>4 DEF Store
<1>5. CASE Touch(i)
  BY <1>0, <1>5 DEF Touch
<1>6. CASE Kill(i)
  <2>1. UNCHANGED tree \/ \E p, t : tree' = [tree EXCEPT ![i][p] = t]
    BY <1>6 DEF Kill
  <2> QED
    BY <1>0, <1>6, <2>1 DEF Kill
<1> QED
  BY <1>1, <1>2, <1>3, <1>4, <1>5, <1>6 DEF Act

\* It is known to a cleanup that is running, or is a step of a command.
LEMMA ActKnown ==
    ASSUME StateInv, NEW i \in Instance, Act(i)
    PROVE  Moved(i) \/ (~ Idle(i) /\ gc' = gc)
<1>1. CASE Command(i)
  <2>1. Spawn(i) => Moved(i)
    BY DEF Spawn, Begin
  <2>2. Bind(i) \/ Prepare(i) => Moved(i)
    BY DEF Bind, Prepare, Begin
  <2>3. Rebind(i) => Moved(i)
    BY DEF Rebind, Begin
  <2>4. Undo(i) => Moved(i)
    BY Zenon DEF Undo, Begin
  <2>5. Remove(i) => Moved(i)
    BY DEF Remove
  <2> QED
    BY <1>1, <2>1, <2>2, <2>3, <2>4, <2>5 DEF Command
<1>2. CASE Touch(i)
  BY <1>2 DEF Touch
<1>3. CASE Kill(i)
  BY <1>3 DEF Kill
<1>4. ASSUME NEW s \in Keyed \cup {"key", "running"}, At(i, s)
      PROVE  ~ Idle(i)
  BY <1>4, NoCmdType DEF At, Idle, Keyed
<1>5. CASE Fill(i)
  <2>1. ComputeKey(i) => At(i, "key") /\ gc' = gc
    BY Zenon DEF ComputeKey
  <2>2. /\ ForgetEntry(i) => At(i, "forget") /\ gc' = gc
        /\ Lookup(i) => At(i, "lookup") /\ gc' = gc
        /\ CopyIn(i) => At(i, "copy") /\ gc' = gc
        /\ CopyFails(i) => At(i, "copy") /\ gc' = gc
        /\ Filled(i) => At(i, "render") /\ gc' = gc
    BY DEF ForgetEntry, Lookup, CopyIn, CopyFails, Filled, work
  <2> QED
    BY <1>4, <1>5, <2>1, <2>2 DEF Fill, Keyed
<1>6. CASE Install(i)
  <2>1. At(i, "running") /\ gc' = gc
    BY <1>6 DEF Install, Installed, InstallFails, work
  <2> QED
    BY <1>4, <2>1
<1>7. CASE Store(i)
  <2>1. /\ Admit(i) => At(i, "admit") /\ gc' = gc
        /\ StageCopy(i) => At(i, "stage") /\ gc' = gc
        /\ StageFails(i) => At(i, "stage") /\ gc' = gc
        /\ Publish(i) => At(i, "publish") /\ gc' = gc
    BY DEF Admit, StageCopy, StageFails, Publish, work
  <2> QED
    BY <1>4, <1>7, <2>1 DEF Store, Keyed
<1> QED
  BY <1>1, <1>2, <1>3, <1>5, <1>6, <1>7 DEF Act

LEMMA GcAct ==
    ASSUME StateInv, GcInv, NEW i \in Instance, Act(i)
    PROVE  GcInv'
<1>0. gc \in GcMemory
  BY DEF StateInv, TypeOK
<1>1. CASE gc = NoGc
  <2>1. gc' = NoGc
    BY <1>1, ActKnown, MovedType
  <2> QED
    BY <2>1, NoGcType DEF GcInv
<1>2. CASE gc # NoGc
  <2>1. /\ gc'.step = gc.step /\ gc'.live = gc.live /\ gc'.keys = gc.keys
        /\ gc'.unkeyed = gc.unkeyed
        /\ i \in gc'.busy /\ gc.busy \subseteq gc'.busy
    <3>1. CASE Moved(i)
      BY <1>2, <3>1, MovedType
    <3>2. CASE ~ Idle(i) /\ gc' = gc
      <4>1. i \in gc.busy
        BY <1>2, <3>2 DEF GcInv, Accounted
      <4> QED
        BY <3>2, <4>1
    <3> QED
      BY <3>1, <3>2, ActKnown
  <2>2. ASSUME NEW j \in Instance \ gc'.busy
        PROVE  Accounted(j)'
    <3>1. Accounted(j) /\ j # i
      BY <1>2, <2>1, <2>2 DEF GcInv
    <3>2. lock'[j] = lock[j] /\ rec'[j] = rec[j] /\ cmd'[j] = cmd[j]
      BY <3>1, OthersStay
    <3> QED
      BY <2>1, <3>1, <3>2 DEF Accounted, Idle
  <2>3. gc.step # "idle"
    BY <1>2 DEF GcInv
  <2>4. gc.step = "sweep" => gc.keys = {}
    BY DEF GcInv
  <2> QED
    BY <2>1, <2>2, <2>3, <2>4 DEF GcInv
<1> QED
  BY <1>1, <1>2

LEMMA GcCleanup ==
    ASSUME StateInv, GcInv, Cleanup \/ \E i \in Instance : GcKey(i)
    PROVE  GcInv'
<1>0. gc \in GcMemory /\ store \in [Key -> Dir \cup {NoDir}]
  BY DEF StateInv, TypeOK
<1>1. CASE GcStart
  <2> DEFINE l == {i \in Instance : rec[i].here}
             b == {i \in Instance : ~Idle(i)}
  <2>1. gc' = [NoGc EXCEPT !.step = "sweep", !.live = l, !.busy = b]
        /\ UNCHANGED <<inputs, cmd, store, stage, strays>>
    BY <1>1 DEF GcStart
  <2>2. l \in SUBSET Instance /\ b \in SUBSET Instance
    OBVIOUS
  <2> HIDE DEF l, b
  <2>3. gc'.step = "sweep" /\ gc'.live = l /\ gc'.busy = b /\ gc'.keys = {}
    BY <2>1 DEF NoGc
  <2>4. ASSUME NEW j \in Instance \ b
        PROVE  Accounted(j)'
    <3>1. Idle(j) /\ (rec[j].here => j \in l)
      BY <2>4 DEF l, b
    <3> QED
      BY <2>1, <2>3, <3>1 DEF Accounted, Idle, inputs
  <2>5. \A i \in l : rec'[i].here
    BY <2>1 DEF l, inputs
  <2> QED
    BY <2>3, <2>4, <2>5 DEF GcInv
<1>2. CASE GcSweep
  <2>1. gc.step = "sweep" /\ stage' = [i \in Instance |-> NoDir] /\ strays' = FALSE
        /\ GcList /\ UNCHANGED <<instances, store>>
    BY <1>2 DEF GcSweep
  <2>2. gc'.step = "keys" /\ gc'.live = gc.live /\ gc'.keys = gc.keys /\ gc'.busy = gc.busy
        /\ gc'.todo = {k \in Key : store[k] # NoDir} /\ gc'.unkeyed = gc.unkeyed
    BY <2>1, GcListType
  <2>3. gc # NoGc /\ gc.keys = {}
    BY <2>1, NoGcType DEF GcInv
  <2>4. ASSUME NEW j \in Instance \ gc.busy
        PROVE  Accounted(j)'
    <3>1. Accounted(j)
      BY <2>3 DEF GcInv
    <3> QED
      BY <2>1, <2>2, <3>1 DEF Accounted, Idle, instances, inputs
  <2>5. gc.busy = {} => \A i \in gc.live : rec[i].here
    BY <2>3 DEF GcInv
  <2>6. /\ ~ strays' /\ \A i \in Instance : stage'[i] = NoDir
        /\ \A k \in Key : store'[k] # NoDir => k \in gc'.todo
    BY <2>1, <2>2
  <2> QED
    BY <2>1, <2>2, <2>3, <2>4, <2>5, <2>6 DEF GcInv, instances, inputs
<1>3. CASE GcRemove
  <2>1. PICK k \in Garbage, p \in Path :
          /\ gc.step = "keys" /\ gc.live = {}
          /\ store' = [store EXCEPT ![k] = IF CutFirst(k) THEN CutAt(k, p) ELSE NoDir]
          /\ gc' = [gc EXCEPT !.todo = IF CutFirst(k) THEN @ ELSE @ \ {k}]
          /\ UNCHANGED <<instances, stage, strays>>
    BY <1>3 DEF GcRemove
  <2> DEFINE T == IF CutFirst(k) THEN gc.todo ELSE gc.todo \ {k}
             s == IF CutFirst(k) THEN CutAt(k, p) ELSE NoDir
  <2>2. gc' = [gc EXCEPT !.todo = T] /\ store' = [store EXCEPT ![k] = s]
    BY <2>1
  <2>3. k \in gc.todo /\ k \in Key
    BY <1>0, <2>1 DEF Garbage, GcMemory
  <2>4. \A q \in Key : store'[q] # NoDir /\ (store[q] # NoDir => q \in gc.todo) => q \in T
    BY <1>0, <2>2, <2>3
  <2> HIDE DEF T, s
  <2>5. gc'.step = "keys" /\ gc'.live = gc.live /\ gc'.keys = gc.keys /\ gc'.busy = gc.busy
        /\ gc'.todo = T /\ gc'.unkeyed = gc.unkeyed
    BY <1>0, <2>1, <2>2 DEF GcMemory
  <2>6. gc # NoGc
    BY <2>1, NoGcType
  <2>7. ASSUME NEW j \in Instance \ gc.busy
        PROVE  Accounted(j)'
    <3>1. Accounted(j)
      BY <2>6 DEF GcInv
    <3> QED
      BY <2>1, <2>5, <3>1 DEF Accounted, Idle, instances, inputs
  <2>8. UNCHANGED <<rec, lock, stage, strays>>
    BY <2>1 DEF instances, inputs
  <2>9. gc.busy = {} =>
           /\ ~ strays /\ \A i \in Instance : stage[i] = NoDir
           /\ \A q \in Key : store[q] # NoDir => q \in gc.todo
           /\ \A q \in gc.keys : q = NoKey \/ \E i \in Instance :
                  rec[i].here /\ q = IdentityKey(lock[i], rec[i].dropped)
    BY <2>1, <2>6 DEF GcInv
  <2>10. gc.busy = {} => \A q \in Key : store'[q] # NoDir => q \in gc'.todo
    BY <2>4, <2>5, <2>9
  <2> QED
    BY <2>1, <2>5, <2>7, <2>8, <2>9, <2>10 DEF GcInv
<1>4. CASE GcEnd \/ KillCleanup
  BY <1>4, NoGcType DEF GcEnd, KillCleanup, GcInv
<1>5. ASSUME NEW i \in Instance, GcKey(i)
      PROVE  GcInv'
  <2>1. gc.step = "keys" /\ i \in gc.live /\ UNCHANGED <<inputs, cmd, store, stage, strays>>
    BY <1>5, GcKeyTo
  <2>2. PICK key \in Key \cup {NoKey} :
          /\ gc'.live = gc.live \ {i} /\ gc'.keys = gc.keys \cup {key}
          /\ gc'.unkeyed = (gc.unkeyed \/ key = NoKey) /\ gc'.step = gc.step
          /\ gc'.todo = gc.todo /\ gc'.busy = gc.busy
          /\ key # NoKey => lock[i] # Absent /\ key = IdentityKey(lock[i], rec[i].dropped)
    BY <1>5, GcKeyTo
  <2>3. gc # NoGc
    BY <2>1, NoGcType
  <2>4. ASSUME NEW j \in Instance \ gc.busy
        PROVE  Accounted(j)'
    <3>1. Accounted(j)
      BY <2>3 DEF GcInv
    <3>2. CASE j = i
      BY <2>1, <2>2, <3>1, <3>2 DEF Accounted, Idle, inputs
    <3>3. CASE j # i
      BY <2>1, <2>2, <3>1, <3>3 DEF Accounted, Idle, inputs
    <3> QED
      BY <3>2, <3>3
  <2>5. UNCHANGED <<rec, lock, stage, strays, store>>
    BY <2>1 DEF inputs
  <2>6. gc.busy = {} =>
           /\ \A j \in gc.live : rec[j].here
           /\ ~ strays /\ \A j \in Instance : stage[j] = NoDir
           /\ \A k \in Key : store[k] # NoDir => k \in gc.todo
           /\ \A k \in gc.keys : k = NoKey \/ \E j \in Instance :
                  rec[j].here /\ k = IdentityKey(lock[j], rec[j].dropped)
    BY <2>1, <2>3 DEF GcInv
  <2>7. gc.busy = {} => \A k \in gc'.keys : k = NoKey \/ \E j \in Instance :
                            rec[j].here /\ k = IdentityKey(lock[j], rec[j].dropped)
    BY <2>1, <2>2, <2>6
  <2> QED
    BY <2>1, <2>2, <2>4, <2>5, <2>6, <2>7 DEF GcInv
<1> QED
  BY <1>1, <1>2, <1>3, <1>4, <1>5 DEF Cleanup

LEMMA GcStep ==
    ASSUME StateInv, GcInv, [Next]_vars
    PROVE  GcInv'
<1>1. CASE UNCHANGED vars
  BY <1>1 DEF vars, GcInv, Accounted, Idle
<1>2. ASSUME NEW i \in Instance, Checkpoint(i)
      PROVE  GcInv'
  <2>1. UNCHANGED <<lock, rec, cmd, store, stage, strays, gc>>
    BY <1>2 DEF Checkpoint
  <2> QED
    BY <2>1 DEF GcInv, Accounted, Idle
<1> QED
  BY <1>1, <1>2, GcAct, GcCleanup DEF Next, Act

\* A command that touches the store has moved on.
LEMMA HoldersMove ==
    ASSUME StateInv, NEW j \in Instance, ForgetEntry(j) \/ Publish(j)
    PROVE  cmd' # cmd
<1>0. cmd \in [Instance -> Memory]
  BY DEF StateInv, TypeOK
<1>1. CASE ForgetEntry(j)
  <2>1. cmd[j].step = "forget" /\ cmd[j].op # "none"
    BY <1>1, Fields DEF ForgetEntry, At
  <2>2. Running(j, cmd[j]).step = "running"
    BY <1>0, <2>1, RunningType
  <2>3. cmd'[j] = Running(j, cmd[j])
    BY <1>0, <1>1 DEF ForgetEntry, Go
  <2> QED
    BY <2>1, <2>2, <2>3
<1>2. CASE Publish(j)
  <2>1. cmd[j].step = "publish" /\ cmd'[j] = NoCmd
    BY <1>0, <1>2 DEF Publish, Done, Go, At
  <2> QED
    BY <2>1, NoCmdType
<1> QED
  BY <1>1, <1>2

LEMMA KillsCount ==
    ASSUME StateInv
    PROVE  KillCleanup => spent' # spent
<1>1. spent \in [command : Nat, event : Nat]
  BY DEF StateInv, TypeOK
<1>2. spent.event \in Nat /\ [spent EXCEPT !.event = spent.event + 1].event = spent.event + 1
  BY <1>1
<1> DEFINE e == [spent EXCEPT !.event = spent.event + 1]
<1>3. KillCleanup => spent' = e
  BY DEF KillCleanup, Happens
<1>5. e.event = spent.event + 1
  BY <1>2
<1> HIDE DEF e
<1>4. e # spent
  BY <1>2, <1>5
<1> QED
  BY <1>3, <1>4

\* An entry goes only when no instance keys to it, or at the hands of the
\* command that holds it.
LEMMA Spares ==
    ASSUME StateInv, GcInv, [Next]_vars
    PROVE  SparesReachable
<1> SUFFICES ASSUME NEW k \in Key, store[k] # NoDir, store'[k] = NoDir, gc.step = "keys",
                    cmd' = cmd, NEW i \in Instance \ gc.busy, rec[i].here, lock[i] # Absent
             PROVE  k # IdentityKey(lock[i], rec[i].dropped)
  BY DEF SparesReachable
<1>0. store \in [Key -> Dir \cup {NoDir}] /\ cmd \in [Instance -> Memory]
  BY DEF StateInv, TypeOK
<1>1. store' # store
  OBVIOUS
<1>2. GcRemove
  <2>1. ASSUME NEW j \in Instance, ForgetEntry(j) \/ Publish(j)
        PROVE  FALSE
    BY <2>1, HoldersMove
  <2>2. ASSUME NEW j \in Instance, Command(j)
        PROVE  store' = store
    <3>1. Undo(j) => UNCHANGED <<tree, parked, ckpt, store, stage, strays, astray>>
      BY Zenon DEF Undo
    <3>2. /\ Spawn(j) \/ Bind(j) \/ Prepare(j) => store' = store
          /\ Rebind(j) \/ Remove(j) => store' = store
      BY DEF Spawn, Bind, Prepare, Rebind, Remove
    <3> QED
      BY <2>2, <3>1, <3>2 DEF Command
  <2>3. ASSUME NEW j \in Instance, Fill(j), ~ ForgetEntry(j)
        PROVE  store' = store
    <3>1. ComputeKey(j) => store' = store
      BY Zenon DEF ComputeKey
    <3>2. Lookup(j) \/ CopyIn(j) \/ CopyFails(j) \/ Filled(j) => store' = store
      BY DEF Lookup, CopyIn, CopyFails, Filled
    <3> QED
      BY <2>3, <3>1, <3>2 DEF Fill
  <2>4. ASSUME NEW j \in Instance, Install(j) \/ (Store(j) /\ ~ Publish(j))
        PROVE  store' = store
    BY <2>4 DEF Install, Installed, InstallFails, Store, Admit, StageCopy, StageFails
  <2>5. ASSUME NEW j \in Instance, GcKey(j) \/ Touch(j) \/ Checkpoint(j) \/ Kill(j)
        PROVE  store' = store
    BY <2>5, GcKeyTo DEF Touch, Checkpoint, Kill
  <2>6. Cleanup => GcRemove \/ store' = store
    BY DEF Cleanup, GcStart, GcSweep, GcEnd, KillCleanup
  <2>7. UNCHANGED vars => store' = store
    BY DEF vars
  <2> QED
    BY <1>1, <2>1, <2>2, <2>3, <2>4, <2>5, <2>6, <2>7 DEF Next
<1>3. PICK g \in Garbage, p \in Path :
          /\ gc.live = {}
          /\ store' = [store EXCEPT ![g] = IF CutFirst(g) THEN CutAt(g, p) ELSE NoDir]
  BY <1>2 DEF GcRemove
<1>4. k = g
  BY <1>0, <1>3
<1>5. ~ gc.unkeyed /\ k \notin gc.keys
  BY <1>3, <1>4 DEF Garbage
<1>6. Accounted(i)
  BY NoGcType DEF GcInv
<1> QED
  BY <1>3, <1>5, <1>6 DEF Accounted

\* A cleanup that ends by itself has pruned all it listed and nobody keyed to.
LEMMA Leaves ==
    ASSUME StateInv, GcInv, [Next]_vars
    PROVE  Reclaims
<1> SUFFICES ASSUME gc.step = "keys", gc' = NoGc, spent' = spent, ~ gc.unkeyed, gc.busy = {}
             PROVE  /\ ~ strays /\ \A i \in Instance : stage[i] = NoDir
                    /\ \A k \in Key : store[k] # NoDir =>
                           \E i \in Instance : rec[i].here /\ k = IdentityKey(lock[i], rec[i].dropped)
  BY DEF Reclaims
<1>0. gc # NoGc
  BY NoGcType
<1>1. GcEnd
  <2>1. ASSUME NEW i \in Instance, Act(i)
        PROVE  gc' # NoGc
    <3>1. CASE Moved(i)
      <4>1. gc'.step = gc.step
        BY <3>1, MovedType
      <4> QED
        BY <4>1, NoGcType
    <3>2. CASE gc' = gc
      BY <1>0, <3>2
    <3> QED
      BY <2>1, <3>1, <3>2, ActKnown
  <2>2. ASSUME NEW i \in Instance, GcKey(i)
        PROVE  gc' # NoGc
    <3>1. gc'.step = gc.step
      BY <2>2, GcKeyTo
    <3> QED
      BY <3>1, NoGcType
  <2>3. ASSUME NEW i \in Instance, Checkpoint(i)
        PROVE  gc' # NoGc
    BY <1>0, <2>3 DEF Checkpoint
  <2>4. ~ GcStart /\ ~ GcSweep
    BY <1>0 DEF GcStart, GcSweep
  <2>5. GcRemove => gc'.step = gc.step
    BY DEF GcRemove, StateInv, TypeOK, GcMemory
  <2>6. KillCleanup => spent' # spent
    BY KillsCount
  <2>7. UNCHANGED vars => gc' = gc
    BY DEF vars
  <2> QED
    BY <1>0, <2>1, <2>2, <2>3, <2>4, <2>5, <2>6, <2>7, NoGcType DEF Next, Cleanup, Act
<1>2. gc.live = {} /\ gc.todo \subseteq gc.keys
  BY <1>1 DEF GcEnd, Garbage
<1>3. /\ ~ strays /\ \A i \in Instance : stage[i] = NoDir
      /\ \A k \in Key : store[k] # NoDir => k \in gc.todo
      /\ \A k \in gc.keys : k = NoKey \/ \E i \in Instance :
             rec[i].here /\ k = IdentityKey(lock[i], rec[i].dropped)
  BY <1>0 DEF GcInv
<1> QED
  BY <1>2, <1>3, Keys

\* Cleanup never removes the entry that an instance which worked on nothing
\* meanwhile would be filled from, and one nobody worked beside leaves only
\* entries some instance keys to (manager.rs: prune_install_store), however it
\* is interleaved with commands, edits, kills and failures to compute a key.
THEOREM PruneIsExact == Spec => PrunesExactly
<1>1. Init => GcInv
  BY NoGcType DEF Init, GcInv
<1>2. StateInv /\ GcInv /\ [Next]_vars => GcInv'
  BY GcStep
<1>3. StateInv /\ GcInv /\ [Next]_vars => [SparesReachable /\ Reclaims]_vars
  BY Spares, Leaves
<1> QED
  BY <1>1, <1>2, <1>3, TypeCorrect, PTL DEF Spec, PrunesExactly

-----------------------------------------------------------------------------
(* What entries and installs hold. A key and what an install read are of the   *)
(* inputs as they are, as long as nobody edits them under a command; so what   *)
(* is built, staged, published, found and copied stays what they ask for, as   *)
(* long as no staging directory is swept under a publish and no entry is cut   *)
(* under a copy.                                                              *)

Steady == RemovesAtOnce /\ ~ SweepsLive /\ ~ EditsLive

\* What is read depends on the binding's reach only.
LEMMA ReachTells ==
    ASSUME NEW l, NEW d, NEW e, InstallBinding(d) = InstallBinding(e)
    PROVE  Sees(l, d) = Sees(l, e)
  BY DEF InstallBinding, Sees

LEMMA SameFits ==
    ASSUME NEW i \in Instance, tree'[i] = tree[i], Now(i)' = Now(i), Fits(i)
    PROVE  Fits(i)'
  BY DEF Fits, Good

LEMMA SameNow ==
    ASSUME NEW i \in Instance, lock'[i] = lock[i], rec'[i].dropped = rec[i].dropped
    PROVE  Now(i)' = Now(i)
  BY DEF Now

\* Where a command stands, and what that asks of it.
LEMMA FollowsIdle ==
    ASSUME NEW i \in Instance, cmd'[i] = NoCmd,
           (rec'[i].here /\ rec'[i].status = "ready" /\ ~ astray'[i]) => Fits(i)'
    PROVE  Follows(i)'
<1>1. cmd'[i].step = "idle" /\ cmd'[i].key = NoKey /\ cmd'[i].op = "none"
  BY NoCmdType
<1> QED
  BY <1>1 DEF Follows, Current, Filling, Staging, Built

LEMMA FollowsUnbuilt ==
    ASSUME NEW i \in Instance, cmd'[i].step \in {"key", "forget", "lookup", "running"},
           cmd'[i].op # "prepare" \/ cmd'[i].step = "running", Current(i)'
    PROVE  Follows(i)'
<1>1. ~ Idle(i)'
  BY NoCmdType DEF Idle
<1> QED
  BY <1>1 DEF Follows, Filling, Staging, Built

LEMMA FollowsBuilt ==
    ASSUME NEW i \in Instance, cmd'[i].step \in {"admit", "key"}, Current(i)', Fits(i)'
    PROVE  Follows(i)'
  BY DEF Follows, Filling, Staging

\* One instance moves, and the store is left alone.
LEMMA FitFrame ==
    ASSUME StateInv, FitInv, NEW i \in Instance, Act(i), Follows(i)', EntriesComplete'
    PROVE  FitInv'
<1>1. ASSUME NEW j \in Instance, j # i
      PROVE  Follows(j)'
  <2>1. /\ lock'[j] = lock[j] /\ rec'[j] = rec[j] /\ tree'[j] = tree[j]
        /\ cmd'[j] = cmd[j] /\ stage'[j] = stage[j] /\ astray'[j] = astray[j]
    BY <1>1, OthersStay
  <2>2. Now(j)' = Now(j)
    BY <2>1, SameNow
  <2>3. Follows(j)
    BY DEF FitInv
  <2>4. Current(j)'
    BY <2>1, <2>2, <2>3 DEF Follows, Current
  <2>5. Filling(j)'
    BY <2>1, <2>2, <2>3 DEF Follows, Filling, Good
  <2>6. Staging(j)'
    BY <2>1, <2>3 DEF Follows, Staging
  <2>7. Built(j)' => Fits(j)'
    <3>1. Built(j)' => Built(j)
      BY <2>1 DEF Built, Idle
    <3> QED
      BY <2>1, <2>2, <2>3, <3>1, SameFits DEF Follows
  <2> QED
    BY <2>4, <2>5, <2>6, <2>7 DEF Follows
<1> QED
  BY <1>1 DEF FitInv

LEMMA SameEntries ==
    ASSUME FitInv, store' = store
    PROVE  EntriesComplete'
  BY DEF FitInv, EntriesComplete, Wholes

LEMMA FitCommand ==
    ASSUME StateInv, FitInv, NEW i \in Instance, Command(i)
    PROVE  Follows(i)' /\ store' = store
<1>0. cmd \in [Instance -> Memory] /\ rec \in [Instance -> Record]
      /\ lock \in [Instance -> Lock \cup {Absent}]
  BY DEF StateInv, TypeOK
<1>1. ASSUME NEW c \in Memory, Go(i, c)
      PROVE  cmd'[i] = c
  BY <1>0, <1>1 DEF Go
<1>2. ASSUME NEW c \in Memory, c.step = "key", c.op # "prepare", c.key = NoKey, Go(i, c)
      PROVE  Follows(i)'
  <2>1. cmd'[i] = c
    BY <1>1, <1>2
  <2>2. Current(i)'
    BY <1>2, <2>1 DEF Current
  <2> QED
    BY <1>2, <2>1, <2>2, FollowsUnbuilt
<1>3. Follows(i)
  BY DEF FitInv
<1>4. ASSUME Idle(i), cmd'[i] = NoCmd, tree' = tree, astray' = astray,
             rec'[i].here = rec[i].here, rec'[i].status = rec[i].status,
             Present(i) => Now(i)' = Now(i)
      PROVE  Follows(i)'
  <2>1. ASSUME rec'[i].here, rec'[i].status = "ready", ~ astray'[i]
        PROVE  Fits(i)'
    <3>1. Fits(i)
      BY <1>3, <1>4, <2>1 DEF Follows, Built
    <3>2. Present(i)
      BY <3>1 DEF Present, Fits, Good
    <3> QED
      BY <1>4, <3>1, <3>2, SameFits
  <2> QED
    BY <1>4, <2>1, FollowsIdle
<1>5. CASE Spawn(i) \/ Bind(i)
  <2> DEFINE c == [NoCmd EXCEPT !.op = "bind", !.step = "key"]
  <2>1. Go(i, c) /\ store' = store
    BY <1>5 DEF Spawn, Bind, Begin
  <2>2. c \in Memory /\ c.step = "key" /\ c.op # "prepare" /\ c.key = NoKey
    BY DEF NoCmd, Memory, Keyed
  <2> HIDE DEF c
  <2> QED
    BY <1>2, <2>1, <2>2
<1>6. CASE Prepare(i)
  <2> DEFINE c == [NoCmd EXCEPT !.op = "prepare"]
  <2>1. c \in Memory /\ c.op # "none" /\ c.key = NoKey
    BY DEF NoCmd, Memory
  <2>2. Go(i, Running(i, c)) /\ UNCHANGED <<lock, rec, store>>
    BY <1>6 DEF Prepare, Begin, inputs
  <2> HIDE DEF c
  <2>3. /\ Running(i, c) \in Memory /\ Running(i, c).step = "running"
        /\ Running(i, c).sees = <<Now(i)>> /\ Running(i, c).key = NoKey
    BY <2>1, RunningType
  <2>4. cmd'[i] = Running(i, c)
    BY <1>1, <2>2, <2>3
  <2>5. Now(i)' = Now(i)
    BY <2>2, SameNow
  <2>6. Current(i)'
    BY <2>3, <2>4, <2>5 DEF Current
  <2> QED
    BY <2>2, <2>3, <2>4, <2>6, FollowsUnbuilt
<1>7. CASE Rebind(i)
  <2>1. PICK t \in Tracker :
          LET before == rec[i].dropped
              after == IF t \in before THEN before \ {t} ELSE before \cup {t} IN
          /\ Begin(i, IF Rebuilds(i, before, after)
                          THEN [NoCmd EXCEPT !.op = "rebind", !.step = "key"] ELSE NoCmd)
          /\ rec' = [rec EXCEPT ![i].dropped = after]
          /\ UNCHANGED <<lock, tree, parked, ckpt, store, stage, strays, astray>>
    BY <1>7 DEF Rebind
  <2> DEFINE after == IF t \in rec[i].dropped THEN rec[i].dropped \ {t}
                                              ELSE rec[i].dropped \cup {t}
  <2>2. CASE Rebuilds(i, rec[i].dropped, after)
    <3> DEFINE c == [NoCmd EXCEPT !.op = "rebind", !.step = "key"]
    <3>1. Go(i, c) /\ store' = store
      BY <2>1, <2>2 DEF Begin
    <3>2. c \in Memory /\ c.step = "key" /\ c.op # "prepare" /\ c.key = NoKey
      BY DEF NoCmd, Memory, Keyed
    <3> HIDE DEF c
    <3> QED
      BY <1>2, <3>1, <3>2
  <2>3. CASE ~ Rebuilds(i, rec[i].dropped, after)
    <3>1. Go(i, NoCmd) /\ Idle(i) /\ UNCHANGED <<lock, tree, astray, store>>
          /\ rec' = [rec EXCEPT ![i].dropped = after]
      BY <2>1, <2>3 DEF Begin
    <3> HIDE DEF after
    <3>2. /\ rec'[i].here = rec[i].here /\ rec'[i].status = rec[i].status
          /\ rec'[i].dropped = after
      BY <1>0, <3>1 DEF Record
    <3>3. Present(i) => Now(i)' = Now(i)
      <4> SUFFICES ASSUME Present(i) PROVE Sees(lock'[i], rec'[i].dropped) = Sees(lock[i], rec[i].dropped)
        BY DEF Now
      <4>1. InstallBinding(rec[i].dropped) = InstallBinding(after)
        BY <2>3 DEF Rebuilds
      <4> QED
        BY <3>1, <3>2, <4>1, ReachTells
    <3>4. cmd'[i] = NoCmd
      BY <1>1, <3>1, NoCmdType
    <3> QED
      BY <1>4, <3>1, <3>2, <3>3, <3>4
  <2> QED
    BY <2>2, <2>3
<1>8. CASE Undo(i)
  <2>1. PICK force \in BOOLEAN :
          /\ Begin(i, IF Skips(i, force) THEN NoCmd
                          ELSE [NoCmd EXCEPT !.op = "undo", !.step = "key", !.force = force])
          /\ lock' = [lock EXCEPT ![i] = ckpt[i][1]]
          /\ rec' = [rec EXCEPT ![i].dropped = ckpt[i][2]]
          /\ UNCHANGED <<tree, parked, ckpt, store, stage, strays, astray>>
    BY <1>8, Zenon DEF Undo
  <2>2. CASE ~ Skips(i, force)
    <3> DEFINE c == [NoCmd EXCEPT !.op = "undo", !.step = "key", !.force = force]
    <3>1. Go(i, c) /\ store' = store
      BY <2>1, <2>2 DEF Begin
    <3>2. c \in Memory /\ c.step = "key" /\ c.op # "prepare" /\ c.key = NoKey
      BY DEF NoCmd, Memory, Keyed
    <3> HIDE DEF c
    <3> QED
      BY <1>2, <3>1, <3>2
  <2>3. CASE Skips(i, force)
    <3>1. Go(i, NoCmd) /\ Idle(i) /\ UNCHANGED <<tree, astray, store>>
          /\ lock' = [lock EXCEPT ![i] = ckpt[i][1]]
          /\ rec' = [rec EXCEPT ![i].dropped = ckpt[i][2]]
      BY <2>1, <2>3 DEF Begin
    <3>2. /\ rec'[i].here = rec[i].here /\ rec'[i].status = rec[i].status
          /\ rec'[i].dropped = ckpt[i][2] /\ lock'[i] = ckpt[i][1]
      BY <1>0, <3>1 DEF Record
    <3>3. Now(i)' = Now(i)
      <4> SUFFICES Sees(lock'[i], rec'[i].dropped) = Sees(lock[i], rec[i].dropped)
        BY DEF Now
      <4>1. InstallBinding(rec[i].dropped) = InstallBinding(ckpt[i][2]) /\ lock[i] = ckpt[i][1]
        BY <2>3 DEF Skips, SkipsOnLock
      <4> QED
        BY <3>2, <4>1, ReachTells
    <3>4. cmd'[i] = NoCmd
      BY <1>1, <3>1, NoCmdType
    <3> QED
      BY <1>4, <3>1, <3>2, <3>3, <3>4
  <2> QED
    BY <2>2, <2>3
<1>9. CASE Remove(i)
  <2>1. cmd'[i] = NoCmd /\ store' = store
    BY <1>9 DEF Remove, Idle
  <2>2. ~ rec'[i].here
    BY <1>0, <1>9 DEF Remove
  <2> QED
    BY <2>1, <2>2, FollowsIdle
<1> QED
  BY <1>5, <1>6, <1>7, <1>8, <1>9 DEF Command

\* What a command knows of its own instance.
LEMMA FollowsOf ==
    ASSUME StateInv, FitInv, NEW i \in Instance
    PROVE  /\ cmd[i].key # NoKey => /\ lock[i] # Absent /\ cmd[i].key = KeyFor(Now(i))
                                    /\ cmd[i].key = IdentityKey(lock[i], rec[i].dropped)
           /\ cmd[i].step = "running" => cmd[i].sees = <<Now(i)>>
           /\ Filling(i) /\ Staging(i) /\ (Built(i) => Fits(i))
  BY NowSeen DEF FitInv, Follows, Current

\* An entry found under the key of what is there now holds what is asked for.
LEMMA EntryFits ==
    ASSUME StateInv, FitInv, NEW i \in Instance, cmd[i].key \in Key, store[cmd[i].key] # NoDir,
           NEW p \in Path
    PROVE  Good(i, store[cmd[i].key][p])
<1> DEFINE t == store[cmd[i].key][p]
<1>1. t # NoTree /\ t.whole /\ KeyFor(t.of) = cmd[i].key
  BY DEF FitInv, EntriesComplete, Wholes, KeyFor
<1>2. store[cmd[i].key] \in Dir
  BY DEF StateInv, TypeOK
<1>3. t \in Tree
  BY <1>1, <1>2, Trees
<1>4. t.of \in Seen
  BY <1>3 DEF Tree
<1>5. cmd[i].key = KeyFor(Now(i)) /\ Now(i) \in Seen
  BY Keys, FollowsOf, NowSeen
<1>6. t.of = Now(i)
  BY <1>1, <1>4, <1>5, KeyTells
<1> QED
  BY <1>1, <1>6 DEF Good

LEMMA FitFill ==
    ASSUME StateInv, HomeInv, FitInv, NEW i \in Instance, Fill(i)
    PROVE  Follows(i)' /\ EntriesComplete'
<1>0. /\ cmd \in [Instance -> Memory] /\ tree \in [Instance -> Dir]
      /\ store \in [Key -> Dir \cup {NoDir}] /\ rec \in [Instance -> Record]
      /\ cmd[i] \in Memory
  BY DEF StateInv, TypeOK
<1>1. ASSUME NEW c \in Memory, Go(i, c)
      PROVE  cmd'[i] = c
  BY <1>0, <1>1 DEF Go
<1>2. \A s \in Keyed : At(i, s) => /\ cmd[i].step = s /\ cmd[i].op # "none"
                                  /\ cmd[i].key \in Key /\ cmd[i].key # NoKey
  BY Fields, Keys DEF At, Keyed, Phase
<1>3. ASSUME cmd[i].op # "none", Go(i, Running(i, cmd[i])), lock' = lock, rec' = rec
      PROVE  Follows(i)'
  <2>1. /\ Running(i, cmd[i]) \in Memory /\ Running(i, cmd[i]).step = "running"
        /\ Running(i, cmd[i]).sees = <<Now(i)>> /\ Running(i, cmd[i]).key = cmd[i].key
    BY <1>0, <1>3, RunningType
  <2>2. cmd'[i] = Running(i, cmd[i])
    BY <1>1, <1>3, <2>1
  <2>3. Now(i)' = Now(i)
    BY <1>3, SameNow
  <2>4. Current(i)'
    BY <1>3, <2>1, <2>2, <2>3, FollowsOf DEF Current
  <2> QED
    BY <2>1, <2>2, <2>4, FollowsUnbuilt
<1>4. CASE ComputeKey(i)
  <2>1. UNCHANGED <<lock, ckpt, gc, rec, tree, parked, store, stage, strays, astray>>
    BY <1>4, Zenon DEF ComputeKey
  <2>2. cmd[i].step = "key"
    BY <1>4, Zenon DEF ComputeKey, At
  <2>3. PICK d \in Memory :
          /\ Go(i, d)
          /\ d.key # NoKey => /\ lock[i] # Absent
                              /\ d.key = IdentityKey(lock[i], rec[i].dropped)
          /\ \/ d = NoCmd /\ cmd[i].op = "prepare"
             \/ d.step = "admit" /\ cmd[i].op = "prepare"
             \/ d.step = "running" /\ d.sees = <<Now(i)>>
             \/ d.step \in {"forget", "lookup"}
          /\ Phase(d)
    BY <1>4, ComputeKeyTo
  <2>4. cmd'[i] = d
    BY <1>1, <2>3
  <2>5. Now(i)' = Now(i)
    BY <2>1, SameNow
  <2>6. d # NoCmd => Current(i)'
    BY <2>1, <2>3, <2>4, <2>5 DEF Current
  <2>7. cmd[i].op = "prepare" => Fits(i)'
    <3>1. cmd[i].op = "prepare" => Fits(i)
      BY <2>2, FollowsOf DEF Built
    <3> QED
      BY <2>1, <2>5, <3>1, SameFits
  <2>8. d.step \in {"forget", "lookup"} => d.op # "prepare"
    BY <2>3 DEF Phase
  <2>9. d.step # "idle" => d # NoCmd
    BY NoCmdType
  <2>10. Follows(i)'
    <3>1. CASE d = NoCmd /\ cmd[i].op = "prepare"
      BY <2>4, <2>7, <3>1, FollowsIdle
    <3>2. CASE d.step = "admit" /\ cmd[i].op = "prepare"
      BY <2>4, <2>6, <2>7, <2>9, <3>2, FollowsBuilt
    <3>3. CASE d.step = "running"
      BY <2>4, <2>6, <2>9, <3>3, FollowsUnbuilt
    <3>4. CASE d.step \in {"forget", "lookup"}
      BY <2>4, <2>6, <2>8, <2>9, <3>4, FollowsUnbuilt
    <3> QED
      BY <2>3, <3>1, <3>2, <3>3, <3>4
  <2> QED
    BY <2>1, <2>10, SameEntries
<1>5. CASE ForgetEntry(i)
  <2>1. cmd[i].op # "none" /\ cmd[i].key \in Key
    BY <1>2, <1>5 DEF ForgetEntry, Keyed
  <2>2. Follows(i)'
    BY <1>3, <1>5, <2>1 DEF ForgetEntry, work
  <2>3. store' = [store EXCEPT ![cmd[i].key] = NoDir]
    BY <1>5 DEF ForgetEntry
  <2>4. \A k \in Key : store'[k] # NoDir => store'[k] = store[k]
    BY <1>0, <2>3
  <2>5. EntriesComplete'
    BY <2>4 DEF FitInv, EntriesComplete, Wholes
  <2> QED
    BY <2>2, <2>5
<1>6. CASE Lookup(i)
  <2> DEFINE c == [cmd[i] EXCEPT !.step = "copy", !.n = 1, !.aside = Aside(i)]
  <2>1. cmd[i].op # "none" /\ UNCHANGED <<lock, rec, store>>
    BY <1>2, <1>6 DEF Lookup, Keyed, work
  <2>2. c \in Memory /\ c.step = "copy" /\ c.n = 1 /\ c.key = cmd[i].key
        /\ c.op = cmd[i].op
    <3>1. Aside(i) \in SUBSET Path
      BY DEF Aside
    <3> HIDE DEF Path
    <3> QED
      BY <1>0, <3>1 DEF Memory, Keyed
  <2>3. Go(i, Running(i, cmd[i])) \/ Go(i, c)
    BY <1>6 DEF Lookup
  <2> HIDE DEF c
  <2>4. ASSUME Go(i, c)
        PROVE  Follows(i)'
    <3>1. cmd'[i] = c
      BY <1>1, <2>2, <2>4
    <3>2. Current(i)'
      BY <2>1, <2>2, <3>1, FollowsOf DEF Current
    <3>3. Filling(i)' /\ Staging(i)' /\ ~ Built(i)'
      BY <2>2, <3>1, NoCmdType DEF Filling, Staging, Built, Idle
    <3> QED
      BY <3>2, <3>3 DEF Follows
  <2> QED
    BY <1>3, <2>1, <2>3, <2>4, SameEntries
<1>7. CASE CopyIn(i)
  <2> DEFINE n == cmd[i].n
             p == Produces[n]
             t == store[cmd[i].key][p]
             c == [cmd[i] EXCEPT !.step = "render"]
             d == [cmd[i] EXCEPT !.n = n + 1]
  <2>1. cmd[i].step = "copy" /\ cmd[i].key \in Key /\ n \in DOMAIN Produces
        /\ cmd[i].op # "prepare" /\ p \in Path /\ store[cmd[i].key] # NoDir
    BY <1>2, <1>7, Fields, Paths DEF CopyIn, Phase, Keyed
  <2>2. Good(i, t)
    BY <2>1, EntryFits
  <2>3. \A m \in 1 .. n - 1 : Good(i, tree[i][Produces[m]])
    BY <2>1, FollowsOf DEF Filling
  <2>4. UNCHANGED <<lock, rec, store>> /\ tree' = [tree EXCEPT ![i][p] = t]
    BY <1>7 DEF CopyIn, work
  <2>5. (n = Len(Produces) /\ Go(i, c)) \/ (n # Len(Produces) /\ Go(i, d))
    BY <1>7 DEF CopyIn
  <2>6. /\ c \in Memory /\ c.step = "render" /\ c.key = cmd[i].key /\ c.op = cmd[i].op
        /\ d \in Memory /\ d.step = "copy" /\ d.n = n + 1 /\ d.key = cmd[i].key
        /\ d.op = cmd[i].op
    <3>1. c \in Memory /\ c.step = "render" /\ c.key = cmd[i].key /\ c.op = cmd[i].op
      BY <1>0 DEF Memory, Keyed
    <3>2. n + 1 \in Nat
      BY <1>0 DEF Memory
    <3>3. d \in Memory /\ d.step = cmd[i].step /\ d.n = n + 1 /\ d.key = cmd[i].key
          /\ d.op = cmd[i].op
      BY <1>0, <3>2 DEF Memory
    <3> HIDE DEF c, d
    <3> QED
      BY <2>1, <3>1, <3>3
  <2> HIDE DEF t, p, c, d
  <2>7. Now(i)' = Now(i)
    BY <2>4, SameNow
  <2>8. tree'[i][p] = t /\ \A q \in Path \ {p} : tree'[i][q] = tree[i][q]
    BY <1>0, <2>1, <2>4 DEF Dir
  <2>9. \A m \in 1 .. n : Good(i, tree'[i][Produces[m]])
    <3> TAKE m \in 1 .. n
    <3>1. Produces[m] \in Path /\ (m # n => m \in 1 .. n - 1)
      BY <2>1, Paths
    <3>2. CASE Produces[m] = p
      BY <2>2, <2>8, <3>2
    <3>3. CASE Produces[m] # p
      <4>1. m # n
        BY <3>3 DEF p
      <4> QED
        BY <2>3, <2>8, <3>1, <3>3, <4>1
    <3> QED
      BY <3>2, <3>3
  <2>11. \A m \in 1 .. n : Good(i, tree[i][Produces[m]])'
    BY <2>7, <2>9 DEF Good
  <2>12. Follows(i)'
    <3>1. CASE n = Len(Produces) /\ Go(i, c)
      <4>1. cmd'[i] = c
        BY <1>1, <2>6, <3>1
      <4>2. Current(i)'
        BY <2>4, <2>6, <4>1, FollowsOf DEF Current
      <4>3. \A q \in Path : Good(i, tree[i][q])'
        <5> TAKE q \in Path
        <5>1. PICK m \in DOMAIN Produces : Produces[m] = q
          BY Paths
        <5>2. m \in 1 .. n
          BY <3>1, <5>1, Paths
        <5> QED
          BY <2>11, <5>1, <5>2
      <4>4. Filling(i)' /\ Staging(i)' /\ ~ Built(i)'
        BY <2>1, <2>6, <4>1, <4>3, NoCmdType DEF Filling, Staging, Built, Idle
      <4> QED
        BY <4>2, <4>4 DEF Follows
    <3>2. CASE Go(i, d)
      <4>1. cmd'[i] = d
        BY <1>1, <2>6, <3>2
      <4>2. Current(i)'
        BY <2>4, <2>6, <4>1, FollowsOf DEF Current
      <4>3. cmd'[i].n - 1 = n
        BY <2>1, <2>6, <4>1, Paths
      <4>4. Filling(i)' /\ Staging(i)' /\ ~ Built(i)'
        BY <2>1, <2>6, <2>11, <4>1, <4>3, NoCmdType DEF Filling, Staging, Built, Idle
      <4> QED
        BY <4>2, <4>4 DEF Follows
    <3> QED
      BY <2>5, <3>1, <3>2
  <2> QED
    BY <2>4, <2>12, SameEntries
<1>8. CASE CopyFails(i)
  <2>1. cmd[i].op # "none" /\ UNCHANGED <<lock, rec, store>> /\ Go(i, Running(i, cmd[i]))
    BY <1>2, <1>8 DEF CopyFails, Keyed
  <2> QED
    BY <1>3, <2>1, SameEntries
<1>9. CASE Filled(i)
  <2> DEFINE t == tree[i][RenderAt]
             h == IF t.home = Find THEN i ELSE t.home
             u == [t EXCEPT !.home = h]
  <2>1. cmd[i].step = "render" /\ RenderAt \in Path /\ i # Find
    BY <1>2, <1>9, InstallAssumption DEF Filled, Keyed
  <2>2. \A p \in Path : Good(i, tree[i][p])
    BY <2>1, FollowsOf DEF Filling
  <2>3. t \in Tree
    BY <1>0, <2>1, <2>2, Trees DEF Good
  <2>4. tree' = [tree EXCEPT ![i][RenderAt] = u] /\ UNCHANGED <<lock, store>>
        /\ Go(i, NoCmd) /\ Status(i, "ready")
    BY <1>0, <1>9, <2>1 DEF Filled, Done, work, Dir
  <2>5. u # NoTree /\ u.whole /\ u.of = Now(i) /\ u.home # Find
    <3>1. u \in Tree /\ u.home = h /\ u.of = t.of /\ u.whole = t.whole
      <4>1. h \in Places
        BY <2>3 DEF Tree, Places
      <4> HIDE DEF h, t, Places
      <4> QED
        BY <2>3, <4>1 DEF Tree
    <3>2. Good(i, t)
      BY <2>1, <2>2
    <3>3. h # Find
      BY <2>1
    <3> HIDE DEF u, h, t
    <3> QED
      BY <3>1, <3>2, <3>3, Trees DEF Good
  <2> HIDE DEF u
  <2>6. tree'[i][RenderAt] = u /\ \A q \in Path \ {RenderAt} : tree'[i][q] = tree[i][q]
    BY <1>0, <2>1, <2>4 DEF Dir
  <2>7. Now(i)' = Now(i)
    <3>1. rec'[i].dropped = rec[i].dropped
      BY <2>4, StatusType
    <3> QED
      BY <2>4, <3>1, SameNow
  <2>8. Fits(i)'
    <3> SUFFICES ASSUME NEW q \in Path
                 PROVE  Good(i, tree[i][q])' /\ tree'[i][q].home # Find
      BY DEF Fits
    <3>1. CASE q = RenderAt
      BY <2>5, <2>6, <2>7, <3>1 DEF Good
    <3>2. CASE q # RenderAt
      <4>1. tree[i][q].home = Nobody
        BY <2>2, <3>2, HomeOf DEF Own, Good
      <4>2. Nobody # Find
        BY DEF Nobody, Find
      <4> QED
        BY <2>2, <2>6, <2>7, <3>2, <4>1, <4>2 DEF Good
    <3> QED
      BY <3>1, <3>2
  <2>9. cmd'[i] = NoCmd
    BY <1>1, <2>4, NoCmdType
  <2> QED
    BY <2>4, <2>8, <2>9, FollowsIdle, SameEntries
<1> QED
  BY <1>4, <1>5, <1>6, <1>7, <1>8, <1>9 DEF Fill

LEMMA BuiltFits ==
    ASSUME NEW i \in Instance, NEW s \in Seen, NEW spot \in Spots \cup {"nowhere"}, NEW p \in Path
    PROVE  LET t == Build(i, s, spot)[p] IN
           t # NoTree /\ t.of = s /\ t.whole /\ t.home # Find
<1> DEFINE t == Build(i, s, spot)[p]
<1>1. t.of = s
  BY DEF Build
<1>2. t.whole
  BY DEF Build
<1>3. t.home = IF p = RenderAt THEN i ELSE Nobody
  BY DEF Build
<1>4. i # Find /\ Nobody # Find
  BY InstallAssumption DEF Nobody, Find
<1>5. Build(i, s, spot) \in [Path -> Tree]
  BY Building, Zenon
<1>6. t # NoTree
  BY <1>5, Trees
<1> HIDE DEF t
<1>7. t.home # Find
  BY <1>3, <1>4
<1> QED
  BY <1>1, <1>2, <1>6, <1>7 DEF t

LEMMA FitInstall ==
    ASSUME StateInv, FitInv, NEW i \in Instance, Install(i)
    PROVE  Follows(i)' /\ EntriesComplete'
<1>0. /\ cmd \in [Instance -> Memory] /\ tree \in [Instance -> Dir]
      /\ rec \in [Instance -> Record] /\ cmd[i] \in Memory
  BY DEF StateInv, TypeOK
<1>1. CASE Installed(i)
  <2>1. cmd[i].step = "running" /\ cmd[i].op # "none" /\ cmd[i].sees[1] \in Seen
    BY <1>1, InstalledTree
  <2>2. cmd[i].sees[1] = Now(i)
    BY <2>1, FollowsOf
  <2>3. PICK spot \in Spots \cup {"nowhere"} :
            tree' = [tree EXCEPT ![i] = Build(i, cmd[i].sees[1], spot)]
    BY <1>1, InstalledTree
  <2> DEFINE b == Build(i, cmd[i].sees[1], spot)
  <2>4. \A p \in Path : b[p] # NoTree /\ b[p].of = Now(i) /\ b[p].whole /\ b[p].home # Find
    <3> TAKE p \in Path
    <3>1. LET t == Build(i, cmd[i].sees[1], spot)[p] IN
          t # NoTree /\ t.of = cmd[i].sees[1] /\ t.whole /\ t.home # Find
      BY <2>1, BuiltFits
    <3> QED
      BY <2>2, <3>1
  <2> HIDE DEF b
  <2>6. tree'[i] = b
    BY <1>0, <2>3 DEF b
  <2>7. UNCHANGED <<lock, store>> /\ rec'[i].dropped = rec[i].dropped
    <3>1. UNCHANGED <<lock, store>>
      BY <1>1 DEF Installed, work
    <3>2. UNCHANGED rec \/ Status(i, "ready")
      BY <1>1 DEF Installed, Done
    <3> QED
      BY <3>1, <3>2, StatusType
  <2>8. Now(i)' = Now(i)
    BY <2>7, SameNow
  <2>9. Fits(i)'
    BY <2>4, <2>6, <2>8 DEF Fits, Good
  <2> DEFINE d == [cmd[i] EXCEPT !.step = "key"]
             e == [cmd[i] EXCEPT !.step = "admit"]
  <2>10. Go(i, d) \/ Go(i, e) \/ Go(i, NoCmd)
    <3>1. CASE cmd[i].op = "prepare"
      BY <1>1, <3>1 DEF Installed
    <3>2. CASE cmd[i].op # "prepare" /\ cmd[i].key = NoKey
      BY <1>1, <3>2 DEF Installed, Done
    <3>3. CASE cmd[i].op # "prepare" /\ cmd[i].key # NoKey
      BY <1>1, <3>3 DEF Installed
    <3> QED
      BY <3>1, <3>2, <3>3
  <2>11. d.step = "key" /\ d.key = cmd[i].key /\ e.step = "admit" /\ e.key = cmd[i].key
    BY <1>0 DEF Memory
  <2> HIDE DEF d, e
  <2>12. ASSUME NEW c, c.key = cmd[i].key, c.step \in {"key", "admit"}, Go(i, c)
         PROVE  Follows(i)'
    <3>1. cmd'[i] = c
      BY <1>0, <2>12 DEF Go
    <3>2. Current(i)'
      BY <2>7, <2>12, <3>1, FollowsOf DEF Current
    <3> QED
      BY <2>9, <2>12, <3>1, <3>2, FollowsBuilt
  <2>13. ASSUME Go(i, NoCmd)
         PROVE  Follows(i)'
    <3>1. cmd'[i] = NoCmd
      BY <1>0, <2>13 DEF Go
    <3> QED
      BY <2>9, <3>1, FollowsIdle
  <2> QED
    BY <2>7, <2>10, <2>11, <2>12, <2>13, SameEntries
<1>2. CASE InstallFails(i)
  <2>1. Go(i, NoCmd) /\ Status(i, "failed") /\ store' = store
    BY <1>2 DEF InstallFails, Done
  <2>2. cmd'[i] = NoCmd /\ rec'[i].status # "ready"
    BY <1>0, <2>1, StatusType DEF Go
  <2> QED
    BY <2>1, <2>2, FollowsIdle, SameEntries
<1> QED
  BY <1>1, <1>2 DEF Install

LEMMA FitStore ==
    ASSUME StateInv, FitInv, NEW i \in Instance, Store(i)
    PROVE  Follows(i)' /\ EntriesComplete'
<1>0. /\ cmd \in [Instance -> Memory] /\ tree \in [Instance -> Dir]
      /\ stage \in [Instance -> Dir \cup {NoDir}] /\ store \in [Key -> Dir \cup {NoDir}]
      /\ cmd[i] \in Memory
  BY DEF StateInv, TypeOK
<1>1. /\ Fits(i) /\ cmd[i].key \in Key /\ cmd[i].step \in {"admit", "stage", "publish"}
      /\ UNCHANGED <<lock, tree, astray>>
  <2>1. cmd[i].step \in {"admit", "stage", "publish"}
    BY DEF Store, Admit, StageCopy, StageFails, Publish, At
  <2>2. cmd[i].key \in Key
    BY <2>1, Fields DEF Phase, Keyed
  <2>3. Fits(i)
    BY <2>1, FollowsOf DEF Built
  <2> QED
    BY <2>1, <2>2, <2>3 DEF Store, Admit, StageCopy, StageFails, Publish, work
<1>2. ASSUME Done(i, "ready")
      PROVE  Follows(i)'
  <2>1. Go(i, NoCmd) /\ Status(i, "ready")
    BY <1>2 DEF Done
  <2>2. cmd'[i] = NoCmd /\ rec'[i].dropped = rec[i].dropped
    BY <1>0, <2>1, StatusType DEF Go
  <2>3. Fits(i)'
    BY <1>1, <2>2, SameNow, SameFits
  <2> QED
    BY <2>2, <2>3, FollowsIdle
<1>3. CASE Admit(i)
  <2> DEFINE d == [cmd[i] EXCEPT !.step = "stage", !.n = 1]
  <2>1. store' = store
    BY <1>3 DEF Admit
  <2>2. Done(i, "ready") \/ (Go(i, d) /\ UNCHANGED rec)
    BY <1>3 DEF Admit
  <2>3. d.step = "stage" /\ d.n = 1 /\ d.key = cmd[i].key
    BY <1>0 DEF Memory
  <2> HIDE DEF d
  <2>4. ASSUME Go(i, d), UNCHANGED rec
        PROVE  Follows(i)'
    <3>1. cmd'[i] = d
      BY <1>0, <2>4 DEF Go
    <3>2. Current(i)'
      BY <1>1, <2>3, <2>4, <3>1, FollowsOf DEF Current
    <3>3. Filling(i)' /\ Staging(i)'
      BY <2>3, <3>1 DEF Filling, Staging
    <3>4. Fits(i)'
      BY <1>1, <2>4, SameNow, SameFits
    <3> QED
      BY <3>2, <3>3, <3>4 DEF Follows
  <2> QED
    BY <1>2, <2>1, <2>2, <2>4, SameEntries
<1>4. CASE StageCopy(i)
  <2> DEFINE n == cmd[i].n
             p == Produces[n]
             t == tree[i][p]
             v == Adding(stage[i], p, t)
  <2>1. At(i, "stage") /\ cmd[i].step = "stage" /\ n \in DOMAIN Produces
    BY <1>4, Fields DEF StageCopy, At, Phase
  <2>2. p \in Path /\ t \in Tree \cup {NoTree} /\ stage[i] \in Dir \cup {NoDir}
    <3>1. p \in Path
      BY <2>1, Paths
    <3> QED
      BY <1>0, <3>1, Trees
  <2>3. v \in Dir /\ v[p] = t
        /\ \A q \in Path \ {p} : v[q] = IF stage[i] = NoDir THEN NoTree ELSE stage[i][q]
    BY <2>2, AddingType
  <2>4. stage' = [stage EXCEPT ![i] = v] /\ Staged(i) /\ UNCHANGED <<rec, store>>
    BY <1>4 DEF StageCopy
  <2>5. \A m \in 1 .. n - 1 : stage[i] # NoDir /\ stage[i][Produces[m]] = tree[i][Produces[m]]
    BY <2>1, FollowsOf DEF Staging
  <2> HIDE DEF v
  <2>6. stage'[i] = v
    BY <1>0, <2>4
  <2>7. \A m \in 1 .. n : v[Produces[m]] = tree[i][Produces[m]]
    <3> TAKE m \in 1 .. n
    <3>1. CASE Produces[m] = p
      BY <2>3, <3>1
    <3>2. CASE Produces[m] # p
      <4>1. m \in 1 .. n - 1 /\ Produces[m] \in Path
        BY <2>1, <3>2, Paths
      <4> QED
        BY <2>3, <2>5, <3>2, <4>1
    <3> QED
      BY <3>1, <3>2
  <2>8. v # NoDir
    BY <2>3, Trees
  <2>9. /\ cmd'[i].key = cmd[i].key
        /\ \/ cmd'[i].step = "publish" /\ n = Len(Produces)
           \/ cmd'[i].step = "stage" /\ cmd'[i].n = n + 1
    BY <2>1, <2>4, StagedType
  <2>10. Staging(i)'
    <3>1. CASE cmd'[i].step = "publish" /\ n = Len(Produces)
      <4>1. \A q \in Path : v[q] = tree[i][q]
        <5> TAKE q \in Path
        <5>1. PICK m \in DOMAIN Produces : Produces[m] = q
          BY Paths
        <5>2. m \in 1 .. n
          BY <3>1, <5>1, Paths
        <5> QED
          BY <2>7, <5>1, <5>2
      <4> QED
        BY <1>1, <2>6, <2>8, <3>1, <4>1 DEF Staging
    <3>2. CASE cmd'[i].step = "stage" /\ cmd'[i].n = n + 1
      <4>1. cmd'[i].n - 1 = n
        BY <2>1, <3>2, Paths
      <4> QED
        BY <1>1, <2>6, <2>7, <2>8, <3>2, <4>1 DEF Staging
    <3> QED
      BY <2>9, <3>1, <3>2
  <2>11. Current(i)' /\ Filling(i)'
    BY <1>1, <2>4, <2>9, FollowsOf DEF Current, Filling
  <2>12. Fits(i)'
    BY <1>1, <2>4, SameNow, SameFits
  <2> QED
    BY <2>4, <2>10, <2>11, <2>12, SameEntries DEF Follows
<1>5. CASE StageFails(i)
  <2>1. Done(i, "ready") /\ store' = store
    BY <1>5 DEF StageFails
  <2> QED
    BY <1>2, <2>1, SameEntries
<1>6. CASE Publish(i)
  <2>1. Done(i, "ready") /\ cmd[i].step = "publish"
    BY <1>6 DEF Publish, At
  <2>2. (Publishable(i) /\ store' = [store EXCEPT ![cmd[i].key] = Reversed(i)]) \/ store' = store
    BY <1>6 DEF Publish
  <2>3. CASE Publishable(i) /\ store' = [store EXCEPT ![cmd[i].key] = Reversed(i)]
    <3> DEFINE t == stage[i][RenderAt]
               h == IF t.home = i THEN Find ELSE t.home
               u == [t EXCEPT !.home = h]
               r == Reversed(i)
    <3>1. stage[i] \in Dir /\ RenderAt \in Path /\ t # NoTree /\ stage[i] # NoDir
      BY <1>0, <2>3, Trees, InstallAssumption DEF Publishable, PublishableUnread
    <3>2. t \in Tree
      BY <3>1, Trees
    <3>3. r = [stage[i] EXCEPT ![RenderAt] = u]
      BY <3>1 DEF Reversed, Dir
    <3>4. u \in Tree /\ u.of = t.of /\ u.whole = t.whole
      <4>1. h \in Places
        BY <3>2 DEF Tree, Places
      <4> HIDE DEF h, t, Places
      <4> QED
        BY <3>2, <4>1 DEF Tree
    <3>5. \A q \in Path : Good(i, stage[i][q])
      BY <1>1, <2>1, FollowsOf DEF Staging, Fits
    <3> HIDE DEF u, h, r
    <3>6. \A q \in Path : Good(i, r[q])
      <4> TAKE q \in Path
      <4>1. CASE q = RenderAt
        <5>1. r[q] = u /\ Good(i, t) /\ u # NoTree
          BY <3>1, <3>3, <3>4, <3>5, <4>1, Trees DEF Dir
        <5> QED
          BY <3>4, <5>1 DEF Good
      <4>2. CASE q # RenderAt
        <5>1. r[q] = stage[i][q]
          BY <3>1, <3>3, <4>2 DEF Dir
        <5> QED
          BY <3>5, <5>1
      <4> QED
        BY <4>1, <4>2
    <3>7. cmd[i].key = KeyFor(Now(i))
      BY <1>1, Keys, FollowsOf
    <3>8. /\ Wholes(r)
          /\ \A q \in Path : KeyFor(r[q].of) = cmd[i].key
      BY <3>6, <3>7 DEF Wholes, Good
    <3>9. store' = [store EXCEPT ![cmd[i].key] = r]
      BY <2>3 DEF r
    <3>10. ASSUME NEW k \in Key, store'[k] # NoDir
           PROVE  Wholes(store'[k]) /\ \A q \in Path : KeyFor(store'[k][q].of) = k
      <4>1. CASE k = cmd[i].key
        <5>1. store'[k] = r
          BY <1>0, <3>9, <4>1
        <5> QED
          BY <3>8, <4>1, <5>1
      <4>2. CASE k # cmd[i].key
        <5>1. store'[k] = store[k]
          BY <1>0, <3>9, <4>2
        <5> QED
          BY <3>10, <5>1 DEF FitInv, EntriesComplete, KeyFor
      <4> QED
        BY <4>1, <4>2
    <3>11. EntriesComplete'
      BY <3>10 DEF EntriesComplete, KeyFor, Wholes
    <3> QED
      BY <1>2, <2>1, <3>11
  <2> QED
    BY <1>2, <2>1, <2>2, <2>3, SameEntries
<1> QED
  BY <1>3, <1>4, <1>5, <1>6 DEF Store

LEMMA FitStep ==
    ASSUME Steady, StateInv, HomeInv, FitInv, [Next]_vars
    PROVE  FitInv'
<1>0. ASSUME UNCHANGED <<lock, rec, tree, cmd, stage, astray>>, EntriesComplete'
      PROVE  FitInv'
  <2>1. ASSUME NEW j \in Instance
        PROVE  Follows(j)'
    <3>1. Follows(j)
      BY DEF FitInv
    <3> QED
      BY <1>0, <3>1 DEF Follows, Current, Filling, Staging, Built, Fits, Good, Now, Idle
  <2> QED
    BY <1>0, <2>1 DEF FitInv
<1>1. CASE UNCHANGED vars
  BY <1>0, <1>1, SameEntries DEF vars
<1>2. ASSUME NEW i \in Instance, Command(i) \/ Fill(i) \/ Install(i) \/ Store(i)
      PROVE  FitInv'
  <2>1. Follows(i)' /\ EntriesComplete'
    BY <1>2, FitCommand, FitFill, FitInstall, FitStore, SameEntries
  <2> QED
    BY <1>2, <2>1, FitFrame DEF Act
<1>3. ASSUME NEW i \in Instance, Touch(i)
      PROVE  FitInv'
  <2>1. Idle(i) /\ cmd' = cmd /\ store' = store /\ astray'[i]
    BY <1>3 DEF Touch, Steady, StateInv, TypeOK
  <2>2. cmd'[i] = NoCmd
    BY <2>1 DEF Idle
  <2> QED
    BY <1>3, <2>1, <2>2, FollowsIdle, FitFrame, SameEntries DEF Act
<1>4. ASSUME NEW i \in Instance, Kill(i)
      PROVE  FitInv'
  <2>1. cmd'[i] = NoCmd /\ store' = store /\ astray'[i]
    BY <1>4 DEF Kill, Go, StateInv, TypeOK
  <2> QED
    BY <1>4, <2>1, FollowsIdle, FitFrame, SameEntries DEF Act
<1>5. ASSUME NEW i \in Instance, GcKey(i) \/ Checkpoint(i)
      PROVE  FitInv'
  <2>1. UNCHANGED <<lock, rec, tree, cmd, store, stage, astray>>
    BY <1>5, GcKeyTo DEF Checkpoint, inputs
  <2> QED
    BY <1>0, <2>1, SameEntries
<1>6. CASE Cleanup
  <2>1. UNCHANGED <<lock, rec, tree, cmd, astray>>
    BY <1>6 DEF Cleanup, GcStart, GcSweep, GcRemove, GcEnd, KillCleanup, instances, inputs
  <2>2. stage' = stage
    <3>1. CASE GcSweep
      BY <3>1 DEF GcSweep, Steady, StateInv, TypeOK
    <3> QED
      BY <1>6, <3>1 DEF Cleanup, GcStart, GcRemove, GcEnd, KillCleanup
  <2>3. EntriesComplete'
    <3>1. CASE GcRemove
      <4>1. PICK k \in Garbage, p \in Path :
              store' = [store EXCEPT ![k] = IF CutFirst(k) THEN CutAt(k, p) ELSE NoDir]
        BY <3>1 DEF GcRemove
      <4>2. ~ CutFirst(k)
        BY DEF Steady, CutFirst
      <4>3. \A q \in Key : store'[q] # NoDir => store'[q] = store[q]
        BY <4>1, <4>2 DEF StateInv, TypeOK
      <4> QED
        BY <4>3 DEF FitInv, EntriesComplete, Wholes
    <3>2. CASE store' = store
      BY <3>2, SameEntries
    <3> QED
      BY <1>6, <3>1, <3>2 DEF Cleanup, GcStart, GcSweep, GcEnd, KillCleanup
  <2> QED
    BY <1>0, <2>1, <2>2, <2>3
<1> QED
  BY <1>1, <1>2, <1>3, <1>4, <1>5, <1>6 DEF Next

LEMMA FitAlways ==
    ASSUME Steady
    PROVE  Spec => [](StateInv /\ FitInv)
<1>1. Init => HomeInv /\ FitInv
  <2> SUFFICES ASSUME Init PROVE HomeInv /\ FitInv
    OBVIOUS
  <2>1. HomeInv
    BY Names, NoCmdType DEF Init, HomeInv, NamesSelf
  <2>2. \A i \in Instance : cmd[i] = NoCmd /\ rec[i].status # "ready"
    BY DEF Init
  <2>3. \A i \in Instance : Follows(i)
    BY <2>2, NoCmdType DEF Follows, Current, Filling, Staging, Built
  <2>4. EntriesComplete
    BY DEF Init, EntriesComplete
  <2> QED
    BY <2>1, <2>3, <2>4 DEF FitInv
<1>2. StateInv /\ HomeInv /\ [Next]_vars => HomeInv'
  BY HomeStep
<1>3. StateInv /\ HomeInv /\ FitInv /\ [Next]_vars => FitInv'
  BY FitStep
<1> QED
  BY <1>1, <1>2, <1>3, TypeCorrect, PTL DEF Spec

\* Every entry holds the whole tree of its key's inputs, in every path the
\* resource declares, through any copy that fails and any command that is
\* killed (installs.rs: publish's rename, manager.rs: the key computed once).
THEOREM EntriesAreWhole ==
    ASSUME Steady
    PROVE  Spec => []EntriesComplete
<1>1. StateInv /\ FitInv => EntriesComplete
  BY DEF FitInv
<1> QED
  BY <1>1, FitAlways, PTL

\* A `ready` install is whole and built from what its workspace and binding
\* hold now, whether it was filled, replaced, rebuilt, or left alone by a skip
\* (manager.rs: fill_from_store, rebuild_install, the skip of an undo).
THEOREM ReadyIsBuilt ==
    ASSUME Steady
    PROVE  Spec => []ReadyFits
<1>1. StateInv /\ FitInv => ReadyFits
  <2> SUFFICES ASSUME StateInv, FitInv, NEW i \in Instance, rec[i].here, Idle(i),
                      rec[i].status = "ready", ~ astray[i]
               PROVE  /\ Wholes(tree[i])
                      /\ \A p \in Path : /\ tree[i][p].of = Sees(lock[i], rec[i].dropped)
                                         /\ tree[i][p].home # Find
    BY DEF ReadyFits
  <2>1. Fits(i)
    BY FollowsOf DEF Built
  <2> QED
    BY <2>1 DEF Fits, Good, Wholes, Now
<1> QED
  BY <1>1, FitAlways, PTL
=============================================================================
