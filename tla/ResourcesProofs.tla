-------------------------- MODULE ResourcesProofs --------------------------
(***************************************************************************)
(* Theorems about the resources of instances, for any definitions that     *)
(* load, any instances and ports, every command, hooks that succeed or     *)
(* fail, and kills and I/O errors anywhere.                                *)
(***************************************************************************)
EXTENDS Resources, FiniteSetTheorems, TLAPS

-----------------------------------------------------------------------------
(* The orders.                                                             *)

\* A set of places has its last, and its first.
LEMMA Highest ==
    ASSUME NEW n \in Nat, NEW S \in SUBSET (1 .. n), S # {}
    PROVE  \E x \in S : \A y \in S : x >= y
<1> DEFINE Above(i) == {j \in S : j > i}
           Aboves == {Above(i) : i \in S}
<1>1. IsFiniteSet(S) /\ S \subseteq Nat
  <2>1. 1 \in Int /\ n \in Int
    OBVIOUS
  <2>2. IsFiniteSet(1 .. n)
    BY <2>1, FS_Interval
  <2>3. IsFiniteSet(S)
    BY <2>2, FS_Subset
  <2>4. S \subseteq Nat
    OBVIOUS
  <2> QED
    BY <2>3, <2>4
<1>2. \A i \in S : Above(i) \in SUBSET S /\ IsFiniteSet(Above(i))
  BY <1>1, FS_Subset
<1>3. Aboves \subseteq FiniteSubsetsOf(S) /\ Aboves # {}
  BY <1>2 DEF FiniteSubsetsOf
<1>4. PICK A \in Aboves : \A B \in Aboves : ~ (<<B, A>> \in StrictSubsetOrdering(S))
  BY <1>3, FS_StrictSubsetOrderingWellFounded, WFMin
<1>5. PICK i \in S : A = Above(i)
  OBVIOUS
<1>6. \A j \in S : ~ (j > i)
  <2> SUFFICES ASSUME NEW j \in S, j > i PROVE FALSE
    OBVIOUS
  <2>1. Above(j) \subseteq Above(i) /\ j \in Above(i) /\ j \notin Above(j)
    <3>1. i \in Nat /\ j \in Nat /\ ~ (j > j)
      BY <1>1
    <3>2. \A k \in S : k > j => k > i
      BY <1>1, <3>1
    <3> QED
      BY <3>1, <3>2
  <2>2. <<Above(j), Above(i)>> \in StrictSubsetOrdering(S)
    BY <1>2, <2>1 DEF StrictSubsetOrdering
  <2> QED
    BY <1>4, <1>5, <2>2
<1> QED
  BY <1>6

LEMMA Lowest ==
    ASSUME NEW n \in Nat, NEW S \in SUBSET (1 .. n), S # {}
    PROVE  \E x \in S : \A y \in S : x <= y
<1> DEFINE Below(i) == {j \in S : j < i}
           Belows == {Below(i) : i \in S}
<1>1. IsFiniteSet(S) /\ S \subseteq Nat
  <2>1. 1 \in Int /\ n \in Int
    OBVIOUS
  <2>2. IsFiniteSet(1 .. n)
    BY <2>1, FS_Interval
  <2>3. IsFiniteSet(S)
    BY <2>2, FS_Subset
  <2>4. S \subseteq Nat
    OBVIOUS
  <2> QED
    BY <2>3, <2>4
<1>2. \A i \in S : Below(i) \in SUBSET S /\ IsFiniteSet(Below(i))
  BY <1>1, FS_Subset
<1>3. Belows \subseteq FiniteSubsetsOf(S) /\ Belows # {}
  BY <1>2 DEF FiniteSubsetsOf
<1>4. PICK A \in Belows : \A B \in Belows : ~ (<<B, A>> \in StrictSubsetOrdering(S))
  BY <1>3, FS_StrictSubsetOrderingWellFounded, WFMin
<1>5. PICK i \in S : A = Below(i)
  OBVIOUS
<1>6. \A j \in S : ~ (j < i)
  <2> SUFFICES ASSUME NEW j \in S, j < i PROVE FALSE
    OBVIOUS
  <2>1. Below(j) \subseteq Below(i) /\ j \in Below(i) /\ j \notin Below(j)
    <3>1. i \in Nat /\ j \in Nat /\ ~ (j < j)
      BY <1>1
    <3>2. \A k \in S : k < j => k < i
      BY <1>1, <3>1
    <3> QED
      BY <3>1, <3>2
  <2>2. <<Below(j), Below(i)>> \in StrictSubsetOrdering(S)
    BY <1>2, <2>1 DEF StrictSubsetOrdering
  <2> QED
    BY <1>4, <1>5, <2>2
<1> QED
  BY <1>6

\* The resource a loop over an order comes to is one of those left, and the
\* first or the last of them.
LEMMA Ordered ==
    ASSUME NEW order, Complete(order), NEW S \in SUBSET Resource, S # {}
    PROVE  LET place == Place(order)
           IN  /\ \E r \in S : \A q \in S : place[r] <= place[q]
               /\ \E r \in S : \A q \in S : place[r] >= place[q]
<1> DEFINE place == Place(order)
           n == Len(order)
           Places == {place[q] : q \in S}
<1>1. n \in Nat /\ DOMAIN order = 1 .. n
  BY DEF Complete
<1>2. \A q \in Resource : place[q] \in 1 .. n
  BY <1>1 DEF Place, Complete
<1>3. Places \in SUBSET (1 .. n) /\ Places # {}
  BY <1>2
<1> HIDE DEF n, place
<1>4. (\E x \in Places : \A y \in Places : x <= y) /\ (\E x \in Places : \A y \in Places : x >= y)
  BY <1>1, <1>3, Highest, Lowest
<1> QED
  BY <1>4 DEF place

LEMMA Chosen ==
    ASSUME NEW S \in SUBSET Resource, S # {}
    PROVE  /\ First(S) \in S /\ \A q \in S : LifecyclePlace[First(S)] <= LifecyclePlace[q]
           /\ Last(S) \in S /\ FirstBound(S) \in S
<1>1. Complete(Graph.bindOrder) /\ Complete(Graph.lifecycleOrder)
  BY ResourcesAssumption
<1>2. /\ \E r \in S : \A q \in S : LifecyclePlace[r] <= LifecyclePlace[q]
      /\ \E r \in S : \A q \in S : LifecyclePlace[r] >= LifecyclePlace[q]
  BY <1>1, Ordered DEF LifecyclePlace
<1>3. \E r \in S : \A q \in S : BindPlace[r] <= BindPlace[q]
  BY <1>1, Ordered DEF BindPlace
<1> QED
  BY <1>2, <1>3 DEF First, Last, FirstBound

-----------------------------------------------------------------------------
(* The invariants.                                                         *)

Memory == [op : Commands \cup {"idle"},
           step : {"idle", "bind", "claim", "render", "resume", "prepare",
                   "boot", "down", "hook", "save", "up", "clean", "archive"},
           at : Resource \cup {"none"}, mem : Record,
           owed : SUBSET Entry, still : SUBSET Entry,
           todo : SUBSET Resource, only : SUBSET Resource,
           failed : SUBSET Resource, prev : Slot,
           port : Port \cup {NoPort}, again : BOOLEAN]
Binder == {"spawn", "use", "rebind"}

\* The steps of each command.
Phase(c) ==
    /\ c.op = "idle" => c = Rest
    /\ c.op \in Binder => c.step \in {"bind", "claim", "render", "resume", "prepare", "boot"}
    /\ c.op = "stop" => c.step \in {"down", "hook"}
    /\ c.op = "drop" => c.step \in {"down", "hook", "save"}
    /\ c.op = "remove" => c.step \in {"down", "hook", "clean", "archive"}
    /\ c.op = "start" => c.step = "up"
    /\ c.op \notin {"prepare", "run", "halt"}
    /\ c.step \in {"claim", "render", "resume", "prepare"} => c.at \in Resource

StateInv == TypeOK /\ \A s \in Slug : Phase(cmd[s])

\* Nothing of the instance's is left in its state directory.
Bare(s) == owed[s] = {} /\ \A r \in Resource : proc[s][r] = NoProc

\* What has no binding has no port.
Portless(m) == \A r \in Resource : m.slot[r].state = "none" => m.slot[r].port = NoPort

\* What a command remembers of the record, and what the record says of the
\* instance.
Books(s) ==
    LET c == cmd[s]
    IN  /\ c.op # "idle" => /\ rec[s].here /\ c.mem.here
                            /\ \A r \in Resource : c.mem.slot[r].port = rec[s].slot[r].port
        /\ c.op \in Binder => c.mem.dropped = rec[s].dropped
        /\ c.op \in {"stop", "start", "remove"} \/ c.step = "boot" => c.mem = rec[s]
        /\ ~ rec[s].here => rec[s] = Unspawned /\ Bare(s)
        /\ c.step = "archive" => Bare(s)
        /\ Portless(rec[s]) /\ Portless(c.mem)
        /\ c.step = "claim" => c.mem.slot[c.at].state = "none"
        /\ c.step \in {"render", "resume", "prepare"} => c.mem.slot[c.at].state = "pending"
        /\ c.step \in {"resume", "prepare"} => c.mem = rec[s]

\* A rebind binds one resource, whose process is not running until it is bound,
\* and has its old binding in memory until then.
Rebinding(s) ==
    LET c == cmd[s]
    IN  c.op = "rebind" =>
            /\ c.prev # NoSlot => c.prev.state \in Status
            /\ \E r \in Resource : /\ c.only = {r} /\ Active(rec[s], r)
                                   /\ c.step # "boot" => ~ Running(s, r)
                                   /\ c.step = "boot" => c.prev = NoSlot

\* The port a command is about to claim is nobody's, and no other is claiming.
Claiming(s) ==
    cmd[s].step = "claim" => portLock = s /\ cmd[s].port \in Port \ UsedPorts

\* What a stop took down is in the stopped record, on disk or in the memory of
\* the command that changes it.
Owes(s, e) ==
    LET c == cmd[s]
    IN  CASE c.op = "stop" \/ (c.op = "drop" /\ c.step # "save") -> e \in c.owed
          [] c.op = "start" -> e \in owed[s] /\ (e \in c.owed \/ (e \in c.still /\ e[1] \in c.failed))
          [] OTHER -> e \in owed[s]
Sound(s) == cut[s] \cap {"stop", "drop", "remove"} = {}
Down(s, m, r) == Ready(m, r) /\ ext[s][r] = "suspended"
Owing(s) ==
    LET c == cmd[s]
    IN  /\ \A r \in Resource : ext[s][r] = "suspended" => r \in Suspends \ Shared
        /\ Sound(s) => \A r \in Resource :
               /\ proc[s][r].state = "halted" => Owes(s, <<r, "start">>)
               /\ c.op \notin {"drop", "remove"} /\ Down(s, rec[s], r) => Owes(s, <<r, "resume">>)
               /\ c.op \in Binder \cup {"drop"} /\ Down(s, c.mem, r) => Owes(s, <<r, "resume">>)
               /\ c.op = "rebind" /\ r \in c.only /\ c.prev.state = "ready" /\ ext[s][r] = "suspended"
                      => Owes(s, <<r, "resume">>)

\* What is up outside and has to be cleaned when the instance goes, what waits
\* to be resumed, and the binding a rebind has taken out of the record.
Up(s) == {r \in Cleans \ Shared : ext[s][r] \in {"up", "suspended"}}
Resumes(E) == {r \in Resource : <<r, "resume">> \in E}
Waits(s) == Resumes(owed[s]) \cup Resumes(cmd[s].owed)
Lost(s) == {r \in Resource : cmd[s].op = "rebind" /\ r \in cmd[s].only /\ cmd[s].prev # NoSlot}

\* They are bound or parked, but for that binding.
Left(s) ==
    LET c == cmd[s]
    IN  "rebind" \notin cut[s] =>
        /\ rec[s].here => Up(s) \cup Waits(s) \subseteq Teardown(rec[s]) \cup Lost(s)
        /\ ~ rec[s].here => Up(s) = {}
        /\ c.op \in Binder => Up(s) \cup Waits(s) \subseteq Teardown(c.mem) \cup Lost(s)
        /\ c.op = "drop" =>
               /\ Up(s) \cup Resumes(c.owed) \subseteq Teardown(c.mem)
               /\ \A r \in Resource : Bound(c.mem, r) => Bound(rec[s], r)
               /\ c.step = "save" => owed[s] = c.owed
        /\ c.op = "start" => Resumes(c.still) \subseteq Teardown(rec[s])
        /\ c.step = "clean" => Up(s) \subseteq c.todo \cup c.failed
        /\ c.step = "archive" => Up(s) \subseteq c.failed

-----------------------------------------------------------------------------
(* What a step changes.                                                    *)

\* The step is of instance s, and leaves every other as it is.
Elsewhere(s) ==
    \A t \in Slug \ {s} : /\ rec'[t] = rec[t] /\ owed'[t] = owed[t]
                          /\ proc'[t] = proc[t] /\ ext'[t] = ext[t]
                          /\ cmd'[t] = cmd[t] /\ cut'[t] = cut[t]
Moves(s) == TypeOK' /\ Phase(cmd'[s]) /\ Elsewhere(s)

LEMMA MemoryType == TypeOK => cmd \in [Slug -> Memory]
  BY DEF TypeOK, Memory

LEMMA StartType == Unspawned \in Record /\ Rest \in Memory /\ NoSlot \in Slot
<1>1. NoSlot \in Slot
  BY DEF NoSlot, Slot
<1>2. Unspawned \in Record
  BY <1>1 DEF Unspawned, Record
<1> QED
  BY <1>1, <1>2 DEF Rest, Memory

\* A slot set in a record.
LEMMA SlotSet ==
    ASSUME NEW m \in Record, NEW r \in Resource, NEW slot \in Slot
    PROVE  LET n == WithSlot(m, r, slot)
           IN  /\ n \in Record /\ n.here = m.here /\ n.dropped = m.dropped
               /\ \A q \in Resource : n.slot[q] = IF q = r THEN slot ELSE m.slot[q]
  BY DEF WithSlot, Record

LEMMA StateSet ==
    ASSUME NEW m \in Record, NEW r \in Resource,
           NEW state \in {"none"} \cup Status \cup Parked
    PROVE  LET n == WithState(m, r, state)
           IN  /\ n \in Record /\ n.here = m.here /\ n.dropped = m.dropped
               /\ \A q \in Resource \ {r} : n.slot[q] = m.slot[q]
               /\ n.slot[r].state = state /\ n.slot[r].port = m.slot[r].port
  BY DEF WithState, Record, Slot

\* A command's next local state, and a saved record.
LEMMA Going ==
    ASSUME TypeOK, NEW s \in Slug, NEW c \in Memory, Go(s, c)
    PROVE  /\ cmd' \in [Slug -> Memory] /\ cmd'[s] = c
           /\ \A t \in Slug \ {s} : cmd'[t] = cmd[t]
  BY MemoryType DEF Go

LEMMA Saving ==
    ASSUME TypeOK, NEW s \in Slug, NEW m \in Record, Save(s, m)
    PROVE  /\ rec' \in [Slug -> Record] /\ rec'[s] = m
           /\ \A t \in Slug \ {s} : rec'[t] = rec[t]
  BY DEF TypeOK, Save

LEMMA Setting ==
    ASSUME TypeOK, NEW s \in Slug, NEW r \in Resource,
           NEW v \in {"absent", "up", "suspended", "left"}, SetExt(s, r, v)
    PROVE  /\ ext' \in [Slug -> [Resource -> {"absent", "up", "suspended", "left"}]]
           /\ ext'[s] = [ext[s] EXCEPT ![r] = v]
           /\ \A t \in Slug \ {s} : ext'[t] = ext[t]
  BY DEF TypeOK, SetExt

Outside == {"absent", "up", "suspended", "left"}
Process == [state : {"never", "running", "halted", "stopped", "died"}, port : Port \cup {NoPort}]

LEMMA Typed ==
    TypeOK <=> /\ rec \in [Slug -> Record] /\ owed \in [Slug -> SUBSET Entry]
               /\ proc \in [Slug -> [Resource -> Process]] /\ ext \in [Slug -> [Resource -> Outside]]
               /\ portLock \in Slug \cup {"free"} /\ cmd \in [Slug -> Memory]
               /\ cut \in [Slug -> SUBSET Commands]
               /\ commands \in 0 .. MaxCommand /\ kills \in 0 .. MaxKill /\ faults \in 0 .. MaxFault
  BY DEF TypeOK, Memory, Process, Outside

LEMMA TypedNext ==
    TypeOK' <=> /\ rec' \in [Slug -> Record] /\ owed' \in [Slug -> SUBSET Entry]
                /\ proc' \in [Slug -> [Resource -> Process]] /\ ext' \in [Slug -> [Resource -> Outside]]
                /\ portLock' \in Slug \cup {"free"} /\ cmd' \in [Slug -> Memory]
                /\ cut' \in [Slug -> SUBSET Commands]
                /\ commands' \in 0 .. MaxCommand /\ kills' \in 0 .. MaxKill /\ faults' \in 0 .. MaxFault
  BY DEF TypeOK, Memory, Process, Outside

LEMMA SlotType ==
    ASSUME NEW m \in Record, NEW r \in Resource
    PROVE  /\ m.slot[r] \in Slot /\ m.slot[r].port \in Port \cup {NoPort}
           /\ m.slot[r].state \in {"none"} \cup Status \cup Parked
  BY DEF Record, Slot

\* A step that goes on in memory, and saves the record or not.
LEMMA MemoryMoves ==
    ASSUME StateInv, NEW s \in Slug, NEW c \in Memory, Phase(c), Go(s, c),
           rec' = rec \/ \E m \in Record : Save(s, m),
           UNCHANGED <<owed, world, cut, counts>>, portLock' \in Slug \cup {"free"}
    PROVE  Moves(s)
<1>1. cmd' \in [Slug -> Memory] /\ cmd'[s] = c /\ \A t \in Slug \ {s} : cmd'[t] = cmd[t]
  BY Going DEF StateInv
<1>2. rec' \in [Slug -> Record] /\ \A t \in Slug \ {s} : rec'[t] = rec[t]
  BY Saving, Typed DEF StateInv
<1>3. TypeOK'
  BY <1>1, <1>2, Typed, TypedNext DEF StateInv, world, counts
<1> QED
  BY <1>1, <1>2, <1>3 DEF Moves, Elsewhere, world

\* One that begins a command.
LEMMA BeginMoves ==
    ASSUME StateInv, NEW s \in Slug, NEW op, Begin(s, op), NEW c \in Memory, Phase(c), Go(s, c),
           rec' = rec \/ \E m \in Record : Save(s, m),
           UNCHANGED <<owed, world, portLock, cut, kills, faults>>
    PROVE  Moves(s)
<1>1. cmd' \in [Slug -> Memory] /\ cmd'[s] = c /\ \A t \in Slug \ {s} : cmd'[t] = cmd[t]
  BY Going DEF StateInv
<1>2. rec' \in [Slug -> Record] /\ \A t \in Slug \ {s} : rec'[t] = rec[t]
  BY Saving, Typed DEF StateInv
<1>3. commands' \in 0 .. MaxCommand
  BY ResourcesAssumption, Typed DEF StateInv, Begin
<1>4. TypeOK'
  BY <1>1, <1>2, <1>3, Typed, TypedNext DEF StateInv, world
<1> QED
  BY <1>1, <1>2, <1>4 DEF Moves, Elsewhere, world

-----------------------------------------------------------------------------
(* Types: the commands begin.                                              *)

\* A command's local state as it begins.
LEMMA BeginsType ==
    ASSUME NEW c \in Memory,
           \/ c.op \in Binder /\ c.step = "bind"
           \/ c.op \in {"stop", "drop", "remove"} /\ c.step = "down"
           \/ c.op = "start" /\ c.step = "up"
    PROVE  Phase(c)
  BY DEF Phase, Binder

LEMMA SpawnMoves ==
    ASSUME StateInv, NEW s \in Slug, NEW d \in BOOLEAN, NEW only \in {{}, Resource},
           Spawn(s, d, only)
    PROVE  Moves(s)
<1> DEFINE m == [Unspawned EXCEPT !.here = TRUE, !.dropped = d]
           c == [Rest EXCEPT !.op = "spawn", !.step = "bind", !.mem = m, !.only = only]
<1>1. m \in Record
  BY StartType DEF Record
<1> HIDE DEF m
<1>a. c \in Memory
  BY <1>1, StartType DEF Memory, Commands
<1>b. c.op = "spawn" /\ c.step = "bind"
  BY StartType DEF Memory
<1> HIDE DEF c
<1>2. c \in Memory /\ Phase(c)
  BY <1>a, <1>b, BeginsType DEF Binder
<1>3. Begin(s, "spawn") /\ Go(s, c) /\ Save(s, m)
  BY DEF Spawn, m, c
<1>4. cmd' \in [Slug -> Memory] /\ cmd'[s] = c /\ \A t \in Slug \ {s} : cmd'[t] = cmd[t]
  BY <1>2, <1>3, Going DEF StateInv
<1>5. rec' \in [Slug -> Record] /\ \A t \in Slug \ {s} : rec'[t] = rec[t]
  BY <1>1, <1>3, Saving DEF StateInv
<1>6. commands' \in 0 .. MaxCommand
  BY <1>3, ResourcesAssumption, Typed DEF StateInv, Begin
<1>7. /\ ext' \in [Slug -> [Resource -> Outside]] /\ cut' \in [Slug -> SUBSET Commands]
      /\ \A t \in Slug \ {s} : ext'[t] = ext[t] /\ cut'[t] = cut[t]
  BY Typed DEF StateInv, Spawn, Outside
<1>8. TypeOK'
  BY <1>4, <1>5, <1>6, <1>7, Typed, TypedNext DEF StateInv, Spawn
<1> QED
  BY <1>2, <1>4, <1>5, <1>7, <1>8 DEF Moves, Elsewhere, Spawn

LEMMA UseMoves == ASSUME StateInv, NEW s \in Slug, Use(s) PROVE Moves(s)
<1> DEFINE m == [rec[s] EXCEPT !.dropped = FALSE]
           c == [Rest EXCEPT !.op = "use", !.step = "bind", !.mem = m, !.only = Unbound(m)]
<1>1. m \in Record /\ Unbound(m) \subseteq Resource
  BY Typed DEF StateInv, Record, Unbound
<1>2. Begin(s, "use") /\ Go(s, c) /\ Save(s, m) /\ UNCHANGED <<owed, world, portLock, cut, kills, faults>>
  BY DEF Use, Loaded
<1> HIDE DEF m
<1>a. c \in Memory
  BY <1>1, StartType DEF Memory, Commands
<1>b. c.op = "use" /\ c.step = "bind"
  BY StartType DEF Memory
<1> HIDE DEF c
<1>3. c \in Memory /\ Phase(c)
  BY <1>a, <1>b, BeginsType DEF Binder
<1> QED
  BY <1>1, <1>2, <1>3, BeginMoves

LEMMA RebindMoves == ASSUME StateInv, NEW s \in Slug, NEW r \in Resource, Rebind(s, r) PROVE Moves(s)
<1> DEFINE m == IF Bound(rec[s], r) THEN WithSlot(rec[s], r, NoSlot) ELSE rec[s]
           prev == IF Bound(rec[s], r) THEN rec[s].slot[r] ELSE NoSlot
           c == [Rest EXCEPT !.op = "rebind", !.step = "bind", !.mem = m, !.only = {r}, !.prev = prev]
<1>1. m \in Record /\ prev \in Slot
  BY Typed, StartType, SlotSet, SlotType DEF StateInv
<1>2. Begin(s, "rebind") /\ Go(s, c) /\ Save(s, m) /\ UNCHANGED <<owed, world, portLock, cut, kills, faults>>
  BY DEF Rebind, Loaded
<1> HIDE DEF m, prev
<1>a. c \in Memory
  BY <1>1, StartType DEF Memory, Commands
<1>b. c.op = "rebind" /\ c.step = "bind"
  BY StartType DEF Memory
<1> HIDE DEF c
<1>3. c \in Memory /\ Phase(c)
  BY <1>a, <1>b, BeginsType DEF Binder
<1> QED
  BY <1>1, <1>2, <1>3, BeginMoves

LEMMA StopMoves == ASSUME StateInv, NEW s \in Slug, Stop(s) PROVE Moves(s)
<1> DEFINE todo == {r \in Resource : Running(s, r) \/ Suspendable(rec[s], r)}
           c == [Rest EXCEPT !.op = "stop", !.step = "down", !.mem = rec[s],
                             !.owed = owed[s], !.todo = todo]
<1>1. todo \subseteq Resource
  OBVIOUS
<1>2. Begin(s, "stop") /\ Go(s, c) /\ UNCHANGED <<disk, world, portLock, cut, kills, faults>>
  BY DEF Stop, Loaded
<1> HIDE DEF todo
<1>a. c \in Memory
  BY <1>1, StartType, Typed DEF StateInv, Memory, Commands
<1>b. c.op = "stop" /\ c.step = "down"
  BY StartType DEF Memory
<1> HIDE DEF c
<1>3. c \in Memory /\ Phase(c)
  BY <1>a, <1>b, BeginsType DEF Binder
<1> QED
  BY <1>2, <1>3, BeginMoves DEF disk

LEMMA DropMoves == ASSUME StateInv, NEW s \in Slug, Drop(s) PROVE Moves(s)
<1> DEFINE m == [rec[s] EXCEPT !.dropped = TRUE]
           todo == {r \in Resource : Bound(m, r) /\ ~ Active(m, r)}
           c == [Rest EXCEPT !.op = "drop", !.step = "down", !.mem = m,
                             !.owed = owed[s], !.todo = todo]
<1>1. m \in Record /\ todo \subseteq Resource
  BY Typed DEF StateInv, Record
<1>2. Begin(s, "drop") /\ Go(s, c) /\ UNCHANGED <<disk, world, portLock, cut, kills, faults>>
  BY DEF Drop, Loaded
<1> HIDE DEF m, todo
<1>a. c \in Memory
  BY <1>1, StartType, Typed DEF StateInv, Memory, Commands
<1>b. c.op = "drop" /\ c.step = "down"
  BY StartType DEF Memory
<1> HIDE DEF c
<1>3. c \in Memory /\ Phase(c)
  BY <1>a, <1>b, BeginsType DEF Binder
<1> QED
  BY <1>2, <1>3, BeginMoves DEF disk

LEMMA RemoveMoves == ASSUME StateInv, NEW s \in Slug, Remove(s) PROVE Moves(s)
<1> DEFINE todo == {r \in Resource : Running(s, r)}
           c == [Rest EXCEPT !.op = "remove", !.step = "down", !.mem = rec[s], !.todo = todo]
<1>1. todo \subseteq Resource
  OBVIOUS
<1>2. Begin(s, "remove") /\ Go(s, c) /\ UNCHANGED <<disk, world, portLock, cut, kills, faults>>
  BY DEF Remove, Loaded
<1> HIDE DEF todo
<1>a. c \in Memory
  BY <1>1, StartType, Typed DEF StateInv, Memory, Commands
<1>b. c.op = "remove" /\ c.step = "down"
  BY StartType DEF Memory
<1> HIDE DEF c
<1>3. c \in Memory /\ Phase(c)
  BY <1>a, <1>b, BeginsType DEF Binder
<1> QED
  BY <1>2, <1>3, BeginMoves DEF disk

LEMMA StartMoves == ASSUME StateInv, NEW s \in Slug, Start(s) PROVE Moves(s)
<1> DEFINE died == {r \in Autostarts : Bound(rec[s], r) /\ proc[s][r].state = "died"}
           entries == owed[s] \cup (died \X {"start"})
           c == [Rest EXCEPT !.op = "start", !.step = "up", !.mem = rec[s], !.owed = entries]
<1>1. entries \in SUBSET Entry
  BY Typed DEF StateInv, Entry, Autostarts, Those
<1>2. Begin(s, "start") /\ Go(s, c) /\ UNCHANGED <<disk, world, portLock, cut, kills, faults>>
  BY DEF Start, Loaded
<1> HIDE DEF entries
<1>a. c \in Memory
  BY <1>1, StartType, Typed DEF StateInv, Memory, Commands
<1>b. c.op = "start" /\ c.step = "up"
  BY StartType DEF Memory
<1> HIDE DEF c
<1>3. c \in Memory /\ Phase(c)
  BY <1>a, <1>b, BeginsType DEF Binder
<1> QED
  BY <1>2, <1>3, BeginMoves DEF disk

-----------------------------------------------------------------------------
(* Types: binding.                                                         *)

LEMMA InsertType ==
    ASSUME StateInv, NEW s \in Slug, cmd[s].op \in Binder,
           NEW r \in Resource, NEW port \in Port \cup {NoPort}
    PROVE  LET c == Insert(s, r, port)
           IN  /\ c \in Memory /\ Phase(c) /\ c.mem \in Record
               /\ c.op = cmd[s].op /\ c.step = "render" /\ c.at = r /\ c.owed = cmd[s].owed
               /\ c.only = cmd[s].only /\ c.prev = cmd[s].prev
               /\ c.again = (cmd[s].mem.slot[r].state = "suspended" /\ r \in Suspends)
               /\ c.mem = WithSlot(cmd[s].mem, r, [state |-> "pending", port |-> port])
<1> DEFINE old == cmd[s]
           new == Insert(s, r, port)
           m == WithSlot(old.mem, r, [state |-> "pending", port |-> port])
           again == old.mem.slot[r].state = "suspended" /\ r \in Suspends
<1>1. old \in Memory /\ old.mem \in Record
  BY Typed DEF StateInv, Memory
<1>2. [state |-> "pending", port |-> port] \in Slot
  BY DEF Slot, Status
<1>3. m \in Record /\ again \in BOOLEAN
  BY <1>1, <1>2, SlotSet
<1>4. new = [old EXCEPT !.step = "render", !.at = r, !.port = NoPort,
                        !.mem = m, !.again = again]
  BY <1>1 DEF Insert, Memory
<1> HIDE DEF m, again, old, new
<1>5. /\ new \in Memory /\ new.op = old.op /\ new.step = "render" /\ new.at = r
      /\ new.owed = old.owed /\ new.only = old.only /\ new.prev = old.prev
      /\ new.mem = m /\ new.again = again
  BY <1>1, <1>3, <1>4 DEF Memory
<1>6. Phase(new)
  BY <1>5 DEF Phase, Binder, old
<1> QED
  BY <1>3, <1>5, <1>6 DEF m, again, old, new

LEMMA SettledType ==
    ASSUME StateInv, NEW s \in Slug, cmd[s].op \in Binder, cmd[s].at \in Resource,
           NEW state \in Status
    PROVE  LET c == Settled(s, state)
           IN  /\ c \in Memory /\ Phase(c) /\ c.mem \in Record
               /\ c.op = cmd[s].op /\ c.step = "bind" /\ c.owed = cmd[s].owed
               /\ c.only = cmd[s].only /\ c.prev = cmd[s].prev
               /\ c.mem = WithState(cmd[s].mem, cmd[s].at, state)
<1> DEFINE old == cmd[s]
           new == Settled(s, state)
           m == WithState(old.mem, old.at, state)
<1>1. old \in Memory /\ old.mem \in Record
  BY Typed DEF StateInv, Memory
<1>2. m \in Record
  BY <1>1, StateSet
<1>3. new = [old EXCEPT !.step = "bind", !.at = "none", !.again = FALSE, !.mem = m]
  BY <1>1 DEF Settled, Memory
<1> HIDE DEF m, old, new
<1>4. /\ new \in Memory /\ new.op = old.op /\ new.step = "bind"
      /\ new.owed = old.owed /\ new.only = old.only /\ new.prev = old.prev
      /\ new.mem = m
  BY <1>1, <1>2, <1>3 DEF Memory
<1>5. Phase(new)
  BY <1>4 DEF Phase, Binder, old
<1> QED
  BY <1>2, <1>4, <1>5 DEF m, old, new

\* Only commands that bind have these steps.
LEMMA Binding ==
    ASSUME StateInv, NEW s \in Slug,
           \E step \in {"bind", "claim", "render", "resume", "prepare", "boot"} : At(s, step)
    PROVE  cmd[s].op \in Binder /\ cmd[s].op # "idle" /\ cmd[s] \in Memory
  BY Typed DEF StateInv, Phase, At, Binder, Rest, Memory, Commands

LEMMA BindNextMoves == ASSUME StateInv, NEW s \in Slug, BindNext(s) PROVE Moves(s)
<1>1. PICK r \in Resource : /\ Binds(s, r) /\ Go(s, Insert(s, r, cmd[s].mem.slot[r].port))
                            /\ UNCHANGED <<disk, world, portLock, cut, counts>>
  BY DEF BindNext
<1>2. cmd[s].op \in Binder /\ cmd[s] \in Memory
  BY <1>1, Binding DEF Binds
<1>3. cmd[s].mem \in Record /\ cmd[s].mem.slot[r].port \in Port \cup {NoPort}
  BY <1>2, SlotType DEF Memory
<1>4. /\ Insert(s, r, cmd[s].mem.slot[r].port) \in Memory
      /\ Phase(Insert(s, r, cmd[s].mem.slot[r].port))
  BY <1>2, <1>3, InsertType
<1> QED
  BY <1>1, <1>4, MemoryMoves, Typed DEF disk, StateInv

LEMMA ReadClaimsMoves == ASSUME StateInv, NEW s \in Slug, ReadClaims(s) PROVE Moves(s)
<1> SUFFICES ASSUME NEW r \in Resource, NEW p \in Port \ UsedPorts,
                    Binds(s, r), portLock' = s,
                    Go(s, [cmd[s] EXCEPT !.step = "claim", !.at = r, !.port = p]),
                    UNCHANGED <<disk, world, cut, counts>>
             PROVE  Moves(s)
  BY Zenon DEF ReadClaims
<1>1. cmd[s].op \in Binder /\ cmd[s] \in Memory
  BY Binding DEF Binds
<1> DEFINE c == [cmd[s] EXCEPT !.step = "claim", !.at = r, !.port = p]
<1>2. c \in Memory /\ Phase(c)
  BY <1>1 DEF Memory, Phase, Binder
<1> HIDE DEF c
<1>3. Go(s, c)
  BY DEF c
<1> QED
  BY <1>2, <1>3, MemoryMoves DEF disk

LEMMA SaveClaimMoves == ASSUME StateInv, NEW s \in Slug, SaveClaim(s) PROVE Moves(s)
<1> DEFINE c == Insert(s, cmd[s].at, cmd[s].port)
<1>1. /\ At(s, "claim") /\ Save(s, c.mem) /\ Go(s, c) /\ portLock' = "free"
      /\ UNCHANGED <<owed, world, cut, counts>>
  BY DEF SaveClaim
<1>2. cmd[s].op \in Binder /\ cmd[s] \in Memory
  BY <1>1, Binding
<1>3. cmd[s].at \in Resource /\ cmd[s].port \in Port \cup {NoPort}
  BY <1>1, <1>2 DEF StateInv, Phase, At, Memory
<1>4. c \in Memory /\ Phase(c) /\ c.mem \in Record
  BY <1>2, <1>3, InsertType
<1> HIDE DEF c
<1> QED
  BY <1>1, <1>4, MemoryMoves

LEMMA SettledMoves ==
    ASSUME StateInv, NEW s \in Slug, NEW state \in Status, At(s, "render"), Go(s, Settled(s, state)),
           rec' = rec \/ Save(s, cmd[s].mem), UNCHANGED <<owed, world, portLock, cut, counts>>
    PROVE  Moves(s)
<1>1. cmd[s].op \in Binder /\ cmd[s] \in Memory
  BY Binding
<1>2. cmd[s].at \in Resource /\ cmd[s].mem \in Record
  BY <1>1 DEF StateInv, Phase, At, Memory
<1>3. Settled(s, state) \in Memory /\ Phase(Settled(s, state))
  BY <1>1, <1>2, SettledType
<1> QED
  BY <1>2, <1>3, MemoryMoves, Typed DEF StateInv

LEMMA RenderMoves ==
    ASSUME StateInv, NEW s \in Slug, RenderFails(s) \/ Withhold(s) \/ NothingToRun(s)
    PROVE  Moves(s)
<1>1. "failed" \in Status /\ "pending" \in Status /\ "ready" \in Status
  BY DEF Status
<1>2. CASE RenderFails(s)
  BY <1>1, <1>2, SettledMoves DEF RenderFails, disk
<1>3. CASE Withhold(s)
  BY <1>1, <1>3, SettledMoves DEF Withhold
<1>4. CASE NothingToRun(s)
  BY <1>1, <1>4, SettledMoves DEF NothingToRun
<1> QED
  BY <1>2, <1>3, <1>4

LEMMA RunHookMoves == ASSUME StateInv, NEW s \in Slug, RunHook(s) PROVE Moves(s)
<1> DEFINE step == IF cmd[s].again THEN "resume" ELSE "prepare"
           c == [cmd[s] EXCEPT !.step = step]
<1>1. /\ At(s, "render") /\ Save(s, cmd[s].mem) /\ Go(s, c)
      /\ UNCHANGED <<owed, world, portLock, cut, counts>>
  BY DEF RunHook
<1>2. cmd[s].op \in Binder /\ cmd[s] \in Memory
  BY <1>1, Binding
<1>3. cmd[s].at \in Resource /\ cmd[s].mem \in Record
  BY <1>1, <1>2 DEF StateInv, Phase, At, Memory
<1>4. c \in Memory /\ Phase(c)
  BY <1>2, <1>3 DEF Memory, Phase, Binder
<1> HIDE DEF c
<1> QED
  BY <1>1, <1>3, <1>4, MemoryMoves, Typed DEF StateInv

LEMMA HookEndsMoves ==
    ASSUME StateInv, NEW s \in Slug, NEW ok \in BOOLEAN, HookEnds(s, ok) PROVE Moves(s)
<1> DEFINE state == IF ok THEN "ready" ELSE "failed"
           c == Settled(s, state)
<1>1. /\ At(s, "resume") \/ At(s, "prepare")
      /\ Go(s, c) /\ UNCHANGED <<disk, proc, portLock, cut, counts>>
  BY DEF HookEnds
<1>2. cmd[s].op \in Binder /\ cmd[s] \in Memory
  BY <1>1, Binding
<1>3. cmd[s].at \in Resource /\ state \in Status
  BY <1>1, <1>2 DEF StateInv, Phase, At, Status
<1>4. c \in Memory /\ Phase(c)
  BY <1>2, <1>3, SettledType
<1>5. ext[s][cmd[s].at] \in Outside
  BY <1>3, Typed DEF StateInv
<1>6. PICK v \in Outside : SetExt(s, cmd[s].at, v)
  BY <1>5 DEF HookEnds, Prepared, Outside
<1>7. ext' \in [Slug -> [Resource -> Outside]] /\ \A t \in Slug \ {s} : ext'[t] = ext[t]
  <2>1. ext \in [Slug -> [Resource -> Outside]] /\ v \in Outside
    BY Typed DEF StateInv
  <2> HIDE DEF Outside
  <2> QED
    BY <1>3, <1>6, <2>1 DEF SetExt
<1> HIDE DEF c
<1>8. cmd' \in [Slug -> Memory] /\ cmd'[s] = c /\ \A t \in Slug \ {s} : cmd'[t] = cmd[t]
  BY <1>1, <1>4, Going DEF StateInv
<1>9. TypeOK'
  BY <1>1, <1>7, <1>8, Typed, TypedNext DEF StateInv, disk, counts
<1> QED
  BY <1>1, <1>4, <1>7, <1>8, <1>9 DEF Moves, Elsewhere, disk

LEMMA FinishMoves ==
    ASSUME StateInv, NEW s \in Slug, Finish(s)
    PROVE  /\ cmd' \in [Slug -> Memory] /\ cmd'[s] = Rest /\ Phase(cmd'[s])
           /\ \A t \in Slug \ {s} : cmd'[t] = cmd[t]
<1>1. Rest \in Memory /\ Phase(Rest)
  BY StartType DEF Phase, Rest, Binder
<1> QED
  BY <1>1, Going DEF StateInv, Finish

LEMMA GiveUpMoves ==
    ASSUME StateInv, NEW s \in Slug, GiveUp(s), cmd[s].op # "idle", portLock' = portLock,
           faults' \in 0 .. MaxFault
    PROVE  Moves(s)
<1>1. /\ cmd' \in [Slug -> Memory] /\ Phase(cmd'[s])
      /\ \A t \in Slug \ {s} : cmd'[t] = cmd[t]
  BY FinishMoves DEF GiveUp
<1>2. cmd[s].mem \in Record /\ cmd[s].prev \in Slot
  BY Typed DEF StateInv, Memory
<1>3. \A r : WithSlot(cmd[s].mem, r, cmd[s].prev) \in Record
  BY <1>2 DEF WithSlot, Record
<1>4. rec' = rec \/ \E m \in Record : Save(s, m)
  BY <1>2, <1>3 DEF GiveUp
<1>5. rec' \in [Slug -> Record] /\ \A t \in Slug \ {s} : rec'[t] = rec[t]
  BY <1>4, Saving, Typed DEF StateInv
<1>6. cut' \in [Slug -> SUBSET Commands] /\ \A t \in Slug \ {s} : cut'[t] = cut[t]
  BY Typed DEF StateInv, GiveUp, Commands
<1>7. UNCHANGED <<owed, proc, ext, commands, kills>>
  BY DEF GiveUp, world
<1>8. TypeOK'
  BY <1>1, <1>5, <1>6, <1>7, Typed, TypedNext DEF StateInv
<1> QED
  BY <1>1, <1>5, <1>6, <1>7, <1>8 DEF Moves, Elsewhere

LEMMA NoPortLeftMoves == ASSUME StateInv, NEW s \in Slug, NoPortLeft(s) PROVE Moves(s)
<1>1. cmd[s].op # "idle"
  BY Binding DEF NoPortLeft, Binds
<1> QED
  BY <1>1, GiveUpMoves, Typed DEF NoPortLeft, StateInv, GiveUp

LEMMA BindErrorMoves == ASSUME StateInv, NEW s \in Slug, BindError(s) PROVE Moves(s)
<1>1. cmd[s].op # "idle"
  BY Binding DEF BindError, Binds
<1>2. faults' \in 0 .. MaxFault
  BY ResourcesAssumption, Typed DEF StateInv, BindError
<1> QED
  BY <1>1, <1>2, GiveUpMoves DEF BindError, GiveUp

LEMMA BindDoneMoves == ASSUME StateInv, NEW s \in Slug, BindDone(s) PROVE Moves(s)
<1> DEFINE todo == {r \in cmd[s].only \cap Autostarts :
                       Bound(cmd[s].mem, r) /\ (cmd[s].op = "rebind" => Ready(cmd[s].mem, r))}
           c == [cmd[s] EXCEPT !.step = "boot", !.prev = NoSlot, !.todo = todo]
<1>1. /\ At(s, "bind") /\ Save(s, cmd[s].mem) /\ Go(s, c)
      /\ UNCHANGED <<owed, world, portLock, cut, counts>>
  BY DEF BindDone
<1>2. cmd[s].op \in Binder /\ cmd[s] \in Memory
  BY <1>1, Binding
<1>3. cmd[s].mem \in Record /\ todo \subseteq Resource
  BY <1>2 DEF Memory
<1> HIDE DEF todo
<1>4. c \in Memory /\ Phase(c)
  BY <1>2, <1>3, StartType DEF Memory, Phase, Binder
<1> HIDE DEF c
<1> QED
  BY <1>1, <1>3, <1>4, MemoryMoves, Typed DEF StateInv

\* A step that goes on in memory and changes the processes, or what is outside.
LEMMA WorldMoves ==
    ASSUME StateInv, NEW s \in Slug, NEW c \in Memory, Phase(c), Go(s, c),
           \/ proc' = proc
           \/ \E r \in Resource, p \in Process : proc' = [proc EXCEPT ![s][r] = p],
           \/ ext' = ext
           \/ \E r \in Resource, v \in Outside : SetExt(s, r, v),
           UNCHANGED <<disk, portLock, cut, counts>>
    PROVE  Moves(s)
<1>1. cmd' \in [Slug -> Memory] /\ cmd'[s] = c /\ \A t \in Slug \ {s} : cmd'[t] = cmd[t]
  BY Going DEF StateInv
<1>2. proc' \in [Slug -> [Resource -> Process]] /\ \A t \in Slug \ {s} : proc'[t] = proc[t]
  <2>1. proc \in [Slug -> [Resource -> Process]]
    BY Typed DEF StateInv
  <2> HIDE DEF Process
  <2> QED
    BY <2>1
<1>3. ext' \in [Slug -> [Resource -> Outside]] /\ \A t \in Slug \ {s} : ext'[t] = ext[t]
  <2>1. ext \in [Slug -> [Resource -> Outside]]
    BY Typed DEF StateInv
  <2> HIDE DEF Outside
  <2> QED
    BY <2>1 DEF SetExt
<1>4. TypeOK'
  BY <1>1, <1>2, <1>3, Typed, TypedNext DEF StateInv, disk, counts
<1> QED
  BY <1>1, <1>2, <1>3, <1>4 DEF Moves, Elsewhere, disk

\* A process started on the port its binding has.
LEMMA Starting ==
    ASSUME TypeOK, NEW s \in Slug, NEW r \in Resource, NEW m \in Record, StartProcess(s, r, m)
    PROVE  \E p \in Process : proc' = [proc EXCEPT ![s][r] = p]
<1>1. [state |-> "running", port |-> m.slot[r].port] \in Process
  BY SlotType DEF Process
<1> QED
  BY <1>1 DEF StartProcess

LEMMA BootMoves == ASSUME StateInv, NEW s \in Slug, NEW ok \in BOOLEAN, Boot(s, ok) PROVE Moves(s)
<1> DEFINE r == First(cmd[s].todo)
           next == [cmd[s] EXCEPT !.todo = @ \ {r}]
           fails == [next EXCEPT !.failed = @ \cup {r}]
<1>1. At(s, "boot") /\ cmd[s].todo # {} /\ UNCHANGED <<disk, ext, portLock, cut, counts>>
  BY DEF Boot
<1>2. cmd[s].op \in Binder /\ cmd[s] \in Memory
  BY <1>1, Binding
<1>3. r \in Resource /\ cmd[s].mem \in Record
  BY <1>1, <1>2, Chosen DEF Memory
<1> HIDE DEF r
<1>4. next \in Memory /\ Phase(next) /\ fails \in Memory /\ Phase(fails)
  BY <1>1, <1>2, <1>3 DEF Memory, Phase, Binder, At
<1>5. /\ Go(s, next) \/ Go(s, fails)
      /\ proc' = proc \/ StartProcess(s, r, cmd[s].mem)
  BY DEF Boot, r
<1> HIDE DEF next, fails
<1>6. proc' = proc \/ \E p \in Process : proc' = [proc EXCEPT ![s][r] = p]
  BY <1>3, <1>5, Starting DEF StateInv
<1> QED
  BY <1>1, <1>3, <1>4, <1>5, <1>6, WorldMoves

LEMMA EndMoves ==
    ASSUME StateInv, NEW s \in Slug, Finish(s), rec' = rec \/ \E m \in Record : Save(s, m),
           UNCHANGED <<owed, world, cut, counts>>, portLock' \in Slug \cup {"free"}
    PROVE  Moves(s)
<1>1. Rest \in Memory /\ Phase(Rest)
  BY StartType DEF Phase, Rest, Binder
<1> QED
  BY <1>1, MemoryMoves DEF Finish

LEMMA BootDoneMoves == ASSUME StateInv, NEW s \in Slug, BootDone(s) PROVE Moves(s)
  BY EndMoves, Typed DEF BootDone, disk, StateInv

-----------------------------------------------------------------------------
(* Types: taking down.                                                     *)

LEMMA DownProcessMoves ==
    ASSUME StateInv, NEW s \in Slug, NEW gone \in BOOLEAN, DownProcess(s, gone) PROVE Moves(s)
<1> DEFINE r == Last(cmd[s].todo)
           owes == IF cmd[s].op = "stop" THEN cmd[s].owed \cup {<<r, "start">>} ELSE cmd[s].owed
           state == IF ~ gone THEN proc[s][r].state
                    ELSE IF cmd[s].op = "stop" THEN "halted" ELSE "stopped"
           c == [cmd[s] EXCEPT !.step = "hook", !.owed = owes]
<1>1. At(s, "down") /\ cmd[s].todo # {} /\ UNCHANGED <<disk, ext, portLock, cut, counts>>
  BY DEF DownProcess
<1>2. cmd[s].op \in {"stop", "drop", "remove"} /\ cmd[s] \in Memory
  BY <1>1, Typed DEF StateInv, Phase, At, Binder, Memory, Commands
<1>3. r \in Resource
  BY <1>1, <1>2, Chosen DEF Memory
<1>4. proc \in [Slug -> [Resource -> Process]]
  BY Typed DEF StateInv
<1>5. Go(s, c) /\ proc' = [proc EXCEPT ![s][r].state = state]
  BY <1>2, <1>3, <1>4 DEF DownProcess, Memory
<1> HIDE DEF r
<1>6. owes \in SUBSET Entry /\ [proc[s][r] EXCEPT !.state = state] \in Process
  BY <1>2, <1>3, <1>4 DEF Memory, Entry, Process
<1>7. proc' = [proc EXCEPT ![s][r] = [proc[s][r] EXCEPT !.state = state]]
  BY <1>3, <1>4, <1>5 DEF Process
<1> HIDE DEF owes, state
<1>8. c \in Memory /\ Phase(c)
  BY <1>2, <1>6 DEF Memory, Phase, Binder
<1> HIDE DEF c
<1> QED
  BY <1>1, <1>3, <1>5, <1>6, <1>7, <1>8, WorldMoves

\* What a visit leaves in memory.
After(c, r, owes, failed, m) ==
    [c EXCEPT !.step = "down", !.todo = @ \ {r}, !.owed = owes, !.failed = failed, !.mem = m]

LEMMA VisitedType ==
    ASSUME StateInv, NEW s \in Slug, NEW op \in {"stop", "drop", "remove"}, NEW r, Visits(s, op, r),
           NEW owes \in SUBSET Entry, NEW failed \in SUBSET Resource, NEW m \in Record
    PROVE  /\ r \in Resource /\ r = Last(cmd[s].todo) /\ cmd[s] \in Memory /\ cmd[s].op = op
           /\ cmd[s].step \in {"down", "hook"} /\ cmd[s].todo \in SUBSET Resource
           /\ After(cmd[s], r, owes, failed, m) \in Memory
           /\ Phase(After(cmd[s], r, owes, failed, m))
<1> DEFINE c == cmd[s]
           todo == c.todo \ {r}
           k == [c EXCEPT !.step = "down", !.todo = todo, !.owed = owes, !.failed = failed, !.mem = m]
<1>1. c \in Memory /\ c.op = op /\ c.todo # {} /\ r = Last(c.todo) /\ c.step \in {"down", "hook"}
  BY Typed DEF StateInv, Visits, At
<1>2. c.todo \in SUBSET Resource /\ todo \in SUBSET Resource
  BY <1>1 DEF Memory
<1>3. r \in Resource
  BY <1>1, <1>2, Chosen
<1> HIDE DEF c, todo, k
<1>4. k \in Memory /\ k.op = c.op /\ k.step = "down"
  BY <1>1, <1>2 DEF Memory, k
<1>5. Phase(k)
  BY <1>1, <1>4 DEF Phase, Binder
<1> QED
  BY <1>1, <1>2, <1>3, <1>4, <1>5 DEF k, c, todo, After

LEMMA StopSuspendMoves ==
    ASSUME StateInv, NEW s \in Slug, NEW ok \in BOOLEAN, StopSuspend(s, ok) PROVE Moves(s)
<1>1. PICK r \in Resource :
          /\ Visits(s, "stop", r)
          /\ \/ /\ SetExt(s, r, "suspended")
                /\ Go(s, [Visited(s, r) EXCEPT !.owed = @ \cup {<<r, "resume">>}])
             \/ Go(s, [Visited(s, r) EXCEPT !.failed = @ \cup {r}]) /\ ext' = ext
             \/ Go(s, Visited(s, r)) /\ ext' = ext
          /\ UNCHANGED <<disk, proc, portLock, cut, counts>>
  BY Zenon DEF StopSuspend
<1> DEFINE c == cmd[s]
           owes == c.owed \cup {<<r, "resume">>}
           failed == c.failed \cup {r}
           next == [c EXCEPT !.step = "down", !.todo = @ \ {r}]
<1>2. c \in Memory /\ Visited(s, r) = next
  BY Typed DEF StateInv, Visited
<1>3. /\ c.owed \in SUBSET Entry /\ c.failed \in SUBSET Resource /\ c.mem \in Record
      /\ owes \in SUBSET Entry /\ failed \in SUBSET Resource
  BY <1>2 DEF Memory, Entry
<1>4. \A o \in SUBSET Entry, f \in SUBSET Resource :
          After(c, r, o, f, c.mem) \in Memory /\ Phase(After(c, r, o, f, c.mem))
  <2>1. \A o \in SUBSET Entry, f \in SUBSET Resource, n \in Record :
            After(c, r, o, f, n) \in Memory /\ Phase(After(c, r, o, f, n))
    BY <1>1, VisitedType, Zenon
  <2> HIDE DEF c
  <2> QED
    BY <1>3, <2>1, Zenon
<1> HIDE DEF c
<1>5. /\ next = After(c, r, c.owed, c.failed, c.mem)
      /\ next.owed = c.owed /\ next.failed = c.failed
      /\ [next EXCEPT !.owed = owes] = After(c, r, owes, c.failed, c.mem)
      /\ [next EXCEPT !.failed = failed] = After(c, r, c.owed, failed, c.mem)
  BY <1>2 DEF After, Memory
<1> HIDE DEF next
<1>6. \E k \in Memory : Phase(k) /\ Go(s, k)
  BY <1>1, <1>2, <1>3, <1>4, <1>5
<1> QED
  BY <1>1, <1>6, WorldMoves DEF Outside

\* A command ends, and the stopped record is saved.
LEMMA OwedMoves ==
    ASSUME StateInv, NEW s \in Slug, NEW c \in Memory, Phase(c), Go(s, c),
           NEW o \in SUBSET Entry, owed' = [owed EXCEPT ![s] = o],
           UNCHANGED <<rec, world, portLock, cut, counts>>
    PROVE  Moves(s)
<1>1. cmd' \in [Slug -> Memory] /\ cmd'[s] = c /\ \A t \in Slug \ {s} : cmd'[t] = cmd[t]
  BY Going DEF StateInv
<1>2. owed' \in [Slug -> SUBSET Entry] /\ \A t \in Slug \ {s} : owed'[t] = owed[t]
  BY Typed DEF StateInv
<1>3. TypeOK'
  BY <1>1, <1>2, Typed, TypedNext DEF StateInv, world, counts
<1> QED
  BY <1>1, <1>2, <1>3 DEF Moves, Elsewhere, world

LEMMA Resting == Rest \in Memory /\ Phase(Rest)
  BY StartType DEF Phase, Rest, Binder

LEMMA OwedDoneMoves ==
    ASSUME StateInv, NEW s \in Slug, StopDone(s) \/ ParkDone(s) \/ StartDone(s) PROVE Moves(s)
<1>1. cmd[s] \in Memory /\ Phase(cmd[s])
  BY Typed DEF StateInv
<1>2. cmd[s].owed \in SUBSET Entry /\ cmd[s].still \in SUBSET Entry
  BY <1>1 DEF Memory
<1>3. CASE StopDone(s)
  BY <1>2, <1>3, Resting, OwedMoves DEF StopDone, Finish
<1>4. CASE ParkDone(s)
  <2> DEFINE c == [cmd[s] EXCEPT !.step = "save"]
  <2>1. c \in Memory /\ Phase(c)
    BY <1>1, <1>4 DEF ParkDone, Memory, Phase, Binder
  <2>2. Go(s, c) /\ owed' = [owed EXCEPT ![s] = cmd[s].owed] /\ UNCHANGED <<rec, world, portLock, cut, counts>>
    BY <1>4 DEF ParkDone
  <2> HIDE DEF c
  <2> QED
    BY <1>2, <2>1, <2>2, OwedMoves
<1>5. CASE StartDone(s)
  BY <1>2, <1>5, Resting, OwedMoves DEF StartDone, Finish
<1> QED
  BY <1>3, <1>4, <1>5

\* What a resource is parked as, and what is left outside.
ParkedAs(s, r, ok) ==
    IF r \in Shared THEN <<"untouched", ext[s][r]>>
    ELSE IF <<r, "resume">> \in cmd[s].owed THEN <<"suspended", ext[s][r]>>
    ELSE IF Suspendable(cmd[s].mem, r)
           THEN IF ok THEN <<"suspended", "suspended">> ELSE <<"untouched", ext[s][r]>>
    ELSE IF r \in Cleans /\ ok THEN <<"cleaned", "absent">>
    ELSE <<"untouched", ext[s][r]>>

LEMMA Parks ==
    ASSUME NEW s \in Slug, NEW ok \in BOOLEAN, Park(s, ok)
    PROVE  \E r \in Resource :
               /\ Visits(s, "drop", r)
               /\ SetExt(s, r, ParkedAs(s, r, ok)[2])
               /\ proc' = [proc EXCEPT ![s][r].state = IF @ = "halted" THEN "stopped" ELSE @]
               /\ Go(s, [Visited(s, r) EXCEPT !.owed = @ \ {<<r, "resume">>, <<r, "start">>},
                                              !.mem = WithState(@, r, ParkedAs(s, r, ok)[1])])
               /\ UNCHANGED <<disk, portLock, cut, counts>>
  BY Zenon DEF Park, ParkedAs

LEMMA ParkMoves ==
    ASSUME StateInv, NEW s \in Slug, NEW ok \in BOOLEAN, Park(s, ok) PROVE Moves(s)
<1>1. PICK r \in Resource :
          /\ Visits(s, "drop", r)
          /\ SetExt(s, r, ParkedAs(s, r, ok)[2])
          /\ proc' = [proc EXCEPT ![s][r].state = IF @ = "halted" THEN "stopped" ELSE @]
          /\ Go(s, [Visited(s, r) EXCEPT !.owed = @ \ {<<r, "resume">>, <<r, "start">>},
                                         !.mem = WithState(@, r, ParkedAs(s, r, ok)[1])])
          /\ UNCHANGED <<disk, portLock, cut, counts>>
  BY Zenon, Parks
<1> DEFINE old == cmd[s]
           state == ParkedAs(s, r, ok)[1]
           v == ParkedAs(s, r, ok)[2]
           owes == old.owed \ {<<r, "resume">>, <<r, "start">>}
           m == WithState(old.mem, r, state)
           c == After(old, r, owes, old.failed, m)
<1>2. old \in Memory /\ ext[s][r] \in Outside
  BY Typed DEF StateInv
<1>3. old.owed \in SUBSET Entry /\ old.failed \in SUBSET Resource /\ old.mem \in Record
  BY <1>2 DEF Memory
<1>4. state \in Parked /\ v \in Outside
  BY <1>2 DEF ParkedAs, Parked, Outside
<1>5. m \in Record /\ owes \in SUBSET Entry
  BY <1>3, <1>4, StateSet
<1>6. c \in Memory /\ Phase(c)
  <2>1. \A o \in SUBSET Entry, f \in SUBSET Resource, n \in Record :
            After(old, r, o, f, n) \in Memory /\ Phase(After(old, r, o, f, n))
    BY <1>1, VisitedType, Zenon
  <2> HIDE DEF m, owes, old
  <2> QED
    BY <1>3, <1>5, <2>1, Zenon
<1>7. Go(s, [[old EXCEPT !.step = "down", !.todo = @ \ {r}] EXCEPT
                 !.owed = @ \ {<<r, "resume">>, <<r, "start">>}, !.mem = WithState(@, r, state)])
  BY <1>1, Zenon DEF Visited
<1> HIDE DEF old
<1>8. [[old EXCEPT !.step = "down", !.todo = @ \ {r}] EXCEPT
                 !.owed = @ \ {<<r, "resume">>, <<r, "start">>}, !.mem = WithState(@, r, state)] = c
  BY <1>2 DEF After, Memory
<1> HIDE DEF owes, m, state, v
<1>9. PICK p \in Process : proc' = [proc EXCEPT ![s][r] = p]
  <2> DEFINE p == [proc[s][r] EXCEPT !.state = IF @ = "halted" THEN "stopped" ELSE @]
  <2>1. proc \in [Slug -> [Resource -> Process]]
    BY Typed DEF StateInv
  <2>2. p \in Process
    BY <2>1 DEF Process
  <2>3. proc' = [proc EXCEPT ![s][r] = p]
    BY <1>1, <2>1 DEF Process
  <2> QED
    BY <2>2, <2>3
<1>10. SetExt(s, r, v)
  BY <1>1 DEF v
<1> HIDE DEF c
<1> QED
  BY <1>1, <1>4, <1>6, <1>7, <1>8, <1>9, <1>10, WorldMoves

LEMMA DropDoneMoves == ASSUME StateInv, NEW s \in Slug, DropDone(s) PROVE Moves(s)
<1>1. cmd[s].mem \in Record
  BY Typed DEF StateInv, Memory
<1> QED
  BY <1>1, EndMoves, Typed DEF DropDone, StateInv

LEMMA RemoveProcessMoves == ASSUME StateInv, NEW s \in Slug, RemoveProcess(s) PROVE Moves(s)
<1>1. PICK r \in Resource : /\ Visits(s, "remove", r) /\ Go(s, Visited(s, r))
                            /\ UNCHANGED <<disk, world, portLock, cut, counts>>
  BY Zenon DEF RemoveProcess
<1> DEFINE c == cmd[s]
<1>2. c \in Memory /\ Visited(s, r) = [c EXCEPT !.step = "down", !.todo = @ \ {r}]
  BY Typed DEF StateInv, Visited
<1>3. c.owed \in SUBSET Entry /\ c.failed \in SUBSET Resource /\ c.mem \in Record
  BY <1>2 DEF Memory
<1>4. \A o \in SUBSET Entry, f \in SUBSET Resource, n \in Record :
          After(c, r, o, f, n) \in Memory /\ Phase(After(c, r, o, f, n))
  BY <1>1, VisitedType, Zenon
<1> HIDE DEF c
<1>5. Visited(s, r) = After(c, r, c.owed, c.failed, c.mem)
  BY <1>2 DEF After, Memory
<1>6. Visited(s, r) \in Memory /\ Phase(Visited(s, r))
  BY <1>3, <1>4, <1>5
<1> QED
  BY <1>1, <1>6, MemoryMoves, Typed DEF disk, StateInv

LEMMA RemoveStoppedMoves == ASSUME StateInv, NEW s \in Slug, RemoveStopped(s) PROVE Moves(s)
<1> DEFINE todo == Teardown(cmd[s].mem) \cap (Cleans \ Shared)
           c == [cmd[s] EXCEPT !.step = "clean", !.todo = todo]
<1>1. /\ cmd[s].op = "remove" /\ Go(s, c)
      /\ UNCHANGED <<disk, world, portLock, cut, counts>>
  BY DEF RemoveStopped
<1>2. cmd[s] \in Memory /\ todo \in SUBSET Resource
  BY Typed DEF StateInv, Teardown
<1> HIDE DEF todo
<1>3. c \in Memory /\ Phase(c)
  BY <1>1, <1>2 DEF Memory, Phase, Binder
<1> HIDE DEF c
<1> QED
  BY <1>1, <1>3, MemoryMoves, Typed DEF disk, StateInv

\* Only `remove` has these steps.
LEMMA Removing ==
    ASSUME StateInv, NEW s \in Slug, At(s, "clean") \/ At(s, "archive")
    PROVE  cmd[s].op = "remove" /\ cmd[s] \in Memory /\ cmd[s].todo \in SUBSET Resource
  BY Typed DEF StateInv, Phase, At, Binder, Memory, Commands

LEMMA RemoveHookMoves ==
    ASSUME StateInv, NEW s \in Slug, NEW ok \in BOOLEAN, RemoveHook(s, ok) PROVE Moves(s)
<1> DEFINE r == Last(cmd[s].todo)
           todo == cmd[s].todo \ {r}
           failed == IF ok THEN cmd[s].failed ELSE cmd[s].failed \cup {r}
           v == IF ok THEN "absent" ELSE ext[s][r]
           c == [cmd[s] EXCEPT !.todo = todo, !.failed = failed]
<1>1. /\ At(s, "clean") /\ cmd[s].todo # {} /\ SetExt(s, r, v)
      /\ UNCHANGED <<disk, proc, portLock, cut, counts>>
  BY DEF RemoveHook
<1>2. cmd[s].op = "remove" /\ cmd[s] \in Memory /\ cmd[s].todo \in SUBSET Resource
  BY <1>1, Removing
<1>3. r \in Resource
  BY <1>1, <1>2, Chosen
<1>4. Go(s, c)
  BY <1>2 DEF RemoveHook, Memory
<1>5. todo \in SUBSET Resource /\ failed \in SUBSET Resource /\ v \in Outside
  BY <1>2, <1>3, Typed DEF Memory, StateInv, Outside
<1> HIDE DEF todo, failed, v, r
<1>6. c \in Memory /\ Phase(c)
  BY <1>1, <1>2, <1>5 DEF Memory, Phase, Binder, At
<1> HIDE DEF c
<1> QED
  BY <1>1, <1>3, <1>4, <1>5, <1>6, WorldMoves

LEMMA RemoveStateMoves == ASSUME StateInv, NEW s \in Slug, RemoveState(s) PROVE Moves(s)
<1> DEFINE c == [cmd[s] EXCEPT !.step = "archive"]
<1>1. /\ At(s, "clean") /\ owed' = [owed EXCEPT ![s] = {}] /\ Go(s, c)
      /\ proc' = [proc EXCEPT ![s] = [r \in Resource |-> NoProc]]
      /\ UNCHANGED <<rec, ext, portLock, cut, counts>>
  BY DEF RemoveState
<1>2. cmd[s].op = "remove" /\ cmd[s] \in Memory
  BY <1>1, Removing
<1>3. c \in Memory /\ Phase(c)
  BY <1>2 DEF Memory, Phase, Binder
<1> HIDE DEF c
<1>4. cmd' \in [Slug -> Memory] /\ cmd'[s] = c /\ \A t \in Slug \ {s} : cmd'[t] = cmd[t]
  BY <1>1, <1>3, Going DEF StateInv
<1>5. owed' \in [Slug -> SUBSET Entry] /\ \A t \in Slug \ {s} : owed'[t] = owed[t]
  BY <1>1, Typed DEF StateInv
<1>6. proc' \in [Slug -> [Resource -> Process]] /\ \A t \in Slug \ {s} : proc'[t] = proc[t]
  <2>1. NoProc \in Process /\ proc \in [Slug -> [Resource -> Process]]
    BY Typed DEF StateInv, NoProc, Process
  <2> HIDE DEF Process
  <2> QED
    BY <1>1, <2>1
<1>7. TypeOK'
  BY <1>1, <1>4, <1>5, <1>6, Typed, TypedNext DEF StateInv, counts
<1> QED
  BY <1>1, <1>3, <1>4, <1>5, <1>6, <1>7 DEF Moves, Elsewhere

LEMMA RemoveRecordMoves == ASSUME StateInv, NEW s \in Slug, RemoveRecord(s) PROVE Moves(s)
<1>1. /\ Save(s, Unspawned) /\ Finish(s) /\ UNCHANGED <<owed, proc, portLock, cut, counts>>
  BY DEF RemoveRecord
<1>2. cmd' \in [Slug -> Memory] /\ cmd'[s] = Rest /\ \A t \in Slug \ {s} : cmd'[t] = cmd[t]
  BY <1>1, Resting, Going DEF StateInv, Finish
<1>3. rec' \in [Slug -> Record] /\ \A t \in Slug \ {s} : rec'[t] = rec[t]
  BY <1>1, StartType, Saving DEF StateInv
<1>4. ext' \in [Slug -> [Resource -> Outside]] /\ \A t \in Slug \ {s} : ext'[t] = ext[t]
  <2>1. ext \in [Slug -> [Resource -> Outside]]
    BY Typed DEF StateInv
  <2>2. \A r \in Resource : (IF r \in cmd[s].failed /\ ext[s][r] # "absent"
                               THEN "left" ELSE ext[s][r]) \in Outside
    BY <2>1 DEF Outside
  <2> HIDE DEF Outside
  <2> QED
    BY <2>1, <2>2 DEF RemoveRecord
<1>5. TypeOK'
  BY <1>1, <1>2, <1>3, <1>4, Typed, TypedNext DEF StateInv, counts
<1> QED
  BY <1>1, <1>2, <1>3, <1>4, <1>5, Resting DEF Moves, Elsewhere

-----------------------------------------------------------------------------
(* Types: bringing back, actions by hand, the world.                       *)

\* An entry `start` comes to.
LEMMA WantedType ==
    ASSUME StateInv, NEW s \in Slug, NEW e \in Entry, Wanted(s, e)
    PROVE  /\ cmd[s].op = "start" /\ cmd[s].step = "up" /\ cmd[s] \in Memory
           /\ e[1] \in Resource /\ e = <<e[1], e[2]>>
           /\ Came(s, e) \in Memory /\ Phase(Came(s, e))
           /\ Failed(s, e) \in Memory /\ Phase(Failed(s, e))
<1> DEFINE old == cmd[s]
           owes == old.owed \ {e}
           still == old.still \cup {e}
           failed == old.failed \cup {e[1]}
           came == [old EXCEPT !.owed = owes]
           fails == [old EXCEPT !.owed = owes, !.still = still, !.failed = failed]
<1>1. /\ old.op = "start" /\ old.step = "up" /\ old \in Memory
      /\ e[1] \in Resource /\ e = <<e[1], e[2]>>
  BY Typed DEF StateInv, Wanted, At, Phase, Binder, Memory, Commands, Entry
<1>2. owes \in SUBSET Entry /\ still \in SUBSET Entry /\ failed \in SUBSET Resource
  BY <1>1 DEF Memory
<1>3. Came(s, e) = came /\ Failed(s, e) = fails
  BY <1>1 DEF Came, Failed, Memory
<1> HIDE DEF old, owes, still, failed
<1>4. came \in Memory /\ Phase(came) /\ fails \in Memory /\ Phase(fails)
  BY <1>1, <1>2 DEF Memory, Phase, Binder
<1> QED
  BY <1>1, <1>3, <1>4 DEF old

LEMMA ResumeMoves ==
    ASSUME StateInv, NEW s \in Slug, NEW ok \in BOOLEAN, Resume(s, ok) PROVE Moves(s)
<1>1. PICK e \in Entry :
          /\ Wanted(s, e)
          /\ \/ SetExt(s, e[1], "up") /\ Go(s, Came(s, e))
             \/ ext' = ext /\ Go(s, Failed(s, e))
          /\ UNCHANGED <<disk, proc, portLock, cut, counts>>
  BY Zenon DEF Resume
<1>2. /\ e[1] \in Resource
      /\ Came(s, e) \in Memory /\ Phase(Came(s, e))
      /\ Failed(s, e) \in Memory /\ Phase(Failed(s, e))
  BY <1>1, WantedType
<1>3. "up" \in Outside
  BY DEF Outside
<1> QED
  BY <1>1, <1>2, <1>3, WorldMoves

LEMMA RestartMoves ==
    ASSUME StateInv, NEW s \in Slug, NEW ok \in BOOLEAN, Restart(s, ok) PROVE Moves(s)
<1>1. PICK e \in Entry :
          /\ Wanted(s, e)
          /\ \/ proc' = proc /\ Go(s, Came(s, e))
             \/ StartProcess(s, e[1], cmd[s].mem) /\ Go(s, Came(s, e))
             \/ proc' = proc /\ Go(s, Failed(s, e))
          /\ UNCHANGED <<disk, ext, portLock, cut, counts>>
  BY Zenon DEF Restart
<1>2. /\ e[1] \in Resource /\ cmd[s] \in Memory
      /\ Came(s, e) \in Memory /\ Phase(Came(s, e))
      /\ Failed(s, e) \in Memory /\ Phase(Failed(s, e))
  BY <1>1, WantedType
<1>3. cmd[s].mem \in Record
  BY <1>2 DEF Memory
<1>4. proc' = proc \/ \E p \in Process : proc' = [proc EXCEPT ![s][e[1]] = p]
  BY <1>1, <1>2, <1>3, Starting DEF StateInv
<1> QED
  BY <1>1, <1>2, <1>4, WorldMoves

\* An action by hand changes the record, the process or what is outside.
LEMMA ByHandMoves ==
    ASSUME StateInv, NEW s \in Slug, NEW r \in Resource, NEW op, ByHand(s, op, r),
           rec' = rec \/ \E m \in Record : Save(s, m),
           \/ proc' = proc
           \/ \E p \in Process : proc' = [proc EXCEPT ![s][r] = p],
           ext' = ext \/ \E v \in Outside : SetExt(s, r, v),
           UNCHANGED <<owed, portLock, cmd, cut, kills, faults>>
    PROVE  Moves(s)
<1>1. rec' \in [Slug -> Record] /\ \A t \in Slug \ {s} : rec'[t] = rec[t]
  BY Saving, Typed DEF StateInv
<1>2. proc' \in [Slug -> [Resource -> Process]] /\ \A t \in Slug \ {s} : proc'[t] = proc[t]
  <2>1. proc \in [Slug -> [Resource -> Process]]
    BY Typed DEF StateInv
  <2> HIDE DEF Process
  <2> QED
    BY <2>1
<1>3. ext' \in [Slug -> [Resource -> Outside]] /\ \A t \in Slug \ {s} : ext'[t] = ext[t]
  <2>1. ext \in [Slug -> [Resource -> Outside]]
    BY Typed DEF StateInv
  <2> HIDE DEF Outside
  <2> QED
    BY <2>1 DEF SetExt
<1>4. commands' \in 0 .. MaxCommand
  BY ResourcesAssumption, Typed DEF StateInv, ByHand, Loaded, Begin
<1>5. TypeOK'
  BY <1>1, <1>2, <1>3, <1>4, Typed, TypedNext DEF StateInv
<1> QED
  BY <1>1, <1>2, <1>3, <1>5 DEF Moves, Elsewhere, StateInv

LEMMA ActPrepareMoves ==
    ASSUME StateInv, NEW s \in Slug, NEW r \in Resource, NEW ok \in BOOLEAN, ActPrepare(s, r, ok)
    PROVE  Moves(s)
<1> DEFINE state == IF ok THEN "ready" ELSE "failed"
           m == IF Bound(rec[s], r) THEN WithState(rec[s], r, state) ELSE rec[s]
<1>1. /\ ByHand(s, "prepare", r) /\ Save(s, m)
      /\ \E value \in Prepared(s, r, ok) : SetExt(s, r, value)
      /\ UNCHANGED <<owed, proc, portLock, cmd, cut, kills, faults>>
  BY Zenon DEF ActPrepare
<1>2. state \in Status /\ rec[s] \in Record
  BY Typed DEF StateInv, Status
<1>3. m \in Record
  BY <1>2, StateSet
<1>4. Prepared(s, r, ok) \subseteq Outside
  BY Typed DEF StateInv, Prepared, Outside
<1> HIDE DEF m
<1> QED
  BY <1>1, <1>3, <1>4, ByHandMoves

LEMMA ActStartMoves == ASSUME StateInv, NEW s \in Slug, NEW r \in Resource, ActStart(s, r) PROVE Moves(s)
<1>1. rec[s] \in Record
  BY Typed DEF StateInv
<1>2. \E p \in Process : proc' = [proc EXCEPT ![s][r] = p]
  BY <1>1, Starting DEF ActStart, StateInv
<1> QED
  BY <1>2, ByHandMoves DEF ActStart, disk

LEMMA ActStopMoves == ASSUME StateInv, NEW s \in Slug, NEW r \in Resource, ActStop(s, r) PROVE Moves(s)
<1> DEFINE q == [proc[s][r] EXCEPT !.state = "stopped"]
<1>1. \E p \in Process : proc' = [proc EXCEPT ![s][r] = p]
  <2>1. proc \in [Slug -> [Resource -> Process]] /\ proc' = [proc EXCEPT ![s][r].state = "stopped"]
    BY Typed DEF StateInv, ActStop
  <2>2. q \in Process
    <3> DEFINE p == proc[s][r]
    <3>1. p \in Process
      BY <2>1
    <3> HIDE DEF p
    <3>2. \A x \in Process : [x EXCEPT !.state = "stopped"] \in Process
      BY DEF Process
    <3> QED
      BY <3>1, <3>2 DEF p
  <2>3. proc' = [proc EXCEPT ![s][r] = q]
    BY <2>1 DEF Process
  <2> QED
    BY <2>2, <2>3
<1> QED
  BY <1>1, ByHandMoves DEF ActStop, disk

LEMMA DieMoves == ASSUME StateInv, NEW s \in Slug, NEW r \in Resource, Die(s, r) PROVE Moves(s)
<1> DEFINE q == [proc[s][r] EXCEPT !.state = "died"]
<1>1. \E p \in Process : proc' = [proc EXCEPT ![s][r] = p]
  <2>1. proc \in [Slug -> [Resource -> Process]] /\ proc' = [proc EXCEPT ![s][r].state = "died"]
    BY Typed DEF StateInv, Die
  <2>2. q \in Process
    <3> DEFINE p == proc[s][r]
    <3>1. p \in Process
      BY <2>1
    <3> HIDE DEF p
    <3>2. \A x \in Process : [x EXCEPT !.state = "died"] \in Process
      BY DEF Process
    <3> QED
      BY <3>1, <3>2 DEF p
  <2>3. proc' = [proc EXCEPT ![s][r] = q]
    BY <2>1 DEF Process
  <2> QED
    BY <2>2, <2>3
<1>2. proc' \in [Slug -> [Resource -> Process]] /\ \A t \in Slug \ {s} : proc'[t] = proc[t]
  <2>1. proc \in [Slug -> [Resource -> Process]]
    BY Typed DEF StateInv
  <2> HIDE DEF Process
  <2> QED
    BY <1>1, <2>1
<1>3. TypeOK'
  BY <1>2, Typed, TypedNext DEF StateInv, Die, disk, counts
<1> QED
  BY <1>2, <1>3 DEF Moves, Elsewhere, StateInv, Die, disk

LEMMA KillMoves == ASSUME StateInv, NEW s \in Slug, Kill(s) PROVE Moves(s)
<1>1. /\ cmd' \in [Slug -> Memory] /\ cmd'[s] = Rest /\ Phase(Rest)
      /\ \A t \in Slug \ {s} : cmd'[t] = cmd[t]
  BY FinishMoves DEF Kill
<1>2. cmd[s].op \in Commands
  BY Typed DEF StateInv, Memory, Kill
<1>3. cut' \in [Slug -> SUBSET Commands] /\ \A t \in Slug \ {s} : cut'[t] = cut[t]
  BY <1>2, Typed DEF StateInv, Kill
<1>4. kills' \in 0 .. MaxKill
  BY ResourcesAssumption, Typed DEF StateInv, Kill
<1>5. TypeOK'
  BY <1>1, <1>3, <1>4, Typed, TypedNext DEF StateInv, Kill, disk, world
<1> QED
  BY <1>1, <1>3, <1>5 DEF Moves, Elsewhere, Kill, disk, world

LEMMA StepMoves ==
    ASSUME StateInv, NEW s \in Slug, Step(s) \/ Give(s) \/ Kill(s) \/ \E r \in Resource : Die(s, r)
    PROVE  Moves(s)
<1>1. CASE BindNext(s) \/ ReadClaims(s) \/ SaveClaim(s)
  BY <1>1, BindNextMoves, ReadClaimsMoves, SaveClaimMoves
<1>2. CASE RenderFails(s) \/ RunHook(s) \/ Withhold(s) \/ NothingToRun(s)
  BY <1>2, RenderMoves, RunHookMoves
<1>3. CASE NoPortLeft(s) \/ BindError(s) \/ BindDone(s) \/ BootDone(s)
  BY <1>3, NoPortLeftMoves, BindErrorMoves, BindDoneMoves, BootDoneMoves
<1>4. CASE \E ok \in BOOLEAN : HookEnds(s, ok) \/ Boot(s, ok)
  BY <1>4, HookEndsMoves, BootMoves
<1>5. CASE StopDone(s) \/ ParkDone(s) \/ DropDone(s)
  BY <1>5, OwedDoneMoves, DropDoneMoves
<1>6. CASE RemoveProcess(s) \/ RemoveStopped(s) \/ RemoveState(s) \/ RemoveRecord(s)
  BY <1>6, RemoveProcessMoves, RemoveStoppedMoves, RemoveStateMoves, RemoveRecordMoves
<1>7. CASE \E ok \in BOOLEAN : DownProcess(s, ok) \/ StopSuspend(s, ok) \/ Park(s, ok) \/ RemoveHook(s, ok)
  BY <1>7, DownProcessMoves, StopSuspendMoves, ParkMoves, RemoveHookMoves
<1>8. CASE StartDone(s) \/ \E ok \in BOOLEAN : Resume(s, ok) \/ Restart(s, ok)
  BY <1>8, OwedDoneMoves, ResumeMoves, RestartMoves
<1>9. CASE \E d \in BOOLEAN, only \in {{}, Resource} : Spawn(s, d, only)
  BY <1>9, SpawnMoves
<1>10. CASE Use(s) \/ Drop(s) \/ Stop(s) \/ Start(s) \/ Remove(s)
  BY <1>10, UseMoves, DropMoves, StopMoves, StartMoves, RemoveMoves
<1>11. CASE \E r \in Resource : Rebind(s, r) \/ ActStart(s, r) \/ ActStop(s, r) \/ Die(s, r)
  BY <1>11, RebindMoves, ActStartMoves, ActStopMoves, DieMoves
<1>12. CASE \E r \in Resource, ok \in BOOLEAN : ActPrepare(s, r, ok)
  BY <1>12, ActPrepareMoves
<1>13. CASE Kill(s)
  BY <1>13, KillMoves
<1> QED
  BY <1>1, <1>2, <1>3, <1>4, <1>5, <1>6, <1>7, <1>8, <1>9, <1>10, <1>11, <1>12, <1>13
     DEF Step, Bind, TakeDown, BringBack, Give

LEMMA StateNext == StateInv /\ [Next]_vars => StateInv'
<1> SUFFICES ASSUME StateInv, [Next]_vars PROVE StateInv'
  OBVIOUS
<1>1. CASE UNCHANGED vars
  BY <1>1, Typed, TypedNext DEF StateInv, vars, disk, world, counts
<1>2. CASE Next
  <2>1. PICK s \in Slug : Step(s) \/ Give(s) \/ Kill(s) \/ \E r \in Resource : Die(s, r)
    BY <1>2 DEF Next
  <2>2. Moves(s)
    BY <2>1, StepMoves
  <2> QED
    BY <2>2 DEF Moves, Elsewhere, StateInv
<1> QED
  BY <1>1, <1>2

LEMMA StateInit == Init => StateInv
<1> SUFFICES ASSUME Init PROVE StateInv
  OBVIOUS
<1>1. NoProc \in Process /\ "absent" \in Outside /\ Rest \in Memory /\ Phase(Rest) /\ Unspawned \in Record
  BY StartType, Resting DEF NoProc, Process, Outside
<1>2. MaxCommand \in Nat /\ MaxKill \in Nat /\ MaxFault \in Nat
  BY ResourcesAssumption
<1>3. TypeOK
  <2> HIDE DEF Process, Outside
  <2> QED
    BY <1>1, <1>2, Typed DEF Init
<1> QED
  BY <1>1, <1>3 DEF StateInv, Init

LEMMA StateCorrect == Spec => []StateInv
  BY StateInit, StateNext, PTL DEF Spec

\* Every record, process and command keeps to its shape, in every interleaving
\* of commands, kills and I/O errors (TypeOK); in particular a command's hook,
\* claim and render steps always have a resource they are about.
THEOREM TypeCorrect == Spec => []TypeOK
<1>1. StateInv => TypeOK
  BY DEF StateInv
<1> QED
  BY <1>1, StateCorrect, PTL

-----------------------------------------------------------------------------
(* What each step does to its instance: binding.                           *)

SameDisk(s)  == rec'[s] = rec[s] /\ owed'[s] = owed[s]
SameWorld(s) == proc'[s] = proc[s] /\ ext'[s] = ext[s]

\* What a command that binds keeps in memory.
BindKeeps(s) ==
    LET c == cmd[s]
        d == cmd'[s]
    IN  /\ c.op \in Binder /\ d.op = c.op /\ d.only = c.only
        /\ d.prev = c.prev /\ d.owed = c.owed /\ d.still = c.still

\* n is m with one slot set.
SlotIs(n, m, r, state, port) ==
    /\ n.here = m.here /\ n.dropped = m.dropped
    /\ n.slot[r].state = state /\ n.slot[r].port = port
    /\ \A q \in Resource \ {r} : n.slot[q] = m.slot[q]

Inserted(s, r, port) ==
    /\ BindKeeps(s) /\ cmd'[s].step = "render" /\ cmd'[s].at = r
    /\ SlotIs(cmd'[s].mem, cmd[s].mem, r, "pending", port)
SettledAs(s, state) ==
    /\ BindKeeps(s) /\ cmd'[s].step = "bind"
    /\ SlotIs(cmd'[s].mem, cmd[s].mem, cmd[s].at, state, cmd[s].mem.slot[cmd[s].at].port)

LEMMA GoIs == ASSUME TypeOK, NEW s \in Slug, NEW k, Go(s, k) PROVE cmd'[s] = k
  BY MemoryType DEF Go

LEMMA SaveIs == ASSUME TypeOK, NEW s \in Slug, NEW m, Save(s, m) PROVE rec'[s] = m
  BY DEF TypeOK, Save

LEMMA InsertIs ==
    ASSUME StateInv, NEW s \in Slug, cmd[s].op \in Binder, NEW r \in Resource,
           NEW port \in Port \cup {NoPort}, Go(s, Insert(s, r, port))
    PROVE  Inserted(s, r, port)
<1> DEFINE old == cmd[s]
           new == Insert(s, r, port)
           slot == [state |-> "pending", port |-> port]
           m == WithSlot(old.mem, r, slot)
           again == old.mem.slot[r].state = "suspended" /\ r \in Suspends
<1>1. old \in Memory /\ old.mem \in Record /\ old.op \in Binder
  BY Typed DEF StateInv, Memory
<1>2. slot \in Slot
  BY DEF Slot, Status
<1>3. SlotIs(m, old.mem, r, "pending", port)
  <2> HIDE DEF slot
  <2>1. /\ m.here = old.mem.here /\ m.dropped = old.mem.dropped
        /\ \A q \in Resource : m.slot[q] = IF q = r THEN slot ELSE old.mem.slot[q]
    BY <1>1, <1>2, SlotSet
  <2> QED
    BY <2>1 DEF SlotIs, slot
<1>4. new = [old EXCEPT !.step = "render", !.at = r, !.port = NoPort,
                        !.mem = m, !.again = again]
  BY <1>1 DEF Insert, Memory
<1>5. cmd'[s] = new
  BY GoIs DEF StateInv
<1> HIDE DEF m, again, old, new
<1>6. /\ new.op = old.op /\ new.step = "render" /\ new.at = r /\ new.only = old.only
      /\ new.prev = old.prev /\ new.owed = old.owed /\ new.still = old.still /\ new.mem = m
  BY <1>1, <1>4 DEF Memory
<1> QED
  BY <1>1, <1>3, <1>5, <1>6 DEF old, Inserted, BindKeeps

LEMMA SettledIs ==
    ASSUME StateInv, NEW s \in Slug, cmd[s].op \in Binder, cmd[s].at \in Resource,
           NEW state \in Status, Go(s, Settled(s, state))
    PROVE  SettledAs(s, state)
<1> DEFINE old == cmd[s]
           new == Settled(s, state)
           m == WithState(old.mem, old.at, state)
<1>1. old \in Memory /\ old.mem \in Record /\ old.op \in Binder
  BY Typed DEF StateInv, Memory
<1>2. SlotIs(m, old.mem, old.at, state, old.mem.slot[old.at].port)
  BY <1>1, StateSet DEF SlotIs
<1>3. new = [old EXCEPT !.step = "bind", !.at = "none", !.again = FALSE, !.mem = m]
  BY <1>1 DEF Settled, Memory
<1>4. cmd'[s] = new
  BY GoIs DEF StateInv
<1> HIDE DEF m, old, new
<1>5. /\ new.op = old.op /\ new.step = "bind" /\ new.only = old.only
      /\ new.prev = old.prev /\ new.owed = old.owed /\ new.still = old.still /\ new.mem = m
  BY <1>1, <1>3 DEF Memory
<1> QED
  BY <1>1, <1>2, <1>4, <1>5 DEF old, SettledAs, BindKeeps

\* The resource a bind comes to is one it has still to visit.
LEMMA Visiting ==
    ASSUME StateInv, NEW s \in Slug, NEW r, Binds(s, r)
    PROVE  /\ r \in Unbound(cmd[s].mem) /\ r \in Resource
           /\ cmd[s].op \in Binder /\ cmd[s].step = "bind" /\ cmd[s].mem \in Record
<1>1. cmd[s].op \in Binder /\ cmd[s] \in Memory
  BY Binding DEF Binds
<1>2. Unbound(cmd[s].mem) \in SUBSET Resource
  BY DEF Unbound
<1>3. r \in Unbound(cmd[s].mem)
  BY <1>2, Chosen DEF Binds
<1> QED
  BY <1>1, <1>2, <1>3 DEF Binds, At, Memory

LEMMA BindNextDoes ==
    ASSUME StateInv, NEW s \in Slug, BindNext(s)
    PROVE  /\ \E r \in Unbound(cmd[s].mem) :
                  /\ cmd[s].step = "bind" /\ ~ NeedsPort(s, r)
                  /\ Inserted(s, r, cmd[s].mem.slot[r].port)
           /\ SameDisk(s) /\ SameWorld(s) /\ cut'[s] = cut[s] /\ portLock' = portLock
<1>1. PICK r \in Resource : /\ Binds(s, r) /\ ~ NeedsPort(s, r)
                            /\ Go(s, Insert(s, r, cmd[s].mem.slot[r].port))
                            /\ UNCHANGED <<disk, world, portLock, cut, counts>>
  BY DEF BindNext
<1>2. r \in Unbound(cmd[s].mem) /\ cmd[s].op \in Binder /\ cmd[s].step = "bind" /\ cmd[s].mem \in Record
  BY <1>1, Visiting
<1>3. cmd[s].mem.slot[r].port \in Port \cup {NoPort}
  BY <1>2, SlotType
<1>4. Inserted(s, r, cmd[s].mem.slot[r].port)
  BY <1>1, <1>2, <1>3, InsertIs
<1> QED
  BY <1>1, <1>2, <1>4 DEF SameDisk, SameWorld, disk, world

LEMMA ReadClaimsDoes ==
    ASSUME StateInv, NEW s \in Slug, ReadClaims(s)
    PROVE  /\ \E r \in Unbound(cmd[s].mem), p \in Port \ UsedPorts :
                  /\ cmd[s].step = "bind" /\ NeedsPort(s, r) /\ BindKeeps(s)
                  /\ cmd'[s].step = "claim" /\ cmd'[s].at = r /\ cmd'[s].port = p
                  /\ cmd'[s].mem = cmd[s].mem
           /\ portLock = "free" /\ portLock' = s
           /\ SameDisk(s) /\ SameWorld(s) /\ cut'[s] = cut[s]
<1> SUFFICES ASSUME NEW r \in Resource, NEW p \in Port \ UsedPorts,
                    Binds(s, r), NeedsPort(s, r), portLock = "free", portLock' = s,
                    Go(s, [cmd[s] EXCEPT !.step = "claim", !.at = r, !.port = p]),
                    UNCHANGED <<disk, world, cut, counts>>
             PROVE  /\ r \in Unbound(cmd[s].mem) /\ cmd[s].step = "bind" /\ BindKeeps(s)
                    /\ cmd'[s].step = "claim" /\ cmd'[s].at = r /\ cmd'[s].port = p
                    /\ cmd'[s].mem = cmd[s].mem
                    /\ SameDisk(s) /\ SameWorld(s) /\ cut'[s] = cut[s]
  BY Zenon DEF ReadClaims
<1> DEFINE old == cmd[s]
           new == [old EXCEPT !.step = "claim", !.at = r, !.port = p]
<1>1. r \in Unbound(old.mem) /\ old.op \in Binder /\ old.step = "bind"
  BY Visiting
<1>2. old \in Memory /\ cmd'[s] = new
  BY Typed, GoIs DEF StateInv
<1> HIDE DEF old
<1>3. /\ new.op = old.op /\ new.step = "claim" /\ new.at = r /\ new.port = p /\ new.only = old.only
      /\ new.prev = old.prev /\ new.owed = old.owed /\ new.still = old.still /\ new.mem = old.mem
  BY <1>2 DEF Memory
<1> HIDE DEF new
<1> QED
  BY <1>1, <1>2, <1>3 DEF old, BindKeeps, SameDisk, SameWorld, disk, world

LEMMA SaveClaimDoes ==
    ASSUME StateInv, NEW s \in Slug, SaveClaim(s)
    PROVE  /\ cmd[s].step = "claim" /\ cmd[s].at \in Resource /\ Inserted(s, cmd[s].at, cmd[s].port)
           /\ rec'[s] = cmd'[s].mem /\ owed'[s] = owed[s]
           /\ SameWorld(s) /\ cut'[s] = cut[s] /\ portLock' = "free"
<1> DEFINE new == Insert(s, cmd[s].at, cmd[s].port)
<1>1. /\ At(s, "claim") /\ Save(s, new.mem) /\ Go(s, new) /\ portLock' = "free"
      /\ UNCHANGED <<owed, world, cut, counts>>
  BY DEF SaveClaim
<1>2. cmd[s].op \in Binder /\ cmd[s] \in Memory
  BY <1>1, Binding
<1>3. cmd[s].at \in Resource /\ cmd[s].port \in Port \cup {NoPort}
  BY <1>1, <1>2 DEF StateInv, Phase, At, Memory
<1>4. Inserted(s, cmd[s].at, cmd[s].port)
  BY <1>1, <1>2, <1>3, InsertIs
<1> HIDE DEF new
<1>5. rec'[s] = new.mem /\ cmd'[s] = new
  BY <1>1, GoIs, SaveIs DEF StateInv
<1> QED
  BY <1>1, <1>3, <1>4, <1>5 DEF At, SameWorld, world

\* A render, or a hook, is over.
LEMMA AtSettled ==
    ASSUME StateInv, NEW s \in Slug, NEW state \in Status, Go(s, Settled(s, state)),
           At(s, "render") \/ At(s, "resume") \/ At(s, "prepare")
    PROVE  SettledAs(s, state) /\ cmd[s].at \in Resource
<1>1. cmd[s].op \in Binder
  BY Binding
<1>2. cmd[s].at \in Resource
  BY DEF StateInv, Phase, At
<1> QED
  BY <1>1, <1>2, SettledIs

LEMMA RenderDoes ==
    ASSUME StateInv, NEW s \in Slug, RenderFails(s) \/ Withhold(s) \/ NothingToRun(s)
    PROVE  /\ cmd[s].step = "render" /\ cmd[s].at \in Resource
           /\ \/ SettledAs(s, "failed") /\ rec'[s] = rec[s]
              \/ SettledAs(s, "pending") /\ rec'[s] = cmd[s].mem
              \/ SettledAs(s, "ready") /\ rec'[s] = cmd[s].mem /\ cmd[s].at \notin Prepares
           /\ owed'[s] = owed[s] /\ SameWorld(s) /\ cut'[s] = cut[s] /\ portLock' = portLock
<1>1. "failed" \in Status /\ "pending" \in Status /\ "ready" \in Status
  BY DEF Status
<1>2. At(s, "render") /\ UNCHANGED <<owed, world, portLock, cut>>
  BY DEF RenderFails, Withhold, NothingToRun, disk
<1>3. CASE RenderFails(s)
  <2>1. SettledAs(s, "failed") /\ cmd[s].at \in Resource
    BY <1>1, <1>2, <1>3, AtSettled DEF RenderFails
  <2> QED
    BY <1>2, <1>3, <2>1 DEF RenderFails, At, SameWorld, world, disk
<1>4. CASE Withhold(s)
  <2>1. SettledAs(s, "pending") /\ cmd[s].at \in Resource
    BY <1>1, <1>2, <1>4, AtSettled DEF Withhold
  <2>2. rec'[s] = cmd[s].mem
    BY <1>4, SaveIs DEF Withhold, StateInv
  <2> QED
    BY <1>2, <2>1, <2>2 DEF At, SameWorld, world
<1>5. CASE NothingToRun(s)
  <2>1. SettledAs(s, "ready") /\ cmd[s].at \in Resource /\ cmd[s].at \notin Prepares
    BY <1>1, <1>2, <1>5, AtSettled DEF NothingToRun
  <2>2. rec'[s] = cmd[s].mem
    BY <1>5, SaveIs DEF NothingToRun, StateInv
  <2> QED
    BY <1>2, <2>1, <2>2 DEF At, SameWorld, world
<1> QED
  BY <1>3, <1>4, <1>5

LEMMA RunHookDoes ==
    ASSUME StateInv, NEW s \in Slug, RunHook(s)
    PROVE  /\ cmd[s].step = "render" /\ cmd[s].at \in Resource /\ BindKeeps(s)
           /\ cmd'[s].step \in {"resume", "prepare"}
           /\ cmd'[s].at = cmd[s].at /\ cmd'[s].mem = cmd[s].mem /\ rec'[s] = cmd[s].mem
           /\ owed'[s] = owed[s] /\ SameWorld(s) /\ cut'[s] = cut[s] /\ portLock' = portLock
<1> DEFINE old == cmd[s]
           step == IF old.again THEN "resume" ELSE "prepare"
           new == [old EXCEPT !.step = step]
<1>1. /\ At(s, "render") /\ Save(s, old.mem) /\ Go(s, new)
      /\ UNCHANGED <<owed, world, portLock, cut, counts>>
  BY DEF RunHook
<1>2. old.op \in Binder /\ old \in Memory
  BY <1>1, Binding
<1>3. old.at \in Resource
  BY <1>1, <1>2 DEF StateInv, Phase, At
<1>4. cmd'[s] = new /\ rec'[s] = old.mem /\ step \in {"resume", "prepare"} /\ old.step = "render"
  BY <1>1, GoIs, SaveIs DEF StateInv, At
<1> HIDE DEF old, step
<1>5. /\ new.op = old.op /\ new.step = step /\ new.at = old.at /\ new.only = old.only
      /\ new.prev = old.prev /\ new.owed = old.owed /\ new.still = old.still /\ new.mem = old.mem
  BY <1>2 DEF Memory
<1> HIDE DEF new
<1> QED
  BY <1>1, <1>2, <1>3, <1>4, <1>5 DEF old, BindKeeps, SameWorld, world

LEMMA HookEndsDoes ==
    ASSUME StateInv, NEW s \in Slug, NEW ok \in BOOLEAN, HookEnds(s, ok)
    PROVE  /\ cmd[s].step \in {"resume", "prepare"} /\ cmd[s].at \in Resource
           /\ \/ SettledAs(s, "ready") /\ ext'[s][cmd[s].at] = "up"
              \/ SettledAs(s, "failed") /\ ext'[s][cmd[s].at] \in {"up", ext[s][cmd[s].at]}
           /\ \A q \in Resource \ {cmd[s].at} : ext'[s][q] = ext[s][q]
           /\ SameDisk(s) /\ proc'[s] = proc[s] /\ cut'[s] = cut[s] /\ portLock' = portLock
<1> DEFINE state == IF ok THEN "ready" ELSE "failed"
           r == cmd[s].at
<1>1. /\ At(s, "resume") \/ At(s, "prepare")
      /\ Go(s, Settled(s, state)) /\ UNCHANGED <<disk, proc, portLock, cut, counts>>
  BY DEF HookEnds
<1>2. state \in Status
  BY DEF Status
<1>3. SettledAs(s, state) /\ r \in Resource
  BY <1>1, <1>2, AtSettled
<1>4. PICK v : SetExt(s, r, v) /\ v \in IF ok THEN {"up"} ELSE {"up", ext[s][r]}
  BY DEF HookEnds, Prepared
<1> HIDE DEF r
<1>5. ext'[s][r] = v /\ \A q \in Resource \ {r} : ext'[s][q] = ext[s][q]
  BY <1>3, <1>4, Typed DEF SetExt, StateInv
<1> QED
  BY <1>1, <1>3, <1>4, <1>5 DEF At, SameDisk, disk, r

\* A bind that ends with an error leaves the record, unless it is a rebind.
LEMMA GiveUpDoes ==
    ASSUME StateInv, NEW s \in Slug, GiveUp(s)
    PROVE  /\ cmd'[s] = Rest /\ owed'[s] = owed[s] /\ SameWorld(s) /\ portLock' = portLock
           /\ ~ (cmd[s].op = "rebind" /\ cmd[s].prev # NoSlot) => rec'[s] = rec[s] /\ cut'[s] = cut[s]
<1>1. cmd'[s] = Rest
  BY FinishMoves DEF GiveUp
<1>2. ~ (cmd[s].op = "rebind" /\ cmd[s].prev # NoSlot) => rec' = rec /\ cut'[s] = cut[s]
  BY Typed DEF GiveUp, StateInv
<1>3. UNCHANGED <<owed, proc, ext, portLock>>
  BY DEF GiveUp, world
<1> QED
  BY <1>1, <1>2, <1>3 DEF SameWorld

LEMMA GiveUpRebindDoes ==
    ASSUME StateInv, NEW s \in Slug, GiveUp(s), NEW r \in Resource, cmd[s].only = {r},
           cmd[s].op = "rebind", cmd[s].prev # NoSlot
    PROVE  LET c == cmd[s]
           IN  /\ IF Bound(c.mem, r) THEN rec'[s] = rec[s]
                                     ELSE SlotIs(rec'[s], c.mem, r, c.prev.state, c.prev.port)
               /\ cut'[s] = IF Bound(rec'[s], r) THEN cut[s] ELSE cut[s] \cup {"rebind"}
<1>1. cmd[s].mem \in Record /\ cmd[s].prev \in Slot
  BY Typed DEF StateInv, Memory
<1>2. r = CHOOSE q \in cmd[s].only : TRUE
  OBVIOUS
<1>3. cut'[s] = IF Bound(rec'[s], r) THEN cut[s] ELSE cut[s] \cup {"rebind"}
  BY <1>2, Typed DEF GiveUp, StateInv
<1>4. CASE Bound(cmd[s].mem, r)
  BY <1>2, <1>3, <1>4 DEF GiveUp
<1>5. CASE ~ Bound(cmd[s].mem, r)
  <2>1. rec'[s] = WithSlot(cmd[s].mem, r, cmd[s].prev)
    BY <1>2, <1>5, SaveIs DEF GiveUp, StateInv
  <2> HIDE DEF Slot
  <2>2. /\ rec'[s].here = cmd[s].mem.here /\ rec'[s].dropped = cmd[s].mem.dropped
        /\ \A q \in Resource : rec'[s].slot[q] = IF q = r THEN cmd[s].prev ELSE cmd[s].mem.slot[q]
    BY <1>1, <2>1, SlotSet
  <2>3. SlotIs(rec'[s], cmd[s].mem, r, cmd[s].prev.state, cmd[s].prev.port)
    BY <2>2 DEF SlotIs
  <2> QED
    BY <1>3, <1>5, <2>3
<1> QED
  BY <1>4, <1>5

\* Where a bind may end with an error.
LEMMA GivesUp ==
    ASSUME StateInv, NEW s \in Slug, NoPortLeft(s) \/ BindError(s)
    PROVE  /\ GiveUp(s) /\ cmd[s].op \in Binder
           /\ \/ cmd[s].step = "bind" /\ Unbound(cmd[s].mem) # {}
              \/ cmd[s].step \in {"resume", "prepare"}
<1>1. GiveUp(s) /\ \/ \E r \in Resource : Binds(s, r)
                   \/ At(s, "resume") \/ At(s, "prepare")
  BY DEF NoPortLeft, BindError
<1>2. cmd[s].op \in Binder
  BY <1>1, Binding DEF Binds
<1> QED
  BY <1>1, <1>2 DEF Binds, At

LEMMA BindDoneDoes ==
    ASSUME StateInv, NEW s \in Slug, BindDone(s)
    PROVE  /\ cmd[s].op \in Binder /\ cmd[s].step = "bind" /\ Unbound(cmd[s].mem) = {}
           /\ rec'[s] = cmd[s].mem /\ owed'[s] = owed[s]
           /\ cmd'[s].op = cmd[s].op /\ cmd'[s].step = "boot" /\ cmd'[s].mem = cmd[s].mem
           /\ cmd'[s].only = cmd[s].only /\ cmd'[s].prev = NoSlot
           /\ cmd'[s].owed = cmd[s].owed /\ cmd'[s].still = cmd[s].still
           /\ SameWorld(s) /\ cut'[s] = cut[s] /\ portLock' = portLock
<1> DEFINE old == cmd[s]
           todo == {r \in old.only \cap Autostarts :
                       Bound(old.mem, r) /\ (old.op = "rebind" => Ready(old.mem, r))}
           new == [old EXCEPT !.step = "boot", !.prev = NoSlot, !.todo = todo]
<1>1. /\ At(s, "bind") /\ Unbound(old.mem) = {} /\ Save(s, old.mem) /\ Go(s, new)
      /\ UNCHANGED <<owed, world, portLock, cut, counts>>
  BY DEF BindDone
<1>2. old.op \in Binder /\ old \in Memory
  BY <1>1, Binding
<1>3. cmd'[s] = new /\ rec'[s] = old.mem /\ old.step = "bind"
  BY <1>1, GoIs, SaveIs DEF StateInv, At
<1> HIDE DEF old, todo
<1>4. /\ new.op = old.op /\ new.step = "boot" /\ new.only = old.only /\ new.prev = NoSlot
      /\ new.owed = old.owed /\ new.still = old.still /\ new.mem = old.mem
  BY <1>2 DEF Memory
<1> HIDE DEF new
<1> QED
  BY <1>1, <1>2, <1>3, <1>4 DEF old, SameWorld, world

\* A process' new state and port, and what is outside.
ProcIs(s, r, state, port) ==
    /\ proc'[s][r].state = state /\ proc'[s][r].port = port
    /\ \A q \in Resource \ {r} : proc'[s][q] = proc[s][q]
ExtIs(s, r, v) == ext'[s][r] = v /\ \A q \in Resource \ {r} : ext'[s][q] = ext[s][q]

LEMMA StartingIs ==
    ASSUME TypeOK, NEW s \in Slug, NEW r \in Resource, NEW m, StartProcess(s, r, m)
    PROVE  ProcIs(s, r, "running", m.slot[r].port)
  BY Typed DEF StartProcess, ProcIs

LEMMA SettingIs ==
    ASSUME TypeOK, NEW s \in Slug, NEW r \in Resource, NEW v, SetExt(s, r, v)
    PROVE  ExtIs(s, r, v)
  BY Typed DEF SetExt, ExtIs

LEMMA BootDoes ==
    ASSUME StateInv, NEW s \in Slug, NEW ok \in BOOLEAN, Boot(s, ok)
    PROVE  /\ cmd[s].step = "boot" /\ cmd'[s].step = "boot" /\ BindKeeps(s)
           /\ cmd'[s].mem = cmd[s].mem
           /\ \/ proc'[s] = proc[s]
              \/ \E r \in Resource :
                     /\ ~ Running(s, r) /\ BlockedBy(cmd[s].mem, r) = {} /\ Ready(cmd[s].mem, r)
                     /\ ProcIs(s, r, "running", cmd[s].mem.slot[r].port)
           /\ SameDisk(s) /\ ext'[s] = ext[s] /\ cut'[s] = cut[s] /\ portLock' = portLock
<1> DEFINE old == cmd[s]
           r == First(old.todo)
           todo == old.todo \ {r}
           failed == old.failed \cup {r}
           next == [old EXCEPT !.todo = todo]
           fails == [old EXCEPT !.todo = todo, !.failed = failed]
<1>1. At(s, "boot") /\ old.todo # {} /\ UNCHANGED <<disk, ext, portLock, cut, counts>>
  BY DEF Boot
<1>2. old.op \in Binder /\ old \in Memory
  BY <1>1, Binding
<1>3. r \in Resource
  BY <1>1, <1>2, Chosen DEF Memory
<1>4. [next EXCEPT !.failed = @ \cup {r}] = fails
  <2> HIDE DEF r
  <2> QED
    BY <1>2 DEF Memory
<1>5. /\ Go(s, next) \/ Go(s, fails)
      /\ \/ proc' = proc
         \/ ~ Running(s, r) /\ BlockedBy(old.mem, r) = {} /\ Ready(old.mem, r) /\ StartProcess(s, r, old.mem)
  BY <1>4 DEF Boot
<1>6. cmd'[s] = next \/ cmd'[s] = fails
  BY <1>5, GoIs DEF StateInv
<1>7. proc' = proc \/ ( /\ ~ Running(s, r) /\ BlockedBy(old.mem, r) = {} /\ Ready(old.mem, r)
                        /\ ProcIs(s, r, "running", old.mem.slot[r].port))
  BY <1>3, <1>5, StartingIs DEF StateInv
<1> HIDE DEF old, r, todo, failed
<1>8. \A k \in {next, fails} :
          /\ k.op = old.op /\ k.step = old.step /\ k.only = old.only /\ k.prev = old.prev
          /\ k.owed = old.owed /\ k.still = old.still /\ k.mem = old.mem
  BY <1>2 DEF Memory
<1> HIDE DEF next, fails
<1> QED
  BY <1>1, <1>2, <1>3, <1>6, <1>7, <1>8 DEF old, At, BindKeeps, SameDisk, disk

\* A command ends and leaves everything as it is.
LEMMA BootDoneDoes ==
    ASSUME StateInv, NEW s \in Slug, BootDone(s)
    PROVE  /\ cmd[s].step = "boot" /\ cmd[s].op \in Binder /\ cmd'[s] = Rest
           /\ SameDisk(s) /\ SameWorld(s) /\ cut'[s] = cut[s] /\ portLock' = portLock
<1>1. cmd[s].op \in Binder
  BY Binding DEF BootDone
<1> QED
  BY <1>1, FinishMoves DEF BootDone, At, SameDisk, SameWorld, disk, world

-----------------------------------------------------------------------------
(* What each step does to its instance: a command begins.                  *)

\* A command on an instance, from rest.
Begins(s, op) == cmd[s].op = "idle" /\ cmd'[s].op = op /\ portLock' = portLock

LEMMA SpawnDoes ==
    ASSUME StateInv, NEW s \in Slug, NEW dropped \in BOOLEAN, NEW only \in {{}, Resource},
           Spawn(s, dropped, only)
    PROVE  /\ Begins(s, "spawn") /\ ~ rec[s].here /\ cmd'[s].step = "bind"
           /\ cmd'[s].mem = rec'[s] /\ rec'[s].here /\ \A r \in Resource : rec'[s].slot[r] = NoSlot
           /\ cmd'[s].owed = {} /\ cmd'[s].prev = NoSlot
           /\ owed'[s] = owed[s] /\ proc'[s] = proc[s] /\ cut'[s] = {}
           /\ \A r \in Resource : ext'[s][r] = IF ext[s][r] = "absent" THEN "absent" ELSE "left"
<1> DEFINE m == [Unspawned EXCEPT !.here = TRUE, !.dropped = dropped]
           c == [Rest EXCEPT !.op = "spawn", !.step = "bind", !.mem = m, !.only = only]
<1>1. m.here /\ \A r \in Resource : m.slot[r] = NoSlot
  BY DEF Unspawned
<1> HIDE DEF m
<1>2. c.op = "spawn" /\ c.step = "bind" /\ c.mem = m /\ c.owed = {} /\ c.prev = NoSlot
  BY DEF Rest
<1>3. Begin(s, "spawn") /\ ~ rec[s].here /\ Go(s, c) /\ Save(s, m)
  BY DEF Spawn, m, c
<1>4. cmd'[s] = c /\ rec'[s] = m
  BY <1>3, GoIs, SaveIs DEF StateInv
<1>5. /\ cut'[s] = {} /\ \A r \in Resource : ext'[s][r] = IF ext[s][r] = "absent" THEN "absent" ELSE "left"
      /\ UNCHANGED <<owed, proc, portLock>>
  BY Typed DEF StateInv, Spawn
<1> QED
  BY <1>1, <1>2, <1>3, <1>4, <1>5 DEF Begins, Begin

LEMMA UseDoes ==
    ASSUME StateInv, NEW s \in Slug, Use(s)
    PROVE  /\ Begins(s, "use") /\ rec[s].here /\ rec[s].dropped /\ cmd'[s].step = "bind"
           /\ cmd'[s].mem = rec'[s] /\ rec'[s].here /\ ~ rec'[s].dropped /\ rec'[s].slot = rec[s].slot
           /\ cmd'[s].owed = {} /\ cmd'[s].prev = NoSlot
           /\ owed'[s] = owed[s] /\ SameWorld(s) /\ cut'[s] = cut[s]
<1> DEFINE m == [rec[s] EXCEPT !.dropped = FALSE]
           only == Unbound(m)
           c == [Rest EXCEPT !.op = "use", !.step = "bind", !.mem = m, !.only = only]
<1>1. m.here = rec[s].here /\ m.slot = rec[s].slot /\ ~ m.dropped
  BY Typed DEF StateInv, Record
<1>2. /\ Begin(s, "use") /\ rec[s].here /\ rec[s].dropped /\ Go(s, c) /\ Save(s, m)
      /\ UNCHANGED <<owed, world, portLock, cut, kills, faults>>
  BY DEF Use, Loaded
<1> HIDE DEF m, only
<1>3. c.op = "use" /\ c.step = "bind" /\ c.mem = m /\ c.owed = {} /\ c.prev = NoSlot
  BY DEF Rest
<1> HIDE DEF c
<1>4. cmd'[s] = c /\ rec'[s] = m
  BY <1>2, GoIs, SaveIs DEF StateInv
<1> QED
  BY <1>1, <1>2, <1>3, <1>4 DEF Begins, Begin, SameWorld, world

LEMMA RebindDoes ==
    ASSUME StateInv, NEW s \in Slug, NEW r \in Resource, Rebind(s, r)
    PROVE  /\ Begins(s, "rebind") /\ rec[s].here /\ Active(rec[s], r) /\ ~ Running(s, r)
           /\ cmd'[s].step = "bind" /\ cmd'[s].mem = rec'[s] /\ cmd'[s].only = {r}
           /\ \/ /\ Bound(rec[s], r) /\ cmd'[s].prev = rec[s].slot[r]
                 /\ SlotIs(rec'[s], rec[s], r, "none", NoPort)
              \/ ~ Bound(rec[s], r) /\ cmd'[s].prev = NoSlot /\ rec'[s] = rec[s]
           /\ cmd'[s].owed = {} /\ owed'[s] = owed[s] /\ SameWorld(s) /\ cut'[s] = cut[s]
<1> DEFINE m == IF Bound(rec[s], r) THEN WithSlot(rec[s], r, NoSlot) ELSE rec[s]
           prev == IF Bound(rec[s], r) THEN rec[s].slot[r] ELSE NoSlot
           c == [Rest EXCEPT !.op = "rebind", !.step = "bind", !.mem = m, !.only = {r}, !.prev = prev]
<1>1. /\ Begin(s, "rebind") /\ rec[s].here /\ Active(rec[s], r) /\ ~ Running(s, r) /\ Go(s, c) /\ Save(s, m)
      /\ UNCHANGED <<owed, world, portLock, cut, kills, faults>>
  BY DEF Rebind, Loaded
<1>2. \/ /\ Bound(rec[s], r) /\ prev = rec[s].slot[r]
         /\ SlotIs(m, rec[s], r, "none", NoPort)
      \/ ~ Bound(rec[s], r) /\ prev = NoSlot /\ m = rec[s]
  <2>1. rec[s] \in Record
    BY Typed DEF StateInv
  <2>2. SlotIs(WithSlot(rec[s], r, NoSlot), rec[s], r, "none", NoPort)
    <3> DEFINE n == WithSlot(rec[s], r, NoSlot)
    <3>1. /\ n.here = rec[s].here /\ n.dropped = rec[s].dropped
          /\ \A q \in Resource : n.slot[q] = IF q = r THEN NoSlot ELSE rec[s].slot[q]
      BY <2>1, StartType, SlotSet
    <3> HIDE DEF n
    <3>2. NoSlot.state = "none" /\ NoSlot.port = NoPort
      BY DEF NoSlot
    <3> QED
      BY <3>1, <3>2 DEF SlotIs, n
  <2> QED
    BY <2>2
<1> HIDE DEF m, prev
<1>3. c.op = "rebind" /\ c.step = "bind" /\ c.mem = m /\ c.owed = {} /\ c.prev = prev /\ c.only = {r}
  BY DEF Rest
<1> HIDE DEF c
<1>4. cmd'[s] = c /\ rec'[s] = m
  BY <1>1, GoIs, SaveIs DEF StateInv
<1> QED
  BY <1>1, <1>2, <1>3, <1>4 DEF Begins, Begin, SameWorld, world

LEMMA StopDoes ==
    ASSUME StateInv, NEW s \in Slug, Stop(s)
    PROVE  /\ Begins(s, "stop") /\ rec[s].here /\ cmd'[s].step = "down"
           /\ cmd'[s].mem = rec[s] /\ cmd'[s].owed = owed[s]
           /\ SameDisk(s) /\ SameWorld(s) /\ cut'[s] = cut[s]
<1> DEFINE todo == {r \in Resource : Running(s, r) \/ Suspendable(rec[s], r)}
           c == [Rest EXCEPT !.op = "stop", !.step = "down", !.mem = rec[s],
                             !.owed = owed[s], !.todo = todo]
<1>1. /\ Begin(s, "stop") /\ rec[s].here /\ Go(s, c)
      /\ UNCHANGED <<disk, world, portLock, cut, kills, faults>>
  BY DEF Stop, Loaded
<1> HIDE DEF todo
<1>2. c.op = "stop" /\ c.step = "down" /\ c.mem = rec[s] /\ c.owed = owed[s]
  BY DEF Rest
<1> HIDE DEF c
<1>3. cmd'[s] = c
  BY <1>1, GoIs DEF StateInv
<1> QED
  BY <1>1, <1>2, <1>3 DEF Begins, Begin, SameDisk, SameWorld, disk, world

LEMMA DropDoes ==
    ASSUME StateInv, NEW s \in Slug, Drop(s)
    PROVE  /\ Begins(s, "drop") /\ rec[s].here /\ cmd'[s].step = "down"
           /\ cmd'[s].mem.here /\ cmd'[s].mem.slot = rec[s].slot /\ cmd'[s].owed = owed[s]
           /\ SameDisk(s) /\ SameWorld(s) /\ cut'[s] = cut[s]
<1> DEFINE m == [rec[s] EXCEPT !.dropped = TRUE]
           todo == {r \in Resource : Bound(m, r) /\ ~ Active(m, r)}
           c == [Rest EXCEPT !.op = "drop", !.step = "down", !.mem = m,
                             !.owed = owed[s], !.todo = todo]
<1>1. m.here = rec[s].here /\ m.slot = rec[s].slot
  BY Typed DEF StateInv, Record
<1>2. /\ Begin(s, "drop") /\ rec[s].here /\ Go(s, c)
      /\ UNCHANGED <<disk, world, portLock, cut, kills, faults>>
  BY DEF Drop, Loaded
<1> HIDE DEF m, todo
<1>3. c.op = "drop" /\ c.step = "down" /\ c.mem = m /\ c.owed = owed[s]
  BY DEF Rest
<1> HIDE DEF c
<1>4. cmd'[s] = c
  BY <1>2, GoIs DEF StateInv
<1> QED
  BY <1>1, <1>2, <1>3, <1>4 DEF Begins, Begin, SameDisk, SameWorld, disk, world

LEMMA RemoveDoes ==
    ASSUME StateInv, NEW s \in Slug, Remove(s)
    PROVE  /\ Begins(s, "remove") /\ rec[s].here /\ cmd'[s].step = "down"
           /\ cmd'[s].mem = rec[s] /\ cmd'[s].owed = {}
           /\ SameDisk(s) /\ SameWorld(s) /\ cut'[s] = cut[s]
<1> DEFINE todo == {r \in Resource : Running(s, r)}
           c == [Rest EXCEPT !.op = "remove", !.step = "down", !.mem = rec[s], !.todo = todo]
<1>1. /\ Begin(s, "remove") /\ rec[s].here /\ Go(s, c)
      /\ UNCHANGED <<disk, world, portLock, cut, kills, faults>>
  BY DEF Remove, Loaded
<1> HIDE DEF todo
<1>2. c.op = "remove" /\ c.step = "down" /\ c.mem = rec[s] /\ c.owed = {}
  BY DEF Rest
<1> HIDE DEF c
<1>3. cmd'[s] = c
  BY <1>1, GoIs DEF StateInv
<1> QED
  BY <1>1, <1>2, <1>3 DEF Begins, Begin, SameDisk, SameWorld, disk, world

LEMMA StartDoes ==
    ASSUME StateInv, NEW s \in Slug, Start(s)
    PROVE  /\ Begins(s, "start") /\ rec[s].here /\ cmd'[s].step = "up"
           /\ cmd'[s].mem = rec[s] /\ owed[s] \subseteq cmd'[s].owed
           /\ \A r \in Resource : <<r, "resume">> \in cmd'[s].owed => <<r, "resume">> \in owed[s]
           /\ SameDisk(s) /\ SameWorld(s) /\ cut'[s] = cut[s]
<1> DEFINE died == {r \in Autostarts : Bound(rec[s], r) /\ proc[s][r].state = "died"}
           entries == owed[s] \cup (died \X {"start"})
           c == [Rest EXCEPT !.op = "start", !.step = "up", !.mem = rec[s], !.owed = entries]
<1>1. /\ Begin(s, "start") /\ rec[s].here /\ Go(s, c)
      /\ UNCHANGED <<disk, world, portLock, cut, kills, faults>>
  BY DEF Start, Loaded
<1>2. /\ owed[s] \subseteq entries
      /\ \A r \in Resource : <<r, "resume">> \in entries => <<r, "resume">> \in owed[s]
  OBVIOUS
<1> HIDE DEF entries
<1>3. c.op = "start" /\ c.step = "up" /\ c.mem = rec[s] /\ c.owed = entries
  BY DEF Rest
<1> HIDE DEF c
<1>4. cmd'[s] = c
  BY <1>1, GoIs DEF StateInv
<1> QED
  BY <1>1, <1>2, <1>3, <1>4 DEF Begins, Begin, SameDisk, SameWorld, disk, world

-----------------------------------------------------------------------------
(* What each step does to its instance: taking down.                       *)

LEMMA DownProcessDoes ==
    ASSUME StateInv, NEW s \in Slug, NEW gone \in BOOLEAN, DownProcess(s, gone)
    PROVE  /\ cmd[s].op \in {"stop", "drop", "remove"} /\ cmd[s].step = "down"
           /\ cmd'[s].op = cmd[s].op /\ cmd'[s].step = "hook" /\ cmd'[s].mem = cmd[s].mem
           /\ \E r \in Resource :
                  /\ Running(s, r)
                  /\ \/ ProcIs(s, r, "running", proc[s][r].port)
                     \/ ProcIs(s, r, IF cmd[s].op = "stop" THEN "halted" ELSE "stopped", proc[s][r].port)
                  /\ cmd'[s].owed = IF cmd[s].op = "stop" THEN cmd[s].owed \cup {<<r, "start">>}
                                                          ELSE cmd[s].owed
           /\ SameDisk(s) /\ ext'[s] = ext[s] /\ cut'[s] = cut[s] /\ portLock' = portLock
<1> DEFINE old == cmd[s]
           r == Last(old.todo)
           owes == IF old.op = "stop" THEN old.owed \cup {<<r, "start">>} ELSE old.owed
           state == IF ~ gone THEN proc[s][r].state
                    ELSE IF old.op = "stop" THEN "halted" ELSE "stopped"
           c == [old EXCEPT !.step = "hook", !.owed = owes]
<1>1. At(s, "down") /\ old.todo # {} /\ Running(s, r) /\ UNCHANGED <<disk, ext, portLock, cut, counts>>
  BY DEF DownProcess
<1>2. old.op \in {"stop", "drop", "remove"} /\ old \in Memory /\ old.step = "down"
  BY <1>1, Typed DEF StateInv, Phase, At, Binder, Memory, Commands
<1>3. r \in Resource
  BY <1>1, <1>2, Chosen DEF Memory
<1>4. proc \in [Slug -> [Resource -> Process]]
  BY Typed DEF StateInv
<1>5. Go(s, c) /\ proc' = [proc EXCEPT ![s][r].state = state]
  BY <1>2, <1>3, <1>4 DEF DownProcess, Memory
<1>6. cmd'[s] = c
  BY <1>5, GoIs DEF StateInv
<1>7. /\ state = "running" \/ state = IF old.op = "stop" THEN "halted" ELSE "stopped"
  BY <1>1 DEF Running
<1> HIDE DEF r, state
<1>8. ProcIs(s, r, state, proc[s][r].port)
  BY <1>3, <1>4, <1>5 DEF ProcIs, Process
<1>9. c.op = old.op /\ c.step = "hook" /\ c.mem = old.mem /\ c.owed = owes
  <2> HIDE DEF owes, old
  <2> QED
    BY <1>2 DEF Memory
<1> HIDE DEF c
<1> QED
  BY <1>1, <1>2, <1>3, <1>6, <1>7, <1>8, <1>9 DEF SameDisk, disk

LEMMA StopSuspendDoes ==
    ASSUME StateInv, NEW s \in Slug, NEW ok \in BOOLEAN, StopSuspend(s, ok)
    PROVE  /\ cmd[s].op = "stop" /\ cmd[s].step \in {"down", "hook"}
           /\ cmd'[s].op = "stop" /\ cmd'[s].step = "down" /\ cmd'[s].mem = cmd[s].mem
           /\ \/ \E r \in Resource :
                     /\ Suspendable(cmd[s].mem, r)
                     /\ ExtIs(s, r, "suspended")
                     /\ cmd'[s].owed = cmd[s].owed \cup {<<r, "resume">>}
              \/ ext'[s] = ext[s] /\ cmd'[s].owed = cmd[s].owed
           /\ SameDisk(s) /\ proc'[s] = proc[s] /\ cut'[s] = cut[s] /\ portLock' = portLock
<1>1. PICK r \in Resource :
          /\ Visits(s, "stop", r)
          /\ \/ /\ Suspendable(cmd[s].mem, r)
                /\ SetExt(s, r, "suspended")
                /\ Go(s, [Visited(s, r) EXCEPT !.owed = @ \cup {<<r, "resume">>}])
             \/ Go(s, [Visited(s, r) EXCEPT !.failed = @ \cup {r}]) /\ ext' = ext
             \/ Go(s, Visited(s, r)) /\ ext' = ext
          /\ UNCHANGED <<disk, proc, portLock, cut, counts>>
  BY Zenon DEF StopSuspend
<1> DEFINE c == cmd[s]
<1>2. /\ c \in Memory /\ Visited(s, r) = [c EXCEPT !.step = "down", !.todo = @ \ {r}]
      /\ c.op = "stop" /\ c.step \in {"down", "hook"}
  BY <1>1, Typed DEF StateInv, Visited, Visits, At
<1> HIDE DEF c
<1>3. /\ Visited(s, r) = After(c, r, c.owed, c.failed, c.mem)
      /\ [Visited(s, r) EXCEPT !.owed = @ \cup {<<r, "resume">>}]
           = After(c, r, c.owed \cup {<<r, "resume">>}, c.failed, c.mem)
      /\ [Visited(s, r) EXCEPT !.failed = @ \cup {r}] = After(c, r, c.owed, c.failed \cup {r}, c.mem)
  <2>1. [c EXCEPT !.step = "down", !.todo = @ \ {r}] = After(c, r, c.owed, c.failed, c.mem)
    BY <1>2 DEF Memory, After
  <2>2. [[c EXCEPT !.step = "down", !.todo = @ \ {r}] EXCEPT !.owed = @ \cup {<<r, "resume">>}]
          = After(c, r, c.owed \cup {<<r, "resume">>}, c.failed, c.mem)
    BY <1>2 DEF Memory, After
  <2>3. [[c EXCEPT !.step = "down", !.todo = @ \ {r}] EXCEPT !.failed = @ \cup {r}]
          = After(c, r, c.owed, c.failed \cup {r}, c.mem)
    BY <1>2 DEF Memory, After
  <2>4. Visited(s, r) = [c EXCEPT !.step = "down", !.todo = @ \ {r}]
    BY <1>2
  <2> QED
    BY <2>1, <2>2, <2>3, <2>4, Zenon
<1>4. \A o, f : LET k == After(c, r, o, f, c.mem)
                IN  k.op = "stop" /\ k.step = "down" /\ k.mem = c.mem /\ k.owed = o
  BY <1>2 DEF Memory, After
<1>5. CASE /\ Suspendable(cmd[s].mem, r) /\ SetExt(s, r, "suspended")
           /\ Go(s, [Visited(s, r) EXCEPT !.owed = @ \cup {<<r, "resume">>}])
  <2>1. cmd'[s] = After(c, r, c.owed \cup {<<r, "resume">>}, c.failed, c.mem)
    BY <1>3, <1>5, GoIs DEF StateInv
  <2>2. ExtIs(s, r, "suspended")
    BY <1>5, SettingIs DEF StateInv
  <2> QED
    BY <1>1, <1>2, <1>4, <1>5, <2>1, <2>2 DEF c, SameDisk, disk
<1>6. CASE Go(s, [Visited(s, r) EXCEPT !.failed = @ \cup {r}]) /\ ext' = ext
  <2>1. cmd'[s] = After(c, r, c.owed, c.failed \cup {r}, c.mem)
    BY <1>3, <1>6, GoIs DEF StateInv
  <2> QED
    BY <1>1, <1>2, <1>4, <1>6, <2>1 DEF c, SameDisk, disk
<1>7. CASE Go(s, Visited(s, r)) /\ ext' = ext
  <2>1. cmd'[s] = After(c, r, c.owed, c.failed, c.mem)
    BY <1>3, <1>7, GoIs DEF StateInv
  <2> QED
    BY <1>1, <1>2, <1>4, <1>7, <2>1 DEF c, SameDisk, disk
<1> QED
  BY <1>1, <1>5, <1>6, <1>7

LEMMA ParkDoes ==
    ASSUME StateInv, NEW s \in Slug, NEW ok \in BOOLEAN, Park(s, ok)
    PROVE  /\ cmd[s].op = "drop" /\ cmd[s].step \in {"down", "hook"}
           /\ cmd'[s].op = "drop" /\ cmd'[s].step = "down"
           /\ \E r \in Resource :
                  /\ SlotIs(cmd'[s].mem, cmd[s].mem, r, ParkedAs(s, r, ok)[1], cmd[s].mem.slot[r].port)
                  /\ ExtIs(s, r, ParkedAs(s, r, ok)[2])
                  /\ ProcIs(s, r, IF proc[s][r].state = "halted" THEN "stopped" ELSE proc[s][r].state,
                            proc[s][r].port)
                  /\ cmd'[s].owed = cmd[s].owed \ {<<r, "resume">>, <<r, "start">>}
           /\ SameDisk(s) /\ cut'[s] = cut[s] /\ portLock' = portLock
<1>1. PICK r \in Resource :
          /\ Visits(s, "drop", r)
          /\ SetExt(s, r, ParkedAs(s, r, ok)[2])
          /\ proc' = [proc EXCEPT ![s][r].state = IF @ = "halted" THEN "stopped" ELSE @]
          /\ Go(s, [Visited(s, r) EXCEPT !.owed = @ \ {<<r, "resume">>, <<r, "start">>},
                                         !.mem = WithState(@, r, ParkedAs(s, r, ok)[1])])
          /\ UNCHANGED <<disk, portLock, cut, counts>>
  BY Zenon, Parks
<1> DEFINE old == cmd[s]
           state == ParkedAs(s, r, ok)[1]
           m == WithState(old.mem, r, state)
           new == [[old EXCEPT !.step = "down", !.todo = @ \ {r}] EXCEPT
                      !.owed = @ \ {<<r, "resume">>, <<r, "start">>}, !.mem = WithState(@, r, state)]
<1>2. old \in Memory /\ old.mem \in Record /\ old.op = "drop" /\ old.step \in {"down", "hook"}
  BY <1>1, Typed DEF StateInv, Memory, Visits, At
<1>3. state \in Parked
  BY DEF ParkedAs, Parked
<1>4. SlotIs(m, old.mem, r, state, old.mem.slot[r].port)
  <2> HIDE DEF old, state
  <2>1. state \in {"none"} \cup Status \cup Parked
    BY <1>3
  <2> QED
    BY <1>2, <2>1, StateSet DEF SlotIs
<1>5. Go(s, new)
  BY <1>1, Zenon DEF Visited
<1>6. cmd'[s] = new
  BY <1>5, GoIs DEF StateInv
<1>7. ProcIs(s, r, IF proc[s][r].state = "halted" THEN "stopped" ELSE proc[s][r].state, proc[s][r].port)
  BY <1>1, Typed DEF ProcIs, Process, StateInv
<1>8. ExtIs(s, r, ParkedAs(s, r, ok)[2])
  BY <1>1, SettingIs DEF StateInv
<1> HIDE DEF old, state
<1>9. /\ new.op = old.op /\ new.step = "down" /\ new.mem = m
      /\ new.owed = old.owed \ {<<r, "resume">>, <<r, "start">>}
  BY <1>2 DEF Memory
<1> HIDE DEF new, m
<1> QED
  BY <1>1, <1>2, <1>4, <1>6, <1>7, <1>8, <1>9 DEF old, state, SameDisk, disk

LEMMA StopDoneDoes ==
    ASSUME StateInv, NEW s \in Slug, StopDone(s)
    PROVE  /\ cmd[s].op = "stop" /\ cmd'[s] = Rest
           /\ owed'[s] = cmd[s].owed /\ rec'[s] = rec[s]
           /\ SameWorld(s) /\ cut'[s] = cut[s] /\ portLock' = portLock
  BY FinishMoves, Typed DEF StopDone, SameWorld, world, StateInv

LEMMA StartDoneDoes ==
    ASSUME StateInv, NEW s \in Slug, StartDone(s)
    PROVE  /\ cmd[s].op = "start" /\ cmd[s].owed = {} /\ cmd'[s] = Rest
           /\ owed'[s] = cmd[s].still /\ rec'[s] = rec[s]
           /\ SameWorld(s) /\ cut'[s] = cut[s] /\ portLock' = portLock
<1>1. cmd[s].op = "start"
  BY Typed DEF StartDone, At, StateInv, Phase, Binder, Memory, Commands
<1> QED
  BY <1>1, FinishMoves, Typed DEF StartDone, SameWorld, world, StateInv

LEMMA ParkDoneDoes ==
    ASSUME StateInv, NEW s \in Slug, ParkDone(s)
    PROVE  /\ cmd[s].op = "drop" /\ cmd[s].step = "down"
           /\ cmd'[s].op = "drop" /\ cmd'[s].step = "save" /\ cmd'[s].mem = cmd[s].mem
           /\ cmd'[s].owed = cmd[s].owed /\ owed'[s] = cmd[s].owed /\ rec'[s] = rec[s]
           /\ SameWorld(s) /\ cut'[s] = cut[s] /\ portLock' = portLock
<1> DEFINE old == cmd[s]
           new == [old EXCEPT !.step = "save"]
<1>1. old \in Memory /\ cmd'[s] = new /\ old.op = "drop" /\ old.step = "down"
  BY GoIs, Typed DEF ParkDone, StateInv, At
<1> HIDE DEF old
<1>2. new.op = old.op /\ new.step = "save" /\ new.mem = old.mem /\ new.owed = old.owed
  BY <1>1 DEF Memory
<1> HIDE DEF new
<1> QED
  BY <1>1, <1>2, Typed DEF old, ParkDone, SameWorld, world, StateInv

LEMMA DropDoneDoes ==
    ASSUME StateInv, NEW s \in Slug, DropDone(s)
    PROVE  /\ cmd[s].op = "drop" /\ cmd[s].step = "save" /\ cmd'[s] = Rest
           /\ rec'[s] = cmd[s].mem /\ owed'[s] = owed[s]
           /\ SameWorld(s) /\ cut'[s] = cut[s] /\ portLock' = portLock
<1>1. cmd[s].op = "drop" /\ cmd[s].step = "save"
  BY Typed DEF DropDone, At, StateInv, Phase, Binder, Memory, Commands
<1> QED
  BY <1>1, FinishMoves, SaveIs DEF DropDone, SameWorld, world, StateInv

LEMMA RemoveProcessDoes ==
    ASSUME StateInv, NEW s \in Slug, RemoveProcess(s)
    PROVE  /\ cmd[s].op = "remove" /\ cmd[s].step \in {"down", "hook"}
           /\ cmd'[s].op = "remove" /\ cmd'[s].step = "down"
           /\ cmd'[s].mem = cmd[s].mem /\ cmd'[s].owed = cmd[s].owed
           /\ SameDisk(s) /\ SameWorld(s) /\ cut'[s] = cut[s] /\ portLock' = portLock
<1>1. PICK r \in Resource : /\ Visits(s, "remove", r) /\ Go(s, Visited(s, r))
                            /\ UNCHANGED <<disk, world, portLock, cut, counts>>
  BY Zenon DEF RemoveProcess
<1> DEFINE c == cmd[s]
           new == [c EXCEPT !.step = "down", !.todo = @ \ {r}]
<1>2. /\ c \in Memory /\ cmd'[s] = new /\ c.op = "remove" /\ c.step \in {"down", "hook"}
  BY <1>1, GoIs, Typed DEF StateInv, Visited, Visits, At
<1> HIDE DEF c
<1>3. new.op = c.op /\ new.step = "down" /\ new.mem = c.mem /\ new.owed = c.owed
  BY <1>2 DEF Memory
<1> HIDE DEF new
<1> QED
  BY <1>1, <1>2, <1>3 DEF c, SameDisk, SameWorld, disk, world

LEMMA RemoveStoppedDoes ==
    ASSUME StateInv, NEW s \in Slug, RemoveStopped(s)
    PROVE  /\ cmd[s].op = "remove" /\ cmd[s].step = "down"
           /\ cmd'[s].op = "remove" /\ cmd'[s].step = "clean"
           /\ cmd'[s].mem = cmd[s].mem /\ cmd'[s].owed = cmd[s].owed
           /\ cmd'[s].todo = Teardown(cmd[s].mem) \cap (Cleans \ Shared)
           /\ SameDisk(s) /\ SameWorld(s) /\ cut'[s] = cut[s] /\ portLock' = portLock
<1> DEFINE c == cmd[s]
           todo == Teardown(c.mem) \cap (Cleans \ Shared)
           new == [c EXCEPT !.step = "clean", !.todo = todo]
<1>1. /\ c \in Memory /\ cmd'[s] = new /\ c.op = "remove" /\ c.step = "down"
  BY GoIs, Typed DEF StateInv, RemoveStopped, At
<1> HIDE DEF c, todo
<1>2. new.op = c.op /\ new.step = "clean" /\ new.mem = c.mem /\ new.owed = c.owed /\ new.todo = todo
  BY <1>1 DEF Memory
<1> HIDE DEF new
<1> QED
  BY <1>1, <1>2 DEF c, todo, RemoveStopped, SameDisk, SameWorld, disk, world

LEMMA RemoveHookDoes ==
    ASSUME StateInv, NEW s \in Slug, NEW ok \in BOOLEAN, RemoveHook(s, ok)
    PROVE  /\ cmd[s].op = "remove" /\ cmd[s].step = "clean"
           /\ cmd'[s].op = "remove" /\ cmd'[s].step = "clean"
           /\ cmd'[s].mem = cmd[s].mem /\ cmd'[s].owed = cmd[s].owed
           /\ \E r \in cmd[s].todo :
                  /\ r \in Resource /\ cmd'[s].todo = cmd[s].todo \ {r}
                  /\ \/ ExtIs(s, r, "absent") /\ cmd'[s].failed = cmd[s].failed
                     \/ ExtIs(s, r, ext[s][r]) /\ cmd'[s].failed = cmd[s].failed \cup {r}
           /\ SameDisk(s) /\ proc'[s] = proc[s] /\ cut'[s] = cut[s] /\ portLock' = portLock
<1> DEFINE c == cmd[s]
           r == Last(c.todo)
           todo == c.todo \ {r}
           failed == IF ok THEN c.failed ELSE c.failed \cup {r}
           v == IF ok THEN "absent" ELSE ext[s][r]
           new == [c EXCEPT !.todo = todo, !.failed = failed]
<1>1. /\ At(s, "clean") /\ c.todo # {} /\ SetExt(s, r, v)
      /\ UNCHANGED <<disk, proc, portLock, cut, counts>>
  BY DEF RemoveHook
<1>2. c.op = "remove" /\ c \in Memory /\ c.todo \in SUBSET Resource
  BY <1>1, Removing
<1>3. r \in c.todo /\ r \in Resource
  BY <1>1, <1>2, Chosen
<1>4. Go(s, new)
  BY <1>2 DEF RemoveHook, Memory
<1>5. cmd'[s] = new /\ c.step = "clean"
  BY <1>1, <1>4, GoIs DEF StateInv, At
<1>6. ExtIs(s, r, v)
  <2> HIDE DEF v, r
  <2> QED
    BY <1>1, <1>3, SettingIs DEF StateInv
<1>7. \/ v = "absent" /\ failed = c.failed
      \/ v = ext[s][r] /\ failed = c.failed \cup {r}
  OBVIOUS
<1> HIDE DEF c, r, todo, failed, v
<1>8. /\ new.op = c.op /\ new.step = c.step /\ new.mem = c.mem /\ new.owed = c.owed
      /\ new.todo = todo /\ new.failed = failed
  BY <1>2 DEF Memory
<1> HIDE DEF new
<1> QED
  BY <1>1, <1>2, <1>3, <1>5, <1>6, <1>7, <1>8 DEF c, todo, SameDisk, disk

LEMMA RemoveStateDoes ==
    ASSUME StateInv, NEW s \in Slug, RemoveState(s)
    PROVE  /\ cmd[s].op = "remove" /\ cmd[s].step = "clean" /\ cmd[s].todo = {}
           /\ cmd'[s].op = "remove" /\ cmd'[s].step = "archive"
           /\ cmd'[s].mem = cmd[s].mem /\ cmd'[s].owed = cmd[s].owed /\ cmd'[s].failed = cmd[s].failed
           /\ owed'[s] = {} /\ \A r \in Resource : proc'[s][r] = NoProc
           /\ rec'[s] = rec[s] /\ ext'[s] = ext[s] /\ cut'[s] = cut[s] /\ portLock' = portLock
<1> DEFINE c == cmd[s]
           new == [c EXCEPT !.step = "archive"]
<1>1. c.op = "remove" /\ c \in Memory /\ c.step = "clean"
  BY Removing DEF RemoveState, At
<1>2. cmd'[s] = new
  BY GoIs DEF RemoveState, StateInv
<1> HIDE DEF c
<1>3. /\ new.op = c.op /\ new.step = "archive" /\ new.mem = c.mem /\ new.owed = c.owed
      /\ new.failed = c.failed
  BY <1>1 DEF Memory
<1> HIDE DEF new
<1>4. owed'[s] = {} /\ \A r \in Resource : proc'[s][r] = NoProc
  BY Typed DEF RemoveState, StateInv
<1> QED
  BY <1>1, <1>2, <1>3, <1>4 DEF c, RemoveState

LEMMA RemoveRecordDoes ==
    ASSUME StateInv, NEW s \in Slug, RemoveRecord(s)
    PROVE  /\ cmd[s].op = "remove" /\ cmd[s].step = "archive" /\ cmd'[s] = Rest
           /\ rec'[s] = Unspawned /\ owed'[s] = owed[s] /\ proc'[s] = proc[s]
           /\ \A r \in Resource : ext'[s][r] = IF r \in cmd[s].failed /\ ext[s][r] # "absent"
                                                 THEN "left" ELSE ext[s][r]
           /\ cut'[s] = cut[s] /\ portLock' = portLock
<1>1. cmd[s].op = "remove" /\ cmd[s].step = "archive"
  BY Removing DEF RemoveRecord, At
<1>2. cmd'[s] = Rest /\ rec'[s] = Unspawned
  BY FinishMoves, SaveIs DEF RemoveRecord, StateInv
<1> QED
  BY <1>1, <1>2, Typed DEF RemoveRecord, StateInv

-----------------------------------------------------------------------------
(* What each step does to its instance: bringing back, actions by hand.    *)

\* An entry of a start came back, or failed and stays owed.
StartKeeps(s, e) ==
    /\ cmd[s].op = "start" /\ cmd'[s].op = "start" /\ cmd'[s].step = "up"
    /\ cmd'[s].mem = cmd[s].mem /\ cmd'[s].owed = cmd[s].owed \ {e}
CameIs(s, e) ==
    StartKeeps(s, e) /\ cmd'[s].still = cmd[s].still /\ cmd'[s].failed = cmd[s].failed
FailedIs(s, e) ==
    /\ StartKeeps(s, e)
    /\ cmd'[s].still = cmd[s].still \cup {e} /\ cmd'[s].failed = cmd[s].failed \cup {e[1]}

LEMMA WantedIs ==
    ASSUME StateInv, NEW s \in Slug, NEW e \in Entry, Wanted(s, e)
    PROVE  /\ Go(s, Came(s, e)) => CameIs(s, e)
           /\ Go(s, Failed(s, e)) => FailedIs(s, e)
<1> DEFINE old == cmd[s]
           came == [old EXCEPT !.owed = @ \ {e}]
           fails == [old EXCEPT !.owed = @ \ {e}, !.still = @ \cup {e}, !.failed = @ \cup {e[1]}]
<1>1. old \in Memory /\ old.op = "start" /\ old.step = "up"
  BY WantedType
<1>2. /\ Go(s, Came(s, e)) => cmd'[s] = came
      /\ Go(s, Failed(s, e)) => cmd'[s] = fails
  BY GoIs DEF StateInv, Came, Failed
<1> HIDE DEF old
<1>3. /\ came.op = old.op /\ came.step = old.step /\ came.mem = old.mem /\ came.owed = old.owed \ {e}
      /\ came.still = old.still /\ came.failed = old.failed
      /\ fails.op = old.op /\ fails.step = old.step /\ fails.mem = old.mem
      /\ fails.owed = old.owed \ {e} /\ fails.still = old.still \cup {e}
      /\ fails.failed = old.failed \cup {e[1]}
  BY <1>1 DEF Memory
<1> HIDE DEF came, fails
<1> QED
  BY <1>1, <1>2, <1>3 DEF old, CameIs, FailedIs, StartKeeps

LEMMA ResumeDoes ==
    ASSUME StateInv, NEW s \in Slug, NEW ok \in BOOLEAN, Resume(s, ok)
    PROVE  /\ \E e \in Entry :
                  /\ Wanted(s, e) /\ e[2] = "resume"
                  /\ \/ CameIs(s, e) /\ ExtIs(s, e[1], "up")
                     \/ FailedIs(s, e) /\ ext'[s] = ext[s]
           /\ SameDisk(s) /\ proc'[s] = proc[s] /\ cut'[s] = cut[s] /\ portLock' = portLock
<1>1. PICK e \in Entry :
          /\ Wanted(s, e) /\ e[2] = "resume"
          /\ \/ SetExt(s, e[1], "up") /\ Go(s, Came(s, e))
             \/ ext' = ext /\ Go(s, Failed(s, e))
          /\ UNCHANGED <<disk, proc, portLock, cut, counts>>
  BY Zenon DEF Resume
<1>2. e[1] \in Resource
  BY DEF Entry
<1>3. SetExt(s, e[1], "up") => ExtIs(s, e[1], "up")
  BY <1>2, SettingIs DEF StateInv
<1>4. (Go(s, Came(s, e)) => CameIs(s, e)) /\ (Go(s, Failed(s, e)) => FailedIs(s, e))
  BY <1>1, WantedIs
<1> QED
  BY <1>1, <1>3, <1>4 DEF SameDisk, disk

LEMMA RestartDoes ==
    ASSUME StateInv, NEW s \in Slug, NEW ok \in BOOLEAN, Restart(s, ok)
    PROVE  /\ \E e \in Entry :
                  /\ Wanted(s, e) /\ e[2] = "start"
                  /\ \/ CameIs(s, e) /\ proc'[s] = proc[s] /\ Running(s, e[1])
                     \/ /\ CameIs(s, e) /\ ~ Running(s, e[1]) /\ Clear(s, e[1])
                        /\ ProcIs(s, e[1], "running", cmd[s].mem.slot[e[1]].port)
                     \/ FailedIs(s, e) /\ proc'[s] = proc[s]
           /\ SameDisk(s) /\ ext'[s] = ext[s] /\ cut'[s] = cut[s] /\ portLock' = portLock
<1>1. PICK e \in Entry :
          /\ Wanted(s, e) /\ e[2] = "start"
          /\ \/ Running(s, e[1]) /\ proc' = proc /\ Go(s, Came(s, e))
             \/ /\ ~ Running(s, e[1]) /\ Clear(s, e[1])
                /\ StartProcess(s, e[1], cmd[s].mem) /\ Go(s, Came(s, e))
             \/ proc' = proc /\ Go(s, Failed(s, e))
          /\ UNCHANGED <<disk, ext, portLock, cut, counts>>
  BY Zenon DEF Restart
<1>2. e[1] \in Resource
  BY DEF Entry
<1>3. StartProcess(s, e[1], cmd[s].mem) => ProcIs(s, e[1], "running", cmd[s].mem.slot[e[1]].port)
  BY <1>2, StartingIs DEF StateInv
<1>4. (Go(s, Came(s, e)) => CameIs(s, e)) /\ (Go(s, Failed(s, e)) => FailedIs(s, e))
  BY <1>1, WantedIs
<1> QED
  BY <1>1, <1>3, <1>4 DEF SameDisk, disk

LEMMA ActPrepareDoes ==
    ASSUME StateInv, NEW s \in Slug, NEW r \in Resource, NEW ok \in BOOLEAN, ActPrepare(s, r, ok)
    PROVE  /\ cmd[s].op = "idle" /\ cmd' = cmd /\ rec[s].here /\ (WhileParked \/ Bound(rec[s], r))
           /\ r \in Prepares /\ BlockedBy(rec[s], r) = {}
           /\ \E v \in {"up", ext[s][r]} :
                  /\ ExtIs(s, r, v)
                  /\ \/ ~ Bound(rec[s], r) /\ rec'[s] = rec[s]
                     \/ Bound(rec[s], r) /\ v = "up" /\ SlotIs(rec'[s], rec[s], r, "ready", rec[s].slot[r].port)
                     \/ Bound(rec[s], r) /\ SlotIs(rec'[s], rec[s], r, "failed", rec[s].slot[r].port)
           /\ owed'[s] = owed[s] /\ proc'[s] = proc[s] /\ cut'[s] = cut[s] /\ portLock' = portLock
<1> DEFINE state == IF ok THEN "ready" ELSE "failed"
           n == WithState(rec[s], r, state)
           m == IF Bound(rec[s], r) THEN n ELSE rec[s]
<1>1. PICK v \in Prepared(s, r, ok) : SetExt(s, r, v)
  BY Zenon DEF ActPrepare
<1>2. /\ ByHand(s, "prepare", r) /\ Save(s, m) /\ r \in Prepares /\ BlockedBy(rec[s], r) = {}
      /\ UNCHANGED <<owed, proc, portLock, cmd, cut, kills, faults>>
  BY Zenon DEF ActPrepare
<1>3. v \in {"up", ext[s][r]} /\ (ok => v = "up")
  BY DEF Prepared
<1>4. ExtIs(s, r, v)
  BY <1>1, SettingIs DEF StateInv
<1>5. rec[s] \in Record /\ state \in {"none"} \cup Status \cup Parked
  BY Typed DEF StateInv, Status
<1>6. SlotIs(n, rec[s], r, state, rec[s].slot[r].port)
  BY <1>5, StateSet DEF SlotIs
<1> HIDE DEF n
<1>7. rec'[s] = m
  BY <1>2, SaveIs DEF StateInv
<1>8. cmd[s].op = "idle" /\ rec[s].here /\ (WhileParked \/ Bound(rec[s], r))
  BY <1>2 DEF ByHand, Loaded, Begin
<1> QED
  BY <1>2, <1>3, <1>4, <1>6, <1>7, <1>8

LEMMA ActStartDoes ==
    ASSUME StateInv, NEW s \in Slug, NEW r \in Resource, ActStart(s, r)
    PROVE  /\ cmd[s].op = "idle" /\ cmd' = cmd /\ rec[s].here
           /\ ~ Running(s, r) /\ ProcIs(s, r, "running", rec[s].slot[r].port)
           /\ SameDisk(s) /\ ext'[s] = ext[s] /\ cut'[s] = cut[s] /\ portLock' = portLock
<1>1. ProcIs(s, r, "running", rec[s].slot[r].port)
  BY StartingIs DEF ActStart, StateInv
<1> QED
  BY <1>1 DEF ActStart, ByHand, Loaded, Begin, SameDisk, disk

LEMMA ActStopDoes ==
    ASSUME StateInv, NEW s \in Slug, NEW r \in Resource, ActStop(s, r)
    PROVE  /\ cmd[s].op = "idle" /\ cmd' = cmd /\ rec[s].here
           /\ ProcIs(s, r, "stopped", proc[s][r].port)
           /\ SameDisk(s) /\ ext'[s] = ext[s] /\ cut'[s] = cut[s] /\ portLock' = portLock
<1>1. ProcIs(s, r, "stopped", proc[s][r].port)
  BY Typed DEF ActStop, StateInv, ProcIs, Process
<1> QED
  BY <1>1 DEF ActStop, ByHand, Loaded, Begin, SameDisk, disk

LEMMA DieDoes ==
    ASSUME StateInv, NEW s \in Slug, NEW r \in Resource, Die(s, r)
    PROVE  /\ cmd' = cmd /\ Running(s, r) /\ ProcIs(s, r, "died", proc[s][r].port)
           /\ SameDisk(s) /\ ext'[s] = ext[s] /\ cut'[s] = cut[s] /\ portLock' = portLock
<1>1. ProcIs(s, r, "died", proc[s][r].port)
  BY Typed DEF Die, StateInv, ProcIs, Process
<1> QED
  BY <1>1 DEF Die, SameDisk, disk

LEMMA KillDoes ==
    ASSUME StateInv, NEW s \in Slug, Kill(s)
    PROVE  /\ cmd'[s] = Rest /\ SameDisk(s) /\ SameWorld(s)
           /\ cut'[s] = cut[s] \cup {cmd[s].op}
           /\ portLock' = IF portLock = s THEN "free" ELSE portLock
<1>1. cut'[s] = cut[s] \cup {cmd[s].op}
  BY Typed DEF Kill, StateInv
<1> QED
  BY <1>1, FinishMoves DEF Kill, SameDisk, SameWorld, disk, world
=============================================================================
