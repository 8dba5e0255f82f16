------------------------------ MODULE Resources ------------------------------
(***************************************************************************)
(* The resources of instances (src/crates/newgit-core/src/manager.rs): how *)
(* spawn, `tracker use` and `resource rebind` bind them on ports of their  *)
(* own, how `tracker drop` parks them, how `stop` takes an instance down   *)
(* and `start` brings it back, what actions run by hand do, and what       *)
(* `remove` tears down.                                                    *)
(*                                                                         *)
(* A command holds its instance's lock (module InstanceLock) from its      *)
(* first step to its last, so at most one is under way per instance.       *)
(* Commands on different instances meet at the ports: the records on disk  *)
(* are the only claims, and choosing a port and writing the claim is one   *)
(* step under the store's port lock.  A kill loses what a command holds in *)
(* memory and keeps what it saved.  A command under a resource's control   *)
(* (a hook) ends well or badly as it likes.                                *)
(***************************************************************************)
EXTENDS ResourceGraph

CONSTANTS
    Slug,        \* instances
    Definitions, \* the project's resources, as ResourceGraph has them
    Trackers,    \* names `depends_on` may also use
    Brought,     \* those only the droppable tracker brings
    Port,        \* the ports a scan may reach
    NoPort,
    Command,     \* the commands people give
    WhileParked, \* actions are also run on a resource that is not bound
    MaxCommand,  \* bound: commands in a behaviour
    MaxKill,     \* bound: commands killed
    MaxFault     \* bound: commands an I/O error ends while they bind

Commands == {"spawn", "use", "drop", "rebind", "stop", "start", "remove",
             "prepare", "run", "halt"}

Resource == ResourceNames(Definitions)
Those(Holds(_)) == {r \in Resource : Holds(Named(Definitions, r))}
Graph == ResolveGraph(Definitions, Trackers)

\* `depends_on`, and those that declare a port, a `prepare` that finishes,
\* `suspend` and `resume`, a `[cleanup]` command, a long-running action, one
\* that is `autostart`, and those not torn down per instance.
Deps == [r \in Resource |->
            {d \in Resource : \E i \in DOMAIN Named(Definitions, r).depends :
                d = Named(Definitions, r).depends[i]}]
Ported     == Those(LAMBDA d : d.ports # {})
Prepares   == Those(RunnablePrepare)
Suspends   == Those(LAMBDA d : d.actions["suspend"].there)
Cleans     == Those(LAMBDA d : d.cleanup)
Starts     == Those(HasLongRunning)
Autostarts == Those(RunsAtSpawn)
Shared     == Those(LAMBDA d : d.ownership \in {"project", "user"})

\* The two orders: binding goes by what is read too, the rest by `depends_on`.
Place(order) == [r \in Resource |-> CHOOSE i \in DOMAIN order : order[i] = r]
BindPlace == Place(Graph.bindOrder)
LifecyclePlace == Place(Graph.lifecycleOrder)

\* An order names every resource.
Complete(order) ==
    order \in Seq(Resource) /\ \A r \in Resource : \E i \in DOMAIN order : order[i] = r

\* Definitions that do not load, or a graph with problems, refuse every command;
\* otherwise the orders are what GraphSound finds for every small graph.
ASSUME ResourcesAssumption ==
    /\ \A i \in DOMAIN Definitions : Valid(Definitions[i])
    /\ Graph.problems = {}
    /\ Complete(Graph.bindOrder) /\ Complete(Graph.lifecycleOrder)
    /\ \A r \in Resource : \A d \in Deps[r] : LifecyclePlace[d] < LifecyclePlace[r]
    /\ Brought \subseteq Resource
    /\ NoPort \notin Port /\ "free" \notin Slug
    /\ Command \subseteq Commands
    /\ WhileParked \in BOOLEAN
    /\ MaxCommand \in Nat /\ MaxKill \in Nat /\ MaxFault \in Nat

VARIABLES
    rec,      \* rec[s]: the binding record on disk
    owed,     \* owed[s]: the stopped record on disk, entries of Entry
    proc,     \* proc[s][r]: the resource's supervised process
    ext,      \* ext[s][r]: what the resource's hooks keep outside newgit
    portLock, \* the instance whose command holds the port lock, or "free"
    cmd,      \* cmd[s]: the command under way on s
    cut,      \* history: cut[s], the commands of s cut short since its spawn:
              \* killed, or (a rebind) ended by an error with the binding gone
    commands, kills, faults

disk   == <<rec, owed>>
world  == <<proc, ext>>
counts == <<commands, kills, faults>>
vars   == <<disk, world, portLock, cmd, cut, counts>>

Entry  == Resource \X {"resume", "start"}
Status == {"pending", "ready", "failed"}
Parked == {"suspended", "cleaned", "untouched"}
Slot   == [state : {"none"} \cup Status \cup Parked, port : Port \cup {NoPort}]
Record == [here : BOOLEAN, dropped : BOOLEAN, slot : [Resource -> Slot]]

NoSlot   == [state |-> "none", port |-> NoPort]
Unspawned == [here |-> FALSE, dropped |-> FALSE,
              slot |-> [r \in Resource |-> NoSlot]]
NoProc   == [state |-> "never", port |-> NoPort]

\* What a command has in memory: the binding record and the stopped record it
\* loaded and changes, the resources it has still to visit, and the rest of
\* its local variables.
Rest == [op |-> "idle", step |-> "idle", at |-> "none", mem |-> Unspawned,
         owed |-> {}, still |-> {}, todo |-> {}, only |-> {}, failed |-> {},
         prev |-> NoSlot, port |-> NoPort, again |-> FALSE]

TypeOK ==
    /\ rec \in [Slug -> Record]
    /\ owed \in [Slug -> SUBSET Entry]
    /\ proc \in [Slug -> [Resource ->
           [state : {"never", "running", "halted", "stopped", "died"},
            port : Port \cup {NoPort}]]]
    /\ ext \in [Slug -> [Resource -> {"absent", "up", "suspended", "left"}]]
    /\ portLock \in Slug \cup {"free"}
    /\ cmd \in [Slug ->
           [op : Commands \cup {"idle"},
            step : {"idle", "bind", "claim", "render", "resume", "prepare",
                    "boot", "down", "hook", "save", "up", "clean", "archive"},
            at : Resource \cup {"none"}, mem : Record,
            owed : SUBSET Entry, still : SUBSET Entry,
            todo : SUBSET Resource, only : SUBSET Resource,
            failed : SUBSET Resource, prev : Slot,
            port : Port \cup {NoPort}, again : BOOLEAN]]
    /\ cut \in [Slug -> SUBSET Commands]
    /\ commands \in 0 .. MaxCommand /\ kills \in 0 .. MaxKill
    /\ faults \in 0 .. MaxFault

Init ==
    /\ rec = [s \in Slug |-> Unspawned]
    /\ owed = [s \in Slug |-> {}]
    /\ proc = [s \in Slug |-> [r \in Resource |-> NoProc]]
    /\ ext = [s \in Slug |-> [r \in Resource |-> "absent"]]
    /\ portLock = "free"
    /\ cmd = [s \in Slug |-> Rest]
    /\ cut = [s \in Slug |-> {}]
    /\ commands = 0 /\ kills = 0 /\ faults = 0

-----------------------------------------------------------------------------
(* What a record says *)

FirstBound(S) == CHOOSE r \in S : \A q \in S : BindPlace[r] <= BindPlace[q]
First(S) == CHOOSE r \in S : \A q \in S : LifecyclePlace[r] <= LifecyclePlace[q]
Last(S)  == CHOOSE r \in S : \A q \in S : LifecyclePlace[r] >= LifecyclePlace[q]

Bound(m, r)  == m.slot[r].state \in Status
Ready(m, r)  == m.slot[r].state = "ready"

\* A resource a tracker brings is bound only while the tracker is.
Active(m, r) == r \notin Brought \/ ~m.dropped

\* What a bind has still to visit.
Unbound(m) == {r \in Resource : Active(m, r) /\ ~Bound(m, r)}

\* The dependencies that are bound and not ready, the direct ones only.
BlockedBy(m, r) == {d \in Deps[r] : Bound(m, d) /\ ~Ready(m, d)}

WithState(m, r, state) == [m EXCEPT !.slot[r].state = state]
WithSlot(m, r, slot)   == [m EXCEPT !.slot[r] = slot]

\* Every port a record claims: bound or parked.
UsedPorts == {rec[s].slot[r].port : s \in Slug, r \in Resource} \ {NoPort}

Running(s, r) == proc[s][r].state = "running"

\* A command's next local state, and its end.
Go(s, next)  == cmd' = [cmd EXCEPT ![s] = next]
Finish(s)    == Go(s, Rest)
Save(s, m)   == rec' = [rec EXCEPT ![s] = m]

\* Only a command that finds the instance's lock free begins.
Begin(s, op) ==
    /\ op \in Command
    /\ cmd[s].op = "idle"
    /\ commands < MaxCommand
    /\ commands' = commands + 1

\* One that works on an instance loads its record.
Loaded(s, op) ==
    /\ Begin(s, op)
    /\ rec[s].here

At(s, step) == cmd[s].op # "idle" /\ cmd[s].step = step

-----------------------------------------------------------------------------
(* Binding: spawn, `tracker use`, `resource rebind` *)

\* The record is written before the resources bind.  `only` is what the spawn
\* will start: everything, or nothing.  What an earlier instance of the name
\* left outside is not this one's.
Spawn(s, dropped, only) ==
    LET fresh == [Unspawned EXCEPT !.here = TRUE, !.dropped = dropped]
    IN  /\ Begin(s, "spawn")
        /\ ~rec[s].here
        /\ Save(s, fresh)
        /\ Go(s, [Rest EXCEPT !.op = "spawn", !.step = "bind", !.mem = fresh,
                              !.only = only])
        /\ cut' = [cut EXCEPT ![s] = {}]
        /\ ext' = [ext EXCEPT ![s] = [r \in Resource |->
                      IF @[r] = "absent" THEN "absent" ELSE "left"]]
        /\ UNCHANGED <<owed, proc, portLock, kills, faults>>

\* `use` saves the tracker as bound, then binds what that makes active.
Use(s) ==
    LET bound == [rec[s] EXCEPT !.dropped = FALSE]
    IN  /\ Loaded(s, "use")
        /\ rec[s].dropped
        /\ Save(s, bound)
        /\ Go(s, [Rest EXCEPT !.op = "use", !.step = "bind", !.mem = bound,
                              !.only = Unbound(bound)])
        /\ UNCHANGED <<owed, world, portLock, cut, kills, faults>>

\* Mutant: the refusal left out.
RebindRunning(s, r) ==
    LET bare == WithSlot(rec[s], r, NoSlot)
    IN  /\ Loaded(s, "rebind")
        /\ Active(rec[s], r)
        /\ Save(s, bare)
        /\ Go(s, [Rest EXCEPT !.op = "rebind", !.step = "bind", !.mem = bare,
                              !.only = {r}, !.prev = rec[s].slot[r]])
        /\ UNCHANGED <<owed, world, portLock, cut, kills, faults>>

\* A rebind takes the binding out of the record first, which lets its ports
\* go.  Refused while the process that was given them runs.
Rebind(s, r) ==
    LET bare == IF Bound(rec[s], r) THEN WithSlot(rec[s], r, NoSlot)
                                    ELSE rec[s]
    IN  /\ Loaded(s, "rebind")
        /\ Active(rec[s], r)
        /\ ~Running(s, r)
        /\ Save(s, bare)
        /\ Go(s, [Rest EXCEPT !.op = "rebind", !.step = "bind", !.mem = bare,
                              !.only = {r},
                              !.prev = IF Bound(rec[s], r) THEN rec[s].slot[r]
                                                           ELSE NoSlot])
        /\ UNCHANGED <<owed, world, portLock, cut, kills, faults>>

\* The resource a bind comes to next, and whether it needs a port: a parked
\* one comes back on the port it had.
Binds(s, r) ==
    /\ At(s, "bind")
    /\ Unbound(cmd[s].mem) # {}
    /\ r = FirstBound(Unbound(cmd[s].mem))
NeedsPort(s, r) == r \in Ported /\ cmd[s].mem.slot[r].state \notin Parked

\* The bind goes on with r bound `pending` in memory, to be resumed if a drop
\* suspended it.
Insert(s, r, port) ==
    [cmd[s] EXCEPT !.step = "render", !.at = r, !.port = NoPort,
                   !.mem = WithSlot(@, r, [state |-> "pending", port |-> port]),
                   !.again = cmd[s].mem.slot[r].state = "suspended"
                             /\ r \in Suspends]

\* A resource without a port, or with the port it was parked with.
BindNext(s) == \E r \in Resource :
    /\ Binds(s, r) /\ ~NeedsPort(s, r)
    /\ Go(s, Insert(s, r, cmd[s].mem.slot[r].port))
    /\ UNCHANGED <<disk, world, portLock, cut, counts>>

\* Mutant: without the lock.
ReadClaimsUnlocked(s) == \E r \in Resource, p \in Port \ UsedPorts :
    /\ Binds(s, r) /\ NeedsPort(s, r)
    /\ Go(s, [cmd[s] EXCEPT !.step = "claim", !.at = r, !.port = p])
    /\ UNCHANGED <<disk, world, portLock, cut, counts>>

\* Under the port lock, read every record and choose a port no record claims.
\* Which of them the scan comes to depends on what else listens on the host.
ReadClaims(s) == \E r \in Resource, p \in Port \ UsedPorts :
    /\ Binds(s, r) /\ NeedsPort(s, r)
    /\ portLock = "free"
    /\ portLock' = s
    /\ Go(s, [cmd[s] EXCEPT !.step = "claim", !.at = r, !.port = p])
    /\ UNCHANGED <<disk, world, cut, counts>>

\* Mutant: the lock is never let go.
SaveClaimHolding(s) ==
    LET next == Insert(s, cmd[s].at, cmd[s].port)
    IN  /\ At(s, "claim")
        /\ Save(s, next.mem)
        /\ Go(s, next)
        /\ UNCHANGED <<owed, world, portLock, cut, counts>>

\* Write the claim and let the lock go, before any hook runs.
SaveClaim(s) ==
    LET next == Insert(s, cmd[s].at, cmd[s].port)
    IN  /\ At(s, "claim")
        /\ Save(s, next.mem)
        /\ Go(s, next)
        /\ portLock' = "free"
        /\ UNCHANGED <<owed, world, cut, counts>>

\* The bind goes on to the next resource with this one in the given state.
Settled(s, state) ==
    [cmd[s] EXCEPT !.step = "bind", !.at = "none", !.again = FALSE,
                   !.mem = WithState(@, cmd[s].at, state)]

\* An export or a file that does not render leaves the resource failed, in
\* memory until the next save.
RenderFails(s) ==
    /\ At(s, "render")
    /\ Go(s, Settled(s, "failed"))
    /\ UNCHANGED <<disk, world, portLock, cut, counts>>

\* Otherwise the binding is saved, still pending, and then it is resumed,
\* prepared, withheld behind a dependency, or ready with nothing to run.
RunHook(s) ==
    LET r == cmd[s].at
    IN  /\ At(s, "render")
        /\ BlockedBy(cmd[s].mem, r) = {}
        /\ cmd[s].again \/ r \in Prepares
        /\ Save(s, cmd[s].mem)
        /\ Go(s, [cmd[s] EXCEPT !.step = IF cmd[s].again THEN "resume"
                                                         ELSE "prepare"])
        /\ UNCHANGED <<owed, world, portLock, cut, counts>>

Withhold(s) ==
    /\ At(s, "render")
    /\ BlockedBy(cmd[s].mem, cmd[s].at) # {}
    /\ cmd[s].at \in Prepares
    /\ Save(s, cmd[s].mem)
    /\ Go(s, Settled(s, "pending"))
    /\ UNCHANGED <<owed, world, portLock, cut, counts>>

NothingToRun(s) ==
    /\ At(s, "render")
    /\ cmd[s].at \notin Prepares
    /\ cmd[s].again => BlockedBy(cmd[s].mem, cmd[s].at) # {}
    /\ Save(s, cmd[s].mem)
    /\ Go(s, Settled(s, "ready"))
    /\ UNCHANGED <<owed, world, portLock, cut, counts>>

SetExt(s, r, value) == ext' = [ext EXCEPT ![s][r] = value]

\* What a `prepare` that ends with `ok` may leave behind: one that fails may
\* have brought up what it is for, or not.
Prepared(s, r, ok) == IF ok THEN {"up"} ELSE {"up", ext[s][r]}

HookEnds(s, ok) ==
    LET r == cmd[s].at
    IN  /\ At(s, "resume") \/ At(s, "prepare")
        /\ IF cmd[s].step = "prepare"
             THEN \E value \in Prepared(s, r, ok) : SetExt(s, r, value)
             ELSE SetExt(s, r, IF ok THEN "up" ELSE ext[s][r])
        /\ Go(s, Settled(s, IF ok THEN "ready" ELSE "failed"))
        /\ UNCHANGED <<disk, proc, portLock, cut, counts>>

\* A bind that ends with an error saves nothing more, except that a rebind
\* whose resource is not bound again in memory puts the old binding back.
GiveUp(s) ==
    LET m == cmd[s].mem
        r == CHOOSE q \in cmd[s].only : TRUE
        lost == cmd[s].op = "rebind" /\ cmd[s].prev # NoSlot
    IN  /\ IF lost /\ ~Bound(m, r) THEN Save(s, WithSlot(m, r, cmd[s].prev))
                                   ELSE rec' = rec
        /\ cut' = [cut EXCEPT ![s] =
               IF lost /\ ~Bound(rec'[s], r) THEN @ \cup {"rebind"} ELSE @]
        /\ Finish(s)
        /\ UNCHANGED <<owed, world, portLock, commands, kills>>

\* No port is left to claim, which the lock is taken to find out.
NoPortLeft(s) ==
    /\ \E r \in Resource : Binds(s, r) /\ NeedsPort(s, r)
    /\ portLock = "free"
    /\ Port \subseteq UsedPorts
    /\ GiveUp(s)
    /\ UNCHANGED faults

\* An I/O error in claiming a port or in running a hook.
BindError(s) ==
    /\ \/ \E r \in Resource : Binds(s, r) /\ NeedsPort(s, r)
       \/ At(s, "resume") \/ At(s, "prepare")
    /\ faults < MaxFault
    /\ faults' = faults + 1
    /\ GiveUp(s)

\* The bound record is saved; then what the command is to start is started.
BindDone(s) ==
    LET m == cmd[s].mem
    IN  /\ At(s, "bind")
        /\ Unbound(m) = {}
        /\ Save(s, m)
        /\ Go(s, [cmd[s] EXCEPT !.step = "boot", !.prev = NoSlot, !.todo =
               {r \in cmd[s].only \cap Autostarts :
                   Bound(m, r) /\ (cmd[s].op = "rebind" => Ready(m, r))}])
        /\ UNCHANGED <<owed, world, portLock, cut, counts>>

StartProcess(s, r, m) ==
    proc' = [proc EXCEPT ![s][r] = [state |-> "running",
                                    port |-> m.slot[r].port]]

\* autostart, one resource at a time: left alone if it runs, not started over
\* a dependency that did not start here or is not ready, nor unless ready.
Boot(s, ok) ==
    LET m == cmd[s].mem
        r == First(cmd[s].todo)
        may == /\ Deps[r] \cap cmd[s].failed = {}
               /\ BlockedBy(m, r) = {}
               /\ Ready(m, r)
        next == [cmd[s] EXCEPT !.todo = @ \ {r}]
    IN  /\ At(s, "boot")
        /\ cmd[s].todo # {}
        /\ \/ /\ Running(s, r) /\ ok
              /\ Go(s, next) /\ proc' = proc
           \/ /\ ~Running(s, r) /\ may /\ ok
              /\ Go(s, next) /\ StartProcess(s, r, m)
           \/ /\ ~Running(s, r) /\ ~ok
              /\ Go(s, [next EXCEPT !.failed = @ \cup {r}]) /\ proc' = proc
        /\ UNCHANGED <<disk, ext, portLock, cut, counts>>

BootDone(s) ==
    /\ At(s, "boot")
    /\ cmd[s].todo = {}
    /\ Finish(s)
    /\ UNCHANGED <<disk, world, portLock, cut, counts>>

-----------------------------------------------------------------------------
(* Taking down: `stop`, `tracker drop`, `remove` *)

\* Per-instance teardown may not touch a shared resource.
Suspendable(m, r) == r \in Suspends \ Shared /\ Ready(m, r)

\* `stop` visits every resource, dependents first; only those that run or can
\* be suspended are listed here.
Stop(s) ==
    LET visits == {r \in Resource : Running(s, r) \/ Suspendable(rec[s], r)}
    IN  /\ Loaded(s, "stop")
        /\ Go(s, [Rest EXCEPT !.op = "stop", !.step = "down", !.mem = rec[s],
                              !.owed = owed[s], !.todo = visits])
        /\ UNCHANGED <<disk, world, portLock, cut, kills, faults>>

\* `drop` parks what no bound tracker brings any more.
Drop(s) ==
    LET m == [rec[s] EXCEPT !.dropped = TRUE]
    IN  /\ Loaded(s, "drop")
        /\ ~rec[s].dropped
        /\ Go(s, [Rest EXCEPT !.op = "drop", !.step = "down", !.mem = m,
                              !.owed = owed[s],
                              !.todo = {r \in Resource :
                                          Bound(m, r) /\ ~Active(m, r)}])
        /\ UNCHANGED <<disk, world, portLock, cut, kills, faults>>

\* `remove` stops what runs, then tears down.
Remove(s) ==
    /\ Loaded(s, "remove")
    /\ Go(s, [Rest EXCEPT !.op = "remove", !.step = "down", !.mem = rec[s],
                          !.todo = {r \in Resource : Running(s, r)}])
    /\ UNCHANGED <<disk, world, portLock, cut, kills, faults>>

\* The process first.  It goes, or ignores the signal (`gone`); `stop` owes it
\* to `start` either way.  A process stopped by `stop` is `halted`, by anything
\* else `stopped`.
DownProcess(s, gone) ==
    LET r == Last(cmd[s].todo)
    IN  /\ At(s, "down")
        /\ cmd[s].todo # {}
        /\ Running(s, r)
        /\ proc' = [proc EXCEPT ![s][r].state =
               IF ~gone THEN @
               ELSE IF cmd[s].op = "stop" THEN "halted" ELSE "stopped"]
        /\ Go(s, [cmd[s] EXCEPT !.step = "hook",
                  !.owed = IF cmd[s].op = "stop" THEN @ \cup {<<r, "start">>}
                                                 ELSE @])
        /\ UNCHANGED <<disk, ext, portLock, cut, counts>>

\* The resource whose process has been seen to, or never ran.
Visits(s, op, r) ==
    /\ cmd[s].op = op
    /\ cmd[s].todo # {}
    /\ r = Last(cmd[s].todo)
    /\ At(s, "hook") \/ (At(s, "down") /\ ~Running(s, r))

Visited(s, r) == [cmd[s] EXCEPT !.step = "down", !.todo = @ \ {r}]

\* Then its `suspend`, unless an earlier stop's is still to be resumed.  One
\* that fails is not recorded.
StopSuspend(s, ok) == \E r \in Resource :
    LET runs == /\ Suspendable(cmd[s].mem, r)
                /\ <<r, "resume">> \notin cmd[s].owed
        next == Visited(s, r)
    IN  /\ Visits(s, "stop", r)
        /\ \/ /\ runs /\ ok
              /\ SetExt(s, r, "suspended")
              /\ Go(s, [next EXCEPT !.owed = @ \cup {<<r, "resume">>}])
           \/ /\ runs /\ ~ok
              /\ Go(s, [next EXCEPT !.failed = @ \cup {r}]) /\ ext' = ext
           \/ /\ ~runs /\ ok
              /\ Go(s, next) /\ ext' = ext
        /\ UNCHANGED <<disk, proc, portLock, cut, counts>>

\* Mutant: a second stop forgets what the first one recorded.
StopDoneReplaces(s) ==
    /\ cmd[s].op = "stop" /\ At(s, "down") /\ cmd[s].todo = {}
    /\ owed' = [owed EXCEPT ![s] = cmd[s].owed \ @]
    /\ Finish(s)
    /\ UNCHANGED <<rec, world, portLock, cut, counts>>

\* The stopped record is saved once, at the end.
StopDone(s) ==
    /\ cmd[s].op = "stop" /\ At(s, "down") /\ cmd[s].todo = {}
    /\ owed' = [owed EXCEPT ![s] = cmd[s].owed]
    /\ Finish(s)
    /\ UNCHANGED <<rec, world, portLock, cut, counts>>

\* Parking: what `stop` had taken down is no longer owed to `start`, since
\* `use` brings the resource back.  Which hook takes it down, and what the
\* record keeps of it, decides how `use` and `remove` treat it.
Park(s, ok) == \E r \in Resource :
    LET m == cmd[s].mem
        \* what the resource is parked as, and what is left outside
        parked ==
          IF r \in Shared THEN <<"untouched", ext[s][r]>>
          ELSE IF <<r, "resume">> \in cmd[s].owed
            THEN <<"suspended", ext[s][r]>>
          ELSE IF Suspendable(m, r)
            THEN IF ok THEN <<"suspended", "suspended">>
                       ELSE <<"untouched", ext[s][r]>>
          ELSE IF r \in Cleans /\ ok THEN <<"cleaned", "absent">>
          ELSE <<"untouched", ext[s][r]>>
    IN  /\ Visits(s, "drop", r)
        /\ SetExt(s, r, parked[2])
        /\ proc' = [proc EXCEPT ![s][r].state =
                       IF @ = "halted" THEN "stopped" ELSE @]
        /\ Go(s, [Visited(s, r) EXCEPT
                    !.owed = @ \ {<<r, "resume">>, <<r, "start">>},
                    !.mem = WithState(@, r, parked[1])])
        /\ UNCHANGED <<disk, portLock, cut, counts>>

\* The stopped record is saved before the binding record.
ParkDone(s) ==
    /\ cmd[s].op = "drop" /\ At(s, "down") /\ cmd[s].todo = {}
    /\ owed' = [owed EXCEPT ![s] = cmd[s].owed]
    /\ Go(s, [cmd[s] EXCEPT !.step = "save"])
    /\ UNCHANGED <<rec, world, portLock, cut, counts>>

DropDone(s) ==
    /\ At(s, "save")
    /\ Save(s, cmd[s].mem)
    /\ Finish(s)
    /\ UNCHANGED <<owed, world, portLock, cut, counts>>

\* `remove` goes on whether the process went or not.
RemoveProcess(s) == \E r \in Resource :
    /\ Visits(s, "remove", r)
    /\ Go(s, Visited(s, r))
    /\ UNCHANGED <<disk, world, portLock, cut, counts>>

\* Mutant: what is parked is forgotten.
TeardownBound(m) == {r \in Resource : Bound(m, r)}

\* The cleanup hooks, dependents first: of what is bound, and of what is parked
\* unless the drop ran its hook already.
Teardown(m) ==
    {r \in Resource : Bound(m, r) \/ m.slot[r].state \in Parked \ {"cleaned"}}

RemoveStopped(s) ==
    /\ cmd[s].op = "remove" /\ At(s, "down") /\ cmd[s].todo = {}
    /\ Go(s, [cmd[s] EXCEPT !.step = "clean", !.todo =
                 Teardown(cmd[s].mem) \cap (Cleans \ Shared)])
    /\ UNCHANGED <<disk, world, portLock, cut, counts>>

RemoveHook(s, ok) ==
    LET r == Last(cmd[s].todo)
    IN  /\ At(s, "clean")
        /\ cmd[s].todo # {}
        /\ SetExt(s, r, IF ok THEN "absent" ELSE ext[s][r])
        /\ Go(s, [cmd[s] EXCEPT !.todo = @ \ {r},
                                !.failed = IF ok THEN @ ELSE @ \cup {r}])
        /\ UNCHANGED <<disk, proc, portLock, cut, counts>>

\* The state directory goes with the pid files and the stopped record in it:
\* a process that ignored its signal is no longer known of.
RemoveState(s) ==
    /\ At(s, "clean")
    /\ cmd[s].todo = {}
    /\ owed' = [owed EXCEPT ![s] = {}]
    /\ proc' = [proc EXCEPT ![s] = [r \in Resource |-> NoProc]]
    /\ Go(s, [cmd[s] EXCEPT !.step = "archive"])
    /\ UNCHANGED <<rec, ext, portLock, cut, counts>>

\* Archiving the record frees the ports.  What a failed hook left is reported.
RemoveRecord(s) ==
    /\ At(s, "archive")
    /\ Save(s, Unspawned)
    /\ ext' = [ext EXCEPT ![s] = [r \in Resource |->
                  IF r \in cmd[s].failed /\ @[r] # "absent" THEN "left"
                                                            ELSE @[r]]]
    /\ Finish(s)
    /\ UNCHANGED <<owed, proc, portLock, cut, counts>>

-----------------------------------------------------------------------------
(* Bringing back: `start`, and actions run by hand *)

\* What the stopped record names, and each bound `autostart` process that died
\* on its own since.
Start(s) ==
    LET died == {r \in Autostarts : Bound(rec[s], r)
                                    /\ proc[s][r].state = "died"}
        entries == owed[s] \cup (died \X {"start"})
    IN  /\ Loaded(s, "start")
        /\ entries # {}
        /\ Go(s, [Rest EXCEPT !.op = "start", !.step = "up", !.mem = rec[s],
                              !.owed = entries])
        /\ UNCHANGED <<disk, world, portLock, cut, kills, faults>>

\* The entry `start` comes to next: by resource, its `resume` first.
Wanted(s, e) ==
    LET r == First({f[1] : f \in cmd[s].owed})
    IN  /\ At(s, "up")
        /\ cmd[s].owed # {}
        /\ e = IF <<r, "resume">> \in cmd[s].owed THEN <<r, "resume">>
                                                  ELSE <<r, "start">>

\* Mutant: only what the record says of the dependencies counts.
ClearOfBlocked(s, r) == BlockedBy(cmd[s].mem, r) = {}

\* Not over a dependency that did not come back in this start, nor one that is
\* not ready, nor over its own `resume` that failed.
Clear(s, r) ==
    /\ r \notin cmd[s].failed
    /\ Deps[r] \cap cmd[s].failed = {}
    /\ BlockedBy(cmd[s].mem, r) = {}

Came(s, e)   == [cmd[s] EXCEPT !.owed = @ \ {e}]
Failed(s, e) == [cmd[s] EXCEPT !.owed = @ \ {e}, !.still = @ \cup {e},
                               !.failed = @ \cup {e[1]}]

Resume(s, ok) == \E e \in Entry :
    /\ Wanted(s, e) /\ e[2] = "resume"
    /\ IF ok THEN Clear(s, e[1]) /\ SetExt(s, e[1], "up") /\ Go(s, Came(s, e))
             ELSE ext' = ext /\ Go(s, Failed(s, e))
    /\ UNCHANGED <<disk, proc, portLock, cut, counts>>

\* A process that runs already is dropped from the record and left alone.
Restart(s, ok) == \E e \in Entry :
    /\ Wanted(s, e) /\ e[2] = "start"
    /\ \/ /\ Running(s, e[1]) /\ ok
          /\ proc' = proc /\ Go(s, Came(s, e))
       \/ /\ ~Running(s, e[1]) /\ Clear(s, e[1]) /\ ok
          /\ StartProcess(s, e[1], cmd[s].mem) /\ Go(s, Came(s, e))
       \/ /\ ~Running(s, e[1]) /\ ~ok
          /\ proc' = proc /\ Go(s, Failed(s, e))
    /\ UNCHANGED <<disk, ext, portLock, cut, counts>>

\* What failed stays owed.
StartDone(s) ==
    /\ At(s, "up") /\ cmd[s].owed = {}
    /\ owed' = [owed EXCEPT ![s] = cmd[s].still]
    /\ Finish(s)
    /\ UNCHANGED <<rec, world, portLock, cut, counts>>

\* Actions by hand: one handler, done under the lock.  Each is refused behind a
\* dependency that is not ready, and none asks whether the resource is bound.
ByHand(s, op, r) ==
    /\ Loaded(s, op)
    /\ WhileParked \/ Bound(rec[s], r)

ActPrepare(s, r, ok) ==
    /\ ByHand(s, "prepare", r)
    /\ r \in Prepares
    /\ BlockedBy(rec[s], r) = {}
    /\ \E value \in Prepared(s, r, ok) : SetExt(s, r, value)
    /\ Save(s, IF Bound(rec[s], r)
                 THEN WithState(rec[s], r, IF ok THEN "ready" ELSE "failed")
                 ELSE rec[s])
    /\ UNCHANGED <<owed, proc, portLock, cmd, cut, kills, faults>>

ActStart(s, r) ==
    /\ ByHand(s, "run", r)
    /\ r \in Starts
    /\ ~Running(s, r)
    /\ BlockedBy(rec[s], r) = {}
    /\ StartProcess(s, r, rec[s])
    /\ UNCHANGED <<disk, ext, portLock, cmd, cut, kills, faults>>

ActStop(s, r) ==
    /\ ByHand(s, "halt", r)
    /\ Running(s, r)
    /\ proc' = [proc EXCEPT ![s][r].state = "stopped"]
    /\ UNCHANGED <<disk, ext, portLock, cmd, cut, kills, faults>>

-----------------------------------------------------------------------------
(* The world *)

\* A process ends on its own, or late after a signal it seemed to ignore.
Die(s, r) ==
    /\ Running(s, r)
    /\ proc' = [proc EXCEPT ![s][r].state = "died"]
    /\ UNCHANGED <<disk, ext, portLock, cmd, cut, counts>>

\* newgit is killed: its memory is gone, and the kernel lets its locks go.
Kill(s) ==
    /\ cmd[s].op # "idle"
    /\ kills < MaxKill
    /\ kills' = kills + 1
    /\ portLock' = IF portLock = s THEN "free" ELSE portLock
    /\ cut' = [cut EXCEPT ![s] = @ \cup {cmd[s].op}]
    /\ Finish(s)
    /\ UNCHANGED <<disk, world, commands, faults>>

Bind(s) ==
    \/ BindNext(s) \/ ReadClaims(s) \/ SaveClaim(s)
    \/ RenderFails(s) \/ RunHook(s) \/ Withhold(s) \/ NothingToRun(s)
    \/ NoPortLeft(s) \/ BindError(s) \/ BindDone(s) \/ BootDone(s)
    \/ \E ok \in BOOLEAN : HookEnds(s, ok) \/ Boot(s, ok)

TakeDown(s) ==
    \/ StopDone(s) \/ ParkDone(s) \/ DropDone(s)
    \/ RemoveProcess(s) \/ RemoveStopped(s) \/ RemoveState(s) \/ RemoveRecord(s)
    \/ \E ok \in BOOLEAN :
         DownProcess(s, ok) \/ StopSuspend(s, ok) \/ Park(s, ok)
         \/ RemoveHook(s, ok)

BringBack(s) ==
    \/ StartDone(s)
    \/ \E ok \in BOOLEAN : Resume(s, ok) \/ Restart(s, ok)

\* The steps of the command under way.
Step(s) == Bind(s) \/ TakeDown(s) \/ BringBack(s)

Give(s) ==
    \/ \E d \in BOOLEAN, only \in {{}, Resource} : Spawn(s, d, only)
    \/ Use(s) \/ Drop(s) \/ Stop(s) \/ Start(s) \/ Remove(s)
    \/ \E r \in Resource : Rebind(s, r) \/ ActStart(s, r) \/ ActStop(s, r)
    \/ \E r \in Resource, ok \in BOOLEAN : ActPrepare(s, r, ok)

Next == \E s \in Slug :
    Step(s) \/ Give(s) \/ Kill(s) \/ \E r \in Resource : Die(s, r)

Spec == Init /\ [][Next]_vars

\* A newgit that is not killed goes on, and the hooks it waits for end.
Fairness == \A s \in Slug : WF_vars(Step(s))
FairSpec == Spec /\ Fairness

-----------------------------------------------------------------------------
(* Properties *)

\* No two bindings, of any instances, claim one port: claim_ports reads,
\* chooses and writes under the store's port lock, and a parked binding keeps
\* its claim.
PortsDisjoint ==
    \A s, t \in Slug : \A r, q \in Resource :
        /\ rec[s].slot[r].port # NoPort
        /\ rec[s].slot[r].port = rec[t].slot[q].port
        => s = t /\ r = q

\* A process newgit knows of runs on a port its instance still claims for it,
\* whatever was dropped, used, rebound, stopped or killed since it started.
ProcessKeepsPort ==
    \A s \in Slug : \A r \in Resource :
        Running(s, r) /\ proc[s][r].port # NoPort
        => rec[s].slot[r].port = proc[s][r].port

\* The instances no command is at work on, and no stop, drop or removal of
\* which was killed before it had saved what it took down.
Quiet(s) ==
    /\ cmd[s].op = "idle"
    /\ rec[s].here
    /\ cut[s] \cap {"stop", "drop", "remove"} = {}

\* What `newgit stop` took down is owed to `newgit start` until it is back: a
\* bound resource whose process a stop ended, and a ready one that is
\* suspended, are in the stopped record, whatever failed or was killed.
NothingForgotten ==
    \A s \in Slug : Quiet(s) => \A r \in Resource :
        /\ Bound(rec[s], r) /\ proc[s][r].state = "halted"
           => <<r, "start">> \in owed[s]
        /\ Ready(rec[s], r) /\ ext[s][r] = "suspended"
           => <<r, "resume">> \in owed[s]

\* Once an instance is removed nothing of its own is left outside, except what
\* a failed hook of that removal left and reported: every resource that was
\* ever prepared was still in the record, bound or parked, when `remove` ran
\* the hooks.  The exception is a rebind that lost a binding: killed between
\* its two saves, or ended by an error after its render had failed.
TornDown ==
    \A s \in Slug :
        cmd[s].op = "idle" /\ ~rec[s].here /\ "rebind" \notin cut[s]
        => \A r \in Cleans \ Shared : ext[s][r] \in {"absent", "left"}

\* A process spawn, use, rebind or start begins does so over direct
\* dependencies that are ready, and one that start begins over none that is
\* still suspended.
OverReady ==
    \A s \in Slug : \A r \in Resource :
        ~Running(s, r) /\ Running(s, r)' /\ cmd[s].op # "idle"
        => \A d \in Deps[r] : Bound(rec[s], d) =>
             /\ Ready(rec[s], d)
             /\ cmd[s].op = "start"
                /\ cut[s] \cap {"stop", "drop", "remove"} = {}
                => ext[s][d] # "suspended"
DependenciesFirst == [][OverReady]_vars

\* A stop that ends has taken down every ready resource with a `suspend`,
\* except those whose `suspend` failed and was reported.
StopTakesDown ==
    [][\A s \in Slug :
          cmd[s].op = "stop" /\ cmd'[s].op = "idle" /\ cut' = cut
          => \A r \in Resource : Suspendable(rec[s], r) =>
               ext[s][r] = "suspended" \/ r \in cmd[s].failed]_vars

\* A command that waits for the port lock gets it, and every command ends: the
\* lock is let go before any hook runs, and a killed holder lets it go.
CommandsEnd == \A s \in Slug : cmd[s].op # "idle" ~> cmd[s].op = "idle"
=============================================================================
