----------------------------- MODULE Supervisor -----------------------------
(***************************************************************************)
(* Supervision of one long-running resource                                *)
(* (src/crates/newgit-core/src/supervisor.rs): `start`, `stop`, the `sh`   *)
(* wrapper a command runs under, `state`, and the `retire_dead_pids` sweep *)
(* of `cleanup`.  What newgit knows of a process is three files: the pid   *)
(* file, the wrapper's exit file and `stop`'s marker.                      *)
(*                                                                         *)
(* `start` and `stop` run under the instance's lock, so one of them is     *)
(* under way at a time; `cleanup` takes no lock of a live instance, and    *)
(* processes end whenever they like.                                       *)
(***************************************************************************)
EXTENDS Naturals, FiniteSets

CONSTANTS Pid,        \* process group ids the kernel hands out
          Racing,     \* a sweep may run while a start or a stop does
          MaxStart,   \* bound: processes started in a behaviour
          MaxReuse,   \* bound: pids handed to unrelated processes
          MaxAbandon, \* bound: starts and stops cut short
          MaxSweep    \* bound: sweeps in a behaviour

ASSUME SupervisorAssumption ==
    /\ Racing \in BOOLEAN
    /\ MaxStart \in Nat /\ MaxReuse \in Nat /\ MaxAbandon \in Nat
    /\ MaxSweep \in Nat
    /\ {"none", "stopped", "exited"} \cap Pid = {}

VARIABLES
    pidFile,   \* a pid, "stopped", "exited", or "none" when there is no file
    exitFile,  \* the status the wrapper wrote, or "none"
    marker,    \* `<resource>.stopping` exists
    log,       \* newgit's lines in the run's log
    group,     \* group[g]: the process group led by g
    op,        \* the start or stop under way
    sweep,     \* the pid a sweep has read, or None
    asked,     \* history: a `stop` of the last run was begun
    ended,     \* history: how the last run's group came to its end
    lost,      \* history: groups whose `start` was cut before it wrote the pid
    started, reused, abandoned, sweeps

files  == <<pidFile, exitFile, marker>>
past   == <<asked, ended, lost>>
counts == <<started, reused, abandoned, sweeps>>
vars   == <<files, log, group, op, sweep, past, counts>>

None == "none"

\* A command's end, as the shell reports it: an exit code or a signal.
Status == {"code", "signal"}

\* Of a group newgit started, the wrapper and the command under it; of one it
\* did not, only that it is there.
Free  == [owner |-> "nobody", wrapper |-> "gone", command |-> "gone"]
Alien == [owner |-> "other", wrapper |-> "gone", command |-> "gone"]
Group == [owner : {"newgit"}, wrapper : {"waits", "writes", "gone"},
          command : {"unborn", "runs", "gone"} \cup Status] \cup {Free, Alien}
NoOp  == [kind |-> None, step |-> "idle", pid |-> None]

TypeOK ==
    /\ pidFile \in Pid \cup {None, "stopped", "exited"}
    /\ exitFile \in Status \cup {None}
    /\ marker \in BOOLEAN
    /\ log \subseteq Status \cup {"stopped"}
    /\ group \in [Pid -> Group]
    /\ op \in [kind : {"start"}, step : {"clear", "spawn", "record"}, pid : Pid \cup {None}]
               \cup [kind : {"stop"}, step : {"mark", "signal", "poll", "log"}, pid : Pid]
               \cup {NoOp}
    /\ sweep \in Pid \cup {None}
    /\ asked \in BOOLEAN
    /\ ended \in {None, "asked", "alone"}
    /\ lost \subseteq Pid
    /\ started \in 0 .. MaxStart /\ reused \in 0 .. MaxReuse
    /\ abandoned \in 0 .. MaxAbandon /\ sweeps \in 0 .. MaxSweep

Init ==
    /\ pidFile = None /\ exitFile = None /\ marker = FALSE
    /\ log = {}
    /\ group = [g \in Pid |-> Free]
    /\ op = NoOp /\ sweep = None
    /\ asked = FALSE /\ ended = None /\ lost = {}
    /\ started = 0 /\ reused = 0 /\ abandoned = 0 /\ sweeps = 0

-----------------------------------------------------------------------------
\* `group_alive`: some process is left in the group, newgit's or not.
Alive(g) ==
    \/ group[g].owner = "other"
    \/ group[g].owner = "newgit" /\ (group[g].wrapper # "gone"
                                      \/ group[g].command \in {"unborn", "runs"})

\* `running_pid`, or None.
RunningPid == IF pidFile \in Pid /\ Alive(pidFile) THEN pidFile ELSE None

\* `Supervisor::state`.
State ==
    CASE pidFile = None -> "never started"
      [] pidFile = "stopped" -> "stopped"
      [] pidFile \in Pid /\ Alive(pidFile) -> "running"
      [] pidFile \notin {None, "stopped"} /\ RunningPid = None /\ marker -> "stopped"
      [] OTHER -> IF exitFile = None THEN "crashed" ELSE exitFile

MayOperate == op = NoOp /\ (sweep = None \/ Racing)

\* Group g becomes what `now` says; a group nobody is left in is free, and
\* whether newgit had asked for the end is settled then.
Become(g, now) ==
    LET dead == now.wrapper = "gone" /\ now.command \notin {"unborn", "runs"}
    IN  /\ group' = [group EXCEPT ![g] = IF dead THEN Free ELSE now]
        /\ lost' = IF dead THEN lost \ {g} ELSE lost
        /\ ended' = IF dead /\ g \notin lost
                    THEN (IF asked THEN "asked" ELSE "alone") ELSE ended
        /\ UNCHANGED asked

-----------------------------------------------------------------------------
(* `start`.                                                                *)

\* Mutant: a process that is there already does not refuse the start.
StartUnchecked ==
    /\ MayOperate /\ started < MaxStart
    /\ op' = [kind |-> "start", step |-> "clear", pid |-> None]
    /\ UNCHANGED <<files, log, group, sweep, past, counts>>

\* AlreadyRunning refuses it.
Start ==
    /\ MayOperate /\ started < MaxStart
    /\ RunningPid = None
    /\ op' = [kind |-> "start", step |-> "clear", pid |-> None]
    /\ UNCHANGED <<files, log, group, sweep, past, counts>>

\* The log is made anew, and what the last run left is removed: from here on
\* nothing tells how that one ended ...
StartClear ==
    /\ op.kind = "start" /\ op.step = "clear"
    /\ log' = {} /\ exitFile' = None /\ marker' = FALSE
    /\ ended' = None
    /\ op' = [op EXCEPT !.step = "spawn"]
    /\ UNCHANGED <<pidFile, group, sweep, asked, lost, counts>>

\* ... the wrapper starts in a group of its own ...
StartSpawn(g) ==
    /\ op.kind = "start" /\ op.step = "spawn"
    /\ group[g] = Free
    /\ group' = [group EXCEPT ![g] = [owner |-> "newgit", wrapper |-> "waits",
                                      command |-> "unborn"]]
    /\ op' = [op EXCEPT !.step = "record", !.pid = g]
    /\ started' = started + 1
    /\ asked' = FALSE
    /\ UNCHANGED <<files, log, sweep, ended, lost, reused, abandoned, sweeps>>

\* ... and its pid is written down.
StartRecord ==
    /\ op.kind = "start" /\ op.step = "record"
    /\ pidFile' = op.pid
    /\ op' = NoOp
    /\ UNCHANGED <<exitFile, marker, log, group, sweep, past, counts>>

-----------------------------------------------------------------------------
(* `stop`.                                                                 *)

\* NotRunning otherwise.
Stop ==
    /\ MayOperate
    /\ RunningPid # None
    /\ op' = [kind |-> "stop", step |-> "mark", pid |-> RunningPid]
    /\ asked' = TRUE
    /\ UNCHANGED <<files, log, group, sweep, ended, lost, counts>>

\* Mutant: no marker.
StopMarkNothing ==
    /\ op.kind = "stop" /\ op.step = "mark"
    /\ op' = [op EXCEPT !.step = "signal"]
    /\ UNCHANGED <<files, log, group, sweep, past, counts>>

\* The marker is there before the signal.
StopMark ==
    /\ op.kind = "stop" /\ op.step = "mark"
    /\ marker' = TRUE
    /\ op' = [op EXCEPT !.step = "signal"]
    /\ UNCHANGED <<pidFile, exitFile, log, group, sweep, past, counts>>

\* `signal_group`: what handles the signal may live on, wrapper or command;
\* a group gone by now (ESRCH) is what `stop` wanted.
StopSignal ==
    /\ op.kind = "stop" /\ op.step = "signal"
    /\ \/ /\ group[op.pid].owner = "newgit"
          /\ \E w \in {group[op.pid].wrapper, "gone"},
                c \in {group[op.pid].command} \cup
                        (IF group[op.pid].command \in {"unborn", "runs"}
                         THEN {"gone", "signal"} ELSE {}) :
                Become(op.pid, [owner |-> "newgit", wrapper |-> w, command |-> c])
       \/ /\ group[op.pid].owner = "other"
          /\ \E now \in {Alien, Free} : group' = [group EXCEPT ![op.pid] = now]
          /\ UNCHANGED past
       \/ /\ group[op.pid] = Free
          /\ UNCHANGED <<group, past>>
    /\ op' = [op EXCEPT !.step = "poll"]
    /\ UNCHANGED <<files, log, sweep, counts>>

\* The wait: the group is gone and the pid retired, or fifty polls were not
\* enough (StillRunning) and the marker stays.
StopPoll ==
    /\ op.kind = "stop" /\ op.step = "poll"
    /\ \/ /\ ~ Alive(op.pid)
          /\ pidFile' = "stopped"
          /\ op' = [op EXCEPT !.step = "log"]
       \/ /\ Alive(op.pid)
          /\ op' = NoOp
          /\ UNCHANGED pidFile
    /\ UNCHANGED <<exitFile, marker, log, group, sweep, past, counts>>

\* `log_stopped`.
StopLog ==
    /\ op.kind = "stop" /\ op.step = "log"
    /\ log' = log \cup {"stopped"}
    /\ op' = NoOp
    /\ UNCHANGED <<files, group, sweep, past, counts>>

\* newgit is killed in a start or a stop, or one of its writes, the spawn or
\* the signal (EPERM) fails: it goes no further, and undoes nothing.  A start
\* cut before it wrote the pid leaves a run nobody knows of; a stop cut before
\* its marker has asked for nothing.
Abandon ==
    LET unrecorded == op.step = "record"
        unasked    == op.step = "mark" /\ ~ marker
    IN  /\ op # NoOp /\ abandoned < MaxAbandon
        /\ op' = NoOp
        /\ lost' = IF unrecorded /\ group[op.pid].owner = "newgit"
                   THEN lost \cup {op.pid} ELSE lost
        /\ asked' = (asked /\ ~ unasked)
        /\ ended' = CASE unrecorded -> None
                       [] unasked /\ ended = "asked" -> "alone"
                       [] OTHER -> ended
        /\ abandoned' = abandoned + 1
        /\ UNCHANGED <<files, log, group, sweep, started, reused, sweeps>>

-----------------------------------------------------------------------------
(* `retire_dead_pids`, with no lock.                                       *)

\* A number is read, and its group found gone.
SweepRead ==
    /\ sweep = None /\ sweeps < MaxSweep
    /\ op = NoOp \/ Racing
    /\ pidFile \in Pid /\ ~ Alive(pidFile)
    /\ sweep' = pidFile
    /\ sweeps' = sweeps + 1
    /\ UNCHANGED <<files, log, group, op, past, started, reused, abandoned>>

\* Mutant: retired as if newgit had stopped it.
SweepWriteStopped ==
    /\ sweep # None
    /\ pidFile' = "stopped" /\ sweep' = None
    /\ UNCHANGED <<exitFile, marker, log, group, op, past, counts>>

\* `exited` is written over whatever the file holds by now.
SweepWrite ==
    /\ sweep # None
    /\ pidFile' = "exited" /\ sweep' = None
    /\ UNCHANGED <<exitFile, marker, log, group, op, past, counts>>

-----------------------------------------------------------------------------
(* The processes: WRAPPER, the command under it, and everybody else's.     *)

Own(g) == group[g].owner = "newgit"

\* `sh -c "$c"` is forked.
CommandBegins(g) ==
    /\ Own(g) /\ group[g].command = "unborn" /\ group[g].wrapper = "waits"
    /\ group' = [group EXCEPT ![g].command = "runs"]
    /\ UNCHANGED <<files, log, op, sweep, past, counts>>

\* It ends, by itself or by someone's signal, or because newgit asked.
CommandEnds(g) ==
    /\ Own(g) /\ group[g].command = "runs"
    /\ \E c \in Status : Become(g, [group[g] EXCEPT !.command = c])
    /\ UNCHANGED <<files, log, op, sweep, counts>>

\* The wrapper says in the log how it ended, unless newgit asked, and then
\* leaves the status in the exit file.
WrapperWrites(g) ==
    /\ Own(g) /\ group[g].command \in Status
    /\ \/ /\ group[g].wrapper = "waits"
          /\ log' = IF marker THEN log ELSE log \cup {group[g].command}
          /\ group' = [group EXCEPT ![g].wrapper = "writes"]
          /\ UNCHANGED <<exitFile, past>>
       \/ /\ group[g].wrapper = "writes"
          /\ exitFile' = group[g].command
          /\ Become(g, [group[g] EXCEPT !.wrapper = "gone"])
          /\ UNCHANGED log
    /\ UNCHANGED <<pidFile, marker, op, sweep, counts>>

\* `kill -9` of the whole group, or a reboot: nothing is written.
GroupKilled(g) ==
    /\ Own(g)
    /\ Become(g, [group[g] EXCEPT !.wrapper = "gone", !.command = "gone"])
    /\ UNCHANGED <<files, log, op, sweep, counts>>

\* The kernel hands a free pid to an unrelated process, and it ends.
PidReused(g) ==
    /\ group[g] = Free /\ reused < MaxReuse
    /\ group' = [group EXCEPT ![g] = Alien]
    /\ reused' = reused + 1
    /\ UNCHANGED <<files, log, op, sweep, past, started, abandoned, sweeps>>

AlienEnds(g) ==
    /\ group[g] = Alien
    /\ group' = [group EXCEPT ![g] = Free]
    /\ UNCHANGED <<files, log, op, sweep, past, counts>>

-----------------------------------------------------------------------------
ProcessNext(g) ==
    \/ CommandBegins(g) \/ CommandEnds(g) \/ WrapperWrites(g) \/ GroupKilled(g)
    \/ PidReused(g) \/ AlienEnds(g)

StopNext == Stop \/ StopMark \/ StopSignal \/ StopPoll \/ StopLog

Next ==
    \/ Start \/ StartClear \/ StartRecord \/ StopNext
    \/ Abandon \/ SweepRead \/ SweepWrite
    \/ \E g \in Pid : StartSpawn(g) \/ ProcessNext(g)

Spec == Init /\ [][Next]_vars

-----------------------------------------------------------------------------
(* Properties.                                                             *)

\* Between commands, a process newgit started and that is still alive is the
\* one the pid file names, so that `stop` can stop it and a second `start`
\* refuses; only a start cut between the spawn and the write of the pid file
\* leaves one unnamed (supervisor.rs: start, stop, retire_dead_pids).
NothingUntracked ==
    op = NoOp /\ sweep = None =>
        \A g \in Pid : Own(g) /\ Alive(g) => pidFile = g \/ g \in lost

\* A run newgit asked to stop, and that went, is never reported as having died
\* on its own, however late it went, whatever swept in between and wherever
\* the stop was cut after its marker (#261; stop, state).
AskedStopIsNoCrash ==
    op = NoOp /\ ended = "asked" /\ reused = 0 => State = "stopped"

\* A run that ended with nobody asking is reported as dead, not as stopped,
\* until the next start or until its pid goes to somebody else (#261; state,
\* retire_dead_pids).
CrashIsNotHidden ==
    op = NoOp /\ ended = "alone" /\ reused = 0 =>
        State \in Status \cup {"crashed"}

=============================================================================
