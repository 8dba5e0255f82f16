-------------------------- MODULE SupervisorProofs --------------------------
(***************************************************************************)
(* Theorems about the supervision of a process, for any number of process  *)
(* ids, starts, stops and sweeps, cut short wherever they are.  All but    *)
(* type correctness suppose that no cleanup sweeps a resource while it is  *)
(* being started or stopped (Apart); with one that does, NothingUntracked  *)
(* is false (see the README).                                              *)
(***************************************************************************)
EXTENDS Supervisor, TLAPS

\* Sweeps come between starts and stops.
Apart == Racing = FALSE

\* A start spawns one process, within the bound, and knows its pid from then on.
Spawning ==
    op.kind = "start" => IF op.step = "record" THEN op.pid \in Pid ELSE started < MaxStart

\* A group none of whose processes is left is nobody's.
NoCorpse == \A g \in Pid : Own(g) => Alive(g)

\* What a sweep read is still in the pid file, and newgit's no more.
Sweeping == sweep # None => op = NoOp /\ pidFile = sweep /\ (sweep \in Pid => ~ Own(sweep))

\* A stop works on the pid in the file, until it retires it.
Stopping ==
    op.kind = "stop" => /\ pidFile = IF op.step = "log" THEN "stopped" ELSE op.pid
                        /\ asked

\* A start begins over a pid that is dead, and the file names no other living
\* process than the one it spawned.
Starting ==
    op.kind = "start" /\ pidFile \in Pid /\ Own(pidFile) =>
        op.step = "record" /\ op.pid = pidFile

\* Whoever lives is in the file, or about to be, or was lost by a start cut
\* short.
Tracked ==
    \A g \in Pid : Own(g) => \/ pidFile = g \/ g \in lost
                             \/ op.step = "record" /\ op.pid = g

TrackInv == TypeOK /\ Spawning /\ NoCorpse /\ Sweeping /\ Stopping /\ Starting /\ Tracked

\* No other process has a pid, as long as none was handed out.
NoAlien == reused = 0 => \A g \in Pid : group[g].owner # "other"

\* The marker is there only if newgit asked, and a start has removed it, and
\* forgotten how the last run ended, when it spawns.
Marked == marker => asked
Cleared ==
    /\ op.kind = "start" /\ op.step \in {"spawn", "record"} => ~ marker
    /\ op.kind = "start" /\ op.step = "record" => ~ asked
    /\ op.kind = "start" /\ op.step = "spawn" => ended = None

\* newgit having asked, the marker is there before anything can come of it.
Heard ==
    asked => \/ marker \/ op.step = "mark"
             \/ \A g \in Pid : Own(g) => g \in lost

\* When the last run has ended, the file, or the start about to write it,
\* names a pid that is dead.
Over ==
    ended # None =>
        /\ pidFile # None \/ op.step = "record"
        /\ pidFile \in Pid => ~ Own(pidFile)
        /\ op.step = "record" => ~ Own(op.pid)

EndedAsked == ended = "asked" => marker \/ op.step = "mark"
EndedAlone ==
    reused = 0 /\ ended = "alone" =>
        /\ ~ marker /\ op.kind # "stop"
        /\ pidFile \notin {None, "stopped"} \/ op.step = "record"

EndInv == NoAlien /\ Marked /\ Cleared /\ Heard /\ Over /\ EndedAsked /\ EndedAlone

-----------------------------------------------------------------------------
(* What the processes' own steps, and a signal, do to a group.             *)

NewgitGroup == [owner : {"newgit"}, wrapper : {"waits", "writes", "gone"},
                command : {"unborn", "runs", "gone"} \cup Status]

\* One of newgit's groups lives on or goes, and how it went is settled.
Settles(g) ==
    /\ Own(g)
    /\ group' \in [Pid -> Group]
    /\ \A h \in Pid \ {g} : group'[h] = group[h]
    /\ \/ Own(g)' /\ Alive(g)' /\ ended' = ended /\ lost' = lost
       \/ /\ group'[g] = Free
          /\ lost' = lost \ {g}
          /\ ended' = IF g \in lost THEN ended ELSE IF asked THEN "asked" ELSE "alone"
    /\ asked' = asked

\* A pid that is not newgit's changes hands.
Elsewhere(g) ==
    /\ ~ Own(g)
    /\ group' \in [Pid -> Group]
    /\ \A h \in Pid \ {g} : group'[h] = group[h]
    /\ \/ group'[g] = Free
       \/ group'[g] = Alien /\ (group[g] = Alien \/ reused' # 0)
    /\ UNCHANGED past

LEMMA BecomeSettles ==
    ASSUME TypeOK, NEW g \in Pid, Own(g), NEW now \in NewgitGroup, Become(g, now)
    PROVE  Settles(g)
<1> DEFINE dead == now.wrapper = "gone" /\ now.command \notin {"unborn", "runs"}
<1>1. now \in Group /\ Free \in Group
  BY DEF Group, NewgitGroup
<1>2. group' = [group EXCEPT ![g] = IF dead THEN Free ELSE now]
  BY DEF Become
<1>3. /\ group' \in [Pid -> Group]
      /\ \A h \in Pid \ {g} : group'[h] = group[h]
      /\ group'[g] = IF dead THEN Free ELSE now
  BY <1>1, <1>2 DEF TypeOK
<1>4. CASE dead
  BY <1>3, <1>4 DEF Settles, Become
<1>5. CASE ~ dead
  <2>1. now.owner = "newgit" /\ (now.wrapper # "gone" \/ now.command \in {"unborn", "runs"})
    BY <1>5 DEF NewgitGroup
  <2>2. Own(g)' /\ Alive(g)'
    BY <1>3, <1>5, <2>1 DEF Own, Alive
  <2> QED
    BY <1>3, <1>5, <2>2 DEF Settles, Become
<1> QED
  BY <1>4, <1>5

\* A group of newgit's is one record, and that of nobody or another is not.
LEMMA OwnGroups ==
    ASSUME TypeOK, NEW g \in Pid
    PROVE  /\ Own(g) => group[g] \in NewgitGroup
           /\ ~ Own(g) => group[g] \in {Free, Alien}
           /\ Alive(g) => Own(g) \/ group[g] = Alien
           /\ group[g] = Alien => Alive(g)
           /\ group[g] \in {Free, Alien} => ~ Own(g)
  BY DEF TypeOK, Group, NewgitGroup, Own, Alive, Free, Alien

\* The steps of processes, and the effect of a signal.
LEMMA ProcessSteps ==
    ASSUME TypeOK, NEW g \in Pid, ProcessNext(g)
    PROVE  /\ Settles(g) \/ Elsewhere(g)
           /\ UNCHANGED <<pidFile, marker, op, sweep, started, abandoned, sweeps>>
           /\ exitFile' \in Status \cup {None}
           /\ log' \subseteq Status \cup {"stopped"}
           /\ reused' \in 0 .. MaxReuse
           /\ reused' = 0 => reused = 0
<1> USE OwnGroups, SupervisorAssumption
<1>1. CASE CommandBegins(g)
  <2>1. group' = [group EXCEPT ![g] = [group[g] EXCEPT !.command = "runs"]]
    BY <1>1 DEF CommandBegins
  <2>2. [group[g] EXCEPT !.command = "runs"] \in NewgitGroup
    BY <1>1 DEF CommandBegins, NewgitGroup
  <2>3. /\ group' \in [Pid -> Group]
        /\ \A h \in Pid \ {g} : group'[h] = group[h]
        /\ group'[g] = [group[g] EXCEPT !.command = "runs"]
    BY <2>1, <2>2 DEF TypeOK, Group, NewgitGroup
  <2>4. Own(g)' /\ Alive(g)'
    BY <1>1, <2>2, <2>3 DEF CommandBegins, Own, Alive, NewgitGroup
  <2> QED
    BY <1>1, <2>3, <2>4 DEF CommandBegins, Settles, files, past, counts, TypeOK
<1>2. CASE CommandEnds(g)
  <2>1. PICK c \in Status : Become(g, [group[g] EXCEPT !.command = c])
    BY <1>2 DEF CommandEnds
  <2>2. [group[g] EXCEPT !.command = c] \in NewgitGroup
    BY <1>2 DEF CommandEnds, NewgitGroup
  <2>3. Settles(g)
    BY <1>2, <2>1, <2>2, BecomeSettles DEF CommandEnds
  <2> QED
    BY <1>2, <2>3 DEF CommandEnds, files, counts, TypeOK
<1>3. CASE WrapperWrites(g)
  <2>1. CASE /\ group[g].wrapper = "waits"
             /\ log' = IF marker THEN log ELSE log \cup {group[g].command}
             /\ group' = [group EXCEPT ![g].wrapper = "writes"]
             /\ UNCHANGED <<exitFile, past>>
    <3>1. [group[g] EXCEPT !.wrapper = "writes"] \in NewgitGroup
      BY <1>3 DEF WrapperWrites, NewgitGroup
    <3>2. /\ group' \in [Pid -> Group]
          /\ \A h \in Pid \ {g} : group'[h] = group[h]
          /\ group'[g] = [group[g] EXCEPT !.wrapper = "writes"]
      BY <2>1, <3>1 DEF TypeOK, Group, NewgitGroup
    <3>3. Own(g)' /\ Alive(g)'
      BY <1>3, <3>1, <3>2 DEF WrapperWrites, Own, Alive, NewgitGroup
    <3> QED
      BY <1>3, <2>1, <3>2, <3>3 DEF WrapperWrites, Settles, past, counts, TypeOK
  <2>2. CASE /\ group[g].wrapper = "writes"
             /\ exitFile' = group[g].command
             /\ Become(g, [group[g] EXCEPT !.wrapper = "gone"])
             /\ UNCHANGED log
    <3>1. [group[g] EXCEPT !.wrapper = "gone"] \in NewgitGroup
      BY <1>3 DEF WrapperWrites, NewgitGroup
    <3>2. Settles(g)
      BY <1>3, <2>2, <3>1, BecomeSettles DEF WrapperWrites
    <3> QED
      BY <1>3, <2>2, <3>2 DEF WrapperWrites, counts, TypeOK
  <2> QED
    BY <1>3, <2>1, <2>2 DEF WrapperWrites
<1>4. CASE GroupKilled(g)
  <2>1. [group[g] EXCEPT !.wrapper = "gone", !.command = "gone"] \in NewgitGroup
    BY <1>4 DEF GroupKilled, NewgitGroup
  <2>2. Settles(g)
    BY <1>4, <2>1, BecomeSettles DEF GroupKilled
  <2> QED
    BY <1>4, <2>2 DEF GroupKilled, files, counts, TypeOK
<1>5. CASE PidReused(g) \/ AlienEnds(g)
  <2>1. /\ group' \in [Pid -> Group]
        /\ \A h \in Pid \ {g} : group'[h] = group[h]
        /\ group'[g] = IF PidReused(g) THEN Alien ELSE Free
    BY <1>5 DEF PidReused, AlienEnds, TypeOK, Group, Free, Alien
  <2>2. ~ Own(g)
    BY <1>5 DEF PidReused, AlienEnds
  <2>3. PidReused(g) => reused' \in 0 .. MaxReuse /\ reused' # 0
    BY DEF PidReused, TypeOK
  <2> QED
    BY <1>5, <2>1, <2>2, <2>3 DEF PidReused, AlienEnds, Elsewhere, files, counts, TypeOK
<1> QED
  BY <1>1, <1>2, <1>3, <1>4, <1>5 DEF ProcessNext

LEMMA SignalSteps ==
    ASSUME TypeOK, StopSignal
    PROVE  /\ op.pid \in Pid
           /\ Settles(op.pid) \/ Elsewhere(op.pid)
           /\ op.kind = "stop" /\ op.step = "signal"
           /\ op' = [op EXCEPT !.step = "poll"]
           /\ UNCHANGED <<files, log, sweep, counts>>
<1>1. /\ op.pid \in Pid
      /\ op.kind = "stop" /\ op.step = "signal"
      /\ op' = [op EXCEPT !.step = "poll"]
      /\ UNCHANGED <<files, log, sweep, counts>>
  BY DEF StopSignal, TypeOK, NoOp, None
<1>2. CASE group[op.pid].owner = "newgit"
  <2>1. PICK w \in {group[op.pid].wrapper, "gone"},
             c \in {group[op.pid].command} \cup
                     (IF group[op.pid].command \in {"unborn", "runs"}
                      THEN {"gone", "signal"} ELSE {}) :
           Become(op.pid, [owner |-> "newgit", wrapper |-> w, command |-> c])
    <3>1. group[op.pid] # Free /\ group[op.pid].owner # "other"
      BY <1>2 DEF Free
    <3> QED
      BY <1>2, <3>1 DEF StopSignal
  <2>2. group[op.pid] \in NewgitGroup /\ Own(op.pid)
    BY <1>1, <1>2, OwnGroups DEF Own
  <2>3. [owner |-> "newgit", wrapper |-> w, command |-> c] \in NewgitGroup
    BY <2>1, <2>2 DEF NewgitGroup, Status
  <2> QED
    BY <1>1, <2>1, <2>2, <2>3, BecomeSettles
<1>3. CASE group[op.pid].owner # "newgit"
  <2>1. group' \in [Pid -> Group] /\ UNCHANGED past
        /\ (\A h \in Pid \ {op.pid} : group'[h] = group[h])
        /\ (group'[op.pid] = Free \/ (group'[op.pid] = Alien /\ group[op.pid] = Alien))
    BY <1>1, <1>3, OwnGroups DEF StopSignal, TypeOK, Group, Free, Alien, Own
  <2> QED
    BY <1>1, <1>3, <2>1 DEF Elsewhere, Own
<1> QED
  BY <1>1, <1>2, <1>3

-----------------------------------------------------------------------------
(* Types.                                                                  *)

LEMMA InitTypeOK == Init => TypeOK /\ Spawning
<1> SUFFICES ASSUME Init PROVE TypeOK /\ Spawning
  OBVIOUS
<1>1. group \in [Pid -> Group]
  BY DEF Init, Group
<1>2. op = NoOp /\ op.kind # "start"
  BY DEF Init, NoOp, None
<1>3. started \in 0 .. MaxStart /\ reused \in 0 .. MaxReuse
      /\ abandoned \in 0 .. MaxAbandon /\ sweeps \in 0 .. MaxSweep
  BY SupervisorAssumption DEF Init
<1> QED
  BY <1>1, <1>2, <1>3 DEF Init, TypeOK, Spawning, None

LEMMA NextTypeOK == TypeOK /\ Spawning /\ [Next]_vars => TypeOK' /\ Spawning'
<1> SUFFICES ASSUME TypeOK, Spawning, [Next]_vars PROVE TypeOK' /\ Spawning'
  OBVIOUS
<1> USE SupervisorAssumption
<1>1. CASE Start \/ StartClear \/ StartRecord
  <2>1. op' \in [kind : {"start"}, step : {"clear", "spawn", "record"}, pid : Pid \cup {None}]
                 \cup {NoOp}
    BY <1>1 DEF TypeOK, Start, StartClear, StartRecord, NoOp, None
  <2>2. Spawning'
    BY <1>1 DEF TypeOK, Spawning, Start, StartClear, StartRecord, NoOp, None, counts
  <2>3. pidFile' \in Pid \cup {None, "stopped", "exited"}
    BY <1>1 DEF TypeOK, Start, StartClear, StartRecord, NoOp, None, files
  <2> QED
    BY <1>1, <2>1, <2>2, <2>3
       DEF TypeOK, Start, StartClear, StartRecord, files, past, counts
<1>2. CASE Stop \/ StopMark \/ StopPoll \/ StopLog
  <2>1. op' \in [kind : {"stop"}, step : {"mark", "signal", "poll", "log"}, pid : Pid]
                 \cup {NoOp}
    BY <1>2 DEF TypeOK, Stop, StopMark, StopPoll, StopLog, NoOp, None, RunningPid
  <2>2. op'.kind # "start"
    BY <2>1 DEF NoOp, None
  <2> QED
    BY <1>2, <2>1, <2>2
       DEF TypeOK, Spawning, Stop, StopMark, StopPoll, StopLog, files, past, counts
<1>3. CASE StopSignal
  <2>1. op' \in [kind : {"stop"}, step : {"mark", "signal", "poll", "log"}, pid : Pid]
    BY <1>3, SignalSteps DEF TypeOK, NoOp, None
  <2> QED
    BY <1>3, <2>1, SignalSteps
       DEF TypeOK, Spawning, Settles, Elsewhere, files, past, counts, None
<1>4. CASE Abandon
  <2>1. op' = NoOp /\ op'.kind # "start"
    BY <1>4 DEF Abandon, NoOp, None
  <2>2. lost' \subseteq Pid
    BY <1>4 DEF Abandon, TypeOK, Spawning, NoOp, None
  <2>3. asked' \in BOOLEAN /\ ended' \in {None, "asked", "alone"}
    BY <1>4 DEF Abandon, TypeOK
  <2>4. abandoned' \in 0 .. MaxAbandon
    BY <1>4 DEF Abandon, TypeOK
  <2> QED
    BY <1>4, <2>1, <2>2, <2>3, <2>4 DEF Abandon, TypeOK, Spawning, files
<1>5. CASE SweepRead \/ SweepWrite
  BY <1>5 DEF TypeOK, Spawning, SweepRead, SweepWrite, files, past, counts, None
<1>6. ASSUME NEW g \in Pid, StartSpawn(g) PROVE TypeOK' /\ Spawning'
  <2>1. [owner |-> "newgit", wrapper |-> "waits", command |-> "unborn"] \in Group
    BY DEF Group
  <2>2. group' \in [Pid -> Group]
    BY <1>6, <2>1 DEF StartSpawn, TypeOK
  <2>3. op' \in [kind : {"start"}, step : {"record"}, pid : Pid]
    BY <1>6 DEF StartSpawn, TypeOK, NoOp, None
  <2>4. started' \in 0 .. MaxStart
    BY <1>6 DEF StartSpawn, TypeOK, Spawning
  <2> QED
    BY <1>6, <2>2, <2>3, <2>4 DEF StartSpawn, TypeOK, Spawning, files
<1>7. ASSUME NEW g \in Pid, ProcessNext(g) PROVE TypeOK' /\ Spawning'
  BY <1>7, ProcessSteps DEF TypeOK, Spawning, Settles, Elsewhere, past
<1>8. CASE UNCHANGED vars
  BY <1>8 DEF TypeOK, Spawning, vars, files, past, counts
<1> QED
  BY <1>1, <1>2, <1>3, <1>4, <1>5, <1>6, <1>7, <1>8 DEF Next, StopNext

\* Every reachable state is well typed, for any bounds, racing sweeps included.
THEOREM TypeCorrect == Spec => []TypeOK
<1>1. TypeOK /\ Spawning /\ [Next]_vars => (TypeOK /\ Spawning)'
  BY NextTypeOK
<1> QED
  BY <1>1, InitTypeOK, PTL DEF Spec

-----------------------------------------------------------------------------
(* Nothing is lost track of.                                               *)

LEMMA InitTrackInv == Init => TrackInv
<1> SUFFICES ASSUME Init PROVE TrackInv
  OBVIOUS
<1>1. \A g \in Pid : ~ Own(g)
  BY DEF Init, Own, Free
<1>2. op = NoOp /\ op.kind = None
  BY DEF Init, NoOp
<1> QED
  BY <1>1, <1>2, InitTypeOK
     DEF Init, TrackInv, NoCorpse, Sweeping, Stopping, Starting, Tracked, None

\* Groups that settle, or that are not newgit's, keep what TrackInv says of
\* groups.
LEMMA GroupsKeepTrack ==
    ASSUME TrackInv, NEW g \in Pid, Settles(g) \/ Elsewhere(g)
    PROVE  /\ NoCorpse'
           /\ \A h \in Pid : Own(h)' => Own(h)
           /\ \A h \in Pid : Own(h)' /\ h \in lost => h \in lost'
<1>1. \A h \in Pid \ {g} : /\ Own(h)' <=> Own(h)
                           /\ Alive(h)' <=> Alive(h)
  BY DEF Settles, Elsewhere, Own, Alive
<1>2. CASE Settles(g)
  <2>1. Own(g)
    BY <1>2 DEF Settles
  <2>2. Own(g)' => Alive(g)' /\ lost' = lost
    BY <1>2 DEF Settles, Own, Free
  <2>3. lost \ {g} \subseteq lost'
    BY <1>2 DEF Settles
  <2> QED
    BY <1>1, <2>1, <2>2, <2>3 DEF TrackInv, NoCorpse
<1>3. CASE Elsewhere(g)
  <2>1. ~ Own(g)' /\ lost' = lost
    BY <1>3 DEF Elsewhere, Own, Free, Alien, past
  <2> QED
    BY <1>1, <2>1 DEF TrackInv, NoCorpse
<1> QED
  BY <1>2, <1>3

LEMMA NextTrackInv == ASSUME Apart PROVE TrackInv /\ [Next]_vars => TrackInv'
<1> SUFFICES ASSUME TrackInv, [Next]_vars PROVE TrackInv'
  OBVIOUS
<1>0. TypeOK /\ Spawning /\ TypeOK' /\ Spawning'
  BY NextTypeOK DEF TrackInv
<1> DEFINE Rest == NoCorpse /\ Sweeping /\ Stopping /\ Starting /\ Tracked
<1> SUFFICES Rest'
  BY <1>0 DEF TrackInv
<1> USE SupervisorAssumption DEF None
<1>a. NoOp.kind = None /\ NoOp.step = "idle"
  BY DEF NoOp
<1>b. (\A g \in Pid : group'[g] = group[g]) =>
          /\ NoCorpse'
          /\ \A g \in Pid : Own(g)' <=> Own(g)
          /\ \A g \in Pid : Alive(g)' <=> Alive(g)
  BY DEF TrackInv, NoCorpse, Own, Alive
<1>1. CASE Start
  <2>1. pidFile \in Pid => ~ Alive(pidFile)
    BY <1>1, <1>0 DEF Start, RunningPid
  <2>2. sweep = None /\ op = NoOp
    BY <1>1 DEF Start, MayOperate, Apart
  <2>3. op'.kind = "start" /\ op'.step = "clear"
    BY <1>1 DEF Start
  <2> QED
    BY <1>1, <1>b, <1>a, <2>1, <2>2, <2>3
       DEF Start, TrackInv, NoCorpse, Sweeping, Stopping, Starting, Tracked,
           files, past
<1>2. CASE StartClear
  <2>1. op'.kind = "start" /\ op'.step = "spawn" /\ op # NoOp
    BY <1>2, <1>0, <1>a DEF StartClear, TypeOK
  <2> QED
    BY <1>2, <1>b, <2>1
       DEF StartClear, TrackInv, Sweeping, Stopping, Starting, Tracked
<1>3. ASSUME NEW g \in Pid, StartSpawn(g) PROVE Rest'
  <2>1. /\ op'.kind = "start" /\ op'.step = "record" /\ op'.pid = g /\ op # NoOp
        /\ op.kind = "start" /\ op.step = "spawn"
    BY <1>3, <1>0, <1>a DEF StartSpawn, TypeOK
  <2>2. /\ group'[g] = [owner |-> "newgit", wrapper |-> "waits", command |-> "unborn"]
        /\ \A h \in Pid \ {g} : group'[h] = group[h]
    BY <1>3, <1>0 DEF StartSpawn, TypeOK
  <2>3. /\ Own(g)' /\ Alive(g)'
        /\ \A h \in Pid \ {g} : (Own(h)' <=> Own(h)) /\ (Alive(h)' <=> Alive(h))
    BY <2>2 DEF Own, Alive
  <2>4. UNCHANGED <<pidFile, sweep, lost>>
    BY <1>3 DEF StartSpawn, files
  <2> QED
    BY <2>1, <2>3, <2>4
       DEF TrackInv, NoCorpse, Sweeping, Stopping, Starting, Tracked
<1>4. CASE StartRecord
  <2>1. op' = NoOp /\ op # NoOp /\ pidFile' = op.pid /\ op.pid \in Pid
        /\ op.kind = "start" /\ op.step = "record"
    BY <1>4, <1>0, <1>a DEF StartRecord, Spawning
  <2> QED
    BY <1>4, <1>b, <1>a, <2>1
       DEF StartRecord, TrackInv, Sweeping, Stopping, Starting, Tracked, past
<1>5. CASE Stop
  <2>1. RunningPid \in Pid /\ RunningPid = pidFile
    BY <1>5 DEF Stop, RunningPid
  <2>2. sweep = None /\ op = NoOp
    BY <1>5 DEF Stop, MayOperate, Apart
  <2>3. op'.kind = "stop" /\ op'.step = "mark" /\ op'.pid = pidFile
    BY <1>5, <2>1 DEF Stop
  <2> QED
    BY <1>5, <1>b, <1>a, <2>2, <2>3
       DEF Stop, TrackInv, Sweeping, Stopping, Starting, Tracked, files
<1>6. CASE StopMark
  <2>1. /\ op'.kind = "stop" /\ op'.step = "signal" /\ op'.pid = op.pid
        /\ op.kind = "stop" /\ op.step = "mark" /\ op # NoOp
    BY <1>6, <1>0, <1>a DEF StopMark, TypeOK
  <2> QED
    BY <1>6, <1>b, <2>1
       DEF StopMark, TrackInv, Sweeping, Stopping, Starting, Tracked, past
<1>7. CASE StopSignal
  <2>1. /\ op'.kind = "stop" /\ op'.step = "poll" /\ op'.pid = op.pid
        /\ op.kind = "stop" /\ op.step = "signal" /\ op # NoOp /\ op.pid \in Pid
    BY <1>7, <1>0, <1>a, SignalSteps DEF TypeOK
  <2>2. /\ NoCorpse'
        /\ \A h \in Pid : Own(h)' => Own(h)
        /\ \A h \in Pid : Own(h)' /\ h \in lost => h \in lost'
    BY <1>0, <1>7, <2>1, SignalSteps, GroupsKeepTrack
  <2>3. UNCHANGED <<pidFile, sweep, asked>>
    BY <1>0, <1>7, SignalSteps DEF files, Settles, Elsewhere, past
  <2> QED
    BY <2>1, <2>2, <2>3 DEF TrackInv, Sweeping, Stopping, Starting, Tracked
<1>8. CASE StopPoll
  <2>1. op.kind = "stop" /\ op.step = "poll" /\ op # NoOp /\ op.pid \in Pid
    BY <1>8, <1>0, <1>a DEF StopPoll, TypeOK
  <2>2. CASE ~ Alive(op.pid) /\ pidFile' = "stopped" /\ op' = [op EXCEPT !.step = "log"]
    <3>1. op'.kind = "stop" /\ op'.step = "log"
      BY <2>1, <2>2, <1>0 DEF TypeOK
    <3> QED
      BY <1>8, <1>b, <2>1, <2>2, <3>1
         DEF StopPoll, TrackInv, NoCorpse, Sweeping, Stopping, Starting, Tracked, past
  <2>3. CASE op' = NoOp /\ UNCHANGED pidFile
    BY <1>8, <1>a, <1>b, <2>1, <2>3
       DEF StopPoll, TrackInv, Sweeping, Stopping, Starting, Tracked, past
  <2> QED
    BY <1>8, <2>2, <2>3 DEF StopPoll
<1>9. CASE StopLog
  BY <1>9, <1>a, <1>b
     DEF StopLog, TrackInv, Sweeping, Stopping, Starting, Tracked, past, files
<1>10. CASE Abandon
  <2>1. op' = NoOp /\ op # NoOp
    BY <1>10 DEF Abandon
  <2>2. /\ \A g \in lost : g \in lost'
        /\ op.step = "record" /\ Own(op.pid) => op.pid \in lost'
    BY <1>10 DEF Abandon, Own
  <2>3. UNCHANGED <<pidFile, group, sweep>>
    BY <1>10 DEF Abandon, files
  <2> QED
    BY <1>a, <1>b, <2>1, <2>2, <2>3
       DEF TrackInv, Sweeping, Stopping, Starting, Tracked
<1>11. CASE SweepRead
  <2>1. op = NoOp
    BY <1>11 DEF SweepRead, Apart
  <2> QED
    BY <1>11, <1>a, <1>b, <2>1
       DEF SweepRead, TrackInv, NoCorpse, Sweeping, Stopping, Starting, Tracked,
           files, past
<1>12. CASE SweepWrite
  <2>1. op = NoOp /\ pidFile = sweep /\ sweep \in Pid
    BY <1>12, <1>0 DEF SweepWrite, TrackInv, Sweeping, TypeOK
  <2> QED
    BY <1>12, <1>a, <1>b, <2>1
       DEF SweepWrite, TrackInv, Sweeping, Stopping, Starting, Tracked, past
<1>13. ASSUME NEW g \in Pid, ProcessNext(g) PROVE Rest'
  <2>1. /\ NoCorpse'
        /\ \A h \in Pid : Own(h)' => Own(h)
        /\ \A h \in Pid : Own(h)' /\ h \in lost => h \in lost'
    BY <1>0, <1>13, ProcessSteps, GroupsKeepTrack
  <2>2. UNCHANGED <<pidFile, op, sweep, asked>>
    BY <1>0, <1>13, ProcessSteps DEF Settles, Elsewhere, past
  <2> QED
    BY <1>0, <2>1, <2>2
       DEF TrackInv, Sweeping, Stopping, Starting, Tracked, TypeOK
<1>14. CASE UNCHANGED vars
  BY <1>14, <1>b
     DEF TrackInv, Sweeping, Stopping, Starting, Tracked, vars, files, past
<1> QED
  BY <1>1, <1>2, <1>3, <1>4, <1>5, <1>6, <1>7, <1>8, <1>9, <1>10, <1>11, <1>12,
     <1>13, <1>14 DEF Next, StopNext

THEOREM TrackInvariant == ASSUME Apart PROVE Spec => []TrackInv
  BY InitTrackInv, NextTrackInv, PTL DEF Spec

\* Between commands, the process newgit started and that lives is the one the
\* pid file names, unless a start was cut before it could write it (start, stop).
THEOREM Untracked == ASSUME Apart PROVE Spec => []NothingUntracked
<1>1. TrackInv => NothingUntracked
  <2> SUFFICES ASSUME TrackInv, op = NoOp, NEW g \in Pid, Own(g)
               PROVE  pidFile = g \/ g \in lost
    BY DEF NothingUntracked
  <2> QED
    BY DEF TrackInv, Tracked, NoOp
<1> QED
  BY <1>1, TrackInvariant, PTL


-----------------------------------------------------------------------------
(* How a run ended.                                                        *)

LEMMA InitEndInv == Init => EndInv
<1> SUFFICES ASSUME Init PROVE EndInv
  OBVIOUS
<1>1. \A g \in Pid : group[g].owner = "nobody"
  BY DEF Init, Free
<1>2. op.kind = None
  BY DEF Init, NoOp
<1> QED
  BY <1>1, <1>2 DEF Init, EndInv, NoAlien, Marked, Cleared, Heard, Over,
                    EndedAsked, EndedAlone, None

\* An end is heard of: whatever the processes do, newgit's files and its start
\* or stop standing still.
LEMMA GroupsKeepEnd ==
    ASSUME TrackInv, EndInv, TypeOK', NEW g \in Pid, Settles(g) \/ Elsewhere(g),
           UNCHANGED <<pidFile, marker>>,
           op'.kind = op.kind, op'.pid = op.pid,
           \A s \in {"mark", "spawn", "record"} : op'.step = s <=> op.step = s,
           reused' = 0 => reused = 0
    PROVE  EndInv'
<1> USE SupervisorAssumption DEF None
<1>1. /\ \A h \in Pid : Own(h)' => Own(h)
      /\ \A h \in Pid : Own(h)' /\ h \in lost => h \in lost'
  BY GroupsKeepTrack
<1>2. TypeOK
  BY DEF TrackInv
<1>3. asked' = asked
  BY DEF Settles, Elsewhere, past
<1>4. CASE ended' = ended
  <2>1. NoAlien'
    BY <1>1, <1>2 DEF EndInv, NoAlien, Settles, Elsewhere, Own, Free, Alien
  <2>2. Marked' /\ Cleared'
    BY <1>3, <1>4 DEF EndInv, Marked, Cleared
  <2>3. Heard'
    BY <1>1, <1>3 DEF EndInv, Heard
  <2>4. Over'
    <3>1. op.step = "record" => op.pid \in Pid
      BY <1>2 DEF TrackInv, Spawning, TypeOK, NoOp
    <3> QED
      BY <1>1, <1>4, <3>1 DEF EndInv, Over
  <2>5. EndedAsked' /\ EndedAlone'
    BY <1>4 DEF EndInv, EndedAsked, EndedAlone
  <2> QED
    BY <2>1, <2>2, <2>3, <2>4, <2>5 DEF EndInv
<1>5. CASE ended' # ended
  <2>1. /\ Own(g) /\ g \notin lost /\ group'[g] = Free
        /\ \A h \in Pid \ {g} : group'[h] = group[h]
        /\ ended' = IF asked THEN "asked" ELSE "alone"
    BY <1>5 DEF Settles, Elsewhere, past
  <2>2. pidFile = g \/ (op.step = "record" /\ op.pid = g)
    BY <2>1 DEF TrackInv, Tracked
  <2>3. op.step = "record" => op.kind = "start"
    BY <1>2 DEF TypeOK, NoOp
  <2>5. op.step # "spawn"
    BY <1>2, <2>1, <2>2, <2>3 DEF TrackInv, Starting, TypeOK, NoOp
  <2>6. NoAlien'
    BY <2>1 DEF EndInv, NoAlien, Free
  <2>7. Marked' /\ Cleared'
    BY <1>3, <2>5 DEF EndInv, Marked, Cleared
  <2>8. Heard'
    BY <1>1, <1>3 DEF EndInv, Heard
  <2>9. Over'
    <3>1. ~ Own(g)'
      BY <2>1 DEF Own, Free
    <3>2. pidFile \in Pid => ~ Own(pidFile)'
      BY <2>1, <2>2, <2>3, <3>1 DEF TrackInv, Starting, Own
    <3>3. op.step = "record" => ~ Own(op.pid)'
      BY <2>1, <2>2, <2>3, <3>1 DEF TrackInv, Starting, Own
    <3>4. pidFile # None \/ op.step = "record"
      BY <2>2
    <3> QED
      BY <3>2, <3>3, <3>4 DEF Over, Own
  <2>10. EndedAsked'
    BY <2>1 DEF EndInv, EndedAsked, Heard
  <2>11. EndedAlone'
    <3>1. CASE asked
      BY <2>1, <3>1 DEF EndedAlone
    <3>2. CASE ~ asked
      <4>1. ~ marker /\ op.kind # "stop"
        BY <3>2 DEF EndInv, Marked, TrackInv, Stopping
      <4>2. pidFile \notin {None, "stopped"} \/ op.step = "record"
        BY <2>2
      <4> QED
        BY <4>1, <4>2 DEF EndedAlone
    <3> QED
      BY <3>1, <3>2
  <2> QED
    BY <2>6, <2>7, <2>8, <2>9, <2>10, <2>11 DEF EndInv
<1> QED
  BY <1>4, <1>5

\* While no process and no pid changes, what EndInv says of groups changes with
\* newgit's own files alone.
LEMMA NextEndInv ==
    ASSUME Apart PROVE TrackInv /\ EndInv /\ [Next]_vars => EndInv'
<1> SUFFICES ASSUME TrackInv, EndInv, [Next]_vars PROVE EndInv'
  OBVIOUS
<1>0. TypeOK /\ TypeOK' /\ Spawning
  BY NextTypeOK DEF TrackInv
<1> USE SupervisorAssumption DEF None
<1>a. NoOp.kind = None /\ NoOp.step = "idle" /\ NoOp.pid = None
  BY DEF NoOp
<1>b. (\A g \in Pid : group'[g] = group[g]) /\ reused' = reused =>
          NoAlien' /\ \A g \in Pid : Own(g)' <=> Own(g)
  BY DEF EndInv, NoAlien, Own
<1>c. /\ op.step = "record" => op.kind = "start" /\ op.pid \in Pid
      /\ op.step = "mark" => op.kind = "stop"
      /\ op.kind = "stop" => op.pid \in Pid
  BY <1>0 DEF TypeOK, Spawning, NoOp
<1>1. CASE Start
  <2>1. op = NoOp /\ op'.kind = "start" /\ op'.step = "clear"
    BY <1>1 DEF Start, MayOperate
  <2> QED
    BY <1>1, <1>a, <1>b, <2>1
       DEF Start, EndInv, Marked, Cleared, Heard, Over, EndedAsked, EndedAlone,
           files, past, counts
<1>2. CASE StartClear
  <2>1. op.kind = "start" /\ op.step = "clear" /\ op'.kind = "start" /\ op'.step = "spawn"
    BY <1>2, <1>0, <1>a DEF StartClear, TypeOK
  <2>2. /\ marker' = FALSE /\ ended' = None
        /\ UNCHANGED <<pidFile, group, asked, lost, reused>>
    BY <1>2 DEF StartClear, counts
  <2>3. \A g \in Pid : Own(g) => g \in lost
    BY <2>1 DEF TrackInv, Tracked, Starting
  <2> QED
    BY <1>b, <2>1, <2>2, <2>3
       DEF EndInv, Marked, Cleared, Heard, Over, EndedAsked, EndedAlone
<1>3. ASSUME NEW g \in Pid, StartSpawn(g) PROVE EndInv'
  <2>1. /\ op.kind = "start" /\ op.step = "spawn"
        /\ op'.kind = "start" /\ op'.step = "record" /\ op'.pid = g
    BY <1>3, <1>0, <1>a DEF StartSpawn, TypeOK
  <2>2. ~ marker /\ ended = None
    BY <2>1 DEF EndInv, Cleared
  <2>3. marker' = marker /\ ended' = ended /\ asked' = FALSE /\ reused' = reused
    BY <1>3 DEF StartSpawn, files
  <2>4. NoAlien'
    <3>1. \A h \in Pid : group'[h].owner = "newgit" \/ group'[h] = group[h]
      BY <1>3, <1>0 DEF StartSpawn, TypeOK
    <3> QED
      BY <2>3, <3>1 DEF EndInv, NoAlien
  <2> QED
    BY <2>1, <2>2, <2>3, <2>4
       DEF EndInv, Marked, Cleared, Heard, Over, EndedAsked, EndedAlone
<1>4. CASE StartRecord
  <2>1. /\ op.kind = "start" /\ op.step = "record" /\ op.pid \in Pid
        /\ op' = NoOp /\ pidFile' = op.pid
    BY <1>4, <1>c DEF StartRecord
  <2>2. UNCHANGED <<marker, group, ended, asked, lost, reused>>
    BY <1>4 DEF StartRecord, past, counts
  <2>3. ~ marker /\ ~ asked
    BY <2>1 DEF EndInv, Cleared
  <2> QED
    BY <1>a, <1>b, <2>1, <2>2, <2>3
       DEF EndInv, Marked, Cleared, Heard, Over, EndedAsked, EndedAlone
<1>5. CASE Stop
  <2>1. /\ pidFile \in Pid /\ Alive(pidFile)
        /\ op = NoOp /\ op'.kind = "stop" /\ op'.step = "mark" /\ op'.pid = pidFile
    BY <1>5 DEF Stop, MayOperate, RunningPid
  <2>2. asked' = TRUE /\ UNCHANGED <<pidFile, marker, group, ended, lost, reused>>
    BY <1>5 DEF Stop, files, counts
  <2>3. ended # None => reused # 0
    <3>1. ended # None => ~ Own(pidFile)
      BY <2>1 DEF EndInv, Over
    <3>2. ~ Own(pidFile) => group[pidFile].owner = "other"
      BY <2>1 DEF Alive, Own
    <3> QED
      BY <2>1, <3>1, <3>2 DEF EndInv, NoAlien
  <2> QED
    BY <1>a, <1>b, <2>1, <2>2, <2>3
       DEF EndInv, Marked, Cleared, Heard, Over, EndedAsked, EndedAlone
<1>6. CASE StopMark
  <2>1. /\ op.kind = "stop" /\ op.step = "mark"
        /\ op'.kind = "stop" /\ op'.step = "signal" /\ op'.pid = op.pid
    BY <1>6, <1>0, <1>a DEF StopMark, TypeOK
  <2>2. marker' = TRUE /\ asked /\ UNCHANGED <<pidFile, group, asked, ended, lost, reused>>
    BY <1>6, <2>1 DEF StopMark, TrackInv, Stopping, past, counts
  <2> QED
    BY <1>b, <2>1, <2>2
       DEF EndInv, Marked, Cleared, Heard, Over, EndedAsked, EndedAlone
<1>7. CASE StopSignal
  <2>1. /\ op'.kind = op.kind /\ op'.step = "poll" /\ op'.pid = op.pid
        /\ op.step = "signal" /\ op.pid \in Pid
    BY <1>7, <1>0, <1>a, SignalSteps DEF TypeOK
  <2>2. Settles(op.pid) \/ Elsewhere(op.pid)
    BY <1>7, <1>0, SignalSteps
  <2>3. UNCHANGED <<pidFile, marker, reused>>
    BY <1>7, <1>0, SignalSteps DEF files, counts
  <2> QED
    BY <1>0, <2>1, <2>2, <2>3, GroupsKeepEnd
<1>8. CASE StopPoll
  <2>1. op.kind = "stop" /\ op.step = "poll" /\ op'.step \in {"log", "idle"}
        /\ (op'.kind = op.kind \/ op'.kind = None)
    BY <1>8, <1>0, <1>a DEF StopPoll, TypeOK
  <2>2. pidFile' \in {pidFile, "stopped"} /\ (pidFile' # pidFile => op'.step = "log")
        /\ UNCHANGED <<marker, group, asked, ended, lost, reused>>
    BY <1>8, <1>0, <1>a DEF StopPoll, TypeOK, past, counts
  <2>3. reused = 0 => ended # "alone"
    BY <2>1 DEF EndInv, EndedAlone
  <2> QED
    BY <1>b, <2>1, <2>2, <2>3
       DEF EndInv, Marked, Cleared, Heard, Over, EndedAsked, EndedAlone
<1>9. CASE StopLog
  <2>1. op.kind = "stop" /\ op.step = "log" /\ op' = NoOp
    BY <1>9 DEF StopLog
  <2>2. UNCHANGED <<pidFile, marker, group, asked, ended, lost, reused>>
    BY <1>9 DEF StopLog, files, past, counts
  <2>3. reused = 0 => ended # "alone"
    BY <2>1 DEF EndInv, EndedAlone
  <2> QED
    BY <1>a, <1>b, <2>1, <2>2, <2>3
       DEF EndInv, Marked, Cleared, Heard, Over, EndedAsked, EndedAlone
<1>10. CASE Abandon
  <2>1. op # NoOp /\ op' = NoOp /\ UNCHANGED <<pidFile, marker, group, reused>>
    BY <1>10 DEF Abandon, files
  <2>2. lost \subseteq lost'
    BY <1>10 DEF Abandon
  <2>3. CASE op.step = "mark" /\ ~ marker
    <3>1. /\ asked' = FALSE
          /\ ended' = IF ended = "asked" THEN "alone" ELSE ended
      BY <1>10, <2>3 DEF Abandon
    <3>2. pidFile \in Pid /\ op.kind = "stop"
      BY <2>3, <1>c DEF TrackInv, Stopping
    <3> QED
      BY <1>a, <1>b, <2>1, <2>3, <3>1, <3>2
         DEF EndInv, Marked, Cleared, Heard, Over, EndedAsked, EndedAlone
  <2>4. CASE op.step = "record"
    <3>1. asked' = asked /\ ended' = None
      BY <1>10, <1>0, <2>4 DEF Abandon, TypeOK
    <3>2. ~ asked
      BY <2>4, <1>c DEF EndInv, Cleared
    <3> QED
      BY <1>a, <1>b, <2>1, <3>1, <3>2
         DEF EndInv, Marked, Cleared, Heard, Over, EndedAsked, EndedAlone
  <2>5. CASE op.step # "record" /\ ~ (op.step = "mark" /\ ~ marker)
    <3>1. ended' = ended
      BY <1>10, <2>5 DEF Abandon
    <3>2. asked' = asked
      BY <1>10, <1>0, <2>5 DEF Abandon, TypeOK
    <3> QED
      BY <1>a, <1>b, <2>1, <2>2, <2>5, <3>1, <3>2
         DEF EndInv, Marked, Cleared, Heard, Over, EndedAsked, EndedAlone
  <2> QED
    BY <2>3, <2>4, <2>5
<1>11. CASE SweepRead \/ UNCHANGED vars
  <2>1. UNCHANGED <<pidFile, marker, group, op, asked, ended, lost, reused>>
    BY <1>11 DEF SweepRead, vars, files, past, counts
  <2> QED
    BY <1>b, <1>c, <2>1
       DEF EndInv, Marked, Cleared, Heard, Over, EndedAsked, EndedAlone
<1>12. CASE SweepWrite
  <2>1. pidFile' = "exited" /\ UNCHANGED <<marker, group, op, asked, ended, lost, reused>>
    BY <1>12 DEF SweepWrite, past, counts
  <2>2. op = NoOp
    BY <1>12 DEF SweepWrite, TrackInv, Sweeping
  <2> QED
    BY <1>a, <1>b, <2>1, <2>2
       DEF EndInv, Marked, Cleared, Heard, Over, EndedAsked, EndedAlone
<1>13. ASSUME NEW g \in Pid, ProcessNext(g) PROVE EndInv'
  <2>1. /\ Settles(g) \/ Elsewhere(g)
        /\ UNCHANGED <<pidFile, marker, op>>
        /\ reused' = 0 => reused = 0
    BY <1>13, <1>0, ProcessSteps
  <2> QED
    BY <1>0, <2>1, GroupsKeepEnd
<1> QED
  BY <1>1, <1>2, <1>3, <1>4, <1>5, <1>6, <1>7, <1>8, <1>9, <1>10, <1>11, <1>12,
     <1>13 DEF Next, StopNext

THEOREM EndInvariant == ASSUME Apart PROVE Spec => [](TrackInv /\ EndInv)
<1>1. Init => TrackInv /\ EndInv
  BY InitTrackInv, InitEndInv
<1>2. (TrackInv /\ EndInv) /\ [Next]_vars => (TrackInv /\ EndInv)'
  BY NextTrackInv, NextEndInv
<1> QED
  BY <1>1, <1>2, PTL DEF Spec

\* Once a run is over and no other process has its pid, nothing newgit can name
\* is alive.
LEMMA OverIsDead ==
    ASSUME TrackInv, EndInv, op = NoOp, ended # None, reused = 0
    PROVE  /\ pidFile # None
           /\ pidFile \in Pid => ~ Alive(pidFile)
           /\ RunningPid = None
<1>1. pidFile # None /\ (pidFile \in Pid => ~ Own(pidFile))
  BY DEF EndInv, Over, NoOp
<1>2. pidFile \in Pid => ~ Alive(pidFile)
  BY <1>1 DEF EndInv, NoAlien, Alive, Own
<1> QED
  BY <1>1, <1>2 DEF RunningPid

\* A run that newgit asked to stop is never taken for one that crashed: from
\* the marker, written before the signal, on, however late the end, whatever
\* swept and wherever the stop was cut (supervisor.rs: stop, state).
THEOREM AskedIsNoCrash == ASSUME Apart PROVE Spec => []AskedStopIsNoCrash
<1>1. TrackInv /\ EndInv => AskedStopIsNoCrash
  <2> SUFFICES ASSUME TrackInv, EndInv, op = NoOp, ended = "asked", reused = 0
               PROVE  State = "stopped"
    BY DEF AskedStopIsNoCrash
  <2>1. ended # None
    BY DEF None
  <2>2. marker
    BY DEF EndInv, EndedAsked, NoOp
  <2> QED
    BY <2>1, <2>2, OverIsDead, SupervisorAssumption DEF State, None
<1> QED
  BY <1>1, EndInvariant, PTL

\* A run that died with nobody asking is never taken for one that was stopped,
\* not even after a stop that was cut before its marker (supervisor.rs: state,
\* retire_dead_pids).
THEOREM CrashShows == ASSUME Apart PROVE Spec => []CrashIsNotHidden
<1>1. TrackInv /\ EndInv => CrashIsNotHidden
  <2> SUFFICES ASSUME TrackInv, EndInv, op = NoOp, ended = "alone", reused = 0
               PROVE  State \in Status \cup {"crashed"}
    BY DEF CrashIsNotHidden
  <2>1. ended # None
    BY DEF None
  <2>2. ~ marker /\ pidFile \notin {None, "stopped"}
    BY DEF EndInv, EndedAlone, NoOp
  <2>3. State = IF exitFile = None THEN "crashed" ELSE exitFile
    BY <2>1, <2>2, OverIsDead DEF State
  <2> QED
    BY <2>3 DEF TrackInv, TypeOK
<1> QED
  BY <1>1, EndInvariant, PTL
=============================================================================
