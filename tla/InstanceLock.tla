---------------------------- MODULE InstanceLock ----------------------------
(***************************************************************************)
(* The per-instance lock of src/crates/newgit-core/src/lock.rs: an         *)
(* advisory `flock` on `.newgit/local/locks/<slug>.lock`, taken by a       *)
(* command for as long as it runs, with a token in the file that lets a    *)
(* hook's `newgit` be told apart from a command that should wait, and with *)
(* `cleanup` (`prune`) deleting lock files while commands wait on them.    *)
(*                                                                         *)
(* A file is an inode, a path holds an inode or nothing, and the kernel    *)
(* lock belongs to the inode: a lock file deleted and made again is        *)
(* another inode.  Every system call of `acquire`, `Drop` and `prune` that *)
(* another process can interleave with is a step of its own.               *)
(***************************************************************************)
EXTENDS Naturals, FiniteSets

CONSTANTS Proc,      \* newgit commands, and the hook processes they start
          Pruner,    \* `cleanup` commands in their lock-file sweep
          Slug,      \* branch instances
          Inode,     \* lock files that can exist at once
          None,      \* no process, no inode
          MaxToken,  \* bound: lock acquisitions in a behaviour
          MaxDepth,  \* bound: nested `lock_instance` calls of one command
          MaxCrash   \* bound: processes killed in a behaviour

ASSUME LockAssumption ==
    /\ None \notin Proc \cup Pruner \cup Inode
    /\ Proc \cap Pruner = {}
    /\ MaxToken \in Nat /\ MaxDepth \in Nat \ {0} /\ MaxCrash \in Nat

VARIABLES
    at,        \* at[s]: the inode at `locks/<s>.lock`, or None
    content,   \* content[i]: the token written in lock file i, 0 when empty
    flock,     \* flock[i]: who holds the kernel lock on i, or None
    record,    \* record[s]: the instance has a binding record
    pc,        \* where a process is in `acquire` / `Drop`
    want,      \* the slug a process's command is on
    fd,        \* the lock file a process has open
    token,     \* the token of the lock a process holds, 0 when none
    refs,      \* live `HeldLock` handles on the lock a process holds
    env,       \* env[p][s]: p's NEWGIT_LOCKED entry for s, 0 when none
    boss,      \* boss[p]: the command running p as its hook and waiting
    ppc, pslug, pfd,  \* a pruner's step, the slug it looks at, its open file
    lastToken, \* `new_token`: every acquisition's token is fresh
    crashes

procVars  == <<pc, want, fd, token, refs, env, boss>>
pruneVars == <<ppc, pslug, pfd>>
fileVars  == <<at, content, flock>>
vars == <<fileVars, record, procVars, pruneVars, lastToken, crashes>>

Steps  == {"idle", "open", "try", "busy", "wait", "check", "truncate",
           "write", "held", "hook", "close"}
PSteps == {"idle", "open", "try", "remove", "close"}
Token  == 0 .. MaxToken

(***************************************************************************)
(* Type invariant.                                                         *)
(***************************************************************************)
TypeOK ==
    /\ at \in [Slug -> Inode \cup {None}]
    /\ content \in [Inode -> Token]
    /\ flock \in [Inode -> Proc \cup Pruner \cup {None}]
    /\ record \in [Slug -> BOOLEAN]
    /\ pc \in [Proc -> Steps]
    /\ want \in [Proc -> Slug]
    /\ fd \in [Proc -> Inode \cup {None}]
    /\ token \in [Proc -> Token]
    /\ refs \in [Proc -> 0 .. MaxDepth]
    /\ env \in [Proc -> [Slug -> Token]]
    /\ boss \in [Proc -> Proc \cup {None}]
    /\ ppc \in [Pruner -> PSteps]
    /\ pslug \in [Pruner -> Slug]
    /\ pfd \in [Pruner -> Inode \cup {None}]
    /\ lastToken \in Token
    /\ crashes \in 0 .. MaxCrash

NoEnv == [s \in Slug |-> 0]

Init ==
    /\ at = [s \in Slug |-> None]
    /\ content = [i \in Inode |-> 0]
    /\ flock = [i \in Inode |-> None]
    /\ record \in [Slug -> BOOLEAN]
    /\ pc = [p \in Proc |-> "idle"]
    /\ want \in [Proc -> Slug]
    /\ fd = [p \in Proc |-> None]
    /\ token = [p \in Proc |-> 0]
    /\ refs = [p \in Proc |-> 0]
    /\ env = [p \in Proc |-> NoEnv]
    /\ boss = [p \in Proc |-> None]
    /\ ppc = [c \in Pruner |-> "idle"]
    /\ pslug \in [Pruner -> Slug]
    /\ pfd = [c \in Pruner |-> None]
    /\ lastToken = 0
    /\ crashes = 0

\* A command between the return of `acquire` and the drop of its last handle.
Holds(p) == pc[p] \in {"held", "hook"}

Goto(p, step) == pc' = [pc EXCEPT ![p] = step]

-----------------------------------------------------------------------------
(* `InstanceLock::acquire`.                                                *)

\* Processes that may still need a token for the acquisition they are in.
Acquiring == {p \in Proc : pc[p] \in {"open", "try", "busy", "wait", "check",
                                      "truncate", "write"}}

\* A live process starts a command on instance s.  The bound on tokens is
\* spent here, so an acquisition under way never stops for want of one.
Command(p, s) ==
    /\ pc[p] = "idle"
    /\ lastToken + Cardinality(Acquiring) < MaxToken
    /\ want' = [want EXCEPT ![p] = s]
    /\ Goto(p, "open")
    /\ UNCHANGED <<fileVars, record, fd, token, refs, env, boss, pruneVars,
                   lastToken, crashes>>

\* An inode no path names and no process has open; the kernel may hand it out.
Unused(i) ==
    /\ \A s \in Slug : at[s] # i
    /\ \A p \in Proc : fd[p] # i
    /\ \A c \in Pruner : pfd[c] # i

\* `File::options().create(true).open`: the file at the path, made if absent.
Open(p) ==
    /\ pc[p] = "open"
    /\ \/ /\ at[want[p]] # None
          /\ fd' = [fd EXCEPT ![p] = at[want[p]]]
          /\ UNCHANGED <<at, content>>
       \/ /\ at[want[p]] = None
          /\ \E i \in Inode :
                /\ Unused(i)
                /\ at' = [at EXCEPT ![want[p]] = i]
                /\ content' = [content EXCEPT ![i] = 0]
                /\ fd' = [fd EXCEPT ![p] = i]
    /\ Goto(p, "try")
    /\ UNCHANGED <<flock, record, want, token, refs, env, boss, pruneVars,
                   lastToken, crashes>>

\* `try_lock`: taken at once, or WouldBlock.
TryLock(p) ==
    /\ pc[p] = "try"
    /\ \/ /\ flock[fd[p]] = None
          /\ flock' = [flock EXCEPT ![fd[p]] = p]
          /\ Goto(p, "check")
       \/ /\ flock[fd[p]] # None
          /\ Goto(p, "busy")
          /\ UNCHANGED flock
    /\ UNCHANGED <<at, content, record, want, fd, token, refs, env, boss,
                   pruneVars, lastToken, crashes>>

\* Mutant: no token is recognised, so a nested command waits like any other.
NeverNested(p) == FALSE

\* The token the file at the path holds right now is one p inherited.
HeldByAncestor(p) ==
    /\ env[p][want[p]] # 0
    /\ at[want[p]] # None
    /\ content[at[want[p]]] = env[p][want[p]]

\* NestedCommand: `newgit` run by a hook of the very command it waits for.
Refuse(p) ==
    /\ pc[p] = "busy"
    /\ HeldByAncestor(p)
    /\ fd' = [fd EXCEPT ![p] = None]
    /\ Goto(p, "idle")
    /\ UNCHANGED <<fileVars, record, want, token, refs, env, boss, pruneVars,
                   lastToken, crashes>>

\* Anyone else says it is waiting and blocks in `file.lock()`.
Wait(p) ==
    /\ pc[p] = "busy"
    /\ ~HeldByAncestor(p)
    /\ Goto(p, "wait")
    /\ UNCHANGED <<fileVars, record, want, fd, token, refs, env, boss,
                   pruneVars, lastToken, crashes>>

\* `file.lock()` returns once the kernel lock is free.
Grant(p) ==
    /\ pc[p] = "wait"
    /\ flock[fd[p]] = None
    /\ flock' = [flock EXCEPT ![fd[p]] = p]
    /\ Goto(p, "check")
    /\ UNCHANGED <<at, content, record, want, fd, token, refs, env, boss,
                   pruneVars, lastToken, crashes>>

\* Mutant: `acquire` without the `is_file_at` check.
CheckNothing(p) ==
    /\ pc[p] = "check"
    /\ Goto(p, "truncate")
    /\ UNCHANGED <<fileVars, record, want, fd, token, refs, env, boss,
                   pruneVars, lastToken, crashes>>

\* `is_file_at`: the file locked is still the one at the path; if `cleanup`
\* deleted it meanwhile, `continue` closes it (and drops its lock).
Check(p) ==
    /\ pc[p] = "check"
    /\ \/ /\ at[want[p]] = fd[p]
          /\ Goto(p, "truncate")
          /\ UNCHANGED <<flock, fd>>
       \/ /\ at[want[p]] # fd[p]
          /\ flock' = [flock EXCEPT ![fd[p]] = None]
          /\ fd' = [fd EXCEPT ![p] = None]
          /\ Goto(p, "open")
    /\ UNCHANGED <<at, content, record, want, token, refs, env, boss,
                   pruneVars, lastToken, crashes>>

Truncate(p) ==
    /\ pc[p] = "truncate"
    /\ content' = [content EXCEPT ![fd[p]] = 0]
    /\ Goto(p, "write")
    /\ UNCHANGED <<at, flock, record, want, fd, token, refs, env, boss,
                   pruneVars, lastToken, crashes>>

WriteToken(p) ==
    /\ pc[p] = "write"
    /\ lastToken < MaxToken
    /\ lastToken' = lastToken + 1
    /\ token' = [token EXCEPT ![p] = lastToken + 1]
    /\ content' = [content EXCEPT ![fd[p]] = lastToken + 1]
    /\ refs' = [refs EXCEPT ![p] = 1]
    /\ Goto(p, "held")
    /\ UNCHANGED <<at, flock, record, want, fd, env, boss, pruneVars, crashes>>

-----------------------------------------------------------------------------
(* While the lock is held.                                                 *)

\* `BranchManager::lock_instance` hands a nested call the lock already held.
Reenter(p) ==
    /\ pc[p] = "held"
    /\ refs[p] < MaxDepth
    /\ refs' = [refs EXCEPT ![p] = @ + 1]
    /\ UNCHANGED <<fileVars, record, pc, want, fd, token, env, boss, pruneVars,
                   lastToken, crashes>>

\* A handle goes out of scope; with the last one `Drop` clears the token ...
DropHandle(p) ==
    /\ pc[p] = "held"
    /\ refs' = [refs EXCEPT ![p] = @ - 1]
    /\ \/ /\ refs[p] > 1
          /\ UNCHANGED <<content, pc>>
       \/ /\ refs[p] = 1
          /\ content' = [content EXCEPT ![fd[p]] = 0]
          /\ Goto(p, "close")
    /\ UNCHANGED <<at, flock, record, want, fd, token, env, boss, pruneVars,
                   lastToken, crashes>>

\* ... and then closes the file, and the kernel lock goes with it.
Close(p) ==
    /\ pc[p] = "close"
    /\ flock' = [flock EXCEPT ![fd[p]] = None]
    /\ fd' = [fd EXCEPT ![p] = None]
    /\ token' = [token EXCEPT ![p] = 0]
    /\ Goto(p, "idle")
    /\ UNCHANGED <<at, content, record, want, refs, env, boss, pruneVars,
                   lastToken, crashes>>

\* The command saves or archives its instance's binding record.
ChangeRecord(p) ==
    /\ pc[p] = "held"
    /\ record' = [record EXCEPT ![want[p]] = ~ @]
    /\ UNCHANGED <<fileVars, procVars, pruneVars, lastToken, crashes>>

\* Mutant: a hook gets its command's own entry and none it inherited.
HookEnvOwn(p) == [NoEnv EXCEPT ![want[p]] = token[p]]

\* `locked_env_value`: what p inherited, its own lock's entry replacing any
\* inherited one for the same instance.
HookEnv(p) == [env[p] EXCEPT ![want[p]] = token[p]]

\* The command runs process q as a hook and waits for it.
RunHook(p, q) ==
    /\ pc[p] = "held"
    /\ q # p /\ pc[q] = "idle" /\ boss[q] = None
    /\ env' = [env EXCEPT ![q] = HookEnv(p)]
    /\ boss' = [boss EXCEPT ![q] = p]
    /\ Goto(p, "hook")
    /\ UNCHANGED <<fileVars, record, want, fd, token, refs, pruneVars,
                   lastToken, crashes>>

\* The hook exits, and its environment is gone with it.
HookEnds(q) ==
    /\ boss[q] # None /\ pc[q] = "idle"
    /\ boss' = [boss EXCEPT ![q] = None]
    /\ env' = [env EXCEPT ![q] = NoEnv]
    /\ Goto(boss[q], "held")
    /\ UNCHANGED <<fileVars, record, want, fd, token, refs, pruneVars,
                   lastToken, crashes>>

\* The hook goes to the background (a dev server) and keeps its environment.
HookDetaches(q) ==
    /\ boss[q] # None
    /\ boss' = [boss EXCEPT ![q] = None]
    /\ Goto(boss[q], "held")
    /\ UNCHANGED <<fileVars, record, want, fd, token, refs, env, pruneVars,
                   lastToken, crashes>>

\* A background process exits.
BackgroundEnds(q) ==
    /\ boss[q] = None /\ pc[q] = "idle" /\ env[q] # NoEnv
    /\ env' = [env EXCEPT ![q] = NoEnv]
    /\ UNCHANGED <<fileVars, record, pc, want, fd, token, refs, boss,
                   pruneVars, lastToken, crashes>>

\* The kernel drops a killed process's lock; its token stays in the file, its
\* hook (if any) lives on, and a command whose hook it was carries on.
Crash(p) ==
    /\ pc[p] # "idle"
    /\ crashes < MaxCrash
    /\ crashes' = crashes + 1
    /\ flock' = [i \in Inode |-> IF flock[i] = p THEN None ELSE flock[i]]
    /\ fd' = [fd EXCEPT ![p] = None]
    /\ token' = [token EXCEPT ![p] = 0]
    /\ refs' = [refs EXCEPT ![p] = 0]
    /\ env' = [env EXCEPT ![p] = NoEnv]
    /\ boss' = [q \in Proc |-> IF q = p \/ boss[q] = p THEN None ELSE boss[q]]
    /\ pc' = [q \in Proc |-> CASE q = p -> "idle"
                               [] q # p /\ boss[p] = q -> "held"
                               [] OTHER -> pc[q]]
    /\ UNCHANGED <<at, content, record, want, pruneVars, lastToken>>

-----------------------------------------------------------------------------
(* `prune`, the last step of `cleanup`.                                    *)

\* The directory listing names s's lock file, and `keep` says no record.
PruneConsider(c, s) ==
    /\ ppc[c] = "idle"
    /\ at[s] # None /\ ~ record[s]
    /\ pslug' = [pslug EXCEPT ![c] = s]
    /\ ppc' = [ppc EXCEPT ![c] = "open"]
    /\ UNCHANGED <<fileVars, record, procVars, pfd, lastToken, crashes>>

\* Opened, unless it is gone by now (NotFound is skipped).
PruneOpen(c) ==
    /\ ppc[c] = "open"
    /\ pfd' = [pfd EXCEPT ![c] = at[pslug[c]]]
    /\ ppc' = [ppc EXCEPT ![c] = IF at[pslug[c]] = None THEN "idle" ELSE "try"]
    /\ UNCHANGED <<fileVars, record, procVars, pslug, lastToken, crashes>>

\* Mutant: a lock file is deleted whoever holds it.
PruneTryForce(c) ==
    /\ ppc[c] = "try"
    /\ ppc' = [ppc EXCEPT ![c] = "remove"]
    /\ UNCHANGED <<fileVars, record, procVars, pslug, pfd, lastToken, crashes>>

\* A lock file held right now is skipped.
PruneTry(c) ==
    /\ ppc[c] = "try"
    /\ \/ /\ flock[pfd[c]] = None
          /\ flock' = [flock EXCEPT ![pfd[c]] = c]
          /\ ppc' = [ppc EXCEPT ![c] = "remove"]
          /\ UNCHANGED pfd
       \/ /\ flock[pfd[c]] # None
          /\ ppc' = [ppc EXCEPT ![c] = "idle"]
          /\ pfd' = [pfd EXCEPT ![c] = None]
          /\ UNCHANGED flock
    /\ UNCHANGED <<at, content, record, procVars, pslug, lastToken, crashes>>

\* `remove_file(path)`: whatever is at the path, while the lock is held.
PruneRemove(c) ==
    /\ ppc[c] = "remove"
    /\ at' = [at EXCEPT ![pslug[c]] = None]
    /\ ppc' = [ppc EXCEPT ![c] = "close"]
    /\ UNCHANGED <<content, flock, record, procVars, pslug, pfd, lastToken,
                   crashes>>

PruneClose(c) ==
    /\ ppc[c] = "close"
    /\ flock' = [flock EXCEPT ![pfd[c]] = None]
    /\ pfd' = [pfd EXCEPT ![c] = None]
    /\ ppc' = [ppc EXCEPT ![c] = "idle"]
    /\ UNCHANGED <<at, content, record, procVars, pslug, lastToken, crashes>>

-----------------------------------------------------------------------------
AcquireStep(p) == \/ Open(p) \/ TryLock(p) \/ Refuse(p) \/ Wait(p)
                  \/ Check(p) \/ Truncate(p) \/ WriteToken(p)

ProcNext(p) ==
    \/ \E s \in Slug : Command(p, s)
    \/ AcquireStep(p) \/ Grant(p)
    \/ Reenter(p) \/ DropHandle(p) \/ Close(p) \/ ChangeRecord(p)
    \/ \E q \in Proc : RunHook(p, q)
    \/ HookEnds(p) \/ HookDetaches(p) \/ BackgroundEnds(p) \/ Crash(p)

PruneNext(c) ==
    \/ \E s \in Slug : PruneConsider(c, s)
    \/ PruneOpen(c) \/ PruneTry(c) \/ PruneRemove(c) \/ PruneClose(c)

Next == (\E p \in Proc : ProcNext(p)) \/ (\E c \in Pruner : PruneNext(c))

Spec == Init /\ [][Next]_vars

(***************************************************************************)
(* Fairness.  Once started, a newgit process takes its next system call,   *)
(* and a command's own work and its hooks end.  The kernel hands a         *)
(* released `flock` to a blocked waiter (strong fairness of Grant).        *)
(* Nobody is obliged to start a command, a hook or a cleanup.              *)
(***************************************************************************)
Fairness ==
    /\ \A p \in Proc : /\ WF_vars(AcquireStep(p))
                       /\ SF_vars(Grant(p))
                       /\ SF_vars(DropHandle(p))
                       /\ SF_vars(DropHandle(p) /\ refs[p] = 1)
                       /\ WF_vars(Close(p))
                       /\ SF_vars(HookEnds(p))
    /\ \A c \in Pruner : WF_vars(PruneOpen(c) \/ PruneTry(c) \/ PruneRemove(c)
                                  \/ PruneClose(c))

FairSpec == Spec /\ Fairness

-----------------------------------------------------------------------------
(* Properties.                                                             *)

\* Two commands are never both between the return of `acquire` on one
\* instance and the drop of its lock, whatever `cleanup` deletes meanwhile
\* (lock.rs: acquire, Drop, prune).
MutualExclusion ==
    \A p, q \in Proc : Holds(p) /\ Holds(q) /\ want[p] = want[q] => p = q

\* While a command holds its lock, the file at the path is the file it
\* locked, with its own token in it: so a newcomer finds the lock busy and a
\* hook's `newgit` recognises its ancestor (lock.rs: acquire, prune).
HeldFileIsAtPath ==
    \A p \in Proc : Holds(p) => /\ at[want[p]] = fd[p]
                               /\ flock[fd[p]] = p
                               /\ content[fd[p]] = token[p]

\* a is above p when a waits for p's command, directly or through a chain of
\* hooks: a is in every set that has the boss of p and of each of its members.
Above(a, p) ==
    \A S \in SUBSET Proc :
        (\A x \in S \cup {p} : boss[x] \in S \cup {None}) => a \in S

\* A command never blocks on the lock of a command that is itself waiting for
\* it: "that one would wait for its own ancestor forever" (lock.rs: the
\* NEWGIT_LOCKED tokens).
NeverWaitsForAncestor ==
    \A p, a \in Proc :
        pc[p] = "wait" /\ Holds(a) /\ want[a] = want[p] => ~ Above(a, p)

\* The commands running under each instance's lock.
holdersOf == [s \in Slug |-> {p \in Proc : Holds(p) /\ want[p] = s}]

Abstract == INSTANCE ExclusiveLock WITH holders <- holdersOf

\* The file lock, with its waiting, retrying, pruning and crashing, implements
\* the abstract lock that lock.rs promises.
ImplementsExclusiveLock == Abstract!Spec

\* Once cleanups stop deleting lock files, a command blocked on the lock gets
\* it, refuses as nested, or is killed (lock.rs: acquire's loop).
WaiterServed ==
    (<>[](\A c \in Pruner : ppc[c] = "idle")) =>
        \A p \in Proc : (pc[p] = "wait") ~> (pc[p] \in {"held", "idle"})
=============================================================================
