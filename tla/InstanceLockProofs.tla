------------------------- MODULE InstanceLockProofs -------------------------
(***************************************************************************)
(* Theorems about the instance lock, for any number of commands, instances *)
(* and lock files.  Exclusion holds with at most one cleanup at a time     *)
(* (OneCleanup); with two it does not (see the README).                    *)
(***************************************************************************)
EXTENDS InstanceLock, TLAPS

\* At most one `cleanup` sweeps the lock files.
OneCleanup == \A a, b \in Pruner : a = b

\* Steps with the kernel lock taken, and those past the `is_file_at` check.
Locking == {"check", "truncate", "write", "held", "hook", "close"}
Past    == {"truncate", "write", "held", "hook", "close"}

\* A command's open file: none outside `acquire`, some from `open` on.
OpenFiles ==
    \A p \in Proc : fd[p] = None <=> pc[p] \in {"idle", "open"}

\* From the grant on, the command has the kernel lock of the file it opened,
Locked == \A p \in Proc : pc[p] \in Locking => flock[fd[p]] = p

\* and it has no other.
LockedOnly ==
    \A p \in Proc, i \in Inode : flock[i] = p => fd[p] = i /\ pc[p] \in Locking

\* A cleanup's locks, likewise.
PrunerLocks ==
    /\ \A c \in Pruner : ppc[c] \in {"try", "remove", "close"} => pfd[c] # None
    /\ \A c \in Pruner : ppc[c] \in {"remove", "close"} => flock[pfd[c]] = c
    /\ \A c \in Pruner, i \in Inode :
          flock[i] = c => pfd[c] = i /\ ppc[c] \in {"remove", "close"}

\* The file a command passed the check with stays at its path, and so does
\* the one a cleanup is about to delete.
PathsStand ==
    /\ \A p \in Proc : pc[p] \in Past => at[want[p]] = fd[p]
    /\ \A c \in Pruner : ppc[c] \in {"try", "remove"} => at[pslug[c]] = pfd[c]

\* A held lock's file holds its token.
TokensStand == \A p \in Proc : Holds(p) => content[fd[p]] = token[p]

\* A command waits for one hook, and is not its own.
Hooks ==
    /\ \A p, q \in Proc : boss[q] = p => pc[p] = "hook" /\ p # q
    /\ \A p, q, r \in Proc : boss[q] = p /\ boss[r] = p => q = r

LockInv == /\ TypeOK /\ OpenFiles /\ Locked /\ LockedOnly /\ PrunerLocks
           /\ PathsStand /\ TokensStand /\ Hooks

-----------------------------------------------------------------------------
\* Updating a function keeps its type, wherever it is updated.
LEMMA UpdateTyped ==
    ASSUME NEW S, NEW T, NEW f \in [S -> T], NEW x, NEW v \in T
    PROVE  [f EXCEPT ![x] = v] \in [S -> T]
  OBVIOUS

\* The initial states are well-typed.
LEMMA InitTypeOK == Init => TypeOK
  BY LockAssumption DEF Init, TypeOK, NoEnv, Steps, PSteps, Token

\* The type invariant is inductive by itself.
LEMMA NextTypeOK == TypeOK /\ [Next]_vars => TypeOK'
<1> SUFFICES ASSUME TypeOK, [Next]_vars PROVE TypeOK'
  OBVIOUS
<1> USE LockAssumption DEF TypeOK, Steps, PSteps, Token
<1>1. CASE UNCHANGED vars
  BY <1>1 DEF vars, fileVars, procVars, pruneVars
<1>2. ASSUME NEW p \in Proc, NEW s \in Slug, Command(p, s) PROVE TypeOK'
  BY <1>2 DEF Command, Goto, fileVars, pruneVars
<1>3. ASSUME NEW p \in Proc, Open(p) PROVE TypeOK'
  <2>1. CASE at[want[p]] # None
    BY <1>3, <2>1 DEF Open, Goto, pruneVars
  <2>2. CASE at[want[p]] = None
    <3>1. PICK i \in Inode : /\ at' = [at EXCEPT ![want[p]] = i]
                             /\ content' = [content EXCEPT ![i] = 0]
                             /\ fd' = [fd EXCEPT ![p] = i]
      BY <1>3, <2>2 DEF Open
    <3> QED
      BY <1>3, <3>1 DEF Open, Goto, pruneVars
  <2> QED
    BY <2>1, <2>2
<1>4. ASSUME NEW p \in Proc, TryLock(p) PROVE TypeOK'
  <2>1. flock' \in [Inode -> Proc \cup Pruner \cup {None}]
    BY <1>4, UpdateTyped DEF TryLock
  <2> QED
    BY <1>4, <2>1 DEF TryLock, Goto, pruneVars
<1>5. ASSUME NEW p \in Proc, Refuse(p) PROVE TypeOK'
  BY <1>5 DEF Refuse, Goto, fileVars, pruneVars
<1>6. ASSUME NEW p \in Proc, Wait(p) PROVE TypeOK'
  BY <1>6 DEF Wait, Goto, fileVars, pruneVars
<1>7. ASSUME NEW p \in Proc, Grant(p) PROVE TypeOK'
  BY <1>7 DEF Grant, Goto, pruneVars
<1>8. ASSUME NEW p \in Proc, Check(p) PROVE TypeOK'
  BY <1>8 DEF Check, Goto, pruneVars
<1>9. ASSUME NEW p \in Proc, Truncate(p) PROVE TypeOK'
  <2>1. content' \in [Inode -> Token]
    BY <1>9, UpdateTyped DEF Truncate
  <2> QED
    BY <1>9, <2>1 DEF Truncate, Goto, pruneVars
<1>10. ASSUME NEW p \in Proc, WriteToken(p) PROVE TypeOK'
  <2>1. lastToken' \in Token /\ 0 .. MaxDepth \subseteq Nat /\ 1 \in 0 .. MaxDepth
    BY <1>10 DEF WriteToken
  <2>2. content' \in [Inode -> Token]
    BY <1>10, <2>1, UpdateTyped DEF WriteToken
  <2> QED
    BY <1>10, <2>1, <2>2 DEF WriteToken, Goto, pruneVars
<1>11. ASSUME NEW p \in Proc, Reenter(p) PROVE TypeOK'
  BY <1>11 DEF Reenter, fileVars, pruneVars
<1>12. ASSUME NEW p \in Proc, DropHandle(p) PROVE TypeOK'
  BY <1>12 DEF DropHandle, Goto, pruneVars
<1>13. ASSUME NEW p \in Proc, Close(p) PROVE TypeOK'
  <2>1. flock' \in [Inode -> Proc \cup Pruner \cup {None}]
    BY <1>13, UpdateTyped DEF Close
  <2> QED
    BY <1>13, <2>1 DEF Close, Goto, pruneVars
<1>14. ASSUME NEW p \in Proc, ChangeRecord(p) PROVE TypeOK'
  BY <1>14 DEF ChangeRecord, fileVars, procVars, pruneVars
<1>15. ASSUME NEW p \in Proc, NEW q \in Proc, RunHook(p, q) PROVE TypeOK'
  BY <1>15 DEF RunHook, HookEnv, Goto, fileVars, pruneVars
<1>16. ASSUME NEW p \in Proc, HookEnds(p) PROVE TypeOK'
  BY <1>16 DEF HookEnds, NoEnv, Goto, fileVars, pruneVars
<1>17. ASSUME NEW p \in Proc, HookDetaches(p) PROVE TypeOK'
  BY <1>17 DEF HookDetaches, Goto, fileVars, pruneVars
<1>18. ASSUME NEW p \in Proc, BackgroundEnds(p) PROVE TypeOK'
  BY <1>18 DEF BackgroundEnds, NoEnv, fileVars, pruneVars
<1>19. ASSUME NEW p \in Proc, Crash(p) PROVE TypeOK'
  BY <1>19 DEF Crash, NoEnv, pruneVars
<1>20. ASSUME NEW c \in Pruner, NEW s \in Slug, PruneConsider(c, s) PROVE TypeOK'
  BY <1>20 DEF PruneConsider, fileVars, procVars
<1>21. ASSUME NEW c \in Pruner, PruneOpen(c) PROVE TypeOK'
  BY <1>21 DEF PruneOpen, fileVars, procVars
<1>22. ASSUME NEW c \in Pruner, PruneTry(c) PROVE TypeOK'
  <2>1. flock' \in [Inode -> Proc \cup Pruner \cup {None}]
    BY <1>22, UpdateTyped DEF PruneTry
  <2> QED
    BY <1>22, <2>1 DEF PruneTry, procVars
<1>23. ASSUME NEW c \in Pruner, PruneRemove(c) PROVE TypeOK'
  BY <1>23 DEF PruneRemove, procVars
<1>24. ASSUME NEW c \in Pruner, PruneClose(c) PROVE TypeOK'
  <2>1. flock' \in [Inode -> Proc \cup Pruner \cup {None}]
    BY <1>24, UpdateTyped DEF PruneClose
  <2> QED
    BY <1>24, <2>1 DEF PruneClose, procVars
<1> QED
  BY <1>1, <1>2, <1>3, <1>4, <1>5, <1>6, <1>7, <1>8, <1>9, <1>10, <1>11, <1>12,
     <1>13, <1>14, <1>15, <1>16, <1>17, <1>18, <1>19, <1>20,
     <1>21, <1>22, <1>23, <1>24 DEF Next, ProcNext, AcquireStep, PruneNext

\* Every state of the lock is well-typed, whatever interleaves (lock.rs:
\* acquire, Drop, prune).
THEOREM TypeCorrect == Spec => []TypeOK
<1>1. Init => TypeOK
  BY InitTypeOK
<1>2. TypeOK /\ [Next]_vars => TypeOK'
  BY NextTypeOK
<1> QED
  BY <1>1, <1>2, PTL DEF Spec

-----------------------------------------------------------------------------
\* Nothing is open, locked or held at first.
LEMMA InitLockInv == Init => LockInv
<1> SUFFICES ASSUME Init PROVE LockInv
  OBVIOUS
<1>1. TypeOK
  BY InitTypeOK
<1> QED
  BY <1>1, LockAssumption
     DEF Init, LockInv, OpenFiles, Locked, LockedOnly, PrunerLocks, PathsStand,
         TokensStand, Hooks, Locking, Past, Holds

\* With one cleanup, every step keeps the invariant: the file a command has
\* passed the check with cannot be deleted, because the only cleanup needs
\* the kernel lock of the very file it found at that path.
LEMMA NextLockInv == ASSUME OneCleanup PROVE LockInv /\ [Next]_vars => LockInv'
<1> SUFFICES ASSUME LockInv, [Next]_vars PROVE LockInv'
  OBVIOUS
<1> USE LockAssumption
    DEF LockInv, TypeOK, Steps, PSteps, Token, Locking, Past, Holds
<1>0. TypeOK'
  BY NextTypeOK
<1>1. ASSUME NEW p \in Proc, NEW s \in Slug, Command(p, s) PROVE LockInv'
  BY <1>0, <1>1 DEF Command, Goto, fileVars, pruneVars, OpenFiles, Locked,
      LockedOnly, PrunerLocks, PathsStand, TokensStand, Hooks
<1>2. ASSUME NEW p \in Proc, Open(p) PROVE LockInv'
  <2>1. OpenFiles'
    BY <1>0, <1>2 DEF Open, Unused, Goto, pruneVars, OpenFiles
  <2>2. Locked'
    BY <1>0, <1>2 DEF Open, Unused, Goto, pruneVars, OpenFiles, Locked
  <2>3. LockedOnly'
    BY <1>0, <1>2 DEF Open, Unused, Goto, pruneVars, OpenFiles, LockedOnly
  <2>4. PrunerLocks'
    BY <1>0, <1>2 DEF Open, Unused, Goto, pruneVars, OpenFiles, PrunerLocks
  <2>5. PathsStand'
    BY <1>0, <1>2 DEF Open, Unused, Goto, pruneVars, OpenFiles, Locked,
        PrunerLocks, PathsStand
  <2>6. TokensStand'
    BY <1>0, <1>2 DEF Open, Unused, Goto, pruneVars, OpenFiles, Locked,
        TokensStand
  <2>7. Hooks'
    BY <1>0, <1>2 DEF Open, Unused, Goto, pruneVars, Hooks
  <2> QED
    BY <1>0, <2>1, <2>2, <2>3, <2>4, <2>5, <2>6, <2>7
<1>3. ASSUME NEW p \in Proc, TryLock(p) PROVE LockInv'
  <2>1. OpenFiles'
    <3>1. pc[p] = "try" /\ fd' = fd /\ \A q \in Proc : q # p => pc'[q] = pc[q]
      BY <1>3 DEF TryLock, Goto
    <3>2. pc'[p] \in {"check", "busy"}
      BY <1>3 DEF TryLock, Goto
    <3>3. ASSUME NEW q \in Proc PROVE fd'[q] = None <=> pc'[q] \in {"idle", "open"}
      <4>1. fd[q] = None <=> pc[q] \in {"idle", "open"}
        BY DEF OpenFiles
      <4> HIDE DEF LockInv, TypeOK, Steps, PSteps, Token
      <4> QED
        BY <3>1, <3>2, <4>1
    <3> QED
      BY <3>3 DEF OpenFiles
  <2>2. Locked'
    <3>1. CASE flock[fd[p]] = None
      <4> SUFFICES ASSUME NEW q \in Proc, pc'[q] \in Locking
                   PROVE  flock'[fd'[q]] = q
        BY DEF Locked
      <4>1. fd' = fd /\ fd[p] \in Inode /\ flock' = [flock EXCEPT ![fd[p]] = p]
        <5>1. fd' = fd /\ flock' = [flock EXCEPT ![fd[p]] = p] /\ pc[p] = "try"
          BY <1>3, <3>1 DEF TryLock
        <5>2. fd[p] \in Inode \cup {None} /\ (fd[p] = None <=> pc[p] \in {"idle", "open"})
          BY DEF OpenFiles
        <5> HIDE DEF LockInv, TypeOK, Steps, PSteps, Token
        <5> QED
          BY <5>1, <5>2
      <4>2. CASE q = p
        BY <4>1, <4>2
      <4>3. CASE q # p
        <5>1. pc[q] \in Locking
          BY <1>3, <4>3 DEF TryLock, Goto
        <5> QED
          BY <3>1, <4>1, <4>3, <5>1 DEF Locked
      <4> QED
        BY <4>2, <4>3
    <3>2. CASE flock[fd[p]] # None
      BY <1>3, <3>2 DEF TryLock, Goto, Locked
    <3> QED
      BY <3>1, <3>2
  <2>3. LockedOnly'
    BY <1>0, <1>3 DEF TryLock, Goto, pruneVars, OpenFiles, LockedOnly
  <2>4. PrunerLocks'
    BY <1>0, <1>3 DEF TryLock, Goto, pruneVars, OpenFiles, PrunerLocks
  <2>5. PathsStand'
    BY <1>0, <1>3 DEF TryLock, Goto, pruneVars, OpenFiles, Locked,
        PrunerLocks, PathsStand
  <2>6. TokensStand'
    BY <1>0, <1>3 DEF TryLock, Goto, pruneVars, OpenFiles, Locked, TokensStand
  <2>7. Hooks'
    BY <1>0, <1>3 DEF TryLock, Goto, pruneVars, Hooks
  <2> QED
    BY <1>0, <2>1, <2>2, <2>3, <2>4, <2>5, <2>6, <2>7
<1>4. ASSUME NEW p \in Proc, Refuse(p) PROVE LockInv'
  BY <1>0, <1>4 DEF Refuse, Goto, fileVars, pruneVars, OpenFiles, Locked,
      LockedOnly, PrunerLocks, PathsStand, TokensStand, Hooks
<1>5. ASSUME NEW p \in Proc, Wait(p) PROVE LockInv'
  BY <1>0, <1>5 DEF Wait, Goto, fileVars, pruneVars, OpenFiles, Locked,
      LockedOnly, PrunerLocks, PathsStand, TokensStand, Hooks
<1>6. ASSUME NEW p \in Proc, Grant(p) PROVE LockInv'
  <2>1. OpenFiles'
    BY <1>0, <1>6 DEF Grant, Goto, pruneVars, OpenFiles
  <2>2. Locked'
    BY <1>0, <1>6 DEF Grant, Goto, pruneVars, OpenFiles, Locked
  <2>3. LockedOnly'
    BY <1>0, <1>6 DEF Grant, Goto, pruneVars, OpenFiles, LockedOnly
  <2>4. PrunerLocks'
    BY <1>0, <1>6 DEF Grant, Goto, pruneVars, OpenFiles, PrunerLocks
  <2>5. PathsStand'
    BY <1>0, <1>6 DEF Grant, Goto, pruneVars, OpenFiles, Locked, PrunerLocks,
        PathsStand
  <2>6. TokensStand'
    BY <1>0, <1>6 DEF Grant, Goto, pruneVars, OpenFiles, Locked, TokensStand
  <2>7. Hooks'
    BY <1>0, <1>6 DEF Grant, Goto, pruneVars, Hooks
  <2> QED
    BY <1>0, <2>1, <2>2, <2>3, <2>4, <2>5, <2>6, <2>7
<1>7. ASSUME NEW p \in Proc, Check(p) PROVE LockInv'
  <2>1. OpenFiles'
    BY <1>0, <1>7 DEF Check, Goto, pruneVars, OpenFiles
  <2>2. Locked'
    BY <1>0, <1>7 DEF Check, Goto, pruneVars, OpenFiles, Locked
  <2>3. LockedOnly'
    BY <1>0, <1>7 DEF Check, Goto, pruneVars, OpenFiles, LockedOnly, Locked
  <2>4. PrunerLocks'
    BY <1>0, <1>7 DEF Check, Goto, pruneVars, OpenFiles, PrunerLocks, Locked
  <2>5. PathsStand'
    BY <1>0, <1>7 DEF Check, Goto, pruneVars, OpenFiles, Locked, PrunerLocks,
        PathsStand
  <2>6. TokensStand'
    BY <1>0, <1>7 DEF Check, Goto, pruneVars, OpenFiles, Locked, TokensStand
  <2>7. Hooks'
    BY <1>0, <1>7 DEF Check, Goto, pruneVars, Hooks
  <2> QED
    BY <1>0, <2>1, <2>2, <2>3, <2>4, <2>5, <2>6, <2>7
<1>8. ASSUME NEW p \in Proc, Truncate(p) PROVE LockInv'
  <2>1. OpenFiles'
    BY <1>0, <1>8 DEF Truncate, Goto, pruneVars, OpenFiles
  <2>2. Locked'
    BY <1>0, <1>8 DEF Truncate, Goto, pruneVars, OpenFiles, Locked
  <2>3. LockedOnly'
    BY <1>0, <1>8 DEF Truncate, Goto, pruneVars, OpenFiles, LockedOnly
  <2>4. PrunerLocks'
    BY <1>0, <1>8 DEF Truncate, Goto, pruneVars, OpenFiles, PrunerLocks
  <2>5. PathsStand'
    BY <1>0, <1>8 DEF Truncate, Goto, pruneVars, OpenFiles, Locked,
        PrunerLocks, PathsStand
  <2>6. TokensStand'
    BY <1>0, <1>8 DEF Truncate, Goto, pruneVars, OpenFiles, Locked,
        TokensStand
  <2>7. Hooks'
    BY <1>0, <1>8 DEF Truncate, Goto, pruneVars, Hooks
  <2> QED
    BY <1>0, <2>1, <2>2, <2>3, <2>4, <2>5, <2>6, <2>7
<1>9. ASSUME NEW p \in Proc, WriteToken(p) PROVE LockInv'
  <2>1. OpenFiles'
    BY <1>0, <1>9 DEF WriteToken, Goto, pruneVars, OpenFiles
  <2>2. Locked'
    BY <1>0, <1>9 DEF WriteToken, Goto, pruneVars, OpenFiles, Locked
  <2>3. LockedOnly'
    BY <1>0, <1>9 DEF WriteToken, Goto, pruneVars, OpenFiles, LockedOnly
  <2>4. PrunerLocks'
    BY <1>0, <1>9 DEF WriteToken, Goto, pruneVars, OpenFiles, PrunerLocks
  <2>5. PathsStand'
    BY <1>0, <1>9 DEF WriteToken, Goto, pruneVars, OpenFiles, Locked,
        PrunerLocks, PathsStand
  <2>6. TokensStand'
    BY <1>0, <1>9 DEF WriteToken, Goto, pruneVars, OpenFiles, Locked,
        TokensStand
  <2>7. Hooks'
    BY <1>0, <1>9 DEF WriteToken, Goto, pruneVars, Hooks
  <2> QED
    BY <1>0, <2>1, <2>2, <2>3, <2>4, <2>5, <2>6, <2>7
<1>10. ASSUME NEW p \in Proc, Reenter(p) PROVE LockInv'
  BY <1>0, <1>10 DEF Reenter, fileVars, pruneVars, OpenFiles, Locked,
      LockedOnly, PrunerLocks, PathsStand, TokensStand, Hooks
<1>11. ASSUME NEW p \in Proc, DropHandle(p) PROVE LockInv'
  <2>1. OpenFiles'
    BY <1>0, <1>11 DEF DropHandle, Goto, pruneVars, OpenFiles
  <2>2. Locked'
    BY <1>0, <1>11 DEF DropHandle, Goto, pruneVars, OpenFiles, Locked
  <2>3. LockedOnly'
    BY <1>0, <1>11 DEF DropHandle, Goto, pruneVars, OpenFiles, LockedOnly
  <2>4. PrunerLocks'
    BY <1>0, <1>11 DEF DropHandle, Goto, pruneVars, OpenFiles, PrunerLocks
  <2>5. PathsStand'
    BY <1>0, <1>11 DEF DropHandle, Goto, pruneVars, OpenFiles, Locked,
        PrunerLocks, PathsStand
  <2>6. TokensStand'
    BY <1>0, <1>11 DEF DropHandle, Goto, pruneVars, OpenFiles, Locked,
        TokensStand
  <2>7. Hooks'
    BY <1>0, <1>11 DEF DropHandle, Goto, pruneVars, Hooks
  <2> QED
    BY <1>0, <2>1, <2>2, <2>3, <2>4, <2>5, <2>6, <2>7
<1>12. ASSUME NEW p \in Proc, Close(p) PROVE LockInv'
  <2>1. OpenFiles'
    BY <1>0, <1>12 DEF Close, Goto, pruneVars, OpenFiles
  <2>2. Locked'
    BY <1>0, <1>12 DEF Close, Goto, pruneVars, OpenFiles, Locked
  <2>3. LockedOnly'
    BY <1>0, <1>12 DEF Close, Goto, pruneVars, OpenFiles, LockedOnly
  <2>4. PrunerLocks'
    BY <1>0, <1>12 DEF Close, Goto, pruneVars, OpenFiles, PrunerLocks, Locked
  <2>5. PathsStand'
    BY <1>0, <1>12 DEF Close, Goto, pruneVars, OpenFiles, Locked, PrunerLocks,
        PathsStand
  <2>6. TokensStand'
    BY <1>0, <1>12 DEF Close, Goto, pruneVars, OpenFiles, Locked, TokensStand
  <2>7. Hooks'
    BY <1>0, <1>12 DEF Close, Goto, pruneVars, Hooks
  <2> QED
    BY <1>0, <2>1, <2>2, <2>3, <2>4, <2>5, <2>6, <2>7
<1>13. ASSUME NEW p \in Proc, ChangeRecord(p) PROVE LockInv'
  BY <1>0, <1>13 DEF ChangeRecord, fileVars, procVars, pruneVars, OpenFiles,
      Locked, LockedOnly, PrunerLocks, PathsStand, TokensStand, Hooks
<1>14. ASSUME NEW p \in Proc, NEW q \in Proc, RunHook(p, q) PROVE LockInv'
  <2>1. OpenFiles'
    BY <1>0, <1>14 DEF RunHook, Goto, fileVars, pruneVars, OpenFiles
  <2>2. Locked'
    BY <1>0, <1>14 DEF RunHook, Goto, fileVars, pruneVars, OpenFiles, Locked
  <2>3. LockedOnly'
    BY <1>0, <1>14 DEF RunHook, Goto, fileVars, pruneVars, OpenFiles,
        LockedOnly
  <2>4. PrunerLocks'
    BY <1>0, <1>14 DEF RunHook, Goto, fileVars, pruneVars, OpenFiles,
        PrunerLocks
  <2>5. PathsStand'
    BY <1>0, <1>14 DEF RunHook, Goto, fileVars, pruneVars, OpenFiles, Locked,
        PrunerLocks, PathsStand
  <2>6. TokensStand'
    BY <1>0, <1>14 DEF RunHook, Goto, fileVars, pruneVars, OpenFiles, Locked,
        TokensStand
  <2>7. Hooks'
    BY <1>0, <1>14 DEF RunHook, Goto, fileVars, pruneVars, Hooks
  <2> QED
    BY <1>0, <2>1, <2>2, <2>3, <2>4, <2>5, <2>6, <2>7
<1>15. ASSUME NEW p \in Proc, HookEnds(p) PROVE LockInv'
  <2>1. OpenFiles'
    BY <1>0, <1>15 DEF HookEnds, Goto, fileVars, pruneVars, OpenFiles, Hooks
  <2>2. Locked'
    BY <1>0, <1>15 DEF HookEnds, Goto, fileVars, pruneVars, OpenFiles, Locked,
        Hooks
  <2>3. LockedOnly'
    BY <1>0, <1>15 DEF HookEnds, Goto, fileVars, pruneVars, OpenFiles,
        LockedOnly, Hooks
  <2>4. PrunerLocks'
    BY <1>0, <1>15 DEF HookEnds, Goto, fileVars, pruneVars, OpenFiles,
        PrunerLocks, Hooks
  <2>5. PathsStand'
    BY <1>0, <1>15 DEF HookEnds, Goto, fileVars, pruneVars, OpenFiles, Locked,
        PrunerLocks, PathsStand, Hooks
  <2>6. TokensStand'
    BY <1>0, <1>15 DEF HookEnds, Goto, fileVars, pruneVars, OpenFiles, Locked,
        TokensStand, Hooks
  <2>7. Hooks'
    BY <1>0, <1>15 DEF HookEnds, Goto, fileVars, pruneVars, Hooks
  <2> QED
    BY <1>0, <2>1, <2>2, <2>3, <2>4, <2>5, <2>6, <2>7
<1>16. ASSUME NEW p \in Proc, HookDetaches(p) PROVE LockInv'
  <2>1. OpenFiles'
    BY <1>0, <1>16 DEF HookDetaches, Goto, fileVars, pruneVars, OpenFiles,
        Hooks
  <2>2. Locked'
    BY <1>0, <1>16 DEF HookDetaches, Goto, fileVars, pruneVars, OpenFiles,
        Locked, Hooks
  <2>3. LockedOnly'
    BY <1>0, <1>16 DEF HookDetaches, Goto, fileVars, pruneVars, OpenFiles,
        LockedOnly, Hooks
  <2>4. PrunerLocks'
    BY <1>0, <1>16 DEF HookDetaches, Goto, fileVars, pruneVars, OpenFiles,
        PrunerLocks, Hooks
  <2>5. PathsStand'
    BY <1>0, <1>16 DEF HookDetaches, Goto, fileVars, pruneVars, OpenFiles,
        Locked, PrunerLocks, PathsStand, Hooks
  <2>6. TokensStand'
    BY <1>0, <1>16 DEF HookDetaches, Goto, fileVars, pruneVars, OpenFiles,
        Locked, TokensStand, Hooks
  <2>7. Hooks'
    BY <1>0, <1>16 DEF HookDetaches, Goto, fileVars, pruneVars, Hooks
  <2> QED
    BY <1>0, <2>1, <2>2, <2>3, <2>4, <2>5, <2>6, <2>7
<1>17. ASSUME NEW p \in Proc, BackgroundEnds(p) PROVE LockInv'
  BY <1>0, <1>17 DEF BackgroundEnds, fileVars, pruneVars, OpenFiles, Locked,
      LockedOnly, PrunerLocks, PathsStand, TokensStand, Hooks
<1>18. ASSUME NEW p \in Proc, Crash(p) PROVE LockInv'
  <2>1. OpenFiles'
    BY <1>0, <1>18 DEF Crash, pruneVars, OpenFiles, Hooks, Locked
  <2>2. Locked'
    <3> SUFFICES ASSUME NEW q \in Proc, pc'[q] \in Locking
                 PROVE  flock'[fd'[q]] = q
      BY DEF Locked
    <3>1. q # p /\ pc[q] \in Locking
      BY <1>18 DEF Crash, Hooks
    <3>2. fd[q] \in Inode /\ flock[fd[q]] = q /\ fd'[q] = fd[q]
      BY <1>18, <3>1 DEF Crash, OpenFiles, Locked
    <3> QED
      BY <1>18, <3>1, <3>2 DEF Crash
  <2>3. LockedOnly'
    BY <1>0, <1>18 DEF Crash, pruneVars, OpenFiles, LockedOnly, Hooks, Locked
  <2>4. PrunerLocks'
    BY <1>0, <1>18 DEF Crash, pruneVars, OpenFiles, PrunerLocks, Hooks, Locked
  <2>5. PathsStand'
    BY <1>0, <1>18 DEF Crash, pruneVars, OpenFiles, Locked, PrunerLocks,
        PathsStand, Hooks
  <2>6. TokensStand'
    BY <1>0, <1>18 DEF Crash, pruneVars, OpenFiles, Locked, TokensStand, Hooks
  <2>7. Hooks'
    BY <1>0, <1>18 DEF Crash, pruneVars, Hooks, Locked
  <2> QED
    BY <1>0, <2>1, <2>2, <2>3, <2>4, <2>5, <2>6, <2>7
<1>19. ASSUME NEW c \in Pruner, NEW s \in Slug, PruneConsider(c, s) PROVE LockInv'
  BY <1>0, <1>19 DEF PruneConsider, fileVars, procVars, OpenFiles, Locked,
      LockedOnly, PrunerLocks, PathsStand, TokensStand, Hooks
<1>20. ASSUME NEW c \in Pruner, PruneOpen(c) PROVE LockInv'
  BY <1>0, <1>20 DEF PruneOpen, fileVars, procVars, OpenFiles, Locked,
      LockedOnly, PrunerLocks, PathsStand, TokensStand, Hooks
<1>21. ASSUME NEW c \in Pruner, PruneTry(c) PROVE LockInv'
  <2>1. OpenFiles'
    <3>1. fd' = fd /\ pc' = pc
      BY <1>21 DEF PruneTry, procVars
    <3>2. OpenFiles
      OBVIOUS
    <3> HIDE DEF LockInv, TypeOK, Steps, PSteps, Token
    <3> QED
      BY <3>1, <3>2 DEF OpenFiles
  <2>2. Locked'
    <3> SUFFICES ASSUME NEW q \in Proc, pc'[q] \in Locking PROVE flock'[fd'[q]] = q
      BY DEF Locked
    <3>1. /\ fd' = fd /\ pc' = pc
          /\ \/ flock[pfd[c]] = None /\ flock' = [flock EXCEPT ![pfd[c]] = c]
             \/ flock' = flock
      BY <1>21 DEF PruneTry, procVars
    <3>2. flock[fd[q]] = q /\ q # None
      BY <3>1 DEF Locked
    <3>3. fd[q] \in DOMAIN flock
      BY <3>1 DEF OpenFiles
    <3> HIDE DEF LockInv, TypeOK, Steps, PSteps, Token
    <3> QED
      BY <3>1, <3>2, <3>3
  <2>3. LockedOnly'
    BY <1>0, <1>21 DEF PruneTry, procVars, OpenFiles, LockedOnly
  <2>4. PrunerLocks'
    <3>1. pfd[c] \in Inode
      BY <1>21 DEF PruneTry, PrunerLocks
    <3>2. CASE flock[pfd[c]] = None
      BY <1>21, <3>1, <3>2 DEF PruneTry, PrunerLocks
    <3>3. CASE flock[pfd[c]] # None
      <4>1. \A i \in Inode : flock[i] # c
        BY <1>21 DEF PruneTry, PrunerLocks
      <4>2. /\ flock' = flock
            /\ ppc' = [ppc EXCEPT ![c] = "idle"]
            /\ pfd' = [pfd EXCEPT ![c] = None]
        BY <1>21, <3>3 DEF PruneTry
      <4> QED
        BY <4>1, <4>2 DEF PrunerLocks
    <3> QED
      BY <3>2, <3>3
  <2>5. PathsStand'
    BY <1>0, <1>21 DEF PruneTry, procVars, OpenFiles, Locked, PrunerLocks,
        PathsStand
  <2>6. TokensStand'
    BY <1>0, <1>21 DEF PruneTry, procVars, OpenFiles, Locked, TokensStand
  <2>7. Hooks'
    BY <1>0, <1>21 DEF PruneTry, procVars, Hooks
  <2> QED
    BY <1>0, <2>1, <2>2, <2>3, <2>4, <2>5, <2>6, <2>7
<1>22. ASSUME NEW c \in Pruner, PruneRemove(c) PROVE LockInv'
  <2>1. OpenFiles'
    BY <1>0, <1>22 DEF PruneRemove, procVars, OpenFiles
  <2>2. Locked'
    BY <1>0, <1>22 DEF PruneRemove, procVars, OpenFiles, Locked
  <2>3. LockedOnly'
    BY <1>0, <1>22 DEF PruneRemove, procVars, OpenFiles, LockedOnly
  <2>4. PrunerLocks'
    BY <1>0, <1>22 DEF PruneRemove, procVars, OpenFiles, PrunerLocks
  <2>5. PathsStand'
    BY <1>0, <1>22 DEF PruneRemove, procVars, OpenFiles, Locked, PrunerLocks,
        PathsStand, OneCleanup
  <2>6. TokensStand'
    BY <1>0, <1>22 DEF PruneRemove, procVars, OpenFiles, Locked, TokensStand
  <2>7. Hooks'
    BY <1>0, <1>22 DEF PruneRemove, procVars, Hooks
  <2> QED
    BY <1>0, <2>1, <2>2, <2>3, <2>4, <2>5, <2>6, <2>7
<1>23. ASSUME NEW c \in Pruner, PruneClose(c) PROVE LockInv'
  <2>1. OpenFiles'
    BY <1>0, <1>23 DEF PruneClose, procVars, OpenFiles
  <2>2. Locked'
    BY <1>0, <1>23 DEF PruneClose, procVars, OpenFiles, Locked, PrunerLocks
  <2>3. LockedOnly'
    BY <1>0, <1>23 DEF PruneClose, procVars, OpenFiles, LockedOnly,
        PrunerLocks
  <2>4. PrunerLocks'
    BY <1>0, <1>23 DEF PruneClose, procVars, OpenFiles, PrunerLocks
  <2>5. PathsStand'
    BY <1>0, <1>23 DEF PruneClose, procVars, OpenFiles, Locked, PrunerLocks,
        PathsStand
  <2>6. TokensStand'
    BY <1>0, <1>23 DEF PruneClose, procVars, OpenFiles, Locked, TokensStand
  <2>7. Hooks'
    BY <1>0, <1>23 DEF PruneClose, procVars, Hooks
  <2> QED
    BY <1>0, <2>1, <2>2, <2>3, <2>4, <2>5, <2>6, <2>7
<1>24. CASE UNCHANGED vars
  BY <1>24 DEF vars, fileVars, procVars, pruneVars, OpenFiles, Locked,
      LockedOnly, PrunerLocks, PathsStand, TokensStand, Hooks
<1> QED
  BY <1>1, <1>2, <1>3, <1>4, <1>5, <1>6, <1>7, <1>8, <1>9, <1>10, <1>11,
     <1>12, <1>13, <1>14, <1>15, <1>16, <1>17, <1>18, <1>19, <1>20, <1>21,
     <1>22, <1>23, <1>24
     DEF Next, ProcNext, AcquireStep, PruneNext

\* With one cleanup, the inductive invariant holds of every state: locks and
\* open files agree, and a file past the check stays at its path (lock.rs).
THEOREM LockInvariant == ASSUME OneCleanup PROVE Spec => []LockInv
<1>1. Init => LockInv
  BY InitLockInv
<1>2. LockInv /\ [Next]_vars => LockInv'
  BY NextLockInv
<1> QED
  BY <1>1, <1>2, PTL DEF Spec

\* Two holders would each have the kernel lock of the one file at the path.
LEMMA LockInvExcludes == LockInv => MutualExclusion
  BY LockAssumption
     DEF LockInv, MutualExclusion, TypeOK, OpenFiles, Locked, PathsStand, Holds,
         Locking, Past

\* With one cleanup, two commands never hold one instance's lock, for any
\* number of commands, waits, hooks and kills (lock.rs: acquire, Drop, prune).
THEOREM Exclusion == ASSUME OneCleanup PROVE Spec => []MutualExclusion
  BY LockInvariant, LockInvExcludes, PTL

\* With one cleanup, the file a held lock is on stays at its path with the
\* holder's token in it (lock.rs: is_file_at, prune).
THEOREM HeldFileStays == ASSUME OneCleanup PROVE Spec => []HeldFileIsAtPath
<1>1. LockInv => HeldFileIsAtPath
  BY DEF LockInv, HeldFileIsAtPath, Locked, PathsStand, TokensStand, Holds,
         Locking, Past
<1> QED
  BY <1>1, LockInvariant, PTL

-----------------------------------------------------------------------------
(* The file lock implements the abstract lock.                             *)

\* A step that lets no command in or out maps to a stutter.
LEMMA HoldersStutter ==
    ASSUME TypeOK,
           \A p \in Proc : (Holds(p) <=> Holds(p)') /\ (Holds(p) => want'[p] = want[p])
    PROVE  holdersOf' = holdersOf
  BY DEF holdersOf, Holds

\* The end of `acquire` lets its command in, and nobody was in.
LEMMA HolderEnters ==
    ASSUME LockInv, NEW p \in Proc, WriteToken(p)
    PROVE  Abstract!Acquire(p, want[p])
<1> USE DEF LockInv, TypeOK, Steps
<1>1. holdersOf[want[p]] = {}
  BY LockAssumption
     DEF holdersOf, Holds, WriteToken, OpenFiles, Locked, PathsStand, Locking, Past
<1>2. holdersOf' = [holdersOf EXCEPT ![want[p]] = {p}]
  <2>1. want' = want /\ \A q \in Proc : Holds(q)' <=> Holds(q) \/ q = p
    BY DEF WriteToken, Goto, Holds
  <2>2. ASSUME NEW s \in Slug
        PROVE  holdersOf'[s] = IF s = want[p] THEN {p} ELSE holdersOf[s]
    <3>1. holdersOf'[s] = {q \in Proc : (Holds(q) \/ q = p) /\ want[q] = s}
      BY <2>1 DEF holdersOf
    <3>2. holdersOf[s] = {q \in Proc : Holds(q) /\ want[q] = s}
      BY DEF holdersOf
    <3>3. CASE s = want[p]
      <4>1. \A q \in Proc : ~ (Holds(q) /\ want[q] = s)
        BY <1>1, <3>2, <3>3
      <4> QED
        BY <3>1, <3>3, <4>1
    <3>4. CASE s # want[p]
      BY <3>1, <3>2, <3>4
    <3> QED
      BY <3>3, <3>4
  <2> QED
    BY <2>2 DEF holdersOf
<1> QED
  BY <1>1, <1>2 DEF Abstract!Acquire

\* A command that alone goes out, by its drop or by a kill, releases.
LEMMA HolderLeaves ==
    ASSUME LockInv, NEW p \in Proc, Holds(p), want' = want,
           \A q \in Proc : Holds(q)' <=> Holds(q) /\ q # p
    PROVE  Abstract!Release(p, want[p])
<1> USE DEF LockInv, TypeOK
<1>1. \A q \in Proc : Holds(q) /\ want[q] = want[p] => q = p
  BY LockInvExcludes DEF MutualExclusion
<1>2. holdersOf[want[p]] = {p}
  BY <1>1 DEF holdersOf
<1>3. holdersOf' = [holdersOf EXCEPT ![want[p]] = {}]
  <2>1. ASSUME NEW s \in Slug
        PROVE  holdersOf'[s] = IF s = want[p] THEN {} ELSE holdersOf[s]
    <3>1. holdersOf'[s] = {q \in Proc : (Holds(q) /\ q # p) /\ want[q] = s}
      BY DEF holdersOf
    <3>2. holdersOf[s] = {q \in Proc : Holds(q) /\ want[q] = s}
      BY DEF holdersOf
    <3>3. CASE s = want[p]
      BY <1>1, <3>1, <3>3
    <3>4. CASE s # want[p]
      BY <3>1, <3>2, <3>4
    <3> QED
      BY <3>3, <3>4
  <2> QED
    BY <2>1 DEF holdersOf
<1> QED
  BY <1>2, <1>3 DEF Abstract!Release

\* Every step of the file lock is a step of the abstract lock or a stutter.
LEMMA NextRefines ==
    LockInv /\ [Next]_vars => [Abstract!Next]_holdersOf
<1> SUFFICES ASSUME LockInv, [Next]_vars PROVE [Abstract!Next]_holdersOf
  OBVIOUS
<1> DEFINE Stutter == holdersOf' = holdersOf
           Same == \A p \in Proc : (Holds(p) <=> Holds(p)')
                                     /\ (Holds(p) => want'[p] = want[p])
<1>0. Same => Stutter
  BY HoldersStutter DEF LockInv
<1> HIDE DEF Stutter
<1> USE DEF LockInv, TypeOK, Steps, Holds
<1>1. ASSUME NEW p \in Proc, WriteToken(p) PROVE Abstract!Next
  BY <1>1, HolderEnters DEF Abstract!Next
<1>2. ASSUME NEW p \in Proc, DropHandle(p) PROVE Stutter \/ Abstract!Next
  <2>1. CASE refs[p] > 1
    BY <1>0, <1>2, <2>1 DEF DropHandle
  <2>2. CASE refs[p] = 1
    <3>1. Holds(p) /\ want' = want /\ \A q \in Proc : Holds(q)' <=> Holds(q) /\ q # p
      BY <1>2, <2>2 DEF DropHandle, Goto
    <3>2. want[p] \in Slug
      OBVIOUS
    <3> QED
      BY <3>1, <3>2, HolderLeaves DEF Abstract!Next
  <2> QED
    BY <1>2, <2>1, <2>2 DEF DropHandle
<1>3. ASSUME NEW p \in Proc, Crash(p) PROVE Stutter \/ Abstract!Next
  <2>1. want' = want /\ \A q \in Proc : Holds(q)' <=> Holds(q) /\ q # p
    BY <1>3 DEF Crash, Hooks
  <2>2. CASE Holds(p)
    BY <2>1, <2>2, HolderLeaves DEF Abstract!Next
  <2>3. CASE ~ Holds(p)
    BY <1>0, <2>1, <2>3
  <2> QED
    BY <2>2, <2>3
<1>4. ASSUME NEW p \in Proc, NEW s \in Slug, Command(p, s) PROVE Stutter
  BY <1>0, <1>4 DEF Command, Goto
<1>5. ASSUME NEW p \in Proc, Open(p) \/ TryLock(p) \/ Refuse(p) \/ Wait(p)
                                \/ Grant(p) \/ Check(p) \/ Truncate(p)
      PROVE  Stutter
  BY <1>0, <1>5 DEF Open, TryLock, Refuse, Wait, Grant, Check, Truncate, Goto
<1>6. ASSUME NEW p \in Proc, Reenter(p) \/ Close(p) \/ ChangeRecord(p)
                                \/ BackgroundEnds(p)
      PROVE  Stutter
  BY <1>0, <1>6 DEF Reenter, Close, ChangeRecord, BackgroundEnds, Goto, procVars
<1>7. ASSUME NEW p \in Proc, NEW q \in Proc, RunHook(p, q) PROVE Stutter
  BY <1>0, <1>7 DEF RunHook, Goto
<1>8. ASSUME NEW p \in Proc, HookEnds(p) \/ HookDetaches(p) PROVE Stutter
  BY <1>0, <1>8 DEF HookEnds, HookDetaches, Goto, Hooks
<1>9. ASSUME NEW c \in Pruner, PruneNext(c) PROVE Stutter
  BY <1>0, <1>9 DEF PruneNext, PruneConsider, PruneOpen, PruneTry, PruneRemove,
                    PruneClose, procVars
<1>10. ASSUME UNCHANGED vars PROVE Stutter
  BY <1>0, <1>10 DEF vars, procVars
<1> QED
  BY <1>1, <1>2, <1>3, <1>4, <1>5, <1>6, <1>7, <1>8, <1>9, <1>10
     DEF Next, ProcNext, AcquireStep, Stutter

\* With one cleanup, the file lock implements the lock lock.rs promises: a
\* command enters only an instance no command is in.
THEOREM Refinement == ASSUME OneCleanup PROVE Spec => ImplementsExclusiveLock
<1>1. Init => Abstract!Init
  BY DEF Init, Abstract!Init, holdersOf, Holds
<1>2. LockInv /\ [Next]_vars => [Abstract!Next]_holdersOf
  BY NextRefines
<1> QED
  BY <1>1, <1>2, LockInvariant, PTL
     DEF Spec, ImplementsExclusiveLock, Abstract!Spec

-----------------------------------------------------------------------------
(* No command waits for its own ancestor.                                  *)

\* A hook has the environment its command made for it.
Inherits == \A p, q \in Proc : boss[q] = p => env[q] = HookEnv(p)

\* No token is ahead of the last one taken, and a held lock has one.
TokensGiven ==
    /\ \A p \in Proc, s \in Slug : env[p][s] <= lastToken
    /\ \A p \in Proc : token[p] <= lastToken /\ (Holds(p) => token[p] # 0)

\* A command that began to wait was not refused, and would not be now.
WaitersNotNested == \A p \in Proc : pc[p] = "wait" => ~ HeldByAncestor(p)

ChainInv == LockInv /\ Inherits /\ TokensGiven /\ WaitersNotNested

\* Nobody has a token or an entry at first.
LEMMA InitChainInv == Init => ChainInv
<1> SUFFICES ASSUME Init PROVE ChainInv
  OBVIOUS
<1>1. LockInv
  BY InitLockInv
<1> QED
  BY <1>1, LockAssumption
     DEF Init, ChainInv, Inherits, TokensGiven, WaitersNotNested, Holds, NoEnv

\* An environment once given stays as it is while its command waits for the
\* hook: the command neither changes instance nor gives its lock back.
LEMMA InheritsKept ==
    ASSUME TypeOK, Hooks, Inherits, boss' = boss, env' = env,
           \A p \in Proc : pc[p] = "hook" => want'[p] = want[p] /\ token'[p] = token[p]
    PROVE  Inherits'
<1> SUFFICES ASSUME NEW p \in Proc, NEW q \in Proc, boss'[q] = p
             PROVE  env'[q] = HookEnv(p)'
  BY DEF Inherits
<1>1. pc[p] = "hook" /\ env[q] = HookEnv(p)
  BY DEF Hooks, Inherits
<1> QED
  BY <1>1 DEF HookEnv

\* What is read at a path only ever changes to nothing, to an empty file or to
\* a token no environment has.
LEMMA WaitersKept ==
    ASSUME LockInv, TokensGiven, WaitersNotNested, lastToken' \in Nat,
           \A p \in Proc : pc'[p] = "wait" =>
               pc[p] = "wait" /\ env'[p] = env[p] /\ want'[p] = want[p],
           \A s \in Slug : \/ at'[s] = None
                           \/ at'[s] = at[s] /\ content'[at[s]] = content[at[s]]
                           \/ content'[at'[s]] = 0
                           \/ content'[at'[s]] > lastToken
    PROVE  WaitersNotNested'
<1> SUFFICES ASSUME NEW p \in Proc, pc'[p] = "wait", HeldByAncestor(p)'
             PROVE  FALSE
  BY DEF WaitersNotNested
<1>1. /\ pc[p] = "wait" /\ env'[p] = env[p] /\ want'[p] = want[p]
      /\ want[p] \in Slug
  BY DEF LockInv, TypeOK
<1>2. env[p][want[p]] \in Nat /\ lastToken \in Nat /\ env[p][want[p]] <= lastToken
  BY <1>1, LockAssumption DEF LockInv, TypeOK, Token, TokensGiven
<1>3. /\ env[p][want[p]] # 0
      /\ at'[want[p]] # None
      /\ content'[at'[want[p]]] = env[p][want[p]]
  BY <1>1 DEF HeldByAncestor
<1>4. at'[want[p]] = at[want[p]] /\ content'[at[want[p]]] = content[at[want[p]]]
  BY <1>1, <1>2, <1>3
<1> QED
  BY <1>1, <1>3, <1>4 DEF WaitersNotNested, HeldByAncestor

\* With one cleanup, every step keeps the three facts about tokens.
LEMMA NextChainInv == ASSUME OneCleanup PROVE ChainInv /\ [Next]_vars => ChainInv'
<1> SUFFICES ASSUME ChainInv, [Next]_vars PROVE ChainInv'
  OBVIOUS
<1> DEFINE Rest == Inherits' /\ TokensGiven' /\ WaitersNotNested'
<1>0. LockInv /\ LockInv' /\ TypeOK /\ TypeOK' /\ Hooks /\ Inherits
      /\ TokensGiven /\ WaitersNotNested
  BY NextLockInv DEF ChainInv, LockInv
<1>a. lastToken \in Nat /\ lastToken' \in Nat
  BY <1>0, LockAssumption DEF TypeOK, Token
<1>1. ASSUME NEW p \in Proc, NEW s \in Slug, Command(p, s) PROVE Rest
  <2>1. Inherits'
    BY <1>0, <1>1, InheritsKept DEF Command, Goto, TypeOK
  <2>2. TokensGiven'
    BY <1>0, <1>1 DEF Command, Goto, TypeOK, TokensGiven, Holds
  <2>3. WaitersNotNested'
    BY <1>0, <1>1, <1>a, WaitersKept DEF Command, Goto, TypeOK, fileVars
  <2> QED
    BY <2>1, <2>2, <2>3
<1>2. ASSUME NEW p \in Proc, Open(p) PROVE Rest
  <2>1. Inherits'
    BY <1>0, <1>2, InheritsKept DEF Open
  <2>2. TokensGiven'
    BY <1>0, <1>2 DEF Open, Goto, TypeOK, TokensGiven, Holds
  <2>3. ASSUME NEW s \in Slug
        PROVE  \/ at'[s] = None
               \/ at'[s] = at[s] /\ content'[at[s]] = content[at[s]]
               \/ content'[at'[s]] = 0
    <3>1. CASE at[want[p]] # None
      BY <1>2, <3>1 DEF Open
    <3>2. CASE at[want[p]] = None
      <4>1. PICK i \in Inode : /\ at' = [at EXCEPT ![want[p]] = i]
                               /\ content' = [content EXCEPT ![i] = 0]
                               /\ Unused(i)
        BY <1>2, <3>2 DEF Open
      <4> QED
        BY <1>0, <4>1 DEF TypeOK, Unused
    <3> QED
      BY <3>1, <3>2
  <2>4. WaitersNotNested'
    BY <1>0, <1>2, <1>a, <2>3, WaitersKept DEF Open, Goto, TypeOK
  <2> QED
    BY <2>1, <2>2, <2>4
<1>3. ASSUME NEW p \in Proc, TryLock(p) \/ Refuse(p) \/ Grant(p) \/ Check(p)
      PROVE  Rest
  <2>1. Inherits'
    BY <1>0, <1>3, InheritsKept DEF TryLock, Refuse, Grant, Check
  <2>2. TokensGiven'
    BY <1>0, <1>3 DEF TryLock, Refuse, Grant, Check, Goto, TypeOK, TokensGiven, Holds
  <2>3. WaitersNotNested'
    BY <1>0, <1>3, <1>a, WaitersKept
       DEF TryLock, Refuse, Grant, Check, Goto, TypeOK, fileVars
  <2> QED
    BY <2>1, <2>2, <2>3
<1>4. ASSUME NEW p \in Proc, Wait(p) PROVE Rest
  <2>1. Inherits'
    BY <1>0, <1>4, InheritsKept DEF Wait
  <2>2. TokensGiven'
    BY <1>0, <1>4 DEF Wait, Goto, TypeOK, TokensGiven, Holds
  <2>3. WaitersNotNested'
    BY <1>0, <1>4 DEF Wait, Goto, TypeOK, fileVars, WaitersNotNested, HeldByAncestor
  <2> QED
    BY <2>1, <2>2, <2>3
<1>5. ASSUME NEW p \in Proc, Truncate(p) PROVE Rest
  <2>1. Inherits'
    BY <1>0, <1>5, InheritsKept DEF Truncate
  <2>2. TokensGiven'
    BY <1>0, <1>5 DEF Truncate, Goto, TypeOK, TokensGiven, Holds
  <2>3. WaitersNotNested'
    BY <1>0, <1>5, <1>a, WaitersKept DEF Truncate, Goto, TypeOK
  <2> QED
    BY <2>1, <2>2, <2>3
<1>6. ASSUME NEW p \in Proc, WriteToken(p) PROVE Rest
  <2>1. Inherits'
    BY <1>0, <1>6, InheritsKept DEF WriteToken, TypeOK
  <2>2. TokensGiven'
    BY <1>0, <1>6, <1>a, LockAssumption
       DEF WriteToken, Goto, TypeOK, Token, TokensGiven, Holds
  <2>3. WaitersNotNested'
    BY <1>0, <1>6, <1>a, WaitersKept DEF WriteToken, Goto, TypeOK
  <2> QED
    BY <2>1, <2>2, <2>3
<1>7. ASSUME NEW p \in Proc, Reenter(p) \/ ChangeRecord(p) PROVE Rest
  <2>1. Inherits'
    BY <1>0, <1>7, InheritsKept DEF Reenter, ChangeRecord, procVars
  <2>2. TokensGiven'
    BY <1>0, <1>7 DEF Reenter, ChangeRecord, procVars, TokensGiven, Holds
  <2>3. WaitersNotNested'
    BY <1>0, <1>7, <1>a, WaitersKept DEF Reenter, ChangeRecord, procVars, fileVars
  <2> QED
    BY <2>1, <2>2, <2>3
<1>8. ASSUME NEW p \in Proc, DropHandle(p) PROVE Rest
  <2>1. Inherits'
    BY <1>0, <1>8, InheritsKept DEF DropHandle
  <2>2. TokensGiven'
    BY <1>0, <1>8 DEF DropHandle, Goto, TypeOK, TokensGiven, Holds
  <2>3. \A i \in Inode : content'[i] = content[i] \/ content'[i] = 0
    BY <1>0, <1>8 DEF DropHandle, TypeOK
  <2>4. at' = at /\ \A s \in Slug : at[s] = None \/ at[s] \in Inode
    BY <1>0, <1>8 DEF DropHandle, TypeOK
  <2>5. WaitersNotNested'
    BY <1>0, <1>8, <1>a, <2>3, <2>4, WaitersKept DEF DropHandle, Goto, TypeOK
  <2> QED
    BY <2>1, <2>2, <2>5
<1>9. ASSUME NEW p \in Proc, Close(p) PROVE Rest
  <2>1. Inherits'
    BY <1>0, <1>9, InheritsKept DEF Close, TypeOK
  <2>2. TokensGiven'
    BY <1>0, <1>9, <1>a DEF Close, Goto, TypeOK, TokensGiven, Holds
  <2>3. WaitersNotNested'
    BY <1>0, <1>9, <1>a, WaitersKept DEF Close, Goto, TypeOK
  <2> QED
    BY <2>1, <2>2, <2>3
<1>10. ASSUME NEW p \in Proc, NEW q \in Proc, RunHook(p, q) PROVE Rest
  <2>1. Inherits'
    <3> SUFFICES ASSUME NEW r \in Proc, NEW h \in Proc, boss'[h] = r
                 PROVE  env'[h] = HookEnv(r)'
      BY DEF Inherits
    <3>1. /\ env' = [env EXCEPT ![q] = HookEnv(p)] /\ boss' = [boss EXCEPT ![q] = p]
          /\ want' = want /\ token' = token
          /\ p # q /\ pc[q] = "idle"
      BY <1>10 DEF RunHook
    <3>2. r # q /\ env'[h] = HookEnv(r)
      <4>1. CASE h = q
        BY <1>0, <3>1, <4>1 DEF TypeOK
      <4>2. CASE h # q
        <5>1. boss[h] = r /\ env'[h] = env[h]
          BY <1>0, <3>1, <4>2 DEF TypeOK
        <5> QED
          BY <1>0, <3>1, <5>1 DEF Hooks, Inherits
      <4> QED
        BY <4>1, <4>2
    <3>3. env'[r] = env[r]
      BY <1>0, <3>1, <3>2 DEF TypeOK
    <3> QED
      BY <3>1, <3>2, <3>3 DEF HookEnv
  <2>2. HookEnv(p) \in [Slug -> Token]
        /\ \A s \in Slug : HookEnv(p)[s] <= lastToken
    BY <1>0, <1>10 DEF HookEnv, TypeOK, TokensGiven
  <2>3. TokensGiven'
    BY <1>0, <1>10, <2>2 DEF RunHook, Goto, TypeOK, TokensGiven, Holds
  <2>4. WaitersNotNested'
    BY <1>0, <1>10, <1>a, WaitersKept DEF RunHook, Goto, TypeOK, fileVars
  <2> QED
    BY <2>1, <2>3, <2>4
<1>11. ASSUME NEW q \in Proc, HookEnds(q) PROVE Rest
  <2>1. Inherits'
    BY <1>0, <1>11, LockAssumption
       DEF HookEnds, Goto, TypeOK, Hooks, Inherits, HookEnv
  <2>2. TokensGiven'
    BY <1>0, <1>11, <1>a DEF HookEnds, Goto, NoEnv, TypeOK, TokensGiven, Holds, Hooks
  <2>3. WaitersNotNested'
    BY <1>0, <1>11, <1>a, WaitersKept DEF HookEnds, Goto, TypeOK, fileVars
  <2> QED
    BY <2>1, <2>2, <2>3
<1>12. ASSUME NEW q \in Proc, HookDetaches(q) PROVE Rest
  <2>1. Inherits'
    BY <1>0, <1>12, LockAssumption
       DEF HookDetaches, Goto, TypeOK, Hooks, Inherits, HookEnv
  <2>2. TokensGiven'
    BY <1>0, <1>12, <1>a DEF HookDetaches, Goto, TypeOK, TokensGiven, Holds, Hooks
  <2>3. WaitersNotNested'
    BY <1>0, <1>12, <1>a, WaitersKept DEF HookDetaches, Goto, TypeOK, fileVars
  <2> QED
    BY <2>1, <2>2, <2>3
<1>13. ASSUME NEW q \in Proc, BackgroundEnds(q) PROVE Rest
  <2>1. Inherits'
    <3> SUFFICES ASSUME NEW p \in Proc, NEW r \in Proc, boss'[r] = p
                 PROVE  env'[r] = HookEnv(p)'
      BY DEF Inherits
    <3>1. /\ boss[q] = None /\ pc[q] = "idle" /\ env' = [env EXCEPT ![q] = NoEnv]
          /\ boss' = boss /\ want' = want /\ token' = token
      BY <1>13 DEF BackgroundEnds
    <3>2. boss[r] = p /\ env[r] = HookEnv(p)
      BY <1>0, <3>1 DEF Inherits
    <3>3. pc[p] = "hook" /\ p # q
      BY <1>0, <3>1, <3>2 DEF Hooks
    <3>4. r # q
      BY <3>1, <3>2, LockAssumption
    <3>5. env'[r] = env[r] /\ env'[p] = env[p]
      BY <1>0, <3>1, <3>3, <3>4 DEF TypeOK
    <3> QED
      BY <3>1, <3>2, <3>5 DEF HookEnv
  <2>2. TokensGiven'
    BY <1>0, <1>13, <1>a DEF BackgroundEnds, NoEnv, TypeOK, TokensGiven, Holds
  <2>3. WaitersNotNested'
    BY <1>0, <1>13, <1>a, WaitersKept DEF BackgroundEnds, TypeOK, fileVars
  <2> QED
    BY <2>1, <2>2, <2>3
<1>14. ASSUME NEW p \in Proc, Crash(p) PROVE Rest
  <2>1. Inherits'
    <3> SUFFICES ASSUME NEW r \in Proc, NEW h \in Proc, boss'[h] = r
                 PROVE  env'[h] = HookEnv(r)'
      BY DEF Inherits
    <3>1. h # p /\ r # p /\ boss[h] = r
      BY <1>14, LockAssumption DEF Crash
    <3>2. /\ env'[h] = env[h] /\ env'[r] = env[r]
          /\ token'[r] = token[r] /\ want' = want
      BY <1>0, <1>14, <3>1 DEF Crash, TypeOK
    <3>3. env[h] = HookEnv(r)
      BY <1>0, <3>1 DEF Inherits
    <3> QED
      BY <3>2, <3>3 DEF HookEnv
  <2>2. TokensGiven'
    BY <1>0, <1>14, <1>a DEF Crash, NoEnv, TypeOK, TokensGiven, Holds, Hooks
  <2>3. WaitersNotNested'
    BY <1>0, <1>14, <1>a, WaitersKept DEF Crash, TypeOK
  <2> QED
    BY <2>1, <2>2, <2>3
<1>15. ASSUME NEW c \in Pruner, PruneNext(c) PROVE Rest
  <2>1. procVars' = procVars /\ lastToken' = lastToken /\ content' = content
        /\ \A s \in Slug : at'[s] = at[s] \/ at'[s] = None
    BY <1>0, <1>15
       DEF PruneNext, PruneConsider, PruneOpen, PruneTry, PruneRemove, PruneClose,
           fileVars, TypeOK
  <2>2. Inherits'
    BY <1>0, <2>1, InheritsKept DEF procVars
  <2>3. TokensGiven'
    BY <1>0, <2>1 DEF procVars, TokensGiven, Holds
  <2>4. WaitersNotNested'
    BY <1>0, <1>a, <2>1, WaitersKept DEF procVars
  <2> QED
    BY <2>2, <2>3, <2>4
<1>16. ASSUME UNCHANGED vars PROVE Rest
  <2>1. Inherits'
    BY <1>0, <1>16, InheritsKept DEF vars, procVars
  <2>2. TokensGiven'
    BY <1>0, <1>16 DEF vars, procVars, TokensGiven, Holds
  <2>3. WaitersNotNested'
    BY <1>0, <1>a, <1>16, WaitersKept DEF vars, fileVars, procVars
  <2> QED
    BY <2>1, <2>2, <2>3
<1>17. Rest
  <2> HIDE DEF Rest
  <2> QED
    BY <1>1, <1>2, <1>3, <1>4, <1>5, <1>6, <1>7, <1>8, <1>9, <1>10, <1>11,
       <1>12, <1>13, <1>14, <1>15, <1>16
       DEF Next, ProcNext, AcquireStep
<1> QED
  BY <1>0, <1>17 DEF ChainInv

\* With one cleanup, environments, tokens and waiters agree in every state
\* (lock.rs: acquire, held_by_ancestor, locked_env_value).
THEOREM ChainInvariant == ASSUME OneCleanup PROVE Spec => []ChainInv
<1>1. Init => ChainInv
  BY InitChainInv
<1>2. ChainInv /\ [Next]_vars => ChainInv'
  BY NextChainInv
<1> QED
  BY <1>1, <1>2, PTL DEF Spec

\* A hook has, for each command above it, the token of that command's lock.
\* It need not be an entry the hook was given: each entry of the command above
\* either came down unchanged or gave way to that of another command holding
\* the same instance, and there is only one.
LEMMA AncestorsTokens ==
    ASSUME LockInv, Inherits, NEW p \in Proc, NEW a \in Proc, Above(a, p)
    PROVE  Holds(a) /\ env[p][want[a]] = token[a]
<1> DEFINE Known(s) == \E z \in Proc : /\ Holds(z) /\ want[z] = s
                                       /\ env[p][s] = token[z]
           S == {x \in Proc :
                    /\ pc[x] = "hook"
                    /\ env[p][want[x]] = token[x]
                    /\ \A s \in Slug : env[p][s] = env[x][s] \/ Known(s)}
<1>1. ASSUME NEW y \in Proc, boss[p] = y PROVE y \in S
  <2>1. pc[y] = "hook" /\ env[p] = HookEnv(y) /\ want[y] \in Slug
        /\ env[y] \in [Slug -> Token]
    BY <1>1 DEF LockInv, Hooks, Inherits, TypeOK
  <2>2. env[p][want[y]] = token[y]
    BY <2>1 DEF HookEnv
  <2>3. ASSUME NEW s \in Slug PROVE env[p][s] = env[y][s] \/ Known(s)
    BY <2>1, <2>2 DEF HookEnv, Holds
  <2> QED
    BY <2>1, <2>2, <2>3
<1>2. ASSUME NEW x \in S, NEW y \in Proc, boss[x] = y PROVE y \in S
  <2>1. pc[y] = "hook" /\ env[x] = HookEnv(y) /\ want[y] \in Slug
        /\ env[y] \in [Slug -> Token]
    BY <1>2 DEF LockInv, Hooks, Inherits, TypeOK
  <2>2. env[p][want[y]] = token[y]
    <3>1. env[x][want[y]] = token[y]
      BY <2>1 DEF HookEnv
    <3>2. CASE env[p][want[y]] = env[x][want[y]]
      BY <3>1, <3>2
    <3>3. CASE Known(want[y])
      BY <2>1, <3>3, LockInvExcludes DEF MutualExclusion, Holds
    <3> QED
      BY <2>1, <3>2, <3>3
  <2>3. ASSUME NEW s \in Slug PROVE env[p][s] = env[y][s] \/ Known(s)
    <3>1. CASE s = want[y]
      BY <2>1, <2>2, <3>1 DEF Holds
    <3>2. CASE s # want[y]
      BY <2>1, <3>2 DEF HookEnv
    <3> QED
      BY <3>1, <3>2
  <2> QED
    BY <2>1, <2>2, <2>3
<1>3. \A x \in S \cup {p} : boss[x] \in S \cup {None}
  <2> HIDE DEF S
  <2> SUFFICES ASSUME NEW x \in S \cup {p} PROVE boss[x] \in S \cup {None}
    OBVIOUS
  <2>1. x \in Proc
    BY DEF S
  <2>2. boss[x] \in Proc \cup {None}
    BY <2>1 DEF LockInv, TypeOK
  <2> QED
    BY <1>1, <1>2, <2>2
<1>4. S \in SUBSET Proc
  OBVIOUS
<1>5. a \in S
  <2> HIDE DEF S
  <2> QED
    BY <1>3, <1>4 DEF Above
<1> QED
  BY <1>5 DEF Holds

\* With one cleanup, a command never waits for the lock of a command that
\* waits for it, through a chain of hooks of any length (lock.rs: the
\* NEWGIT_LOCKED tokens).
THEOREM NoAncestorWait == ASSUME OneCleanup PROVE Spec => []NeverWaitsForAncestor
<1>1. ChainInv => NeverWaitsForAncestor
  <2> SUFFICES ASSUME ChainInv, NEW p \in Proc, NEW a \in Proc,
                      pc[p] = "wait", Holds(a), want[a] = want[p], Above(a, p)
               PROVE  FALSE
    BY DEF NeverWaitsForAncestor
  <2>1. env[p][want[p]] = token[a] /\ token[a] # 0
    BY AncestorsTokens DEF ChainInv, TokensGiven
  <2>2. at[want[p]] = fd[a] /\ content[fd[a]] = token[a] /\ fd[a] # None
    BY DEF ChainInv, LockInv, OpenFiles, PathsStand, TokensStand, Holds, Past
  <2> QED
    BY <2>1, <2>2 DEF ChainInv, WaitersNotNested, HeldByAncestor
<1> QED
  BY <1>1, ChainInvariant, PTL

=============================================================================
