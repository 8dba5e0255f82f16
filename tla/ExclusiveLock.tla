---------------------------- MODULE ExclusiveLock ----------------------------
(***************************************************************************)
(* What `crate::lock` promises (src/crates/newgit-core/src/lock.rs): "a    *)
(* command holds its instance's lock for as long as it runs, and a second  *)
(* command on the same instance waits".  One abstract lock per instance;   *)
(* the module InstanceLock is shown to implement it.                       *)
(***************************************************************************)
CONSTANTS Proc,   \* newgit commands (processes)
          Slug    \* branch instances, by slug

VARIABLE holders  \* holders[s]: the commands running under s's lock

Init == holders = [s \in Slug |-> {}]

Acquire(p, s) ==
    /\ holders[s] = {}
    /\ holders' = [holders EXCEPT ![s] = {p}]

Release(p, s) ==
    /\ holders[s] = {p}
    /\ holders' = [holders EXCEPT ![s] = {}]

Next == \E p \in Proc, s \in Slug : Acquire(p, s) \/ Release(p, s)

Spec == Init /\ [][Next]_holders
==============================================================================
