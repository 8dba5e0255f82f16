--------------------------- MODULE MCInstanceLock ---------------------------
(* Small instances of InstanceLock for TLC. *)
EXTENDS InstanceLock, TLC

Symmetric == Permutations(Proc) \cup Permutations(Inode)
=============================================================================
