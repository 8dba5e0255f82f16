\* Commands and their hooks on two instances, and one cleanup; nothing is killed.
CONSTANTS
    None = None
    Proc = {p1, p2, p3}
    Pruner = {c1}
    Slug = {x, y}
    Inode = {i1, i2, i3}
    MaxToken = 3
    MaxDepth = 2
    MaxCrash = 0
SYMMETRY Symmetric
SPECIFICATION Spec
INVARIANTS HeldFileIsAtPath NeverWaitsForAncestor
PROPERTY ImplementsExclusiveLock
\* Behaviours end when the bound MaxToken is spent.
CHECK_DEADLOCK FALSE
