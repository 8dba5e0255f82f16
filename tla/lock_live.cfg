\* Two commands and a cleanup on one instance, under fairness, with a crash.
CONSTANTS
    None = None
    Proc = {p1, p2}
    Pruner = {c1}
    Slug = {x}
    Inode = {i1, i2}
    MaxToken = 3
    MaxDepth = 1
    MaxCrash = 1
SPECIFICATION FairSpec
INVARIANT MutualExclusion
PROPERTY WaiterServed
\* Behaviours end when the bound MaxToken is spent.
CHECK_DEADLOCK FALSE
