\* Two instances sharing one lane; a cleanup has the project to itself.
CONSTANTS
    Slug = {x, y}
    Owned = {env}
    Deposit = {}
    Content = {empty, a}
    Empty = empty
    Commands = {"spawn", "checkpoint", "remove", "merge", "cleanup"}
    Concurrent = {}
    MaxRev = 2
    MaxId = 1
    MaxEdit = 1
    MaxCrash = 0
SPECIFICATION Spec
SYMMETRY Symmetric
INVARIANT BoundRevsResolve
PROPERTY CleanupReclaims
\* Behaviours end when the bounds are spent.
CHECK_DEADLOCK FALSE
