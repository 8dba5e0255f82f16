\* Tracker commands on one instance; spawn, remove and merge race a cleanup.
CONSTANTS
    Slug = {x}
    Owned = {env}
    Deposit = {}
    Content = {empty, a}
    Empty = empty
    Commands = {"spawn", "checkpoint", "capture", "checkout", "pull", "drop", "use", "seed", "remove", "merge", "cleanup"}
    Concurrent = {"spawn", "remove", "merge"}
    MaxRev = 2
    MaxId = 1
    MaxEdit = 1
    MaxCrash = 0
SPECIFICATION Spec
INVARIANT NoBrokenUndo
PROPERTY CleanupKeepsRespawned
\* Behaviours end when the bounds are spent.
CHECK_DEADLOCK FALSE
