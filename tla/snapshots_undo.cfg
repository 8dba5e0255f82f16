\* Checkpoint and undo of one instance, racing a cleanup, with crashes.
CONSTANTS
    Slug = {x}
    Owned = {env}
    Deposit = {dumps}
    Content = {empty, a}
    Empty = empty
    Commands = {"spawn", "checkpoint", "undo", "drop", "cleanup"}
    Concurrent = {"checkpoint", "undo", "drop", "cleanup"}
    MaxRev = 2
    MaxId = 2
    MaxEdit = 1
    MaxCrash = 1
SPECIFICATION Spec
INVARIANTS  UndoExact
\* Behaviours end when the bounds are spent.
CHECK_DEADLOCK FALSE
