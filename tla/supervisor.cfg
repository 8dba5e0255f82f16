\* A resource started, stopped and crashing; sweeps between commands.
CONSTANTS
    Pid = {g1, g2}
    Racing = FALSE
    MaxStart = 3
    MaxReuse = 1
    MaxAbandon = 1
    MaxSweep = 2
SPECIFICATION Spec
INVARIANTS NothingUntracked AskedStopIsNoCrash CrashIsNotHidden
\* Behaviours end when the bounds are spent.
CHECK_DEADLOCK FALSE
