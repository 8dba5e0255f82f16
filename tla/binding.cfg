\* Trackers of two roles that require one another, in every sensible project.
CONSTANTS
    a = a
    b = b
    c = c
    r = r
    q = q
    Listed <- MCListed
    Role = {r, q}
    None = None
    Projects <- MCProjects
    MaxCommand = 3
    MaxKill = 1
SPECIFICATION Spec
INVARIANTS
    
    SpawnAsAsked
PROPERTIES
    KeepsOnePerRole
    WorkKept
\* Behaviours end when the bounds are spent.
CHECK_DEADLOCK FALSE
