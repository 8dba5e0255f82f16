\* Two instances of one project and its install store, with cleanups and kills.
CONSTANTS
    Instance = {i, j}
    Lock = {1, 2}
    Tracker = {"w"}
    Sparse = {"w"}
    Told = FALSE
    Produces <- MCProduces
    RenderAt = "build"
    Bakes <- MCBakes
    RemovesAtOnce = TRUE
    SweepsLive = FALSE
    EditsLive = FALSE
    MaxCommand = 3
    MaxEvent = 1
SYMMETRY Workspaces
SPECIFICATION Spec
INVARIANTS
    EntriesComplete
    NoForeignPath
    ReadyFits
PROPERTIES
    PrunesExactly
\* Behaviours end when the bounds are spent.
CHECK_DEADLOCK FALSE
