CONSTANTS
    deps = deps
    db = db
    web = web
    Slug = {s1}
    Definitions <- MCDefinitions
    Trackers = {}
    Brought = {db, web}
    Port = {p1, p2}
    NoPort = NoPort
    Command = {"spawn", "use", "drop", "rebind", "stop", "start", "remove", "prepare", "run", "halt"}
    WhileParked = FALSE
    MaxCommand = 6
    MaxKill = 1
    MaxFault = 1
SPECIFICATION Spec
CHECK_DEADLOCK FALSE
INVARIANTS
    GraphSound
    
    ProcessKeepsPort
    NothingForgotten
    TornDown
PROPERTIES
    DependenciesFirst
SYMMETRY Ports
