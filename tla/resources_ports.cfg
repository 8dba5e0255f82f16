CONSTANTS
    deps = deps
    db = db
    web = web
    Slug = {s1, s2}
    Definitions <- MCPair
    Trackers = {}
    Brought = {db, web}
    Port = {p1, p2}
    NoPort = NoPort
    Command = {"spawn", "use", "drop", "remove"}
    WhileParked = FALSE
    MaxCommand = 4
    MaxKill = 1
    MaxFault = 0
SPECIFICATION FairSpec
CHECK_DEADLOCK FALSE
INVARIANTS
    PortsDisjoint
PROPERTIES
    CommandsEnd
