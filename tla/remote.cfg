\* Two instances and the project root of one machine, and another machine, on a
\* project and its remote; workers die, commands are killed.
CONSTANTS
    Instance = {"i", "j"}
    ProjectRoot = {"r"}
    Mirror = {"h"}
    Host <- MCHost
    Home = "m"
    Fresh = {"j"}
    Edits <- MCEdits
    Linked = {TRUE, FALSE}
    MaxCommit = 6
    MaxCommand = 2
    MaxKill <- MCKill
    MaxDeath = 1
    MaxUpdate = 1
    LocalAtOnce = 1
    Updates = {"a"}
    Sideways = TRUE
SPECIFICATION Spec
INVARIANTS
    NothingLost
    NamedIsThere
    NothingOutsideGitLeaves
    
\* Behaviours end when the bounds are spent.
CHECK_DEADLOCK FALSE
