\* Two readers of three small projects, carved, imported, exported and pulled.
CONSTANTS
    Alphabet <- MCAlphabet
    Audiences <- MCAudiences
    Reader <- MCReader
    Home = "home"
    Sees <- MCSees
    Layouts <- MCLayouts
    Edited <- MCEdited
    Removed <- MCRemoved
    Redefinitions <- MCRedefinitions
    Carves <- MCCarves
    Imports <- MCImports
    Targets <- MCTargets
    WritesUnseen = FALSE
    MaxStep = 3
SPECIFICATION Spec
INVARIANTS
    GivenBack
    AlwaysComposes
    SplitAsOwned
    PinsGoForward
    ShownToReaders
    SameDefinitions
\* Behaviours end when the bound MaxStep is spent.
CHECK_DEADLOCK FALSE
