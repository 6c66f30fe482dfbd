SPECIFICATION OutputSpec
CONSTANTS
    Client = {a}
    NoClient = NoClient
    Ws = {w1, w2, w3}
    NoWs = NoWs
    NMon = 2
    Game = {}
    App <- OwnApps
    Parent <- NoParents
    MaxJump = 0
SYMMETRY Symmetric
INVARIANTS
    OnPresentMonitor
PROPERTIES
    NobodyInTheDark
    WindowsComeHome
    
CHECK_DEADLOCK FALSE
