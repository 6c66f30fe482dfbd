SPECIFICATION CompactSpec
CONSTANTS
    Client = {a, b, c, d, e}
    NoClient = NoClient
    Ws = {w1, w2, w3, w4, w5}
    NoWs = NoWs
    NMon = 1
    Game = {}
    App <- OwnApps
    Parent <- NoParents
    MaxJump = 0
INVARIANTS
    LoopsMeanCompact
PROPERTIES
    EndsTidy
CHECK_DEADLOCK FALSE
