SPECIFICATION DragTileSpec
CONSTANTS
    win = win
    dialog = dialog
    Client = {a, b, c}
    NoClient = NoClient
    Ws = {w1, w2, w3}
    NoWs = NoWs
    NMon = 1
    Game = {}
    App <- OneApp
    Parent <- NoParents
    MaxJump = 1
SYMMETRY Symmetric
INVARIANTS
    GrabMapped
PROPERTIES
    OthersStay
    RowOrderKept
    CloseTidies
