SPECIFICATION Spec
CONSTANTS
    win = win
    dialog = dialog
    Client = {win, dialog}
    NoClient = NoClient
    Ws = {w1, w2, w3}
    NoWs = NoWs
    NMon = 2
    Game = {win}
    App <- OwnApps
    Parent <- Dialog
    MaxJump = 2
SYMMETRY WsSymmetric
INVARIANTS
    NoDangling
    RowsAgree
    EveryWindowPlaced
    NumberedInOrder
PROPERTIES
    ViewIsTheUsers
    NavigationFocusesVisible
    FullscreenKept
    ImplementsPlacement
