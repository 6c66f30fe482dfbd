SPECIFICATION Spec
CONSTANTS
    a = a
    b = b
    pa = pa
    pb = pb
    pc = pc
    Client = {a, b}
    NoClient = NoClient
    Proc = {pa, pb}
    NoPid = NoPid
    Game = {a}
    MaxPids = 2
    PidOf <- OwnProcess
CHECK_DEADLOCK FALSE
INVARIANTS
    AllNoted
    RestLeavesNothing
    QuitLeavesNothing
    OrdersCarriedOut
PROPERTIES
    SystemComesBack
    EndsWithTheWindows
