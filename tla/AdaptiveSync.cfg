SPECIFICATION SyncSpec
CONSTANTS
    eDP = eDP
    TV = TV
    title = title
    film = film
    Mon = {eDP, TV}
    Rich = {eDP}
    Game = {title}
    Film = {film}
    Console = {}
    Nothing = Nothing
    MaxTries = 2
CHECK_DEADLOCK FALSE
INVARIANTS
    SyncOwned
PROPERTIES
    PendingSettles
