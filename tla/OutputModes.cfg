SPECIFICATION ModesSpec
CONSTANTS
    eDP = eDP
    TV = TV
    title = title
    other = other
    Mon = {eDP, TV}
    Rich = {eDP}
    Game = {title}
    Film = {other}
    Console = {other}
    Nothing = Nothing
CHECK_DEADLOCK FALSE
INVARIANTS
    ModeOwned
PROPERTIES
    ExitReleases
