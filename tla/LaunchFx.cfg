SPECIFICATION FxSpec
CONSTANTS
    r1 = r1
    r2 = r2
    title = title
    Reaper = {r1, r2}
    NoReaper = NoReaper
    Launched = {title}
    MaxSeen = 2
CHECK_DEADLOCK FALSE
INVARIANTS
    EndsClean
PROPERTIES
    PresentedIsRevealed
    AbortedEnds
    TriggersOnce
