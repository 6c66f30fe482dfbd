SPECIFICATION FairSpec
CONSTANTS
    MaxRetries = 1
    MaxTransient = 2
    MaxHold = 2
INVARIANTS
    FlagMeansFrame
    NeverForgotten
PROPERTIES
    DamageShown
    CallbacksAnswered
    IdleChainEnds
