SPECIFICATION Spec
CONSTANTS
    Size = {1, 2, 3}
    MaxTries = 2
    MaxChanges = 3
PROPERTIES
    ComesToRest
    FillableIsFilled
