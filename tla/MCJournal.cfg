SPECIFICATION Spec
CONSTANTS
    c1 = c1
    c2 = c2
    k1 = k1
    k2 = k2
    Step = Step
    NoKey = NoKey
    None = None
    Commands <- MCCommands
    KeyOf <- MCKeyOf
    LogCap = 2
    Writers = {"autosave"}
    Consumed = FALSE
    SavedBefore = TRUE
    Environments <- MCEnvironments
    MaxSteps = 1
    MaxRepeats = 2
    MaxCrashes = 2
    MaxSaves = 2
INVARIANT
    TypeOK
PROPERTIES
    ImplementsDurableLog
    RequestsAnswered
CHECK_DEADLOCK FALSE
