CONSTANTS
    Nil = Nil
    MaxGets = 2
    MaxWrites = 0
    MaxEvents = 0
SPECIFICATION HangSpec
PROPERTY TimeoutEndsWaiting
CHECK_DEADLOCK FALSE
