CONSTANTS
    Nil = Nil
    MaxGets = 2
    MaxWrites = 1
    MaxEvents = 1
SPECIFICATION FairSpec
INVARIANTS TypeOK SessionReads FreshAnswer AnsweredOnce AssertionsHold
PROPERTY GetsAnswered
CHECK_DEADLOCK FALSE
