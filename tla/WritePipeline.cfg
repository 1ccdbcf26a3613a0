CONSTANTS
    Users = {u1, u2}
    Nil = Nil
    Refused = {1}
    kMaxPendingWrites = 2
    MaxWrites = 3
    MaxChanges = 1
    MaxBreaks = 1
    MaxKills = 1
SPECIFICATION FairSpec
INVARIANTS TypeOK PipelineIsHeadOfQueue RepliesMatchPipeline AssertionsHold OwnCredentials
           CallbacksMatchQueue AnswersTruthful LastWriteWins
PROPERTIES AnsweredNotReapplied ImplementsWriteQueue
CHECK_DEADLOCK FALSE
