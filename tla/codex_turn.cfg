SPECIFICATION FairSpec
CONSTANTS
  MaxEvents = 2
  MaxOld = 1
  Asks = FALSE
INVARIANTS SuccessIsReal AnswerIsReported PromptIsConfined UsageIsOwnTurn
PROPERTY TurnEnds
