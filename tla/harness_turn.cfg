SPECIFICATION FairSpec
CONSTANTS
  Harnesses = {"claude", "grok", "cursor", "devin", "muse", "opencode", "agy", "hermes", "dsh"}
  MaxLines = 3
  MaxWaits = 2
INVARIANTS SuccessIsReal AnswerIsNew AnswerIsReported  NothingLeftRunning
PROPERTY TurnEnds
