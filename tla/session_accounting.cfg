SPECIFICATION Spec
CONSTANTS
  Harnesses = {"claude", "codex", "cursor", "zcode", "devin", "muse", "hermes", "dsh"}
  MaxRuns = 3
  MaxCalls = 2
INVARIANTS CompleteIsOwn CountedOnce
CHECK_DEADLOCK FALSE
