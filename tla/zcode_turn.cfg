SPECIFICATION FairSpec
CONSTANTS
  MaxEvents = 3
  Efforts = {"low", "high"}
INVARIANTS SuccessIsReal EffortIsRecorded
PROPERTY TurnEnds
