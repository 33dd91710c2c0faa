CONSTANTS
  Tasks = {t1}
  Person = Person
  NoTask = NoTask
  Branches = {b1}
  First = b1
  Detached = Detached
  Conflicts = TRUE
  MaxMain = 2
  MaxWork = 2
  MaxCrashes = 1
SPECIFICATION FairSpec
INVARIANTS
  CommitsKept
PROPERTIES
  OnlyFastForwards
  OnlyStoppedRebaseLoses
  IntegrationEnds
