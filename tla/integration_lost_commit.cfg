CONSTANTS
  Tasks = {t1}
  Person = Person
  NoTask = NoTask
  Branches = {b1}
  First = b1
  Detached = Detached
  Conflicts = TRUE
  MaxMain = 1
  MaxWork = 1
  MaxCrashes = 0
SPECIFICATION Spec
INVARIANTS
  CleanupKeepsCommits
