CONSTANTS
  Tasks = {t1, t2}
  Person = Person
  NoTask = NoTask
  Branches = {b1}
  First = b1
  Detached = Detached
  Conflicts = FALSE
  MaxMain = 1
  MaxWork = 2
  MaxCrashes = 0
SPECIFICATION Spec
SYMMETRY Symmetry
INVARIANTS
  RebasesOwnCommits
PROPERTIES
  MainlineSpec
