CONSTANTS
  Runs = {r1, r2}
  Legacy = {r1}
  Declared = {{"report"}, {"svg", "png"}}
  Migrators = {m1}
  MaxEdits = 1
  MaxKills = 1
  Deletes = TRUE
SPECIFICATION Spec
CHECK_DEADLOCK FALSE
INVARIANTS
  ManifestIsSnapshot
  SuccessDelivered
  ArchiveAgrees
  RecordsAreRegistered
  OriginalsKept
