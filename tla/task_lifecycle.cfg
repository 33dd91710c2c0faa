CONSTANTS
  Procs = {p1, p2}
  Tasks = {t1}
  NoProc = NoProc
  NoTask = NoTask
  Commands = {"create", "run", "resume", "exec", "inplace", "checkpoint", "integrate_remove", "cleanup"}
  Detached = FALSE
  MaxTrees = 2
  MaxCrashes = 1
SPECIFICATION FairSpec
INVARIANTS
  LockedReadHolds
  MetadataSound
  Resumable
PROPERTIES
  OwnershipSpec
  CommandsEnd
