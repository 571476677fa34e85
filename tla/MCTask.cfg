SPECIFICATION FairSpec
CONSTANTS
  TASK_MAX = 2
  Steps = 2
INVARIANTS
  ContextIntegrity
  ReadyIsResumable
  LostOnlyInCreate
  LockNeverContended
  UserRunsAlone
PROPERTIES
  WaitEnds
  ReadyRuns
