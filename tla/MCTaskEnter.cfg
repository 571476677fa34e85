SPECIFICATION FairSpec
CONSTANTS
  TASK_MAX = 2
  Steps = 1
PROPERTY UserIsEntered
