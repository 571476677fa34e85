SPECIFICATION Spec
CONSTANTS
  TASK_MAX = 2
  Steps = 1
INVARIANT SelectedHasFrame
