SPECIFICATION Spec
CONSTANTS
  MaxWindows = 3
  MaxInstances = 2
  Apps = {"terminal", "editor"}
  OutputModes = {{"serial", "graphics"}}
  InputModes = {TRUE}
  MaxId = 3
  MaxDepth = 2
  MaxOff = 1
INVARIANTS OwnersRun FocusVisible DragHeld AlertIsModal PromptRestored CaptureLive
PROPERTY ModalHolds
