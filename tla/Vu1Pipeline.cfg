SPECIFICATION Spec
CONSTANTS
  Vf = {"f1", "f2"}
  Vi = {"i1", "i2"}
  PcSize = 2
  QSize = 3
  Menus <- MCMenus
  Shapes <- MCShapes
  MaxTags = 2
INVARIANTS ResultsInTime BranchOperand PacketsAsStored ControlFlow
CHECK_DEADLOCK FALSE
