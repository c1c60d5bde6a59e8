SPECIFICATION Spec
CONSTANTS
  Trees <- MCTrees
  Containers <- MCContainers
  Layouts <- MCLayouts
  Rows <- MCRows
  GridColumns = {0, 2, 3}
  FrameID = "main"
  MaxBlocks = 3
INVARIANTS
  LayoutRowKept
CHECK_DEADLOCK FALSE
