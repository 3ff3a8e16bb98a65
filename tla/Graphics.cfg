SPECIFICATION MCSpec
CONSTANTS
  Ram = 12
  Spr = 4
  MaxTags = 6
  MaxCalls = 2
  MaxPath = 10
  VuSize = 3
  Chains <- MCChains
  Streams <- MCStreams
  Menus <- MCMenus
INVARIANTS ChainExact OutputInOrder UploadSeen DrawnAsWritten ImageInOrder SharedEdges PixelsExact
CHECK_DEADLOCK FALSE
