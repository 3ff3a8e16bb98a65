SPECIFICATION ControlSpec
CONSTANTS
  Kind <- MCKind
  Target <- MCTarget
  UserSize = 14
  IntVec = 14
  ExcVec = 18
  Sources = {timer, sbus}
  MaxFills = 2
  timer = timer
  sbus = sbus
  RamPages = 2
  OtherPages = {scratch}
  Nowhere = Nowhere
  Pages <- Two
  Mapped <- OneMapped
  Reset <- EmptyTlb
  Pcs <- Blocks
  PageOf <- BlockPage
  SlotOf <- BlockSlot
  Codes = {old, new}
  Zeroed = old
  Widths = {1, 4}
  Xor <- XorBits
  MaxGen = 6
  MaxMap = 3
INVARIANT EventsStayVisible
PROPERTIES Answered HandlersReturn KeepsFlow
