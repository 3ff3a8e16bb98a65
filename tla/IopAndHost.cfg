SPECIFICATION Spec
CONSTANTS
  UserSize = 6
  Programs <- MCPrograms
  IopRegs = {1, 2}
  Values = {0, 1, 2}
  Alu <- MCAlu
  Merge <- MCMerge
  LastLoaded = 1
  Sources = {"timer"}
  Modes = {"ntsc", "pal"}
  Cycles <- MCCycles
  Rest <- MCRest
  Divisor <- MCDivisor
  MaxAdvance = 3
  Horizon = 40
  Modulus = 4
  PerIop = 2
  EeModes <- MCEeModes
  IopModes <- MCIopModes
  Fifo = 3
  CdvdBytes = {0, 1}
  MaxSent = 4
  Bits = {1, 2}
  Packages <- MCPackages
  Addresses = {0, 1, 2, 4, 6}
  Align = 2
  FunctionBudgets = {0, 2}
  Costs = {1, 2}
  Clock = 5
  FrameBudgets <- MCFrameBudgets
  Interval = 4
  MaxCycles = 7
  CycleCap = 7
  RamSize = 4
  Page = 2
  Kseg = 12
  Images <- MCImages
  Tlbs <- MCTlbs
  Blocks = 3
  Samples = 2
  One = 2
  Pitches = {0, 1, 5}
  Full = 7
  Knee = 5
  Settings <- MCSettings
  SoundMemories <- MCMemories
  MaxPath = 4
  MaxOwed = 8
  Byte = 1
  EeRegs = {1, 2}
  Words <- MCWords
  EeMemories <- MCBytes
  Immediates <- MCImmediates
  Shifts = {0, 3, 4}
  MaxSteps = 2
INVARIANTS TimersExact CommandResults SignalsKept DispatchExact FramesKept LoadExact VoiceExact IntegersExact
PROPERTY KeepsProgram
CHECK_DEADLOCK FALSE
