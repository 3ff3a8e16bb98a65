SPECIFICATION Spec
CONSTANTS
  IopDivider = 3
  QwCycles = 3
  FastCycles = 2
  SliceSizes = {1, 4}
  RamQw = 1
  Sources = {0}
  GifQwcs = {0, 1}
  VifQwcs = {0, 1}
  GifModes = {"normal"}
  VifModes = {"normal", "chain"}
  Chains <- Walkable
  Broken = Broken
  Edges = {}
  EdgePeriods = {3}
  EdgeStart = 3
  Cores = {}
  SpuCycles = {3}
  Sifs = {}
  SifQwcs = {1}
  EeBound = {}
INVARIANT ServicedBeforeGuest
PROPERTIES KeepsTimeline CompletedIsServiced
