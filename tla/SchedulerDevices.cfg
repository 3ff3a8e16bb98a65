SPECIFICATION Spec
CONSTANTS
  IopDivider = 2
  QwCycles = 2
  FastCycles = 2
  SliceSizes = {3}
  RamQw = 1
  Sources = {0}
  GifQwcs = {0}
  VifQwcs = {0}
  GifModes = {}
  VifModes = {"chain"}
  Chains <- OneChain
  Broken = Broken
  Edges = {hblank}
  EdgePeriods = {3, 5}
  EdgeStart = 3
  Cores = {core}
  SpuCycles = {3}
  Sifs = {sif}
  SifQwcs = {1}
  EeBound = {sif}
INVARIANTS BudgetsSound
PROPERTIES KeepsTimeline
