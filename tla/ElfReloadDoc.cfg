SPECIFICATION Spec
CONSTANTS
  RamSize = 4
  Page = 2
  Kseg = 12
  Images <- MCImages
  Tlbs <- MCTlbs
INVARIANT FittingFilesLoad
