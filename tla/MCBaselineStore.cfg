SPECIFICATION Spec
CONSTANTS
  a = a
  b = b
  c = c
  Images <- MCImages
  Comparable <- MCComparable
  Server = server
  Clis = {cli}
  MayCrash = TRUE
  MaxApprovals = 3
  NoImage = NoImage
  Torn = Torn
  Garbled = Garbled
SYMMETRY ImageSymmetry
INVARIANTS
  RecordedBaselineCanBeLoaded
  FilesInStep
PROPERTIES
  OnlyApprovedCapturesGo
