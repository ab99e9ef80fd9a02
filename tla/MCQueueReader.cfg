SPECIFICATION Spec
CONSTANTS
  a = a
  b = b
  c = c
  d = d
  e = e
  Records <- FiveRecords
  PageSize = 2
  MaxMoves = 3
SYMMETRY RecordSymmetry
INVARIANTS
  ExactWhenQuiet
  OnlyDeparturesHide
