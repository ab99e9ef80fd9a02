\* Safety of one poll after another, with every failure.
SPECIFICATION Spec
CONSTANTS
  r1 = r1
  r2 = r2
  open = open
  ready = ready
  Absent = Absent
  Records <- AllRecords
  Statuses <- OneStatus
  MaxMissing = 2
  MaxMoves = 3
  MaxFaults = 1
SYMMETRY RecordSymmetry
INVARIANTS
  AbsenceCountIsTrue
  CompleteMeansRead
  NoDetailForgotten
PROPERTIES
  DatesLostAreOwed
  ImplementsLifecycle
