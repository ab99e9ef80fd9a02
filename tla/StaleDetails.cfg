\* A documented rule the code departs from.
SPECIFICATION Spec
CONSTANTS
  r1 = r1
  r2 = r2
  open = open
  ready = ready
  Absent = Absent
  Records <- OneRecord
  Statuses <- TwoStatuses
  MaxMissing = 2
  MaxMoves = 3
  MaxFaults = 0
INVARIANTS
  StatusChangeIsRead
