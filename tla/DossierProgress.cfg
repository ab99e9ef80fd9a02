\* Polls end; and what they bring about if the portal serves them.
SPECIFICATION TimelySpec
CONSTANTS
  r1 = r1
  r2 = r2
  open = open
  ready = ready
  Absent = Absent
  Records <- OneRecord
  Statuses <- TwoStatuses
  MaxMissing = 2
  MaxMoves = 2
  MaxFaults = 1
PROPERTIES
  PollEnds
  AbsentIsRetired
  DetailsArrive
