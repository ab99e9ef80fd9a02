SPECIFICATION WorkSpec
CONSTANTS
  e1 = e1
  e2 = e2
  e3 = e3
  todo = todo
  done = done
  Employees <- ThreeEmployees
  Statuses <- TwoStatuses
  MaxWrites = 4
SYMMETRY DeskSymmetry
INVARIANTS
  RefusedMeansStale
  SerialUpdatesSeeAll
