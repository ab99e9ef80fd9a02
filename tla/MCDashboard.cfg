SPECIFICATION Spec
CONSTANTS
  d1 = d1
  d2 = d2
  ann = ann
  bob = bob
  Records <- TwoRecords
  Users <- TwoUsers
  WorkStatuses = {"TO_DO", "DONE"}
  ToDo = "TO_DO"
  NoWork = "none"
  AnyStatus = "any"
  MaxPolls = 3
  MaxDate = 2
SYMMETRY Symmetry
INVARIANTS
  NewUntilOpened
  RowsKeepTheirPromise
  OrderIsAsPromised
  CountsAgree
