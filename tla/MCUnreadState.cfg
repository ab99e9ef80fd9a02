SPECIFICATION Spec
CONSTANTS
  alice = alice
  bob = bob
  t1 = t1
  t2 = t2
  Users <- TwoUsers
  Tabs <- TwoTabs
  MaxNotifs = 2
  Nobody = Nobody
SYMMETRY OfficeSymmetry
INVARIANTS
  DeliveredMeansRead
  ReadMeansShown
PROPERTY
  ImplementsInbox
