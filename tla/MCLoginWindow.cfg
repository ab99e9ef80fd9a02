SPECIFICATION FairSpec
CONSTANTS
  first = first
  extra = extra
  Tabs <- TwoTabs
  First = first
  None = None
  Torn = Torn
  MaxLogins = 3
  MaxFaults = 2
INVARIANTS
  OldOrNew
  SavedIsOneLogin
PROPERTIES
  ClosedWindowEnds
  LoginIsNoticed
