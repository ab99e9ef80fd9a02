SPECIFICATION FairSpec
CONSTANTS
  u1 = u1
  u2 = u2
  Ana = Ana
  ana = ana
  bob = bob
  r1 = r1
  r2 = r2
  s1 = s1
  s2 = s2
  Nobody = Nobody
  NoRow = NoRow
  Ids <- TwoIds
  Spellings <- ThreeSpellings
  Fold <- Folded
  Requests <- TwoRequests
  Secrets <- TwoSecrets
  Given = s1
INVARIANTS
  AdminRemains
  ResetHolds
PROPERTIES
  DisabledGoesQuiet
