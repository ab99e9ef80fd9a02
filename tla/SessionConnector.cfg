SPECIFICATION FairSpec
INVARIANTS
  LockCoversBrowser
  OneConnection
  UnclosedReaderIsShown
  ShutdownIsClean
PROPERTIES
  ImplementsProfile
  ReadyIsEarned
  VerifyEnds
  ShutdownEnds
