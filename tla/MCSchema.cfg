SPECIFICATION FairSpec
CONSTANTS
  Procs = {p1, p2, p3}
  p1 = p1
  p2 = p2
  p3 = p3
  c1 = c1
  c2 = c2
  Versions = {1, 2}
  Checksums = {c1, c2}
  Bundles <- MCBundles
  NoChecksum = NoChecksum
  NoProc = NoProc
  MaxLosses = 1
INVARIANTS
  TypeOK
  HistoryDescribesSchema
  DecidesOnCurrentHistory
  ReadyStaysReady
PROPERTIES
  ImplementsAtomic
  EveryProcessEnds
CHECK_DEADLOCK FALSE
