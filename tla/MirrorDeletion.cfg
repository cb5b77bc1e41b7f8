SPECIFICATION FairSpec
CONSTANTS
  Syncers = {s1, s2}
  Deleters = {d1}
  Inodes = {i1, i2, i3, i4}
  None = None
  Faults = {"crash", "git"}
INVARIANTS
  LocksInv
PROPERTIES
  EveryThreadReturns
  ExclusiveUntilUnlinked
