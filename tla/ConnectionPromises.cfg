SPECIFICATION FairSpec
CONSTANTS
  Admins = {a1, a2}
  Threads = {t1}
  Backend = "arq"
  MaxPuts = 3
  MaxRevocations = 2
  Faults = {}
\* None of them holds: leave one at a time to see its counterexample.
INVARIANTS
  RevokedIsErased
PROPERTIES
  RevokedNeverFetches
  QuietRevocationDeletesMirror
