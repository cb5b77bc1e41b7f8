SPECIFICATION Spec
CONSTANTS
  Runs = {r1, r2}
  Keys = {k1, k2}
  Requests = {q1, q2}
  Execs = {e1}
  NoRun = NoRun
  NoKey = NoKey
  MaxCommit = 3
  HistoryLimit = 2
  Analyzable = {1, 2, 3}
  Simulate = {TRUE, FALSE}
  Backend = "inline"
  MaxTries = 1
  Faults = {"request"}
SYMMETRY FullSymmetry
INVARIANTS
  UndisturbedRunSucceeds
  EvidenceIsOfThePinnedCommit
PROPERTY
  ImplementsIdempotentCreate
