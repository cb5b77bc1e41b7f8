SPECIFICATION Spec
CONSTANTS
  Runs = {r1, r2}
  Keys = {k1, k2}
  Requests = {q1}
  Execs = {e1, e2}
  NoRun = NoRun
  NoKey = NoKey
  MaxCommit = 2
  HistoryLimit = 2
  Analyzable = {1, 2}
  Simulate = {FALSE}
  Backend = "arq"
  MaxTries = 2
  Faults = {}

INVARIANT
  EvidenceIsOfThePinnedCommit
