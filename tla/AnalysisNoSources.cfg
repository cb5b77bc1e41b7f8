SPECIFICATION Spec
CONSTANTS
  Runs = {r1, r2}
  Keys = {k1, k2}
  Requests = {q1}
  Execs = {e1}
  NoRun = NoRun
  NoKey = NoKey
  MaxCommit = 1
  HistoryLimit = 2
  Analyzable = {}
  Simulate = {FALSE}
  Backend = "arq"
  MaxTries = 2
  Faults = {}

INVARIANT
  UndisturbedRunSucceeds
