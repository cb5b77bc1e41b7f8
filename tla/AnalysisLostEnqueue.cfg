SPECIFICATION RetrySpec
CONSTANTS
  Runs = {r1}
  Keys = {k1}
  Requests = {q1}
  Execs = {e1}
  NoRun = NoRun
  NoKey = NoKey
  MaxCommit = 1
  HistoryLimit = 2
  Analyzable = {1}
  Simulate = {FALSE}
  Backend = "arq"
  MaxTries = 2
  Faults = {"request"}

PROPERTY
  ReplayResumesRun
