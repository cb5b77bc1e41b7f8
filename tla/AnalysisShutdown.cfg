SPECIFICATION FairSpec
CONSTANTS
  Runs = {r1}
  Keys = {k1}
  Requests = {q1}
  Execs = {e1, e2}
  NoRun = NoRun
  NoKey = NoKey
  MaxCommit = 2
  HistoryLimit = 2
  Analyzable = {2}
  Simulate = {FALSE}
  Backend = "arq"
  MaxTries = 2
  Faults = {"crash", "detach", "exhaust"}
PROPERTY
  EveryRunSettles
