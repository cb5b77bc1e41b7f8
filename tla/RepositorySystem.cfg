SPECIFICATION SystemSpec
CONSTANTS
  Admins = {a1, a2}
  Threads = {t1}
  Backend = "arq"
  MaxPuts = 3
  MaxRevocations = 3
  Faults = {"request", "provider", "disk"}
  plain = plain
  capital = capital
  other = other
  Clients = {c1, c2, c3}
  Keys = {k1, k2}
  Bodies = {plain, capital, other}
  Source <- SourceOf
  Repositories = {r1, r2}
  Subject = r1
  NoRepository = NoRepository
INVARIANTS
  ConnectedHasEnvelope
  SourcesAreUnique
PROPERTIES
  SequentialRevocationErases
  ImplementsIdempotentCreate
\* A request slot registers once.
CHECK_DEADLOCK FALSE
