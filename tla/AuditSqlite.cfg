SPECIFICATION Spec
CONSTANTS
  Reports = {k1}
  Requests = {q1, q2}
  None = None
  Claims <- AllClaims
  Bodies <- ThreeBodies
  Unparsable <- NoClaim
  ClaimType <- TypeOf
  ClaimTerms <- TermsOf
  Paths <- TwoPaths
  PathTerms <- TermsOfPath
  LastSegment <- NoColon
  MaxCommits = 2
  Touched <- TouchedBy
  Message <- MessageOf
  Scope = {1, 2}
  EvidenceLimit = 2
  ForeignKeys = FALSE
SYMMETRY RequestSymmetry
INVARIANT
  NoOrphans
\* The keys are used up, the reports deleted: a replay only reads.
CHECK_DEADLOCK FALSE
