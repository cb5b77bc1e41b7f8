SPECIFICATION Spec
CONSTANTS
  Reports = {k1}
  Requests = {q1}
  None = None
  Claims <- AllClaims
  Bodies <- ThreeBodies
  Unparsable = {}
  ClaimType <- TypeOf
  ClaimTerms <- MessageTermsOf
  Paths <- TwoPaths
  PathTerms <- TermsOfPath
  LastSegment <- Colon
  MaxCommits = 2
  Touched <- TouchedBy
  Message <- MessageOf
  Scope = {1, 2}
  EvidenceLimit = 2
  ForeignKeys = TRUE
\* None of them holds, even if every claim parses again: leave one at a time to see its
\* counterexample.
INVARIANTS
  UnreportedIsNotCited
  ObservedCommitsExist
  VerifiedHasMatchingDiff
PROPERTIES
  AssessmentSucceeds
\* The keys are used up, the reports deleted: a replay only reads.
CHECK_DEADLOCK FALSE
