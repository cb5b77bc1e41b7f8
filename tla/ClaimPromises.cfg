SPECIFICATION ParsingSpec
CONSTANTS
  MaxClaims = 3
  MaxLength = 5
\* None of them holds: leave one at a time to see its counterexample.
INVARIANTS
  SpansAreSource
  ClaimsParseAgain
\* A text of the longest length does not grow.
CHECK_DEADLOCK FALSE
