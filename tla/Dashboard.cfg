SPECIFICATION FairSpec
CONSTANTS
  MaxRepositories = 2
  MaxRuns = 2
  MaxInFlight = 2
  Failing = {"poll"}
INVARIANT
  LedgerIsOfSelection
PROPERTIES
  LatestRunIsFollowed
  PublishedIsShown
  LedgerSettles
\* Every repository and run the bounds allow may exist, and all of them be shown.
CHECK_DEADLOCK FALSE
