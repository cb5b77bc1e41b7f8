SPECIFICATION FairSpec
CONSTANTS
  MaxRepositories = 2
  MaxRuns = 2
  MaxInFlight = 2
  Failing = {"poll"}
\* None of them holds: leave one at a time to see its counterexample.
INVARIANTS
  LedgerNeverMixes
PROPERTIES
  EveryShownRunIsFollowed
  TerminalStaysTerminal
  ArchitectureIsShown
\* Every repository and run the bounds allow may exist, and all of them be shown.
CHECK_DEADLOCK FALSE
