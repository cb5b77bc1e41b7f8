SPECIFICATION Spec
CONSTANTS
  Stems <- AllStems
  Dotted <- DottedStems
  Endings <- AllEndings
  Lower <- InLowerCase
  Files <- AllFiles
  FirstFiles <- TwoFiles
  Specifiers <- AllSpecifiers
  Symbols <- AllSymbols
  Exports <- AllExports
  Broken <- BrokenFiles
  Rank <- Alphabetical
  PageSize = 2
  MaxEdits = 3
  MaxSnapshots = 2
INVARIANTS
  GraphIsClosed
  ImportsAreAccountedFor
  WalkIsComplete
PROPERTY
  ImportsFollowTheTree
\* Edits and snapshots are bounded, and a tree that cannot be built is not published.
CHECK_DEADLOCK FALSE
