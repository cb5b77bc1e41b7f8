SPECIFICATION Spec
CONSTANTS
  Requests = {q1, q2}
  Answers = {a1}
  Users = {u1}
  None = None
  MaxCommits = 2
  Paths <- TwoPaths
  Touched <- TouchedBy
  Churn <- ChurnOf
  Modules <- ModulesAt
  Questions <- TwoQuestions
  Recent <- RecentOnes
  QuestionTerms <- TermsOfQuestion
  Terms <- TermsOf
  Limit = 2
  CommitLimit = 1
  Model = TRUE
  Payloads <- TwoPayloads
  ForeignKeys = TRUE
INVARIANTS
  RiskAnswersAgree
  CitationsResolve
  FeedbackHasAnswer
PROPERTY
  SequentialFeedbackIsWhole
\* Commits and answers are used up, and a request waits for nothing.
CHECK_DEADLOCK FALSE
