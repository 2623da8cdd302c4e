SPECIFICATION Spec
CONSTANTS
  Null = Null
  Nothing = Nothing
  Absent = Absent
  Unserved = Unserved
  Blank = Blank
  DiffMatrixLimit = 4
  lineA = lineA
  lineB = lineB
  MaxRuns = 2
  MaxErrors = 1
  MaxActs = 1
  Outcomes <- OutcomesSmall
  Outages <- OutagesSmall
  Outputs <- OutputsSmall
INVARIANTS
  GreenIsEarned
  PanelsAgreeOnGreen
  ViewsBelongToTheRun
  HistoryInOrder
  DiffIsFaithful
  AnswersAreReadable
  TrustCasesAreConsistent
  ExplainedOnlyFromEvidence
PROPERTIES
  PollingEnds
CHECK_DEADLOCK FALSE
