SPECIFICATION Spec
CONSTANTS
  Cases <- MCCases
  MaxFailures = 2
  Days <- MCDays
  SampleCap = 2
INVARIANTS
  VerdictIsTrue
  BlameIsDeserved
  PraiseIsEarned
  LeadIsAnOperator
  PacksAgree
