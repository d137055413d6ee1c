SPECIFICATION Spec
CONSTANTS
  Cases <- MCAccountability
  MaxFailures = 1
  Days <- MCDays
  SampleCap = 2
INVARIANTS
  GapIsMissing
