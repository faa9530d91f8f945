SPECIFICATION Spec
CONSTANTS
  Second = 2
  Lengths <- MCLengths
  Adjustments <- MCAdjustments
  EnableLength = 3
  StartTime = 1
  MaxTime = 10
  MaxLength = 10
INVARIANTS
  TypeOK
  Coherent
PROPERTY
  ImplementsCountdown
