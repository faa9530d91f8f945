\* The whole life of matches with every command, on one map, without scores.
SPECIFICATION Spec
CONSTANTS
  Second = 1
  RoundTimes = {0, 1, 3}
  TimeLimits = {0, 2, 3}
  RoundCounts = {0, 1, 2}
  SetTimes <- MCSetTimes
  Adjustments <- MCAdjustments
  MinRoundTime = 2
  MaxRoundTime = 9
  RoundDelay = 1
  SkipDelay = 2
  ChatTime = 1
  MatchTail = 1
  ChangeDelay = 1
  ScenarioAnswers = {TRUE, FALSE}
  ScenarioResetsScores = TRUE
  Sides = {}
  Teams = {}
  Maps = {"dam"}
  RawMaps = {}
  Rotation = {"dam"}
  Transition = "dam"
  Heavy = {}
  NoMap = ""
  MaxRounds = 2
  MaxOverrun = 3
  MaxLength = 4
  MaxPoints = 0
INVARIANTS TypeOK OverMeansOver TimersCoherent MatchTimeIsLimit
PROPERTIES ImplementsLifecycle FinalIntermissionIsFinal RoundsHaveTheirTime
