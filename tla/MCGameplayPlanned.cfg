\* The rounds ge_roundcount asks for are the rounds that are played.
SPECIFICATION PlannedSpec
CONSTANTS
  Second = 1
  RoundTimes = {0, 4}
  TimeLimits = {0, 5, 9, 12, 14, 15, 16, 17}
  RoundCounts = {0, 1, 2, 3}
  SetTimes = {}
  Adjustments = {}
  MinRoundTime = 2
  MaxRoundTime = 20
  RoundDelay = 2
  SkipDelay = 1
  ChatTime = 1
  MatchTail = 1
  ChangeDelay = 1
  ScenarioAnswers = {TRUE}
  ScenarioResetsScores = TRUE
  Sides = {}
  Teams = {}
  Maps = {"dam", "ge_transition"}
  RawMaps = {}
  Rotation = {"dam"}
  Transition = "ge_transition"
  Heavy = {}
  NoMap = ""
  MaxRounds = 5
  MaxOverrun = 20
  MaxLength = 4
  MaxPoints = 0
INVARIANT RoundsAsPlanned
