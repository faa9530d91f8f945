SPECIFICATION Spec
CONSTANTS
  Second = 1
  RoundTimes = {0, 2}
  TimeLimits = {0, 3}
  RoundCounts = {0}
  SetTimes = {}
  Adjustments = {}
  MinRoundTime = 2
  MaxRoundTime = 9
  RoundDelay = 1
  SkipDelay = 2
  ChatTime = 1
  MatchTail = 1
  ChangeDelay = 1
  ScenarioAnswers = {TRUE, FALSE}
  ScenarioResetsScores = TRUE
  Sides = {}
  Teams = {}
  Maps = {"dam", "train", "ge_transition"}
  RawMaps = {}
  Rotation = {"dam"}
  Transition = "ge_transition"
  Heavy <- OneHeavyPair
  NoMap = ""
  MaxRounds = 2
  MaxOverrun = 3
  MaxLength = 4
  MaxPoints = 0
PROPERTY OnlyTransitionsPass
