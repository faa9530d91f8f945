\* Points and changes of level: chosen, commanded, through the transition map, refused.
SPECIFICATION HSpec
CONSTANTS
  Second = 1
  RoundTimes = {2}
  TimeLimits = {2}
  RoundCounts = {0}
  SetTimes = {}
  Adjustments = {}
  MinRoundTime = 2
  MaxRoundTime = 9
  RoundDelay = 1
  SkipDelay = 1
  ChatTime = 1
  MatchTail = 1
  ChangeDelay = 1
  ScenarioAnswers = {TRUE}
  ScenarioResetsScores = TRUE
  Sides = {"team", "player"}
  Teams = {"team"}
  Maps = {"dam", "train", "ge_transition"}
  RawMaps = {"train", "nowhere"}
  Rotation = {"dam"}
  Transition = "ge_transition"
  Heavy <- OneHeavyPair
  NoMap = ""
  MaxRounds = 2
  MaxOverrun = 1
  MaxLength = 3
  MaxPoints = 2
INVARIANTS PointsCountOnce ChangeIsPrepared
