\* Matches and intermissions end, and levels are reached.
SPECIFICATION CalmSpec
CONSTANTS
  Second = 1
  RoundTimes = {2}
  TimeLimits = {0, 3}
  RoundCounts = {0, 1}
  SetTimes = {}
  Adjustments = {}
  MinRoundTime = 2
  MaxRoundTime = 9
  RoundDelay = 1
  SkipDelay = 2
  ChatTime = 1
  MatchTail = 1
  ChangeDelay = 1
  ScenarioAnswers = {TRUE}
  ScenarioResetsScores = TRUE
  Sides = {}
  Teams = {}
  Maps = {"dam", "train", "ge_transition"}
  RawMaps = {"train", "nowhere"}
  Rotation = {"dam"}
  Transition = "ge_transition"
  Heavy <- OneHeavyPair
  NoMap = ""
  MaxRounds = 2
  MaxOverrun = 3
  MaxLength = 4
  MaxPoints = 0
PROPERTIES EndLeadsToNewLevel IntermissionEnds MatchTimeEndsMatch TransitionLeadsOn
  OnlyTransitionsPass
