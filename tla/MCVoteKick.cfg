\* Votes with players that come, go and are identified meanwhile; p4 is a bot.
SPECIFICATION FairHSpec
CONSTANTS
  Players = {p1, p2, p3, p4}
  Bots = {p4}
  Unknown = Unknown
  Nobody = Nobody
  Gone = Gone
  Percents = {70}
  MinPlayers = 3
  VoteTime = 1
  Cooldown = 1
  KickRenamers = TRUE
INVARIANTS TypeOK NoneOverdue CountIsVoters GoalCoversActive
PROPERTIES BansAreBacked IdentifiedVoteOnce VotesEnd
