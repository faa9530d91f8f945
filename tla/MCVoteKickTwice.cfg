\* A player who was not identified when voting first.
SPECIFICATION HSpec
CONSTANTS
  Players = {p1, p2, p3, p4}
  Bots = {}
  Unknown = Unknown
  Nobody = Nobody
  Gone = Gone
  Percents = {35, 70}
  MinPlayers = 3
  VoteTime = 1
  Cooldown = 1
  KickRenamers = TRUE
SYMMETRY Alike
PROPERTY NobodyVotesTwice
