\* Tokens under every order of events, and when the scenario is quiet.
SPECIFICATION FairSpec
CONSTANTS
  Tokens = {t1, t2, t3}
  Spawners = {s1, s2}
  StartsEnabled = {s1, s2}
  Players = {p1, p2}
  Ground = Ground
  Limbo = Limbo
  Dying = Dying
  Nowhere = Nowhere
  None = None
  Limits <- MCLimits
INVARIANTS TypeOK EachPlaceOnce Accounted
PROPERTIES ImplementsTokenPool ThinkRobsNobody LimitIsReached
