\* Three humans, up to four bots, six slots of which one is to stay open.
SPECIFICATION FairSpec
CONSTANTS
  MaxHumans = 3
  MaxClients = 6
  Threshold = 4
  OpenSlots = 1
  Strict = TRUE
INVARIANT TypeOK
PROPERTIES BalanceShrinks OpenSlotsKept Settles
