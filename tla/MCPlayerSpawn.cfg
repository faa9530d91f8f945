\* All the ways into and out of the game; spectating is never refused.
SPECIFICATION FairSpec
CONSTANT Vetoes = {"Unassigned", "MI6", "Janus"}
INVARIANTS TypeOK ObserversAreDead CountedArePlaying
PROPERTIES StaysOut ReturnsToPlay
