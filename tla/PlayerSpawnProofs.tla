------------------------- MODULE PlayerSpawnProofs -------------------------
(***************************************************************************)
(* Proofs about PlayerSpawn: what its operators do to any record of a      *)
(* player, from that the invariants for every set of Vetoes, and when a    *)
(* player stays out until a character was chosen.                          *)
(***************************************************************************)
EXTENDS PlayerSpawn, TLAPS

\* What Spawn needs of a player, and what any handler leaves of it.
Sane(p) == p \in Records /\ (p.observer => ~p.alive)

Decent(p) == Sane(p) /\ (p.team = "Spectator" => p.observer)

Good(p) ==
  /\ Decent(p)
  /\ ~p.preSpawn /\ p.team # "Spectator" /\ p.state # "BlockedGameplay"
       => ~p.observer \/ p.state = "BlockedNoSpot"

\* A spawn makes a sane player a good one.
LEMMA SpawnedGood ==
  ASSUME NEW p, Sane(p), NEW spot \in BOOLEAN
  PROVE  Good(Spawned(p, spot))
<1> DEFINE q == [p EXCEPT !.slow = FALSE]
<1>1. Sane(q) BY DEF Sane, Records
<1>2. CASE MustWatch(q)
  <2>1. Spawned(p, spot) = Observing(q) BY <1>2 DEF Spawned
  <2> QED BY <1>1, <1>2, <2>1
          DEF Good, Decent, Sane, Records, Observing, MustWatch, SpawnStates
<1>3. CASE ~MustWatch(q) /\ ~FPlayerCanRespawn
  <2>1. Spawned(p, spot) = Refused(q) BY <1>3 DEF Spawned
  <2> QED BY <1>1, <1>3, <2>1
          DEF Good, Decent, Sane, Records, Refused, Waiting, Observing, MustWatch,
              SpawnStates
<1>4. CASE ~MustWatch(q) /\ FPlayerCanRespawn
           /\ q.state = "BlockedNoSpot" /\ q.waiting
  <2>1. Spawned(p, spot) = q BY <1>4 DEF Spawned
  <2> QED BY <1>1, <1>4, <2>1 DEF Good, Decent, MustWatch
<1>5. CASE ~MustWatch(q) /\ FPlayerCanRespawn
           /\ ~(q.state = "BlockedNoSpot" /\ q.waiting)
  <2>1. Spawned(p, spot) = Placed(q, spot) BY <1>5 DEF Spawned
  <2> QED BY <1>1, <1>5, <2>1
          DEF Good, Decent, Sane, Records, Placed, InGame, Waiting, Observing,
              MustWatch, SpawnStates
<1> QED BY <1>2, <1>3, <1>4, <1>5

LEMMA RespawnedGood ==
  ASSUME NEW p, Sane(p), NEW spot \in BOOLEAN
  PROVE  Good(Respawned(p, spot))
<1>1. Sane([p EXCEPT !.state = "Active"]) BY DEF Sane, Records, SpawnStates
<1> QED BY <1>1, SpawnedGood DEF Respawned

LEMMA DeadGood ==
  ASSUME NEW p, Decent(p), p.alive
  PROVE  Good(Dead(p))
BY DEF Good, Decent, Sane, Records, Dead, Waiting, SpawnStates

LEMMA SuicideSane ==
  ASSUME NEW p, Sane(p), NEW refused \in BOOLEAN
  PROVE  /\ Sane(AfterSuicide(p, refused))
         /\ AfterSuicide(p, refused).team = p.team
         /\ AfterSuicide(p, refused).preSpawn = p.preSpawn
BY DEF Sane, Records, AfterSuicide, Dead, Waiting, SpawnStates

\* A spawn brings to life only if the rules and the scenario allow it.
LEMMA SpawnedAllowed ==
  ASSUME NEW p, Sane(p), NEW spot \in BOOLEAN, Spawned(p, spot).alive
  PROVE  p.alive \/ FPlayerCanRespawn
BY DEF Sane, Records, Spawned, Observing, Refused, Waiting

LEMMA RespawnedAllowed ==
  ASSUME NEW p, Sane(p), NEW spot \in BOOLEAN, Respawned(p, spot).alive
  PROVE  p.alive \/ FPlayerCanRespawn
<1>1. Sane([p EXCEPT !.state = "Active"]) BY DEF Sane, Records, SpawnStates
<1>2. [p EXCEPT !.state = "Active"].alive = p.alive BY DEF Sane, Records
<1> QED BY <1>1, <1>2, SpawnedAllowed DEF Respawned

-----------------------------------------------------------------------------
\* What a request to change the team leaves of the player.
LEMMA AskedDecent ==
  ASSUME NEW p, Decent(p), NEW goal \in Teams
  PROVE  Decent(Asked(p, goal))
BY DEF Decent, Sane, Records, Asked

LEMMA AskedGood ==
  ASSUME NEW p, Good(p), NEW goal \in Teams,
         goal = "Spectator" => p.team = "Spectator"
  PROVE  Good(Asked(p, goal))
BY DEF Good, Decent, Sane, Records, Asked, Teams, Sides

LEMMA AskedSane ==
  ASSUME NEW p, Sane(p), NEW goal \in Teams
  PROVE  /\ Sane(Asked(p, goal))
         /\ Asked(p, goal).team = p.team /\ Asked(p, goal).alive = p.alive
         /\ Asked(p, goal).observer = p.observer
         /\ Asked(p, goal).state = p.state
         /\ goal # "Spectator" =>
              Asked(p, goal).preSpawn = (p.preSpawn \/ p.team = "Spectator")
BY DEF Sane, Records, Asked

LEMMA GoalsTeams ==
  ASSUME NEW request \in Teams \cup {"Auto"}, NEW goal \in Goals(request)
  PROVE  goal \in Teams
BY DEF Goals, Teams, Sides

LEMMA MovedGood ==
  ASSUME NEW p, Decent(p), NEW goal \in Teams, goal # "Spectator"
  PROVE  /\ Decent(Moved(Asked(p, goal), goal))
         /\ Good(p) => Good(Moved(Asked(p, goal), goal))
<1> DEFINE q == Asked(p, goal)
<1>1. Sane(q) /\ q.observer = p.observer /\ q.state = p.state
      /\ q.preSpawn = (p.preSpawn \/ p.team = "Spectator")
  BY AskedSane DEF Decent
<1> HIDE DEF q
<1>2. /\ Sane(Moved(q, goal)) /\ Moved(q, goal).team = goal
      /\ Moved(q, goal).observer = q.observer
      /\ Moved(q, goal).state = q.state
      /\ Moved(q, goal).preSpawn = q.preSpawn
  BY <1>1 DEF Moved, Sane, Records
<1>3. Decent(Moved(q, goal)) /\ (Good(p) => Good(Moved(q, goal)))
  BY <1>1, <1>2 DEF Good, Decent
<1> QED BY <1>3 DEF q

LEMMA JoinedGood ==
  ASSUME NEW p, Sane(p), p.team # "Spectator",
         NEW kill \in BOOLEAN, NEW refused \in BOOLEAN, NEW spot \in BOOLEAN
  PROVE  /\ Good(Joined(p, kill, refused, spot))
         /\ Joined(p, kill, refused, spot).alive
              => p.alive \/ FPlayerCanRespawn
<1> DEFINE q == SetPreSpawn(p)
<1>1. Sane(q) /\ q.team = p.team /\ q.preSpawn /\ q.alive = p.alive
  BY DEF SetPreSpawn, Sane, Records, SpawnStates
<1> HIDE DEF q
<1>2. CASE kill
  <2>1. Joined(p, kill, refused, spot) = AfterSuicide(q, refused)
    BY <1>2 DEF Joined, q
  <2>2. Sane(AfterSuicide(q, refused))
        /\ AfterSuicide(q, refused).team = q.team
        /\ AfterSuicide(q, refused).preSpawn = q.preSpawn
    BY <1>1, SuicideSane
  <2>3. AfterSuicide(q, refused).alive => q.alive
    BY <1>1 DEF AfterSuicide, Dead, Waiting, Sane, Records
  <2> QED BY <1>1, <2>1, <2>2, <2>3 DEF Good, Decent
<1>3. CASE ~kill
  <2>1. Joined(p, kill, refused, spot) = Respawned(q, spot)
    BY <1>3 DEF Joined, q
  <2> QED BY <1>1, <2>1, RespawnedGood, RespawnedAllowed
<1> QED BY <1>2, <1>3

LEMMA WatchingGood ==
  ASSUME NEW p, Sane(p)
  PROVE  Good(Observing(Moved(p, "Spectator")))
         /\ ~Observing(Moved(p, "Spectator")).alive
BY DEF Good, Decent, Sane, Records, Observing, Moved, Teams, Sides

\* ChangeTeam, whoever asks for it.
LEMMA ChangeTeamStep ==
  ASSUME TypeOK, Decent(player),
         NEW request \in Teams \cup {"Auto"}, NEW forced \in BOOLEAN,
         ChangeTeam(request, forced)
  PROVE  /\ Decent(player') /\ chosen' \in BOOLEAN
         /\ "Spectator" \notin Vetoes /\ Good(player) => Good(player')
         /\ player'.alive => player.alive \/ FPlayerCanRespawn
<1>1. PICK goal \in Goals(request), refused \in BOOLEAN, spot \in BOOLEAN :
        LET p == Asked(player, goal)
            kill == Kills(player, forced)
            unchosen == goal # "Spectator" /\ ~intermission /\ ~p.preSpawn
        IN \/ /\ goal = player.team \/ goal \in Vetoes
              /\ player' = p
              /\ UNCHANGED chosen
           \/ /\ goal # player.team
              /\ player' =
                   IF goal = "Spectator"
                   THEN Observing(Moved(IF kill THEN AfterSuicide(p, FALSE)
                                                ELSE p, goal))
                   ELSE IF unchosen
                   THEN Joined(Moved(p, goal), kill, refused, spot)
                   ELSE Moved(p, goal)
              /\ chosen' = (chosen /\ ~unchosen)
  BY Zenon DEF ChangeTeam
<1> DEFINE p == Asked(player, goal)
           kill == Kills(player, forced)
           unchosen == goal # "Spectator" /\ ~intermission /\ ~p.preSpawn
<1>2. goal \in Teams BY GoalsTeams
<1>3. Sane(p) /\ p.alive = player.alive BY <1>2, AskedSane DEF Decent
<1>4. chosen' \in BOOLEAN
  <2>1. CASE UNCHANGED chosen BY <2>1 DEF TypeOK
  <2>2. CASE chosen' = (chosen /\ ~unchosen)
    BY <2>2, Zenon
  <2> QED BY <1>1, <2>1, <2>2
<1>5. CASE (goal = player.team \/ goal \in Vetoes) /\ player' = p
  <2>1. Decent(p) BY <1>2, AskedDecent
  <2>2. ASSUME "Spectator" \notin Vetoes, Good(player) PROVE Good(p)
    <3>1. goal = "Spectator" => player.team = "Spectator" BY <1>5, <2>2
    <3> QED BY <1>2, <2>2, <3>1, AskedGood
  <2> QED BY <1>3, <1>4, <1>5, <2>1, <2>2
<1>6. CASE goal = "Spectator"
           /\ player' = Observing(Moved(IF kill THEN AfterSuicide(p, FALSE)
                                                ELSE p, goal))
  <2>1. Sane(IF kill THEN AfterSuicide(p, FALSE) ELSE p)
    BY <1>3, SuicideSane
  <2> QED BY <1>4, <1>6, <2>1, WatchingGood DEF Good
<1>7. CASE goal # "Spectator"
           /\ player' = Joined(Moved(p, goal), kill, refused, spot)
  <2>1. Sane(Moved(p, goal)) /\ Moved(p, goal).team # "Spectator"
        /\ Moved(p, goal).alive = player.alive
    BY <1>2, <1>3, <1>7 DEF Moved, Sane, Records
  <2>2. kill \in BOOLEAN BY Zenon DEF Kills
  <2> QED BY <1>4, <1>7, <2>1, <2>2, JoinedGood DEF Good
<1>8. CASE goal # "Spectator" /\ player' = Moved(p, goal)
  <2>1. Decent(Moved(p, goal)) /\ (Good(player) => Good(Moved(p, goal)))
    BY <1>2, <1>8, MovedGood
  <2>2. Moved(p, goal).alive = player.alive
    BY <1>3 DEF Moved, Sane, Records
  <2> QED BY <1>4, <1>8, <2>1, <2>2
<1> QED BY <1>1, <1>5, <1>6, <1>7, <1>8

-----------------------------------------------------------------------------
\* The inductive invariants: of any scenario, and of one that refuses nobody
\* the place of a spectator.
Inv == TypeOK /\ Decent(player)

GoodInv == Inv /\ Good(player)

\* Every step keeps them, and brings to life only whom it may.
Kept ==
  /\ Inv'
  /\ "Spectator" \notin Vetoes /\ Good(player) => Good(player')
  /\ player'.alive => player.alive \/ FPlayerCanRespawn

LEMMA StepKeeps ==
  ASSUME Inv, [Next]_vars
  PROVE  Kept
<1> USE DEF Inv, Kept
<1>0. Sane(player) BY DEF Decent
<1>1. ASSUME NEW forced \in BOOLEAN, NEW request \in Teams \cup {"Auto"},
             ChangeTeam(request, forced)
      PROVE  Kept
  <2>1. UNCHANGED rules BY <1>1, Zenon DEF ChangeTeam
  <2>2. /\ Decent(player') /\ chosen' \in BOOLEAN
        /\ "Spectator" \notin Vetoes /\ Good(player) => Good(player')
        /\ player'.alive => player.alive \/ FPlayerCanRespawn
    BY <1>1, ChangeTeamStep
  <2> QED BY <2>1, <2>2 DEF TypeOK, rules, Decent, Sane
<1>2. CASE SetPlayerModel
  <2>1. PICK spot \in BOOLEAN :
          player' = IF player.preSpawn
                    THEN Respawned([player EXCEPT !.state = "Active"], spot)
                    ELSE player
    BY <1>2 DEF SetPlayerModel
  <2>2. Sane([player EXCEPT !.state = "Active"])
        /\ [player EXCEPT !.state = "Active"].alive = player.alive
    BY <1>0 DEF Sane, Records, SpawnStates
  <2>3. CASE player.preSpawn
    <3>1. Good(player') /\ (player'.alive => player.alive \/ FPlayerCanRespawn)
      BY <2>1, <2>2, <2>3, RespawnedGood, RespawnedAllowed
    <3> QED BY <1>2, <3>1 DEF SetPlayerModel, TypeOK, rules, Good, Decent, Sane
  <2>4. CASE ~player.preSpawn
    BY <1>2, <2>1, <2>4 DEF SetPlayerModel, TypeOK, rules
  <2> QED BY <2>3, <2>4
<1>3. CASE EventKilled
  <2>1. Good(player') /\ ~player'.alive
    BY <1>0, <1>3, DeadGood DEF EventKilled, Dead, Waiting, Sane, Records
  <2> QED BY <1>3, <2>1 DEF EventKilled, TypeOK, rules, Good, Decent, Sane
<1>4. CASE PlayerDeathThink
  <2>1. Good(player') /\ (player'.alive => player.alive \/ FPlayerCanRespawn)
    BY <1>0, <1>4, SpawnedGood, SpawnedAllowed DEF PlayerDeathThink
  <2> QED BY <1>4, <2>1 DEF PlayerDeathThink, TypeOK, rules, Good, Decent, Sane
<1>5. ASSUME NEW spot \in BOOLEAN, PreThink(spot)
      PROVE  Kept
  <2>1. Good(player') /\ (player'.alive => player.alive \/ FPlayerCanRespawn)
    BY <1>0, <1>5, SpawnedGood, SpawnedAllowed DEF PreThink
  <2> QED BY <1>5, <2>1 DEF PreThink, TypeOK, rules, Good, Decent, Sane
<1>6. CASE ForceRespawn
  <2>1. Good(player') /\ (player'.alive => player.alive \/ FPlayerCanRespawn)
    BY <1>0, <1>6, RespawnedGood, RespawnedAllowed DEF ForceRespawn
  <2> QED BY <1>6, <2>1 DEF ForceRespawn, TypeOK, rules, Good, Decent, Sane
<1>7. CASE WaitOver
  BY <1>7 DEF WaitOver, TypeOK, rules, Good, Decent, Sane, Records
<1>8. CASE CooldownOver
  BY <1>8 DEF CooldownOver, TypeOK, rules, Good, Decent, Sane, Records
<1>9. CASE RulesChange
  BY <1>9 DEF RulesChange, TypeOK
<1>10. CASE UNCHANGED vars
  BY <1>10 DEF vars, rules, TypeOK, Good, Decent, Sane
<1> QED
  <2>1. CASE JoinTeam BY <2>1, <1>1 DEF JoinTeam
  <2>2. CASE MoveTeam BY <2>2, <1>1 DEF MoveTeam
  <2> QED BY <2>1, <2>2, <1>2, <1>3, <1>4, <1>5, <1>6, <1>7, <1>8, <1>9,
             <1>10 DEF Next

LEMMA InitGood ==
  ASSUME Init
  PROVE  GoodInv
<1>1. /\ player \in Records /\ player.observer /\ ~player.alive /\ player.preSpawn
  BY DEF Init, Records, Teams, SpawnStates
<1>2. Good(player) BY <1>1 DEF Good, Decent, Sane
<1>3. TypeOK BY <1>1 DEF Init, TypeOK
<1> QED BY <1>2, <1>3 DEF GoodInv, Inv, Good

LEMMA Invariance == Spec => []Inv
<1>1. Inv /\ [Next]_vars => Inv' BY StepKeeps DEF Kept
<1>2. Init => Inv BY InitGood DEF GoodInv
<1> QED BY <1>1, <1>2, PTL DEF Spec

-----------------------------------------------------------------------------
\* The fields of the player have their types through every handler
\* (gemp_player.cpp), whatever the scenario refuses.
THEOREM PlayerSpawnTypeOK == Spec => []TypeOK
<1>1. Inv => TypeOK BY DEF Inv
<1> QED BY Invariance, <1>1, PTL

\* Spectators and observers are dead, the assertion of
\* State_PreThink_OBSERVER_MODE, whatever the order of kills, respawns, moves
\* and rounds.
THEOREM WatchersAreDead == Spec => []ObserversAreDead
<1>1. Inv => ObserversAreDead BY DEF Inv, Decent, Sane, ObserversAreDead
<1> QED BY Invariance, <1>1, PTL

\* As long as the scenario refuses nobody the place of a spectator, nobody
\* counts as in the round (IsInRound) who only watches it, but a player about
\* to get a spot.  A refused request would end pre spawn and leave the player
\* an observer of its team.
THEOREM NobodyCountedWatches ==
  ASSUME "Spectator" \notin Vetoes
  PROVE  Spec => []CountedArePlaying
<1>1. GoodInv /\ [Next]_vars => GoodInv' BY StepKeeps DEF GoodInv, Kept
<1>2. GoodInv => CountedArePlaying
  BY DEF GoodInv, Good, CountedArePlaying, IsInRound, IsActive
<1> QED BY InitGood, <1>1, <1>2, PTL DEF Spec

\* Nobody comes to life in an intermission or against the scenario's will, on
\* any of the ways into Spawn.
THEOREM NobodySlipsIn == Spec => StaysOut
<1>1. Inv /\ [Next]_vars
        => [~player.alive /\ player'.alive => FPlayerCanRespawn]_vars
  BY StepKeeps DEF Kept
<1> QED BY Invariance, <1>1, PTL DEF Spec, StaysOut

-----------------------------------------------------------------------------
(***************************************************************************)
(* Who has to choose a character.  A player who never asks for the place   *)
(* of a spectator, and does not die with the choice still to be made while *)
(* nobody may respawn.                                                     *)
(***************************************************************************)
DiesUnchosen ==
  player.alive /\ ~player'.alive /\ player'.preSpawn /\ ~FPlayerCanRespawn

PlayingNext ==
  /\ \/ \E request \in Sides \cup {"Unassigned", "Auto"}, forced \in BOOLEAN :
          ChangeTeam(request, forced)
     \/ SetPlayerModel
     \/ EventKilled \/ ForceRespawn \/ PlayerDeathThink
     \/ \E spot \in BOOLEAN : PreThink(spot)
     \/ WaitOver \/ CooldownOver \/ RulesChange
  /\ ~DiesUnchosen

PlayingSpec == Init /\ [][PlayingNext]_vars

\* The player is held back by both fields that Spawn asks for.
HeldBack(p) == p.preSpawn /\ p.state = "Initial"

ChoiceOpen == ~chosen => HeldBack(player)

LEMMA PlayingIsNext == [PlayingNext]_vars => [Next]_vars
<1>1. ASSUME NEW request \in Sides \cup {"Unassigned", "Auto"}, NEW forced \in BOOLEAN,
             ChangeTeam(request, forced)
      PROVE  JoinTeam \/ MoveTeam
  BY <1>1 DEF JoinTeam, MoveTeam, Teams
<1> QED BY <1>1 DEF PlayingNext, Next

\* No spawn, forced or not, releases a player who is held back.
LEMMA SpawnHolds ==
  ASSUME NEW p, Sane(p), HeldBack(p), NEW spot \in BOOLEAN
  PROVE  HeldBack(Spawned(p, spot)) /\ HeldBack(Respawned(p, spot))
<1>1. HeldBack(Spawned(p, spot))
  BY DEF HeldBack, Spawned, MustWatch, Observing, Sane, Records
<1>2. Respawned(p, spot) = Spawned(p, spot)
  BY DEF HeldBack, Respawned
<1> QED BY <1>1, <1>2

\* Nor does a change of team, but for a death that the rules take for the
\* player's exclusion from the round.
LEMMA JoinHolds ==
  ASSUME NEW p, Sane(p), NEW kill \in BOOLEAN, NEW refused \in BOOLEAN,
         NEW spot \in BOOLEAN,
         LET q == Joined(p, kill, refused, spot)
         IN  ~(p.alive /\ ~q.alive /\ q.preSpawn /\ ~FPlayerCanRespawn)
  PROVE  HeldBack(Joined(p, kill, refused, spot))
<1> DEFINE q == SetPreSpawn(p)
<1>1. Sane(q) /\ HeldBack(q) /\ q.alive = p.alive
  BY DEF SetPreSpawn, Sane, Records, SpawnStates, HeldBack
<1> HIDE DEF q
<1>2. CASE kill
  <2>1. Joined(p, kill, refused, spot) = AfterSuicide(q, refused)
    BY <1>2 DEF Joined, q
  <2>2. CASE AfterSuicide(q, refused) = q
    BY <1>1, <2>1, <2>2
  <2>3. CASE q.alive /\ AfterSuicide(q, refused) = Dead(q)
    <3>1. ~Dead(q).alive /\ Dead(q).preSpawn
      BY <1>1 DEF Dead, Waiting, HeldBack, Sane, Records
    <3>2. FPlayerCanRespawn
      BY <1>1, <2>1, <2>3, <3>1
    <3> QED BY <1>1, <2>1, <2>3, <3>2 DEF Dead, HeldBack, Sane, Records
  <2> QED BY <2>2, <2>3 DEF AfterSuicide
<1>3. CASE ~kill
  BY <1>1, <1>3, SpawnHolds DEF Joined, q
<1> QED BY <1>2, <1>3

LEMMA AskingHolds ==
  ASSUME Inv, ChoiceOpen, ~DiesUnchosen, NEW forced \in BOOLEAN,
         NEW request \in Sides \cup {"Unassigned", "Auto"}, ChangeTeam(request, forced)
  PROVE  ChoiceOpen'
<1> SUFFICES ASSUME ~chosen' PROVE HeldBack(player')
  BY DEF ChoiceOpen
<1>1. PICK goal \in Goals(request), refused \in BOOLEAN, spot \in BOOLEAN :
        LET p == Asked(player, goal)
            kill == Kills(player, forced)
            unchosen == goal # "Spectator" /\ ~intermission /\ ~p.preSpawn
        IN \/ /\ goal = player.team \/ goal \in Vetoes
              /\ player' = p
              /\ UNCHANGED chosen
           \/ /\ goal # player.team
              /\ player' =
                   IF goal = "Spectator"
                   THEN Observing(Moved(IF kill THEN AfterSuicide(p, FALSE)
                                                ELSE p, goal))
                   ELSE IF unchosen
                   THEN Joined(Moved(p, goal), kill, refused, spot)
                   ELSE Moved(p, goal)
              /\ chosen' = (chosen /\ ~unchosen)
  BY Zenon DEF ChangeTeam
<1> DEFINE p == Asked(player, goal)
           kill == Kills(player, forced)
           unchosen == goal # "Spectator" /\ ~intermission /\ ~p.preSpawn
<1>2. goal \in Teams /\ goal # "Spectator"
  BY DEF Goals, Teams, Sides
<1>3. /\ Sane(p) /\ p.alive = player.alive /\ p.state = player.state
      /\ p.preSpawn = (player.preSpawn \/ player.team = "Spectator")
  BY <1>2, AskedSane DEF Inv, Decent
<1>4. HeldBack(player) => HeldBack(p)
  BY <1>3 DEF HeldBack
<1>5. Sane(Moved(p, goal)) /\ Moved(p, goal).alive = player.alive
      /\ (HeldBack(p) => HeldBack(Moved(p, goal)))
  BY <1>2, <1>3 DEF Moved, Sane, Records, HeldBack
<1>6. CASE player' = p /\ UNCHANGED chosen
  BY <1>4, <1>6 DEF ChoiceOpen
<1>7. CASE unchosen /\ player' = Joined(Moved(p, goal), kill, refused, spot)
  <2>1. kill \in BOOLEAN BY Zenon DEF Kills
  <2> HIDE DEF p, kill, unchosen
  <2> QED BY <1>5, <1>7, <2>1, JoinHolds DEF DiesUnchosen
<1>8. CASE ~unchosen /\ player' = Moved(p, goal) /\ chosen' = (chosen /\ ~unchosen)
  <2>1. ~chosen
    BY <1>8, Zenon
  <2> QED BY <1>4, <1>5, <1>8, <2>1 DEF ChoiceOpen
<1> QED BY <1>1, <1>2, <1>6, <1>7, <1>8

LEMMA PlayingStep ==
  ASSUME Inv, ChoiceOpen, [PlayingNext]_vars
  PROVE  ChoiceOpen'
<1>0. Sane(player) BY DEF Inv, Decent
<1>1. ASSUME NEW request \in Sides \cup {"Unassigned", "Auto"}, NEW forced \in BOOLEAN,
             ChangeTeam(request, forced), ~DiesUnchosen
      PROVE  ChoiceOpen'
  BY <1>1, AskingHolds
<1>2. CASE SetPlayerModel
  BY <1>2 DEF SetPlayerModel, ChoiceOpen
<1>3. CASE EventKilled /\ ~DiesUnchosen
  <2> SUFFICES ASSUME HeldBack(player) PROVE HeldBack(player')
    BY <1>3 DEF EventKilled, ChoiceOpen
  <2>1. player.alive /\ player' = Dead(player) /\ ~player'.alive /\ player'.preSpawn
    BY <1>0, <1>3 DEF EventKilled, Dead, Waiting, HeldBack, Sane, Records
  <2>2. FPlayerCanRespawn
    BY <1>3, <2>1 DEF DiesUnchosen
  <2> QED BY <1>0, <2>1, <2>2 DEF Dead, HeldBack, Sane, Records
<1>4. CASE PlayerDeathThink \/ ForceRespawn
  BY <1>0, <1>4, SpawnHolds DEF PlayerDeathThink, ForceRespawn, ChoiceOpen
<1>5. ASSUME NEW spot \in BOOLEAN, PreThink(spot)
      PROVE  ChoiceOpen'
  BY <1>0, <1>5, SpawnHolds DEF PreThink, ChoiceOpen
<1>6. CASE WaitOver \/ CooldownOver
  BY <1>0, <1>6 DEF WaitOver, CooldownOver, ChoiceOpen, HeldBack, Sane, Records
<1>7. CASE RulesChange \/ UNCHANGED vars
  BY <1>7 DEF RulesChange, ChoiceOpen, vars
<1> QED BY <1>1, <1>2, <1>3, <1>4, <1>5, <1>6, <1>7 DEF PlayingNext

\* A player who never asks to spectate, and does not die unchosen while nobody
\* may respawn, is not active until a character was chosen ("Makes sure the
\* player will not be active until they choose a character", gemp_player.h:86):
\* whatever the teams, moves, forced respawns and rounds.  These two ways
\* around the choice are the only ones.
THEOREM ChoiceIsWaitedFor == PlayingSpec => []UnchosenNotActive
<1>1. Init => ChoiceOpen
  BY DEF Init, ChoiceOpen, HeldBack
<1>2. Inv /\ ChoiceOpen => UnchosenNotActive
  BY DEF UnchosenNotActive, IsActive, ChoiceOpen, HeldBack
<1>3. Init => Inv
  BY InitGood DEF GoodInv
<1>4. Inv /\ [Next]_vars => Inv'
  BY StepKeeps DEF Kept
<1> QED BY <1>1, <1>2, <1>3, <1>4, PlayingIsNext, PlayingStep, PTL DEF PlayingSpec

=============================================================================
