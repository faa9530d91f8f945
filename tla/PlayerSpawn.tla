---------------------------- MODULE PlayerSpawn ----------------------------
(***************************************************************************)
(* When one human player is in the game, waits for a place in it or only   *)
(* watches: CGEMPPlayer (server/ges/gemp_player.cpp) with its team, its    *)
(* spawn state and the flag m_bPreSpawn, which is set until a character    *)
(* was chosen.  Commands of the player, the frame's thinks, the rounds,    *)
(* EnforceTeamplay and the Python scenario all change the same few fields. *)
(*                                                                         *)
(* Clocks are flags: a wait is on until WaitOver or CooldownOver ends it.  *)
(***************************************************************************)
EXTENDS Naturals

CONSTANT Vetoes   \* teams the scenario's CanPlayerChangeTeam may refuse

Sides == {"MI6", "Janus"}
Teams == Sides \cup {"Unassigned", "Spectator"}

ASSUME PlayerSpawnAssumption == Vetoes \subseteq Teams

VARIABLES
  player,        \* the fields of the player, see Records
  chosen,        \* history: a character was chosen since SetPreSpawn
  teamplay,      \* IsTeamplay()
  intermission,  \* IsIntermission()
  blocked        \* the scenario's CanPlayerRespawn says no

rules == <<teamplay, intermission, blocked>>
vars  == <<player, chosen, rules>>

SpawnStates == {"Initial", "Active", "BlockedGameplay", "BlockedNoSpot"}

Records == [team     : Teams,
            preSpawn : BOOLEAN,      \* m_bPreSpawn
            state    : SpawnStates,  \* m_iSpawnState
            observer : BOOLEAN,      \* IsObserver()
            alive    : BOOLEAN,      \* m_lifeState = LIFE_ALIVE
            slow     : BOOLEAN,      \* m_flNextTeamChangeTime is ahead
            waiting  : BOOLEAN]      \* m_flNextSpawnTry is ahead

TypeOK ==
  /\ player \in Records
  /\ chosen \in BOOLEAN /\ teamplay \in BOOLEAN
  /\ intermission \in BOOLEAN /\ blocked \in BOOLEAN

-----------------------------------------------------------------------------
FPlayerCanRespawn == ~intermission /\ ~blocked

\* The player counts as playing, and as one of the round.
IsActive  == ~player.preSpawn /\ player.team # "Spectator"
IsInRound == IsActive /\ player.state # "BlockedGameplay"

IsBlocked(p) == p.state \in {"BlockedGameplay", "BlockedNoSpot"}

\* State_Transition( STATE_OBSERVER_MODE ); an observer is never alive.
Observing(p) == [p EXCEPT !.observer = TRUE, !.alive = FALSE]

Waiting(p, state) == [p EXCEPT !.state = state, !.waiting = TRUE]

InGame(p) == [p EXCEPT !.state = "Active", !.observer = FALSE, !.alive = TRUE,
                       !.preSpawn = FALSE, !.waiting = FALSE]

\* Mutant of Placed: who finds no spot keeps its spawn state.
PlacedUntold(p, spot) ==
  IF spot THEN InGame(p) ELSE Waiting(Observing(p), p.state)

\* Spawn when nothing is against it but maybe the lack of a free spot.
Placed(p, spot) ==
  IF spot THEN InGame(p) ELSE Waiting(Observing(p), "BlockedNoSpot")

\* Mutant of MustWatch: going to the spectators ends pre spawn, and the wait.
MustWatchUnchosen(p) == p.preSpawn /\ p.state = "Initial"

MustWatch(p) == p.team = "Spectator" \/ (p.preSpawn /\ p.state = "Initial")

\* Mutant of Refused: the spawn state is not told.
RefusedUntold(p) == [Observing(p) EXCEPT !.waiting = TRUE]

Refused(p) == Waiting(Observing(p), "BlockedGameplay")

\* Spawn: the cooldown of the last change of team is over in any case.
Spawned(before, spot) ==
  LET p == [before EXCEPT !.slow = FALSE] IN
  IF MustWatch(p) THEN Observing(p)
  ELSE IF ~FPlayerCanRespawn THEN Refused(p)
  ELSE IF p.state = "BlockedNoSpot" /\ p.waiting THEN p
  ELSE Placed(p, spot)

\* Mutant of Respawned: a forced respawn asks nobody.
RespawnedAnyway(p, spot) ==
  IF MustWatch(p) THEN Spawned(p, spot) ELSE Placed(p, spot)

\* ForceRespawn.
Respawned(p, spot) ==
  IF ~FPlayerCanRespawn \/ (p.preSpawn /\ p.state # "Active")
  THEN Spawned(p, spot)
  ELSE Spawned([p EXCEPT !.state = "Active"], spot)

\* Event_Killed.
Dead(p) ==
  LET corpse == [p EXCEPT !.alive = FALSE] IN
  IF FPlayerCanRespawn THEN corpse ELSE Waiting(corpse, "BlockedGameplay")

\* CommitSuicide: nothing for the dead, and refused for 5 s after the last.
AfterSuicide(p, refused) == IF p.alive /\ ~refused THEN Dead(p) ELSE p

-----------------------------------------------------------------------------
(***************************************************************************)
(* ChangeTeam.                                                             *)
(***************************************************************************)

\* Mutant of Goals: the auto join is not resolved.
GoalsAsAsked(request) ==
  {IF ~teamplay /\ request # "Spectator" THEN "Unassigned" ELSE request}

\* The teams a request may mean: without teamplay there are no sides, and
\* the auto join (MAX_GE_TEAMS) takes the smaller side, of others' making.
Goals(request) ==
  CASE ~teamplay /\ request # "Spectator" -> {"Unassigned"}
    [] teamplay /\ request = "Auto"       -> Sides
    [] OTHER                              -> {request}

\* The change costs the player a life.
Kills(p, forced) ==
  /\ ~forced
  /\ IF teamplay
     THEN p.team # "Unassigned" /\ ~p.observer
     ELSE p.team = "Unassigned" /\ ~p.preSpawn /\ p.alive

\* Even a request that then comes to nothing has this effect.
Asked(p, goal) ==
  [p EXCEPT !.preSpawn = CASE goal = "Spectator"   -> FALSE
                           [] p.team = "Spectator" -> goal # "Spectator"
                           [] OTHER                -> @]

Moved(p, goal) == [p EXCEPT !.team = goal, !.slow = TRUE]

\* SetPreSpawn: a character has to be chosen.
SetPreSpawn(p) == [p EXCEPT !.preSpawn = TRUE, !.state = "Initial"]

\* The player goes to a team: unless it comes from the spectators or there is
\* an intermission, it dies or respawns at once, without a character.
Joined(p, kill, refused, spot) ==
  IF kill THEN AfterSuicide(SetPreSpawn(p), refused)
          ELSE Respawned(SetPreSpawn(p), spot)

ChangeTeam(request, forced) ==
  /\ ~player.slow \/ forced
  /\ \E goal \in Goals(request), refused, spot \in BOOLEAN :
       LET p == Asked(player, goal)
           kill == Kills(player, forced)
           unchosen == goal # "Spectator" /\ ~intermission /\ ~p.preSpawn
       IN \/ /\ goal = player.team \/ goal \in Vetoes
             /\ player' = p
             /\ UNCHANGED chosen
          \/ /\ goal # player.team
             /\ player' =
                  IF goal = "Spectator"
                  THEN Observing(Moved(IF kill THEN AfterSuicide(p, FALSE)
                                               ELSE p, goal))
                  ELSE IF unchosen
                  THEN Joined(Moved(p, goal), kill, refused, spot)
                  ELSE Moved(p, goal)
             /\ chosen' = (chosen /\ ~unchosen)
  /\ UNCHANGED rules

-----------------------------------------------------------------------------
(***************************************************************************)
(* What the player and the game do.                                        *)
(***************************************************************************)

\* jointeam and spectate; EnforceTeamplay, BalanceTeams and Python.
JoinTeam == \E request \in Teams \cup {"Auto"} : ChangeTeam(request, FALSE)
MoveTeam == \E request \in Teams \cup {"Auto"} : ChangeTeam(request, TRUE)

\* joinclass, when the character is one of the player's team.
SetPlayerModel ==
  /\ teamplay => player.team \in Sides
  /\ chosen' = TRUE
  /\ \E spot \in BOOLEAN :
       player' = IF player.preSpawn
                 THEN Respawned([player EXCEPT !.state = "Active"], spot)
                 ELSE player
  /\ UNCHANGED rules

EventKilled ==
  /\ player.alive
  /\ player' = Dead(player)
  /\ UNCHANGED <<chosen, rules>>

\* PlayerDeathThink once the respawn delay is over.
PlayerDeathThink ==
  /\ ~player.observer /\ ~player.alive
  /\ \E spot \in BOOLEAN : player' = Spawned(player, spot)
  /\ UNCHANGED <<chosen, rules>>

\* PreThink tries again, with a free spot or without one.
PreThink(spot) ==
  /\ IsBlocked(player) /\ ~player.waiting
  /\ player' = Spawned(player, spot)
  /\ UNCHANGED <<chosen, rules>>

\* SpawnPlayers at the start of a round, and ForceRespawn of a scenario.
ForceRespawn ==
  /\ \E spot \in BOOLEAN : player' = Respawned(player, spot)
  /\ UNCHANGED <<chosen, rules>>

WaitOver ==
  /\ player.waiting
  /\ player' = [player EXCEPT !.waiting = FALSE]
  /\ UNCHANGED <<chosen, rules>>

CooldownOver ==
  /\ player.slow
  /\ player' = [player EXCEPT !.slow = FALSE]
  /\ UNCHANGED <<chosen, rules>>

\* The match, the scenario and the server's settings go on.
RulesChange ==
  /\ \/ teamplay' = ~teamplay /\ UNCHANGED <<intermission, blocked>>
     \/ intermission' = ~intermission /\ UNCHANGED <<teamplay, blocked>>
     \/ blocked' = ~blocked /\ UNCHANGED <<teamplay, intermission>>
  /\ UNCHANGED <<player, chosen>>

\* After InitialSpawn and the first Spawn; the scenario may have refused the
\* move to the spectators.
Init ==
  /\ \E team \in {"Spectator", "Unassigned"} :
       /\ team = "Unassigned" => "Spectator" \in Vetoes
       /\ player = [team |-> team, preSpawn |-> TRUE, state |-> "Initial",
                    observer |-> TRUE, alive |-> FALSE,
                    slow |-> FALSE, waiting |-> FALSE]
  /\ chosen = FALSE
  /\ teamplay \in BOOLEAN /\ intermission \in BOOLEAN /\ blocked \in BOOLEAN

Next ==
  \/ JoinTeam \/ MoveTeam \/ SetPlayerModel
  \/ EventKilled \/ ForceRespawn \/ PlayerDeathThink
  \/ \E spot \in BOOLEAN : PreThink(spot)
  \/ WaitOver \/ CooldownOver \/ RulesChange

Spec == Init /\ [][Next]_vars

\* Thinks run and waits end; spots come free now and then, and a player who
\* tries every second will meet one.
FairSpec ==
  /\ Spec
  /\ WF_vars(WaitOver) /\ WF_vars(PlayerDeathThink) /\ SF_vars(PreThink(TRUE))

-----------------------------------------------------------------------------
(***************************************************************************)
(* Properties.                                                             *)
(***************************************************************************)

\* A spectator watches, and whoever watches is dead as far as damage and the
\* thinks go: the assertion of State_PreThink_OBSERVER_MODE
\* (hl2mp_player.cpp:1514), which holds after deaths, respawns and moves alike.
ObserversAreDead ==
  /\ player.team = "Spectator" => player.observer
  /\ player.observer => ~player.alive

\* The last of a round are found by counting those with IsInRound.  Nobody
\* counts who only watches, but for a player about to get a spot: otherwise
\* a round waits for somebody who cannot play it.
CountedArePlaying ==
  IsInRound => ~player.observer \/ player.state = "BlockedNoSpot"

\* However a player comes to life, neither in an intermission nor against the
\* scenario's will: a player who is out of a round stays out.
StaysOut == [][~player.alive /\ player'.alive => FPlayerCanRespawn]_vars

\* Once spawning is possible for good, a player who is dead or blocked is
\* back in the game, unless it goes to the spectators or is sent to choose a
\* character: no path of Spawn leaves it where nothing tries again.
Absent ==
  /\ player.team # "Spectator"
  /\ IsBlocked(player) \/ (~player.preSpawn /\ ~player.alive)
Back ==
  \/ player.alive \/ player.team = "Spectator"
  \/ player.preSpawn /\ player.state = "Initial"
ReturnsToPlay == <>[]FPlayerCanRespawn => (Absent ~> Back)

\* "Makes sure the player will not be active until they choose a character"
\* (gemp_player.h:86, of SetPreSpawn).
UnchosenNotActive == IsActive => chosen

=============================================================================
