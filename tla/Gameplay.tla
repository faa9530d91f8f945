------------------------------ MODULE Gameplay ------------------------------
(***************************************************************************)
(* The match: the round and match state machine of CGEBaseGameplayManager  *)
(* (server/ges/ge_gameplay.cpp) together with the part of CGEMPRules       *)
(* (shared/ges/gemp_gamerules.cpp) that it drives and that drives it: the  *)
(* match and round timers, the scores and the change of level.             *)
(*                                                                         *)
(* The server calls Think once per frame.  The gameplay manager acts on it *)
(* at most every 0.1 s; ready says that it will act on the next frame, and *)
(* a Tick, the passing of one unit of time, makes it ready again.  Between *)
(* two frames come the console commands and cvar changes of the server's   *)
(* operator and the calls of the Python scenario, in any order.            *)
(*                                                                         *)
(* All times are relative: what is left of an intermission, of a timer     *)
(* (module Countdown) or until the level changes.                          *)
(***************************************************************************)
EXTENDS Countdown

CONSTANTS
  RoundTimes, TimeLimits, RoundCounts,  \* values given to the three cvars
  SetTimes, Adjustments,                \* arguments of the round timer calls
  MinRoundTime, MaxRoundTime,           \* ge_roundtime: its 60 s and 3000 s
  RoundDelay, SkipDelay, ChatTime,      \* ge_rounddelay, 3 s, mp_chattime
  MatchTail,                            \* the 30 s not worth another round
  ChangeDelay,                          \* GE_CHANGELEVEL_DELAY
  ScenarioAnswers,                      \* what CanRoundEnd, CanMatchEnd return
  ScenarioResetsScores,                 \* whether OnRoundBegin resets players
  Sides, Teams,                         \* holders of a score; those that are teams
  Maps,                                 \* the maps the server has
  RawMaps,                              \* values given to the cvar nextlevel
  Rotation,                             \* the maps it picks by itself
  Transition,                           \* ge_transition
  Heavy,                                \* pairs of maps that need a transition
  NoMap,                                \* the empty string
  MaxRounds, MaxOverrun, MaxLength, MaxPoints   \* bounds, see below

(***************************************************************************)
(* roundCount stops at MaxRounds: the code asks only whether it exceeds 1. *)
(* A timer stops MaxOverrun after it expired: ChangeLength restarts a      *)
(* timer that expired longer ago than it is extended, however long ago.    *)
(* MaxLength and MaxPoints bound what additions and scoring reach.         *)
(***************************************************************************)
ASSUME GameplayAssumption ==
  /\ RoundTimes \subseteq Nat /\ TimeLimits \subseteq Nat /\ RoundCounts \subseteq Nat
  /\ TimeLimits # {}
  /\ SetTimes \subseteq Int /\ Adjustments \subseteq Int
  /\ MinRoundTime \in Nat /\ MaxRoundTime \in Nat
  /\ RoundDelay \in Nat /\ SkipDelay \in Nat /\ ChatTime \in Nat
  /\ MatchTail \in Nat /\ ChangeDelay \in Nat
  /\ ScenarioAnswers \subseteq BOOLEAN /\ ScenarioResetsScores \in BOOLEAN
  /\ Teams \subseteq Sides
  /\ Rotation \subseteq Maps /\ Transition \in Maps /\ NoMap \notin Maps \cup RawMaps
  /\ MaxRounds \in Nat /\ MaxRounds > 1
  /\ MaxOverrun \in Nat /\ MaxLength \in Nat /\ MaxPoints \in Nat

VARIABLES
  roundState,    \* m_iRoundState
  gameOver,      \* m_bGameOver
  roundCount,    \* m_iRoundCount
  intermission,  \* time left until m_flIntermissionEndTime
  ready,         \* m_flNextThink is not in the future
  matchTimer,    \* m_hMatchTimer
  roundTimer,    \* m_hRoundTimer
  geRoundTime,   \* ge_roundtime
  timeLimit,     \* mp_timelimit, as a time
  geRoundCount,  \* ge_roundcount
  roundScore,    \* round score of each side
  matchScore,    \* match score of each side
  map,           \* the level being played
  nextlevel,     \* the cvar nextlevel
  nextnext,      \* the cvar ge_nextnextmap
  chosen,        \* m_szNextLevel
  levelChange,   \* whether m_flChangeLevelTime is set, or moved to infinity
  levelTimer,    \* time left until m_flChangeLevelTime
  changing,      \* the map of __real_changelevel in the command buffer
  pending        \* the map of ge_endmatch in the command buffer

stateVars  == <<roundState, gameOver, roundCount, intermission>>
cvars      == <<geRoundTime, timeLimit, geRoundCount>>
scores     == <<roundScore, matchScore>>
changeVars == <<map, nextnext, chosen, levelChange, levelTimer, changing>>
levelVars  == <<changeVars, nextlevel, pending>>

vars == <<stateVars, ready, matchTimer, roundTimer, cvars, scores, levelVars>>

RoundStates == {"NONE", "PRE_START", "PLAYING", "INTERMISSION", "GAME_OVER"}

Names == Maps \cup RawMaps \cup {NoMap}

TypeOK ==
  /\ roundState \in RoundStates
  /\ gameOver \in BOOLEAN
  /\ roundCount \in 0 .. MaxRounds
  /\ intermission \in Nat
  /\ ready \in BOOLEAN
  /\ matchTimer \in Timer
  /\ roundTimer \in Timer
  /\ geRoundTime \in Nat /\ timeLimit \in Nat /\ geRoundCount \in Nat
  /\ roundScore \in [Sides -> Nat]
  /\ matchScore \in [Sides -> Nat]
  /\ map \in Maps
  /\ {nextlevel, nextnext, chosen, changing, pending} \subseteq Names
  /\ levelChange \in {"none", "armed", "spent"}
  /\ levelTimer \in Int

-----------------------------------------------------------------------------
(***************************************************************************)
(* Cvars.  Setting ge_roundtime changes the round timer; ge_roundcount and *)
(* mp_timelimit recompute ge_roundtime.  A cvar set to the value it has    *)
(* calls nobody.                                                           *)
(***************************************************************************)
\* The cvar's own maximum, applied before it is compared with its value.
Capped(v) == IF v > MaxRoundTime THEN MaxRoundTime ELSE v

AtLeastMinimum(v) == IF v > 0 /\ v < MinRoundTime THEN MinRoundTime ELSE v

\* Mutant of RoundTimeFor: a delay after the last round as well.
RoundTimeForDelays(n, limit, time) ==
  LET delay == (IF RoundDelay > SkipDelay THEN RoundDelay ELSE SkipDelay) * n
  IN  IF n = 0 THEN time
      ELSE IF n = 1 THEN limit
      ELSE IF limit > delay THEN (limit - delay) \div n
      ELSE time

\* The round time that fits n rounds and the delays between them in a match.
RoundTimeFor(n, limit, time) ==
  LET delay == (IF RoundDelay > SkipDelay THEN RoundDelay ELSE SkipDelay) * (n - 1)
  IN  IF n = 0 THEN time
      ELSE IF n = 1 THEN limit
      ELSE IF limit > delay THEN (limit - delay) \div n
      ELSE time

\* ge_roundtime and the round timer t after ge_roundtime is set to v.
PutRoundTime(t, v) ==
  IF Capped(v) = geRoundTime
  THEN /\ roundTimer' = t
       /\ UNCHANGED geRoundTime
  ELSE /\ geRoundTime' = AtLeastMinimum(Capped(v))
       /\ roundTimer' = ChangeTimer(t, AtLeastMinimum(Capped(v)))

\* Mutant of HandleTimeLimitChange: the limit becomes the time left.
HandleTimeLimitChangeLeft(m, t, limit) ==
  /\ matchTimer' = SetTimer(m, limit)
  /\ PutRoundTime(t, IF limit > 0 THEN RoundTimeFor(geRoundCount, limit, geRoundTime)
                     ELSE geRoundTime)

\* mp_timelimit is limit: the match timer m and the round timer t follow.
HandleTimeLimitChange(m, t, limit) ==
  /\ matchTimer' = ChangeTimer(m, limit)
  /\ PutRoundTime(t, IF limit > 0 THEN RoundTimeFor(geRoundCount, limit, geRoundTime)
                     ELSE geRoundTime)

SetRoundTime(v) ==
  /\ PutRoundTime(roundTimer, v)
  /\ UNCHANGED <<stateVars, ready, matchTimer, timeLimit, geRoundCount, scores,
                 levelVars>>

SetRoundCount(n) ==
  /\ n # geRoundCount
  /\ geRoundCount' = n
  /\ PutRoundTime(roundTimer, RoundTimeFor(n, timeLimit, geRoundTime))
  /\ UNCHANGED <<stateVars, ready, matchTimer, timeLimit, scores, levelVars>>

SetTimeLimit(v) ==
  /\ v # timeLimit
  /\ timeLimit' = v
  /\ HandleTimeLimitChange(matchTimer, roundTimer, v)
  /\ UNCHANGED <<stateVars, ready, geRoundCount, scores, levelVars>>

-----------------------------------------------------------------------------
(***************************************************************************)
(* The round timer, as the scenario and the operator call it.              *)
(***************************************************************************)
ChangeRoundTimerTo(t) ==
  /\ roundTimer' = t
  /\ UNCHANGED <<stateVars, ready, matchTimer, cvars, scores, levelVars>>

\* Mutant of SetRoundTimerEnabled: a disabled timer keeps running.
DisabledTimerRuns(b) == ChangeRoundTimerTo([roundTimer EXCEPT !.enabled = b])

SetRoundTimer(n)        == ChangeRoundTimerTo(SetTimer(roundTimer, n))
SetRoundTimerEnabled(b) == ChangeRoundTimerTo(SetEnabled(roundTimer, b, geRoundTime))

AddToRoundTimer(n) ==
  /\ roundTimer.length + n <= MaxLength
  /\ ChangeRoundTimerTo(AddToTimer(roundTimer, n))

-----------------------------------------------------------------------------
(***************************************************************************)
(* Rounds and matches.                                                     *)
(***************************************************************************)
IsInRound             == roundState = "PLAYING"
IsInRoundIntermission == roundState = "INTERMISSION"
IsInFinalIntermission == roundState = "GAME_OVER"

\* ROUND_END: the round timer stops and every side's round score is banked.
OnRoundEnd ==
  /\ roundTimer' = Halt(roundTimer)
  /\ matchScore' = [s \in Sides |-> matchScore[s] + roundScore[s]]
  /\ UNCHANGED roundScore

\* Mutant of OnRoundStart: a round timer that runs already is left alone.
OnRoundStartKeepsTimer(toggled) ==
  /\ roundTimer' = IF roundTimer.started THEN roundTimer
                   ELSE Begin(roundTimer, geRoundTime)
  /\ roundScore' = [s \in Sides |->
       IF s \in Teams \/ toggled \/ ScenarioResetsScores THEN 0 ELSE roundScore[s]]
  /\ matchScore' = [s \in Sides |->
       IF s \in Teams /\ toggled THEN 0 ELSE matchScore[s]]

(***************************************************************************)
(* Setting the round up may toggle teamplay, which resets all round scores *)
(* and the match scores of the teams.  ROUND_START then resets the round   *)
(* scores of the teams; those of the players are left to the scenario.     *)
(***************************************************************************)
OnRoundStart(toggled) ==
  /\ roundTimer' = Begin(roundTimer, geRoundTime)
  /\ roundScore' = [s \in Sides |->
       IF s \in Teams \/ toggled \/ ScenarioResetsScores THEN 0 ELSE roundScore[s]]
  /\ matchScore' = [s \in Sides |->
       IF s \in Teams /\ toggled THEN 0 ELSE matchScore[s]]

StartRound ==
  /\ roundCount' = IF roundCount < MaxRounds THEN roundCount + 1 ELSE roundCount
  /\ roundState' = "PLAYING"
  /\ \E toggled \in BOOLEAN : OnRoundStart(toggled)
  /\ UNCHANGED <<gameOver, intermission>>

EndRound(showreport, over) ==
  /\ roundState' = "INTERMISSION"
  /\ intermission' = IF showreport THEN RoundDelay ELSE SkipDelay
  /\ gameOver' = over
  /\ OnRoundEnd
  /\ UNCHANGED roundCount

\* Mutant of EndMatch: even a single round gets its own report.
EndMatchReportsAlways ==
  IF IsInRound
  THEN EndRound(TRUE, TRUE)
  ELSE /\ gameOver' = TRUE
       /\ roundState' = "GAME_OVER"
       /\ intermission' = ChatTime
       /\ UNCHANGED <<roundTimer, scores, roundCount>>

\* Mutant of EndMatch: the scores are banked again after the intermission.
EndMatchBanksAgain ==
  IF IsInRound /\ roundCount > 1
  THEN EndRound(TRUE, TRUE)
  ELSE /\ gameOver' = TRUE
       /\ roundState' = "GAME_OVER"
       /\ intermission' = ChatTime
       /\ OnRoundEnd
       /\ UNCHANGED roundCount

EndMatch ==
  IF IsInRound /\ roundCount > 1
  THEN EndRound(TRUE, TRUE)
  ELSE /\ gameOver' = TRUE
       /\ roundState' = "GAME_OVER"
       /\ intermission' = ChatTime
       /\ IF IsInRound THEN OnRoundEnd ELSE UNCHANGED <<roundTimer, scores>>
       /\ UNCHANGED roundCount

ShouldEndRound(canRoundEnd) == Expired(roundTimer) /\ canRoundEnd

\* Mutant of ShouldEndMatch: the match time must be exceeded.
ShouldEndMatchLate(canRoundEnd, canMatchEnd) ==
  \/ gameOver
  \/ /\ IsInRound /\ Running(roundTimer) => ShouldEndRound(canRoundEnd)
     /\ Running(matchTimer)
     /\ Remaining(matchTimer) < IF IsInRoundIntermission THEN MatchTail ELSE 0
     /\ canMatchEnd

ShouldEndMatch(canRoundEnd, canMatchEnd) ==
  \/ gameOver
  \/ /\ IsInRound /\ Running(roundTimer) => ShouldEndRound(canRoundEnd)
     /\ Running(matchTimer)
     /\ Remaining(matchTimer) <= IF IsInRoundIntermission THEN MatchTail ELSE 0
     /\ canMatchEnd

\* Mutant of InitialState: the next match is over as well.
InitialStateStaysOver ==
  /\ roundState' = "PRE_START"
  /\ gameOver' = gameOver
  /\ roundCount' = 0
  /\ intermission' = 0
  /\ ready' = TRUE
  /\ roundScore' = [s \in Sides |-> 0]
  /\ matchScore' = [s \in Sides |-> 0]

InitialState ==
  /\ roundState' = "PRE_START"
  /\ gameOver' = FALSE
  /\ roundCount' = 0
  /\ intermission' = 0
  /\ ready' = TRUE
  /\ roundScore' = [s \in Sides |-> 0]
  /\ matchScore' = [s \in Sides |-> 0]

(***************************************************************************)
(* A scenario is loaded (ge_gameplay is set): the gameplay starts afresh   *)
(* and a new match begins, with the match timer as it stands.              *)
(***************************************************************************)
LoadScenario ==
  /\ InitialState
  /\ roundTimer' = SetEnabled(roundTimer, TRUE, geRoundTime)
  /\ UNCHANGED <<matchTimer, cvars, levelVars>>

-----------------------------------------------------------------------------
(***************************************************************************)
(* The change of level.                                                    *)
(***************************************************************************)
ArmLevelChange(m) ==
  /\ chosen' = IF <<map, m>> \in Heavy THEN Transition ELSE m
  /\ nextnext' = IF <<map, m>> \in Heavy THEN m ELSE nextnext
  /\ levelChange' = "armed"
  /\ levelTimer' = ChangeDelay
  /\ UNCHANGED <<map, changing, pending>>

SetupChangeLevelTo(m) == nextlevel' = m /\ ArmLevelChange(m)

SetupChangeLevel ==
  /\ \E m \in IF nextlevel # NoMap THEN {nextlevel} ELSE Rotation : ArmLevelChange(m)
  /\ UNCHANGED nextlevel

LevelDue == levelChange = "armed" /\ levelTimer < 0

\* The level that was chosen, or none: then nothing changes and all is spent.
ChangeLevel ==
  /\ levelChange' = "spent"
  /\ changing' = chosen
  /\ UNCHANGED <<map, nextlevel, nextnext, chosen, levelTimer, pending>>

\* Mutant of WantsLevelChange: the remaining time must be exceeded.
WantsLevelChangeLate ==
  /\ ready /\ gameOver /\ IsInFinalIntermission /\ intermission < 0
  /\ levelChange = "none"

\* The commands that the code itself queued run before the next frame.
Buffered == changing # NoMap \/ pending # NoMap

\* The final intermission is over and the next level is not set up yet.
WantsLevelChange ==
  /\ ready /\ gameOver /\ IsInFinalIntermission /\ intermission = 0
  /\ levelChange = "none"

-----------------------------------------------------------------------------
(***************************************************************************)
(* CGEMPRules::Think, once per server frame.                               *)
(***************************************************************************)
OnThink(canRoundEnd, canMatchEnd) ==
  LET starts == \/ roundState = "PRE_START"
                \/ /\ IsInRoundIntermission /\ intermission = 0
                   /\ ~ShouldEndMatch(canRoundEnd, canMatchEnd)
      ends   == /\ IsInRound \/ (IsInRoundIntermission /\ intermission = 0)
                /\ ShouldEndMatch(canRoundEnd, canMatchEnd)
      stops  == IsInRound /\ ~ends /\ ShouldEndRound(canRoundEnd)
  IN  \/ starts /\ StartRound
      \/ ends /\ EndMatch
      \/ stops /\ EndRound(TRUE, gameOver)
      \/ ~starts /\ ~ends /\ ~stops /\ UNCHANGED <<stateVars, roundTimer, scores>>

Think ==
  /\ ~Buffered /\ (ready \/ LevelDue)
  /\ ready' = FALSE
  /\ IF ready THEN \E r, m \in ScenarioAnswers : OnThink(r, m)
     ELSE UNCHANGED <<stateVars, roundTimer, scores>>
  /\ \/ LevelDue /\ ChangeLevel
     \/ ~LevelDue /\ WantsLevelChange /\ SetupChangeLevel
     \/ ~LevelDue /\ ~WantsLevelChange /\ UNCHANGED levelVars
  /\ UNCHANGED <<matchTimer, cvars>>

Pass(t) == IF t.left > -MaxOverrun THEN Elapse(t, 1) ELSE t

\* Mutant of Tick: the intermission's remaining time falls below zero.
TickBelowZero ==
  /\ ~Buffered /\ ~ready /\ ~LevelDue
  /\ ready' = TRUE
  /\ intermission' = intermission - 1
  /\ matchTimer' = Pass(matchTimer)
  /\ roundTimer' = Pass(roundTimer)
  /\ levelTimer' = IF levelChange = "armed" THEN levelTimer - 1 ELSE levelTimer
  /\ UNCHANGED <<roundState, gameOver, roundCount, cvars, scores,
                 map, nextlevel, nextnext, chosen, levelChange, changing, pending>>

\* One unit of time, after every frame that was due before it has run.
Tick ==
  /\ ~Buffered /\ ~ready /\ ~LevelDue
  /\ ready' = TRUE
  /\ intermission' = AtLeastZero(intermission - 1)
  /\ matchTimer' = Pass(matchTimer)
  /\ roundTimer' = Pass(roundTimer)
  /\ levelTimer' = IF levelChange = "armed" THEN levelTimer - 1 ELSE levelTimer
  /\ UNCHANGED <<roundState, gameOver, roundCount, cvars, scores,
                 map, nextlevel, nextnext, chosen, levelChange, changing, pending>>

\* Mutant of LevelInitPreEntity: ge_nextnextmap is cleared and not followed.
LevelInitStays ==
  /\ nextlevel' = NoMap /\ chosen' = NoMap /\ nextnext' = NoMap
  /\ levelChange' = "none" /\ levelTimer' = 0

\* Mutant of LevelInitPreEntity: ge_nextnextmap is followed and not cleared.
LevelInitKeepsNextNext ==
  IF nextnext \in Maps
  THEN /\ nextlevel' = nextnext
       /\ chosen' = IF <<changing, nextnext>> \in Heavy THEN Transition ELSE nextnext
       /\ levelChange' = "armed" /\ levelTimer' = ChangeDelay
       /\ UNCHANGED nextnext
  ELSE /\ nextlevel' = NoMap /\ chosen' = NoMap
       /\ levelChange' = "none" /\ levelTimer' = 0
       /\ UNCHANGED nextnext

\* Mutant of LevelInitPreEntity: the level that was chosen last stays chosen.
LevelInitKeepsChosen ==
  IF nextnext \in Maps
  THEN /\ nextlevel' = nextnext
       /\ chosen' = IF <<changing, nextnext>> \in Heavy THEN Transition ELSE nextnext
       /\ nextnext' = NoMap
       /\ levelChange' = "armed" /\ levelTimer' = ChangeDelay
  ELSE /\ nextlevel' = NoMap
       /\ levelChange' = "none" /\ levelTimer' = 0
       /\ UNCHANGED <<nextnext, chosen>>

\* The rules start without a next level, or with the one after a transition.
LevelInitPreEntity ==
  IF nextnext \in Maps
  THEN /\ nextlevel' = nextnext
       /\ chosen' = IF <<changing, nextnext>> \in Heavy THEN Transition ELSE nextnext
       /\ nextnext' = NoMap
       /\ levelChange' = "armed" /\ levelTimer' = ChangeDelay
  ELSE /\ nextlevel' = NoMap /\ chosen' = NoMap
       /\ levelChange' = "none" /\ levelTimer' = 0
       /\ UNCHANGED nextnext

(***************************************************************************)
(* The engine runs __real_changelevel: the game rules are created again    *)
(* and load a scenario, or the map does not exist and nothing happens.     *)
(***************************************************************************)
NewLevel ==
  /\ changing \in Maps
  /\ map' = changing
  /\ changing' = NoMap
  /\ InitialState
  /\ HandleTimeLimitChange(Fresh, Fresh, timeLimit)
  /\ UNCHANGED <<timeLimit, geRoundCount, pending>>
  /\ LevelInitPreEntity

LevelRefused ==
  /\ changing \notin Maps \cup {NoMap}
  /\ changing' = NoMap
  /\ UNCHANGED <<stateVars, ready, matchTimer, roundTimer, cvars, scores, map,
                 nextlevel, nextnext, chosen, levelChange, levelTimer, pending>>

-----------------------------------------------------------------------------
(***************************************************************************)
(* Commands of the operator and calls of the scenario.                     *)
(***************************************************************************)
\* Mutant of EndRoundNow: an intermission can be ended into another one.
EndRoundAgain(showreport) ==
  /\ IsInRound \/ IsInRoundIntermission
  /\ EndRound(showreport, gameOver)
  /\ UNCHANGED <<ready, matchTimer, cvars, levelVars>>

EndRoundNow(showreport) ==
  /\ IsInRound
  /\ EndRound(showreport, gameOver)
  /\ UNCHANGED <<ready, matchTimer, cvars, levelVars>>

\* Mutant of EndMatchNow: a match that is over can be ended again.
EndMatchAgain(m) ==
  /\ EndMatch
  /\ nextlevel' = IF m = NoMap THEN nextlevel ELSE m
  /\ UNCHANGED <<ready, matchTimer, cvars, changeVars, pending>>

\* ge_endmatch [m], or the scenario's EndMatch when m is NoMap.
EndMatchNow(m) ==
  /\ ~gameOver
  /\ EndMatch
  /\ nextlevel' = IF m = NoMap THEN nextlevel ELSE m
  /\ UNCHANGED <<ready, matchTimer, cvars, changeVars, pending>>

ChangeLevelNow(m) ==
  /\ SetupChangeLevelTo(m)
  /\ UNCHANGED <<stateVars, ready, matchTimer, roundTimer, cvars, scores>>

(***************************************************************************)
(* changelevel m [0]: at once, or by queueing ge_endmatch m, which finds a *)
(* match that is over by then or was over already and drops the map.       *)
(***************************************************************************)
ChangeLevelCommand(m, immediate) ==
  IF IsInFinalIntermission \/ immediate THEN ChangeLevelNow(m)
  ELSE /\ pending = NoMap /\ pending' = m
       /\ UNCHANGED <<stateVars, ready, matchTimer, roundTimer, cvars, scores,
                      changeVars, nextlevel>>

EndMatchQueued ==
  /\ pending # NoMap
  /\ pending' = NoMap
  /\ IF gameOver THEN UNCHANGED <<stateVars, roundTimer, scores, nextlevel>>
                  ELSE EndMatch /\ nextlevel' = pending
  /\ UNCHANGED <<ready, matchTimer, cvars, changeVars>>

(***************************************************************************)
(* changelevel_next, and the frame of a server that was empty for longer   *)
(* than mp_mapcycle_empty_timeout_seconds: ChangeLevel without the set up  *)
(* that chooses a level.  A bound: one __real_changelevel in the buffer.   *)
(***************************************************************************)
GotoNextMapInCycle ==
  /\ changing = NoMap
  /\ ChangeLevel
  /\ UNCHANGED <<stateVars, ready, matchTimer, roundTimer, cvars, scores>>

SetNextLevel(m) ==
  /\ nextlevel' = m
  /\ UNCHANGED <<stateVars, ready, matchTimer, roundTimer, cvars, scores,
                 changeVars, pending>>

Score(s) ==
  /\ roundScore[s] + matchScore[s] < MaxPoints
  /\ roundScore' = [roundScore EXCEPT ![s] = @ + 1]
  /\ UNCHANGED <<stateVars, ready, matchTimer, roundTimer, cvars, matchScore, levelVars>>
-----------------------------------------------------------------------------
Init ==
  /\ roundState = "PRE_START" /\ gameOver = FALSE /\ roundCount = 0
  /\ intermission = 0 /\ ready = TRUE
  /\ geRoundTime \in {AtLeastMinimum(Capped(v)) : v \in RoundTimes}
  /\ timeLimit \in TimeLimits
  /\ geRoundCount = 0
  /\ matchTimer = ChangeTimer(Fresh, timeLimit)
  /\ roundTimer = Fresh
  /\ roundScore = [s \in Sides |-> 0] /\ matchScore = [s \in Sides |-> 0]
  /\ map \in Rotation
  /\ nextlevel = NoMap /\ nextnext = NoMap /\ chosen = NoMap
  /\ levelChange = "none" /\ levelTimer = 0 /\ changing = NoMap /\ pending = NoMap

Server == Think \/ Tick \/ NewLevel \/ LevelRefused \/ EndMatchQueued

CvarChange ==
  \/ \E v \in RoundTimes : SetRoundTime(v)
  \/ \E n \in RoundCounts : SetRoundCount(n)
  \/ \E v \in TimeLimits : SetTimeLimit(v)
  \/ \E m \in RawMaps : SetNextLevel(m)

TimerCall ==
  \/ \E n \in SetTimes : SetRoundTimer(n)
  \/ \E n \in Adjustments : AddToRoundTimer(n)
  \/ \E b \in BOOLEAN : SetRoundTimerEnabled(b)

EndCall ==
  \/ \E b \in BOOLEAN : EndRoundNow(b)
  \/ \E m \in Maps \cup {NoMap} : EndMatchNow(m)

Play == \E s \in Sides : Score(s)

LevelCommand ==
  \/ \E m \in Maps, b \in BOOLEAN : ChangeLevelCommand(m, b)
  \/ GotoNextMapInCycle

Next ==
  Server \/ CvarChange \/ TimerCall \/ EndCall \/ Play \/ LevelCommand \/ LoadScenario

Spec == Init /\ [][Next]_vars

(***************************************************************************)
(* The engine runs frames, the clock advances and the command buffer is    *)
(* executed.  CalmSpec leaves out what starts the wait for the next level  *)
(* over, loading a scenario and changelevel, and what gives it up for      *)
(* good, changelevel_next while no level is chosen.                        *)
(***************************************************************************)
Fairness ==
  /\ WF_vars(Think) /\ WF_vars(Tick)
  /\ WF_vars(NewLevel) /\ WF_vars(LevelRefused) /\ WF_vars(EndMatchQueued)

CalmNext == Server \/ CvarChange \/ TimerCall \/ EndCall \/ Play

CalmSpec == Init /\ [][CalmNext]_vars /\ Fairness

\* A server whose operator plans the rounds of a match and leaves it alone.
PlannedNext ==
  \/ Server
  \/ roundState = "PRE_START" /\ \E n \in RoundCounts : SetRoundCount(n)

PlannedSpec == Init /\ [][PlannedNext]_vars

-----------------------------------------------------------------------------
(***************************************************************************)
(* The flags of the match agree with its phase.  A match that is over is   *)
(* not in a round and not waiting for its first one; if it waits for the   *)
(* report of its last round it had more than one (EndMatch skips that      *)
(* report otherwise); only a match that is over is in its final            *)
(* intermission.  OnThink relies on all of it: it starts the first round   *)
(* without asking whether the game is over.                                *)
(***************************************************************************)
OverMeansOver ==
  /\ gameOver => roundState \in {"INTERMISSION", "GAME_OVER"}
  /\ gameOver /\ IsInRoundIntermission => roundCount > 1
  /\ IsInFinalIntermission => gameOver
  /\ IsInRound \/ IsInRoundIntermission => roundCount > 0
  /\ roundState = "PRE_START" => roundCount = 0
  /\ roundState # "NONE"

(***************************************************************************)
(* The timers of the rules are coherent whatever was changed, added and    *)
(* disabled in whatever phase: a stopped timer shows no time and no        *)
(* length, a disabled one is stopped, a started one has a positive length  *)
(* that is never below what is left, and nothing is ever paused.           *)
(***************************************************************************)
CoherentTimer(t) ==
  /\ ~t.paused
  /\ t.started => t.enabled /\ t.length > 0 /\ t.left <= t.length
  /\ ~t.started => t.left = 0 /\ t.length = 0

TimersCoherent ==
  /\ CoherentTimer(matchTimer) /\ CoherentTimer(roundTimer)
  /\ matchTimer.enabled

(***************************************************************************)
(* The match timer has the length mp_timelimit says, however often that    *)
(* was changed, before or after the timer expired.                         *)
(***************************************************************************)
MatchTimeIsLimit == matchTimer.length = timeLimit

(***************************************************************************)
(* However a level comes to change - by the match, changelevel,            *)
(* changelevel_next or an empty server - it changes to one that was chosen *)
(* since it began, a wait leads to such a level, and one that is chosen is *)
(* waited for or was gone to.  A change that is spent need not have had a  *)
(* level: changelevel_next does not choose one.                            *)
(***************************************************************************)
ChangeIsPrepared ==
  /\ changing # NoMap \/ levelChange = "armed" => chosen # NoMap
  /\ chosen # NoMap => levelChange # "none"

(***************************************************************************)
(* The match and its change of level implement MatchLifecycle: no round    *)
(* after the end, one last report, no way back, no revoked announcement.   *)
(***************************************************************************)
Phase ==
  CASE IsInRound             -> "round"
    [] IsInRoundIntermission -> "break"
    [] IsInFinalIntermission -> "final"
    [] OTHER                 -> "warmup"

L == INSTANCE MatchLifecycle WITH
  phase     <- Phase,
  ending    <- gameOver,
  several   <- roundCount > 1,
  announced <- chosen # NoMap

ImplementsLifecycle == L!Spec

(***************************************************************************)
(* No command, late think or scenario call prolongs the final intermission *)
(* or leads back from it to a round of the same match: its remaining time  *)
(* only falls, and the match's score is final.                             *)
(***************************************************************************)
FinalIntermissionIsFinal ==
  [][IsInFinalIntermission /\ roundState' # "PRE_START" =>
       /\ IsInFinalIntermission'
       /\ intermission' <= intermission
       /\ matchScore' = matchScore]_vars

(***************************************************************************)
(* Every round is played on its own time: a round starts with the whole of *)
(* ge_roundtime, also when the timer was started during the intermission   *)
(* or still ran when the scenario was loaded, and a round that ends leaves *)
(* no time running.                                                        *)
(***************************************************************************)
RoundsHaveTheirTime ==
  [][/\ ~IsInRound /\ IsInRound' /\ roundTimer'.enabled
          => Remaining(roundTimer') = geRoundTime'
     /\ IsInRound /\ (IsInRoundIntermission' \/ IsInFinalIntermission')
          => ~roundTimer'.started]_vars

(***************************************************************************)
(* ge_roundcount rounds are played in a match whose time allows them: the  *)
(* round time computed from it, the delays between rounds, the 30 s that   *)
(* are not worth another round and the wait for the last round fit.        *)
(***************************************************************************)
PlanFits ==
  /\ geRoundCount > 0 /\ geRoundTime > 0
  /\ geRoundTime = RoundTimeFor(geRoundCount, timeLimit, 0)

RoundsAsPlanned == gameOver /\ PlanFits => roundCount = geRoundCount

-----------------------------------------------------------------------------
(***************************************************************************)
(* A match that is over is followed by a change of level, however the      *)
(* timers and the scores are changed meanwhile.  It is spent even if the   *)
(* engine refuses the level; nothing tries again in that match.            *)
(***************************************************************************)
EndLeadsToNewLevel == gameOver ~> levelChange = "spent"

(***************************************************************************)
(* An intermission ends: with a round, or with the match.                  *)
(***************************************************************************)
IntermissionEnds == IsInRoundIntermission ~> ~IsInRoundIntermission

(***************************************************************************)
(* When the match time is up and the scenario agrees, the match ends; the  *)
(* round that is being played is waited for, but it ends as well, unless   *)
(* ge_roundtime or the round timer is changed again and again.             *)
(***************************************************************************)
MatchTimeEndsMatch ==
  <>[][~TimerCall /\ UNCHANGED geRoundTime]_vars =>
    (Expired(matchTimer) ~> gameOver \/ ~Expired(matchTimer))

(***************************************************************************)
(* A level that needs the transition map is reached through it.            *)
(***************************************************************************)
TransitionLeadsOn ==
  \A m \in Maps \ {Transition} :
    (changing = Transition /\ nextnext = m) ~> map = m

-----------------------------------------------------------------------------
(***************************************************************************)
(* gemp_gamerules.cpp:113 says that ge_nextnextmap is the map to switch to *)
(* upon loading the next map, which is the transition map: a level that is *)
(* no transition does not start with its own end announced.  It holds as   *)
(* long as no changelevel overrules a change that was set up already.      *)
(***************************************************************************)
OnlyTransitionsPass ==
  [][NewLevel /\ levelChange' # "none" => map' = Transition]_vars

=============================================================================
