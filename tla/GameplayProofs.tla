--------------------------- MODULE GameplayProofs ---------------------------
(***************************************************************************)
(* Proofs about Gameplay, for all values of its constants: its types, the  *)
(* agreement of its flags, the coherence of its timers, that it implements *)
(* MatchLifecycle, that its rounds have their time and its match timer the *)
(* length of the limit, and when a level starts with its end announced.    *)
(***************************************************************************)
EXTENDS Gameplay, TLAPS

-----------------------------------------------------------------------------
(***************************************************************************)
(* The operations of a countdown keep it well typed and coherent.          *)
(***************************************************************************)
Good(t) == t \in Timer /\ CoherentTimer(t)

LEMMA WholeBounds ==
  ASSUME NEW d \in Int
  PROVE  /\ Whole(d) \in Int
         /\ d >= 0 => Whole(d) >= 0 /\ Whole(d) <= d
         /\ d <= 0 => Whole(d) <= 0 /\ d <= Whole(d)
<1>1. Second \in Nat \ {0}
  BY SecondAssumption
<1>2. ASSUME NEW e \in Nat
      PROVE  /\ (e \div Second) * Second \in Int
             /\ 0 <= (e \div Second) * Second
             /\ (e \div Second) * Second <= e
  BY <1>1, SMTT(30)
<1>3. CASE d >= 0
  BY <1>2, <1>3 DEF Whole
<1>4. CASE d < 0
  <2>1. -d \in Nat
    BY <1>4
  <2>2. /\ ((-d) \div Second) * Second \in Int
        /\ 0 <= ((-d) \div Second) * Second
        /\ ((-d) \div Second) * Second <= -d
    BY <1>2, <2>1
  <2>3. QED BY <1>4, <2>2 DEF Whole
<1>5. QED BY <1>3, <1>4

LEMMA FreshGood == Good(Fresh) /\ Fresh.enabled
BY DEF Good, Fresh, TimerOf, Timer, CoherentTimer

LEMMA HaltGood ==
  ASSUME NEW t, Good(t)
  PROVE  Good(Halt(t)) /\ Halt(t).enabled = t.enabled
BY DEF Good, Halt, TimerOf, Timer, CoherentTimer

LEMMA BeginGood ==
  ASSUME NEW t, Good(t), NEW n \in Int
  PROVE  Good(Begin(t, n)) /\ Begin(t, n).enabled = t.enabled
<1>1. CASE t.enabled /\ ~(n <= 0)
  <2>1. Begin(t, n) = TimerOf(TRUE, TRUE, FALSE, n, n)
    BY <1>1 DEF Begin
  <2>2. /\ Good(TimerOf(TRUE, TRUE, FALSE, n, n))
        /\ TimerOf(TRUE, TRUE, FALSE, n, n).enabled = t.enabled
    BY <1>1 DEF Good, TimerOf, Timer, CoherentTimer
  <2>3. QED BY <2>1, <2>2, Zenon
<1>2. CASE ~(t.enabled /\ ~(n <= 0))
  BY <1>2, HaltGood DEF Begin
<1>3. QED BY <1>1, <1>2

LEMMA HavingGood ==
  ASSUME NEW t, Good(t), t.started, NEW left \in Int, NEW len \in Int,
         len > 0, left <= len
  PROVE  Good(Having(t, left, len)) /\ Having(t, left, len).enabled = t.enabled
BY DEF Good, Having, TimerOf, Timer, CoherentTimer

LEMMA ExtendGood ==
  ASSUME NEW t, Good(t), NEW n \in Int
  PROVE  Good(Extend(t, n)) /\ Extend(t, n).enabled = t.enabled
<1> DEFINE d == Whole(n - t.length)
<1>0. t.length \in Int /\ t.left \in Int /\ (t.started => t.left <= t.length)
  BY DEF Good, Timer, CoherentTimer
<1>1. d \in Int
  BY <1>0, WholeBounds
<1> HIDE DEF d
<1>2. CASE t.enabled /\ ~(n <= 0) /\ t.started /\ t.left + d > 0
  <2>1. t.left + d \in Int /\ t.length + d \in Int /\ t.length + d > 0
        /\ t.left + d <= t.length + d
    BY <1>0, <1>1, <1>2
  <2>2. Extend(t, n) = Having(t, t.left + d, t.length + d)
    BY <1>2 DEF Extend, d
  <2>3. /\ Good(Having(t, t.left + d, t.length + d))
        /\ Having(t, t.left + d, t.length + d).enabled = t.enabled
    BY <1>2, <2>1, HavingGood
  <2>4. QED BY <2>2, <2>3, Zenon
<1>3. CASE t.enabled /\ ~(n <= 0) /\ t.started /\ ~(t.left + d > 0)
  <2>1. Extend(t, n) = Having(t, n, n)
    BY <1>3 DEF Extend, d
  <2>2. /\ Good(Having(t, n, n))
        /\ Having(t, n, n).enabled = t.enabled
    <3>1. n > 0 /\ n <= n /\ t.started
      BY <1>3
    <3>2. QED BY <3>1, HavingGood
  <2>3. QED BY <2>1, <2>2, Zenon
<1>4. CASE ~(t.enabled /\ ~(n <= 0) /\ t.started)
  BY <1>4, HaltGood, BeginGood DEF Extend
<1>5. QED BY <1>2, <1>3, <1>4

LEMMA ChangeTimerGood ==
  ASSUME NEW t, Good(t), NEW n \in Int
  PROVE  Good(ChangeTimer(t, n)) /\ ChangeTimer(t, n).enabled = t.enabled
BY HaltGood, ExtendGood DEF ChangeTimer

LEMMA ResetGood ==
  ASSUME NEW t, Good(t), NEW n \in Int
  PROVE  Good(Reset(t, n))
BY HaltGood, BeginGood, HavingGood DEF Reset

LEMMA SetTimerGood ==
  ASSUME NEW t, Good(t), NEW n \in Int
  PROVE  Good(SetTimer(t, n))
BY HaltGood, ResetGood DEF SetTimer

LEMMA AddToTimerGood ==
  ASSUME NEW t, Good(t), NEW n \in Int
  PROVE  Good(AddToTimer(t, n))
<1>0. t.length \in Int /\ t.left \in Int /\ (t.started => t.left <= t.length)
  BY DEF Good, Timer, CoherentTimer
<1>1. CASE t.started /\ t.enabled /\ t.left + n > 0
  <2>1. t.left + n \in Int /\ t.length + n \in Int /\ t.length + n > 0
        /\ t.left + n <= t.length + n
    BY <1>0, <1>1
  <2>2. AddToTimer(t, n) = Having(t, t.left + n, t.length + n)
    BY <1>1 DEF AddToTimer, Add
  <2>3. QED BY <1>1, <2>1, <2>2, HavingGood
<1>2. CASE t.started /\ t.enabled /\ ~(t.left + n > 0)
  <2>1. AddToTimer(t, n) = Having(t, 0, Second)
    BY <1>2 DEF AddToTimer, Add
  <2>2. QED BY <1>2, <2>1, HavingGood, SecondAssumption
<1>3. CASE ~(t.started /\ t.enabled)
  BY <1>3 DEF AddToTimer, Add
<1>4. QED BY <1>1, <1>2, <1>3

LEMMA SetEnabledGood ==
  ASSUME NEW t, Good(t), NEW b \in BOOLEAN, NEW n \in Int
  PROVE  Good(SetEnabled(t, b, n))
<1>1. CASE t.enabled = b
  BY <1>1 DEF SetEnabled
<1>2. CASE t.enabled # b /\ b
  <2>1. t.enabled = FALSE /\ ~t.started /\ t.paused = FALSE /\ t.started = FALSE
        /\ t.left = 0 /\ t.length = 0
    BY <1>2 DEF Good, Timer, CoherentTimer
  <2>2. Good(TimerOf(TRUE, t.started, t.paused, t.left, t.length))
    BY <2>1 DEF Good, Timer, TimerOf, CoherentTimer
  <2>3. QED BY <1>2, <2>2, BeginGood DEF SetEnabled
<1>3. CASE t.enabled # b /\ ~b
  BY <1>3 DEF SetEnabled, Good, Timer, TimerOf, CoherentTimer
<1>4. QED BY <1>1, <1>2, <1>3

LEMMA PassGood ==
  ASSUME NEW t, Good(t)
  PROVE  Good(Pass(t)) /\ Pass(t).enabled = t.enabled
<1>1. CASE t.left > -MaxOverrun /\ t.started
  <2>1. /\ t.left - 1 \in Int /\ t.length \in Int /\ t.length > 0
        /\ t.left - 1 <= t.length
    BY <1>1 DEF Good, Timer, CoherentTimer
  <2>2. Pass(t) = Having(t, t.left - 1, t.length)
    BY <1>1 DEF Pass, Elapse, Running, Good, CoherentTimer
  <2>3. QED BY <1>1, <2>1, <2>2, HavingGood
<1>2. CASE ~(t.left > -MaxOverrun /\ t.started)
  BY <1>2 DEF Pass, Elapse, Running
<1>3. QED BY <1>1, <1>2

-----------------------------------------------------------------------------
(***************************************************************************)
(* The inductive invariant: the types, the agreement of the flags, the     *)
(* coherence of the timers and of the change of level.                     *)
(***************************************************************************)
Inv == TypeOK /\ OverMeansOver /\ TimersCoherent /\ ChangeIsPrepared

LEMMA InitInv == Init => Inv
<1> SUFFICES ASSUME Init PROVE Inv
  OBVIOUS
<1> USE GameplayAssumption
<1>1. geRoundTime \in Nat
  BY DEF Init, AtLeastMinimum, Capped
<1>2. timeLimit \in Nat /\ timeLimit \in Int
  BY DEF Init
<1>3. Good(matchTimer) /\ matchTimer.enabled
  BY <1>2, FreshGood, ChangeTimerGood DEF Init
<1>4. Good(roundTimer)
  BY FreshGood DEF Init
<1>5. TypeOK
  <2>1. /\ roundState \in RoundStates /\ gameOver \in BOOLEAN /\ ready \in BOOLEAN
        /\ levelChange \in {"none", "armed", "spent"}
    BY DEF Init, RoundStates
  <2>2. /\ roundCount \in 0 .. MaxRounds /\ intermission \in Nat /\ levelTimer \in Int
        /\ geRoundCount \in Nat
    BY DEF Init
  <2>3. matchTimer \in Timer /\ roundTimer \in Timer
    BY <1>3, <1>4 DEF Good
  <2>4. roundScore \in [Sides -> Nat] /\ matchScore \in [Sides -> Nat]
    BY DEF Init
  <2>5. map \in Maps
    BY DEF Init
  <2>6. {nextlevel, nextnext, chosen, changing, pending} \subseteq Names
    BY DEF Init, Names
  <2>7. QED BY <1>1, <1>2, <2>1, <2>2, <2>3, <2>4, <2>5, <2>6 DEF TypeOK
<1>6. OverMeansOver /\ ChangeIsPrepared
  BY DEF Init, OverMeansOver, ChangeIsPrepared, IsInRound,
         IsInRoundIntermission, IsInFinalIntermission
<1>7. TimersCoherent
  BY <1>3, <1>4 DEF TimersCoherent, Good
<1>8. QED BY <1>5, <1>6, <1>7 DEF Inv

-----------------------------------------------------------------------------
(***************************************************************************)
(* Timers and cvars.                                                       *)
(***************************************************************************)
CvarsOK == geRoundTime \in Nat /\ timeLimit \in Nat /\ geRoundCount \in Nat

TimersOK == Good(matchTimer) /\ matchTimer.enabled /\ Good(roundTimer) /\ CvarsOK

LEMMA RoundTimeForType ==
  ASSUME NEW n \in Nat, NEW limit \in Nat, NEW time \in Nat
  PROVE  RoundTimeFor(n, limit, time) \in Nat
<1> DEFINE longer == IF RoundDelay > SkipDelay THEN RoundDelay ELSE SkipDelay
           delay  == longer * (n - 1)
<1>1. CASE n \in {0, 1}
  BY <1>1 DEF RoundTimeFor
<1>2. CASE n > 1
  <2>1. longer \in Int
    BY GameplayAssumption
  <2>2. delay \in Int
    BY <2>1
  <2> HIDE DEF delay, longer
  <2>3. limit > delay => (limit - delay) \div n \in Nat
    BY <1>2, <2>2
  <2>4. RoundTimeFor(n, limit, time)
          = IF limit > delay THEN (limit - delay) \div n ELSE time
    BY <1>2 DEF RoundTimeFor, delay, longer
  <2>5. QED BY <2>3, <2>4
<1>3. QED BY <1>1, <1>2

LEMMA PutRoundTimeOK ==
  ASSUME NEW t, Good(t), NEW v \in Nat, geRoundTime \in Nat, PutRoundTime(t, v)
  PROVE  geRoundTime' \in Nat /\ Good(roundTimer')
<1>1. AtLeastMinimum(Capped(v)) \in Nat /\ AtLeastMinimum(Capped(v)) \in Int
  BY GameplayAssumption DEF AtLeastMinimum, Capped
<1>2. QED BY <1>1, ChangeTimerGood DEF PutRoundTime

LEMMA HandleTimeLimitChangeOK ==
  ASSUME NEW m, Good(m), m.enabled, NEW t, Good(t), NEW limit \in Nat, CvarsOK,
         HandleTimeLimitChange(m, t, limit)
  PROVE  /\ Good(matchTimer') /\ matchTimer'.enabled
         /\ Good(roundTimer') /\ geRoundTime' \in Nat
<1>1. limit \in Int
  OBVIOUS
<1>2. Good(matchTimer') /\ matchTimer'.enabled
  BY <1>1, ChangeTimerGood DEF HandleTimeLimitChange
<1>3. RoundTimeFor(geRoundCount, limit, geRoundTime) \in Nat /\ geRoundTime \in Nat
  BY RoundTimeForType DEF CvarsOK
<1>4. QED BY <1>2, <1>3, PutRoundTimeOK DEF HandleTimeLimitChange

\* What the rounds and the match do to the round timer.
LEMMA RoundsTimerOK ==
  ASSUME TimersOK
  PROVE  /\ OnRoundEnd => Good(roundTimer')
         /\ \A toggled \in BOOLEAN : OnRoundStart(toggled) => Good(roundTimer')
         /\ \A b, o \in BOOLEAN : EndRound(b, o) => Good(roundTimer')
         /\ EndMatch => Good(roundTimer')
         /\ StartRound => Good(roundTimer')
<1>0. Good(roundTimer) /\ geRoundTime \in Int
  BY DEF TimersOK, CvarsOK
<1>1. OnRoundEnd => Good(roundTimer')
  BY <1>0, HaltGood DEF OnRoundEnd
<1>2. \A toggled \in BOOLEAN : OnRoundStart(toggled) => Good(roundTimer')
  BY <1>0, BeginGood DEF OnRoundStart
<1>3. \A b, o \in BOOLEAN : EndRound(b, o) => Good(roundTimer')
  BY <1>1 DEF EndRound
<1>4. EndMatch => Good(roundTimer')
  <2>1. UNCHANGED <<roundTimer, scores>> => Good(roundTimer')
    BY <1>0
  <2>2. QED BY <1>1, <1>3, <2>1 DEF EndMatch
<1>5. QED BY <1>1, <1>2, <1>3, <1>4 DEF StartRound

LEMMA TimersStep ==
  ASSUME TypeOK, TimersOK, [Next]_vars
  PROVE  TimersOK'
<1> USE DEF TimersOK, CvarsOK, cvars
<1>0. geRoundTime \in Int /\ gameOver \in BOOLEAN
  BY DEF TypeOK
<1>1. CASE Think
  <2>1. Good(roundTimer')
    <3>1. UNCHANGED <<stateVars, roundTimer, scores>> => Good(roundTimer')
      OBVIOUS
    <3>2. ASSUME NEW r \in ScenarioAnswers, NEW m \in ScenarioAnswers, OnThink(r, m)
          PROVE  Good(roundTimer')
      <4>1. StartRound \/ EndMatch \/ EndRound(TRUE, gameOver)
              \/ UNCHANGED <<stateVars, roundTimer, scores>>
        BY <3>2 DEF OnThink
      <4>2. QED BY <1>0, <3>1, <4>1, RoundsTimerOK
    <3>3. QED BY <1>1, <3>1, <3>2 DEF Think
  <2>2. QED BY <1>1, <2>1 DEF Think
<1>2. CASE Tick
  BY <1>2, PassGood DEF Tick
<1>3. CASE NewLevel
  <2>1. /\ HandleTimeLimitChange(Fresh, Fresh, timeLimit)
        /\ UNCHANGED <<timeLimit, geRoundCount>>
    BY <1>3 DEF NewLevel
  <2>2. QED BY <2>1, FreshGood, HandleTimeLimitChangeOK
<1>4. CASE LevelRefused
  BY <1>4 DEF LevelRefused
<1>5. CASE EndMatchQueued
  <2>1. Good(roundTimer')
    BY <1>5, RoundsTimerOK DEF EndMatchQueued
  <2>2. QED BY <1>5, <2>1 DEF EndMatchQueued
<1>6. CASE CvarChange
  <2>1. CASE \E v \in RoundTimes : SetRoundTime(v)
    <3>1. PICK v \in RoundTimes : SetRoundTime(v)
      BY <2>1
    <3>2. v \in Nat
      BY GameplayAssumption
    <3>3. geRoundTime' \in Nat /\ Good(roundTimer')
      BY <3>1, <3>2, PutRoundTimeOK DEF SetRoundTime
    <3>4. QED BY <3>1, <3>3 DEF SetRoundTime
  <2>2. CASE \E n \in RoundCounts : SetRoundCount(n)
    <3>1. PICK n \in RoundCounts : SetRoundCount(n)
      BY <2>2
    <3>2. n \in Nat /\ RoundTimeFor(n, timeLimit, geRoundTime) \in Nat
      BY GameplayAssumption, RoundTimeForType
    <3>3. geRoundTime' \in Nat /\ Good(roundTimer')
      BY <3>1, <3>2, PutRoundTimeOK DEF SetRoundCount
    <3>4. QED BY <3>1, <3>2, <3>3 DEF SetRoundCount
  <2>3. CASE \E v \in TimeLimits : SetTimeLimit(v)
    <3>1. PICK v \in TimeLimits : SetTimeLimit(v)
      BY <2>3
    <3>2. v \in Nat
      BY GameplayAssumption
    <3>3. QED BY <3>1, <3>2, HandleTimeLimitChangeOK DEF SetTimeLimit
  <2>4. CASE \E m \in RawMaps : SetNextLevel(m)
    BY <2>4 DEF SetNextLevel
  <2>5. QED BY <1>6, <2>1, <2>2, <2>3, <2>4 DEF CvarChange
<1>7. CASE TimerCall
  <2>1. Good(roundTimer')
    <3>1. \A n \in SetTimes : SetRoundTimer(n) => Good(roundTimer')
      BY SetTimerGood, GameplayAssumption DEF SetRoundTimer, ChangeRoundTimerTo
    <3>2. \A n \in Adjustments : AddToRoundTimer(n) => Good(roundTimer')
      BY AddToTimerGood, GameplayAssumption DEF AddToRoundTimer, ChangeRoundTimerTo
    <3>3. \A b \in BOOLEAN : SetRoundTimerEnabled(b) => Good(roundTimer')
      BY <1>0, SetEnabledGood DEF SetRoundTimerEnabled, ChangeRoundTimerTo
    <3>4. QED BY <1>7, <3>1, <3>2, <3>3 DEF TimerCall
  <2>2. UNCHANGED <<matchTimer, cvars>>
    BY <1>7 DEF TimerCall, SetRoundTimer, AddToRoundTimer, SetRoundTimerEnabled,
                ChangeRoundTimerTo
  <2>3. QED BY <2>1, <2>2
<1>8. CASE EndCall
  <2>1. Good(roundTimer')
    BY <1>0, <1>8, RoundsTimerOK DEF EndCall, EndRoundNow, EndMatchNow
  <2>2. UNCHANGED <<matchTimer, cvars>>
    BY <1>8 DEF EndCall, EndRoundNow, EndMatchNow
  <2>3. QED BY <2>1, <2>2
<1>9. CASE Play
  BY <1>9 DEF Play, Score
<1>10. CASE LevelCommand
  BY <1>10 DEF LevelCommand, ChangeLevelCommand, ChangeLevelNow, GotoNextMapInCycle
<1>11. CASE LoadScenario
  BY <1>0, <1>11, SetEnabledGood DEF LoadScenario
<1>12. CASE UNCHANGED vars
  BY <1>12 DEF vars
<1>13. QED BY <1>1, <1>2, <1>3, <1>4, <1>5, <1>6, <1>7, <1>8, <1>9, <1>10, <1>11, <1>12
           DEF Next, Server

-----------------------------------------------------------------------------
(***************************************************************************)
(* Scores.                                                                 *)
(***************************************************************************)
ScoresOK == roundScore \in [Sides -> Nat] /\ matchScore \in [Sides -> Nat]

LEMMA RoundsScoresOK ==
  ASSUME ScoresOK
  PROVE  /\ OnRoundEnd => ScoresOK'
         /\ StartRound => ScoresOK'
         /\ \A b, o \in BOOLEAN : EndRound(b, o) => ScoresOK'
         /\ EndMatch => ScoresOK'
<1>1. OnRoundEnd => ScoresOK'
  BY DEF ScoresOK, OnRoundEnd
<1>2. StartRound => ScoresOK'
  <2> SUFFICES ASSUME NEW toggled \in BOOLEAN, OnRoundStart(toggled)
               PROVE  ScoresOK'
    BY DEF StartRound
  <2>1. roundScore' \in [Sides -> Nat]
    BY DEF ScoresOK, OnRoundStart
  <2>2. matchScore' \in [Sides -> Nat]
    BY DEF ScoresOK, OnRoundStart
  <2>3. QED BY <2>1, <2>2 DEF ScoresOK
<1>3. \A b, o \in BOOLEAN : EndRound(b, o) => ScoresOK'
  BY <1>1 DEF EndRound
<1>4. UNCHANGED scores => ScoresOK'
  BY DEF ScoresOK, scores
<1>5. EndMatch => ScoresOK'
  <2>1. UNCHANGED <<roundTimer, scores>> => UNCHANGED scores
    OBVIOUS
  <2>2. QED BY <1>1, <1>3, <1>4, <2>1 DEF EndMatch
<1>6. QED BY <1>1, <1>2, <1>3, <1>5

LEMMA ScoresStep ==
  ASSUME TypeOK, [Next]_vars
  PROVE  ScoresOK'
<1>0. ScoresOK /\ gameOver \in BOOLEAN
  BY DEF TypeOK, ScoresOK
<1>1. UNCHANGED scores => ScoresOK'
  BY <1>0 DEF ScoresOK, scores
<1>2. CASE Think
  <2>1. ASSUME NEW r \in ScenarioAnswers, NEW m \in ScenarioAnswers, OnThink(r, m)
        PROVE  ScoresOK'
    <3>1. StartRound \/ EndMatch \/ EndRound(TRUE, gameOver) \/ UNCHANGED scores
      BY <2>1 DEF OnThink
    <3>2. QED BY <1>0, <1>1, <3>1, RoundsScoresOK
  <2>2. QED BY <1>1, <1>2, <2>1 DEF Think
<1>3. CASE NewLevel \/ LoadScenario
  <2>1. InitialState
    BY <1>3 DEF NewLevel, LoadScenario
  <2>2. roundScore' = [s \in Sides |-> 0] /\ matchScore' = [s \in Sides |-> 0]
    BY <2>1 DEF InitialState
  <2>3. QED BY <2>2 DEF ScoresOK
<1>4. CASE EndMatchQueued
  BY <1>0, <1>1, <1>4, RoundsScoresOK DEF EndMatchQueued
<1>5. CASE EndCall
  BY <1>0, <1>5, RoundsScoresOK DEF EndCall, EndRoundNow, EndMatchNow
<1>6. CASE Play
  <2>1. PICK s \in Sides : Score(s)
    BY <1>6 DEF Play
  <2>2. roundScore' = [roundScore EXCEPT ![s] = @ + 1] /\ matchScore' = matchScore
    BY <2>1 DEF Score
  <2>3. QED BY <1>0, <2>2 DEF ScoresOK
<1>7. CASE Tick \/ LevelRefused \/ CvarChange \/ TimerCall \/ LevelCommand
  <2>1. UNCHANGED scores
    BY <1>7 DEF Tick, LevelRefused, CvarChange, SetRoundTime, SetRoundCount,
                SetTimeLimit, SetNextLevel, TimerCall, SetRoundTimer, AddToRoundTimer,
                SetRoundTimerEnabled, ChangeRoundTimerTo, LevelCommand,
                ChangeLevelCommand, ChangeLevelNow, GotoNextMapInCycle
  <2>2. QED BY <1>1, <2>1
<1>8. CASE UNCHANGED vars
  BY <1>1, <1>8 DEF vars
<1>9. QED BY <1>2, <1>3, <1>4, <1>5, <1>6, <1>7, <1>8 DEF Next, Server

-----------------------------------------------------------------------------
(***************************************************************************)
(* What a step may do to the state and flags of the match: nothing, start  *)
(* a new match, start or end a round, or end the match.                    *)
(***************************************************************************)
Flags == <<roundState, gameOver, roundCount>>

Unmoved == UNCHANGED Flags

Restarted == roundState' = "PRE_START" /\ gameOver' = FALSE /\ roundCount' = 0

RoundStarts ==
  /\ roundState \in {"PRE_START", "INTERMISSION"} /\ gameOver = FALSE
  /\ roundState' = "PLAYING" /\ gameOver' = gameOver
  /\ roundCount' = IF roundCount < MaxRounds THEN roundCount + 1 ELSE roundCount

RoundEnds ==
  /\ roundState = "PLAYING" /\ roundState' = "INTERMISSION"
  /\ gameOver' = gameOver \/ (gameOver' = TRUE /\ roundCount > 1)
  /\ roundCount' = roundCount

MatchEnds ==
  /\ roundState \in {"PRE_START", "PLAYING", "INTERMISSION"}
  /\ roundState = "PLAYING" => ~(roundCount > 1)
  /\ roundState' = "GAME_OVER" /\ gameOver' = TRUE /\ roundCount' = roundCount

Moves == Unmoved \/ Restarted \/ RoundStarts \/ RoundEnds \/ MatchEnds

FlagsOK ==
  /\ roundState \in RoundStates /\ gameOver \in BOOLEAN
  /\ roundCount \in 0 .. MaxRounds /\ intermission \in Nat

LEMMA EndMatchMoves ==
  ASSUME FlagsOK, roundState \notin {"NONE", "GAME_OVER"}, EndMatch
  PROVE  RoundEnds \/ MatchEnds
<1>1. roundState \in {"PRE_START", "PLAYING", "INTERMISSION"}
  BY DEF FlagsOK, RoundStates
<1>2. CASE IsInRound /\ roundCount > 1
  BY <1>2 DEF EndMatch, EndRound, RoundEnds, IsInRound
<1>3. CASE ~(IsInRound /\ roundCount > 1)
  BY <1>1, <1>3 DEF EndMatch, MatchEnds, IsInRound
<1>4. QED BY <1>2, <1>3

LEMMA OnThinkMoves ==
  ASSUME FlagsOK, OverMeansOver,
         NEW r \in ScenarioAnswers, NEW m \in ScenarioAnswers, OnThink(r, m)
  PROVE  /\ Moves
         /\ IsInFinalIntermission => Unmoved /\ UNCHANGED intermission
<1> USE DEF Moves
<1>1. CASE /\ \/ roundState = "PRE_START"
              \/ IsInRoundIntermission /\ ~ShouldEndMatch(r, m)
           /\ StartRound
  <2>1. gameOver = FALSE /\ roundState \in {"PRE_START", "INTERMISSION"}
    BY <1>1 DEF FlagsOK, OverMeansOver, ShouldEndMatch, IsInRoundIntermission
  <2>2. roundState' = "PLAYING" /\ gameOver' = gameOver
        /\ roundCount' = IF roundCount < MaxRounds THEN roundCount + 1 ELSE roundCount
    BY <1>1 DEF StartRound
  <2>3. QED BY <2>1, <2>2 DEF RoundStarts, IsInFinalIntermission
<1>2. CASE (IsInRound \/ IsInRoundIntermission) /\ EndMatch
  <2>1. roundState \notin {"NONE", "GAME_OVER"}
    BY <1>2 DEF IsInRound, IsInRoundIntermission
  <2>2. QED BY <1>2, <2>1, EndMatchMoves DEF IsInFinalIntermission
<1>3. CASE IsInRound /\ EndRound(TRUE, gameOver)
  BY <1>3 DEF EndRound, RoundEnds, IsInRound, IsInFinalIntermission
<1>4. CASE UNCHANGED <<stateVars, roundTimer, scores>>
  BY <1>4 DEF stateVars, Unmoved, Flags
<1>5. QED BY <1>1, <1>2, <1>3, <1>4 DEF OnThink

\* Steps outside Think that can move the match.
LEMMA CallsMove ==
  ASSUME FlagsOK, OverMeansOver
  PROVE  /\ EndMatchQueued => Moves
         /\ EndCall => Moves
         /\ NewLevel => Restarted
         /\ LoadScenario => Restarted
<1> USE DEF Moves
<1>1. ~gameOver => roundState \notin {"NONE", "GAME_OVER"}
  BY DEF OverMeansOver, IsInFinalIntermission, FlagsOK
<1>2. EndMatchQueued => Moves
  <2>1. CASE gameOver /\ EndMatchQueued
    BY <2>1 DEF EndMatchQueued, stateVars, Unmoved, Flags
  <2>2. CASE ~gameOver /\ EndMatchQueued
    <3>1. EndMatch
      BY <2>2 DEF EndMatchQueued
    <3>2. QED BY <1>1, <2>2, <3>1, EndMatchMoves
  <2>3. QED BY <2>1, <2>2
<1>3. EndCall => Moves
  <2>1. ASSUME NEW b \in BOOLEAN, EndRoundNow(b)
        PROVE  Moves
    BY <2>1 DEF EndRoundNow, EndRound, RoundEnds, IsInRound
  <2>2. ASSUME NEW m \in Maps \cup {NoMap}, EndMatchNow(m)
        PROVE  Moves
    <3>1. ~gameOver /\ EndMatch
      BY <2>2 DEF EndMatchNow
    <3>2. QED BY <1>1, <3>1, EndMatchMoves
  <2>3. QED BY <2>1, <2>2 DEF EndCall
<1>4. (NewLevel => Restarted) /\ (LoadScenario => Restarted)
  BY DEF NewLevel, LoadScenario, InitialState, Restarted
<1>5. QED BY <1>2, <1>3, <1>4

\* All other steps leave it where it is.
Bystander ==
  \/ LevelRefused \/ CvarChange \/ TimerCall \/ Play \/ LevelCommand
  \/ UNCHANGED vars

LEMMA BystandersStay == Bystander => UNCHANGED stateVars
<1>1. LevelRefused => UNCHANGED stateVars
  BY DEF LevelRefused
<1>2. CvarChange => UNCHANGED stateVars
  BY DEF CvarChange, SetRoundTime, SetRoundCount, SetTimeLimit, SetNextLevel
<1>3. TimerCall => UNCHANGED stateVars
  BY DEF TimerCall, SetRoundTimer, AddToRoundTimer, SetRoundTimerEnabled,
         ChangeRoundTimerTo
<1>4. Play => UNCHANGED stateVars
  BY DEF Play, Score
<1>5. LevelCommand => UNCHANGED stateVars
  BY DEF LevelCommand, ChangeLevelCommand, ChangeLevelNow, GotoNextMapInCycle
<1>6. UNCHANGED vars => UNCHANGED stateVars
  BY DEF vars
<1>7. QED BY <1>1, <1>2, <1>3, <1>4, <1>5, <1>6 DEF Bystander

LEMMA MovesStep ==
  ASSUME FlagsOK, OverMeansOver, [Next]_vars
  PROVE  Moves
<1>1. CASE Think
  <2>1. CASE ready
    <3>1. PICK r \in ScenarioAnswers, m \in ScenarioAnswers : OnThink(r, m)
      BY <1>1, <2>1 DEF Think
    <3>2. QED BY <3>1, OnThinkMoves
  <2>2. CASE ~ready
    BY <1>1, <2>2 DEF Think, Moves, Unmoved, Flags, stateVars
  <2>3. QED BY <2>1, <2>2
<1>2. CASE Tick
  BY <1>2 DEF Tick, Moves, Unmoved, Flags
<1>3. CASE EndMatchQueued \/ EndCall \/ NewLevel \/ LoadScenario
  BY <1>3, CallsMove DEF Moves
<1>4. CASE Bystander
  BY <1>4, BystandersStay DEF stateVars, Moves, Unmoved, Flags
<1>5. QED BY <1>1, <1>2, <1>3, <1>4 DEF Next, Server, Bystander

LEMMA IntermissionStep ==
  ASSUME FlagsOK, [Next]_vars
  PROVE  intermission' \in Nat
<1> USE GameplayAssumption
<1>0. intermission \in Nat
  BY DEF FlagsOK
<1>1. /\ StartRound => intermission' \in Nat
      /\ EndMatch => intermission' \in Nat
      /\ \A b, o \in BOOLEAN : EndRound(b, o) => intermission' \in Nat
  BY <1>0 DEF StartRound, EndMatch, EndRound
<1>2. UNCHANGED stateVars => intermission' \in Nat
  BY <1>0 DEF stateVars
<1>3. CASE Think
  <2>1. ASSUME NEW r \in ScenarioAnswers, NEW m \in ScenarioAnswers, OnThink(r, m)
        PROVE  intermission' \in Nat
    <3>1. StartRound \/ EndMatch \/ EndRound(TRUE, gameOver) \/ UNCHANGED stateVars
      BY <2>1 DEF OnThink
    <3>2. QED BY <1>1, <1>2, <3>1 DEF FlagsOK
  <2>2. QED BY <1>2, <1>3, <2>1 DEF Think
<1>4. CASE Tick
  BY <1>0, <1>4 DEF Tick, AtLeastZero
<1>5. CASE NewLevel \/ LoadScenario
  <2>1. InitialState
    BY <1>5 DEF NewLevel, LoadScenario
  <2>2. QED BY <2>1 DEF InitialState
<1>6. CASE EndMatchQueued
  BY <1>1, <1>2, <1>6 DEF EndMatchQueued
<1>7. CASE EndCall
  BY <1>1, <1>7 DEF EndCall, EndRoundNow, EndMatchNow, FlagsOK
<1>8. CASE Bystander
  BY <1>2, <1>8, BystandersStay
<1>9. QED BY <1>3, <1>4, <1>5, <1>6, <1>7, <1>8 DEF Next, Server, Bystander

LEMMA FlagsStep ==
  ASSUME FlagsOK, OverMeansOver, [Next]_vars
  PROVE  FlagsOK' /\ OverMeansOver'
<1> USE DEF FlagsOK, OverMeansOver, IsInRound, IsInRoundIntermission,
            IsInFinalIntermission, RoundStates
<1>0. intermission' \in Nat
  BY IntermissionStep
<1>1. MaxRounds \in Nat /\ MaxRounds > 1
  BY GameplayAssumption
<1>2. CASE Unmoved
  BY <1>0, <1>2 DEF Unmoved, Flags
<1>3. CASE Restarted
  <2>1. roundCount' \in 0 .. MaxRounds
    BY <1>1, <1>3 DEF Restarted
  <2>2. roundState' = "PRE_START" /\ gameOver' = FALSE /\ roundCount' = 0
    BY <1>3 DEF Restarted
  <2>3. roundState' \notin {"PLAYING", "INTERMISSION", "GAME_OVER", "NONE"}
        /\ roundState' \in RoundStates /\ gameOver' \in BOOLEAN
    BY <2>2
  <2>4. QED BY <1>0, <2>1, <2>2, <2>3, Zenon
<1>4. CASE RoundStarts
  <2>1. roundCount' \in 0 .. MaxRounds /\ roundCount' > 0
    BY <1>1, <1>4 DEF RoundStarts
  <2>2. QED BY <1>0, <1>4, <2>1 DEF RoundStarts
<1>5. CASE RoundEnds
  <2>1. roundState = "PLAYING" /\ roundState' = "INTERMISSION" /\ roundCount' = roundCount
    BY <1>5 DEF RoundEnds
  <2>2. roundCount' \in 0 .. MaxRounds /\ roundCount' > 0
    BY <2>1
  <2>3. gameOver = FALSE
    BY <2>1
  <2>4. gameOver' = FALSE \/ (gameOver' = TRUE /\ roundCount' > 1)
    BY <1>5, <2>1, <2>3 DEF RoundEnds
  <2>5. QED BY <1>0, <2>1, <2>2, <2>4
<1>6. CASE MatchEnds
  BY <1>0, <1>6 DEF MatchEnds
<1>7. QED BY <1>2, <1>3, <1>4, <1>5, <1>6, MovesStep DEF Moves

-----------------------------------------------------------------------------
(***************************************************************************)
(* The change of level: it is announced by steps that leave the match      *)
(* alone, and withdrawn only by the next level.                            *)
(***************************************************************************)
LevelOK ==
  /\ map \in Maps
  /\ {nextlevel, nextnext, chosen, changing, pending} \subseteq Names
  /\ levelChange \in {"none", "armed", "spent"}
  /\ levelTimer \in Int

Announced == chosen # NoMap

Announcing ==
  \/ Announced' = Announced
  \/ Announced' /\ Unmoved
  \/ Announced /\ Restarted

\* Setting up a change to a map: it is announced, and for a map.
LEMMA ArmAnnounces ==
  ASSUME LevelOK, NEW m \in Names, m # NoMap, ArmLevelChange(m)
  PROVE  /\ map' \in Maps
         /\ {nextnext', chosen', changing', pending'} \subseteq Names
         /\ chosen' # NoMap
         /\ levelChange' = "armed" /\ levelTimer' \in Int
<1>1. Transition \in Names /\ Transition # NoMap
  BY GameplayAssumption DEF Names
<1>2. chosen' \in Names /\ chosen' # NoMap /\ nextnext' \in Names
  BY <1>1 DEF ArmLevelChange, LevelOK
<1>3. levelTimer' \in Int /\ levelChange' = "armed"
  BY GameplayAssumption DEF ArmLevelChange
<1>4. QED BY <1>2, <1>3 DEF ArmLevelChange, LevelOK

LEMMA LevelKeeps ==
  ASSUME LevelOK, ChangeIsPrepared, UNCHANGED levelVars
  PROVE  LevelOK' /\ ChangeIsPrepared' /\ Announcing
BY DEF LevelOK, ChangeIsPrepared, Announcing, Announced, levelVars, changeVars

LEMMA ThinkLevel ==
  ASSUME FlagsOK, OverMeansOver, LevelOK, ChangeIsPrepared, Think
  PROVE  LevelOK' /\ ChangeIsPrepared' /\ Announcing
<1>1. CASE LevelDue /\ ChangeLevel
  BY <1>1 DEF LevelDue, ChangeLevel, LevelOK, ChangeIsPrepared, Announcing, Announced
<1>2. CASE WantsLevelChange /\ SetupChangeLevel
  <2>1. PICK m \in IF nextlevel # NoMap THEN {nextlevel} ELSE Rotation :
          ArmLevelChange(m)
    BY <1>2 DEF SetupChangeLevel
  <2>2. m \in Names /\ m # NoMap
    BY <2>1, GameplayAssumption DEF LevelOK, Names
  <2>3. nextlevel' \in Names
    BY <1>2 DEF SetupChangeLevel, LevelOK
  <2>4. LevelOK' /\ ChangeIsPrepared'
    BY <2>1, <2>2, <2>3, ArmAnnounces DEF LevelOK, ChangeIsPrepared
  <2>5. chosen' # NoMap
    BY <2>1, <2>2, ArmAnnounces
  <2>6. ready /\ IsInFinalIntermission
    BY <1>2 DEF WantsLevelChange
  <2>7. PICK r \in ScenarioAnswers, a \in ScenarioAnswers : OnThink(r, a)
    BY <2>6 DEF Think
  <2>8. Unmoved
    BY <2>6, <2>7, OnThinkMoves
  <2>9. QED BY <2>4, <2>5, <2>8 DEF Announcing, Announced
<1>3. CASE UNCHANGED levelVars
  BY <1>3, LevelKeeps
<1>4. QED BY <1>1, <1>2, <1>3 DEF Think

LEMMA NewLevelLevel ==
  ASSUME LevelOK, ChangeIsPrepared, NewLevel
  PROVE  LevelOK' /\ ChangeIsPrepared' /\ Announcing
<1> USE GameplayAssumption
<1>1. map' \in Maps /\ changing' = NoMap /\ pending' = pending
  BY DEF NewLevel
<1>2. changing # NoMap /\ Announced
  BY DEF NewLevel, ChangeIsPrepared, Announced
<1>3. NoMap \in Names /\ Transition \in Names /\ Transition # NoMap
      /\ \A m \in Maps : m \in Names /\ m # NoMap
  BY DEF Names
<1>4. LevelInitPreEntity
  BY DEF NewLevel
<1>5. CASE nextnext \in Maps
  <2>1. /\ nextlevel' = nextnext /\ nextnext' = NoMap
        /\ chosen' \in {Transition, nextnext}
        /\ levelChange' = "armed" /\ levelTimer' = ChangeDelay
    BY <1>4, <1>5 DEF LevelInitPreEntity
  <2>2. chosen' \in Names /\ chosen' # NoMap
    BY <1>3, <1>5, <2>1
  <2>3. QED
    <3>1. LevelOK'
      BY <1>1, <1>3, <1>5, <2>1, <2>2 DEF LevelOK
    <3>2. ChangeIsPrepared'
      BY <1>1, <2>1, <2>2 DEF ChangeIsPrepared
    <3>3. Announcing
      BY <1>2, <2>2 DEF Announcing, Announced
    <3>4. QED BY <3>1, <3>2, <3>3
<1>6. CASE nextnext \notin Maps
  <2>1. /\ nextlevel' = NoMap /\ nextnext' = nextnext /\ chosen' = NoMap
        /\ levelChange' = "none" /\ levelTimer' = 0
    BY <1>4, <1>6 DEF LevelInitPreEntity
  <2>2. LevelOK' /\ ChangeIsPrepared'
    BY <1>1, <1>3, <2>1 DEF LevelOK, ChangeIsPrepared
  <2>3. Restarted
    BY DEF NewLevel, InitialState, Restarted
  <2>4. QED BY <1>2, <2>2, <2>3 DEF Announcing
<1>7. QED BY <1>5, <1>6

LEMMA CommandsLevel ==
  ASSUME LevelOK, ChangeIsPrepared
  PROVE  LevelCommand => LevelOK' /\ ChangeIsPrepared' /\ Announcing
<1>0. GotoNextMapInCycle => LevelOK' /\ ChangeIsPrepared' /\ Announcing
  BY DEF GotoNextMapInCycle, ChangeLevel, LevelOK, ChangeIsPrepared, Announcing, Announced
<1> SUFFICES ASSUME NEW m \in Maps, NEW b \in BOOLEAN, ChangeLevelCommand(m, b)
             PROVE  LevelOK' /\ ChangeIsPrepared' /\ Announcing
  BY <1>0 DEF LevelCommand
<1>1. m \in Names /\ m # NoMap
  BY GameplayAssumption DEF Names
<1>2. CASE ChangeLevelNow(m)
  <2>1. ArmLevelChange(m) /\ nextlevel' = m /\ Unmoved
    BY <1>2 DEF ChangeLevelNow, SetupChangeLevelTo, stateVars, Unmoved, Flags
  <2>2. LevelOK' /\ ChangeIsPrepared'
    BY <1>1, <2>1, ArmAnnounces DEF LevelOK, ChangeIsPrepared
  <2>3. chosen' # NoMap
    BY <1>1, <2>1, ArmAnnounces
  <2>4. QED BY <2>1, <2>2, <2>3 DEF Announcing, Announced
<1>3. CASE pending' = m /\ UNCHANGED <<changeVars, nextlevel>>
  BY <1>1, <1>3 DEF changeVars, LevelOK, ChangeIsPrepared, Announcing, Announced
<1>4. QED BY <1>2, <1>3 DEF ChangeLevelCommand

\* Steps that touch no more than the cvar nextlevel and the queued ge_endmatch.
LEMMA NextLevelOnly ==
  ASSUME LevelOK, ChangeIsPrepared, UNCHANGED changeVars,
         nextlevel' \in Names, pending' \in Names
  PROVE  LevelOK' /\ ChangeIsPrepared' /\ Announcing
BY DEF LevelOK, ChangeIsPrepared, Announcing, Announced, changeVars

LEMMA LevelStep ==
  ASSUME FlagsOK, OverMeansOver, LevelOK, ChangeIsPrepared, [Next]_vars
  PROVE  LevelOK' /\ ChangeIsPrepared' /\ Announcing
<1>0. NoMap \in Names /\ nextlevel \in Names /\ pending \in Names
      /\ Maps \subseteq Names /\ RawMaps \subseteq Names
  BY DEF Names, LevelOK
<1>1. CASE Think
  BY <1>1, ThinkLevel
<1>2. CASE NewLevel
  BY <1>2, NewLevelLevel
<1>3. CASE LevelCommand
  BY <1>3, CommandsLevel
<1>4. CASE Tick
  <2>1. levelTimer' \in Int
    BY <1>4 DEF Tick, LevelOK
  <2>2. QED BY <1>4, <2>1 DEF Tick, LevelOK, ChangeIsPrepared, Announcing, Announced
<1>5. CASE LevelRefused
  BY <1>0, <1>5 DEF LevelRefused, LevelOK, ChangeIsPrepared, Announcing, Announced
<1>6. CASE EndMatchQueued
  <2>1. UNCHANGED changeVars /\ nextlevel' \in Names /\ pending' \in Names
    BY <1>0, <1>6 DEF EndMatchQueued
  <2>2. QED BY <2>1, NextLevelOnly
<1>7. CASE EndCall
  <2>1. UNCHANGED changeVars /\ nextlevel' \in Names /\ pending' \in Names
    BY <1>0, <1>7 DEF EndCall, EndRoundNow, EndMatchNow, levelVars
  <2>2. QED BY <2>1, NextLevelOnly
<1>8. CASE CvarChange
  <2>1. UNCHANGED changeVars /\ nextlevel' \in Names /\ pending' \in Names
    BY <1>0, <1>8 DEF CvarChange, SetRoundTime, SetRoundCount, SetTimeLimit,
                     SetNextLevel, levelVars
  <2>2. QED BY <2>1, NextLevelOnly
<1>9. CASE TimerCall \/ Play \/ LoadScenario \/ UNCHANGED vars
  <2>1. UNCHANGED levelVars
    BY <1>9 DEF TimerCall, SetRoundTimer, AddToRoundTimer, SetRoundTimerEnabled,
                ChangeRoundTimerTo, Play, Score, LoadScenario, vars
  <2>2. QED BY <2>1, LevelKeeps
<1>10. QED BY <1>1, <1>2, <1>3, <1>4, <1>5, <1>6, <1>7, <1>8, <1>9 DEF Next, Server

-----------------------------------------------------------------------------
(***************************************************************************)
(* The invariant.                                                          *)
(***************************************************************************)
LEMMA InvParts ==
  Inv <=> /\ FlagsOK /\ OverMeansOver /\ TimersOK /\ ScoresOK
          /\ LevelOK /\ ChangeIsPrepared /\ ready \in BOOLEAN
<1>1. TimersOK <=> /\ matchTimer \in Timer /\ roundTimer \in Timer
                   /\ TimersCoherent /\ CvarsOK
  BY DEF TimersOK, Good, TimersCoherent
<1>2. TypeOK <=> /\ FlagsOK /\ ready \in BOOLEAN
                 /\ matchTimer \in Timer /\ roundTimer \in Timer
                 /\ CvarsOK /\ ScoresOK /\ LevelOK
  BY DEF TypeOK, FlagsOK, CvarsOK, ScoresOK, LevelOK
<1>3. QED BY <1>1, <1>2 DEF Inv

LEMMA ReadyStep ==
  ASSUME ready \in BOOLEAN, [Next]_vars
  PROVE  ready' \in BOOLEAN
BY DEF Next, Server, Think, Tick, NewLevel, LoadScenario, InitialState, LevelRefused,
       EndMatchQueued, CvarChange, SetRoundTime, SetRoundCount, SetTimeLimit,
       SetNextLevel, TimerCall, SetRoundTimer, AddToRoundTimer, SetRoundTimerEnabled,
       ChangeRoundTimerTo, EndCall, EndRoundNow, EndMatchNow, Play, Score,
       LevelCommand, ChangeLevelCommand, ChangeLevelNow, GotoNextMapInCycle, vars

LEMMA InvStep ==
  ASSUME Inv, [Next]_vars
  PROVE  Inv'
<1>1. /\ FlagsOK /\ OverMeansOver /\ TimersOK /\ ScoresOK
      /\ LevelOK /\ ChangeIsPrepared /\ ready \in BOOLEAN
  BY InvParts
<1>2. TypeOK
  BY DEF Inv
<1>3. FlagsOK' /\ OverMeansOver'
  BY <1>1, FlagsStep
<1>4. TimersOK'
  BY <1>1, <1>2, TimersStep
<1>5. ScoresOK'
  BY <1>2, ScoresStep
<1>6. LevelOK' /\ ChangeIsPrepared'
  BY <1>1, LevelStep
<1>7. ready' \in BOOLEAN
  BY <1>1, ReadyStep
<1>8. (TimersOK <=> /\ matchTimer \in Timer /\ roundTimer \in Timer
                    /\ TimersCoherent /\ CvarsOK)'
  BY DEF TimersOK, Good, TimersCoherent
<1>9. (TypeOK <=> /\ FlagsOK /\ ready \in BOOLEAN
                  /\ matchTimer \in Timer /\ roundTimer \in Timer
                  /\ CvarsOK /\ ScoresOK /\ LevelOK)'
  BY DEF TypeOK, FlagsOK, CvarsOK, ScoresOK, LevelOK
<1>10. QED BY <1>3, <1>4, <1>5, <1>6, <1>7, <1>8, <1>9 DEF Inv

LEMMA Invariance == Spec => []Inv
BY InitInv, InvStep, PTL DEF Spec

(***************************************************************************)
(* The variables keep their types, for any cvars, timers and maps.         *)
(***************************************************************************)
THEOREM GameplayTypeOK == Spec => []TypeOK
<1>1. Inv => TypeOK
  BY DEF Inv
<1>2. QED BY <1>1, Invariance, PTL

(***************************************************************************)
(* The flags of the match agree with its phase in every reachable state:   *)
(* OnThink may start the first round without asking whether the game is    *)
(* over.                                                                   *)
(***************************************************************************)
THEOREM FlagsAgree == Spec => []OverMeansOver
<1>1. Inv => OverMeansOver
  BY DEF Inv
<1>2. QED BY <1>1, Invariance, PTL

(***************************************************************************)
(* Both timers stay coherent under every command, cvar and scenario call,  *)
(* for any lengths.                                                        *)
(***************************************************************************)
THEOREM GameplayTimersCoherent == Spec => []TimersCoherent
<1>1. Inv => TimersCoherent
  BY DEF Inv
<1>2. QED BY <1>1, Invariance, PTL

(***************************************************************************)
(* The level changes only to one that was chosen since it began, and no    *)
(* level is waited for that was not: for any maps, and with every command  *)
(* that calls ChangeLevel, changelevel_next included.                      *)
(***************************************************************************)
THEOREM LevelChangeIsPrepared == Spec => []ChangeIsPrepared
<1>1. Inv => ChangeIsPrepared
  BY DEF Inv
<1>2. QED BY <1>1, Invariance, PTL

-----------------------------------------------------------------------------
(***************************************************************************)
(* The refinement: each kind of move is a step of the abstract match.      *)
(***************************************************************************)
LEMMA LifecycleInit == Init => L!Init
BY DEF Init, L!Init, Phase, IsInRound, IsInRoundIntermission, IsInFinalIntermission

LEMMA LifecycleStep ==
  ASSUME Inv, [Next]_vars
  PROVE  [L!Next]_(L!vars)
<1>1. FlagsOK /\ OverMeansOver /\ LevelOK /\ ChangeIsPrepared
  BY InvParts
<1>2. FlagsOK' /\ OverMeansOver'
  BY <1>1, FlagsStep
<1>3. Moves
  BY <1>1, MovesStep
<1>4. Announcing
  BY <1>1, LevelStep
<1>5. MaxRounds \in Nat /\ MaxRounds > 1
  BY GameplayAssumption
<1> USE DEF Phase, IsInRound, IsInRoundIntermission, IsInFinalIntermission
<1>6. CASE Restarted /\ Announced
  <2>1. Phase' = "warmup" /\ gameOver' = FALSE /\ (roundCount > 1)' = FALSE
    BY <1>6 DEF Restarted
  <2>2. QED BY <1>6, <2>1 DEF Announced, L!Next, L!NextLevel, L!NewMatch
<1>7. CASE Unmoved /\ (Announced' = Announced \/ Announced')
  <2>1. gameOver' = gameOver /\ Phase' = Phase /\ (roundCount > 1)' = (roundCount > 1)
    BY <1>7 DEF Unmoved, Flags
  <2>2. CASE Announced' = Announced
    BY <2>1, <2>2 DEF Announced, L!vars
  <2>3. CASE Announced'
    BY <2>1, <2>3 DEF Announced, L!Next, L!Announce
  <2>4. QED BY <1>7, <2>2, <2>3
<1>8. CASE Restarted /\ Announced' = Announced
  <2>1. Phase' = "warmup" /\ gameOver' = FALSE /\ (roundCount > 1)' = FALSE
    BY <1>8 DEF Restarted
  <2>2. QED BY <1>8, <2>1 DEF Announced, L!Next, L!Restart, L!NewMatch
<1>9. CASE RoundStarts /\ Announced' = Announced
  <2>1. /\ Phase \in {"warmup", "break"} /\ gameOver = FALSE
        /\ Phase' = "round" /\ gameOver' = gameOver
    BY <1>9 DEF RoundStarts
  <2>2. (roundCount > 1)' = (roundCount > 1 \/ Phase = "break")
    <3>1. CASE roundState = "PRE_START"
      <4>1. roundCount = 0 /\ Phase = "warmup"
        BY <1>1, <3>1 DEF OverMeansOver
      <4>2. roundCount' = 1
        BY <1>5, <1>9, <4>1 DEF RoundStarts
      <4>3. QED BY <4>1, <4>2
    <3>2. CASE roundState = "INTERMISSION"
      <4>1. roundCount \in Nat /\ roundCount > 0 /\ Phase = "break"
        BY <1>1, <3>2 DEF FlagsOK, OverMeansOver
      <4>2. roundCount' > 1
        BY <1>5, <1>9, <4>1 DEF RoundStarts
      <4>3. QED BY <4>1, <4>2
    <3>3. QED BY <1>9, <3>1, <3>2 DEF RoundStarts
  <2>3. QED BY <1>9, <2>1, <2>2 DEF Announced, L!Next, L!StartRound
<1>10. CASE RoundEnds /\ Announced' = Announced
  <2>1. /\ Phase = "round" /\ Phase' = "break"
        /\ (roundCount > 1)' = (roundCount > 1)
    BY <1>10 DEF RoundEnds
  <2>2. gameOver' \in {gameOver, roundCount > 1}
    BY <1>10 DEF RoundEnds
  <2>3. QED BY <1>10, <2>1, <2>2 DEF Announced, L!Next, L!EndRound
<1>11. CASE MatchEnds /\ Announced' = Announced
  <2>1. /\ Phase \in {"warmup", "break"} \/ (Phase = "round" /\ ~(roundCount > 1))
        /\ Phase' = "final" /\ gameOver' = TRUE
        /\ (roundCount > 1)' = (roundCount > 1)
    BY <1>11 DEF MatchEnds
  <2>2. QED BY <1>11, <2>1 DEF Announced, L!Next, L!EndMatch
<1>12. QED
  <2>1. (RoundStarts \/ RoundEnds \/ MatchEnds) => ~Unmoved /\ ~Restarted
    BY DEF RoundStarts, RoundEnds, MatchEnds, Unmoved, Flags, Restarted
  <2>2. QED
    BY <1>3, <1>4, <1>6, <1>7, <1>8, <1>9, <1>10, <1>11, <2>1 DEF Moves, Announcing

(***************************************************************************)
(* The match implements MatchLifecycle: whatever the operator, the         *)
(* scenario and the clock do, no round starts once the match is ending,    *)
(* the final intermission is left only for another match, and the level    *)
(* changes only after that was announced.                                  *)
(***************************************************************************)
THEOREM MatchIsLifecycle == Spec => ImplementsLifecycle
BY LifecycleInit, LifecycleStep, Invariance, PTL DEF Spec, ImplementsLifecycle, L!Spec

LEMMA EndsLastStep ==
  ASSUME L!EndsLast, [L!Next]_(L!vars)
  PROVE  L!EndsLast'
<1> USE DEF L!EndsLast
<1>1. CASE L!Restart \/ L!NextLevel
  BY <1>1 DEF L!Restart, L!NextLevel, L!NewMatch
<1>2. CASE L!StartRound
  BY <1>2 DEF L!StartRound
<1>3. CASE L!EndRound
  <2>1. gameOver' = gameOver \/ gameOver' = (roundCount > 1)
    BY <1>3 DEF L!EndRound
  <2>2. gameOver' => gameOver \/ roundCount > 1
    BY <2>1, Zenon
  <2>3. (roundCount > 1)' = (roundCount > 1) /\ Phase = "round" /\ Phase' = "break"
    BY <1>3 DEF L!EndRound
  <2>4. QED BY <2>2, <2>3
<1>4. CASE L!EndMatch
  BY <1>4 DEF L!EndMatch
<1>5. CASE L!Announce
  BY <1>5 DEF L!Announce
<1>6. CASE UNCHANGED L!vars
  BY <1>6 DEF L!vars
<1>7. QED BY <1>1, <1>2, <1>3, <1>4, <1>5, <1>6 DEF L!Next

(***************************************************************************)
(* The end of a match stands, as MatchLifecycle promises and Gameplay      *)
(* with it: once the match is ending there is at most the report of its    *)
(* last round, after several, and the final intermission, until another    *)
(* match begins.                                                           *)
(***************************************************************************)
THEOREM EndOfMatchStands == Spec => []L!EndsLast /\ L!EndStands
<1>1. L!Init => L!EndsLast
  BY DEF L!Init, L!EndsLast
<1>2. L!EndsLast /\ [L!Next]_(L!vars) =>
        [gameOver /\ Phase' # "warmup" =>
           gameOver' /\ Phase' \in {Phase, "final"} /\ (roundCount > 1)' = (roundCount > 1)]_(L!vars)
  BY DEF L!EndsLast, L!Next, L!Restart, L!NewMatch, L!StartRound, L!EndRound,
         L!EndMatch, L!Announce, L!NextLevel
<1>3. L!Spec => []L!EndsLast /\ L!EndStands
  BY <1>1, <1>2, EndsLastStep, PTL DEF L!Spec, L!EndStands
<1>4. QED BY <1>3, MatchIsLifecycle DEF ImplementsLifecycle

-----------------------------------------------------------------------------
(***************************************************************************)
(* The final intermission only runs down, and leaves the score alone, for  *)
(* every command, scenario call and value of the constants.                *)
(***************************************************************************)
LEMMA FinalStep ==
  ASSUME Inv, [Next]_vars, IsInFinalIntermission, roundState' # "PRE_START"
  PROVE  /\ IsInFinalIntermission'
         /\ intermission' <= intermission
         /\ matchScore' = matchScore
<1> DEFINE Kept == UNCHANGED <<roundState, intermission, matchScore>>
<1>0. gameOver /\ ~IsInRound /\ FlagsOK /\ OverMeansOver /\ intermission \in Nat
  BY DEF Inv, OverMeansOver, IsInFinalIntermission, IsInRound, TypeOK, FlagsOK
<1>1. Kept => /\ IsInFinalIntermission' /\ intermission' <= intermission
              /\ matchScore' = matchScore
  BY <1>0 DEF IsInFinalIntermission
<1>2. UNCHANGED <<stateVars, roundTimer, scores>> => Kept
  BY DEF stateVars, scores
<1>3. CASE Think
  <2>1. ASSUME NEW r \in ScenarioAnswers, NEW m \in ScenarioAnswers, OnThink(r, m)
        PROVE  Kept
    <3>1. UNCHANGED <<stateVars, roundTimer, scores>>
      BY <2>1 DEF OnThink, IsInFinalIntermission, IsInRound, IsInRoundIntermission
    <3>2. QED BY <1>2, <3>1
  <2>2. QED BY <1>1, <1>2, <1>3, <2>1 DEF Think
<1>4. CASE Tick
  <2>1. intermission' <= intermission
    BY <1>0, <1>4 DEF Tick, AtLeastZero
  <2>2. QED BY <1>4, <2>1 DEF Tick, scores, IsInFinalIntermission
<1>5. CASE NewLevel \/ LoadScenario
  BY <1>5 DEF NewLevel, LoadScenario, InitialState
<1>6. CASE EndMatchQueued
  BY <1>0, <1>1, <1>6 DEF EndMatchQueued, stateVars, scores
<1>7. CASE EndCall
  BY <1>0, <1>7 DEF EndCall, EndRoundNow, EndMatchNow
<1>8. CASE Bystander
  <2>1. matchScore' = matchScore
    BY <1>8 DEF Bystander, LevelRefused, CvarChange, SetRoundTime, SetRoundCount,
                SetTimeLimit, SetNextLevel, TimerCall, SetRoundTimer, AddToRoundTimer,
                SetRoundTimerEnabled, ChangeRoundTimerTo, Play, Score, LevelCommand,
                ChangeLevelCommand, ChangeLevelNow, GotoNextMapInCycle, vars, scores
  <2>2. QED BY <1>1, <1>8, <2>1, BystandersStay DEF stateVars
<1>9. QED BY <1>3, <1>4, <1>5, <1>6, <1>7, <1>8 DEF Next, Server, Bystander

THEOREM FinalIsFinal == Spec => FinalIntermissionIsFinal
<1>1. Inv /\ [Next]_vars =>
        [IsInFinalIntermission /\ roundState' # "PRE_START" =>
           /\ IsInFinalIntermission'
           /\ intermission' <= intermission
           /\ matchScore' = matchScore]_vars
  BY FinalStep
<1>2. QED BY <1>1, Invariance, PTL DEF Spec, FinalIntermissionIsFinal

(***************************************************************************)
(* A round starts with the whole of ge_roundtime if its timer is enabled,  *)
(* and leaves no timer running, for any history of the timer.              *)
(***************************************************************************)
StartsWhole == IsInRound' /\ roundTimer'.enabled => Remaining(roundTimer') = geRoundTime'

LEMMA StartGivesAll ==
  ASSUME TimersOK, StartRound, UNCHANGED cvars
  PROVE  StartsWhole
<1>1. roundTimer' = Begin(roundTimer, geRoundTime) /\ geRoundTime' = geRoundTime
  BY DEF StartRound, OnRoundStart, cvars
<1>2. geRoundTime \in Nat /\ Good(roundTimer)
  BY DEF TimersOK, CvarsOK
<1>3. CASE roundTimer.enabled /\ ~(geRoundTime <= 0)
  <2>1. Begin(roundTimer, geRoundTime) = TimerOf(TRUE, TRUE, FALSE, geRoundTime, geRoundTime)
    BY <1>3 DEF Begin
  <2>2. Remaining(TimerOf(TRUE, TRUE, FALSE, geRoundTime, geRoundTime)) = geRoundTime
    BY <1>2 DEF Remaining, TimerOf, AtLeastZero
  <2>3. QED BY <1>1, <2>1, <2>2 DEF StartsWhole
<1>4. CASE roundTimer.enabled /\ geRoundTime <= 0
  <2>1. Begin(roundTimer, geRoundTime) = Halt(roundTimer) /\ geRoundTime = 0
    BY <1>2, <1>4 DEF Begin
  <2>2. Remaining(Halt(roundTimer)) = 0
    BY DEF Remaining, Halt, TimerOf
  <2>3. QED BY <1>1, <2>1, <2>2 DEF StartsWhole
<1>5. CASE ~roundTimer.enabled
  BY <1>1, <1>2, <1>5, BeginGood DEF StartsWhole
<1>6. QED BY <1>3, <1>4, <1>5

LEMMA EndsStop ==
  /\ OnRoundEnd => ~roundTimer'.started
  /\ \A b, o \in BOOLEAN : EndRound(b, o) => ~roundTimer'.started
  /\ IsInRound /\ EndMatch => ~roundTimer'.started
<1>1. OnRoundEnd => ~roundTimer'.started
  BY DEF OnRoundEnd, Halt, TimerOf
<1>2. \A b, o \in BOOLEAN : EndRound(b, o) => ~roundTimer'.started
  BY <1>1 DEF EndRound
<1>3. IsInRound /\ EndMatch => ~roundTimer'.started
  BY <1>1, <1>2 DEF EndMatch
<1>4. QED BY <1>1, <1>2, <1>3

OnTime ==
  /\ ~IsInRound => StartsWhole
  /\ IsInRound /\ (IsInRoundIntermission' \/ IsInFinalIntermission')
       => ~roundTimer'.started

LEMMA RoundTimeStep ==
  ASSUME Inv, [Next]_vars
  PROVE  OnTime
<1> USE DEF IsInRound, IsInRoundIntermission, IsInFinalIntermission
<1>0. TimersOK /\ gameOver \in BOOLEAN
  BY InvParts DEF Inv, TypeOK
<1>1. roundState' = roundState => OnTime
  BY DEF OnTime, StartsWhole
<1>2. CASE Think
  <2>1. ASSUME NEW r \in ScenarioAnswers, NEW m \in ScenarioAnswers, OnThink(r, m)
        PROVE  OnTime
    <3>1. CASE StartRound
      <4>1. UNCHANGED cvars
        BY <1>2 DEF Think
      <4>2. StartsWhole /\ roundState' = "PLAYING"
        BY <1>0, <3>1, <4>1, StartGivesAll DEF StartRound
      <4>3. QED BY <4>2 DEF OnTime
    <3>2. CASE EndMatch \/ EndRound(TRUE, gameOver)
      <4>1. roundState' # "PLAYING"
        BY <3>2 DEF EndMatch, EndRound
      <4>2. IsInRound => ~roundTimer'.started
        BY <1>0, <3>2, EndsStop
      <4>3. QED BY <4>1, <4>2 DEF OnTime, StartsWhole
    <3>3. CASE UNCHANGED <<stateVars, roundTimer, scores>>
      BY <1>1, <3>3 DEF stateVars
    <3>4. QED BY <2>1, <3>1, <3>2, <3>3 DEF OnThink
  <2>2. UNCHANGED <<stateVars, roundTimer, scores>> => OnTime
    BY <1>1 DEF stateVars
  <2>3. QED BY <1>2, <2>1, <2>2 DEF Think
<1>3. CASE NewLevel \/ LoadScenario
  BY <1>3 DEF NewLevel, LoadScenario, InitialState, OnTime, StartsWhole
<1>4. CASE EndMatchQueued \/ EndCall
  <2>1. CASE UNCHANGED <<stateVars, roundTimer, scores, nextlevel>>
    BY <1>1, <2>1 DEF stateVars
  <2>2. CASE EndMatch \/ \E b \in BOOLEAN : EndRound(b, gameOver)
    <3>1. roundState' # "PLAYING"
      BY <2>2 DEF EndMatch, EndRound
    <3>2. IsInRound => ~roundTimer'.started
      BY <1>0, <2>2, EndsStop
    <3>3. QED BY <3>1, <3>2 DEF OnTime, StartsWhole
  <2>3. QED
    BY <1>4, <2>1, <2>2 DEF EndMatchQueued, EndCall, EndRoundNow, EndMatchNow
<1>5. CASE Tick
  BY <1>1, <1>5 DEF Tick
<1>6. CASE Bystander
  BY <1>1, <1>6, BystandersStay DEF stateVars
<1>7. QED BY <1>2, <1>3, <1>4, <1>5, <1>6 DEF Next, Server, Bystander

THEOREM RoundsAreOnTime == Spec => RoundsHaveTheirTime
<1>1. Inv /\ [Next]_vars =>
        [/\ ~IsInRound /\ IsInRound' /\ roundTimer'.enabled
              => Remaining(roundTimer') = geRoundTime'
         /\ IsInRound /\ (IsInRoundIntermission' \/ IsInFinalIntermission')
              => ~roundTimer'.started]_vars
  BY RoundTimeStep DEF OnTime, StartsWhole
<1>2. QED BY <1>1, Invariance, PTL DEF Spec, RoundsHaveTheirTime

-----------------------------------------------------------------------------
(***************************************************************************)
(* The length of the match timer.                                          *)
(***************************************************************************)
LimitKept == MatchTimeIsLimit /\ timeLimit \in TimeLimits

WholeLimits == \A m, n \in TimeLimits : Whole(n - m) = n - m

LEMMA ChangeTimerLength ==
  ASSUME NEW t, Good(t), t.enabled, NEW n \in Nat, Whole(n - t.length) = n - t.length
  PROVE  ChangeTimer(t, n).length = n
<1>0. t.length \in Int
  BY DEF Good, Timer
<1>1. CASE n = t.length
  BY <1>1 DEF ChangeTimer
<1>2. CASE n # t.length /\ ~(n > 0)
  BY <1>2 DEF ChangeTimer, Halt, TimerOf
<1>3. CASE n # t.length /\ n > 0
  <2>1. ChangeTimer(t, n) = Extend(t, n) /\ ~(n <= 0)
    BY <1>3 DEF ChangeTimer
  <2>2. Begin(t, n).length = n
    BY <2>1 DEF Begin, TimerOf
  <2>3. \A left \in Int, len \in Int : Having(t, left, len).length = len
    BY DEF Having, TimerOf
  <2>4. t.left \in Int /\ t.length + (n - t.length) = n
    BY <1>0 DEF Good, Timer
  <2>5. QED BY <1>0, <2>1, <2>2, <2>3, <2>4 DEF Extend
<1>4. QED BY <1>1, <1>2, <1>3

LEMMA LimitStep ==
  ASSUME Inv, WholeLimits, LimitKept, [Next]_vars
  PROVE  LimitKept'
<1>0. /\ Good(matchTimer) /\ matchTimer.enabled /\ matchTimer.length \in TimeLimits
      /\ timeLimit \in TimeLimits /\ TimeLimits \subseteq Nat
  BY GameplayAssumption DEF Inv, TypeOK, TimersCoherent, Good, LimitKept, MatchTimeIsLimit
<1>1. CASE UNCHANGED <<matchTimer, timeLimit>>
  BY <1>1 DEF LimitKept, MatchTimeIsLimit
<1>2. ASSUME NEW v \in TimeLimits, SetTimeLimit(v)
      PROVE  LimitKept'
  <2>1. timeLimit' = v /\ matchTimer' = ChangeTimer(matchTimer, v)
    BY <1>2 DEF SetTimeLimit, HandleTimeLimitChange
  <2>2. Whole(v - matchTimer.length) = v - matchTimer.length
    BY <1>0 DEF WholeLimits
  <2>3. QED BY <1>0, <2>1, <2>2, ChangeTimerLength DEF LimitKept, MatchTimeIsLimit
<1>3. CASE NewLevel
  <2>1. timeLimit' = timeLimit /\ matchTimer' = ChangeTimer(Fresh, timeLimit)
    BY <1>3 DEF NewLevel, HandleTimeLimitChange
  <2>2. ChangeTimer(Fresh, timeLimit).length = timeLimit
    BY <1>0 DEF ChangeTimer, Fresh, TimerOf, Extend, Begin
  <2>3. QED BY <1>0, <2>1, <2>2 DEF LimitKept, MatchTimeIsLimit
<1>4. CASE Tick
  <2>1. timeLimit' = timeLimit /\ matchTimer' = Pass(matchTimer)
    BY <1>4 DEF Tick, cvars
  <2>2. Pass(matchTimer).length = matchTimer.length
    BY DEF Pass, Elapse, Having, TimerOf
  <2>3. QED BY <1>0, <2>1, <2>2 DEF LimitKept, MatchTimeIsLimit
<1>5. CASE \/ Think \/ LevelRefused \/ EndMatchQueued \/ TimerCall \/ EndCall
           \/ Play \/ LevelCommand \/ LoadScenario \/ UNCHANGED vars
  <2>1. UNCHANGED <<matchTimer, timeLimit>>
    BY <1>5 DEF Think, LevelRefused, EndMatchQueued, TimerCall, SetRoundTimer,
                AddToRoundTimer, SetRoundTimerEnabled, ChangeRoundTimerTo, EndCall,
                EndRoundNow, EndMatchNow, Play, Score, LevelCommand,
                ChangeLevelCommand, ChangeLevelNow, GotoNextMapInCycle, LoadScenario,
                cvars, vars
  <2>2. QED BY <1>1, <2>1
<1>6. ASSUME NEW v \in Int, SetRoundTime(v) \/ SetRoundCount(v)
      PROVE  UNCHANGED <<matchTimer, timeLimit>>
  BY <1>6 DEF SetRoundTime, SetRoundCount
<1>7. ASSUME NEW m \in RawMaps, SetNextLevel(m)
      PROVE  UNCHANGED <<matchTimer, timeLimit>>
  BY <1>7 DEF SetNextLevel, cvars
<1>8. CASE CvarChange
  <2>1. RoundTimes \subseteq Int /\ RoundCounts \subseteq Int
    BY GameplayAssumption
  <2>2. QED BY <1>1, <1>2, <1>6, <1>7, <1>8, <2>1 DEF CvarChange
<1>9. QED BY <1>2, <1>3, <1>4, <1>5, <1>8 DEF Next, Server

LEMMA LimitInit == Init => LimitKept
<1> SUFFICES ASSUME Init PROVE LimitKept
  OBVIOUS
<1>1. timeLimit \in TimeLimits /\ timeLimit \in Nat /\ matchTimer = ChangeTimer(Fresh, timeLimit)
  BY GameplayAssumption DEF Init
<1>2. ChangeTimer(Fresh, timeLimit).length = timeLimit
  BY <1>1 DEF ChangeTimer, Fresh, TimerOf, Extend, Begin
<1>3. QED BY <1>1, <1>2 DEF LimitKept, MatchTimeIsLimit

(***************************************************************************)
(* The match timer has the length of mp_timelimit after every change of    *)
(* it, in a match or between two, when the limits differ by whole seconds: *)
(* CGEGameTimer extends a running timer by the difference, as an integer.  *)
(***************************************************************************)
THEOREM MatchTimeFollowsLimit ==
  ASSUME WholeLimits
  PROVE  Spec => []MatchTimeIsLimit
<1>1. LimitKept => MatchTimeIsLimit
  BY DEF LimitKept
<1>2. Inv /\ LimitKept /\ [Next]_vars => LimitKept'
  BY LimitStep
<1>3. QED BY LimitInit, Invariance, <1>1, <1>2, PTL DEF Spec

-----------------------------------------------------------------------------
(***************************************************************************)
(* The map behind a transition.  An operator is orderly who does not       *)
(* overrule a change of level that was set up already.                     *)
(***************************************************************************)
OrderlyCommand ==
  \E m \in Maps, b \in BOOLEAN :
    /\ IsInFinalIntermission \/ b => levelChange = "none"
    /\ ChangeLevelCommand(m, b)

OrderlyNext == CalmNext \/ LoadScenario \/ OrderlyCommand \/ GotoNextMapInCycle

OrderlySpec == Init /\ [][OrderlyNext]_vars

\* ge_nextnextmap names a map only while the level is on its way to the transition.
PassHeld ==
  nextnext \in Maps =>
    levelChange # "none" /\ chosen = Transition /\ changing \in {NoMap, Transition}

LEMMA OrderlyIsNext == [OrderlyNext]_vars => [Next]_vars
<1>1. OrderlyCommand => LevelCommand
  BY DEF OrderlyCommand, LevelCommand
<1>2. GotoNextMapInCycle => LevelCommand
  BY DEF LevelCommand
<1>3. QED BY <1>1, <1>2 DEF OrderlyNext, CalmNext, Next

LEMMA ArmHolds ==
  ASSUME NEW m, PassHeld, ChangeIsPrepared, levelChange = "none", ArmLevelChange(m)
  PROVE  PassHeld'
<1>1. nextnext \notin Maps /\ changing = NoMap
  BY DEF PassHeld, ChangeIsPrepared
<1>2. QED BY <1>1 DEF PassHeld, ArmLevelChange

LEMMA PassStays == PassHeld /\ UNCHANGED changeVars => PassHeld'
BY DEF PassHeld, changeVars

LEMMA ServerHolds ==
  ASSUME PassHeld, ChangeIsPrepared, Server
  PROVE  PassHeld'
<1> USE GameplayAssumption
<1>1. CASE Think
  <2>1. CASE LevelDue /\ ChangeLevel
    BY <2>1 DEF ChangeLevel, LevelDue, PassHeld
  <2>2. CASE WantsLevelChange /\ SetupChangeLevel
    BY <2>2, ArmHolds DEF WantsLevelChange, SetupChangeLevel
  <2>3. CASE UNCHANGED levelVars
    BY <2>3, PassStays DEF levelVars
  <2>4. QED BY <1>1, <2>1, <2>2, <2>3 DEF Think
<1>2. CASE Tick
  BY <1>2 DEF Tick, PassHeld
<1>3. CASE NewLevel
  BY <1>3 DEF NewLevel, LevelInitPreEntity, PassHeld
<1>4. CASE LevelRefused
  BY <1>4 DEF LevelRefused, PassHeld
<1>5. CASE EndMatchQueued
  BY <1>5, PassStays DEF EndMatchQueued
<1>6. QED BY <1>1, <1>2, <1>3, <1>4, <1>5 DEF Server

LEMMA PassStep ==
  ASSUME PassHeld, ChangeIsPrepared, [OrderlyNext]_vars
  PROVE  PassHeld'
<1>1. CASE Server
  BY <1>1, ServerHolds
<1>2. CASE CvarChange
  BY <1>2, PassStays DEF CvarChange, SetRoundTime, SetRoundCount, SetTimeLimit,
                         SetNextLevel, levelVars
<1>3. CASE TimerCall
  BY <1>3, PassStays DEF TimerCall, SetRoundTimer, AddToRoundTimer, SetRoundTimerEnabled,
                         ChangeRoundTimerTo, levelVars
<1>4. CASE EndCall
  BY <1>4, PassStays DEF EndCall, EndRoundNow, EndMatchNow, levelVars
<1>5. CASE Play \/ LoadScenario
  BY <1>5, PassStays DEF Play, Score, LoadScenario, levelVars
<1>6. CASE OrderlyCommand
  <2>1. PICK m \in Maps, b \in BOOLEAN :
          /\ IsInFinalIntermission \/ b => levelChange = "none"
          /\ ChangeLevelCommand(m, b)
    BY <1>6 DEF OrderlyCommand
  <2>2. CASE IsInFinalIntermission \/ b
    BY <2>1, <2>2, ArmHolds DEF ChangeLevelCommand, ChangeLevelNow, SetupChangeLevelTo
  <2>3. CASE ~(IsInFinalIntermission \/ b)
    BY <2>1, <2>3, PassStays DEF ChangeLevelCommand
  <2>4. QED BY <2>2, <2>3
<1>7. CASE GotoNextMapInCycle
  BY <1>7 DEF GotoNextMapInCycle, ChangeLevel, PassHeld
<1>8. CASE UNCHANGED vars
  BY <1>8, PassStays DEF vars, levelVars
<1>9. QED
  BY <1>1, <1>2, <1>3, <1>4, <1>5, <1>6, <1>7, <1>8 DEF OrderlyNext, CalmNext

(***************************************************************************)
(* Only the level behind a transition is announced at the start of one, as *)
(* long as no changelevel overrules a change that was set up: whatever the *)
(* operator, the scenario and the engine do otherwise.                     *)
(***************************************************************************)
THEOREM OrderlyTransitionsPass == OrderlySpec => OnlyTransitionsPass
<1> DEFINE Passes == NewLevel /\ levelChange' # "none" => map' = Transition
<1>1. Init => PassHeld
  BY GameplayAssumption DEF Init, PassHeld
<1>2. Inv => ChangeIsPrepared
  BY DEF Inv
<1>3. PassHeld /\ [OrderlyNext]_vars => [Passes]_vars
  BY GameplayAssumption DEF PassHeld, NewLevel, LevelInitPreEntity
<1>4. QED
  BY <1>1, <1>2, <1>3, InitInv, InvStep, OrderlyIsNext, PassStep, PTL
     DEF OrderlySpec, OnlyTransitionsPass

\* So it is on a server whose operator leaves the change of level to the match.
COROLLARY CalmTransitionsPass == CalmSpec => OnlyTransitionsPass
<1>1. [CalmNext]_vars => [OrderlyNext]_vars
  BY DEF OrderlyNext
<1>2. CalmSpec => OrderlySpec
  BY <1>1, PTL DEF CalmSpec, OrderlySpec
<1>3. QED BY <1>2, OrderlyTransitionsPass

(***************************************************************************)
(* changelevel_next before there is a next level.  An orderly operator is  *)
(* patient who does not ask for the next level before one is chosen; the   *)
(* server does not change an empty level by itself before that either.     *)
(***************************************************************************)
PatientNext ==
  \/ CalmNext \/ LoadScenario \/ OrderlyCommand
  \/ chosen # NoMap /\ GotoNextMapInCycle

PatientSpec == Init /\ [][PatientNext]_vars

LEMMA PatientIsNext == [PatientNext]_vars => [Next]_vars
<1>1. PatientNext => OrderlyNext
  BY DEF PatientNext, OrderlyNext
<1>2. QED BY <1>1, OrderlyIsNext

\* What is set up or spent on such a server has a level to go to.
ChangesHaveLevel == levelChange # "none" => chosen # NoMap

LEMMA SpentStep ==
  ASSUME LevelOK, ChangeIsPrepared, [PatientNext]_vars
  PROVE  \/ levelChange' # "spent"
         \/ UNCHANGED <<levelChange, chosen>>
         \/ chosen # NoMap /\ UNCHANGED chosen
<1>1. CASE Think
  <2>1. CASE LevelDue /\ ChangeLevel
    BY <2>1 DEF LevelDue, ChangeLevel, ChangeIsPrepared
  <2>2. CASE SetupChangeLevel
    BY <2>2 DEF SetupChangeLevel, ArmLevelChange
  <2>3. CASE UNCHANGED levelVars
    BY <2>3 DEF levelVars, changeVars
  <2>4. QED BY <1>1, <2>1, <2>2, <2>3 DEF Think
<1>2. CASE NewLevel
  BY <1>2 DEF NewLevel, LevelInitPreEntity
<1>3. CASE OrderlyCommand \/ (chosen # NoMap /\ GotoNextMapInCycle)
  BY <1>3 DEF OrderlyCommand, ChangeLevelCommand, ChangeLevelNow, SetupChangeLevelTo,
              ArmLevelChange, GotoNextMapInCycle, ChangeLevel, changeVars
<1>4. CASE Tick \/ LevelRefused \/ EndMatchQueued
  BY <1>4 DEF Tick, LevelRefused, EndMatchQueued, changeVars
<1>5. CASE CvarChange \/ TimerCall
  BY <1>5 DEF CvarChange, SetRoundTime, SetRoundCount, SetTimeLimit, SetNextLevel,
              TimerCall, SetRoundTimer, AddToRoundTimer, SetRoundTimerEnabled,
              ChangeRoundTimerTo, levelVars, changeVars
<1>6. CASE EndCall \/ Play \/ LoadScenario \/ UNCHANGED vars
  BY <1>6 DEF EndCall, EndRoundNow, EndMatchNow, Play, Score, LoadScenario, vars,
              levelVars, changeVars
<1>7. QED
  BY <1>1, <1>2, <1>3, <1>4, <1>5, <1>6 DEF PatientNext, CalmNext, Server

(***************************************************************************)
(* As long as changelevel_next is used only when a level is chosen, and    *)
(* the server does not change an empty level by itself before that, no     *)
(* change of level is spent on the empty name, after which the end of the  *)
(* match would lead nowhere.                                               *)
(***************************************************************************)
THEOREM PatientChangesHappen == PatientSpec => []ChangesHaveLevel
<1>1. Init => ChangesHaveLevel
  BY DEF Init, ChangesHaveLevel
<1>2. Inv /\ Inv' /\ ChangesHaveLevel /\ [PatientNext]_vars => ChangesHaveLevel'
  <2> SUFFICES ASSUME Inv, Inv', ChangesHaveLevel, [PatientNext]_vars
               PROVE  ChangesHaveLevel'
    OBVIOUS
  <2>1. LevelOK /\ ChangeIsPrepared /\ LevelOK' /\ ChangeIsPrepared'
    BY InvParts DEF Inv, LevelOK, TypeOK
  <2>2. levelChange' \in {"none", "armed", "spent"}
    BY <2>1 DEF LevelOK
  <2>3. \/ levelChange' # "spent"
        \/ UNCHANGED <<levelChange, chosen>>
        \/ chosen # NoMap /\ UNCHANGED chosen
    BY <2>1, SpentStep
  <2>4. QED BY <2>1, <2>2, <2>3 DEF ChangesHaveLevel, ChangeIsPrepared
<1>3. QED
  BY <1>1, <1>2, InitInv, InvStep, PatientIsNext, PTL DEF PatientSpec

-----------------------------------------------------------------------------
(***************************************************************************)
(* How long the end of a match takes: a bound on the time units that pass  *)
(* until the level changes, the last report, the final intermission and    *)
(* the announcement included.  It is what remains of EndLeadsToNewLevel    *)
(* without fairness.                                                       *)
(***************************************************************************)
TicksLeft ==
  IF levelChange = "spent" THEN 0
  ELSE IF levelChange = "armed" THEN levelTimer + 2
  ELSE IF IsInFinalIntermission THEN intermission + ChangeDelay + 3
  ELSE intermission + ChatTime + ChangeDelay + 4

EndIsNear ==
  gameOver => /\ TicksLeft \in 0 .. RoundDelay + ChatTime + ChangeDelay + 4
              /\ TicksLeft = 0 <=> levelChange = "spent"

EndComesNearer ==
  [][gameOver /\ gameOver' =>
       /\ TicksLeft' <= TicksLeft
       /\ Tick /\ levelChange # "spent" => TicksLeft' < TicksLeft]_vars

\* What bounds it: no wait is longer than it was set, and none that is over
\* is overlooked by the next frame.
Paced ==
  /\ levelChange = "armed" => levelTimer \in -1 .. ChangeDelay
  /\ gameOver /\ levelChange = "none" /\ intermission = 0 => ready
  /\ gameOver /\ IsInRoundIntermission => intermission <= RoundDelay
  /\ IsInFinalIntermission => intermission <= ChatTime

\* The ways a match comes to its end.
ReportsLast ==
  ~gameOver /\ gameOver' /\ IsInRoundIntermission' /\ intermission' = RoundDelay

EndsForGood ==
  /\ gameOver' /\ IsInFinalIntermission' /\ intermission' = ChatTime
  /\ gameOver => IsInRoundIntermission /\ intermission = 0

Ending == UNCHANGED stateVars \/ ~gameOver' \/ ReportsLast \/ EndsForGood

\* What may become of a change of level while the level stays.
Nearing ==
  \/ UNCHANGED <<levelChange, levelTimer>>
  \/ levelChange = "armed" /\ levelChange' = "spent"
  \/ levelChange = "none" /\ levelChange' = "armed" /\ levelTimer' = ChangeDelay

\* No wait that is over is overlooked.
Awake ==
  gameOver' /\ levelChange' = "none" /\ intermission' = 0 /\ UNCHANGED stateVars => ready'

LEMMA EndMatchEnds ==
  ASSUME OverMeansOver, EndMatch,
         gameOver => IsInRoundIntermission /\ intermission = 0
  PROVE  ReportsLast \/ EndsForGood
<1>1. CASE IsInRound /\ roundCount > 1
  BY <1>1 DEF EndMatch, EndRound, ReportsLast, IsInRound, IsInRoundIntermission
<1>2. CASE ~(IsInRound /\ roundCount > 1)
  BY <1>2 DEF EndMatch, EndsForGood, IsInFinalIntermission
<1>3. QED BY <1>1, <1>2

LEMMA ThinkEnds ==
  ASSUME FlagsOK, OverMeansOver, Think
  PROVE  /\ Ending
         /\ gameOver /\ IsInRoundIntermission /\ intermission = 0 /\ UNCHANGED stateVars
              => ~ready
<1> DEFINE Goal == /\ Ending
                   /\ gameOver /\ IsInRoundIntermission /\ intermission = 0
                      /\ UNCHANGED stateVars => ~ready
<1>1. CASE ~ready
  BY <1>1 DEF Think, Ending
<1>2. CASE ready
  <2>1. PICK r \in ScenarioAnswers, m \in ScenarioAnswers : OnThink(r, m)
    BY <1>2 DEF Think
  <2>2. gameOver => ShouldEndMatch(r, m) /\ ~IsInRound /\ roundState # "PRE_START"
    BY DEF ShouldEndMatch, OverMeansOver, IsInRound
  <2>3. CASE /\ roundState = "PRE_START" \/ ~ShouldEndMatch(r, m)
             /\ StartRound
    <3>1. gameOver' = FALSE
      BY <2>2, <2>3 DEF StartRound, FlagsOK
    <3>2. ~(UNCHANGED stateVars /\ gameOver)
      BY <3>1 DEF stateVars
    <3>3. QED BY <3>1, <3>2 DEF Ending
  <2>4. CASE /\ IsInRound \/ (IsInRoundIntermission /\ intermission = 0)
             /\ EndMatch
    <3>1. ReportsLast \/ EndsForGood
      BY <2>2, <2>4, EndMatchEnds
    <3>2. ~(UNCHANGED stateVars /\ gameOver /\ IsInRoundIntermission)
      BY <3>1 DEF ReportsLast, EndsForGood, stateVars, IsInRoundIntermission,
                  IsInFinalIntermission
    <3>3. QED BY <3>1, <3>2 DEF Ending
  <2>5. CASE IsInRound /\ EndRound(TRUE, gameOver)
    <3>1. ~gameOver /\ gameOver' = gameOver
      BY <2>2, <2>5 DEF EndRound
    <3>2. QED BY <3>1 DEF Ending
  <2>6. CASE /\ ~(/\ IsInRound \/ (IsInRoundIntermission /\ intermission = 0)
                  /\ ShouldEndMatch(r, m))
             /\ UNCHANGED stateVars
    BY <2>2, <2>6 DEF Ending
  <2>7. QED BY <2>1, <2>3, <2>4, <2>5, <2>6 DEF OnThink
<1>3. QED BY <1>1, <1>2

LEMMA CallsEnd ==
  ASSUME FlagsOK, OverMeansOver, EndMatchQueued \/ EndCall
  PROVE  Ending /\ UNCHANGED <<levelChange, levelTimer, ready>>
<1>1. CASE EndMatchQueued
  BY <1>1, EndMatchEnds DEF EndMatchQueued, Ending, changeVars
<1>2. ASSUME NEW b \in BOOLEAN, EndRoundNow(b)
      PROVE  Ending /\ UNCHANGED <<levelChange, levelTimer, ready>>
  BY <1>2 DEF EndRoundNow, EndRound, Ending, OverMeansOver, IsInRound, levelVars, changeVars
<1>3. ASSUME NEW m \in Maps \cup {NoMap}, EndMatchNow(m)
      PROVE  Ending /\ UNCHANGED <<levelChange, levelTimer, ready>>
  BY <1>3, EndMatchEnds DEF EndMatchNow, Ending, changeVars
<1>4. QED BY <1>1, <1>2, <1>3 DEF EndCall

LEMMA ThinkNears ==
  ASSUME Think
  PROVE  /\ Nearing
         /\ WantsLevelChange => levelChange' # "none"
<1>1. CASE LevelDue /\ ChangeLevel
  BY <1>1 DEF LevelDue, ChangeLevel, Nearing
<1>2. CASE WantsLevelChange /\ SetupChangeLevel
  BY <1>2 DEF WantsLevelChange, SetupChangeLevel, ArmLevelChange, Nearing
<1>3. CASE ~WantsLevelChange /\ UNCHANGED levelVars
  BY <1>3 DEF levelVars, changeVars, Nearing
<1>4. QED BY <1>1, <1>2, <1>3 DEF Think

\* Every step but the clock's and those to another match.
LEMMA StepEnds ==
  ASSUME FlagsOK, OverMeansOver, LevelOK, ChangeIsPrepared, Paced, [PatientNext]_vars,
         ~Tick, ~NewLevel, ~LoadScenario
  PROVE  Ending /\ Nearing /\ Awake
<1> DEFINE Quiet == UNCHANGED <<levelChange, levelTimer, ready>>
<1>1. Quiet => Nearing /\ Awake
  BY DEF Nearing, Awake, Paced, stateVars
<1>2. CASE Think
  <2>1. Ending /\ Nearing
    BY <1>2, ThinkEnds, ThinkNears
  <2>2. Awake
    <3> SUFFICES ASSUME gameOver', levelChange' = "none", intermission' = 0,
                        UNCHANGED stateVars
                 PROVE  FALSE
      BY DEF Awake
    <3>1. gameOver /\ intermission = 0 /\ levelChange = "none" /\ ready
      BY <2>1 DEF stateVars, Nearing, Paced
    <3>2. ~IsInRoundIntermission
      BY <1>2, <3>1, ThinkEnds
    <3>3. WantsLevelChange
      BY <3>1, <3>2 DEF WantsLevelChange, OverMeansOver, IsInRoundIntermission,
                        IsInFinalIntermission
    <3>4. QED BY <1>2, <3>3, ThinkNears
  <2>3. QED BY <2>1, <2>2
<1>3. CASE EndMatchQueued \/ EndCall
  BY <1>1, <1>3, CallsEnd
<1>4. CASE LevelRefused \/ CvarChange \/ TimerCall \/ Play \/ UNCHANGED vars
  <2>1. UNCHANGED stateVars
    BY <1>4, BystandersStay DEF Bystander
  <2>2. Quiet
    BY <1>4 DEF LevelRefused, CvarChange, SetRoundTime, SetRoundCount, SetTimeLimit,
                SetNextLevel, TimerCall, SetRoundTimer, AddToRoundTimer,
                SetRoundTimerEnabled, ChangeRoundTimerTo, Play, Score, levelVars,
                changeVars, vars
  <2>3. QED BY <1>1, <2>1, <2>2 DEF Ending
<1>5. CASE OrderlyCommand \/ (chosen # NoMap /\ GotoNextMapInCycle)
  <2>1. CASE chosen # NoMap /\ GotoNextMapInCycle
    <3>1. UNCHANGED <<stateVars, ready, levelTimer>> /\ levelChange' = "spent"
      BY <2>1 DEF GotoNextMapInCycle, ChangeLevel
    <3>2. levelChange \in {"armed", "spent"}
      BY <2>1 DEF LevelOK, ChangeIsPrepared
    <3>3. QED BY <3>1, <3>2 DEF Nearing, Awake, Ending
  <2>2. ASSUME NEW m \in Maps, NEW b \in BOOLEAN,
               IsInFinalIntermission \/ b => levelChange = "none",
               ChangeLevelCommand(m, b)
        PROVE  Ending /\ Nearing /\ Awake
    <3>1. UNCHANGED <<stateVars, ready>>
      BY <2>2 DEF ChangeLevelCommand, ChangeLevelNow
    <3>2. CASE IsInFinalIntermission \/ b
      BY <2>2, <3>1, <3>2 DEF ChangeLevelCommand, ChangeLevelNow, SetupChangeLevelTo,
                              ArmLevelChange, Nearing, Awake, Ending
    <3>3. CASE ~(IsInFinalIntermission \/ b)
      BY <1>1, <2>2, <3>1, <3>3 DEF ChangeLevelCommand, changeVars, Ending
    <3>4. QED BY <3>2, <3>3
  <2>3. QED BY <1>5, <2>1, <2>2 DEF OrderlyCommand
<1>6. QED BY <1>2, <1>3, <1>4, <1>5 DEF PatientNext, CalmNext, Server

LEMMA TickPaces ==
  ASSUME FlagsOK, LevelOK, Paced, Tick
  PROVE  /\ Paced'
         /\ gameOver => TicksLeft' <= TicksLeft
         /\ gameOver /\ levelChange # "spent" => TicksLeft' < TicksLeft
<1> USE GameplayAssumption DEF FlagsOK, LevelOK
<1>1. /\ UNCHANGED <<roundState, gameOver, levelChange>> /\ ready' /\ ~ready
      /\ intermission' = IF intermission > 0 THEN intermission - 1 ELSE 0
      /\ levelTimer' = IF levelChange = "armed" THEN levelTimer - 1 ELSE levelTimer
      /\ levelChange = "armed" => levelTimer >= 0
  BY DEF Tick, AtLeastZero, LevelDue
<1>2. Paced'
  BY <1>1 DEF Paced, IsInRoundIntermission, IsInFinalIntermission
<1>3. gameOver /\ levelChange = "none" => intermission > 0
  BY <1>1 DEF Paced
<1>4. QED BY <1>1, <1>2, <1>3 DEF TicksLeft, IsInFinalIntermission

LEMMA EndingPaces ==
  ASSUME RoundDelay > 0, ChatTime > 0, FlagsOK, LevelOK, OverMeansOver', Paced,
         Ending, Nearing, Awake
  PROVE  /\ Paced'
         /\ gameOver /\ gameOver' => TicksLeft' <= TicksLeft
<1> USE GameplayAssumption DEF FlagsOK, LevelOK
<1>1. levelChange' = "armed" => levelTimer' \in -1 .. ChangeDelay
  BY DEF Nearing, Paced
<1>2. gameOver' /\ levelChange' = "none" /\ intermission' = 0 => ready'
  BY DEF Awake, Ending, ReportsLast, EndsForGood
<1>3. /\ gameOver' /\ IsInRoundIntermission' => intermission' <= RoundDelay
      /\ IsInFinalIntermission' => intermission' <= ChatTime
  <2>1. CASE UNCHANGED stateVars
    BY <2>1 DEF stateVars, Paced, IsInRoundIntermission, IsInFinalIntermission
  <2>2. CASE ~gameOver'
    BY <2>2 DEF OverMeansOver, IsInFinalIntermission
  <2>3. CASE ReportsLast
    <3>1. ~IsInFinalIntermission' /\ intermission' = RoundDelay
      BY <2>3 DEF ReportsLast, IsInRoundIntermission, IsInFinalIntermission
    <3>2. QED BY <3>1
  <2>4. CASE EndsForGood
    <3>1. ~IsInRoundIntermission' /\ intermission' = ChatTime
      BY <2>4 DEF EndsForGood, IsInRoundIntermission, IsInFinalIntermission
    <3>2. QED BY <3>1
  <2>5. QED BY <2>1, <2>2, <2>3, <2>4 DEF Ending
<1>4. ASSUME gameOver, gameOver', UNCHANGED stateVars
      PROVE  TicksLeft' <= TicksLeft
  BY <1>4 DEF TicksLeft, Nearing, Paced, stateVars, IsInFinalIntermission
<1>5. ASSUME gameOver, EndsForGood
      PROVE  TicksLeft' <= TicksLeft
  BY <1>5 DEF TicksLeft, Nearing, Paced, EndsForGood, IsInFinalIntermission,
              IsInRoundIntermission
<1>6. QED BY <1>1, <1>2, <1>3, <1>4, <1>5 DEF Paced, Ending, ReportsLast

LEMMA PacedStep ==
  ASSUME RoundDelay > 0, ChatTime > 0, Inv, Inv', Paced, [PatientNext]_vars
  PROVE  /\ Paced'
         /\ gameOver /\ gameOver' =>
              /\ TicksLeft' <= TicksLeft
              /\ Tick /\ levelChange # "spent" => TicksLeft' < TicksLeft
<1>0. FlagsOK /\ LevelOK /\ ChangeIsPrepared /\ OverMeansOver /\ OverMeansOver'
  BY InvParts DEF Inv
<1>1. CASE Tick
  BY <1>0, <1>1, TickPaces
<1>2. CASE NewLevel \/ LoadScenario
  <2>1. gameOver' = FALSE /\ ~IsInFinalIntermission'
    BY <1>2 DEF NewLevel, LoadScenario, InitialState, IsInFinalIntermission
  <2>2. levelChange' = "armed" => levelTimer' \in -1 .. ChangeDelay
    <3>1. CASE NewLevel
      <4>1. levelChange' = "armed" => levelTimer' = ChangeDelay
        BY <3>1 DEF NewLevel, LevelInitPreEntity
      <4>2. QED BY <4>1, GameplayAssumption
    <3>2. CASE LoadScenario
      BY <3>2 DEF LoadScenario, levelVars, changeVars, Paced
    <3>3. QED BY <1>2, <3>1, <3>2
  <2>3. QED BY <2>1, <2>2 DEF Paced
<1>3. CASE ~Tick /\ ~NewLevel /\ ~LoadScenario
  BY <1>0, <1>3, StepEnds, EndingPaces
<1>4. QED BY <1>1, <1>2, <1>3

(***************************************************************************)
(* A match that is over comes to its change of level in time: whatever     *)
(* happens, but for a changelevel that overrules another one and for a     *)
(* changelevel_next before there is a next level, the bound on the time    *)
(* left does not grow, it shrinks with every unit of time, and it never    *)
(* exceeds ge_rounddelay, mp_chattime and the delay of the change and a    *)
(* few frames.  The two cvars are at least 2 and 1.                        *)
(***************************************************************************)
THEOREM EndIsInTime ==
  ASSUME RoundDelay > 0, ChatTime > 0
  PROVE  PatientSpec => []EndIsNear /\ EndComesNearer
<1>1. Init => Paced
  BY GameplayAssumption DEF Init, Paced, IsInFinalIntermission
<1>2. Inv /\ Inv' /\ Paced /\ [PatientNext]_vars => Paced'
  BY PacedStep
<1>3. Inv /\ Inv' /\ Paced /\ [PatientNext]_vars =>
        [gameOver /\ gameOver' =>
           /\ TicksLeft' <= TicksLeft
           /\ Tick /\ levelChange # "spent" => TicksLeft' < TicksLeft]_vars
  BY PacedStep
<1>4. Inv /\ Paced => EndIsNear
  <2> SUFFICES ASSUME Inv, Paced, gameOver
               PROVE  /\ TicksLeft \in 0 .. RoundDelay + ChatTime + ChangeDelay + 4
                      /\ TicksLeft = 0 <=> levelChange = "spent"
    BY DEF EndIsNear
  <2>1. FlagsOK /\ LevelOK /\ OverMeansOver
    BY InvParts
  <2>2. QED
    BY <2>1, GameplayAssumption DEF FlagsOK, LevelOK, OverMeansOver, Paced, TicksLeft,
       IsInFinalIntermission, IsInRoundIntermission
<1>5. QED
  BY <1>1, <1>2, <1>3, <1>4, InitInv, InvStep, PatientIsNext, PTL
     DEF PatientSpec, EndComesNearer

=============================================================================
