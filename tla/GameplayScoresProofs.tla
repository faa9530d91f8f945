------------------------ MODULE GameplayScoresProofs ------------------------
(***************************************************************************)
(* Proof that every point counts once, for any sides, scores and ways to   *)
(* end a round, when the scenario resets the round scores of the players;  *)
(* and that no point of a round is lost whatever the scenario does.        *)
(***************************************************************************)
EXTENDS GameplayScores, GameplayProofs

\* No point of a finished round is lost to a player, or counted twice for a team.
NoneLost ==
  /\ \A s \in Sides \ Teams : Counted(s) >= played[s]
  /\ \A s \in Teams : Counted(s) <= played[s]

Balanced == NoneLost /\ (ScenarioResetsScores => PointsCountOnce)

HInv == Inv /\ played \in [Sides -> Nat] /\ Balanced

\* What a step that is not a point may do to the scores, seen by PointsCountOnce.
Kept == UNCHANGED <<roundScore, matchScore, roundState>>

Opened ==
  /\ ~IsInRound /\ IsInRound'
  /\ \A s \in Sides :
       /\ roundScore'[s] \in {0, roundScore[s]}
       /\ s \in Teams \/ ScenarioResetsScores => roundScore'[s] = 0
  /\ \A s \in Sides \ Teams : matchScore'[s] = matchScore[s]
  /\ \A s \in Teams : matchScore'[s] \in {0, matchScore[s]}

Banked ==
  /\ IsInRound /\ ~IsInRound'
  /\ \A s \in Sides : matchScore'[s] = matchScore[s] + roundScore[s]

Closed == ~IsInRound /\ ~IsInRound' /\ UNCHANGED matchScore

Passing == Kept \/ Opened \/ Banked \/ Closed

Cleared ==
  ~IsInRound' /\ matchScore' = [s \in Sides |-> 0]

-----------------------------------------------------------------------------
(***************************************************************************)
(* The operations on rounds.                                               *)
(***************************************************************************)
LEMMA StartOpens ==
  ASSUME TypeOK, ~IsInRound, StartRound
  PROVE  Opened
<1>1. PICK toggled \in BOOLEAN : OnRoundStart(toggled)
  BY DEF StartRound
<1>2. IsInRound'
  BY DEF StartRound, IsInRound
<1>3. Teams \subseteq Sides
  BY GameplayAssumption
<1>4. roundScore \in [Sides -> Nat] /\ matchScore \in [Sides -> Nat]
  BY DEF TypeOK
<1>5. QED BY <1>1, <1>2, <1>3, <1>4 DEF Opened, OnRoundStart

LEMMA EndBanks ==
  ASSUME IsInRound, NEW b, NEW o, EndRound(b, o)
  PROVE  Banked
BY DEF EndRound, OnRoundEnd, Banked, IsInRound

LEMMA MatchEndPasses ==
  ASSUME EndMatch
  PROVE  Passing
<1>1. CASE IsInRound /\ roundCount > 1
  <2>1. EndRound(TRUE, TRUE)
    BY <1>1 DEF EndMatch
  <2>2. QED BY <1>1, <2>1, EndBanks DEF Passing
<1>2. CASE IsInRound /\ ~(roundCount > 1)
  BY <1>2 DEF EndMatch, OnRoundEnd, Passing, Banked, IsInRound
<1>3. CASE ~IsInRound
  BY <1>3 DEF EndMatch, Passing, Closed, IsInRound, scores
<1>4. QED BY <1>1, <1>2, <1>3

LEMMA ThinkPasses ==
  ASSUME TypeOK, Think
  PROVE  Passing
<1>1. CASE UNCHANGED <<stateVars, roundTimer, scores>>
  BY <1>1 DEF stateVars, scores, Passing, Kept
<1>2. ASSUME NEW r \in ScenarioAnswers, NEW m \in ScenarioAnswers, OnThink(r, m)
      PROVE  Passing
  <2>1. \/ ~IsInRound /\ StartRound
        \/ EndMatch
        \/ IsInRound /\ EndRound(TRUE, gameOver)
        \/ UNCHANGED <<stateVars, roundTimer, scores>>
    BY <1>2 DEF OnThink, IsInRound, IsInRoundIntermission
  <2>2. QED BY <1>1, <2>1, StartOpens, EndBanks, MatchEndPasses DEF Passing
<1>3. QED BY <1>1, <1>2 DEF Think

\* Every step but a point and a new match passes the points on.
LEMMA OthersPass ==
  ASSUME TypeOK,
         \/ Think \/ Tick \/ LevelRefused \/ EndMatchQueued
         \/ CvarChange \/ TimerCall \/ EndCall \/ LevelCommand
  PROVE  Passing
<1>1. CASE Think
  BY <1>1, ThinkPasses
<1>2. CASE EndMatchQueued
  BY <1>2, MatchEndPasses DEF EndMatchQueued, stateVars, scores, Passing, Kept
<1>3. CASE EndCall
  BY <1>3, MatchEndPasses, EndBanks DEF EndCall, EndRoundNow, EndMatchNow, Passing
<1>4. CASE Tick \/ LevelRefused \/ CvarChange \/ TimerCall \/ LevelCommand
  <2>1. Kept
    BY <1>4 DEF Tick, LevelRefused, CvarChange, SetRoundTime, SetRoundCount,
                SetTimeLimit, SetNextLevel, TimerCall, SetRoundTimer, AddToRoundTimer,
                SetRoundTimerEnabled, ChangeRoundTimerTo, LevelCommand,
                ChangeLevelCommand, ChangeLevelNow, GotoNextMapInCycle, stateVars,
                scores, Kept
  <2>2. QED BY <2>1 DEF Passing
<1>5. QED BY <1>1, <1>2, <1>3, <1>4

LEMMA NewMatchClears ==
  ASSUME LoadScenario \/ NewLevel
  PROVE  Cleared
BY DEF LoadScenario, NewLevel, InitialState, Cleared, IsInRound

-----------------------------------------------------------------------------
(***************************************************************************)
(* The invariant.                                                          *)
(***************************************************************************)
LEMMA HistoryStepIsStep == [HNext]_histVars => [Next]_vars
<1>1. (\E s \in Sides : Score(s)) => Play
  BY DEF Play
<1>2. QED BY <1>1 DEF HNext, Next, Server, histVars

LEMMA PassingCounts ==
  ASSUME TypeOK, Balanced, played \in [Sides -> Nat], Passing, UNCHANGED played
  PROVE  Balanced'
<1>0. /\ \A s \in Sides : /\ roundScore[s] \in Nat /\ matchScore[s] \in Nat
                          /\ played[s] \in Nat
      /\ Teams \subseteq Sides
  BY GameplayAssumption DEF TypeOK
<1>1. CASE Kept
  BY <1>1 DEF Kept, Balanced, NoneLost, PointsCountOnce, Counted, IsInRound
<1>2. CASE Opened
  BY <1>0, <1>2 DEF Opened, Balanced, NoneLost, PointsCountOnce, Counted
<1>3. CASE Banked
  BY <1>0, <1>3 DEF Banked, Balanced, NoneLost, PointsCountOnce, Counted
<1>4. CASE Closed
  BY <1>0, <1>4 DEF Closed, Balanced, NoneLost, PointsCountOnce, Counted
<1>5. QED BY <1>1, <1>2, <1>3, <1>4 DEF Passing

LEMMA PointCounts ==
  ASSUME TypeOK, Balanced, played \in [Sides -> Nat],
         NEW s \in Sides, Score(s),
         played' = IF IsInRound THEN [played EXCEPT ![s] = @ + 1] ELSE played
  PROVE  Balanced' /\ played' \in [Sides -> Nat]
<1>0. /\ roundScore \in [Sides -> Nat] /\ matchScore \in [Sides -> Nat]
      /\ Teams \subseteq Sides
  BY GameplayAssumption DEF TypeOK
<1>1. /\ roundScore' = [roundScore EXCEPT ![s] = @ + 1] /\ matchScore' = matchScore
      /\ IsInRound' = IsInRound
  BY DEF Score, stateVars, IsInRound
<1>2. played' \in [Sides -> Nat]
  OBVIOUS
<1>3. CASE ~IsInRound
  BY <1>0, <1>1, <1>3 DEF Balanced, NoneLost, PointsCountOnce, Counted
<1>4. CASE IsInRound
  <2>1. \A q \in Sides :
          /\ Counted(q)' = Counted(q) + (IF q = s THEN 1 ELSE 0)
          /\ played'[q] = played[q] + (IF q = s THEN 1 ELSE 0)
          /\ Counted(q) \in Nat /\ played[q] \in Nat
    BY <1>0, <1>1, <1>4 DEF Counted
  <2>2. QED BY <1>0, <2>1 DEF Balanced, NoneLost, PointsCountOnce
<1>5. QED BY <1>2, <1>3, <1>4

LEMMA ClearedCounts ==
  ASSUME Cleared, played' = [s \in Sides |-> 0]
  PROVE  Balanced' /\ played' \in [Sides -> Nat]
BY GameplayAssumption DEF Cleared, Balanced, NoneLost, PointsCountOnce, Counted

LEMMA CountStep ==
  ASSUME HInv, [HNext]_histVars
  PROVE  HInv'
<1>0. TypeOK /\ Balanced /\ played \in [Sides -> Nat] /\ Inv
  BY DEF HInv, Inv
<1>1. Inv'
  BY <1>0, HistoryStepIsStep, InvStep
<1>2. ASSUME NEW s \in Sides, Score(s),
             played' = IF IsInRound THEN [played EXCEPT ![s] = @ + 1] ELSE played
      PROVE  Balanced' /\ played' \in [Sides -> Nat]
  BY <1>0, <1>2, PointCounts
<1>3. CASE (LoadScenario \/ NewLevel) /\ played' = [s \in Sides |-> 0]
  BY <1>1, <1>3, NewMatchClears, ClearedCounts DEF HInv
<1>4. CASE /\ \/ Think \/ Tick \/ LevelRefused \/ EndMatchQueued
              \/ CvarChange \/ TimerCall \/ EndCall \/ LevelCommand
           /\ UNCHANGED played
  BY <1>0, <1>1, <1>4, OthersPass, PassingCounts DEF HInv
<1>5. CASE UNCHANGED histVars
  <2>1. Kept /\ UNCHANGED played
    BY <1>5 DEF histVars, vars, stateVars, scores, Kept
  <2>2. QED BY <1>0, <1>1, <2>1, PassingCounts DEF Passing, HInv
<1>6. QED BY <1>1, <1>2, <1>3, <1>4, <1>5 DEF HNext, HInv

LEMMA InitCounts == HInit => HInv
<1> SUFFICES ASSUME HInit PROVE HInv
  OBVIOUS
<1>1. Inv
  BY InitInv DEF HInit
<1>2. QED BY <1>1, GameplayAssumption
          DEF HInit, Init, HInv, Balanced, NoneLost, PointsCountOnce, Counted, IsInRound

LEMMA HistoryInvariance == HSpec => []HInv
BY InitCounts, CountStep, PTL DEF HSpec

(***************************************************************************)
(* Whatever ends rounds and matches, in whatever order, the match score of *)
(* a player is every point of the finished rounds, once, provided that the *)
(* scenario resets the round scores when a round begins (ROUND_START does  *)
(* it for the teams only); otherwise warmup points would count as well.    *)
(***************************************************************************)
THEOREM EveryPointCountsOnce ==
  ASSUME ScenarioResetsScores
  PROVE  HSpec => []PointsCountOnce
<1>1. HInv => PointsCountOnce
  BY DEF HInv, Balanced
<1>2. QED BY HistoryInvariance, <1>1, PTL

(***************************************************************************)
(* Even if the scenario leaves the round scores of the players alone, no   *)
(* point that a player scored in a round is lost, and no team gets a point *)
(* twice: ROUND_END, reached from EndRound and from EndMatch, banks each   *)
(* round once.                                                             *)
(***************************************************************************)
THEOREM NoPointIsLost == HSpec => []NoneLost
<1>1. HInv => NoneLost
  BY DEF HInv, Balanced
<1>2. QED BY HistoryInvariance, <1>1, PTL

=============================================================================
