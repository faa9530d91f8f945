------------------------- MODULE GameplayPlanProofs -------------------------
(***************************************************************************)
(* Proof that the rounds ge_roundcount asks for are the rounds that are    *)
(* played, for any match time, round count and delay for which the code    *)
(* can keep its plan.                                                      *)
(***************************************************************************)
EXTENDS GameplayProofs

\* The delay the plan reckons with, and the time k rounds and breaks take.
PlannedDelay == IF RoundDelay > SkipDelay THEN RoundDelay ELSE SkipDelay

Used(k, time) == k * (time + RoundDelay)

(***************************************************************************)
(* What the code's numbers have to satisfy.  The shortest round (60 s) is  *)
(* longer than the time not worth another round (30 s), ge_rounddelay is   *)
(* at least 2, and what the division by n leaves over, together with the   *)
(* delays that are reckoned longer than they are, is not worth a round     *)
(* either.  The scenario lets rounds and matches end.  MaxRounds is the    *)
(* bound of the model.                                                     *)
(***************************************************************************)
PlanCanBeKept ==
  /\ ScenarioAnswers = {TRUE}
  /\ MatchTail < MinRoundTime
  /\ RoundDelay > 0
  /\ \A n \in RoundCounts : n > 0 =>
       /\ n <= MaxRounds
       /\ (n - 1) + (n - 1) * (PlannedDelay - RoundDelay) <= MatchTail + RoundDelay

-----------------------------------------------------------------------------
(***************************************************************************)
(* Arithmetic of the plan.                                                 *)
(***************************************************************************)
LEMMA UsedNext ==
  ASSUME NEW k \in Int, NEW time \in Nat
  PROVE  /\ Used(k, time) \in Int
         /\ Used(k + 1, time) = Used(k, time) + time + RoundDelay
         /\ Used(0, time) = 0
<1>1. RoundDelay \in Nat
  BY GameplayAssumption
<1> DEFINE c == time + RoundDelay
<1>2. c \in Nat
  BY <1>1
<1>3. (k + 1) * c = k * c + c /\ k * c \in Int /\ 0 * c = 0
  <2> HIDE DEF c
  <2> QED BY <1>2
<1>4. Used(k, time) = k * c /\ Used(k + 1, time) = (k + 1) * c /\ Used(0, time) = 0 * c
  BY DEF Used
<1>5. k * c + c = k * c + time + RoundDelay
  <2>1. c = time + RoundDelay /\ k * c \in Int
    BY <1>3
  <2> HIDE DEF c
  <2> QED BY <1>1, <2>1
<1>6. QED BY <1>3, <1>4, <1>5

LEMMA DivisionBounds ==
  ASSUME NEW a \in Nat, NEW n \in Nat \ {0}
  PROVE  /\ a \div n \in Nat
         /\ n * (a \div n) <= a
         /\ a <= n * (a \div n) + (n - 1)
BY SMTT(30)

LEMMA ProductsGrow ==
  ASSUME NEW a \in Nat, NEW b \in Nat, NEW c \in Nat, a <= b
  PROVE  a * c <= b * c
BY SMTT(30)

\* A plan of several rounds and their delays fits, and leaves less than n over.
LEMMA PlanIsTight ==
  ASSUME TypeOK, PlanFits
  PROVE  /\ geRoundCount * geRoundTime + (geRoundCount - 1) * PlannedDelay <= timeLimit
         /\ timeLimit <= geRoundCount * geRoundTime
                           + (geRoundCount - 1) * PlannedDelay + (geRoundCount - 1)
<1> DEFINE n == geRoundCount
           d == PlannedDelay * (n - 1)
<1>0. /\ n \in Nat /\ n > 0 /\ geRoundTime \in Nat /\ geRoundTime > 0 /\ timeLimit \in Nat
      /\ PlannedDelay \in Nat
  BY GameplayAssumption DEF TypeOK, PlanFits, PlannedDelay
<1>1. d \in Nat /\ (n - 1) * PlannedDelay = d
  <2>1. n - 1 \in Nat
    BY <1>0
  <2>2. QED BY <1>0, <2>1
<1>2. CASE n = 1
  <2>1. geRoundTime = timeLimit
    BY <1>2 DEF PlanFits, RoundTimeFor
  <2>2. (n - 1) * PlannedDelay = 0
    BY <1>0, <1>2
  <2>3. QED BY <1>0, <1>2, <2>1, <2>2
<1>3. CASE n > 1
  <2>1. geRoundTime = IF timeLimit > d THEN (timeLimit - d) \div n ELSE 0
    BY <1>3 DEF PlanFits, RoundTimeFor, PlannedDelay
  <2> HIDE DEF d
  <2>2. timeLimit > d /\ geRoundTime = (timeLimit - d) \div n /\ timeLimit - d \in Nat
    BY <1>0, <1>1, <2>1
  <2>3. /\ n * geRoundTime <= timeLimit - d
        /\ timeLimit - d <= n * geRoundTime + (n - 1)
    <3>1. n \in Nat \ {0}
      BY <1>0
    <3> HIDE DEF n
    <3>2. QED BY <2>2, <3>1, DivisionBounds
  <2>4. n * geRoundTime \in Nat
    BY <1>0
  <2> HIDE DEF n
  <2>5. /\ n * geRoundTime + d <= timeLimit
        /\ timeLimit <= n * geRoundTime + d + (n - 1)
    BY <1>0, <1>1, <2>3, <2>4
  <2>6. QED BY <1>1, <2>5 DEF n
<1>4. QED BY <1>0, <1>2, <1>3

(***************************************************************************)
(* After k of n rounds with their breaks there is time for a whole round;  *)
(* after n of them there is none that is worth another one.                *)
(***************************************************************************)
LEMMA Room ==
  ASSUME TypeOK, PlanFits, PlanCanBeKept, geRoundCount \in RoundCounts
  PROVE  /\ \A k \in Nat : k < geRoundCount =>
              timeLimit - Used(k, geRoundTime) >= geRoundTime
         /\ timeLimit - Used(geRoundCount, geRoundTime) <= MatchTail
<1> DEFINE n == geRoundCount
           T == geRoundTime
           R == RoundDelay
           D == PlannedDelay
<1>0. /\ n \in Nat /\ n > 0 /\ T \in Nat /\ timeLimit \in Nat
      /\ R \in Nat /\ D \in Nat /\ R <= D /\ MatchTail \in Nat
  BY GameplayAssumption DEF TypeOK, PlanFits, PlannedDelay
<1>1. /\ n * T + (n - 1) * D <= timeLimit
      /\ timeLimit <= n * T + (n - 1) * D + (n - 1)
  BY PlanIsTight
<1>2. (n - 1) + (n - 1) * (D - R) <= MatchTail + R
  BY <1>0 DEF PlanCanBeKept
<1>3. \A k \in Nat : Used(k, T) = k * (T + R)
  BY DEF Used
<1> HIDE DEF n, T, R, D
<1>4. ASSUME NEW k \in Nat, k < n
      PROVE  timeLimit - k * (T + R) >= T
  <2>1. k * (T + R) = k * T + k * R /\ k * T \in Nat /\ k * R \in Nat
    BY <1>0
  <2>2. k * R <= (n - 1) * R /\ (n - 1) * R \in Nat
    <3>1. n - 1 \in Nat /\ k <= n - 1
      BY <1>0, <1>4
    <3>2. QED BY <1>0, <3>1, ProductsGrow
  <2>3. (n - 1) * R <= (n - 1) * D /\ (n - 1) * D \in Nat
    <3>1. n - 1 \in Nat
      BY <1>0
    <3>2. R * (n - 1) <= D * (n - 1)
      BY <1>0, <3>1, ProductsGrow
    <3>3. QED BY <1>0, <3>1, <3>2
  <2>4. k * T + T <= n * T /\ n * T \in Nat
    <3>1. k + 1 \in Nat /\ k + 1 <= n
      BY <1>0, <1>4
    <3>2. (k + 1) * T <= n * T
      BY <1>0, <3>1, ProductsGrow
    <3>3. (k + 1) * T = k * T + T
      BY <1>0
    <3>4. QED BY <1>0, <3>2, <3>3
  <2>5. QED BY <1>0, <1>1, <2>1, <2>2, <2>3, <2>4
<1>5. timeLimit - n * (T + R) <= MatchTail
  <2>1. /\ n * (T + R) = n * T + n * R /\ n * T \in Nat /\ n * R \in Nat
        /\ (n - 1) * (D - R) = (n - 1) * D - (n - 1) * R
        /\ (n - 1) * R = n * R - R /\ (n - 1) * D \in Int
    BY <1>0
  <2>2. QED BY <1>0, <1>1, <1>2, <2>1
<1>6. QED BY <1>0, <1>3, <1>4, <1>5 DEF n, T, R, D

-----------------------------------------------------------------------------
(***************************************************************************)
(* The invariant: where the match timer stands in the k-th round and in    *)
(* the break after it.  Used up are k - 1 rounds with their breaks and     *)
(* what has passed of the present round, or k rounds, k - 1 breaks and     *)
(* what has passed of the present break; only after the last round may the *)
(* match timer have expired, and then it does not matter how long ago.     *)
(***************************************************************************)
Settings ==
  /\ pending = NoMap
  /\ roundTimer.enabled
  /\ geRoundCount \in RoundCounts \cup {0}
  /\ geRoundTime = 0 \/ geRoundTime >= MinRoundTime

Warmup == roundState = "PRE_START" => ready /\ matchTimer = ChangeTimer(Fresh, timeLimit)

InPlannedRound ==
  /\ roundCount <= geRoundCount
  /\ roundTimer.started /\ matchTimer.started
  /\ roundTimer.left \in 0 .. geRoundTime /\ (~ready => roundTimer.left > 0)
  /\ matchTimer.left = timeLimit - Used(roundCount - 1, geRoundTime)
                         - (geRoundTime - roundTimer.left)

InPlannedBreak ==
  /\ roundCount <= geRoundCount
  /\ matchTimer.started
  /\ intermission <= RoundDelay /\ (~ready => intermission > 0)
  /\ \/ matchTimer.left = timeLimit - Used(roundCount, geRoundTime) + intermission
     \/ roundCount = geRoundCount /\ matchTimer.left <= 0

OnPlan ==
  /\ IsInRound => InPlannedRound
  /\ IsInRoundIntermission /\ ~gameOver => InPlannedBreak
  /\ gameOver => roundCount = geRoundCount

PlanInv == Inv /\ Settings /\ Warmup /\ (PlanFits => OnPlan)

\* What holds whenever a round or a break of a planned match goes on.
LEMMA PlanFacts ==
  ASSUME PlanInv, PlanCanBeKept, PlanFits
  PROVE  /\ geRoundCount \in Nat /\ geRoundCount > 0 /\ geRoundCount <= MaxRounds
         /\ geRoundCount \in RoundCounts
         /\ geRoundTime \in Nat /\ geRoundTime > MatchTail /\ geRoundTime > 0
         /\ timeLimit \in Nat /\ timeLimit > 0
         /\ roundCount \in Nat /\ intermission \in Nat
         /\ Good(roundTimer) /\ roundTimer.enabled
         /\ Good(matchTimer) /\ matchTimer.enabled
         /\ RoundDelay \in Nat /\ RoundDelay > 0 /\ MatchTail \in Nat
<1>1. TypeOK /\ TimersCoherent /\ Settings
  BY DEF PlanInv, Inv
<1>2. geRoundCount \in RoundCounts /\ geRoundCount \in Nat /\ geRoundCount > 0
  BY <1>1 DEF Settings, PlanFits, TypeOK
<1>3. geRoundTime \in Nat /\ geRoundTime > MatchTail /\ geRoundTime > 0
  BY <1>1, GameplayAssumption DEF Settings, PlanFits, PlanCanBeKept, TypeOK
<1>4. timeLimit - Used(0, geRoundTime) >= geRoundTime /\ Used(0, geRoundTime) = 0
  <2>1. 0 \in Nat /\ 0 \in Int /\ 0 < geRoundCount
    BY <1>2
  <2>2. QED BY <1>1, <1>2, <1>3, <2>1, Room, UsedNext
<1>5. timeLimit \in Nat /\ timeLimit > 0
  BY <1>1, <1>3, <1>4 DEF TypeOK
<1>6. roundCount \in Nat /\ intermission \in Nat
  BY <1>1, GameplayAssumption DEF TypeOK
<1>7. Good(roundTimer) /\ roundTimer.enabled /\ Good(matchTimer) /\ matchTimer.enabled
  BY <1>1 DEF TypeOK, TimersCoherent, Good, Settings
<1>8. RoundDelay \in Nat /\ RoundDelay > 0 /\ MatchTail \in Nat /\ geRoundCount <= MaxRounds
  BY <1>2, GameplayAssumption DEF PlanCanBeKept
<1>9. QED BY <1>2, <1>3, <1>5, <1>6, <1>7, <1>8

LEMMA BegunTimer ==
  ASSUME NEW t, t.enabled, NEW n \in Nat, n > 0
  PROVE  Begin(t, n).started /\ Begin(t, n).left = n
BY DEF Begin, TimerOf

LEMMA FullMatchTimer ==
  ASSUME NEW n \in Nat, n > 0
  PROVE  ChangeTimer(Fresh, n).started /\ ChangeTimer(Fresh, n).left = n
BY DEF ChangeTimer, Fresh, TimerOf, Extend, Begin

LEMMA PassOne ==
  ASSUME NEW t, Good(t), t.started
  PROVE  /\ Pass(t).started
         /\ t.left > 0 => Pass(t).left = t.left - 1
         /\ t.left <= 0 => Pass(t).left <= 0
         /\ Pass(t).left \in {t.left, t.left - 1}
<1>1. t.left \in Int /\ Running(t) /\ MaxOverrun \in Nat
  BY GameplayAssumption DEF Good, Timer, CoherentTimer, Running
<1>2. Pass(t) = IF t.left > -MaxOverrun THEN Having(t, t.left - 1, t.length) ELSE t
  BY <1>1 DEF Pass, Elapse
<1>3. /\ Having(t, t.left - 1, t.length).started
      /\ Having(t, t.left - 1, t.length).left = t.left - 1
  BY DEF Having, TimerOf
<1>4. QED BY <1>1, <1>2, <1>3

-----------------------------------------------------------------------------
(***************************************************************************)
(* The passing of time.                                                    *)
(***************************************************************************)
LEMMA TickOnPlan ==
  ASSUME PlanInv, PlanCanBeKept, PlanFits, Tick
  PROVE  OnPlan'
<1> DEFINE n == geRoundCount
           T == geRoundTime
<1>0. OnPlan /\ TypeOK
  BY DEF PlanInv, Inv
<1>1. /\ ~ready /\ ready' /\ UNCHANGED <<roundState, gameOver, roundCount, cvars>>
      /\ intermission' = AtLeastZero(intermission - 1)
      /\ matchTimer' = Pass(matchTimer) /\ roundTimer' = Pass(roundTimer)
  BY DEF Tick
<1>2. UNCHANGED <<geRoundTime, timeLimit, geRoundCount>>
  BY <1>1 DEF cvars
<1>3. Used(roundCount - 1, T) \in Int /\ Used(roundCount, T) \in Int
  <2>1. roundCount - 1 \in Int /\ roundCount \in Int /\ T \in Nat
    BY PlanFacts
  <2>2. QED BY <2>1, UsedNext
<1>4. ASSUME IsInRound PROVE InPlannedRound'
  <2>1. InPlannedRound /\ roundTimer.left > 0
    BY <1>0, <1>1, <1>4 DEF OnPlan, InPlannedRound
  <2>2. matchTimer.left > 0
    <3>1. roundCount - 1 \in Nat /\ roundCount - 1 < n
      BY <1>4, <2>1, PlanFacts DEF InPlannedRound, IsInRound, PlanInv, Inv, OverMeansOver
    <3>2. timeLimit - Used(roundCount - 1, T) >= T
      BY <1>0, <3>1, PlanFacts, Room
    <3>3. QED BY <1>3, <2>1, <3>2, PlanFacts DEF InPlannedRound
  <2>3. /\ roundTimer'.started /\ roundTimer'.left = roundTimer.left - 1
        /\ matchTimer'.started /\ matchTimer'.left = matchTimer.left - 1
    BY <1>1, <2>1, <2>2, PlanFacts, PassOne DEF InPlannedRound
  <2>4. QED BY <1>1, <1>2, <1>3, <2>1, <2>3, PlanFacts DEF InPlannedRound, Used
<1>5. ASSUME IsInRoundIntermission, ~gameOver PROVE InPlannedBreak'
  <2>1. InPlannedBreak /\ intermission > 0
    BY <1>0, <1>1, <1>5 DEF OnPlan, InPlannedBreak
  <2>2. intermission' = intermission - 1 /\ matchTimer.left \in Int
    BY <1>1, <2>1, PlanFacts DEF AtLeastZero, Good, Timer
  <2>3. /\ matchTimer'.started
        /\ matchTimer.left > 0 => matchTimer'.left = matchTimer.left - 1
        /\ matchTimer.left <= 0 => matchTimer'.left <= 0
    BY <1>1, <2>1, PlanFacts, PassOne DEF InPlannedBreak
  <2>4. roundCount < n => matchTimer.left > 0
    <3>1. ASSUME roundCount < n PROVE timeLimit - Used(roundCount, T) >= T
      BY <1>0, <3>1, PlanFacts, Room
    <3>2. QED BY <1>3, <2>1, <3>1, PlanFacts DEF InPlannedBreak
  <2>5. \/ matchTimer'.left = timeLimit - Used(roundCount, T) + intermission'
        \/ roundCount = n /\ matchTimer'.left <= 0
    <3>1. CASE matchTimer.left > 0
      BY <1>3, <2>1, <2>2, <2>3, <3>1, PlanFacts DEF InPlannedBreak
    <3>2. CASE ~(matchTimer.left > 0)
      BY <2>1, <2>2, <2>3, <2>4, <3>2, PlanFacts DEF InPlannedBreak
    <3>3. QED BY <3>1, <3>2
  <2>6. QED BY <1>1, <1>2, <2>1, <2>2, <2>3, <2>5, PlanFacts DEF InPlannedBreak, Used
<1>6. gameOver => roundCount = n
  BY <1>0 DEF OnPlan
<1>7. QED BY <1>1, <1>2, <1>4, <1>5, <1>6 DEF OnPlan, IsInRound, IsInRoundIntermission

-----------------------------------------------------------------------------
(***************************************************************************)
(* What OnThink does in each phase of a planned match.                     *)
(***************************************************************************)
LEMMA RoundBegins ==
  ASSUME PlanInv, PlanCanBeKept, PlanFits, ~gameOver, StartRound, ~ready',
         roundCount < geRoundCount, matchTimer.started,
         matchTimer.left = timeLimit - Used(roundCount, geRoundTime),
         UNCHANGED <<matchTimer, cvars>>
  PROVE  OnPlan'
<1>1. /\ IsInRound' /\ ~IsInRoundIntermission' /\ ~gameOver'
      /\ roundCount' = roundCount + 1
  <2>1. roundCount < MaxRounds
    BY PlanFacts, GameplayAssumption
  <2>2. /\ roundCount' = IF roundCount < MaxRounds THEN roundCount + 1 ELSE roundCount
        /\ roundState' = "PLAYING" /\ gameOver' = gameOver
    BY DEF StartRound
  <2>3. QED BY <2>1, <2>2 DEF IsInRound, IsInRoundIntermission
<1>2. roundTimer' = Begin(roundTimer, geRoundTime)
  BY DEF StartRound, OnRoundStart
<1>3. roundTimer'.started /\ roundTimer'.left = geRoundTime
  BY <1>2, PlanFacts, BegunTimer
<1>4. UNCHANGED <<geRoundTime, timeLimit, geRoundCount>>
  BY DEF cvars
<1>5. Used(roundCount, geRoundTime) \in Int /\ roundCount' - 1 = roundCount
  BY <1>1, PlanFacts, UsedNext
<1>6. InPlannedRound'
  BY <1>1, <1>3, <1>4, <1>5, PlanFacts DEF InPlannedRound, Used
<1>7. QED BY <1>1, <1>6 DEF OnPlan

LEMMA WarmupThinks ==
  ASSUME PlanInv, PlanCanBeKept, PlanFits, roundState = "PRE_START", ~ready',
         OnThink(TRUE, TRUE), UNCHANGED <<matchTimer, cvars>>
  PROVE  OnPlan'
<1>1. StartRound
  BY DEF OnThink, IsInRound, IsInRoundIntermission
<1>2. roundCount = 0 /\ ~gameOver
  BY DEF PlanInv, Inv, OverMeansOver
<1>3. matchTimer.started /\ matchTimer.left = timeLimit
  BY PlanFacts, FullMatchTimer DEF PlanInv, Warmup
<1>4. matchTimer.left = timeLimit - Used(roundCount, geRoundTime)
  BY <1>2, <1>3, PlanFacts, UsedNext
<1>5. QED BY <1>1, <1>2, <1>3, <1>4, PlanFacts, RoundBegins

LEMMA RoundThinks ==
  ASSUME PlanInv, PlanCanBeKept, PlanFits, IsInRound, ~ready',
         OnThink(TRUE, TRUE), UNCHANGED <<matchTimer, cvars>>
  PROVE  OnPlan'
<1> DEFINE n == geRoundCount
           T == geRoundTime
<1>0. /\ TypeOK /\ ~gameOver /\ InPlannedRound /\ ~IsInRoundIntermission
      /\ roundState # "PRE_START" /\ roundCount > 0
  BY DEF PlanInv, Inv, OverMeansOver, OnPlan, IsInRound, IsInRoundIntermission
<1>1. UNCHANGED <<geRoundTime, timeLimit, geRoundCount>>
  BY DEF cvars
<1>2. Running(roundTimer) /\ Running(matchTimer)
  BY <1>0, PlanFacts DEF Running, InPlannedRound, Good, CoherentTimer
<1>3. /\ Used(roundCount - 1, T) \in Int /\ Used(roundCount, T) \in Int
      /\ Used(roundCount, T) = Used(roundCount - 1, T) + T + RoundDelay
  <2>1. roundCount - 1 \in Int /\ (roundCount - 1) + 1 = roundCount /\ T \in Nat
        /\ roundCount \in Int
    BY PlanFacts
  <2>2. QED BY <2>1, UsedNext
<1>4. Expired(roundTimer) <=> roundTimer.left = 0
  BY <1>0, <1>2, PlanFacts DEF Expired, Remaining, AtLeastZero, Running, InPlannedRound
<1>5. ShouldEndMatch(TRUE, TRUE) => roundTimer.left = 0 /\ matchTimer.left <= 0
  BY <1>0, <1>2, <1>4, PlanFacts
     DEF ShouldEndMatch, ShouldEndRound, Remaining, AtLeastZero, Running, Good, Timer
<1>6. CASE UNCHANGED <<stateVars, roundTimer, scores>> /\ roundTimer.left # 0
  <2>1. InPlannedRound'
    BY <1>0, <1>1, <1>6, PlanFacts DEF InPlannedRound, stateVars, Used
  <2>2. QED BY <1>0, <1>6, <2>1 DEF OnPlan, stateVars, IsInRound, IsInRoundIntermission
<1>7. CASE EndRound(TRUE, gameOver) /\ roundTimer.left = 0
  <2>1. /\ ~IsInRound' /\ IsInRoundIntermission' /\ ~gameOver'
        /\ roundCount' = roundCount /\ intermission' = RoundDelay
    BY <1>0, <1>7 DEF EndRound, IsInRound, IsInRoundIntermission
  <2>2. matchTimer'.left = timeLimit - Used(roundCount, T) + RoundDelay
    BY <1>0, <1>3, <1>7, PlanFacts DEF InPlannedRound
  <2>3. InPlannedBreak'
    BY <1>0, <1>1, <1>3, <2>1, <2>2, PlanFacts DEF InPlannedRound, InPlannedBreak, Used
  <2>4. QED BY <2>1, <2>3 DEF OnPlan
<1>8. CASE EndMatch /\ ShouldEndMatch(TRUE, TRUE)
  <2>1. /\ roundCount' = roundCount /\ gameOver' /\ ~IsInRound'
    BY <1>8 DEF EndMatch, EndRound, IsInRound
  <2>2. ~(roundCount < n)
    <3>1. SUFFICES ASSUME roundCount < n PROVE FALSE
      OBVIOUS
    <3>2. timeLimit - Used(roundCount, T) >= T
      BY <1>0, <3>1, PlanFacts, Room
    <3>3. matchTimer.left = timeLimit - Used(roundCount, T) + RoundDelay
      BY <1>0, <1>3, <1>5, <1>8, PlanFacts DEF InPlannedRound
    <3>4. QED BY <1>3, <1>5, <1>8, <3>2, <3>3, PlanFacts
  <2>3. roundCount = n
    BY <1>0, <2>2, PlanFacts DEF InPlannedRound
  <2>4. QED BY <1>1, <2>1, <2>3 DEF OnPlan
<1>9. \/ EndMatch /\ ShouldEndMatch(TRUE, TRUE)
      \/ EndRound(TRUE, gameOver) /\ ShouldEndRound(TRUE)
      \/ /\ ~ShouldEndMatch(TRUE, TRUE) /\ ~ShouldEndRound(TRUE)
         /\ UNCHANGED <<stateVars, roundTimer, scores>>
  BY <1>0 DEF OnThink
<1>10. QED BY <1>4, <1>6, <1>7, <1>8, <1>9 DEF ShouldEndRound

LEMMA BreakThinks ==
  ASSUME PlanInv, PlanCanBeKept, PlanFits, IsInRoundIntermission, ~gameOver, ~ready',
         OnThink(TRUE, TRUE), UNCHANGED <<matchTimer, cvars>>
  PROVE  OnPlan'
<1> DEFINE n == geRoundCount
           T == geRoundTime
<1>0. TypeOK /\ InPlannedBreak /\ ~IsInRound /\ roundState # "PRE_START"
  BY DEF PlanInv, Inv, OnPlan, IsInRound, IsInRoundIntermission
<1>1. UNCHANGED <<geRoundTime, timeLimit, geRoundCount>>
  BY DEF cvars
<1>2. Running(matchTimer) /\ matchTimer.left \in Int
  BY <1>0, PlanFacts DEF Running, InPlannedBreak, Good, CoherentTimer, Timer
<1>3. Used(roundCount, T) \in Int
  BY PlanFacts, UsedNext
<1>4. CASE intermission # 0
  <2>1. UNCHANGED <<stateVars, roundTimer, scores>>
    BY <1>0, <1>4 DEF OnThink
  <2>2. InPlannedBreak'
    BY <1>0, <1>1, <1>4, <2>1, PlanFacts DEF InPlannedBreak, stateVars, Used
  <2>3. QED BY <1>0, <2>1, <2>2 DEF OnPlan, stateVars, IsInRound, IsInRoundIntermission
<1>5. ShouldEndMatch(TRUE, TRUE) <=> matchTimer.left <= MatchTail
  <2>1. Remaining(matchTimer) <= MatchTail <=> matchTimer.left <= MatchTail
    BY <1>2, PlanFacts DEF Remaining, AtLeastZero, Running
  <2>2. ShouldEndMatch(TRUE, TRUE) <=> Remaining(matchTimer) <= MatchTail
    BY <1>0, <1>2 DEF ShouldEndMatch
  <2>3. QED BY <2>1, <2>2
<1>6. CASE intermission = 0 /\ roundCount < n
  <2>1. timeLimit - Used(roundCount, T) >= T
    BY <1>0, <1>6, PlanFacts, Room
  <2>2. matchTimer.left = timeLimit - Used(roundCount, T)
    BY <1>0, <1>3, <1>6, PlanFacts DEF InPlannedBreak
  <2>3. ~ShouldEndMatch(TRUE, TRUE)
    <3>1. timeLimit - Used(roundCount, T) > MatchTail
      BY <1>3, <2>1, PlanFacts
    <3>2. MatchTail \in Int /\ matchTimer.left > MatchTail
      BY <2>2, <3>1, PlanFacts
    <3>3. ~(matchTimer.left <= MatchTail)
      BY <1>2, <3>2
    <3>4. QED BY <1>5, <3>3, Zenon
  <2>4. StartRound
    BY <1>0, <1>6, <2>3 DEF OnThink
  <2>5. QED BY <1>0, <1>6, <2>2, <2>4, RoundBegins DEF InPlannedBreak
<1>7. CASE intermission = 0 /\ ~(roundCount < n)
  <2>1. roundCount = n
    BY <1>0, <1>7, PlanFacts DEF InPlannedBreak
  <2>2. matchTimer.left <= MatchTail
    <3>1. timeLimit - Used(n, T) <= MatchTail
      BY <1>0, PlanFacts, Room
    <3>2. QED BY <1>0, <1>2, <1>3, <1>7, <2>1, <3>1, PlanFacts DEF InPlannedBreak
  <2>3. EndMatch
    BY <1>0, <1>5, <1>7, <2>2 DEF OnThink
  <2>4. roundCount' = roundCount /\ gameOver' /\ ~IsInRound'
    BY <1>0, <2>3 DEF EndMatch, EndRound, IsInRound
  <2>5. QED BY <1>1, <2>1, <2>4 DEF OnPlan
<1>8. QED BY <1>4, <1>6, <1>7

LEMMA OverThinks ==
  ASSUME PlanInv, PlanFits, gameOver, OnThink(TRUE, TRUE), UNCHANGED <<matchTimer, cvars>>
  PROVE  OnPlan'
<1>0. /\ ~IsInRound /\ roundState # "PRE_START"
      /\ roundCount = geRoundCount
  BY DEF PlanInv, Inv, OverMeansOver, OnPlan, IsInRound
<1>1. EndMatch \/ UNCHANGED <<stateVars, roundTimer, scores>>
  BY <1>0 DEF OnThink, ShouldEndMatch
<1>2. gameOver' /\ ~IsInRound' /\ roundCount' = roundCount
  BY <1>0, <1>1 DEF EndMatch, EndRound, stateVars, IsInRound
<1>3. QED BY <1>0, <1>2 DEF OnPlan, cvars

LEMMA ThinkOnPlan ==
  ASSUME PlanInv, PlanCanBeKept, PlanFits, Think
  PROVE  OnPlan'
<1>0. ~ready' /\ UNCHANGED <<matchTimer, cvars>> /\ OnPlan
  BY DEF Think, PlanInv
<1>1. CASE ready
  <2>1. OnThink(TRUE, TRUE)
    BY <1>1 DEF Think, PlanCanBeKept
  <2>2. \/ roundState = "PRE_START" \/ IsInRound \/ gameOver
        \/ IsInRoundIntermission /\ ~gameOver
    BY DEF PlanInv, Inv, TypeOK, OverMeansOver, RoundStates, IsInRound,
           IsInRoundIntermission, IsInFinalIntermission
  <2>3. QED BY <1>0, <2>1, <2>2, WarmupThinks, RoundThinks, BreakThinks, OverThinks
<1>2. CASE ~ready
  <2>1. UNCHANGED <<stateVars, roundTimer, scores>>
    BY <1>2 DEF Think
  <2>2. UNCHANGED <<roundState, gameOver, roundCount, intermission, ready, roundTimer,
                    matchTimer, geRoundTime, timeLimit, geRoundCount>>
    BY <1>0, <1>2, <2>1 DEF Think, stateVars, cvars, PlanInv, Inv, TypeOK
  <2>3. QED BY <1>0, <2>2 DEF OnPlan, InPlannedRound, InPlannedBreak, Used, IsInRound,
                             IsInRoundIntermission
<1>3. QED BY <1>1, <1>2

-----------------------------------------------------------------------------
(***************************************************************************)
(* The settings of the plan.                                               *)
(***************************************************************************)
LEMMA PutRoundTimeSettings ==
  ASSUME NEW t, Good(t), t.enabled, NEW v \in Nat, geRoundTime \in Nat,
         geRoundTime = 0 \/ geRoundTime >= MinRoundTime, PutRoundTime(t, v)
  PROVE  /\ roundTimer'.enabled
         /\ geRoundTime' = 0 \/ geRoundTime' >= MinRoundTime
<1>1. /\ AtLeastMinimum(Capped(v)) \in Int
      /\ AtLeastMinimum(Capped(v)) = 0 \/ AtLeastMinimum(Capped(v)) >= MinRoundTime
  BY GameplayAssumption DEF AtLeastMinimum, Capped
<1>2. QED BY <1>1, ChangeTimerGood DEF PutRoundTime

LEMMA RoundsKeepEnabled ==
  ASSUME Good(roundTimer), geRoundTime \in Nat, roundTimer.enabled,
         \/ StartRound \/ EndMatch \/ EndRound(TRUE, gameOver)
         \/ UNCHANGED <<stateVars, roundTimer, scores>>
  PROVE  roundTimer'.enabled
<1>1. Halt(roundTimer).enabled /\ Begin(roundTimer, geRoundTime).enabled
  BY HaltGood, BeginGood
<1>2. roundTimer' \in {roundTimer, Halt(roundTimer), Begin(roundTimer, geRoundTime)}
  BY DEF StartRound, OnRoundStart, EndMatch, EndRound, OnRoundEnd, scores
<1>3. QED BY <1>1, <1>2

LEMMA SettingsStep ==
  ASSUME PlanInv, [PlannedNext]_vars
  PROVE  Settings'
<1> USE DEF Settings
<1>0. TypeOK /\ Settings /\ Good(roundTimer) /\ geRoundTime \in Nat /\ timeLimit \in Nat
      /\ geRoundCount \in Nat
  BY DEF PlanInv, Inv, TypeOK, TimersCoherent, Good
<1>1. CASE Think
  <2>1. roundTimer'.enabled
    BY <1>0, <1>1, RoundsKeepEnabled DEF Think, OnThink
  <2>2. pending' = pending
    BY <1>1 DEF Think, ChangeLevel, SetupChangeLevel, ArmLevelChange, levelVars
  <2>3. QED BY <1>0, <1>1, <2>1, <2>2 DEF Think, cvars
<1>2. CASE Tick
  BY <1>0, <1>2, PassGood DEF Tick, cvars
<1>3. CASE NewLevel
  <2>1. /\ PutRoundTime(Fresh, IF timeLimit > 0
                               THEN RoundTimeFor(geRoundCount, timeLimit, geRoundTime)
                               ELSE geRoundTime)
        /\ UNCHANGED <<geRoundCount, pending>>
    BY <1>3 DEF NewLevel, HandleTimeLimitChange
  <2>2. RoundTimeFor(geRoundCount, timeLimit, geRoundTime) \in Nat
    BY <1>0, RoundTimeForType
  <2>3. QED BY <1>0, <2>1, <2>2, FreshGood, PutRoundTimeSettings
<1>4. CASE LevelRefused \/ UNCHANGED vars
  BY <1>0, <1>4 DEF LevelRefused, vars, cvars, levelVars
<1>5. CASE EndMatchQueued
  BY <1>0, <1>5 DEF EndMatchQueued
<1>6. ASSUME NEW m \in RoundCounts, SetRoundCount(m)
      PROVE  Settings'
  <2>1. /\ PutRoundTime(roundTimer, RoundTimeFor(m, timeLimit, geRoundTime))
        /\ geRoundCount' = m /\ UNCHANGED pending
    BY <1>6 DEF SetRoundCount, levelVars
  <2>2. RoundTimeFor(m, timeLimit, geRoundTime) \in Nat
    BY <1>0, GameplayAssumption, RoundTimeForType
  <2>3. QED BY <1>0, <2>1, <2>2, PutRoundTimeSettings
<1>7. QED BY <1>1, <1>2, <1>3, <1>4, <1>5, <1>6 DEF PlannedNext, Server

LEMMA WarmupStep ==
  ASSUME PlanInv, [PlannedNext]_vars
  PROVE  Warmup'
<1> USE DEF Warmup
<1>0. Warmup /\ pending = NoMap
  BY DEF PlanInv, Settings
<1>1. CASE Think
  <2>1. CASE roundState = "PRE_START"
    <3>1. PICK r \in ScenarioAnswers, m \in ScenarioAnswers : OnThink(r, m)
      BY <1>0, <1>1, <2>1 DEF Think
    <3>2. StartRound
      BY <2>1, <3>1 DEF OnThink, IsInRound, IsInRoundIntermission
    <3>3. QED BY <3>2 DEF StartRound
  <2>2. CASE roundState # "PRE_START"
    <3>1. UNCHANGED <<stateVars, roundTimer, scores>> => roundState' # "PRE_START"
      BY <2>2 DEF stateVars
    <3>2. StartRound \/ EndMatch \/ EndRound(TRUE, gameOver) => roundState' # "PRE_START"
      BY DEF StartRound, EndMatch, EndRound
    <3>3. QED BY <1>1, <3>1, <3>2 DEF Think, OnThink
  <2>3. QED BY <2>1, <2>2
<1>2. CASE Tick
  BY <1>0, <1>2 DEF Tick
<1>3. CASE NewLevel
  BY <1>3 DEF NewLevel, HandleTimeLimitChange, InitialState
<1>4. CASE LevelRefused \/ UNCHANGED vars
  BY <1>0, <1>4 DEF LevelRefused, vars, stateVars, cvars
<1>5. CASE EndMatchQueued
  BY <1>0, <1>5 DEF EndMatchQueued
<1>6. ASSUME NEW m \in RoundCounts, SetRoundCount(m)
      PROVE  Warmup'
  BY <1>0, <1>6 DEF SetRoundCount, stateVars
<1>7. QED BY <1>1, <1>2, <1>3, <1>4, <1>5, <1>6 DEF PlannedNext, Server

-----------------------------------------------------------------------------
LEMMA PlanStep ==
  ASSUME PlanInv, PlanCanBeKept, [PlannedNext]_vars
  PROVE  PlanInv'
<1>0. Inv /\ (PlanFits => OnPlan) /\ pending = NoMap
  BY DEF PlanInv, Settings
<1>1. [Next]_vars
  <2>1. (\E m \in RoundCounts : SetRoundCount(m)) => CvarChange
    BY DEF CvarChange
  <2>2. QED BY <2>1 DEF PlannedNext, Next
<1>2. Inv'
  BY <1>0, <1>1, InvStep
<1>3. roundState' = "PRE_START" => OnPlan'
  BY <1>2 DEF Inv, OverMeansOver, OnPlan, IsInRound, IsInRoundIntermission
<1>4. (PlanFits => OnPlan)'
  <2>1. CASE Think \/ Tick
    <3>1. PlanFits' <=> PlanFits
      BY <2>1 DEF Think, Tick, cvars, PlanFits
    <3>2. QED BY <2>1, <3>1, ThinkOnPlan, TickOnPlan
  <2>2. CASE NewLevel
    BY <1>3, <2>2 DEF NewLevel, InitialState
  <2>3. CASE LevelRefused \/ UNCHANGED vars
    <3>1. UNCHANGED <<stateVars, ready, matchTimer, roundTimer, cvars>>
      BY <2>3 DEF LevelRefused, vars
    <3>2. UNCHANGED <<roundState, gameOver, roundCount, intermission, ready, roundTimer,
                      matchTimer, geRoundTime, timeLimit, geRoundCount>>
      BY <3>1 DEF stateVars, cvars
    <3>3. QED BY <1>0, <3>2 DEF PlanFits, OnPlan, InPlannedRound, InPlannedBreak, Used,
                               IsInRound, IsInRoundIntermission
  <2>4. CASE EndMatchQueued
    BY <1>0, <2>4 DEF EndMatchQueued
  <2>5. ASSUME NEW m \in RoundCounts, roundState = "PRE_START", SetRoundCount(m)
        PROVE  OnPlan'
    BY <1>3, <2>5 DEF SetRoundCount, stateVars
  <2>6. QED BY <2>1, <2>2, <2>3, <2>4, <2>5 DEF PlannedNext, Server
<1>5. QED BY <1>2, <1>4, SettingsStep, WarmupStep DEF PlanInv

LEMMA PlanInit == Init => PlanInv
<1> SUFFICES ASSUME Init PROVE PlanInv
  OBVIOUS
<1>1. Inv
  BY InitInv
<1>2. geRoundTime = 0 \/ geRoundTime >= MinRoundTime
  BY GameplayAssumption DEF Init, AtLeastMinimum, Capped
<1>3. ~PlanFits
  BY DEF Init, PlanFits
<1>4. QED BY <1>1, <1>2, <1>3, FreshGood DEF Init, PlanInv, Settings, Warmup

(***************************************************************************)
(* A match that is planned before its first round and left alone has       *)
(* exactly the rounds that ge_roundcount asked for, whatever the match     *)
(* time, if the time and the delays allow the plan.                        *)
(***************************************************************************)
THEOREM PlannedRoundsArePlayed ==
  ASSUME PlanCanBeKept
  PROVE  PlannedSpec => []RoundsAsPlanned
<1>1. PlanInv => RoundsAsPlanned
  BY DEF PlanInv, OnPlan, RoundsAsPlanned
<1>2. PlanInv /\ [PlannedNext]_vars => PlanInv'
  BY PlanStep
<1>3. QED BY PlanInit, <1>1, <1>2, PTL DEF PlannedSpec

=============================================================================
