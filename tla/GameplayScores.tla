-------------------------- MODULE GameplayScores --------------------------
(***************************************************************************)
(* Gameplay with a history of the points that were scored, to state what   *)
(* becomes of them.  played holds what each side scored during the rounds  *)
(* of the present match; the points of warmups and intermissions are       *)
(* discarded by the resets at the start of a round.                        *)
(***************************************************************************)
EXTENDS Gameplay

VARIABLE played

histVars == <<vars, played>>

HInit == Init /\ played = [s \in Sides |-> 0]

HNext ==
  \/ \E s \in Sides :
       /\ played[s] < MaxPoints
       /\ Score(s)
       /\ played' = IF IsInRound THEN [played EXCEPT ![s] = @ + 1] ELSE played
  \/ /\ LoadScenario \/ NewLevel
     /\ played' = [s \in Sides |-> 0]
  \/ LevelRefused /\ UNCHANGED played
  \/ /\ \/ Think \/ Tick \/ EndMatchQueued
        \/ CvarChange \/ TimerCall \/ EndCall \/ LevelCommand
     /\ UNCHANGED played

HSpec == HInit /\ [][HNext]_histVars

(***************************************************************************)
(* Whichever way rounds and matches end - by their time, by a command, by  *)
(* the scenario, with the match or before it - a player's match score is   *)
(* every point of the finished rounds, once (ROUND_END adds the round      *)
(* scores, from two places in EndMatch and from EndRound).  Teams lose     *)
(* theirs when teamplay is toggled, and never get a point twice.           *)
(***************************************************************************)
Counted(s) == matchScore[s] + (IF IsInRound THEN roundScore[s] ELSE 0)

PointsCountOnce ==
  /\ \A s \in Sides \ Teams : Counted(s) = played[s]
  /\ \A s \in Teams : Counted(s) <= played[s]

=============================================================================
