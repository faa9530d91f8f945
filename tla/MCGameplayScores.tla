-------------------------- MODULE MCGameplayScores --------------------------
(***************************************************************************)
(* Gameplay with its history for TLC: two levels, the way from the first   *)
(* to the second goes through the transition map.                          *)
(***************************************************************************)
EXTENDS GameplayScores

OneHeavyPair == {<<"dam", "train">>}

=============================================================================
