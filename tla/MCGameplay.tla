----------------------------- MODULE MCGameplay -----------------------------
(***************************************************************************)
(* Gameplay for TLC.  One unit of time is a few seconds.                   *)
(***************************************************************************)
EXTENDS Gameplay

MCSetTimes    == {0, 1}
MCAdjustments == {-2, 1}
OneHeavyPair  == {<<"dam", "train">>}

=============================================================================
