---------------------------- MODULE MCGameTimer ----------------------------
(***************************************************************************)
(* GameTimer on a small clock with half-second resolution, so that         *)
(* fractional lengths and the truncation to whole seconds both occur.      *)
(***************************************************************************)
EXTENDS GameTimer

MCLengths     == {0, 3, 4, 8}
MCAdjustments == {-4, -2, 2}

=============================================================================
