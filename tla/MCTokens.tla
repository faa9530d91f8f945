------------------------------ MODULE MCTokens ------------------------------
(***************************************************************************)
(* Tokens for TLC.  The limits the scenario sets: no token, one and two;   *)
(* the third token is one too many.                                        *)
(***************************************************************************)
EXTENDS Tokens

MCLimits == {0, 1, 2}

=============================================================================
