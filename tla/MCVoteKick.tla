----------------------------- MODULE MCVoteKick -----------------------------
(***************************************************************************)
(* VoteKick and its history for TLC: all players are alike.                *)
(***************************************************************************)
EXTENDS VoteKickBackers, TLC

Alike == Permutations(Players)

=============================================================================
