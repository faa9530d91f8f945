-------------------------- MODULE MatchLifecycle --------------------------
(***************************************************************************)
(* What the gameplay manager promises about a match, with every timer and  *)
(* command left out: a match is a warmup, rounds separated by breaks and a *)
(* final intermission.  Once the match is ending no round starts any more, *)
(* a match of several rounds shows the report of its last round before the *)
(* final one, and a match never comes back from its final intermission:    *)
(* only another match does, on this level or on the next one.  The level   *)
(* changes only when that was announced, and an announced change is never  *)
(* taken back.                                                             *)
(***************************************************************************)
EXTENDS Integers

VARIABLES
  phase,     \* warmup, round, break or final
  ending,    \* the match will have no further round
  several,   \* more than one round was started
  announced  \* a change of level is coming

vars == <<phase, ending, several, announced>>

Init ==
  /\ phase = "warmup"
  /\ ending = FALSE
  /\ several = FALSE
  /\ announced = FALSE

NewMatch ==
  /\ phase' = "warmup"
  /\ ending' = FALSE
  /\ several' = FALSE

Restart == NewMatch /\ UNCHANGED announced

StartRound ==
  /\ phase \in {"warmup", "break"} /\ ~ending
  /\ phase' = "round"
  /\ several' = (several \/ phase = "break")
  /\ UNCHANGED <<ending, announced>>

EndRound ==
  /\ phase = "round"
  /\ phase' = "break"
  /\ ending' \in {ending, several}
  /\ UNCHANGED <<several, announced>>

EndMatch ==
  /\ phase \in {"warmup", "break"} \/ (phase = "round" /\ ~several)
  /\ phase' = "final"
  /\ ending' = TRUE
  /\ UNCHANGED <<several, announced>>

Announce == announced' = TRUE /\ UNCHANGED <<phase, ending, several>>

NextLevel == announced /\ NewMatch /\ announced' \in BOOLEAN

Next ==
  Restart \/ StartRound \/ EndRound \/ EndMatch \/ Announce \/ NextLevel

Spec == Init /\ [][Next]_vars

-----------------------------------------------------------------------------
\* The end of a match stands: from the report of its last round, which there is
\* only after several, or from its final intermission, only a new match leads on.
EndsLast ==
  /\ ending => phase = "final" \/ (phase = "break" /\ several)
  /\ phase = "final" => ending

EndStands ==
  [][ending /\ phase' # "warmup" =>
       ending' /\ phase' \in {phase, "final"} /\ several' = several]_vars

=============================================================================
