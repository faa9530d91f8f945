--------------------------- MODULE CountdownTimer ---------------------------
(***************************************************************************)
(* What a game timer promises: the abstract specification that GameTimer   *)
(* implements.  Time runs only while the timer runs; everything else that  *)
(* happens to it is one of the operations of module Countdown.             *)
(***************************************************************************)
EXTENDS Countdown

CONSTANTS
  Lengths,      \* lengths the timer is given, in units of time
  Adjustments,  \* amounts added to a started timer, of either sign
  EnableLength  \* what an enabled timer is started with (ge_roundtime)

VARIABLE timer

Init == timer = Fresh

Start         == \E n \in Lengths : timer' = Begin(timer, n)
Change        == \E n \in Lengths : timer' = ChangeTimer(timer, n)
Set           == \E n \in Lengths : timer' = SetTimer(timer, n)
AddTo         == \E n \in Adjustments : timer' = AddToTimer(timer, n)
SetPaused     == \E b \in BOOLEAN : timer' = IF b THEN Freeze(timer) ELSE Thaw(timer)
StopTimer     == timer' = Halt(timer)
Enable        == \E b \in BOOLEAN : timer' = SetEnabled(timer, b, EnableLength)
Pass          == timer' = Elapse(timer, 1)

Next ==
  Start \/ Change \/ Set \/ AddTo \/ SetPaused \/ StopTimer \/ Enable \/ Pass

Spec == Init /\ [][Next]_timer

=============================================================================
