----------------------------- MODULE Countdown -----------------------------
(***************************************************************************)
(* A game timer as its users see it: a countdown that is enabled or not,   *)
(* started or not, paused or not, with the time it has left and its total  *)
(* length.  CGEGameTimer (shared/ges/ge_game_timer.cpp) stores an absolute *)
(* end time instead; module GameTimer models that storage and is shown to  *)
(* implement these operators.  Module Gameplay is built from them, because *)
(* a relative time keeps its state space finite under a clock that never   *)
(* stops.                                                                  *)
(*                                                                         *)
(* Times are integers in units of 1/Second of a second.  left counts below *)
(* zero once a running timer has expired: the code keeps the end time it   *)
(* passed, and ChangeLength reads it.                                      *)
(***************************************************************************)
EXTENDS Integers

CONSTANT Second   \* units of time in one second

ASSUME SecondAssumption == Second \in Nat \ {0}

AtLeastZero(x) == IF x < 0 THEN 0 ELSE x

(***************************************************************************)
(* The C++ conversion to int of a difference of times: whole seconds,      *)
(* towards zero.                                                           *)
(***************************************************************************)
Whole(d) ==
  IF d >= 0 THEN (d \div Second) * Second ELSE - (((-d) \div Second) * Second)

Timer == [enabled : BOOLEAN, started : BOOLEAN, paused : BOOLEAN,
          left : Int, length : Int]

TimerOf(en, st, pa, left, len) ==
  [enabled |-> en, started |-> st, paused |-> pa, left |-> left, length |-> len]

Fresh == TimerOf(TRUE, FALSE, FALSE, 0, 0)

Remaining(t) == IF t.started THEN AtLeastZero(t.left) ELSE 0
Running(t)   == t.started /\ ~t.paused
Expired(t)   == Running(t) /\ Remaining(t) = 0

-----------------------------------------------------------------------------

Halt(t) == TimerOf(t.enabled, FALSE, FALSE, 0, 0)

Begin(t, n) ==
  IF ~t.enabled THEN t
  ELSE IF n <= 0 THEN Halt(t)
  ELSE TimerOf(TRUE, TRUE, FALSE, n, n)

Having(t, left, len) == TimerOf(t.enabled, t.started, t.paused, left, len)

(***************************************************************************)
(* A new total length: the time already elapsed is kept, unless that would *)
(* leave nothing, in which case the timer starts over with the new length. *)
(***************************************************************************)
Extend(t, n) ==
  LET d == Whole(n - t.length)
  IN  IF ~t.enabled THEN t
      ELSE IF n <= 0 THEN Halt(t)
      ELSE IF ~t.started THEN Begin(t, n)
      ELSE IF t.left + d > 0 THEN Having(t, t.left + d, t.length + d)
      ELSE Having(t, n, n)

\* A new time left, whatever has elapsed.
Reset(t, n) ==
  IF ~t.enabled THEN t
  ELSE IF n <= 0 THEN Halt(t)
  ELSE IF ~t.started THEN Begin(t, n)
  ELSE Having(t, n, n)

\* n more units (or fewer): a started timer loses what it had left at worst.
Add(t, n) ==
  IF ~t.enabled THEN t
  ELSE IF t.left + n > 0 THEN Having(t, t.left + n, t.length + n)
  ELSE Having(t, 0, Second)

Freeze(t) ==
  IF Running(t)
  THEN TimerOf(t.enabled, TRUE, TRUE, AtLeastZero(t.left), t.length)
  ELSE t

Thaw(t) == TimerOf(t.enabled, t.started, FALSE, t.left, t.length)

Elapse(t, n) == IF Running(t) THEN Having(t, t.left - n, t.length) ELSE t

-----------------------------------------------------------------------------
(***************************************************************************)
(* What CGEMPRules does with its timers (ChangeMatchTimer and the like):   *)
(* each compares with the present state before it calls the timer.         *)
(***************************************************************************)
ChangeTimer(t, n) ==
  IF n = t.length THEN t ELSE IF n > 0 THEN Extend(t, n) ELSE Halt(t)

SetTimer(t, n) ==
  IF n = Remaining(t) THEN t ELSE IF n > 0 THEN Reset(t, n) ELSE Halt(t)

AddToTimer(t, n) == IF t.started THEN Add(t, n) ELSE t

\* Enabling starts the timer with the length n, disabling stops it.
SetEnabled(t, b, n) ==
  IF t.enabled = b THEN t
  ELSE IF b THEN Begin(TimerOf(TRUE, t.started, t.paused, t.left, t.length), n)
  ELSE TimerOf(FALSE, FALSE, FALSE, 0, 0)

=============================================================================
