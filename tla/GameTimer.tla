----------------------------- MODULE GameTimer -----------------------------
(***************************************************************************)
(* CGEGameTimer (shared/ges/ge_game_timer.cpp) as CGEMPRules drives it     *)
(* (shared/ges/gemp_gamerules.cpp, the match and round timer wrappers).    *)
(*                                                                         *)
(* The timer stores an absolute end time and, while paused, the time that  *)
(* was remaining; changing a paused timer resumes it, changes it and       *)
(* pauses it again.  timer holds the six fields of the class, now is       *)
(* gpGlobals->curtime, which starts at a positive time and is bounded by   *)
(* MaxTime in the model.                                                   *)
(***************************************************************************)
EXTENDS Integers

CONSTANTS
  Second,       \* units of time in one second
  Lengths,      \* lengths the timer is given, in units of time
  Adjustments,  \* amounts added to a started timer, of either sign
  EnableLength, \* ge_roundtime: what an enabled timer is started with
  StartTime,    \* curtime when the timer is created
  MaxTime,      \* bound on curtime
  MaxLength     \* bound on the length that additions reach

ASSUME GameTimerAssumption ==
  /\ Second \in Nat \ {0}
  /\ Lengths \subseteq Int
  /\ Adjustments \subseteq Int
  /\ EnableLength \in Int
  /\ StartTime \in Nat
  /\ MaxTime \in Nat
  /\ MaxLength \in Nat

VARIABLES
  timer,  \* the fields of CGEGameTimer
  now     \* gpGlobals->curtime

vars == <<timer, now>>

Max0(x) == IF x < 0 THEN 0 ELSE x

\* int time_diff = length_seconds - m_flLength: whole seconds, towards zero.
TimeDiff(d) ==
  IF d >= 0 THEN (d \div Second) * Second ELSE - (((-d) \div Second) * Second)

Fields == [enabled : BOOLEAN, started : BOOLEAN, paused : BOOLEAN,
           pauseRemaining : Nat, endTime : Int, length : Int]

TypeOK == timer \in Fields /\ now \in Nat

-----------------------------------------------------------------------------
(***************************************************************************)
(* The methods of the class, as functions of the timer's fields at now.    *)
(***************************************************************************)
\* Mutant of GetTimeRemaining: an expired timer has a negative time left.
GetTimeLeft(t) ==
  IF ~t.started THEN 0
  ELSE IF t.paused THEN t.pauseRemaining ELSE t.endTime - now

GetTimeRemaining(t) ==
  IF ~t.started THEN 0
  ELSE Max0(IF t.paused THEN t.pauseRemaining ELSE t.endTime - now)

\* The fields with these values, in the order of the class.
TimerOf(en, st, pa, rem, end, len) ==
  [enabled |-> en, started |-> st, paused |-> pa,
   pauseRemaining |-> rem, endTime |-> end, length |-> len]

Ending(t, end, len) ==
  TimerOf(t.enabled, t.started, t.paused, t.pauseRemaining, end, len)

Stop(t) == TimerOf(t.enabled, FALSE, FALSE, 0, 0, 0)

\* Mutant of Start: the pause state survives.
StartKeepsPause(t, n) ==
  IF ~t.enabled THEN t
  ELSE IF n <= 0 THEN Stop(t)
  ELSE TimerOf(TRUE, TRUE, t.paused, t.pauseRemaining, now + n, n)

Start(t, n) ==
  IF ~t.enabled THEN t
  ELSE IF n <= 0 THEN Stop(t)
  ELSE TimerOf(TRUE, TRUE, FALSE, 0, now + n, n)

Pause(t) ==
  IF t.started /\ ~t.paused
  THEN TimerOf(t.enabled, TRUE, TRUE, GetTimeRemaining(t), t.endTime, t.length)
  ELSE t

\* Mutant of Resume: the end time of before the pause is kept.
ResumeKeepsEnd(t) ==
  IF t.started /\ t.paused
  THEN TimerOf(t.enabled, TRUE, FALSE, 0, t.endTime, t.length)
  ELSE t

Resume(t) ==
  IF t.started /\ t.paused
  THEN TimerOf(t.enabled, TRUE, FALSE, 0, now + GetTimeRemaining(t), t.length)
  ELSE t

\* A change to a paused timer happens between a Resume and a Pause.
Repaused(was, t) == IF was.paused THEN Pause(t) ELSE t

ChangeLength(t, n) ==
  LET r    == Resume(t)
      diff == TimeDiff(n - r.length)
  IN  IF ~t.enabled THEN t
      ELSE IF n <= 0 THEN Stop(t)
      ELSE IF ~t.started THEN Start(t, n)
      ELSE Repaused(t, IF r.endTime - now + diff > 0
                       THEN Ending(r, r.endTime + diff, r.length + diff)
                       ELSE Ending(r, now + n, n))

SetCurrentLength(t, n) ==
  IF ~t.enabled THEN t
  ELSE IF n <= 0 THEN Stop(t)
  ELSE IF ~t.started THEN Start(t, n)
  ELSE Repaused(t, Ending(Resume(t), now + n, n))

AddToLength(t, n) ==
  LET r == Resume(t)
  IN  IF ~t.enabled THEN t
      ELSE Repaused(t, IF r.endTime - now + n > 0
                       THEN Ending(r, r.endTime + n, r.length + n)
                       ELSE Ending(r, now, Second))

-----------------------------------------------------------------------------
(***************************************************************************)
(* The wrappers of CGEMPRules, one action each.                            *)
(***************************************************************************)
Init ==
  /\ timer = TimerOf(TRUE, FALSE, FALSE, 0, 0, 0)
  /\ now = StartTime

StartTimer(n) == timer' = Start(timer, n) /\ UNCHANGED now

ChangeTimer(n) ==
  /\ n # timer.length
  /\ timer' = IF n > 0 THEN ChangeLength(timer, n) ELSE Stop(timer)
  /\ UNCHANGED now

SetTimer(n) ==
  /\ n # GetTimeRemaining(timer)
  /\ timer' = IF n > 0 THEN SetCurrentLength(timer, n) ELSE Stop(timer)
  /\ UNCHANGED now

AddToTimer(n) ==
  /\ timer.started
  /\ timer.length + n <= MaxLength
  /\ timer' = AddToLength(timer, n)
  /\ UNCHANGED now

SetTimerPaused(b) ==
  /\ timer' = IF b THEN Pause(timer) ELSE Resume(timer)
  /\ UNCHANGED now

StopTimer == timer' = Stop(timer) /\ UNCHANGED now

Enabled(t) ==
  TimerOf(TRUE, t.started, t.paused, t.pauseRemaining, t.endTime, t.length)

SetTimerEnabled(b) ==
  /\ timer.enabled # b
  /\ timer' = IF b THEN Start(Enabled(timer), EnableLength)
                   ELSE TimerOf(FALSE, FALSE, FALSE, 0, 0, 0)
  /\ UNCHANGED now

Tick == now < MaxTime /\ now' = now + 1 /\ UNCHANGED timer

\* The cvar's callback and the calls for the time left pass an int.  A round
\* starts with the cvar itself, which may have a fraction of a second.
WholeSeconds == {n \in Lengths : n % Second = 0}

Next ==
  \/ \E n \in Lengths : StartTimer(n)
  \/ \E n \in WholeSeconds : ChangeTimer(n) \/ SetTimer(n)
  \/ \E n \in Adjustments : AddToTimer(n)
  \/ \E b \in BOOLEAN : SetTimerPaused(b) \/ SetTimerEnabled(b)
  \/ StopTimer
  \/ Tick

Spec == Init /\ [][Next]_vars

-----------------------------------------------------------------------------
(***************************************************************************)
(* The timer's fields agree with one another: nothing is started while     *)
(* disabled or paused while stopped, a stopped timer has no length and no  *)
(* end, a started one has a positive length and never more time left than  *)
(* that length, whatever was added, changed, paused and resumed before.    *)
(* The HUD and the round logic subtract these fields from one another.     *)
(***************************************************************************)
LeftOf(t) == IF t.paused THEN t.pauseRemaining ELSE t.endTime - now

Coherent ==
  /\ timer.started => timer.enabled
  /\ timer.paused => timer.started
  /\ ~timer.paused => timer.pauseRemaining = 0
  /\ ~timer.started => timer.length = 0 /\ timer.endTime = 0
  /\ timer.started => timer.length > 0 /\ LeftOf(timer) <= timer.length

(***************************************************************************)
(* The timer implements the countdown of module CountdownTimer: however    *)
(* pauses, resumes and changes of length interleave with the passing of    *)
(* time, the time left is the one a plain countdown would have.            *)
(***************************************************************************)
ViewOf(t) == [enabled |-> t.enabled, started |-> t.started, paused |-> t.paused,
              left |-> IF t.started THEN LeftOf(t) ELSE 0, length |-> t.length]

View == ViewOf(timer)

C == INSTANCE CountdownTimer WITH timer <- View

ImplementsCountdown == C!Spec

=============================================================================
