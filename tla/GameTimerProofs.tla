-------------------------- MODULE GameTimerProofs --------------------------
(***************************************************************************)
(* Proofs about GameTimer: its types, the coherence of its fields, and     *)
(* that it implements the plain countdown of CountdownTimer.               *)
(***************************************************************************)
EXTENDS GameTimer, TLAPS

Inv == TypeOK /\ Coherent

-----------------------------------------------------------------------------
(***************************************************************************)
(* Truncating a difference of times gives a whole number of units that is  *)
(* never further from zero than the difference.                            *)
(***************************************************************************)
LEMMA TimeDiffBounds ==
  ASSUME NEW d \in Int
  PROVE  /\ TimeDiff(d) \in Int
         /\ d >= 0 => TimeDiff(d) >= 0 /\ TimeDiff(d) <= d
         /\ d <= 0 => TimeDiff(d) <= 0 /\ d <= TimeDiff(d)
<1>1. Second \in Nat \ {0}
  BY GameTimerAssumption
<1>2. ASSUME NEW e \in Nat
      PROVE  /\ (e \div Second) * Second \in Int
             /\ 0 <= (e \div Second) * Second
             /\ (e \div Second) * Second <= e
  BY <1>1, SMTT(30)
<1>3. CASE d >= 0
  BY <1>2, <1>3 DEF TimeDiff
<1>4. CASE d < 0
  <2>1. -d \in Nat
    BY <1>4
  <2>2. /\ ((-d) \div Second) * Second \in Int
        /\ 0 <= ((-d) \div Second) * Second
        /\ ((-d) \div Second) * Second <= -d
    BY <1>2, <2>1
  <2>3. QED BY <1>4, <2>2 DEF TimeDiff
<1>5. QED BY <1>3, <1>4

-----------------------------------------------------------------------------
(***************************************************************************)
(* The methods keep a coherent timer well typed and coherent.  Sound(t)    *)
(* is Coherent of any fields t, at the present time.                       *)
(***************************************************************************)
Sound(t) ==
  /\ t \in Fields
  /\ t.started => t.enabled
  /\ t.paused => t.started
  /\ ~t.paused => t.pauseRemaining = 0
  /\ ~t.started => t.length = 0 /\ t.endTime = 0
  /\ t.started => t.length > 0 /\ LeftOf(t) <= t.length

LEMMA StopSound ==
  ASSUME NEW t \in Fields
  PROVE  Sound(Stop(t)) /\ ~Stop(t).started /\ Stop(t).enabled = t.enabled
BY DEF Sound, Stop, TimerOf, Fields, LeftOf

LEMMA StartSound ==
  ASSUME NEW t, Sound(t), NEW n \in Int, now \in Nat
  PROVE  Sound(Start(t, n))
BY StopSound DEF Sound, Start, TimerOf, Fields, LeftOf

LEMMA PauseSound ==
  ASSUME NEW t, Sound(t), now \in Nat
  PROVE  Sound(Pause(t))
BY DEF Sound, Pause, TimerOf, GetTimeRemaining, Max0, Fields, LeftOf

LEMMA ResumeSound ==
  ASSUME NEW t, Sound(t), now \in Nat
  PROVE  /\ Sound(Resume(t))
         /\ ~Resume(t).paused
         /\ Resume(t).started = t.started
         /\ Resume(t).enabled = t.enabled
         /\ Resume(t).length = t.length
         /\ t.started => Resume(t).endTime - now = LeftOf(t)
<1>1. CASE t.paused
  <2>1. GetTimeRemaining(t) = t.pauseRemaining
    BY <1>1 DEF Sound, Fields, GetTimeRemaining, Max0
  <2>2. Resume(t) = TimerOf(t.enabled, TRUE, FALSE, 0, now + t.pauseRemaining, t.length)
    BY <1>1, <2>1 DEF Sound, Resume
  <2>3. /\ t.started = TRUE /\ t.enabled = TRUE
        /\ t.pauseRemaining \in Int /\ t.length \in Int
        /\ t.length > 0 /\ t.pauseRemaining <= t.length
    BY <1>1 DEF Sound, Fields, LeftOf
  <2>4. Sound(Resume(t))
    BY <2>2, <2>3 DEF Sound, TimerOf, Fields, LeftOf
  <2>5. /\ ~Resume(t).paused
        /\ Resume(t).started = TRUE
        /\ Resume(t).enabled = t.enabled
        /\ Resume(t).length = t.length
    BY <2>2 DEF TimerOf
  <2>6. Resume(t).endTime - now = LeftOf(t)
    BY <1>1, <2>2, <2>3 DEF TimerOf, LeftOf
  <2>7. QED BY <2>3, <2>4, <2>5, <2>6
<1>2. CASE ~t.paused
  <2>1. Resume(t) = t
    BY <1>2 DEF Resume
  <2>2. QED BY <1>2, <2>1 DEF Sound, Fields, LeftOf
<1>3. QED BY <1>1, <1>2

(***************************************************************************)
(* The three ways of changing a started timer differ in the new end and    *)
(* length only; what they share is stated once.                            *)
(***************************************************************************)
LEMMA ChangedSound ==
  ASSUME NEW t, Sound(t), t.started, now \in Nat,
         NEW end \in Int, NEW len \in Int,
         len > 0, end - now <= len
  PROVE  Sound(Repaused(t, Ending(Resume(t), end, len)))
<1> DEFINE r == Resume(t)
           c == Ending(r, end, len)
<1>1. Sound(r) /\ ~r.paused /\ r.started
  BY ResumeSound
<1>2. Sound(c)
  BY <1>1 DEF Sound, Ending, TimerOf, Fields, LeftOf
<1>3. Sound(Pause(c))
  BY <1>2, PauseSound
<1>4. QED BY <1>2, <1>3 DEF Repaused

LEMMA ChangeLengthSound ==
  ASSUME NEW t, Sound(t), NEW n \in Int, now \in Nat
  PROVE  Sound(ChangeLength(t, n))
<1> DEFINE r == Resume(t)
           diff == TimeDiff(n - r.length)
<1>1. CASE ~t.enabled \/ n <= 0 \/ ~t.started
  BY <1>1, StopSound, StartSound DEF ChangeLength, Sound
<1>2. CASE t.enabled /\ n > 0 /\ t.started
  <2>1. r \in Fields /\ r.length > 0 /\ r.endTime - now <= r.length
    BY <1>2, ResumeSound DEF Sound, LeftOf
  <2>2. r.length \in Int /\ r.endTime \in Int
    BY <2>1 DEF Fields
  <2>3. diff \in Int /\ r.length + diff > 0
    BY <1>2, <2>1, <2>2, TimeDiffBounds
  <2>4. Sound(Repaused(t, Ending(r, r.endTime + diff, r.length + diff)))
    <3>1. r.endTime + diff \in Int /\ r.length + diff \in Int
          /\ (r.endTime + diff) - now <= r.length + diff
      BY <2>1, <2>2, <2>3
    <3>2. QED BY <1>2, <2>3, <3>1, ChangedSound
  <2>5. Sound(Repaused(t, Ending(r, now + n, n)))
    <3>1. now + n \in Int /\ (now + n) - now <= n
      OBVIOUS
    <3>2. QED BY <1>2, <3>1, ChangedSound
  <2>6. QED BY <1>2, <2>4, <2>5 DEF ChangeLength
<1>3. QED BY <1>1, <1>2 DEF Sound, Fields

LEMMA SetCurrentLengthSound ==
  ASSUME NEW t, Sound(t), NEW n \in Int, now \in Nat
  PROVE  Sound(SetCurrentLength(t, n))
<1>1. CASE ~t.enabled \/ n <= 0 \/ ~t.started
  BY <1>1, StopSound, StartSound DEF SetCurrentLength, Sound
<1>2. CASE t.enabled /\ n > 0 /\ t.started
  <2>1. now + n \in Int /\ (now + n) - now <= n
    OBVIOUS
  <2>2. Sound(Repaused(t, Ending(Resume(t), now + n, n)))
    BY <1>2, <2>1, ChangedSound
  <2>3. QED BY <1>2, <2>2 DEF SetCurrentLength
<1>3. QED BY <1>1, <1>2 DEF Sound, Fields

LEMMA AddToLengthSound ==
  ASSUME NEW t, Sound(t), t.started, NEW n \in Int, now \in Nat
  PROVE  Sound(AddToLength(t, n))
<1> DEFINE r == Resume(t)
<1>1. /\ r \in Fields /\ r.length > 0 /\ r.endTime - now <= r.length
      /\ t.enabled
  BY ResumeSound DEF Sound, LeftOf
<1>2. r.length \in Int /\ r.endTime \in Int
  BY <1>1 DEF Fields
<1>3. CASE r.endTime - now + n > 0
  <2>1. /\ r.endTime + n \in Int /\ r.length + n \in Int
        /\ r.length + n > 0 /\ (r.endTime + n) - now <= r.length + n
    BY <1>1, <1>2, <1>3
  <2>2. Sound(Repaused(t, Ending(r, r.endTime + n, r.length + n)))
    BY <2>1, ChangedSound
  <2>3. QED BY <1>1, <1>3, <2>2 DEF AddToLength
<1>4. CASE ~(r.endTime - now + n > 0)
  <2>1. Second \in Int /\ Second > 0 /\ now \in Int /\ now - now <= Second
    BY GameTimerAssumption
  <2>2. Sound(Repaused(t, Ending(r, now, Second)))
    BY <2>1, ChangedSound
  <2>3. QED BY <1>1, <1>4, <2>2 DEF AddToLength
<1>5. QED BY <1>3, <1>4

-----------------------------------------------------------------------------
(***************************************************************************)
(* Coherent is inductive: every operation of the rules keeps the fields of *)
(* the timer in agreement, and so does the passing of time.                *)
(***************************************************************************)
LEMMA InvIsSound == Inv <=> (Sound(timer) /\ now \in Nat)
BY DEF Inv, TypeOK, Coherent, Sound

LEMMA InitSound == Init => Inv
BY GameTimerAssumption DEF Init, Inv, TypeOK, Coherent, TimerOf, Fields, LeftOf

LEMMA TickSound ==
  ASSUME Sound(timer), now \in Nat, Tick
  PROVE  Inv'
BY DEF Tick, Inv, TypeOK, Coherent, Sound, Fields, LeftOf

LEMMA StepSound ==
  ASSUME Sound(timer), now \in Nat, [Next]_vars, ~Tick
  PROVE  Sound(timer') /\ now' = now
<1>1. CASE UNCHANGED vars
  BY <1>1 DEF vars
<1>2. ASSUME NEW n \in Lengths, StartTimer(n)
      PROVE  Sound(timer') /\ now' = now
  BY <1>2, StartSound, GameTimerAssumption DEF StartTimer
<1>3. ASSUME NEW n \in Lengths, ChangeTimer(n)
      PROVE  Sound(timer') /\ now' = now
  BY <1>3, ChangeLengthSound, StopSound, GameTimerAssumption
     DEF ChangeTimer, Sound
<1>4. ASSUME NEW n \in Lengths, SetTimer(n)
      PROVE  Sound(timer') /\ now' = now
  BY <1>4, SetCurrentLengthSound, StopSound, GameTimerAssumption
     DEF SetTimer, Sound
<1>5. ASSUME NEW n \in Adjustments, AddToTimer(n)
      PROVE  Sound(timer') /\ now' = now
  BY <1>5, AddToLengthSound, GameTimerAssumption DEF AddToTimer
<1>6. ASSUME NEW b \in BOOLEAN, SetTimerPaused(b)
      PROVE  Sound(timer') /\ now' = now
  BY <1>6, PauseSound, ResumeSound DEF SetTimerPaused
<1>7. ASSUME NEW b \in BOOLEAN, SetTimerEnabled(b)
      PROVE  Sound(timer') /\ now' = now
  <2>1. CASE b
    <3>1. ~timer.enabled /\ ~timer.started /\ timer.started = FALSE
      BY <1>7, <2>1 DEF SetTimerEnabled, Sound, Fields
    <3>2. Sound(Enabled(timer))
      BY <3>1 DEF Enabled, TimerOf, Sound, Fields, LeftOf
    <3>3. QED BY <1>7, <2>1, <3>2, StartSound, GameTimerAssumption
              DEF SetTimerEnabled
  <2>2. CASE ~b
    BY <1>7, <2>2 DEF SetTimerEnabled, TimerOf, Sound, Fields, LeftOf
  <2>3. QED BY <2>1, <2>2
<1>8. ASSUME StopTimer
      PROVE  Sound(timer') /\ now' = now
  BY <1>8, StopSound DEF StopTimer, Sound
<1>9. QED BY <1>1, <1>2, <1>3, <1>4, <1>5, <1>6, <1>7, <1>8 DEF Next, WholeSeconds

LEMMA InvStep == Inv /\ [Next]_vars => Inv'
<1> SUFFICES ASSUME Inv, [Next]_vars PROVE Inv'
  OBVIOUS
<1>1. Sound(timer) /\ now \in Nat
  BY InvIsSound
<1>2. CASE Tick
  BY <1>1, <1>2, TickSound
<1>3. CASE ~Tick
  <2>1. Sound(timer') /\ now' = now
    BY <1>1, <1>3, StepSound
  <2>2. QED BY <1>1, <2>1 DEF Inv, TypeOK, Coherent, Sound, LeftOf
<1>4. QED BY <1>2, <1>3

(***************************************************************************)
(* The fields of the timer keep their types.                               *)
(***************************************************************************)
THEOREM TimerTypeOK == Spec => []TypeOK
<1>1. Inv => TypeOK
  BY DEF Inv
<1>2. QED BY InitSound, InvStep, <1>1, PTL DEF Spec

(***************************************************************************)
(* The fields of the timer agree with one another in every reachable state *)
(* and for every length, adjustment and resolution of the clock.           *)
(***************************************************************************)
THEOREM TimerCoherent == Spec => []Coherent
<1>1. Inv => Coherent
  BY DEF Inv
<1>2. QED BY InitSound, InvStep, <1>1, PTL DEF Spec

-----------------------------------------------------------------------------
(***************************************************************************)
(* Each method, seen through ViewOf, is the countdown's operation.         *)
(***************************************************************************)
LEMMA SameTruncation == ASSUME NEW d PROVE C!Whole(d) = TimeDiff(d)
BY DEF C!Whole, TimeDiff

LEMMA ViewType ==
  ASSUME NEW t, Sound(t), now \in Nat
  PROVE  /\ ViewOf(t) \in C!Timer
         /\ ViewOf(t).enabled = t.enabled
         /\ ViewOf(t).started = t.started
         /\ ViewOf(t).paused = t.paused
         /\ ViewOf(t).length = t.length
         /\ t.started => ViewOf(t).left = LeftOf(t)
         /\ ~t.started => ViewOf(t).left = 0
BY DEF ViewOf, Sound, Fields, C!Timer, LeftOf

LEMMA ViewRemaining ==
  ASSUME NEW t, Sound(t), now \in Nat
  PROVE  C!Remaining(ViewOf(t)) = GetTimeRemaining(t)
BY ViewType DEF C!Remaining, C!AtLeastZero, GetTimeRemaining, Max0, LeftOf

LEMMA ViewStop ==
  ASSUME NEW t, Sound(t), now \in Nat
  PROVE  ViewOf(Stop(t)) = C!Halt(ViewOf(t))
BY ViewType DEF Stop, TimerOf, ViewOf, C!Halt, C!TimerOf

LEMMA ViewStart ==
  ASSUME NEW t, Sound(t), now \in Nat, NEW n \in Int
  PROVE  ViewOf(Start(t, n)) = C!Begin(ViewOf(t), n)
<1>1. CASE ~t.enabled
  BY <1>1, ViewType DEF Start, C!Begin
<1>2. CASE t.enabled /\ n <= 0
  BY <1>2, ViewType, ViewStop DEF Start, C!Begin
<1>3. CASE t.enabled /\ n > 0
  <2>0. ~(n <= 0)
    BY <1>3
  <2>0b. ViewOf(t).enabled = t.enabled
    BY ViewType
  <2> DEFINE started == TimerOf(TRUE, TRUE, FALSE, 0, now + n, n)
  <2>1. Start(t, n) = started
    <3>1. Start(t, n) = IF ~t.enabled THEN t ELSE IF n <= 0 THEN Stop(t) ELSE started
      BY DEF Start
    <3> HIDE DEF started
    <3>2. QED BY <1>3, <2>0, <3>1
  <2>2. C!Begin(ViewOf(t), n) = C!TimerOf(TRUE, TRUE, FALSE, n, n)
    BY <1>3, <2>0, <2>0b DEF C!Begin
  <2>3. (now + n) - now = n
    OBVIOUS
  <2>4. QED BY <2>1, <2>2, <2>3 DEF ViewOf, LeftOf, TimerOf, C!TimerOf
<1>4. QED BY <1>1, <1>2, <1>3

LEMMA ViewPause ==
  ASSUME NEW t, Sound(t), now \in Nat
  PROVE  ViewOf(Pause(t)) = C!Freeze(ViewOf(t))
<1>1. CASE t.started /\ ~t.paused
  <2>1. Pause(t) = TimerOf(t.enabled, TRUE, TRUE, GetTimeRemaining(t), t.endTime,
                           t.length)
    BY <1>1 DEF Pause
  <2>2. GetTimeRemaining(t) = C!AtLeastZero(LeftOf(t))
    BY <1>1 DEF GetTimeRemaining, LeftOf, Max0, C!AtLeastZero
  <2>3. C!Freeze(ViewOf(t))
          = C!TimerOf(t.enabled, TRUE, TRUE, C!AtLeastZero(LeftOf(t)), t.length)
    <3>1. /\ ViewOf(t).started /\ ~ViewOf(t).paused
          /\ ViewOf(t).left = LeftOf(t)
          /\ ViewOf(t).enabled = t.enabled /\ ViewOf(t).length = t.length
      BY <1>1, ViewType
    <3>2. QED BY <3>1 DEF C!Freeze, C!Running
  <2>4. QED BY <2>1, <2>2, <2>3 DEF ViewOf, LeftOf, TimerOf, C!TimerOf
<1>2. CASE ~(t.started /\ ~t.paused)
  <2>1. ~(ViewOf(t).started /\ ~ViewOf(t).paused)
    BY <1>2, ViewType
  <2>2. QED BY <1>2, <2>1 DEF Pause, C!Freeze, C!Running
<1>3. QED BY <1>1, <1>2

LEMMA ViewResume ==
  ASSUME NEW t, Sound(t), now \in Nat
  PROVE  ViewOf(Resume(t)) = C!Thaw(ViewOf(t))
<1>1. /\ Resume(t).enabled = t.enabled /\ Resume(t).started = t.started
      /\ Resume(t).length = t.length /\ ~Resume(t).paused
      /\ Resume(t).paused = FALSE
      /\ t.started => LeftOf(Resume(t)) = LeftOf(t)
  BY ResumeSound DEF Sound, Fields, LeftOf
<1>2. C!Thaw(ViewOf(t))
        = C!TimerOf(t.enabled, t.started, FALSE, ViewOf(t).left, t.length)
  BY ViewType DEF C!Thaw
<1>3. QED BY <1>1, <1>2 DEF ViewOf, C!TimerOf

(***************************************************************************)
(* Changing a started timer: resumed, given an end and a length, and       *)
(* paused again if it was paused, it is a countdown with that much left.   *)
(***************************************************************************)
LEMMA ViewRepaused ==
  ASSUME NEW t, Sound(t), now \in Nat, t.started,
         NEW end \in Int, NEW len \in Int, NEW left \in Nat, end - now = left
  PROVE  ViewOf(Repaused(t, Ending(Resume(t), end, len)))
           = C!Having(ViewOf(t), left, len)
<1>0. end - now >= 0 /\ end >= now
  OBVIOUS
<1> DEFINE r == TimerOf(t.enabled, TRUE, FALSE, 0, end, len)
<1>1. /\ t.enabled \in BOOLEAN /\ t.started = TRUE /\ t.paused \in BOOLEAN
      /\ Resume(t).enabled = t.enabled /\ Resume(t).started = TRUE
      /\ Resume(t).paused = FALSE /\ Resume(t).pauseRemaining = 0
  BY ResumeSound DEF Sound, Fields
<1>2. Ending(Resume(t), end, len) = r
  BY <1>1 DEF Ending
<1>3. C!Having(ViewOf(t), left, len)
        = C!TimerOf(t.enabled, TRUE, t.paused, left, len)
  BY <1>1, ViewType DEF C!Having
<1>4. CASE t.paused
  <2>0. GetTimeRemaining(r) = end - now /\ r.started /\ ~r.paused
        /\ r.enabled = t.enabled /\ r.endTime = end /\ r.length = len
    BY <1>0 DEF TimerOf, GetTimeRemaining, Max0
  <2>1. Pause(r) = TimerOf(t.enabled, TRUE, TRUE, end - now, end, len)
    <3> HIDE DEF r
    <3>1. QED BY <2>0 DEF Pause
  <2>2. Repaused(t, r) = Pause(r)
    BY <1>4 DEF Repaused
  <2>3. t.paused = TRUE
    BY <1>1, <1>4
  <2>4. ViewOf(Pause(r)) = C!TimerOf(t.enabled, TRUE, TRUE, end - now, len)
    <3>1. ViewOf(TimerOf(t.enabled, TRUE, TRUE, end - now, end, len))
            = C!TimerOf(t.enabled, TRUE, TRUE, end - now, len)
      BY DEF ViewOf, LeftOf, TimerOf, C!TimerOf
    <3>2. QED BY <2>1, <3>1
  <2>5. QED BY <1>2, <1>3, <2>2, <2>3, <2>4
<1>5. CASE ~t.paused
  <2>1. Repaused(t, r) = r
    BY <1>5 DEF Repaused
  <2>2. t.paused = FALSE
    BY <1>1, <1>5
  <2>3. ViewOf(r) = C!TimerOf(t.enabled, TRUE, FALSE, end - now, len)
    BY DEF ViewOf, LeftOf, TimerOf, C!TimerOf
  <2>4. QED BY <1>2, <1>3, <2>1, <2>2, <2>3
<1>6. QED BY <1>4, <1>5

(***************************************************************************)
(* The three operations that change a started timer.                       *)
(***************************************************************************)
LEMMA ViewSetCurrentLength ==
  ASSUME NEW t, Sound(t), now \in Nat, NEW n \in Int
  PROVE  ViewOf(SetCurrentLength(t, n)) = C!Reset(ViewOf(t), n)
<1>0. ViewOf(t).enabled = t.enabled /\ ViewOf(t).started = t.started
  BY ViewType
<1>1. CASE ~t.enabled
  BY <1>0, <1>1 DEF SetCurrentLength, C!Reset
<1>2. CASE t.enabled /\ n <= 0
  BY <1>0, <1>2, ViewStop DEF SetCurrentLength, C!Reset
<1>3. CASE t.enabled /\ ~(n <= 0) /\ ~t.started
  BY <1>0, <1>3, ViewStart DEF SetCurrentLength, C!Reset
<1>4. CASE t.enabled /\ ~(n <= 0) /\ t.started
  <2>1. now + n \in Int /\ n \in Nat /\ (now + n) - now = n
    BY <1>4
  <2>2. ViewOf(Repaused(t, Ending(Resume(t), now + n, n)))
          = C!Having(ViewOf(t), n, n)
    BY <1>4, <2>1, ViewRepaused
  <2>3. QED BY <1>0, <1>4, <2>2 DEF SetCurrentLength, C!Reset
<1>5. QED BY <1>1, <1>2, <1>3, <1>4

LEMMA ViewAddToLength ==
  ASSUME NEW t, Sound(t), now \in Nat, t.started, NEW n \in Int
  PROVE  ViewOf(AddToLength(t, n)) = C!Add(ViewOf(t), n)
<1> DEFINE r == Resume(t)
<1>0. /\ ViewOf(t).enabled = t.enabled /\ ViewOf(t).left = LeftOf(t)
      /\ ViewOf(t).length = t.length
  BY ViewType
<1>1. /\ r.endTime - now = LeftOf(t) /\ r.length = t.length
      /\ r.endTime \in Int /\ r.length \in Int /\ LeftOf(t) \in Int
  BY ResumeSound DEF Sound, Fields
<1> HIDE DEF r
<1>2. CASE ~t.enabled
  BY <1>0, <1>2 DEF AddToLength, C!Add
<1>3. CASE t.enabled /\ LeftOf(t) + n > 0
  <2>1. /\ r.endTime - now + n > 0 /\ r.endTime + n \in Int
        /\ r.length + n \in Int /\ LeftOf(t) + n \in Nat
        /\ (r.endTime + n) - now = LeftOf(t) + n
    BY <1>1, <1>3
  <2>2. ViewOf(Repaused(t, Ending(r, r.endTime + n, r.length + n)))
          = C!Having(ViewOf(t), LeftOf(t) + n, r.length + n)
    BY <1>1, <2>1, ViewRepaused DEF r
  <2>3. AddToLength(t, n) = Repaused(t, Ending(r, r.endTime + n, r.length + n))
    BY <1>3, <2>1 DEF AddToLength, r
  <2>4. QED BY <1>0, <1>1, <1>3, <2>2, <2>3 DEF C!Add
<1>4. CASE t.enabled /\ ~(LeftOf(t) + n > 0)
  <2>1. ~(r.endTime - now + n > 0) /\ Second \in Int /\ now - now = 0
        /\ now \in Int /\ 0 \in Nat
    BY <1>1, <1>4, GameTimerAssumption
  <2>2. ViewOf(Repaused(t, Ending(r, now, Second))) = C!Having(ViewOf(t), 0, Second)
    BY <2>1, ViewRepaused DEF r
  <2>3. AddToLength(t, n) = Repaused(t, Ending(r, now, Second))
    BY <1>4, <2>1 DEF AddToLength, r
  <2>4. QED BY <1>0, <1>4, <2>2, <2>3 DEF C!Add
<1>5. QED BY <1>2, <1>3, <1>4

LEMMA ViewChangeLength ==
  ASSUME NEW t, Sound(t), now \in Nat, NEW n \in Int
  PROVE  ViewOf(ChangeLength(t, n)) = C!Extend(ViewOf(t), n)
<1> DEFINE r == Resume(t)
           d == TimeDiff(n - t.length)
<1>0. /\ ViewOf(t).enabled = t.enabled /\ ViewOf(t).started = t.started
      /\ ViewOf(t).length = t.length
      /\ t.started => ViewOf(t).left = LeftOf(t)
  BY ViewType
<1>1. /\ t.started => r.endTime - now = LeftOf(t)
      /\ r.length = t.length
      /\ r.endTime \in Int /\ r.length \in Int /\ LeftOf(t) \in Int
  BY ResumeSound DEF Sound, Fields, LeftOf
<1>2. d \in Int /\ TimeDiff(n - r.length) = d /\ C!Whole(n - t.length) = d
  <2>1. t.length \in Int
    BY DEF Sound, Fields
  <2>2. QED BY <1>1, <2>1, TimeDiffBounds, SameTruncation
<1> HIDE DEF r, d
<1>3. CASE ~t.enabled
  BY <1>0, <1>3 DEF ChangeLength, C!Extend
<1>4. CASE t.enabled /\ n <= 0
  BY <1>0, <1>4, ViewStop DEF ChangeLength, C!Extend
<1>5. CASE t.enabled /\ ~(n <= 0) /\ ~t.started
  BY <1>0, <1>5, ViewStart DEF ChangeLength, C!Extend
<1>6. CASE t.enabled /\ ~(n <= 0) /\ t.started /\ LeftOf(t) + d > 0
  <2>1. /\ r.endTime - now + d > 0 /\ r.endTime + d \in Int
        /\ r.length + d \in Int /\ LeftOf(t) + d \in Nat
        /\ (r.endTime + d) - now = LeftOf(t) + d
    BY <1>1, <1>2, <1>6
  <2>2. ViewOf(Repaused(t, Ending(r, r.endTime + d, r.length + d)))
          = C!Having(ViewOf(t), LeftOf(t) + d, r.length + d)
    BY <1>1, <1>6, <2>1, ViewRepaused DEF r
  <2>3. ChangeLength(t, n) = Repaused(t, Ending(r, r.endTime + d, r.length + d))
    BY <1>2, <1>6, <2>1 DEF ChangeLength, r
  <2>4. QED BY <1>0, <1>1, <1>2, <1>6, <2>2, <2>3 DEF C!Extend
<1>7. CASE t.enabled /\ ~(n <= 0) /\ t.started /\ ~(LeftOf(t) + d > 0)
  <2>1. /\ ~(r.endTime - now + d > 0) /\ now + n \in Int /\ n \in Nat
        /\ (now + n) - now = n
    BY <1>1, <1>2, <1>7
  <2>2. ViewOf(Repaused(t, Ending(r, now + n, n))) = C!Having(ViewOf(t), n, n)
    BY <1>7, <2>1, ViewRepaused DEF r
  <2>3. ChangeLength(t, n) = Repaused(t, Ending(r, now + n, n))
    BY <1>2, <1>7, <2>1 DEF ChangeLength, r
  <2>4. QED BY <1>0, <1>2, <1>7, <2>2, <2>3 DEF C!Extend
<1>8. QED BY <1>3, <1>4, <1>5, <1>6, <1>7

-----------------------------------------------------------------------------
(***************************************************************************)
(* The refinement: each action is a step of the countdown.                 *)
(***************************************************************************)
LEMMA ViewInit == Init => C!Init
BY DEF Init, C!Init, View, ViewOf, TimerOf, LeftOf, C!Fresh, C!TimerOf

LEMMA ViewPass ==
  ASSUME Inv, Tick
  PROVE  [C!Next]_View
<1>1. Sound(timer) /\ now \in Nat /\ timer' = timer /\ now' = now + 1
  BY InvIsSound DEF Tick
<1>2. /\ View.started = timer.started /\ View.paused = timer.paused
      /\ View.enabled = timer.enabled /\ View.length = timer.length
      /\ timer.started => View.left = LeftOf(timer)
  BY <1>1, ViewType DEF View
<1>3. CASE timer.started /\ ~timer.paused
  <2>1. C!Elapse(View, 1) = C!Having(View, View.left - 1, View.length)
    BY <1>2, <1>3 DEF C!Elapse, C!Running
  <2>2. /\ timer.started = TRUE /\ timer.paused = FALSE
        /\ View.left - 1 = timer.endTime - (now + 1)
    BY <1>1, <1>2, <1>3 DEF Sound, Fields, LeftOf
  <2>3. View' = C!TimerOf(timer.enabled, TRUE, FALSE,
                          timer.endTime - (now + 1), timer.length)
    BY <1>1, <2>2 DEF View, ViewOf, LeftOf, C!TimerOf
  <2>4. View' = C!Elapse(View, 1)
    BY <1>2, <2>1, <2>2, <2>3 DEF C!Having
  <2>5. QED BY <2>4 DEF C!Next, C!Pass
<1>4. CASE ~(timer.started /\ ~timer.paused)
  <2>1. View' = View
    <3>1. CASE ~timer.started
      BY <1>1, <3>1 DEF View, ViewOf
    <3>2. CASE timer.started /\ timer.paused
      BY <1>1, <3>2 DEF View, ViewOf, LeftOf
    <3>3. QED BY <1>4, <3>1, <3>2
  <2>2. QED BY <2>1
<1>5. QED BY <1>3, <1>4

LEMMA ViewEnable ==
  ASSUME NEW t, Sound(t), now \in Nat, ~t.enabled, NEW n \in Int
  PROVE  ViewOf(Start(Enabled(t), n)) = C!SetEnabled(ViewOf(t), TRUE, n)
<1>1. /\ ~t.started /\ ~t.paused /\ t.pauseRemaining = 0
      /\ t.started = FALSE /\ t.paused = FALSE /\ t.enabled = FALSE
      /\ t.length = 0 /\ t.endTime = 0
  BY DEF Sound, Fields
<1>2. Enabled(t) = TimerOf(TRUE, FALSE, FALSE, 0, 0, 0)
  BY <1>1 DEF Enabled
<1>3. Sound(Enabled(t)) /\ ViewOf(Enabled(t)) = C!TimerOf(TRUE, FALSE, FALSE, 0, 0)
  BY <1>2 DEF Sound, Fields, TimerOf, LeftOf, ViewOf, C!TimerOf
<1>4. ViewOf(Start(Enabled(t), n)) = C!Begin(ViewOf(Enabled(t)), n)
  BY <1>3, ViewStart
<1>5. ViewOf(t).enabled = FALSE /\ ViewOf(t).started = FALSE
      /\ ViewOf(t).paused = FALSE /\ ViewOf(t).left = 0 /\ ViewOf(t).length = 0
  BY <1>1, ViewType
<1>6. C!SetEnabled(ViewOf(t), TRUE, n)
        = C!Begin(C!TimerOf(TRUE, FALSE, FALSE, 0, 0), n)
  BY <1>5 DEF C!SetEnabled
<1>7. QED BY <1>3, <1>4, <1>6

LEMMA ViewStep ==
  ASSUME Inv, Next, ~Tick
  PROVE  C!Next
<1>1. Sound(timer) /\ now \in Nat /\ timer \in Fields
  BY InvIsSound DEF Sound
<1>2. /\ View.started = timer.started /\ View.enabled = timer.enabled
      /\ View.length = timer.length
      /\ C!Remaining(View) = GetTimeRemaining(timer)
  BY <1>1, ViewType, ViewRemaining DEF View
<1>3. now' = now
  BY <1>1, StepSound
<1>4. View' = ViewOf(timer')
  BY <1>3 DEF View, ViewOf, LeftOf
<1>5. CASE \E n \in Lengths : StartTimer(n)
  <2>1. PICK n \in Lengths : StartTimer(n)
    BY <1>5
  <2>2. n \in Int
    BY GameTimerAssumption
  <2>3. View' = C!Begin(View, n)
    BY <1>1, <1>4, <2>1, <2>2, ViewStart DEF StartTimer, View
  <2>4. QED BY <2>3 DEF C!Next, C!Start
<1>6. CASE \E n \in Lengths : ChangeTimer(n)
  <2>1. PICK n \in Lengths : ChangeTimer(n)
    BY <1>6
  <2>2. n \in Int
    BY GameTimerAssumption
  <2>3. View' = C!ChangeTimer(View, n)
    <3>1. CASE n > 0
      BY <1>1, <1>2, <1>4, <2>1, <2>2, <3>1, ViewChangeLength
      DEF ChangeTimer, View, C!ChangeTimer
    <3>2. CASE ~(n > 0)
      BY <1>1, <1>2, <1>4, <2>1, <2>2, <3>2, ViewStop
      DEF ChangeTimer, View, C!ChangeTimer
    <3>3. QED BY <3>1, <3>2
  <2>4. QED BY <2>3 DEF C!Next, C!Change
<1>7. CASE \E n \in Lengths : SetTimer(n)
  <2>1. PICK n \in Lengths : SetTimer(n)
    BY <1>7
  <2>2. n \in Int
    BY GameTimerAssumption
  <2>3. View' = C!SetTimer(View, n)
    <3>1. CASE n > 0
      BY <1>1, <1>2, <1>4, <2>1, <2>2, <3>1, ViewSetCurrentLength
      DEF SetTimer, View, C!SetTimer
    <3>2. CASE ~(n > 0)
      BY <1>1, <1>2, <1>4, <2>1, <2>2, <3>2, ViewStop
      DEF SetTimer, View, C!SetTimer
    <3>3. QED BY <3>1, <3>2
  <2>4. QED BY <2>3 DEF C!Next, C!Set
<1>8. CASE \E n \in Adjustments : AddToTimer(n)
  <2>1. PICK n \in Adjustments : AddToTimer(n)
    BY <1>8
  <2>2. n \in Int
    BY GameTimerAssumption
  <2>3. View' = C!AddToTimer(View, n)
    BY <1>1, <1>2, <1>4, <2>1, <2>2, ViewAddToLength
    DEF AddToTimer, View, C!AddToTimer
  <2>4. QED BY <2>3 DEF C!Next, C!AddTo
<1>9. CASE \E b \in BOOLEAN : SetTimerPaused(b)
  <2>1. PICK b \in BOOLEAN : SetTimerPaused(b)
    BY <1>9
  <2>2. View' = IF b THEN C!Freeze(View) ELSE C!Thaw(View)
    BY <1>1, <1>4, <2>1, ViewPause, ViewResume DEF SetTimerPaused, View
  <2>3. QED BY <2>2 DEF C!Next, C!SetPaused
<1>10. CASE \E b \in BOOLEAN : SetTimerEnabled(b)
  <2>1. PICK b \in BOOLEAN : SetTimerEnabled(b)
    BY <1>10
  <2>2. CASE b
    <3>1. ~timer.enabled /\ timer' = Start(Enabled(timer), EnableLength)
      BY <2>1, <2>2 DEF SetTimerEnabled
    <3>2. View' = C!SetEnabled(View, TRUE, EnableLength)
      BY <1>1, <1>4, <3>1, ViewEnable, GameTimerAssumption DEF View
    <3>3. QED BY <3>2 DEF C!Next, C!Enable
  <2>3. CASE ~b
    <3>1. timer.enabled # FALSE /\ timer' = TimerOf(FALSE, FALSE, FALSE, 0, 0, 0)
      BY <2>1, <2>3 DEF SetTimerEnabled
    <3>2. View' = C!TimerOf(FALSE, FALSE, FALSE, 0, 0)
      BY <1>4, <3>1 DEF ViewOf, TimerOf, C!TimerOf
    <3>3. View' = C!SetEnabled(View, FALSE, EnableLength)
      BY <1>2, <3>1, <3>2 DEF C!SetEnabled
    <3>4. QED BY <3>3 DEF C!Next, C!Enable
  <2>4. QED BY <2>2, <2>3
<1>11. CASE StopTimer
  <2>1. View' = C!Halt(View)
    BY <1>1, <1>4, <1>11, ViewStop DEF StopTimer, View
  <2>2. QED BY <2>1 DEF C!Next, C!StopTimer
<1>12. QED BY <1>5, <1>6, <1>7, <1>8, <1>9, <1>10, <1>11 DEF Next, WholeSeconds

(***************************************************************************)
(* However its operations interleave with the passing of time, the timer   *)
(* with its absolute end time is a countdown: Spec implements              *)
(* CountdownTimer under the view of its fields.                            *)
(***************************************************************************)
THEOREM TimerIsCountdown == Spec => ImplementsCountdown
<1>1. Inv /\ [Next]_vars => [C!Next]_View
  <2> SUFFICES ASSUME Inv, [Next]_vars PROVE [C!Next]_View
    OBVIOUS
  <2>1. CASE Tick
    BY <2>1, ViewPass
  <2>2. CASE Next /\ ~Tick
    BY <2>2, ViewStep
  <2>3. CASE UNCHANGED vars
    BY <2>3 DEF vars, View, ViewOf, LeftOf
  <2>4. QED BY <2>1, <2>2, <2>3
<1>2. QED BY InitSound, InvStep, ViewInit, <1>1, PTL
          DEF Spec, ImplementsCountdown, C!Spec

=============================================================================
