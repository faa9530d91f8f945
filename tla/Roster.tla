------------------------------- MODULE Roster -------------------------------
(***************************************************************************)
(* Who is on which team and how many bots play along: what CGEMPRules      *)
(* (shared/ges/gemp_gamerules.cpp) does about it in every Think, with the  *)
(* players who come, go and change their team in between.                  *)
(*                                                                         *)
(* BalanceTeams evens the teams out, EnforceTeamplay sends everybody to a  *)
(* team when teamplay is on and to none when it is off, EnforceBotCount    *)
(* adds and kicks bots.  They run in this order with nothing in between;   *)
(* their loops are cut into steps here, and phase says where Think is.     *)
(*                                                                         *)
(* Players of a kind are alike, so they are counted.  The state within a   *)
(* kind that matters is whether a human has a character (see PlayerSpawn,  *)
(* where the flag m_bPreSpawn is followed in detail).                      *)
(***************************************************************************)
EXTENDS Integers

CONSTANTS
  MaxHumans,   \* bound: humans on the server
  MaxClients,  \* gpGlobals->maxClients
  Threshold,   \* ge_bot_threshold
  OpenSlots,   \* ge_bot_openslots
  Strict       \* ge_bot_strict_openslot

ASSUME RosterAssumption ==
  /\ MaxHumans \in Nat /\ MaxClients \in Nat
  /\ Threshold \in Nat /\ OpenSlots \in Nat
  /\ Strict \in BOOLEAN

Sides  == {"MI6", "Janus"}
Places == Sides \cup {"Unassigned"}

Other(side) == IF side = "MI6" THEN "Janus" ELSE "MI6"

VARIABLES
  active,      \* humans of each place with IsActive()
  pending,     \* humans of each place who have to choose a character
  bots,        \* bots of each place; all of them are active
  spectators,  \* humans on TEAM_SPECTATOR
  teamplay,    \* IsTeamplay()
  inBalance,   \* m_bInTeamBalance: the warning was given
  phase,       \* where Think is: between two frames ("rest"), in the loop over
               \* the list of a place, before ("bots") or in ("adding") the
               \* loop of EnforceBotCount
  left,        \* rounds the loop has still to do
  quiet        \* nobody comes, goes or asks for anything any more

people == <<active, pending, bots, spectators>>
think  == <<inBalance, phase, left>>
vars   == <<people, teamplay, think, quiet>>

Phases == Places \cup {"rest", "bots", "adding"}

Sum(count) == count["Unassigned"] + count["MI6"] + count["Janus"]

Size(place) == active[place] + pending[place] + bots[place]
Clients     == Sum(active) + Sum(pending) + Sum(bots) + spectators

TypeOK ==
  /\ active \in [Places -> Nat] /\ pending \in [Places -> Nat]
  /\ bots \in [Places -> Nat] /\ spectators \in Nat
  /\ Clients <= MaxClients
  /\ teamplay \in BOOLEAN /\ inBalance \in BOOLEAN /\ quiet \in BOOLEAN
  /\ phase \in Phases /\ left \in Nat

Abs(n) == IF n < 0 THEN -n ELSE n
AtMost(m, n) == IF m < n THEN m ELSE n

\* plDiff of BalanceTeams.
Lead == Size("Janus") - Size("MI6")

\* Where somebody without a choice goes: without teamplay nowhere, else to the
\* smaller side.
DefaultTeams ==
  IF ~teamplay THEN {"Unassigned"}
  ELSE IF Lead > 0 THEN {"MI6"}
  ELSE IF Lead < 0 THEN {"Janus"}
  ELSE Sides

-----------------------------------------------------------------------------
(***************************************************************************)
(* ChangeTeam.  A human loses the character with the change, unless there  *)
(* is an intermission; a bot keeps playing.                                *)
(***************************************************************************)
Moves(a, p, b, from, to, intermission) ==
  LET kept == IF intermission THEN a ELSE 0 IN
  /\ active'  = [active  EXCEPT ![from] = @ - a, ![to] = @ + kept]
  /\ pending' = [pending EXCEPT ![from] = @ - p, ![to] = @ + p + a - kept]
  /\ bots'    = [bots    EXCEPT ![from] = @ - b, ![to] = @ + b]
  /\ UNCHANGED spectators

OneMoves(kind, from, to) ==
  \/ /\ kind = "active" /\ active[from] > 0
     /\ \E intermission \in BOOLEAN : Moves(1, 0, 0, from, to, intermission)
  \/ /\ kind = "pending" /\ pending[from] > 0
     /\ Moves(0, 1, 0, from, to, FALSE)
  \/ /\ kind = "bot" /\ bots[from] > 0
     /\ Moves(0, 0, 1, from, to, FALSE)

-----------------------------------------------------------------------------
(***************************************************************************)
(* BalanceTeams, the first part of EnforceTeamplay.                        *)
(***************************************************************************)

\* The loop of EnforceTeamplay starts with the list of this place.
FirstList == IF teamplay THEN "Unassigned" ELSE "MI6"

EnterLoop ==
  /\ phase' = FirstList
  /\ left' = active'[FirstList] + pending'[FirstList] + bots'[FirstList]

\* Mutant of Switches: the whole difference.
SwitchesAll(movable) == AtMost(Abs(Lead), movable)

\* How many of movable players are switched.
Switches(movable) == AtMost(Abs(Lead) - 1, movable)

\* The scenario lets a humans with a character, p without one and b bots of
\* the larger side change; bots go first, then whoever joined last.
Switch(heavy, a, p, b) ==
  LET n == Switches(a + p + b)
      fromBots == AtMost(n, b)
  IN \E fromActive \in 0 .. a, intermission \in BOOLEAN :
       /\ n - fromBots - fromActive \in 0 .. p
       /\ Moves(fromActive, n - fromBots - fromActive, fromBots,
                heavy, Other(heavy), intermission)

\* It is not due: balancing is off, the time is almost up, or it was done less
\* than 15 s ago.
NoBalance == UNCHANGED <<people, inBalance>>

\* More than one player ahead: warn, and act on it 5 s later.
WarnOfBalance ==
  /\ teamplay /\ ~inBalance
  /\ inBalance' = (Abs(Lead) > 1)
  /\ UNCHANGED people

\* The situation has not corrected itself.
SwitchPlayers(heavy, a, p, b) ==
  /\ teamplay /\ inBalance
  /\ Size(heavy) - Size(Other(heavy)) > 1
  /\ Switch(heavy, a, p, b)
  /\ inBalance' = FALSE

\* It has.
CallOffBalance ==
  /\ teamplay /\ inBalance /\ Abs(Lead) <= 1
  /\ inBalance' = FALSE
  /\ UNCHANGED people

\* Think begins with one of these.
Begin(step) ==
  /\ phase = "rest"
  /\ step
  /\ EnterLoop
  /\ UNCHANGED <<teamplay, quiet>>

BalanceTeams ==
  \/ Begin(NoBalance) \/ Begin(WarnOfBalance) \/ Begin(CallOffBalance)
  \/ \E heavy \in Sides : \E a \in 0 .. active[heavy],
       p \in 0 .. pending[heavy], b \in 0 .. bots[heavy] :
         Begin(SwitchPlayers(heavy, a, p, b))

-----------------------------------------------------------------------------
(***************************************************************************)
(* The rest of EnforceTeamplay: walk the list of the unassigned players,   *)
(* or without teamplay the lists of both sides.  A player who changes team *)
(* leaves the list, and the loop's index then passes over the next one.    *)
(***************************************************************************)
\* Mutant of MovedOn: past the end of the list.
MovedBeyond == left' = left - 2

MovedOn == left' = IF left > 1 THEN left - 2 ELSE 0

\* PickDefaultSpawnTeam, or ChangeTeam( TEAM_UNASSIGNED, true ).
WalkMove(kind) ==
  /\ phase \in Places /\ left > 0
  /\ \E to \in DefaultTeams : to # phase /\ OneMoves(kind, phase, to)
  /\ MovedOn
  /\ UNCHANGED <<teamplay, inBalance, phase, quiet>>

\* A human who changed team just before, or whom the scenario keeps here.
WalkStay ==
  /\ phase \in Places /\ left > 0
  /\ active[phase] + pending[phase] > 0
  /\ left' = left - 1
  /\ UNCHANGED <<people, teamplay, inBalance, phase, quiet>>

\* Mutant of WalkDone: the list of Janus is forgotten.
WalkDoneEarly ==
  /\ phase \in Places /\ left = 0
  /\ phase' = "bots"
  /\ UNCHANGED <<people, teamplay, inBalance, left, quiet>>

WalkDone ==
  /\ phase \in Places /\ left = 0
  /\ IF phase = "MI6"
     THEN phase' = "Janus" /\ left' = Size("Janus")
     ELSE phase' = "bots" /\ left' = 0
  /\ UNCHANGED <<people, teamplay, inBalance, quiet>>

-----------------------------------------------------------------------------
(***************************************************************************)
(* EnforceBotCount, every 3.5 s.  A bot's kick is a command that has run   *)
(* by the next frame.                                                      *)
(***************************************************************************)

\* Mutant of SpecCount: who chooses a character has no slot.
SpecCountWatching == spectators

\* spec_count: the humans who do not play, or do not play yet.
SpecCount == spectators + Sum(pending)

\* bot_thresh: how many should play.
BotThreshold ==
  IF Sum(active) = 0 /\ Sum(bots) > 0 THEN 0
  ELSE AtMost(Threshold, MaxClients - OpenSlots)
         - (IF Strict THEN SpecCount ELSE 0)

Surplus == Sum(active) + Sum(bots) - BotThreshold

\* The ones who came last are kicked.
KickBots ==
  /\ phase = "bots" /\ Threshold > 0
  /\ Surplus > 0
  /\ \E u \in 0 .. bots["Unassigned"], m \in 0 .. bots["MI6"],
        j \in 0 .. bots["Janus"] :
       /\ u + m + j = AtMost(Surplus, Sum(bots))
       /\ bots' = [bots EXCEPT !["Unassigned"] = @ - u, !["MI6"] = @ - m,
                               !["Janus"] = @ - j]
  /\ phase' = "rest"
  /\ UNCHANGED <<active, pending, spectators, teamplay, inBalance, left, quiet>>

WantBots ==
  /\ phase = "bots" /\ Threshold > 0
  /\ Surplus < 0 /\ Sum(active) > 0
  /\ phase' = "adding" /\ left' = -Surplus
  /\ UNCHANGED <<people, teamplay, inBalance, quiet>>

\* Nothing to do, or not now.
LeaveBots ==
  /\ phase = "bots"
  /\ phase' = "rest"
  /\ UNCHANGED <<people, teamplay, inBalance, left, quiet>>

\* CreateBot: the engine finds a slot for it or does not.
CreateBot ==
  \/ /\ Clients < MaxClients
     /\ \E place \in DefaultTeams : bots' = [bots EXCEPT ![place] = @ + 1]
  \/ /\ Clients = MaxClients
     /\ UNCHANGED bots

AddBot ==
  /\ phase = "adding" /\ left > 0
  /\ CreateBot
  /\ left' = left - 1
  /\ UNCHANGED <<active, pending, spectators, teamplay, inBalance, phase, quiet>>

AddingDone ==
  /\ phase = "adding" /\ left = 0
  /\ phase' = "rest"
  /\ UNCHANGED <<people, teamplay, inBalance, left, quiet>>

-----------------------------------------------------------------------------
(***************************************************************************)
(* Between two frames.                                                     *)
(***************************************************************************)
Asks == phase = "rest" /\ ~quiet /\ UNCHANGED <<think, quiet>>

\* A human comes, as a spectator (InitialSpawn).
Connect ==
  /\ Asks
  /\ Clients < MaxClients /\ Clients - Sum(bots) < MaxHumans
  /\ spectators' = spectators + 1
  /\ UNCHANGED <<active, pending, bots, teamplay>>

\* ClientDisconnected.
Disconnect ==
  /\ Asks
  /\ \/ /\ spectators > 0 /\ spectators' = spectators - 1
        /\ UNCHANGED <<active, pending>>
     \/ /\ \E place \in Places : /\ active[place] > 0
                                 /\ active' = [active EXCEPT ![place] = @ - 1]
        /\ UNCHANGED <<pending, spectators>>
     \/ /\ \E place \in Places : /\ pending[place] > 0
                                 /\ pending' = [pending EXCEPT ![place] = @ - 1]
        /\ UNCHANGED <<active, spectators>>
  /\ UNCHANGED <<bots, teamplay>>

\* What a request to join means: any team, or none without teamplay.
Joinable == IF teamplay THEN Places ELSE {"Unassigned"}

JoinTeam ==
  /\ Asks
  /\ \E from \in Places, to \in Joinable, kind \in {"active", "pending"} :
       to # from /\ OneMoves(kind, from, to)
  /\ UNCHANGED teamplay

LeaveSpectators ==
  /\ Asks
  /\ spectators > 0 /\ spectators' = spectators - 1
  /\ \E to \in Joinable : pending' = [pending EXCEPT ![to] = @ + 1]
  /\ UNCHANGED <<active, bots, teamplay>>

Spectate ==
  /\ Asks
  /\ spectators' = spectators + 1
  /\ \/ /\ \E place \in Places : /\ active[place] > 0
                                 /\ active' = [active EXCEPT ![place] = @ - 1]
        /\ UNCHANGED pending
     \/ /\ \E place \in Places : /\ pending[place] > 0
                                 /\ pending' = [pending EXCEPT ![place] = @ - 1]
        /\ UNCHANGED active
  /\ UNCHANGED <<bots, teamplay>>

\* ge_bot and ge_bot_remove.
BotCommand ==
  /\ Asks
  /\ \/ CreateBot
     \/ \E place \in Places : /\ bots[place] > 0
                              /\ bots' = [bots EXCEPT ![place] = @ - 1]
  /\ UNCHANGED <<active, pending, spectators, teamplay>>

\* SetTeamplay, by the scenario or a setting.
SetTeamplay ==
  /\ Asks
  /\ teamplay' = ~teamplay
  /\ UNCHANGED people

\* A human gets into the game, with a character; this goes on when it is quiet.
EnterGame ==
  /\ phase = "rest"
  /\ \E place \in IF teamplay THEN Sides ELSE {"Unassigned"} :
       /\ pending[place] > 0
       /\ pending' = [pending EXCEPT ![place] = @ - 1]
       /\ active' = [active EXCEPT ![place] = @ + 1]
  /\ UNCHANGED <<bots, spectators, teamplay, think, quiet>>

BecomeQuiet ==
  /\ phase = "rest" /\ ~quiet
  /\ quiet' = TRUE
  /\ UNCHANGED <<people, teamplay, think>>

-----------------------------------------------------------------------------
Init ==
  /\ active = [place \in Places |-> 0] /\ pending = [place \in Places |-> 0]
  /\ bots = [place \in Places |-> 0] /\ spectators = 0
  /\ teamplay \in BOOLEAN /\ inBalance = FALSE
  /\ phase = "rest" /\ left = 0 /\ quiet = FALSE

Kinds == {"active", "pending", "bot"}

Think ==
  \/ BalanceTeams
  \/ \E kind \in Kinds : WalkMove(kind)
  \/ WalkStay \/ WalkDone
  \/ KickBots \/ WantBots \/ LeaveBots \/ AddBot \/ AddingDone

Commands ==
  \/ Connect \/ Disconnect \/ JoinTeam \/ LeaveSpectators \/ Spectate
  \/ BotCommand \/ SetTeamplay \/ EnterGame \/ BecomeQuiet

Next == Think \/ Commands

Spec == Init /\ [][Next]_vars

\* The scenario holds nobody back.
SwitchFreely ==
  \E heavy \in Sides :
    Begin(SwitchPlayers(heavy, active[heavy], pending[heavy], bots[heavy]))

\* Frames go on; balancing and the bots come due again and again, and neither
\* the scenario nor the wait after a change refuses the humans for ever.
FairSpec ==
  /\ Spec
  /\ WF_vars(Think)
  /\ SF_vars(\E kind \in Kinds : WalkMove(kind))
  /\ SF_vars(Begin(WarnOfBalance)) /\ SF_vars(SwitchFreely)
  /\ SF_vars(KickBots \/ WantBots)

-----------------------------------------------------------------------------
(***************************************************************************)
(* Properties.                                                             *)
(***************************************************************************)

\* However many players the scenario lets go and whoever they are, a balance
\* leaves the teams closer than they were.  One player too many is switched,
\* so from a difference of four on the other side is the larger one
\* afterwards, and only this keeps the balance from swinging for ever.
BalanceShrinks ==
  [][phase = "rest" /\ phase' # "rest" /\ Lead' # Lead
       => Abs(Lead') < Abs(Lead)]_vars

\* "Count spectators in determining whether to leave an open player slot"
\* (line 105): with the strict setting EnforceBotCount fills no slot that is
\* to stay open, however many humans watch or choose a character.
OpenSlotsKept ==
  [][Strict /\ phase = "adding" /\ bots' # bots
       => Clients' <= MaxClients - OpenSlots]_vars

\* When the humans ask for nothing any more the loops come to rest: everybody
\* is on a team, or nobody without teamplay, the teams differ by one at most,
\* and as many play as should, as far as there are bots and slots.
TeamsSettled ==
  IF teamplay THEN Size("Unassigned") = 0 /\ Abs(Lead) <= 1
              ELSE Size("MI6") + Size("Janus") = 0
BotsSettled ==
  IF Sum(active) = 0 THEN Sum(bots) = 0
  ELSE \/ Surplus = 0
       \/ Surplus > 0 /\ Sum(bots) = 0
       \/ Surplus < 0 /\ Clients = MaxClients
Settles == quiet ~> [](TeamsSettled /\ BotsSettled)

=============================================================================
