---------------------------- MODULE RosterProofs ----------------------------
(***************************************************************************)
(* Proofs about Roster, for any numbers of players, slots and bots.        *)
(***************************************************************************)
EXTENDS Roster, TLAPS

Counts == [Places -> Nat]

Counted ==
  active \in Counts /\ pending \in Counts /\ bots \in Counts
  /\ spectators \in Nat

LEMMA PlaceIs == Places = {"MI6", "Janus", "Unassigned"}
BY DEF Places, Sides

LEMMA SumNat ==
  ASSUME NEW f \in Counts
  PROVE  Sum(f) \in Nat
BY PlaceIs DEF Counts, Sum

\* Whoever moves, nobody is lost, and the sizes of the two places change by
\* the number of those who move.
LEMMA MovesKeep ==
  ASSUME Counted, NEW from \in Places, NEW to \in Places, from # to,
         NEW a \in Nat, NEW p \in Nat, NEW b \in Nat,
         a <= active[from], p <= pending[from], b <= bots[from],
         NEW intermission \in BOOLEAN,
         Moves(a, p, b, from, to, intermission)
  PROVE  /\ Counted' /\ Clients' = Clients
         /\ Size(from)' = Size(from) - (a + p + b)
         /\ Size(to)' = Size(to) + (a + p + b)
<1> DEFINE kept == IF intermission THEN a ELSE 0
<1>1. kept \in Nat /\ a - kept \in Nat /\ p + a - kept \in Nat
  OBVIOUS
<1>2. /\ active' = [active EXCEPT ![from] = @ - a, ![to] = @ + kept]
      /\ pending' = [pending EXCEPT ![from] = @ - p, ![to] = @ + p + a - kept]
      /\ bots' = [bots EXCEPT ![from] = @ - b, ![to] = @ + b]
      /\ spectators' = spectators
  BY DEF Moves
<1> HIDE DEF kept
<1>3. pending[to] + p + a - kept = pending[to] + (p + a - kept)
  BY <1>1, PlaceIs DEF Counted, Counts
<1>4. pending' = [pending EXCEPT ![from] = @ - p, ![to] = @ + (p + a - kept)]
  <2>1. [pending EXCEPT ![from] = @ - p][to] = pending[to]
    BY DEF Counted, Counts
  <2> QED BY <1>2, <1>3, <2>1
<1>5. /\ active' \in Counts /\ Sum(active') = Sum(active) - a + kept
      /\ active'[from] = active[from] - a /\ active'[to] = active[to] + kept
  <2>1. active \in Counts /\ a <= active[from] BY DEF Counted
  <2>2. a \in Nat /\ kept \in Nat /\ from # to BY <1>1
  <2>3. active' = [active EXCEPT ![from] = @ - a, ![to] = @ + kept] BY <1>2
  <2> QED BY <2>1, <2>2, <2>3, PlaceIs DEF Counts, Sum
<1>6. /\ pending' \in Counts
      /\ Sum(pending') = Sum(pending) - p + (p + a - kept)
      /\ pending'[from] = pending[from] - p
      /\ pending'[to] = pending[to] + (p + a - kept)
  <2>1. pending \in Counts /\ p <= pending[from] BY DEF Counted
  <2>2. p \in Nat /\ p + a - kept \in Nat /\ from # to BY <1>1
  <2> QED BY <1>4, <2>1, <2>2, PlaceIs DEF Counts, Sum
<1>7. /\ bots' \in Counts /\ Sum(bots') = Sum(bots) - b + b
      /\ bots'[from] = bots[from] - b /\ bots'[to] = bots[to] + b
  <2>1. bots \in Counts /\ b <= bots[from] /\ b \in Nat /\ from # to
    BY DEF Counted
  <2>2. bots' = [bots EXCEPT ![from] = @ - b, ![to] = @ + b] BY <1>2
  <2> QED BY <2>1, <2>2, PlaceIs DEF Counts, Sum
<1>8. Counted' BY <1>2, <1>5, <1>6, <1>7 DEF Counted
<1>9. /\ Sum(active) \in Nat /\ Sum(pending) \in Nat /\ Sum(bots) \in Nat
      /\ spectators \in Nat
  BY SumNat DEF Counted
<1>10. Clients' = Clients
  BY <1>1, <1>2, <1>5, <1>6, <1>7, <1>9 DEF Clients
<1>11. /\ active[from] \in Nat /\ pending[from] \in Nat /\ bots[from] \in Nat
       /\ active[to] \in Nat /\ pending[to] \in Nat /\ bots[to] \in Nat
  BY DEF Counted, Counts
<1>12. /\ Size(from)' = Size(from) - (a + p + b)
       /\ Size(to)' = Size(to) + (a + p + b)
  BY <1>1, <1>5, <1>6, <1>7, <1>11 DEF Size
<1> QED BY <1>8, <1>10, <1>12

LEMMA OneMovesKeep ==
  ASSUME Counted, NEW from \in Places, NEW to \in Places, from # to,
         NEW kind, OneMoves(kind, from, to)
  PROVE  Counted' /\ Clients' = Clients
<1>0. active[from] \in Nat /\ pending[from] \in Nat /\ bots[from] \in Nat
  BY DEF Counted, Counts
<1>1. ASSUME active[from] > 0, NEW intermission \in BOOLEAN,
             Moves(1, 0, 0, from, to, intermission)
      PROVE  Counted' /\ Clients' = Clients
  BY <1>0, <1>1, MovesKeep
<1>2. ASSUME pending[from] > 0, Moves(0, 1, 0, from, to, FALSE)
      PROVE  Counted' /\ Clients' = Clients
  <2>1. 0 \in Nat /\ 1 \in Nat /\ 0 <= active[from] /\ 1 <= pending[from]
        /\ 0 <= bots[from] /\ FALSE \in BOOLEAN
    BY <1>0, <1>2
  <2> QED BY <1>2, <2>1, MovesKeep, Zenon
<1>3. ASSUME bots[from] > 0, Moves(0, 0, 1, from, to, FALSE)
      PROVE  Counted' /\ Clients' = Clients
  <2>1. 0 \in Nat /\ 1 \in Nat /\ 0 <= active[from] /\ 0 <= pending[from]
        /\ 1 <= bots[from] /\ FALSE \in BOOLEAN
    BY <1>0, <1>3
  <2> QED BY <1>3, <2>1, MovesKeep, Zenon
<1> QED BY <1>1, <1>2, <1>3 DEF OneMoves

\* A count of a place, taken away from or added to.
LEMMA PlusOne ==
  ASSUME NEW f \in Counts, NEW place \in Places, NEW g,
         g = [f EXCEPT ![place] = @ + 1]
  PROVE  g \in Counts /\ Sum(g) = Sum(f) + 1
BY PlaceIs DEF Counts, Sum

LEMMA MinusOne ==
  ASSUME NEW f \in Counts, NEW place \in Places, f[place] > 0, NEW g,
         g = [f EXCEPT ![place] = @ - 1]
  PROVE  g \in Counts /\ Sum(g) = Sum(f) - 1
BY PlaceIs DEF Counts, Sum

-----------------------------------------------------------------------------
(***************************************************************************)
(* BalanceTeams.                                                           *)
(***************************************************************************)

\* A switch takes from the larger side and brings the sides closer.
LEMMA SwitchCloser ==
  ASSUME Counted, NEW heavy \in Sides, NEW a \in 0 .. active[heavy],
         NEW p \in 0 .. pending[heavy], NEW b \in 0 .. bots[heavy],
         Size(heavy) - Size(Other(heavy)) > 1, Switch(heavy, a, p, b)
  PROVE  /\ Counted' /\ Clients' = Clients
         /\ Lead' # Lead => Abs(Lead') < Abs(Lead)
<1> DEFINE n == Switches(a + p + b)
           light == Other(heavy)
           fromBots == AtMost(n, b)
<1>1. heavy \in Places /\ light \in Places /\ heavy # light
  BY DEF Sides, Places, Other
<1>2. /\ active[heavy] \in Nat /\ pending[heavy] \in Nat /\ bots[heavy] \in Nat
      /\ Size(heavy) \in Nat /\ Size(light) \in Nat
      /\ a \in Nat /\ p \in Nat /\ b \in Nat
  BY <1>1 DEF Counted, Counts, Size
<1>3. Abs(Lead) = Size(heavy) - Size(light)
  <2>1. CASE heavy = "Janus" BY <1>2, <2>1 DEF Lead, Abs, Other
  <2>2. CASE heavy = "MI6" BY <1>2, <2>2 DEF Lead, Abs, Other
  <2> QED BY <2>1, <2>2 DEF Sides
<1>4. n \in Nat /\ n <= Size(heavy) - Size(light) - 1
  BY <1>2, <1>3 DEF Switches, AtMost
<1>5. fromBots \in Nat /\ fromBots <= b /\ fromBots <= n
  BY <1>2, <1>4 DEF AtMost
<1> HIDE DEF n, fromBots, light
<1>6. \E fromActive \in 0 .. a, intermission \in BOOLEAN :
        /\ n - fromBots - fromActive \in 0 .. p
        /\ Moves(fromActive, n - fromBots - fromActive, fromBots, heavy,
                 light, intermission)
  BY Zenon DEF Switch, n, fromBots, light
<1>7. PICK fromActive \in 0 .. a :
        \E intermission \in BOOLEAN :
          /\ n - fromBots - fromActive \in 0 .. p
          /\ Moves(fromActive, n - fromBots - fromActive, fromBots, heavy,
                   light, intermission)
  BY <1>6
<1>8. PICK intermission \in BOOLEAN :
        /\ n - fromBots - fromActive \in 0 .. p
        /\ Moves(fromActive, n - fromBots - fromActive, fromBots, heavy,
                 light, intermission)
  BY <1>7
<1> DEFINE fromPending == n - fromBots - fromActive
<1>9. /\ fromActive \in Nat /\ fromActive <= active[heavy]
      /\ fromPending \in Nat /\ fromPending <= pending[heavy]
      /\ fromBots <= bots[heavy]
      /\ fromActive + fromPending + fromBots = n
  BY <1>2, <1>4, <1>5, <1>8
<1>10. Moves(fromActive, fromPending, fromBots, heavy, light, intermission)
  BY <1>8
<1> HIDE DEF fromPending
<1>11. /\ Counted' /\ Clients' = Clients
       /\ Size(heavy)' = Size(heavy) - n /\ Size(light)' = Size(light) + n
  BY <1>1, <1>5, <1>9, <1>10, MovesKeep
<1>12. Abs(Lead') = Abs(Size(heavy)' - Size(light)')
  <2>1. Size(heavy)' \in Int /\ Size(light)' \in Int
    BY <1>2, <1>4, <1>11
  <2>2. CASE heavy = "Janus" BY <2>1, <2>2 DEF Lead, Abs, Other, light
  <2>3. CASE heavy = "MI6" BY <2>1, <2>3 DEF Lead, Abs, Other, light
  <2> QED BY <2>2, <2>3 DEF Sides
<1>13. CASE n = 0
  <2>1. Size(heavy)' = Size(heavy) /\ Size(light)' = Size(light)
    BY <1>2, <1>11, <1>13
  <2>2. Lead' = Lead
    BY <2>1 DEF Lead, Sides, Other, light
  <2> QED BY <1>11, <2>2
<1>14. CASE n > 0
  <2>1. Abs(Lead') < Abs(Lead)
    BY <1>2, <1>3, <1>4, <1>11, <1>12, <1>14 DEF Abs
  <2> QED BY <1>11, <2>1
<1> QED BY <1>4, <1>13, <1>14

-----------------------------------------------------------------------------
(***************************************************************************)
(* The inductive invariant: the bots still to be added leave the slots     *)
(* open that are to stay open.                                             *)
(***************************************************************************)
Flags == teamplay \in BOOLEAN /\ inBalance \in BOOLEAN /\ quiet \in BOOLEAN

SlotsLeft == Strict /\ phase = "adding" => Clients + left <= MaxClients - OpenSlots

Inv ==
  /\ Counted /\ Clients <= MaxClients
  /\ Flags /\ phase \in Phases /\ left \in Nat
  /\ SlotsLeft

LEMMA InvType ==
  ASSUME Inv
  PROVE  TypeOK
BY DEF Inv, TypeOK, Counted, Counts, Flags

LEMMA InitInv ==
  ASSUME Init
  PROVE  Inv
<1>1. Counted BY DEF Init, Counted, Counts
<1>2. Sum(active) = 0 /\ Sum(pending) = 0 /\ Sum(bots) = 0
  BY PlaceIs DEF Init, Sum
<1>3. Clients = 0 BY <1>2 DEF Init, Clients
<1>4. Clients <= MaxClients BY <1>3, RosterAssumption DEF RosterAssumption
<1>5. Flags /\ phase \in Phases /\ left \in Nat
  BY DEF Init, Flags, Phases
<1>6. SlotsLeft BY DEF Init, SlotsLeft
<1> QED BY <1>1, <1>4, <1>5, <1>6 DEF Inv

LEMMA CountedSums ==
  ASSUME Counted
  PROVE  /\ Sum(active) \in Nat /\ Sum(pending) \in Nat /\ Sum(bots) \in Nat
         /\ spectators \in Nat /\ Clients \in Nat
BY SumNat DEF Counted, Clients

-----------------------------------------------------------------------------
\* Think.
LEMMA BalanceStep ==
  ASSUME Inv, BalanceTeams
  PROVE  Inv' /\ (Lead' # Lead => Abs(Lead') < Abs(Lead))
<1> DEFINE Fine ==
      /\ Counted' /\ Clients' = Clients /\ inBalance' \in BOOLEAN
      /\ Lead' # Lead => Abs(Lead') < Abs(Lead)
<1>1. ASSUME UNCHANGED people, inBalance' \in BOOLEAN
      PROVE  Fine
  BY <1>1 DEF Inv, people, Counted, Clients, Sum, Lead, Size
<1>2. ASSUME NEW heavy \in Sides, NEW a \in 0 .. active[heavy],
             NEW p \in 0 .. pending[heavy], NEW b \in 0 .. bots[heavy],
             SwitchPlayers(heavy, a, p, b)
      PROVE  Fine
  <2>1. inBalance' \in BOOLEAN BY <1>2 DEF SwitchPlayers
  <2>2. Counted /\ Size(heavy) - Size(Other(heavy)) > 1
        /\ Switch(heavy, a, p, b)
    BY <1>2 DEF SwitchPlayers, Inv
  <2>3. /\ Counted' /\ Clients' = Clients
        /\ Lead' # Lead => Abs(Lead') < Abs(Lead)
    BY <2>2, SwitchCloser
  <2> QED BY <2>1, <2>3
<1>3. ASSUME Fine, EnterLoop, UNCHANGED <<teamplay, quiet>>
      PROVE  Inv'
  <2>1. phase' \in Places /\ phase' # "adding"
    BY <1>3 DEF EnterLoop, FirstList, Places, Sides
  <2>2. left' \in Nat
    <3>1. FirstList \in Places BY DEF FirstList, Places, Sides
    <3> QED BY <1>3, <3>1 DEF EnterLoop, Counted, Counts
  <2>3. Clients' <= MaxClients BY <1>3 DEF Inv
  <2>4. Flags' BY <1>3 DEF Flags, Inv
  <2> QED BY <1>3, <2>1, <2>2, <2>3, <2>4 DEF Inv, SlotsLeft, Phases
<1>4. CASE Begin(NoBalance)
  <2>1. Fine BY <1>1, <1>4 DEF Begin, NoBalance, Inv, Flags
  <2> QED BY <1>3, <1>4, <2>1 DEF Begin
<1>5. CASE Begin(WarnOfBalance)
  <2>1. inBalance' \in BOOLEAN
    <3>1. inBalance' = (Abs(Lead) > 1) BY <1>5 DEF Begin, WarnOfBalance
    <3>2. (Abs(Lead) > 1) \in BOOLEAN OBVIOUS
    <3> QED BY <3>1, <3>2, Zenon
  <2>2. Fine BY <1>1, <1>5, <2>1 DEF Begin, WarnOfBalance
  <2> QED BY <1>3, <1>5, <2>2 DEF Begin
<1>6. CASE Begin(CallOffBalance)
  <2>1. Fine BY <1>1, <1>6 DEF Begin, CallOffBalance
  <2> QED BY <1>3, <1>6, <2>1 DEF Begin
<1>7. ASSUME NEW heavy \in Sides, NEW a \in 0 .. active[heavy],
             NEW p \in 0 .. pending[heavy], NEW b \in 0 .. bots[heavy],
             Begin(SwitchPlayers(heavy, a, p, b))
      PROVE  Inv' /\ (Lead' # Lead => Abs(Lead') < Abs(Lead))
  <2>1. SwitchPlayers(heavy, a, p, b) /\ EnterLoop
        /\ UNCHANGED <<teamplay, quiet>>
    BY <1>7 DEF Begin
  <2>2. Fine BY <1>2, <2>1
  <2> QED BY <1>3, <2>1, <2>2
<1> QED BY <1>4, <1>5, <1>6, <1>7 DEF BalanceTeams

LEMMA WalkStep ==
  ASSUME Inv,
         (\E kind \in Kinds : WalkMove(kind)) \/ WalkStay \/ WalkDone
  PROVE  Inv' /\ phase # "rest" /\ phase # "adding"
<1>0. \A place \in Places : place # "rest" /\ place # "adding"
  BY DEF Places, Sides
<1>1. ASSUME NEW kind \in Kinds, WalkMove(kind)
      PROVE  Inv' /\ phase # "rest" /\ phase # "adding"
  <2>1. PICK to \in DefaultTeams : to # phase /\ OneMoves(kind, phase, to)
    BY <1>1 DEF WalkMove
  <2>2. to \in Places BY DEF DefaultTeams, Places, Sides
  <2>3. phase \in Places BY <1>1 DEF WalkMove
  <2>4. Counted' /\ Clients' = Clients
    BY <2>1, <2>2, <2>3, OneMovesKeep DEF Inv
  <2>5. left' \in Nat BY <1>1 DEF WalkMove, MovedOn, Inv
  <2>6. phase' = phase /\ UNCHANGED <<teamplay, inBalance, quiet>>
    BY <1>1 DEF WalkMove
  <2> QED BY <1>0, <2>3, <2>4, <2>5, <2>6 DEF Inv, Flags, SlotsLeft
<1>2. CASE WalkStay
  <2>1. left' \in Nat BY <1>2 DEF WalkStay, Inv
  <2>2. Counted' /\ Clients' = Clients
    BY <1>2 DEF WalkStay, people, Inv, Counted, Clients, Sum
  <2> QED BY <1>0, <1>2, <2>1, <2>2 DEF WalkStay, Inv, Flags, SlotsLeft
<1>3. CASE WalkDone
  <2>1. Counted' /\ Clients' = Clients
    BY <1>3 DEF WalkDone, people, Inv, Counted, Clients, Sum
  <2>2. Size("Janus") \in Nat
    BY PlaceIs DEF Inv, Counted, Counts, Size
  <2>3. left' \in Nat /\ phase' \in Phases /\ phase' # "adding"
    BY <1>3, <2>2 DEF WalkDone, Phases, Places, Sides
  <2> QED BY <1>0, <1>3, <2>1, <2>3 DEF WalkDone, Inv, Flags, SlotsLeft
<1> QED BY <1>1, <1>2, <1>3

LEMMA KickStep ==
  ASSUME Inv, KickBots
  PROVE  Inv'
<1>1. PICK u \in 0 .. bots["Unassigned"] :
        \E m \in 0 .. bots["MI6"], j \in 0 .. bots["Janus"] :
          bots' = [bots EXCEPT !["Unassigned"] = @ - u, !["MI6"] = @ - m,
                               !["Janus"] = @ - j]
  BY DEF KickBots
<1>2. PICK m \in 0 .. bots["MI6"], j \in 0 .. bots["Janus"] :
          bots' = [bots EXCEPT !["Unassigned"] = @ - u, !["MI6"] = @ - m,
                               !["Janus"] = @ - j]
  BY <1>1
<1>3. bots \in Counts BY DEF Inv, Counted
<1>4. /\ bots["Unassigned"] \in Nat /\ bots["MI6"] \in Nat
      /\ bots["Janus"] \in Nat
  BY <1>3, PlaceIs DEF Counts
<1>5. bots' \in Counts /\ Sum(bots') <= Sum(bots)
  BY <1>2, <1>3, <1>4, PlaceIs DEF Counts, Sum
<1>6. UNCHANGED <<active, pending, spectators, teamplay, inBalance, left, quiet>>
      /\ phase' = "rest"
  BY DEF KickBots
<1>7. Counted' BY <1>5, <1>6 DEF Inv, Counted
<1>8. Clients' <= Clients
  <2>1. Sum(active') = Sum(active) /\ Sum(pending') = Sum(pending)
    BY <1>6
  <2>2. Sum(bots') \in Nat BY <1>5, SumNat
  <2> QED BY <1>5, <1>6, <2>1, <2>2, CountedSums DEF Clients, Inv
<1>9. Clients' <= MaxClients
  <2>1. Clients \in Nat /\ Clients' \in Nat
    <3>1. Sum(active') \in Nat /\ Sum(pending') \in Nat /\ Sum(bots') \in Nat
          /\ spectators' \in Nat
      BY <1>7, SumNat DEF Counted
    <3> QED BY <3>1, CountedSums DEF Clients, Inv
  <2> QED BY <1>8, <2>1, RosterAssumption DEF RosterAssumption, Inv
<1> QED BY <1>6, <1>7, <1>9 DEF Inv, Flags, SlotsLeft, Phases

\* The bots wanted leave the open slots: this is where spectators count.
LEMMA WantStep ==
  ASSUME Inv, WantBots
  PROVE  Inv'
<1>1. Counted' /\ Clients' = Clients
  BY DEF WantBots, people, Inv, Counted, Clients, Sum
<1>2. /\ Sum(active) \in Nat /\ Sum(pending) \in Nat /\ Sum(bots) \in Nat
      /\ spectators \in Nat
  BY CountedSums DEF Inv
<1>3. Surplus \in Int /\ Surplus < 0
  <2>1. BotThreshold \in Int
    BY <1>2, RosterAssumption
       DEF BotThreshold, AtMost, SpecCount, RosterAssumption
  <2> QED BY <1>2, <2>1 DEF Surplus, WantBots
<1>4. left' \in Nat BY <1>3 DEF WantBots
<1>5. ASSUME Strict
      PROVE  Clients + left' <= MaxClients - OpenSlots
  <2>1. BotThreshold = AtMost(Threshold, MaxClients - OpenSlots) - SpecCount
    BY <1>2, <1>5 DEF BotThreshold, WantBots
  <2>2. AtMost(Threshold, MaxClients - OpenSlots) <= MaxClients - OpenSlots
        /\ AtMost(Threshold, MaxClients - OpenSlots) \in Int
    BY RosterAssumption DEF RosterAssumption, AtMost
  <2>3. left' = AtMost(Threshold, MaxClients - OpenSlots) - SpecCount
                  - (Sum(active) + Sum(bots))
    BY <1>2, <2>1, <2>2 DEF WantBots, Surplus, SpecCount
  <2> QED BY <1>2, <2>2, <2>3, RosterAssumption
          DEF RosterAssumption, Clients, SpecCount
<1>6. SlotsLeft' BY <1>1, <1>5 DEF SlotsLeft
<1> QED BY <1>1, <1>4, <1>6 DEF WantBots, Inv, Flags, Phases

\* A bot more takes one of the slots counted for it.
LEMMA CreateStep ==
  ASSUME Inv, CreateBot, UNCHANGED <<active, pending, spectators>>
  PROVE  /\ Counted' /\ Clients' \in Nat /\ Clients' <= MaxClients
         /\ Clients' <= Clients + 1
<1>1. Clients \in Nat /\ Clients <= MaxClients BY CountedSums DEF Inv
<1>2. CASE Clients < MaxClients
           /\ \E place \in DefaultTeams : bots' = [bots EXCEPT ![place] = @ + 1]
  <2>1. PICK place \in DefaultTeams : bots' = [bots EXCEPT ![place] = @ + 1]
    BY <1>2
  <2>2. place \in Places BY DEF DefaultTeams, Places, Sides
  <2>3. bots' \in Counts /\ Sum(bots') = Sum(bots) + 1
    BY <2>1, <2>2, PlusOne DEF Inv, Counted
  <2>4. Counted' BY <2>3 DEF Inv, Counted
  <2>5. Sum(active') = Sum(active) /\ Sum(pending') = Sum(pending)
    OBVIOUS
  <2>6. Clients' = Clients + 1
    BY <2>3, <2>5, CountedSums DEF Clients, Inv
  <2> QED BY <1>1, <1>2, <2>4, <2>6, RosterAssumption DEF RosterAssumption
<1>3. CASE UNCHANGED bots
  <2>1. Counted' /\ Clients' = Clients
    BY <1>3 DEF Inv, Counted, Clients, Sum
  <2> QED BY <1>1, <2>1
<1> QED BY <1>2, <1>3 DEF CreateBot

LEMMA AddStep ==
  ASSUME Inv, AddBot
  PROVE  Inv' /\ (Strict => Clients' <= MaxClients - OpenSlots)
<1>1. CreateBot /\ UNCHANGED <<active, pending, spectators>> BY DEF AddBot
<1>2. /\ Counted' /\ Clients' \in Nat /\ Clients' <= MaxClients
      /\ Clients' <= Clients + 1
  BY <1>1, CreateStep
<1>3. left' \in Nat /\ left' = left - 1 /\ left \in Nat /\ left > 0
  BY DEF AddBot, Inv
<1>4. ASSUME Strict
      PROVE  Clients' + left' <= MaxClients - OpenSlots
             /\ Clients' <= MaxClients - OpenSlots
  <2>1. Clients + left <= MaxClients - OpenSlots
    BY <1>4 DEF AddBot, Inv, SlotsLeft
  <2>2. Clients \in Nat /\ MaxClients \in Nat /\ OpenSlots \in Nat
    BY CountedSums, RosterAssumption DEF RosterAssumption, Inv
  <2> DEFINE c == Clients
             d == Clients'
  <2>3. c \in Nat /\ d \in Nat /\ d <= c + 1 BY <1>2, <2>2
  <2>4. c + left <= MaxClients - OpenSlots BY <2>1
  <2> HIDE DEF c, d
  <2>5. d + left' <= MaxClients - OpenSlots /\ d <= MaxClients - OpenSlots
    BY <1>3, <2>2, <2>3, <2>4
  <2> QED BY <2>5 DEF d
<1>5. Strict => Clients' <= MaxClients - OpenSlots BY <1>4
<1>6. SlotsLeft' BY <1>4 DEF SlotsLeft
<1> QED BY <1>2, <1>3, <1>5, <1>6 DEF AddBot, Inv, Flags

LEMMA RestStep ==
  ASSUME Inv, LeaveBots \/ AddingDone
  PROVE  Inv'
<1>1. UNCHANGED people /\ phase' = "rest"
      /\ UNCHANGED <<teamplay, inBalance, left, quiet>>
  BY DEF LeaveBots, AddingDone
<1>2. Counted' /\ Clients' = Clients
  BY <1>1 DEF people, Inv, Counted, Clients, Sum
<1> QED BY <1>1, <1>2 DEF Inv, Flags, SlotsLeft, Phases
-----------------------------------------------------------------------------
(***************************************************************************)
(* Between two frames: who comes and goes.  The places of the sums change, *)
(* and only a newcomer takes a slot.                                       *)
(***************************************************************************)

\* Any step at rest that keeps the counts and the slots keeps the invariant.
LEMMA AtRest ==
  ASSUME Inv, phase = "rest", Counted', Clients' <= MaxClients,
         phase' = phase, left' = left, inBalance' = inBalance,
         teamplay' \in BOOLEAN, quiet' \in BOOLEAN
  PROVE  Inv'
BY DEF Inv, Flags, SlotsLeft

LEMMA ClientsSum ==
  ASSUME Counted'
  PROVE  Clients' = Sum(active') + Sum(pending') + Sum(bots') + spectators'
BY DEF Clients

\* One of the humans of a place leaves it.
LEMMA OneLeaves ==
  ASSUME Inv,
         \/ /\ \E place \in Places :
                 active[place] > 0 /\ active' = [active EXCEPT ![place] = @ - 1]
            /\ UNCHANGED pending
         \/ /\ \E place \in Places :
                 pending[place] > 0
                 /\ pending' = [pending EXCEPT ![place] = @ - 1]
            /\ UNCHANGED active
  PROVE  /\ active' \in Counts /\ pending' \in Counts
         /\ Sum(active') + Sum(pending') = Sum(active) + Sum(pending) - 1
<1>1. active \in Counts /\ pending \in Counts BY DEF Inv, Counted
<1>2. Sum(active) \in Nat /\ Sum(pending) \in Nat BY <1>1, SumNat
<1>3. ASSUME NEW place \in Places, active[place] > 0,
             active' = [active EXCEPT ![place] = @ - 1], UNCHANGED pending
      PROVE  /\ active' \in Counts /\ pending' \in Counts
             /\ Sum(active') + Sum(pending') = Sum(active) + Sum(pending) - 1
  <2>1. active' \in Counts /\ Sum(active') = Sum(active) - 1
    BY <1>1, <1>3, MinusOne
  <2>2. pending' \in Counts /\ Sum(pending') = Sum(pending) BY <1>1, <1>3
  <2> QED BY <1>2, <2>1, <2>2
<1>4. ASSUME NEW place \in Places, pending[place] > 0,
             pending' = [pending EXCEPT ![place] = @ - 1], UNCHANGED active
      PROVE  /\ active' \in Counts /\ pending' \in Counts
             /\ Sum(active') + Sum(pending') = Sum(active) + Sum(pending) - 1
  <2>1. pending' \in Counts /\ Sum(pending') = Sum(pending) - 1
    BY <1>1, <1>4, MinusOne
  <2>2. active' \in Counts /\ Sum(active') = Sum(active) BY <1>1, <1>4
  <2> QED BY <1>2, <2>1, <2>2
<1> QED BY <1>3, <1>4

LEMMA CommandStep ==
  ASSUME Inv, Commands
  PROVE  Inv' /\ phase = "rest" /\ phase' = "rest"
<1>0. /\ Sum(active) \in Nat /\ Sum(pending) \in Nat /\ Sum(bots) \in Nat
      /\ spectators \in Nat /\ Clients \in Nat /\ MaxClients \in Nat
      /\ Clients = Sum(active) + Sum(pending) + Sum(bots) + spectators
      /\ Clients <= MaxClients /\ Counted
      /\ teamplay \in BOOLEAN /\ quiet \in BOOLEAN
  BY CountedSums, RosterAssumption DEF RosterAssumption, Inv, Clients, Flags
<1>1. CASE Connect
  <2>1. Counted' BY <1>0, <1>1 DEF Connect, Counted
  <2>2. /\ Sum(active') = Sum(active) /\ Sum(pending') = Sum(pending)
        /\ Sum(bots') = Sum(bots) /\ spectators' = spectators + 1
    BY <1>1 DEF Connect
  <2>3. Clients' = Clients + 1 BY <1>0, <2>1, <2>2, ClientsSum
  <2>4. Clients' <= MaxClients BY <1>0, <1>1, <2>3 DEF Connect
  <2> QED BY <1>0, <1>1, <2>1, <2>4, AtRest DEF Connect, Asks, think
<1>2. CASE Disconnect
  <2>1. Counted' /\ Clients' = Clients - 1
    <3>1. CASE spectators > 0 /\ spectators' = spectators - 1
               /\ UNCHANGED <<active, pending>>
      <4>1. Counted' BY <1>0, <1>2, <3>1 DEF Disconnect, Counted
      <4>2. /\ Sum(active') = Sum(active) /\ Sum(pending') = Sum(pending)
            /\ Sum(bots') = Sum(bots)
        BY <1>2, <3>1 DEF Disconnect
      <4> QED BY <1>0, <3>1, <4>1, <4>2, ClientsSum
    <3>2. CASE UNCHANGED spectators /\
               \/ /\ \E place \in Places :
                       active[place] > 0
                       /\ active' = [active EXCEPT ![place] = @ - 1]
                  /\ UNCHANGED pending
               \/ /\ \E place \in Places :
                       pending[place] > 0
                       /\ pending' = [pending EXCEPT ![place] = @ - 1]
                  /\ UNCHANGED active
      <4>1. /\ active' \in Counts /\ pending' \in Counts
            /\ Sum(active') + Sum(pending') = Sum(active) + Sum(pending) - 1
        BY <3>2, OneLeaves
      <4>2. bots' = bots BY <1>2 DEF Disconnect
      <4>3. Counted' BY <1>0, <3>2, <4>1, <4>2 DEF Counted
      <4>4. Sum(bots') = Sum(bots) BY <4>2
      <4>5. Sum(active') \in Nat /\ Sum(pending') \in Nat BY <4>1, SumNat
      <4> QED BY <1>0, <3>2, <4>1, <4>3, <4>4, <4>5, ClientsSum
    <3> QED BY <1>2, <3>1, <3>2 DEF Disconnect
  <2>2. Clients' <= MaxClients BY <1>0, <2>1
  <2> QED BY <1>0, <1>2, <2>1, <2>2, AtRest DEF Disconnect, Asks, think
<1>3. CASE JoinTeam
  <2>1. PICK from \in Places, to \in Joinable, kind \in {"active", "pending"} :
          to # from /\ OneMoves(kind, from, to)
    BY <1>3 DEF JoinTeam
  <2>2. to \in Places BY DEF Joinable, Places
  <2>3. Counted' /\ Clients' = Clients BY <1>0, <2>1, <2>2, OneMovesKeep
  <2> QED BY <1>0, <1>3, <2>3, AtRest DEF JoinTeam, Asks, think
<1>4. CASE LeaveSpectators
  <2>1. PICK to \in Joinable : pending' = [pending EXCEPT ![to] = @ + 1]
    BY <1>4 DEF LeaveSpectators
  <2>2. to \in Places BY DEF Joinable, Places
  <2>3. pending' \in Counts /\ Sum(pending') = Sum(pending) + 1
    BY <1>0, <2>1, <2>2, PlusOne DEF Counted
  <2>4. /\ active' = active /\ bots' = bots
        /\ spectators' = spectators - 1 /\ spectators > 0
    BY <1>4 DEF LeaveSpectators
  <2>5. Counted' BY <1>0, <2>3, <2>4 DEF Counted
  <2>6. Sum(active') = Sum(active) /\ Sum(bots') = Sum(bots) BY <2>4
  <2>7. Clients' = Clients BY <1>0, <2>3, <2>4, <2>5, <2>6, ClientsSum
  <2> QED BY <1>0, <1>4, <2>5, <2>7, AtRest DEF LeaveSpectators, Asks, think
<1>5. CASE Spectate
  <2>1. /\ active' \in Counts /\ pending' \in Counts
        /\ Sum(active') + Sum(pending') = Sum(active) + Sum(pending) - 1
    BY <1>5, OneLeaves DEF Spectate
  <2>2. bots' = bots /\ spectators' = spectators + 1 BY <1>5 DEF Spectate
  <2>3. Counted' BY <1>0, <2>1, <2>2 DEF Counted
  <2>4. Sum(bots') = Sum(bots) BY <2>2
  <2>5. Sum(active') \in Nat /\ Sum(pending') \in Nat BY <2>1, SumNat
  <2>6. Clients' = Clients
    BY <1>0, <2>1, <2>2, <2>3, <2>4, <2>5, ClientsSum
  <2> QED BY <1>0, <1>5, <2>3, <2>6, AtRest DEF Spectate, Asks, think
<1>6. CASE BotCommand
  <2>1. Counted' /\ Clients' <= MaxClients
    <3>1. CASE CreateBot
      BY <1>6, <3>1, CreateStep DEF BotCommand
    <3>2. ASSUME NEW place \in Places, bots[place] > 0,
                 bots' = [bots EXCEPT ![place] = @ - 1]
          PROVE  Counted' /\ Clients' <= MaxClients
      <4>1. bots' \in Counts /\ Sum(bots') = Sum(bots) - 1
        BY <1>0, <3>2, MinusOne DEF Counted
      <4>2. UNCHANGED <<active, pending, spectators>>
        BY <1>6 DEF BotCommand
      <4>3. Counted' BY <1>0, <4>1, <4>2 DEF Counted
      <4>4. Sum(active') = Sum(active) /\ Sum(pending') = Sum(pending)
        BY <4>2
      <4>5. Clients' = Clients - 1
        BY <1>0, <4>1, <4>2, <4>3, <4>4, ClientsSum
      <4> QED BY <1>0, <4>3, <4>5
    <3> QED BY <1>6, <3>1, <3>2 DEF BotCommand
  <2> QED BY <1>0, <1>6, <2>1, AtRest DEF BotCommand, Asks, think
<1>7. CASE SetTeamplay
  <2>1. Counted' /\ Clients' = Clients
    BY <1>0, <1>7 DEF SetTeamplay, people, Counted, Clients, Sum
  <2>2. teamplay' \in BOOLEAN BY <1>7, <1>0 DEF SetTeamplay
  <2> QED BY <1>0, <1>7, <2>1, <2>2, AtRest DEF SetTeamplay, Asks, think
<1>8. CASE EnterGame
  <2>1. PICK place \in IF teamplay THEN Sides ELSE {"Unassigned"} :
          /\ pending[place] > 0
          /\ pending' = [pending EXCEPT ![place] = @ - 1]
          /\ active' = [active EXCEPT ![place] = @ + 1]
    BY <1>8 DEF EnterGame
  <2>2. place \in Places BY DEF Places, Sides
  <2>3. pending' \in Counts /\ Sum(pending') = Sum(pending) - 1
    BY <1>0, <2>1, <2>2, MinusOne DEF Counted
  <2>4. active' \in Counts /\ Sum(active') = Sum(active) + 1
    BY <1>0, <2>1, <2>2, PlusOne DEF Counted
  <2>5. bots' = bots /\ spectators' = spectators BY <1>8 DEF EnterGame
  <2>6. Counted' BY <1>0, <2>3, <2>4, <2>5 DEF Counted
  <2>7. Sum(bots') = Sum(bots) BY <2>5
  <2>8. Clients' = Clients
    BY <1>0, <2>3, <2>4, <2>5, <2>6, <2>7, ClientsSum
  <2> QED BY <1>0, <1>8, <2>6, <2>8, AtRest DEF EnterGame, think
<1>9. CASE BecomeQuiet
  <2>1. Counted' /\ Clients' = Clients
    BY <1>0, <1>9 DEF BecomeQuiet, people, Counted, Clients, Sum
  <2> QED BY <1>0, <1>9, <2>1, AtRest DEF BecomeQuiet, think
<1> QED BY <1>1, <1>2, <1>3, <1>4, <1>5, <1>6, <1>7, <1>8, <1>9 DEF Commands

-----------------------------------------------------------------------------
LEMMA StepInv ==
  ASSUME Inv, [Next]_vars
  PROVE  Inv'
<1>1. CASE Think
  BY <1>1, BalanceStep, WalkStep, KickStep, WantStep, AddStep, RestStep
     DEF Think
<1>2. CASE Commands BY <1>2, CommandStep
<1>3. CASE UNCHANGED vars
  BY <1>3 DEF vars, people, think, Inv, Counted, Clients, Sum, Flags, SlotsLeft
<1> QED BY <1>1, <1>2, <1>3 DEF Next

\* Counts stay counts, and there are never more clients than slots, whatever
\* the order of frames and requests (EnforceTeamplay, EnforceBotCount).
THEOREM RosterTypeOK == Spec => []TypeOK
<1>1. Inv /\ [Next]_vars => Inv' BY StepInv
<1>2. Inv => TypeOK BY InvType
<1> QED BY InitInv, <1>1, <1>2, PTL DEF Spec

\* BalanceTeams brings the sides closer whenever it switches somebody, for any
\* difference and whomever the scenario holds back.
THEOREM BalanceBringsCloser == Spec => BalanceShrinks
<1>1. Inv /\ [Next]_vars => Inv' BY StepInv
<1>2. Inv /\ [Next]_vars
        => [phase = "rest" /\ phase' # "rest" /\ Lead' # Lead
              => Abs(Lead') < Abs(Lead)]_vars
  <2> SUFFICES ASSUME Inv, Next, phase = "rest", phase' # "rest",
                      Lead' # Lead
               PROVE  Abs(Lead') < Abs(Lead)
    OBVIOUS
  <2>1. CASE BalanceTeams BY <2>1, BalanceStep
  <2>2. CASE (\E kind \in Kinds : WalkMove(kind)) \/ WalkStay \/ WalkDone
    BY <2>2, WalkStep
  <2>3. CASE KickBots \/ WantBots \/ LeaveBots \/ AddBot \/ AddingDone
    BY <2>3 DEF KickBots, WantBots, LeaveBots, AddBot, AddingDone
  <2>4. CASE Commands BY <2>4, CommandStep
  <2> QED BY <2>1, <2>2, <2>3, <2>4 DEF Next, Think
<1> QED BY InitInv, <1>1, <1>2, PTL DEF Spec, BalanceShrinks

\* EnforceBotCount with ge_bot_strict_openslot fills no slot that is to stay
\* open, for any number of spectators and any settings.
THEOREM BotsLeaveSlotsOpen == Spec => OpenSlotsKept
<1>1. Inv /\ [Next]_vars => Inv' BY StepInv
<1>2. Inv /\ [Next]_vars
        => [Strict /\ phase = "adding" /\ bots' # bots
              => Clients' <= MaxClients - OpenSlots]_vars
  <2> SUFFICES ASSUME Inv, Next, Strict, phase = "adding", bots' # bots
               PROVE  Clients' <= MaxClients - OpenSlots
    OBVIOUS
  <2>1. CASE BalanceTeams BY <2>1 DEF BalanceTeams, Begin
  <2>2. CASE (\E kind \in Kinds : WalkMove(kind)) \/ WalkStay \/ WalkDone
    BY <2>2, WalkStep
  <2>3. CASE KickBots \/ WantBots \/ LeaveBots
    BY <2>3 DEF KickBots, WantBots, LeaveBots
  <2>4. CASE AddBot BY <2>4, AddStep
  <2>5. CASE AddingDone BY <2>5 DEF AddingDone, people
  <2>6. CASE Commands BY <2>6, CommandStep
  <2> QED BY <2>1, <2>2, <2>3, <2>4, <2>5, <2>6 DEF Next, Think
<1> QED BY InitInv, <1>1, <1>2, PTL DEF Spec, OpenSlotsKept

-----------------------------------------------------------------------------
(***************************************************************************)
(* A server at rest stays at rest.  What the loops go by: which list is    *)
(* walked, and how many bots are still to come.                            *)
(***************************************************************************)
OnItsList ==
  /\ phase = "Unassigned" => teamplay
  /\ phase \in Sides => ~teamplay
  /\ phase = "adding" =>
       Sum(active) > 0 /\ (left = -Surplus \/ Clients = MaxClients)

Settled == TeamsSettled /\ BotsSettled

SettledStays ==
  [][(/\ quiet /\ Settled
      /\ EnterGame => Strict /\ Sum(active) > 0) => Settled']_vars

LEMMA PeopleKeep ==
  ASSUME UNCHANGED <<people, teamplay>>
  PROVE  /\ Settled => Settled'
         /\ Surplus' = Surplus /\ Clients' = Clients
         /\ Sum(active') = Sum(active)
BY DEF people, Settled, TeamsSettled, BotsSettled, Lead, Size, Surplus, BotThreshold,
       SpecCount, Clients, Sum

LEMMA SurplusInt ==
  ASSUME Counted
  PROVE  Surplus \in Int
BY CountedSums, RosterAssumption
   DEF Surplus, BotThreshold, AtMost, SpecCount, RosterAssumption

\* A bot more, as long as somebody plays.
LEMMA SurplusCounts ==
  ASSUME Inv, Sum(active) > 0, Sum(bots') = Sum(bots) + 1,
         UNCHANGED <<active, pending, spectators>>
  PROVE  Surplus' = Surplus + 1
<1>1. /\ Sum(active) \in Nat /\ Sum(pending) \in Nat /\ Sum(bots) \in Nat
      /\ spectators \in Nat
  BY CountedSums DEF Inv
<1>2. Sum(active') = Sum(active) /\ SpecCount' = SpecCount
  BY DEF SpecCount, Sum
<1>3. /\ BotThreshold = AtMost(Threshold, MaxClients - OpenSlots)
                          - (IF Strict THEN SpecCount ELSE 0)
      /\ BotThreshold' = BotThreshold
  BY <1>1, <1>2 DEF BotThreshold
<1>4. Surplus \in Int /\ Surplus = Sum(active) + Sum(bots) - BotThreshold
      /\ BotThreshold \in Int
  BY <1>1, <1>3, SurplusInt, RosterAssumption
     DEF Inv, Surplus, AtMost, SpecCount, RosterAssumption
<1>5. Surplus' = Sum(active') + Sum(bots') - BotThreshold'
  BY DEF Surplus
<1> QED BY <1>1, <1>2, <1>3, <1>4, <1>5

LEMMA ListKept ==
  ASSUME Inv, OnItsList, [Next]_vars
  PROVE  OnItsList'
<1>0. /\ "adding" \notin Places /\ "rest" \notin Places /\ "bots" \notin Places
      /\ Sides \subseteq Places /\ "Unassigned" \notin Sides
      /\ "adding" # "rest" /\ "adding" # "bots"
  BY DEF Places, Sides
<1>1. CASE BalanceTeams
  <2>1. phase' = FirstList /\ teamplay' = teamplay
    BY <1>1, Zenon DEF BalanceTeams, Begin, EnterLoop
  <2> QED BY <2>1 DEF FirstList, OnItsList, Sides
<1>2. CASE (\E kind \in Kinds : WalkMove(kind)) \/ WalkStay
  <2>1. phase \in Places /\ UNCHANGED <<phase, teamplay>>
    BY <1>2 DEF WalkMove, WalkStay
  <2> QED BY <1>0, <2>1 DEF OnItsList
<1>3. CASE WalkDone
  BY <1>0, <1>3 DEF WalkDone, OnItsList, Sides
<1>4. CASE KickBots \/ LeaveBots \/ AddingDone
  <2>1. phase' = "rest"
    BY <1>4 DEF KickBots, LeaveBots, AddingDone
  <2> QED BY <1>0, <2>1 DEF OnItsList
<1>5. CASE WantBots
  <2>1. /\ UNCHANGED <<people, teamplay>> /\ phase' = "adding"
        /\ left' = -Surplus /\ Sum(active) > 0
    BY <1>5 DEF WantBots
  <2>2. Surplus' = Surplus /\ Sum(active') = Sum(active)
    BY <2>1, PeopleKeep
  <2>3. left' = -Surplus'
    BY <2>1, <2>2
  <2> QED BY <1>0, <2>1, <2>2, <2>3 DEF OnItsList
<1>6. CASE AddBot
  <2>1. /\ phase = "adding" /\ phase' = "adding" /\ left > 0 /\ left' = left - 1
        /\ CreateBot /\ UNCHANGED <<active, pending, spectators, teamplay>>
    BY <1>6 DEF AddBot
  <2>2. Sum(active) > 0 /\ (left = -Surplus \/ Clients = MaxClients)
    BY <2>1 DEF OnItsList
  <2>3. Sum(active') = Sum(active)
    BY <2>1 DEF Sum
  <2>4. CASE Clients = MaxClients
    <3>1. UNCHANGED bots
      BY <2>1, <2>4, RosterAssumption DEF CreateBot, RosterAssumption
    <3>2. UNCHANGED <<people, teamplay>>
      BY <2>1, <3>1 DEF people
    <3>3. Clients' = MaxClients
      BY <2>4, <3>2, PeopleKeep
    <3> QED BY <1>0, <2>1, <2>2, <2>3, <3>3 DEF OnItsList
  <2>5. CASE Clients < MaxClients
    <3>1. PICK place \in DefaultTeams : bots' = [bots EXCEPT ![place] = @ + 1]
      BY <2>1, <2>5, RosterAssumption, CountedSums DEF CreateBot, RosterAssumption, Inv
    <3>2. place \in Places
      BY DEF DefaultTeams, Places, Sides
    <3>3. Sum(bots') = Sum(bots) + 1
      BY <3>1, <3>2, PlusOne DEF Inv, Counted
    <3>4. Surplus' = Surplus + 1 /\ left = -Surplus /\ Surplus \in Int
      BY <2>1, <2>2, <2>5, <3>3, SurplusCounts, SurplusInt, RosterAssumption, CountedSums
         DEF RosterAssumption, Inv
    <3>5. left' = -Surplus'
      BY <2>1, <3>4
    <3> QED BY <1>0, <2>1, <2>2, <2>3, <3>5 DEF OnItsList
  <2> QED BY <2>1, <2>4, <2>5 DEF CreateBot
<1>7. CASE Commands
  <2>1. phase = "rest" /\ phase' = "rest"
    BY <1>7 DEF Commands, Connect, Disconnect, JoinTeam, LeaveSpectators, Spectate,
                BotCommand, SetTeamplay, EnterGame, BecomeQuiet, Asks, think
  <2> QED BY <1>0, <2>1 DEF OnItsList
<1>8. CASE UNCHANGED vars
  <2>1. UNCHANGED <<people, teamplay, phase, left>>
    BY <1>8 DEF vars, think
  <2> QED BY <2>1, PeopleKeep DEF OnItsList
<1> QED BY <1>1, <1>2, <1>3, <1>4, <1>5, <1>6, <1>7, <1>8 DEF Next, Think

\* A balance has nobody to switch, a walk nobody to move, and the count of the
\* bots is right already.
LEMMA ThinkRests ==
  ASSUME Inv, OnItsList, Settled, Think
  PROVE  UNCHANGED <<people, teamplay>>
<1>1. /\ active \in Counts /\ pending \in Counts /\ bots \in Counts
      /\ \A place \in Places : active[place] \in Nat /\ pending[place] \in Nat
                               /\ bots[place] \in Nat
  BY DEF Inv, Counted, Counts
<1>2. ASSUME NEW place \in Places, Size(place) = 0
      PROVE  active[place] = 0 /\ pending[place] = 0 /\ bots[place] = 0
  BY <1>1, <1>2 DEF Size
<1>3. CASE BalanceTeams
  <2>1. ASSUME NEW heavy \in Sides, NEW a, NEW p, NEW b,
               SwitchPlayers(heavy, a, p, b)
        PROVE  FALSE
    <3>1. teamplay /\ Size(heavy) - Size(Other(heavy)) > 1
      BY <2>1 DEF SwitchPlayers
    <3>2. Abs(Lead) <= 1
      BY <3>1 DEF Settled, TeamsSettled
    <3>3. Size("MI6") \in Nat /\ Size("Janus") \in Nat
      BY <1>1, PlaceIs DEF Size
    <3> QED BY <3>1, <3>2, <3>3 DEF Abs, Lead, Sides, Other
  <2>2. CASE Begin(NoBalance) \/ Begin(WarnOfBalance) \/ Begin(CallOffBalance)
    BY <2>2 DEF Begin, NoBalance, WarnOfBalance, CallOffBalance
  <2> QED BY <1>3, <2>1, <2>2 DEF BalanceTeams, Begin
<1>4. ASSUME NEW kind \in Kinds, WalkMove(kind)
      PROVE  FALSE
  <2>1. phase \in Places /\ \E to \in DefaultTeams : OneMoves(kind, phase, to)
    BY <1>4 DEF WalkMove
  <2>2. active[phase] > 0 \/ pending[phase] > 0 \/ bots[phase] > 0
    BY <2>1 DEF OneMoves
  <2>3. CASE phase = "Unassigned"
    BY <1>2, <2>1, <2>2, <2>3 DEF OnItsList, Settled, TeamsSettled
  <2>4. CASE phase \in Sides
    <3>1. Size("MI6") + Size("Janus") = 0
      BY <2>4 DEF OnItsList, Settled, TeamsSettled
    <3>2. Size("MI6") \in Nat /\ Size("Janus") \in Nat
      BY <1>1, PlaceIs DEF Size
    <3>3. Size(phase) = 0
      BY <2>4, <3>1, <3>2 DEF Sides
    <3> QED BY <1>2, <2>1, <2>2, <3>3
  <2> QED BY <2>1, <2>3, <2>4 DEF Places
<1>5. CASE KickBots
  <2>1. Surplus > 0 /\ Surplus \in Int
    BY <1>5, SurplusInt DEF KickBots, Inv
  <2>2. Sum(bots) = 0
    BY <2>1 DEF Settled, BotsSettled
  <2>3. bots["Unassigned"] = 0 /\ bots["MI6"] = 0 /\ bots["Janus"] = 0
    BY <1>1, <2>2, PlaceIs DEF Sum
  <2>4. bots' = bots
    <3>1. PICK u \in 0 .. 0 : \E m \in 0 .. 0, j \in 0 .. 0 :
            bots' = [bots EXCEPT !["Unassigned"] = @ - u, !["MI6"] = @ - m,
                                 !["Janus"] = @ - j]
      BY <1>5, <2>3 DEF KickBots
    <3>2. PICK m \in 0 .. 0, j \in 0 .. 0 :
            bots' = [bots EXCEPT !["Unassigned"] = @ - u, !["MI6"] = @ - m,
                                 !["Janus"] = @ - j]
      BY <3>1
    <3>3. \A place \in Places : bots'[place] = bots[place]
      BY <1>1, <2>3, <3>2, PlaceIs DEF Counts
    <3>4. bots' \in Counts
      BY <1>5, KickStep DEF Inv, Counted
    <3> QED BY <1>1, <3>3, <3>4 DEF Counts
  <2> QED BY <1>5, <2>4 DEF KickBots, people
<1>6. CASE AddBot
  <2>1. Sum(active) > 0 /\ left > 0 /\ left \in Nat
        /\ (left = -Surplus \/ Clients = MaxClients)
    BY <1>6 DEF AddBot, OnItsList, Inv
  <2>2. Clients = MaxClients
    <3>1. Surplus \in Int /\ Sum(active) \in Nat
      BY SurplusInt, CountedSums DEF Inv
    <3>2. Surplus = 0 \/ Surplus > 0 \/ Clients = MaxClients
      BY <2>1, <3>1 DEF Settled, BotsSettled
    <3> QED BY <2>1, <3>1, <3>2
  <2>3. bots' = bots
    BY <1>6, <2>2, RosterAssumption DEF AddBot, CreateBot, RosterAssumption
  <2> QED BY <1>6, <2>3 DEF AddBot, people
<1>7. CASE WalkStay \/ WalkDone \/ WantBots \/ LeaveBots \/ AddingDone
  BY <1>7 DEF WalkStay, WalkDone, WantBots, LeaveBots, AddingDone
<1> QED BY <1>3, <1>4, <1>5, <1>6, <1>7 DEF Think

\* A human who has chosen a character counts as a player and no longer as one
\* who takes a slot.
LEMMA EnteringRests ==
  ASSUME Inv, Settled, EnterGame, Strict, Sum(active) > 0
  PROVE  Settled'
<1>1. PICK place \in IF teamplay THEN Sides ELSE {"Unassigned"} :
        /\ pending[place] > 0
        /\ pending' = [pending EXCEPT ![place] = @ - 1]
        /\ active' = [active EXCEPT ![place] = @ + 1]
  BY DEF EnterGame
<1>2. place \in Places /\ UNCHANGED <<bots, spectators, teamplay>>
  BY DEF Places, Sides, EnterGame
<1>3. active \in Counts /\ pending \in Counts /\ bots \in Counts
  BY DEF Inv, Counted
<1>4. /\ active' \in Counts /\ Sum(active') = Sum(active) + 1
      /\ pending' \in Counts /\ Sum(pending') = Sum(pending) - 1
  BY <1>1, <1>2, <1>3, PlusOne, MinusOne
<1>5. ASSUME NEW side \in Places
      PROVE  Size(side)' = Size(side)
  <2>1. active[side] \in Nat /\ pending[side] \in Nat /\ bots[side] \in Nat
    BY <1>3 DEF Counts
  <2>2. CASE side = place
    BY <1>1, <1>2, <1>3, <2>1, <2>2 DEF Counts, Size
  <2>3. CASE side # place
    BY <1>1, <1>2, <1>3, <2>1, <2>3 DEF Counts, Size
  <2> QED BY <2>2, <2>3
<1>6. TeamsSettled'
  <2>1. /\ Size("Unassigned")' = Size("Unassigned") /\ Size("MI6")' = Size("MI6")
        /\ Size("Janus")' = Size("Janus")
    BY <1>5, PlaceIs
  <2> QED BY <1>2, <2>1 DEF Settled, TeamsSettled, Lead
<1>7. /\ Sum(active) \in Nat /\ Sum(pending) \in Nat /\ Sum(bots) \in Nat
      /\ spectators \in Nat /\ Sum(bots') = Sum(bots)
  BY <1>2, CountedSums DEF Inv
<1>8. Surplus' = Surplus
  <2> DEFINE most == AtMost(Threshold, MaxClients - OpenSlots)
  <2>1. most \in Int
    BY RosterAssumption DEF AtMost, RosterAssumption
  <2>2. BotThreshold = most - SpecCount /\ BotThreshold' = most - SpecCount'
    BY <1>4, <1>7 DEF BotThreshold
  <2>3. SpecCount' = SpecCount - 1 /\ SpecCount \in Nat
    BY <1>2, <1>4, <1>7 DEF SpecCount
  <2> HIDE DEF most
  <2> QED BY <1>4, <1>7, <2>1, <2>2, <2>3 DEF Surplus
<1>9. Clients' = Clients
  BY <1>2, <1>4, <1>7 DEF Clients
<1>10. BotsSettled'
  <2>1. Sum(active') # 0 /\ Sum(active) # 0
    BY <1>4, <1>7
  <2> QED BY <1>7, <1>8, <1>9, <2>1 DEF Settled, BotsSettled
<1> QED BY <1>6, <1>10 DEF Settled

\* What Settles comes to, once it is reached: no walk, balance or count of bots
\* moves anybody on a server where teams and bots are as they should be, until
\* a human does something.  A human who enters the game disturbs it only if
\* it is the first to play, or if the slots of those who watch and choose are
\* not counted (ge_bot_strict_openslot).
THEOREM SettledIsStable == Spec => SettledStays
<1>1. Init => OnItsList
  BY DEF Init, OnItsList, Sides
<1>2. Inv /\ [Next]_vars => Inv' BY StepInv
<1>3. Inv /\ OnItsList /\ [Next]_vars => OnItsList' BY ListKept
<1>4. Inv /\ OnItsList /\ [Next]_vars
        => [(/\ quiet /\ Settled
             /\ EnterGame => Strict /\ Sum(active) > 0) => Settled']_vars
  <2> SUFFICES ASSUME Inv, OnItsList, Next, quiet, Settled,
                      EnterGame => Strict /\ Sum(active) > 0
               PROVE  Settled'
    OBVIOUS
  <2>1. CASE Think BY <2>1, ThinkRests, PeopleKeep
  <2>2. CASE EnterGame BY <2>2, EnteringRests
  <2>3. CASE Commands /\ ~EnterGame
    BY <2>3 DEF Commands, Connect, Disconnect, JoinTeam, LeaveSpectators, Spectate,
                BotCommand, SetTeamplay, BecomeQuiet, Asks
  <2> QED BY <2>1, <2>2, <2>3 DEF Next
<1> QED BY InitInv, <1>1, <1>2, <1>3, <1>4, PTL DEF Spec, SettledStays

=============================================================================
