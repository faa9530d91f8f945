--------------------------- MODULE VoteKickProofs ---------------------------
(***************************************************************************)
(* Proofs about VoteKick, for any number of players, shares and delays: no *)
(* open vote has enough votes already, its count is the number of its      *)
(* voters, and its goal covers the players in the game; and about its      *)
(* history, that as long as everybody who votes is identified, the         *)
(* remembered voters are exactly the players who agreed and are still      *)
(* there, so that a ban has its backers and nobody votes twice.            *)
(***************************************************************************)
EXTENDS VoteKickBackers, FiniteSetTheorems, TLAPS

-----------------------------------------------------------------------------
(***************************************************************************)
(* The goal grows with the number of players.                              *)
(***************************************************************************)
LEMMA GoalType ==
  ASSUME NEW n \in Nat, NEW s \in Nat
  PROVE  Goal(n, s) \in Nat
<1>1. n * s \in Nat
  OBVIOUS
<1> DEFINE m == 2 * n * s + 100
<1>2. m \in Nat
  BY <1>1
<1> HIDE DEF m
<1>3. m \div 200 \in Nat
  BY <1>2
<1>4. QED BY <1>3 DEF Goal, m

LEMMA GoalGrows ==
  ASSUME NEW a \in Nat, NEW b \in Nat, a <= b, NEW s \in Nat
  PROVE  Goal(a, s) <= Goal(b, s)
<1>1. PICK c \in Nat : b = a + c
  <2>1. b - a \in Nat /\ b = a + (b - a)
    OBVIOUS
  <2>2. QED BY <2>1
<1>2. b * s = a * s + c * s /\ a * s \in Nat /\ b * s \in Nat /\ c * s \in Nat
  BY <1>1
<1>3. 2 * a * s = 2 * (a * s) /\ 2 * b * s = 2 * (b * s)
  OBVIOUS
<1>4. ASSUME NEW x \in Nat, NEW y \in Nat, x <= y
      PROVE  (2 * x + 100) \div 200 <= (2 * y + 100) \div 200
  BY <1>4, SMTT(30)
<1>5. a * s <= b * s
  BY <1>2
<1>6. QED BY <1>2, <1>3, <1>4, <1>5 DEF Goal

-----------------------------------------------------------------------------
(***************************************************************************)
(* The invariant.  Between two counts of the players more of them may only *)
(* have connected, so the goal is never above the one of those present.    *)
(***************************************************************************)
GoalWithinPresent == VoteOpen => voteGoal <= Goal(Cardinality(present), share)

Open == NoneOverdue /\ CountIsVoters /\ GoalCoversActive /\ GoalWithinPresent

Inv == TypeOK /\ Open

LEMMA Sizes ==
  ASSUME TypeOK
  PROVE  /\ IsFiniteSet(present) /\ IsFiniteSet(active) /\ IsFiniteSet(voters)
         /\ Cardinality(present) \in Nat /\ Cardinality(active) \in Nat
         /\ Cardinality(active) <= Cardinality(present)
<1>1. IsFiniteSet(present) /\ IsFiniteSet(active)
  BY VoteKickAssumption, FS_Subset DEF TypeOK
<1>2. IsFiniteSet(Players \cup {Unknown})
  BY VoteKickAssumption, FS_AddElement
<1>3. IsFiniteSet(voters)
  BY <1>2, FS_Subset DEF TypeOK
<1>4. QED BY <1>1, <1>3, FS_CardinalityType, FS_Subset DEF TypeOK

\* A count of the votes leaves a vote open only if it has too few of them.
LEMMA Counts ==
  ASSUME NEW t \in Players, NEW count \in Int, NEW goal \in Nat, NEW left \in Int,
         CheckVotekick(t, count, goal, left)
  PROVE  /\ voteCount' = count /\ voteGoal' = goal
         /\ target' \in {t, Nobody} /\ kickTimer' \in Int
         /\ idle' \in {0, idle}
         /\ bans' \in {bans, bans \cup {t}}
         /\ VoteOpen' => count < goal
BY DEF CheckVotekick, CloseVote, VoteOpen

-----------------------------------------------------------------------------
(***************************************************************************)
(* Types.                                                                  *)
(***************************************************************************)
PlayersOK ==
  /\ active \subseteq present /\ present \subseteq Players
  /\ hash \in [Players -> Players \cup {Unknown}] /\ listsUpdated \in BOOLEAN

BallotOK ==
  /\ target \in Players \cup {Nobody}
  /\ voteCount \in Int /\ voteGoal \in Nat
  /\ voters \subseteq Players \cup {Unknown}
  /\ share \in Nat /\ kickTimer \in Int
  /\ idle \in 0 .. 2 * Cooldown /\ bans \subseteq Players

LEMMA InitInv == Init => Inv
<1> SUFFICES ASSUME Init PROVE Inv
  OBVIOUS
<1>1. idle \in 0 .. 2 * Cooldown
  BY VoteKickAssumption DEF Init
<1>2. TypeOK
  <2>1. hash \in [Players -> Players \cup {Unknown}]
    BY DEF Init
  <2>2. /\ active \subseteq present /\ present \subseteq Players
        /\ voters \subseteq Players \cup {Unknown} /\ bans \subseteq Players
    BY DEF Init
  <2>3. /\ voteCount \in Int /\ voteGoal \in Nat /\ share \in Nat /\ kickTimer \in Int
    BY DEF Init
  <2>4. /\ listsUpdated \in BOOLEAN /\ target \in Players \cup {Nobody}
        /\ lastCaller \in Players \cup {Nobody, Gone}
    BY DEF Init
  <2>5. QED BY <1>1, <2>1, <2>2, <2>3, <2>4 DEF TypeOK
<1>3. ~VoteOpen
  BY DEF Init, VoteOpen
<1>4. QED
  BY <1>2, <1>3 DEF Inv, Open, NoneOverdue, CountIsVoters, GoalCoversActive,
                    GoalWithinPresent

LEMMA PlayersStep ==
  ASSUME TypeOK, [Next]_vars
  PROVE  PlayersOK' /\ lastCaller' \in Players \cup {Nobody, Gone}
<1> USE DEF PlayersOK
<1>0. PlayersOK /\ lastCaller \in Players \cup {Nobody, Gone}
  BY DEF TypeOK
<1>1. UNCHANGED players => PlayersOK'
  BY <1>0 DEF players
<1>2. CASE Speech \/ VoteTimeout \/ Tick \/ Rename \/ UNCHANGED vars
  <2>1. UNCHANGED players /\ lastCaller' \in Players \cup {lastCaller}
    BY <1>2 DEF Speech, Vote, CallVote, VoteTimeout, Tick, Rename, vars
  <2>2. QED BY <1>0, <1>1, <2>1
<1>3. CASE Traffic
  <2>1. ASSUME NEW p \in Players, Connect(p)
        PROVE  PlayersOK' /\ lastCaller' \in Players \cup {Nobody, Gone}
    BY <1>0, <2>1 DEF Connect
  <2>2. ASSUME NEW p \in Players, Activate(p) \/ Leave(p)
        PROVE  PlayersOK' /\ lastCaller' \in Players \cup {Nobody, Gone}
    BY <1>0, <2>2 DEF Activate, Leave
  <2>3. QED BY <1>3, <2>1, <2>2 DEF Traffic
<1>4. CASE ListsArrive \/ LevelChange
  BY <1>0, <1>4 DEF ListsArrive, LevelChange
<1>5. CASE \E p \in Players : Identify(p) \/ BanRuns(p)
  BY <1>0, <1>1, <1>5 DEF Identify, BanRuns
<1>6. QED BY <1>2, <1>3, <1>4, <1>5 DEF Next, Server

\* Counting the votes for the target keeps the types of the vote.
LEMMA CountKeepsTypes ==
  ASSUME BallotOK, NEW t \in Players, NEW count \in Int, NEW goal \in Nat,
         NEW left \in Int, CheckVotekick(t, count, goal, left),
         voters' \subseteq Players \cup {Unknown}, share' \in Nat
  PROVE  BallotOK'
<1>1. 0 \in 0 .. 2 * Cooldown
  BY VoteKickAssumption
<1>2. QED BY <1>1, Counts DEF BallotOK

LEMMA BallotStep ==
  ASSUME TypeOK, [Next]_vars
  PROVE  BallotOK'
<1> USE VoteKickAssumption
<1>0. BallotOK /\ hash \in [Players -> Players \cup {Unknown}]
      /\ Cardinality(present) \in Nat
  BY Sizes DEF TypeOK, BallotOK
<1>1. UNCHANGED <<ballot, idle, bans>> => BallotOK'
  BY <1>0 DEF BallotOK, ballot
<1>2. ASSUME NEW p \in Players, NEW t \in Players, NEW percent \in Percents,
             CallVote(p, t, percent)
      PROVE  BallotOK'
  <2>1. percent \in Nat /\ VoteTime \in Int /\ 1 \in Int
    OBVIOUS
  <2>2. Goal(Cardinality(present), percent) \in Nat
    BY <1>0, <2>1, GoalType
  <2>3. voters' \subseteq Players \cup {Unknown} /\ share' \in Nat
    BY <1>0, <1>2, <2>1 DEF CallVote
  <2>4. QED BY <1>0, <1>2, <2>1, <2>2, <2>3, CountKeepsTypes DEF CallVote
<1>3. ASSUME NEW p \in Players, Vote(p)
      PROVE  BallotOK'
  <2> DEFINE count == voteCount + (IF hash[p] \in voters THEN 0 ELSE 1)
  <2>1. /\ target \in Players /\ count \in Int /\ voteGoal \in Nat /\ kickTimer \in Int
    BY <1>0, <1>3 DEF Vote, VoteOpen, BallotOK
  <2>2. voters' \subseteq Players \cup {Unknown} /\ share' \in Nat
    BY <1>0, <1>3 DEF Vote, BallotOK
  <2>3. CheckVotekick(target, count, voteGoal, kickTimer)
    BY <1>3 DEF Vote
  <2> HIDE DEF count
  <2>4. QED BY <1>0, <2>1, <2>2, <2>3, CountKeepsTypes
<1>4. ASSUME NEW p \in Players, Leave(p)
      PROVE  BallotOK'
  <2> DEFINE count == voteCount - (IF hash[p] \in voters THEN 1 ELSE 0)
             goal  == Goal(Cardinality(present) - 1, share)
  <2>1. CASE VoteOpen
    <3>1. Cardinality(present) - 1 \in Nat
      <4>1. p \in present /\ IsFiniteSet(present)
        BY <1>4, Sizes DEF Leave
      <4>2. Cardinality(present) # 0
        BY <4>1, FS_EmptySet
      <4>3. QED BY <1>0, <4>2
    <3>2. goal \in Nat
      BY <1>0, <3>1, GoalType DEF BallotOK
    <3>3. target \in Players /\ count \in Int /\ kickTimer \in Int
      BY <1>0, <2>1 DEF VoteOpen, BallotOK
    <3>4. voters' \subseteq Players \cup {Unknown} /\ share' \in Nat
      BY <1>0, <1>4, <2>1 DEF Leave, BallotOK
    <3>5. CheckVotekick(target, count, goal, kickTimer)
      BY <1>4, <2>1 DEF Leave
    <3> HIDE DEF count, goal
    <3>6. QED BY <1>0, <3>2, <3>3, <3>4, <3>5, CountKeepsTypes
  <2>2. CASE ~VoteOpen
    BY <1>1, <1>4, <2>2 DEF Leave
  <2>3. QED BY <2>1, <2>2
<1>5. ASSUME NEW p \in Players, Activate(p)
      PROVE  BallotOK'
  <2>1. voteGoal' \in Nat
    BY <1>0, <1>5, GoalType DEF Activate, BallotOK
  <2>2. QED BY <1>0, <1>5, <2>1 DEF Activate, BallotOK
<1>6. ASSUME NEW p \in Players, Connect(p) \/ Identify(p) \/ BanRuns(p)
      PROVE  BallotOK'
  BY <1>0, <1>6 DEF Connect, Identify, BanRuns, BallotOK, ballot
<1>7. CASE ListsArrive \/ UNCHANGED vars
  BY <1>1, <1>7 DEF ListsArrive, vars
<1>8. CASE VoteTimeout \/ Rename
  <2>1. target \in Players
    BY <1>0, <1>8 DEF VoteTimeout, VoteDue, VoteOpen, Rename, BallotOK, TypeOK
  <2>2. CloseVote /\ bans' \subseteq Players
    BY <1>0, <1>8, <2>1 DEF VoteTimeout, Rename, BallotOK
  <2>3. 0 \in 0 .. 2 * Cooldown
    OBVIOUS
  <2>4. UNCHANGED <<voteCount, voteGoal, voters, share>>
    BY <1>8 DEF VoteTimeout, Rename
  <2>5. QED BY <1>0, <2>2, <2>3, <2>4 DEF CloseVote, BallotOK
<1>9. CASE Tick
  BY <1>0, <1>9 DEF Tick, BallotOK
<1>10. CASE LevelChange
  <2>1. 2 * Cooldown \in 0 .. 2 * Cooldown
    OBVIOUS
  <2>2. QED BY <1>0, <1>10, <2>1 DEF LevelChange, BallotOK
<1>11. QED
  BY <1>2, <1>3, <1>4, <1>5, <1>6, <1>7, <1>8, <1>9, <1>10
     DEF Next, Speech, Traffic, Server

-----------------------------------------------------------------------------
(***************************************************************************)
(* An open vote.                                                           *)
(***************************************************************************)
\* Closing a vote leaves nothing to show.
LEMMA ClosedIsFine == ~VoteOpen' => Open'
BY DEF Open, NoneOverdue, CountIsVoters, GoalCoversActive, GoalWithinPresent

\* What does not touch the vote, the players in the game or fewer players.
LEMMA UntouchedIsFine ==
  ASSUME TypeOK, Open, UNCHANGED <<target, voteCount, voteGoal, voters, share, active>>,
         IsFiniteSet(present'), present \subseteq present'
  PROVE  Open'
<1>1. CASE VoteOpen
  <2>1. Cardinality(present) <= Cardinality(present')
    BY FS_Subset
  <2>2. Cardinality(present) \in Nat /\ Cardinality(present') \in Nat
    BY Sizes, FS_CardinalityType
  <2>3. share \in Nat /\ voteGoal \in Nat
    BY DEF TypeOK
  <2>4. Goal(Cardinality(present), share) <= Goal(Cardinality(present'), share)
    BY <2>1, <2>2, <2>3, GoalGrows
  <2>5. /\ Goal(Cardinality(present), share) \in Nat
        /\ Goal(Cardinality(present'), share) \in Nat
    BY <2>2, <2>3, GoalType
  <2>6. voteGoal' <= Goal(Cardinality(present'), share')
    BY <1>1, <2>3, <2>4, <2>5 DEF Open, GoalWithinPresent
  <2>7. QED
    BY <2>6 DEF Open, NoneOverdue, CountIsVoters, GoalCoversActive, GoalWithinPresent,
                VoteOpen
<1>2. CASE ~VoteOpen
  BY <1>2, ClosedIsFine DEF VoteOpen
<1>3. QED BY <1>1, <1>2

\* A vote that is counted against the players present, with the right count.
LEMMA CountedIsFine ==
  ASSUME NEW t \in Players, NEW n \in Nat, NEW left \in Int, NEW s \in Nat,
         CheckVotekick(t, Cardinality(voters'), Goal(n, s), left),
         Cardinality(voters') \in Nat,
         share' = s, n = Cardinality(present'),
         IsFiniteSet(present'), active' \subseteq present'
  PROVE  Open'
<1>1. Goal(n, s) \in Nat
  BY GoalType
<1>2. /\ voteCount' = Cardinality(voters') /\ voteGoal' = Goal(n, s)
      /\ VoteOpen' => voteCount' < voteGoal'
  BY <1>1, Counts
<1>3. /\ Cardinality(active') \in Nat /\ Cardinality(active') <= n
  BY FS_Subset, FS_CardinalityType
<1>4. /\ Goal(Cardinality(active'), s) <= Goal(n, s)
      /\ Goal(Cardinality(active'), s) \in Nat
  BY <1>3, GoalGrows, GoalType
<1>5. QED
  BY <1>1, <1>2, <1>4 DEF Open, NoneOverdue, CountIsVoters, GoalCoversActive,
                          GoalWithinPresent

LEMMA OpenStep ==
  ASSUME TypeOK, Open, [Next]_vars
  PROVE  Open'
<1> USE VoteKickAssumption
<1>0. /\ IsFiniteSet(present) /\ IsFiniteSet(voters) /\ Cardinality(present) \in Nat
      /\ hash \in [Players -> Players \cup {Unknown}] /\ share \in Nat
      /\ active \subseteq present /\ kickTimer \in Int
      /\ voteCount \in Int /\ voteGoal \in Nat
  BY Sizes DEF TypeOK
<1>1. ASSUME NEW p \in Players, NEW t \in Players, NEW percent \in Percents,
             CallVote(p, t, percent)
      PROVE  Open'
  <2>1. voters' = {hash[p]} /\ share' = percent /\ UNCHANGED <<present, active>>
    BY <1>1 DEF CallVote, players
  <2>2. Cardinality(voters') = 1
    BY <2>1, FS_Singleton
  <2>3. CheckVotekick(t, Cardinality(voters'), Goal(Cardinality(present), percent),
                      VoteTime)
    BY <1>1, <2>2 DEF CallVote
  <2>4. percent \in Nat /\ VoteTime \in Int
    OBVIOUS
  <2>5. QED BY <1>0, <2>1, <2>2, <2>3, <2>4, CountedIsFine
<1>2. ASSUME NEW p \in Players, Vote(p)
      PROVE  Open'
  <2>1. voters' = voters \cup {hash[p]} /\ UNCHANGED <<present, active, share>>
    BY <1>2 DEF Vote, players
  <2>2. Cardinality(voters') = Cardinality(voters) + (IF hash[p] \in voters THEN 0 ELSE 1)
    BY <1>0, <2>1, FS_AddElement, FS_CardinalityType
  <2>3. VoteOpen /\ voteCount = Cardinality(voters) /\ target \in Players
    BY <1>2 DEF Vote, Open, CountIsVoters, VoteOpen, TypeOK
  <2>4. CheckVotekick(target, Cardinality(voters'), voteGoal, kickTimer)
    BY <1>2, <2>2, <2>3 DEF Vote
  <2>5. Cardinality(voters') \in Int
    BY <1>0, <2>1, FS_AddElement, FS_CardinalityType
  <2>6. /\ voteCount' = Cardinality(voters') /\ voteGoal' = voteGoal
        /\ VoteOpen' => voteCount' < voteGoal'
    BY <1>0, <2>3, <2>4, <2>5, Counts
  <2>7. QED
    BY <2>1, <2>3, <2>6 DEF Open, NoneOverdue, CountIsVoters, GoalCoversActive,
                            GoalWithinPresent
<1>3. ASSUME NEW p \in Players, Leave(p)
      PROVE  Open'
  <2>1. CASE VoteOpen
    <3>1. /\ p \in present /\ voters' = voters \ {hash[p]} /\ share' = share
          /\ present' = present \ {p} /\ active' = active \ {p}
      BY <1>3, <2>1 DEF Leave
    <3>2. /\ Cardinality(voters')
              = Cardinality(voters) - (IF hash[p] \in voters THEN 1 ELSE 0)
          /\ Cardinality(voters') \in Nat
      BY <1>0, <3>1, FS_RemoveElement, FS_CardinalityType
    <3>3. voteCount = Cardinality(voters) /\ target \in Players
      BY <2>1 DEF Open, CountIsVoters, VoteOpen, TypeOK
    <3>4. /\ IsFiniteSet(present') /\ Cardinality(present') \in Nat
          /\ Cardinality(present') = Cardinality(present) - 1
      BY <1>0, <3>1, FS_RemoveElement, FS_CardinalityType
    <3>5. CheckVotekick(target, Cardinality(voters'), Goal(Cardinality(present'), share),
                        kickTimer)
      BY <1>3, <2>1, <3>2, <3>3, <3>4 DEF Leave
    <3>6. active' \subseteq present'
      BY <1>0, <3>1
    <3>7. QED BY <1>0, <3>1, <3>2, <3>3, <3>4, <3>5, <3>6, CountedIsFine
  <2>2. CASE ~VoteOpen
    BY <1>3, <2>2, ClosedIsFine DEF Leave, ballot, VoteOpen
  <2>3. QED BY <2>1, <2>2
<1>4. ASSUME NEW p \in Players, Activate(p)
      PROVE  Open'
  <2>1. CASE VoteOpen
    <3>1. /\ voteGoal' = Goal(Cardinality(present), share) /\ present' = present
          /\ active' = active \cup {p} /\ p \in present
          /\ UNCHANGED <<target, voteCount, voters, share>>
      BY <1>4, <2>1 DEF Activate
    <3>2. voteGoal' \in Nat /\ voteGoal <= voteGoal' /\ voteCount < voteGoal
      BY <1>0, <2>1, <3>1, GoalType DEF Open, GoalWithinPresent, NoneOverdue
    <3>3. Cardinality(active') \in Nat /\ Cardinality(active') <= Cardinality(present)
      BY <1>0, <3>1, FS_Subset, FS_CardinalityType
    <3>4. /\ Goal(Cardinality(active'), share) <= voteGoal'
          /\ Goal(Cardinality(active'), share) \in Nat
      BY <1>0, <3>1, <3>3, GoalGrows, GoalType
    <3>5. voteCount' < voteGoal'
      BY <1>0, <3>1, <3>2
    <3>6. QED
      BY <2>1, <3>1, <3>2, <3>4, <3>5 DEF Open, NoneOverdue, CountIsVoters,
                                         GoalCoversActive, GoalWithinPresent
  <2>2. CASE ~VoteOpen
    BY <1>4, <2>2, ClosedIsFine DEF Activate, VoteOpen
  <2>3. QED BY <2>1, <2>2
<1>5. ASSUME NEW p \in Players, Connect(p)
      PROVE  Open'
  <2>1. /\ present' = present \cup {p} /\ IsFiniteSet(present')
        /\ UNCHANGED <<target, voteCount, voteGoal, voters, share, active>>
    BY <1>0, <1>5, FS_AddElement DEF Connect, ballot
  <2>2. QED BY <2>1, UntouchedIsFine
<1>6. ASSUME NEW p \in Players, Identify(p) \/ BanRuns(p)
      PROVE  Open'
  <2>1. UNCHANGED <<target, voteCount, voteGoal, voters, share, active, present>>
    BY <1>6 DEF Identify, BanRuns, ballot, players
  <2>2. QED BY <1>0, <2>1, UntouchedIsFine
<1>7. CASE ListsArrive \/ Tick \/ UNCHANGED vars
  <2>1. UNCHANGED <<target, voteCount, voteGoal, voters, share, active, present>>
    BY <1>7 DEF ListsArrive, Tick, vars, ballot, players
  <2>2. QED BY <1>0, <2>1, UntouchedIsFine
<1>8. CASE VoteTimeout \/ Rename \/ LevelChange
  BY <1>8, ClosedIsFine DEF VoteTimeout, Rename, LevelChange, CloseVote, VoteOpen
<1>9. QED
  BY <1>1, <1>2, <1>3, <1>4, <1>5, <1>6, <1>7, <1>8 DEF Next, Speech, Traffic, Server

LEMMA Invariance == Spec => []Inv
<1>1. ASSUME Inv, [Next]_vars
      PROVE  Inv'
  <2>1. TypeOK /\ Open
    BY <1>1 DEF Inv
  <2>2. PlayersOK' /\ BallotOK' /\ lastCaller' \in Players \cup {Nobody, Gone}
    BY <1>1, <2>1, PlayersStep, BallotStep
  <2>3. TypeOK'
    BY <2>2 DEF PlayersOK, BallotOK, TypeOK
  <2>4. QED BY <1>1, <2>1, <2>3, OpenStep DEF Inv
<1>2. QED BY <1>1, InitInv, PTL DEF Spec

(***************************************************************************)
(* The variables keep their types, for any number of players.              *)
(***************************************************************************)
THEOREM VoteKickTypeOK == Spec => []TypeOK
<1>1. Inv => TypeOK
  BY DEF Inv
<1>2. QED BY <1>1, Invariance, PTL

(***************************************************************************)
(* No vote is open that has enough votes, for any number of players and    *)
(* any shares.                                                             *)
(***************************************************************************)
THEOREM NoVoteOverdue == Spec => []NoneOverdue
<1>1. Inv => NoneOverdue
  BY DEF Inv, Open
<1>2. QED BY <1>1, Invariance, PTL

(***************************************************************************)
(* The count of an open vote is the number of its voters.                  *)
(***************************************************************************)
THEOREM VotesAreVoters == Spec => []CountIsVoters
<1>1. Inv => CountIsVoters
  BY DEF Inv, Open
<1>2. QED BY <1>1, Invariance, PTL

(***************************************************************************)
(* The goal of an open vote is the share of all players in the game, or    *)
(* more.                                                                   *)
(***************************************************************************)
THEOREM GoalIsEnough == Spec => []GoalCoversActive
<1>1. Inv => GoalCoversActive
  BY DEF Inv, Open
<1>2. QED BY <1>1, Invariance, PTL

-----------------------------------------------------------------------------
(***************************************************************************)
(* What VotesEnd rests on.  An open vote is never more than its time from  *)
(* its end, and as long as it is open nothing puts its end off, turns it   *)
(* on another player or changes the share it needs: neither a vote nor a   *)
(* player who joins, leaves or is identified; every tick brings the end    *)
(* closer.                                                                 *)
(***************************************************************************)
TimeLeft == VoteOpen => kickTimer \in -1 .. VoteTime

VoteStands ==
  VoteOpen /\ VoteOpen'
    => /\ target' = target /\ share' = share /\ kickTimer' <= kickTimer
       /\ Tick => kickTimer' < kickTimer

OpenVoteStands == [][VoteStands]_vars

\* One counting: the vote is closed, or goes on as it was.
LEMMA CountingStands ==
  ASSUME NEW t, NEW count, NEW goal, NEW left, CheckVotekick(t, count, goal, left)
  PROVE  VoteOpen' => target' = t /\ kickTimer' = left
BY DEF CheckVotekick, CloseVote, VoteOpen

\* How each step leaves a vote that is open after it.
LEMMA TimeStep ==
  ASSUME TypeOK, [Next]_vars, VoteOpen'
  PROVE  \/ ~VoteOpen /\ kickTimer' = VoteTime
         \/ /\ VoteOpen /\ ~Tick
            /\ target' = target /\ share' = share /\ kickTimer' = kickTimer
         \/ /\ VoteOpen /\ kickTimer >= 0
            /\ target' = target /\ share' = share /\ kickTimer' = kickTimer - 1
<1> DEFINE Stands == target' = target /\ share' = share /\ kickTimer' = kickTimer
<1>0. kickTimer \in Int
  BY DEF TypeOK
<1>1. ASSUME NEW p \in Players, NEW t \in Players, NEW percent \in Percents,
             CallVote(p, t, percent)
      PROVE  ~VoteOpen /\ kickTimer' = VoteTime
  <2>1. CheckVotekick(t, 1, Goal(Cardinality(present), percent), VoteTime) /\ ~VoteOpen
    BY <1>1 DEF CallVote, MayCall
  <2>2. QED BY <2>1, CountingStands
<1>2. ASSUME NEW p \in Players, Vote(p)
      PROVE  VoteOpen /\ Stands
  <2>1. /\ VoteOpen /\ share' = share
        /\ CheckVotekick(target, voteCount + (IF hash[p] \in voters THEN 0 ELSE 1),
                         voteGoal, kickTimer)
    BY <1>2 DEF Vote
  <2>2. QED BY <2>1, CountingStands
<1>3. ASSUME NEW p \in Players, Leave(p)
      PROVE  VoteOpen /\ Stands
  <2>1. VoteOpen
    BY <1>3 DEF Leave, ballot, VoteOpen
  <2>2. /\ share' = share
        /\ CheckVotekick(target, voteCount - (IF hash[p] \in voters THEN 1 ELSE 0),
                         Goal(Cardinality(present) - 1, share), kickTimer)
    BY <1>3, <2>1 DEF Leave
  <2>3. QED BY <2>1, <2>2, CountingStands
<1>4. ASSUME NEW p \in Players, Connect(p) \/ Activate(p) \/ Identify(p) \/ BanRuns(p)
      PROVE  VoteOpen /\ Stands
  BY <1>4 DEF Connect, Activate, Identify, BanRuns, ballot, VoteOpen
<1>5. ListsArrive \/ UNCHANGED vars => VoteOpen /\ Stands
  BY DEF ListsArrive, vars, ballot, VoteOpen
<1>6. ~VoteTimeout /\ ~Rename /\ ~LevelChange
  BY DEF VoteTimeout, Rename, LevelChange, CloseVote, VoteOpen
<1>7. Tick => /\ VoteOpen /\ kickTimer >= 0
              /\ target' = target /\ share' = share /\ kickTimer' = kickTimer - 1
  BY <1>0 DEF Tick, VoteDue, VoteOpen
<1>8. VoteOpen /\ Stands => ~Tick
  BY <1>0, <1>7
<1>9. QED
  BY <1>1, <1>2, <1>3, <1>4, <1>5, <1>6, <1>7, <1>8 DEF Next, Speech, Traffic, Server

(***************************************************************************)
(* An open vote keeps its target and its share, and its end comes closer,  *)
(* for any number of players: no vote outlives its time.                   *)
(***************************************************************************)
THEOREM VoteIsInTime == Spec => []TimeLeft /\ OpenVoteStands
<1>0. VoteTime \in Nat
  BY VoteKickAssumption
<1>1. Init => TimeLeft
  BY DEF Init, TimeLeft, VoteOpen
<1>2. Inv => TypeOK
  BY DEF Inv
<1>3. ASSUME TypeOK, TimeLeft, [Next]_vars
      PROVE  TimeLeft' /\ VoteStands
  <2>1. kickTimer \in Int
    BY <1>3 DEF TypeOK
  <2>2. QED BY <1>0, <1>3, <2>1, TimeStep DEF TimeLeft, VoteStands
<1>4. TypeOK /\ TimeLeft /\ [Next]_vars => TimeLeft' /\ [VoteStands]_vars
  BY <1>3
<1>5. QED BY <1>1, <1>2, <1>4, Invariance, PTL DEF Spec, OpenVoteStands

-----------------------------------------------------------------------------
(***************************************************************************)
(* The invariant.  Between identified players and hashes there is no       *)
(* difference, so the voters are the backers.                              *)
(***************************************************************************)
OwnHash == \A p \in Players : hash[p] \in {p, Unknown}

Identified == \A b \in backers : hash[b] = b

HistoryOK == backers \subseteq present /\ anonymous \in BOOLEAN

VotersAreBackers == VoteOpen /\ ~anonymous => voters = backers /\ Identified

HInv == Inv /\ OwnHash /\ HistoryOK /\ VotersAreBackers

LEMMA HStepIsStep == [HNext]_histVars => [Next]_vars
<1>1. (\E p \in Players : Counted(p)) => Speech
  BY DEF Counted, Speech
<1>2. (\E p \in Players : Leave(p)) => Traffic
  BY DEF Traffic
<1>3. (\E p \in Players : Connect(p) \/ Activate(p)) => Traffic
  BY DEF Traffic
<1>4. QED BY <1>1, <1>2, <1>3 DEF HNext, Next, histVars

LEMMA InvStep == Inv /\ [Next]_vars => Inv'
<1> SUFFICES ASSUME Inv, [Next]_vars PROVE Inv'
  OBVIOUS
<1>1. TypeOK /\ Open
  BY DEF Inv
<1>2. PlayersOK' /\ BallotOK' /\ lastCaller' \in Players \cup {Nobody, Gone}
  BY <1>1, PlayersStep, BallotStep
<1>3. TypeOK'
  BY <1>2 DEF PlayersOK, BallotOK, TypeOK
<1>4. QED BY <1>1, <1>3, OpenStep DEF Inv

LEMMA InitHInv == HInit => HInv
<1> SUFFICES ASSUME HInit PROVE HInv
  OBVIOUS
<1>1. Inv
  BY InitInv DEF HInit
<1>2. OwnHash /\ HistoryOK /\ ~VoteOpen
  BY DEF HInit, Init, OwnHash, HistoryOK, VoteOpen
<1>3. QED BY <1>1, <1>2 DEF HInv, VotersAreBackers

-----------------------------------------------------------------------------
(***************************************************************************)
(* Hashes and backers.                                                     *)
(***************************************************************************)
LEMMA OwnHashStep ==
  ASSUME TypeOK, OwnHash, [Next]_vars
  PROVE  OwnHash'
<1> USE DEF OwnHash
<1>0. hash \in [Players -> Players \cup {Unknown}]
  BY DEF TypeOK
<1>1. CASE UNCHANGED hash
  BY <1>1
<1>2. ASSUME NEW p \in Players, Connect(p) \/ Identify(p)
      PROVE  OwnHash'
  BY <1>0, <1>2 DEF Connect, Identify
<1>3. CASE LevelChange
  BY <1>3 DEF LevelChange
<1>4. CASE Speech \/ Rename \/ ListsArrive \/ VoteTimeout \/ Tick \/ UNCHANGED vars
  BY <1>1, <1>4 DEF Speech, Vote, CallVote, Rename, ListsArrive, VoteTimeout, Tick,
                    vars, players
<1>5. ASSUME NEW p \in Players, Activate(p) \/ Leave(p) \/ BanRuns(p)
      PROVE  OwnHash'
  BY <1>1, <1>5 DEF Activate, Leave, BanRuns, players
<1>6. QED BY <1>2, <1>3, <1>4, <1>5 DEF Next, Traffic, Server

LEMMA HistoryStep ==
  ASSUME TypeOK, HistoryOK, [HNext]_histVars
  PROVE  HistoryOK'
<1> USE DEF HistoryOK
<1>0. active \subseteq present
  BY DEF TypeOK
<1>1. ASSUME NEW p \in Players, Counted(p)
      PROVE  HistoryOK'
  <2>1. p \in active /\ UNCHANGED present
    BY <1>1 DEF Counted, CallVote, Vote, players
  <2>2. backers' \in {{p}, backers, backers \cup {p}} /\ anonymous' \in BOOLEAN
    BY <1>1 DEF Counted
  <2>3. QED BY <1>0, <2>1, <2>2
<1>2. ASSUME NEW p \in Players, Leave(p), backers' = backers \ {p}, UNCHANGED anonymous
      PROVE  HistoryOK'
  BY <1>2 DEF Leave
<1>3. ASSUME UNCHANGED <<backers, anonymous>>, present \subseteq present'
      PROVE  HistoryOK'
  BY <1>3
<1>4. Server \/ Rename => UNCHANGED present
  BY DEF Server, ListsArrive, VoteTimeout, Tick, Identify, BanRuns, Rename, players
<1>5. (\E p \in Players : Connect(p) \/ Activate(p)) => present \subseteq present'
  BY DEF Connect, Activate
<1>6. CASE LevelChange /\ backers' = {} /\ anonymous' = FALSE
  BY <1>6
<1>7. CASE UNCHANGED histVars
  BY <1>3, <1>7 DEF histVars, vars, players
<1>8. QED BY <1>1, <1>2, <1>3, <1>4, <1>5, <1>6, <1>7 DEF HNext

-----------------------------------------------------------------------------
(***************************************************************************)
(* The voters are the backers.                                             *)
(***************************************************************************)
\* A step after which the vote is closed, or that changes none of it.
LEMMA QuietStep ==
  ASSUME VotersAreBackers, UNCHANGED <<backers, anonymous, voters>>,
         VoteOpen' => VoteOpen, \A b \in backers : hash'[b] = hash[b]
  PROVE  VotersAreBackers'
BY DEF VotersAreBackers, Identified

\* The vote of p is counted.
LEMMA CountedStep ==
  ASSUME TypeOK, OwnHash, VotersAreBackers, NEW p \in Players, Counted(p)
  PROVE  VotersAreBackers'
<1> SUFFICES ASSUME VoteOpen', ~anonymous' PROVE voters' = backers' /\ Identified'
  BY DEF VotersAreBackers
<1>1. UNCHANGED hash
  BY DEF Counted, CallVote, Vote, players
<1>2. hash[p] = p
  BY DEF Counted, OwnHash
<1>3. CASE \E t \in Players, percent \in Percents : CallVote(p, t, percent)
             /\ backers' = {p}
  <2>1. voters' = {p} /\ backers' = {p}
    BY <1>2, <1>3 DEF CallVote
  <2>2. QED BY <1>1, <1>2, <2>1 DEF Identified
<1>4. CASE /\ Vote(p)
           /\ backers' = IF hash[p] \in voters THEN backers ELSE backers \cup {p}
           /\ anonymous' = (anonymous \/ hash[p] = Unknown)
  <2>1. voters = backers /\ Identified
    BY <1>4 DEF Vote, VotersAreBackers
  <2>2. voters' = voters \cup {p}
    BY <1>2, <1>4 DEF Vote
  <2>3. QED BY <1>1, <1>2, <1>4, <2>1, <2>2 DEF Identified
<1>5. QED BY <1>3, <1>4 DEF Counted

\* p leaves, with the vote.
LEMMA LeaveStep ==
  ASSUME TypeOK, OwnHash, HistoryOK, VotersAreBackers, NEW p \in Players, Leave(p),
         backers' = backers \ {p}, UNCHANGED anonymous
  PROVE  VotersAreBackers'
<1> SUFFICES ASSUME VoteOpen', ~anonymous' PROVE voters' = backers' /\ Identified'
  BY DEF VotersAreBackers
<1>1. VoteOpen
  BY DEF Leave, VoteOpen, ballot
<1>2. voters = backers /\ Identified
  BY <1>1 DEF VotersAreBackers
<1>3. voters' = voters \ {hash[p]} /\ UNCHANGED hash
  BY <1>1 DEF Leave
<1>4. hash[p] \in {p, Unknown} /\ (p \in backers => hash[p] = p)
  BY <1>2 DEF OwnHash, Identified
<1>5. Unknown \notin backers
  BY VoteKickAssumption DEF HistoryOK, TypeOK
<1>6. QED BY <1>2, <1>3, <1>4, <1>5 DEF Identified

LEMMA BackersStep ==
  ASSUME HInv, [HNext]_histVars
  PROVE  VotersAreBackers'
<1>0. TypeOK /\ OwnHash /\ HistoryOK /\ VotersAreBackers
  BY DEF HInv, Inv
<1>1. ASSUME NEW p \in Players, Counted(p)
      PROVE  VotersAreBackers'
  BY <1>0, <1>1, CountedStep
<1>2. ASSUME NEW p \in Players, Leave(p), backers' = backers \ {p}, UNCHANGED anonymous
      PROVE  VotersAreBackers'
  BY <1>0, <1>2, LeaveStep
<1>3. ASSUME UNCHANGED <<backers, anonymous>>, UNCHANGED <<ballot, hash>>
      PROVE  VotersAreBackers'
  BY <1>0, <1>3, QuietStep DEF ballot, VoteOpen
<1>4. ASSUME UNCHANGED <<backers, anonymous>>, NEW p \in Players, Connect(p) \/ Identify(p)
      PROVE  VotersAreBackers'
  <2>1. UNCHANGED voters /\ (VoteOpen' => VoteOpen)
    BY <1>4 DEF Connect, Identify, ballot, VoteOpen
  <2>2. CASE VoteOpen /\ ~anonymous
    <3>1. \A b \in backers : hash[b] = b /\ b \in present /\ b # Unknown
      BY <1>0, <2>2, VoteKickAssumption DEF VotersAreBackers, Identified, HistoryOK, TypeOK
    <3>2. p \notin backers
      BY <1>4, <3>1 DEF Connect, Identify
    <3>3. \A b \in backers : hash'[b] = hash[b]
      BY <1>0, <1>4, <3>2 DEF Connect, Identify, TypeOK, HistoryOK
    <3>4. QED BY <1>0, <1>4, <2>1, <3>3, QuietStep
  <2>3. CASE ~(VoteOpen /\ ~anonymous)
    BY <1>4, <2>1, <2>3 DEF VotersAreBackers
  <2>4. QED BY <2>2, <2>3
<1>5. ASSUME UNCHANGED <<backers, anonymous>>, NEW p \in Players, Activate(p) \/ BanRuns(p)
      PROVE  VotersAreBackers'
  <2>1. UNCHANGED <<voters, hash, target>>
    BY <1>5 DEF Activate, BanRuns, ballot, players
  <2>2. QED BY <1>0, <1>5, <2>1, QuietStep DEF VoteOpen
<1>6. ASSUME UNCHANGED <<backers, anonymous>>, ListsArrive \/ Tick \/ VoteTimeout \/ Rename
      PROVE  VotersAreBackers'
  <2>1. UNCHANGED <<voters, hash>> /\ target' \in {target, Nobody}
    BY <1>6 DEF ListsArrive, Tick, VoteTimeout, Rename, CloseVote, ballot, players
  <2>2. QED BY <1>0, <1>6, <2>1, QuietStep DEF VoteOpen
<1>7. CASE LevelChange
  BY <1>7 DEF LevelChange, VotersAreBackers, VoteOpen
<1>8. CASE UNCHANGED histVars
  BY <1>3, <1>8 DEF histVars, vars, players
<1>9. QED BY <1>1, <1>2, <1>4, <1>5, <1>6, <1>7, <1>8 DEF HNext, Server

LEMMA HInvariance == HSpec => []HInv
<1>1. ASSUME HInv, [HNext]_histVars
      PROVE  HInv'
  <2>1. Inv /\ TypeOK /\ OwnHash /\ HistoryOK /\ [Next]_vars
    BY <1>1, HStepIsStep DEF HInv, Inv
  <2>2. QED
    BY <1>1, <2>1, InvStep, OwnHashStep, HistoryStep, BackersStep DEF HInv
<1>2. QED BY <1>1, InitHInv, PTL DEF HSpec

-----------------------------------------------------------------------------
(***************************************************************************)
(* Bans.                                                                   *)
(***************************************************************************)
\* A vote that bans somebody has its goal, which covers the players in the game.
LEMMA CallBans ==
  ASSUME Inv, NEW p \in Players, NEW t \in Players, NEW percent \in Percents,
         CallVote(p, t, percent), bans' # bans, backers' = {p}
  PROVE  Cardinality(backers') >= Goal(Cardinality(active'), share')
<1> USE VoteKickAssumption
<1>1. TypeOK
  BY DEF Inv
<1>2. /\ Cardinality(active) \in Nat /\ Cardinality(present) \in Nat
      /\ Cardinality(active) <= Cardinality(present)
  BY <1>1, Sizes
<1>3. /\ Goal(Cardinality(active), percent) <= Goal(Cardinality(present), percent)
      /\ Goal(Cardinality(active), percent) \in Nat
      /\ Goal(Cardinality(present), percent) \in Nat
  BY <1>2, GoalGrows, GoalType
<1>4. 1 >= Goal(Cardinality(present), percent)
  BY DEF CallVote, CheckVotekick
<1>5. Cardinality(backers') = 1
  BY FS_Singleton
<1>6. share' = percent /\ active' = active
  BY DEF CallVote, players
<1>7. QED BY <1>3, <1>4, <1>5, <1>6

LEMMA VoteBans ==
  ASSUME HInv, NEW p \in Players, Vote(p), Counted(p), bans' # bans, ~anonymous'
  PROVE  Cardinality(backers') >= Goal(Cardinality(active'), share')
<1> USE VoteKickAssumption
<1>0. Inv /\ TypeOK /\ OwnHash /\ HistoryOK /\ VotersAreBackers /\ VoteOpen
  BY DEF HInv, Inv, Vote
<1>1. ~MayCall(p)
  BY <1>0 DEF MayCall
<1>2. /\ backers' = IF hash[p] \in voters THEN backers ELSE backers \cup {p}
      /\ ~anonymous /\ hash[p] # Unknown
  BY <1>1 DEF Counted, CallVote
<1>3. voters = backers /\ hash[p] = p
  BY <1>0, <1>2 DEF VotersAreBackers, OwnHash
<1>4. backers' = voters \cup {p}
  BY <1>2, <1>3
<1>5. IsFiniteSet(voters) /\ voteCount = Cardinality(voters) /\ voteCount \in Int
  BY <1>0, Sizes DEF Inv, Open, CountIsVoters, TypeOK
<1>6. Cardinality(backers') = voteCount + (IF hash[p] \in voters THEN 0 ELSE 1)
  BY <1>3, <1>4, <1>5, FS_AddElement, FS_CardinalityType
<1>7. Cardinality(backers') >= voteGoal
  BY <1>6 DEF Vote, CheckVotekick
<1>8. /\ voteGoal >= Goal(Cardinality(active), share) /\ voteGoal \in Nat
      /\ Goal(Cardinality(active), share) \in Nat
  BY <1>0, Sizes, GoalType DEF Inv, Open, GoalCoversActive, TypeOK
<1>9. active' = active /\ share' = share
  BY DEF Vote, players
<1>10. Cardinality(backers') \in Int
  BY <1>5, <1>6
<1>11. QED BY <1>7, <1>8, <1>9, <1>10

LEMMA LeaveBans ==
  ASSUME HInv, HInv', NEW p \in Players, Leave(p), backers' = backers \ {p},
         UNCHANGED anonymous, bans' # bans, ~anonymous'
  PROVE  Cardinality(backers') >= Goal(Cardinality(active'), share')
<1> USE VoteKickAssumption
<1>0. TypeOK /\ OwnHash /\ HistoryOK /\ VotersAreBackers /\ TypeOK'
  BY DEF HInv, Inv
<1>1. VoteOpen
  BY DEF Leave
<1>2. voters = backers /\ Identified /\ Unknown \notin backers
  BY <1>0, <1>1 DEF VotersAreBackers, HistoryOK, TypeOK
<1>3. hash[p] \in {p, Unknown} /\ (p \in backers => hash[p] = p)
  BY <1>0, <1>2 DEF OwnHash, Identified
<1>4. backers' = voters \ {hash[p]}
  BY <1>2, <1>3
<1>5. IsFiniteSet(voters) /\ voteCount = Cardinality(voters) /\ voteCount \in Int
  BY <1>0, <1>1, Sizes DEF HInv, Inv, Open, CountIsVoters, TypeOK
<1>6. Cardinality(backers') = voteCount - (IF hash[p] \in voters THEN 1 ELSE 0)
  <2>1. CASE hash[p] \in voters
    BY <1>4, <1>5, <2>1, FS_RemoveElement
  <2>2. CASE hash[p] \notin voters
    <3>1. backers' = voters
      BY <1>4, <2>2
    <3>2. Cardinality(backers') = Cardinality(voters)
      BY <3>1, Zenon
    <3>3. QED BY <1>5, <2>2, <3>2
  <2>3. QED BY <2>1, <2>2
<1>7. Cardinality(backers') >= Goal(Cardinality(present) - 1, share)
  BY <1>1, <1>6 DEF Leave, CheckVotekick
<1>8. Cardinality(present') = Cardinality(present) - 1
  BY <1>0, Sizes, FS_RemoveElement DEF Leave
<1>9. /\ Cardinality(active') \in Nat /\ Cardinality(present') \in Nat
      /\ Cardinality(active') <= Cardinality(present')
  <2>1. /\ IsFiniteSet(present') /\ active' \subseteq present'
    BY <1>0, Sizes, FS_Subset DEF Leave, TypeOK
  <2>2. QED BY <2>1, FS_Subset, FS_CardinalityType
<1>10. share' = share /\ share \in Nat
  BY <1>0, <1>1 DEF Leave, TypeOK
<1>11. /\ Goal(Cardinality(active'), share) <= Goal(Cardinality(present'), share)
       /\ Goal(Cardinality(active'), share) \in Nat
       /\ Goal(Cardinality(present'), share) \in Nat
  BY <1>9, <1>10, GoalGrows, GoalType
<1>12. Cardinality(backers') \in Int
  BY <1>5, <1>6
<1>13. QED BY <1>7, <1>8, <1>10, <1>11, <1>12

(***************************************************************************)
(* Among identified players a vote bans somebody only if enough players    *)
(* that are still there agreed, for any number of players and any shares.  *)
(***************************************************************************)
THEOREM EveryBanIsBacked == HSpec => BansAreBacked
<1> DEFINE Backed == bans' \ bans # {} /\ ~Rename /\ ~anonymous' =>
                       Cardinality(backers') >= Goal(Cardinality(active'), share')
<1>1. ASSUME HInv, HInv', [HNext]_histVars
      PROVE  [Backed]_histVars
  <2> SUFFICES ASSUME bans' \ bans # {}, ~Rename, ~anonymous'
               PROVE  Cardinality(backers') >= Goal(Cardinality(active'), share')
    OBVIOUS
  <2>0. Inv /\ Open /\ bans' # bans
    BY <1>1 DEF HInv, Inv
  <2>1. ASSUME NEW p \in Players, Counted(p)
        PROVE  Cardinality(backers') >= Goal(Cardinality(active'), share')
    <3>1. CASE Vote(p)
      BY <1>1, <2>0, <2>1, <3>1, VoteBans
    <3>2. CASE ~Vote(p)
      BY <2>0, <2>1, <3>2, CallBans DEF Counted
    <3>3. QED BY <3>1, <3>2
  <2>2. ASSUME NEW p \in Players, Leave(p), backers' = backers \ {p}, UNCHANGED anonymous
        PROVE  Cardinality(backers') >= Goal(Cardinality(active'), share')
    BY <1>1, <2>0, <2>2, LeaveBans
  <2>3. ~VoteTimeout
    <3>1. VoteTimeout => voteCount >= voteGoal /\ VoteOpen
      BY <2>0 DEF VoteTimeout, VoteDue
    <3>2. voteCount \in Int /\ voteGoal \in Int
      BY <2>0 DEF Inv, TypeOK
    <3>3. QED BY <2>0, <3>1, <3>2 DEF Open, NoneOverdue
  <2>4. ~ListsArrive /\ ~Tick /\ ~LevelChange
    BY <2>0 DEF ListsArrive, Tick, LevelChange
  <2>5. \A p \in Players : ~Connect(p) /\ ~Activate(p) /\ ~Identify(p) /\ ~BanRuns(p)
    BY DEF Connect, Activate, Identify, BanRuns
  <2>6. ~UNCHANGED histVars
    BY <2>0 DEF histVars, vars
  <2>7. QED BY <1>1, <2>1, <2>2, <2>3, <2>4, <2>5, <2>6 DEF HNext, Server
<1>2. QED BY <1>1, HInvariance, PTL DEF HSpec, BansAreBacked

(***************************************************************************)
(* Among identified players nobody's vote counts twice: the voters that    *)
(* are remembered are those who agreed and are still there.                *)
(***************************************************************************)
THEOREM IdentifiedPlayersVoteOnce == HSpec => IdentifiedVoteOnce
<1> DEFINE Once == \A p \in backers : Vote(p) /\ ~anonymous => voteCount' = voteCount
<1>1. ASSUME HInv, [HNext]_histVars
      PROVE  [Once]_histVars
  <2> SUFFICES ASSUME NEW p \in backers, Vote(p), ~anonymous
               PROVE  voteCount' = voteCount
    OBVIOUS
  <2>1. VoteOpen /\ VotersAreBackers /\ voteCount \in Int
    BY <1>1 DEF Vote, HInv, Inv, TypeOK
  <2>2. hash[p] = p /\ p \in voters
    BY <2>1 DEF VotersAreBackers, Identified
  <2>3. voteCount' = voteCount + 0
    BY <2>2 DEF Vote, CheckVotekick
  <2>4. QED BY <2>1, <2>3
<1>2. QED BY <1>1, HInvariance, PTL DEF HSpec, IdentifiedVoteOnce

=============================================================================
