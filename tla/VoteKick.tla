------------------------------ MODULE VoteKick ------------------------------
(***************************************************************************)
(* The vote kick of CGEMPRules and CGERules (shared/ges): a player calls a *)
(* vote on another one with !gevotekick, others agree with !voodoo, and    *)
(* the vote is counted again whenever somebody votes, joins or leaves and  *)
(* when its time is up.                                                    *)
(*                                                                         *)
(* A voter is remembered by the hash of a Steam ID, which a player gets    *)
(* only after the status lists were downloaded for this level; until then  *)
(* it is zero, here Unknown.  Different players have different hashes.     *)
(* The ban is a command the engine runs later.                             *)
(***************************************************************************)
EXTENDS Integers, FiniteSets

CONSTANTS
  Players,      \* those who may connect
  Bots,         \* the bots among them: they have no Steam ID and do not speak
  Unknown,      \* the hash of a player who was not identified yet
  Nobody,       \* NULLID, and the NULL caller
  Gone,         \* the caller's pointer once the player it pointed to is deleted
  Percents,     \* shares a caller may need, by status and threshold
  MinPlayers,   \* 4
  VoteTime,     \* the 40 s of a vote
  Cooldown,     \* the 120 s between votes; twice that for the last caller
  KickRenamers  \* bit 16 of the alert code

ASSUME VoteKickAssumption ==
  /\ IsFiniteSet(Players) /\ Bots \subseteq Players
  /\ Players \cap {Unknown, Nobody, Gone} = {} /\ Nobody # Gone
  /\ Percents \subseteq Nat
  /\ MinPlayers \in Nat /\ VoteTime \in Nat /\ Cooldown \in Nat
  /\ KickRenamers \in BOOLEAN

VARIABLES
  present,       \* players that have an entity
  active,        \* those of them whose ClientActive has run
  hash,          \* m_iSteamIDHash
  listsUpdated,  \* m_bStatusListsUpdated
  target,        \* the player of m_pKickTargetID
  voteCount,     \* m_iVoteCount
  voteGoal,      \* m_iVoteGoal
  voters,        \* m_vVoterIDs, which never holds a hash twice
  share,         \* m_flVoteFrac, in percent
  kickTimer,     \* time left until m_flKickEndTime
  idle,          \* time since m_flLastKickCall, or as much as matters
  lastCaller,    \* m_pLastKickCaller
  bans           \* players of the banid commands in the command buffer

players == <<present, active, hash, listsUpdated>>
ballot  == <<target, voteCount, voteGoal, voters, share, kickTimer>>
vars    == <<players, ballot, idle, lastCaller, bans>>

TypeOK ==
  /\ active \subseteq present /\ present \subseteq Players
  /\ hash \in [Players -> Players \cup {Unknown}]
  /\ listsUpdated \in BOOLEAN
  /\ target \in Players \cup {Nobody}
  /\ voteCount \in Int /\ voteGoal \in Nat
  /\ voters \subseteq Players \cup {Unknown}
  /\ share \in Nat
  /\ kickTimer \in Int
  /\ idle \in 0 .. 2 * Cooldown
  /\ lastCaller \in Players \cup {Nobody, Gone}
  /\ bans \subseteq Players

VoteOpen == target # Nobody

\* round( n * m_flVoteFrac )
Goal(n, percent) == (2 * n * percent + 100) \div 200

-----------------------------------------------------------------------------
\* The vote is over: on a ban (of the target), or without one.
CloseVote ==
  /\ target' = Nobody
  /\ kickTimer' = 0
  /\ idle' = 0

(***************************************************************************)
(* CheckVotekick for a vote on t with these votes: enough of them ban the  *)
(* player and close the vote, or it stays open for the time left.          *)
(***************************************************************************)
CheckVotekick(t, count, goal, left) ==
  /\ voteCount' = count /\ voteGoal' = goal
  /\ \/ count >= goal /\ CloseVote /\ bans' = bans \cup {t}
     \/ /\ count < goal
        /\ target' = t /\ kickTimer' = left
        /\ UNCHANGED <<idle, bans>>

MayCall(p) ==
  /\ ~VoteOpen
  /\ idle >= IF lastCaller = p THEN 2 * Cooldown ELSE Cooldown
  /\ Cardinality(present) >= MinPlayers

\* !gevotekick
CallVote(p, t, percent) ==
  /\ p \in active \ Bots /\ MayCall(p) /\ t \in present
  /\ lastCaller' = p
  /\ voters' = {hash[p]}
  /\ share' = percent
  /\ CheckVotekick(t, 1, Goal(Cardinality(present), percent), VoteTime)
  /\ UNCHANGED players

\* Mutant of Vote: everybody may vote again.
VoteAgain(p) ==
  /\ p \in active \ Bots /\ VoteOpen
  /\ voters' = voters \cup {hash[p]}
  /\ CheckVotekick(target, voteCount + 1, voteGoal, kickTimer)
  /\ UNCHANGED <<players, share, lastCaller>>

\* Mutant of Vote: the votes are not counted until something else happens.
VoteUnchecked(p) ==
  /\ p \in active \ Bots /\ VoteOpen
  /\ voters' = voters \cup {hash[p]}
  /\ voteCount' = voteCount + (IF hash[p] \in voters THEN 0 ELSE 1)
  /\ UNCHANGED <<players, target, voteGoal, share, kickTimer, idle, lastCaller, bans>>

\* !voodoo
Vote(p) ==
  /\ p \in active \ Bots /\ VoteOpen
  /\ voters' = voters \cup {hash[p]}
  /\ CheckVotekick(target, voteCount + (IF hash[p] \in voters THEN 0 ELSE 1),
                   voteGoal, kickTimer)
  /\ UNCHANGED <<players, share, lastCaller>>

(***************************************************************************)
(* ClientSettingsChanged: the target of a vote may not change its name.    *)
(***************************************************************************)
Rename ==
  /\ KickRenamers /\ target \in present \ Bots
  /\ CloseVote
  /\ bans' = bans \cup {target}
  /\ UNCHANGED <<players, voteCount, voteGoal, voters, share, lastCaller>>

-----------------------------------------------------------------------------
(***************************************************************************)
(* Players come and go.  A new player's entity may be where the caller's   *)
(* was: the rules then take the newcomer for the last caller.  Whoever is  *)
(* being banned does not come back before the ban.                         *)
(***************************************************************************)
Connect(p) ==
  /\ p \notin present \cup bans
  /\ present' = present \cup {p}
  /\ hash' = [hash EXCEPT ![p] = Unknown]
  /\ lastCaller' \in IF lastCaller = Gone THEN {Gone, p} ELSE {lastCaller}
  /\ UNCHANGED <<active, listsUpdated, ballot, idle, bans>>

\* Mutant of Activate: the goal is not raised.
ActivateKeepsGoal(p) ==
  /\ p \in present \ active
  /\ active' = active \cup {p}
  /\ UNCHANGED <<present, hash, listsUpdated, ballot, idle, lastCaller, bans>>

\* ClientActive: the new player counts for the goal.
Activate(p) ==
  /\ p \in present \ active
  /\ active' = active \cup {p}
  /\ voteGoal' = IF VoteOpen THEN Goal(Cardinality(present), share) ELSE voteGoal
  /\ UNCHANGED <<present, hash, listsUpdated, target, voteCount, voters, share,
                 kickTimer, idle, lastCaller, bans>>

\* PreThink, once the status lists are there.
Identify(p) ==
  /\ listsUpdated /\ p \in present \ Bots /\ hash[p] = Unknown
  /\ hash' = [hash EXCEPT ![p] = p]
  /\ UNCHANGED <<present, active, listsUpdated, ballot, idle, lastCaller, bans>>

\* Mutant of Leave: the player's vote stays.
LeaveVoteStays(p) ==
  /\ p \in present
  /\ present' = present \ {p} /\ active' = active \ {p}
  /\ lastCaller' = IF lastCaller = p THEN Gone ELSE lastCaller
  /\ IF VoteOpen
     THEN /\ CheckVotekick(target, voteCount, Goal(Cardinality(present) - 1, share),
                           kickTimer)
          /\ UNCHANGED <<voters, share>>
     ELSE UNCHANGED <<ballot, idle, bans>>
  /\ UNCHANGED <<hash, listsUpdated>>

\* Mutant of Leave: the player stays in the game.
LeaveStaysActive(p) ==
  /\ p \in present
  /\ present' = present \ {p}
  /\ lastCaller' = IF lastCaller = p THEN Gone ELSE lastCaller
  /\ UNCHANGED <<active, hash, listsUpdated, ballot, idle, bans>>

(***************************************************************************)
(* ClientDisconnected, before the player's entity is removed: the vote of  *)
(* the player is taken back, if the player's hash is among the voters, and *)
(* the goal is that of the others.                                         *)
(***************************************************************************)
Leave(p) ==
  /\ p \in present
  /\ present' = present \ {p} /\ active' = active \ {p}
  /\ lastCaller' = IF lastCaller = p THEN Gone ELSE lastCaller
  /\ IF VoteOpen
     THEN /\ voters' = voters \ {hash[p]}
          /\ CheckVotekick(target, voteCount - (IF hash[p] \in voters THEN 1 ELSE 0),
                           Goal(Cardinality(present) - 1, share), kickTimer)
          /\ UNCHANGED share
     ELSE UNCHANGED <<ballot, idle, bans>>
  /\ UNCHANGED <<hash, listsUpdated>>

\* The engine runs banid; the player it disconnects (Leave) is gone by then.
\* A bot has no Steam ID that could be banned and may stay.
BanRuns(p) ==
  /\ p \in bans /\ (p \in present => p \in Bots)
  /\ bans' = bans \ {p}
  /\ UNCHANGED <<players, ballot, idle, lastCaller>>

-----------------------------------------------------------------------------
(***************************************************************************)
(* CGEMPRules::Think: the lists may have been downloaded, and a vote whose *)
(* time is up is counted a last time.                                      *)
(***************************************************************************)
VoteDue == VoteOpen /\ kickTimer < 0

ListsArrive ==
  /\ ~listsUpdated /\ listsUpdated' = TRUE
  /\ UNCHANGED <<present, active, hash, ballot, idle, lastCaller, bans>>

\* Mutant of VoteTimeout: a vote that fails for lack of time is not closed.
VoteTimeoutStays ==
  /\ VoteDue
  /\ kickTimer' = VoteTime
  /\ UNCHANGED <<players, target, voteCount, voteGoal, voters, share, idle,
                 lastCaller, bans>>

VoteTimeout ==
  /\ VoteDue
  /\ CloseVote
  /\ bans' = IF voteCount >= voteGoal THEN bans \cup {target} ELSE bans
  /\ UNCHANGED <<players, voteCount, voteGoal, voters, share, lastCaller>>

\* Time passes once the frame and its commands have run.
Tick ==
  /\ ~VoteDue /\ bans = {}
  /\ VoteOpen \/ idle < 2 * Cooldown
  /\ kickTimer' = IF VoteOpen THEN kickTimer - 1 ELSE kickTimer
  /\ idle' = IF idle < 2 * Cooldown THEN idle + 1 ELSE idle
  /\ UNCHANGED <<players, target, voteCount, voteGoal, voters, share, lastCaller, bans>>

-----------------------------------------------------------------------------
Init ==
  /\ present = {} /\ active = {}
  /\ hash = [p \in Players |-> Unknown]
  /\ listsUpdated = FALSE
  /\ target = Nobody /\ voteCount = 0 /\ voteGoal = 0 /\ voters = {}
  /\ share = 0 /\ kickTimer = 0
  /\ idle = 2 * Cooldown /\ lastCaller = Nobody /\ bans = {}

\* The rules are created again for the next level, and everybody connects again.
LevelChange ==
  /\ present' = {} /\ active' = {}
  /\ hash' = [p \in Players |-> Unknown]
  /\ listsUpdated' = FALSE
  /\ target' = Nobody /\ voteCount' = 0 /\ voteGoal' = 0 /\ voters' = {}
  /\ share' = 0 /\ kickTimer' = 0
  /\ idle' = 2 * Cooldown /\ lastCaller' = Nobody
  /\ UNCHANGED bans

Speech ==
  \E p \in Players :
    Vote(p) \/ \E t \in Players, percent \in Percents : CallVote(p, t, percent)

Traffic == \E p \in Players : Connect(p) \/ Activate(p) \/ Leave(p)

Server ==
  ListsArrive \/ VoteTimeout \/ Tick \/ \E p \in Players : Identify(p) \/ BanRuns(p)

Next == Speech \/ Traffic \/ Server \/ Rename \/ LevelChange

Spec == Init /\ [][Next]_vars

(***************************************************************************)
(* The engine runs frames and the commands it was given, which disconnect  *)
(* the players they name, and the clock advances.                          *)
(***************************************************************************)
Fairness ==
  /\ WF_vars(VoteTimeout) /\ WF_vars(Tick)
  /\ \A p \in Players : WF_vars(BanRuns(p)) /\ WF_vars(p \in bans /\ Leave(p))

FairSpec == Spec /\ Fairness

-----------------------------------------------------------------------------
(***************************************************************************)
(* No vote stays open that has enough votes already: whatever changes the  *)
(* votes or lowers the goal - a vote, a player who leaves - counts again.  *)
(***************************************************************************)
NoneOverdue == VoteOpen => voteCount < voteGoal

(***************************************************************************)
(* The count is the number of voters that are remembered, however players  *)
(* vote, leave and come back.                                              *)
(***************************************************************************)
CountIsVoters == VoteOpen => voteCount = Cardinality(voters)

(***************************************************************************)
(* The goal is never below the share of the players in the game: a player  *)
(* who joins while the vote runs raises it in time.                        *)
(***************************************************************************)
GoalCoversActive == VoteOpen => voteGoal >= Goal(Cardinality(active), share)

(***************************************************************************)
(* Every vote ends: with a ban or after its time, however many players     *)
(* come, go and vote meanwhile.                                            *)
(***************************************************************************)
VotesEnd == VoteOpen ~> ~VoteOpen

=============================================================================
