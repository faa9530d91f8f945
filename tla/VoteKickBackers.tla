-------------------------- MODULE VoteKickBackers --------------------------
(***************************************************************************)
(* VoteKick with the history of the open vote: the players who agreed and  *)
(* are still there, and whether one of them was not identified when voting.*)
(***************************************************************************)
EXTENDS VoteKick

VARIABLES
  backers,   \* players present whose vote was counted
  anonymous  \* whether a vote was counted of a player who was not identified

histVars == <<vars, backers, anonymous>>

HInit == Init /\ backers = {} /\ anonymous = FALSE

\* p voted: as the caller of a new vote, or in the open one.
Counted(p) ==
  \/ /\ \E t \in Players, percent \in Percents : CallVote(p, t, percent)
     /\ backers' = {p}
     /\ anonymous' = (hash[p] = Unknown)
  \/ /\ Vote(p)
     /\ backers' = IF hash[p] \in voters THEN backers ELSE backers \cup {p}
     /\ anonymous' = (anonymous \/ hash[p] = Unknown)

HNext ==
  \/ \E p \in Players : Counted(p)
  \/ \E p \in Players : Leave(p) /\ backers' = backers \ {p} /\ UNCHANGED anonymous
  \/ /\ Server \/ Rename \/ \E p \in Players : Connect(p) \/ Activate(p)
     /\ UNCHANGED <<backers, anonymous>>
  \/ LevelChange /\ backers' = {} /\ anonymous' = FALSE

HSpec == HInit /\ [][HNext]_histVars

FairHSpec == HSpec /\ Fairness

(***************************************************************************)
(* A ban has its backers: among identified players, a vote bans a player   *)
(* only if enough different players agreed that are still there, measured  *)
(* by those who are in the game at that moment.  Renaming is the exception *)
(* ClientSettingsChanged makes.                                            *)
(***************************************************************************)
BansAreBacked ==
  [][bans' \ bans # {} /\ ~Rename /\ ~anonymous' =>
       Cardinality(backers') >= Goal(Cardinality(active'), share')]_histVars

(***************************************************************************)
(* Identified players vote once: as long as everybody who voted was        *)
(* identified, no one who agreed raises the count again, however players   *)
(* leave, come back and are identified meanwhile.                          *)
(***************************************************************************)
IdentifiedVoteOnce ==
  [][\A p \in backers : Vote(p) /\ ~anonymous => voteCount' = voteCount]_histVars

(***************************************************************************)
(* gemp_gamerules.cpp:2145 says of the remembered hashes that they make    *)
(* sure a player cannot vote again: while the count is the number of those *)
(* who agreed, none of them can raise it.                                  *)
(***************************************************************************)
NobodyVotesTwice ==
  [][\A p \in backers :
       Vote(p) /\ voteCount = Cardinality(backers) => voteCount' = voteCount]_histVars

=============================================================================
