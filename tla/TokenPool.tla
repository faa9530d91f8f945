----------------------------- MODULE TokenPool -----------------------------
(***************************************************************************)
(* What the token manager promises about tokens, with its definitions,     *)
(* lists and spawners left out.  Every token in play is in one place.  A   *)
(* token comes into play at a spawner, where no other token lies, and only *)
(* while fewer than the limit are in play; a limit of Unlimited allows     *)
(* any number.  A player takes one token at a time.  Tokens may leave play *)
(* at any time, and the limit may be set to anything: it binds those who   *)
(* bring tokens, not the tokens that are there.                            *)
(***************************************************************************)
EXTENDS Integers, FiniteSets

CONSTANTS
  Tokens,
  Spawners,   \* places where tokens appear
  Players,    \* places that tokens are taken to
  Elsewhere,  \* any other places
  Absent,     \* no place: the token is not in play
  Unlimited

VARIABLES
  at,    \* where each token is
  limit

vars == <<at, limit>>

Places == Spawners \cup Players \cup Elsewhere

Init ==
  /\ at = [t \in Tokens |-> Absent]
  /\ limit \in Int

\* Tokens other than t stay where they are or leave play.
OthersStay(t) ==
  /\ at' \in [Tokens -> Places \cup {Absent}]
  /\ \A u \in Tokens \ {t} : at'[u] \in {at[u], Absent}

(***************************************************************************)
(* A token appears at s, where another one may have to make room for it.   *)
(***************************************************************************)
Appear(t, s) ==
  /\ at[t] = Absent /\ at'[t] = s
  /\ OthersStay(t)
  /\ \A u \in Tokens \ {t} : at'[u] # s
  /\ limit = Unlimited \/ Cardinality({u \in Tokens : at'[u] # Absent}) <= limit
  /\ UNCHANGED limit

Take(t, p) ==
  /\ at[t] # Absent
  /\ \A u \in Tokens : at[u] # p
  /\ at' = [at EXCEPT ![t] = p]
  /\ UNCHANGED limit

LetGo(t, e) ==
  /\ at[t] \in Players
  /\ at' = [at EXCEPT ![t] = e]
  /\ UNCHANGED limit

Leave ==
  /\ at' \in [Tokens -> Places \cup {Absent}]
  /\ \A u \in Tokens : at'[u] \in {at[u], Absent}
  /\ limit' \in Int

Next ==
  \/ Leave
  \/ \E t \in Tokens, s \in Spawners : Appear(t, s)
  \/ \E t \in Tokens, p \in Players : Take(t, p)
  \/ \E t \in Tokens, e \in Elsewhere : LetGo(t, e)

Spec == Init /\ [][Next]_vars

-----------------------------------------------------------------------------
\* A spawner and a player have one token at most.
OneEach ==
  \A t, u \in Tokens : at[t] = at[u] /\ at[t] \in Spawners \cup Players => t = u

\* More tokens are in play after a step only if the limit allows as many.
InPlay == {t \in Tokens : at[t] # Absent}

WithinLimit ==
  [][InPlay' \subseteq InPlay \/ limit = Unlimited \/ Cardinality(InPlay') <= limit]_vars

=============================================================================
