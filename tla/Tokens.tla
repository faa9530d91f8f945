------------------------------- MODULE Tokens -------------------------------
(***************************************************************************)
(* The token manager (ge_tokenmanager.cpp) with the item spawners it makes *)
(* use of (ent/ge_spawner.cpp), for one type of token, a token_ entity.    *)
(*                                                                         *)
(* The scenario defines the type with a limit.  The manager reserves       *)
(* spawners for it by overriding them; a reserved spawner brings a token   *)
(* whenever fewer than the limit are known.  Four times a second, in a     *)
(* round, the manager looks for the tokens that exist and reserves         *)
(* spawners or removes tokens.  Whatever is removed is marked, and deleted *)
(* after the rules' think; its handles are NULL then, and counted.         *)
(*                                                                         *)
(* The lists of the manager are sets here: which spawner of the list is    *)
(* looked at first, and which token, is any of them.  The items a spawner  *)
(* brings when it is not overridden are left out.                          *)
(***************************************************************************)
EXTENDS Integers, FiniteSets

CONSTANTS
  Tokens,         \* the entities, of which the code makes any number
  Spawners,       \* those that suit the type by location and team
  StartsEnabled,  \* the spawners the map does not have disabled at the start
  Players,
  Ground,         \* dropped
  Limbo,          \* nobody's, invisible and out of reach
  Dying,          \* marked for deletion
  Nowhere,        \* not an entity
  None,           \* the NULL handle
  Limits          \* limits the scenario may set

Unlimited == -1

ASSUME TokensAssumption ==
  /\ IsFiniteSet(Tokens) /\ IsFiniteSet(Spawners)
  /\ None \notin Tokens
  /\ StartsEnabled \subseteq Spawners
  /\ Spawners \cap Players = {}
  /\ (Spawners \cup Players) \cap {Ground, Limbo, Dying, Nowhere} = {}
  /\ Ground \notin {Limbo, Dying, Nowhere} /\ Limbo \notin {Dying, Nowhere} /\ Dying # Nowhere
  /\ Limits \subseteq Int

VARIABLES
  place,     \* where a token is: its owner entity, or a state without one
  defined,   \* the manager has a definition of the type
  limit,     \* iLimit
  known,     \* vTokens, with the handles that became NULL
  reserved,  \* the spawners of vSpawners
  gone,      \* the number of NULL handles in vSpawners
  override,  \* the spawner is overridden for the type
  enabled,   \* ~m_bDisabled
  cur,       \* m_hCurrentEntity
  inRound,   \* GEGameplay()->IsInRound()
  phase      \* what the server is at: the thinks of the entities, those of
             \* the rules in a frame that started a round, what comes after

definition == <<defined, limit>>
spawners   == <<override, enabled, cur>>
round == <<inRound, phase>>
vars == <<place, definition, known, reserved, gone, spawners, round>>

Alive(e) == place[e] \notin {Dying, Nowhere}
Live == {e \in Tokens : Alive(e)}
HeldBy(p) == {e \in Tokens : place[e] = p}
Overridden == {s \in Spawners : override[s]}

TypeOK ==
  /\ place \in [Tokens -> Spawners \cup Players \cup {Ground, Limbo, Dying, Nowhere}]
  /\ defined \in BOOLEAN /\ limit \in Int
  /\ inRound \in BOOLEAN /\ phase \in {"world", "rules", "commands"}
  /\ known \subseteq Tokens /\ reserved \subseteq Spawners /\ gone \in Nat
  /\ override \in [Spawners -> BOOLEAN] /\ enabled \in [Spawners -> BOOLEAN]
  /\ cur \in [Spawners -> Tokens \cup {None}]
  /\ \A s \in Spawners : cur[s] # None => place[cur[s]] # Nowhere

Init ==
  /\ place = [e \in Tokens |-> Nowhere]
  /\ defined = FALSE /\ limit = 0 /\ known = {} /\ reserved = {} /\ gone = 0
  /\ override = [s \in Spawners |-> FALSE]
  /\ enabled = [s \in Spawners |-> s \in StartsEnabled]
  /\ cur = [s \in Spawners |-> None]
  /\ inRound = FALSE /\ phase = "world"

-----------------------------------------------------------------------------
\* UTIL_Remove for the tokens of S, and OnTokenRemoved for those not yet marked.
Removed(S) ==
  [e \in Tokens |-> IF e \in S /\ place[e] # Nowhere THEN Dying ELSE place[e]]

Forget(k, S) == k \ {e \in S : Alive(e)}

\* IsEmpty, when the tokens of S are removed.
Empty(s, S) == cur[s] = None \/ cur[s] \in S \/ place[cur[s]] = Dying

\* Mutant of Release: the spawner stays overridden.
ReleaseKeepsOverride(R) ==
  /\ UNCHANGED override
  /\ cur' = [s \in Spawners |-> IF s \in R THEN None ELSE cur[s]]

\* SetOverride( NULL ) for the spawners of R.
Release(R) ==
  /\ override' = [s \in Spawners |-> override[s] /\ s \notin R]
  /\ cur' = [s \in Spawners |-> IF s \in R THEN None ELSE cur[s]]

Held(R) == {cur[s] : s \in R} \ {None}

(***************************************************************************)
(* RemoveTokens, after it removed S: empty spawners that the limit leaves  *)
(* no use for are released, as long as they are first in the list.         *)
(***************************************************************************)
Realigned(r, g, S) ==
  {R \in SUBSET {s \in r : Empty(s, S)} : R = {} \/ Cardinality(R) <= Cardinality(r) + g - limit}

(***************************************************************************)
(* SpawnTokens: the spawners chosen when k are the known tokens and r and  *)
(* g the list of spawners, among those of ok that suit, enough for the     *)
(* missing tokens if there are.  Such a spawner brings nothing yet, as far *)
(* as tokens go, so that there is nothing for SetOverride to remove.       *)
(***************************************************************************)
Chosen(k, r, g, ok) ==
  IF Cardinality(r) + g >= limit \/ Cardinality(k) >= limit THEN {{}}
  ELSE {P \in SUBSET ok :
          Cardinality(P) = IF Cardinality(ok) < limit - Cardinality(k)
                           THEN Cardinality(ok) ELSE limit - Cardinality(k)}

-----------------------------------------------------------------------------
\* The scenario.

SetupToken(n) ==
  /\ defined' = TRUE /\ limit' = n
  /\ UNCHANGED <<place, known, reserved, gone, spawners, round>>

\* The definition is deleted, with its lists.
RemoveDefinition ==
  /\ defined' = FALSE /\ limit' = 0
  /\ known' = {} /\ reserved' = {} /\ gone' = 0

\* RemoveTokenDef, RemoveToken in Python
RemoveTokenDef ==
  /\ defined
  /\ \E R \in Realigned(reserved, gone, known) : Release(R)
  /\ place' = Removed(known)
  /\ RemoveDefinition
  /\ UNCHANGED <<enabled, round>>

(***************************************************************************)
(* Reset, when a scenario is loaded: every definition goes, the spawners   *)
(* are given back with what they still hold.                               *)
(***************************************************************************)
Reset ==
  /\ defined
  /\ place' = Removed(known \cup Held(reserved))
  /\ Release(reserved)
  /\ RemoveDefinition
  /\ UNCHANGED <<enabled, round>>

(***************************************************************************)
(* RemoveTokenEnt: with adjust the limit goes down, and an empty spawner   *)
(* is given back if there is one.  CaptureToken is the other case.         *)
(***************************************************************************)
RemoveTokenEnt(e, adjust) ==
  /\ defined /\ Alive(e)
  /\ place' = Removed({e})
  /\ known' = Forget(known, {e})
  /\ \/ /\ ~adjust
        /\ UNCHANGED <<limit, reserved, override, cur>>
     \/ /\ adjust /\ limit > Unlimited  \* a bound: the code goes on below
        /\ limit' = limit - 1
        /\ LET empty == {s \in reserved : Empty(s, {e})}
           IN  \E R \in SUBSET empty :
                 /\ Cardinality(R) = IF empty = {} THEN 0 ELSE 1
                 /\ Release(R)
                 /\ reserved' = reserved \ R
  /\ UNCHANGED <<defined, gone, enabled, round>>

(***************************************************************************)
(* TransferToken to another player: the token is detached from its owner   *)
(* and offered to p, who takes it or not.  BumpWeapon refuses a second     *)
(* token of the type, and whatever the scenario, the time between rounds   *)
(* or a wall between the two are against.                                  *)
(***************************************************************************)
TransferToken(e, p) ==
  /\ place[e] \in Players
  /\ \/ place' = [place EXCEPT ![e] = Limbo]
     \/ HeldBy(p) \ {e} = {} /\ place' = [place EXCEPT ![e] = p]
  /\ UNCHANGED <<definition, known, reserved, gone, spawners, round>>

-----------------------------------------------------------------------------
\* Players.

\* Mutant of PickUp: the token is taken whatever the player has.
PickUpAnother(e, p) ==
  /\ phase = "world" /\ place[e] \in Spawners \cup {Ground}
  /\ place' = [place EXCEPT ![e] = p]
  /\ UNCHANGED <<definition, known, reserved, gone, spawners, round>>

\* A touch: the spawner does not notice before it thinks.
PickUp(e, p) ==
  /\ phase = "world" /\ place[e] \in Spawners \cup {Ground} /\ HeldBy(p) = {}
  /\ place' = [place EXCEPT ![e] = p]
  /\ UNCHANGED <<definition, known, reserved, gone, spawners, round>>

\* Death, or a transfer to nobody.
Drop(e) ==
  /\ phase = "world" /\ place[e] \in Players
  /\ place' = [place EXCEPT ![e] = Ground]
  /\ UNCHANGED <<definition, known, reserved, gone, spawners, round>>

\* The player is stripped, or leaves.
Strip(p) ==
  /\ HeldBy(p) # {}
  /\ place' = Removed(HeldBy(p))
  /\ known' = Forget(known, HeldBy(p))
  /\ UNCHANGED <<definition, reserved, gone, spawners, round>>

\* Nobody took a dropped token in time.
Expire(e) ==
  /\ phase = "world" /\ place[e] = Ground
  /\ place' = Removed({e})
  /\ known' = Forget(known, {e})
  /\ UNCHANGED <<definition, reserved, gone, spawners, round>>

-----------------------------------------------------------------------------
\* The spawners.

\* A handle that is not in use: vTokens may still hold those of deleted tokens.
Free == {e \in Tokens : place[e] = Nowhere /\ e \notin known}

\* Mutant of ShouldSpawnToken: one too many.
ShouldSpawnOneMore ==
  \/ ~defined \/ limit = Unlimited
  \/ Cardinality(known) <= limit

ShouldSpawnToken ==
  \/ ~defined \/ limit = Unlimited
  \/ Cardinality(known) < limit

\* Mutant of Lying: a spawner does not look where its token is.
LyingOrTaken(s) == {cur[s]} \ {None}

\* What s has brought and nobody has picked up.
Lying(s) == {e \in {cur[s]} \ {None} : place[e] = s}

(***************************************************************************)
(* SpawnEnt, with OnTokenSpawned: s brings e in place of what lay there.   *)
(* The manager has a token of a spawner it does not know removed at once.  *)
(***************************************************************************)
SpawnEnt(s, e) ==
  /\ cur' = [cur EXCEPT ![s] = e]
  /\ LET refused == defined /\ s \notin reserved
     IN  /\ place' = [Removed(Lying(s)) EXCEPT ![e] = IF refused THEN Dying ELSE s]
         /\ known' = Forget(known, Lying(s)) \cup (IF defined /\ ~refused THEN {e} ELSE {})

(***************************************************************************)
(* Think of an enabled spawner.  Its token was picked if it has another    *)
(* owner now.  An overridden spawner whose type lacks tokens brings one,   *)
(* also when one lies there already.                                       *)
(***************************************************************************)
SpawnerThink(s) ==
  /\ phase = "world" /\ enabled[s]
  /\ \/ /\ override[s] /\ ShouldSpawnToken
        /\ \E e \in Free : SpawnEnt(s, e)
     \/ /\ ~(override[s] /\ ShouldSpawnToken)
        /\ cur' = [cur EXCEPT ![s] = IF Lying(s) = {} THEN None ELSE cur[s]]
        /\ UNCHANGED <<place, known>>
  /\ UNCHANGED <<definition, reserved, gone, override, enabled, round>>

\* InputEnable, from a touch or think or from the event queue.
Enable(s) ==
  /\ phase \in {"world", "commands"} /\ ~enabled[s]
  /\ enabled' = [enabled EXCEPT ![s] = TRUE]
  /\ UNCHANGED <<place, definition, known, reserved, gone, override, cur, round>>

\* InputDisable: a token that was just picked up goes with the rest.
Disable(s) ==
  /\ phase \in {"world", "commands"} /\ enabled[s]
  /\ enabled' = [enabled EXCEPT ![s] = FALSE]
  /\ place' = Removed(Held({s}))
  /\ known' = Forget(known, Held({s}))
  /\ cur' = [cur EXCEPT ![s] = None]
  /\ UNCHANGED <<definition, reserved, gone, override, round>>

-----------------------------------------------------------------------------
\* The rules and the engine.

(***************************************************************************)
(* StartRound.  WorldReload deletes what no player owns, spawners too, and *)
(* makes the spawners anew, so that every handle in vSpawners is NULL.     *)
(* Then OnRoundStart has the other tokens removed, strips the players and  *)
(* calls SpawnTokens, for which the NULL handles count.                    *)
(***************************************************************************)
RoundStart ==
  /\ phase = "world" /\ phase' = "rules" /\ ~inRound /\ inRound' = TRUE
  /\ place' = [e \in Tokens |->
       CASE place[e] \in Players                       -> Dying
         [] place[e] = Limbo                           -> IF e \in known THEN Dying ELSE Limbo
         [] place[e] \notin Players /\ place[e] # Limbo -> Nowhere]
  /\ known' = Forget(known, Tokens)
  /\ gone' = gone + Cardinality(reserved)
  /\ cur' = [s \in Spawners |-> None]
  /\ enabled' = [s \in Spawners |-> s \in StartsEnabled]
  /\ \E P \in IF defined THEN Chosen(known', {}, gone', StartsEnabled) ELSE {{}} :
       /\ reserved' = P
       /\ override' = [s \in Spawners |-> s \in P]
  /\ UNCHANGED definition

RoundEnd ==
  /\ inRound /\ inRound' = FALSE
  /\ UNCHANGED <<place, definition, known, reserved, gone, spawners, phase>>

\* Mutant of Listed: NULL handles stay in the list.
ListedOrGone == [still |-> {s \in reserved : enabled[s]}, gone |-> gone]

\* What EnforceTokens leaves in vSpawners: spawners that exist and are enabled.
Listed == [still |-> {s \in reserved : enabled[s]}, gone |-> 0]

(***************************************************************************)
(* EnforceTokens.  vTokens becomes the tokens that exist, among them those *)
(* marked in this frame, as nothing was deleted since the entities began   *)
(* to think; disabled spawners are given back, which hold nothing any      *)
(* more; then the difference to the limit is made up for.                  *)
(***************************************************************************)
EnforceTokens ==
  /\ phase \in {"world", "rules"} /\ phase' = "commands" /\ inRound /\ defined
  /\ LET found == {e \in Tokens : place[e] # Nowhere}
         still == Listed.still
         idle  == {s \in Spawners : enabled[s] /\ ~override[s]}
         extra == Cardinality(found) - limit
     IN  /\ gone' = Listed.gone
         /\ \/ /\ extra <= 0
               /\ \E P \in IF extra = 0 THEN {{}} ELSE Chosen(found, still, gone', idle) :
                    /\ reserved' = still \cup P
                    /\ override' = [s \in Spawners |->
                         s \in P \/ (override[s] /\ s \notin reserved \ still)]
               /\ known' = found
               /\ UNCHANGED <<place, cur>>
            \/ /\ extra > 0
               /\ \E X \in SUBSET found :
                    /\ Cardinality(X) = IF extra < Cardinality(found)
                                        THEN extra ELSE Cardinality(found)
                    /\ place' = Removed(X)
                    /\ known' = Forget(found, X)
                    /\ \E R \in Realigned(still, gone', X) :
                         /\ Release(R \cup (reserved \ still))
                         /\ reserved' = still \ R
  /\ UNCHANGED <<definition, enabled, inRound>>

\* The next tokens are not due yet, or there is nothing to see to.
EnforceNothing ==
  /\ phase \in {"world", "rules"} /\ phase' = "commands"
  /\ UNCHANGED <<place, definition, known, reserved, gone, spawners, inRound>>

\* Mutant of CleanupDeleteList: the handles of spawners keep their value.
CleanupKeepsHandles ==
  /\ place' = [e \in Tokens |-> IF Alive(e) THEN place[e] ELSE Nowhere]
  /\ UNCHANGED cur

\* Entities marked for deletion are deleted, and handles of them are NULL.
CleanupDeleteList ==
  /\ place' = [e \in Tokens |-> IF Alive(e) THEN place[e] ELSE Nowhere]
  /\ cur' = [s \in Spawners |-> IF cur[s] # None /\ Alive(cur[s]) THEN cur[s] ELSE None]

(***************************************************************************)
(* GameFrame: the entities think, then the rules, whose last act is        *)
(* EnforceTokens; the event queue is served, marked entities are deleted,  *)
(* commands follow, and before the entities think again it is deleted once *)
(* more.  The two are one here: what the commands do is the same for an    *)
(* entity that is marked and for one that is deleted.                      *)
(***************************************************************************)
NextPart ==
  /\ phase = "commands" /\ phase' = "world"
  /\ CleanupDeleteList
  /\ UNCHANGED <<definition, known, reserved, gone, override, enabled, inRound>>

-----------------------------------------------------------------------------
Scenario ==
  \/ \E n \in Limits : SetupToken(n)
  \/ \E e \in Tokens, adjust \in BOOLEAN : RemoveTokenEnt(e, adjust)
  \/ \E e \in Tokens, p \in Players : TransferToken(e, p)
  \/ Reset

Play ==
  \/ \E e \in Tokens, p \in Players : PickUp(e, p)
  \/ \E e \in Tokens : Drop(e) \/ Expire(e)
  \/ \E p \in Players : Strip(p)
  \/ \E s \in Spawners : Enable(s) \/ Disable(s)
  \/ RoundStart \/ RoundEnd

\* What the server does in every frame.
Frame ==
  \/ \E s \in Spawners : SpawnerThink(s)
  \/ EnforceTokens \/ EnforceNothing \/ NextPart

Next == Scenario \/ Play \/ Frame \/ RemoveTokenDef

Spec == Init /\ [][Next]_vars

\* A scenario that keeps its definitions until another one is loaded.
KeepNext == Scenario \/ Play \/ Frame

KeepSpec == Init /\ [][KeepNext]_vars

-----------------------------------------------------------------------------
(***************************************************************************)
(* A spawner and a player have one token at most, whatever is picked up,   *)
(* transferred, replaced or removed and however late the spawner notices.  *)
(***************************************************************************)
EachPlaceOnce ==
  \A e, f \in Live : place[e] = place[f] /\ e # f => place[e] \in {Ground, Limbo}

(***************************************************************************)
(* The books of the manager are right as long as no definition is removed: *)
(* the spawners that are overridden are those it has reserved, and it      *)
(* knows every token there is (the count that limits new ones includes     *)
(* all that exist, also after handles went stale or spawners were lost).   *)
(***************************************************************************)
Accounted ==
  /\ Overridden = reserved
  /\ Live \subseteq known

(***************************************************************************)
(* A spawner that thinks removes what lies at it, never what it brought    *)
(* and a player has taken since its last think.                            *)
(***************************************************************************)
ThinkRobsNobody ==
  [][\A s \in Spawners : SpawnerThink(s) =>
       \A e \in Tokens : place[e] \in Players => place'[e] = place[e]]_vars

(***************************************************************************)
(* Tokens appear within the limit and are in one place, as TokenPool says. *)
(***************************************************************************)
Pool == INSTANCE TokenPool WITH
  Elsewhere <- {Ground, Limbo},
  Absent <- Nowhere,
  at <- [e \in Tokens |-> IF Alive(e) THEN place[e] ELSE Nowhere]

ImplementsTokenPool == Pool!Spec

(***************************************************************************)
(* Every spawner thinks, tokens are enforced and frames go on.             *)
(***************************************************************************)
FrameFairness ==
  /\ \A s \in Spawners : SF_vars(SpawnerThink(s))
  /\ SF_vars(EnforceTokens) /\ WF_vars(EnforceNothing) /\ WF_vars(NextPart)

FairSpec == KeepSpec /\ FrameFairness

Satisfied ==
  inRound /\ defined /\ limit >= 0 /\ Cardinality({s \in Spawners : enabled[s]}) >= limit
    => Cardinality(Live) = limit

(***************************************************************************)
(* A scenario that stops changing things gets the tokens it asked for: in  *)
(* a round with enough spawners there are as many as the limit from some   *)
(* time on, however many were there, marked or lost when it stopped.  One  *)
(* thing alone can keep that from happening: that tokens are enforced in   *)
(* the very frame in which a spawner replaced its token, whose marked one  *)
(* counts as one too many, again and again.                                *)
(***************************************************************************)
NothingMarked == \A e \in Tokens : place[e] # Dying

LimitIsReached ==
  <>[][Frame /\ (EnforceTokens => NothingMarked)]_vars => <>[]Satisfied

=============================================================================
