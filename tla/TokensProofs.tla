---------------------------- MODULE TokensProofs ----------------------------
(***************************************************************************)
(* Proofs about Tokens, for all tokens, spawners, players and limits: its  *)
(* types, that a place has one token, that the manager's books are right,  *)
(* and that the manager with its spawners implements TokenPool.            *)
(***************************************************************************)
EXTENDS Tokens, FiniteSetTheorems, TLAPS

Spots == Spawners \cup Players \cup {Ground, Limbo, Dying, Nowhere}

-----------------------------------------------------------------------------
(***************************************************************************)
(* The sets the manager chooses from.                                      *)
(***************************************************************************)
LEMMA RealignedAreEmpty ==
  ASSUME NEW r, NEW g, NEW S, NEW R \in Realigned(r, g, S)
  PROVE  R \subseteq r /\ \A s \in R : Empty(s, S)
BY DEF Realigned

LEMMA ChosenSuit ==
  ASSUME NEW k, NEW r, NEW g, NEW ok, NEW P \in Chosen(k, r, g, ok)
  PROVE  P \subseteq ok
BY DEF Chosen

LEMMA RemovedPlaces ==
  ASSUME TypeOK, NEW S
  PROVE  /\ Removed(S) \in [Tokens -> Spots]
         /\ \A e \in Tokens :
              Removed(S)[e] = IF e \in S /\ place[e] # Nowhere THEN Dying ELSE place[e]
         /\ \A e \in Tokens : place[e] # Nowhere => Removed(S)[e] # Nowhere
BY TokensAssumption DEF TypeOK, Removed, Spots

LEMMA PlacesDiffer ==
  /\ Ground \notin Spawners \cup Players /\ Limbo \notin Spawners \cup Players
  /\ Dying \notin Spawners \cup Players /\ Nowhere \notin Spawners \cup Players
  /\ Spawners \cap Players = {}
  /\ Ground # Limbo /\ Ground # Dying /\ Ground # Nowhere
  /\ Limbo # Dying /\ Limbo # Nowhere /\ Dying # Nowhere
BY TokensAssumption

LEMMA SetsAreFinite ==
  ASSUME TypeOK
  PROVE  /\ IsFiniteSet(reserved) /\ IsFiniteSet(known)
         /\ Cardinality(reserved) \in Nat /\ Cardinality(known) \in Nat
BY TokensAssumption, FS_Subset, FS_CardinalityType DEF TypeOK

-----------------------------------------------------------------------------
(***************************************************************************)
(* Types.  The only part that takes more than one action is the last: the  *)
(* handle of a spawner never outlives its token.                           *)
(***************************************************************************)
LEMMA TypeScenario ==
  ASSUME TypeOK, Scenario \/ RemoveTokenDef
  PROVE  TypeOK'
<1> USE TokensAssumption, PlacesDiffer
<1>1. ASSUME NEW n \in Limits, SetupToken(n) PROVE TypeOK'
  BY <1>1 DEF TypeOK, SetupToken, spawners, round
<1>2. ASSUME NEW e \in Tokens, NEW adjust \in BOOLEAN, RemoveTokenEnt(e, adjust) PROVE TypeOK'
  <2>1. place' \in [Tokens -> Spots] /\ \A f \in Tokens : place[f] # Nowhere => place'[f] # Nowhere
    BY <1>2, RemovedPlaces DEF RemoveTokenEnt
  <2>2. known' \subseteq Tokens
    BY <1>2 DEF RemoveTokenEnt, Forget, TypeOK
  <2>3. /\ limit' \in Int /\ reserved' \subseteq Spawners
        /\ override' \in [Spawners -> BOOLEAN] /\ cur' \in [Spawners -> Tokens \cup {None}]
        /\ \A s \in Spawners : cur'[s] \in {cur[s], None}
    <3>1. CASE ~adjust
      BY <1>2, <3>1 DEF RemoveTokenEnt, TypeOK
    <3>2. CASE adjust
      <4>1. PICK R \in SUBSET reserved : Release(R) /\ reserved' = reserved \ R
        BY <1>2, <3>2 DEF RemoveTokenEnt
      <4>2. limit' \in Int
        BY <1>2, <3>2 DEF RemoveTokenEnt, TypeOK
      <4>3. QED BY <4>1, <4>2 DEF Release, TypeOK
    <3>3. QED BY <3>1, <3>2
  <2>4. QED BY <1>2, <2>1, <2>2, <2>3 DEF TypeOK, RemoveTokenEnt, round, Spots
<1>3. ASSUME NEW e \in Tokens, NEW p \in Players, TransferToken(e, p) PROVE TypeOK'
  <2>1. place' \in [Tokens -> Spots] /\ \A f \in Tokens : place[f] # Nowhere => place'[f] # Nowhere
    BY <1>3 DEF TransferToken, TypeOK, Spots
  <2>2. QED BY <1>3, <2>1 DEF TypeOK, TransferToken, definition, spawners, round, Spots
<1>4. CASE Reset
  <2>1. place' \in [Tokens -> Spots] /\ \A f \in Tokens : place[f] # Nowhere => place'[f] # Nowhere
    BY <1>4, RemovedPlaces DEF Reset
  <2>2. /\ override' \in [Spawners -> BOOLEAN] /\ cur' \in [Spawners -> Tokens \cup {None}]
        /\ \A s \in Spawners : cur'[s] \in {cur[s], None}
    BY <1>4 DEF Reset, Release, TypeOK
  <2>3. known' = {} /\ reserved' = {} /\ gone' = 0 /\ limit' = 0 /\ ~defined' /\ UNCHANGED <<enabled, inRound, phase>>
    BY <1>4 DEF Reset, RemoveDefinition, round
  <2>4. defined' \in BOOLEAN
    BY <1>4, Zenon DEF Reset, RemoveDefinition
  <2>5. QED BY <2>1, <2>2, <2>3, <2>4 DEF TypeOK, Spots
<1>5. CASE RemoveTokenDef
  <2>1. place' \in [Tokens -> Spots] /\ \A f \in Tokens : place[f] # Nowhere => place'[f] # Nowhere
    BY <1>5, RemovedPlaces DEF RemoveTokenDef
  <2>2. /\ override' \in [Spawners -> BOOLEAN] /\ cur' \in [Spawners -> Tokens \cup {None}]
        /\ \A s \in Spawners : cur'[s] \in {cur[s], None}
    BY <1>5 DEF RemoveTokenDef, Release, TypeOK
  <2>3. known' = {} /\ reserved' = {} /\ gone' = 0 /\ limit' = 0 /\ ~defined' /\ UNCHANGED <<enabled, inRound, phase>>
    BY <1>5 DEF RemoveTokenDef, RemoveDefinition, round
  <2>4. defined' \in BOOLEAN
    BY <1>5, Zenon DEF RemoveTokenDef, RemoveDefinition
  <2>5. QED BY <2>1, <2>2, <2>3, <2>4 DEF TypeOK, Spots
<1>6. QED BY <1>1, <1>2, <1>3, <1>4, <1>5 DEF Scenario

LEMMA TypePlay ==
  ASSUME TypeOK, Play
  PROVE  TypeOK'
<1> USE TokensAssumption, PlacesDiffer
<1>1. ASSUME NEW e \in Tokens, NEW p \in Players, PickUp(e, p) PROVE TypeOK'
  BY <1>1 DEF TypeOK, PickUp, definition, spawners, round
<1>2. ASSUME NEW e \in Tokens, Drop(e) PROVE TypeOK'
  BY <1>2 DEF TypeOK, Drop, definition, spawners, round
<1>3. ASSUME NEW e \in Tokens, Expire(e) PROVE TypeOK'
  <2>1. place' \in [Tokens -> Spots] /\ \A f \in Tokens : place[f] # Nowhere => place'[f] # Nowhere
    BY <1>3, RemovedPlaces DEF Expire
  <2>2. QED BY <1>3, <2>1 DEF TypeOK, Expire, Forget, definition, spawners, round, Spots
<1>4. ASSUME NEW p \in Players, Strip(p) PROVE TypeOK'
  <2>1. place' \in [Tokens -> Spots] /\ \A f \in Tokens : place[f] # Nowhere => place'[f] # Nowhere
    BY <1>4, RemovedPlaces DEF Strip
  <2>2. QED BY <1>4, <2>1 DEF TypeOK, Strip, Forget, definition, spawners, round, Spots
<1>5. ASSUME NEW s \in Spawners, Enable(s) PROVE TypeOK'
  BY <1>5 DEF TypeOK, Enable, definition, round
<1>6. ASSUME NEW s \in Spawners, Disable(s) PROVE TypeOK'
  <2>1. place' \in [Tokens -> Spots] /\ \A f \in Tokens : place[f] # Nowhere => place'[f] # Nowhere
    BY <1>6, RemovedPlaces DEF Disable
  <2>2. QED BY <1>6, <2>1 DEF TypeOK, Disable, Forget, definition, round, Spots
<1>7. CASE RoundStart
  <2>1. place' \in [Tokens -> Spots]
    BY <1>7 DEF RoundStart, TypeOK, Spots
  <2>2. reserved' \subseteq Spawners /\ override' \in [Spawners -> BOOLEAN]
    BY <1>7, ChosenSuit DEF RoundStart
  <2>3. gone' \in Nat
    BY <1>7, SetsAreFinite DEF RoundStart, TypeOK
  <2>4. QED BY <1>7, <2>1, <2>2, <2>3 DEF TypeOK, RoundStart, Forget, definition, Spots
<1>8. CASE RoundEnd
  BY <1>8 DEF TypeOK, RoundEnd, definition, spawners
<1>9. QED BY <1>1, <1>2, <1>3, <1>4, <1>5, <1>6, <1>7, <1>8 DEF Play

LEMMA TypeFrame ==
  ASSUME TypeOK, Frame
  PROVE  TypeOK'
<1> USE TokensAssumption, PlacesDiffer
<1>1. ASSUME NEW s \in Spawners, SpawnerThink(s) PROVE TypeOK'
  <2>1. ASSUME NEW e \in Free, SpawnEnt(s, e)
        PROVE  /\ place' \in [Tokens -> Spots] /\ known' \subseteq Tokens
               /\ cur' \in [Spawners -> Tokens \cup {None}]
               /\ \A t \in Spawners : cur'[t] # None => place'[cur'[t]] # Nowhere
    <3>1. e \in Tokens /\ place[e] = Nowhere
      BY DEF Free
    <3>2. \A f \in Tokens : place[f] # Nowhere => place'[f] # Nowhere
      BY <2>1, <3>1, RemovedPlaces DEF SpawnEnt
    <3>3. place' \in [Tokens -> Spots] /\ place'[e] # Nowhere
      BY <2>1, <3>1, RemovedPlaces DEF SpawnEnt, Spots
    <3>4. known' \subseteq Tokens
      BY <2>1, <3>1 DEF SpawnEnt, Forget, TypeOK
    <3>5. QED BY <2>1, <3>1, <3>2, <3>3, <3>4 DEF SpawnEnt, TypeOK
  <2>2. QED BY <1>1, <2>1 DEF TypeOK, SpawnerThink, definition, round, Spots
<1>2. CASE EnforceTokens
  <2>1. /\ gone' = 0 /\ known' \subseteq Tokens
        /\ override' \in [Spawners -> BOOLEAN] /\ reserved' \subseteq Spawners
        /\ cur' \in [Spawners -> Tokens \cup {None}]
        /\ \A s \in Spawners : cur'[s] \in {cur[s], None}
    <3> DEFINE found == {e \in Tokens : place[e] # Nowhere}
               still == Listed.still
    <3>1. gone' = 0 /\ still = {s \in reserved : enabled[s]} /\ still \subseteq Spawners
      BY <1>2 DEF EnforceTokens, Listed, TypeOK
    <3>0. Cardinality(found) - limit \in Int
      <4>1. found \subseteq Tokens
        OBVIOUS
      <4>2. Cardinality(found) \in Nat
        BY <4>1, FS_Subset, FS_CardinalityType
      <4>3. QED BY <4>2 DEF TypeOK
    <3>2. CASE Cardinality(found) - limit <= 0
      <4> DEFINE idle == {s \in Spawners : enabled[s] /\ ~override[s]}
                 extra == Cardinality(found) - limit
      <4>1. ~(extra > 0)
        BY <3>0, <3>2
      <4>2. /\ known' = found /\ cur' = cur
            /\ \E P \in IF extra = 0 THEN {{}} ELSE Chosen(found, still, gone', idle) :
                 /\ reserved' = still \cup P
                 /\ override' = [s \in Spawners |->
                      s \in P \/ (override[s] /\ s \notin reserved \ still)]
        BY <1>2, <4>1 DEF EnforceTokens
      <4>3. PICK P \in IF extra = 0 THEN {{}} ELSE Chosen(found, still, gone', idle) :
              /\ reserved' = still \cup P
              /\ override' = [s \in Spawners |->
                   s \in P \/ (override[s] /\ s \notin reserved \ still)]
        BY <4>2
      <4>4. P \subseteq Spawners
        BY ChosenSuit
      <4>5. override' \in [Spawners -> BOOLEAN]
        BY <4>3, Zenon
      <4>6. QED BY <3>1, <4>2, <4>3, <4>4, <4>5 DEF TypeOK
    <3>3. CASE Cardinality(found) - limit > 0
      <4>1. ~(Cardinality(found) - limit <= 0)
        BY <3>0, <3>3
      <4>2. PICK X \in SUBSET found :
              /\ known' = Forget(found, X)
              /\ \E R \in Realigned(still, gone', X) :
                   Release(R \cup (reserved \ still)) /\ reserved' = still \ R
        BY <1>2, <4>1 DEF EnforceTokens
      <4>3. PICK R \in Realigned(still, gone', X) :
              Release(R \cup (reserved \ still)) /\ reserved' = still \ R
        BY <4>2
      <4>4. QED BY <3>1, <4>2, <4>3 DEF Release, Forget, TypeOK
    <3>4. QED BY <3>0, <3>2, <3>3
  <2>2. place' \in [Tokens -> Spots] /\ \A f \in Tokens : place[f] # Nowhere => place'[f] # Nowhere
    BY <1>2, RemovedPlaces DEF EnforceTokens, TypeOK, Spots
  <2>3. QED BY <1>2, <2>1, <2>2 DEF TypeOK, EnforceTokens, definition, Spots
<1>3. CASE EnforceNothing
  BY <1>3 DEF TypeOK, EnforceNothing, definition, spawners
<1>4. CASE NextPart
  BY <1>4 DEF TypeOK, NextPart, CleanupDeleteList, Alive, definition
<1>5. QED BY <1>1, <1>2, <1>3, <1>4 DEF Frame

(***************************************************************************)
(* The state of the manager and of the spawners is well typed; a handle    *)
(* that is not NULL is that of an entity.                                  *)
(***************************************************************************)
THEOREM TokensTypeOK == Spec => []TypeOK
<1>1. Init => TypeOK
  <2> SUFFICES ASSUME Init PROVE TypeOK
    OBVIOUS
  <2>1. ~defined /\ ~inRound /\ defined \in BOOLEAN /\ inRound \in BOOLEAN
    <3>1. defined = FALSE /\ inRound = FALSE
      BY Zenon DEF Init
    <3>2. QED BY <3>1
  <2>2. override \in [Spawners -> BOOLEAN]
    BY DEF Init
  <2>3. enabled \in [Spawners -> BOOLEAN]
    <3>1. enabled = [s \in Spawners |-> s \in StartsEnabled]
      BY DEF Init
    <3>2. QED BY <3>1
  <2>4. QED BY TokensAssumption, <2>1, <2>2, <2>3 DEF Init, TypeOK
<1>2. TypeOK /\ [Next]_vars => TypeOK'
  <2>1. ASSUME TypeOK, UNCHANGED vars PROVE TypeOK'
    BY <2>1 DEF TypeOK, vars, definition, spawners, round
  <2>2. QED BY <2>1, TypeScenario, TypePlay, TypeFrame DEF Next
<1>3. QED BY <1>1, <1>2, PTL DEF Spec

-----------------------------------------------------------------------------
(***************************************************************************)
(* One token in a place.  A spawner knows what lies at it, and a disabled  *)
(* one has nothing: it may be given back without a look.                   *)
(***************************************************************************)
LyingIsCurrent == \A e \in Tokens, s \in Spawners : place[e] = s => cur[s] = e
PlayersHaveOne == \A e, f \in Tokens : place[e] \in Players /\ place[e] = place[f] => e = f
DisabledIsEmpty == \A s \in Spawners : ~enabled[s] => cur[s] = None

OnceInv == LyingIsCurrent /\ PlayersHaveOne /\ DisabledIsEmpty

\* Most steps only take tokens away and let spawners that have none forget.
LEMMA TakingAwayKeepsOnce ==
  ASSUME TypeOK, OnceInv,
         \A e \in Tokens : place'[e] \in {place[e], Ground, Limbo, Dying, Nowhere},
         \A s \in Spawners : cur'[s] = cur[s] \/ (\A e \in Tokens : place'[e] # s),
         \A s \in Spawners : ~enabled'[s] => cur'[s] = None
  PROVE  OnceInv'
BY PlacesDiffer DEF OnceInv, LyingIsCurrent, PlayersHaveOne, DisabledIsEmpty

\* A spawner that is empty once the tokens of S are removed has nothing lying.
LEMMA EmptyHasNone ==
  ASSUME TypeOK, OnceInv, NEW S, place' = Removed(S), NEW s \in Spawners, Empty(s, S)
  PROVE  \A e \in Tokens : place'[e] # s
<1> SUFFICES ASSUME NEW e \in Tokens, place'[e] = s PROVE FALSE
  OBVIOUS
<1>1. place[e] = s /\ e \notin S
  BY RemovedPlaces, PlacesDiffer
<1>2. cur[s] = e /\ e # None
  BY <1>1, TokensAssumption DEF OnceInv, LyingIsCurrent
<1>3. QED BY <1>1, <1>2, PlacesDiffer DEF Empty

LEMMA OnceScenario ==
  ASSUME TypeOK, OnceInv, Scenario \/ RemoveTokenDef
  PROVE  OnceInv'
<1>1. ASSUME NEW n \in Limits, SetupToken(n) PROVE OnceInv'
  BY <1>1 DEF OnceInv, LyingIsCurrent, PlayersHaveOne, DisabledIsEmpty, SetupToken, spawners
<1>2. ASSUME NEW e \in Tokens, NEW adjust \in BOOLEAN, RemoveTokenEnt(e, adjust) PROVE OnceInv'
  <2>1. place' = Removed({e}) /\ enabled' = enabled
    BY <1>2 DEF RemoveTokenEnt
  <2>2. CASE ~adjust
    <3>1. cur' = cur
      BY <1>2, <2>2 DEF RemoveTokenEnt
    <3>2. QED BY <2>1, <3>1, RemovedPlaces, TakingAwayKeepsOnce DEF OnceInv, DisabledIsEmpty
  <2>3. CASE adjust
    <3>1. PICK R \in SUBSET {s \in reserved : Empty(s, {e})} : Release(R)
      BY <1>2, <2>3 DEF RemoveTokenEnt
    <3>2. \A s \in Spawners : cur'[s] = IF s \in R THEN None ELSE cur[s]
      BY <3>1 DEF Release
    <3>3. \A s \in R : s \in Spawners => \A f \in Tokens : place'[f] # s
      BY <2>1, <3>1, EmptyHasNone
    <3>4. QED BY <2>1, <3>2, <3>3, RemovedPlaces, TakingAwayKeepsOnce DEF OnceInv, DisabledIsEmpty
  <2>4. QED BY <2>2, <2>3
<1>3. ASSUME NEW e \in Tokens, NEW p \in Players, TransferToken(e, p) PROVE OnceInv'
  <2>1. cur' = cur /\ enabled' = enabled /\ place[e] \in Players
    BY <1>3 DEF TransferToken, spawners
  <2>2. CASE place' = [place EXCEPT ![e] = Limbo]
    BY <2>1, <2>2, TakingAwayKeepsOnce DEF OnceInv, DisabledIsEmpty, TypeOK
  <2>3. CASE HeldBy(p) \ {e} = {} /\ place' = [place EXCEPT ![e] = p]
    <3>1. \A f \in Tokens \ {e} : place[f] # p /\ place'[f] = place[f]
      BY <2>3 DEF HeldBy, TypeOK
    <3>2. place'[e] = p
      BY <2>3 DEF TypeOK
    <3>3. QED BY <2>1, <3>1, <3>2, PlacesDiffer
               DEF OnceInv, LyingIsCurrent, PlayersHaveOne, DisabledIsEmpty
  <2>4. QED BY <1>3, <2>2, <2>3 DEF TransferToken
<1>4. CASE Reset
  <2>1. place' = Removed(known \cup Held(reserved)) /\ enabled' = enabled /\ Release(reserved)
    BY <1>4 DEF Reset
  <2>2. \A s \in Spawners : cur'[s] = IF s \in reserved THEN None ELSE cur[s]
    BY <2>1 DEF Release
  <2>3. \A s \in reserved : Empty(s, known \cup Held(reserved))
    BY DEF Empty, Held
  <2>4. \A s \in reserved : s \in Spawners => \A f \in Tokens : place'[f] # s
    BY <2>1, <2>3, EmptyHasNone
  <2>5. QED BY <2>1, <2>2, <2>4, RemovedPlaces, TakingAwayKeepsOnce DEF OnceInv, DisabledIsEmpty
<1>5. CASE RemoveTokenDef
  <2>1. place' = Removed(known) /\ enabled' = enabled
    BY <1>5 DEF RemoveTokenDef
  <2>2. PICK R \in Realigned(reserved, gone, known) : Release(R)
    BY <1>5 DEF RemoveTokenDef
  <2>3. \A s \in Spawners : cur'[s] = IF s \in R THEN None ELSE cur[s]
    BY <2>2 DEF Release
  <2>4. \A s \in R : s \in Spawners => \A f \in Tokens : place'[f] # s
    BY <2>1, <2>2, RealignedAreEmpty, EmptyHasNone
  <2>5. QED BY <2>1, <2>3, <2>4, RemovedPlaces, TakingAwayKeepsOnce DEF OnceInv, DisabledIsEmpty
<1>6. QED BY <1>1, <1>2, <1>3, <1>4, <1>5 DEF Scenario

LEMMA OncePlay ==
  ASSUME TypeOK, OnceInv, Play
  PROVE  OnceInv'
<1>1. ASSUME NEW e \in Tokens, NEW p \in Players, PickUp(e, p) PROVE OnceInv'
  <2>1. cur' = cur /\ enabled' = enabled
    BY <1>1 DEF PickUp, spawners
  <2>2. \A f \in Tokens \ {e} : place[f] # p /\ place'[f] = place[f]
    BY <1>1 DEF PickUp, HeldBy, TypeOK
  <2>3. place'[e] = p
    BY <1>1 DEF PickUp, TypeOK
  <2>4. QED BY <2>1, <2>2, <2>3, PlacesDiffer
             DEF OnceInv, LyingIsCurrent, PlayersHaveOne, DisabledIsEmpty
<1>2. ASSUME NEW e \in Tokens, Drop(e) PROVE OnceInv'
  <2>1. cur' = cur /\ enabled' = enabled /\ place' = [place EXCEPT ![e] = Ground]
    BY <1>2 DEF Drop, spawners
  <2>2. QED BY <2>1, TakingAwayKeepsOnce DEF OnceInv, DisabledIsEmpty, TypeOK
<1>3. ASSUME NEW e \in Tokens, Expire(e) PROVE OnceInv'
  <2>1. cur' = cur /\ enabled' = enabled /\ place' = Removed({e})
    BY <1>3 DEF Expire, spawners
  <2>2. QED BY <2>1, RemovedPlaces, TakingAwayKeepsOnce DEF OnceInv, DisabledIsEmpty
<1>4. ASSUME NEW p \in Players, Strip(p) PROVE OnceInv'
  <2>1. cur' = cur /\ enabled' = enabled /\ place' = Removed(HeldBy(p))
    BY <1>4 DEF Strip, spawners
  <2>2. QED BY <2>1, RemovedPlaces, TakingAwayKeepsOnce DEF OnceInv, DisabledIsEmpty
<1>5. ASSUME NEW s \in Spawners, Enable(s) PROVE OnceInv'
  <2>1. cur' = cur /\ place' = place /\ \A t \in Spawners : enabled[t] => enabled'[t]
    BY <1>5 DEF Enable, TypeOK
  <2>2. QED BY <2>1, TakingAwayKeepsOnce DEF OnceInv, DisabledIsEmpty
<1>6. ASSUME NEW s \in Spawners, Disable(s) PROVE OnceInv'
  <2>1. /\ cur' = [cur EXCEPT ![s] = None] /\ place' = Removed(Held({s}))
        /\ enabled' = [enabled EXCEPT ![s] = FALSE]
    BY <1>6 DEF Disable
  <2>2. Empty(s, Held({s}))
    BY DEF Empty, Held
  <2>3. \A f \in Tokens : place'[f] # s
    BY <2>1, <2>2, EmptyHasNone
  <2>4. \A t \in Spawners \ {s} : cur'[t] = cur[t] /\ enabled'[t] = enabled[t]
    BY <2>1 DEF TypeOK
  <2>5. cur'[s] = None
    BY <2>1 DEF TypeOK
  <2>6. \A t \in Spawners : ~enabled'[t] => cur'[t] = None
    BY <2>4, <2>5 DEF OnceInv, DisabledIsEmpty
  <2>7. \A t \in Spawners : cur'[t] = cur[t] \/ \A f \in Tokens : place'[f] # t
    BY <2>3, <2>4
  <2>8. QED BY <2>1, <2>6, <2>7, RemovedPlaces, TakingAwayKeepsOnce
<1>7. CASE RoundStart
  <2>1. \A e \in Tokens : place'[e] \in {Dying, Limbo, Nowhere}
    BY <1>7 DEF RoundStart
  <2>2. \A s \in Spawners : cur'[s] = None
    BY <1>7 DEF RoundStart
  <2>3. QED BY <2>1, <2>2, PlacesDiffer DEF OnceInv, LyingIsCurrent, PlayersHaveOne, DisabledIsEmpty
<1>8. CASE RoundEnd
  BY <1>8 DEF RoundEnd, OnceInv, LyingIsCurrent, PlayersHaveOne, DisabledIsEmpty, spawners
<1>9. QED BY <1>1, <1>2, <1>3, <1>4, <1>5, <1>6, <1>7, <1>8 DEF Play

LEMMA OnceFrame ==
  ASSUME TypeOK, OnceInv, Frame
  PROVE  OnceInv'
<1>1. ASSUME NEW s \in Spawners, SpawnerThink(s) PROVE OnceInv'
  <2>1. enabled' = enabled /\ enabled[s]
    BY <1>1 DEF SpawnerThink
  <2>2. ASSUME NEW e \in Free, SpawnEnt(s, e) PROVE OnceInv'
    <3>1. e \in Tokens /\ cur'[s] = e /\ \A t \in Spawners \ {s} : cur'[t] = cur[t]
      BY <2>2 DEF SpawnEnt, Free, TypeOK
    <3>2. \A f \in Tokens \ {e} : place'[f] = Removed(Lying(s))[f]
      BY <2>2, <3>1, RemovedPlaces DEF SpawnEnt
    <3>3. \A f \in Tokens \ {e} : place'[f] \in {place[f], Dying} \ {s}
      <4> SUFFICES ASSUME NEW f \in Tokens \ {e} PROVE place'[f] \in {place[f], Dying} \ {s}
        OBVIOUS
      <4>1. place[f] = s => f \in Lying(s)
        BY TokensAssumption DEF OnceInv, LyingIsCurrent, Lying
      <4>2. QED BY <3>2, <4>1, RemovedPlaces, PlacesDiffer
    <3>4. place'[e] \in {s, Dying}
      BY <2>2, <3>1, RemovedPlaces DEF SpawnEnt
    <3>5. QED BY <2>1, <3>1, <3>3, <3>4, PlacesDiffer
               DEF OnceInv, LyingIsCurrent, PlayersHaveOne, DisabledIsEmpty
  <2>3. CASE /\ cur' = [cur EXCEPT ![s] = IF Lying(s) = {} THEN None ELSE cur[s]]
             /\ place' = place
    <3>1. Lying(s) = {} => \A e \in Tokens : place[e] # s
      BY TokensAssumption DEF OnceInv, LyingIsCurrent, Lying
    <3>2. \A t \in Spawners : cur'[t] = cur[t] \/ (t = s /\ Lying(s) = {} /\ cur'[t] = None)
      BY <2>3 DEF TypeOK
    <3>3. QED BY <2>1, <2>3, <3>1, <3>2, TakingAwayKeepsOnce DEF OnceInv, DisabledIsEmpty
  <2>4. QED BY <1>1, <2>2, <2>3 DEF SpawnerThink
<1>2. CASE EnforceTokens
  <2> DEFINE still == Listed.still
  <2>1. enabled' = enabled
    BY <1>2 DEF EnforceTokens
  <2>2. CASE place' = place /\ cur' = cur
    BY <2>1, <2>2, TakingAwayKeepsOnce DEF OnceInv, DisabledIsEmpty
  <2>3. ASSUME NEW X, NEW R \in Realigned(still, gone', X), place' = Removed(X),
               Release(R \cup (reserved \ still))
        PROVE  OnceInv'
    <3>1. \A s \in Spawners : cur'[s] = IF s \in R \cup (reserved \ still) THEN None ELSE cur[s]
      BY <2>3 DEF Release
    <3>2. \A s \in R : s \in Spawners => \A f \in Tokens : place'[f] # s
      BY <2>3, RealignedAreEmpty, EmptyHasNone
    <3>3. \A s \in reserved \ still : s \in Spawners => cur[s] = None
      BY DEF Listed, OnceInv, DisabledIsEmpty
    <3>4. QED BY <2>1, <2>3, <3>1, <3>2, <3>3, RemovedPlaces, TakingAwayKeepsOnce
                 DEF OnceInv, DisabledIsEmpty
  <2>4. QED BY <1>2, <2>2, <2>3 DEF EnforceTokens
<1>3. CASE EnforceNothing
  BY <1>3 DEF EnforceNothing, OnceInv, LyingIsCurrent, PlayersHaveOne, DisabledIsEmpty, spawners
<1>4. CASE NextPart
  <2>1. enabled' = enabled /\ CleanupDeleteList
    BY <1>4 DEF NextPart
  <2>2. \A e \in Tokens : place'[e] = IF Alive(e) THEN place[e] ELSE Nowhere
    BY <2>1 DEF CleanupDeleteList
  <2>3. \A s \in Spawners : cur'[s] = IF cur[s] # None /\ Alive(cur[s]) THEN cur[s] ELSE None
    BY <2>1 DEF CleanupDeleteList
  <2>4. \A s \in Spawners : cur'[s] = cur[s] \/ \A e \in Tokens : place'[e] # s
    BY <2>2, <2>3, PlacesDiffer, TokensAssumption DEF OnceInv, LyingIsCurrent, Alive, TypeOK
  <2>5. QED BY <2>1, <2>2, <2>3, <2>4, TakingAwayKeepsOnce DEF OnceInv, DisabledIsEmpty
<1>5. QED BY <1>1, <1>2, <1>3, <1>4 DEF Frame

LEMMA InvariantOnce == Spec => [](TypeOK /\ OnceInv)
<1>1. Init => OnceInv
  BY PlacesDiffer DEF Init, OnceInv, LyingIsCurrent, PlayersHaveOne, DisabledIsEmpty
<1>2. TypeOK /\ OnceInv /\ [Next]_vars => OnceInv'
  <2>1. ASSUME OnceInv, UNCHANGED vars PROVE OnceInv'
    BY <2>1 DEF OnceInv, LyingIsCurrent, PlayersHaveOne, DisabledIsEmpty, vars, spawners
  <2>2. QED BY <2>1, OnceScenario, OncePlay, OnceFrame DEF Next
<1>3. QED BY <1>1, <1>2, TokensTypeOK, PTL DEF Spec

(***************************************************************************)
(* However players, scenario, spawners and manager interleave, a spawner   *)
(* and a player have one token at most.                                    *)
(***************************************************************************)
THEOREM EachPlaceHasOne == Spec => []EachPlaceOnce
<1>1. TypeOK /\ OnceInv => EachPlaceOnce
  BY PlacesDiffer DEF TypeOK, OnceInv, LyingIsCurrent, PlayersHaveOne, EachPlaceOnce, Live, Alive
<1>2. QED BY <1>1, InvariantOnce, PTL

(***************************************************************************)
(* A spawner that thinks takes nothing from a player.                      *)
(***************************************************************************)
THEOREM ThinkingRobsNobody == Spec => ThinkRobsNobody
<1>1. ASSUME TypeOK, NEW s \in Spawners, SpawnerThink(s),
             NEW e \in Tokens, place[e] \in Players
      PROVE  place'[e] = place[e]
  <2>1. CASE place' = place
    BY <2>1
  <2>2. ASSUME NEW f \in Free, SpawnEnt(s, f) PROVE place'[e] = place[e]
    <3>1. f # e /\ e \notin Lying(s)
      BY <1>1, PlacesDiffer DEF Free, Lying
    <3>2. place'[e] = Removed(Lying(s))[e]
      BY <2>2, <3>1, RemovedPlaces, <1>1 DEF SpawnEnt
    <3>3. QED BY <1>1, <3>1, <3>2, RemovedPlaces
  <2>3. QED BY <1>1, <2>1, <2>2 DEF SpawnerThink
<1>2. TypeOK /\ [Next]_vars =>
        [\A s \in Spawners : SpawnerThink(s) =>
           \A e \in Tokens : place[e] \in Players => place'[e] = place[e]]_vars
  BY <1>1
<1>3. QED BY <1>2, TokensTypeOK, PTL DEF Spec, ThinkRobsNobody

-----------------------------------------------------------------------------
(***************************************************************************)
(* The books of the manager, for a scenario that removes no definition.    *)
(* Without a definition nothing is reserved, so that no spawner brings a   *)
(* token the manager does not hear of.                                     *)
(***************************************************************************)
Books == Accounted /\ (~defined => reserved = {})

LEMMA KeepIsNext == KeepNext => Next
BY DEF KeepNext, Next

LEMMA KeepInvariant == KeepSpec => [](TypeOK /\ OnceInv)
<1>1. [KeepNext]_vars => [Next]_vars
  BY KeepIsNext
<1>2. KeepSpec => Spec
  BY <1>1, PTL DEF KeepSpec, Spec
<1>3. QED BY <1>2, InvariantOnce

\* Most steps only take tokens away, and forget at most those they take.
LEMMA TakingAwayKeepsKnown ==
  ASSUME TypeOK, Live \subseteq known, NEW S, place' = Removed(S), known' = Forget(known, S)
  PROVE  (Live \subseteq known)'
BY RemovedPlaces, PlacesDiffer DEF Live, Alive, Forget

LEMMA ReleaseGivesBack ==
  ASSUME TypeOK, Overridden = reserved, NEW R \in SUBSET Spawners, Release(R)
  PROVE  Overridden' = reserved \ R
BY DEF Release, Overridden, TypeOK

LEMMA BooksScenario ==
  ASSUME TypeOK, Books, Scenario
  PROVE  Books'
<1>1. ASSUME NEW n \in Limits, SetupToken(n) PROVE Books'
  BY <1>1 DEF Books, Accounted, Live, Alive, Overridden, SetupToken, spawners
<1>2. ASSUME NEW e \in Tokens, NEW adjust \in BOOLEAN, RemoveTokenEnt(e, adjust) PROVE Books'
  <2>1. place' = Removed({e}) /\ known' = Forget(known, {e}) /\ defined /\ defined' = defined
    BY <1>2 DEF RemoveTokenEnt
  <2>2. (Live \subseteq known)'
    BY <2>1, TakingAwayKeepsKnown DEF Books, Accounted
  <2>3. CASE ~adjust
    <3>1. override' = override /\ reserved' = reserved
      BY <1>2, <2>3 DEF RemoveTokenEnt
    <3>2. QED BY <2>1, <2>2, <3>1 DEF Books, Accounted, Overridden
  <2>4. CASE adjust
    <3>1. PICK R \in SUBSET reserved : Release(R) /\ reserved' = reserved \ R
      BY <1>2, <2>4 DEF RemoveTokenEnt
    <3>2. R \subseteq Spawners
      BY <3>1 DEF TypeOK
    <3>3. Overridden' = reserved'
      BY <3>1, <3>2, ReleaseGivesBack DEF Books, Accounted
    <3>4. QED BY <2>1, <2>2, <3>3 DEF Books, Accounted
  <2>5. QED BY <2>3, <2>4
<1>3. ASSUME NEW e \in Tokens, NEW p \in Players, TransferToken(e, p) PROVE Books'
  <2>1. /\ known' = known /\ reserved' = reserved /\ override' = override /\ defined' = defined
        /\ \A f \in Tokens : place'[f] = place[f] \/ f = e
        /\ Alive(e)
    BY <1>3, PlacesDiffer DEF TransferToken, spawners, definition, TypeOK, Alive
  <2>2. QED BY <2>1 DEF Books, Accounted, Live, Alive, Overridden
<1>4. CASE Reset
  <2>1. /\ place' = Removed(known \cup Held(reserved)) /\ Release(reserved)
        /\ known' = {} /\ reserved' = {}
    BY <1>4 DEF Reset, RemoveDefinition
  <2>2. Live' = {}
    BY <2>1, RemovedPlaces, PlacesDiffer DEF Books, Accounted, Live, Alive
  <2>3. Overridden' = {}
    BY <2>1, ReleaseGivesBack DEF Books, Accounted, TypeOK
  <2>4. QED BY <2>1, <2>2, <2>3 DEF Books, Accounted
<1>5. QED BY <1>1, <1>2, <1>3, <1>4 DEF Scenario

LEMMA BooksPlay ==
  ASSUME TypeOK, Books, Play
  PROVE  Books'
<1>1. ASSUME NEW e \in Tokens, NEW p \in Players, PickUp(e, p) PROVE Books'
  <2>1. /\ known' = known /\ reserved' = reserved /\ override' = override /\ defined' = defined
        /\ \A f \in Tokens : place'[f] = place[f] \/ f = e
        /\ Alive(e)
    BY <1>1, PlacesDiffer DEF PickUp, spawners, definition, TypeOK, Alive
  <2>2. QED BY <2>1 DEF Books, Accounted, Live, Alive, Overridden
<1>2. ASSUME NEW e \in Tokens, Drop(e) PROVE Books'
  <2>1. /\ known' = known /\ reserved' = reserved /\ override' = override /\ defined' = defined
        /\ \A f \in Tokens : place'[f] = place[f] \/ f = e
        /\ Alive(e)
    BY <1>2, PlacesDiffer DEF Drop, spawners, definition, TypeOK, Alive
  <2>2. QED BY <2>1 DEF Books, Accounted, Live, Alive, Overridden
<1>3. ASSUME NEW e \in Tokens, Expire(e) PROVE Books'
  <2>1. place' = Removed({e}) /\ known' = Forget(known, {e})
    BY <1>3 DEF Expire
  <2>2. QED BY <1>3, <2>1, TakingAwayKeepsKnown
            DEF Expire, Books, Accounted, Overridden, spawners, definition
<1>4. ASSUME NEW p \in Players, Strip(p) PROVE Books'
  <2>1. place' = Removed(HeldBy(p)) /\ known' = Forget(known, HeldBy(p))
    BY <1>4 DEF Strip
  <2>2. QED BY <1>4, <2>1, TakingAwayKeepsKnown
            DEF Strip, Books, Accounted, Overridden, spawners, definition
<1>5. ASSUME NEW s \in Spawners, Enable(s) PROVE Books'
  BY <1>5 DEF Enable, Books, Accounted, Live, Alive, Overridden, definition
<1>6. ASSUME NEW s \in Spawners, Disable(s) PROVE Books'
  <2>1. place' = Removed(Held({s})) /\ known' = Forget(known, Held({s}))
    BY <1>6 DEF Disable
  <2>2. QED BY <1>6, <2>1, TakingAwayKeepsKnown
            DEF Disable, Books, Accounted, Overridden, definition
<1>7. CASE RoundStart
  <2>1. Live' = {}
    BY <1>7, PlacesDiffer DEF RoundStart, Books, Accounted, Live, Alive
  <2>2. PICK P \in IF defined THEN Chosen(known', {}, gone', StartsEnabled) ELSE {{}} :
          reserved' = P /\ override' = [s \in Spawners |-> s \in P]
    BY <1>7 DEF RoundStart
  <2>3. P \subseteq Spawners
    BY <2>2, ChosenSuit, TokensAssumption
  <2>4. Overridden' = reserved'
    BY <2>2, <2>3 DEF Overridden
  <2>5. defined' = defined /\ (~defined => reserved' = {})
    BY <1>7, <2>2 DEF RoundStart, definition
  <2>6. QED BY <2>1, <2>4, <2>5 DEF Books, Accounted
<1>8. CASE RoundEnd
  BY <1>8 DEF RoundEnd, Books, Accounted, Live, Alive, Overridden, spawners, definition
<1>9. QED BY <1>1, <1>2, <1>3, <1>4, <1>5, <1>6, <1>7, <1>8 DEF Play

LEMMA BooksFrame ==
  ASSUME TypeOK, Books, Frame
  PROVE  Books'
<1>1. ASSUME NEW s \in Spawners, SpawnerThink(s) PROVE Books'
  <2>1. reserved' = reserved /\ override' = override /\ defined' = defined
    BY <1>1 DEF SpawnerThink, definition
  <2>2. (Live \subseteq known)'
    <3>1. CASE place' = place /\ known' = known
      BY <3>1 DEF Books, Accounted, Live, Alive
    <3>2. ASSUME override[s], NEW e \in Free, SpawnEnt(s, e) PROVE (Live \subseteq known)'
      <4>1. defined /\ s \in reserved
        BY <3>2 DEF Books, Accounted, Overridden
      <4>2. known' = Forget(known, Lying(s)) \cup {e}
        BY <3>2, <4>1 DEF SpawnEnt
      <4>3. \A f \in Tokens \ {e} : place'[f] = Removed(Lying(s))[f]
        BY <3>2, RemovedPlaces DEF SpawnEnt
      <4>4. QED BY <4>2, <4>3, RemovedPlaces, PlacesDiffer DEF Books, Accounted, Live, Alive, Forget
    <3>3. QED BY <1>1, <3>1, <3>2 DEF SpawnerThink
  <2>3. QED BY <2>1, <2>2 DEF Books, Accounted, Overridden
<1>2. CASE EnforceTokens
  <2> DEFINE found == {e \in Tokens : place[e] # Nowhere}
             still == Listed.still
  <2>1. still \subseteq reserved /\ reserved \subseteq Spawners /\ Live \subseteq found
    BY PlacesDiffer DEF Listed, TypeOK, Live, Alive
  <2>2. ASSUME NEW P \in SUBSET Spawners, reserved' = still \cup P,
               override' = [s \in Spawners |->
                 s \in P \/ (override[s] /\ s \notin reserved \ still)],
               known' = found, place' = place
        PROVE  Books'
    <3>1. \A s \in Spawners : override[s] <=> s \in reserved
      BY DEF Books, Accounted, Overridden
    <3>2. \A s \in Spawners : override'[s] <=> s \in reserved'
      BY <2>1, <2>2, <3>1
    <3>3. Overridden' = reserved'
      BY <2>1, <2>2, <3>2 DEF Overridden
    <3>4. QED BY <1>2, <2>1, <2>2, <3>3
                 DEF EnforceTokens, Books, Accounted, Live, Alive, definition
  <2>3. ASSUME NEW X \in SUBSET found, NEW R \in Realigned(still, gone', X),
               place' = Removed(X), known' = Forget(found, X),
               Release(R \cup (reserved \ still)), reserved' = still \ R
        PROVE  Books'
    <3>1. R \cup (reserved \ still) \in SUBSET Spawners
      BY <2>1, RealignedAreEmpty
    <3>2. Overridden' = reserved'
      BY <2>1, <2>3, <3>1, ReleaseGivesBack DEF Books, Accounted
    <3>3. (Live \subseteq known)'
      BY <2>1, <2>3, RemovedPlaces, PlacesDiffer DEF Live, Alive, Forget
    <3>4. QED BY <1>2, <3>2, <3>3 DEF EnforceTokens, Books, Accounted, definition
  <2>4. ASSUME NEW P, P \in IF Cardinality(found) - limit = 0 THEN {{}}
                            ELSE Chosen(found, still, gone',
                                        {s \in Spawners : enabled[s] /\ ~override[s]})
        PROVE  P \subseteq Spawners
    BY <2>4, ChosenSuit
  <2>5. QED BY <1>2, <2>2, <2>3, <2>4 DEF EnforceTokens
<1>3. CASE EnforceNothing
  BY <1>3 DEF EnforceNothing, Books, Accounted, Live, Alive, Overridden, spawners, definition
<1>4. CASE NextPart
  <2>1. \A e \in Tokens : place'[e] = IF Alive(e) THEN place[e] ELSE Nowhere
    BY <1>4 DEF NextPart, CleanupDeleteList
  <2>2. Live' \subseteq Live
    BY <2>1, PlacesDiffer DEF Live, Alive
  <2>3. QED BY <1>4, <2>2 DEF NextPart, Books, Accounted, Overridden, definition
<1>5. QED BY <1>1, <1>2, <1>3, <1>4 DEF Frame

LEMMA InvariantBooks == KeepSpec => [](TypeOK /\ OnceInv /\ Books)
<1>1. Init => Books
  <2> SUFFICES ASSUME Init PROVE Books
    OBVIOUS
  <2>1. Live = {}
    BY DEF Init, Live, Alive
  <2>2. Overridden = {} /\ reserved = {}
    BY DEF Init, Overridden
  <2>3. QED BY <2>1, <2>2 DEF Books, Accounted
<1>2. TypeOK /\ Books /\ [KeepNext]_vars => Books'
  <2>1. ASSUME Books, UNCHANGED vars PROVE Books'
    BY <2>1 DEF Books, Accounted, Live, Alive, Overridden, vars, spawners, definition
  <2>2. QED BY <2>1, BooksScenario, BooksPlay, BooksFrame DEF KeepNext
<1>3. QED BY <1>1, <1>2, KeepInvariant, PTL DEF KeepSpec

(***************************************************************************)
(* As long as no definition is removed the manager knows every token, and  *)
(* the overridden spawners are those it has reserved.                      *)
(***************************************************************************)
THEOREM BooksAreRight == KeepSpec => []Accounted
<1>1. Books => Accounted
  BY DEF Books
<1>2. QED BY <1>1, InvariantBooks, PTL

-----------------------------------------------------------------------------
(***************************************************************************)
(* The refinement.  A step of the manager, the spawners or the players is  *)
(* one step of TokenPool: mostly tokens leave, or nothing happens that     *)
(* TokenPool sees.                                                         *)
(***************************************************************************)
At == [e \in Tokens |-> IF Alive(e) THEN place[e] ELSE Nowhere]

\* TokenPool has its own copy of the standard operator.
LEMMA SameCardinality == ASSUME NEW S PROVE Pool!Cardinality(S) = Cardinality(S)
BY Zenon DEF Pool!Cardinality, Cardinality

LEMMA TokensLeave ==
  ASSUME TypeOK, TypeOK',
         \A e \in Tokens : Alive(e)' => place'[e] = place[e]
  PROVE  Pool!Leave
<1>1. \A e \in Tokens : At'[e] \in {At[e], Nowhere}
  BY PlacesDiffer DEF At, Alive
<1>2. At' \in [Tokens -> Pool!Places \cup {Nowhere}]
  BY PlacesDiffer DEF At, TypeOK, Pool!Places, Alive
<1>3. limit' \in Int
  BY DEF TypeOK
<1>4. QED BY <1>1, <1>2, <1>3 DEF Pool!Leave, At

\* Marked or deleted is the same to TokenPool.
LEMMA RemovedLeave ==
  ASSUME TypeOK, TypeOK', NEW S, place' = Removed(S)
  PROVE  Pool!Leave
<1>1. \A e \in Tokens : Alive(e)' => place'[e] = place[e]
  BY RemovedPlaces, PlacesDiffer DEF Alive
<1>2. QED BY <1>1, TokensLeave

LEMMA UnmovedLeave ==
  ASSUME TypeOK, TypeOK', place' = place
  PROVE  Pool!Leave
BY TokensLeave

LEMMA PoolScenario ==
  ASSUME TypeOK, TypeOK', OnceInv, Scenario
  PROVE  [Pool!Next]_(Pool!vars)
<1>1. ASSUME NEW n \in Limits, SetupToken(n) PROVE Pool!Leave
  BY <1>1, UnmovedLeave DEF SetupToken
<1>2. ASSUME NEW e \in Tokens, NEW adjust \in BOOLEAN, RemoveTokenEnt(e, adjust) PROVE Pool!Leave
  BY <1>2, RemovedLeave DEF RemoveTokenEnt
<1>3. ASSUME NEW e \in Tokens, NEW p \in Players, TransferToken(e, p)
      PROVE  Pool!LetGo(e, Limbo) \/ Pool!Take(e, p) \/ Pool!Leave
  <2>1. place[e] \in Players /\ limit' = limit /\ At[e] = place[e] /\ Alive(e)
    BY <1>3, PlacesDiffer DEF TransferToken, definition, At, Alive
  <2>2. CASE place' = [place EXCEPT ![e] = Limbo]
    <3>1. At' = [At EXCEPT ![e] = Limbo]
      BY <2>2, PlacesDiffer DEF At, Alive, TypeOK
    <3>2. QED BY <2>1, <3>1 DEF Pool!LetGo, At
  <2>3. CASE HeldBy(p) \ {e} = {} /\ place' = [place EXCEPT ![e] = p] /\ place[e] # p
    <3>1. At' = [At EXCEPT ![e] = p]
      BY <2>3, PlacesDiffer DEF At, Alive, TypeOK
    <3>2. \A f \in Tokens : At[f] # p
      BY <2>3, PlacesDiffer DEF HeldBy, At
    <3>3. At[e] # Nowhere
      BY <2>1, PlacesDiffer
    <3>4. QED BY <2>1, <3>1, <3>2, <3>3 DEF Pool!Take, At
  <2>4. CASE place' = [place EXCEPT ![e] = p] /\ place[e] = p
    <3>1. place' = place
      BY <2>4 DEF TypeOK
    <3>2. QED BY <3>1, UnmovedLeave
  <2>5. QED BY <1>3, <2>2, <2>3, <2>4 DEF TransferToken
<1>4. CASE Reset
  <2>1. Pool!Leave
    BY <1>4, RemovedLeave DEF Reset
  <2>2. QED BY <2>1 DEF Pool!Next
<1>5. QED BY <1>1, <1>2, <1>3, <1>4 DEF Scenario, Pool!Next

LEMMA PoolPlay ==
  ASSUME TypeOK, TypeOK', OnceInv, Play
  PROVE  [Pool!Next]_(Pool!vars)
<1>1. ASSUME NEW e \in Tokens, NEW p \in Players, PickUp(e, p) PROVE Pool!Take(e, p)
  <2>1. At' = [At EXCEPT ![e] = p]
    <3>1. place' = [place EXCEPT ![e] = p] /\ place \in [Tokens -> Spots]
      BY <1>1 DEF PickUp, TypeOK, Spots
    <3>2. place'[e] = p /\ \A f \in Tokens \ {e} : place'[f] = place[f]
      BY <3>1
    <3>3. QED BY <3>2, PlacesDiffer DEF At, Alive
  <2>2. \A f \in Tokens : At[f] # p
    BY <1>1, PlacesDiffer DEF PickUp, HeldBy, At
  <2>3. At[e] # Nowhere /\ limit' = limit
    BY <1>1, PlacesDiffer DEF PickUp, At, Alive, definition
  <2>4. QED BY <2>1, <2>2, <2>3 DEF Pool!Take, At
<1>2. ASSUME NEW e \in Tokens, Drop(e) PROVE Pool!LetGo(e, Ground)
  <2>1. At' = [At EXCEPT ![e] = Ground]
    <3>1. place' = [place EXCEPT ![e] = Ground] /\ place \in [Tokens -> Spots]
      BY <1>2 DEF Drop, TypeOK, Spots
    <3>2. place'[e] = Ground /\ \A f \in Tokens \ {e} : place'[f] = place[f]
      BY <3>1
    <3>3. QED BY <3>2, PlacesDiffer DEF At, Alive
  <2>2. At[e] \in Players /\ limit' = limit
    BY <1>2, PlacesDiffer DEF Drop, At, Alive, definition
  <2>3. QED BY <2>1, <2>2 DEF Pool!LetGo, At
<1>3. ASSUME NEW e \in Tokens, Expire(e) PROVE Pool!Leave
  BY <1>3, RemovedLeave DEF Expire
<1>4. ASSUME NEW p \in Players, Strip(p) PROVE Pool!Leave
  BY <1>4, RemovedLeave DEF Strip
<1>5. ASSUME NEW s \in Spawners, Enable(s) PROVE Pool!Leave
  BY <1>5, UnmovedLeave DEF Enable
<1>6. ASSUME NEW s \in Spawners, Disable(s) PROVE Pool!Leave
  BY <1>6, RemovedLeave DEF Disable
<1>7. CASE RoundStart
  <2>1. \A e \in Tokens : Alive(e)' => place'[e] = place[e]
    BY <1>7, PlacesDiffer DEF RoundStart, Alive
  <2>2. QED BY <2>1, TokensLeave DEF Pool!Next
<1>8. CASE RoundEnd
  BY <1>8, UnmovedLeave DEF RoundEnd, Pool!Next
<1>9. QED BY <1>1, <1>2, <1>3, <1>4, <1>5, <1>6, <1>7, <1>8 DEF Play, Pool!Next

(***************************************************************************)
(* A spawner that brings a token does so within the limit.  The manager    *)
(* counts the tokens it knows, and it knows all of them.                   *)
(***************************************************************************)
LEMMA PoolAppear ==
  ASSUME TypeOK, TypeOK', OnceInv', Books, Books', NEW s \in Spawners, NEW e \in Free,
         override[s], ShouldSpawnToken, SpawnEnt(s, e), UNCHANGED <<limit, reserved>>
  PROVE  Pool!Appear(e, s)
<1>1. e \in Tokens /\ place[e] = Nowhere /\ s \in reserved /\ defined
  BY DEF Free, Books, Accounted, Overridden
<1>2. place'[e] = s /\ \A f \in Tokens \ {e} : place'[f] = Removed(Lying(s))[f]
  BY <1>1, RemovedPlaces DEF SpawnEnt
<1>3. \A f \in Tokens \ {e} : At'[f] \in {At[f], Nowhere}
  BY <1>2, RemovedPlaces, PlacesDiffer DEF At, Alive
<1>4. At[e] = Nowhere /\ At'[e] = s
  BY <1>1, <1>2, PlacesDiffer DEF At, Alive
<1>5. At' \in [Tokens -> Pool!Places \cup {Nowhere}]
  BY PlacesDiffer DEF At, TypeOK, Pool!Places, Alive
<1>6. \A f \in Tokens \ {e} : At'[f] # s
  <2>1. cur'[s] = e
    BY DEF SpawnEnt, TypeOK
  <2>2. \A f \in Tokens \ {e} : place'[f] # s
    BY <2>1 DEF OnceInv, LyingIsCurrent
  <2>3. QED BY <2>2, PlacesDiffer DEF At
<1>7. limit # Unlimited => Cardinality({f \in Tokens : At'[f] # Nowhere}) <= limit
  <2> SUFFICES ASSUME limit # Unlimited
               PROVE  Cardinality({f \in Tokens : At'[f] # Nowhere}) <= limit
    OBVIOUS
  <2> DEFINE In == {f \in Tokens : At'[f] # Nowhere}
  <2>1. Cardinality(known) < limit
    BY <1>1 DEF ShouldSpawnToken
  <2>2. In \subseteq known \cup {e}
    <3>1. In = Live'
      BY PlacesDiffer DEF At, Live, Alive
    <3>2. known' \subseteq known \cup {e}
      BY <1>1 DEF SpawnEnt, Forget
    <3>3. QED BY <3>1, <3>2 DEF Books, Accounted
  <2>3. IsFiniteSet(known \cup {e}) /\ Cardinality(known \cup {e}) <= Cardinality(known) + 1
    <3>1. IsFiniteSet(known) /\ Cardinality(known) \in Nat
      BY SetsAreFinite
    <3>2. /\ IsFiniteSet(known \cup {e})
          /\ Cardinality(known \cup {e}) = IF e \in known THEN Cardinality(known)
                                           ELSE Cardinality(known) + 1
      BY <3>1, FS_AddElement, Zenon
    <3>3. QED BY <3>1, <3>2
  <2>4. IsFiniteSet(In) /\ Cardinality(In) <= Cardinality(known \cup {e})
    BY <2>2, <2>3, FS_Subset
  <2>5. /\ Cardinality(In) \in Nat /\ Cardinality(known \cup {e}) \in Nat
        /\ Cardinality(known) \in Nat /\ limit \in Int
    BY <2>3, <2>4, FS_CardinalityType, SetsAreFinite DEF TypeOK
  <2>6. QED BY <2>1, <2>3, <2>4, <2>5
<1>8. Pool!OthersStay(e)
  BY <1>3, <1>5 DEF Pool!OthersStay, At
<1>9. QED BY <1>1, <1>4, <1>6, <1>7, <1>8, SameCardinality DEF Pool!Appear, At

LEMMA PoolFrame ==
  ASSUME TypeOK, TypeOK', OnceInv, OnceInv', Books, Books', Frame
  PROVE  [Pool!Next]_(Pool!vars)
<1>1. ASSUME NEW s \in Spawners, SpawnerThink(s) PROVE [Pool!Next]_(Pool!vars)
  <2>1. CASE place' = place
    BY <2>1, UnmovedLeave DEF Pool!Next
  <2>2. ASSUME override[s], ShouldSpawnToken, NEW e \in Free, SpawnEnt(s, e)
        PROVE  \E t \in Tokens, r \in Spawners : Pool!Appear(t, r)
    <3>1. e \in Tokens
      BY DEF Free
    <3>2. UNCHANGED <<limit, reserved>>
      BY <1>1 DEF SpawnerThink, definition
    <3>3. QED BY <2>2, <3>1, <3>2, PoolAppear
  <2>3. QED BY <1>1, <2>1, <2>2 DEF SpawnerThink, Pool!Next
<1>2. CASE EnforceTokens
  <2>1. place' = place \/ \E X : place' = Removed(X)
    BY <1>2 DEF EnforceTokens
  <2>2. Pool!Leave
    BY <2>1, UnmovedLeave, RemovedLeave
  <2>3. QED BY <2>2 DEF Pool!Next
<1>3. CASE EnforceNothing
  BY <1>3, UnmovedLeave DEF EnforceNothing, Pool!Next
<1>4. CASE NextPart
  <2>1. \A e \in Tokens : Alive(e)' => place'[e] = place[e]
    BY <1>4, PlacesDiffer DEF NextPart, CleanupDeleteList, Alive
  <2>2. QED BY <2>1, TokensLeave DEF Pool!Next
<1>5. QED BY <1>1, <1>2, <1>3, <1>4 DEF Frame

(***************************************************************************)
(* As long as no definition is removed the manager, its spawners and the   *)
(* players implement TokenPool: for any number of tokens, spawners and     *)
(* players a token appears only within the limit of that moment, where no  *)
(* other lies, and is taken by one player at a time.                       *)
(***************************************************************************)
THEOREM TokensImplementPool == KeepSpec => ImplementsTokenPool
<1>1. Init => Pool!Init
  BY PlacesDiffer DEF Init, Pool!Init, Alive
<1>2. /\ TypeOK /\ TypeOK' /\ OnceInv /\ OnceInv' /\ Books /\ Books'
      /\ [KeepNext]_vars
      => [Pool!Next]_(Pool!vars)
  <2>1. ASSUME UNCHANGED vars PROVE UNCHANGED Pool!vars
    BY <2>1 DEF vars, definition, Pool!vars, Alive
  <2>2. QED BY <2>1, PoolScenario, PoolPlay, PoolFrame DEF KeepNext
<1>3. QED BY <1>1, <1>2, InvariantBooks, PTL DEF KeepSpec, ImplementsTokenPool, Pool!Spec

-----------------------------------------------------------------------------
(***************************************************************************)
(* What TokenPool promises by itself, and the manager with it.             *)
(***************************************************************************)
OnceIn(f) ==
  \A t, u \in Tokens : f[t] = f[u] /\ f[t] \in Spawners \cup Players => t = u

LEMMA PoolStepOneEach ==
  ASSUME Pool!OneEach, [Pool!Next]_(Pool!vars)
  PROVE  Pool!OneEach'
<1>0. OnceIn(At) /\ (OnceIn(At') => Pool!OneEach') /\ At = [e \in Tokens |-> At[e]]
  BY DEF Pool!OneEach, At, OnceIn
<1>1. ASSUME NEW t \in Tokens, NEW s \in Spawners, Pool!Appear(t, s)
      PROVE  OnceIn(At')
  <2>1. At'[t] = s /\ \A u \in Tokens \ {t} : At'[u] # s /\ At'[u] \in {At[u], Nowhere}
    BY <1>1 DEF Pool!Appear, Pool!OthersStay, At
  <2>2. QED BY <1>0, <2>1, PlacesDiffer DEF OnceIn
<1>2. ASSUME NEW t \in Tokens, NEW p \in Players, Pool!Take(t, p)
      PROVE  OnceIn(At')
  <2>1. At' = [At EXCEPT ![t] = p] /\ \A u \in Tokens : At[u] # p
    BY <1>2 DEF Pool!Take, At
  <2>2. \A u \in Tokens : At'[u] = IF u = t THEN p ELSE At[u]
    BY <1>0, <2>1
  <2>3. QED BY <1>0, <2>1, <2>2 DEF OnceIn
<1>3. ASSUME NEW t \in Tokens, NEW e \in {Ground, Limbo}, Pool!LetGo(t, e)
      PROVE  OnceIn(At')
  <2>1. At' = [At EXCEPT ![t] = e]
    BY <1>3 DEF Pool!LetGo, At
  <2>2. \A u \in Tokens : At'[u] = IF u = t THEN e ELSE At[u]
    BY <1>0, <2>1
  <2>3. QED BY <1>0, <2>2, PlacesDiffer DEF OnceIn
<1>4. CASE Pool!Leave
  <2>1. \A u \in Tokens : At'[u] \in {At[u], Nowhere}
    BY <1>4 DEF Pool!Leave, At
  <2>2. QED BY <1>0, <2>1, PlacesDiffer DEF OnceIn
<1>5. CASE Pool!Next
  BY <1>0, <1>1, <1>2, <1>3, <1>4, <1>5 DEF Pool!Next
<1>6. CASE ~Pool!Next
  <2>1. At' = At
    BY <1>6 DEF Pool!vars, At
  <2>2. QED BY <1>0, <2>1
<1>7. QED BY <1>0, <1>5, <1>6

(***************************************************************************)
(* In every behaviour of TokenPool a spawner and a player have one token   *)
(* at most: that a token appears, is taken or let go needs no more than    *)
(* the place it goes to to be free of another one.                         *)
(***************************************************************************)
THEOREM PoolHasOneEach == Pool!Spec => []Pool!OneEach
<1>1. Pool!Init => Pool!OneEach
  BY TokensAssumption DEF Pool!Init, Pool!OneEach
<1>2. QED BY <1>1, PoolStepOneEach, PTL DEF Pool!Spec

LEMMA PoolStepLimited ==
  [Pool!Next]_(Pool!vars) =>
    [\/ Pool!InPlay' \subseteq Pool!InPlay
     \/ limit = Unlimited
     \/ Pool!Cardinality(Pool!InPlay') <= limit]_(Pool!vars)
<1>0. /\ Pool!InPlay = {t \in Tokens : At[t] # Nowhere}
      /\ Pool!InPlay' = {t \in Tokens : At'[t] # Nowhere}
      /\ At = [e \in Tokens |-> At[e]]
  BY DEF Pool!InPlay, At
<1>1. ASSUME NEW t \in Tokens, NEW s \in Spawners, Pool!Appear(t, s)
      PROVE  limit = Unlimited \/ Pool!Cardinality(Pool!InPlay') <= limit
  BY <1>1 DEF Pool!Appear, Pool!InPlay
<1>2. ASSUME NEW t \in Tokens, NEW p \in Players, Pool!Take(t, p)
      PROVE  Pool!InPlay' \subseteq Pool!InPlay
  <2>1. At' = [At EXCEPT ![t] = p] /\ At[t] # Nowhere
    BY <1>2 DEF Pool!Take, At
  <2>2. \A u \in Tokens \ {t} : At'[u] = At[u]
    BY <1>0, <2>1
  <2>3. QED BY <1>0, <2>1, <2>2
<1>3. ASSUME NEW t \in Tokens, NEW e \in {Ground, Limbo}, Pool!LetGo(t, e)
      PROVE  Pool!InPlay' \subseteq Pool!InPlay
  <2>1. At' = [At EXCEPT ![t] = e] /\ At[t] # Nowhere
    BY <1>3, PlacesDiffer DEF Pool!LetGo, At
  <2>2. \A u \in Tokens \ {t} : At'[u] = At[u]
    BY <1>0, <2>1
  <2>3. QED BY <1>0, <2>1, <2>2
<1>4. ASSUME Pool!Leave
      PROVE  Pool!InPlay' \subseteq Pool!InPlay
  <2>1. \A u \in Tokens : At'[u] \in {At[u], Nowhere}
    BY <1>4 DEF Pool!Leave, At
  <2>2. QED BY <1>0, <2>1
<1>5. QED BY <1>1, <1>2, <1>3, <1>4 DEF Pool!Next

(***************************************************************************)
(* More tokens are in play after a step of the manager, a spawner, a       *)
(* player or the scenario only if the limit allows as many as there are    *)
(* then: TokenPool has that property, and the manager inherits it.         *)
(***************************************************************************)
THEOREM TokensWithinLimit == KeepSpec => Pool!WithinLimit
<1>1. Pool!Spec => Pool!WithinLimit
  BY PoolStepLimited, PTL DEF Pool!Spec, Pool!WithinLimit
<1>2. QED BY <1>1, TokensImplementPool DEF ImplementsTokenPool

=============================================================================
