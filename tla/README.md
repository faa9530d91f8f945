# A verification development for GoldenEye: Source

GoldenEye: Source is a multiplayer modification of Half-Life 2. Its own code is
in `src/game/server/ges`, `src/game/shared/ges` and `src/game/client/ges`,
about 60,000 lines on top of the Source SDK, which is the rest of the
repository. This directory holds TLA+ models of the game's server-side core,
the TLC runs that check them on small instances and TLAPS proofs for every
value of their constants.

What is modelled is what decides when a game begins, ends and moves on (the
game timer, the match with its rounds, scores and changes of level, the vote
kick), who takes part in it (spawn states, teams and bots) and what it is
played for (the token manager with its spawners). The inventory lists the rest,
the plan says what could come next.

Paths below are relative to `src/game/`; `gemp_gamerules.cpp` and the
`ge_gamerules` and `ge_game_timer` files are in `shared/ges`, `ge_gameplay.*`
and `gemp_player.*` and `ge_tokenmanager.*` in `server/ges`, `ge_spawner.*` in
`server/ges/ent`.

## Inventory

The server is one thread. It runs a frame (the thinks of the entities, then
`CGEMPRules::Think`, then the event queue), executes the commands in its command
buffer and reads the network; concurrency is the interleaving of frames with
console commands, cvar changes and their callbacks, players who join, speak and
leave, calls of the Python scenario, and commands the code itself queues for
later (`engine->ServerCommand`: a kick, a ban, a change of level).

| Component | State | Operations | Talks to | What makes it correct |
|---|---|---|---|---|
| **Game timer** `ge_game_timer.cpp` | enabled, started, paused, end time, remaining time while paused, length | Enable, Disable, Start, Stop, ChangeLength, SetCurrentLength, AddToLength, Pause, Resume | owned twice by the rules; read by the HUD | the fields agree; the time left is that of a plain countdown, also across pauses |
| **Match and rounds** `ge_gameplay.cpp` | round state, game-over flag, round count, end of the intermission, next think | OnThink, StartMatch, StartRound, EndRound, EndMatch, LoadScenario; ge_endround, ge_endmatch, changelevel | fires gameplay events to the rules, asks the scenario whether it may end | one way from warmup through rounds to the final intermission and to the next level; no phase lasts for ever |
| **Multiplayer rules: timers, scores, level** `gemp_gamerules.cpp` | two timers, four cvars, scores of players and teams, next level, time of the change | timer wrappers, cvar callbacks, OnRoundStart, OnRoundEnd, SetupChangeLevel, ChangeLevel, LevelInitPreEntity | the match, the engine | points count once; the match time is mp_timelimit; a level changes only to one that was announced |
| **Vote kick** `gemp_gamerules.cpp`, `ge_gamerules.cpp` | target, count, goal, voters, share, end, last call and caller | !gevotekick, !voodoo, CheckVotekick on join, leave, rename, timeout | players' Steam ID hashes, the ban command | no vote is counted twice; the goal follows the players; a vote ends |
| **Team balance, teamplay** `gemp_gamerules.cpp:1643-1737, 1816-1898` | teams, wanted teamplay, warning flag, next check | SetTeamplay, EnforceTeamplay, BalanceTeams, ChangeTeam | players, the scenario's veto | a balance reduces the imbalance; a team mode leaves nobody outside the teams |
| **Bot count** `gemp_gamerules.cpp:1667-1703, 1739-1814` | list of bots, free names, next check | CreateBot, RemoveBot, EnforceBotCount | deferred kicks, joins | the number of players settles at the threshold |
| **Player spawn states** `gemp_player.cpp` | spawn state, pre-spawn, observer, team | InitialSpawn, Spawn, ForceRespawn, ChangeTeam, PreThink | rules, scenario | a player who may play gets into the game, once |
| **Token manager** `ge_tokenmanager.cpp` | token definitions, limits, spawners, live tokens, capture areas | Spawn, Remove, Transfer, Capture, EnforceTokens, callbacks | spawners, scenario | never more tokens than the limit, each held by one owner |
| **Item spawners** `server/ges/ent/ge_spawner.cpp` | current item, next spawn, override | Think, SetOverride, SpawnEnt, OnEntPicked | token manager | one item per spawner |
| **Map rotation** `ge_mapmanager.cpp` | map list, weights, recent maps | SelectNewMap, ParseMapSelectionData | rules | the map fits the number of players |
| **Loadouts** `ge_loadoutmanager.cpp` | weapon sets, recent sets | SpawnWeapons, GetNextLoadout | rules | a set is valid on the map |
| **Python scenarios** `server/ges/py` | the scenario object | the bindings | match, rules, tokens | the game survives whatever the scenario calls |
| Statistics, achievements, weapons, doors and map entities, bots' AI, client HUD and menus, web requests | | | | not modelled, see below |

What is hard here is the order of things: a command between the end of a match
and its final intermission, a cvar changed in the wrong phase, a scenario that
is loaded while a level change is armed, a player who votes before being
identified. `PROJECT.json` lists these hazards line by line, with the properties
aimed at each.

## Modules

| Module | What it is |
|---|---|
| `Countdown` | operators: a timer as its users see it (time left, length, three flags) and what each operation does to it |
| `CountdownTimer` | abstract specification of a timer, from `Countdown` |
| `GameTimer` | `CGEGameTimer` with its stored end time and pause, and the wrappers of `CGEMPRules`; implements `CountdownTimer` |
| `MatchLifecycle` | abstract specification of a match: warmup, rounds, breaks, final intermission, next level |
| `Gameplay` | the match, its timers (from `Countdown`), scores and change of level; implements `MatchLifecycle` |
| `GameplayScores` | `Gameplay` with a history of the points that were scored |
| `VoteKick` | the vote kick |
| `VoteKickBackers` | `VoteKick` with a history of who agreed |
| `TokenPool` | abstract specification of tokens: they appear below a limit and are in one place |
| `Tokens` | the token manager and the item spawners for one type of token; implements `TokenPool` |
| `PlayerSpawn` | the spawn state of one human player |
| `Roster` | teams, teamplay and bots, as counts of players |
| `MCGameTimer`, `MCGameplay`, `MCGameplayScores`, `MCVoteKick`, `MCTokens` | values for TLC; the constants of `PlayerSpawn` and `Roster` fit in their configurations |
| `GameTimerProofs`, `GameplayProofs`, `GameplayScoresProofs`, `GameplayPlanProofs`, `VoteKickProofs`, `TokensProofs`, `PlayerSpawnProofs`, `RosterProofs` | theorems |

Definitions whose comment begins with "Mutant of" are no part of a
specification. Each is a plausible mistake in the definition after it; putting
it in that definition's place must break one property, which shows that the
property says something about the code.

### GameTimer

`timer` has the six fields of the class, `now` is `gpGlobals->curtime`. Each
method is a function from fields to fields, with its early returns; each wrapper
of `CGEMPRules` is an action with the wrapper's own guard. Time is an integer in
units of 1/`Second` of a second, so that the conversion to `int` in
`ChangeLength` (line 141) is visible: `TimeDiff` truncates to whole seconds. A
round starts with the float value of `ge_roundtime`; changes pass whole seconds.
`Gameplay` takes `ge_roundtime` for a whole number.

`View` maps the fields to a `Countdown` timer: the time left is the stored rest
while paused and the distance to the end time otherwise, below zero once the
timer expired (the code keeps an end time that has passed, and `ChangeLength`
reads it). `ImplementsCountdown` says that with this mapping every behaviour is
one of `CountdownTimer`.

### Gameplay

The round state, flag and count are those of `CGEBaseGameplayManager`. Times are
relative (what is left of the intermission, of a timer, until the level
changes), which keeps the state space finite under a clock that never stops;
the refinement of the previous section is what justifies the timers' form. One
unit of time stands for a few seconds.

- `Think` is one server frame: the manager's `OnThink`, which acts when its
  0.1 s are over (`ready`), followed by the check for the level change. All that
  `OnThink` calls is part of the action: `StartRound` includes `SetupRound` and
  `ROUND_START`, `EndRound` and `EndMatch` include `ROUND_END`.
- `Tick` is one unit of time, taken when every frame due before it has run and
  the commands the code queued have been executed.
- `SetRoundTime`, `SetRoundCount`, `SetTimeLimit` are cvar changes with all the
  callbacks they set off. The console variable's own clamping and its silence
  when the value stays the same are part of them.
- `SetRoundTimer`, `AddToRoundTimer`, `SetRoundTimerEnabled` are the scenario's
  and the operator's calls; `EndRoundNow`, `EndMatchNow` the commands and
  scenario calls that end things; `ChangeLevelCommand` with `EndMatchQueued` is
  `changelevel` with the command it queues; `LoadScenario` is a change of
  `ge_gameplay`.
- `GotoNextMapInCycle` is `changelevel_next` (`multiplay_gamerules.cpp:107`) and
  the timeout of an empty server (line 443, off by default): both call
  `ChangeLevel` without `SetupChangeLevel`. Without a level chosen the change is
  for the empty name: no level changes, and the time of the change is spent.
- `NewLevel` and `LevelRefused` are the engine executing `__real_changelevel`. A
  new level creates the rules again, with an empty `m_szNextLevel`
  (`gemp_gamerules.cpp:437`), before `LevelInitPreEntity`.
- The scenario is nondeterministic: what it answers to `CanRoundEnd` and
  `CanMatchEnd` (`ScenarioAnswers`) and whether it resets the players' scores.
- A round start may or may not toggle teamplay, because `ge_teamplay`,
  `ge_autoteam` and the number of connections decide, which are not modelled.
- Which maps need the transition map (the sum of two `resintensity` values) is
  the set `Heavy`; the map the server picks by itself is any of `Rotation`.

After a change of level was carried out, `m_flChangeLevelTime` lies 9999 s in the
future, or at 9999 s if it was not set; `levelChange = "spent"` takes that for
never. Nothing pauses either
timer of the rules, so pausing is in `GameTimer` only.

### VoteKick

Players have an entity (`present`), are in the game after `ClientActive`
(`active`) and have a hash once `PreThink` has seen the status lists. `CallVote`
and `Vote` are the two chat commands, `CheckVotekick` the count they, `Leave`
and `VoteTimeout` share. A ban is a command in the buffer (`bans`) that the
engine executes later. `m_flVoteFrac` is a percentage chosen by the caller from
`Percents`: it stands for the threshold and the caller's status. `Goal` rounds
as the code does, half up, in integers. The pointer to the last caller may
dangle (`Gone`) and may then be that of a newcomer.

Abstractions: different players have different hashes; a ban does not end and
a banned player may connect again, which is more than the engine allows; the
minute of grace for names is left out, renaming is the target's only.

### Tokens

One type of token, of which the scenario wants at most `limit`. `place` says
where each token entity is: at a spawner, with a player, on the ground, in
`Limbo` (owned by nobody, invisible), marked for deletion (`Dying`) or no entity
(`Nowhere`). `known` is `vTokens`, `reserved` and `gone` are `vSpawners`: its
valid handles and the number of those that became NULL. `override`, `enabled`
and `cur` are fields of `CGESpawner`.

A frame (`phase`) begins with the thinks and touches of the entities ("world");
then the rules think, which may start a round ("rules") and end with
`EnforceTokens`; the event queue is served and commands are executed
("commands"). `CleanupDeleteList` deletes what was marked and turns handles of it
into NULL. It runs after the event queue (`gameinterface.cpp:1274`) and before the
entities think again (`gameinterface.cpp:1245`, `physics_main.cpp:2037`), and not
before the rules' think, so that `EnforceTokens` finds what was marked in the same
frame. The two cleanups are one step here (`NextPart`): only commands come between
them, and none of them tells a token that is marked from one that is deleted.
`Removed` and `Forget` are `UTIL_Remove` with `OnTokenRemoved`; `Release` is
`SetOverride(NULL)`; `Chosen` and `Realigned` are the choices of `SpawnTokens` and
`RemoveTokens`, whose lists are in random order and therefore sets here.
`RoundStart` is the whole of `OnRoundStart` with the reload of the world, which
deletes and makes anew every spawner. `RemoveTokenDef` is in `Next` and not in
`KeepNext`, because the books are wrong after it (see below).

Not in the module: the base items of a spawner, capture areas, global ammo,
colours and models, and the distance rules by which `FindSpawnersForToken`
orders what it found.

### PlayerSpawn

`player` has the fields that decide whether a player is in the game: team,
`m_bPreSpawn`, spawn state, observer, alive, and two clocks as flags (`slow`: the
next change of team is not allowed yet; `waiting`: the next try to spawn is not
due). `Spawned` is `Spawn`, with its five ways out as definitions of their own;
`Respawned`, `Dead`, `AfterSuicide` and `Joined` are the functions that call it or
write the state around it. `ChangeTeam` is translated in the order of its
statements, because the early ones take effect even if a later one returns.
Whether a spot is free, whether the scenario or the intermission blocks, and what
the scenario answers to a change of team (`Vetoes`) are choices. `chosen` is a
history variable.

`PlayerDeathThink` is an action of players who do not observe. The function of the
SDK has no such guard; what it would do for an observer is what `ForceRespawn`
does, at any time.

Bots are not in the module: `CGEBotPlayer` spawns without a character menu.

### Roster

Players of a kind are counted per place: `active` (humans with a character),
`pending` (humans who have to choose one), `bots`, and `spectators`. One `Think` of
the rules is cut into `BalanceTeams`, the walk over one or two team lists, and
`EnforceBotCount`; `phase` says where it is and `left` how far a loop is. No
command comes in between, as in the code. The walk shows the code's stale index:
a player who changes team leaves the list, and the next one is passed over
(`MovedOn`), so a frame moves every second player and the next frame has to go
on. When a balance is due (the time left, 5, 15 and 30 s) is a choice
(`NoBalance`). `OneMoves` is a change of team, by which a human loses the
character and a bot keeps playing.

The switches of a balance are one step: `Switch` gives any mix of humans that
`BalanceTeamSort` can produce, bots first. Kicks are deferred commands and run
before the next check, which is 3.5 s later; the model lets them run at once.
The map has nodes, and every bot has a name of its own.

## Runs

| Run | Checks | Bounds and why they are enough |
|---|---|---|
| `timer` | `TypeOK`, `Coherent`, `ImplementsCountdown` | lengths 0 to 3 s in half seconds, clock of 10 steps: pauses, expiry, additions beyond expiry and fractional differences all occur |
| `match` | `TypeOK`, `OverMeansOver`, `TimersCoherent`, `MatchTimeIsLimit`, `ImplementsLifecycle`, `FinalIntermissionIsFinal`, `RoundsHaveTheirTime` | one map; round times below, at and above the minimum and off; three match times; every command at every moment |
| `scores` | `PointsCountOnce`, `ChangeIsPrepared` | two maps and the transition map between them, and a `nextlevel` that does not exist; one player and one team, two points each: a point before, in and after a round, and in a second round; `changelevel` and `changelevel_next` at every moment |
| `match_live` | `EndLeadsToNewLevel`, `IntermissionEnds`, `MatchTimeEndsMatch`, `TransitionLeadsOn`, `OnlyTransitionsPass` | `CalmSpec`, three maps, one behind the transition map, and a `nextlevel` that does not exist |
| `planned_rounds` | `RoundsAsPlanned` | `PlannedSpec`; eight match times around the boundaries of the division, up to three rounds |
| `votes` | `TypeOK`, `NoneOverdue`, `CountIsVoters`, `GoalCoversActive`, `BansAreBacked`, `IdentifiedVoteOnce`, `VotesEnd` | four players, one of them a bot, three needed, a share of 70 percent: goals of 1 to 3, votes of players who left and came back |
| `tokens` | `TypeOK`, `EachPlaceOnce`, `Accounted`, `ImplementsTokenPool`, `ThinkRobsNobody`, `LimitIsReached` | three tokens, two spawners, two players, limits of none, one and two: a surplus, a lack of spawners, a dying token beside its successor that counts as a surplus, and a transfer to a player who has one all occur |
| `player_spawn` | `TypeOK`, `ObserversAreDead`, `CountedArePlaying`, `StaysOut`, `ReturnsToPlay` | one player and the whole state space of the module; a scenario that refuses any team but spectating |
| `roster` | `TypeOK`, `BalanceShrinks`, `OpenSlotsKept`, `Settles` | three humans, six clients, a threshold of four players and one open slot, strict: differences up to four and more between the teams, lists of which elements are skipped, a full server |

Bounds inside the modules: `roundCount` stops at `MaxRounds`, as the code asks
only whether it exceeds one (five in `planned_rounds`, which counts); a timer
stops at `MaxOverrun` after it expired, which is exact as long as no difference
of lengths exceeds it, and none does in the runs; `MaxLength` and `MaxPoints`
bound additions and scores; `GotoNextMapInCycle` puts no second
`__real_changelevel` into the buffer; `idle` stops at the longest cooldown.

Fairness. `Fairness` of `Gameplay` is weak fairness of frames, of time and of
the engine executing its command buffer, which is what a running server does.
Operators, players and scenarios are under no fairness. Restrictions are stated
where the code makes no promise without them: `CalmSpec` leaves out loading a
scenario and `changelevel`, both of which can start the wait for a level over
and over, and `changelevel_next` and the empty server's timeout, which before a
level is chosen leave `m_flChangeLevelTime` thousands of seconds away, so that
the end of the match leads nowhere and `EndLeadsToNewLevel`, which counts the
change as spent, would say nothing; `MatchTimeEndsMatch` supposes that at some
time the round timer and `ge_roundtime` are left alone, changes of which can
keep a round open for ever; `PlannedSpec` is a server whose operator sets
`ge_roundcount` before the first round and changes nothing afterwards.
`EndLeadsToNewLevel` ends with the level change being spent: that the engine can
load the level is not the code's to promise, and a server whose `nextlevel` does
not exist stays in its final intermission, as nothing tries again. `VoteKick`
assumes that frames run, time passes, a ban is executed and its player
disconnected.

`Tokens` assumes that the parts of a frame follow one another (weak), and that
spawners think and `EnforceTokens` is due again and again (strong, because both
are timed and only now and then enabled). Nothing is assumed of players and the
scenario; `LimitIsReached` supposes that they are quiet at some time, and that from
some time on `EnforceTokens` does not run in a frame in which a token was marked.
Nothing in the code sees to that: spawners think every 0.5 s, tokens are enforced
every 0.25 s, both rounded up to ticks. As a rule the two drift past each other;
with a tick of 1/64 s both periods are whole numbers of ticks, 32 and 16, and what
coincides once goes on coinciding. `PlayerSpawn`
assumes that waits end and the dead think (weak) and that a retry finds a free
spot now and then (strong). `Roster` assumes that `Think` goes on (weak), that a
balance is warned of and carried out when it is due again and again, that a
walk moves somebody, and that `EnforceBotCount` acts (strong: each is timed, and
a scenario's veto or the wait after a change of team holds off only for a
while). `Settles` begins when the humans are quiet; that a human chooses a
character is under no fairness.

### Where the code does not do what is said of it

Three runs check a statement of a comment or a help text and find it violated:

| Run | Said | Done |
|---|---|---|
| `stale_transition` | `gemp_gamerules.cpp:113`: ge_nextnextmap is where to go from the next map | it survives an overruled transition and ends an ordinary level at its start |
| `second_vote` | `gemp_gamerules.cpp:2145`: the caller cannot vote again | an unidentified caller is remembered as 0 and can, once identified |
| `unchosen_spawn` | `gemp_player.h:86`: not active until a character is chosen | a spectator whose spawn state a forced respawn has made active joins a team and is spawned by the next one without a character |

For each of them a theorem says that the cause given is the only one: with it
excluded, what the comment says holds (`OrderlyTransitionsPass`,
`IdentifiedPlayersVoteOnce`, `ChoiceIsWaitedFor`, see below).

Noticed on the way, without a run of their own:

- Match: changing `ge_roundtime` during an intermission starts the round timer,
  which `ge_gameplay.h:215` calls inactive then (no round is shortened by it:
  `RoundsHaveTheirTime`); `changelevel` between the end of a match and its final
  intermission queues a `ge_endmatch` that finds the match over and drops the
  map (`EndMatchQueued`); a length with a fraction of a second, which
  `ge_roundtime` may have, keeps its fraction under `ChangeLength`, whose
  difference is an `int`; a round without report, which `ge_gameplay.cpp:773`
  calls not counted, has its scores banked like any other; a `nextlevel` that is
  no map, which `multiplay_gamerules.cpp:136` rules out, is followed, and the
  server stays in its final intermission. `changelevel_next`, which "immediately
  changes to the next map in the map rotation" (`multiplay_gamerules.cpp:119`),
  and the timeout by which an empty server "will cycle to the next map" (line
  94) do so only after a level was chosen. Before that they change to the empty
  name, which changes nothing, and `SetupChangeLevel` takes the time they leave
  behind for a change that is set up (`gemp_gamerules.cpp:1270`): the match that
  ends later on that level is followed by none, and only `changelevel` helps.
  The division that fits `ge_roundcount` rounds into the match time
  (`gemp_gamerules.cpp:167`) leaves up to one second per round over and reckons
  with 3 s between rounds at least; what is left over can be worth another
  round, with a `ge_rounddelay` of 10 from 42 rounds on, with one of 2 from 18.
  The cvar, "Number of rounds that should be held in the given match time" (line
  109), has no maximum.
- Tokens: `RemoveTokenDef` leaves spawners overridden that still hold something
  or stand behind one that does; such a spawner goes on bringing tokens of a
  type nobody manages. A refused transfer (`ge_tokenmanager.cpp:161`) leaves the
  token with nobody, invisible, and counted. `Disable` takes away a token a player
  picked up since the spawner's last think. Tokens marked for deletion are found
  and counted by `EnforceTokens`. A spawner whose type lacks tokens replaces the
  one that lies at it; if tokens are enforced in that frame, the old one makes one
  too many, and a token is removed for it, the oldest there is, which a player may
  hold. Without that coincidence the limit is reached as long as definitions stay
  (`LimitIsReached`, a lost token being among the counted); with it again and
  again it need not be, as TLC shows when the premise is left out.
- Spawning: `Spawn` ends the wait after a change of team at once, in the same
  change. A request to spectate that is vetoed or comes to nothing still clears
  `m_bPreSpawn`. The branch for the first wait (`gemp_player.cpp:350`) is not
  reached, because looking for a spot has set the state already. A change of
  team within 5 s of a suicide leaves the player alive and not counted in the
  round. A player who changes teams while the scenario blocks respawns dies in
  the change, and `Event_Killed` (line 1407) overwrites the spawn state that
  would have made the player wait for a character: it is the second way around the
  choice, besides the one `unchosen_spawn` finds.
- Teams and bots: a balance switches one player too many from a difference of
  four on. Switching or toggling teamplay takes the humans' characters, so that
  nobody is active and a check in that moment kicks every bot. The 30 s until
  another try when nobody may be switched are overwritten by 15 s. The last bot
  name is handed out without being taken from the list, and `RemoveBot` looks
  players up by name.

## Proofs

All theorems hold for every value of the constants that satisfies the modules'
assumptions (`GameTimerAssumption`, `SecondAssumption`, `GameplayAssumption`,
`VoteKickAssumption`, `TokensAssumption`, `PlayerSpawnAssumption`,
`RosterAssumption`), which say little more than what the constants are.

**GameTimer.** The invariant is `TypeOK /\ Coherent`, and it is inductive as it
stands. `Sound(t)` states it of any fields `t`; one lemma per method shows that
the method keeps `Sound`, `ChangedSound` gathering what the three ways of
changing a started timer share. `TimeDiffBounds` is the one arithmetical fact:
truncation never moves a difference away from zero, so a positive length stays
positive. `TimerIsCountdown` then goes method by method: the view of the changed
fields is the `Countdown` operator applied to the view, and a `Tick` is `Elapse`
of one unit.

**Gameplay.** The inductive invariant is `TypeOK /\ OverMeansOver /\
TimersCoherent /\ ChangeIsPrepared`. `OverMeansOver` alone is not enough for the
refinement, in which a level is announced when it is chosen: that a level which
changes was announced needs `ChangeIsPrepared`, and that timers keep their types
needs their coherence. The proof does not go through twenty actions for each
property. Lemma `Moves` classifies every step by what it does to the match:
nothing, a restart, a round that starts, a round that ends or a match that ends,
each with the exact change of the four state variables; `Announcing` does the
same for the level change. The invariance of `OverMeansOver`, the refinement of
`MatchLifecycle` and the action properties `FinalIntermissionIsFinal` and
`RoundsHaveTheirTime` follow from these cases. `MatchTimeFollowsLimit` adds that
the limit is one of `TimeLimits`, and assumes that these differ by whole
seconds: a running timer is extended by the difference as an integer.

`MatchLifecycle` promises by itself that the end of a match stands (`EndsLast`,
`EndStands`): only the report of the last round and the final intermission lie
between a match that is ending and the next one. It is proved of the abstract
specification, and `EndOfMatchStands` hands it down by the refinement.

`OrderlyTransitionsPass` delimits the finding `stale_transition`. `OrderlySpec`
allows everything `Spec` does, but a `changelevel` that overrules only while no
change is set up. Its invariant `PassHeld` says that `ge_nextnextmap` names a
map only while the level is on its way to the transition map, which is then what
was chosen and what is being changed to; an overruling `changelevel` is the one
action that breaks it.

`PatientSpec` allows `changelevel_next` only while a level is chosen. Then no change
of level is spent without a level to go to (`PatientChangesHappen`), which
`ChangeIsPrepared` cannot promise of `Spec`.

`EndIsInTime` is the safety half of `EndLeadsToNewLevel`. `TicksLeft` bounds the
units of time until the level changes, from what is left of the report, of the
final intermission or of the announcement. Under `PatientSpec` it is within
`RoundDelay + ChatTime + ChangeDelay + 4` from the moment a match is over, never
grows, falls with every unit of time and is 0 exactly when the change was made.
With fairness of frames and of the clock, which is what TLC adds, the level
changes. The invariant `Paced` bounds each wait by what it was set to and says
that a wait that is over is seen by the next frame. The theorem assumes that the
waits are not 0: `ge_rounddelay` is at least 2 (`gemp_gamerules.cpp:108`) and
`mp_chattime` at least 1 (`multiplay_gamerules.cpp:53`).

`EveryPointCountsOnce` (`GameplayScoresProofs`) groups the steps once more, by
what they do to the points: kept, a round opened, the round's points banked, a
match that ends outside a round, all cleared. It assumes that the scenario
resets the round scores of the players; the rules do so for the teams only.
`NoPointIsLost` needs no such assumption: a player's match score has at least
every point of the finished rounds, and a team's no more than those.

`PlannedRoundsArePlayed` (`GameplayPlanProofs`) is about how times add up over a
whole match. `PlanInv` keeps the books: in round k the match timer shows the
match time less k - 1 rounds with their delays and less what the round has used;
in the break after it, less k rounds and delays and plus what is left of the
break. Two facts about the division decide: what is planned fits into the match
time (`Room`), so that no round is cut off, and what is left over after the last
round is not worth another one (`PlanIsTight`). `PlanCanBeKept` names what the
second needs of the code's numbers. The shortest round, 60 s, is longer than the
30 s that are not worth a round; `ge_rounddelay` is at least 2; n is at most 41
with a delay of 10, 34 with one of 3 and 17 with one of 2. Beyond that there are
match times with a round too many (see "Noticed on the way").

**VoteKick.** The proof needs one more conjunct, `GoalWithinPresent`: the goal
is at least the share of the active players and was computed from players who
are present. Between `Connect` and `Activate` a player is present and not
counted in the goal, so `GoalCoversActive` by itself is not preserved by a
player leaving. The rest is finite cardinality: a vote that is taken back was
among the voters, and one that is added was not. `EveryBanIsBacked` adds that a
player who is identified has its own hash, so that as long as nobody votes
unidentified the remembered voters are the players who agreed and stayed. From
the same invariant `IdentifiedPlayersVoteOnce` delimits the finding
`second_vote`: as long as every vote came from a player who was identified, none
of those who agreed raises the count again.

`VoteIsInTime` is the safety half of `VotesEnd`: while a vote is open, nothing
that players do puts its end off, turns it on somebody else or changes the share
it needs, its time is never more than `VoteTime`, and every tick takes one unit
of it. With frames that run, which TLC adds, the vote ends.

**Tokens.** `EachPlaceOnce` and `ThinkRobsNobody` need an invariant about the
spawners' view, `OnceInv`: a token that lies at a spawner is the one the spawner
has (`LyingIsCurrent`), a player has one at most, and a disabled spawner has
none. `Accounted` is proved for `KeepSpec`, with the addition that without a
definition nothing is reserved; with it and `OnceInv` every step is a step of
`TokenPool` or a stutter: `BooksAreRight` gives that every live token is counted
when a spawner asks `ShouldSpawnToken`, which is why the limit holds.
`TokensWithinLimit` is then a theorem about `TokenPool` alone: more tokens are
in play after a step only if the limit allows as many as there are then.
`PoolHasOneEach` is proved of `TokenPool` in the same way.

**PlayerSpawn.** The fields of `player` are related by an invariant on the
record, and there is one lemma for each way into and out of `Spawn`, so that the
actions follow from them; `StaysOut` uses the same lemmas as a fact about the
two ends of a step. The invariant has two parts. `Decent` holds for every
scenario, and with it the types, `ObserversAreDead` and `StaysOut`. `Good` adds
what is true if the scenario lets players spectate, and `NobodyCountedWatches`
assumes that (`"Spectator" \notin Vetoes`): with such a veto a newcomer is an
observer on no team and `CountedArePlaying` fails, as TLC shows.

`ChoiceIsWaitedFor` delimits the finding `unchosen_spawn`. `PlayingSpec` leaves
out requests to spectate and deaths in pre-spawn while nobody may respawn
(`DiesUnchosen`); then pre-spawn and the initial state stay together until a
character is chosen (`ChoiceOpen`), and nobody is active before. Each of the two
exclusions is needed.

**Roster.** The invariant is `Counted` (natural numbers), `Clients <=
MaxClients` and `SlotsLeft`: while bots are being added, the bots still to come
fit below the open slots. `SlotsLeft` is what makes `OpenSlotsKept` inductive,
as the loop computes how many to add once and does not look again.
`BalanceShrinks` is arithmetic about `Switches`: of a difference d at most d - 1
move, so what is left lies between d - 2 and -(d - 2).

`SettledIsStable` is the safety half of `Settles`: a quiet server that is
settled stays so, whatever `Think` does. Its invariant `OnItsList` says that the
list the bots are walked along agrees with teamplay, and that bots still to be
added are bots that are missing, or else the server is full. A human who enters
the game while nobody plays, or with the strict setting off, may unsettle it,
and `Think` has to balance again; the theorem excludes these two and no others.

Only model-checked: the liveness properties (`EndLeadsToNewLevel`,
`IntermissionEnds`, `MatchTimeEndsMatch`, `TransitionLeadsOn`, `VotesEnd`,
`LimitIsReached`, `ReturnsToPlay`, `Settles`), as TLAPS has no proof rule for
fairness. Every invariant and every action property of a passing run is a
theorem.

## Not modelled, and why

- Weapons, doors, grenades, NPC and bot behaviour: physics and heuristics over
  the SDK, without a protocol of their own.
- Client HUD, menus, achievements, statistics: they read the state and do not
  feed back.
- Loadouts, map rotation, scenario cycle: random choices from parsed tables.
  `Gameplay` takes any outcome.
- The Python interpreter and the web request for the status lists: only their
  effects are modelled.
- Callbacks from inside a callback: a scenario that ends the match while
  `OnRoundEnd` runs would enter `EndRound` again, with the round still
  `PLAYING`. In `Gameplay` a scenario's calls come between frames. No scenario is
  part of the repository, so what they do there is not known from it.
- The spawning of bots and of their NPC, the pool of bot names.
- Capture areas, global ammo and the placing rules of tokens; the items of a
  spawner that is not overridden.
- The SDK (`game/server`, `game/shared` outside `ges`, `public`, `tier1`,
  `mathlib`, `utils`, `vgui2`...): vendored. It is more than nine tenths of the
  repository's lines.

## Plan

Done, in the order of importance for a game that is being played: `GameTimer`,
`Gameplay`, `VoteKick`; `Tokens`; `PlayerSpawn`; `Roster`; each with proofs.

What could follow:

1. The gameplay events and scenario calls as a stack, to see what `EndMatch` or
   `EndRound` do from inside `OnRoundEnd`.
2. The composition of `PlayerSpawn`, for several players, with `Gameplay`: the
   end of a round by the number of players left in it.
3. Capture areas, whose limit is kept by another mechanism than that of tokens.
4. Map rotation: choice by weight and recency against a reference definition.
