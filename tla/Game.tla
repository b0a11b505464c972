-------------------------------- MODULE Game --------------------------------
(***************************************************************************)
(* The game (src/Host/game.cpp): the table of players and the projectiles, *)
(* as the receive thread (handleMessage) and the update thread             *)
(* (updateThread) change them under update_mutex.                          *)
(*                                                                         *)
(* Positions, velocities and the map are left out: which projectile meets  *)
(* what in an update is a choice.  players is the unordered_map: a         *)
(* function on the ids in use.  Its operator[] inserts a default record,   *)
(* whose player_id is 0, when it is asked for an id that is not there.     *)
(***************************************************************************)
EXTENDS Integers, Sequences, FiniteSets, SequencesExt

CONSTANTS
  MaxClients,      (* bound on the connections that are ever accepted       *)
  MaxHealth,       (* health of a player who spawns: 100 in the code        *)
  Damage,          (* Constants::projectile_damage: 10 in the code          *)
  MaxProjectiles,  (* bound on the projectiles in flight                    *)
  MaxSpawns        (* bound on the number of times players spawn            *)

ASSUME GameAssumption ==
  /\ MaxClients \in Nat
  /\ MaxHealth \in 1 .. 255      \* uint8_t
  /\ Damage \in Nat \ {0}
  /\ MaxProjectiles \in Nat
  /\ MaxSpawns \in Nat

VARIABLES
  players,      (* id |-> record of the player                              *)
  projectiles,  (* the owner of each projectile, in the vector's order      *)
  cursor,       (* 0, or the projectile checkCollisions is at, under lock   *)
  spawns,       (* number of spawns so far                                  *)
  departed      (* kills and deaths of the records that are gone            *)

gameVars == <<players, projectiles, cursor, spawns, departed>>

PlayerIds == 0 .. MaxClients - 1

Player(i) == [player_id |-> i, alive |-> FALSE, health |-> MaxHealth,
              kills |-> 0, deaths |-> 0]

Nobody == [kills |-> 0, deaths |-> 0]

InitGame ==
  /\ players = [i \in {} |-> Player(0)]
  /\ projectiles = <<>>
  /\ cursor = 0
  /\ spawns = 0
  /\ departed = Nobody

-----------------------------------------------------------------------------
(* players[i] = record; players[i]; players.erase(i).                       *)
Put(table, i, record) ==
  [j \in DOMAIN table \cup {i} |-> IF j = i THEN record ELSE table[j]]

Get(table, i) == IF i \in DOMAIN table THEN table[i] ELSE Player(0)

Erase(table, i) == [j \in DOMAIN table \ {i} |-> table[j]]

(* What the scores lose when the record of i is erased or overwritten.      *)
Depart(i) ==
  departed' = IF i \in DOMAIN players
                THEN [kills  |-> departed.kills + players[i].kills,
                      deaths |-> departed.deaths + players[i].deaths]
                ELSE departed

-----------------------------------------------------------------------------
(* handleMessage, with the mutex held from beginning to end.                *)

(* The mutated form of CreateNewPlayer: the record is looked up, not set.   *)
CreateDefaultPlayer(i) ==
  /\ cursor = 0
  /\ players' = Put(players, i, Get(players, i))
  /\ UNCHANGED <<projectiles, cursor, spawns, departed>>

CreateNewPlayer(i) ==
  /\ cursor = 0
  /\ players' = Put(players, i, Player(i))
  /\ Depart(i)
  /\ UNCHANGED <<projectiles, cursor, spawns>>

(* The mutated form of DeletePlayer: the player is only taken out of play.  *)
DeletePlayerKeepsRecord(i) ==
  /\ cursor = 0
  /\ players' = IF i \in DOMAIN players THEN [players EXCEPT ![i].alive = FALSE] ELSE players
  /\ UNCHANGED <<projectiles, cursor, spawns, departed>>

DeletePlayer(i) ==
  /\ cursor = 0
  /\ players' = Erase(players, i)
  /\ Depart(i)
  /\ UNCHANGED <<projectiles, cursor, spawns>>

(* A player in play is not spawned again.                                   *)
SpawnPlayer(i) ==
  LET player == Get(players, i) IN
  /\ cursor = 0
  /\ IF player.alive
       THEN UNCHANGED <<players, spawns>>
       ELSE /\ spawns < MaxSpawns
            /\ spawns' = spawns + 1
            /\ players' = Put(players, i, [player EXCEPT !.alive = TRUE, !.health = MaxHealth])
  /\ UNCHANGED <<projectiles, cursor, departed>>

ShootProjectile(i) ==
  LET player == Get(players, i) IN
  /\ cursor = 0
  /\ players' = Put(players, i, player)
  /\ IF player.alive
       THEN /\ Len(projectiles) < MaxProjectiles
            /\ projectiles' = Append(projectiles, i)
       ELSE UNCHANGED projectiles
  /\ UNCHANGED <<cursor, spawns, departed>>

(* changePlayerOrientation and changePlayerMovement: the values are left    *)
(* out, the record they may insert is not.                                  *)
ChangePlayer(i) ==
  /\ cursor = 0
  /\ players' = Put(players, i, Get(players, i))
  /\ UNCHANGED <<projectiles, cursor, spawns, departed>>

(* PING, an unknown type, or a velocity longer than 1.                      *)
NoChange == cursor = 0 /\ UNCHANGED gameVars

Command(i) == SpawnPlayer(i) \/ ShootProjectile(i) \/ ChangePlayer(i) \/ NoChange

-----------------------------------------------------------------------------
(* updateThread: checkCollisions visits the projectiles in order; the mutex *)
(* is held until the last one has been visited.                             *)

StartUpdate ==
  /\ cursor = 0
  /\ cursor' = IF projectiles = <<>> THEN 0 ELSE 1
  /\ UNCHANGED <<players, projectiles, spawns, departed>>

Owner == projectiles[cursor]

(* The projectile at the cursor stays; the next one is looked at.           *)
Misses ==
  /\ cursor > 0
  /\ cursor' = IF cursor = Len(projectiles) THEN 0 ELSE cursor + 1
  /\ UNCHANGED <<players, projectiles, spawns, departed>>

(* The mutated form of RemoveProjectile: the end is not looked at.          *)
RemoveProjectileOverruns ==
  projectiles' = RemoveAt(projectiles, cursor) /\ UNCHANGED cursor

(* The iterator that erase() returns.                                       *)
RemoveProjectile ==
  /\ projectiles' = RemoveAt(projectiles, cursor)
  /\ cursor' = IF cursor = Len(projectiles) THEN 0 ELSE cursor

(* A wall, an obstacle or the border.                                       *)
HitsMap ==
  /\ cursor > 0
  /\ RemoveProjectile
  /\ UNCHANGED <<players, spawns, departed>>

(* The mutated form of Harm: the last hit is dealt like the others.         *)
HarmBelowZero(table, i, by) ==
  IF table[i].health < Damage
    THEN Put(Put(table, i, [table[i] EXCEPT !.alive = FALSE, !.deaths = @ + 1]),
             by, [Get(table, by) EXCEPT !.kills = @ + 1])
    ELSE [table EXCEPT ![i].health = @ - Damage]

(* The mutated form of Harm: an owner who has left scores nothing.          *)
HarmUnscored(table, i, by) ==
  IF table[i].health <= Damage
    THEN LET killed == [table EXCEPT ![i].alive = FALSE, ![i].deaths = @ + 1]
         IN IF by \in DOMAIN killed THEN [killed EXCEPT ![by].kills = @ + 1] ELSE killed
    ELSE [table EXCEPT ![i].health = @ - Damage]

(* The last hit leaves the health as it is.  players[owner] may insert the  *)
(* record of an owner who has left.                                         *)
Harm(table, i, by) ==
  IF table[i].health <= Damage
    THEN LET killed == [table EXCEPT ![i].alive = FALSE, ![i].deaths = @ + 1]
         IN Put(killed, by, [Get(killed, by) EXCEPT !.kills = @ + 1])
    ELSE [table EXCEPT ![i].health = @ - Damage]

(* The mutated form of HitsPlayer: the projectile flies on.                 *)
PassesThrough(i) ==
  /\ cursor > 0
  /\ i \in DOMAIN players /\ players[i].alive /\ i # Owner
  /\ players' = Harm(players, i, Owner)
  /\ cursor' = IF cursor = Len(projectiles) THEN 0 ELSE cursor + 1
  /\ UNCHANGED <<projectiles, spawns, departed>>

HitsPlayer(i) ==
  /\ cursor > 0
  /\ i \in DOMAIN players /\ players[i].alive /\ i # Owner
  /\ players' = Harm(players, i, Owner)
  /\ RemoveProjectile
  /\ UNCHANGED <<spawns, departed>>

Update == StartUpdate \/ Misses \/ HitsMap \/ \E i \in PlayerIds : HitsPlayer(i)

-----------------------------------------------------------------------------
PlayerRecord ==
  [player_id : PlayerIds, alive : BOOLEAN, health : 0 .. MaxHealth,
   kills : 0 .. MaxSpawns, deaths : 0 .. MaxSpawns]

GameTypeOK ==
  /\ DOMAIN players \subseteq PlayerIds
  /\ \A i \in DOMAIN players : players[i] \in PlayerRecord
  /\ projectiles \in Seq(PlayerIds)
  /\ Len(projectiles) <= MaxProjectiles
  /\ cursor \in 0 .. Len(projectiles)
  /\ spawns \in 0 .. MaxSpawns
  /\ departed \in [kills : Nat, deaths : Nat]

(* The health of a player, a uint8_t that is only ever subtracted from, is  *)
(* never 0 and never wraps, dead or alive (checkProjectileCollisions).      *)
HealthInRange == \A i \in DOMAIN players : players[i].health \in 1 .. MaxHealth

(* The sum of counts is the number of things counted.                       *)
Tally(count) == UNION {{i} \X (1 .. count[i]) : i \in DOMAIN count}
Total(count) == Cardinality(Tally(count))

Kills(table)  == [i \in DOMAIN table |-> table[i].kills]
Deaths(table) == [i \in DOMAIN table |-> table[i].deaths]

(* Every death is somebody's kill, and every kill somebody's death, also    *)
(* when the owner of the projectile, or the victim, has left meanwhile.     *)
KillsMatchDeaths ==
  Total(Kills(players)) + departed.kills = Total(Deaths(players)) + departed.deaths

(* A projectile harms one player and is spent: whoever loses health, or     *)
(* life, while still connected loses it to a projectile that is gone, and   *)
(* is the only one to.                                                      *)
Harmed(i) ==
  /\ i \in DOMAIN players /\ i \in DOMAIN players'
  /\ \/ players'[i].health < players[i].health
     \/ players'[i].deaths > players[i].deaths

OneProjectileOneVictim ==
  [][\A i \in PlayerIds : Harmed(i) =>
       /\ Len(projectiles') = Len(projectiles) - 1
       /\ \A j \in PlayerIds : Harmed(j) => j = i]_gameVars
=============================================================================
