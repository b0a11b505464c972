----------------------------- MODULE GameProofs -----------------------------
(***************************************************************************)
(* Proofs about the game over the event stream, for any number of players, *)
(* frames and projectiles, and any health and damage.                      *)
(***************************************************************************)
EXTENDS GameServer, FiniteSetTheorems, TLAPS

(* A record whose health has neither run out nor wrapped.                   *)
Record ==
  [player_id : PlayerIds, alive : BOOLEAN, health : 1 .. MaxHealth,
   kills : Nat, deaths : Nat]

Table(t) == DOMAIN t \subseteq PlayerIds /\ t \in [DOMAIN t -> Record]

Stages == {"no", "pending", "taken"}

StreamTyped ==
  /\ new \in [PlayerIds -> Stages]
  /\ lost \in [PlayerIds -> Stages]

GameInv ==
  /\ Table(players)
  /\ projectiles \in Seq(PlayerIds)
  /\ cursor \in 0 .. Len(projectiles)
  /\ StreamTyped
  /\ late \subseteq PlayerIds

-----------------------------------------------------------------------------
(* What the operators on the table of players return.                       *)

LEMMA FreshRecord == \A i \in PlayerIds : Player(i) \in Record /\ Player(0) \in Record
BY GameAssumption DEF Player, Record, PlayerIds

LEMMA GetRecord ==
  ASSUME NEW t, Table(t), NEW i \in PlayerIds
  PROVE  Get(t, i) \in Record /\ (i \in DOMAIN t => Get(t, i) = t[i])
BY FreshRecord DEF Get, Table

LEMMA PutTable ==
  ASSUME NEW t, Table(t), NEW i \in PlayerIds, NEW r \in Record
  PROVE  /\ Table(Put(t, i, r))
         /\ DOMAIN Put(t, i, r) = DOMAIN t \cup {i}
         /\ Put(t, i, r)[i] = r
         /\ \A j \in DOMAIN t : j # i => Put(t, i, r)[j] = t[j]
BY DEF Put, Table

LEMMA EraseTable ==
  ASSUME NEW t, Table(t), NEW i \in PlayerIds
  PROVE  /\ Table(Erase(t, i))
         /\ DOMAIN Erase(t, i) = DOMAIN t \ {i}
         /\ \A j \in DOMAIN t : j # i => Erase(t, i)[j] = t[j]
BY DEF Erase, Table

(* A hit leaves every record in range, touches the life and the deaths of   *)
(* the victim only, and no id.                                              *)
LEMMA HarmTable ==
  ASSUME NEW t, Table(t), NEW i \in DOMAIN t, NEW by \in PlayerIds, i # by
  PROVE  /\ Table(Harm(t, i, by))
         /\ DOMAIN t \subseteq DOMAIN Harm(t, i, by)
         /\ \A j \in DOMAIN t :
              /\ Harm(t, i, by)[j].player_id = t[j].player_id
              /\ j # i => /\ Harm(t, i, by)[j].health = t[j].health
                          /\ Harm(t, i, by)[j].deaths = t[j].deaths
<1> DEFINE killed == [t EXCEPT ![i].alive = FALSE, ![i].deaths = t[i].deaths + 1]
           victim == [t[i] EXCEPT !.alive = FALSE, !.deaths = t[i].deaths + 1]
           scorer == [Get(killed, by) EXCEPT !.kills = Get(killed, by).kills + 1]
           wounded == [t[i] EXCEPT !.health = t[i].health - Damage]
<1>1. t \in [DOMAIN t -> Record] /\ t[i] \in Record /\ i \in PlayerIds
  BY DEF Table
<1>2. CASE t[i].health <= Damage
  <2>1. killed = [t EXCEPT ![i] = victim]
    BY <1>1 DEF Record
  <2>2. victim \in Record /\ victim.player_id = t[i].player_id
    <3>1. \A r \in Record : [r EXCEPT !.alive = FALSE] \in Record
      BY DEF Record
    <3>2. \A r \in Record : [r EXCEPT !.deaths = r.deaths + 1] \in Record
      BY DEF Record
    <3>3. victim = [[t[i] EXCEPT !.alive = FALSE] EXCEPT !.deaths = t[i].deaths + 1]
      BY <1>1 DEF Record
    <3>4. t[i].deaths = [t[i] EXCEPT !.alive = FALSE].deaths
      BY <1>1 DEF Record
    <3> QED BY <1>1, <3>1, <3>2, <3>3, <3>4 DEF Record
  <2>3. /\ Table(killed) /\ DOMAIN killed = DOMAIN t
        /\ killed[i] = victim
        /\ \A j \in DOMAIN t : j # i => killed[j] = t[j]
    BY <1>1, <2>1, <2>2 DEF Table
  <2>4. Harm(t, i, by) = Put(killed, by, scorer)
    BY <1>2 DEF Harm
  <2> HIDE DEF killed, victim
  <2>5. Get(killed, by) \in Record /\ (by \in DOMAIN t => Get(killed, by) = t[by])
    BY <2>3, GetRecord
  <2>6. /\ scorer \in Record
        /\ scorer.player_id = Get(killed, by).player_id
        /\ scorer.health = Get(killed, by).health
        /\ scorer.deaths = Get(killed, by).deaths
    BY <2>5 DEF Record
  <2> HIDE DEF scorer
  <2>7. /\ Table(Put(killed, by, scorer))
        /\ DOMAIN Put(killed, by, scorer) = DOMAIN t \cup {by}
        /\ Put(killed, by, scorer)[by] = scorer
        /\ \A j \in DOMAIN t : j # by => Put(killed, by, scorer)[j] = killed[j]
    BY <2>3, <2>6 DEF Put, Table
  <2> QED BY <2>2, <2>3, <2>4, <2>5, <2>6, <2>7
<1>3. CASE ~ (t[i].health <= Damage)
  <2>1. Harm(t, i, by) = [t EXCEPT ![i] = wounded]
    BY <1>1, <1>3 DEF Harm, Record
  <2>2. wounded \in Record /\ wounded.player_id = t[i].player_id
    BY <1>1, <1>3, GameAssumption DEF Record
  <2> HIDE DEF wounded
  <2> QED BY <1>1, <2>1, <2>2 DEF Table
<1> QED BY <1>2, <1>3

(* erase() of the vector: one projectile fewer, and the cursor in range.    *)
LEMMA Removed ==
  ASSUME GameInv, cursor > 0, RemoveProjectile
  PROVE  /\ projectiles' \in Seq(PlayerIds)
         /\ Len(projectiles') = Len(projectiles) - 1
         /\ cursor' \in 0 .. Len(projectiles')
<1> DEFINE before == SubSeq(projectiles, 1, cursor - 1)
           after == SubSeq(projectiles, cursor + 1, Len(projectiles))
<1>1. /\ projectiles \in Seq(PlayerIds) /\ Len(projectiles) \in Nat
      /\ cursor \in 1 .. Len(projectiles)
  BY DEF GameInv
<1>2. before \in Seq(PlayerIds) /\ Len(before) = cursor - 1
  BY <1>1
<1>3. after \in Seq(PlayerIds) /\ Len(after) = Len(projectiles) - cursor
  BY <1>1
<1>4. projectiles' = before \o after
  BY DEF RemoveProjectile, RemoveAt
<1> HIDE DEF before, after
<1>5. before \o after \in Seq(PlayerIds) /\ Len(before \o after) = Len(before) + Len(after)
  BY <1>2, <1>3
<1>6. projectiles' \in Seq(PlayerIds) /\ Len(projectiles') = Len(projectiles) - 1
  BY <1>1, <1>2, <1>3, <1>4, <1>5
<1> QED BY <1>1, <1>6 DEF RemoveProjectile

-----------------------------------------------------------------------------
(* What one step does to the table, in terms of records.                    *)

(* A handler: the record of i is written, or nothing is.                    *)
LEMMA CommandTable ==
  ASSUME GameInv, NEW i \in PlayerIds, Command(i)
  PROVE  /\ Table(players')
         /\ projectiles' \in Seq(PlayerIds)
         /\ cursor' = cursor /\ cursor' \in 0 .. Len(projectiles')
         /\ DOMAIN players \subseteq DOMAIN players'
         /\ DOMAIN players' \subseteq DOMAIN players \cup {i}
         /\ \A j \in DOMAIN players :
              /\ players'[j].player_id = players[j].player_id
              /\ players'[j].deaths = players[j].deaths
              /\ ~ (players'[j].health < players[j].health)
<1> DEFINE player == Get(players, i)
           spawned == [player EXCEPT !.alive = TRUE, !.health = MaxHealth]
<1>1. /\ Table(players) /\ projectiles \in Seq(PlayerIds) /\ Len(projectiles) \in Nat
      /\ cursor \in 0 .. Len(projectiles)
  BY DEF GameInv
<1>2. player \in Record /\ (i \in DOMAIN players => player = players[i])
  BY <1>1, GetRecord
<1>3. \A j \in DOMAIN players : players[j].health \in 1 .. MaxHealth /\ players[j] \in Record
  BY <1>1 DEF Table, Record
<1> HIDE DEF player
<1>4. CASE SpawnPlayer(i) /\ players' # players
  <2>1. cursor' = cursor /\ projectiles' = projectiles /\ players' = Put(players, i, spawned)
    BY <1>4 DEF SpawnPlayer, player
  <2>2. /\ spawned \in Record /\ spawned.player_id = player.player_id
        /\ spawned.deaths = player.deaths /\ spawned.health = MaxHealth
    <3>1. MaxHealth \in 1 .. MaxHealth
      BY GameAssumption
    <3>2. \A r \in Record : [r EXCEPT !.alive = TRUE] \in Record
      BY DEF Record
    <3>3. \A r \in Record : [r EXCEPT !.health = MaxHealth] \in Record
      BY <3>1 DEF Record
    <3>4. spawned = [[player EXCEPT !.alive = TRUE] EXCEPT !.health = MaxHealth]
      BY <1>2 DEF Record
    <3> QED BY <1>2, <3>2, <3>3, <3>4 DEF Record
  <2> HIDE DEF spawned
  <2>3. /\ DOMAIN players' = DOMAIN players \cup {i} /\ players'[i] = spawned
        /\ \A j \in DOMAIN players : j # i => players'[j] = players[j]
    BY <2>1 DEF Put
  <2>4. Table(players')
    BY <1>1, <2>1, <2>2 DEF Put, Table
  <2>5. \A j \in DOMAIN players :
          /\ players'[j].player_id = players[j].player_id
          /\ players'[j].deaths = players[j].deaths
    BY <1>2, <2>2, <2>3
  <2>6. \A j \in DOMAIN players : ~ (players'[j].health < players[j].health)
    <3>1. ~ (MaxHealth < players[i].health) \/ i \notin DOMAIN players
      BY <1>3, GameAssumption
    <3>2. \A j \in DOMAIN players : ~ (players[j].health < players[j].health)
      BY <1>3
    <3> QED BY <2>2, <2>3, <3>1, <3>2
  <2> QED BY <1>1, <2>1, <2>3, <2>4, <2>5, <2>6
<1>5. CASE ShootProjectile(i) \/ ChangePlayer(i)
  <2>1. cursor' = cursor /\ players' = Put(players, i, player)
    BY <1>5 DEF ShootProjectile, ChangePlayer, player
  <2>2. projectiles' = projectiles \/ projectiles' = Append(projectiles, i)
    BY <1>5 DEF ShootProjectile, ChangePlayer
  <2>3. projectiles' \in Seq(PlayerIds) /\ Len(projectiles) <= Len(projectiles') /\ Len(projectiles') \in Nat
    BY <1>1, <2>2
  <2> QED BY <1>1, <1>2, <1>3, <2>1, <2>3 DEF Put, Table
<1>6. CASE SpawnPlayer(i) /\ players' = players
  BY <1>1, <1>3, <1>6 DEF SpawnPlayer
<1>7. CASE NoChange
  BY <1>1, <1>3, <1>7 DEF NoChange, gameVars
<1> QED BY <1>4, <1>5, <1>6, <1>7 DEF Command

(* An update: ids stay, records may be added, never taken away.             *)
LEMMA UpdateTable ==
  ASSUME GameInv, Update
  PROVE  /\ Table(players')
         /\ projectiles' \in Seq(PlayerIds)
         /\ cursor' \in 0 .. Len(projectiles')
         /\ DOMAIN players \subseteq DOMAIN players'
         /\ \A j \in DOMAIN players : players'[j].player_id = players[j].player_id
<1>1. /\ Table(players) /\ projectiles \in Seq(PlayerIds) /\ Len(projectiles) \in Nat
      /\ cursor \in 0 .. Len(projectiles)
      /\ projectiles = <<>> <=> Len(projectiles) = 0
  BY DEF GameInv
<1>2. CASE StartUpdate
  BY <1>1, <1>2 DEF StartUpdate
<1>3. CASE Misses
  BY <1>1, <1>3 DEF Misses
<1>4. CASE HitsMap
  BY <1>1, <1>4, Removed DEF HitsMap
<1>5. ASSUME NEW i \in PlayerIds, HitsPlayer(i)
      PROVE  /\ Table(players')
             /\ projectiles' \in Seq(PlayerIds)
             /\ cursor' \in 0 .. Len(projectiles')
             /\ DOMAIN players \subseteq DOMAIN players'
             /\ \A j \in DOMAIN players : players'[j].player_id = players[j].player_id
  <2>1. /\ i \in DOMAIN players /\ i # Owner /\ cursor > 0 /\ RemoveProjectile
        /\ players' = Harm(players, i, Owner)
    BY <1>5 DEF HitsPlayer
  <2>2. Owner \in PlayerIds
    BY <1>1, <2>1 DEF Owner
  <2> QED BY <1>1, <2>1, <2>2, HarmTable, Removed
<1> QED BY <1>2, <1>3, <1>4, <1>5 DEF Update

-----------------------------------------------------------------------------
LEMMA GameInit == Init => GameInv
<1> SUFFICES ASSUME Init PROVE GameInv
  OBVIOUS
<1>1. players = [i \in {} |-> Player(0)] /\ projectiles = <<>> /\ cursor = 0 /\ late = {}
  BY DEF Init, InitGame
<1>2. Table(players)
  BY <1>1 DEF Table
<1>3. StreamTyped
  BY DEF Init, Library!Init, Library!Clients, StreamTyped, Stages, PlayerIds
<1> QED BY <1>1, <1>2, <1>3 DEF GameInv

LEMMA GameStep == GameInv /\ [Next]_vars => GameInv'
<1> SUFFICES ASSUME GameInv, [Next]_vars PROVE GameInv'
  OBVIOUS
<1>1. CASE UNCHANGED vars
  BY <1>1 DEF vars, GameInv, Table, StreamTyped
<1>2. CASE LibraryStep
  <2>1. StreamTyped'
    BY <1>2 DEF LibraryStep, Library!Announce, Library!PushFrame, Library!ReportLoss,
                GameInv, StreamTyped, Stages
  <2> QED BY <1>2, <2>1 DEF LibraryStep, gameVars, GameInv, Table
<1>3. CASE UpdateStep
  <2>1. StreamTyped' /\ late' \subseteq PlayerIds
    BY <1>3, UpdateTable DEF UpdateStep, LateKill, streamVars, GameInv, StreamTyped, Table
  <2> QED BY <1>3, <2>1, UpdateTable DEF UpdateStep, LateKill, GameInv
<1>4. ASSUME NEW i \in PlayerIds, NewConnection(i) PROVE GameInv'
  <2>1. StreamTyped' /\ late' \subseteq PlayerIds
    BY <1>4 DEF NewConnection, Library!TakeNew, Late, GameInv, StreamTyped, Stages
  <2>2. Table(players')
    BY <1>4, FreshRecord, PutTable DEF NewConnection, CreateNewPlayer, GameInv
  <2> QED BY <1>4, <2>1, <2>2 DEF NewConnection, CreateNewPlayer, GameInv
<1>5. ASSUME NEW i \in PlayerIds, LostConnection(i) PROVE GameInv'
  <2>1. StreamTyped' /\ late' \subseteq PlayerIds
    BY <1>5 DEF LostConnection, Library!TakeLoss, GameInv, StreamTyped, Stages
  <2>2. Table(players')
    BY <1>5, EraseTable DEF LostConnection, DeletePlayer, GameInv
  <2> QED BY <1>5, <2>1, <2>2 DEF LostConnection, DeletePlayer, GameInv
<1>6. ASSUME NEW i \in PlayerIds, Message(i) PROVE GameInv'
  <2>1. StreamTyped' /\ late' \subseteq PlayerIds
    BY <1>6 DEF Message, Library!TakeFrame, Late, GameInv, StreamTyped
  <2> QED BY <1>6, <2>1, CommandTable DEF Message, GameInv
<1> QED BY <1>1, <1>2, <1>3, <1>4, <1>5, <1>6 DEF Next

LEMMA GameInvariance == Spec => []GameInv
<1> QED BY GameInit, GameStep, PTL DEF Spec

-----------------------------------------------------------------------------
(* Health never runs out and never wraps: a hit that would take it to 0 or  *)
(* below kills instead (checkProjectileCollisions, game.cpp).               *)
THEOREM HealthStaysInRange == Spec => []HealthInRange
<1>1. GameInv => HealthInRange
  BY DEF GameInv, Table, Record, HealthInRange
<1> QED BY <1>1, GameInvariance, PTL

(* A client that is connected, as far as the game was told, has a record    *)
(* under its own id, whatever late events of others insert.                 *)
THEOREM ConnectedKeepsPlayer == Spec => []ConnectedHasPlayer
<1>1. Init => ConnectedHasPlayer
  BY DEF Init, Library!Init, Library!Clients, PlayerIds, ConnectedHasPlayer
<1>2. GameInv /\ ConnectedHasPlayer /\ [Next]_vars => ConnectedHasPlayer'
  <2> SUFFICES ASSUME GameInv, ConnectedHasPlayer, [Next]_vars PROVE ConnectedHasPlayer'
    OBVIOUS
  <2>0. /\ new \in [PlayerIds -> Stages] /\ lost \in [PlayerIds -> Stages]
        /\ Table(players)
    BY DEF GameInv, StreamTyped
  <2>1. CASE UNCHANGED vars
    BY <2>1 DEF vars, ConnectedHasPlayer
  <2>2. CASE LibraryStep
    BY <2>0, <2>2 DEF LibraryStep, Library!Announce, Library!PushFrame, Library!ReportLoss,
                      gameVars, ConnectedHasPlayer
  <2>3. CASE UpdateStep
    BY <2>3, UpdateTable DEF UpdateStep, LateKill, streamVars, ConnectedHasPlayer
  <2>4. ASSUME NEW i \in PlayerIds, NewConnection(i) PROVE ConnectedHasPlayer'
    <3>1. /\ players' = Put(players, i, Player(i)) /\ lost' = lost
          /\ new' = [new EXCEPT ![i] = "taken"]
      BY <2>4 DEF NewConnection, CreateNewPlayer, Library!TakeNew
    <3> QED BY <2>0, <3>1 DEF ConnectedHasPlayer, Put, Player
  <2>5. ASSUME NEW i \in PlayerIds, LostConnection(i) PROVE ConnectedHasPlayer'
    <3>1. /\ players' = Erase(players, i) /\ new' = new
          /\ lost' = [lost EXCEPT ![i] = "taken"]
      BY <2>5 DEF LostConnection, DeletePlayer, Library!TakeLoss
    <3> QED BY <2>0, <3>1 DEF ConnectedHasPlayer, Erase
  <2>6. ASSUME NEW i \in PlayerIds, Message(i) PROVE ConnectedHasPlayer'
    <3>1. new' = new /\ lost' = lost /\ Command(i)
      BY <2>6 DEF Message, Library!TakeFrame
    <3> QED BY <3>1, CommandTable DEF ConnectedHasPlayer
  <2> QED BY <2>1, <2>2, <2>3, <2>4, <2>5, <2>6 DEF Next
<1> QED BY <1>1, <1>2, GameInvariance, PTL DEF Spec

(* A client that is gone leaves a record only if one was written for it     *)
(* after its loss was handled.                                              *)
THEOREM GoneLeavesNothing == Spec => []GoneUnlessLate
<1>1. Init => GoneUnlessLate
  BY DEF Init, InitGame, GoneUnlessLate
<1>2. GameInv /\ GoneUnlessLate /\ [Next]_vars => GoneUnlessLate'
  <2> SUFFICES ASSUME GameInv, GoneUnlessLate, [Next]_vars PROVE GoneUnlessLate'
    OBVIOUS
  <2>0. lost \in [PlayerIds -> Stages] /\ Table(players) /\ late \subseteq PlayerIds
    BY DEF GameInv, StreamTyped
  <2>1. CASE UNCHANGED vars
    BY <2>1 DEF vars, GoneUnlessLate
  <2>2. CASE LibraryStep
    BY <2>0, <2>2 DEF LibraryStep, Library!Announce, Library!PushFrame, Library!ReportLoss,
                      gameVars, GoneUnlessLate
  <2>3. CASE UpdateStep
    BY <2>3, UpdateTable DEF UpdateStep, LateKill, streamVars, GoneUnlessLate
  <2>4. ASSUME NEW i \in PlayerIds, NewConnection(i) PROVE GoneUnlessLate'
    <3>1. players' = Put(players, i, Player(i)) /\ lost' = lost /\ Late(i)
      BY <2>4 DEF NewConnection, CreateNewPlayer, Library!TakeNew
    <3> QED BY <2>0, <3>1 DEF GoneUnlessLate, Put, Late
  <2>5. ASSUME NEW i \in PlayerIds, LostConnection(i) PROVE GoneUnlessLate'
    <3>1. /\ players' = Erase(players, i) /\ late' = late
          /\ lost' = [lost EXCEPT ![i] = "taken"]
      BY <2>5 DEF LostConnection, DeletePlayer, Library!TakeLoss
    <3> QED BY <2>0, <3>1 DEF GoneUnlessLate, Erase
  <2>6. ASSUME NEW i \in PlayerIds, Message(i) PROVE GoneUnlessLate'
    <3>1. lost' = lost /\ Command(i) /\ Late(i)
      BY <2>6 DEF Message, Library!TakeFrame
    <3>2. DOMAIN players' \subseteq DOMAIN players \cup {i}
      BY <3>1, CommandTable
    <3> QED BY <2>0, <3>1, <3>2 DEF GoneUnlessLate, Late
  <2> QED BY <2>1, <2>2, <2>3, <2>4, <2>5, <2>6 DEF Next
<1> QED BY <1>1, <1>2, GameInvariance, PTL DEF Spec

(* Who is in the game: the records, and the owners of the projectiles, are  *)
(* of clients the game was told of.                                         *)
Known ==
  /\ \A i \in DOMAIN players : new[i] = "taken"
  /\ \A k \in DOMAIN projectiles : new[projectiles[k]] = "taken"

(* erase() of the vector leaves no projectile that was not there.           *)
LEMMA RemovedOwners ==
  ASSUME GameInv, cursor > 0, RemoveProjectile, NEW k \in DOMAIN projectiles'
  PROVE  \E l \in DOMAIN projectiles : projectiles'[k] = projectiles[l]
<1> DEFINE before == SubSeq(projectiles, 1, cursor - 1)
           after == SubSeq(projectiles, cursor + 1, Len(projectiles))
<1>1. /\ projectiles \in Seq(PlayerIds) /\ Len(projectiles) \in Nat
      /\ cursor \in 1 .. Len(projectiles)
  BY DEF GameInv
<1>2. /\ before \in Seq(PlayerIds) /\ Len(before) = cursor - 1
      /\ \A l \in 1 .. cursor - 1 : before[l] = projectiles[l]
  BY <1>1
<1>3. /\ after \in Seq(PlayerIds) /\ Len(after) = Len(projectiles) - cursor
      /\ \A l \in 1 .. Len(projectiles) - cursor : after[l] = projectiles[cursor + l]
  BY <1>1
<1>4. projectiles' = before \o after
  BY DEF RemoveProjectile, RemoveAt
<1> HIDE DEF before, after
<1>5. k \in 1 .. Len(projectiles) - 1
  BY <1>1, <1>2, <1>3, <1>4
<1>6. CASE k < cursor
  <2>1. projectiles'[k] = projectiles[k]
    BY <1>1, <1>2, <1>3, <1>4, <1>5, <1>6
  <2> QED BY <1>1, <1>5, <2>1
<1>7. CASE k >= cursor
  <2>1. projectiles'[k] = after[k - (cursor - 1)]
    BY <1>1, <1>2, <1>3, <1>4, <1>5, <1>7
  <2>2. projectiles'[k] = projectiles[k + 1]
    BY <1>1, <1>3, <1>5, <1>7, <2>1
  <2> QED BY <1>1, <1>5, <2>2
<1> QED BY <1>1, <1>5, <1>6, <1>7

(* An update adds a record of the owner of a projectile, if any, and no     *)
(* projectile.                                                              *)
LEMMA UpdateKnown ==
  ASSUME GameInv, Known, Update
  PROVE  /\ \A i \in DOMAIN players' : new[i] = "taken"
         /\ \A k \in DOMAIN projectiles' : new[projectiles'[k]] = "taken"
<1>1. projectiles \in Seq(PlayerIds) /\ Len(projectiles) \in Nat /\ cursor \in 0 .. Len(projectiles)
  BY DEF GameInv
<1>2. CASE StartUpdate \/ Misses
  BY <1>2 DEF StartUpdate, Misses, Known
<1>3. CASE HitsMap
  BY <1>3, RemovedOwners DEF HitsMap, Known
<1>4. ASSUME NEW i \in PlayerIds, HitsPlayer(i)
      PROVE  /\ \A j \in DOMAIN players' : new[j] = "taken"
             /\ \A k \in DOMAIN projectiles' : new[projectiles'[k]] = "taken"
  <2>1. /\ i \in DOMAIN players /\ cursor > 0 /\ RemoveProjectile
        /\ players' = Harm(players, i, Owner)
    BY <1>4 DEF HitsPlayer
  <2>2. cursor \in DOMAIN projectiles
    BY <1>1, <2>1
  <2>3. DOMAIN players' \subseteq DOMAIN players \cup {Owner}
    BY <2>1 DEF Harm, Put
  <2> QED BY <2>1, <2>2, <2>3, RemovedOwners DEF Known, Owner
<1> QED BY <1>2, <1>3, <1>4 DEF Update

LEMMA KnownStep ==
  ASSUME GameInv, Known, [Next]_vars
  PROVE  Known'
<1>1. new \in [PlayerIds -> Stages] /\ lost \in [PlayerIds -> Stages] /\ Table(players)
  BY DEF GameInv, StreamTyped
<1>2. projectiles \in Seq(PlayerIds) /\ Len(projectiles) \in Nat
  BY DEF GameInv
<1>3. CASE UNCHANGED vars
  BY <1>3 DEF vars, Known
<1>4. CASE LibraryStep
  BY <1>1, <1>2, <1>4 DEF LibraryStep, Library!Announce, Library!PushFrame,
     Library!ReportLoss, gameVars, Known, Table
<1>5. CASE UpdateStep
  BY <1>5, UpdateKnown DEF UpdateStep, streamVars, Known
<1>6. ASSUME NEW i \in PlayerIds, NewConnection(i) PROVE Known'
  <2>1. /\ players' = Put(players, i, Player(i)) /\ projectiles' = projectiles
        /\ new' = [new EXCEPT ![i] = "taken"]
    BY <1>6 DEF NewConnection, CreateNewPlayer, Library!TakeNew
  <2>2. DOMAIN players' = DOMAIN players \cup {i}
    BY <2>1 DEF Put
  <2>3. \A j \in PlayerIds : new[j] = "taken" => new'[j] = "taken"
    BY <1>1, <2>1
  <2>4. new'[i] = "taken"
    BY <1>1, <2>1
  <2> QED BY <1>1, <1>2, <2>1, <2>2, <2>3, <2>4 DEF Known, Table
<1>7. ASSUME NEW i \in PlayerIds, LostConnection(i) PROVE Known'
  <2>1. players' = Erase(players, i) /\ projectiles' = projectiles /\ new' = new
    BY <1>7 DEF LostConnection, DeletePlayer, Library!TakeLoss
  <2> QED BY <2>1 DEF Known, Erase
<1>8. ASSUME NEW i \in PlayerIds, Message(i) PROVE Known'
  <2>1. new' = new /\ new[i] = "taken" /\ Command(i)
    BY <1>8 DEF Message, Library!TakeFrame
  <2>2. DOMAIN players' \subseteq DOMAIN players \cup {i}
    BY <2>1, CommandTable
  <2>3. projectiles' = projectiles \/ projectiles' = Append(projectiles, i)
    BY <2>1 DEF Command, SpawnPlayer, ShootProjectile, ChangePlayer, NoChange, gameVars
  <2>4. \A k \in DOMAIN projectiles' : new[projectiles'[k]] = "taken"
    BY <1>2, <2>1, <2>3 DEF Known
  <2> QED BY <2>1, <2>2, <2>4 DEF Known
<1> QED BY <1>3, <1>4, <1>5, <1>6, <1>7, <1>8 DEF Next

(* Two players bear the same id only if the record of one was written after *)
(* its loss was handled: DistinctIds fails in this way and in no other.     *)
OnlyLateShareIds ==
  \A i, j \in DOMAIN players \ late : players[i].player_id = players[j].player_id => i = j

THEOREM OnlyLateIdsClash == Spec => []OnlyLateShareIds
<1>1. Init => Known
  BY DEF Init, InitGame, Known
<1>2. GameInv /\ Known /\ [Next]_vars => Known'
  BY KnownStep
<1>3. GameInv /\ Known /\ ConnectedHasPlayer /\ GoneUnlessLate => OnlyLateShareIds
  <2> SUFFICES ASSUME GameInv, Known, ConnectedHasPlayer, GoneUnlessLate,
                      NEW i \in DOMAIN players \ late
               PROVE  players[i].player_id = i
    BY DEF OnlyLateShareIds
  <2>1. i \in PlayerIds /\ new[i] = "taken"
    BY DEF GameInv, Table, Known
  <2>2. lost[i] # "taken"
    BY <2>1 DEF GoneUnlessLate
  <2> QED BY <2>1, <2>2 DEF ConnectedHasPlayer
<1> QED BY <1>1, <1>2, <1>3, GameInvariance, ConnectedKeepsPlayer, GoneLeavesNothing, PTL DEF Spec

(* A projectile harms one player at most, and is gone after it: no other    *)
(* step of the game, of the library or of a handler harms a player.         *)
OneVictim ==
  \A i \in PlayerIds : Harmed(i) =>
    /\ Len(projectiles') = Len(projectiles) - 1
    /\ \A j \in PlayerIds : Harmed(j) => j = i

THEOREM ProjectileSpentOnce == Spec => OneProjectileOneVictim
<1>1. GameInv /\ [Next]_vars => [OneVictim]_gameVars
  <2> SUFFICES ASSUME GameInv, [Next]_vars PROVE OneVictim \/ UNCHANGED gameVars
    OBVIOUS
  <2>0. /\ Table(players)
        /\ \A j \in DOMAIN players : players[j].health \in 1 .. MaxHealth /\ players[j].deaths \in Nat
    BY DEF GameInv, Table, Record
  <2>1. CASE UNCHANGED vars \/ LibraryStep
    BY <2>1 DEF vars, LibraryStep, gameVars
  <2>2. ASSUME players' = players PROVE OneVictim
    BY <2>0, <2>2 DEF OneVictim, Harmed
  <2>3. CASE UpdateStep
    <3>1. CASE StartUpdate \/ Misses \/ HitsMap
      BY <2>2, <3>1 DEF StartUpdate, Misses, HitsMap
    <3>2. ASSUME NEW i \in PlayerIds, HitsPlayer(i) PROVE OneVictim
      <4>1. /\ i \in DOMAIN players /\ i # Owner /\ cursor > 0 /\ RemoveProjectile
            /\ players' = Harm(players, i, Owner)
        BY <3>2 DEF HitsPlayer
      <4>2. Owner \in PlayerIds
        BY <4>1 DEF Owner, GameInv
      <4>3. \A j \in PlayerIds : Harmed(j) => j = i
        BY <2>0, <4>1, <4>2, HarmTable DEF Harmed
      <4> QED BY <4>1, <4>3, Removed DEF OneVictim
    <3> QED BY <2>3, <3>1, <3>2 DEF UpdateStep, LateKill, Update
  <2>4. ASSUME NEW i \in PlayerIds, NewConnection(i) PROVE OneVictim
    <3>1. players' = Put(players, i, Player(i))
      BY <2>4 DEF NewConnection, CreateNewPlayer
    <3>2. (~ (MaxHealth < players[i].health) /\ ~ (0 > players[i].deaths)) \/ i \notin DOMAIN players
      BY <2>0, GameAssumption
    <3>3. \A j \in PlayerIds : ~ Harmed(j)
      BY <2>0, <3>1, <3>2 DEF Harmed, Put, Player
    <3> QED BY <3>3 DEF OneVictim
  <2>5. ASSUME NEW i \in PlayerIds, LostConnection(i) PROVE OneVictim
    <3>1. players' = Erase(players, i)
      BY <2>5 DEF LostConnection, DeletePlayer
    <3>2. \A j \in PlayerIds : ~ Harmed(j)
      BY <2>0, <3>1 DEF Harmed, Erase
    <3> QED BY <3>2 DEF OneVictim
  <2>6. ASSUME NEW i \in PlayerIds, Message(i) PROVE OneVictim
    <3>1. \A j \in PlayerIds : ~ Harmed(j)
      BY <2>0, <2>6, CommandTable DEF Message, Harmed
    <3> QED BY <3>1 DEF OneVictim
  <2> QED BY <2>1, <2>3, <2>4, <2>5, <2>6 DEF Next
<1> QED BY <1>1, GameInvariance, PTL DEF Spec, OneProjectileOneVictim, OneVictim
-----------------------------------------------------------------------------
(* The scores.  Tally(count) has count[i] pairs for every i, so what a step *)
(* does to a sum is what it does to the cardinality of a set.               *)

Count(c, i) == IF i \in DOMAIN c THEN c[i] ELSE 0

Counts(c) == DOMAIN c \subseteq PlayerIds /\ c \in [DOMAIN c -> Nat]

LEMMA TallyPairs ==
  ASSUME NEW c, Counts(c)
  PROVE  /\ \A i, n : <<i, n>> \in Tally(c) <=> i \in PlayerIds /\ n \in 1 .. Count(c, i)
         /\ \A p \in Tally(c) : p = <<p[1], p[2]>>
         /\ \A i : Count(c, i) \in Nat
<1>1. ASSUME NEW i, NEW n PROVE <<i, n>> \in Tally(c) <=> i \in PlayerIds /\ n \in 1 .. Count(c, i)
  BY DEF Tally, Count, Counts
<1>2. \A p \in Tally(c) : p = <<p[1], p[2]>>
  BY DEF Tally
<1> QED BY <1>1, <1>2 DEF Count, Counts

LEMMA SameTally ==
  ASSUME NEW c, Counts(c), NEW d, Counts(d), \A i \in PlayerIds : Count(d, i) = Count(c, i)
  PROVE  Tally(d) = Tally(c)
<1>1. ASSUME NEW a, Counts(a), NEW b, Counts(b), NEW p \in Tally(a),
             \A i \in PlayerIds : Count(a, i) = Count(b, i)
      PROVE  p \in Tally(b)
  <2>1. p = <<p[1], p[2]>>
    BY <1>1, TallyPairs
  <2>2. p[1] \in PlayerIds /\ p[2] \in 1 .. Count(a, p[1])
    BY <1>1, <2>1, TallyPairs
  <2> QED BY <1>1, <2>1, <2>2, TallyPairs
<1> QED BY <1>1

LEMMA OneMore ==
  ASSUME NEW c, Counts(c), NEW d, Counts(d), IsFiniteSet(Tally(c)),
         NEW i \in PlayerIds, Count(d, i) = Count(c, i) + 1,
         \A j \in PlayerIds \ {i} : Count(d, j) = Count(c, j)
  PROVE  IsFiniteSet(Tally(d)) /\ Total(d) = Total(c) + 1
<1> DEFINE n == Count(c, i) + 1
<1>1. Count(c, i) \in Nat /\ Count(d, i) = n /\ n \in Nat
  BY TallyPairs
<1>2. <<i, n>> \notin Tally(c)
  BY <1>1, TallyPairs
<1>3. Tally(d) \subseteq Tally(c) \cup {<<i, n>>}
  <2> SUFFICES ASSUME NEW p \in Tally(d) PROVE p \in Tally(c) \cup {<<i, n>>}
    OBVIOUS
  <2>1. p = <<p[1], p[2]>> /\ p[1] \in PlayerIds /\ p[2] \in 1 .. Count(d, p[1])
    <3>1. p = <<p[1], p[2]>>
      BY TallyPairs
    <3> QED BY <3>1, TallyPairs
  <2>2. CASE p[1] = i /\ p[2] = n
    BY <2>1, <2>2
  <2>3. CASE ~ (p[1] = i /\ p[2] = n)
    <3>1. p[2] \in 1 .. Count(c, p[1])
      BY <1>1, <2>1, <2>3
    <3> QED BY <2>1, <3>1, TallyPairs
  <2> QED BY <2>2, <2>3
<1>4. Tally(c) \cup {<<i, n>>} \subseteq Tally(d)
  <2>1. <<i, n>> \in Tally(d)
    BY <1>1, TallyPairs
  <2>2. ASSUME NEW p \in Tally(c) PROVE p \in Tally(d)
    <3>1. p = <<p[1], p[2]>>
      BY TallyPairs
    <3>2. p[1] \in PlayerIds /\ p[2] \in 1 .. Count(c, p[1])
      BY <3>1, TallyPairs
    <3>3. p[2] \in 1 .. Count(d, p[1])
      BY <1>1, <3>2
    <3> QED BY <3>1, <3>2, <3>3, TallyPairs
  <2> QED BY <2>1, <2>2
<1>5. Tally(d) = Tally(c) \cup {<<i, n>>}
  BY <1>3, <1>4
<1> HIDE DEF n
<1> QED BY <1>2, <1>5, FS_AddElement DEF Total

(* Without the pairs of i.                                                  *)
LEMMA Dropped ==
  ASSUME NEW c, Counts(c), NEW d, Counts(d), IsFiniteSet(Tally(c)),
         NEW i \in PlayerIds, Count(d, i) = 0,
         \A j \in PlayerIds \ {i} : Count(d, j) = Count(c, j)
  PROVE  IsFiniteSet(Tally(d)) /\ Total(c) = Total(d) + Count(c, i)
<1> DEFINE mine == {i} \X (1 .. Count(c, i))
<1>1. Count(c, i) \in Nat
  BY TallyPairs
<1>2. \A p : p \in mine <=> p = <<p[1], p[2]>> /\ p[1] = i /\ p[2] \in 1 .. Count(c, i)
  OBVIOUS
<1>3. IsFiniteSet(mine) /\ Cardinality(mine) = Count(c, i)
  <2>1. IsFiniteSet(1 .. Count(c, i)) /\ Cardinality(1 .. Count(c, i)) = Count(c, i)
    BY <1>1, FS_Interval
  <2>2. IsFiniteSet({i}) /\ Cardinality({i}) = 1
    BY FS_Singleton
  <2>3. IsFiniteSet(mine) /\ Cardinality(mine) = Cardinality({i}) * Cardinality(1 .. Count(c, i))
    BY <2>1, <2>2, FS_Product
  <2> QED BY <1>1, <2>1, <2>2, <2>3
<1> HIDE DEF mine
<1>4. Tally(c) \subseteq Tally(d) \cup mine
  <2> SUFFICES ASSUME NEW p \in Tally(c) PROVE p \in Tally(d) \cup mine
    OBVIOUS
  <2>1. p = <<p[1], p[2]>>
    BY TallyPairs
  <2>2. p[1] \in PlayerIds /\ p[2] \in 1 .. Count(c, p[1])
    BY <2>1, TallyPairs
  <2>3. CASE p[1] = i
    BY <1>2, <2>1, <2>2, <2>3
  <2>4. CASE p[1] # i
    BY <2>1, <2>2, <2>4, TallyPairs
  <2> QED BY <2>3, <2>4
<1>5. ASSUME NEW p \in Tally(d) PROVE p \in Tally(c) /\ p \notin mine
  <2>1. p = <<p[1], p[2]>>
    BY TallyPairs
  <2>2. p[1] \in PlayerIds /\ p[2] \in 1 .. Count(d, p[1])
    BY <2>1, TallyPairs
  <2>3. p[1] # i
    BY <2>2
  <2> QED BY <1>2, <2>1, <2>2, <2>3, TallyPairs
<1>6. mine \subseteq Tally(c)
  BY <1>2, TallyPairs
<1>7. Tally(c) = Tally(d) \cup mine /\ Tally(d) \cap mine = {}
  BY <1>4, <1>5, <1>6
<1>8. IsFiniteSet(Tally(d))
  BY <1>7, FS_Subset
<1>9. Cardinality(Tally(d) \cup mine) =
        Cardinality(Tally(d)) + Cardinality(mine) - Cardinality(Tally(d) \cap mine)
  BY <1>3, <1>8, FS_Union
<1>10. Cardinality(Tally(d) \cap mine) = 0 /\ Cardinality(Tally(d)) \in Nat
  BY <1>7, <1>8, FS_EmptySet, FS_CardinalityType
<1> QED BY <1>1, <1>3, <1>7, <1>8, <1>9, <1>10 DEF Total

(* Kills and deaths balance, and every death and every player in play was   *)
(* a spawn: with s spawns, and d the scores of the records that are gone.   *)
InPlay(t) == {i \in DOMAIN t : t[i].alive}

Balance(t, s, d) ==
  /\ IsFiniteSet(Tally(Kills(t))) /\ IsFiniteSet(Tally(Deaths(t)))
  /\ Total(Kills(t)) + d.kills = Total(Deaths(t)) + d.deaths
  /\ Total(Deaths(t)) + d.deaths + Cardinality(InPlay(t)) <= s

Scores == [kills : Nat, deaths : Nat]

KillsOf(t, i)  == Count(Kills(t), i)
DeathsOf(t, i) == Count(Deaths(t), i)

LEMMA TableCounts ==
  ASSUME NEW t, Table(t)
  PROVE  /\ Counts(Kills(t)) /\ Counts(Deaths(t))
         /\ \A i : KillsOf(t, i)  = IF i \in DOMAIN t THEN t[i].kills ELSE 0
         /\ \A i : DeathsOf(t, i) = IF i \in DOMAIN t THEN t[i].deaths ELSE 0
         /\ InPlay(t) \subseteq PlayerIds
         /\ IsFiniteSet(InPlay(t)) /\ Cardinality(InPlay(t)) \in Nat
<1>1. Counts(Kills(t)) /\ Counts(Deaths(t))
  BY DEF Counts, Kills, Deaths, Table, Record
<1>2. /\ \A i : KillsOf(t, i)  = IF i \in DOMAIN t THEN t[i].kills ELSE 0
      /\ \A i : DeathsOf(t, i) = IF i \in DOMAIN t THEN t[i].deaths ELSE 0
  BY DEF KillsOf, DeathsOf, Count, Kills, Deaths
<1>3. InPlay(t) \subseteq PlayerIds
  BY DEF InPlay, Table
<1>4. IsFiniteSet(PlayerIds)
  <2>1. 0 \in Int /\ MaxClients - 1 \in Int
    BY GameAssumption
  <2> QED BY <2>1, FS_Interval DEF PlayerIds
<1>5. IsFiniteSet(InPlay(t)) /\ Cardinality(InPlay(t)) \in Nat
  BY <1>3, <1>4, FS_Subset, FS_CardinalityType
<1> QED BY <1>1, <1>2, <1>3, <1>5

(* Sums of finite tallies are numbers.                                      *)
LEMMA TotalNat == ASSUME NEW c, IsFiniteSet(Tally(c)) PROVE Total(c) \in Nat
BY FS_CardinalityType DEF Total

(* Nobody scores: records are inserted, or a player is taken out of play.   *)
LEMMA BalanceKept ==
  ASSUME NEW t, Table(t), NEW u, Table(u), NEW s \in Nat, NEW d \in Scores,
         Balance(t, s, d),
         \A i \in PlayerIds : KillsOf(u, i) = KillsOf(t, i) /\ DeathsOf(u, i) = DeathsOf(t, i),
         InPlay(u) \subseteq InPlay(t)
  PROVE  Balance(u, s, d)
<1>1. Tally(Kills(u)) = Tally(Kills(t)) /\ Tally(Deaths(u)) = Tally(Deaths(t))
  BY SameTally, TableCounts DEF KillsOf, DeathsOf
<1>2. Cardinality(InPlay(u)) <= Cardinality(InPlay(t))
  BY TableCounts, FS_Subset
<1>3. Total(Kills(t)) \in Nat /\ Total(Deaths(t)) \in Nat
  BY TotalNat DEF Balance
<1>4. Cardinality(InPlay(u)) \in Nat /\ Cardinality(InPlay(t)) \in Nat
  BY TableCounts
<1> QED BY <1>1, <1>2, <1>3, <1>4 DEF Balance, Total, Scores

(* A player spawns.                                                         *)
LEMMA BalanceSpawned ==
  ASSUME NEW t, Table(t), NEW u, Table(u), NEW s \in Nat, NEW d \in Scores,
         Balance(t, s, d), NEW i \in PlayerIds,
         \A j \in PlayerIds : KillsOf(u, j) = KillsOf(t, j) /\ DeathsOf(u, j) = DeathsOf(t, j),
         InPlay(u) = InPlay(t) \cup {i}
  PROVE  Balance(u, s + 1, d)
<1>1. Tally(Kills(u)) = Tally(Kills(t)) /\ Tally(Deaths(u)) = Tally(Deaths(t))
  BY SameTally, TableCounts DEF KillsOf, DeathsOf
<1>2. Cardinality(InPlay(u)) <= Cardinality(InPlay(t)) + 1
  <2>1. IsFiniteSet(InPlay(t)) /\ Cardinality(InPlay(t)) \in Nat
    BY TableCounts
  <2>2. Cardinality(InPlay(u)) \in {Cardinality(InPlay(t)), Cardinality(InPlay(t)) + 1}
    BY <2>1, FS_AddElement
  <2> QED BY <2>1, <2>2
<1>3. Total(Kills(t)) \in Nat /\ Total(Deaths(t)) \in Nat
  BY TotalNat DEF Balance
<1>4. Cardinality(InPlay(u)) \in Nat /\ Cardinality(InPlay(t)) \in Nat
  BY TableCounts
<1> QED BY <1>1, <1>2, <1>3, <1>4 DEF Balance, Total, Scores

(* The record of i goes, or is overwritten by a new one: its scores join    *)
(* those that are gone.                                                     *)
LEMMA BalanceDeparted ==
  ASSUME NEW t, Table(t), NEW u, Table(u), NEW s \in Nat, NEW d \in Scores,
         Balance(t, s, d), NEW i \in PlayerIds, NEW e \in Scores,
         e.kills = d.kills + KillsOf(t, i), e.deaths = d.deaths + DeathsOf(t, i),
         KillsOf(u, i) = 0, DeathsOf(u, i) = 0,
         \A j \in PlayerIds \ {i} : /\ KillsOf(u, j) = KillsOf(t, j)
                                    /\ DeathsOf(u, j) = DeathsOf(t, j),
         InPlay(u) \subseteq InPlay(t)
  PROVE  Balance(u, s, e)
<1>1. /\ IsFiniteSet(Tally(Kills(u))) /\ Total(Kills(t)) = Total(Kills(u)) + KillsOf(t, i)
      /\ IsFiniteSet(Tally(Deaths(u))) /\ Total(Deaths(t)) = Total(Deaths(u)) + DeathsOf(t, i)
  <2>1. /\ Counts(Kills(t)) /\ Counts(Kills(u)) /\ Counts(Deaths(t)) /\ Counts(Deaths(u))
        /\ IsFiniteSet(Tally(Kills(t))) /\ IsFiniteSet(Tally(Deaths(t)))
    BY TableCounts DEF Balance
  <2> QED BY <2>1, Dropped DEF KillsOf, DeathsOf
<1>2. Cardinality(InPlay(u)) <= Cardinality(InPlay(t))
  BY TableCounts, FS_Subset
<1>3. Total(Kills(u)) \in Nat /\ Total(Deaths(u)) \in Nat
  BY <1>1, TotalNat
<1>4. Cardinality(InPlay(u)) \in Nat /\ Cardinality(InPlay(t)) \in Nat
  BY TableCounts
<1>5. KillsOf(t, i) \in Nat /\ DeathsOf(t, i) \in Nat
  BY TableCounts, TallyPairs DEF KillsOf, DeathsOf
<1> QED BY <1>1, <1>2, <1>3, <1>4, <1>5 DEF Balance, Scores

(* A hit that kills: a death of i, a kill of somebody else's, and i is out  *)
(* of play.                                                                 *)
LEMMA BalanceKilled ==
  ASSUME NEW t, Table(t), NEW u, Table(u), NEW s \in Nat, NEW d \in Scores,
         Balance(t, s, d), NEW i \in InPlay(t), NEW by \in PlayerIds,
         KillsOf(u, by) = KillsOf(t, by) + 1, DeathsOf(u, i) = DeathsOf(t, i) + 1,
         \A j \in PlayerIds \ {by} : KillsOf(u, j) = KillsOf(t, j),
         \A j \in PlayerIds \ {i} : DeathsOf(u, j) = DeathsOf(t, j),
         InPlay(u) = InPlay(t) \ {i}
  PROVE  Balance(u, s, d)
<1>1. /\ IsFiniteSet(Tally(Kills(u))) /\ Total(Kills(u)) = Total(Kills(t)) + 1
      /\ IsFiniteSet(Tally(Deaths(u))) /\ Total(Deaths(u)) = Total(Deaths(t)) + 1
  <2>1. /\ Counts(Kills(t)) /\ Counts(Kills(u)) /\ Counts(Deaths(t)) /\ Counts(Deaths(u))
        /\ IsFiniteSet(Tally(Kills(t))) /\ IsFiniteSet(Tally(Deaths(t)))
        /\ i \in PlayerIds
    BY TableCounts DEF Balance
  <2> QED BY <2>1, OneMore DEF KillsOf, DeathsOf
<1>2. Cardinality(InPlay(u)) = Cardinality(InPlay(t)) - 1
  BY TableCounts, FS_RemoveElement
<1>3. Total(Kills(t)) \in Nat /\ Total(Deaths(t)) \in Nat
  BY TotalNat DEF Balance
<1>4. Cardinality(InPlay(u)) \in Nat /\ Cardinality(InPlay(t)) \in Nat
  BY TableCounts
<1> QED BY <1>1, <1>2, <1>3, <1>4 DEF Balance, Scores

(* The record of i is written: what becomes of the counts.                  *)
LEMMA PutScores ==
  ASSUME NEW t, Table(t), NEW i \in PlayerIds, NEW r \in Record
  PROVE  /\ Table(Put(t, i, r))
         /\ KillsOf(Put(t, i, r), i) = r.kills /\ DeathsOf(Put(t, i, r), i) = r.deaths
         /\ \A j \in PlayerIds \ {i} : /\ KillsOf(Put(t, i, r), j) = KillsOf(t, j)
                                       /\ DeathsOf(Put(t, i, r), j) = DeathsOf(t, j)
         /\ InPlay(Put(t, i, r)) = IF r.alive THEN InPlay(t) \cup {i} ELSE InPlay(t) \ {i}
<1> DEFINE u == Put(t, i, r)
<1>1. /\ Table(u) /\ DOMAIN u = DOMAIN t \cup {i} /\ u[i] = r
      /\ \A j \in DOMAIN t : j # i => u[j] = t[j]
  BY PutTable
<1> HIDE DEF u
<1>2. /\ KillsOf(u, i) = r.kills /\ DeathsOf(u, i) = r.deaths
      /\ \A j \in PlayerIds \ {i} : KillsOf(u, j) = KillsOf(t, j) /\ DeathsOf(u, j) = DeathsOf(t, j)
  BY <1>1, TableCounts
<1>3. InPlay(u) = IF r.alive THEN InPlay(t) \cup {i} ELSE InPlay(t) \ {i}
  <2>1. CASE r.alive
    BY <1>1, <2>1, Zenon DEF InPlay
  <2>2. CASE ~ r.alive
    BY <1>1, <2>2, Zenon DEF InPlay
  <2> QED BY <2>1, <2>2
<1> QED BY <1>1, <1>2, <1>3 DEF u

(* What players[i] returns, inserted or not, has the scores and the life    *)
(* of i.                                                                    *)
LEMMA GetScores ==
  ASSUME NEW t, Table(t), NEW i \in PlayerIds
  PROVE  /\ Get(t, i) \in Record
         /\ Get(t, i).kills = KillsOf(t, i) /\ Get(t, i).deaths = DeathsOf(t, i)
         /\ Get(t, i).alive <=> i \in InPlay(t)
<1>1. Get(t, i) \in Record
  BY GetRecord
<1>2. Get(t, i).kills = KillsOf(t, i) /\ Get(t, i).deaths = DeathsOf(t, i)
  BY TableCounts DEF Get, Player
<1>3. Get(t, i).alive <=> i \in InPlay(t)
  <2>1. CASE i \in DOMAIN t
    BY <2>1 DEF Get, InPlay
  <2>2. CASE i \notin DOMAIN t
    BY <2>2 DEF Get, InPlay, Player
  <2> QED BY <2>1, <2>2
<1> QED BY <1>1, <1>2, <1>3

LEMMA HarmScores ==
  ASSUME NEW t, Table(t), NEW i \in InPlay(t), NEW by \in PlayerIds, i # by,
         NEW s \in Nat, NEW d \in Scores, Balance(t, s, d)
  PROVE  Balance(Harm(t, i, by), s, d)
<1> DEFINE dead == [t[i] EXCEPT !.alive = FALSE, !.deaths = t[i].deaths + 1]
           killed == Put(t, i, dead)
           scorer == [Get(killed, by) EXCEPT !.kills = Get(killed, by).kills + 1]
           wounded == [t[i] EXCEPT !.health = t[i].health - Damage]
<1>1. /\ i \in DOMAIN t /\ t[i].alive /\ t[i] \in Record /\ i \in PlayerIds
      /\ t \in [DOMAIN t -> Record]
  BY DEF InPlay, Table
<1>2. Table(Harm(t, i, by))
  BY <1>1, HarmTable
<1>3. /\ KillsOf(t, i) = t[i].kills /\ DeathsOf(t, i) = t[i].deaths
      /\ KillsOf(t, by) \in Nat /\ DeathsOf(t, i) \in Nat
  BY <1>1, TableCounts, TallyPairs DEF KillsOf, DeathsOf
<1>4. CASE t[i].health <= Damage
  <2>1. /\ dead \in Record /\ dead.kills = t[i].kills /\ dead.deaths = t[i].deaths + 1
        /\ ~ dead.alive
    <3>1. \A r \in Record : [r EXCEPT !.alive = FALSE] \in Record
      BY DEF Record
    <3>2. \A r \in Record : [r EXCEPT !.deaths = r.deaths + 1] \in Record
      BY DEF Record
    <3>3. dead = [[t[i] EXCEPT !.alive = FALSE] EXCEPT !.deaths = t[i].deaths + 1]
      BY <1>1 DEF Record
    <3>4. t[i].deaths = [t[i] EXCEPT !.alive = FALSE].deaths
      BY <1>1 DEF Record
    <3>5. dead \in Record
      BY <1>1, <3>1, <3>2, <3>3, <3>4
    <3>6. dead.kills = t[i].kills /\ dead.deaths = t[i].deaths + 1 /\ ~ dead.alive
      BY <1>1 DEF Record
    <3> QED BY <3>5, <3>6
  <2>2. [t EXCEPT ![i].alive = FALSE, ![i].deaths = t[i].deaths + 1] = killed
    <3>1. DOMAIN t \cup {i} = DOMAIN t
      BY <1>1
    <3> QED BY <1>1, <3>1 DEF Put, Record
  <2>3. Harm(t, i, by) = Put(killed, by, scorer)
    BY <1>4, <2>2 DEF Harm
  <2> HIDE DEF dead
  <2>4. /\ Table(killed) /\ InPlay(killed) = InPlay(t) \ {i}
        /\ KillsOf(killed, i) = KillsOf(t, i) /\ DeathsOf(killed, i) = DeathsOf(t, i) + 1
        /\ \A j \in PlayerIds \ {i} : /\ KillsOf(killed, j) = KillsOf(t, j)
                                      /\ DeathsOf(killed, j) = DeathsOf(t, j)
    BY <1>1, <1>3, <2>1, PutScores
  <2> HIDE DEF killed
  <2>5. /\ Get(killed, by) \in Record
        /\ Get(killed, by).kills = KillsOf(killed, by)
        /\ Get(killed, by).deaths = DeathsOf(killed, by)
        /\ Get(killed, by).alive <=> by \in InPlay(killed)
    BY <2>4, GetScores
  <2>6. /\ scorer \in Record /\ scorer.kills = Get(killed, by).kills + 1
        /\ scorer.deaths = Get(killed, by).deaths
        /\ scorer.alive = Get(killed, by).alive
    BY <2>5 DEF Record
  <2> HIDE DEF scorer
  <2> DEFINE u == Put(killed, by, scorer)
  <2>7. /\ InPlay(u) = IF scorer.alive THEN InPlay(killed) \cup {by} ELSE InPlay(killed) \ {by}
        /\ KillsOf(u, by) = scorer.kills /\ DeathsOf(u, by) = scorer.deaths
        /\ \A j \in PlayerIds \ {by} : /\ KillsOf(u, j) = KillsOf(killed, j)
                                       /\ DeathsOf(u, j) = DeathsOf(killed, j)
    BY <2>4, <2>6, PutScores
  <2>8. InPlay(u) = InPlay(killed)
    BY <2>5, <2>6, <2>7
  <2>9. u = Harm(t, i, by)
    BY <2>3
  <2> HIDE DEF u
  <2>10. /\ Table(u) /\ InPlay(u) = InPlay(t) \ {i}
         /\ KillsOf(u, by) = KillsOf(t, by) + 1 /\ DeathsOf(u, i) = DeathsOf(t, i) + 1
         /\ \A j \in PlayerIds \ {by} : KillsOf(u, j) = KillsOf(t, j)
         /\ \A j \in PlayerIds \ {i} : DeathsOf(u, j) = DeathsOf(t, j)
    BY <1>1, <1>2, <1>3, <2>4, <2>5, <2>6, <2>7, <2>8, <2>9
  <2> QED BY <2>9, <2>10, BalanceKilled
<1>5. CASE ~ (t[i].health <= Damage)
  <2>1. Harm(t, i, by) = Put(t, i, wounded)
    <3>1. Harm(t, i, by) = [t EXCEPT ![i] = wounded]
      BY <1>1, <1>5 DEF Harm, Record
    <3>2. DOMAIN t \cup {i} = DOMAIN t
      BY <1>1
    <3> HIDE DEF wounded
    <3> QED BY <1>1, <3>1, <3>2 DEF Put
  <2>2. /\ wounded \in Record /\ wounded.kills = t[i].kills
        /\ wounded.deaths = t[i].deaths
    BY <1>1, <1>5, GameAssumption DEF Record
  <2>3. wounded.alive
    <3>1. wounded.alive = t[i].alive
      BY <1>1, Zenon DEF Record
    <3> QED BY <1>1, <3>1, Zenon
  <2> HIDE DEF wounded
  <2> DEFINE u == Put(t, i, wounded)
  <2>5. /\ Table(u)
        /\ InPlay(u) = IF wounded.alive THEN InPlay(t) \cup {i} ELSE InPlay(t) \ {i}
        /\ KillsOf(u, i) = wounded.kills /\ DeathsOf(u, i) = wounded.deaths
        /\ \A j \in PlayerIds \ {i} : KillsOf(u, j) = KillsOf(t, j) /\ DeathsOf(u, j) = DeathsOf(t, j)
    BY <1>1, <2>2, PutScores
  <2>6. InPlay(u) \subseteq InPlay(t)
    BY <2>3, <2>5, Zenon
  <2> HIDE DEF u
  <2>4. Balance(u, s, d)
    BY <1>3, <2>2, <2>5, <2>6, BalanceKept
  <2> QED BY <2>1, <2>4 DEF u
<1> QED BY <1>4, <1>5

(* The inductive invariant of the scores.                                   *)
ScoreInv ==
  /\ departed \in Scores
  /\ spawns \in 0 .. MaxSpawns
  /\ Balance(players, spawns, departed)
  /\ Len(projectiles) <= MaxProjectiles

LEMMA ScoreInit == Init => ScoreInv
<1> SUFFICES ASSUME Init PROVE ScoreInv
  OBVIOUS
<1>1. /\ players = [i \in {} |-> Player(0)] /\ projectiles = <<>> /\ spawns = 0
      /\ departed = [kills |-> 0, deaths |-> 0]
  BY DEF Init, InitGame, Nobody
<1>2. Tally(Kills(players)) = {} /\ Tally(Deaths(players)) = {} /\ InPlay(players) = {}
  BY <1>1 DEF Tally, Kills, Deaths, InPlay
<1>3. IsFiniteSet({}) /\ Cardinality({}) = 0
  BY FS_EmptySet
<1>4. Balance(players, spawns, departed)
  <2>1. /\ IsFiniteSet(Tally(Kills(players))) /\ IsFiniteSet(Tally(Deaths(players)))
        /\ Total(Kills(players)) = 0 /\ Total(Deaths(players)) = 0
        /\ Cardinality(InPlay(players)) = 0
    BY <1>2, <1>3 DEF Total
  <2> QED BY <1>1, <2>1 DEF Balance
<1>5. Len(projectiles) = 0
  BY <1>1
<1> QED BY <1>1, <1>4, <1>5, GameAssumption DEF ScoreInv, Scores

(* A step that leaves the scores, the lives and the projectiles as they are *)
(* or fewer.                                                                *)
LEMMA ScoreQuiet ==
  ASSUME ScoreInv, UNCHANGED <<players, spawns, departed>>,
         projectiles' = projectiles \/ Len(projectiles') <= MaxProjectiles
  PROVE  ScoreInv'
<1>1. Balance(players, spawns, departed)'
  BY DEF ScoreInv, Balance, Total, Tally, Kills, Deaths, InPlay
<1> QED BY <1>1 DEF ScoreInv

LEMMA ScoreCommand ==
  ASSUME GameInv, ScoreInv, NEW i \in PlayerIds, Command(i)
  PROVE  ScoreInv'
<1> DEFINE player == Get(players, i)
           spawned == [player EXCEPT !.alive = TRUE, !.health = MaxHealth]
<1>1. /\ Table(players) /\ spawns \in Nat /\ departed \in Scores
      /\ projectiles \in Seq(PlayerIds) /\ Len(projectiles) \in Nat
      /\ MaxSpawns \in Nat /\ MaxProjectiles \in Nat
  BY GameAssumption DEF GameInv, ScoreInv
<1>2. /\ player \in Record
      /\ player.kills = KillsOf(players, i) /\ player.deaths = DeathsOf(players, i)
      /\ player.alive <=> i \in InPlay(players)
  BY <1>1, GetScores
<1> HIDE DEF player
<1>3. CASE SpawnPlayer(i) /\ players' # players
  <2>1. /\ spawns < MaxSpawns /\ spawns' = spawns + 1 /\ players' = Put(players, i, spawned)
        /\ UNCHANGED <<projectiles, departed>>
    BY <1>3 DEF SpawnPlayer, player
  <2>2. /\ spawned \in Record /\ spawned.kills = player.kills /\ spawned.deaths = player.deaths
    <3>1. MaxHealth \in 1 .. MaxHealth
      BY GameAssumption
    <3> QED BY <1>2, <3>1 DEF Record
  <2>3. spawned.alive
    BY <1>2, Zenon DEF Record
  <2> HIDE DEF spawned
  <2>4. /\ Table(players')
        /\ InPlay(players') = IF spawned.alive THEN InPlay(players) \cup {i}
                                               ELSE InPlay(players) \ {i}
        /\ \A j \in PlayerIds : /\ KillsOf(players', j) = KillsOf(players, j)
                                /\ DeathsOf(players', j) = DeathsOf(players, j)
    <3> DEFINE u == Put(players, i, spawned)
    <3>1. /\ Table(u)
          /\ KillsOf(u, i) = spawned.kills /\ DeathsOf(u, i) = spawned.deaths
          /\ \A j \in PlayerIds \ {i} : /\ KillsOf(u, j) = KillsOf(players, j)
                                        /\ DeathsOf(u, j) = DeathsOf(players, j)
          /\ InPlay(u) = IF spawned.alive THEN InPlay(players) \cup {i} ELSE InPlay(players) \ {i}
      BY <1>1, <2>2, PutScores
    <3> HIDE DEF u
    <3>2. players' = u
      BY <2>1 DEF u
    <3> QED BY <1>2, <2>2, <3>1, <3>2
  <2>5. InPlay(players') = InPlay(players) \cup {i}
    BY <2>3, <2>4, Zenon
  <2>6. Balance(players', spawns + 1, departed)
    BY <1>1, <2>4, <2>5, BalanceSpawned DEF ScoreInv
  <2> QED BY <1>1, <2>1, <2>6 DEF ScoreInv
<1>4. CASE ShootProjectile(i) \/ ChangePlayer(i)
  <2>1. players' = Put(players, i, player) /\ UNCHANGED <<spawns, departed>>
    BY <1>4 DEF ShootProjectile, ChangePlayer, player
  <2>2. Len(projectiles') <= MaxProjectiles
    <3>1. \/ projectiles' = projectiles
          \/ projectiles' = Append(projectiles, i) /\ Len(projectiles) < MaxProjectiles
      BY <1>4 DEF ShootProjectile, ChangePlayer
    <3> QED BY <1>1, <3>1 DEF ScoreInv
  <2> DEFINE u == Put(players, i, player)
  <2>3. /\ Table(u)
        /\ KillsOf(u, i) = player.kills /\ DeathsOf(u, i) = player.deaths
        /\ \A j \in PlayerIds \ {i} : /\ KillsOf(u, j) = KillsOf(players, j)
                                      /\ DeathsOf(u, j) = DeathsOf(players, j)
        /\ InPlay(u) = IF player.alive THEN InPlay(players) \cup {i} ELSE InPlay(players) \ {i}
    BY <1>1, <1>2, PutScores
  <2> HIDE DEF u
  <2>4. InPlay(u) \subseteq InPlay(players)
    <3>1. CASE player.alive
      BY <1>2, <2>3, <3>1, Zenon
    <3>2. CASE ~ player.alive
      BY <2>3, <3>2, Zenon
    <3> QED BY <3>1, <3>2
  <2>5. Balance(u, spawns, departed)
    BY <1>1, <1>2, <2>3, <2>4, BalanceKept DEF ScoreInv
  <2> QED BY <2>1, <2>2, <2>5 DEF ScoreInv, u
<1>5. CASE SpawnPlayer(i) /\ players' = players
  <2>1. spawns' = spawns \/ (spawns < MaxSpawns /\ spawns' = spawns + 1)
    BY <1>5 DEF SpawnPlayer
  <2>2. UNCHANGED <<projectiles, departed>>
    BY <1>5 DEF SpawnPlayer
  <2>3. /\ Total(Deaths(players)) \in Nat /\ Cardinality(InPlay(players)) \in Nat
    BY <1>1, TotalNat, TableCounts DEF ScoreInv, Balance
  <2>4. Balance(players, spawns', departed)
    BY <1>1, <2>1, <2>3 DEF ScoreInv, Balance, Scores
  <2> QED BY <1>1, <1>5, <2>1, <2>2, <2>4 DEF ScoreInv
<1>6. CASE NoChange
  BY <1>6, ScoreQuiet DEF NoChange, gameVars
<1> QED BY <1>3, <1>4, <1>5, <1>6 DEF Command

(* Updates.                                                                 *)
LEMMA ScoreUpdate ==
  ASSUME GameInv, ScoreInv, Update
  PROVE  ScoreInv'
<1>1. /\ Table(players) /\ spawns \in Nat /\ departed \in Scores
      /\ projectiles \in Seq(PlayerIds) /\ Len(projectiles) \in Nat
      /\ cursor \in 0 .. Len(projectiles) /\ MaxProjectiles \in Nat
      /\ Len(projectiles) <= MaxProjectiles
  BY GameAssumption DEF GameInv, ScoreInv
<1>2. CASE StartUpdate \/ Misses
  BY <1>2, ScoreQuiet DEF StartUpdate, Misses
<1>3. CASE HitsMap
  <2>1. Len(projectiles') <= MaxProjectiles
    BY <1>1, <1>3, Removed DEF HitsMap
  <2> QED BY <1>3, <2>1, ScoreQuiet DEF HitsMap
<1>4. ASSUME NEW i \in PlayerIds, HitsPlayer(i) PROVE ScoreInv'
  <2>1. /\ i \in InPlay(players) /\ i # Owner /\ cursor > 0 /\ RemoveProjectile
        /\ players' = Harm(players, i, Owner)
        /\ UNCHANGED <<spawns, departed>>
    BY <1>4 DEF HitsPlayer, InPlay
  <2>2. Owner \in PlayerIds
    BY <1>1, <2>1 DEF Owner
  <2>3. Len(projectiles') <= MaxProjectiles
    BY <1>1, <2>1, Removed
  <2>4. Balance(Harm(players, i, Owner), spawns, departed)
    BY <1>1, <2>1, <2>2, HarmScores DEF ScoreInv
  <2> QED BY <1>1, <2>1, <2>3, <2>4 DEF ScoreInv
<1> QED BY <1>2, <1>3, <1>4 DEF Update

(* A new record for i, or none: its scores are added to departed.           *)
LEMMA ScoreDepart ==
  ASSUME GameInv, ScoreInv, NEW i \in PlayerIds, CreateNewPlayer(i) \/ DeletePlayer(i)
  PROVE  ScoreInv'
<1>1. /\ Table(players) /\ spawns \in Nat /\ departed \in Scores
      /\ UNCHANGED <<projectiles, spawns>> /\ Depart(i)
  BY GameAssumption DEF GameInv, ScoreInv, CreateNewPlayer, DeletePlayer
<1>2. /\ departed' \in Scores
      /\ departed'.kills = departed.kills + KillsOf(players, i)
      /\ departed'.deaths = departed.deaths + DeathsOf(players, i)
  <2>1. CASE i \in DOMAIN players
    BY <1>1, <2>1, TableCounts DEF Depart, Scores, Table, Record
  <2>2. CASE i \notin DOMAIN players
    BY <1>1, <2>2, TableCounts DEF Depart, Scores
  <2> QED BY <2>1, <2>2
<1>3. /\ Table(players')
      /\ KillsOf(players', i) = 0 /\ DeathsOf(players', i) = 0
      /\ \A j \in PlayerIds \ {i} : /\ KillsOf(players', j) = KillsOf(players, j)
                                    /\ DeathsOf(players', j) = DeathsOf(players, j)
      /\ InPlay(players') \subseteq InPlay(players)
  <2>1. CASE CreateNewPlayer(i)
    <3> DEFINE r == Player(i)
               u == Put(players, i, r)
    <3>1. r \in Record /\ r.kills = 0 /\ r.deaths = 0
      BY FreshRecord DEF Player
    <3>2. ~ r.alive
      BY Zenon DEF Player
    <3> HIDE DEF r
    <3>3. /\ Table(u)
          /\ KillsOf(u, i) = r.kills /\ DeathsOf(u, i) = r.deaths
          /\ \A j \in PlayerIds \ {i} : /\ KillsOf(u, j) = KillsOf(players, j)
                                        /\ DeathsOf(u, j) = DeathsOf(players, j)
          /\ InPlay(u) = IF r.alive THEN InPlay(players) \cup {i} ELSE InPlay(players) \ {i}
      BY <1>1, <3>1, PutScores
    <3> HIDE DEF u
    <3>4. InPlay(u) \subseteq InPlay(players)
      BY <3>2, <3>3, Zenon
    <3>5. players' = u
      BY <2>1 DEF CreateNewPlayer, u, r
    <3> QED BY <3>1, <3>3, <3>4, <3>5
  <2>2. CASE DeletePlayer(i)
    <3>1. /\ players' = Erase(players, i) /\ Table(players')
          /\ DOMAIN players' = DOMAIN players \ {i}
          /\ \A j \in DOMAIN players : j # i => players'[j] = players[j]
      BY <1>1, <2>2, EraseTable DEF DeletePlayer
    <3>2. InPlay(players') \subseteq InPlay(players)
      BY <3>1 DEF InPlay
    <3> QED BY <1>1, <3>1, <3>2, TableCounts
  <2> QED BY <1>1, <2>1, <2>2 DEF ScoreInv
<1>4. Balance(players', spawns, departed')
  BY <1>1, <1>2, <1>3, BalanceDeparted DEF ScoreInv
<1> QED BY <1>1, <1>2, <1>4 DEF ScoreInv

LEMMA ScoreStep == GameInv /\ ScoreInv /\ [Next]_vars => ScoreInv'
<1> SUFFICES ASSUME GameInv, ScoreInv, [Next]_vars PROVE ScoreInv'
  OBVIOUS
<1>1. CASE UNCHANGED vars \/ LibraryStep
  BY <1>1, ScoreQuiet DEF vars, LibraryStep, gameVars
<1>2. CASE UpdateStep
  BY <1>2, ScoreUpdate DEF UpdateStep
<1>3. ASSUME NEW i \in PlayerIds, NewConnection(i) \/ LostConnection(i) PROVE ScoreInv'
  BY <1>3, ScoreDepart DEF NewConnection, LostConnection
<1>4. ASSUME NEW i \in PlayerIds, Message(i) PROVE ScoreInv'
  BY <1>4, ScoreCommand DEF Message
<1> QED BY <1>1, <1>2, <1>3, <1>4 DEF Next

LEMMA ScoreInvariance == Spec => [](GameInv /\ ScoreInv)
<1> QED BY GameInit, GameStep, ScoreInit, ScoreStep, PTL DEF Spec

(* Every death is a kill, and no score is lost or made up: not when the     *)
(* owner of the projectile has left, nor when its record is inserted anew,  *)
(* erased or overwritten (checkProjectileCollisions, handleMessage).        *)
THEOREM KillsAreDeaths == Spec => []KillsMatchDeaths
<1>1. ScoreInv => KillsMatchDeaths
  BY DEF ScoreInv, Balance, KillsMatchDeaths
<1> QED BY <1>1, ScoreInvariance, PTL

(* The types of the game, with the bounds of the scores: nobody has more    *)
(* kills, or deaths, than there were spawns.                                *)
LEMMA ScoreBounded ==
  ASSUME NEW c, Counts(c), IsFiniteSet(Tally(c)), NEW i \in PlayerIds
  PROVE  Count(c, i) <= Total(c)
<1> DEFINE mine == {i} \X (1 .. Count(c, i))
<1>1. Count(c, i) \in Nat
  BY TallyPairs
<1>2. mine \subseteq Tally(c)
  BY TallyPairs
<1>3. IsFiniteSet(1 .. Count(c, i)) /\ Cardinality(1 .. Count(c, i)) = Count(c, i)
  BY <1>1, FS_Interval
<1>4. IsFiniteSet({i}) /\ Cardinality({i}) = 1
  BY FS_Singleton
<1>5. Cardinality(mine) = Cardinality({i}) * Cardinality(1 .. Count(c, i))
  BY <1>3, <1>4, FS_Product
<1> HIDE DEF mine
<1>6. Cardinality(mine) <= Cardinality(Tally(c))
  BY <1>2, FS_Subset
<1>7. Cardinality(mine) = Count(c, i)
  BY <1>1, <1>3, <1>4, <1>5
<1> QED BY <1>6, <1>7 DEF Total

THEOREM GameTypesCorrect == Spec => []TypeOK
<1>1. GameInv /\ ScoreInv => TypeOK
  <2> SUFFICES ASSUME GameInv, ScoreInv PROVE TypeOK
    OBVIOUS
  <2>1. /\ Table(players) /\ departed \in Scores /\ spawns \in 0 .. MaxSpawns
        /\ IsFiniteSet(Tally(Kills(players))) /\ IsFiniteSet(Tally(Deaths(players)))
        /\ Total(Kills(players)) + departed.kills = Total(Deaths(players)) + departed.deaths
        /\ Total(Deaths(players)) + departed.deaths + Cardinality(InPlay(players)) <= spawns
    BY DEF GameInv, ScoreInv, Balance
  <2>2. /\ Total(Kills(players)) \in Nat /\ Total(Deaths(players)) \in Nat
        /\ Cardinality(InPlay(players)) \in Nat /\ MaxSpawns \in Nat
        /\ departed.kills \in Nat /\ departed.deaths \in Nat
    BY <2>1, TotalNat, TableCounts, GameAssumption DEF Scores
  <2>3. Total(Kills(players)) <= MaxSpawns /\ Total(Deaths(players)) <= MaxSpawns
    BY <2>1, <2>2
  <2>4. ASSUME NEW i \in DOMAIN players PROVE players[i] \in PlayerRecord
    <3>1. /\ i \in PlayerIds /\ players[i] \in Record
          /\ players[i].kills = KillsOf(players, i) /\ players[i].deaths = DeathsOf(players, i)
          /\ Counts(Kills(players)) /\ Counts(Deaths(players))
      BY <2>1, TableCounts DEF Table
    <3>2. players[i].kills <= Total(Kills(players)) /\ players[i].deaths <= Total(Deaths(players))
      BY <2>1, <3>1, ScoreBounded DEF KillsOf, DeathsOf
    <3>3. players[i].kills \in Nat /\ players[i].deaths \in Nat
      BY <3>1 DEF Record
    <3>4. players[i].kills \in 0 .. MaxSpawns /\ players[i].deaths \in 0 .. MaxSpawns
      BY <2>2, <2>3, <3>2, <3>3
    <3>5. \A r \in Record : r.kills \in 0 .. MaxSpawns /\ r.deaths \in 0 .. MaxSpawns
                            => r \in PlayerRecord
      BY GameAssumption DEF Record, PlayerRecord
    <3> QED BY <3>1, <3>4, <3>5
  <2>5. GameTypeOK
    BY <2>1, <2>4 DEF GameTypeOK, GameInv, ScoreInv, Table, Scores
  <2> QED BY <2>5 DEF TypeOK, GameInv
<1> QED BY <1>1, ScoreInvariance, PTL
=============================================================================
