----------------------------- MODULE GameServer -----------------------------
(***************************************************************************)
(* The game on top of the receiving half of the library: Game::receiveThread *)
(* hands every event that take() returns to handleMessage.  The library is  *)
(* what EventStream promises, which ReceivePath is checked to implement: in *)
(* particular the loss of a client may be taken before its connection and   *)
(* its frames.                                                              *)
(***************************************************************************)
EXTENDS Game

CONSTANT MaxFrames  (* bound on the frames one client sends                 *)

VARIABLES
  new, lost, pushed, delivered,  (* the variables of EventStream            *)
  late     (* clients whose record was written after their loss was taken   *)

streamVars == <<new, lost, pushed, delivered>>
vars == <<players, projectiles, cursor, spawns, departed, new, lost, pushed,
          delivered, late>>

Library == INSTANCE EventStream

Init == InitGame /\ Library!Init /\ late = {}

LibraryStep ==
  /\ \E i \in PlayerIds : Library!Announce(i) \/ Library!PushFrame(i) \/ Library!ReportLoss(i)
  /\ UNCHANGED <<gameVars, late>>

Late(i) == late' = IF lost[i] = "taken" THEN late \cup {i} ELSE late

LateKill == late' = late \cup {i \in DOMAIN players' \ DOMAIN players : lost[i] = "taken"}

NewConnection(i)  == Library!TakeNew(i) /\ CreateNewPlayer(i) /\ Late(i)
LostConnection(i) == Library!TakeLoss(i) /\ DeletePlayer(i) /\ UNCHANGED late
Message(i)        == Library!TakeFrame(i) /\ Command(i) /\ Late(i)

UpdateStep == Update /\ LateKill /\ UNCHANGED streamVars

Next ==
  \/ LibraryStep \/ UpdateStep
  \/ \E i \in PlayerIds : NewConnection(i) \/ LostConnection(i) \/ Message(i)

Spec == Init /\ [][Next]_vars

-----------------------------------------------------------------------------
TypeOK == GameTypeOK /\ late \subseteq PlayerIds

(* A client the game was told of, and not told to be gone, has a record     *)
(* that bears its own id: the one its welcome message carries.              *)
ConnectedHasPlayer ==
  \A i \in PlayerIds : new[i] = "taken" /\ lost[i] # "taken" =>
    i \in DOMAIN players /\ players[i].player_id = i

(* A client that is gone leaves no record, unless an event of it that the   *)
(* loss had overtaken, or a kill by one of its projectiles, came after.     *)
GoneUnlessLate ==
  \A i \in PlayerIds : lost[i] = "taken" /\ i \notin late => i \notin DOMAIN players

(* "choose a color blue if yourslef, red if enemy" (Client/client.py:258):  *)
(* the client knows itself by its id, so no two players may bear the same.  *)
DistinctIds ==
  \A i, j \in DOMAIN players : players[i].player_id = players[j].player_id => i = j
=============================================================================
