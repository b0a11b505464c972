------------------------------ MODULE GameHost ------------------------------
(***************************************************************************)
(* The host program as it is: the receiving half of the library, thread by  *)
(* thread (ReceivePath), and the game, whose receive thread has the event   *)
(* that take() returned in hand until it gets the game's mutex.  In between *)
(* updates happen, and the library goes on: the client may be lost, and its *)
(* loss queued in front, while its connection is still in hand.             *)
(*                                                                         *)
(* GameServer has taking and handling an event as one step, over what       *)
(* EventStream promises.  Here they are two, over the threads that keep the *)
(* promise; an event in hand counts as one GameServer has not taken yet.    *)
(***************************************************************************)
EXTENDS ReceivePath

CONSTANTS MaxHealth, Damage, MaxProjectiles, MaxSpawns  (* as in Game       *)

VARIABLES
  players, projectiles, cursor, spawns, departed, late,  (* of GameServer   *)
  hand        (* what take() returned and handleMessage has not handled     *)

Empty == [type |-> "EMPTY", id |-> 0, n |-> 0]

Handled(e) == hand # e

Server == INSTANCE GameServer WITH
  new       <- [i \in Ids |-> IF seen[i].new /\ Handled(New(i)) THEN "taken"
                               ELSE IF Announced(i) THEN "pending" ELSE "no"],
  lost      <- [i \in Ids |-> IF seen[i].lost /\ Handled(Lost(i)) THEN "taken"
                               ELSE IF Reported(i) THEN "pending" ELSE "no"],
  pushed    <- [i \in Ids |-> Pushed(i)],
  delivered <- [i \in Ids |-> IF Handled(Frame(i, seen[i].msgs)) THEN seen[i].msgs
                               ELSE seen[i].msgs - 1]

gameVars == <<players, projectiles, cursor, spawns, departed, late>>
allVars  == <<vars, gameVars, hand>>

InitHost ==
  /\ Init
  /\ Server!InitGame /\ late = {}
  /\ hand = Empty

(* receiveThread: take() has returned an event.                             *)
TakeEvent ==
  /\ main # "crashed" /\ hand = Empty
  /\ TakeNow \/ TakeWakes
  /\ hand' = Head(inbox)
  /\ UNCHANGED gameVars

(* Every other step of the library.  With an event in hand the thread that  *)
(* takes is elsewhere; stopServer() waits for Game::run to join updateThread. *)
LibraryStep ==
  /\ Next
  /\ seen' = seen
  /\ hand # Empty => taker' = taker
  /\ main = "joinHost" /\ main' # main => cursor = 0
  /\ UNCHANGED <<gameVars, hand>>

(* handleMessage, once it has the mutex: no update is under way.            *)
HandleMessage ==
  /\ \/ /\ hand.type = "NEW_CONNECTION"
        /\ Server!CreateNewPlayer(hand.id) /\ Server!Late(hand.id)
     \/ /\ hand.type = "LOST_CONNECTION"
        /\ Server!DeletePlayer(hand.id) /\ UNCHANGED late
     \/ /\ hand.type = "MESSAGE"
        /\ Server!Command(hand.id) /\ Server!Late(hand.id)
  /\ hand' = Empty
  /\ UNCHANGED vars

(* updateThread runs from Game::run's start until it is joined.             *)
UpdateStep ==
  /\ main \in {"run", "joinHost"}
  /\ Server!Update /\ Server!LateKill
  /\ UNCHANGED <<vars, hand>>

NextHost == TakeEvent \/ LibraryStep \/ HandleMessage \/ UpdateStep

SpecHost == InitHost /\ [][NextHost]_allVars

-----------------------------------------------------------------------------
(* The host program does what GameServer does, so what holds there of the   *)
(* players, the scores and the projectiles holds of the threads together:   *)
(* an event in hand is never mixed up with the loss that overtakes it.      *)
GameServerSpec == Server!Spec

(* "choose a color blue if yourslef, red if enemy" (Client/client.py:258):  *)
(* the client knows itself by its id, so no two players may bear the same.  *)
DistinctIds == Server!DistinctIds
=============================================================================
