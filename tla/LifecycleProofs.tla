-------------------------- MODULE LifecycleProofs --------------------------
(***************************************************************************)
(* Proofs about the life of the process, for any number of Games.          *)
(***************************************************************************)
EXTENDS Lifecycle, TLAPS

(* The game's threads live between StartThreads and JoinThreads; the one    *)
(* between lock() and unlock() holds update_mutex.                          *)
GameThreads ==
  /\ main \notin {"wait", "join"} => \A t \in Workers : thread[t] = "gone"
  /\ \A t \in Workers : thread[t] = "in" => holder = t

(* The library is up from the one run() that succeeds to the stop() after   *)
(* it, and no Game but a later one finds it down again.                     *)
Library ==
  /\ running => sender # "none"
  /\ sender # "none" => running
  /\ up => sender \in {"loop", "send", "done"}
  /\ sender \in {"loop", "send", "done"} => up
  /\ sender = "done" \/ (sender \in {"loop", "send"} /\ stopped) =>
       main \in {"joinSender", "joinReceivers"}
  /\ main = "joinSender" => sender \in {"loop", "send", "done"}
  /\ main = "joinReceivers" => sender = "done"
  /\ main = "over" => sender \in {"none", "joined"}
  /\ sender = "joined" /\ games = 1 => main \in {"over", "exit"}

(* The message to everyone is freed for the last time when the sender ends, *)
(* and nobody is left then to make another.                                 *)
Memory ==
  /\ slot = "freed" => sender \in {"done", "joined"}
  /\ slot = "live" => sender \in {"loop", "send"}
  /\ hand # "freed"
  /\ hand = "live" => sender = "send"
  /\ main = "exit" => slot # "live" /\ hand # "live"

(* Before the handler is installed nothing was sent.                        *)
Early ==
  ~ handler => /\ main \in {"run", "handler", "exit"}
               /\ games = 1 /\ slot = "null" /\ hand = "null"

Clean == fault # "freed twice" /\ OneGameClean

Inv == TypeOK /\ GameThreads /\ Library /\ Memory /\ Early /\ Clean

-----------------------------------------------------------------------------
LEMMA InvInit == Init => Inv
<1> SUFFICES ASSUME Init PROVE Inv
  OBVIOUS
<1>1. TypeOK
  <2>1. FlagsOK
    BY DEF Init, FlagsOK
  <2>2. LibraryOK
    BY DEF Init, LibraryOK
  <2> QED BY <2>1, <2>2, LifecycleAssumption DEF Init, TypeOK, Workers
<1>2. GameThreads /\ Library
  BY DEF Init, GameThreads, Library
<1>3. Memory /\ Early /\ Clean
  BY DEF Init, Memory, Early, Clean, OneGameClean
<1> QED BY <1>1, <1>2, <1>3 DEF Inv

LEMMA MainStepInv == Inv /\ Alive /\ MainStep => Inv'
<1> SUFFICES ASSUME Inv, Alive, MainStep PROVE Inv'
  OBVIOUS
<1> USE DEF Inv, TypeOK, FlagsOK, LibraryOK, GameThreads, Library, Memory, Early, Clean,
        OneGameClean, Alive
<1>1. CASE ServerRuns
  BY <1>1 DEF ServerRuns, Main, flagVars, libVars, Workers
<1>2. CASE ServerRunFails
  BY <1>2 DEF ServerRunFails, Main, flagVars, libVars, Workers
<1>3. CASE ServerRefuses
  BY <1>3 DEF ServerRefuses, Main, flagVars, libVars, Workers
<1>4. CASE InstallHandler
  BY <1>4 DEF InstallHandler, Main, flagVars, libVars, Workers
<1>5. CASE StartThreads
  BY <1>5 DEF StartThreads, Main, flagVars, libVars, Workers
<1>6. CASE SignalSeen
  BY <1>6 DEF SignalSeen, Main, flagVars, libVars, Workers
<1>7. CASE JoinThreads
  BY <1>7 DEF JoinThreads, Main, flagVars, libVars, Workers
<1>8. CASE ServerStop
  BY <1>8 DEF ServerStop, Main, flagVars, libVars, Workers
<1>9. CASE ServerStopAgain
  BY <1>9 DEF ServerStopAgain, Fault, flagVars, libVars, Workers
<1>10. CASE ServerStopSkipped
  BY <1>10 DEF ServerStopSkipped, Main, flagVars, libVars, Workers
<1>11. CASE ServerStopped
  BY <1>11 DEF ServerStopped, Main, flagVars, libVars, Workers
<1>14. CASE JoinSender
  BY <1>14 DEF JoinSender, Main, flagVars, libVars, Workers
<1>12. CASE NextGame
  BY <1>12, LifecycleAssumption DEF NextGame, Main, flagVars, libVars, Workers
<1>13. CASE Exit
  BY <1>13 DEF Exit, Main, flagVars, libVars, Workers
<1> QED BY <1>1, <1>2, <1>3, <1>4, <1>5, <1>6, <1>7, <1>8, <1>9, <1>10, <1>11, <1>12, <1>13, <1>14
        DEF MainStep

(* The threads of the game.                                                 *)
LEMMA UpdateStepInv == Inv /\ Alive /\ UpdateStep => Inv'
<1> SUFFICES ASSUME Inv, Alive, UpdateStep PROVE Inv'
  OBVIOUS
<1> USE DEF Inv, TypeOK, FlagsOK, LibraryOK, GameThreads, Library, Memory, Early, Clean,
        OneGameClean, Alive
<1>1. CASE Leave("update")
  BY <1>1 DEF Leave, At, Frame, Workers, flagVars, libVars
<1>2. CASE Due("update")
  BY <1>2 DEF Due, At, Frame, Workers, flagVars, libVars
<1>3. CASE Lock("update")
  BY <1>3 DEF Lock, At, Frame, Workers, flagVars, libVars
<1>4. CASE Unlock("update")
  BY <1>4 DEF Unlock, At, Frame, Workers, flagVars, libVars
<1> QED BY <1>1, <1>2, <1>3, <1>4 DEF UpdateStep

LEMMA SendStepInv == Inv /\ Alive /\ SendStep => Inv'
<1> SUFFICES ASSUME Inv, Alive, SendStep PROVE Inv'
  OBVIOUS
<1> USE DEF Inv, TypeOK, FlagsOK, LibraryOK, GameThreads, Library, Memory, Early, Clean,
        OneGameClean, Alive
<1>1. CASE Leave("send")
  BY <1>1 DEF Leave, At, Frame, Workers, flagVars, libVars
<1>2. CASE Due("send")
  BY <1>2 DEF Due, At, Frame, Workers, flagVars, libVars
<1>3. CASE Lock("send")
  BY <1>3 DEF Lock, At, Frame, Workers, flagVars, libVars
<1>4. CASE Unlock("send")
  BY <1>4 DEF Unlock, At, Frame, Workers, flagVars, libVars
<1>5. CASE SendToEveryone
  BY <1>5 DEF SendToEveryone, At, Frame, Workers, Free, flagVars, libVars
<1> QED BY <1>1, <1>2, <1>3, <1>4, <1>5 DEF SendStep

LEMMA ReceiveStepInv == Inv /\ Alive /\ ReceiveStep => Inv'
<1> SUFFICES ASSUME Inv, Alive, ReceiveStep PROVE Inv'
  OBVIOUS
<1> USE DEF Inv, TypeOK, FlagsOK, LibraryOK, GameThreads, Library, Memory, Early, Clean,
        OneGameClean, Alive
<1>1. CASE Leave("receive")
  BY <1>1 DEF Leave, At, Frame, Workers, flagVars, libVars
<1>2. CASE Take
  BY <1>2 DEF Take, At, Frame, Workers, flagVars, libVars
<1>3. CASE Lock("receive")
  BY <1>3 DEF Lock, At, Frame, Workers, flagVars, libVars
<1>4. CASE Unlock("receive")
  BY <1>4 DEF Unlock, At, Frame, Workers, flagVars, libVars
<1>5. CASE HandleNew
  BY <1>5 DEF HandleNew, At, Frame, Workers, flagVars, libVars
<1>6. CASE SendMap
  BY <1>6 DEF SendMap, At, Frame, Workers, flagVars, libVars
<1> QED BY <1>1, <1>2, <1>3, <1>4, <1>5, <1>6 DEF ReceiveStep

(* The threads of the library.                                              *)
LEMMA SenderInv == Inv /\ Alive /\ (SenderStep \/ Sent) => Inv'
<1> SUFFICES ASSUME Inv, Alive, SenderStep \/ Sent PROVE Inv'
  OBVIOUS
<1> USE DEF Inv, TypeOK, FlagsOK, LibraryOK, GameThreads, Library, Memory, Early, Clean,
        OneGameClean, Alive
<1>1. CASE Pop
  BY <1>1 DEF Pop, Sender, flagVars, libVars
<1>2. CASE Sent
  BY <1>2 DEF Sent, Sender, Free, flagVars, libVars
<1>3. CASE SenderEnds
  BY <1>3 DEF SenderEnds, Sender, Free, flagVars, libVars
<1> QED BY <1>1, <1>2, <1>3 DEF SenderStep

LEMMA ReceiverInv == Inv /\ Alive /\ (ReceiverEnds \/ FrameEnds \/ PeerStep) => Inv'
<1> SUFFICES ASSUME Inv, Alive, ReceiverEnds \/ FrameEnds \/ PeerStep PROVE Inv'
  OBVIOUS
<1>1. /\ receiver' \in {"loop", "frame", "gone"}
      /\ UNCHANGED <<main, games, flagVars, thread, holder, running, stopped, up, sender,
                     slot, hand, fault>>
  BY DEF ReceiverEnds, FrameEnds, PeerStep, Connects, FrameBegins, HangsUp, Receiver
<1>2. TypeOK'
  <2>1. FlagsOK'
    BY <1>1 DEF Inv, TypeOK, FlagsOK, flagVars
  <2>2. LibraryOK'
    BY <1>1 DEF Inv, TypeOK, LibraryOK
  <2> QED BY <1>1, <2>1, <2>2 DEF Inv, TypeOK, flagVars
<1>3. GameThreads' /\ Library' /\ Memory' /\ Early' /\ Clean'
  BY <1>1 DEF Inv, GameThreads, Library, Memory, Early, Clean, OneGameClean, flagVars
<1> QED BY <1>2, <1>3 DEF Inv

LEMMA InterruptInv == Inv /\ Alive /\ Interrupt => Inv'
<1> SUFFICES ASSUME Inv, Alive, Interrupt PROVE Inv'
  OBVIOUS
<1> USE DEF Interrupt, Inv, flagVars, libVars
<1>1. TypeOK'
  <2>1. FlagsOK'
    BY DEF TypeOK, FlagsOK
  <2>2. LibraryOK'
    BY DEF TypeOK, LibraryOK
  <2> QED BY <2>1, <2>2 DEF TypeOK
<1>2. GameThreads' /\ Library'
  BY DEF TypeOK, GameThreads, Library, Early
<1>3. Memory' /\ Early' /\ Clean'
  BY DEF TypeOK, Memory, Early, Clean, OneGameClean, Alive
<1> QED BY <1>1, <1>2, <1>3

(* A thread of the one Game never finds the library down: it is up from     *)
(* before the threads start until they are joined.                          *)
LEMMA UsesDestroyedInv == Inv /\ Alive /\ UsesDestroyed => Inv'
<1> SUFFICES ASSUME Inv, Alive, UsesDestroyed PROVE Inv'
  OBVIOUS
<1> USE DEF Inv
<1>1. fault' = "used after destroy"
      /\ UNCHANGED <<main, games, flagVars, thread, holder, running, libVars>>
  BY DEF UsesDestroyed, Fault
<1>2. TypeOK'
  <2>1. FlagsOK'
    BY <1>1 DEF TypeOK, FlagsOK, flagVars, libVars
  <2>2. LibraryOK'
    BY <1>1 DEF TypeOK, LibraryOK, libVars
  <2> QED BY <1>1, <2>1, <2>2 DEF TypeOK
<1>3. GameThreads' /\ Library' /\ Memory' /\ Early'
  BY <1>1 DEF GameThreads, Library, Memory, Early, flagVars, libVars
<1>4. ~ (running /\ games = 1)
  <2>1. PICK t \in Workers : thread[t] # "gone"
    BY DEF UsesDestroyed, LibraryCalls
  <2>2. main \in {"wait", "join"}
    BY <2>1 DEF GameThreads
  <2> QED BY <2>2 DEF UsesDestroyed, Library, TypeOK, LibraryOK
<1>5. Clean'
  BY <1>1, <1>4 DEF Clean, OneGameClean
<1> QED BY <1>2, <1>3, <1>5

LEMMA InvStep == Inv /\ [Next]_vars => Inv'
<1> SUFFICES ASSUME Inv, [Next]_vars PROVE Inv'
  OBVIOUS
<1>1. CASE UNCHANGED vars
  <2>1. TypeOK'
    <3>1. FlagsOK'
      BY <1>1 DEF vars, Inv, TypeOK, FlagsOK
    <3>2. LibraryOK'
      BY <1>1 DEF vars, Inv, TypeOK, LibraryOK
    <3> QED BY <1>1, <3>1, <3>2 DEF vars, Inv, TypeOK
  <2>2. GameThreads' /\ Library' /\ Memory' /\ Early' /\ Clean'
    BY <1>1 DEF vars, Inv, GameThreads, Library, Memory, Early, Clean, OneGameClean
  <2> QED BY <2>1, <2>2 DEF Inv
<1> QED BY <1>1, MainStepInv, UpdateStepInv, SendStepInv, ReceiveStepInv, SenderInv,
           ReceiverInv, InterruptInv, UsesDestroyedInv DEF Next, Terminated

(* The inductive invariant, for any number of Games.                        *)
THEOREM Invariance == Spec => []Inv
BY InvInit, InvStep, PTL DEF Spec

(* Types are kept, and stop is only set after stop_signal.                  *)
THEOREM TypesCorrect == Spec => []TypeOK
<1>1. Inv => TypeOK
  BY DEF Inv
<1> QED BY <1>1, Invariance, PTL

(* One Game whose server started never does anything undefined.             *)
THEOREM OneGameIsClean == Spec => []OneGameClean
<1>1. Inv => OneGameClean
  BY DEF Inv, Clean
<1> QED BY <1>1, Invariance, PTL

(* However many Games there are, the last message to everyone, whose        *)
(* pointer startSending leaves behind, is not freed or sent again.          *)
THEOREM LastMessageFreedOnce == Spec => []FreedOnce
<1>1. Inv => FreedOnce
  BY DEF Inv, Clean, Memory, FreedOnce
<1> QED BY <1>1, Invariance, PTL

(* update_mutex keeps the threads of the game apart.                        *)
THEOREM GameThreadsExclude == Spec => []AloneInGame
<1>1. Inv => AloneInGame
  BY DEF Inv, GameThreads, AloneInGame
<1> QED BY <1>1, Invariance, PTL
=============================================================================
