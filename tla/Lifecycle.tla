----------------------------- MODULE Lifecycle -----------------------------
(***************************************************************************)
(* The life of a host process: main() and the Game it constructs, the      *)
(* game's three threads around update_mutex, Server::run() and             *)
(* Server::stop() of the wrapper, and the library below as far as it can   *)
(* be used before it is up or after it is down.  The flags stop_signal,    *)
(* stop and running, and the message to everyone, are static: nothing      *)
(* resets them between one Game and the next, which the constructor allows *)
(* for (first_init).  host.cpp makes one.                                  *)
(*                                                                         *)
(* Using what is destroyed, freeing twice and joining twice are undefined: *)
(* the first of them is recorded in fault and the process stops there.     *)
(***************************************************************************)
EXTENDS Integers

CONSTANT MaxGames   (* how many Games the process makes, one after another  *)

ASSUME LifecycleAssumption == MaxGames \in Nat \ {0}

VARIABLES
  main, games,          (* main thread, and the Game it is at               *)
  handler,              (* the handler of SIGINT is installed               *)
  stop_signal, stop,    (* set by the handler / by Game::run                *)
  thread,               (* update, send and receive thread of the game      *)
  holder,               (* who has locked update_mutex                      *)
  running, stopped,     (* flags of the wrapper and of the library          *)
  up,                   (* queues, mutexes and the client table exist       *)
  sender,               (* the library's sending thread                     *)
  receiver,             (* a receiving thread of it, of any one client      *)
  slot, hand,           (* message_to_everyone, and the sender's copy of it *)
  fault                 (* the first undefined thing that was done          *)

flagVars == <<handler, stop_signal, stop>>
libVars  == <<stopped, up, sender, receiver, slot, hand>>
vars == <<main, games, handler, stop_signal, stop, thread, holder, running,
          stopped, up, sender, receiver, slot, hand, fault>>

Workers == {"update", "send", "receive"}

Init ==
  /\ main = "run" /\ games = 1
  /\ handler = FALSE /\ stop_signal = FALSE /\ stop = FALSE
  /\ thread = [t \in Workers |-> "gone"]
  /\ holder = "nobody"
  /\ running = FALSE /\ stopped = TRUE /\ up = FALSE
  /\ sender = "none" /\ receiver = "none" /\ slot = "null" /\ hand = "null"
  /\ fault = "none"

(* Nothing is said of a process after the first undefined thing it does.    *)
Alive == main # "exit" /\ fault = "none"

Fault(what) == /\ fault' = what
               /\ UNCHANGED <<main, games, flagVars, thread, holder, running, libVars>>

(* delete[]: of a null pointer it does nothing.                             *)
Free(message) == fault' = IF message = "freed" THEN "freed twice" ELSE fault

Main(from, to) == main = from /\ main' = to

-----------------------------------------------------------------------------
(* Game::Game: the result of Server::run() is not looked at.                *)

ServerRuns ==
  /\ ~ running
  /\ Main("run", "handler")
  /\ running' = TRUE /\ stopped' = FALSE /\ up' = TRUE /\ sender' = "loop"
  /\ UNCHANGED <<games, flagVars, thread, holder, receiver, slot, hand, fault>>

(* A thread of the library cannot be created, and all is cleared again.     *)
ServerRunFails ==
  /\ ~ running
  /\ Main("run", "handler")
  /\ UNCHANGED <<games, flagVars, thread, holder, running, libVars, fault>>

ServerRefuses ==
  /\ running
  /\ Main("run", "handler")
  /\ UNCHANGED <<games, flagVars, thread, holder, running, libVars, fault>>

InstallHandler ==
  /\ Main("handler", "start")
  /\ handler' = TRUE
  /\ UNCHANGED <<games, stop_signal, stop, thread, holder, running, libVars, fault>>

(* CTRL+C.  Before the handler is there it ends the process.                *)
Interrupt ==
  /\ IF handler THEN stop_signal' = TRUE /\ UNCHANGED main
                ELSE main' = "exit" /\ UNCHANGED stop_signal
  /\ UNCHANGED <<games, handler, stop, thread, holder, running, libVars, fault>>

-----------------------------------------------------------------------------
(* Game::run.                                                               *)

StartThreads ==
  /\ Main("start", "wait")
  /\ thread' = [t \in Workers |-> "top"]
  /\ UNCHANGED <<games, flagVars, holder, running, libVars, fault>>

SignalSeen ==
  /\ stop_signal
  /\ Main("wait", "join")
  /\ stop' = TRUE
  /\ UNCHANGED <<games, handler, stop_signal, thread, holder, running, libVars, fault>>

(* The mutated form of JoinThreads: send.join() is missing.                 *)
JoinThreadsButSend ==
  /\ Main("join", "stop")
  /\ \A t \in Workers \ {"send"} : thread[t] = "gone"
  /\ UNCHANGED <<games, flagVars, thread, holder, running, libVars, fault>>

JoinThreads ==
  /\ Main("join", "stop")
  /\ \A t \in Workers : thread[t] = "gone"
  /\ UNCHANGED <<games, flagVars, thread, holder, running, libVars, fault>>

-----------------------------------------------------------------------------
(* Game::~Game: Server::stop().  running stays as it is.                    *)

(* The mutated form of ServerStop: running is reset.                        *)
ServerStopResets ==
  /\ running /\ sender \in {"loop", "send", "done"}
  /\ Main("stop", "joinSender")
  /\ stopped' = TRUE /\ running' = FALSE
  /\ UNCHANGED <<games, flagVars, thread, holder, up, sender, receiver, slot, hand, fault>>

ServerStop ==
  /\ running /\ sender \in {"loop", "send", "done"}
  /\ Main("stop", "joinSender")
  /\ stopped' = TRUE
  /\ UNCHANGED <<games, flagVars, thread, holder, running, up, sender, receiver, slot, hand,
                 fault>>

(* stopServer() a second time joins threads that were joined.               *)
ServerStopAgain == main = "stop" /\ running /\ sender = "joined" /\ Fault("joined twice")

ServerStopSkipped ==
  /\ ~ running
  /\ Main("stop", "over")
  /\ UNCHANGED <<games, flagVars, thread, holder, running, libVars, fault>>

(* The listening and the sending thread are joined, every client is marked; *)
(* their threads are joined before clearEverything().                       *)
JoinSender ==
  /\ sender = "done"
  /\ Main("joinSender", "joinReceivers")
  /\ UNCHANGED <<games, flagVars, thread, holder, running, libVars, fault>>

ServerStopped ==
  /\ receiver \in {"none", "gone"}
  /\ Main("joinReceivers", "over")
  /\ sender' = "joined" /\ up' = FALSE
  /\ UNCHANGED <<games, flagVars, thread, holder, running, stopped, receiver, slot, hand, fault>>

NextGame ==
  /\ games < MaxGames
  /\ Main("over", "run")
  /\ games' = games + 1
  /\ UNCHANGED <<flagVars, thread, holder, running, libVars, fault>>

Exit ==
  /\ Main("over", "exit")
  /\ UNCHANGED <<games, flagVars, thread, holder, running, libVars, fault>>

-----------------------------------------------------------------------------
(* The threads of the game.                                                 *)

At(t, from, to) == thread[t] = from /\ thread' = [thread EXCEPT ![t] = to]

Frame == UNCHANGED <<main, games, flagVars, running, libVars, fault>>

Leave(t) == stop /\ At(t, "top", "gone") /\ UNCHANGED holder /\ Frame

(* update: a timestep is over; send: so is the delay.                       *)
Due(t) == /\ t # "receive" /\ ~ stop
          /\ At(t, "top", "want") /\ UNCHANGED holder /\ Frame

Lock(t) == /\ At(t, "want", "in")
           /\ holder = "nobody" /\ holder' = t
           /\ Frame

(* The mutex is given back at the end of updateThread's pass, of            *)
(* serializeGameState and of handleMessage.                                 *)
Unlock(t) == /\ At(t, "in", IF t = "send" THEN "everyone" ELSE "top")
             /\ holder' = "nobody"
             /\ Frame

(* Server::takeMessage(1): EMPTY after a second, or an event.               *)
Take == /\ ~ stop /\ up
        /\ At("receive", "top", "want") \/ At("receive", "top", "top")
        /\ UNCHANGED holder /\ Frame

(* The mutated form of HandleNew: the early return keeps the mutex.         *)
HandleNewLocked ==
  /\ At("receive", "in", "map")
  /\ UNCHANGED holder /\ Frame

(* The mutated form of SendMap: break instead of return, a second unlock.   *)
SendMapUnlocks ==
  /\ up
  /\ At("receive", "map", "top")
  /\ holder' = "nobody"
  /\ Frame

(* NEW_CONNECTION: the map is sent after the mutex was given back.          *)
HandleNew == At("receive", "in", "map") /\ holder' = "nobody" /\ Frame
SendMap   == up /\ At("receive", "map", "top") /\ UNCHANGED holder /\ Frame

(* Server::sendMessageToEveryone frees the message it replaces.             *)
SendToEveryone ==
  /\ up
  /\ At("send", "everyone", "top")
  /\ Free(slot) /\ slot' = "live"
  /\ UNCHANGED <<main, games, flagVars, holder, running, stopped, up, sender, receiver, hand>>

(* take(), sendTo() and sendToEveryone() use mutexes and queues.            *)
LibraryCalls == {<<"receive", "top">>, <<"receive", "in">>, <<"receive", "map">>,
                 <<"send", "everyone">>}

UsesDestroyed ==
  /\ ~ up
  /\ \E t \in Workers : /\ <<t, thread[t]>> \in LibraryCalls
                        /\ thread[t] = "top" => ~ stop
  /\ Fault("used after destroy")

-----------------------------------------------------------------------------
(* startSending.                                                            *)

Sender(from, to) == sender = from /\ sender' = to

Pop ==
  /\ slot # "null"
  /\ Sender("loop", "send")
  /\ hand' = slot /\ slot' = "null"
  /\ UNCHANGED <<main, games, flagVars, thread, holder, running, stopped, up, receiver, fault>>

(* send() returns when the clients have read what was sent before.          *)
Sent ==
  /\ Sender("send", "loop")
  /\ Free(hand) /\ hand' = "null"
  /\ UNCHANGED <<main, games, flagVars, thread, holder, running, stopped, up, receiver, slot>>

(* The last message is freed, and the pointer to it stays.                  *)
SenderEnds ==
  /\ stopped
  /\ Sender("loop", "done")
  /\ Free(slot) /\ slot' = IF slot = "live" THEN "freed" ELSE slot
  /\ UNCHANGED <<main, games, flagVars, thread, holder, running, stopped, up, receiver, hand>>

-----------------------------------------------------------------------------
(* startReceiving, for one client.                                          *)

Receiver(from, to) ==
  /\ receiver = from /\ receiver' = to
  /\ UNCHANGED <<main, games, flagVars, thread, holder, running, stopped, up, sender,
                 slot, hand, fault>>

(* The mark of stopReceivingThreads.                                        *)
Marked == main = "joinReceivers"

(* The listener accepts until it is joined.                                 *)
Connects == up /\ ~ Marked /\ Receiver("none", "loop")

(* poll() saw the first bytes of a frame; recv() waits for the whole of it. *)
FrameBegins == Receiver("loop", "frame")

(* The frame is complete, and the status is read again; or the client hung  *)
(* up, which it may do between two frames too.                              *)
FrameEnds == Receiver("frame", IF Marked THEN "gone" ELSE "loop") \/ Receiver("frame", "gone")
HangsUp   == Receiver("loop", "gone")

(* poll() timed out, and the status is STOP.                                *)
ReceiverEnds == Marked /\ Receiver("loop", "gone")

Terminated == ~ Alive /\ UNCHANGED vars

-----------------------------------------------------------------------------
MainStep ==
  \/ ServerRuns \/ ServerRunFails \/ ServerRefuses \/ InstallHandler
  \/ StartThreads \/ SignalSeen \/ JoinThreads
  \/ ServerStop \/ ServerStopAgain \/ ServerStopSkipped
  \/ JoinSender \/ ServerStopped
  \/ NextGame \/ Exit

UpdateStep  == Leave("update") \/ Due("update") \/ Lock("update") \/ Unlock("update")
SendStep    == Leave("send") \/ Due("send") \/ Lock("send") \/ Unlock("send")
                 \/ SendToEveryone
ReceiveStep == Leave("receive") \/ Take \/ Lock("receive") \/ Unlock("receive")
                 \/ HandleNew \/ SendMap
SenderStep  == Pop \/ SenderEnds
PeerStep    == Connects \/ FrameBegins \/ HangsUp

Next ==
  \/ Alive /\ (MainStep \/ UpdateStep \/ SendStep \/ ReceiveStep)
  \/ Alive /\ (SenderStep \/ Sent \/ ReceiverEnds \/ FrameEnds \/ PeerStep)
  \/ Alive /\ (Interrupt \/ UsesDestroyed)
  \/ Terminated

(* Every thread keeps running; CTRL+C need not come.  A thread that waits   *)
(* for update_mutex gets it once nobody else does.  No client need read,    *)
(* finish a frame or hang up: send() and recv() may block for ever.         *)
Fairness ==
  /\ WF_vars(Alive /\ MainStep)
  /\ WF_vars(Alive /\ UpdateStep)
  /\ WF_vars(Alive /\ SendStep)
  /\ WF_vars(Alive /\ ReceiveStep)
  /\ WF_vars(Alive /\ SenderStep)
  /\ WF_vars(Alive /\ ReceiverEnds)
  /\ WF_vars(Alive /\ UsesDestroyed)

Spec == Init /\ [][Next]_vars /\ Fairness

(* Clients that read what they are sent, and finish a frame or hang up.     *)
SpecGoodClients == Spec /\ WF_vars(Alive /\ Sent) /\ WF_vars(Alive /\ FrameEnds)

-----------------------------------------------------------------------------
(* The flags; stop follows stop_signal.                                     *)
FlagsOK ==
  /\ handler \in BOOLEAN /\ stop_signal \in BOOLEAN /\ stop \in BOOLEAN
  /\ running \in BOOLEAN /\ stopped \in BOOLEAN /\ up \in BOOLEAN
  /\ stop => stop_signal

(* Where the threads of the library are, and the message to everyone.       *)
LibraryOK ==
  /\ sender \in {"none", "loop", "send", "done", "joined"}
  /\ receiver \in {"none", "loop", "frame", "gone"}
  /\ slot \in {"null", "live", "freed"} /\ hand \in {"null", "live", "freed"}

(* The values of every variable.                                            *)
TypeOK ==
  /\ FlagsOK /\ LibraryOK
  /\ main \in {"run", "handler", "start", "wait", "join", "stop", "joinSender",
               "joinReceivers", "over", "exit"}
  /\ games \in 1 .. MaxGames
  /\ thread \in [Workers -> {"top", "want", "in", "everyone", "map", "gone"}]
  /\ holder \in Workers \cup {"nobody"}
  /\ fault \in {"none", "joined twice", "used after destroy", "freed twice"}

(* A process with one Game, as host.cpp's, whose server started, does       *)
(* nothing undefined: no thread of it uses the library after stopServer().  *)
OneGameClean == running /\ games = 1 => fault = "none"

(* The message to everyone that startSending frees last, and leaves in      *)
(* place (server_send.c:132), is not sent or freed again, whatever the      *)
(* number of Games and whether or not the server started; and none is left. *)
FreedOnce ==
  fault # "freed twice" /\ (main = "exit" => slot # "live" /\ hand # "live")

(* update_mutex guards the table of players: one thread at a time is        *)
(* between its lock() and its unlock(), the early return of NEW_CONNECTION  *)
(* (game.cpp:258) included.                                                 *)
AloneInGame ==
  \A s, t \in Workers : thread[s] = "in" /\ thread[t] = "in" => s = t

(* "serwer odbiera INTERRUPT SIGNAL i poprawnie sie wylacza" (README.md:18): *)
(* after CTRL+C a Game whose server started comes to its end, and the       *)
(* process with it; a fault does not count as one.  So it is with clients   *)
(* that read and finish their frames (SpecGoodClients), and not without:    *)
(* one that does neither keeps the joins of stopServer() waiting.           *)
SignalEndsProgram ==
  stop_signal /\ running /\ games = 1 ~> main = "exit" \/ games > 1
=============================================================================
