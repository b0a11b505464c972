---------------------------- MODULE ReceivePath ----------------------------
(***************************************************************************)
(* The receiving half of the game server library (src/Server): the         *)
(* listening thread, one receiving thread per client, the client table,    *)
(* the queue received_messages, take(), and runServer()/stopServer().      *)
(*                                                                         *)
(* A client is its index in the client table, as in the code.  The TCP     *)
(* stream of a client is counted in halves: the 4 byte size of a frame,    *)
(* then its data.  A half that arrives truncated is a half that did not    *)
(* arrive before the hang-up: both make recv(MSG_WAITALL) fall short and   *)
(* leave the loop.  Every critical section whose shared state is guarded   *)
(* by one mutex is one action.                                             *)
(***************************************************************************)
EXTENDS Integers, Sequences

CONSTANTS
  MaxClients,   (* bound on the connections that are ever accepted          *)
  MaxFrames,    (* bound on the frames one client sends                     *)
  ThreadFails   (* whether pthread_create may fail in addClient             *)

ASSUME ReceiveAssumption ==
  /\ MaxClients \in Nat
  /\ MaxFrames \in Nat
  /\ ThreadFails \in BOOLEAN

VARIABLES
  main,       (* thread that runs runServer(), the game and stopServer()    *)
  stopped,    (* the flag every server thread polls                         *)
  listener,   (* program counter of startListening                          *)
  size,       (* number of entries of the client table                      *)
  status,     (* ThreadStatus of each entry                                 *)
  receiver,   (* program counter of each startReceiving                     *)
  peer,       (* the remote end of each connection                          *)
  sent, read, (* halves of frames sent by the peer / consumed by recv       *)
  inbox,      (* received_messages                                          *)
  taker,      (* program counter of the host thread that calls take()       *)
  signalled,  (* recv_message_cond was signalled while the taker waits      *)
  seen        (* what take() has returned of each client so far             *)

tableVars == <<size, status>>
netVars   == <<peer, sent, read>>
hostVars  == <<taker, signalled, seen>>
vars == <<main, stopped, listener, size, status, receiver, peer, sent, read,
          inbox, taker, signalled, seen>>

Ids == 0 .. MaxClients - 1

(* receiver: "none" no entry yet, "nothread" entry without a thread,        *)
(* the rest are the points of startReceiving where it touches shared state. *)
ReceiverPC == {"none", "nothread", "start", "loop", "poll", "size", "data",
               "push", "lost", "close", "stop", "done"}

MainPC == {"init", "starting", "run", "joinHost", "joinListener", "join",
           "destroy", "done", "crashed"}

New(i)      == [type |-> "NEW_CONNECTION", id |-> i, n |-> 0]
Lost(i)     == [type |-> "LOST_CONNECTION", id |-> i, n |-> 0]
Frame(i, n) == [type |-> "MESSAGE", id |-> i, n |-> n]

Events == {New(i) : i \in Ids} \cup {Lost(i) : i \in Ids}
            \cup {Frame(i, n) : i \in Ids, n \in 1 .. MaxFrames}

Init ==
  /\ main = "init"
  /\ stopped = TRUE
  /\ listener = "none"
  /\ size = 0
  /\ status = [i \in Ids |-> "RUNNING"]
  /\ receiver = [i \in Ids |-> "none"]
  /\ peer = [i \in Ids |-> "none"]
  /\ sent = [i \in Ids |-> 0]
  /\ read = [i \in Ids |-> 0]
  /\ inbox = <<>>
  /\ taker = "none"
  /\ signalled = FALSE
  /\ seen = [i \in Ids |-> [new |-> FALSE, msgs |-> 0, lost |-> FALSE]]

-----------------------------------------------------------------------------
(* runServer(): queues first, then the listening and the sending thread.    *)

StartListening ==
  /\ main = "init"
  /\ stopped' = FALSE
  /\ listener' = "loop"
  /\ main' = "starting"
  /\ UNCHANGED <<tableVars, receiver, netVars, inbox, hostVars>>

(* pthread_create failed: everything is cleared and 1 is returned.          *)
StartListeningFails ==
  /\ main = "init"
  /\ main' = "destroy"
  /\ UNCHANGED <<stopped, listener, tableVars, receiver, netVars, inbox, hostVars>>

StartSending ==
  /\ main = "starting"
  /\ main' = "run"
  /\ taker' = "idle"
  /\ UNCHANGED <<stopped, listener, tableVars, receiver, netVars, inbox,
                 signalled, seen>>

(* runServer() returns 1, and Game::Game, which does not look, goes on with *)
(* a game that has no server (game.cpp:73): Lifecycle has that game.        *)
StartSendingFails ==
  /\ main = "starting"
  /\ stopped' = TRUE
  /\ main' = "joinListener"
  /\ UNCHANGED <<listener, tableVars, receiver, netVars, inbox, hostVars>>

-----------------------------------------------------------------------------
(* startListening and addClient.                                            *)

(* The loop tests stopped, then waits in poll() for a connection or 2 s.    *)
ListenerExits ==
  /\ listener = "loop" /\ stopped
  /\ listener' = "done"
  /\ UNCHANGED <<main, stopped, tableVars, receiver, netVars, inbox, hostVars>>

ListenerWakes ==
  /\ listener = "loop" /\ ~ stopped
  /\ size < MaxClients
  /\ listener' = "accept"
  /\ UNCHANGED <<main, stopped, tableVars, receiver, netVars, inbox, hostVars>>

(* A poll() error ends the thread.                                          *)
ListenerFails ==
  /\ listener = "loop"
  /\ listener' = "done"
  /\ UNCHANGED <<main, stopped, tableVars, receiver, netVars, inbox, hostVars>>

AcceptFails ==
  /\ listener = "accept"
  /\ listener' = "loop"
  /\ UNCHANGED <<main, stopped, tableVars, receiver, netVars, inbox, hostVars>>

(* accept() and addClient(): under the mutex of the client table the entry  *)
(* is appended as RUNNING and its thread created.  Should that fail, the    *)
(* socket is closed and the entry stays.                                    *)
Accept ==
  /\ listener = "accept"
  /\ size' = size + 1
  /\ status' = [status EXCEPT ![size] = "RUNNING"]
  /\ \/ /\ receiver' = [receiver EXCEPT ![size] = "start"]
        /\ peer' = [peer EXCEPT ![size] = "open"]
     \/ /\ ThreadFails
        /\ receiver' = [receiver EXCEPT ![size] = "nothread"]
        /\ peer' = [peer EXCEPT ![size] = "closed"]
  /\ listener' = "loop"
  /\ UNCHANGED <<main, stopped, sent, read, inbox, hostVars>>

-----------------------------------------------------------------------------
(* The peers: they send frames half by half and hang up when they like.     *)
(* A hang-up may be a reset, which discards what was not read yet.          *)

PeerSend(i) ==
  /\ peer[i] = "open"
  /\ sent[i] < 2 * MaxFrames
  /\ sent' = [sent EXCEPT ![i] = @ + 1]
  /\ UNCHANGED <<main, stopped, listener, tableVars, receiver, peer, read,
                 inbox, hostVars>>

PeerClose(i) ==
  /\ peer[i] = "open"
  /\ peer' = [peer EXCEPT ![i] = "closed"]
  /\ \E k \in read[i] .. sent[i] : sent' = [sent EXCEPT ![i] = k]
  /\ UNCHANGED <<main, stopped, listener, tableVars, receiver, read, inbox,
                 hostVars>>

Available(i) == sent[i] > read[i]
Readable(i)  == Available(i) \/ peer[i] = "closed"

-----------------------------------------------------------------------------
(* startReceiving of client i.                                              *)

Goto(i, from, to) ==
  /\ receiver[i] = from
  /\ receiver' = [receiver EXCEPT ![i] = to]

(* Pushed without a signal: a waiting take() does not learn of it.          *)
PushNew(i) ==
  /\ Goto(i, "start", "loop")
  /\ inbox' = Append(inbox, New(i))
  /\ UNCHANGED <<main, stopped, listener, tableVars, netVars, hostVars>>

(* The head of the loop: a status written after it is seen one round later. *)
Loop(i) ==
  /\ Goto(i, "loop", IF status[i] = "RUNNING" THEN "poll" ELSE "lost")
  /\ UNCHANGED <<main, stopped, listener, tableVars, netVars, inbox, hostVars>>

(* poll() waits for the socket, or 2 s.                                     *)
Poll(i) ==
  /\ Goto(i, "poll", IF Readable(i) THEN "size" ELSE "loop")
  /\ UNCHANGED <<main, stopped, listener, tableVars, netVars, inbox, hostVars>>

PollFails(i) ==
  /\ Goto(i, "poll", "lost")
  /\ UNCHANGED <<main, stopped, listener, tableVars, netVars, inbox, hostVars>>

(* recv() with MSG_WAITALL: blocks until the half is there or the peer has  *)
(* hung up.                                                                 *)
Recv(i, from, to) ==
  /\ \/ /\ Available(i)
        /\ Goto(i, from, to)
        /\ read' = [read EXCEPT ![i] = @ + 1]
     \/ /\ ~ Available(i)
        /\ peer[i] = "closed"
        /\ Goto(i, from, "lost")
        /\ UNCHANGED read
  /\ UNCHANGED <<main, stopped, listener, tableVars, peer, sent, inbox, hostVars>>

RecvSize(i) == Recv(i, "size", "data")

(* The mutated form of RecvData: a short read is pushed all the same.       *)
RecvDataUnchecked(i) ==
  \/ Recv(i, "data", "push")
  \/ /\ ~ Available(i) /\ peer[i] = "closed"
     /\ Goto(i, "data", "push")
     /\ UNCHANGED <<main, stopped, listener, tableVars, netVars, inbox, hostVars>>

RecvData(i) == Recv(i, "data", "push")

(* The mutated form of PushMessage: the signal is forgotten.                *)
PushMessageUnsignalled(i) ==
  /\ Goto(i, "push", "loop")
  /\ inbox' = Append(inbox, Frame(i, read[i] \div 2))
  /\ UNCHANGED <<main, stopped, listener, tableVars, netVars, hostVars>>

(* The mutated form of PushMessage: frames go to the front of the queue.    *)
PushMessageFront(i) ==
  /\ Goto(i, "push", "loop")
  /\ inbox' = <<Frame(i, read[i] \div 2)>> \o inbox
  /\ signalled' = (taker = "waiting")
  /\ UNCHANGED <<main, stopped, listener, tableVars, netVars, taker, seen>>

(* The mutated form of PushMessage: a queue that is not empty loses it.     *)
PushMessageUnlinked(i) ==
  /\ Goto(i, "push", "loop")
  /\ inbox' = IF inbox = <<>> THEN <<Frame(i, read[i] \div 2)>> ELSE inbox
  /\ signalled' = (taker = "waiting")
  /\ UNCHANGED <<main, stopped, listener, tableVars, netVars, taker, seen>>

(* Push and signal under the mutex of the queue.                            *)
PushMessage(i) ==
  /\ Goto(i, "push", "loop")
  /\ inbox' = Append(inbox, Frame(i, read[i] \div 2))
  /\ signalled' = (taker = "waiting")
  /\ UNCHANGED <<main, stopped, listener, tableVars, netVars, taker, seen>>

(* The loss goes to the FRONT of the queue, and is not signalled.           *)
PushLost(i) ==
  /\ Goto(i, "lost", "close")
  /\ inbox' = <<Lost(i)>> \o inbox
  /\ UNCHANGED <<main, stopped, listener, tableVars, netVars, hostVars>>

(* close(sock): the peer sees the connection end, unread data is dropped.   *)
CloseSocket(i) ==
  /\ Goto(i, "close", "stop")
  /\ peer' = [peer EXCEPT ![i] = "closed"]
  /\ sent' = [sent EXCEPT ![i] = read[i]]
  /\ UNCHANGED <<main, stopped, listener, tableVars, read, inbox, hostVars>>

(* The mutated form of StopClient: the entry keeps its status.              *)
StopClientUnmarked(i) ==
  /\ Goto(i, "stop", "done")
  /\ UNCHANGED <<main, stopped, listener, tableVars, netVars, inbox, hostVars>>

StopClient(i) ==
  /\ Goto(i, "stop", "done")
  /\ status' = [status EXCEPT ![i] = "STOPPED"]
  /\ UNCHANGED <<main, stopped, listener, size, netVars, inbox, hostVars>>

(* The sending thread calls signalClientToStop(i) after a send() that       *)
(* failed, on a copy of the entry that may be out of date: the receiver may *)
(* have finished meanwhile.  The thread is gone once it has been joined.    *)
SignalClientToStop(i) ==
  /\ taker # "none" /\ main \in {"run", "joinHost", "joinListener"}
  /\ i < size
  /\ peer[i] = "closed"
  /\ status' = [status EXCEPT ![i] = "STOP"]
  /\ UNCHANGED <<main, stopped, listener, size, receiver, netVars, inbox, hostVars>>

-----------------------------------------------------------------------------
(* take(1), called in a loop by the receive thread of the game until run()  *)
(* sets its stop flag.  The test of the flag and the first lock are one     *)
(* action: until the thread is joined nothing depends on which came first.  *)
(* A spurious wakeup does what a timeout and another take() do.             *)

Popped ==
  LET e == Head(inbox) IN
  /\ inbox' = Tail(inbox)
  /\ seen' = [seen EXCEPT ![e.id] =
                CASE e.type = "NEW_CONNECTION"  -> [@ EXCEPT !.new = TRUE]
                  [] e.type = "LOST_CONNECTION" -> [@ EXCEPT !.lost = TRUE]
                  [] OTHER                      -> [@ EXCEPT !.msgs = e.n]]

TakeNow ==
  /\ taker = "idle" /\ main = "run"
  /\ inbox # <<>>
  /\ Popped
  /\ UNCHANGED <<main, stopped, listener, tableVars, receiver, netVars, taker,
                 signalled>>

TakeWaits ==
  /\ taker = "idle" /\ main = "run"
  /\ inbox = <<>>
  /\ taker' = "waiting"
  /\ UNCHANGED <<main, stopped, listener, tableVars, receiver, netVars, inbox,
                 signalled, seen>>

(* Woken by the signal: the loop finds the queue not empty and pops.        *)
TakeWakes ==
  /\ taker = "waiting" /\ signalled
  /\ Popped
  /\ taker' = "idle"
  /\ signalled' = FALSE
  /\ UNCHANGED <<main, stopped, listener, tableVars, receiver, netVars>>

(* The mutated form of TakeTimesOut: a plain pthread_cond_wait.             *)
TakeNeverTimesOut == taker = "waiting" /\ UNCHANGED vars

(* ETIMEDOUT: EMPTY is returned without another look at the queue.          *)
TakeTimesOut ==
  /\ taker = "waiting"
  /\ taker' = "idle"
  /\ signalled' = FALSE
  /\ UNCHANGED <<main, stopped, listener, tableVars, receiver, netVars, inbox, seen>>

TakerExits ==
  /\ taker = "idle" /\ main = "joinHost"
  /\ taker' = "gone"
  /\ UNCHANGED <<main, stopped, listener, tableVars, receiver, netVars, inbox,
                 signalled, seen>>

-----------------------------------------------------------------------------
(* Shutdown: Game::run after the interrupt, then stopServer().              *)

Interrupt ==
  /\ main = "run"
  /\ main' = "joinHost"
  /\ UNCHANGED <<stopped, listener, tableVars, receiver, netVars, inbox, hostVars>>

SetStop ==
  /\ main = "joinHost" /\ taker = "gone"
  /\ stopped' = TRUE
  /\ main' = "joinListener"
  /\ UNCHANGED <<listener, tableVars, receiver, netVars, inbox, hostVars>>

(* stopReceivingThreads, after the listening and sending threads are joined. *)
MarkClientsToStop ==
  /\ main = "joinListener" /\ listener = "done"
  /\ status' = [i \in Ids |-> IF i < size THEN "STOP" ELSE status[i]]
  /\ main' = "join"
  /\ UNCHANGED <<stopped, listener, size, receiver, netVars, inbox, hostVars>>

(* The mutated form of JoinReceivers: the joins are dropped.                *)
JoinReceiversSkipped ==
  /\ main = "join"
  /\ main' = "destroy"
  /\ UNCHANGED <<stopped, listener, tableVars, receiver, netVars, inbox, hostVars>>

JoinReceivers ==
  /\ main = "join"
  /\ \A i \in Ids : i < size => receiver[i] = "done"
  /\ main' = "destroy"
  /\ UNCHANGED <<stopped, listener, tableVars, receiver, netVars, inbox, hostVars>>

(* An entry without a thread holds an uninitialized thread_id: joining it   *)
(* is undefined.  It may return, or bring the process down.                 *)
JoinGarbage ==
  /\ main = "join"
  /\ \E i \in Ids : i < size /\ receiver[i] = "nothread"
  /\ \/ /\ \A i \in Ids : i < size => receiver[i] \in {"done", "nothread"}
        /\ main' = "destroy"
     \/ main' = "crashed"
  /\ UNCHANGED <<stopped, listener, tableVars, receiver, netVars, inbox, hostVars>>

(* clearEverything frees what is left in the queue, then the queue.         *)
DestroyQueue ==
  /\ main = "destroy"
  /\ inbox' = <<>>
  /\ main' = "done"
  /\ UNCHANGED <<stopped, listener, tableVars, receiver, netVars, hostVars>>

Terminated ==
  /\ main \in {"done", "crashed"}
  /\ UNCHANGED vars

-----------------------------------------------------------------------------
Receiver(i) ==
  \/ PushNew(i) \/ Loop(i) \/ Poll(i) \/ RecvSize(i) \/ RecvData(i)
  \/ PushMessage(i) \/ PushLost(i) \/ CloseSocket(i) \/ StopClient(i)

Listener == ListenerExits \/ Accept \/ AcceptFails

Taker == TakeNow \/ TakeWaits \/ TakeWakes \/ TakeTimesOut \/ TakerExits

Start == StartListening \/ StartListeningFails \/ StartSending \/ StartSendingFails

Stop == SetStop \/ MarkClientsToStop \/ JoinReceivers \/ JoinGarbage \/ DestroyQueue

Peer(i) == PeerSend(i) \/ PeerClose(i)

Next ==
  \/ main # "crashed" /\ (Start \/ Listener \/ Taker \/ Interrupt \/ Stop)
  \/ main # "crashed" /\ (ListenerWakes \/ ListenerFails \/ \E i \in Ids : PollFails(i))
  \/ main # "crashed" /\ \E i \in Ids : Receiver(i) \/ Peer(i) \/ SignalClientToStop(i)
  \/ Terminated

(* Every server thread keeps running; the operator and the peers need not.  *)
Fairness ==
  /\ WF_vars(main # "crashed" /\ Start)
  /\ WF_vars(main # "crashed" /\ Stop)
  /\ WF_vars(main # "crashed" /\ Listener)
  /\ WF_vars(main # "crashed" /\ Taker)
  /\ \A i \in Ids : WF_vars(main # "crashed" /\ Receiver(i))

Spec == Init /\ [][Next]_vars /\ Fairness

(* A peer that has begun a frame ends it, or the connection.                *)
PeerFinishes(i) == main # "crashed" /\ sent[i] % 2 = 1 /\ Peer(i)

SpecFinishingPeers == Spec /\ \A i \in Ids : WF_vars(PeerFinishes(i))

-----------------------------------------------------------------------------
(* The values of every variable; no half is read before it was sent.        *)
TypeOK ==
  /\ main \in MainPC
  /\ stopped \in BOOLEAN
  /\ listener \in {"none", "loop", "accept", "done"}
  /\ size \in 0 .. MaxClients
  /\ status \in [Ids -> {"RUNNING", "STOP", "STOPPED"}]
  /\ receiver \in [Ids -> ReceiverPC]
  /\ peer \in [Ids -> {"none", "open", "closed"}]
  /\ sent \in [Ids -> 0 .. 2 * MaxFrames]
  /\ read \in [Ids -> 0 .. 2 * MaxFrames]
  /\ \A i \in Ids : read[i] <= sent[i]
  /\ inbox \in Seq(Events)
  /\ taker \in {"none", "idle", "waiting", "gone"}
  /\ signalled \in BOOLEAN
  /\ seen \in [Ids -> [new : BOOLEAN, msgs : 0 .. MaxFrames, lost : BOOLEAN]]

(* What the threads have pushed so far, read off their program counters.    *)
Announced(i) == receiver[i] \notin {"none", "nothread", "start"}
Reported(i)  == receiver[i] \in {"close", "stop", "done"}
Pushed(i)    == IF receiver[i] = "push" THEN read[i] \div 2 - 1 ELSE read[i] \div 2

(* The events pushed and not yet taken.                                     *)
PendingEvents ==
  {e \in Events :
     \/ e.type = "NEW_CONNECTION" /\ Announced(e.id) /\ ~ seen[e.id].new
     \/ e.type = "LOST_CONNECTION" /\ Reported(e.id) /\ ~ seen[e.id].lost
     \/ e.type = "MESSAGE" /\ seen[e.id].msgs < e.n /\ e.n <= Pushed(e.id)}

Rank(e) == IF e.type = "LOST_CONNECTION" THEN -1 ELSE e.n

Elements(q) == {q[j] : j \in DOMAIN q}

InOrder(q) ==
  \A j, k \in DOMAIN q : j < k /\ q[j].id = q[k].id => Rank(q[j]) < Rank(q[k])

(* The queue holds every event that was pushed and not taken, each once; of *)
(* one client the loss comes first, then the connection, then the frames in *)
(* the order they were sent (server_queue.c, startReceiving, take).         *)
InboxExact ==
  main # "done" => Elements(inbox) = PendingEvents /\ InOrder(inbox)

(* No lost wakeup for frames: a take() that sleeps while a frame is queued  *)
(* has been signalled, it does not wait for its timer.                      *)
NoMissedSignal ==
  taker = "waiting" /\ (\E j \in DOMAIN inbox : inbox[j].type = "MESSAGE")
    => signalled

(* "received queue needs to be [...] destroyed after all receiving threads  *)
(* are joined" (server.c:55): nobody who may use the queue is left then.    *)
QueueOutlivesUsers ==
  main = "done" => /\ taker \in {"none", "gone"}
                   /\ listener \in {"none", "done"}
                   /\ \A i \in Ids : receiver[i] \in {"none", "nothread", "done"}

(* An entry whose thread has finished, its socket closed, is never RUNNING  *)
(* again, whatever the sending thread writes to it late: sendMessageTo      *)
(* relies on it to leave the descriptor alone.                              *)
FinishedNotRunning ==
  \A i \in Ids : receiver[i] = "done" => status[i] # "RUNNING"

(* What take() promises its caller, client by client; see EventStream.      *)
Stream == INSTANCE EventStream WITH
  new       <- [i \in Ids |-> IF seen[i].new THEN "taken"
                               ELSE IF Announced(i) THEN "pending" ELSE "no"],
  lost      <- [i \in Ids |-> IF seen[i].lost THEN "taken"
                               ELSE IF Reported(i) THEN "pending" ELSE "no"],
  pushed    <- [i \in Ids |-> Pushed(i)],
  delivered <- [i \in Ids |-> seen[i].msgs]

(* The receiving half implements the event stream.                          *)
StreamSpec == Stream!Spec

(* A frame that was pushed reaches the host, unless the server is stopping. *)
FramesReachHost ==
  \A i \in Ids, n \in 1 .. MaxFrames :
    Pushed(i) >= n ~> (seen[i].msgs >= n \/ main # "run")

(* A connection that ended is reported to the host, although the loss is    *)
(* queued without a signal (server_receive.c:121).                          *)
LossReachesHost ==
  \A i \in Ids : (main = "run" /\ peer[i] = "closed" /\ receiver[i] # "nothread")
                   ~> (seen[i].lost \/ main # "run")

(* "serwer odbiera INTERRUPT SIGNAL i poprawnie sie wylacza po okolo        *)
(* sekundzie" (README.md:18): after CTRL+C the server comes to its end,     *)
(* unless a receiving thread could not be started: stopReceivingThreads     *)
(* then joins the uninitialized id addClient stored (server.c:139-144).     *)
ShutdownCompletes ==
  main = "joinHost" ~> (main = "done" \/ \E i \in Ids : receiver[i] = "nothread")
=============================================================================
