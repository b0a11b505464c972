------------------------------ MODULE SendPath ------------------------------
(***************************************************************************)
(* The sending half of the game server library (src/Server/server_send.c): *)
(* sendTo(), sendToEveryone(), the sending thread, and what they share     *)
(* with the rest: the client table, the kernel's descriptors, which are    *)
(* reused lowest first, and the memory of the messages.                    *)
(*                                                                         *)
(* A message is known by its kind ("one" client, or "all"), its number     *)
(* within the kind and its addressee.  A frame goes out as two send()      *)
(* calls, the 4 byte size and the data.  message_mutex is held by the      *)
(* sending thread at the program counters of MutexHeld; every other        *)
(* critical section is one action.                                         *)
(***************************************************************************)
EXTENDS Integers, Sequences, FiniteSets

CONSTANTS
  MaxClients,  (* bound on the connections that are ever accepted           *)
  MaxOne,      (* bound on the messages of sendTo                           *)
  MaxAll,      (* bound on the messages of sendToEveryone                   *)
  PeersStall   (* whether a peer may stop reading while connected           *)

ASSUME SendAssumption ==
  /\ MaxClients \in Nat
  /\ MaxOne \in Nat
  /\ MaxAll \in Nat
  /\ PeersStall \in BOOLEAN

VARIABLES
  main,       (* runs the game, then stopServer()                           *)
  stopped,    (* the flag every server thread polls                         *)
  size,       (* number of entries of the client table                      *)
  status, fd, (* ThreadStatus and socket of each entry                      *)
  receiver,   (* receiving thread of each entry                             *)
  owner,      (* descriptor table: the connection each descriptor is of     *)
  peer,       (* the remote end of each connection                          *)
  wire,       (* the parts of frames each peer has received                 *)
  queue,      (* outgoing_queue                                             *)
  slot,       (* message_to_everyone                                        *)
  host,       (* the game thread that calls sendTo                          *)
  made,       (* number of messages the game has made of each kind          *)
  live,       (* messages that are allocated                                *)
  sender,     (* program counter of startSending                            *)
  signalled,  (* new_message_cond was signalled while the sender sleeps     *)
  hand,       (* the message the sender is sending                          *)
  work        (* copies of the table entries it has yet to send it to       *)

tableVars  == <<size, status, fd, receiver>>
netVars    == <<owner, peer, wire>>
msgVars    == <<queue, slot, live>>
hostVars   == <<host, made>>
senderVars == <<sender, signalled, hand, work>>
vars == <<main, stopped, size, status, fd, receiver, owner, peer, wire,
          queue, slot, live, host, made, sender, signalled, hand, work>>

Ids   == 0 .. MaxClients - 1
Fds   == 0 .. MaxClients - 1
Free  == -1     \* a descriptor, or an entry, that is not in use

One(n, i) == [kind |-> "one", n |-> n, to |-> i]
All(n)    == [kind |-> "all", n |-> n, to |-> Free]
Null      == [kind |-> "null", n |-> 0, to |-> Free]

Messages == {One(n, i) : n \in 1 .. MaxOne, i \in Ids} \cup {All(n) : n \in 1 .. MaxAll}

SenderPC == {"top", "check", "unlock", "asleep", "pick", "copy", "size", "data",
             "drain", "done"}

MutexHeld == sender \in {"check", "unlock", "pick"}

Init ==
  /\ main = "run"
  /\ stopped = FALSE
  /\ size = 0
  /\ status = [i \in Ids |-> "RUNNING"]
  /\ fd = [i \in Ids |-> Free]
  /\ receiver = [i \in Ids |-> "none"]
  /\ owner = [f \in Fds |-> Free]
  /\ peer = [i \in Ids |-> "none"]
  /\ wire = [i \in Ids |-> <<>>]
  /\ queue = <<>>
  /\ slot = Null
  /\ live = {}
  /\ host = "idle"
  /\ made = [one |-> 0, all |-> 0]
  /\ sender = "top"
  /\ signalled = FALSE
  /\ hand = Null
  /\ work = <<>>

-----------------------------------------------------------------------------
(* The client table and the connections; in detail in ReceivePath.          *)

(* accept() returns the lowest free descriptor.                             *)
Accept ==
  /\ main # "done"
  /\ size < MaxClients
  /\ \E f \in Fds :
       /\ owner[f] = Free
       /\ \A d \in Fds : owner[d] = Free => f <= d
       /\ fd' = [fd EXCEPT ![size] = f]
       /\ owner' = [owner EXCEPT ![f] = size]
  /\ peer' = [peer EXCEPT ![size] = "open"]
  /\ receiver' = [receiver EXCEPT ![size] = "loop"]
  /\ size' = size + 1
  /\ UNCHANGED <<main, stopped, status, wire, msgVars, hostVars, senderVars>>

PeerCloses(i) ==
  /\ peer[i] \in {"open", "stalled"}
  /\ peer' = [peer EXCEPT ![i] = "closed"]
  /\ UNCHANGED <<main, stopped, tableVars, owner, wire, msgVars, hostVars, senderVars>>

(* A peer that does not read fills the socket's buffer: send() blocks.      *)
PeerStalls(i) ==
  /\ PeersStall
  /\ peer[i] = "open"
  /\ peer' = [peer EXCEPT ![i] = "stalled"]
  /\ UNCHANGED <<main, stopped, tableVars, owner, wire, msgVars, hostVars, senderVars>>

(* The sender is inside a send() on the connection of client i.             *)
SendBlocked(i) ==
  /\ sender \in {"size", "data"} /\ work # <<>> /\ Head(work).status = "RUNNING"
  /\ owner[Head(work).fd] = i
  /\ peer[i] = "stalled"

(* The receiving thread leaves its loop (the status, the peer, or an error  *)
(* of poll()) and closes the socket.  A close under a blocked send(), which *)
(* would take effect when send() returns, is left out.                      *)
CloseSocket(i) ==
  /\ receiver[i] = "loop"
  /\ ~ SendBlocked(i)
  /\ owner' = [owner EXCEPT ![fd[i]] = Free]
  /\ peer' = [peer EXCEPT ![i] = "closed"]
  /\ receiver' = [receiver EXCEPT ![i] = "closed"]
  /\ UNCHANGED <<main, stopped, size, status, fd, wire, msgVars, hostVars, senderVars>>

StopClient(i) ==
  /\ receiver[i] = "closed"
  /\ status' = [status EXCEPT ![i] = "STOPPED"]
  /\ receiver' = [receiver EXCEPT ![i] = "done"]
  /\ UNCHANGED <<main, stopped, size, fd, netVars, msgVars, hostVars, senderVars>>

-----------------------------------------------------------------------------
(* The game's calls.                                                        *)

Signal == signalled' = (signalled \/ sender = "asleep")

(* sendTo: the message is queued under the mutex of the queue alone ...     *)
SendTo(i) ==
  /\ main = "run" /\ host = "idle"
  /\ i < size /\ made.one < MaxOne
  /\ made' = [made EXCEPT !.one = @ + 1]
  /\ queue' = Append(queue, One(made.one + 1, i))
  /\ live' = live \cup {One(made.one + 1, i)}
  /\ host' = "signal"
  /\ UNCHANGED <<main, stopped, tableVars, netVars, slot, senderVars>>

(* ... and signalled without message_mutex.                                 *)
SendToSignal ==
  /\ host = "signal"
  /\ host' = "idle"
  /\ Signal
  /\ UNCHANGED <<main, stopped, tableVars, netVars, msgVars, made, sender, hand, work>>

(* The mutated form of SendToEveryone: the message replaced is not freed.   *)
SendToEveryoneLeaks ==
  /\ main = "run"
  /\ made.all < MaxAll /\ ~ MutexHeld
  /\ made' = [made EXCEPT !.all = @ + 1]
  /\ slot' = All(made.all + 1)
  /\ live' = live \cup {All(made.all + 1)}
  /\ Signal
  /\ UNCHANGED <<main, stopped, tableVars, netVars, queue, host, sender, hand, work>>

(* The newest message to everyone replaces, and frees, one not sent yet.    *)
SendToEveryone ==
  /\ main = "run"
  /\ made.all < MaxAll /\ ~ MutexHeld
  /\ made' = [made EXCEPT !.all = @ + 1]
  /\ slot' = All(made.all + 1)
  /\ live' = (live \ {slot}) \cup {All(made.all + 1)}
  /\ Signal
  /\ UNCHANGED <<main, stopped, tableVars, netVars, queue, host, sender, hand, work>>

(* The mutated form of SetStop: the flag is forgotten.                      *)
SetStopForgotten ==
  /\ main = "run" /\ host = "idle"
  /\ main' = "join"
  /\ UNCHANGED <<stopped, tableVars, netVars, msgVars, hostVars, senderVars>>

(* The game's threads have been joined; stopServer() sets the flag.         *)
SetStop ==
  /\ main = "run" /\ host = "idle"
  /\ stopped' = TRUE
  /\ main' = "join"
  /\ UNCHANGED <<tableVars, netVars, msgVars, hostVars, senderVars>>

JoinSender ==
  /\ main = "join" /\ sender = "done"
  /\ main' = "done"
  /\ UNCHANGED <<stopped, tableVars, netVars, msgVars, hostVars, senderVars>>

-----------------------------------------------------------------------------
(* startSending.                                                            *)

(* The test of stopped and the lock of message_mutex.                       *)
Top ==
  /\ sender = "top"
  /\ sender' = IF stopped THEN "drain" ELSE "check"
  /\ UNCHANGED <<main, stopped, tableVars, netVars, msgVars, hostVars, signalled, hand, work>>

(* The loop of waitForMessage looks at the queue, whose mutex it lets go    *)
(* again, and at the slot.                                                  *)
Check ==
  /\ sender = "check"
  /\ sender' = IF queue = <<>> /\ slot = Null THEN "unlock" ELSE "pick"
  /\ UNCHANGED <<main, stopped, tableVars, netVars, msgVars, hostVars, signalled, hand, work>>

(* pthread_cond_timedwait: unlocks and sleeps.                              *)
Sleep ==
  /\ sender = "unlock"
  /\ sender' = "asleep"
  /\ UNCHANGED <<main, stopped, tableVars, netVars, msgVars, hostVars, signalled, hand, work>>

Awake(next) ==
  /\ sender = "asleep"
  /\ sender' = next
  /\ signalled' = FALSE
  /\ UNCHANGED <<main, stopped, tableVars, netVars, msgVars, hostVars, hand, work>>

(* The mutated form of Wakes: an if in place of the loop of waitForMessage. *)
WakesToPick == Awake(IF stopped THEN "drain" ELSE "pick")

(* Signalled, timed out (again and again: the deadline is not renewed) or   *)
(* woken for no reason: stopped is tested, then the loop goes round.        *)
Wakes == Awake(IF stopped THEN "drain" ELSE "check")

(* The mutated form of SenderWakes: pthread_cond_wait, without a time limit. *)
SenderWakesSignalled ==
  \/ signalled /\ Wakes
  \/ sender = "asleep" /\ UNCHANGED vars

SenderWakes == Wakes

(* The mutated form of Pick: the slot keeps the message that was taken.     *)
PickKeepsSlot ==
  /\ sender = "pick"
  /\ \/ queue # <<>> /\ hand' = Head(queue) /\ queue' = Tail(queue)
     \/ queue = <<>> /\ hand' = slot /\ UNCHANGED queue
  /\ sender' = "copy"
  /\ UNCHANGED <<main, stopped, tableVars, netVars, slot, live, hostVars, signalled, work>>

(* The oldest message of the queue, or else the one to everyone.            *)
Pick ==
  /\ sender = "pick"
  /\ \/ queue # <<>> /\ hand' = Head(queue) /\ queue' = Tail(queue) /\ UNCHANGED slot
     \/ queue = <<>> /\ hand' = slot /\ slot' = Null /\ UNCHANGED queue
  /\ sender' = "copy"
  /\ UNCHANGED <<main, stopped, tableVars, netVars, live, hostVars, signalled, work>>

(* getClient or getAllClients: copies of the entries, as they are now.      *)
Entry(i) == [id |-> i, fd |-> fd[i], status |-> status[i]]

CopyEntries ==
  /\ sender = "copy"
  /\ work' = IF hand.kind = "one" THEN <<Entry(hand.to)>>
             ELSE [n \in 1 .. size |-> Entry(n - 1)]
  /\ sender' = "size"
  /\ UNCHANGED <<main, stopped, tableVars, netVars, msgVars, hostVars, signalled, hand>>

(* sendMessageTo looks at the status of the copy.                           *)
SkipStopped ==
  /\ sender = "size" /\ work # <<>>
  /\ Head(work).status # "RUNNING"
  /\ work' = Tail(work)
  /\ UNCHANGED <<main, stopped, tableVars, netVars, msgVars, hostVars, sender,
                 signalled, hand>>

(* One send() on the descriptor of the copy.  It reaches whoever owns the   *)
(* descriptor now.  A peer that hung up may or may not be noticed yet; a    *)
(* failure marks the client of the copy to be stopped.                      *)
Send(part) ==
  LET entry == Head(work)
      c == owner[entry.fd]
      end == IF c = Free THEN "none" ELSE peer[c]
  IN \/ /\ end = "open"
        /\ wire' = [wire EXCEPT ![c] = Append(@, [part |-> part, msg |-> hand])]
        /\ UNCHANGED status
     \/ /\ end = "closed"
        /\ UNCHANGED <<wire, status>>
     \/ /\ end \in {"none", "closed"}
        /\ status' = [status EXCEPT ![entry.id] = "STOP"]
        /\ UNCHANGED wire

(* Whatever becomes of the size, the data follows.                          *)
SendSize ==
  /\ sender = "size" /\ work # <<>> /\ Head(work).status = "RUNNING"
  /\ Send("size")
  /\ sender' = "data"
  /\ UNCHANGED <<main, stopped, size, fd, receiver, owner, peer, msgVars, hostVars,
                 signalled, hand, work>>

SendData ==
  /\ sender = "data"
  /\ Send("data")
  /\ work' = Tail(work)
  /\ sender' = "size"
  /\ UNCHANGED <<main, stopped, size, fd, receiver, owner, peer, msgVars, hostVars,
                 signalled, hand>>

FreeSent ==
  /\ sender = "size" /\ work = <<>>
  /\ live' = live \ {hand}
  /\ hand' = Null
  /\ sender' = "top"
  /\ UNCHANGED <<main, stopped, tableVars, netVars, queue, slot, hostVars, signalled, work>>

(* What was never sent is freed: the queue, then the slot, whose pointer    *)
(* keeps its value.                                                         *)
Drain ==
  /\ sender = "drain"
  /\ live' = live \ ({queue[j] : j \in DOMAIN queue} \cup {slot})
  /\ queue' = <<>>
  /\ sender' = "done"
  /\ UNCHANGED <<main, stopped, tableVars, netVars, slot, hostVars, signalled, hand, work>>

Terminated == main = "done" /\ UNCHANGED vars

-----------------------------------------------------------------------------
Sender ==
  \/ Top \/ Check \/ Sleep \/ SenderWakes \/ Pick \/ CopyEntries
  \/ SkipStopped \/ SendSize \/ SendData \/ FreeSent \/ Drain

Game == SendToEveryone \/ SetStop \/ \E i \in Ids : SendTo(i)

Next ==
  \/ Accept \/ Game \/ SendToSignal \/ Sender \/ JoinSender
  \/ \E i \in Ids : PeerCloses(i) \/ PeerStalls(i) \/ CloseSocket(i) \/ StopClient(i)
  \/ Terminated

(* The threads keep running; the game, its operator and the peers need not. *)
Fairness ==
  /\ WF_vars(SendToSignal) /\ WF_vars(Sender) /\ WF_vars(JoinSender)
  /\ \A i \in Ids : WF_vars(StopClient(i))

Spec == Init /\ [][Next]_vars /\ Fairness

-----------------------------------------------------------------------------
TypeOK ==
  /\ main \in {"run", "join", "done"}
  /\ stopped \in BOOLEAN
  /\ stopped <=> main # "run"
  /\ size \in 0 .. MaxClients
  /\ status \in [Ids -> {"RUNNING", "STOP", "STOPPED"}]
  /\ fd \in [Ids -> Fds \cup {Free}]
  /\ receiver \in [Ids -> {"none", "loop", "closed", "done"}]
  /\ owner \in [Fds -> Ids \cup {Free}]
  /\ peer \in [Ids -> {"none", "open", "stalled", "closed"}]
  /\ wire \in [Ids -> Seq([part : {"size", "data"}, msg : Messages])]
  /\ queue \in Seq(Messages)
  /\ slot \in Messages \cup {Null}
  /\ live \subseteq Messages
  /\ host \in {"idle", "signal"}
  /\ made \in [one : 0 .. MaxOne, all : 0 .. MaxAll]
  /\ sender \in SenderPC
  /\ signalled \in BOOLEAN
  /\ hand \in Messages \cup {Null}
  /\ work \in Seq([id : Ids, fd : Fds, status : {"RUNNING", "STOP", "STOPPED"}])

(* Every allocated message is in exactly one place, the queue, the slot or  *)
(* the sender's hand, and no place holds a message that was freed: nothing  *)
(* leaks, and nothing is freed twice or sent after it was freed.            *)
(* (freeOutgoingMessage, in sendToEveryone and startSending.)               *)
Queued == {queue[j] : j \in DOMAIN queue}
Kept   == (IF sender = "done" THEN {} ELSE {slot}) \ {Null}
Held   == {hand} \ {Null}

OwnedOnce ==
  /\ live = Queued \cup Kept \cup Held
  /\ Cardinality(live) = Len(queue) + Cardinality(Kept) + Cardinality(Held)

(* "message_to_everyone.data == NULL if there is no message"                *)
(* (server_send.c:18): the sender never takes the absent message for one.   *)
NeverSendsNull ==
  sender \in {"copy", "size", "data"} => hand # Null

(* The descriptor of client i was not another client's before.              *)
Fresh(i) == \A j \in Ids : j < i => fd[j] # fd[i]

(* A peer on a fresh descriptor receives whole frames: each size is         *)
(* followed by the data of the same message (sendMessageTo).                *)
FreshFramed ==
  \A i \in Ids : Fresh(i) =>
    \A j \in DOMAIN wire[i] :
      IF j % 2 = 1 THEN wire[i][j].part = "size"
      ELSE wire[i][j] = [part |-> "data", msg |-> wire[i][j - 1].msg]

(* ... and of each kind of message, only its own, each at most once, in the *)
(* order the game made them: no stale broadcast follows a newer one.        *)
FreshStream ==
  /\ FreshFramed
  /\ \A i \in Ids : Fresh(i) =>
    /\ \A j \in DOMAIN wire[i] : wire[i][j].msg.to \in {i, Free}
    /\ \A j, k \in DOMAIN wire[i] :
         /\ j < k /\ wire[i][j].part = wire[i][k].part
         /\ wire[i][j].msg.kind = wire[i][k].msg.kind
         => wire[i][j].msg.n < wire[i][k].msg.n

(* A message does not stay: it is sent to whom it can be, and freed, or it  *)
(* is replaced.  sendTo signals without message_mutex, so the signal may    *)
(* come before the sender sleeps; the timed wait makes up for it.           *)
MessagesLeave == \A m \in Messages : m \in live ~> m \notin live

(* The sending thread ends after stopServer(), although nothing signals it. *)
SenderStops == main = "join" ~> main = "done"

(* "Serwer wysyla: pierwsza wiadomosc: id gracza" to the client that has    *)
(* connected (Protokol_komunikacji.txt:5-7): a peer is sent its own welcome *)
(* and no other client's.                                                   *)
OwnMessagesOnly ==
  \A i \in Ids : \A j \in DOMAIN wire[i] : wire[i][j].msg.to \in {i, Free}
=============================================================================
