------------------------- MODULE ReceivePathProofs -------------------------
(***************************************************************************)
(* Proofs about ReceivePath, for any number of clients and frames: types,  *)
(* shutdown and signals from one inductive invariant, then the contents of *)
(* the queue and the refinement of EventStream; and about GameHost, which   *)
(* extends it: the refinement of GameServer.                               *)
(***************************************************************************)
EXTENDS GameHost, SequenceTheorems, TLAPS

(* What is read in a half-read frame; how far the halves have got.          *)
Halves ==
  \A i \in Ids :
    /\ receiver[i] \in {"start", "loop", "poll", "size"} => read[i] % 2 = 0
    /\ receiver[i] = "data" => read[i] % 2 = 1
    /\ receiver[i] = "push" => read[i] % 2 = 0 /\ read[i] > 0

(* The entries of the table, and the room the next one needs.               *)
Entries ==
  /\ \A i \in Ids : i >= size => receiver[i] = "none" /\ peer[i] = "none" /\ sent[i] = 0 /\ read[i] = 0
  /\ listener = "accept" => size < MaxClients
  /\ main = "init" => size = 0

(* Who is still running at each stage of start and stop.                    *)
Stages ==
  /\ main \in {"init", "starting"} => taker = "none"
  /\ main \in {"joinListener", "join", "destroy", "done", "crashed"}
       => taker \in {"none", "gone"}
  /\ main = "init" => listener = "none"
  /\ main \in {"join", "destroy", "done", "crashed"} => listener \in {"none", "done"}
  /\ main \in {"destroy", "done"}
       => \A i \in Ids : receiver[i] \in {"none", "nothread", "done"}

(* A signal is pending only for a taker that has something to take.         *)
SignalSound == signalled => taker = "waiting" /\ inbox # <<>>

IInv == TypeOK /\ Halves /\ Entries /\ Stages /\ SignalSound

(* The events a receiving thread pushes are events.                         *)
LEMMA EventsTyped ==
  \A i \in Ids : /\ New(i) \in Events
                 /\ Lost(i) \in Events
                 /\ \A n \in 1 .. MaxFrames : Frame(i, n) \in Events
BY DEF Events

(* The fields of an event.                                                  *)
LEMMA EventFields ==
  \A e \in Events : /\ e.id \in Ids
                    /\ e.type \in {"NEW_CONNECTION", "LOST_CONNECTION", "MESSAGE"}
                    /\ e.type = "MESSAGE" => e.n \in 1 .. MaxFrames
BY DEF Events, New, Lost, Frame

(* The frame that is pushed after its two halves were read is an event.     *)
LEMMA FramePushed ==
  ASSUME TypeOK, Halves, NEW i \in Ids, receiver[i] = "push"
  PROVE  read[i] \div 2 \in 1 .. MaxFrames /\ Frame(i, read[i] \div 2) \in Events
<1>1. read[i] \in 0 .. 2 * MaxFrames /\ read[i] % 2 = 0 /\ read[i] > 0
  BY DEF TypeOK, Halves
<1>2. read[i] \div 2 \in 1 .. MaxFrames
  BY <1>1, ReceiveAssumption
<1> QED BY <1>2, EventsTyped

(* Taking the head of the queue leaves events only, and a typed history.    *)
LEMMA PoppedTyped ==
  ASSUME TypeOK, inbox # <<>>, Popped
  PROVE  /\ inbox' \in Seq(Events)
         /\ seen' \in [Ids -> [new : BOOLEAN, msgs : 0 .. MaxFrames, lost : BOOLEAN]]
<1> DEFINE e == Head(inbox)
           Seen == [new : BOOLEAN, msgs : 0 .. MaxFrames, lost : BOOLEAN]
<1>1. /\ inbox \in Seq(Events)
      /\ seen \in [Ids -> Seen]
      /\ inbox' = Tail(inbox)
  BY DEF TypeOK, Popped
<1>2. e \in Events /\ inbox' \in Seq(Events)
  BY <1>1, HeadTailProperties
<1>3. e.id \in Ids /\ (e.type \notin {"NEW_CONNECTION", "LOST_CONNECTION"} => e.n \in 0 .. MaxFrames)
  BY <1>2, EventFields, ReceiveAssumption
<1>4. \A s \in Seen : /\ [s EXCEPT !.new = TRUE] \in Seen
                      /\ [s EXCEPT !.lost = TRUE] \in Seen
                      /\ e.n \in 0 .. MaxFrames => [s EXCEPT !.msgs = e.n] \in Seen
  OBVIOUS
<1>5. seen' = [seen EXCEPT ![e.id] =
                CASE e.type = "NEW_CONNECTION"  -> [seen[e.id] EXCEPT !.new = TRUE]
                  [] e.type = "LOST_CONNECTION" -> [seen[e.id] EXCEPT !.lost = TRUE]
                  [] OTHER                      -> [seen[e.id] EXCEPT !.msgs = e.n]]
  BY DEF Popped
<1>6. seen[e.id] \in Seen
  BY <1>1, <1>3
<1>7. (CASE e.type = "NEW_CONNECTION"  -> [seen[e.id] EXCEPT !.new = TRUE]
         [] e.type = "LOST_CONNECTION" -> [seen[e.id] EXCEPT !.lost = TRUE]
         [] OTHER                      -> [seen[e.id] EXCEPT !.msgs = e.n]) \in Seen
  <2>1. CASE e.type = "NEW_CONNECTION"
    BY <2>1, <1>4, <1>6
  <2>2. CASE e.type = "LOST_CONNECTION"
    BY <2>2, <1>4, <1>6
  <2>3. CASE e.type \notin {"NEW_CONNECTION", "LOST_CONNECTION"}
    BY <2>3, <1>3, <1>4, <1>6
  <2> QED BY <2>1, <2>2, <2>3
<1> HIDE DEF e, Seen
<1>8. seen' \in [Ids -> Seen]
  BY <1>1, <1>3, <1>5, <1>7
<1> QED BY <1>2, <1>8 DEF Seen

LEMMA InitInv == Init => IInv
<1> SUFFICES ASSUME Init PROVE IInv
  OBVIOUS
<1> USE ReceiveAssumption DEF Init, Ids
<1>1. inbox \in Seq(Events)
  BY EmptySeq
<1>2. read = [i \in Ids |-> 0] /\ sent = [i \in Ids |-> 0]
  OBVIOUS
<1>3. read \in [Ids -> 0 .. 2 * MaxFrames] /\ sent \in [Ids -> 0 .. 2 * MaxFrames]
  BY <1>2
<1>4. seen \in [Ids -> [new : BOOLEAN, msgs : 0 .. MaxFrames, lost : BOOLEAN]]
  OBVIOUS
<1>5. status \in [Ids -> {"RUNNING", "STOP", "STOPPED"}] /\ receiver \in [Ids -> ReceiverPC]
  BY DEF ReceiverPC
<1>7. TypeOK
  <2>1. \A i \in Ids : read[i] <= sent[i]
    BY <1>2
  <2>2. size \in 0 .. MaxClients /\ peer \in [Ids -> {"none", "open", "closed"}]
    OBVIOUS
  <2> QED BY <1>1, <1>3, <1>4, <1>5, <2>1, <2>2 DEF TypeOK, MainPC
<1>6. Halves /\ Entries /\ Stages /\ SignalSound
  BY DEF Halves, Entries, Stages, SignalSound
<1> QED BY <1>6, <1>7 DEF IInv

(* Each action preserves the invariant but for the types, which follow.     *)
LEMMA StagesStep == IInv /\ Next => Stages'
<1> SUFFICES ASSUME IInv, Next PROVE Stages'
  OBVIOUS
<1> USE ReceiveAssumption DEF IInv, Ids, Stages, tableVars, netVars, hostVars
<1>1. CASE Terminated
  BY <1>1 DEF Terminated, vars
<1>2. CASE main # "crashed" /\ Start
  BY <1>2 DEF Start, StartListening, StartListeningFails, StartSending, StartSendingFails, Entries
<1>3. CASE main # "crashed" /\ (Listener \/ ListenerWakes \/ ListenerFails)
  BY <1>3 DEF Listener, ListenerExits, Accept, AcceptFails, ListenerWakes, ListenerFails
<1>4. CASE main # "crashed" /\ Taker
  <2>1. CASE TakeNow \/ TakeWaits
    BY <2>1 DEF TakeNow, TakeWaits
  <2>2. CASE TakeWakes
    BY <2>2 DEF TakeWakes
  <2>3. CASE TakeTimesOut 
    BY <2>3 DEF TakeTimesOut
  <2>4. CASE TakerExits
    BY <2>4 DEF TakerExits
  <2> QED BY <1>4, <2>1, <2>2, <2>3, <2>4 DEF Taker
<1>5. CASE main # "crashed" /\ (Interrupt \/ Stop)
  <2>1. CASE Interrupt \/ SetStop \/ MarkClientsToStop
    BY <2>1 DEF Interrupt, SetStop, MarkClientsToStop
  <2>2. CASE JoinReceivers
    BY <2>2 DEF JoinReceivers, Entries, TypeOK
  <2>3. CASE JoinGarbage
    <3>1. \A i \in Ids : i < size \/ receiver[i] = "none"
      BY DEF Entries, TypeOK
    <3>2. main' = "destroy" => \A i \in Ids : receiver[i] \in {"none", "nothread", "done"}
      BY <2>3, <3>1 DEF JoinGarbage
    <3> QED BY <2>3, <3>2 DEF JoinGarbage
  <2>4. CASE DestroyQueue
    BY <2>4 DEF DestroyQueue
  <2> QED BY <1>5, <2>1, <2>2, <2>3, <2>4 DEF Stop
<1>6. ASSUME NEW i \in Ids, Receiver(i) \/ PollFails(i) \/ Peer(i) \/ SignalClientToStop(i)
      PROVE Stages'
  <2>1. CASE Peer(i) \/ SignalClientToStop(i)
    BY <2>1 DEF Peer, PeerSend, PeerClose, SignalClientToStop
  <2>2. CASE PushNew(i) \/ Loop(i) \/ Poll(i) \/ PollFails(i)
    BY <2>2 DEF PushNew, Loop, Poll, PollFails, Goto, TypeOK
  <2>3. CASE RecvSize(i) \/ RecvData(i)
    BY <2>3 DEF RecvSize, RecvData, Recv, Goto, TypeOK
  <2>4. CASE PushMessage(i) \/ PushLost(i)
    BY <2>4 DEF PushMessage, PushLost, Goto, TypeOK
  <2>5. CASE CloseSocket(i) \/ StopClient(i)
    BY <2>5 DEF CloseSocket, StopClient, Goto, TypeOK
  <2> QED BY <1>6, <2>1, <2>2, <2>3, <2>4, <2>5 DEF Receiver
<1> QED BY <1>1, <1>2, <1>3, <1>4, <1>5, <1>6 DEF Next

(* A receiving thread changes no other thread's half.                       *)
LEMMA HalvesStep == IInv /\ Next => Halves'
<1> SUFFICES ASSUME IInv, Next PROVE Halves'
  OBVIOUS
<1> USE ReceiveAssumption DEF IInv, Ids, Halves, tableVars, netVars, hostVars
<1>1. CASE Terminated
  BY <1>1 DEF Terminated, vars
<1>2. CASE main # "crashed" /\ (Start \/ Interrupt \/ Stop)
  BY <1>2 DEF Start, StartListening, StartListeningFails, StartSending, StartSendingFails,
     Interrupt, Stop, SetStop, MarkClientsToStop, JoinReceivers, JoinGarbage, DestroyQueue
<1>3. CASE ListenerExits \/ AcceptFails \/ ListenerWakes \/ ListenerFails
  BY <1>3 DEF ListenerExits, AcceptFails, ListenerWakes, ListenerFails
<1>4. CASE Accept
  <2>1. size \in Ids /\ read[size] = 0 /\ read[size] % 2 = 0
    BY <1>4 DEF Accept, TypeOK, Entries
  <2>2. read' = read /\ \A i \in Ids : receiver'[i] = receiver[i] \/ (i = size /\ receiver'[i] \in {"start", "nothread"})
    BY <1>4, <2>1 DEF Accept, TypeOK
  <2> QED BY <2>1, <2>2
<1>5. CASE main # "crashed" /\ Taker
  BY <1>5 DEF Taker, TakeNow, TakeWaits, TakeWakes, TakeTimesOut, TakerExits
<1>6. ASSUME NEW i \in Ids, Receiver(i) \/ PollFails(i) \/ Peer(i) \/ SignalClientToStop(i)
      PROVE Halves'
  <2>1. CASE Peer(i) \/ SignalClientToStop(i)
    BY <2>1 DEF Peer, PeerSend, PeerClose, SignalClientToStop
  <2>2. CASE PushNew(i) \/ Loop(i) \/ Poll(i) \/ PollFails(i)
    BY <2>2 DEF PushNew, Loop, Poll, PollFails, Goto, TypeOK
  <2>3. CASE RecvSize(i) \/ RecvData(i)
    <3>2. \A n \in Nat : /\ n + 1 > 0
                         /\ n % 2 = 0 => (n + 1) % 2 = 1
                         /\ n % 2 = 1 => (n + 1) % 2 = 0
      OBVIOUS
    <3>3. read[i] \in Nat
      BY <1>6 DEF TypeOK
    <3> DEFINE r == read[i] + 1
    <3>1. /\ r > 0
          /\ read[i] % 2 = 0 => r % 2 = 1
          /\ read[i] % 2 = 1 => r % 2 = 0
      BY <3>2, <3>3
    <3>4. /\ receiver[i] \in {"size", "data"}
          /\ \/ receiver' = [receiver EXCEPT ![i] = "lost"] /\ read' = read
             \/ /\ receiver' = [receiver EXCEPT ![i] = IF receiver[i] = "size" THEN "data" ELSE "push"]
                /\ read' = [read EXCEPT ![i] = r]
      BY <2>3 DEF RecvSize, RecvData, Recv, Goto
    <3>5. \A j \in Ids \ {i} : receiver'[j] = receiver[j] /\ read'[j] = read[j]
      BY <3>4 DEF TypeOK
    <3>6. \/ receiver'[i] = "lost"
          \/ receiver[i] = "size" /\ receiver'[i] = "data" /\ read'[i] = r
          \/ receiver[i] = "data" /\ receiver'[i] = "push" /\ read'[i] = r
      BY <1>6, <3>4 DEF TypeOK
    <3> HIDE DEF r
    <3> QED BY <3>1, <3>5, <3>6
  <2>4. CASE PushMessage(i) \/ PushLost(i)
    BY <2>4 DEF PushMessage, PushLost, Goto, TypeOK
  <2>5. CASE CloseSocket(i) \/ StopClient(i)
    BY <2>5 DEF CloseSocket, StopClient, Goto, TypeOK
  <2> QED BY <1>6, <2>1, <2>2, <2>3, <2>4, <2>5 DEF Receiver
<1> QED BY <1>1, <1>2, <1>3, <1>4, <1>5, <1>6 DEF Next, Listener

LEMMA EntriesStep == IInv /\ Next => Entries'
<1> SUFFICES ASSUME IInv, Next PROVE Entries'
  OBVIOUS
<1> USE ReceiveAssumption DEF IInv, Ids, Entries, tableVars, netVars, hostVars
<1>1. CASE Terminated
  BY <1>1 DEF Terminated, vars
<1>2. CASE main # "crashed" /\ (Start \/ Interrupt \/ Stop)
  BY <1>2 DEF Start, StartListening, StartListeningFails, StartSending, StartSendingFails,
     Interrupt, Stop, SetStop, MarkClientsToStop, JoinReceivers, JoinGarbage, DestroyQueue
<1>3. CASE ListenerExits \/ AcceptFails \/ ListenerWakes \/ ListenerFails
  BY <1>3 DEF ListenerExits, AcceptFails, ListenerWakes, ListenerFails
<1>4. CASE Accept
  <2>1. main # "init"
    BY <1>4 DEF Accept, Stages
  <2> QED BY <1>4, <2>1 DEF Accept, TypeOK
<1>5. CASE main # "crashed" /\ Taker
  BY <1>5 DEF Taker, TakeNow, TakeWaits, TakeWakes, TakeTimesOut, TakerExits
<1>6. ASSUME NEW i \in Ids, Receiver(i) \/ PollFails(i) \/ Peer(i) \/ SignalClientToStop(i)
      PROVE Entries'
  <2>1. i < size
    BY <1>6 DEF Receiver, PollFails, Peer, SignalClientToStop, PushNew, Loop, Poll, RecvSize, RecvData, Recv,
       PushMessage, PushLost, CloseSocket, StopClient, PeerSend, PeerClose, Goto, TypeOK
  <2>2. UNCHANGED <<size, listener, main>>
    BY <1>6 DEF Receiver, PollFails, Peer, SignalClientToStop, PushNew, Loop, Poll, RecvSize, RecvData, Recv,
       PushMessage, PushLost, CloseSocket, StopClient, PeerSend, PeerClose
  <2>3. \A j \in Ids \ {i} : /\ receiver'[j] = receiver[j] /\ peer'[j] = peer[j]
                              /\ sent'[j] = sent[j] /\ read'[j] = read[j]
    <3>1. CASE Peer(i) \/ SignalClientToStop(i)
      BY <3>1 DEF Peer, PeerSend, PeerClose, SignalClientToStop, TypeOK
    <3>2. CASE PushNew(i) \/ Loop(i) \/ Poll(i) \/ PollFails(i) \/ PushMessage(i) \/ PushLost(i)
      BY <3>2 DEF PushNew, Loop, Poll, PollFails, PushMessage, PushLost, Goto, TypeOK
    <3>3. CASE RecvSize(i) \/ RecvData(i)
      BY <3>3 DEF RecvSize, RecvData, Recv, Goto, TypeOK
    <3>4. CASE CloseSocket(i) \/ StopClient(i)
      BY <3>4 DEF CloseSocket, StopClient, Goto, TypeOK
    <3> QED BY <1>6, <3>1, <3>2, <3>3, <3>4 DEF Receiver
  <2> QED BY <2>1, <2>2, <2>3 DEF TypeOK
<1> QED BY <1>1, <1>2, <1>3, <1>4, <1>5, <1>6 DEF Next, Listener

(* Only the taker shortens the queue, and then it is not waiting.           *)
LEMMA SignalStep == IInv /\ Next => SignalSound'
<1> SUFFICES ASSUME IInv, Next PROVE SignalSound'
  OBVIOUS
<1> USE DEF IInv, SignalSound, tableVars, netVars, hostVars
<1>0. inbox \in Seq(Events)
  BY DEF TypeOK
<1>1. CASE Terminated
  BY <1>1 DEF Terminated, vars
<1>2. CASE main # "crashed" /\ (Start \/ Interrupt)
  BY <1>2 DEF Start, StartListening, StartListeningFails, StartSending, StartSendingFails, Interrupt, Stages
<1>3. CASE main # "crashed" /\ Stop
  BY <1>3 DEF Stop, SetStop, MarkClientsToStop, JoinReceivers, JoinGarbage, DestroyQueue, Stages
<1>4. CASE main # "crashed" /\ (Listener \/ ListenerWakes \/ ListenerFails)
  BY <1>4 DEF Listener, ListenerExits, Accept, AcceptFails, ListenerWakes, ListenerFails
<1>5. CASE main # "crashed" /\ Taker
  BY <1>5 DEF Taker, TakeNow, TakeWaits, TakeWakes, TakeTimesOut, TakerExits
<1>6. ASSUME NEW i \in Ids, Receiver(i) \/ PollFails(i) \/ Peer(i) \/ SignalClientToStop(i)
      PROVE SignalSound'
  <2>1. CASE PushNew(i)
    <3>1. inbox' # <<>>
      BY <1>0, <2>1, EventsTyped, AppendProperties DEF PushNew
    <3> QED BY <2>1, <3>1 DEF PushNew
  <2>2. CASE PushMessage(i)
    <3>1. inbox' # <<>>
      BY <1>0, <1>6, <2>2, FramePushed, AppendProperties DEF PushMessage
    <3> QED BY <2>2, <3>1 DEF PushMessage
  <2>3. CASE PushLost(i)
    <3>1. <<Lost(i)>> \in Seq(Events) /\ Len(<<Lost(i)>>) = 1
      BY <1>6, EventsTyped
    <3>2. inbox' # <<>>
      BY <1>0, <2>3, <3>1, ConcatProperties, LenProperties DEF PushLost
    <3> QED BY <2>3, <3>2 DEF PushLost
  <2>4. CASE Peer(i) \/ SignalClientToStop(i) \/ Loop(i) \/ Poll(i) \/ PollFails(i)
    BY <2>4 DEF Peer, PeerSend, PeerClose, SignalClientToStop, Loop, Poll, PollFails
  <2>5. CASE RecvSize(i) \/ RecvData(i) \/ CloseSocket(i) \/ StopClient(i)
    BY <2>5 DEF RecvSize, RecvData, Recv, CloseSocket, StopClient
  <2> QED BY <1>6, <2>1, <2>2, <2>3, <2>4, <2>5 DEF Receiver
<1> QED BY <1>1, <1>2, <1>3, <1>4, <1>5, <1>6 DEF Next

(* Frames are counted within bounds; the queue holds events.                *)
LEMMA TypeStep == IInv /\ Next => TypeOK'
<1> SUFFICES ASSUME IInv, Next PROVE TypeOK'
  OBVIOUS
<1> USE ReceiveAssumption DEF IInv, TypeOK, tableVars, netVars, hostVars
<1>1. CASE Terminated
  BY <1>1 DEF Terminated, vars
<1>2. CASE main # "crashed" /\ Start
  BY <1>2 DEF Start, StartListening, StartListeningFails, StartSending, StartSendingFails, MainPC
<1>3. CASE main # "crashed" /\ (Interrupt \/ Stop)
  <2>1. CASE Interrupt \/ SetStop \/ JoinReceivers \/ JoinGarbage
    BY <2>1 DEF Interrupt, SetStop, JoinReceivers, JoinGarbage, MainPC
  <2>2. CASE MarkClientsToStop
    BY <2>2 DEF MarkClientsToStop, MainPC
  <2>3. CASE DestroyQueue
    BY <2>3, EmptySeq DEF DestroyQueue, MainPC
  <2> QED BY <1>3, <2>1, <2>2, <2>3 DEF Stop
<1>4. CASE ListenerExits \/ AcceptFails \/ ListenerWakes \/ ListenerFails
  BY <1>4 DEF ListenerExits, AcceptFails, ListenerWakes, ListenerFails
<1>5. CASE Accept
  <2>1. size \in Ids /\ size + 1 \in 0 .. MaxClients
    BY <1>5 DEF Accept, Entries, Ids
  <2> QED BY <1>5, <2>1 DEF Accept, ReceiverPC
<1>6. CASE TakeNow \/ TakeWakes
  <2>1. Popped /\ inbox # <<>>
    BY <1>6 DEF TakeNow, TakeWakes, SignalSound
  <2>2. /\ inbox' \in Seq(Events)
        /\ seen' \in [Ids -> [new : BOOLEAN, msgs : 0 .. MaxFrames, lost : BOOLEAN]]
    BY <2>1, PoppedTyped
  <2> QED BY <1>6, <2>2 DEF TakeNow, TakeWakes
<1>7. CASE TakeWaits \/ TakeTimesOut \/ TakerExits
  BY <1>7 DEF TakeWaits, TakeTimesOut, TakerExits
<1>8. ASSUME NEW i \in Ids, Receiver(i) \/ PollFails(i) \/ Peer(i) \/ SignalClientToStop(i)
      PROVE TypeOK'
  <2> USE <1>8
  <2>1. CASE PushNew(i)
    <3>1. inbox' \in Seq(Events)
      BY <2>1, EventsTyped, AppendProperties DEF PushNew
    <3> QED BY <2>1, <3>1 DEF PushNew, Goto, ReceiverPC
  <2>2. CASE PushMessage(i)
    <3>1. inbox' \in Seq(Events)
      BY <2>2, FramePushed, AppendProperties DEF PushMessage, Goto
    <3> QED BY <2>2, <3>1 DEF PushMessage, Goto, ReceiverPC
  <2>3. CASE PushLost(i)
    <3>1. <<Lost(i)>> \in Seq(Events)
      BY EventsTyped
    <3>2. inbox' \in Seq(Events)
      BY <2>3, <3>1, ConcatProperties DEF PushLost
    <3> QED BY <2>3, <3>2 DEF PushLost, Goto, ReceiverPC
  <2>4. CASE Loop(i) \/ Poll(i) \/ PollFails(i)
    BY <2>4 DEF Loop, Poll, PollFails, Goto, ReceiverPC
  <2>5. CASE RecvSize(i) \/ RecvData(i)
    <3>1. read' = read \/ (sent[i] > read[i] /\ read' = [read EXCEPT ![i] = @ + 1])
      BY <2>5 DEF RecvSize, RecvData, Recv, Available
    <3>2. read[i] \in 0 .. 2 * MaxFrames /\ sent[i] \in 0 .. 2 * MaxFrames
      OBVIOUS
    <3>3. sent[i] > read[i] => read[i] + 1 \in 0 .. 2 * MaxFrames /\ read[i] + 1 <= sent[i]
      BY <3>2
    <3>4. read' \in [Ids -> 0 .. 2 * MaxFrames] /\ \A j \in Ids : read'[j] <= sent[j]
      BY <3>1, <3>3
    <3> QED BY <2>5, <3>4 DEF RecvSize, RecvData, Recv, Goto, ReceiverPC
  <2>6. CASE CloseSocket(i)
    BY <2>6 DEF CloseSocket, Goto, ReceiverPC
  <2>7. CASE StopClient(i) \/ SignalClientToStop(i)
    BY <2>7 DEF StopClient, SignalClientToStop, Goto, ReceiverPC
  <2>8. CASE PeerSend(i)
    BY <2>8 DEF PeerSend
  <2>9. CASE PeerClose(i)
    <3>1. PICK k \in read[i] .. sent[i] : sent' = [sent EXCEPT ![i] = k]
      BY <2>9 DEF PeerClose
    <3>2. sent' \in [Ids -> 0 .. 2 * MaxFrames] /\ \A j \in Ids : read[j] <= sent'[j]
      BY <3>1
    <3> QED BY <2>9, <3>2 DEF PeerClose
  <2> QED BY <2>1, <2>2, <2>3, <2>4, <2>5, <2>6, <2>7, <2>8, <2>9 DEF Receiver, Peer
<1> QED BY <1>1, <1>2, <1>3, <1>4, <1>5, <1>6, <1>7, <1>8 DEF Next, Listener, Taker

(* The invariant is inductive.                                              *)
LEMMA NextInv == IInv /\ [Next]_vars => IInv'
<1> SUFFICES ASSUME IInv, [Next]_vars PROVE IInv'
  OBVIOUS
<1>1. CASE Next
  BY <1>1, TypeStep, HalvesStep, EntriesStep, StagesStep, SignalStep DEF IInv
<1>2. CASE UNCHANGED vars
  BY <1>2 DEF vars, IInv, TypeOK, Halves, Entries, Stages, SignalSound
<1> QED BY <1>1, <1>2

(* Every reachable state satisfies the invariant.                           *)
THEOREM Invariance == Spec => []IInv
BY InitInv, NextInv, PTL DEF Spec

(* The types, and no half read before it was sent, for any number of        *)
(* clients and frames.                                                      *)
THEOREM TypesCorrect == Spec => []TypeOK
<1>1. IInv => TypeOK
  BY DEF IInv
<1> QED BY <1>1, Invariance, PTL

(* Nobody who may use received_messages is left when it is destroyed.       *)
THEOREM QueueSafe == Spec => []QueueOutlivesUsers
<1>1. IInv => QueueOutlivesUsers
  BY DEF IInv, Stages, QueueOutlivesUsers
<1> QED BY <1>1, Invariance, PTL

(* A finished thread's entry stays off RUNNING.                             *)
THEOREM FinishedStaysFinished == Spec => []FinishedNotRunning
<1>1. Init => FinishedNotRunning
  BY DEF Init, FinishedNotRunning, Ids
<1>2. IInv /\ FinishedNotRunning /\ [Next]_vars => FinishedNotRunning'
  <2> SUFFICES ASSUME IInv, FinishedNotRunning, [Next]_vars PROVE FinishedNotRunning'
    OBVIOUS
  <2> USE DEF IInv, FinishedNotRunning, tableVars, netVars, hostVars
  <2>1. CASE UNCHANGED vars \/ Terminated
    BY <2>1 DEF vars, Terminated
  <2>2. CASE main # "crashed" /\ (Start \/ Interrupt \/ SetStop \/ JoinReceivers \/ JoinGarbage \/ DestroyQueue)
    BY <2>2 DEF Start, StartListening, StartListeningFails, StartSending, StartSendingFails,
       Interrupt, SetStop, JoinReceivers, JoinGarbage, DestroyQueue
  <2>3. CASE MarkClientsToStop
    BY <2>3 DEF MarkClientsToStop
  <2>4. CASE ListenerExits \/ AcceptFails \/ ListenerWakes \/ ListenerFails
    BY <2>4 DEF ListenerExits, AcceptFails, ListenerWakes, ListenerFails
  <2>5. CASE Accept
    BY <2>5 DEF Accept, TypeOK
  <2>6. CASE Taker
    BY <2>6 DEF Taker, TakeNow, TakeWaits, TakeWakes, TakeTimesOut, TakerExits
  <2>7. ASSUME NEW i \in Ids, Receiver(i) \/ PollFails(i) \/ Peer(i) \/ SignalClientToStop(i)
        PROVE FinishedNotRunning'
    <3>1. CASE StopClient(i) \/ SignalClientToStop(i)
      BY <3>1 DEF StopClient, SignalClientToStop, Goto, TypeOK
    <3>2. CASE Peer(i)
      BY <3>2 DEF Peer, PeerSend, PeerClose
    <3>3. CASE PushNew(i) \/ Loop(i) \/ Poll(i) \/ PollFails(i) \/ PushMessage(i) \/ PushLost(i)
      BY <3>3 DEF PushNew, Loop, Poll, PollFails, PushMessage, PushLost, Goto, TypeOK
    <3>4. CASE RecvSize(i) \/ RecvData(i) \/ CloseSocket(i)
      BY <3>4 DEF RecvSize, RecvData, Recv, CloseSocket, Goto, TypeOK
    <3> QED BY <2>7, <3>1, <3>2, <3>3, <3>4 DEF Receiver
  <2> QED BY <2>1, <2>2, <2>3, <2>4, <2>5, <2>6, <2>7 DEF Next, Stop, Listener
<1> QED BY <1>1, <1>2, Invariance, PTL DEF Spec

(* A frame in the queue wakes the taker that waits for one.                 *)
FrameQueued == \E j \in DOMAIN inbox : inbox[j].type = "MESSAGE"

THEOREM SignalNotMissed == Spec => []NoMissedSignal
<1>1. Init => NoMissedSignal
  BY DEF Init, NoMissedSignal
<1>2. IInv /\ NoMissedSignal /\ [Next]_vars => NoMissedSignal'
  <2> SUFFICES ASSUME IInv, NoMissedSignal, [Next]_vars PROVE NoMissedSignal'
    OBVIOUS
  <2>0. inbox \in Seq(Events)
    BY DEF IInv, TypeOK
  <2> USE DEF IInv, NoMissedSignal, tableVars, netVars, hostVars
  <2>1. CASE UNCHANGED vars \/ Terminated
    BY <2>1 DEF vars, Terminated
  <2>2. CASE main # "crashed" /\ (Start \/ Interrupt)
    BY <2>2 DEF Start, StartListening, StartListeningFails, StartSending, StartSendingFails, Interrupt
  <2>3. CASE main # "crashed" /\ Stop
    BY <2>3 DEF Stop, SetStop, MarkClientsToStop, JoinReceivers, JoinGarbage, DestroyQueue, Stages
  <2>4. CASE main # "crashed" /\ (Listener \/ ListenerWakes \/ ListenerFails)
    BY <2>4 DEF Listener, ListenerExits, Accept, AcceptFails, ListenerWakes, ListenerFails
  <2>5. CASE main # "crashed" /\ Taker
    BY <2>5 DEF Taker, TakeNow, TakeWaits, TakeWakes, TakeTimesOut, TakerExits
  <2>6. ASSUME NEW i \in Ids, Receiver(i) \/ PollFails(i) \/ Peer(i) \/ SignalClientToStop(i)
        PROVE NoMissedSignal'
    <3>1. CASE PushMessage(i)
      BY <3>1 DEF PushMessage
    <3>2. CASE PushNew(i)
      <4>1. New(i) \in Events /\ New(i).type # "MESSAGE"
        BY <2>6, EventsTyped DEF New
      <4>2. inbox' = Append(inbox, New(i))
        BY <3>2 DEF PushNew
      <4>3. /\ DOMAIN inbox = 1 .. Len(inbox) /\ DOMAIN inbox' = 1 .. Len(inbox) + 1
            /\ \A j \in 1 .. Len(inbox) : inbox'[j] = inbox[j]
            /\ inbox'[Len(inbox) + 1] = New(i)
        BY <2>0, <4>1, <4>2
      <4>4. FrameQueued' => FrameQueued
        BY <2>0, <4>1, <4>3 DEF FrameQueued
      <4> QED BY <3>2, <4>4 DEF PushNew, FrameQueued
    <3>3. CASE PushLost(i)
      <4>1. Lost(i) \in Events /\ Lost(i).type # "MESSAGE"
        BY <2>6, EventsTyped DEF Lost
      <4>2. inbox' = <<Lost(i)>> \o inbox
        BY <3>3 DEF PushLost
      <4>3. /\ DOMAIN inbox = 1 .. Len(inbox) /\ DOMAIN inbox' = 1 .. Len(inbox) + 1
            /\ inbox'[1] = Lost(i)
            /\ \A j \in 2 .. Len(inbox) + 1 : inbox'[j] = inbox[j - 1]
        BY <2>0, <4>1, <4>2
      <4>4. FrameQueued' => FrameQueued
        BY <2>0, <4>1, <4>3 DEF FrameQueued
      <4> QED BY <3>3, <4>4 DEF PushLost, FrameQueued
    <3>4. CASE Peer(i) \/ SignalClientToStop(i) \/ Loop(i) \/ Poll(i) \/ PollFails(i)
      BY <3>4 DEF Peer, PeerSend, PeerClose, SignalClientToStop, Loop, Poll, PollFails
    <3>5. CASE RecvSize(i) \/ RecvData(i) \/ CloseSocket(i) \/ StopClient(i)
      BY <3>5 DEF RecvSize, RecvData, Recv, CloseSocket, StopClient
    <3> QED BY <2>6, <3>1, <3>2, <3>3, <3>4, <3>5 DEF Receiver
  <2> QED BY <2>1, <2>2, <2>3, <2>4, <2>5, <2>6 DEF Next
<1> QED BY <1>1, <1>2, Invariance, PTL DEF Spec

-----------------------------------------------------------------------------
(* The queue holds exactly what was pushed and not yet taken, in order, and *)
(* the threads implement EventStream.                                       *)

(* Appending an event.                                                      *)
LEMMA AppendElements ==
  ASSUME NEW q \in Seq(Events), NEW e \in Events
  PROVE  /\ Elements(Append(q, e)) = Elements(q) \cup {e}
         /\ InOrder(q) /\ (\A d \in Elements(q) : d.id = e.id => Rank(d) < Rank(e))
              => InOrder(Append(q, e))
<1> DEFINE a == Append(q, e)
<1>1. /\ DOMAIN q = 1 .. Len(q) /\ DOMAIN a = 1 .. Len(q) + 1 /\ Len(q) \in Nat
      /\ \A j \in 1 .. Len(q) : a[j] = q[j]
      /\ a[Len(q) + 1] = e
  OBVIOUS
<1> HIDE DEF a
<1>2. Elements(a) = Elements(q) \cup {e}
  BY <1>1 DEF Elements
<1>3. ASSUME InOrder(q), \A d \in Elements(q) : d.id = e.id => Rank(d) < Rank(e)
      PROVE InOrder(a)
  <2>1. SUFFICES ASSUME NEW j \in DOMAIN a, NEW k \in DOMAIN a, j < k, a[j].id = a[k].id
                 PROVE Rank(a[j]) < Rank(a[k])
    BY DEF InOrder
  <2>2. j \in DOMAIN q /\ a[j] = q[j]
    BY <1>1, <2>1
  <2>3. CASE k \in DOMAIN q
    BY <1>1, <1>3, <2>1, <2>2, <2>3 DEF InOrder
  <2>4. CASE k = Len(q) + 1
    BY <1>1, <1>3, <2>1, <2>2, <2>4 DEF Elements
  <2> QED BY <1>1, <2>1, <2>3, <2>4
<1> QED BY <1>2, <1>3 DEF a

(* Pushing an event in front.                                               *)
LEMMA FrontElements ==
  ASSUME NEW q \in Seq(Events), NEW e \in Events
  PROVE  /\ Elements(<<e>> \o q) = Elements(q) \cup {e}
         /\ InOrder(q) /\ (\A d \in Elements(q) : d.id = e.id => Rank(e) < Rank(d))
              => InOrder(<<e>> \o q)
<1> DEFINE a == <<e>> \o q
<1>1. /\ DOMAIN q = 1 .. Len(q) /\ DOMAIN a = 1 .. Len(q) + 1 /\ Len(q) \in Nat
      /\ \A j \in 2 .. Len(q) + 1 : a[j] = q[j - 1]
      /\ a[1] = e
  OBVIOUS
<1> HIDE DEF a
<1>2. \A j \in 1 .. Len(q) : j + 1 \in 2 .. Len(q) + 1 /\ a[j + 1] = q[j]
  BY <1>1
<1>3. Elements(a) = Elements(q) \cup {e}
  <2>1. \A d \in Elements(a) : d \in Elements(q) \cup {e}
    BY <1>1 DEF Elements
  <2>2. \A d \in Elements(q) : d \in Elements(a)
    BY <1>1, <1>2 DEF Elements
  <2>3. e \in Elements(a)
    BY <1>1 DEF Elements
  <2> QED BY <2>1, <2>2, <2>3
<1>4. ASSUME InOrder(q), \A d \in Elements(q) : d.id = e.id => Rank(e) < Rank(d)
      PROVE InOrder(a)
  <2>1. SUFFICES ASSUME NEW j \in DOMAIN a, NEW k \in DOMAIN a, j < k, a[j].id = a[k].id
                 PROVE Rank(a[j]) < Rank(a[k])
    BY DEF InOrder
  <2>2. k - 1 \in DOMAIN q /\ a[k] = q[k - 1]
    BY <1>1, <2>1
  <2>3. CASE j = 1
    BY <1>1, <1>4, <2>1, <2>2, <2>3 DEF Elements
  <2>4. CASE j # 1
    <3>1. j - 1 \in DOMAIN q /\ a[j] = q[j - 1] /\ j - 1 < k - 1
      BY <1>1, <2>1, <2>4
    <3> QED BY <1>4, <2>1, <2>2, <3>1 DEF InOrder
  <2> QED BY <2>3, <2>4
<1> QED BY <1>3, <1>4 DEF a

(* Taking the head.                                                         *)
LEMMA TailElements ==
  ASSUME NEW q \in Seq(Events), q # <<>>
  PROVE  /\ Head(q) \in Elements(q)
         /\ Elements(q) = Elements(Tail(q)) \cup {Head(q)}
         /\ InOrder(q) => /\ InOrder(Tail(q))
                          /\ \A d \in Elements(Tail(q)) :
                               d.id = Head(q).id => Rank(Head(q)) < Rank(d)
<1> DEFINE t == Tail(q)
           h == Head(q)
<1>1. /\ DOMAIN q = 1 .. Len(q) /\ Len(q) \in Nat /\ Len(q) > 0
      /\ DOMAIN t = 1 .. Len(q) - 1
      /\ \A j \in 1 .. Len(q) - 1 : t[j] = q[j + 1]
      /\ q[1] = h
  BY HeadTailProperties, EmptySeq, LenProperties
<1> HIDE DEF t, h
<1>2. \A j \in 2 .. Len(q) : j - 1 \in DOMAIN t /\ t[j - 1] = q[j]
  BY <1>1
<1>3. h \in Elements(q)
  BY <1>1 DEF Elements
<1>4. Elements(q) = Elements(t) \cup {h}
  <2>1. \A d \in Elements(t) : d \in Elements(q)
    BY <1>1 DEF Elements
  <2>2. ASSUME NEW d \in Elements(q) PROVE d \in Elements(t) \cup {h}
    <3>1. PICK j \in DOMAIN q : d = q[j]
      BY DEF Elements
    <3>2. CASE j = 1
      BY <1>1, <3>1, <3>2
    <3>3. CASE j # 1
      <4>1. j - 1 \in DOMAIN t /\ d = t[j - 1]
        BY <1>1, <1>2, <3>1, <3>3
      <4> QED BY <4>1 DEF Elements
    <3> QED BY <3>2, <3>3
  <2> QED BY <1>3, <2>1, <2>2
<1>5. ASSUME InOrder(q) PROVE InOrder(t)
  <2>1. SUFFICES ASSUME NEW j \in DOMAIN t, NEW k \in DOMAIN t, j < k, t[j].id = t[k].id
                 PROVE Rank(t[j]) < Rank(t[k])
    BY DEF InOrder
  <2>2. /\ j + 1 \in DOMAIN q /\ k + 1 \in DOMAIN q /\ j + 1 < k + 1
        /\ t[j] = q[j + 1] /\ t[k] = q[k + 1]
    BY <1>1, <2>1
  <2> QED BY <1>5, <2>1, <2>2 DEF InOrder
<1>6. ASSUME InOrder(q), NEW d \in Elements(t), d.id = h.id PROVE Rank(h) < Rank(d)
  <2>1. PICK j \in DOMAIN t : d = t[j]
    BY <1>6 DEF Elements
  <2>2. 1 \in DOMAIN q /\ j + 1 \in DOMAIN q /\ 1 < j + 1 /\ d = q[j + 1]
    BY <1>1, <2>1
  <2> QED BY <1>1, <1>6, <2>2 DEF InOrder
<1> QED BY <1>3, <1>4, <1>5, <1>6 DEF t, h

(* The event e was pushed and not taken yet.                                *)
Waits(e) ==
  \/ e.type = "NEW_CONNECTION" /\ Announced(e.id) /\ ~ seen[e.id].new
  \/ e.type = "LOST_CONNECTION" /\ Reported(e.id) /\ ~ seen[e.id].lost
  \/ e.type = "MESSAGE" /\ seen[e.id].msgs < e.n /\ e.n <= Pushed(e.id)

(* Nothing is taken that was not pushed; nothing is read before NEW.        *)
Hist ==
  \A i \in Ids : /\ seen[i].new => Announced(i)
                 /\ seen[i].lost => Reported(i)
                 /\ seen[i].msgs <= Pushed(i)
                 /\ ~ Announced(i) => read[i] = 0

SInv == IInv /\ Hist /\ InboxExact

(* What the threads have pushed is what they had pushed before.             *)
SameView(j) ==
  /\ Announced(j)' <=> Announced(j)
  /\ Reported(j)' <=> Reported(j)
  /\ Pushed(j)' = Pushed(j)
  /\ ~ Announced(j) => read'[j] = read[j]

(* The three kinds of events, by type.                                      *)
LEMMA EventKinds ==
  ASSUME NEW e \in Events
  PROVE  /\ e.id \in Ids
         /\ e.type = "NEW_CONNECTION" => e = New(e.id) /\ Rank(e) = 0
         /\ e.type = "LOST_CONNECTION" => e = Lost(e.id) /\ Rank(e) = -1
         /\ e.type = "MESSAGE" => e = Frame(e.id, e.n) /\ Rank(e) = e.n /\ e.n \in 1 .. MaxFrames
         /\ e.type \in {"NEW_CONNECTION", "LOST_CONNECTION", "MESSAGE"}
BY DEF Events, New, Lost, Frame, Rank

(* The counters a client's frames are measured by.                          *)
LEMMA Counters ==
  ASSUME IInv, NEW i \in Ids
  PROVE  Pushed(i) \in 0 .. MaxFrames /\ seen[i].msgs \in 0 .. MaxFrames
<1>1. read[i] \in 0 .. 2 * MaxFrames /\ (receiver[i] = "push" => read[i] % 2 = 0 /\ read[i] > 0)
  BY DEF IInv, TypeOK, Halves
<1>2. Pushed(i) \in 0 .. MaxFrames
  BY <1>1, ReceiveAssumption DEF Pushed
<1> QED BY <1>2 DEF IInv, TypeOK

(* The exact queue, event by event.                                         *)
LEMMA ExactQueue ==
  (main # "done" /\ InboxExact) =>
    /\ \A e \in Events : e \in Elements(inbox) <=> Waits(e)
    /\ Elements(inbox) \subseteq Events
    /\ InOrder(inbox)
BY DEF InboxExact, PendingEvents, Waits

(* A step that pushes, takes and destroys nothing leaves the stream alone.  *)
Quiet ==
  /\ UNCHANGED <<inbox, seen>>
  /\ \A j \in Ids : SameView(j)
  /\ main = "done" => main' = "done"

Pushes == \E i \in Ids : PushNew(i) \/ PushMessage(i) \/ PushLost(i)

LEMMA QuietStep ==
  ASSUME IInv, Next
  PROVE  Quiet \/ Pushes \/ TakeNow \/ TakeWakes \/ DestroyQueue
<1> SUFFICES ASSUME ~ Pushes, ~ TakeNow, ~ TakeWakes, ~ DestroyQueue PROVE Quiet
  OBVIOUS
<1> USE DEF Quiet, tableVars, netVars, hostVars
<1>1. CASE Terminated
  BY <1>1 DEF Terminated, vars, SameView, Announced, Reported, Pushed
<1>2. CASE main # "crashed" /\ (Start \/ Interrupt \/ Stop)
  BY <1>2 DEF Start, StartListening, StartListeningFails, StartSending, StartSendingFails,
     Interrupt, Stop, SetStop, MarkClientsToStop, JoinReceivers, JoinGarbage,
     SameView, Announced, Reported, Pushed
<1>3. CASE ListenerExits \/ AcceptFails \/ ListenerWakes \/ ListenerFails
  BY <1>3 DEF ListenerExits, AcceptFails, ListenerWakes, ListenerFails,
     SameView, Announced, Reported, Pushed
<1>4. CASE Accept
  <2>1. size \in Ids /\ receiver[size] = "none"
    BY <1>4, ReceiveAssumption DEF Accept, IInv, TypeOK, Entries, Ids
  <2>2. \A j \in Ids : \/ receiver'[j] = receiver[j]
                       \/ receiver[j] = "none" /\ receiver'[j] \in {"start", "nothread"}
    BY <1>4, <2>1 DEF Accept, IInv, TypeOK
  <2>3. UNCHANGED <<main, read, inbox, seen>>
    BY <1>4 DEF Accept
  <2> QED BY <2>2, <2>3 DEF SameView, Announced, Reported, Pushed
<1>5. CASE main # "crashed" /\ Taker
  BY <1>5 DEF Taker, TakeWaits, TakeTimesOut, TakerExits, SameView, Announced, Reported, Pushed
<1>6. ASSUME NEW i \in Ids, Receiver(i) \/ PollFails(i) \/ Peer(i) \/ SignalClientToStop(i)
      PROVE Quiet
  <2>1. CASE Peer(i) \/ SignalClientToStop(i)
    BY <2>1 DEF Peer, PeerSend, PeerClose, SignalClientToStop,
       SameView, Announced, Reported, Pushed
  <2>2. CASE Loop(i) \/ Poll(i) \/ PollFails(i)
    <3>1. /\ UNCHANGED <<main, read, inbox, seen>>
          /\ receiver[i] \in {"loop", "poll"} /\ receiver'[i] \in {"loop", "poll", "lost", "size"}
          /\ \A j \in Ids \ {i} : receiver'[j] = receiver[j]
      BY <2>2 DEF Loop, Poll, PollFails, Goto, IInv, TypeOK
    <3> QED BY <3>1 DEF SameView, Announced, Reported, Pushed
  <2>3. CASE CloseSocket(i) \/ StopClient(i)
    <3>1. /\ UNCHANGED <<main, read, inbox, seen>>
          /\ receiver[i] \in {"close", "stop"} /\ receiver'[i] \in {"stop", "done"}
          /\ \A j \in Ids \ {i} : receiver'[j] = receiver[j]
      BY <2>3 DEF CloseSocket, StopClient, Goto, IInv, TypeOK
    <3> QED BY <3>1 DEF SameView, Announced, Reported, Pushed
  <2>4. CASE RecvSize(i) \/ RecvData(i)
    <3> DEFINE r == read[i]
    <3>1. /\ UNCHANGED <<main, inbox, seen>>
          /\ receiver[i] \in {"size", "data"}
          /\ \A j \in Ids \ {i} : receiver'[j] = receiver[j] /\ read'[j] = read[j]
          /\ \/ receiver'[i] = "lost" /\ read'[i] = r
             \/ receiver[i] = "size" /\ receiver'[i] = "data" /\ read'[i] = r + 1
             \/ receiver[i] = "data" /\ receiver'[i] = "push" /\ read'[i] = r + 1
      BY <2>4 DEF RecvSize, RecvData, Recv, Goto, IInv, TypeOK
    <3>2. /\ r \in Nat
          /\ receiver[i] = "size" => r % 2 = 0
          /\ receiver[i] = "data" => r % 2 = 1
      BY ReceiveAssumption DEF IInv, TypeOK, Halves
    <3>3. /\ r % 2 = 0 => (r + 1) \div 2 = r \div 2
          /\ r % 2 = 1 => (r + 1) \div 2 - 1 = r \div 2
      BY <3>2
    <3> HIDE DEF r
    <3>4. Pushed(i)' = Pushed(i)
      BY <3>1, <3>2, <3>3 DEF Pushed, r
    <3>5. Announced(i)' /\ Announced(i) /\ ~ Reported(i)' /\ ~ Reported(i)
      BY <3>1 DEF Announced, Reported
    <3>6. \A j \in Ids \ {i} : SameView(j)
      BY <3>1 DEF SameView, Announced, Reported, Pushed
    <3> QED BY <3>1, <3>4, <3>5, <3>6 DEF SameView
  <2> QED BY <1>6, <2>1, <2>2, <2>3, <2>4 DEF Receiver, Pushes
<1> QED BY <1>1, <1>2, <1>3, <1>4, <1>5, <1>6 DEF Next, Listener

(* The three pushes: which client's view they change, and how.              *)
LEMMA PushNewView ==
  ASSUME IInv, Hist, NEW i \in Ids, PushNew(i)
  PROVE  /\ UNCHANGED <<main, seen>>
         /\ inbox' = Append(inbox, New(i))
         /\ \A j \in Ids \ {i} : SameView(j)
         /\ ~ Announced(i) /\ Announced(i)' /\ ~ Reported(i) /\ ~ Reported(i)'
         /\ Pushed(i) = 0 /\ Pushed(i)' = 0 /\ ~ seen[i].new /\ ~ seen[i].lost
<1>1. /\ receiver[i] = "start" /\ receiver'[i] = "loop"
      /\ \A j \in Ids \ {i} : receiver'[j] = receiver[j]
      /\ UNCHANGED <<main, read, seen>>
      /\ inbox' = Append(inbox, New(i))
  BY DEF PushNew, Goto, IInv, TypeOK, netVars, hostVars
<1>2. read[i] = 0 /\ ~ seen[i].new /\ ~ seen[i].lost
  BY <1>1 DEF Hist, Announced, Reported
<1> QED BY <1>1, <1>2 DEF SameView, Announced, Reported, Pushed

LEMMA PushMessageView ==
  ASSUME IInv, Hist, NEW i \in Ids, PushMessage(i)
  PROVE  /\ UNCHANGED <<main, seen>>
         /\ inbox' = Append(inbox, Frame(i, Pushed(i) + 1))
         /\ \A j \in Ids \ {i} : SameView(j)
         /\ Announced(i) /\ Announced(i)' /\ ~ Reported(i) /\ ~ Reported(i)'
         /\ Pushed(i)' = Pushed(i) + 1 /\ Pushed(i) + 1 \in 1 .. MaxFrames
<1>1. /\ receiver[i] = "push" /\ receiver'[i] = "loop"
      /\ \A j \in Ids \ {i} : receiver'[j] = receiver[j]
      /\ UNCHANGED <<main, read, seen>>
      /\ inbox' = Append(inbox, Frame(i, read[i] \div 2))
  BY DEF PushMessage, Goto, IInv, TypeOK, netVars
<1>2. read[i] \div 2 \in 1 .. MaxFrames
  BY <1>1, FramePushed DEF IInv
<1>3. Pushed(i) = read[i] \div 2 - 1 /\ Pushed(i) + 1 = read[i] \div 2 /\ Pushed(i)' = read[i] \div 2
  BY <1>1, <1>2 DEF Pushed
<1> QED BY <1>1, <1>2, <1>3 DEF SameView, Announced, Reported, Pushed

LEMMA PushLostView ==
  ASSUME IInv, Hist, NEW i \in Ids, PushLost(i)
  PROVE  /\ UNCHANGED <<main, seen>>
         /\ inbox' = <<Lost(i)>> \o inbox
         /\ \A j \in Ids \ {i} : SameView(j)
         /\ Announced(i) /\ Announced(i)' /\ ~ Reported(i) /\ Reported(i)'
         /\ Pushed(i)' = Pushed(i) /\ ~ seen[i].lost
<1>1. /\ receiver[i] = "lost" /\ receiver'[i] = "close"
      /\ \A j \in Ids \ {i} : receiver'[j] = receiver[j]
      /\ UNCHANGED <<main, read, seen>>
      /\ inbox' = <<Lost(i)>> \o inbox
  BY DEF PushLost, Goto, IInv, TypeOK, netVars, hostVars
<1> QED BY <1>1 DEF SameView, Announced, Reported, Pushed, Hist

(* The queue stays exact when a receiving thread pushes.                    *)
LEMMA PushExact ==
  ASSUME SInv, Pushes, main # "done"
  PROVE  InboxExact'
<1> USE DEF SInv
<1>1. PICK i \in Ids : PushNew(i) \/ PushMessage(i) \/ PushLost(i)
  BY DEF Pushes
<1>2. /\ \A e \in Events : e \in Elements(inbox) <=> Waits(e)
      /\ Elements(inbox) \subseteq Events
      /\ InOrder(inbox)
      /\ inbox \in Seq(Events)
  BY ExactQueue DEF IInv, TypeOK
<1>3. \A e \in Events : (\A j \in Ids \ {i} : SameView(j)) /\ seen' = seen /\ e.id # i
                          => (Waits(e)' <=> Waits(e))
  BY EventKinds DEF Waits, SameView
<1>4. SUFFICES /\ \A e \in Events : e \in Elements(inbox') <=> Waits(e)'
               /\ Elements(inbox') \subseteq Events
               /\ InOrder(inbox')
  BY DEF InboxExact, PendingEvents, Waits
<1>5. CASE PushNew(i)
  <2> DEFINE c == New(i)
  <2>1. /\ c \in Events /\ c.id = i /\ c.type = "NEW_CONNECTION"
        /\ \A e \in Events : e.id = i /\ e.type = "NEW_CONNECTION" => e = c
    BY EventsTyped, EventKinds DEF New
  <2> HIDE DEF c
  <2>2. \A e \in Events : e.id = i => ~ Waits(e)
    BY <1>5, PushNewView, EventKinds DEF Waits, Hist, IInv, TypeOK
  <2>3. \A e \in Events : e.id = i => (Waits(e)' <=> e = c)
    <3>1. Waits(c)'
      BY <1>5, <2>1, PushNewView DEF Waits
    <3>2. seen[i].msgs \in Nat
      BY Counters
    <3>3. ASSUME NEW e \in Events, e.id = i, Waits(e)' PROVE e = c
      BY <1>5, <2>1, <3>2, <3>3, PushNewView, EventKinds DEF Waits
    <3> QED BY <3>1, <3>3
  <2>4. /\ Elements(inbox') = Elements(inbox) \cup {c}
        /\ InOrder(inbox')
    BY <1>2, <1>5, <2>1, <2>2, PushNewView, AppendElements DEF c
  <2> QED BY <1>2, <1>3, <1>5, <2>1, <2>2, <2>3, <2>4, PushNewView
<1>6. CASE PushMessage(i)
  <2> DEFINE f == Frame(i, Pushed(i) + 1)
  <2>1. f \in Events /\ f.id = i /\ Rank(f) = Pushed(i) + 1 /\ f.type = "MESSAGE"
    BY <1>6, PushMessageView, EventsTyped DEF Frame, Rank
  <2>2. \A e \in Events : e.id = i => (Waits(e)' <=> Waits(e) \/ e = f)
    <3>1. seen[i].msgs <= Pushed(i) /\ seen[i].msgs \in Nat /\ Pushed(i) \in Nat
      BY Counters, ReceiveAssumption DEF Hist
    <3>2. \A e \in Events : e = f => Waits(e)'
      BY <1>6, <2>1, <3>1, PushMessageView DEF Waits, Frame
    <3>3. \A e \in Events : e.id = i /\ Waits(e) => Waits(e)'
      BY <1>6, <3>1, PushMessageView, EventKinds DEF Waits
    <3>4. \A e \in Events : e.id = i /\ Waits(e)' => Waits(e) \/ e = f
      BY <1>6, <3>1, PushMessageView, EventKinds DEF Waits
    <3> QED BY <3>2, <3>3, <3>4
  <2>3. \A e \in Elements(inbox) : e.id = f.id => Rank(e) < Rank(f)
    BY <1>2, <2>1, Counters, EventKinds DEF Waits
  <2>4. inbox' = Append(inbox, f)
    BY <1>6, PushMessageView
  <2> HIDE DEF f
  <2>5. /\ Elements(inbox') = Elements(inbox) \cup {f}
        /\ InOrder(inbox')
    BY <1>2, <2>1, <2>3, <2>4, AppendElements
  <2> QED BY <1>2, <1>3, <1>6, <2>1, <2>2, <2>5, PushMessageView
<1>7. CASE PushLost(i)
  <2> DEFINE l == Lost(i)
  <2>1. /\ l \in Events /\ l.id = i /\ l.type = "LOST_CONNECTION" /\ Rank(l) = -1
        /\ \A e \in Events : e.id = i /\ e.type = "LOST_CONNECTION" => e = l
    BY EventsTyped, EventKinds DEF Lost, Rank
  <2>4. inbox' = <<l>> \o inbox
    BY <1>7, PushLostView
  <2> HIDE DEF l
  <2>2. \A e \in Events : e.id = i => (Waits(e)' <=> Waits(e) \/ e = l)
    <3>1. Waits(l)'
      BY <1>7, <2>1, PushLostView DEF Waits
    <3>2. \A e \in Events : e.id = i /\ Waits(e) => Waits(e)'
      BY <1>7, PushLostView, EventKinds DEF Waits
    <3>3. \A e \in Events : e.id = i /\ Waits(e)' => Waits(e) \/ e = l
      BY <1>7, <2>1, PushLostView, EventKinds DEF Waits
    <3> QED BY <3>1, <3>2, <3>3
  <2>3. ASSUME NEW e \in Elements(inbox), e.id = l.id PROVE Rank(l) < Rank(e)
    <3>1. e \in Events /\ Waits(e) /\ e.id = i /\ ~ Reported(i)
      BY <1>2, <1>7, <2>1, <2>3, PushLostView
    <3>2. Rank(e) = 0 \/ Rank(e) \in 1 .. MaxFrames
      BY <3>1, EventKinds DEF Waits
    <3> QED BY <2>1, <3>2
  <2>5. /\ Elements(inbox') = Elements(inbox) \cup {l}
        /\ InOrder(inbox')
    BY <1>2, <2>1, <2>3, <2>4, FrontElements
  <2> QED BY <1>2, <1>3, <1>7, <2>1, <2>2, <2>5, PushLostView
<1> QED BY <1>1, <1>5, <1>6, <1>7

(* Taking the head of an exact queue: which event it can be.                *)
TakesNew(i) ==
  /\ ~ seen[i].new /\ Announced(i)
  /\ Head(inbox) = New(i)
  /\ seen' = [seen EXCEPT ![i] = [@ EXCEPT !.new = TRUE]]

TakesLoss(i) ==
  /\ ~ seen[i].lost /\ Reported(i)
  /\ Head(inbox) = Lost(i)
  /\ seen' = [seen EXCEPT ![i] = [@ EXCEPT !.lost = TRUE]]

TakesFrame(i) ==
  /\ seen[i].new /\ seen[i].msgs + 1 <= Pushed(i)
  /\ Head(inbox) = Frame(i, seen[i].msgs + 1)
  /\ seen' = [seen EXCEPT ![i] = [@ EXCEPT !.msgs = seen[i].msgs + 1]]

LEMMA PoppedHead ==
  ASSUME SInv, main # "done", inbox # <<>>, Popped
  PROVE  \E i \in Ids : TakesNew(i) \/ TakesLoss(i) \/ TakesFrame(i)
<1> DEFINE h == Head(inbox)
<1> USE DEF SInv
<1>1. /\ \A e \in Events : e \in Elements(inbox) <=> Waits(e)
      /\ Elements(inbox) \subseteq Events
      /\ InOrder(inbox)
      /\ inbox \in Seq(Events)
  BY ExactQueue DEF IInv, TypeOK
<1>2. /\ h \in Elements(inbox)
      /\ \A d \in Elements(inbox) : d.id = h.id => d = h \/ Rank(h) < Rank(d)
  BY <1>1, TailElements
<1>3. seen' = [seen EXCEPT ![h.id] =
                CASE h.type = "NEW_CONNECTION"  -> [seen[h.id] EXCEPT !.new = TRUE]
                  [] h.type = "LOST_CONNECTION" -> [seen[h.id] EXCEPT !.lost = TRUE]
                  [] OTHER                      -> [seen[h.id] EXCEPT !.msgs = h.n]]
  BY DEF Popped
<1> HIDE DEF h
<1>4. h \in Events /\ Waits(h) /\ h.id \in Ids
  BY <1>1, <1>2, EventKinds
<1> DEFINE i == h.id
<1>5. CASE h.type = "NEW_CONNECTION"
  <2>1. TakesNew(i)
    BY <1>3, <1>4, <1>5, EventKinds DEF TakesNew, Waits, h
  <2> QED BY <1>4, <2>1
<1>6. CASE h.type = "LOST_CONNECTION"
  <2>1. TakesLoss(i)
    BY <1>3, <1>4, <1>6, EventKinds DEF TakesLoss, Waits, h
  <2> QED BY <1>4, <2>1
<1>7. CASE h.type = "MESSAGE"
  <2> DEFINE m == seen[i].msgs
  <2>1. /\ h = Frame(i, h.n) /\ Rank(h) = h.n /\ h.n \in 1 .. MaxFrames
        /\ m < h.n /\ h.n <= Pushed(i) /\ m \in 0 .. MaxFrames /\ Pushed(i) \in 0 .. MaxFrames
    BY <1>4, <1>7, EventKinds, Counters DEF Waits
  <2>2. h.n = m + 1
    <3> DEFINE g == Frame(i, m + 1)
    <3>1. /\ m + 1 \in 1 .. MaxFrames /\ m + 1 <= Pushed(i)
          /\ g \in Events /\ g.id = i /\ g.type = "MESSAGE" /\ g.n = m + 1 /\ Rank(g) = m + 1
      BY <1>4, <2>1, EventsTyped, ReceiveAssumption DEF Frame, Rank
    <3> HIDE DEF g
    <3>2. Waits(g)
      BY <2>1, <3>1 DEF Waits
    <3>3. g = h \/ Rank(h) < Rank(g)
      BY <1>1, <1>2, <3>1, <3>2
    <3> QED BY <2>1, <3>1, <3>3
  <2>3. seen[i].new
    <3> SUFFICES ASSUME ~ seen[i].new PROVE FALSE
      BY <1>4 DEF IInv, TypeOK
    <3>1. Announced(i)
      <4>1. ~ Announced(i) => Pushed(i) <= 0
        BY <1>4 DEF Hist, Announced, Pushed
      <4> QED BY <2>1, <4>1
    <3> DEFINE c == New(i)
    <3>2. c \in Events /\ c.id = i /\ c.type = "NEW_CONNECTION" /\ Rank(c) = 0
      BY <1>4, EventsTyped DEF New, Rank
    <3> HIDE DEF c
    <3>3. c \in Elements(inbox)
      BY <1>1, <3>1, <3>2 DEF Waits
    <3> QED BY <1>2, <1>7, <2>1, <3>2, <3>3
  <2>4. seen' = [seen EXCEPT ![i] = [@ EXCEPT !.msgs = seen[i].msgs + 1]]
    BY <1>3, <1>7, <2>2
  <2>5. TakesFrame(i)
    BY <2>1, <2>2, <2>3, <2>4 DEF TakesFrame, h
  <2> QED BY <1>4, <2>5
<1> QED BY <1>4, <1>5, <1>6, <1>7, EventKinds

(* The queue stays exact when take() removes its head.                      *)
LEMMA PopExact ==
  ASSUME SInv, main # "done", inbox # <<>>, Popped, \A j \in Ids : SameView(j)
  PROVE  InboxExact'
<1> DEFINE h == Head(inbox)
<1> USE DEF SInv
<1>1. /\ \A e \in Events : e \in Elements(inbox) <=> Waits(e)
      /\ Elements(inbox) \subseteq Events
      /\ InOrder(inbox)
      /\ inbox \in Seq(Events)
      /\ inbox' = Tail(inbox)
  BY ExactQueue DEF IInv, TypeOK, Popped
<1>2. /\ h \in Elements(inbox)
      /\ Elements(inbox) = Elements(inbox') \cup {h}
      /\ InOrder(inbox')
      /\ \A d \in Elements(inbox') : d.id = h.id => Rank(h) < Rank(d)
  BY <1>1, TailElements
<1>3. h \in Events /\ Rank(h) \in Int
  BY <1>1, <1>2, EventKinds
<1>4. Elements(inbox') = Elements(inbox) \ {h}
  BY <1>2, <1>3
<1>5. PICK i \in Ids : TakesNew(i) \/ TakesLoss(i) \/ TakesFrame(i)
  BY PoppedHead
<1>6. SUFFICES \A e \in Events : Waits(e)' <=> Waits(e) /\ e # h
  BY <1>1, <1>2, <1>4 DEF InboxExact, PendingEvents, Waits
<1> HIDE DEF h
<1>7. \A e \in Events : e.id # i => (Waits(e)' <=> Waits(e))
  BY <1>5, EventKinds DEF TakesNew, TakesLoss, TakesFrame, Waits, SameView, IInv, TypeOK
<1>8. h.id = i
  BY <1>5 DEF h, TakesNew, TakesLoss, TakesFrame, New, Lost, Frame
<1>9. CASE TakesNew(i)
  <2>1. /\ h.type = "NEW_CONNECTION" /\ ~ seen[i].new /\ seen'[i].new
        /\ seen'[i].lost = seen[i].lost /\ seen'[i].msgs = seen[i].msgs
        /\ \A e \in Events : e.id = i /\ e.type = "NEW_CONNECTION" => e = h
    BY <1>9, EventKinds DEF TakesNew, h, New, IInv, TypeOK
  <2>2. \A e \in Events : e.id = i => (Waits(e)' <=> Waits(e) /\ e # h)
    BY <2>1, EventKinds DEF Waits, SameView
  <2> QED BY <1>7, <1>8, <2>2
<1>10. CASE TakesLoss(i)
  <2>1. /\ h.type = "LOST_CONNECTION" /\ ~ seen[i].lost /\ seen'[i].lost
        /\ seen'[i].new = seen[i].new /\ seen'[i].msgs = seen[i].msgs
        /\ \A e \in Events : e.id = i /\ e.type = "LOST_CONNECTION" => e = h
    BY <1>10, EventKinds DEF TakesLoss, h, Lost, IInv, TypeOK
  <2>2. \A e \in Events : e.id = i => (Waits(e)' <=> Waits(e) /\ e # h)
    BY <2>1, EventKinds DEF Waits, SameView
  <2> QED BY <1>7, <1>8, <2>2
<1>11. CASE TakesFrame(i)
  <2> DEFINE m == seen[i].msgs
  <2>1. /\ h = Frame(i, m + 1) /\ m \in Nat
        /\ seen' = [seen EXCEPT ![i] = [@ EXCEPT !.msgs = m + 1]]
    BY <1>11, Counters DEF TakesFrame, h
  <2>2. /\ seen'[i].new = seen[i].new /\ seen'[i].lost = seen[i].lost
        /\ seen'[i].msgs = m + 1
    BY <2>1 DEF IInv, TypeOK
  <2>3. h.type = "MESSAGE" /\ h.n = m + 1
    BY <2>1 DEF Frame
  <2>4. \A e \in Events : e.id = i /\ e.type = "MESSAGE" /\ e.n = m + 1 => e = h
    BY <2>1, EventKinds
  <2>5. \A e \in Events : e.id = i => (Waits(e)' <=> Waits(e) /\ e # h)
    BY <2>1, <2>2, <2>3, <2>4, EventKinds DEF Waits, SameView
  <2> QED BY <1>7, <1>8, <2>5
<1> QED BY <1>5, <1>9, <1>10, <1>11

(* A take() removes the head of a queue that is not empty.                  *)
LEMMA TakeView ==
  ASSUME IInv, TakeNow \/ TakeWakes
  PROVE  /\ Popped /\ inbox # <<>> /\ main # "done"
         /\ UNCHANGED main
         /\ \A j \in Ids : SameView(j)
BY DEF TakeNow, TakeWakes, IInv, SignalSound, Stages, netVars, tableVars,
   SameView, Announced, Reported, Pushed

(* The history stays behind what was pushed.                                *)
LEMMA HistStep ==
  ASSUME SInv, Next
  PROVE  Hist'
<1> USE DEF SInv
<1>0. \A i \in Ids : seen[i].msgs \in Nat /\ Pushed(i) \in Nat
  BY Counters
<1>1. CASE Quiet
  BY <1>1 DEF Quiet, SameView, Hist
<1>2. CASE Pushes
  <2>1. PICK i \in Ids : PushNew(i) \/ PushMessage(i) \/ PushLost(i)
    BY <1>2 DEF Pushes
  <2>2. CASE PushNew(i)
    BY <1>0, <2>2, PushNewView DEF Hist, SameView
  <2>3. CASE PushMessage(i)
    BY <1>0, <2>3, PushMessageView DEF Hist, SameView
  <2>4. CASE PushLost(i)
    BY <1>0, <2>4, PushLostView DEF Hist, SameView
  <2> QED BY <2>1, <2>2, <2>3, <2>4
<1>3. CASE TakeNow \/ TakeWakes
  <2>1. /\ \A j \in Ids : SameView(j)
        /\ \E i \in Ids : TakesNew(i) \/ TakesLoss(i) \/ TakesFrame(i)
    BY <1>3, TakeView, PoppedHead
  <2>2. PICK i \in Ids : TakesNew(i) \/ TakesLoss(i) \/ TakesFrame(i)
    BY <2>1
  <2>3. \A j \in Ids \ {i} : seen'[j] = seen[j]
    BY <2>2 DEF TakesNew, TakesLoss, TakesFrame, IInv, TypeOK
  <2>4. /\ seen'[i].new => Announced(i)
        /\ seen'[i].lost => Reported(i)
        /\ seen'[i].msgs <= Pushed(i)
    <3>1. seen \in [Ids -> [new : BOOLEAN, msgs : 0 .. MaxFrames, lost : BOOLEAN]]
      BY DEF IInv, TypeOK
    <3>2. CASE TakesNew(i)
      <4>1. seen'[i].new = TRUE /\ seen'[i].lost = seen[i].lost /\ seen'[i].msgs = seen[i].msgs
        BY <3>1, <3>2 DEF TakesNew
      <4> QED BY <3>2, <4>1 DEF TakesNew, Hist
    <3>3. CASE TakesLoss(i)
      <4>1. seen'[i].lost = TRUE /\ seen'[i].new = seen[i].new /\ seen'[i].msgs = seen[i].msgs
        BY <3>1, <3>3 DEF TakesLoss
      <4> QED BY <3>3, <4>1 DEF TakesLoss, Hist
    <3>4. CASE TakesFrame(i)
      <4>1. seen'[i].lost = seen[i].lost /\ seen'[i].new = seen[i].new /\ seen'[i].msgs = seen[i].msgs + 1
        BY <3>1, <3>4 DEF TakesFrame
      <4> QED BY <3>4, <4>1 DEF TakesFrame, Hist
    <3> QED BY <2>2, <3>2, <3>3, <3>4
  <2> QED BY <2>1, <2>3, <2>4 DEF Hist, SameView
<1>4. CASE DestroyQueue
  BY <1>4 DEF DestroyQueue, netVars, hostVars, Hist, Announced, Reported, Pushed
<1> QED BY <1>1, <1>2, <1>3, <1>4, QuietStep

(* The invariant of the exact queue is inductive.                           *)
LEMMA StreamInit == Init => SInv
<1> SUFFICES ASSUME Init PROVE SInv
  OBVIOUS
<1>1. IInv
  BY InitInv
<1>2. Hist
  BY DEF Init, Hist, Announced, Reported, Pushed
<1>3. PendingEvents = {}
  BY EventKinds DEF Init, PendingEvents, Announced, Reported, Pushed
<1>4. inbox = <<>> /\ DOMAIN inbox = {}
  BY DEF Init
<1>5. InboxExact
  BY <1>3, <1>4 DEF InboxExact, Elements, InOrder
<1> QED BY <1>1, <1>2, <1>5 DEF SInv

LEMMA StreamStep == SInv /\ [Next]_vars => SInv'
<1> SUFFICES ASSUME SInv, [Next]_vars PROVE SInv'
  OBVIOUS
<1>1. CASE UNCHANGED vars
  BY <1>1 DEF vars, SInv, IInv, TypeOK, Halves, Entries, Stages, SignalSound, Hist,
     InboxExact, PendingEvents, Announced, Reported, Pushed
<1>2. CASE Next
  <2>1. IInv' /\ Hist'
    BY <1>2, NextInv, HistStep DEF SInv
  <2>2. InboxExact'
    <3>1. CASE Quiet
      BY <3>1, EventKinds DEF Quiet, SameView, SInv, InboxExact, PendingEvents
    <3>2. CASE Pushes /\ main # "done"
      BY <3>2, PushExact
    <3>3. CASE Pushes /\ main = "done"
      <4>1. main' = "done"
        BY <3>3, PushNewView, PushMessageView, PushLostView DEF Pushes, SInv
      <4> QED BY <4>1 DEF InboxExact
    <3>4. CASE TakeNow \/ TakeWakes
      BY <3>4, TakeView, PopExact DEF SInv
    <3>5. CASE DestroyQueue
      BY <3>5 DEF DestroyQueue, InboxExact
    <3> QED BY <1>2, <3>1, <3>2, <3>3, <3>4, <3>5, QuietStep DEF SInv
  <2> QED BY <2>1, <2>2 DEF SInv
<1> QED BY <1>1, <1>2

(* The queue holds exactly what was pushed and not yet taken, a client's    *)
(* loss first and its frames in the order they were sent.                   *)
THEOREM QueueExact == Spec => []InboxExact
<1>1. SInv => InboxExact
  BY DEF SInv
<1> QED BY <1>1, StreamInit, StreamStep, PTL DEF Spec

(* The variables of EventStream, as ReceivePath maps them.                  *)
NewOf(i)  == IF seen[i].new THEN "taken" ELSE IF Announced(i) THEN "pending" ELSE "no"
LostOf(i) == IF seen[i].lost THEN "taken" ELSE IF Reported(i) THEN "pending" ELSE "no"

LEMMA MappedInit == Init => Stream!Init
<1> SUFFICES ASSUME Init PROVE Stream!Init
  OBVIOUS
<1>1. \A i \in Ids : /\ ~ seen[i].new /\ ~ Announced(i) /\ ~ seen[i].lost /\ ~ Reported(i)
                     /\ Pushed(i) = 0 /\ seen[i].msgs = 0
  BY DEF Init, Announced, Reported, Pushed
<1> QED BY <1>1 DEF Stream!Init, Stream!Clients, Ids

(* Every step of ReceivePath is a step of EventStream, or a stutter.        *)
LEMMA MappedStep == SInv /\ [Next]_vars => [Stream!Next]_(Stream!streamVars)
<1> SUFFICES ASSUME SInv, [Next]_vars PROVE Stream!Next \/ UNCHANGED Stream!streamVars
  OBVIOUS
<1> DEFINE Same(j) == /\ NewOf(j)' = NewOf(j) /\ LostOf(j)' = LostOf(j)
                      /\ Pushed(j)' = Pushed(j) /\ seen'[j].msgs = seen[j].msgs
<1> USE DEF SInv
<1>1. ASSUME \A j \in Ids : Same(j) PROVE UNCHANGED Stream!streamVars
  BY <1>1 DEF Stream!streamVars, NewOf, LostOf
<1>2. CASE UNCHANGED vars
  BY <1>1, <1>2 DEF vars, NewOf, LostOf, Announced, Reported, Pushed
<1>3. CASE Quiet
  BY <1>1, <1>3 DEF Quiet, SameView, NewOf, LostOf
<1>4. CASE DestroyQueue
  BY <1>1, <1>4 DEF DestroyQueue, netVars, hostVars, NewOf, LostOf, Announced, Reported, Pushed
<1>5. ASSUME NEW i \in Ids, PushNew(i) PROVE Stream!Announce(i)
  <2>1. /\ NewOf(i) = "no" /\ NewOf(i)' = "pending" /\ LostOf(i)' = LostOf(i)
        /\ Pushed(i)' = Pushed(i) /\ seen' = seen
        /\ \A j \in Ids \ {i} : Same(j)
    BY <1>5, PushNewView DEF SameView, NewOf, LostOf
  <2> QED BY <2>1 DEF Stream!Announce, NewOf, LostOf
<1>6. ASSUME NEW i \in Ids, PushMessage(i) PROVE Stream!PushFrame(i)
  <2>1. /\ NewOf(i) # "no" /\ NewOf(i)' = NewOf(i) /\ LostOf(i) = "no" /\ LostOf(i)' = "no"
        /\ Pushed(i) < MaxFrames /\ Pushed(i)' = Pushed(i) + 1 /\ seen' = seen
        /\ \A j \in Ids \ {i} : Same(j)
    <3>1. /\ Announced(i) /\ Announced(i)' /\ ~ Reported(i) /\ ~ Reported(i)' /\ seen' = seen
          /\ \A j \in Ids \ {i} : SameView(j)
      BY <1>6, PushMessageView
    <3>2. Pushed(i) \in Nat /\ Pushed(i) + 1 \in 1 .. MaxFrames /\ Pushed(i)' = Pushed(i) + 1
      BY <1>6, PushMessageView, Counters
    <3>3. Pushed(i) < MaxFrames
      BY <3>2, ReceiveAssumption
    <3>4. ~ seen[i].lost
      BY <3>1 DEF Hist
    <3> QED BY <3>1, <3>2, <3>3, <3>4 DEF SameView, NewOf, LostOf
  <2> QED BY <2>1 DEF Stream!PushFrame, NewOf, LostOf
<1>7. ASSUME NEW i \in Ids, PushLost(i) PROVE Stream!ReportLoss(i)
  <2>1. /\ NewOf(i) # "no" /\ NewOf(i)' = NewOf(i) /\ LostOf(i) = "no" /\ LostOf(i)' = "pending"
        /\ Pushed(i)' = Pushed(i) /\ seen' = seen
        /\ \A j \in Ids \ {i} : Same(j)
    BY <1>7, PushLostView DEF SameView, NewOf, LostOf
  <2> QED BY <2>1 DEF Stream!ReportLoss, NewOf, LostOf
<1>8. ASSUME TakeNow \/ TakeWakes PROVE Stream!Next
  <2>1. \A j \in Ids : SameView(j)
    BY <1>8, TakeView
  <2>2. PICK i \in Ids : TakesNew(i) \/ TakesLoss(i) \/ TakesFrame(i)
    BY <1>8, TakeView, PoppedHead
  <2>3. seen \in [Ids -> [new : BOOLEAN, msgs : 0 .. MaxFrames, lost : BOOLEAN]]
    BY DEF IInv, TypeOK
  <2>4. \A j \in Ids \ {i} : Same(j)
    <3>1. \A j \in Ids \ {i} : seen'[j] = seen[j]
      BY <2>2, <2>3 DEF TakesNew, TakesLoss, TakesFrame
    <3> QED BY <2>1, <3>1 DEF SameView, NewOf, LostOf
  <2>5. CASE TakesNew(i)
    <3>1. seen'[i].new = TRUE /\ seen'[i].lost = seen[i].lost /\ seen'[i].msgs = seen[i].msgs
      BY <2>3, <2>5 DEF TakesNew
    <3>2. /\ NewOf(i) = "pending" /\ NewOf(i)' = "taken" /\ LostOf(i)' = LostOf(i)
          /\ Pushed(i)' = Pushed(i)
      BY <2>1, <2>5, <3>1 DEF TakesNew, SameView, NewOf, LostOf
    <3>3. Stream!TakeNew(i)
      BY <2>4, <3>1, <3>2 DEF Stream!TakeNew, NewOf, LostOf
    <3> QED BY <3>3 DEF Stream!Next, Stream!Clients, Ids
  <2>6. CASE TakesLoss(i)
    <3>1. seen'[i].lost = TRUE /\ seen'[i].new = seen[i].new /\ seen'[i].msgs = seen[i].msgs
      BY <2>3, <2>6 DEF TakesLoss
    <3>2. /\ LostOf(i) = "pending" /\ LostOf(i)' = "taken" /\ NewOf(i)' = NewOf(i)
          /\ Pushed(i)' = Pushed(i)
      BY <2>1, <2>6, <3>1 DEF TakesLoss, SameView, NewOf, LostOf
    <3>3. Stream!TakeLoss(i)
      BY <2>4, <3>1, <3>2 DEF Stream!TakeLoss, NewOf, LostOf
    <3> QED BY <3>3 DEF Stream!Next, Stream!Clients, Ids
  <2>7. CASE TakesFrame(i)
    <3>1. seen'[i].lost = seen[i].lost /\ seen'[i].new = seen[i].new /\ seen'[i].msgs = seen[i].msgs + 1
      BY <2>3, <2>7 DEF TakesFrame
    <3>2. /\ NewOf(i) = "taken" /\ NewOf(i)' = NewOf(i) /\ LostOf(i)' = LostOf(i)
          /\ Pushed(i)' = Pushed(i) /\ seen[i].msgs < Pushed(i)
      BY <2>1, <2>7, <3>1, Counters DEF TakesFrame, SameView, NewOf, LostOf
    <3>3. Stream!TakeFrame(i)
      BY <2>4, <3>1, <3>2 DEF Stream!TakeFrame, NewOf, LostOf
    <3> QED BY <3>3 DEF Stream!Next, Stream!Clients, Ids
  <2> QED BY <2>2, <2>5, <2>6, <2>7
<1>9. ASSUME Pushes PROVE Stream!Next
  BY <1>5, <1>6, <1>7, <1>9 DEF Pushes, Stream!Next, Stream!Clients, Ids
<1> QED BY <1>2, <1>3, <1>4, <1>8, <1>9, QuietStep

(* The receiving half implements the event stream, for any number of        *)
(* clients and frames.                                                      *)
THEOREM StreamImplemented == Spec => StreamSpec
<1>1. Spec => [](SInv)
  BY StreamInit, StreamStep, PTL DEF Spec
<1>2. Init => Stream!Init
  BY MappedInit
<1>3. SInv /\ [Next]_vars => [Stream!Next]_(Stream!streamVars)
  BY MappedStep
<1> QED BY <1>1, <1>2, <1>3, PTL DEF Spec, StreamSpec, Stream!Spec

-----------------------------------------------------------------------------
(* The host program: the threads above under the game.                      *)

(* What is in hand is what take() returned last of that client.             *)
InHand ==
  \/ hand = Empty
  \/ \E i \in Ids : \/ hand = New(i) /\ seen[i].new
                    \/ hand = Lost(i) /\ seen[i].lost
                    \/ hand = Frame(i, seen[i].msgs) /\ seen[i].new /\ seen[i].msgs > 0

HostInv == SInv /\ InHand

LEMMA Distinct ==
  ASSUME NEW i \in Ids, NEW j \in Ids, NEW m \in Int, NEW n \in Int
  PROVE  /\ Empty # New(i) /\ Empty # Lost(i) /\ Empty # Frame(i, m)
         /\ New(i) # Lost(j) /\ New(i) # Frame(j, m) /\ Lost(i) # Frame(j, m)
         /\ (New(i) = New(j) => i = j) /\ (Lost(i) = Lost(j) => i = j)
         /\ (Frame(i, m) = Frame(j, n) => i = j /\ m = n)
         /\ New(i).type = "NEW_CONNECTION" /\ New(i).id = i
         /\ Lost(i).type = "LOST_CONNECTION" /\ Lost(i).id = i
         /\ Frame(i, m).type = "MESSAGE" /\ Frame(i, m).id = i
         /\ Empty.type = "EMPTY"
BY DEF Empty, New, Lost, Frame

LEMMA HostInit == InitHost => HostInv
BY StreamInit DEF InitHost, HostInv, InHand

(* A step of the library leaves the event in hand what it is; the one that  *)
(* takes puts the head of the queue there.                                  *)
LEMMA TakenInHand ==
  ASSUME SInv, TakeEvent
  PROVE  /\ Next /\ main # "done" /\ \A j \in Ids : SameView(j)
         /\ \E i \in Ids : TakesNew(i) \/ TakesLoss(i) \/ TakesFrame(i)
<1>1. main # "crashed" /\ (TakeNow \/ TakeWakes)
  BY DEF TakeEvent
<1>2. Next
  BY <1>1 DEF Next, Taker
<1>3. IInv
  BY DEF SInv
<1>4. /\ Popped /\ inbox # <<>> /\ main # "done"
      /\ \A j \in Ids : SameView(j)
  BY <1>1, <1>3, TakeView
<1>5. \E i \in Ids : TakesNew(i) \/ TakesLoss(i) \/ TakesFrame(i)
  BY <1>4, PoppedHead
<1> QED BY <1>2, <1>4, <1>5

LEMMA HostStep ==
  ASSUME HostInv, [NextHost]_allVars
  PROVE  HostInv'
<1>1. SInv /\ InHand
  BY DEF HostInv
<1>2. seen \in [Ids -> [new : BOOLEAN, msgs : 0 .. MaxFrames, lost : BOOLEAN]]
  BY <1>1 DEF SInv, IInv, TypeOK
<1>3. CASE TakeEvent
  <2>1. SInv'
    BY <1>1, <1>3, TakenInHand, StreamStep
  <2>2. PICK i \in Ids : TakesNew(i) \/ TakesLoss(i) \/ TakesFrame(i)
    BY <1>1, <1>3, TakenInHand
  <2>3. hand' = Head(inbox)
    BY <1>3 DEF TakeEvent
  <2>4. CASE TakesNew(i)
    BY <1>2, <2>1, <2>3, <2>4 DEF TakesNew, HostInv, InHand
  <2>5. CASE TakesLoss(i)
    BY <1>2, <2>1, <2>3, <2>5 DEF TakesLoss, HostInv, InHand
  <2>6. CASE TakesFrame(i)
    <3>1. seen'[i].new /\ seen'[i].msgs = seen[i].msgs + 1 /\ seen[i].msgs \in Nat
      BY <1>2, <2>6 DEF TakesFrame
    <3>2. hand' = Frame(i, seen'[i].msgs)
      BY <2>3, <2>6, <3>1 DEF TakesFrame
    <3>3. InHand'
      BY <3>1, <3>2 DEF InHand, Frame
    <3> QED BY <2>1, <3>3 DEF HostInv
  <2> QED BY <2>2, <2>4, <2>5, <2>6
<1>4. CASE LibraryStep
  <2>1. SInv'
    BY <1>1, <1>4, StreamStep DEF LibraryStep
  <2>2. hand' = hand /\ seen' = seen
    BY <1>4 DEF LibraryStep
  <2> QED BY <1>1, <2>1, <2>2 DEF HostInv, InHand, Frame
<1>5. CASE HandleMessage
  <2>1. SInv'
    BY <1>1, <1>5, StreamStep DEF HandleMessage
  <2>2. hand' = Empty
    BY <1>5 DEF HandleMessage
  <2> QED BY <2>1, <2>2 DEF HostInv, InHand, Empty
<1>6. CASE UpdateStep \/ UNCHANGED allVars
  <2>1. UNCHANGED <<vars, hand>>
    BY <1>6 DEF UpdateStep, allVars
  <2>2. SInv'
    BY <1>1, <2>1, StreamStep
  <2>3. hand' = hand /\ seen' = seen
    BY <2>1 DEF vars
  <2> QED BY <1>1, <2>2, <2>3 DEF HostInv, InHand, Frame
<1> QED BY <1>3, <1>4, <1>5, <1>6 DEF NextHost

(* The variables of EventStream as GameHost maps them.                      *)
HostNew(i) ==
  IF seen[i].new /\ Handled(New(i)) THEN "taken" ELSE IF Announced(i) THEN "pending" ELSE "no"
HostLost(i) ==
  IF seen[i].lost /\ Handled(Lost(i)) THEN "taken" ELSE IF Reported(i) THEN "pending" ELSE "no"
HostGot(i) ==
  IF Handled(Frame(i, seen[i].msgs)) THEN seen[i].msgs ELSE seen[i].msgs - 1

Same(i) ==
  /\ HostNew(i)' = HostNew(i) /\ HostLost(i)' = HostLost(i)
  /\ Pushed(i)' = Pushed(i) /\ HostGot(i)' = HostGot(i)

LEMMA StreamUnchanged ==
  ASSUME \A i \in Ids : Same(i)
  PROVE  UNCHANGED Server!streamVars
BY DEF Server!streamVars, Same, HostNew, HostLost, HostGot

(* Taking an event is a stutter: it counts as taken when it is handled.     *)
LEMMA TakeStutters ==
  ASSUME HostInv, TakeEvent
  PROVE  UNCHANGED Server!vars
<1>1. SInv
  BY DEF HostInv
<1>2. seen \in [Ids -> [new : BOOLEAN, msgs : 0 .. MaxFrames, lost : BOOLEAN]]
  BY <1>1 DEF SInv, IInv, TypeOK
<1>3. /\ \A j \in Ids : SameView(j)
      /\ \E i \in Ids : TakesNew(i) \/ TakesLoss(i) \/ TakesFrame(i)
  BY <1>1, TakenInHand
<1>4. PICK i \in Ids : TakesNew(i) \/ TakesLoss(i) \/ TakesFrame(i)
  BY <1>3
<1>5. hand = Empty /\ hand' = Head(inbox) /\ UNCHANGED gameVars
  BY DEF TakeEvent
<1>6. \A j \in Ids : seen[j].msgs \in Int
  BY <1>2
<1>7. ASSUME NEW j \in Ids \ {i} PROVE Same(j)
  <2>1. seen'[j] = seen[j]
    BY <1>2, <1>4 DEF TakesNew, TakesLoss, TakesFrame
  <2>2. hand' = New(i) \/ hand' = Lost(i) \/ hand' = Frame(i, seen[i].msgs + 1)
    BY <1>4, <1>5 DEF TakesNew, TakesLoss, TakesFrame
  <2>3. /\ hand' # New(j) /\ hand' # Lost(j) /\ hand' # Frame(j, seen[j].msgs)
    BY <1>6, <2>2, Distinct
  <2>4. /\ hand # New(j) /\ hand # Lost(j) /\ hand # Frame(j, seen[j].msgs)
    BY <1>5, <1>6, Distinct
  <2> QED BY <1>3, <2>1, <2>3, <2>4 DEF Same, SameView, HostNew, HostLost, HostGot, Handled, Frame, New, Lost
<1>8. Same(i)
  <2>1. /\ hand # New(i) /\ hand # Lost(i) /\ hand # Frame(i, seen[i].msgs)
    BY <1>5, <1>6, Distinct
  <2>2. CASE TakesNew(i)
    <3>1. /\ seen'[i].new = TRUE /\ seen'[i].lost = seen[i].lost /\ seen'[i].msgs = seen[i].msgs
          /\ ~ seen[i].new /\ Announced(i) /\ hand' = New(i)
      BY <1>2, <1>5, <2>2 DEF TakesNew
    <3>2. hand' # Lost(i) /\ hand' # Frame(i, seen[i].msgs)
      BY <1>6, <3>1, Distinct
    <3> QED BY <1>3, <2>1, <3>1, <3>2 DEF Same, SameView, HostNew, HostLost, HostGot, Handled, Frame, New, Lost
  <2>3. CASE TakesLoss(i)
    <3>1. /\ seen'[i].lost = TRUE /\ seen'[i].new = seen[i].new /\ seen'[i].msgs = seen[i].msgs
          /\ ~ seen[i].lost /\ Reported(i) /\ hand' = Lost(i)
      BY <1>2, <1>5, <2>3 DEF TakesLoss
    <3>2. hand' # New(i) /\ hand' # Frame(i, seen[i].msgs)
      BY <1>6, <3>1, Distinct
    <3> QED BY <1>3, <2>1, <3>1, <3>2 DEF Same, SameView, HostNew, HostLost, HostGot, Handled, Frame, New, Lost
  <2>4. CASE TakesFrame(i)
    <3>1. /\ seen'[i].lost = seen[i].lost /\ seen'[i].new = seen[i].new
          /\ seen'[i].msgs = seen[i].msgs + 1
      BY <1>2, <2>4 DEF TakesFrame
    <3>2. hand' = Frame(i, seen'[i].msgs) /\ seen'[i].msgs \in Int /\ seen'[i].msgs - 1 = seen[i].msgs
      BY <1>5, <1>6, <2>4, <3>1 DEF TakesFrame
    <3>3. hand' # New(i) /\ hand' # Lost(i)
      BY <3>2, Distinct
    <3> QED BY <1>3, <2>1, <3>1, <3>2, <3>3 DEF Same, SameView, HostNew, HostLost, HostGot, Handled, Frame, New, Lost
  <2> QED BY <1>4, <2>2, <2>3, <2>4
<1>9. UNCHANGED Server!streamVars
  BY <1>7, <1>8, StreamUnchanged
<1> QED BY <1>5, <1>9 DEF Server!vars, Server!streamVars, gameVars

(* What the threads push, GameServer's library pushes.                      *)
LEMMA LibraryMapped ==
  ASSUME HostInv, LibraryStep
  PROVE  [Server!Next]_(Server!vars)
<1>1. SInv /\ IInv /\ Hist
  BY DEF HostInv, SInv
<1>2. Next /\ seen' = seen /\ hand' = hand /\ UNCHANGED gameVars
  BY DEF LibraryStep
<1>3. seen \in [Ids -> [new : BOOLEAN, msgs : 0 .. MaxFrames, lost : BOOLEAN]]
  BY <1>1 DEF IInv, TypeOK
<1>4. ASSUME NEW j \in Ids, SameView(j) PROVE Same(j)
  BY <1>2, <1>4 DEF Same, SameView, HostNew, HostLost, HostGot, Handled, Frame, New, Lost
<1>5. ASSUME \A j \in Ids : SameView(j) PROVE UNCHANGED Server!vars
  <2>1. UNCHANGED Server!streamVars
    BY <1>4, <1>5, StreamUnchanged
  <2> QED BY <1>2, <2>1 DEF Server!vars, Server!streamVars, gameVars
<1>6. ASSUME NEW i \in Ids, PushNew(i) PROVE Server!Library!Announce(i)
  <2>1. /\ ~ Announced(i) /\ Announced(i)' /\ ~ Reported(i) /\ ~ Reported(i)'
        /\ Pushed(i)' = Pushed(i) /\ ~ seen[i].new /\ ~ seen[i].lost
        /\ \A j \in Ids \ {i} : SameView(j)
    BY <1>1, <1>6, PushNewView
  <2>2. /\ HostNew(i) = "no" /\ HostNew(i)' = "pending" /\ HostLost(i)' = HostLost(i)
        /\ Pushed(i)' = Pushed(i) /\ HostGot(i)' = HostGot(i)
    BY <1>2, <2>1 DEF HostNew, HostLost, HostGot, Handled, Frame
  <2>3. \A j \in Ids \ {i} : Same(j)
    BY <1>4, <2>1
  <2> QED BY <2>2, <2>3 DEF Server!Library!Announce, Same, HostNew, HostLost, HostGot
<1>7. ASSUME NEW i \in Ids, PushMessage(i) PROVE Server!Library!PushFrame(i)
  <2>1. /\ Announced(i) /\ Announced(i)' /\ ~ Reported(i) /\ ~ Reported(i)'
        /\ Pushed(i)' = Pushed(i) + 1 /\ Pushed(i) + 1 \in 1 .. MaxFrames
        /\ \A j \in Ids \ {i} : SameView(j)
    BY <1>1, <1>7, PushMessageView
  <2>2. Pushed(i) < MaxFrames
    BY <1>1, <2>1, Counters, ReceiveAssumption
  <2>3. ~ seen[i].lost
    BY <1>1, <2>1 DEF Hist
  <2>4. /\ HostNew(i) # "no" /\ HostNew(i)' = HostNew(i)
        /\ HostLost(i) = "no" /\ HostLost(i)' = "no" /\ HostGot(i)' = HostGot(i)
    BY <1>2, <2>1, <2>3 DEF HostNew, HostLost, HostGot, Handled, New, Frame
  <2>5. \A j \in Ids \ {i} : Same(j)
    BY <1>4, <2>1
  <2> QED BY <2>1, <2>2, <2>4, <2>5 DEF Server!Library!PushFrame, Same, HostNew, HostLost, HostGot
<1>8. ASSUME NEW i \in Ids, PushLost(i) PROVE Server!Library!ReportLoss(i)
  <2>1. /\ Announced(i) /\ Announced(i)' /\ ~ Reported(i) /\ Reported(i)'
        /\ Pushed(i)' = Pushed(i) /\ ~ seen[i].lost
        /\ \A j \in Ids \ {i} : SameView(j)
    BY <1>1, <1>8, PushLostView
  <2>2. /\ HostNew(i) # "no" /\ HostNew(i)' = HostNew(i)
        /\ HostLost(i) = "no" /\ HostLost(i)' = "pending" /\ HostGot(i)' = HostGot(i)
    BY <1>2, <2>1 DEF HostNew, HostLost, HostGot, Handled, New, Frame
  <2>3. \A j \in Ids \ {i} : Same(j)
    BY <1>4, <2>1
  <2> QED BY <2>1, <2>2, <2>3 DEF Server!Library!ReportLoss, Same, HostNew, HostLost, HostGot
<1>9. CASE Quiet
  BY <1>5, <1>9 DEF Quiet
<1>10. CASE DestroyQueue
  <2>1. \A j \in Ids : SameView(j)
    BY <1>10 DEF DestroyQueue, netVars, SameView, Announced, Reported, Pushed
  <2> QED BY <1>5, <2>1
<1>11. CASE Pushes
  <2>1. PICK i \in Ids : PushNew(i) \/ PushMessage(i) \/ PushLost(i)
    BY <1>11 DEF Pushes
  <2>2. \/ Server!Library!Announce(i) \/ Server!Library!PushFrame(i) \/ Server!Library!ReportLoss(i)
    BY <1>6, <1>7, <1>8, <2>1
  <2>3. Server!LibraryStep
    BY <1>2, <2>2 DEF Server!LibraryStep, Server!PlayerIds, Server!gameVars, gameVars, Ids
  <2> QED BY <2>3 DEF Server!Next
<1>12. CASE TakeNow \/ TakeWakes
  <2>1. \E i \in Ids : TakesNew(i) \/ TakesLoss(i) \/ TakesFrame(i)
    BY <1>1, <1>12, TakeView, PoppedHead
  <2>2. PICK i \in Ids : TakesNew(i) \/ TakesLoss(i) \/ TakesFrame(i)
    BY <2>1
  <2>3. /\ TakesNew(i) => ~ seen[i].new /\ seen'[i].new
        /\ TakesLoss(i) => ~ seen[i].lost /\ seen'[i].lost
        /\ TakesFrame(i) => seen'[i].msgs = seen[i].msgs + 1 /\ seen[i].msgs \in Int
    BY <1>3 DEF TakesNew, TakesLoss, TakesFrame
  <2> QED BY <1>2, <2>2, <2>3
<1> QED BY <1>1, <1>2, <1>9, <1>10, <1>11, <1>12, QuietStep

(* Handling the event in hand is GameServer's taking it.                    *)
LEMMA HandleMapped ==
  ASSUME HostInv, HandleMessage
  PROVE  Server!Next
<1>1. SInv /\ Hist /\ InHand
  BY DEF HostInv, SInv
<1>2. seen \in [Ids -> [new : BOOLEAN, msgs : 0 .. MaxFrames, lost : BOOLEAN]]
  BY <1>1 DEF SInv, IInv, TypeOK
<1>3. \A j \in Ids : seen[j].msgs \in Int /\ Pushed(j) \in Int /\ seen[j].msgs <= Pushed(j)
  BY <1>1, <1>2, Counters DEF SInv, Hist
<1>4. hand' = Empty /\ seen' = seen /\ \A j \in Ids : SameView(j)
  BY DEF HandleMessage, vars, SameView, Announced, Reported, Pushed
<1>5. hand # Empty
  BY DEF HandleMessage, Empty
<1>6. PICK i \in Ids : \/ hand = New(i) /\ seen[i].new
                       \/ hand = Lost(i) /\ seen[i].lost
                       \/ hand = Frame(i, seen[i].msgs) /\ seen[i].new /\ seen[i].msgs > 0
  BY <1>1, <1>5 DEF InHand
<1>7. \A j \in Ids : /\ hand' # New(j) /\ hand' # Lost(j) /\ hand' # Frame(j, seen[j].msgs)
  BY <1>3, <1>4, Distinct
<1>8. ASSUME NEW j \in Ids \ {i} PROVE Same(j)
  <2>1. hand # New(j) /\ hand # Lost(j) /\ hand # Frame(j, seen[j].msgs)
    BY <1>3, <1>6, Distinct
  <2> QED BY <1>4, <1>7, <2>1 DEF Same, SameView, HostNew, HostLost, HostGot, Handled, Frame, New, Lost
<1>9. i \in Server!PlayerIds
  BY DEF Server!PlayerIds, Ids
<1>10. CASE hand = New(i) /\ seen[i].new
  <2>1. hand # Lost(i) /\ hand # Frame(i, seen[i].msgs) /\ hand.type = "NEW_CONNECTION" /\ hand.id = i
    BY <1>3, <1>10, Distinct
  <2>2. Announced(i)
    BY <1>1, <1>10 DEF Hist
  <2>3. /\ HostNew(i) = "pending" /\ HostNew(i)' = "taken" /\ HostLost(i)' = HostLost(i)
        /\ Pushed(i)' = Pushed(i) /\ HostGot(i)' = HostGot(i)
    BY <1>4, <1>7, <1>10, <2>1, <2>2 DEF SameView, HostNew, HostLost, HostGot, Handled, Frame, New, Lost
  <2>4. Server!Library!TakeNew(i)
    BY <1>8, <2>3 DEF Server!Library!TakeNew, Same, HostNew, HostLost, HostGot
  <2>5. Server!CreateNewPlayer(i) /\ Server!Late(i)
    BY <2>1 DEF HandleMessage
  <2> QED BY <1>9, <2>4, <2>5 DEF Server!Next, Server!NewConnection
<1>11. CASE hand = Lost(i) /\ seen[i].lost
  <2>1. hand # New(i) /\ hand # Frame(i, seen[i].msgs) /\ hand.type = "LOST_CONNECTION" /\ hand.id = i
    BY <1>3, <1>11, Distinct
  <2>2. Reported(i)
    BY <1>1, <1>11 DEF Hist
  <2>3. /\ HostLost(i) = "pending" /\ HostLost(i)' = "taken" /\ HostNew(i)' = HostNew(i)
        /\ Pushed(i)' = Pushed(i) /\ HostGot(i)' = HostGot(i)
    BY <1>4, <1>7, <1>11, <2>1, <2>2 DEF SameView, HostNew, HostLost, HostGot, Handled, Frame, New, Lost
  <2>4. Server!Library!TakeLoss(i)
    BY <1>8, <2>3 DEF Server!Library!TakeLoss, Same, HostNew, HostLost, HostGot
  <2>5. Server!DeletePlayer(i) /\ UNCHANGED late
    BY <2>1 DEF HandleMessage
  <2> QED BY <1>9, <2>4, <2>5 DEF Server!Next, Server!LostConnection
<1>12. CASE hand = Frame(i, seen[i].msgs) /\ seen[i].new /\ seen[i].msgs > 0
  <2>1. hand # New(i) /\ hand # Lost(i) /\ hand.type = "MESSAGE" /\ hand.id = i
    BY <1>3, <1>12, Distinct
  <2>2. /\ HostNew(i) = "taken" /\ HostNew(i)' = HostNew(i) /\ HostLost(i)' = HostLost(i)
        /\ Pushed(i)' = Pushed(i)
        /\ HostGot(i) = seen[i].msgs - 1 /\ HostGot(i)' = seen[i].msgs
    BY <1>4, <1>7, <1>12, <2>1 DEF SameView, HostNew, HostLost, HostGot, Handled, Frame, New, Lost
  <2>3. HostGot(i) < Pushed(i) /\ HostGot(i)' = HostGot(i) + 1
    BY <1>3, <2>2
  <2>4. Server!Library!TakeFrame(i)
    BY <1>8, <2>2, <2>3 DEF Server!Library!TakeFrame, Same, HostNew, HostLost, HostGot
  <2>5. Server!Command(i) /\ Server!Late(i)
    BY <2>1 DEF HandleMessage
  <2> QED BY <1>9, <2>4, <2>5 DEF Server!Next, Server!Message
<1> QED BY <1>6, <1>10, <1>11, <1>12

LEMMA UpdateMapped ==
  ASSUME HostInv, UpdateStep
  PROVE  Server!Next
<1>1. UNCHANGED <<vars, hand>> /\ Server!Update /\ Server!LateKill
  BY DEF UpdateStep
<1>2. \A j \in Ids : Same(j)
  BY <1>1 DEF vars, Same, HostNew, HostLost, HostGot, Handled, Announced, Reported, Pushed,
     New, Lost, Frame
<1>3. UNCHANGED Server!streamVars
  BY <1>2, StreamUnchanged
<1> QED BY <1>1, <1>3 DEF Server!UpdateStep, Server!Next

(* The program of threads and game does what GameServer does.               *)
THEOREM GameOnThreads == SpecHost => GameServerSpec
<1>1. InitHost => Server!Init
  <2> SUFFICES ASSUME InitHost PROVE Server!Init
    OBVIOUS
  <2>1. \A i \in Ids : /\ ~ seen[i].new /\ ~ Announced(i) /\ ~ seen[i].lost /\ ~ Reported(i)
                       /\ Pushed(i) = 0 /\ seen[i].msgs = 0 /\ Handled(Frame(i, 0))
    BY DEF InitHost, Init, Announced, Reported, Pushed, Handled, Empty, Frame
  <2>2. Server!Library!Init
    BY <2>1 DEF Server!Library!Init, Server!Library!Clients, Ids
  <2> QED BY <2>2 DEF InitHost, Server!Init
<1>2. HostInv /\ [NextHost]_allVars => HostInv'
  BY HostStep
<1>3. HostInv /\ [NextHost]_allVars => [Server!Next]_(Server!vars)
  <2> SUFFICES ASSUME HostInv, [NextHost]_allVars PROVE [Server!Next]_(Server!vars)
    OBVIOUS
  <2>1. CASE UNCHANGED allVars
    <3>1. \A j \in Ids : Same(j)
      BY <2>1 DEF allVars, vars, Same, HostNew, HostLost, HostGot, Handled, Announced, Reported,
         Pushed, New, Lost, Frame
    <3>2. UNCHANGED Server!streamVars
      BY <3>1, StreamUnchanged
    <3> QED BY <2>1, <3>2 DEF allVars, gameVars, Server!vars, Server!streamVars
  <2>2. CASE TakeEvent
    BY <2>2, TakeStutters
  <2>3. CASE LibraryStep
    BY <2>3, LibraryMapped
  <2>4. CASE HandleMessage
    BY <2>4, HandleMapped
  <2>5. CASE UpdateStep
    BY <2>5, UpdateMapped
  <2> QED BY <2>1, <2>2, <2>3, <2>4, <2>5 DEF NextHost
<1> QED BY <1>1, <1>2, <1>3, HostInit, PTL DEF SpecHost, GameServerSpec, Server!Spec
=============================================================================
