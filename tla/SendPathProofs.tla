--------------------------- MODULE SendPathProofs ---------------------------
(***************************************************************************)
(* Proofs about SendPath, for any number of clients and messages: the      *)
(* memory of the messages has one owner until it is freed, once.           *)
(***************************************************************************)
EXTENDS SendPath, FiniteSetTheorems, SequenceTheorems, TLAPS

(* The entries in use have a descriptor, the others no thread.              *)
Entries ==
  \A i \in Ids : /\ i < size => fd[i] \in Fds
                 /\ i >= size => receiver[i] = "none"

(* What the sending thread has at each of its program counters.             *)
Phases ==
  /\ hand # Null <=> sender \in {"copy", "size", "data"}
  /\ sender \notin {"size", "data"} => work = <<>>
  /\ sender = "data" => work # <<>>
  /\ sender = "pick" => queue # <<>> \/ slot # Null
  /\ sender \in {"drain", "done"} => main # "run"
  /\ sender = "done" => queue = <<>>

(* Messages are taken in the order of their numbers, which are never used   *)
(* twice: no two places hold the same one.                                  *)
Numbered ==
  /\ \A j \in DOMAIN queue :
       queue[j].kind = "one" /\ queue[j].n <= made.one /\ queue[j].to < size
  /\ \A j, k \in DOMAIN queue : j < k => queue[j].n < queue[k].n
  /\ slot # Null => slot.kind = "all" /\ slot.n <= made.all
  /\ hand.kind = "one" =>
       /\ hand.n <= made.one /\ hand.to < size
       /\ \A j \in DOMAIN queue : hand.n < queue[j].n
  /\ hand.kind = "all" =>
       /\ hand.n <= made.all
       /\ slot # Null => hand.n < slot.n

Owned == live = Queued \cup Kept \cup Held

SInv == TypeOK /\ Entries /\ Phases /\ Numbered /\ Owned

StatusSet == {"RUNNING", "STOP", "STOPPED"}
Part      == [part : {"size", "data"}, msg : Messages]
Copy      == [id : Ids, fd : Fds, status : StatusSet]

(* The two kinds of messages; the absent one is neither.                    *)
LEMMA MessageKinds ==
  /\ \A m \in Messages :
       \/ m.kind = "one" /\ m.n \in 1 .. MaxOne /\ m.to \in Ids /\ m = One(m.n, m.to)
       \/ m.kind = "all" /\ m.n \in 1 .. MaxAll /\ m = All(m.n)
  /\ \A i \in Ids, n \in 1 .. MaxOne : One(n, i) \in Messages
  /\ \A n \in 1 .. MaxAll : All(n) \in Messages
  /\ Null \notin Messages /\ Null.kind = "null"
<1>1. ASSUME NEW m \in Messages
      PROVE  \/ m.kind = "one" /\ m.n \in 1 .. MaxOne /\ m.to \in Ids /\ m = One(m.n, m.to)
             \/ m.kind = "all" /\ m.n \in 1 .. MaxAll /\ m = All(m.n)
  <2>1. CASE \E n \in 1 .. MaxOne, i \in Ids : m = One(n, i)
    BY <2>1 DEF One
  <2>2. CASE \E n \in 1 .. MaxAll : m = All(n)
    BY <2>2 DEF All
  <2> QED BY <2>1, <2>2 DEF Messages
<1>2. /\ \A i \in Ids, n \in 1 .. MaxOne : One(n, i) \in Messages
      /\ \A n \in 1 .. MaxAll : All(n) \in Messages
  BY DEF Messages
<1>3. Null.kind = "null"
  BY DEF Null
<1> QED BY <1>1, <1>2, <1>3

(* The last element, and the others, after an append.                       *)
LEMMA Appended ==
  ASSUME NEW S, NEW q \in Seq(S), NEW e \in S
  PROVE  /\ Append(q, e) \in Seq(S) /\ Append(q, e) # <<>>
         /\ DOMAIN q = 1 .. Len(q) /\ Len(q) \in Nat
         /\ DOMAIN Append(q, e) = 1 .. Len(q) + 1
         /\ \A j \in 1 .. Len(q) : Append(q, e)[j] = q[j]
         /\ Append(q, e)[Len(q) + 1] = e
OBVIOUS

(* The elements after the head was taken.                                   *)
LEMMA Beheaded ==
  ASSUME NEW S, NEW q \in Seq(S), q # <<>>
  PROVE  /\ Head(q) \in S /\ Tail(q) \in Seq(S)
         /\ Head(q) = q[1]
         /\ DOMAIN q = 1 .. Len(q) /\ Len(q) \in Nat /\ Len(q) >= 1
         /\ DOMAIN Tail(q) = 1 .. Len(q) - 1
         /\ \A j \in 1 .. Len(q) - 1 : Tail(q)[j] = q[j + 1]
BY HeadTailProperties, EmptySeq, LenProperties

LEMMA SendInit == Init => SInv
<1> SUFFICES ASSUME Init PROVE SInv
  OBVIOUS
<1> USE SendAssumption DEF Init, Ids, Fds
<1>1. TypeOK
  <2>1. queue \in Seq(Messages) /\ work \in Seq(Copy)
    BY EmptySeq
  <2>2. wire \in [Ids -> Seq(Part)]
    BY EmptySeq
  <2>3. main \in {"run", "join", "done"} /\ size \in 0 .. MaxClients
    OBVIOUS
  <2>6. stopped \in BOOLEAN /\ (stopped <=> main # "run")
    BY Zenon
  <2>4. /\ status \in [Ids -> StatusSet] /\ fd \in [Ids -> Fds \cup {Free}]
        /\ receiver \in [Ids -> {"none", "loop", "closed", "done"}]
        /\ owner \in [Fds -> Ids \cup {Free}]
        /\ peer \in [Ids -> {"none", "open", "stalled", "closed"}]
    BY DEF StatusSet
  <2>5. made \in [one : 0 .. MaxOne, all : 0 .. MaxAll]
    OBVIOUS
  <2> QED BY <2>1, <2>2, <2>3, <2>4, <2>5, <2>6 DEF TypeOK, SenderPC, Part, Copy, StatusSet
<1>2. Entries /\ Phases
  BY DEF Entries, Phases
<1>3. Numbered
  BY MessageKinds DEF Numbered
<1>4. Owned
  BY DEF Owned, Queued, Kept, Held
<1> QED BY <1>1, <1>2, <1>3, <1>4 DEF SInv

-----------------------------------------------------------------------------
(* Next without the disjunctions that group its actions.                    *)
LEMMA NextCases ==
  ASSUME Next
  PROVE  \/ Accept \/ SendToEveryone \/ SetStop \/ SendToSignal \/ JoinSender
         \/ Top \/ Check \/ Sleep \/ Wakes \/ Pick \/ CopyEntries \/ SkipStopped
         \/ SendSize \/ SendData \/ FreeSent \/ Drain
         \/ (\E i \in Ids : \/ SendTo(i) \/ PeerCloses(i) \/ PeerStalls(i)
                            \/ CloseSocket(i) \/ StopClient(i))
         \/ UNCHANGED vars
BY DEF Next, Game, Sender, SenderWakes, Terminated

(* A send() appends a part to somebody's stream, or marks an entry.         *)
LEMMA SendTyped ==
  ASSUME SInv, hand # Null, work # <<>>, NEW part \in {"size", "data"}, Send(part)
  PROVE  wire' \in [Ids -> Seq(Part)] /\ status' \in [Ids -> StatusSet]
<1> DEFINE e == Head(work)
           c == owner[e.fd]
           p == [part |-> part, msg |-> hand]
<1>1. wire \in [Ids -> Seq(Part)] /\ status \in [Ids -> StatusSet]
  BY DEF SInv, TypeOK, Part, StatusSet
<1>2. work \in Seq(Copy)
  BY DEF SInv, TypeOK, Copy, StatusSet
<1>3. e \in Copy
  BY <1>2, Beheaded
<1>4. e.id \in Ids /\ c \in Ids \cup {Free}
  BY <1>3 DEF Copy, SInv, TypeOK
<1>5. p \in Part
  BY DEF Part, SInv, TypeOK
<1>6. \A i \in Ids : Append(wire[i], p) \in Seq(Part)
  BY <1>1, <1>5
<1>7. \/ /\ (IF c = Free THEN "none" ELSE peer[c]) = "open"
         /\ wire' = [wire EXCEPT ![c] = Append(wire[c], p)]
         /\ status' = status
      \/ wire' = wire /\ status' = status
      \/ wire' = wire /\ status' = [status EXCEPT ![e.id] = "STOP"]
  BY DEF Send
<1> HIDE DEF e, c, p
<1>8. CASE (IF c = Free THEN "none" ELSE peer[c]) = "open"
           /\ wire' = [wire EXCEPT ![c] = Append(wire[c], p)] /\ status' = status
  <2>1. c \in Ids
    BY <1>4, <1>8
  <2> QED BY <1>1, <1>6, <1>8, <2>1
<1>9. CASE wire' = wire /\ (status' = status \/ status' = [status EXCEPT ![e.id] = "STOP"])
  BY <1>1, <1>4, <1>9 DEF StatusSet
<1> QED BY <1>7, <1>8, <1>9

LEMMA TypesStep == SInv /\ [Next]_vars => TypeOK'
<1> SUFFICES ASSUME SInv, [Next]_vars PROVE TypeOK'
  OBVIOUS
<1> USE SendAssumption DEF TypeOK, tableVars, netVars, msgVars, hostVars, senderVars
<1>0. TypeOK
  BY DEF SInv
<1>1. CASE UNCHANGED vars
  BY <1>0, <1>1 DEF vars
<1>2. CASE Accept
  <2>1. PICK f \in Fds : /\ fd' = [fd EXCEPT ![size] = f]
                         /\ owner' = [owner EXCEPT ![f] = size]
    BY <1>2 DEF Accept
  <2>2. size \in Ids /\ size' \in 0 .. MaxClients
    BY <1>0, <1>2 DEF Accept, Ids
  <2>3. /\ fd' \in [Ids -> Fds \cup {Free}] /\ owner' \in [Fds -> Ids \cup {Free}]
    BY <1>0, <2>1, <2>2
  <2>4. /\ peer' \in [Ids -> {"none", "open", "stalled", "closed"}]
        /\ receiver' \in [Ids -> {"none", "loop", "closed", "done"}]
    BY <1>0, <1>2 DEF Accept
  <2> QED BY <1>0, <1>2, <2>2, <2>3, <2>4 DEF Accept
<1>3. CASE SendToEveryone
  <2>1. made.all + 1 \in 1 .. MaxAll /\ made' \in [one : 0 .. MaxOne, all : 0 .. MaxAll]
    <3>1. made.all \in 0 .. MaxAll /\ made.all < MaxAll
      BY <1>0, <1>3 DEF SendToEveryone
    <3>2. made.all + 1 \in 1 .. MaxAll /\ made.all + 1 \in 0 .. MaxAll
      BY <3>1
    <3>3. made' = [made EXCEPT !.all = made.all + 1]
      BY <1>3 DEF SendToEveryone
    <3> QED BY <1>0, <3>2, <3>3
  <2>2. slot' \in Messages /\ live' \subseteq Messages
    BY <1>0, <1>3, <2>1, MessageKinds DEF SendToEveryone
  <2> QED BY <1>0, <1>3, <2>1, <2>2 DEF SendToEveryone, Signal
<1>4. CASE SetStop \/ JoinSender
  BY <1>0, <1>4 DEF SetStop, JoinSender
<1>5. CASE SendToSignal
  BY <1>0, <1>5 DEF SendToSignal, Signal
<1>6. CASE Top \/ Check \/ Sleep
  <2>1. sender' \in SenderPC
    BY <1>6 DEF Top, Check, Sleep, SenderPC
  <2>2. /\ UNCHANGED <<main, stopped, tableVars, netVars, msgVars, hostVars, signalled>>
        /\ UNCHANGED <<hand, work>>
    BY <1>6 DEF Top, Check, Sleep
  <2> QED BY <1>0, <2>1, <2>2
<1>7. CASE Wakes
  BY <1>0, <1>7 DEF Wakes, Awake, SenderPC
<1>8. CASE Pick
  <2>1. queue # <<>> => Head(queue) \in Messages /\ Tail(queue) \in Seq(Messages)
    BY <1>0, Beheaded
  <2>2. queue' \in Seq(Messages) /\ slot' \in Messages \cup {Null} /\ hand' \in Messages \cup {Null}
    BY <1>0, <1>8, <2>1 DEF Pick
  <2> QED BY <1>0, <1>8, <2>2 DEF Pick, SenderPC
<1>9. CASE CopyEntries
  <2>1. hand \in Messages /\ (hand.kind = "one" => hand.to \in Ids /\ hand.to < size)
    BY <1>9, MessageKinds DEF SInv, Phases, Numbered, CopyEntries
  <2>2. \A i \in Ids : i < size => Entry(i) \in Copy
    BY <1>0 DEF Entry, Copy, StatusSet, SInv, Entries
  <2>3. \A n \in 1 .. size : n - 1 \in Ids /\ n - 1 < size
    BY <1>0 DEF Ids
  <2>4. [n \in 1 .. size |-> Entry(n - 1)] \in Seq(Copy)
    BY <1>0, <2>2, <2>3
  <2>5. work' \in Seq(Copy)
    BY <1>9, <2>1, <2>2, <2>4 DEF CopyEntries
  <2> QED BY <1>0, <1>9, <2>5 DEF CopyEntries, SenderPC, Copy, StatusSet
<1>10. CASE SkipStopped
  <2>1. work' \in Seq(Copy)
    BY <1>0, <1>10, Beheaded DEF SkipStopped, Copy, StatusSet
  <2> QED BY <1>0, <1>10, <2>1 DEF SkipStopped, Copy, StatusSet
<1>11. CASE SendSize
  <2>1. hand # Null /\ work # <<>> /\ Send("size")
    BY <1>11 DEF SendSize, SInv, Phases
  <2>2. wire' \in [Ids -> Seq(Part)] /\ status' \in [Ids -> StatusSet]
    BY <2>1, SendTyped
  <2> QED BY <1>0, <1>11, <2>2 DEF SendSize, SenderPC, Part, StatusSet
<1>12. CASE SendData
  <2>1. hand # Null /\ work # <<>> /\ Send("data")
    BY <1>12 DEF SendData, SInv, Phases
  <2>2. wire' \in [Ids -> Seq(Part)] /\ status' \in [Ids -> StatusSet]
    BY <2>1, SendTyped
  <2>3. work' \in Seq(Copy)
    BY <1>0, <1>12, <2>1, Beheaded DEF SendData, Copy, StatusSet
  <2> QED BY <1>0, <1>12, <2>2, <2>3 DEF SendData, SenderPC, Part, Copy, StatusSet
<1>13. CASE FreeSent
  BY <1>0, <1>13 DEF FreeSent, SenderPC
<1>14. CASE Drain
  <2>1. queue' \in Seq(Messages)
    BY <1>14, EmptySeq DEF Drain
  <2> QED BY <1>0, <1>14, <2>1 DEF Drain, SenderPC
<1>15. ASSUME NEW i \in Ids, SendTo(i) PROVE TypeOK'
  <2>1. /\ made.one + 1 \in 1 .. MaxOne
        /\ made' \in [one : 0 .. MaxOne, all : 0 .. MaxAll]
    <3>1. made.one \in 0 .. MaxOne /\ made.one < MaxOne
      BY <1>0, <1>15 DEF SendTo
    <3>2. made.one + 1 \in 1 .. MaxOne /\ made.one + 1 \in 0 .. MaxOne
      BY <3>1
    <3>3. made' = [made EXCEPT !.one = made.one + 1]
      BY <1>15 DEF SendTo
    <3> QED BY <1>0, <3>2, <3>3
  <2>2. One(made.one + 1, i) \in Messages
    BY <2>1, <1>15, MessageKinds
  <2>3. queue' \in Seq(Messages) /\ live' \subseteq Messages
    BY <1>0, <1>15, <2>2, Appended DEF SendTo
  <2> QED BY <1>0, <1>15, <2>1, <2>3 DEF SendTo
<1>16. ASSUME NEW i \in Ids, PeerCloses(i) \/ PeerStalls(i) \/ CloseSocket(i) \/ StopClient(i)
       PROVE TypeOK'
  <2>1. /\ UNCHANGED <<main, stopped, size, fd, wire, msgVars, hostVars>>
        /\ UNCHANGED senderVars
    BY <1>16 DEF PeerCloses, PeerStalls, CloseSocket, StopClient
  <2>2. peer' \in [Ids -> {"none", "open", "stalled", "closed"}]
    BY <1>0, <1>16 DEF PeerCloses, PeerStalls, CloseSocket, StopClient
  <2>3. receiver' \in [Ids -> {"none", "loop", "closed", "done"}]
    BY <1>0, <1>16 DEF PeerCloses, PeerStalls, CloseSocket, StopClient
  <2>4. /\ owner' \in [Fds -> Ids \cup {Free}]
        /\ status' \in [Ids -> {"RUNNING", "STOP", "STOPPED"}]
    BY <1>0, <1>16 DEF PeerCloses, PeerStalls, CloseSocket, StopClient
  <2> QED BY <1>0, <2>1, <2>2, <2>3, <2>4
<1> QED BY <1>1, <1>2, <1>3, <1>4, <1>5, <1>6, <1>7, <1>8, <1>9, <1>10, <1>11, <1>12,
           <1>13, <1>14, <1>15, <1>16, NextCases

LEMMA EntriesStep == SInv /\ [Next]_vars => Entries'
<1> SUFFICES ASSUME SInv, [Next]_vars PROVE Entries'
  OBVIOUS
<1> USE DEF Entries, tableVars, netVars, msgVars, hostVars, senderVars
<1>0. /\ Entries /\ size \in Nat
      /\ fd \in [Ids -> Fds \cup {Free}]
      /\ receiver \in [Ids -> {"none", "loop", "closed", "done"}]
  BY SendAssumption DEF SInv, TypeOK
<1>1. CASE UNCHANGED <<size, fd, receiver>>
  BY <1>0, <1>1
<1>2. CASE Accept
  <2>1. PICK f \in Fds : fd' = [fd EXCEPT ![size] = f]
    BY <1>2 DEF Accept
  <2>2. size' = size + 1 /\ receiver' = [receiver EXCEPT ![size] = "loop"]
    BY <1>2 DEF Accept
  <2>3. \A i \in Ids : (i < size + 1 => i = size \/ i < size) /\ (i >= size + 1 => i >= size /\ i # size)
    BY <1>0 DEF Ids
  <2> QED BY <1>0, <2>1, <2>2, <2>3
<1>3. ASSUME NEW i \in Ids, CloseSocket(i) \/ StopClient(i) PROVE Entries'
  <2>1. /\ receiver[i] # "none" /\ size' = size /\ fd' = fd
        /\ \A j \in Ids : j # i => receiver'[j] = receiver[j]
    BY <1>0, <1>3 DEF CloseSocket, StopClient
  <2> QED BY <1>0, <2>1
<1>4. ASSUME NEW i \in Ids, SendTo(i) \/ PeerCloses(i) \/ PeerStalls(i) PROVE Entries'
  BY <1>1, <1>4 DEF SendTo, PeerCloses, PeerStalls
<1>5. CASE SendToEveryone \/ SetStop \/ SendToSignal \/ JoinSender \/ UNCHANGED vars
  BY <1>1, <1>5 DEF SendToEveryone, SetStop, SendToSignal, JoinSender, vars
<1>6. CASE \/ Top \/ Check \/ Sleep \/ Wakes \/ Pick \/ CopyEntries \/ SkipStopped
           \/ SendSize \/ SendData \/ FreeSent \/ Drain
  BY <1>1, <1>6 DEF Top, Check, Sleep, Wakes, Awake, Pick, CopyEntries, SkipStopped,
                    SendSize, SendData, FreeSent, Drain
<1> QED BY <1>2, <1>3, <1>4, <1>5, <1>6, NextCases

LEMMA PhasesStep == SInv /\ [Next]_vars => Phases'
<1> SUFFICES ASSUME SInv, [Next]_vars PROVE Phases'
  OBVIOUS
<1> USE DEF Phases, tableVars, netVars, msgVars, hostVars, senderVars
<1>0. /\ Phases /\ (stopped <=> main # "run") /\ size \in Nat
      /\ queue \in Seq(Messages) /\ work \in Seq(Copy)
      /\ slot \in Messages \cup {Null}
      /\ Null \notin Messages
  BY SendAssumption, MessageKinds DEF SInv, TypeOK, Copy, StatusSet
<1>1. CASE UNCHANGED <<hand, sender, work, queue, slot, main>>
  BY <1>0, <1>1
<1>2. CASE SendToEveryone
  <2>1. All(made.all + 1) # Null
    BY DEF All, Null
  <2> QED BY <1>0, <1>2, <2>1 DEF SendToEveryone
<1>3. ASSUME NEW i \in Ids, SendTo(i) PROVE Phases'
  <2>1. queue' = Append(queue, One(made.one + 1, i)) /\ main = "run"
    BY <1>3 DEF SendTo
  <2>2. queue' # <<>>
    BY <1>0, <2>1
  <2> QED BY <1>0, <1>3, <2>1, <2>2 DEF SendTo
<1>4. CASE SetStop \/ JoinSender
  BY <1>0, <1>4 DEF SetStop, JoinSender
<1>5. CASE Top \/ Check \/ Sleep \/ Wakes
  BY <1>0, <1>5 DEF Top, Check, Sleep, Wakes, Awake
<1>6. CASE Pick
  <2>1. queue # <<>> => Head(queue) \in Messages
    BY <1>0, Beheaded
  <2> QED BY <1>0, <1>6, <2>1 DEF Pick
<1>7. CASE CopyEntries
  BY <1>0, <1>7 DEF CopyEntries
<1>8. CASE SkipStopped
  BY <1>0, <1>8 DEF SkipStopped
<1>9. CASE SendSize
  BY <1>0, <1>9 DEF SendSize
<1>10. CASE SendData
  BY <1>0, <1>10 DEF SendData
<1>11. CASE FreeSent
  BY <1>0, <1>11 DEF FreeSent
<1>12. CASE Drain
  BY <1>0, <1>12 DEF Drain
<1>13. ASSUME NEW i \in Ids, PeerCloses(i) \/ PeerStalls(i) \/ CloseSocket(i) \/ StopClient(i)
       PROVE Phases'
  BY <1>1, <1>13 DEF PeerCloses, PeerStalls, CloseSocket, StopClient
<1>14. CASE Accept \/ SendToSignal \/ UNCHANGED vars
  BY <1>1, <1>14 DEF Accept, SendToSignal, vars
<1> QED BY <1>2, <1>3, <1>4, <1>5, <1>6, <1>7, <1>8, <1>9, <1>10, <1>11, <1>12, <1>13,
           <1>14, NextCases

-----------------------------------------------------------------------------
LEMMA NumberedStep == SInv /\ [Next]_vars => Numbered'
<1> SUFFICES ASSUME SInv, [Next]_vars PROVE Numbered'
  OBVIOUS
<1> USE DEF Numbered, tableVars, netVars, msgVars, hostVars, senderVars
<1>0. /\ Numbered /\ size \in Nat
      /\ queue \in Seq(Messages)
      /\ slot \in Messages \cup {Null} /\ hand \in Messages \cup {Null}
      /\ made \in [one : 0 .. MaxOne, all : 0 .. MaxAll]
      /\ made.one \in Nat /\ made.all \in Nat
      /\ DOMAIN queue = 1 .. Len(queue) /\ Len(queue) \in Nat
      /\ \A j \in DOMAIN queue : queue[j] \in Messages
  BY SendAssumption DEF SInv, TypeOK
<1>1. CASE UNCHANGED <<queue, slot, hand, made, size>>
  BY <1>0, <1>1
<1>2. CASE Accept
  <2>1. size' = size + 1 /\ UNCHANGED <<queue, slot, hand, made>>
    BY <1>2 DEF Accept
  <2>2. /\ \A j \in DOMAIN queue : queue[j].to < size => queue[j].to < size + 1
        /\ hand.kind = "one" => (hand.to < size => hand.to < size + 1)
    <3>1. \A m \in Messages : m.kind = "one" => (m.to < size => m.to < size + 1)
      BY <1>0, MessageKinds DEF Ids
    <3> QED BY <1>0, <3>1, MessageKinds
  <2> QED BY <1>0, <2>1, <2>2
<1>3. CASE SendToEveryone
  <2>1. /\ slot' = All(made.all + 1) /\ made' = [made EXCEPT !.all = made.all + 1]
        /\ UNCHANGED <<queue, hand, size>>
    BY <1>3 DEF SendToEveryone
  <2>2. /\ slot'.kind = "all" /\ slot'.n = made.all + 1
        /\ made'.all = made.all + 1 /\ made'.one = made.one
    BY <1>0, <2>1 DEF All
  <2>3. hand.kind = "all" => hand.n \in Nat
    BY <1>0, MessageKinds, SendAssumption
  <2>4. hand.kind = "all" => hand.n <= made'.all /\ hand.n < slot'.n
    BY <1>0, <2>2, <2>3
  <2> QED BY <1>0, <2>1, <2>2, <2>4
<1>4. ASSUME NEW i \in Ids, SendTo(i) PROVE Numbered'
  <2> DEFINE m == One(made.one + 1, i)
  <2>1. /\ queue' = Append(queue, m) /\ made' = [made EXCEPT !.one = made.one + 1]
        /\ i < size /\ made.one < MaxOne /\ UNCHANGED <<slot, hand, size>>
    BY <1>4 DEF SendTo
  <2>2. /\ made'.one = made.one + 1 /\ made'.all = made.all
        /\ m.kind = "one" /\ m.n = made.one + 1 /\ m.to = i
    BY <1>0, <2>1 DEF One
  <2>3. m \in Messages
    BY <1>0, <1>4, <2>1, MessageKinds, SendAssumption
  <2> HIDE DEF m
  <2>4. /\ DOMAIN queue' = 1 .. Len(queue) + 1
        /\ \A j \in 1 .. Len(queue) : queue'[j] = queue[j]
        /\ queue'[Len(queue) + 1] = m
    BY <1>0, <2>1, <2>3, Appended
  <2>5. \A j \in DOMAIN queue : queue[j].n \in Nat /\ queue[j].n <= made.one
    BY <1>0, MessageKinds, SendAssumption
  <2>6. hand.kind = "one" => hand.n \in Nat /\ hand.n <= made.one
    BY <1>0, MessageKinds, SendAssumption
  <2>7. \A j \in DOMAIN queue' :
          queue'[j].kind = "one" /\ queue'[j].n <= made'.one /\ queue'[j].to < size
    BY <1>0, <2>1, <2>2, <2>4, <2>5
  <2>8. \A j, k \in DOMAIN queue' : j < k => queue'[j].n < queue'[k].n
    <3>1. SUFFICES ASSUME NEW j \in DOMAIN queue', NEW k \in DOMAIN queue', j < k
                   PROVE queue'[j].n < queue'[k].n
      OBVIOUS
    <3>2. j \in DOMAIN queue /\ queue'[j] = queue[j]
      BY <1>0, <2>4, <3>1
    <3>3. CASE k \in DOMAIN queue
      BY <1>0, <2>4, <3>1, <3>2, <3>3
    <3>4. CASE k = Len(queue) + 1
      BY <1>0, <2>2, <2>4, <2>5, <3>2, <3>4
    <3> QED BY <1>0, <2>4, <3>3, <3>4
  <2>9. hand.kind = "one" =>
          hand.n <= made'.one /\ \A j \in DOMAIN queue' : hand.n < queue'[j].n
    BY <1>0, <2>2, <2>4, <2>6
  <2> QED BY <1>0, <2>1, <2>2, <2>7, <2>8, <2>9
<1>5. CASE Pick
  <2>1. CASE queue # <<>> /\ hand' = Head(queue) /\ queue' = Tail(queue) /\ UNCHANGED slot
    <3>1. /\ hand' = queue[1] /\ 1 \in DOMAIN queue
          /\ DOMAIN queue' = 1 .. Len(queue) - 1
          /\ \A j \in 1 .. Len(queue) - 1 : queue'[j] = queue[j + 1]
      BY <1>0, <2>1, Beheaded
    <3>2. \A j \in DOMAIN queue' : j + 1 \in DOMAIN queue /\ 1 < j + 1 /\ queue'[j] = queue[j + 1]
      BY <1>0, <3>1
    <3>3. UNCHANGED <<made, size>>
      BY <1>5 DEF Pick
    <3>4. \A j, k \in DOMAIN queue' : j < k => j + 1 < k + 1
      BY <1>0, <3>1
    <3> QED BY <1>0, <2>1, <3>1, <3>2, <3>3, <3>4
  <2>2. CASE queue = <<>> /\ hand' = slot /\ slot' = Null /\ UNCHANGED queue
    <3>1. UNCHANGED <<made, size>> /\ Null.kind = "null"
      BY <1>5, MessageKinds DEF Pick
    <3>2. slot \in Messages => slot # Null
      BY MessageKinds
    <3> QED BY <1>0, <2>2, <3>1, <3>2
  <2> QED BY <1>5, <2>1, <2>2 DEF Pick
<1>6. CASE FreeSent
  BY <1>0, <1>6, MessageKinds DEF FreeSent
<1>7. CASE Drain
  <2>1. hand = Null
    BY <1>7 DEF Drain, SInv, Phases
  <2>2. DOMAIN queue' = {}
    BY <1>7 DEF Drain
  <2> QED BY <1>0, <1>7, <2>1, <2>2, MessageKinds DEF Drain
<1>8. ASSUME NEW i \in Ids, PeerCloses(i) \/ PeerStalls(i) \/ CloseSocket(i) \/ StopClient(i)
      PROVE Numbered'
  BY <1>1, <1>8 DEF PeerCloses, PeerStalls, CloseSocket, StopClient
<1>9. CASE SetStop \/ JoinSender \/ SendToSignal \/ UNCHANGED vars
  BY <1>1, <1>9 DEF SetStop, JoinSender, SendToSignal, vars
<1>10. CASE \/ Top \/ Check \/ Sleep \/ Wakes \/ CopyEntries \/ SkipStopped
            \/ SendSize \/ SendData
  BY <1>1, <1>10 DEF Top, Check, Sleep, Wakes, Awake, CopyEntries, SkipStopped, SendSize, SendData
<1> QED BY <1>2, <1>3, <1>4, <1>5, <1>6, <1>7, <1>8, <1>9, <1>10, NextCases

(* No two of the three places hold the same message.                        *)
LEMMA Apart ==
  ASSUME SInv
  PROVE  /\ slot # Null => slot \notin Queued \cup Held
         /\ hand # Null => hand \notin Queued
<1>1. /\ \A m \in Queued : \E j \in DOMAIN queue : m = queue[j]
      /\ \A j \in DOMAIN queue : queue[j] \in Messages
      /\ slot \in Messages \cup {Null} /\ hand \in Messages \cup {Null}
      /\ \A m \in Messages : m.n \in Int /\ m.kind \in {"one", "all"}
  BY MessageKinds, SendAssumption DEF SInv, TypeOK, Queued
<1>2. ASSUME slot # Null PROVE slot \notin Queued \cup Held
  <2>1. slot \notin Queued
    BY <1>1, <1>2 DEF SInv, Numbered
  <2>2. hand # slot
    BY <1>1, <1>2 DEF SInv, Numbered
  <2> QED BY <2>1, <2>2 DEF Held
<1>3. ASSUME hand # Null PROVE hand \notin Queued
  BY <1>1, <1>3 DEF SInv, Numbered
<1> QED BY <1>2, <1>3

LEMMA OwnedStep == SInv /\ [Next]_vars => Owned'
<1> SUFFICES ASSUME SInv, [Next]_vars PROVE Owned'
  OBVIOUS
<1> USE DEF Owned, Kept, Held, tableVars, netVars, msgVars, hostVars, senderVars
<1>0. /\ Owned /\ Phases
      /\ queue \in Seq(Messages) /\ slot \in Messages \cup {Null}
      /\ DOMAIN queue = 1 .. Len(queue) /\ Len(queue) \in Nat
      /\ made.one \in Nat /\ made.all \in Nat
      /\ (stopped <=> main # "run")
  BY SendAssumption DEF SInv, TypeOK
<1>1. CASE UNCHANGED <<live, queue, slot, hand>> /\ (sender' = "done" <=> sender = "done")
  BY <1>0, <1>1 DEF Queued
<1>2. CASE SendToEveryone
  <2>1. /\ live' = (live \ {slot}) \cup {slot'} /\ Queued' = Queued
        /\ UNCHANGED <<hand, sender>> /\ sender # "done" /\ slot' # Null
    BY <1>0, <1>2 DEF SendToEveryone, Phases, Queued, All, Null
  <2>2. slot = Null => slot \notin Queued
    BY <1>0, MessageKinds DEF Queued
  <2> QED BY <1>0, <2>1, <2>2, Apart
<1>3. ASSUME NEW i \in Ids, SendTo(i) PROVE Owned'
  <2> DEFINE m == One(made.one + 1, i)
  <2>1. queue' = Append(queue, m) /\ live' = live \cup {m} /\ UNCHANGED <<slot, hand, sender>>
    BY <1>3 DEF SendTo
  <2>2. made.one < MaxOne
    BY <1>3 DEF SendTo
  <2>3. m \in Messages
    BY <1>0, <1>3, <2>2, MessageKinds, SendAssumption
  <2> HIDE DEF m
  <2>4. /\ DOMAIN queue' = 1 .. Len(queue) + 1
        /\ \A j \in 1 .. Len(queue) : queue'[j] = queue[j]
        /\ queue'[Len(queue) + 1] = m
    BY <1>0, <2>1, <2>3, Appended
  <2>5. Queued' = Queued \cup {m}
    BY <1>0, <2>4 DEF Queued
  <2> QED BY <1>0, <2>1, <2>5
<1>4. CASE Pick
  <2>1. hand = Null /\ sender = "pick" /\ sender' = "copy" /\ live' = live
    BY <1>0, <1>4 DEF Pick, Phases
  <2>2. CASE queue # <<>> /\ hand' = Head(queue) /\ queue' = Tail(queue) /\ UNCHANGED slot
    <3>1. /\ hand' = queue[1] /\ 1 \in DOMAIN queue /\ hand' \in Messages
          /\ DOMAIN queue' = 1 .. Len(queue) - 1
          /\ \A j \in 1 .. Len(queue) - 1 : queue'[j] = queue[j + 1]
      BY <1>0, <2>2, Beheaded
    <3>2. \A j \in 2 .. Len(queue) : j - 1 \in DOMAIN queue' /\ queue'[j - 1] = queue[j]
      BY <1>0, <3>1
    <3>3. Queued \subseteq Queued' \cup {hand'}
      <4>1. SUFFICES ASSUME NEW j \in DOMAIN queue PROVE queue[j] \in Queued' \cup {hand'}
        BY DEF Queued
      <4>2. CASE j = 1
        BY <3>1, <4>2
      <4>3. CASE j # 1
        BY <1>0, <3>2, <4>3 DEF Queued
      <4> QED BY <4>2, <4>3
    <3>4. Queued' \cup {hand'} \subseteq Queued
      BY <1>0, <3>1 DEF Queued
    <3> QED BY <1>0, <2>1, <2>2, <3>1, <3>3, <3>4, MessageKinds
  <2>3. CASE queue = <<>> /\ hand' = slot /\ slot' = Null /\ UNCHANGED queue
    BY <1>0, <2>1, <2>3 DEF Queued
  <2> QED BY <1>4, <2>2, <2>3 DEF Pick
<1>5. CASE FreeSent
  <2>1. /\ live' = live \ {hand} /\ hand' = Null /\ UNCHANGED slot
        /\ Queued' = Queued /\ sender' # "done" /\ sender # "done"
    BY <1>5 DEF FreeSent, Queued
  <2>2. hand \notin Queued /\ (slot # Null => hand # slot)
    BY <1>0, <1>5, Apart, MessageKinds DEF FreeSent, Queued
  <2> QED BY <1>0, <2>1, <2>2
<1>6. CASE Drain
  <2>1. live' = live \ (Queued \cup {slot}) /\ queue' = <<>> /\ sender' = "done" /\ sender = "drain"
    BY <1>6 DEF Drain, Queued
  <2>2. hand' = Null /\ hand = Null
    BY <1>0, <1>6 DEF Drain, Phases
  <2>3. Queued' = {}
    BY <2>1 DEF Queued
  <2> QED BY <1>0, <2>1, <2>2, <2>3
<1>7. ASSUME NEW i \in Ids, PeerCloses(i) \/ PeerStalls(i) \/ CloseSocket(i) \/ StopClient(i)
      PROVE Owned'
  BY <1>1, <1>7 DEF PeerCloses, PeerStalls, CloseSocket, StopClient
<1>8. CASE Accept \/ SetStop \/ JoinSender \/ SendToSignal \/ UNCHANGED vars
  BY <1>1, <1>8 DEF Accept, SetStop, JoinSender, SendToSignal, vars
<1>9. CASE \/ Top \/ Check \/ Sleep \/ Wakes \/ CopyEntries \/ SkipStopped
           \/ SendSize \/ SendData
  BY <1>1, <1>9 DEF Top, Check, Sleep, Wakes, Awake, CopyEntries, SkipStopped, SendSize, SendData
<1> QED BY <1>2, <1>3, <1>4, <1>5, <1>6, <1>7, <1>8, <1>9, NextCases

LEMMA SendInvariance == Spec => []SInv
<1>1. SInv /\ [Next]_vars => SInv'
  BY TypesStep, EntriesStep, PhasesStep, NumberedStep, OwnedStep DEF SInv
<1> QED BY <1>1, SendInit, PTL DEF Spec

(* One more message in a place of its own counts one more.                  *)
LEMMA OneMore ==
  ASSUME NEW S, IsFiniteSet(S), NEW m, m \in S => m = Null
  PROVE  /\ IsFiniteSet(S \cup ({m} \ {Null}))
         /\ m # Null => Cardinality({m} \ {Null}) = 1
         /\ m = Null => Cardinality({m} \ {Null}) = 0
         /\ m # Null => Cardinality(S \cup ({m} \ {Null})) = Cardinality(S) + 1
         /\ m = Null => Cardinality(S \cup ({m} \ {Null})) = Cardinality(S)
<1>1. CASE m = Null
  <2>1. {m} \ {Null} = {} /\ S \cup ({m} \ {Null}) = S
    BY <1>1
  <2> QED BY <1>1, <2>1, FS_EmptySet
<1>2. CASE m # Null
  <2>1. {m} \ {Null} = {m} /\ m \notin S
    BY <1>2
  <2>2. Cardinality({m}) = 1
    BY FS_Singleton
  <2>3. IsFiniteSet(S \cup {m}) /\ Cardinality(S \cup {m}) = Cardinality(S) + 1
    BY <2>1, FS_AddElement
  <2> QED BY <1>2, <2>1, <2>2, <2>3
<1> QED BY <1>1, <1>2

(* The messages of the queue are as many as its length.                     *)
LEMMA QueuedCount ==
  ASSUME SInv
  PROVE  IsFiniteSet(Queued) /\ Cardinality(Queued) = Len(queue) /\ Null \notin Queued
<1>1. /\ queue \in Seq(Messages) /\ Len(queue) \in Nat
      /\ DOMAIN queue = 1 .. Len(queue)
      /\ \A j \in 1 .. Len(queue) : queue[j] \in Messages /\ queue[j].n \in Int
  BY MessageKinds, SendAssumption DEF SInv, TypeOK
<1>2. \A j, k \in 1 .. Len(queue) : queue[j] = queue[k] => j = k
  BY <1>1 DEF SInv, Numbered
<1>3. queue \in [1 .. Len(queue) -> Queued]
  BY <1>1 DEF Queued
<1>4. \A m \in Queued : \E j \in 1 .. Len(queue) : queue[j] = m
  BY <1>1 DEF Queued
<1>5. ExistsBijection(1 .. Len(queue), Queued)
  BY <1>2, <1>3, <1>4 DEF ExistsBijection, Bijection, Injection, Surjection, IsInjective
<1>6. Cardinality(Queued) = Len(queue) /\ IsFiniteSet(Queued)
  BY <1>1, <1>5, FS_CountingElements, FS_NatBijection
<1> QED BY <1>1, <1>6, MessageKinds DEF Queued

(* The types of SendPath, and that the flag is set exactly while the server *)
(* is being stopped (stopServer).                                           *)
THEOREM SendTypesCorrect == Spec => []TypeOK
<1>1. SInv => TypeOK
  BY DEF SInv
<1> QED BY <1>1, SendInvariance, PTL

(* Every allocated message is in the queue, in the slot or in the sender's  *)
(* hand, in one of them only, and nothing that was freed is (sendTo,        *)
(* sendToEveryone, startSending).                                           *)
THEOREM MessagesOwnedOnce == Spec => []OwnedOnce
<1>1. SInv => OwnedOnce
  <2> SUFFICES ASSUME SInv PROVE OwnedOnce
    OBVIOUS
  <2> DEFINE kept == IF sender = "done" THEN Null ELSE slot
  <2>1. IsFiniteSet(Queued) /\ Cardinality(Queued) = Len(queue) /\ Null \notin Queued
    BY QueuedCount
  <2>2. Kept = {kept} \ {Null} /\ (kept # Null => kept = slot)
    BY DEF Kept
  <2>3. kept \notin Queued
    BY <2>1, <2>2, Apart
  <2> HIDE DEF kept
  <2>4. hand \notin Queued \cup Kept \/ hand = Null
    BY <2>2, Apart DEF Held
  <2>5. live = (Queued \cup ({kept} \ {Null})) \cup ({hand} \ {Null})
    BY <2>2 DEF SInv, Owned, Held
  <2>6. Len(queue) \in Nat
    BY DEF SInv, TypeOK
  <2>7. /\ IsFiniteSet(Queued \cup Kept)
        /\ Cardinality(Queued \cup Kept) = Len(queue) + Cardinality(Kept)
        /\ Cardinality(Kept) \in Nat
    <3>0. IsFiniteSet(Queued \cup Kept)
      BY <2>1, <2>2, <2>3, OneMore
    <3>1. kept # Null => Cardinality(Kept) = 1 /\
             Cardinality(Queued \cup Kept) = Cardinality(Queued) + 1
      BY <2>1, <2>2, <2>3, OneMore
    <3>2. kept = Null => Cardinality(Kept) = 0 /\
             Cardinality(Queued \cup Kept) = Cardinality(Queued)
      BY <2>1, <2>2, <2>3, OneMore
    <3> QED BY <2>1, <2>6, <3>0, <3>1, <3>2
  <2>8. Cardinality((Queued \cup Kept) \cup Held) = Cardinality(Queued \cup Kept) + Cardinality(Held)
    <3>1. hand # Null => Cardinality(Held) = 1 /\
             Cardinality((Queued \cup Kept) \cup Held) = Cardinality(Queued \cup Kept) + 1
      BY <2>4, <2>7, OneMore DEF Held
    <3>2. hand = Null => Cardinality(Held) = 0 /\
             Cardinality((Queued \cup Kept) \cup Held) = Cardinality(Queued \cup Kept)
      BY <2>4, <2>7, OneMore DEF Held
    <3> QED BY <2>6, <2>7, <3>1, <3>2
  <2> QED BY <2>2, <2>5, <2>7, <2>8 DEF OwnedOnce, Held
<1> QED BY <1>1, SendInvariance, PTL

(* The sender never takes an absent message for one.                        *)
THEOREM NullNeverSent == Spec => []NeverSendsNull
<1>1. SInv => NeverSendsNull
  BY DEF SInv, Phases, NeverSendsNull
<1> QED BY <1>1, SendInvariance, PTL

-----------------------------------------------------------------------------
(* FreshStream is kept together with where a part can go and what has gone  *)
(* before.  A connection that is open owns its descriptor, and the last     *)
(* client a descriptor was given to is the one that owns it.                *)
Sockets ==
  /\ \A i \in Ids :
       /\ receiver[i] = "loop" => i < size /\ owner[fd[i]] = i
       /\ peer[i] \in {"open", "stalled"} => receiver[i] = "loop"
  /\ \A f \in Fds : owner[f] # Free =>
       /\ owner[f] < size /\ fd[owner[f]] = f
       /\ \A i \in Ids : i < size /\ fd[i] = f => i <= owner[f]

(* The copies have the descriptors of their entries, in order, and a        *)
(* message for one client goes to its entry alone.                          *)
Copies ==
  /\ \A k \in DOMAIN work : work[k].id < size /\ work[k].fd = fd[work[k].id]
  /\ \A j, k \in DOMAIN work : j < k => work[j].id < work[k].id
  /\ hand.kind = "one" => \A k \in DOMAIN work : work[k].id = hand.to

Untouched == \A i \in Ids : i >= size => wire[i] = <<>>

(* A connected peer has been sent a size without its data exactly while the *)
(* sender is between the two.                                               *)
Half(i) == sender = "data" /\ Head(work).id = i
Whole ==
  \A i \in Ids : Fresh(i) /\ peer[i] \in {"open", "stalled"} =>
    /\ Half(i) <=> Len(wire[i]) % 2 = 1
    /\ Half(i) => wire[i][Len(wire[i])].msg = hand

(* This part of the message in hand is yet to be sent to client i.          *)
Pending(i, part) ==
  \/ sender = "copy"
  \/ \E k \in DOMAIN work : work[k].id = i /\ ~ (sender = "data" /\ k = 1 /\ part = "size")

(* A part p that client i has comes before all that is still to be sent.    *)
Before(i, p) ==
  /\ p.msg.to \in {i, Free}
  /\ p.msg.kind = "one" =>
      /\ p.msg.n <= made.one
      /\ \A j \in DOMAIN queue : p.msg.n < queue[j].n
  /\ p.msg.kind = "all" =>
      /\ p.msg.n <= made.all
      /\ slot # Null => p.msg.n < slot.n
  /\ p.msg.kind = hand.kind =>
      /\ p.msg.n <= hand.n
      /\ Pending(i, p.part) => p.msg.n < hand.n

Ordered == \A i \in Ids : Fresh(i) => \A j \in DOMAIN wire[i] : Before(i, wire[i][j])

StreamInv == SInv /\ Sockets /\ Copies /\ Untouched /\ Whole /\ Ordered /\ FreshStream

LEMMA StreamInit == Init => StreamInv
<1> SUFFICES ASSUME Init PROVE StreamInv
  OBVIOUS
<1>1. SInv
  BY SendInit
<1>2. Sockets /\ Copies /\ Untouched
  BY SendAssumption DEF Init, Sockets, Copies, Untouched, Ids, Fds, Null
<1>3. Whole
  BY DEF Init, Whole
<1>4. \A i \in Ids : DOMAIN wire[i] = {}
  BY DEF Init
<1>5. Ordered
  BY <1>4 DEF Ordered
<1>6. FreshStream
  BY <1>4 DEF FreshStream, FreshFramed
<1> QED BY <1>1, <1>2, <1>3, <1>5, <1>6 DEF StreamInv

LEMMA StreamTypes ==
  ASSUME StreamInv
  PROVE  /\ size \in Nat /\ size \in 0 .. MaxClients /\ MaxClients \in Nat
         /\ fd \in [Ids -> Fds \cup {Free}] /\ owner \in [Fds -> Ids \cup {Free}]
         /\ receiver \in [Ids -> {"none", "loop", "closed", "done"}]
         /\ peer \in [Ids -> {"none", "open", "stalled", "closed"}]
         /\ wire \in [Ids -> Seq(Part)] /\ work \in Seq(Copy)
         /\ queue \in Seq(Messages)
         /\ slot \in Messages \cup {Null} /\ hand \in Messages \cup {Null}
         /\ made \in [one : 0 .. MaxOne, all : 0 .. MaxAll]
         /\ \A i \in Ids : i \in Nat
         /\ Free \notin Ids /\ Free \notin Fds
<1>1. TypeOK
  BY DEF StreamInv, SInv
<1>2. wire \in [Ids -> Seq(Part)]
  BY <1>1 DEF TypeOK, Part
<1>3. work \in Seq(Copy)
  BY <1>1 DEF TypeOK, Copy, StatusSet
<1>4. /\ \A i \in Ids : i \in Nat
      /\ Free \notin Ids /\ Free \notin Fds
  BY SendAssumption DEF Ids, Fds, Free
<1>5. size \in Nat /\ size \in 0 .. MaxClients
  BY <1>1, SendAssumption DEF TypeOK
<1> QED BY <1>1, <1>2, <1>3, <1>4, <1>5, SendAssumption DEF TypeOK

LEMMA SocketsStep == StreamInv /\ [Next]_vars => Sockets'
<1> SUFFICES ASSUME StreamInv, [Next]_vars PROVE Sockets'
  OBVIOUS
<1> USE DEF Sockets, tableVars, netVars, msgVars, hostVars, senderVars
<1>0. /\ Sockets /\ Entries /\ size \in Nat /\ size \in 0 .. MaxClients
      /\ fd \in [Ids -> Fds \cup {Free}] /\ owner \in [Fds -> Ids \cup {Free}]
      /\ receiver \in [Ids -> {"none", "loop", "closed", "done"}]
      /\ peer \in [Ids -> {"none", "open", "stalled", "closed"}]
      /\ Free \notin Ids /\ Free \notin Fds
  BY StreamTypes DEF StreamInv, SInv
<1>1. CASE UNCHANGED <<size, fd, receiver, owner>>
           /\ (\A i \in Ids : peer'[i] \in {"open", "stalled"} => peer[i] \in {"open", "stalled"})
  BY <1>0, <1>1
<1>2. CASE Accept
  <2>1. PICK f \in Fds : /\ owner[f] = Free
                         /\ fd' = [fd EXCEPT ![size] = f]
                         /\ owner' = [owner EXCEPT ![f] = size]
    BY <1>2 DEF Accept
  <2>2. /\ size' = size + 1 /\ receiver' = [receiver EXCEPT ![size] = "loop"]
        /\ peer' = [peer EXCEPT ![size] = "open"]
        /\ size \in Ids
    BY <1>0, <1>2, SendAssumption DEF Accept, Ids
  <2>3. \A i \in Ids : i \in Int /\ (i < size + 1 <=> i = size \/ i < size)
    BY <1>0 DEF Ids
  <2>4. \A i \in Ids : receiver'[i] = "loop" => i < size' /\ owner'[fd'[i]] = i
    <3>1. CASE \A i \in Ids : i # size
      BY <2>2, <3>1
    <3>2. ASSUME NEW i \in Ids, i # size, receiver'[i] = "loop"
          PROVE i < size' /\ owner'[fd'[i]] = i
      <4>1. receiver[i] = "loop" /\ fd'[i] = fd[i]
        BY <1>0, <2>1, <2>2, <3>2
      <4>2. i < size /\ owner[fd[i]] = i /\ fd[i] \in Fds
        BY <1>0, <4>1 DEF Entries
      <4>3. fd[i] # f
        BY <1>0, <2>1, <4>2
      <4> QED BY <1>0, <2>1, <2>2, <2>3, <4>1, <4>2, <4>3
    <3>3. size < size' /\ owner'[fd'[size]] = size
      BY <1>0, <2>1, <2>2
    <3> QED BY <3>2, <3>3
  <2>5. \A i \in Ids : peer'[i] \in {"open", "stalled"} => receiver'[i] = "loop"
    BY <1>0, <2>2
  <2>6. ASSUME NEW g \in Fds, owner'[g] # Free
        PROVE /\ owner'[g] < size' /\ fd'[owner'[g]] = g
              /\ \A i \in Ids : i < size' /\ fd'[i] = g => i <= owner'[g]
    <3>1. CASE g = f
      <4>1. owner'[g] = size
        BY <1>0, <2>1, <3>1
      <4> QED BY <1>0, <2>1, <2>2, <2>3, <3>1, <4>1
    <3>2. CASE g # f
      <4>1. owner'[g] = owner[g] /\ owner[g] \in Ids /\ owner[g] < size /\ fd[owner[g]] = g
        BY <1>0, <2>1, <2>6, <3>2
      <4>2. fd'[owner[g]] = g /\ owner[g] < size + 1
        BY <1>0, <2>1, <2>3, <4>1
      <4>3. ASSUME NEW i \in Ids, i < size + 1, fd'[i] = g PROVE i <= owner[g]
        <5>1. i # size
          BY <1>0, <2>1, <3>2, <4>3
        <5> QED BY <1>0, <2>1, <2>3, <2>6, <4>1, <4>3, <5>1
      <4> QED BY <2>2, <4>1, <4>2, <4>3
    <3> QED BY <3>1, <3>2
  <2> QED BY <2>4, <2>5, <2>6
<1>3. ASSUME NEW i \in Ids, CloseSocket(i) PROVE Sockets'
  <2>1. /\ receiver[i] = "loop" /\ owner' = [owner EXCEPT ![fd[i]] = Free]
        /\ peer' = [peer EXCEPT ![i] = "closed"]
        /\ receiver' = [receiver EXCEPT ![i] = "closed"]
        /\ UNCHANGED <<size, fd>>
    BY <1>3 DEF CloseSocket
  <2>2. i < size /\ owner[fd[i]] = i /\ fd[i] \in Fds
    BY <1>0, <2>1 DEF Entries
  <2>3. ASSUME NEW j \in Ids, receiver'[j] = "loop" PROVE j < size /\ owner'[fd[j]] = j
    <3>1. j # i /\ receiver[j] = "loop"
      BY <1>0, <2>1, <2>3
    <3>2. j < size /\ owner[fd[j]] = j
      BY <1>0, <3>1
    <3> QED BY <1>0, <2>1, <2>2, <3>1, <3>2 DEF Entries
  <2>4. \A j \in Ids : peer'[j] \in {"open", "stalled"} => receiver'[j] = "loop"
    BY <1>0, <2>1
  <2>5. \A f \in Fds : owner'[f] # Free => owner'[f] = owner[f]
    BY <1>0, <2>1
  <2> QED BY <1>0, <2>1, <2>3, <2>4, <2>5
<1>4. ASSUME NEW i \in Ids, StopClient(i) PROVE Sockets'
  <2>1. /\ receiver[i] = "closed" /\ receiver' = [receiver EXCEPT ![i] = "done"]
        /\ UNCHANGED <<size, fd, owner, peer>>
    BY <1>4 DEF StopClient
  <2> QED BY <1>0, <2>1
<1>5. ASSUME NEW i \in Ids, SendTo(i) \/ PeerCloses(i) \/ PeerStalls(i) PROVE Sockets'
  <2>1. UNCHANGED <<size, fd, receiver, owner>>
    BY <1>5 DEF SendTo, PeerCloses, PeerStalls
  <2>2. \A j \in Ids : peer'[j] \in {"open", "stalled"} => peer[j] \in {"open", "stalled"}
    BY <1>0, <1>5 DEF SendTo, PeerCloses, PeerStalls
  <2> QED BY <1>1, <2>1, <2>2
<1>6. CASE SendToEveryone \/ SetStop \/ SendToSignal \/ JoinSender \/ UNCHANGED vars
  BY <1>1, <1>6 DEF SendToEveryone, SetStop, SendToSignal, JoinSender, vars
<1>7. CASE \/ Top \/ Check \/ Sleep \/ Wakes \/ Pick \/ CopyEntries \/ SkipStopped
           \/ SendSize \/ SendData \/ FreeSent \/ Drain
  BY <1>1, <1>7 DEF Top, Check, Sleep, Wakes, Awake, Pick, CopyEntries, SkipStopped,
                    SendSize, SendData, FreeSent, Drain
<1> QED BY <1>2, <1>3, <1>4, <1>5, <1>6, <1>7, NextCases

LEMMA CopiesStep == StreamInv /\ [Next]_vars => Copies'
<1> SUFFICES ASSUME StreamInv, [Next]_vars PROVE Copies'
  OBVIOUS
<1> USE DEF Copies, tableVars, netVars, msgVars, hostVars, senderVars
<1>0. /\ Copies /\ Phases /\ Numbered /\ size \in Nat /\ size <= MaxClients
      /\ work \in Seq(Copy) /\ DOMAIN work = 1 .. Len(work) /\ Len(work) \in Nat
      /\ \A k \in DOMAIN work : work[k].id \in Ids /\ work[k].id # size
      /\ hand \in Messages \cup {Null} /\ fd \in [Ids -> Fds \cup {Free}]
  <2>1. work \in Seq(Copy)
    BY StreamTypes
  <2>2. \A k \in DOMAIN work : work[k] \in Copy
    BY <2>1
  <2>3. \A k \in DOMAIN work : work[k].id \in Ids /\ work[k].id < size
    BY <2>2 DEF Copy, StreamInv, Copies
  <2>4. \A k \in DOMAIN work : work[k].id # size
    BY <2>3, StreamTypes
  <2> QED BY <2>1, <2>3, <2>4, StreamTypes DEF StreamInv, SInv
<1>1. CASE UNCHANGED <<size, fd, work, hand>>
  BY <1>0, <1>1
<1>2. CASE Accept
  <2>1. PICK f \in Fds : fd' = [fd EXCEPT ![size] = f]
    BY <1>2 DEF Accept
  <2>2. size' = size + 1 /\ UNCHANGED <<work, hand>>
    BY <1>2 DEF Accept
  <2>3. \A k \in DOMAIN work : work[k].id < size + 1 /\ fd'[work[k].id] = fd[work[k].id]
    BY <1>0, <2>1 DEF Ids
  <2> QED BY <1>0, <2>2, <2>3
<1>3. CASE Pick \/ FreeSent \/ Drain
  <2>1. work' = work /\ work = <<>> /\ UNCHANGED <<size, fd>>
    BY <1>0, <1>3 DEF Pick, FreeSent, Drain, Phases
  <2> QED BY <2>1
<1>4. CASE CopyEntries
  <2>1. hand \in Messages /\ (hand.kind = "one" => hand.to \in Ids /\ hand.to < size)
    BY <1>0, <1>4, MessageKinds DEF Phases, Numbered, CopyEntries
  <2>2. UNCHANGED <<size, fd, hand>>
    BY <1>4 DEF CopyEntries
  <2>3. CASE hand.kind = "one"
    <3>1. work' = <<Entry(hand.to)>>
      BY <1>4, <2>3 DEF CopyEntries
    <3>2. DOMAIN work' = {1} /\ work'[1].id = hand.to /\ work'[1].fd = fd[hand.to]
      BY <3>1 DEF Entry
    <3> QED BY <2>1, <2>2, <2>3, <3>2
  <2>4. CASE hand.kind # "one"
    <3>1. work' = [n \in 1 .. size |-> Entry(n - 1)]
      BY <1>4, <2>4 DEF CopyEntries
    <3>2. /\ DOMAIN work' = 1 .. size
          /\ \A k \in 1 .. size : work'[k].id = k - 1 /\ work'[k].fd = fd[k - 1]
      BY <3>1 DEF Entry
    <3> QED BY <1>0, <2>2, <2>4, <3>2
  <2> QED BY <2>3, <2>4
<1>5. CASE SkipStopped \/ SendData
  <2>1. work # <<>> /\ work' = Tail(work) /\ UNCHANGED <<size, fd, hand>>
    BY <1>0, <1>5 DEF SkipStopped, SendData, Phases
  <2>2. /\ DOMAIN work' = 1 .. Len(work) - 1
        /\ \A k \in 1 .. Len(work) - 1 : k + 1 \in DOMAIN work /\ work'[k] = work[k + 1]
    BY <1>0, <2>1, Beheaded
  <2>3. \A j, k \in DOMAIN work' : j < k => j + 1 < k + 1
    BY <1>0, <2>2
  <2> QED BY <1>0, <2>1, <2>2, <2>3
<1>6. ASSUME NEW i \in Ids, \/ SendTo(i) \/ PeerCloses(i) \/ PeerStalls(i)
                            \/ CloseSocket(i) \/ StopClient(i)
      PROVE Copies'
  BY <1>1, <1>6 DEF SendTo, PeerCloses, PeerStalls, CloseSocket, StopClient
<1>7. CASE SendToEveryone \/ SetStop \/ SendToSignal \/ JoinSender \/ UNCHANGED vars
  BY <1>1, <1>7 DEF SendToEveryone, SetStop, SendToSignal, JoinSender, vars
<1>8. CASE Top \/ Check \/ Sleep \/ Wakes \/ SendSize
  BY <1>1, <1>8 DEF Top, Check, Sleep, Wakes, Awake, SendSize
<1> QED BY <1>2, <1>3, <1>4, <1>5, <1>6, <1>7, <1>8, NextCases

-----------------------------------------------------------------------------
(* A send() on the copy of an entry reaches a client on a fresh descriptor  *)
(* only if the entry is its own, and then if it is connected.               *)
LEMMA Delivery ==
  ASSUME StreamInv, work # <<>>, NEW part, Send(part), NEW i \in Ids, Fresh(i)
  PROVE  LET p == [part |-> part, msg |-> hand]
         IN /\ \/ wire'[i] = wire[i]
               \/ /\ Head(work).id = i /\ peer[i] = "open" /\ i < size
                  /\ wire'[i] = Append(wire[i], p)
            /\ peer[i] \in {"open", "stalled"} /\ Head(work).id = i =>
                 wire'[i] = Append(wire[i], p)
<1> DEFINE e == Head(work)
           c == owner[e.fd]
           p == [part |-> part, msg |-> hand]
<1>1. /\ work \in Seq(Copy) /\ wire \in [Ids -> Seq(Part)]
      /\ owner \in [Fds -> Ids \cup {Free}] /\ Free \notin Ids
  BY StreamTypes
<1>2. e \in Copy /\ e = work[1] /\ 1 \in DOMAIN work
  BY <1>1, Beheaded
<1>3. e.id \in Ids /\ e.fd \in Fds /\ e.id < size /\ e.fd = fd[e.id]
  BY <1>2 DEF Copy, StreamInv, Copies
<1>4. c \in Ids \cup {Free}
  BY <1>1, <1>3
<1>5. c = i => e.id = i
  <2>1. SUFFICES ASSUME c = i PROVE e.id = i
    OBVIOUS
  <2>2. fd[i] = e.fd /\ e.id <= i
    BY <1>1, <1>3, <2>1 DEF StreamInv, Sockets
  <2>3. ~ (e.id < i)
    BY <1>3, <2>2 DEF Fresh
  <2> QED BY <1>3, <2>2, <2>3 DEF Ids
<1>6. e.id = i /\ peer[i] \in {"open", "stalled"} => c = i
  BY <1>3 DEF StreamInv, Sockets
<1>7. \/ (IF c = Free THEN "none" ELSE peer[c]) = "open" /\ wire' = [wire EXCEPT ![c] = Append(wire[c], p)]
      \/ wire' = wire /\ (IF c = Free THEN "none" ELSE peer[c]) \in {"none", "closed"}
  BY DEF Send
<1> HIDE DEF e, c, p
<1>8. CASE (IF c = Free THEN "none" ELSE peer[c]) = "open" /\ wire' = [wire EXCEPT ![c] = Append(wire[c], p)]
  <2>1. c \in Ids /\ peer[c] = "open"
    BY <1>4, <1>8
  <2>2. c = i => i < size /\ wire'[i] = Append(wire[i], p)
    BY <1>1, <1>3, <1>5, <1>8, <2>1
  <2>3. c # i => wire'[i] = wire[i]
    BY <1>1, <1>8
  <2> QED BY <1>5, <1>6, <2>1, <2>2, <2>3 DEF e, p
<1>9. CASE wire' = wire /\ (IF c = Free THEN "none" ELSE peer[c]) \in {"none", "closed"}
  <2>1. ~ (e.id = i /\ peer[i] \in {"open", "stalled"})
    BY <1>1, <1>6, <1>9
  <2> QED BY <1>9, <2>1 DEF e
<1> QED BY <1>7, <1>8, <1>9

(* Nothing is sent to who has not connected yet.                            *)
LEMMA UntouchedStep == StreamInv /\ [Next]_vars => Untouched'
<1> SUFFICES ASSUME StreamInv, [Next]_vars PROVE Untouched'
  OBVIOUS
<1> USE DEF Untouched, tableVars, netVars, msgVars, hostVars, senderVars
<1>0. /\ Untouched /\ size \in Nat /\ wire \in [Ids -> Seq(Part)]
      /\ \A i \in Ids : i \in Int
  BY StreamTypes DEF StreamInv
<1>1. CASE size' = size /\ wire' = wire
  BY <1>0, <1>1
<1>2. CASE Accept
  BY <1>0, <1>2 DEF Accept
<1>3. CASE SendSize \/ SendData
  <2>1. work # <<>> /\ size' = size /\ (Send("size") \/ Send("data"))
    BY <1>3 DEF SendSize, SendData, StreamInv, SInv, Phases
  <2> DEFINE c == owner[Head(work).fd]
  <2>2. c \in Ids => c < size
    <3>1. work \in Seq(Copy)
      BY DEF StreamInv, SInv, TypeOK, Copy, StatusSet
    <3>2. Head(work) \in Copy
      BY <2>1, <3>1, Beheaded
    <3> QED BY <3>2 DEF Copy, StreamInv, Sockets, Ids, Free
  <2>3. \/ wire' = wire
        \/ \E part : wire' = [wire EXCEPT ![c] = Append(wire[c], [part |-> part, msg |-> hand])]
    BY <2>1 DEF Send
  <2> HIDE DEF c
  <2>4. ASSUME NEW i \in Ids, i >= size PROVE wire'[i] = wire[i]
    <3>1. c # i
      BY <1>0, <2>2, <2>4
    <3> QED BY <1>0, <2>3, <3>1
  <2> QED BY <1>0, <2>1, <2>4
<1>4. ASSUME NEW i \in Ids, \/ SendTo(i) \/ PeerCloses(i) \/ PeerStalls(i)
                            \/ CloseSocket(i) \/ StopClient(i)
      PROVE Untouched'
  BY <1>1, <1>4 DEF SendTo, PeerCloses, PeerStalls, CloseSocket, StopClient
<1>5. CASE SendToEveryone \/ SetStop \/ SendToSignal \/ JoinSender \/ UNCHANGED vars
  BY <1>1, <1>5 DEF SendToEveryone, SetStop, SendToSignal, JoinSender, vars
<1>6. CASE \/ Top \/ Check \/ Sleep \/ Wakes \/ Pick \/ CopyEntries \/ SkipStopped
           \/ FreeSent \/ Drain
  BY <1>1, <1>6 DEF Top, Check, Sleep, Wakes, Awake, Pick, CopyEntries, SkipStopped,
                    FreeSent, Drain
<1> QED BY <1>2, <1>3, <1>4, <1>5, <1>6, NextCases

(* Who has a fresh descriptor has had it since it connected.                *)
LEMMA FreshBefore ==
  ASSUME StreamInv, [Next]_vars, NEW i \in Ids, Fresh(i)'
  PROVE  \/ i < size /\ Fresh(i)
         \/ i >= size /\ wire[i] = <<>> /\ wire'[i] = <<>>
            /\ (i < size' => peer'[i] = "open" /\ UNCHANGED senderVars)
<1>1. /\ size \in Nat /\ i \in Int /\ fd \in [Ids -> Fds \cup {Free}]
      /\ peer \in [Ids -> {"none", "open", "stalled", "closed"}]
      /\ wire \in [Ids -> Seq(Part)]
      /\ i >= size => wire[i] = <<>>
  BY StreamTypes DEF StreamInv, Untouched
<1>2. CASE Accept
  <2>1. PICK f \in Fds : fd' = [fd EXCEPT ![size] = f]
    BY <1>2 DEF Accept
  <2>2. /\ size' = size + 1 /\ peer' = [peer EXCEPT ![size] = "open"]
        /\ wire' = wire /\ UNCHANGED senderVars
    BY <1>2 DEF Accept, netVars
  <2>3. CASE i < size
    <3>1. \A j \in Ids : j <= i => fd'[j] = fd[j]
      BY <1>1, <2>1, <2>3 DEF Ids
    <3>2. Fresh(i)
      BY <1>1, <3>1 DEF Fresh, Ids
    <3> QED BY <2>3, <3>2
  <2>4. CASE i >= size
    BY <1>1, <2>2, <2>4
  <2> QED BY <1>1, <2>3, <2>4
<1>3. CASE UNCHANGED <<size, fd>>
  <2>1. Fresh(i)
    BY <1>3 DEF Fresh
  <2>2. i >= size => wire'[i] = <<>>
    BY <1>3, UntouchedStep DEF Untouched
  <2> QED BY <1>1, <1>3, <2>1, <2>2
<1>4. ASSUME NEW j \in Ids, \/ SendTo(j) \/ PeerCloses(j) \/ PeerStalls(j)
                            \/ CloseSocket(j) \/ StopClient(j)
      PROVE UNCHANGED <<size, fd>>
  BY <1>4 DEF SendTo, PeerCloses, PeerStalls, CloseSocket, StopClient, tableVars
<1>5. CASE \/ SendToEveryone \/ SetStop \/ SendToSignal \/ JoinSender
           \/ Top \/ Check \/ Sleep \/ Wakes \/ Pick \/ CopyEntries \/ SkipStopped
           \/ SendSize \/ SendData \/ FreeSent \/ Drain \/ UNCHANGED vars
  BY <1>3, <1>5 DEF SendToEveryone, SetStop, SendToSignal, JoinSender, Top,
       Check, Sleep, Wakes, Awake, Pick, CopyEntries, SkipStopped, SendSize, SendData,
       FreeSent, Drain, tableVars, vars
<1> QED BY <1>2, <1>3, <1>4, <1>5, NextCases

(* A client that is connected was so before, unless it has just come.       *)
LEMMA PeerBefore ==
  ASSUME StreamInv, [Next]_vars, NEW i \in Ids, i < size,
         peer'[i] \in {"open", "stalled"}
  PROVE  peer[i] \in {"open", "stalled"}
<1> USE DEF netVars
<1>0. peer \in [Ids -> {"none", "open", "stalled", "closed"}] /\ size \in Nat
  BY StreamTypes
<1>1. CASE Accept
  BY <1>0, <1>1, StreamTypes DEF Accept
<1>2. ASSUME NEW j \in Ids, \/ SendTo(j) \/ PeerCloses(j) \/ PeerStalls(j)
                            \/ CloseSocket(j) \/ StopClient(j)
      PROVE peer[i] \in {"open", "stalled"}
  BY <1>0, <1>2 DEF SendTo, PeerCloses, PeerStalls, CloseSocket, StopClient
<1>3. CASE \/ SendToEveryone \/ SetStop \/ SendToSignal \/ JoinSender
           \/ Top \/ Check \/ Sleep \/ Wakes \/ Pick \/ CopyEntries \/ SkipStopped
           \/ SendSize \/ SendData \/ FreeSent \/ Drain \/ UNCHANGED vars
  BY <1>3 DEF SendToEveryone, SetStop, SendToSignal, JoinSender, Top,
       Check, Sleep, Wakes, Awake, Pick, CopyEntries, SkipStopped, SendSize, SendData,
       FreeSent, Drain, vars
<1> QED BY <1>1, <1>2, <1>3, NextCases

(* A step that is no send().                                                *)
LEMMA Quiet ==
  ASSUME StreamInv, [Next]_vars, ~ SendSize, ~ SendData
  PROVE  /\ wire' = wire
         /\ sender' = "data" <=> sender = "data"
         /\ sender = "data" => UNCHANGED <<hand, work>>
<1> USE DEF netVars, senderVars
<1>1. CASE Accept \/ SendToEveryone \/ SetStop \/ SendToSignal \/ JoinSender \/ UNCHANGED vars
  BY <1>1 DEF Accept, SendToEveryone, SetStop, SendToSignal, JoinSender, vars
<1>2. ASSUME NEW j \in Ids, \/ SendTo(j) \/ PeerCloses(j) \/ PeerStalls(j)
                            \/ CloseSocket(j) \/ StopClient(j)
      PROVE wire' = wire /\ UNCHANGED senderVars
  BY <1>2 DEF SendTo, PeerCloses, PeerStalls, CloseSocket, StopClient
<1>3. CASE \/ Top \/ Check \/ Sleep \/ Wakes \/ Pick \/ CopyEntries \/ SkipStopped
           \/ FreeSent \/ Drain
  BY <1>3 DEF Top, Check, Sleep, Wakes, Awake, Pick, CopyEntries, SkipStopped, FreeSent, Drain
<1> QED BY <1>1, <1>2, <1>3, NextCases

(* One more turns an even length into an odd one, and back.                 *)
LEMMA Parity ==
  \A n \in Nat : /\ n % 2 = 0 \/ n % 2 = 1
                 /\ n % 2 = 0 <=> (n + 1) % 2 = 1
                 /\ n % 2 = 1 <=> (n + 1) % 2 = 0
                 /\ n % 2 = 1 => n % 2 # 0 /\ n # 0
OBVIOUS

LEMMA WholeStep == StreamInv /\ [Next]_vars => Whole'
<1> SUFFICES ASSUME StreamInv, [Next]_vars, NEW i \in Ids,
                    Fresh(i)', peer'[i] \in {"open", "stalled"}
             PROVE  /\ Half(i)' <=> Len(wire'[i]) % 2 = 1
                    /\ Half(i)' => wire'[i][Len(wire'[i])].msg = hand'
  BY DEF Whole
<1>0. wire[i] \in Seq(Part) /\ Len(wire[i]) \in Nat /\ work \in Seq(Copy) /\ size \in Nat /\ i \in Nat
  BY StreamTypes
<1>1. i < size'
  BY SocketsStep DEF Sockets
<1>2. CASE i >= size
  <2>1. wire'[i] = <<>> /\ sender' = sender /\ work' = work
    BY <1>0, <1>1, <1>2, FreshBefore DEF senderVars
  <2>2. sender = "data" => Head(work) = work[1] /\ 1 \in DOMAIN work
    BY <1>0, Beheaded DEF StreamInv, SInv, Phases
  <2>3. ~ Half(i)'
    BY <1>0, <1>2, <2>1, <2>2 DEF Half, StreamInv, Copies
  <2> QED BY <2>1, <2>3
<1>3. CASE i < size
  <2>1. Fresh(i) /\ peer[i] \in {"open", "stalled"}
    BY <1>0, <1>3, FreshBefore, PeerBefore
  <2>2. /\ Half(i) <=> Len(wire[i]) % 2 = 1
        /\ Half(i) => wire[i][Len(wire[i])].msg = hand
    BY <2>1 DEF StreamInv, Whole
  <2>3. CASE SendSize
    <3>1. /\ sender = "size" /\ sender' = "data" /\ work # <<>> /\ Send("size")
          /\ UNCHANGED <<work, hand>>
      BY <2>3 DEF SendSize
    <3>2. ~ Half(i) /\ (Half(i)' <=> Head(work).id = i)
      BY <3>1 DEF Half
    <3>3. CASE Head(work).id = i
      <4> DEFINE p == [part |-> "size", msg |-> hand]
      <4>1. wire'[i] = Append(wire[i], p)
        BY <2>1, <3>1, <3>3, Delivery
      <4>2. p.msg = hand
        OBVIOUS
      <4> HIDE DEF p
      <4>3. Len(wire'[i]) = Len(wire[i]) + 1 /\ wire'[i][Len(wire[i]) + 1] = p
        BY <1>0, <4>1
      <4>4. Len(wire'[i]) % 2 = 1
        BY <1>0, <2>2, <3>2, <4>3, Parity
      <4> QED BY <3>1, <3>2, <3>3, <4>2, <4>3, <4>4
    <3>4. CASE Head(work).id # i
      BY <2>1, <2>2, <3>1, <3>2, <3>4, Delivery
    <3> QED BY <3>3, <3>4
  <2>4. CASE SendData
    <3>1. sender = "data" /\ sender' = "size" /\ work # <<>> /\ Send("data")
      BY <2>4 DEF SendData, StreamInv, SInv, Phases
    <3>2. ~ Half(i)' /\ (Half(i) <=> Head(work).id = i)
      BY <3>1 DEF Half
    <3>3. CASE Head(work).id = i
      <4> DEFINE p == [part |-> "data", msg |-> hand]
      <4>1. wire'[i] = Append(wire[i], p)
        BY <2>1, <3>1, <3>3, Delivery
      <4> HIDE DEF p
      <4>2. Len(wire'[i]) = Len(wire[i]) + 1
        BY <1>0, <4>1
      <4>3. (Len(wire[i]) + 1) % 2 # 1
        BY <1>0, <2>2, <3>2, <3>3, Parity
      <4>4. Len(wire'[i]) % 2 # 1
        BY <4>2, <4>3
      <4> QED BY <3>2, <4>4
    <3>4. CASE Head(work).id # i
      BY <2>1, <2>2, <3>1, <3>2, <3>4, Delivery
    <3> QED BY <3>3, <3>4
  <2>5. CASE ~ SendSize /\ ~ SendData
    BY <2>2, <2>5, Quiet DEF Half
  <2> QED BY <2>3, <2>4, <2>5
<1>4. i >= size \/ i < size
  BY <1>0
<1> QED BY <1>2, <1>3, <1>4, Zenon

(* What a step adds to the stream of a client on a fresh descriptor: at     *)
(* most the part that its framing asks for.                                 *)
LEMMA Added ==
  ASSUME StreamInv, [Next]_vars, NEW i \in Ids, Fresh(i)'
  PROVE  \/ wire'[i] = wire[i]
         \/ /\ SendSize /\ Fresh(i) /\ i < size /\ work # <<>> /\ Head(work).id = i
            /\ Len(wire[i]) % 2 = 0
            /\ wire'[i] = Append(wire[i], [part |-> "size", msg |-> hand])
         \/ /\ SendData /\ Fresh(i) /\ i < size /\ work # <<>> /\ Head(work).id = i
            /\ Len(wire[i]) % 2 = 1
            /\ wire[i][Len(wire[i])].msg = hand
            /\ wire'[i] = Append(wire[i], [part |-> "data", msg |-> hand])
<1>0. Len(wire[i]) \in Nat /\ size \in Nat /\ i \in Nat
  BY StreamTypes
<1>1. CASE i >= size
  <2>1. wire[i] = <<>> /\ wire'[i] = <<>>
    BY <1>0, <1>1, FreshBefore
  <2> QED BY <2>1
<1>2. CASE i < size /\ SendSize
  <2>1. Fresh(i) /\ sender = "size" /\ work # <<>> /\ Send("size")
    BY <1>0, <1>2, FreshBefore DEF SendSize
  <2>2. ~ Half(i)
    BY <2>1 DEF Half
  <2>3. peer[i] = "open" => Len(wire[i]) % 2 = 0
    BY <1>0, <2>1, <2>2, Parity DEF StreamInv, Whole
  <2> QED BY <1>2, <2>1, <2>3, Delivery
<1>3. CASE i < size /\ SendData
  <2>1. Fresh(i) /\ sender = "data" /\ work # <<>> /\ Send("data")
    BY <1>0, <1>3, FreshBefore DEF SendData, StreamInv, SInv, Phases
  <2>2. Head(work).id = i => Half(i)
    BY <2>1 DEF Half
  <2>3. peer[i] = "open" /\ Head(work).id = i =>
          Len(wire[i]) % 2 = 1 /\ wire[i][Len(wire[i])].msg = hand
    BY <2>1, <2>2 DEF StreamInv, Whole
  <2> QED BY <1>3, <2>1, <2>3, Delivery
<1>4. CASE ~ SendSize /\ ~ SendData
  BY <1>4, Quiet
<1>5. i >= size \/ i < size
  BY <1>0
<1> QED BY <1>1, <1>2, <1>3, <1>4, <1>5, Zenon

LEMMA FramedStep == StreamInv /\ [Next]_vars => FreshFramed'
<1> SUFFICES ASSUME StreamInv, [Next]_vars, NEW i \in Ids, Fresh(i)', NEW j \in DOMAIN wire'[i]
             PROVE  IF j % 2 = 1 THEN wire'[i][j].part = "size"
                    ELSE wire'[i][j] = [part |-> "data", msg |-> wire'[i][j - 1].msg]
  BY DEF FreshFramed
<1>0. /\ wire[i] \in Seq(Part) /\ Len(wire[i]) \in Nat
      /\ DOMAIN wire[i] = 1 .. Len(wire[i])
      /\ size \in Nat /\ i \in Nat
  BY StreamTypes
<1>1. CASE i >= size
  <2>1. wire'[i] = <<>>
    BY <1>0, <1>1, FreshBefore
  <2> QED BY <2>1
<1>2. CASE i < size
  <2>1. Fresh(i)
    BY <1>0, <1>2, FreshBefore
  <2>2. \A k \in DOMAIN wire[i] :
          IF k % 2 = 1 THEN wire[i][k].part = "size"
          ELSE wire[i][k] = [part |-> "data", msg |-> wire[i][k - 1].msg]
    BY <2>1 DEF StreamInv, FreshStream, FreshFramed
  <2>3. CASE wire'[i] = wire[i]
    BY <2>2, <2>3
  <2>4. ASSUME NEW part \in {"size", "data"},
               wire'[i] = Append(wire[i], [part |-> part, msg |-> hand]),
               part = "size" => Len(wire[i]) % 2 = 0,
               part = "data" => Len(wire[i]) % 2 = 1 /\ wire[i][Len(wire[i])].msg = hand
        PROVE  IF j % 2 = 1 THEN wire'[i][j].part = "size"
               ELSE wire'[i][j] = [part |-> "data", msg |-> wire'[i][j - 1].msg]
    <3> DEFINE p == [part |-> part, msg |-> hand]
    <3>1. p.part = part /\ p.msg = hand
      OBVIOUS
    <3>2. part = "data" => p = [part |-> "data", msg |-> hand]
      OBVIOUS
    <3>3. wire'[i] = Append(wire[i], p)
      BY <2>4
    <3> HIDE DEF p
    <3>4. /\ DOMAIN wire'[i] = 1 .. Len(wire[i]) + 1
          /\ \A k \in 1 .. Len(wire[i]) : wire'[i][k] = wire[i][k]
          /\ wire'[i][Len(wire[i]) + 1] = p
      BY <1>0, <3>3
    <3>5. CASE j = Len(wire[i]) + 1
      <4>1. CASE part = "size"
        <5>1. j % 2 = 1
          BY <1>0, <2>4, <3>5, <4>1, Parity
        <5> QED BY <3>1, <3>4, <3>5, <4>1, <5>1
      <4>2. CASE part = "data"
        <5>0. j % 2 = 0 /\ Len(wire[i]) # 0
          BY <1>0, <2>4, <3>5, <4>2, Parity
        <5>1. j % 2 # 1
          BY <5>0
        <5>2. Len(wire[i]) # 0
          BY <5>0
        <5>3. j - 1 = Len(wire[i]) /\ Len(wire[i]) \in 1 .. Len(wire[i])
          BY <1>0, <3>5, <5>2
        <5>4. wire'[i][j - 1].msg = hand
          BY <2>4, <3>4, <4>2, <5>3
        <5> QED BY <3>2, <3>4, <3>5, <4>2, <5>1, <5>4
      <4> QED BY <4>1, <4>2
    <3>6. CASE j # Len(wire[i]) + 1
      <4>1. j \in DOMAIN wire[i] /\ wire'[i][j] = wire[i][j]
        BY <1>0, <3>4, <3>6
      <4>2. j % 2 # 1 => j - 1 \in 1 .. Len(wire[i])
        BY <1>0, <4>1
      <4> QED BY <2>2, <3>4, <4>1, <4>2
    <3> QED BY <3>5, <3>6
  <2> QED BY <2>3, <2>4, Added
<1> QED BY <1>0, <1>1, <1>2

(* The numbers of the messages there are.                                   *)
LEMMA Counted ==
  ASSUME StreamInv
  PROVE  /\ made.one \in Nat /\ made.all \in Nat
         /\ \A m \in Messages : m.n \in Nat /\ m.kind \in {"one", "all"}
         /\ DOMAIN queue = 1 .. Len(queue) /\ Len(queue) \in Nat
         /\ \A j \in DOMAIN queue : queue[j] \in Messages /\ queue[j].kind = "one"
                                    /\ queue[j].n <= made.one
         /\ slot # Null => slot \in Messages /\ slot.kind = "all" /\ slot.n <= made.all
         /\ hand # Null => hand \in Messages
         /\ Null.kind = "null"
<1>1. made.one \in Nat /\ made.all \in Nat
  BY StreamTypes, SendAssumption
<1>2. \A m \in Messages : m.n \in Nat /\ m.kind \in {"one", "all"}
  BY MessageKinds, SendAssumption
<1>3. /\ DOMAIN queue = 1 .. Len(queue) /\ Len(queue) \in Nat
      /\ \A j \in DOMAIN queue : queue[j] \in Messages
  BY StreamTypes
<1>4. Numbered
  BY DEF StreamInv, SInv
<1> QED BY <1>1, <1>2, <1>3, <1>4, StreamTypes, MessageKinds DEF Numbered

(* What came before everything still to be sent, stays so.                  *)
LEMMA BeforeStep ==
  ASSUME StreamInv, [Next]_vars, NEW i \in Ids, NEW p \in Part, Before(i, p)
  PROVE  Before(i, p)'
<1> USE DEF Before, tableVars, netVars, msgVars, hostVars, senderVars
<1>0. /\ p.msg \in Messages /\ p.msg.n \in Nat /\ p.msg.kind \in {"one", "all"}
      /\ p.part \in {"size", "data"}
  BY Counted DEF Part
<1>1. ASSUME UNCHANGED <<queue, slot, made, hand>>, Pending(i, p.part)' => Pending(i, p.part)
      PROVE Before(i, p)'
  BY <1>1
<1>2. CASE SendToEveryone
  <2>1. /\ slot' = All(made.all + 1) /\ made' = [made EXCEPT !.all = made.all + 1]
        /\ UNCHANGED <<queue, hand, sender, work>>
    BY <1>2 DEF SendToEveryone
  <2>2. /\ slot'.kind = "all" /\ slot'.n = made.all + 1
        /\ made'.all = made.all + 1 /\ made'.one = made.one
    BY <2>1, StreamTypes DEF All
  <2>3. Pending(i, p.part)' <=> Pending(i, p.part)
    BY <2>1 DEF Pending
  <2> QED BY <1>0, <2>1, <2>2, <2>3, Counted
<1>3. ASSUME NEW k \in Ids, SendTo(k) PROVE Before(i, p)'
  <2> DEFINE m == One(made.one + 1, k)
  <2>1. /\ queue' = Append(queue, m) /\ made' = [made EXCEPT !.one = made.one + 1]
        /\ made.one < MaxOne
        /\ UNCHANGED <<slot, hand, sender, work>>
    BY <1>3 DEF SendTo
  <2>2. /\ made'.one = made.one + 1 /\ made'.all = made.all /\ m.n = made.one + 1
    BY <2>1, StreamTypes DEF One
  <2>3. m \in Messages
    BY <1>3, <2>1, Counted, MessageKinds, SendAssumption
  <2> HIDE DEF m
  <2>4. /\ DOMAIN queue' = 1 .. Len(queue) + 1
        /\ \A j \in 1 .. Len(queue) : queue'[j] = queue[j]
        /\ queue'[Len(queue) + 1] = m
    BY <2>1, <2>3, StreamTypes, Appended
  <2>5. Pending(i, p.part)' <=> Pending(i, p.part)
    BY <2>1 DEF Pending
  <2>6. p.msg.kind = "one" =>
          p.msg.n <= made'.one /\ \A j \in DOMAIN queue' : p.msg.n < queue'[j].n
    <3> SUFFICES ASSUME p.msg.kind = "one"
                 PROVE  p.msg.n <= made'.one /\ \A j \in DOMAIN queue' : p.msg.n < queue'[j].n
      OBVIOUS
    <3>1. p.msg.n <= made.one /\ \A j \in DOMAIN queue : p.msg.n < queue[j].n
      OBVIOUS
    <3>2. p.msg.n < made.one + 1
      BY <1>0, <3>1, Counted
    <3> QED BY <1>0, <2>2, <2>4, <3>1, <3>2, Counted
  <2> QED BY <2>1, <2>2, <2>5, <2>6
<1>4. CASE Pick
  <2>1. UNCHANGED made
    BY <1>4 DEF Pick
  <2>2. CASE queue # <<>> /\ hand' = Head(queue) /\ queue' = Tail(queue) /\ UNCHANGED slot
    <3>1. /\ hand' = queue[1] /\ 1 \in DOMAIN queue
          /\ DOMAIN queue' = 1 .. Len(queue) - 1
          /\ \A j \in 1 .. Len(queue) - 1 : j + 1 \in DOMAIN queue /\ queue'[j] = queue[j + 1]
      BY <2>2, StreamTypes, Beheaded
    <3>2. hand'.kind = "one" /\ hand'.n \in Nat
      BY <3>1, Counted
    <3>3. p.msg.kind = hand'.kind => p.msg.n <= hand'.n /\ p.msg.n < hand'.n
      BY <1>0, <3>1, <3>2
    <3> QED BY <1>0, <2>1, <2>2, <3>1, <3>3
  <2>3. CASE queue = <<>> /\ hand' = slot /\ slot' = Null /\ UNCHANGED queue
    <3>1. slot # Null
      BY <1>4, <2>3 DEF Pick, StreamInv, SInv, Phases
    <3>2. slot.kind = "all" /\ slot.n \in Nat
      BY <3>1, Counted
    <3>3. p.msg.kind = hand'.kind => p.msg.n <= hand'.n /\ p.msg.n < hand'.n
      BY <1>0, <2>3, <3>1, <3>2
    <3> QED BY <1>0, <2>1, <2>3, <3>3
  <2> QED BY <1>4, <2>2, <2>3 DEF Pick
<1>5. CASE FreeSent
  <2>1. hand' = Null /\ UNCHANGED <<queue, slot, made>>
    BY <1>5 DEF FreeSent
  <2> QED BY <1>0, <2>1, Counted
<1>6. CASE Drain
  <2>1. queue' = <<>> /\ UNCHANGED <<slot, made, hand, work>> /\ hand = Null
    BY <1>6 DEF Drain, StreamInv, SInv, Phases
  <2> QED BY <1>0, <2>1, Counted
<1>7. CASE CopyEntries
  <2>1. UNCHANGED <<queue, slot, made, hand>> /\ Pending(i, p.part)
    BY <1>7 DEF CopyEntries, Pending
  <2> QED BY <1>1, <2>1
<1>8. CASE SkipStopped \/ SendData
  <2>1. /\ work # <<>> /\ work' = Tail(work) /\ sender' = "size"
        /\ UNCHANGED <<queue, slot, made, hand>>
    BY <1>8 DEF SkipStopped, SendData, StreamInv, SInv, Phases
  <2>2. /\ DOMAIN work' = 1 .. Len(work) - 1 /\ Len(work) \in Nat
        /\ \A k \in 1 .. Len(work) - 1 : k + 1 \in DOMAIN work /\ k + 1 # 1 /\ work'[k] = work[k + 1]
    BY <2>1, StreamTypes, Beheaded
  <2>3. Pending(i, p.part)' => Pending(i, p.part)
    BY <2>1, <2>2 DEF Pending
  <2> QED BY <1>1, <2>1, <2>3
<1>9. CASE SendSize
  <2>1. sender = "size" /\ sender' = "data" /\ UNCHANGED <<queue, slot, made, hand, work>>
    BY <1>9 DEF SendSize
  <2>2. Pending(i, p.part)' => Pending(i, p.part)
    BY <2>1 DEF Pending
  <2> QED BY <1>1, <2>1, <2>2
<1>10. ASSUME NEW k \in Ids, \/ PeerCloses(k) \/ PeerStalls(k) \/ CloseSocket(k) \/ StopClient(k)
       PROVE Before(i, p)'
  <2>1. UNCHANGED <<queue, slot, made, hand, sender, work>>
    BY <1>10 DEF PeerCloses, PeerStalls, CloseSocket, StopClient
  <2> QED BY <1>1, <2>1 DEF Pending
<1>11. CASE Accept \/ SetStop \/ SendToSignal \/ JoinSender \/ UNCHANGED vars
  <2>1. UNCHANGED <<queue, slot, made, hand, sender, work>>
    BY <1>11 DEF Accept, SetStop, SendToSignal, JoinSender, vars
  <2> QED BY <1>1, <2>1 DEF Pending
<1>12. CASE Top \/ Check \/ Sleep \/ Wakes
  <2>1. UNCHANGED <<queue, slot, made, hand, work>> /\ sender # "data" /\ sender' # "copy"
    BY <1>12 DEF Top, Check, Sleep, Wakes, Awake
  <2>2. Pending(i, p.part)' => Pending(i, p.part)
    BY <2>1 DEF Pending
  <2> QED BY <1>1, <2>1, <2>2
<1> QED BY <1>2, <1>3, <1>4, <1>5, <1>6, <1>7, <1>8, <1>9, <1>10, <1>11, <1>12, NextCases

(* The part that is sent comes after all of its kind that were, and before  *)
(* all that is still to be.                                                 *)
LEMMA SentInOrder ==
  ASSUME StreamInv, [Next]_vars, NEW i \in Ids, i < size, work # <<>>, Head(work).id = i,
         NEW part \in {"size", "data"},
         \/ SendSize /\ part = "size"
         \/ SendData /\ part = "data",
         NEW p, p = [part |-> part, msg |-> hand]
  PROVE  Pending(i, part) /\ Before(i, p)'
<1>1. /\ UNCHANGED <<queue, slot, made, hand>>
      /\ hand \in Messages /\ hand.n \in Nat /\ hand.kind \in {"one", "all"}
  BY Counted DEF SendSize, SendData, StreamInv, SInv, Phases, msgVars, hostVars
<1>2. /\ DOMAIN work = 1 .. Len(work) /\ Len(work) \in Nat /\ 1 \in DOMAIN work
      /\ work[1].id = i /\ i \in Nat
      /\ DOMAIN Tail(work) = 1 .. Len(work) - 1
      /\ \A k \in 1 .. Len(work) - 1 : Tail(work)[k] = work[k + 1]
  BY StreamTypes, Beheaded
<1>3. \A k \in DOMAIN work : k # 1 => work[k].id # i
  BY <1>2 DEF StreamInv, Copies
<1>4. Pending(i, part)
  BY <1>2 DEF Pending, SendSize, SendData
<1>5. ~ Pending(i, part)'
  <2>1. CASE SendSize /\ part = "size"
    <3>1. work' = work /\ sender' = "data"
      BY <2>1 DEF SendSize
    <3> QED BY <1>3, <2>1, <3>1 DEF Pending
  <2>2. CASE SendData /\ part = "data"
    <3>1. work' = Tail(work) /\ sender' = "size"
      BY <2>2 DEF SendData
    <3>2. \A k \in DOMAIN work' : k + 1 \in DOMAIN work /\ k + 1 # 1 /\ work'[k] = work[k + 1]
      BY <1>2, <3>1
    <3>3. \A k \in DOMAIN work' : work'[k].id # i
      BY <1>3, <3>2
    <3> QED BY <3>1, <3>3 DEF Pending
  <2> QED BY <2>1, <2>2
<1>6. hand.to \in {i, Free}
  <2>1. CASE hand.kind = "one"
    BY <1>2, <2>1 DEF StreamInv, Copies
  <2>2. CASE hand.kind = "all"
    <3>1. hand = All(hand.n)
      BY <1>1, <2>2, MessageKinds
    <3> QED BY <3>1 DEF All
  <2> QED BY <1>1, <2>1, <2>2
<1>7. p.msg = hand /\ p.part = part
  OBVIOUS
<1>8. Before(i, p)'
  <2>1. Numbered
    BY DEF StreamInv, SInv
  <2>2. /\ hand.kind = "one" => hand.n <= made.one /\ \A j \in DOMAIN queue : hand.n < queue[j].n
        /\ hand.kind = "all" => hand.n <= made.all /\ (slot # Null => hand.n < slot.n)
        /\ hand.n <= hand.n
    BY <1>1, <2>1 DEF Numbered
  <2>3. ~ Pending(i, p.part)'
    BY <1>5, <1>7 DEF Pending
  <2> QED BY <1>1, <1>6, <1>7, <2>2, <2>3 DEF Before
<1> QED BY <1>4, <1>8

LEMMA OrderedStep == StreamInv /\ [Next]_vars => Ordered'
<1> SUFFICES ASSUME StreamInv, [Next]_vars, NEW i \in Ids, Fresh(i)',
                    NEW j \in DOMAIN wire'[i], NEW q, q = wire'[i][j]
             PROVE  Before(i, q)'
  BY DEF Ordered, Before, Pending
<1>0. /\ wire[i] \in Seq(Part) /\ Len(wire[i]) \in Nat /\ DOMAIN wire[i] = 1 .. Len(wire[i])
      /\ size \in Nat /\ i \in Nat
  BY StreamTypes
<1>1. i < size /\ Fresh(i)
  <2>1. i >= size => wire'[i] = <<>>
    BY <1>0, FreshBefore
  <2>2. i < size
    BY <1>0, <2>1
  <2> QED BY <1>0, <2>2, FreshBefore
<1>2. ASSUME NEW k \in DOMAIN wire[i], q = wire[i][k] PROVE Before(i, q)'
  <2>1. q \in Part
    BY <1>0, <1>2
  <2>2. Before(i, q)
    BY <1>1, <1>2 DEF StreamInv, Ordered
  <2> QED BY <2>1, <2>2, BeforeStep
<1>3. CASE wire'[i] = wire[i]
  BY <1>2, <1>3
<1>4. ASSUME NEW part \in {"size", "data"}, work # <<>>, Head(work).id = i,
             \/ SendSize /\ part = "size"
             \/ SendData /\ part = "data",
             wire'[i] = Append(wire[i], [part |-> part, msg |-> hand])
      PROVE  Before(i, q)'
  <2>1. q = [part |-> part, msg |-> hand] => Before(i, q)'
    BY <1>1, <1>4, SentInOrder
  <2>2. /\ DOMAIN wire'[i] = 1 .. Len(wire[i]) + 1
        /\ \A k \in 1 .. Len(wire[i]) : wire'[i][k] = wire[i][k]
        /\ wire'[i][Len(wire[i]) + 1] = [part |-> part, msg |-> hand]
    BY <1>0, <1>4
  <2>3. CASE j = Len(wire[i]) + 1
    BY <2>1, <2>2, <2>3
  <2>4. CASE j # Len(wire[i]) + 1
    <3>1. j \in DOMAIN wire[i] /\ q = wire[i][j]
      BY <1>0, <2>2, <2>4
    <3> QED BY <1>2, <3>1
  <2> QED BY <2>3, <2>4
<1> QED BY <1>3, <1>4, Added

LEMMA FreshStep == StreamInv /\ [Next]_vars => FreshStream'
<1> SUFFICES ASSUME StreamInv, [Next]_vars PROVE FreshStream'
  OBVIOUS
<1>1. FreshFramed'
  BY FramedStep
<1>2. ASSUME NEW i \in Ids, Fresh(i)'
      PROVE  /\ \A j \in DOMAIN wire'[i] : wire'[i][j].msg.to \in {i, Free}
             /\ \A j, k \in DOMAIN wire'[i] :
                  /\ j < k /\ wire'[i][j].part = wire'[i][k].part
                  /\ wire'[i][j].msg.kind = wire'[i][k].msg.kind
                  => wire'[i][j].msg.n < wire'[i][k].msg.n
  <2>0. /\ wire[i] \in Seq(Part) /\ Len(wire[i]) \in Nat /\ DOMAIN wire[i] = 1 .. Len(wire[i])
        /\ size \in Nat /\ i \in Nat
    BY StreamTypes
  <2>1. \A j \in DOMAIN wire'[i] : wire'[i][j].msg.to \in {i, Free}
    BY <1>2, OrderedStep DEF Ordered, Before
  <2>2. SUFFICES ASSUME NEW j \in DOMAIN wire'[i], NEW k \in DOMAIN wire'[i], j < k,
                        wire'[i][j].part = wire'[i][k].part,
                        wire'[i][j].msg.kind = wire'[i][k].msg.kind
                 PROVE  wire'[i][j].msg.n < wire'[i][k].msg.n
    BY <2>1
  <2>3. i < size /\ Fresh(i)
    <3>1. i >= size => wire'[i] = <<>>
      BY <1>2, <2>0, FreshBefore
    <3>2. i < size
      BY <2>0, <3>1
    <3> QED BY <1>2, <2>0, <3>2, FreshBefore
  <2>4. \A a, b \in DOMAIN wire[i] :
          /\ a < b /\ wire[i][a].part = wire[i][b].part
          /\ wire[i][a].msg.kind = wire[i][b].msg.kind
          => wire[i][a].msg.n < wire[i][b].msg.n
    BY <2>3 DEF StreamInv, FreshStream
  <2>5. CASE wire'[i] = wire[i]
    BY <2>2, <2>4, <2>5
  <2>6. ASSUME NEW part \in {"size", "data"}, work # <<>>, Head(work).id = i,
               \/ SendSize /\ part = "size"
               \/ SendData /\ part = "data",
               wire'[i] = Append(wire[i], [part |-> part, msg |-> hand])
        PROVE  wire'[i][j].msg.n < wire'[i][k].msg.n
    <3> DEFINE p == [part |-> part, msg |-> hand]
    <3>1. Pending(i, part)
      BY <2>3, <2>6, SentInOrder
    <3>2. p.part = part /\ p.msg = hand
      OBVIOUS
    <3>3. wire'[i] = Append(wire[i], p)
      BY <2>6
    <3> HIDE DEF p
    <3>4. /\ DOMAIN wire'[i] = 1 .. Len(wire[i]) + 1
          /\ \A a \in 1 .. Len(wire[i]) : wire'[i][a] = wire[i][a]
          /\ wire'[i][Len(wire[i]) + 1] = p
      BY <2>0, <3>3
    <3>5. j \in DOMAIN wire[i] /\ wire'[i][j] = wire[i][j]
      BY <2>0, <2>2, <3>4
    <3>6. CASE k = Len(wire[i]) + 1
      <4>1. Before(i, wire[i][j])
        BY <2>3, <3>5 DEF StreamInv, Ordered
      <4>2. wire[i][j].part = part /\ wire[i][j].msg.kind = hand.kind /\ wire'[i][k].msg = hand
        BY <2>2, <3>2, <3>4, <3>5, <3>6
      <4>3. wire[i][j].msg.n < hand.n
        BY <3>1, <4>1, <4>2 DEF Before
      <4> QED BY <3>5, <4>2, <4>3
    <3>7. CASE k # Len(wire[i]) + 1
      <4>1. k \in DOMAIN wire[i] /\ wire'[i][k] = wire[i][k]
        BY <2>0, <3>4, <3>7
      <4> QED BY <2>2, <2>4, <3>5, <4>1
    <3> QED BY <3>6, <3>7
  <2> QED BY <1>2, <2>5, <2>6, Added
<1> QED BY <1>1, <1>2 DEF FreshStream

LEMMA StreamInvariance == Spec => []StreamInv
<1>1. StreamInv /\ [Next]_vars => StreamInv'
  <2> SUFFICES ASSUME StreamInv, [Next]_vars PROVE StreamInv'
    OBVIOUS
  <2>1. SInv'
    BY TypesStep, EntriesStep, PhasesStep, NumberedStep, OwnedStep DEF StreamInv, SInv
  <2> QED BY <2>1, SocketsStep, CopiesStep, UntouchedStep, WholeStep, OrderedStep, FreshStep
          DEF StreamInv
<1> QED BY <1>1, StreamInit, PTL DEF Spec

(* A peer whose descriptor nobody had before gets whole frames, of each     *)
(* kind its own alone, each once and in the order they were made, whatever  *)
(* the connections, closes and replaced broadcasts between (sendMessageTo,  *)
(* sendTo, sendToEveryone, startSending).                                   *)
THEOREM FreshStreamInOrder == Spec => []FreshStream
<1>1. StreamInv => FreshStream
  BY DEF StreamInv
<1> QED BY <1>1, StreamInvariance, PTL
=============================================================================
