---------------------------- MODULE ClientProofs ----------------------------
(***************************************************************************)
(* Proofs about Client for every size of the frames and every keyboard:    *)
(* nothing is read before it came and no number outgrows two bytes, the    *)
(* client stays in step with the frames it reads, the player's movement is *)
(* its keys', and PINGs come back once, in order, after the greeting.      *)
(***************************************************************************)
EXTENDS Client, WellFoundedInduction, TLAPS

Pings     == [type : {"PING"}, n : 0 .. MaxPing]
Moves     == [type : {"CHANGE_MOVEMENT_DIRECTION"}, d : SUBSET Directions]
Greetings == {Welcome, GameMap}
Frames    == Pings \cup Greetings \cup {State}

(* What is under way in either direction.                                   *)
Traffic ==
  /\ up \in Seq(Pings \cup Moves)
  /\ greeting \in Seq(Greetings)
  /\ frames \in Seq(Frames)

IInv == TypeOK /\ Traffic /\ InStep

-----------------------------------------------------------------------------
(* Bytes: remainders of the size of a frame.                                *)

(* A whole frame has at least a byte of size and one of data.               *)
LEMMA FrameSizes ==
  /\ Header \in Nat \ {0} /\ Body \in Nat \ {0}
  /\ FrameSize \in Nat \ {0} /\ Header < FrameSize
BY ClientAssumption DEF FrameSize

(* The remainder is what is left beside a multiple.                         *)
LEMMA Remainder ==
  ASSUME NEW k \in Nat, NEW f \in Nat \ {0}, NEW r \in 0 .. f - 1
  PROVE  (f * k + r) % f = r
BY SMT

(* A position is a number of whole frames and an offset in the next one.    *)
LEMMA Position ==
  ASSUME NEW a \in Nat, NEW f \in Nat \ {0}
  PROVE  /\ a \div f \in Nat
         /\ a % f \in 0 .. f - 1
         /\ a = f * (a \div f) + (a % f)
<1>1. a % f \in 0 .. f - 1
  BY SMT
<1>2. a \div f \in Nat
  BY SMT
<1>3. a = f * (a \div f) + (a % f)
  BY SMT
<1> QED BY <1>1, <1>2, <1>3

(* Within a frame the offset grows with the position.                       *)
LEMMA Forward ==
  ASSUME NEW a \in Nat, NEW f \in Nat \ {0}, NEW d \in Nat, (a % f) + d < f
  PROVE  (a + d) % f = (a % f) + d
<1> DEFINE k == a \div f
           r == a % f
<1>1. k \in Nat /\ r \in 0 .. f - 1 /\ a = f * k + r
  BY Position
<1>2. r + d \in 0 .. f - 1
  BY <1>1
<1> HIDE DEF k
<1>3. (f * k + (r + d)) % f = r + d
  BY <1>1, <1>2, Remainder
<1>4. a + d = f * k + (r + d)
  BY <1>1, <1>2
<1> QED BY <1>3, <1>4

(* After the last byte of a frame the next one begins.                      *)
LEMMA Wrap ==
  ASSUME NEW a \in Nat, NEW f \in Nat \ {0}
  PROVE  (a + (f - (a % f))) % f = 0
<1> DEFINE k == a \div f
           r == a % f
<1>1. k \in Nat /\ r \in 0 .. f - 1 /\ a = f * k + r
  BY Position
<1> HIDE DEF k
<1>2. a + (f - r) = f * k + f
  BY <1>1
<1>3. f * k + f = f * (k + 1) + 0
  BY <1>1
<1>4. (f * (k + 1) + 0) % f = 0
  BY <1>1, Remainder
<1> QED BY <1>2, <1>3, <1>4

(* A frame whose last byte has come is one of the frames that were sent.    *)
LEMMA Complete ==
  ASSUME NEW a \in Nat, NEW f \in Nat \ {0}, NEW l \in Nat,
         a + (f - (a % f)) <= l * f
  PROVE  a \div f + 1 \in 1 .. l
<1> DEFINE k == a \div f
           r == a % f
<1>1. k \in Nat /\ r \in 0 .. f - 1 /\ a = f * k + r
  BY Position
<1> HIDE DEF k
<1>2. f * (k + 1) <= l * f
  <2>1. a + (f - r) = f * k + f
    BY <1>1
  <2>2. f * k + f = f * (k + 1)
    BY <1>1
  <2> QED BY <2>1, <2>2
<1>3. k + 1 <= l
  BY <1>1, <1>2
<1> QED BY <1>1, <1>3 DEF k

(* The frames a number of bytes belongs to: no more than there are, and     *)
(* enough for the bytes.                                                    *)
LEMMA Covering ==
  ASSUME NEW a \in Nat, NEW f \in Nat \ {0}, NEW l \in Nat, a <= l * f
  PROVE  (a + f - 1) \div f \in 0 .. l /\ a <= ((a + f - 1) \div f) * f
<1> DEFINE b == a + f - 1
           k == b \div f
           r == b % f
<1>1. b \in Nat
  OBVIOUS
<1>2. k \in Nat /\ r \in 0 .. f - 1 /\ b = f * k + r
  BY <1>1, Position
<1> HIDE DEF k
<1>3. a <= k * f
  BY <1>2
<1>4. f * k < f * (l + 1)
  BY <1>2
<1>5. k <= l
  BY <1>2, <1>4
<1> QED BY <1>2, <1>3, <1>5 DEF k

(* Another frame only adds to what may come.                                *)
LEMMA Longer ==
  ASSUME NEW f \in Nat \ {0}, NEW l \in Nat
  PROVE  l * f \in Nat /\ l * f <= (l + 1) * f
OBVIOUS

-----------------------------------------------------------------------------
(* Init and the steps, one group of variables after the other.              *)

LEMMA InitIInv == Init => IInv
<1> SUFFICES ASSUME Init PROVE IInv
  OBVIOUS
<1> USE DEF Init
<1>1. Header \in Nat \ {0} /\ FrameSize \in Nat \ {0}
  BY FrameSizes
<1>2. Len(frames) = 0 /\ Total = 0 * FrameSize
  BY DEF Total
<1>3. Total = 0
  BY <1>1, <1>2
<1>4. 0 % FrameSize = 0
  <2>1. (FrameSize * 0 + 0) % FrameSize = 0
    BY <1>1, Remainder
  <2>2. FrameSize * 0 + 0 = 0
    BY <1>1
  <2> QED BY <2>1, <2>2
<1>5. TypeOK
  <2>1. {run, my_own_id, closed} \subseteq BOOLEAN
    BY Zenon
  <2>2. {direction, velocity} \subseteq SUBSET Directions
    BY Zenon
  <2> QED BY <1>3, <2>1, <2>2, ClientAssumption DEF TypeOK
<1>6. Traffic
  BY DEF Traffic, Greetings, Welcome, GameMap
<1>7. InStep
  BY <1>4 DEF InStep
<1> QED BY <1>5, <1>6, <1>7 DEF IInv

LEMMA FlagsStep ==
  ASSUME IInv, [Next]_vars  PROVE {run, my_own_id, closed}' \subseteq BOOLEAN
<1> USE DEF ClientFrame, ClientRest, inputVars, idVars, hostVars
<1>1. run \in BOOLEAN /\ my_own_id \in BOOLEAN /\ closed \in BOOLEAN
  BY DEF IInv, TypeOK
<1>2. CASE Input
  BY <1>1, <1>2 DEF Input, Escape, KeyDown, KeyUp
<1>3. CASE NothingThere \/ HeaderAtEnd \/ ReadHeader \/ ReadShortHeader \/ Astray
           \/ BodyAtEnd
  BY <1>1, <1>3 DEF NothingThere, HeaderAtEnd, ReadHeader, ReadShortHeader, Astray, BodyAtEnd
<1>4. CASE ReadBody
  <2>1. UNCHANGED <<run, closed>>
    BY <1>4 DEF ReadBody, Handle
  <2>2. my_own_id' \in BOOLEAN
    BY <1>1, <1>4 DEF ReadBody, Handle
  <2> QED BY <1>1, <2>1, <2>2
<1>5. CASE Draw \/ SendPing
  BY <1>1, <1>5 DEF Draw, SendPing
<1>6. CASE Host
  BY <1>1, <1>6 DEF Host, HostGreets, HostHandles, HostSendsState, HostCloses
<1>7. CASE Arrive
  BY <1>1, <1>7 DEF Arrive
<1>8. CASE UNCHANGED vars
  BY <1>1, <1>8 DEF vars
<1> QED BY <1>2, <1>3, <1>4, <1>5, <1>6, <1>7, <1>8 DEF Next, Loop

LEMMA PlacesStep ==
  ASSUME IInv, [Next]_vars
  PROVE  /\ pc' \in {"events", "more", "body", "draw", "ended"}
         /\ mode' \in {"ok", "OSError", "OverflowError", "struct.error", "spinning",
                       "split", "lost"}
<1> USE DEF IInv, TypeOK, ClientFrame, ClientRest
<1>1. CASE Input
  BY <1>1 DEF Input, Escape, KeyDown, KeyUp, Send
<1>2. CASE Loop \/ Astray
  BY <1>2 DEF Loop, NothingThere, HeaderAtEnd, ReadHeader, ReadShortHeader, Astray, ReadBody,
              Handle, BodyAtEnd, Draw, SendPing, Send, LoopEnd
<1>3. CASE Host \/ Arrive
  BY <1>3 DEF Host, Arrive, HostGreets, HostHandles, HostSendsState, HostCloses
<1>4. CASE UNCHANGED vars
  BY <1>4 DEF vars
<1> QED BY <1>1, <1>2, <1>3, <1>4 DEF Next

LEMMA InputStep ==
  ASSUME IInv, [Next]_vars
  PROVE  /\ held' \subseteq Keys /\ events' \in 0 .. MaxEvents
         /\ {direction, velocity}' \subseteq SUBSET Directions
<1> USE ClientAssumption DEF ClientFrame, ClientRest, inputVars, hostVars
<1>1. /\ held \subseteq Keys /\ events \in 0 .. MaxEvents
      /\ direction \subseteq Directions /\ velocity \subseteq Directions
  BY DEF IInv, TypeOK
<1>2. ASSUME NEW k \in Keys, KeyDown(k) \/ KeyUp(k)
      PROVE  /\ held' \subseteq Keys /\ events' \in 0 .. MaxEvents
             /\ {direction, velocity}' \subseteq SUBSET Directions
  <2>1. DirectionOf[k] \in Directions
    BY DEF Directions
  <2>2. held' \subseteq Keys /\ direction' \subseteq Directions /\ velocity' = velocity
    BY <1>1, <1>2, <2>1 DEF KeyDown, KeyUp, RemoveFlag
  <2>3. events' \in 0 .. MaxEvents
    BY <1>1, <1>2 DEF KeyDown, KeyUp
  <2> QED BY <1>1, <2>2, <2>3
<1>3. CASE Escape
  BY <1>1, <1>3 DEF Escape
<1>4. CASE Loop \/ Astray
  <2>1. UNCHANGED <<inputVars, hostVars>>
    BY <1>4 DEF Loop, NothingThere, HeaderAtEnd, ReadHeader, ReadShortHeader, Astray, ReadBody,
                BodyAtEnd, Draw, SendPing, Handle
  <2> QED BY <1>1, <2>1
<1>5. CASE HostHandles
  <2>1. UNCHANGED inputVars
    BY <1>5 DEF HostHandles
  <2>2. Head(up) \in Pings \cup Moves
    BY <1>5 DEF HostHandles, IInv, Traffic
  <2>3. Head(up).type # "PING" => Head(up).d \subseteq Directions
    BY <2>2 DEF Pings, Moves
  <2>4. velocity' \subseteq Directions
    BY <1>1, <1>5, <2>3 DEF HostHandles, Obey
  <2> QED BY <1>1, <2>1, <2>4
<1>6. CASE HostGreets \/ HostSendsState \/ HostCloses \/ Arrive
  BY <1>1, <1>6 DEF HostGreets, HostSendsState, HostCloses, Arrive
<1>7. CASE UNCHANGED vars
  BY <1>1, <1>7 DEF vars
<1> QED BY <1>2, <1>3, <1>4, <1>5, <1>6, <1>7 DEF Next, Input, Host

LEMMA TrafficStep ==
  ASSUME IInv, [Next]_vars  PROVE Traffic'
<1> USE DEF ClientFrame, ClientRest, idVars, hostVars
<1>1. Traffic /\ TypeOK
  BY DEF IInv
<1>2. ASSUME NEW m \in Pings \cup Moves, NEW next, Send(m, next), UNCHANGED hostVars
      PROVE  Traffic'
  <2>1. up' = up \/ up' = Append(up, m)
    BY <1>2 DEF Send
  <2>2. up' \in Seq(Pings \cup Moves)
    BY <1>1, <1>2, <2>1 DEF Traffic
  <2> QED BY <1>1, <1>2, <2>2 DEF Traffic
<1>3. ASSUME NEW k \in Keys, KeyDown(k) \/ KeyUp(k)  PROVE Traffic'
  <2>1. direction' \subseteq Directions
    BY InputStep
  <2>2. Move(direction') \in Moves
    BY <2>1 DEF Move, Moves
  <2> QED BY <1>2, <1>3, <2>2 DEF KeyDown, KeyUp
<1>4. CASE SendPing
  <2>1. CASE ping < MaxPing
    <3>1. Ping(ping + 1) \in Pings
      BY <1>1, <2>1, ClientAssumption DEF TypeOK, Ping, Pings
    <3> QED BY <1>2, <1>4, <2>1, <3>1 DEF SendPing
  <2>2. CASE ~ (ping < MaxPing)
    BY <1>1, <1>4, <2>2 DEF SendPing, Traffic
  <2> QED BY <2>1, <2>2
<1>5. CASE HostGreets
  BY <1>1, <1>5 DEF HostGreets, Traffic, Frames
<1>6. CASE HostHandles
  <2>1. Head(up) \in Pings \cup Moves /\ Tail(up) \in Seq(Pings \cup Moves)
    BY <1>1, <1>6 DEF HostHandles, Traffic
  <2>2. Head(up).type = "PING" => Head(up) \in Pings
    BY <2>1 DEF Pings, Moves
  <2>3. frames' \in Seq(Frames)
    BY <1>1, <1>6, <2>2 DEF HostHandles, Obey, Traffic, Frames
  <2> QED BY <1>1, <1>6, <2>1, <2>3 DEF HostHandles, Traffic
<1>7. CASE HostSendsState
  BY <1>1, <1>7 DEF HostSendsState, Traffic, Frames
<1>8. CASE HostCloses
  <2>1. frames \in Seq(Frames)
    BY <1>1 DEF Traffic
  <2>2. arrived' \in Nat /\ arrived' <= Len(frames) * FrameSize
    BY <1>1, <1>8, FrameSizes, <2>1, Longer DEF HostCloses, TypeOK, Total
  <2> DEFINE k == (arrived' + FrameSize - 1) \div FrameSize
  <2>3. k \in 0 .. Len(frames)
    <3>1. Len(frames) \in Nat /\ FrameSize \in Nat \ {0}
      BY <2>1, FrameSizes
    <3> QED BY <2>2, <3>1, Covering, Zenon
  <2>4. frames' = SubSeq(frames, 1, k) /\ up' = <<>> /\ greeting' = <<>>
    BY <1>8 DEF HostCloses
  <2> HIDE DEF k
  <2>5. frames' \in Seq(Frames)
    BY <2>1, <2>3, <2>4
  <2> QED BY <2>4, <2>5 DEF Traffic
<1>9. UNCHANGED <<up, greeting, frames>> => Traffic'
  BY <1>1 DEF Traffic
<1>10. CASE Escape \/ Draw \/ Arrive \/ NothingThere \/ HeaderAtEnd \/ ReadHeader
              \/ ReadShortHeader \/ Astray \/ ReadBody \/ BodyAtEnd
  BY <1>9, <1>10 DEF Escape, Draw, Arrive, NothingThere, HeaderAtEnd, ReadHeader,
                     ReadShortHeader, Astray, ReadBody, BodyAtEnd, Handle
<1>11. CASE UNCHANGED vars
  BY <1>9, <1>11 DEF vars
<1> QED BY <1>3, <1>4, <1>5, <1>6, <1>7, <1>8, <1>10, <1>11 DEF Next, Loop, Input, Host

(* The bytes that were read have come, and those that came were sent.       *)
LEMMA BytesStep ==
  ASSUME IInv, [Next]_vars
  PROVE  consumed' \in Nat /\ arrived' \in Nat /\ consumed' <= arrived' /\ arrived' <= Total'
<1> USE DEF ClientFrame, ClientRest, idVars, hostVars
<1>1. /\ consumed \in Nat /\ arrived \in Nat
      /\ consumed <= arrived /\ arrived <= Total
      /\ frames \in Seq(Frames) /\ frames' \in Seq(Frames)
  BY TrafficStep DEF IInv, TypeOK, Traffic
<1>2. Total \in Nat /\ Total' \in Nat
  BY <1>1, FrameSizes, Longer DEF Total, FrameSize
<1>3. CASE UNCHANGED <<consumed, arrived, frames>>
  BY <1>1, <1>3 DEF Total, FrameSize
<1>4. ASSUME NEW f, frames' = Append(frames, f), UNCHANGED <<consumed, arrived>>
      PROVE  consumed' \in Nat /\ arrived' \in Nat /\ consumed' <= arrived'
               /\ arrived' <= Total'
  <2>1. Len(frames') = Len(frames) + 1
    BY <1>1, <1>4
  <2>2. Total <= Total'
    BY <1>1, <2>1, FrameSizes, Longer DEF Total, FrameSize
  <2> QED BY <1>1, <1>2, <1>4, <2>2
<1>5. CASE HostGreets \/ HostHandles \/ HostSendsState
  BY <1>3, <1>4, <1>5 DEF HostGreets, HostHandles, HostSendsState, Obey
<1>6. CASE HostCloses
  <2>1. arrived' \in arrived .. Total
    BY <1>6 DEF HostCloses
  <2>2. arrived' \in Nat /\ arrived <= arrived' /\ arrived' <= Len(frames) * FrameSize
    BY <1>1, <1>2, <2>1 DEF Total
  <2> DEFINE k == (arrived' + FrameSize - 1) \div FrameSize
  <2>3. k \in 0 .. Len(frames) /\ arrived' <= k * FrameSize
    <3>1. Len(frames) \in Nat /\ FrameSize \in Nat \ {0}
      BY <1>1, FrameSizes
    <3> QED BY <2>2, <3>1, Covering, Zenon
  <2>4. frames' = SubSeq(frames, 1, k) /\ consumed' = consumed
    BY <1>6 DEF HostCloses
  <2> HIDE DEF k
  <2>5. Len(frames') = k
    BY <1>1, <2>3, <2>4
  <2>6. Total' = k * FrameSize
    BY <2>5 DEF Total, FrameSize
  <2> QED BY <1>1, <2>2, <2>3, <2>4, <2>6
<1>7. CASE Arrive
  BY <1>1, <1>2, <1>7 DEF Arrive, Total, FrameSize
<1>8. CASE ReadHeader \/ ReadShortHeader
  <2>1. consumed' \in Nat /\ consumed' <= arrived
    BY <1>1, <1>8, FrameSizes DEF ReadHeader, ReadShortHeader, Readable
  <2>2. UNCHANGED <<arrived, frames>>
    BY <1>8 DEF ReadHeader, ReadShortHeader
  <2> QED BY <1>1, <2>1, <2>2 DEF Total, FrameSize
<1>9. CASE ReadBody
  <2>1. Missing \in Nat
    BY <1>1, FrameSizes, Position DEF Missing
  <2>2. consumed' \in Nat /\ consumed' <= arrived
    BY <1>1, <1>9, <2>1 DEF ReadBody, Readable
  <2>3. UNCHANGED <<arrived, frames>>
    BY <1>9 DEF ReadBody, Handle
  <2> QED BY <1>1, <2>2, <2>3 DEF Total, FrameSize
<1>10. CASE Input \/ NothingThere \/ HeaderAtEnd \/ Astray \/ BodyAtEnd \/ Draw \/ SendPing
  BY <1>3, <1>10 DEF Input, KeyDown, KeyUp, Escape, NothingThere, HeaderAtEnd, Astray,
                     BodyAtEnd, Draw, SendPing
<1>11. CASE UNCHANGED vars
  BY <1>3, <1>11 DEF vars
<1> QED BY <1>5, <1>6, <1>7, <1>8, <1>9, <1>10, <1>11 DEF Next, Loop, Host

(* The numbers of PINGs fit two bytes, those that come back included.       *)
LEMMA PingStep ==
  ASSUME IInv, [Next]_vars  PROVE ping' \in 0 .. MaxPing /\ pong' \in 0 .. MaxPing
<1> USE ClientAssumption DEF ClientFrame, ClientRest, idVars, hostVars
<1>1. ping \in 0 .. MaxPing /\ pong \in 0 .. MaxPing
  BY DEF IInv, TypeOK
<1>2. UNCHANGED <<ping, pong>> => ping' \in 0 .. MaxPing /\ pong' \in 0 .. MaxPing
  BY <1>1
<1>3. CASE SendPing
  BY <1>1, <1>3 DEF SendPing
<1>4. CASE ReadBody
  <2>1. ping' = ping
    BY <1>4 DEF ReadBody, Handle
  <2>2. CASE Readable < Missing
    BY <1>2, <1>4, <2>2 DEF ReadBody
  <2>3. CASE ~ (Readable < Missing)
    <3>1. /\ consumed \in Nat /\ arrived \in Nat
          /\ arrived <= Len(frames) * FrameSize
          /\ frames \in Seq(Frames) /\ Len(frames) \in Nat
      BY DEF IInv, TypeOK, Traffic, Total
    <3>2. consumed % FrameSize \in 0 .. FrameSize - 1 /\ FrameSize \in Nat \ {0}
      BY <3>1, FrameSizes, Position
    <3>3. Len(frames) * FrameSize \in Nat
      BY <3>1, <3>2, Longer
    <3>4. consumed + (FrameSize - (consumed % FrameSize)) <= Len(frames) * FrameSize
      BY <2>3, <3>1, <3>2, <3>3 DEF Readable, Missing
    <3> DEFINE n == consumed \div FrameSize + 1
    <3>5. n \in 1 .. Len(frames)
      BY <3>1, <3>2, <3>4, Complete, Zenon
    <3>6. pong' = IF frames[n].type = "PING" THEN frames[n].n ELSE pong
      BY <1>4, <2>3 DEF ReadBody, Handle
    <3> HIDE DEF n
    <3>7. frames[n] \in Frames
      BY <3>1, <3>5
    <3>8. frames[n].type = "PING" => frames[n] \in Pings
      BY <3>7 DEF Frames, Greetings, Welcome, GameMap, State
    <3> QED BY <1>1, <2>1, <3>6, <3>8 DEF Pings
  <2> QED BY <2>2, <2>3
<1>5. CASE Input \/ Host \/ Arrive
  BY <1>2, <1>5 DEF Input, KeyDown, KeyUp, Escape, Host, HostGreets, HostHandles,
                    HostSendsState, HostCloses, Arrive
<1>6. CASE NothingThere \/ HeaderAtEnd \/ ReadHeader \/ ReadShortHeader \/ Astray
           \/ BodyAtEnd \/ Draw
  BY <1>2, <1>6 DEF NothingThere, HeaderAtEnd, ReadHeader, ReadShortHeader, Astray,
                    BodyAtEnd, Draw
<1>7. CASE UNCHANGED vars
  BY <1>2, <1>7 DEF vars
<1> QED BY <1>3, <1>4, <1>5, <1>6, <1>7 DEF Next, Loop

(* Most steps read nothing (<1>5): the place among the bytes stays, and     *)
(* closed is never taken back.  The others move it within a frame or to the *)
(* next one.                                                                *)
LEMMA InStepStep ==
  ASSUME IInv, [Next]_vars  PROVE InStep'
<1> USE DEF ClientFrame, ClientRest, idVars, hostVars, inputVars
<1> DEFINE offset == consumed % FrameSize
<1>1. /\ consumed \in Nat /\ arrived \in Nat /\ consumed <= arrived
      /\ InStep /\ TypeOK
  BY DEF IInv, TypeOK
<1>2. /\ Header \in Nat \ {0} /\ FrameSize \in Nat \ {0} /\ Header < FrameSize
      /\ offset \in 0 .. FrameSize - 1
  BY <1>1, FrameSizes, Position
<1>3. FrameSize' = FrameSize
  BY DEF FrameSize
<1>4. CASE UNCHANGED vars
  BY <1>1, <1>3, <1>4 DEF vars, InStep
<1>5. ASSUME Alive, UNCHANGED consumed,
             \/ UNCHANGED <<mode, pc, closed>>
             \/ UNCHANGED <<mode, pc>> /\ closed'
             \/ mode' = mode /\ pc # "body" /\ pc' # "body"
             \/ mode' = "OSError" /\ closed /\ closed'
             \/ mode' = "OverflowError" /\ ping' = MaxPing
      PROVE  InStep'
  BY <1>1, <1>3, <1>5 DEF InStep, Alive
<1>6. CASE Alive /\ (\E k \in Keys : KeyDown(k) \/ KeyUp(k))
  BY <1>5, <1>6 DEF KeyDown, KeyUp, Send
<1>7. CASE Alive /\ (Escape \/ Host \/ Arrive)
  BY <1>5, <1>7 DEF Escape, Host, HostGreets, HostHandles, HostSendsState, HostCloses, Arrive
<1>8. CASE Alive /\ (Draw \/ SendPing \/ NothingThere)
  <2>1. ping \in 0 .. MaxPing /\ MaxPing \in Nat
    BY <1>1, ClientAssumption DEF TypeOK
  <2>2. ~ (ping < MaxPing) => ping = MaxPing
    BY <2>1
  <2> QED BY <1>5, <1>8, <2>2 DEF Draw, SendPing, Send, NothingThere, AtReceive, LoopEnd
<1>9. CASE Alive /\ HeaderAtEnd
  <2>1. offset = 0
    BY <1>1, <1>9 DEF HeaderAtEnd, AtReceive, Alive, InStep
  <2> QED BY <1>3, <1>9, <2>1 DEF HeaderAtEnd, InStep
<1>10. CASE Alive /\ ReadHeader
  <2>1. offset = 0
    BY <1>1, <1>10 DEF ReadHeader, AtReceive, Alive, InStep
  <2>2. consumed' = consumed + Header /\ mode' = "ok" /\ pc' = "body"
    BY <1>10, <2>1 DEF ReadHeader, Alive
  <2>3. offset + Header < FrameSize
    BY <1>2, <2>1
  <2>4. consumed' % FrameSize = offset + Header
    BY <1>1, <1>2, <2>2, <2>3, Forward
  <2> QED BY <1>2, <1>3, <2>1, <2>2, <2>4 DEF InStep
<1>11. CASE Alive /\ ReadShortHeader
  <2>1. offset = 0
    BY <1>1, <1>11 DEF ReadShortHeader, AtReceive, Alive, InStep
  <2> DEFINE d == arrived - consumed
  <2>2. /\ d \in Nat /\ d \in 1 .. Header - 1
        /\ consumed' = consumed + d /\ mode' = "split"
    BY <1>1, <1>2, <1>11 DEF ReadShortHeader, Readable
  <2>3. offset + d < FrameSize
    BY <1>2, <2>1, <2>2
  <2> HIDE DEF d
  <2>4. consumed' % FrameSize = offset + d
    <3>1. (consumed + d) % FrameSize = offset + d
      BY <1>1, <1>2, <2>2, <2>3, Forward
    <3> QED BY <2>2, <3>1
  <2> QED BY <1>3, <2>1, <2>2, <2>4 DEF InStep
<1>12. CASE Alive /\ ReadBody
  <2>1. offset \in Header .. FrameSize - 1
    BY <1>1, <1>12 DEF ReadBody, Alive, InStep
  <2>2. CASE Readable < Missing
    <3> DEFINE d == arrived - consumed
    <3>1. /\ d \in Nat /\ consumed' = consumed + d /\ pc' = "body" /\ mode' = "ok"
          /\ offset + d < FrameSize
      BY <1>1, <1>2, <1>12, <2>2 DEF ReadBody, Readable, Missing, Alive
    <3> HIDE DEF d
    <3>2. consumed' % FrameSize = offset + d
      BY <1>1, <1>2, <3>1, Forward
    <3> QED BY <1>2, <1>3, <2>1, <3>1, <3>2 DEF InStep
  <2>3. CASE ~ (Readable < Missing)
    <3>1. /\ consumed' = consumed + (FrameSize - offset) /\ pc' = "more"
          /\ mode' = "ok" \/ (mode' = "OSError" /\ closed')
      <4>1. mode = "ok" /\ Handle(consumed \div FrameSize + 1)
        BY <1>12, <2>3 DEF ReadBody, Alive
      <4>2. mode' = "ok" \/ (mode' = "OSError" /\ closed')
        BY <4>1 DEF Handle
      <4> QED BY <1>12, <2>3, <4>2 DEF ReadBody, Missing
    <3>2. consumed' % FrameSize = 0
      BY <1>1, <1>2, <3>1, Wrap
    <3> QED BY <1>3, <2>1, <3>1, <3>2 DEF InStep
  <2> QED BY <2>2, <2>3
<1>13. CASE Alive /\ BodyAtEnd
  <2>1. offset \in Header .. FrameSize - 1
    BY <1>1, <1>13 DEF BodyAtEnd, Alive, InStep
  <2> QED BY <1>2, <1>3, <1>13, <2>1 DEF BodyAtEnd, InStep
<1>14. CASE Astray
  BY <1>1, <1>3, <1>14 DEF Astray, InStep
<1> QED BY <1>4, <1>6, <1>7, <1>8, <1>9, <1>10, <1>11, <1>12, <1>13, <1>14
        DEF Next, Loop, Input

-----------------------------------------------------------------------------
(* Sequences that grow at the end and shrink at the front.                  *)

LEMMA Appended ==
  ASSUME NEW T, NEW s \in Seq(T), NEW m \in T
  PROVE  /\ Append(s, m) \in Seq(T)
         /\ Len(s) \in Nat /\ DOMAIN s = 1 .. Len(s)
         /\ Len(Append(s, m)) = Len(s) + 1 /\ DOMAIN Append(s, m) = 1 .. Len(s) + 1
         /\ \A i \in 1 .. Len(s) : Append(s, m)[i] = s[i]
         /\ Append(s, m)[Len(s) + 1] = m
OBVIOUS

LEMMA Shortened ==
  ASSUME NEW T, NEW s \in Seq(T), s # <<>>
  PROVE  /\ Tail(s) \in Seq(T) /\ Head(s) = s[1] /\ 1 \in DOMAIN s
         /\ Len(s) \in Nat \ {0} /\ DOMAIN s = 1 .. Len(s)
         /\ Len(Tail(s)) = Len(s) - 1 /\ DOMAIN Tail(s) = 1 .. Len(s) - 1
         /\ \A i \in 1 .. Len(s) - 1 : Tail(s)[i] = s[i + 1]
OBVIOUS

-----------------------------------------------------------------------------
(* The direction and the host's word on it.                                 *)

(* What the host has made of the moves, or will once it has those of u.     *)
Followed(u, v, d) ==
  LET moves == {i \in DOMAIN u : ~ IsPing(u[i])} IN
  \/ moves = {} /\ v = d
  \/ \E i \in moves : u[i].d = d /\ \A j \in moves : j <= i

LEMMA LastMove ==
  ASSUME NEW T, NEW u \in Seq(T), NEW m \in T, ~ IsPing(m), NEW v
  PROVE  Followed(Append(u, m), v, m.d)
<1> DEFINE w == Append(u, m)
<1>1. /\ Len(u) \in Nat /\ DOMAIN w = 1 .. Len(u) + 1 /\ w[Len(u) + 1] = m
  BY Appended
<1> HIDE DEF w
<1>2. Followed(w, v, m.d)
  BY <1>1 DEF Followed
<1> QED BY <1>2 DEF w

LEMMA PingIsNoMove ==
  ASSUME NEW T, NEW u \in Seq(T), NEW m \in T, IsPing(m), NEW v, NEW d, Followed(u, v, d)
  PROVE  Followed(Append(u, m), v, d)
<1> DEFINE w == Append(u, m)
<1>1. /\ Len(u) \in Nat /\ DOMAIN u = 1 .. Len(u) /\ DOMAIN w = 1 .. Len(u) + 1
      /\ w[Len(u) + 1] = m /\ \A i \in 1 .. Len(u) : w[i] = u[i]
  BY Appended
<1> HIDE DEF w
<1>2. {i \in DOMAIN w : ~ IsPing(w[i])} = {i \in DOMAIN u : ~ IsPing(u[i])}
  BY <1>1
<1>3. Followed(w, v, d)
  BY <1>1, <1>2 DEF Followed
<1> QED BY <1>3 DEF w

(* The host takes the first message and, if it is a move, obeys it.         *)
LEMMA MoveObeyed ==
  ASSUME NEW T, NEW u \in Seq(T), u # <<>>, NEW v, NEW d, Followed(u, v, d), NEW v2,
         IF IsPing(u[1]) THEN v2 = v ELSE v2 = u[1].d
  PROVE  Followed(Tail(u), v2, d)
<1> DEFINE w == Tail(u)
           moves == {i \in DOMAIN u : ~ IsPing(u[i])}
           rest == {i \in DOMAIN w : ~ IsPing(w[i])}
<1>1. /\ Len(u) \in Nat \ {0} /\ DOMAIN u = 1 .. Len(u) /\ DOMAIN w = 1 .. Len(u) - 1
      /\ \A i \in 1 .. Len(u) - 1 : w[i] = u[i + 1]
  BY Shortened
<1> HIDE DEF w
<1>2. \A i \in 2 .. Len(u) : i - 1 \in 1 .. Len(u) - 1 /\ w[i - 1] = u[i]
  BY <1>1
<1>3. /\ \A i \in rest : i + 1 \in moves
      /\ \A i \in moves : i = 1 \/ i - 1 \in rest
  BY <1>1, <1>2
<1>4. CASE moves = {} /\ v = d
  <2>1. rest = {} /\ IsPing(u[1])
    BY <1>1, <1>3, <1>4
  <2> QED BY <1>4, <2>1 DEF Followed, w
<1>5. ASSUME NEW i \in moves, u[i].d = d, \A j \in moves : j <= i
      PROVE  Followed(w, v2, d)
  <2>1. CASE i = 1
    <3>1. rest = {}
      BY <1>1, <1>3, <1>5, <2>1
    <3>2. v2 = d
      BY <1>5, <2>1
    <3> QED BY <3>1, <3>2 DEF Followed
  <2>2. CASE i # 1
    <3>1. i - 1 \in rest /\ w[i - 1].d = d
      BY <1>1, <1>2, <1>3, <1>5, <2>2
    <3>2. \A j \in rest : j <= i - 1
      BY <1>1, <1>3, <1>5
    <3> QED BY <3>1, <3>2 DEF Followed
  <2> QED BY <2>1, <2>2
<1> QED BY <1>4, <1>5 DEF Followed, w

-----------------------------------------------------------------------------
(* The PINGs of a sequence, from a position on.                             *)

PingsFrom(s, from) == {i \in from .. Len(s) : IsPing(s[i])}

(* Carries, number by number.                                               *)
LEMMA EachOnce ==
  ASSUME NEW s, NEW from, NEW a, NEW b
  PROVE  Carries(s, from, a, b) <=>
           /\ \A i \in PingsFrom(s, from) : s[i].n \in a + 1 .. b
           /\ \A n \in a + 1 .. b : \E i \in PingsFrom(s, from) : s[i].n = n
           /\ \A i, j \in PingsFrom(s, from) : i < j => s[i].n < s[j].n
BY DEF Carries, PingsFrom

LEMMA NextPing ==
  ASSUME NEW T, NEW s \in Seq(T), NEW m \in T, NEW from \in Nat \ {0},
         NEW a \in Nat, NEW b \in Nat, a <= b, Carries(s, from, a, b),
         from <= Len(s) + 1, IsPing(m), m.n = b + 1
  PROVE  Carries(Append(s, m), from, a, b + 1)
<1> DEFINE w == Append(s, m)
           old == PingsFrom(s, from)
           new == PingsFrom(w, from)
<1>1. /\ Len(s) \in Nat /\ Len(w) = Len(s) + 1
      /\ w[Len(s) + 1] = m /\ \A i \in 1 .. Len(s) : w[i] = s[i]
  BY Appended
<1> HIDE DEF w
<1>2. /\ new = old \cup {Len(s) + 1}
      /\ \A i \in old : w[i] = s[i] /\ i <= Len(s) /\ i \in Nat
  BY <1>1 DEF PingsFrom
<1> HIDE DEF old, new
<1>3. /\ \A i \in old : s[i].n \in a + 1 .. b
      /\ \A n \in a + 1 .. b : \E i \in old : s[i].n = n
      /\ \A i, j \in old : i < j => s[i].n < s[j].n
  BY EachOnce DEF old
<1>4. /\ \A i \in new : w[i].n \in a + 1 .. b + 1
      /\ \A n \in a + 1 .. b + 1 : \E i \in new : w[i].n = n
      /\ \A i, j \in new : i < j => w[i].n < w[j].n
  <2>1. ASSUME NEW i \in new PROVE w[i].n \in a + 1 .. b + 1
    <3>1. CASE i \in old
      <4>1. w[i].n \in a + 1 .. b
        BY <1>2, <1>3, <3>1
      <4> QED BY <4>1
    <3>2. CASE i = Len(s) + 1
      BY <1>1, <3>2
    <3> QED BY <1>2, <3>1, <3>2
  <2>2. ASSUME NEW n \in a + 1 .. b + 1 PROVE \E i \in new : w[i].n = n
    <3>1. n = b + 1 \/ n \in a + 1 .. b
      OBVIOUS
    <3>2. CASE n = b + 1
      BY <1>1, <1>2, <3>2
    <3>3. CASE n \in a + 1 .. b
      <4>1. PICK i \in old : s[i].n = n
        BY <1>3, <3>3
      <4> QED BY <1>2, <4>1
    <3> QED BY <3>1, <3>2, <3>3
  <2>3. ASSUME NEW i \in new, NEW j \in new, i < j PROVE w[i].n < w[j].n
    <3>1. i \in old /\ w[i] = s[i]
      BY <1>1, <1>2, <2>3
    <3>2. CASE j \in old
      BY <1>2, <1>3, <2>3, <3>1, <3>2
    <3>3. CASE j = Len(s) + 1
      <4>1. w[j].n = b + 1 /\ w[i].n \in a + 1 .. b
        BY <1>1, <1>3, <3>1, <3>3
      <4> QED BY <4>1
    <3> QED BY <1>2, <3>2, <3>3
  <2> QED BY <2>1, <2>2, <2>3
<1>5. Carries(w, from, a, b + 1)
  BY <1>4, EachOnce DEF new
<1> QED BY <1>5 DEF w

LEMMA OtherAppended ==
  ASSUME NEW T, NEW s \in Seq(T), NEW m \in T, NEW from \in Nat \ {0},
         NEW a, NEW b, Carries(s, from, a, b), ~ IsPing(m)
  PROVE  Carries(Append(s, m), from, a, b)
<1> DEFINE w == Append(s, m)
<1>1. /\ Len(s) \in Nat /\ Len(w) = Len(s) + 1
      /\ w[Len(s) + 1] = m /\ \A i \in 1 .. Len(s) : w[i] = s[i]
  BY Appended
<1> HIDE DEF w
<1>2. /\ PingsFrom(w, from) = PingsFrom(s, from)
      /\ \A i \in PingsFrom(s, from) : w[i] = s[i]
  BY <1>1 DEF PingsFrom
<1>3. Carries(w, from, a, b)
  BY <1>2, EachOnce
<1> QED BY <1>3 DEF w

(* The first of them is the next number, and the rest follow on it.         *)
LEMMA FirstPing ==
  ASSUME NEW T, NEW s \in Seq(T), NEW from \in 1 .. Len(s), NEW a \in Nat, NEW b \in Nat,
         Carries(s, from, a, b), IsPing(s[from])
  PROVE  s[from].n = a + 1 /\ a + 1 <= b /\ Carries(s, from + 1, a + 1, b)
<1> DEFINE old == PingsFrom(s, from)
           new == PingsFrom(s, from + 1)
<1>1. Len(s) \in Nat
  OBVIOUS
<1>2. /\ old = new \cup {from} /\ \A i \in new : from < i
  BY <1>1 DEF PingsFrom
<1> HIDE DEF old, new
<1>3. /\ \A i \in old : s[i].n \in a + 1 .. b
      /\ \A n \in a + 1 .. b : \E i \in old : s[i].n = n
      /\ \A i, j \in old : i < j => s[i].n < s[j].n
  BY EachOnce DEF old
<1>4. s[from].n = a + 1 /\ a + 1 <= b
  <2>1. s[from].n \in a + 1 .. b
    BY <1>2, <1>3
  <2>2. a + 1 \in a + 1 .. b
    BY <2>1
  <2>3. PICK i \in old : s[i].n = a + 1
    BY <1>3, <2>2
  <2> QED BY <1>2, <1>3, <2>1, <2>3
<1>5. Carries(s, from + 1, a + 1, b)
  <2>1. \A i \in new : s[i].n \in (a + 1) + 1 .. b
    BY <1>2, <1>3, <1>4
  <2>2. \A n \in (a + 1) + 1 .. b : \E i \in new : s[i].n = n
    BY <1>2, <1>3, <1>4
  <2> QED BY <1>2, <1>3, <2>1, <2>2, EachOnce DEF new
<1> QED BY <1>4, <1>5

LEMMA OtherFirst ==
  ASSUME NEW T, NEW s \in Seq(T), NEW from \in 1 .. Len(s), NEW a, NEW b,
         Carries(s, from, a, b), ~ IsPing(s[from])
  PROVE  Carries(s, from + 1, a, b)
<1>1. PingsFrom(s, from) = PingsFrom(s, from + 1)
  BY DEF PingsFrom
<1> QED BY <1>1, EachOnce

(* Without the first message, the others move up one place.                 *)
LEMMA MovedUp ==
  ASSUME NEW T, NEW s \in Seq(T), s # <<>>, NEW a, NEW b, Carries(s, 2, a, b)
  PROVE  Carries(Tail(s), 1, a, b)
<1> DEFINE w == Tail(s)
           old == PingsFrom(s, 2)
           new == PingsFrom(w, 1)
<1>1. /\ Len(s) \in Nat \ {0} /\ Len(w) = Len(s) - 1
      /\ \A i \in 1 .. Len(s) - 1 : w[i] = s[i + 1]
  BY Shortened
<1> HIDE DEF w
<1>2. \A i \in 2 .. Len(s) : i - 1 \in 1 .. Len(s) - 1 /\ w[i - 1] = s[i]
  BY <1>1
<1>3. /\ \A i \in new : i \in Nat /\ i + 1 \in old /\ w[i] = s[i + 1]
      /\ \A i \in old : i \in Nat /\ i - 1 \in new /\ w[i - 1] = s[i]
  BY <1>1, <1>2 DEF PingsFrom
<1> HIDE DEF old, new
<1>4. /\ \A i \in old : s[i].n \in a + 1 .. b
      /\ \A n \in a + 1 .. b : \E i \in old : s[i].n = n
      /\ \A i, j \in old : i < j => s[i].n < s[j].n
  BY EachOnce DEF old
<1>5. \A i \in new : w[i].n \in a + 1 .. b
  BY <1>3, <1>4
<1>6. ASSUME NEW n \in a + 1 .. b PROVE \E i \in new : w[i].n = n
  <2>1. PICK i \in old : s[i].n = n
    BY <1>4
  <2> QED BY <1>3, <2>1
<1>7. ASSUME NEW i \in new, NEW j \in new, i < j PROVE w[i].n < w[j].n
  <2>1. i + 1 < j + 1
    BY <1>3, <1>7
  <2> QED BY <1>3, <1>4, <2>1
<1>8. Carries(w, 1, a, b)
  BY <1>5, <1>6, <1>7, EachOnce DEF new
<1> QED BY <1>8 DEF w

(* Every nonempty set of numbers has a least one.                           *)
LEMMA Least ==
  ASSUME NEW T \in SUBSET Nat, T # {}
  PROVE  \E n \in T : \A m \in T : n <= m
<1>1. \E x \in T : \A y \in T : ~ (<<y, x>> \in OpToRel(<, Nat))
  BY WFMin, NatLessThanWellFounded, Zenon
<1>2. PICK x \in T : \A y \in T : ~ (<<y, x>> \in OpToRel(<, Nat))
  BY <1>1
<1>3. \A y \in T : ~ (y < x)
  BY <1>2, Zenon DEF OpToRel
<1> QED BY <1>3

(* Of messages that are cut off somewhere the numbers up to some one stay:  *)
(* up to the least that is not among them.                                  *)
LEMMA CutOff ==
  ASSUME NEW T, NEW s \in Seq(T), NEW from \in Nat \ {0}, NEW k \in from - 1 .. Len(s),
         NEW a \in Nat, NEW b \in Nat, a <= b, Carries(s, from, a, b)
  PROVE  \E c \in a .. b : Carries(SubSeq(s, 1, k), from, a, c)
<1> DEFINE w == SubSeq(s, 1, k)
           old == PingsFrom(s, from)
           new == PingsFrom(w, from)
           gone == {n \in Nat : n \in a + 1 .. b + 1 /\ \A i \in new : s[i].n # n}
<1>1. /\ Len(s) \in Nat /\ k \in Nat /\ Len(w) = k
      /\ \A i \in 1 .. k : w[i] = s[i]
  OBVIOUS
<1> HIDE DEF w
<1>2. /\ \A i \in new : i \in old /\ w[i] = s[i]
      /\ \A i \in old \ new : \A j \in new : j < i
  BY <1>1 DEF PingsFrom
<1> HIDE DEF old, new
<1>3. /\ \A i \in old : s[i].n \in a + 1 .. b
      /\ \A n \in a + 1 .. b : \E i \in old : s[i].n = n
      /\ \A i, j \in old : i < j => s[i].n < s[j].n
  BY EachOnce DEF old
<1>4. b + 1 \in gone
  BY <1>2, <1>3
<1>5. PICK n \in gone : \A m \in gone : n <= m
  BY <1>4, Least
<1>6. /\ n \in a + 1 .. b + 1 /\ n - 1 \in a .. b
      /\ \A i \in new : s[i].n # n
  BY <1>5
<1>7. ASSUME NEW i \in new PROVE w[i].n \in a + 1 .. n - 1
  <2>1. i \in old /\ w[i] = s[i] /\ s[i].n \in a + 1 .. b /\ s[i].n # n
    BY <1>2, <1>3, <1>6
  <2>2. ASSUME s[i].n > n PROVE FALSE
    <3>1. n \in a + 1 .. b
      BY <1>6, <2>1, <2>2
    <3>2. PICK j \in old : s[j].n = n
      BY <1>3, <3>1
    <3>3. i < j
      BY <1>2, <1>6, <3>2
    <3>4. s[i].n < s[j].n
      BY <1>3, <2>1, <3>3
    <3> QED BY <1>6, <2>1, <2>2, <3>2, <3>4
  <2> QED BY <1>6, <2>1, <2>2
<1>8. ASSUME NEW m \in a + 1 .. n - 1 PROVE \E i \in new : w[i].n = m
  <2>1. m \in Nat /\ m \in a + 1 .. b + 1 /\ m < n
    BY <1>6
  <2>2. m \notin gone
    BY <1>5, <1>6, <2>1
  <2>3. PICK i \in new : s[i].n = m
    BY <2>1, <2>2
  <2> QED BY <1>2, <2>3
<1>9. \A i, j \in new : i < j => w[i].n < w[j].n
  BY <1>2, <1>3
<1>10. Carries(w, from, a, n - 1)
  BY <1>7, <1>8, <1>9, EachOnce DEF new
<1> QED BY <1>6, <1>10 DEF w

-----------------------------------------------------------------------------
(* The welcome, the map, and what comes before them.                        *)

(* What of the greeting is among the messages sent, and what is left of it. *)
Greeting(sent, left) ==
  \/ /\ left = <<Welcome, GameMap>>
     /\ \A i \in DOMAIN sent : sent[i] = State
  \/ /\ left = <<GameMap>>
     /\ \E i \in DOMAIN sent : sent[i] = Welcome
     /\ \A i \in DOMAIN sent : sent[i] \in {Welcome, State}
  \/ left = <<>> /\ \E i \in DOMAIN sent : sent[i] = GameMap

LEMMA Kinds ==
  /\ Welcome # GameMap /\ Welcome # State /\ GameMap # State
  /\ ~ IsPing(Welcome) /\ ~ IsPing(GameMap) /\ ~ IsPing(State)
BY DEF Welcome, GameMap, State, IsPing

LEMMA WordsLeft ==
  ASSUME NEW x, NEW y
  PROVE  /\ Head(<<x, y>>) = x /\ Tail(<<x, y>>) = <<y>> /\ <<x, y>> # <<>> /\ <<x, y>> # <<y>>
         /\ Head(<<y>>) = y /\ Tail(<<y>>) = <<>> /\ <<y>> # <<>>
OBVIOUS

(* What may be sent next.                                                   *)
Timely(sent, left, m, left2) ==
  \/ m = State /\ left2 = left
  \/ left # <<>> /\ m = Head(left) /\ left2 = Tail(left)
  \/ left = <<>> /\ IsPing(m) /\ left2 = left

LEMMA GreetingGoesOn ==
  ASSUME NEW T, NEW s \in Seq(T), NEW m \in T, NEW left, NEW left2,
         Greeting(s, left), GreetedFirst(s), Timely(s, left, m, left2)
  PROVE  Greeting(Append(s, m), left2) /\ GreetedFirst(Append(s, m))
<1> DEFINE w == Append(s, m)
           l == Len(s)
<1>1. /\ l \in Nat /\ DOMAIN s = 1 .. l /\ DOMAIN w = 1 .. l + 1
      /\ w[l + 1] = m /\ \A i \in 1 .. l : w[i] = s[i]
  BY Appended
<1>2. \A i \in 1 .. l + 1 : i = l + 1 \/ (i \in 1 .. l /\ \A j \in 1 .. i - 1 : j \in 1 .. l)
  BY <1>1
<1>3. l + 1 \in 1 .. l + 1 /\ (l + 1) - 1 = l /\ \A i \in 1 .. l : i \in 1 .. l + 1
  BY <1>1
<1> HIDE DEF w, l
<1>4. \/ left = <<Welcome, GameMap>> /\ m = Welcome /\ left2 = <<GameMap>>
      \/ left = <<GameMap>> /\ m = GameMap /\ left2 = <<>>
      \/ left = <<>> /\ IsPing(m) /\ left2 = <<>>
      \/ m = State /\ left2 = left
  <2>1. left = <<Welcome, GameMap>> \/ left = <<GameMap>> \/ left = <<>>
    BY Zenon DEF Greeting
  <2>2. CASE m = State /\ left2 = left
    BY <2>2
  <2>3. CASE left # <<>> /\ m = Head(left) /\ left2 = Tail(left)
    <3>1. CASE left = <<Welcome, GameMap>>
      <4>1. Head(left) = Welcome /\ Tail(left) = <<GameMap>>
        BY <3>1, WordsLeft
      <4> QED BY <2>3, <3>1, <4>1, Zenon
    <3>2. CASE left = <<GameMap>>
      <4>1. Head(left) = GameMap /\ Tail(left) = <<>>
        BY <3>2, WordsLeft
      <4> QED BY <2>3, <3>2, <4>1, Zenon
    <3> QED BY <2>1, <2>3, <3>1, <3>2, Zenon
  <2>4. CASE left = <<>> /\ IsPing(m) /\ left2 = left
    BY <2>4
  <2> QED BY <2>2, <2>3, <2>4, Zenon DEF Timely
<1>0. /\ left = <<Welcome, GameMap>> => \A j \in 1 .. l : w[j] = State
      /\ left = <<GameMap>> => /\ \E j \in 1 .. l : w[j] = Welcome
                               /\ \A j \in 1 .. l : w[j] \in {Welcome, State}
      /\ left = <<>> => \E j \in 1 .. l : w[j] = GameMap
  <2>1. <<Welcome, GameMap>> # <<>> /\ <<GameMap>> # <<>> /\ <<Welcome, GameMap>> # <<GameMap>>
    BY WordsLeft
  <2> HIDE DEF Welcome, GameMap
  <2>2. /\ left = <<Welcome, GameMap>> => \A j \in 1 .. l : s[j] = State
        /\ left = <<GameMap>> => /\ \E j \in 1 .. l : s[j] = Welcome
                                 /\ \A j \in 1 .. l : s[j] \in {Welcome, State}
        /\ left = <<>> => \E j \in 1 .. l : s[j] = GameMap
    BY <1>1, <2>1, Zenon DEF Greeting
  <2> QED BY <1>1, <2>2
<1>5. Greeting(w, left2)
  <2>1. CASE left = <<Welcome, GameMap>> /\ m = Welcome /\ left2 = <<GameMap>>
    BY <1>0, <1>1, <1>2, <1>3, <2>1 DEF Greeting
  <2>2. CASE left = <<GameMap>> /\ m = GameMap /\ left2 = <<>>
    BY <1>0, <1>1, <1>2, <1>3, <2>2 DEF Greeting
  <2>3. CASE left = <<>> /\ IsPing(m) /\ left2 = <<>>
    BY <1>0, <1>1, <1>2, <1>3, <2>3 DEF Greeting
  <2>4. CASE m = State /\ left2 = left
    <3>1. left = <<Welcome, GameMap>> \/ left = <<GameMap>> \/ left = <<>>
      BY Zenon DEF Greeting
    <3> QED BY <1>0, <1>1, <1>2, <1>3, <2>4, <3>1 DEF Greeting
  <2> QED BY <1>4, <2>1, <2>2, <2>3, <2>4
<1>6. ASSUME NEW i \in 1 .. l
      PROVE  /\ w[i] = Welcome => \A j \in 1 .. i - 1 : w[j] = State
             /\ w[i] = GameMap => /\ \E j \in 1 .. i - 1 : w[j] = Welcome
                                  /\ \A j \in 1 .. i - 1 : w[j] \in {Welcome, State}
             /\ IsPing(w[i]) => \E j \in 1 .. i - 1 : w[j] = GameMap
  <2>1. w[i] = s[i] /\ \A j \in 1 .. i - 1 : w[j] = s[j]
    BY <1>1
  <2> QED BY <1>1, <2>1 DEF GreetedFirst
<1>7. /\ m = Welcome => \A j \in 1 .. l : w[j] = State
      /\ m = GameMap => /\ \E j \in 1 .. l : w[j] = Welcome
                        /\ \A j \in 1 .. l : w[j] \in {Welcome, State}
      /\ IsPing(m) => \E j \in 1 .. l : w[j] = GameMap
  BY <1>0, <1>4, Kinds
<1>8. GreetedFirst(w)
  BY <1>1, <1>2, <1>3, <1>6, <1>7 DEF GreetedFirst
<1> QED BY <1>5, <1>8 DEF w

-----------------------------------------------------------------------------
(* The steps of the session: the movement.                                  *)

LEMMA Messages ==
  /\ \A d : ~ IsPing(Move(d)) /\ Move(d).d = d
  /\ \A n : IsPing(Ping(n)) /\ Ping(n).n = n
  /\ \A m \in Pings : IsPing(m) /\ m.n \in Nat
  /\ \A m \in Moves : ~ IsPing(m)
<1>1. MaxPing \in Nat
  BY ClientAssumption
<1> QED BY <1>1 DEF Move, Ping, IsPing, Pings, Moves

(* No direction without a key: KeyUp lets go of the last key of none but    *)
(* the direction it takes away.                                             *)
LEMMA KeysStep ==
  ASSUME IInv, direction \subseteq {DirectionOf[k] : k \in held}, [Next]_vars
  PROVE  (direction \subseteq {DirectionOf[k] : k \in held})'
<1>1. UNCHANGED <<direction, held>>
        => (direction \subseteq {DirectionOf[k] : k \in held})'
  OBVIOUS
<1>2. ASSUME NEW k \in Keys, KeyDown(k) PROVE (direction \subseteq {DirectionOf[h] : h \in held})'
  BY <1>2 DEF KeyDown
<1>3. ASSUME NEW k \in Keys, KeyUp(k) PROVE (direction \subseteq {DirectionOf[h] : h \in held})'
  <2>1. held' = held \ {k} /\ direction' = direction \ {DirectionOf[k]}
    BY <1>3 DEF KeyUp, RemoveFlag
  <2>2. ASSUME NEW d \in direction' PROVE \E h \in held' : d = DirectionOf[h]
    <3>1. PICK h \in held : d = DirectionOf[h]
      BY <2>1
    <3>2. h # k
      BY <2>1, <3>1
    <3> QED BY <2>1, <3>1, <3>2
  <2> QED BY <2>2
<1>4. CASE Escape \/ Loop \/ Astray \/ Host \/ Arrive
  BY <1>1, <1>4 DEF Escape, Loop, Astray, NothingThere, HeaderAtEnd, ReadHeader, ReadShortHeader,
       ReadBody, BodyAtEnd, Draw, SendPing, Handle, Host, HostGreets, HostHandles,
       HostSendsState, HostCloses, Arrive, ClientFrame, ClientRest, inputVars
<1>5. CASE UNCHANGED vars
  BY <1>1, <1>5 DEF vars
<1> QED BY <1>2, <1>3, <1>4, <1>5 DEF Next, Input

LEMMA MovementStep ==
  ASSUME IInv, MovementFollows, [Next]_vars
  PROVE  MovementFollows'
<1> USE DEF ClientFrame, ClientRest, inputVars, idVars, hostVars
<1>1. MovementFollows <=> /\ direction \subseteq {DirectionOf[k] : k \in held}
                          /\ closed \/ Followed(up, velocity, direction)
  BY DEF MovementFollows, Followed
<1>2. MovementFollows' <=> /\ (direction \subseteq {DirectionOf[k] : k \in held})'
                           /\ closed' \/ Followed(up', velocity', direction')
  BY DEF MovementFollows, Followed
<1>3. (direction \subseteq {DirectionOf[k] : k \in held})'
  BY <1>1, KeysStep
<1>4. up \in Seq(Pings \cup Moves)
  BY DEF IInv, Traffic
<1> SUFFICES closed' \/ Followed(up', velocity', direction')
  BY <1>2, <1>3
<1>5. UNCHANGED <<up, velocity, direction, closed>>
        => closed' \/ Followed(up', velocity', direction')
  BY <1>1
<1>6. ASSUME NEW k \in Keys, KeyDown(k) \/ KeyUp(k)
      PROVE  closed' \/ Followed(up', velocity', direction')
  <2>1. UNCHANGED <<closed, velocity>>
    BY <1>6 DEF KeyDown, KeyUp
  <2>2. closed \/ up' = Append(up, Move(direction'))
    BY <1>6 DEF KeyDown, KeyUp, Send
  <2>3. Move(direction') \in Pings \cup Moves
    BY InputStep DEF Move, Moves
  <2>4. Followed(Append(up, Move(direction')), velocity', direction')
    BY <1>4, <2>3, LastMove, Messages
  <2> QED BY <2>1, <2>2, <2>4
<1>7. CASE SendPing
  <2>1. UNCHANGED <<closed, velocity, direction>>
    BY <1>7 DEF SendPing
  <2>2. closed \/ up' = up \/ (ping < MaxPing /\ up' = Append(up, Ping(ping + 1)))
    BY <1>7 DEF SendPing, Send
  <2>3. ping < MaxPing => Ping(ping + 1) \in Pings
    BY ClientAssumption DEF IInv, TypeOK, Ping, Pings
  <2>4. ping < MaxPing /\ ~ closed
          => Followed(Append(up, Ping(ping + 1)), velocity, direction)
    BY <1>1, <1>4, <2>3, PingIsNoMove, Messages
  <2> QED BY <1>1, <2>1, <2>2, <2>4
<1>8. CASE HostHandles
  <2>1. /\ ~ closed /\ up # <<>> /\ up' = Tail(up) /\ UNCHANGED direction
        /\ Obey(Head(up))
    BY <1>8 DEF HostHandles
  <2>2. Head(up) = up[1]
    BY <1>4, <2>1
  <2>3. IF IsPing(up[1]) THEN velocity' = velocity ELSE velocity' = up[1].d
    BY <2>1, <2>2 DEF Obey, IsPing
  <2>4. Followed(Tail(up), velocity', direction)
    BY <1>1, <1>4, <2>1, <2>3, MoveObeyed
  <2> QED BY <2>1, <2>4
<1>9. CASE Escape \/ HostGreets \/ HostSendsState \/ Arrive \/ Draw \/ ReadBody
           \/ NothingThere \/ HeaderAtEnd \/ ReadHeader \/ ReadShortHeader \/ Astray
           \/ BodyAtEnd
  BY <1>5, <1>9 DEF Escape, HostGreets, HostSendsState, Arrive, Draw, ReadBody, Handle,
       NothingThere, HeaderAtEnd, ReadHeader, ReadShortHeader, Astray, BodyAtEnd
<1>10. CASE HostCloses
  BY <1>10 DEF HostCloses
<1>11. CASE UNCHANGED vars
  BY <1>5, <1>11 DEF vars
<1> QED BY <1>6, <1>7, <1>8, <1>9, <1>10, <1>11 DEF Next, Loop, Input, Host

-----------------------------------------------------------------------------
(* The steps of the session: the greeting and the round trips.              *)

LEMMA GreetingStep ==
  ASSUME IInv, closed \/ Greeting(frames, greeting), GreetedFirst(frames), [Next]_vars
  PROVE  (closed \/ Greeting(frames, greeting))' /\ GreetedFirst(frames')
<1> USE DEF ClientFrame, ClientRest, inputVars, idVars, hostVars
<1>1. frames \in Seq(Frames) /\ up \in Seq(Pings \cup Moves) /\ greeting \in Seq(Greetings)
  BY DEF IInv, Traffic
<1>2. UNCHANGED <<frames, greeting, closed>>
        => (closed \/ Greeting(frames, greeting))' /\ GreetedFirst(frames')
  BY DEF Greeting
<1>3. ASSUME NEW m \in Frames, ~ closed, frames' = Append(frames, m),
             Timely(frames, greeting, m, greeting')
      PROVE  (closed \/ Greeting(frames, greeting))' /\ GreetedFirst(frames')
  <2>1. /\ Greeting(Append(frames, m), greeting')
        /\ GreetedFirst(Append(frames, m))
    BY <1>1, <1>3, GreetingGoesOn
  <2>2. Greeting(frames', greeting') /\ GreetedFirst(frames')
    BY <1>3, <2>1
  <2> QED BY <2>2 DEF Greeting
<1>4. CASE HostGreets
  <2>1. /\ ~ closed /\ greeting # <<>> /\ greeting' = Tail(greeting)
        /\ frames' = Append(frames, Head(greeting))
    BY <1>4 DEF HostGreets
  <2>2. Head(greeting) \in Frames
    BY <1>1, <2>1 DEF Frames
  <2>3. Timely(frames, greeting, Head(greeting), greeting')
    BY <2>1 DEF Timely
  <2> QED BY <1>3, <2>1, <2>2, <2>3
<1>5. CASE HostSendsState
  <2>1. ~ closed /\ frames' = Append(frames, State) /\ greeting' = greeting
    BY <1>5 DEF HostSendsState
  <2>2. State \in Frames /\ Timely(frames, greeting, State, greeting')
    BY <2>1 DEF Frames, Timely
  <2> QED BY <1>3, <2>1, <2>2
<1>6. CASE HostHandles
  <2>1. /\ ~ closed /\ greeting = <<>> /\ greeting' = greeting /\ closed' = closed
        /\ up # <<>> /\ Obey(Head(up))
    BY <1>6 DEF HostHandles
  <2>2. Head(up) \in Pings \cup Moves
    BY <1>1, <2>1
  <2>3. CASE IsPing(Head(up))
    <3>1. frames' = Append(frames, Head(up)) /\ Head(up) \in Frames
      BY <2>1, <2>2, <2>3, Messages DEF Obey, IsPing, Frames
    <3>2. Timely(frames, greeting, Head(up), greeting')
      BY <2>1, <2>3 DEF Timely
    <3> QED BY <1>3, <2>1, <3>1, <3>2
  <2>4. CASE ~ IsPing(Head(up))
    BY <1>2, <2>1, <2>4 DEF Obey, IsPing
  <2> QED BY <2>3, <2>4
<1>7. CASE HostCloses
  <2> DEFINE k == (arrived' + FrameSize - 1) \div FrameSize
  <2>1. closed' /\ frames' = SubSeq(frames, 1, k)
    BY <1>7 DEF HostCloses
  <2>2. k \in 0 .. Len(frames)
    <3>1. Len(frames) \in Nat /\ FrameSize \in Nat \ {0}
      BY <1>1, FrameSizes
    <3>2. arrived' \in Nat /\ arrived' <= Len(frames) * FrameSize
      BY <1>1, <1>7, <3>1, Longer DEF HostCloses, IInv, TypeOK, Total
    <3> QED BY <3>1, <3>2, Covering, Zenon
  <2> HIDE DEF k
  <2>3. /\ DOMAIN frames = 1 .. Len(frames) /\ DOMAIN frames' = 1 .. k
        /\ \A i \in 1 .. k : i \in 1 .. Len(frames) /\ frames'[i] = frames[i]
    BY <1>1, <2>1, <2>2
  <2>4. \A i \in 1 .. k : \A j \in 1 .. i - 1 : j \in 1 .. k
    BY <2>2
  <2>5. GreetedFirst(frames')
    BY <2>3, <2>4 DEF GreetedFirst
  <2> QED BY <2>1, <2>5
<1>8. CASE Input \/ Loop \/ Astray \/ Arrive
  BY <1>2, <1>8 DEF Input, KeyDown, KeyUp, Escape, Loop, NothingThere, HeaderAtEnd,
       ReadHeader, ReadShortHeader, Astray, ReadBody, BodyAtEnd, Draw, SendPing, Handle,
       Arrive
<1>9. CASE UNCHANGED vars
  BY <1>2, <1>9 DEF vars
<1> QED BY <1>4, <1>5, <1>6, <1>7, <1>8, <1>9 DEF Next, Host

(* The number of whole frames that were read.                               *)
LEMMA Quotient ==
  ASSUME NEW k \in Nat, NEW f \in Nat \ {0}, NEW r \in 0 .. f - 1
  PROVE  (f * k + r) \div f = k
BY SMT

LEMMA SameFrame ==
  ASSUME NEW a \in Nat, NEW f \in Nat \ {0}, NEW d \in Nat, (a % f) + d < f
  PROVE  (a + d) \div f = a \div f
<1> DEFINE k == a \div f
           r == a % f
<1>1. k \in Nat /\ r \in 0 .. f - 1 /\ a = f * k + r
  BY Position
<1>2. r + d \in 0 .. f - 1
  BY <1>1
<1> HIDE DEF k
<1>3. (f * k + (r + d)) \div f = k
  BY <1>1, <1>2, Quotient
<1>4. a + d = f * k + (r + d)
  BY <1>1, <1>2
<1> QED BY <1>3, <1>4 DEF k

LEMMA NextFrame ==
  ASSUME NEW a \in Nat, NEW f \in Nat \ {0}
  PROVE  (a + (f - (a % f))) \div f = a \div f + 1
<1> DEFINE k == a \div f
           r == a % f
<1>1. k \in Nat /\ r \in 0 .. f - 1 /\ a = f * k + r
  BY Position
<1> HIDE DEF k
<1>2. a + (f - r) = f * k + f
  BY <1>1
<1>3. f * k + f = f * (k + 1) + 0
  BY <1>1
<1>4. (f * (k + 1) + 0) \div f = k + 1
  BY <1>1, Quotient
<1> QED BY <1>2, <1>3, <1>4 DEF k

LEMMA NoMoreFrames ==
  ASSUME NEW a \in Nat, NEW f \in Nat \ {0}, NEW l \in Nat, a <= l * f
  PROVE  a \div f \in 0 .. l
<1> DEFINE k == a \div f
           r == a % f
<1>1. k \in Nat /\ r \in 0 .. f - 1 /\ a = f * k + r
  BY Position
<1> HIDE DEF k
<1>2. f * k <= f * l
  BY <1>1
<1>3. k <= l
  BY <1>1, <1>2
<1> QED BY <1>1, <1>3 DEF k

ReadFrames == consumed \div FrameSize

Trips ==
  \E echoed \in pong .. ping :
    /\ Carries(frames, ReadFrames + 1, pong, echoed)
    /\ closed \/ Carries(up, 1, echoed, ping)

LEMMA TripsStep ==
  ASSUME IInv, Trips, [Next]_vars
  PROVE  Trips'
<1> USE DEF ClientFrame, ClientRest, inputVars, idVars, hostVars
<1>1. /\ frames \in Seq(Frames) /\ up \in Seq(Pings \cup Moves)
      /\ consumed \in Nat /\ arrived \in Nat
      /\ consumed <= arrived /\ arrived <= Len(frames) * FrameSize
      /\ ping \in Nat /\ pong \in Nat
  BY ClientAssumption DEF IInv, TypeOK, Traffic, Total
<1>2. /\ Header \in Nat \ {0} /\ FrameSize \in Nat \ {0} /\ Header < FrameSize
      /\ Len(frames) \in Nat /\ Len(frames) * FrameSize \in Nat
      /\ consumed % FrameSize \in 0 .. FrameSize - 1
  <2>1. Header \in Nat \ {0} /\ FrameSize \in Nat \ {0} /\ Header < FrameSize
    BY FrameSizes
  <2>2. Len(frames) \in Nat
    BY <1>1
  <2>3. Len(frames) * FrameSize \in Nat
    BY <2>1, <2>2, Longer
  <2>4. consumed % FrameSize \in 0 .. FrameSize - 1
    BY <1>1, <2>1, Position
  <2> QED BY <2>1, <2>2, <2>3, <2>4
<1>3. ReadFrames \in 0 .. Len(frames)
  <2>1. consumed <= Len(frames) * FrameSize
    BY <1>1, <1>2
  <2> QED BY <1>1, <1>2, <2>1, NoMoreFrames DEF ReadFrames
<1>4. PICK echoed \in pong .. ping :
        /\ Carries(frames, ReadFrames + 1, pong, echoed)
        /\ closed \/ Carries(up, 1, echoed, ping)
  BY DEF Trips
<1>5. ReadFrames + 1 \in Nat \ {0} /\ ReadFrames + 1 <= Len(frames) + 1 /\ echoed \in Nat
  BY <1>1, <1>2, <1>3, <1>4
<1>6. UNCHANGED <<frames, up, ping, pong, closed>> /\ ReadFrames' = ReadFrames => Trips'
  BY <1>4 DEF Trips
<1>7. UNCHANGED consumed => ReadFrames' = ReadFrames
  BY DEF ReadFrames, FrameSize
<1>8. ASSUME NEW k \in Keys, KeyDown(k) \/ KeyUp(k) PROVE Trips'
  <2>1. UNCHANGED <<frames, ping, pong, closed, consumed>>
    BY <1>8 DEF KeyDown, KeyUp
  <2>2. closed \/ up' = Append(up, Move(direction'))
    BY <1>8 DEF KeyDown, KeyUp, Send
  <2>3. Move(direction') \in Pings \cup Moves
    BY InputStep DEF Move, Moves
  <2>4. closed \/ Carries(Append(up, Move(direction')), 1, echoed, ping)
    BY <1>1, <1>4, <2>3, OtherAppended, Messages
  <2> QED BY <1>4, <1>7, <2>1, <2>2, <2>4 DEF Trips
<1>9. CASE Alive /\ SendPing
  <2>1. UNCHANGED <<frames, pong, closed, consumed>>
    BY <1>9 DEF SendPing
  <2>2. CASE ping < MaxPing
    <3>1. \/ ping' = ping + 1 /\ up' = Append(up, Ping(ping + 1))
          \/ closed /\ ping' \in {ping, ping + 1}
      BY <1>9, <2>2 DEF SendPing, Send, Alive
    <3>2. Ping(ping + 1) \in Pings \cup Moves
      BY <1>1, <2>2, ClientAssumption DEF Ping, Pings
    <3>3. closed \/ Carries(Append(up, Ping(ping + 1)), 1, echoed, ping + 1)
      <4>1. 1 \in Nat \ {0} /\ 1 <= Len(up) + 1 /\ echoed <= ping
        BY <1>1, <1>4
      <4> QED BY <1>1, <1>4, <1>5, <3>2, <4>1, NextPing, Messages
    <3>4. echoed \in pong .. ping'
      BY <1>1, <1>4, <3>1
    <3> QED BY <1>4, <1>7, <2>1, <3>1, <3>3, <3>4 DEF Trips
  <2>3. CASE ~ (ping < MaxPing)
    BY <1>6, <1>7, <1>9, <2>1, <2>3 DEF SendPing
  <2> QED BY <2>2, <2>3
<1>10. CASE ReadBody
  <2>1. UNCHANGED <<frames, up, ping, closed>>
    BY <1>10 DEF ReadBody, Handle
  <2>2. CASE Readable < Missing
    <3> DEFINE d == arrived - consumed
    <3>1. /\ d \in Nat /\ consumed' = consumed + d /\ UNCHANGED pong
          /\ (consumed % FrameSize) + d < FrameSize
      BY <1>1, <1>2, <1>10, <2>2 DEF ReadBody, Readable, Missing
    <3> HIDE DEF d
    <3>2. (consumed + d) \div FrameSize = consumed \div FrameSize
      BY <1>1, <1>2, <3>1, SameFrame
    <3>3. ReadFrames' = ReadFrames
      BY <3>1, <3>2 DEF ReadFrames, FrameSize
    <3> QED BY <1>6, <2>1, <3>1, <3>3
  <2>3. CASE ~ (Readable < Missing)
    <3> DEFINE n == ReadFrames + 1
    <3>1. /\ consumed' = consumed + (FrameSize - (consumed % FrameSize))
          /\ pong' = IF IsPing(frames[n]) THEN frames[n].n ELSE pong
      BY <1>10, <2>3 DEF ReadBody, Missing, Handle, ReadFrames, IsPing
    <3>2. (consumed + (FrameSize - (consumed % FrameSize))) \div FrameSize
            = consumed \div FrameSize + 1
      BY <1>1, <1>2, NextFrame
    <3>3. ReadFrames' = n
      BY <3>1, <3>2 DEF ReadFrames, FrameSize
    <3>4. consumed + (FrameSize - (consumed % FrameSize)) <= Len(frames) * FrameSize
      BY <1>1, <1>2, <2>3 DEF Readable, Missing
    <3>5. n \in 1 .. Len(frames)
      BY <1>1, <1>2, <3>4, Complete DEF ReadFrames
    <3> HIDE DEF n
    <3>6. Carries(frames, n, pong, echoed)
      BY <1>4 DEF n
    <3>7. CASE IsPing(frames[n])
      <4>1. /\ frames[n].n = pong + 1 /\ pong + 1 <= echoed
            /\ Carries(frames, n + 1, pong + 1, echoed)
        BY <1>1, <1>5, <3>5, <3>6, <3>7, FirstPing
      <4>2. echoed \in pong + 1 .. ping /\ pong' = pong + 1
        BY <1>1, <1>4, <3>1, <3>7, <4>1
      <4> QED BY <1>4, <2>1, <3>3, <4>1, <4>2 DEF Trips
    <3>8. CASE ~ IsPing(frames[n])
      <4>1. Carries(frames, n + 1, pong, echoed) /\ pong' = pong
        BY <1>1, <3>1, <3>5, <3>6, <3>8, OtherFirst
      <4> QED BY <1>4, <2>1, <3>3, <4>1 DEF Trips
    <3> QED BY <3>7, <3>8
  <2> QED BY <2>2, <2>3
<1>11. CASE HostHandles
  <2>1. /\ ~ closed /\ up # <<>> /\ up' = Tail(up) /\ Obey(Head(up))
        /\ UNCHANGED <<ping, pong, closed, consumed>>
    BY <1>11 DEF HostHandles
  <2>2. Head(up) = up[1] /\ up[1] \in Pings \cup Moves /\ 1 \in 1 .. Len(up)
    BY <1>1, <2>1
  <2>3. Carries(up, 1, echoed, ping)
    BY <1>4, <2>1
  <2>4. CASE IsPing(up[1])
    <3>1. frames' = Append(frames, up[1]) /\ up[1] \in Frames
      BY <2>1, <2>2, <2>4, Messages DEF Obey, IsPing, Frames
    <3>2. up[1].n = echoed + 1 /\ echoed + 1 <= ping /\ Carries(up, 1 + 1, echoed + 1, ping)
      BY <1>1, <1>5, <2>2, <2>3, <2>4, FirstPing
    <3>3. Carries(Tail(up), 1, echoed + 1, ping)
      BY <1>1, <2>1, <3>2, MovedUp
    <3>4. Carries(Append(frames, up[1]), ReadFrames + 1, pong, echoed + 1)
      <4>1. pong <= echoed
        BY <1>4
      <4> QED BY <1>1, <1>4, <1>5, <2>4, <3>1, <3>2, <4>1, NextPing
    <3>5. echoed + 1 \in pong .. ping
      BY <1>1, <1>4, <3>2
    <3> QED BY <1>7, <2>1, <3>1, <3>3, <3>4, <3>5 DEF Trips
  <2>5. CASE ~ IsPing(up[1])
    <3>1. frames' = frames
      BY <2>1, <2>2, <2>5 DEF Obey, IsPing
    <3>2. Carries(up, 1 + 1, echoed, ping)
      BY <1>1, <2>2, <2>3, <2>5, OtherFirst
    <3>3. Carries(Tail(up), 1, echoed, ping)
      BY <1>1, <2>1, <3>2, MovedUp
    <3> QED BY <1>4, <1>7, <2>1, <3>1, <3>3 DEF Trips
  <2> QED BY <2>4, <2>5
<1>12. ASSUME NEW m \in Frames, ~ IsPing(m), frames' = Append(frames, m),
              UNCHANGED <<up, ping, pong, closed, consumed>>
       PROVE  Trips'
  <2>1. Carries(Append(frames, m), ReadFrames + 1, pong, echoed)
    BY <1>1, <1>4, <1>5, <1>12, OtherAppended
  <2> QED BY <1>4, <1>7, <1>12, <2>1 DEF Trips
<1>13. CASE HostGreets
  <2>1. Head(greeting) \in Greetings
    BY <1>13 DEF HostGreets, IInv, Traffic
  <2>2. Head(greeting) \in Frames /\ ~ IsPing(Head(greeting))
    BY <2>1, Kinds DEF Greetings, Frames
  <2> QED BY <1>12, <1>13, <2>2 DEF HostGreets
<1>14. CASE HostSendsState
  <2>1. State \in Frames
    BY DEF Frames
  <2> QED BY <1>12, <1>14, <2>1, Kinds DEF HostSendsState
<1>15. CASE HostCloses
  <2> DEFINE k == (arrived' + FrameSize - 1) \div FrameSize
  <2>1. closed' /\ frames' = SubSeq(frames, 1, k) /\ UNCHANGED <<ping, pong, consumed>>
    BY <1>15 DEF HostCloses
  <2>2. arrived' \in Nat /\ consumed <= arrived' /\ arrived' <= Len(frames) * FrameSize
    BY <1>1, <1>2, <1>15 DEF HostCloses, Total
  <2>3. k \in 0 .. Len(frames) /\ arrived' <= k * FrameSize
    BY <1>2, <2>2, Covering, Zenon
  <2> HIDE DEF k
  <2>4. ReadFrames \in 0 .. k
    <3>1. k \in Nat /\ k * FrameSize \in Nat
      BY <1>2, <2>3, Longer
    <3>2. consumed <= k * FrameSize
      BY <1>1, <2>2, <2>3, <3>1
    <3> QED BY <1>1, <1>2, <3>1, <3>2, NoMoreFrames DEF ReadFrames
  <2>5. k \in (ReadFrames + 1) - 1 .. Len(frames)
    BY <1>2, <1>3, <2>3, <2>4
  <2>6. pong <= echoed
    BY <1>4
  <2>7. PICK c \in pong .. echoed : Carries(SubSeq(frames, 1, k), ReadFrames + 1, pong, c)
    BY <1>1, <1>4, <1>5, <2>5, <2>6, CutOff
  <2>8. c \in pong .. ping
    BY <1>1, <1>4
  <2> QED BY <1>7, <2>1, <2>7, <2>8 DEF Trips
<1>16. CASE Alive /\ (ReadHeader \/ ReadShortHeader)
  <2>1. consumed % FrameSize = 0 /\ UNCHANGED <<frames, up, ping, pong, closed>>
    BY <1>16 DEF ReadHeader, ReadShortHeader, AtReceive, Alive, IInv, InStep
  <2>2. PICK d \in Nat : consumed' = consumed + d /\ d < FrameSize
    <3>1. CASE ReadHeader
      BY <1>2, <3>1 DEF ReadHeader
    <3>2. CASE ReadShortHeader
      <4>1. arrived - consumed \in Nat /\ arrived - consumed < FrameSize
        BY <1>1, <1>2, <3>2 DEF ReadShortHeader, Readable
      <4>2. consumed' = consumed + (arrived - consumed)
        BY <1>1, <3>2 DEF ReadShortHeader
      <4> QED BY <4>1, <4>2
    <3> QED BY <1>16, <3>1, <3>2
  <2>3. (consumed + d) \div FrameSize = consumed \div FrameSize
    <3>1. (consumed % FrameSize) + d < FrameSize
      BY <2>1, <2>2
    <3> QED BY <1>1, <1>2, <3>1, SameFrame
  <2>4. ReadFrames' = ReadFrames
    BY <2>2, <2>3 DEF ReadFrames, FrameSize
  <2> QED BY <1>6, <2>1, <2>4
<1>17. CASE Escape \/ Draw \/ Arrive \/ NothingThere \/ HeaderAtEnd \/ Astray \/ BodyAtEnd
  BY <1>6, <1>7, <1>17 DEF Escape, Draw, Arrive, NothingThere, HeaderAtEnd, Astray, BodyAtEnd
<1>18. CASE UNCHANGED vars
  BY <1>6, <1>7, <1>18 DEF vars
<1> QED BY <1>8, <1>9, <1>10, <1>11, <1>13, <1>14, <1>15, <1>16, <1>17, <1>18
        DEF Next, Loop, Input, Host

-----------------------------------------------------------------------------
(* The inductive invariant of the client and its session: types, what is    *)
(* under way in both directions, and the place in the stream of frames.     *)
THEOREM Invariance == Spec => []IInv
<1>1. IInv /\ [Next]_vars => IInv'
  <2> SUFFICES ASSUME IInv, [Next]_vars PROVE IInv'
    OBVIOUS
  <2>1. TypeOK'
    BY FlagsStep, PlacesStep, InputStep, PingStep, BytesStep DEF TypeOK
  <2> QED BY <2>1, TrafficStep, InStepStep DEF IInv
<1> QED BY <1>1, InitIInv, PTL DEF Spec

(* Every variable keeps its type: no byte is read before it came, and       *)
(* neither a PING nor its echo has a number that does not fit two bytes     *)
(* (client.py:288-291).                                                     *)
THEOREM TypesCorrect == Spec => []TypeOK
<1>1. IInv => TypeOK
  BY DEF IInv
<1> QED BY <1>1, Invariance, PTL

(* receive_message begins to read a frame where one begins, whatever the    *)
(* pieces it comes in, until a header is read short (client.py:303-318).    *)
THEOREM StaysInStep == Spec => []InStep
<1>1. IInv => InStep
  BY DEF IInv
<1> QED BY <1>1, Invariance, PTL

(* The direction a player moves in is the client's, and it has a key for    *)
(* each (client.py:64-93, game_objects.py:18-22).                           *)
THEOREM MovementIsFollowed == Spec => []MovementFollows
<1>1. Init => MovementFollows
  <2> SUFFICES ASSUME Init PROVE MovementFollows
    OBVIOUS
  <2>1. direction = {} /\ velocity = direction /\ up = <<>>
    BY DEF Init
  <2>2. DOMAIN up = {}
    BY <2>1
  <2> QED BY <2>1, <2>2 DEF MovementFollows
<1>2. IInv /\ MovementFollows /\ [Next]_vars => MovementFollows'
  BY MovementStep
<1> QED BY <1>1, <1>2, Invariance, PTL DEF Spec

(* PINGs and echoes are numbers that follow on each other, from last_ping   *)
(* of the client to the last echo it has read, with the welcome and the map *)
(* before all of them (client.py:288-343, game.cpp:253-293).                *)
THEOREM TripsAreRound == Spec => []RoundTrips
<1> DEFINE Greeted == (closed \/ Greeting(frames, greeting)) /\ GreetedFirst(frames)
<1>1. Init => Greeted /\ Trips
  <2> SUFFICES ASSUME Init PROVE Greeted /\ Trips
    OBVIOUS
  <2>1. frames = <<>> /\ up = <<>> /\ greeting = <<Welcome, GameMap>> /\ ping = 0 /\ pong = 0
    BY DEF Init
  <2>2. Greeted
    BY <2>1 DEF Greeting, GreetedFirst
  <2>3. Len(frames) = 0 /\ Len(up) = 0
    BY <2>1
  <2>4. ReadFrames + 1 \in Nat \ {0}
    <3>1. consumed \in Nat /\ FrameSize \in Nat \ {0}
      BY FrameSizes DEF Init
    <3> QED BY <3>1, Position DEF ReadFrames
  <2>5. Carries(frames, ReadFrames + 1, 0, 0) /\ Carries(up, 1, 0, 0)
    BY <2>3, <2>4 DEF Carries
  <2> QED BY <2>1, <2>2, <2>5 DEF Trips
<1>2. IInv /\ Greeted /\ Trips /\ [Next]_vars => Greeted' /\ Trips'
  BY GreetingStep, TripsStep
<1>3. Greeted /\ Trips => RoundTrips
  BY DEF Trips, ReadFrames, RoundTrips
<1> HIDE DEF Greeted
<1> QED BY <1>1, <1>2, <1>3, Invariance, PTL DEF Spec
=============================================================================
