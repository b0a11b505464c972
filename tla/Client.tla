------------------------------- MODULE Client -------------------------------
(***************************************************************************)
(* The Python client (src/Client/client.py) and its session with the host: *)
(* the keys and the direction they make, the PINGs and their echoes, and   *)
(* the framing of what the host sends.                                     *)
(*                                                                         *)
(* The bytes of a connection are counted, not spelled: every frame has     *)
(* Header bytes of size and Body bytes of data, which arrive piece by      *)
(* piece.  Of the host the game's side is here: what it answers this client *)
(* goes out in the order it was queued, with game states anywhere between,  *)
(* also before the welcome.                                                 *)
(***************************************************************************)
EXTENDS Integers, Sequences

CONSTANTS
  Header, Body,   (* bytes of a frame: 4 and at least 3 in the code          *)
  Keys,           (* keys of the keyboard that move the player               *)
  DirectionOf,    (* the Direction each of them stands for                   *)
  MaxPing,        (* what fits the two bytes of a PING: 65535 in the code    *)
  MaxStates,      (* bound on the game states the host sends                 *)
  MaxEvents       (* bound on the key events                                 *)

ASSUME ClientAssumption ==
  /\ Header \in Nat \ {0} /\ Body \in Nat \ {0}
  /\ MaxPing \in Nat /\ MaxStates \in Nat /\ MaxEvents \in Nat
  /\ DOMAIN DirectionOf = Keys

VARIABLES
  pc,          (* events, then more frames, the body of one, draw             *)
  mode,        (* "ok", or what became of the client                         *)
  run,         (* cleared by ESC and by closing the window                   *)
  held, events,(* the keys that are down; key events so far                  *)
  direction,   (* self.direction                                             *)
  ping, pong,  (* self.last_ping[0], and the last number that came back      *)
  my_own_id,   (* whether the welcome message was handled                    *)
  up,          (* messages on their way to the host                          *)
  velocity,    (* what the host has made of the last one about movement      *)
  greeting,    (* what the host has still to say of the connection           *)
  frames,      (* the frames it has sent                                     *)
  arrived, consumed,  (* bytes that came / that recv() has returned          *)
  closed       (* the host's end of the connection is closed                 *)

inputVars == <<run, held, events, direction>>
idVars    == <<ping, pong, my_own_id>>
hostVars  == <<velocity, greeting, frames>>
vars == <<pc, mode, run, held, events, direction, ping, pong, my_own_id, up,
          velocity, greeting, frames, arrived, consumed, closed>>

Directions == {DirectionOf[k] : k \in Keys}

Move(d)  == [type |-> "CHANGE_MOVEMENT_DIRECTION", d |-> d]
Ping(n)  == [type |-> "PING", n |-> n]
Welcome  == [type |-> "WELCOME_MESSAGE"]
GameMap  == [type |-> "GAME_MAP"]
State    == [type |-> "GAME_STATE"]

FrameSize == Header + Body

Init ==
  /\ pc = "events" /\ mode = "ok" /\ run = TRUE
  /\ held = {} /\ events = 0 /\ direction = {}
  /\ ping = 0 /\ pong = 0 /\ my_own_id = FALSE
  /\ up = <<>> /\ velocity = {}
  /\ greeting = <<Welcome, GameMap>> /\ frames = <<>>
  /\ arrived = 0 /\ consumed = 0 /\ closed = FALSE

(* socket.send(): once the host has closed, the bytes go nowhere, and from  *)
(* the second call on it raises.                                            *)
Send(message, next) ==
  \/ /\ up' = IF closed THEN up ELSE Append(up, message)
     /\ pc' = next /\ UNCHANGED mode
  \/ /\ closed
     /\ mode' = "OSError"
     /\ UNCHANGED <<pc, up>>

-----------------------------------------------------------------------------
(* event_handler.                                                           *)

(* The mutated form of RemoveFlag: the flag is toggled.                     *)
ToggleFlag(d) == IF d \in direction THEN direction \ {d} ELSE direction \cup {d}

RemoveFlag(d) == direction \ {d}

KeyDown(k) ==
  /\ pc = "events" /\ k \notin held /\ events < MaxEvents
  /\ held' = held \cup {k} /\ events' = events + 1
  /\ direction' = direction \cup {DirectionOf[k]}
  /\ Send(Move(direction'), "events")
  /\ UNCHANGED <<run, idVars, hostVars, arrived, consumed, closed>>

KeyUp(k) ==
  /\ pc = "events" /\ k \in held
  /\ held' = held \ {k}
  /\ direction' = RemoveFlag(DirectionOf[k])
  /\ Send(Move(direction'), "events")
  /\ UNCHANGED <<run, events, idVars, hostVars, arrived, consumed, closed>>

Escape ==
  /\ pc = "events" /\ run
  /\ run' = FALSE
  /\ UNCHANGED <<pc, mode, held, events, direction, idVars, up, hostVars,
                 arrived, consumed, closed>>

-----------------------------------------------------------------------------
(* receive_message: recv(4) that does not wait, then recv() that does.      *)

Readable == arrived - consumed

AtReceive == pc \in {"events", "more"}   \* once per pass, then after each frame

ClientFrame == UNCHANGED <<inputVars, idVars, up, hostVars, arrived, closed>>

(* The mutated form of NothingThere: the loop of start_game goes on.        *)
NothingThereYet ==
  /\ AtReceive /\ Readable = 0
  /\ UNCHANGED <<pc, mode, consumed>> /\ ClientFrame

(* recv(4) raises: it would have to wait, or the connection was reset.      *)
NothingThere ==
  /\ AtReceive /\ Readable = 0
  /\ pc' = "draw"
  /\ UNCHANGED <<mode, consumed>> /\ ClientFrame

(* b'' is size 0, and its type reads as WELCOME_MESSAGE: unpack raises.     *)
HeaderAtEnd ==
  /\ AtReceive /\ Readable = 0 /\ closed
  /\ mode' = "struct.error"
  /\ UNCHANGED <<pc, consumed>> /\ ClientFrame

ReadHeader ==
  /\ AtReceive /\ Readable >= Header
  /\ consumed' = consumed + Header
  /\ IF consumed % FrameSize = 0
       THEN pc' = "body" /\ UNCHANGED mode
       ELSE mode' = "lost" /\ UNCHANGED pc
  /\ ClientFrame

(* Fewer bytes than four are taken for the size: out of step from here on.  *)
ReadShortHeader ==
  /\ AtReceive /\ Readable \in 1 .. Header - 1
  /\ consumed' = arrived
  /\ mode' = "split"
  /\ UNCHANGED pc /\ ClientFrame

(* What the client does then is left out, but that some reader may run out  *)
(* of bytes, the connection being up: the error of client.py:364-375.       *)
Astray ==
  /\ mode = "split" /\ mode' = "struct.error"
  /\ UNCHANGED <<pc, consumed>> /\ ClientFrame

(* What is handled when the whole of frame n is there.  A game state may    *)
(* have the client turn and send CHANGE_ORIENTATION: the message is left    *)
(* out, as SHOOT and SPAWN are, but not that its send() may raise.          *)
Handle(n) ==
  /\ \/ UNCHANGED mode
     \/ closed /\ frames[n].type = "GAME_STATE" /\ mode' = "OSError"
  /\ pong' = IF frames[n].type = "PING" THEN frames[n].n ELSE pong
  /\ my_own_id' = (my_own_id \/ frames[n].type = "WELCOME_MESSAGE")
  /\ UNCHANGED <<inputVars, ping, up, hostVars, arrived, closed>>

Missing == FrameSize - (consumed % FrameSize)

(* The mutated form of ReadBody: recv(size) is called once.                 *)
ReadBodyOnce ==
  /\ pc = "body" /\ Readable > 0
  /\ consumed' = IF Readable < Missing THEN arrived ELSE consumed + Missing
  /\ Handle(consumed \div FrameSize + 1) /\ pc' = "more"

ReadBody ==
  /\ pc = "body" /\ Readable > 0
  /\ IF Readable < Missing
       THEN consumed' = arrived /\ UNCHANGED <<pc, mode>> /\ ClientFrame
       ELSE /\ consumed' = consumed + Missing
            /\ Handle(consumed \div FrameSize + 1) /\ pc' = "more"

(* recv() returns b'' again and again, or raises after a reset.             *)
BodyAtEnd ==
  /\ pc = "body" /\ Readable = 0 /\ closed
  /\ mode' \in {"spinning", "OSError"}
  /\ UNCHANGED <<pc, consumed>> /\ ClientFrame

-----------------------------------------------------------------------------
(* draw_game, the PING that is due or not, and the test of the loop.        *)

LoopEnd == IF run THEN "events" ELSE "ended"

Draw ==
  /\ pc = "draw" /\ pc' = LoopEnd
  /\ UNCHANGED <<mode, inputVars, idVars, up, hostVars, arrived, consumed, closed>>

(* The mutated form of SendPing: nothing keeps the number to two bytes.     *)
SendPingUnchecked ==
  /\ pc = "draw"
  /\ Send(Ping(ping + 1), LoopEnd)
  /\ ping' = IF mode' = "ok" THEN ping + 1 ELSE ping
  /\ UNCHANGED <<inputVars, pong, my_own_id, hostVars, arrived, consumed, closed>>

(* to_bytes(2) raises once the number does not fit; last_ping is set when   *)
(* send() has returned.                                                     *)
SendPing ==
  /\ pc = "draw"
  /\ IF ping < MaxPing
       THEN /\ Send(Ping(ping + 1), LoopEnd)
            /\ ping' = IF mode' = "ok" THEN ping + 1 ELSE ping
       ELSE mode' = "OverflowError" /\ UNCHANGED <<pc, ping, up>>
  /\ UNCHANGED <<inputVars, pong, my_own_id, hostVars, arrived, consumed, closed>>

-----------------------------------------------------------------------------
(* The host: changePlayerMovement, the echo of a PING, the sending thread.  *)

ClientRest == UNCHANGED <<pc, mode, inputVars, idVars, consumed, closed>>

(* NEW_CONNECTION: sendWelcomeMessage and the map.                          *)
HostGreets ==
  /\ ~ closed /\ greeting # <<>>
  /\ frames' = Append(frames, Head(greeting)) /\ greeting' = Tail(greeting)
  /\ UNCHANGED <<up, velocity, arrived>> /\ ClientRest

Obey(m) ==
  \/ m.type = "PING" /\ frames' = Append(frames, m) /\ UNCHANGED velocity
  \/ m.type # "PING" /\ velocity' = m.d /\ UNCHANGED frames

(* The mutated form of HostHandles: messages are taken from the other end.  *)
HostHandlesLast ==
  /\ ~ closed /\ greeting = <<>> /\ up # <<>>
  /\ Obey(up[Len(up)]) /\ up' = SubSeq(up, 1, Len(up) - 1)
  /\ UNCHANGED <<greeting, arrived>> /\ ClientRest

(* MESSAGE, which take() returns after NEW_CONNECTION.                      *)
HostHandles ==
  /\ ~ closed /\ greeting = <<>> /\ up # <<>>
  /\ Obey(Head(up)) /\ up' = Tail(up)
  /\ UNCHANGED <<greeting, arrived>> /\ ClientRest

HostSendsState ==
  /\ ~ closed /\ Len(SelectSeq(frames, LAMBDA f : f = State)) < MaxStates
  /\ frames' = Append(frames, State)
  /\ UNCHANGED <<up, velocity, greeting, arrived>> /\ ClientRest

Total == Len(frames) * FrameSize

Arrive ==
  /\ ~ closed
  /\ arrived < Total /\ arrived' = arrived + 1
  /\ UNCHANGED <<up, hostVars>> /\ ClientRest

(* The end of the connection, anywhere in a frame; with it goes what the    *)
(* host had of this client and what was under way to it.                    *)
HostCloses ==
  /\ ~ closed
  /\ closed' = TRUE
  /\ arrived' \in arrived .. Total
  /\ frames' = SubSeq(frames, 1, (arrived' + FrameSize - 1) \div FrameSize)
  /\ up' = <<>> /\ greeting' = <<>> /\ velocity' = {}
  /\ UNCHANGED <<pc, mode, inputVars, idVars, consumed>>

-----------------------------------------------------------------------------
Alive == mode = "ok" /\ pc # "ended"

Loop == \/ NothingThere \/ HeaderAtEnd \/ ReadHeader
        \/ ReadShortHeader \/ ReadBody \/ BodyAtEnd \/ Draw \/ SendPing

Input == Escape \/ \E k \in Keys : KeyDown(k) \/ KeyUp(k)

Host == HostGreets \/ HostHandles \/ HostSendsState \/ HostCloses

Next == \/ Alive /\ (Loop \/ Input \/ Host \/ Arrive)
        \/ Astray
        \/ ~ Alive /\ UNCHANGED vars

(* The client runs, and the network delivers; the host need do nothing.     *)
Spec == Init /\ [][Next]_vars /\ WF_vars(Alive /\ Loop) /\ WF_vars(Alive /\ Arrive)

-----------------------------------------------------------------------------
(* The values of every variable; nothing is read before it came.            *)
TypeOK ==
  /\ pc \in {"events", "more", "body", "draw", "ended"}
  /\ mode \in {"ok", "OSError", "OverflowError", "struct.error", "spinning",
               "split", "lost"}
  /\ {run, my_own_id, closed} \subseteq BOOLEAN
  /\ held \subseteq Keys /\ events \in 0 .. MaxEvents
  /\ {direction, velocity} \subseteq SUBSET Directions
  /\ ping \in 0 .. MaxPing /\ pong \in 0 .. MaxPing
  /\ consumed \in Nat /\ arrived \in Nat
  /\ consumed <= arrived /\ arrived <= Total

(* As long as no header was read short, the client begins to read a frame   *)
(* where one begins, whatever the pieces it comes in.  It then spins for    *)
(* ever only in a frame that the end of the connection cut off, and fails   *)
(* only when the connection is gone or the PINGs are used up.  struct.error *)
(* on a live connection (client.py:364-375) takes a header read short, and  *)
(* cannot come of a game state in pieces.                                   *)
InStep ==
  LET place == consumed % FrameSize IN
  /\ mode = "ok" => place \in IF pc = "body" THEN Header .. FrameSize - 1 ELSE {0}
  /\ mode = "struct.error" => (closed /\ place = 0) \/ place \in 1 .. Header - 1
  /\ mode = "spinning" => closed /\ place >= Header
  /\ mode = "OSError" => closed
  /\ mode = "OverflowError" => ping = MaxPing
  /\ mode = "split" => place \in 1 .. Header - 1
  /\ mode # "lost"

IsPing(m) == m.type = "PING"

(* From position from on, the PINGs of s are those after a and up to b,     *)
(* each once and in order.                                                  *)
Carries(s, from, a, b) ==
  LET pings == {i \in from .. Len(s) : IsPing(s[i])} IN
  /\ {s[i].n : i \in pings} = a + 1 .. b
  /\ \A i, j \in pings : i < j => s[i].n < s[j].n

(* "pierwsza wiadomosc [...] druga wiadomosc" (Protokol_komunikacji.txt:6): *)
(* the welcome is the first message and the map the second, but for game    *)
(* states, and echoes come after both.                                      *)
GreetedFirst(sent) ==
  \A i \in DOMAIN sent :
    /\ sent[i] = Welcome => \A j \in 1 .. i - 1 : sent[j] = State
    /\ sent[i] = GameMap => /\ \E j \in 1 .. i - 1 : sent[j] = Welcome
                            /\ \A j \in 1 .. i - 1 : sent[j] \in {Welcome, State}
    /\ IsPing(sent[i]) => \E j \in 1 .. i - 1 : sent[j] = GameMap

(* Every PING is echoed once, in order: those that did not come back are on *)
(* their way back or, as long as there is a host, on their way to it.  The  *)
(* latency is never computed from a number ahead of last_ping.              *)
RoundTrips ==
  /\ \E echoed \in pong .. ping :
       /\ Carries(frames, consumed \div FrameSize + 1, pong, echoed)
       /\ closed \/ Carries(up, 1, echoed, ping)
  /\ GreetedFirst(frames)

(* "WASD - ruch" (README.md:14): no direction is kept that has no key held, *)
(* and the host's last word on the movement, once it comes, is the client's *)
(* direction.  With two keys held for one direction the first one that is   *)
(* let go ends it.                                                          *)
MovementFollows ==
  /\ direction \subseteq {DirectionOf[k] : k \in held}
  /\ LET moves == {i \in DOMAIN up : ~ IsPing(up[i])} IN
     \/ closed
     \/ moves = {} /\ velocity = direction
     \/ \E i \in moves : up[i].d = direction /\ \A j \in moves : j <= i

(* "ESC - wyjscie" (README.md:15): the client ends, unless it has failed.   *)
EscapeEnds == ~ run ~> ~ Alive
=============================================================================
