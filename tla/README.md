# PR-Shooter, specified in TLA+

PR-Shooter is a top-down multiplayer shooter: a TCP server library in C (`Server/`), the game in
C++ on top of it (`Host/`), and a Python client (`Client/`). This directory specifies the threads
and the data structures of the library, the process around it, the game they feed, with movement
and collisions, and the client's session with the host. TLC checks the specifications on small
instances; TLAPS proves every safety property that holds in them and the four refinements, for all
values of the constants (the two about collisions, for every map with room to move).

Contents: 1 the system; 2 the hard parts; 3 the modules; 4 how they correspond to the code;
5 the runs; 6 fairness; 7 what the models found; 8 the proofs; 9 what is not covered; 10 the plan.

To check: `tlc -config <cfg> <M>.tla` for a run of section 5 (`MCClient` and `MCArena` are the
modules of `Client.cfg` and `Arena.cfg`), `tlapm <M>Proofs.tla` for section 8.

## 1. The system

| Component | Source | State | Operations |
|---|---|---|---|
| Receiving half of the library | `server.c`, `server_listen.c`, `server_receive.c` | `stopped`, the client table `clients` (socket, thread, `RUNNING`/`STOP`/`STOPPED`), `received_messages` and its condition variable | `runServer`, `stopServer`, `startListening`, `addClient`, one `startReceiving` thread per client, `signalClientToStop`, `take`, `clearEverything` |
| Sending half | `server_send.c` | `outgoing_queue`, `message_to_everyone`, `message_mutex`, `new_message_cond` | `sendTo`, `sendToEveryone`, `startSending` |
| Linked queue | `server_queue.c` | `first`, `last`, nodes with `previous`, `next`, `data` | push back and front, pop with and without handing over the element, clear |
| Growing array | `server_array.c` | `ptr_array`, `size`, `capacity`, a mutex | create, push back with `resize`, get, unsafe get (a pointer), copy, destroy |
| Mutex wrappers | `server_mutex.c` | - | init, lock, unlock, destroy; an error ends the process |
| Server wrapper and host | `server_wrapper.cpp`, `host.cpp`, constructor, `run` and destructor of `Game` | `running`, `stop_signal`, `stop` | `Server::run`, `Server::stop`, the handler of SIGINT, start and join of the game's threads |
| Game | `game.cpp`, `game.hpp` | `players`, `projectiles`, `game_map`, `update_mutex` | `receiveThread`/`handleMessage`, `updateThread` with `updatePositions` and `checkCollisions`, `sendThread`, the two serializers |
| Collision geometry | `collisions.cpp`, `basic_structs.cpp`, the `moveAlongNormal` of `game.cpp` | - | floating point tests of circles, segments and rectangles, displacements |
| Timer | `timer.hpp` | start time | restart, duration |
| Python client | `client.py`, `game_objects.py`, `drawing_utils.py` | `direction`, `run`, `last_ping`, `my_own_id`, map and game state | `event_handler`, `receive_message`, `send_message`, `draw_game` in one loop |

How they interact. The listening thread accepts connections and appends each to the client table
together with a receiving thread. That thread reads frames (a 4 byte size, then the data) and
pushes `NEW_CONNECTION`, `MESSAGE` and `LOST_CONNECTION` events to `received_messages`. The game's
receive thread calls `take()` in a loop and hands each event to `handleMessage`, which changes
`players` and `projectiles` under `update_mutex`; its update thread moves players and projectiles
and deals the damage, and its send thread broadcasts the state with `sendToEveryone`, where a newer
state replaces one that was not sent. Welcome messages go out with `sendTo`. The library's one sending thread takes the
messages, copies the table entries they are for, and writes to the sockets; when a write fails it
marks the client's entry, which the client's receiving thread polls. CTRL+C makes the game join
its threads, and then `stopServer()` stops the library's. The client sends its keys and a PING
every 0.2 s, and reads frames whenever there is something to read.

What makes each part correct:

* Receiving half: every event pushed is taken exactly once, a client's frames in order; no wakeup
  for a frame is lost; nobody uses the queue or the table after they are destroyed; a finished
  client is never taken for a running one; losses are reported; shutdown ends.
* Sending half: every message has one owner until it is freed, once; frames are whole, in order and
  reach only their addressee; every message leaves; shutdown ends.
* Queue: it is a double-ended queue, its links agree, nothing leaks.
* Game: lives and scores are consistent, a projectile is spent on one player, a connected client
  has its record and one that left has none, no two players have one id.
* Growing array: indices are inside, the table looks atomic to every thread although it may move,
  and nobody is left when it goes.
* Process: nothing is used before it is up or after it is down, nothing is freed or joined twice,
  `update_mutex` excludes, CTRL+C ends it.
* Collisions: players stay in the open, who is near a wall but not inside one is pushed out of it,
  and shots fired from the open stop at walls and at the border.
* Client: it reads frames where they begin, its keys and the player's movement agree, PINGs come
  back once and in order, ESC ends it.

## 2. The hard parts

* Interleaving: main, listener, sender, one receiver per client and the game's three threads, with
  five mutexes and two condition variables of which one is signalled outside its mutex.
* Signals that are left out on purpose: connections and losses are queued without one, the end of
  the server has none. The timed waits are all that makes up for it.
* Ordering: a loss is pushed to the front of the queue and overtakes the client's own connection
  and frames.
* Stale data: the sender works on copies of table entries while receivers close the sockets and
  the kernel gives the descriptors to new clients; the game holds projectiles of players who left.
  `realloc` may move the client table away from under a pointer.
* Partial failure: either thread of `runServer()`, or a receiving thread, may fail to start; the
  map file may be missing.
* Life cycle: `running`, `stop_signal`, `stop` and `message_to_everyone` are static and never reset.
* Edges: a `size_t` that wraps, a counter of two bytes, a header that arrives in two pieces.
* Peers: they may hang up or reset at any byte, stop inside a frame, or stop reading.

`PROJECT.json` lists each hazard at its line with the properties that guard against it.

## 3. The modules

```
 EventStream <--implements-- ReceivePath
      ^
      | instance
 GameServer --extends--> Game           GameServer <--extends-- GameProofs
      ^
      | implements
 GameHost --extends--> ReceivePath      GameHost <--extends-- ReceivePathProofs

 Deque <--implements-- LinkedQueue      LinkedQueue <--extends-- LinkedQueueProofs
 Table <--implements-- ClientTable      ClientTable <--extends-- ClientTableProofs
                                        SendPath    <--extends-- SendPathProofs
                                        Lifecycle   <--extends-- LifecycleProofs
                                        Client      <--extends-- ClientProofs, MCClient
                                        Arena       <--extends-- ArenaProofs, MCArena
```

* `ReceivePath`: the receiving half, from `runServer()` to the end of `stopServer()`.
* `EventStream`: the abstract specification of what `take()` promises its caller, client by client.
* `SendPath`: the sending half, with the descriptor table of the kernel and the memory of messages.
  The client table appears here as far as the sender sees it.
* `Game`: players and projectiles under `handleMessage` and `checkCollisions`.
* `GameServer`: `Game` driven by `EventStream`. It composes the game with the promise of the
  library and not with its threads: `ReceivePath` is shown to keep the promise, by TLC and by proof.
* `GameHost`: the game on the threads of `ReceivePath` themselves, where an event that was taken
  waits in the receive thread's hand for the game's mutex. It is shown to implement `GameServer`.
* `LinkedQueue`, `Deque`: the list of nodes, and the double-ended queue it implements. The other
  modules use a sequence for a queue.
* `ClientTable`, `Table`: the growing array behind its mutex as `server.c` uses it, and the atomic
  table it implements. The other modules use a function on the ids for it.
* `Lifecycle`: a host process, from `main()` to its end.
* `Arena`: places to spawn, movement, walls, border and shots, for one player.
* `Client`: the Python client and what the host answers it.
* The eight modules of proofs: section 8. `MCClient` and `MCArena` give values to constants.

Operators named `...Unsignalled`, `...Leaks` and the like, each introduced as "the mutated form
of" the operator below it, are the plausible mistakes that the properties are tried against: with
that body in place of the real one, TLC finds the property violated. They take no part in the
specifications.

## 4. Model and code

Atomicity. What the code does under one mutex is one action. Where it touches shared state
without the mutex, or between two critical sections, there are two actions and a program counter
(`receiver`, `listener`, `taker`, `sender`, `main`) with the points between them.

### ReceivePath

| Variables | Code |
|---|---|
| `main` | where the main thread is: `runServer()`, the game, `stopServer()` |
| `stopped` | the flag of `server.c` |
| `size`, `status` | the client table; an id is an index, and entries are never removed |
| `receiver` | per client, the point of `startReceiving` (`nothread`: `pthread_create` failed) |
| `peer`, `sent`, `read` | the connection. The stream is counted in halves of frames (size, data): `recv` with `MSG_WAITALL` returns a whole half or falls short, and falling short is one path in the code |
| `inbox`, `taker`, `signalled` | `received_messages`, the host thread in `take()`, a `pthread_cond_signal` that found it waiting |
| `seen` | what `take()` has returned of each client: history, for the properties and the refinement |

Actions follow the code in order: `StartListening`... for `runServer`; `ListenerWakes`, `Accept`,
`AcceptFails` for the listener; `PushNew`, `Loop` (the status is read), `Poll`, `RecvSize`,
`RecvData`, `PushMessage`, `PushLost`, `CloseSocket`, `StopClient` for a receiver; `TakeNow`, `TakeWaits`, `TakeWakes`,
`TakeTimesOut` for `take()`; `Interrupt`, `SetStop`, `MarkClientsToStop`, `JoinReceivers`,
`JoinGarbage`, `DestroyQueue` for shutdown. The peer sends halves and may hang up, possibly
discarding what was not read (a reset). `SignalClientToStop` stands for the sending thread, at its
most general: whenever a connection is closed it may mark the entry, whatever the entry has become
since. A status that is written after `Loop` has read it is seen a round later. `poll()`, `accept()`
and `pthread_create` may fail; when `runServer()` has failed, nothing uses the library in this model
(`game.cpp:73` goes on all the same: that is in `Lifecycle`). A join of a thread that was never
created is undefined: it returns, or the process is `crashed`.

### SendPath

`owner` is the kernel's descriptor table: `accept()` takes the lowest free descriptor, `close()`
frees it, and a `send()` reaches whoever owns the descriptor at that moment. `live` is the set of
messages that are allocated, `queue`, `slot` and `hand` the places one may be. The sender's program
counters are `top` (the test of `stopped`), `check`, `unlock` and `asleep` (`waitForMessage`),
`pick`, `copy` (`getClient`, `getAllClients`: copies of the entries with their status), `size` and `data` (the two `send()` of
`sendMessageTo`), `drain` and `done`. `message_mutex` is held at `check`, `unlock` and `pick`;
`sendToEveryone` waits for it, `sendTo` does not, and its push and its signal are two actions.
A peer may stop reading, on which `send()` blocks, when `PeersStall` is set. A receiving thread is
reduced to what the sender can notice: it closes the socket, then writes `STOPPED`.

### Game and GameServer

`players` is the `unordered_map` as a function on the ids in use; `Get` and `Put` are its
`operator[]`, which inserts a default record with `player_id` 0. `projectiles` holds the owner of
each projectile in the order of the vector, `cursor` the iterator of `checkCollisions`, which runs
under `update_mutex`: `handleMessage` waits (`cursor = 0`). Which projectile meets a player, or the
map, is a choice, because positions are left out. `departed` adds up the scores of the records that
are erased or overwritten: history for `KillsMatchDeaths`. `Total` adds up a count per player as
the number of pairs in its `Tally`, which needs no recursion. In `GameServer` an event of the library
and the handler it leads to are one step. `late` records which clients had a record written after
their loss: history.

### GameHost

`hand` is the event between the return of `take()` and the end of `handleMessage`: `TakeEvent` and
`HandleMessage` are two steps, between which updates (`UpdateStep`) and every step of the library
(`LibraryStep`) may come, except one of the thread that takes, which is busy. The update thread runs
from `Game::run` until `stopServer()` is called, and is joined between updates (`cursor = 0`).
`Server` is `GameServer` with the library's promise read off the threads: what `take()` returned
counts as taken once it is handled, and until then as on its way.

### LinkedQueue

`heap` and `element` are what `malloc` has given out and `free` has not taken back, so a dangling
pointer is one outside their domains. `held` are the elements `queueSyncPopFront` handed to its
caller, who must free them. `queueClear` follows `next` from `first`: the nodes it meets are
`Chain`, the longest of the walks along the links.

### ClientTable and Table

`at` is the program counter of every thread that uses the table, `holder` the mutex, `block`,
`size` and `capacity` the `Array`. `heap` holds what is in every block of memory: `Resize` may stay
in the block or move to another one, and a block that is given back holds junk, so a `ptr` into it
shows. `addClient` is six actions, because the thread it creates runs before it is through.
`getClient`, `getAllClients`, `getClientStatus`, `stopClient` and `signalClientToStop` are one
sequence of actions, `op` saying which is going on. In `Table` the same happens at one instant;
`entries` leaves out the entry that `addClient` has not finished, `view` is what a reader copied.

### Lifecycle

`main` goes through the constructor of `Game`, `run()` and the destructor, for `MaxGames` games one
after the other (`host.cpp` makes one; the constructor's `first_init` is written for more).
`thread` has the three threads of the game around `update_mutex` (`holder`). Of the library there is
the sending thread (`sender`; `slot` and `hand` are `message_to_everyone` and its copy, with "freed"
for a pointer to what was freed) and one receiving thread, of any client (`receiver`). Both may be
inside a call that only the peer can end: a `send()` (`Sent` is its return) or a `recv()` of a frame
that has begun (`FrameEnds`). `stopServer()` sets the flag and joins the sending thread
(`joinSender`), marks the clients and joins theirs (`joinReceivers`), and clears. What C leaves undefined (a second join, the use of what is
destroyed, a second `delete[]`) is recorded in `fault`, and nothing is said of the process after it.

### Arena

The arithmetic of `collisions.cpp` and of the `moveAlongNormal` functions, in whole numbers: for
edges along an axis, heights, normals and displacements are whole numbers themselves, distances are
compared by their squares, and the tolerances of the code (0.01) decide nothing. A step of the
player is 1 where the radius is 3 (in the code 0.9 and 30), a step of a shot 1 where its radius is
1 (1.5 and 4): the model takes more of its radius in one step than the code does. `Pushed` applies
the walls and then the border in the order of the loops. `ReadsBeyond` is `borders.size() - 1` in
the arithmetic of `size_t`.

`Spawn` takes any whole point of the box from `TopLeft` to `BottomRight`, as `spawnPlayer` does
whatever is there: a player may start inside a wall, on the border, or beside both. `open` remembers
of a shot whether the player who fired it stood in the open: history.

`Roomy` says of which maps two of the theorems speak: a step is shorter than the player's radius,
border and walls are boxes, and between two walls, and between a wall and a side of the border that
it is not flush with, a player fits. The border and the first three walls of `map1` are such, with
its radius of 30 (the walls are 100 apart, or flush with the border); its fourth wall is slanted, its
obstacles are round, and neither is in the model. `MCArena` has TLC evaluate `Roomy` of its map.

### Client

`pc` is the place in the loop of `start_game`; `frames` is what the host has sent, `arrived` and
`consumed` count its bytes, `up` is under way to the host. The game's side of the session is one
action per answer: `HostGreets` for `NEW_CONNECTION`, `HostHandles` for a `MESSAGE`,
`HostSendsState` for a broadcast. The connection may end after any byte (`HostCloses`). `mode` says
what became of a client that does not go on: an exception, a header that came in pieces (`split`: from
there on it reads nonsense, of which only is kept that some reader may run out of bytes, `Astray`), a
`recv()` that returns nothing for ever (`spinning`). A reset makes `recv()` and `send()` raise:
before a frame that is taken for nothing to read (`NothingThere`), inside one, or in the `send()` of
a CHANGE_ORIENTATION that a game state may call for, it ends the client (`OSError`). `Carries` says of a sequence of messages which PINGs it holds: `RoundTrips` cuts
the numbers from the last echo to `last_ping` in two, those on their way back and those on their
way to the host.

## 5. The runs

| Run | Instance | States | What it shows |
|---|---|---|---|
| `ReceivePath_safety` | 2 clients, 1 frame each, threads may fail | 1,131,612 | `InboxExact`: the queue is what was pushed and not taken, each once, a client's loss first, then connection and frames in order. `NoMissedSignal`. `QueueOutlivesUsers`. `FinishedNotRunning` |
| `ReceivePath_liveness` | 1 client, 3 frames, threads may fail | 16,467 | `StreamSpec`: `ReceivePath` implements `EventStream`. `FramesReachHost`, `LossReachesHost`, `ShutdownCompletes` |
| `SendPath_safety` | 2 clients who may stall, 1 message to each at most, 2 to all | 871,262 | `OwnedOnce`: one owner, no leak, no double free, no use after free. `NeverSendsNull`. `FreshStream`: whole frames, own messages, in order, on a descriptor that is not reused |
| `SendPath_liveness` | 1 client who reads, 2 messages of each kind | 34,837 | `MessagesLeave`, `SenderStops` |
| `GameServer_safety` | 2 clients, 4 frames each, 2 projectiles, 3 spawns, two hits kill | 105,397 | `HealthInRange`, `KillsMatchDeaths`, `ConnectedHasPlayer`, `GoneUnlessLate`, `OneProjectileOneVictim` |
| `LinkedQueue` | 4 nodes, 2 elements | 4,009 | `WellLinked`, `NothingLeaks`, and the refinement of `Deque` |
| `ClientTable` | sender and one receiver, 3 connections, capacity 1, 2 blocks | 149,150 | `InsideCapacity`, `PointersValid`, and the refinement of `Table` |
| `Lifecycle` | 2 games, of which the server may fail to start; clients read, and finish the frames they begin | 3,024 | `OneGameClean`, `FreedOnce`, `AloneInGame`, `SignalEndsProgram` |
| `Client` | frames of 2 + 2 bytes, 2 keys for one direction, 2 PINGs, 1 game state, 2 key presses | 908,635 | `InStep`, `RoundTrips`, `MovementFollows`, `EscapeEnds` |
| `Arena` | a map of 9 by 15 with a wall flush with its left side and one with its right, radius 3, any place to spawn, with and without a map | 287,905 | `PushedOut`, `OpenStaysOpen`, `ShotsStopped`, `CrashesWithoutMap` |
| `SendPath_misdelivery` | the smallest that shows it | | violates `OwnMessagesOnly`: section 7 |
| `GameHost_ids` | 2 clients, 1 frame each, library threads and game | | violates `DistinctIds`: section 7 |

The safety runs of `ReceivePath`, `SendPath` and `GameServer`, and `Client`, also check the `TypeOK`
of their module. In `ReceivePath` it holds the clause that no half is read before it was sent, in
`SendPath` that the flag is set in every state of shutdown, in `Client` that no byte is read before
it came and that a number of two bytes stays one; in `LinkedQueue` `WellLinked` includes that no
pointer dangles.

Bounds. `MaxClients` and `MaxFrames` bound what the peers do; the code has no such limits. Two
clients are the least that show interference: one queue for both, a descriptor passed from one to
the other, a broadcast between individual messages, a shooter and a victim. Receivers interact only
through the queue, whose order between clients nothing depends on, and the theorems of section 8
hold for any number. Three frames let one be queued, one be read and one be on its way. In
`SendPath`, two broadcasts let one replace another before, or while, the first is sent. In
`GameServer`, four frames are a spawn, a shot, another shot and one that comes late; three spawns
let a player die and return; `MaxHealth` 20 with `Damage` 10 keeps the ratio that matters, a hit
that wounds and a hit that kills (100 and 10 in the code). Four nodes let a list have two inner
nodes while no element is held. In `ClientTable` the array grows from 1 to 2 and from 2 to 4, with
entries to move; two blocks let it move away and back, so that a stale pointer could hit junk.
Two games are the least that use what the first left behind. In `Client`, `Header` and `Body` of 2
let both come in pieces, two frames of the host's and two PINGs let an echo stand behind another
frame, and two keys for one direction are the case in which keys and direction differ. In `Arena`
there are the four sides of the border, corners between wall and border, walls thinner than a
player, and a way between them that a player just fits through; a player is inside a wall, on the
border and at the corners, because it may spawn there. There is no new life while a shot is
followed, and `Horizon` ends the way of a player or a shot that has left the map.

Deadlock is checked in every run. Where the process ends, `Terminated` (in `Client`, `~ Alive`)
stutters. No symmetry is used: client ids are ordered, and elsewhere the instances are small.

## 6. Fairness

* Weak fairness of each server thread as a whole (`Receiver(i)`, `Listener`, `Taker`, `Sender`)
  and of the main thread in `runServer()` and `stopServer()`: the operating system schedules them,
  and none of their steps can be disabled for ever by another thread's holding a mutex.
* No fairness of the peers, the operator's CTRL+C, the game's calls, new connections
  (`ListenerWakes`) or failures (`ListenerFails`, `PollFails`, `SignalClientToStop`).
* `SpecFinishingPeers` adds that a peer who has sent half a frame sends the other half or hangs up.
  `ShutdownCompletes` needs it: a receiving thread inside `recv` does not look at its status, and
  shutdown waits for the thread. The Python client sends size and data in one call
  (`Client/client.py`), so for it the assumption is that the network delivers.
* In `SendPath`, weak fairness of `Sender` includes `SenderWakes`, the time limit of
  `pthread_cond_timedwait`. With the signal alone both liveness properties fail: these are the
  mutants of that run.
* `ShutdownCompletes` says nothing of a run in which a client's thread failed to start: what the
  join of an uninitialized `thread_id` does is undefined (section 7).
* `Lifecycle`: weak fairness of main, of each thread of the game, of the library's steps between
  calls that a peer can block, and of a use of what is destroyed (a thread that is about to make it
  goes on). None of CTRL+C, and none of the clients. Weak fairness of a thread is enough for it to
  get `update_mutex`, because the others give it back and, once `stop` is set, do not come again.
  `SpecGoodClients` adds what `SignalEndsProgram` needs and the code does not enforce: the clients
  read what they are sent (`Sent`), and finish the frames they begin or hang up (`FrameEnds`). Under
  `Spec` alone TLC finds it violated, by a client of either kind (section 7). A fault does
  not count as the end.
* `Client`: weak fairness of the client's loop and of the network's delivering a byte that was sent.
  None of the host, which may stop answering, and none of the keys. `EscapeEnds` counts a client
  that has failed as ended.

## 7. What the models found

Two have a run in which TLC finds the property violated, and an entry in `PROJECT.json`.

1. `OwnMessagesOnly`: the sender's copy of an entry outlives the socket (`server_send.c:109`): a
   client on a reused descriptor is sent another client's welcome message. In the same way a
   reused descriptor may get the data of a frame without its size (the two `send()` of
   `sendMessageTo`), which is why `FreshStream` speaks of descriptors that nobody had before.
2. `DistinctIds`: `players[id]` of a player who left inserts a record with `player_id` 0, a second
   player 0. The run has the threads of the library and the game: a SPAWN is handled after the loss
   of its client (`game.cpp:315`), and makes a record with the id of the other client, who plays
   on. The other handlers insert in the same way (lines 305, 337 and 342), and so does a kill whose
   owner has left (line 440), which that run is too small for: it has no projectile. The record of a
   late event is never removed: `GoneUnlessLate` says which records can stay.

Three are behaviours the models have, which properties are worded around:

* A loss is pushed in front of the client's earlier events (`server_receive.c:121`), so the host
  hears of a client it was told is gone. `EventStream` and `InboxExact` have it so, and `GameServer`
  shows what it does to the game.
* When `pthread_create` fails, `addClient` stores an uninitialized `thread_id` in an entry that
  stays `RUNNING` (`server.c:139`-`144`), and `stopReceivingThreads` joins it (`JoinGarbage`).
  Without the exception it makes, `ShutdownCompletes` is violated.
* A client that does not read blocks the one sending thread, and `stopServer()` waits for it
  (`server_send.c:52`, `:58`), although `README.md:18` of the repository says that the server shuts
  down after about a second. With `PeersStall` set, `SenderStops` is violated, and so is
  `SignalEndsProgram` under `Spec` in place of `SpecGoodClients`.

Met on the way, and not claims a run refutes:

* `take()` may return `EMPTY` although an event is queued: a timeout is returned without another
  look at the queue (`server_receive.c:22`). The event comes with the next call.
* A peer that stops inside a frame keeps `stopServer()` waiting (`server_receive.c:78` and `:94`);
  `ShutdownCompletes` holds only with `SpecFinishingPeers`.
* The sender's deadline is absolute and not renewed in the loop of `waitForMessage`
  (`server_send.c:70`): after one idle second the thread spins until a message comes.
* The last message to everyone is freed at the end and its pointer kept (`server_send.c:132`), and
  `Server::stop()` leaves `running` set (`server_wrapper.cpp:48`). The second hides the first:
  because a second `Server::run()` is refused, nobody frees the message again, which is what
  `FreedOnce` shows; the mutant that resets `running` frees it twice. After a `Game` that ran,
  `stop_signal` and `stop` are set as well: the threads of a second one leave at once, and what it
  does meet is the second `stopServer()`, which joins threads that were joined.
* A `Game` whose server did not start goes on as if it had (`game.cpp:73`): its receive thread
  locks, in `take()`, a mutex that was destroyed again. `OneGameClean` supposes that the server runs.
* Without a map, the first update with a player in play, or with a shot, reads `borders` beyond its
  end (`game.cpp:406`, `:447`): `CrashesWithoutMap`. The program says that it could not open the
  file and goes on.
* `spawnPlayer` takes any point of the bounding box, because `isInsideBorder` returns true. "If
  players centre is outside then collision check will push him out", says `game.cpp:326`, and that one
  whose centre is in a wall is stuck. `PushedOut` is the first half as it holds: of a player the
  update takes to a place outside of every wall and a radius within the border. Deep in a wall no
  push reaches a player (the walls of `map1` are 100 thick, its radius is 30). On or near a side of
  the border that a wall is flush with (two of the walls of `map1` are) the edges of the wall push
  outwards, where the border's push, radius minus height, takes nobody back (`game.cpp:484`): in the
  instance, who spawns at (-4, -3) ends at (-7, -4), out of the map for good. `OpenStaysOpen` says
  that nobody who stands in the open gets to such a place, and `ShotsStopped` speaks of the shots
  fired from there: a player who is stuck, or outside, fires shots that start inside a wall or
  outside. A wall much thinner than the radius would push a player near one side out on the other;
  no map has one.
* The box of the map starts at `std::numeric_limits<double>::min()`, the smallest positive number
  (`game.cpp:151`): a map with negative coordinates only gets a wrong corner.
* `receive_message` takes what `recv(4)` returns for a size (`client.py:309`): fewer than four
  bytes put it out of step on a live connection, after which any reader may run out of bytes. That
  is the `struct.error` of `client.py:364`-`375`: its comment is about a large game state, but
  one that is read whole cannot raise, since the host writes counts and data of a state under one
  lock of `update_mutex` and the client reads the rest of a body until it is there. `InStep` says
  that a live connection has this error in no other way. At the end of the connection no bytes at
  all raise in `unpack`; a reset before a frame is taken for nothing to read, and within a frame it
  raises out of the loop. In the middle of a frame the end of the connection makes the client spin,
  and ESC is not looked at.
* With two keys held for one direction, the player stops when the first is let go
  (`client.py:84`): `MovementFollows` is an inclusion, not an equality.
* After 65535 PINGs, 3.6 hours, `to_bytes` raises (`client.py:289`) and the client ends.

## 8. The proofs

The theorems are about `Spec` of their module, for every value of the constants that the module's
assumption allows (`ReceiveAssumption`, `SendAssumption`, `GameAssumption`, `TableAssumption`,
`LifecycleAssumption`, `ClientAssumption`, `NullAssumption`, `ArenaAssumption`): natural numbers and
Booleans, a maximal health from 1 to 255, a positive damage, a capacity of at least one, frames with
at least a byte of size and of data, a null pointer that is no address, and a border of at least one
point and fewer than a `size_t` counts. `GameOnThreads` is about `SpecHost`; `PushesKeepOpen` and
`OpenShotsStopped` assume `Roomy` besides.

| Theorem | Module | States |
|---|---|---|
| `TypesCorrect` | `ReceivePathProofs` | `Spec => []TypeOK` |
| `QueueSafe` | `ReceivePathProofs` | `Spec => []QueueOutlivesUsers` |
| `FinishedStaysFinished` | `ReceivePathProofs` | `Spec => []FinishedNotRunning` |
| `SignalNotMissed` | `ReceivePathProofs` | `Spec => []NoMissedSignal` |
| `QueueExact` | `ReceivePathProofs` | `Spec => []InboxExact` |
| `StreamImplemented` | `ReceivePathProofs` | `Spec => StreamSpec`: the threads implement `EventStream` |
| `GameOnThreads` | `ReceivePathProofs` | `SpecHost => GameServerSpec`: threads and game together implement `GameServer` |
| `SendTypesCorrect` | `SendPathProofs` | `Spec => []TypeOK` |
| `MessagesOwnedOnce` | `SendPathProofs` | `Spec => []OwnedOnce` |
| `NullNeverSent` | `SendPathProofs` | `Spec => []NeverSendsNull` |
| `FreshStreamInOrder` | `SendPathProofs` | `Spec => []FreshStream` |
| `GameTypesCorrect` | `GameProofs` | `Spec => []TypeOK` |
| `KillsAreDeaths` | `GameProofs` | `Spec => []KillsMatchDeaths` |
| `HealthStaysInRange` | `GameProofs` | `Spec => []HealthInRange` |
| `ConnectedKeepsPlayer` | `GameProofs` | `Spec => []ConnectedHasPlayer` |
| `GoneLeavesNothing` | `GameProofs` | `Spec => []GoneUnlessLate` |
| `OnlyLateIdsClash` | `GameProofs` | `Spec => []OnlyLateShareIds`: records that were not written after the loss of their client bear different ids |
| `ProjectileSpentOnce` | `GameProofs` | `Spec => OneProjectileOneVictim` |
| `TypesCorrect` | `ClientTableProofs` | `Spec => []TypeOK` |
| `StaysInsideCapacity` | `ClientTableProofs` | `Spec => []InsideCapacity` |
| `PointersStayValid` | `ClientTableProofs` | `Spec => []PointersValid` |
| `TableImplemented` | `ClientTableProofs` | `Spec => TableSpec`: the array and its mutex implement `Table` |
| `StaysWellLinked` | `LinkedQueueProofs` | `Spec => []WellLinked` |
| `NoLeak` | `LinkedQueueProofs` | `Spec => []NothingLeaks` |
| `DequeImplemented` | `LinkedQueueProofs` | `Spec => DequeSpec`: the list implements `Deque` |
| `OneGameIsClean` | `LifecycleProofs` | `Spec => []OneGameClean` |
| `LastMessageFreedOnce` | `LifecycleProofs` | `Spec => []FreedOnce` |
| `GameThreadsExclude` | `LifecycleProofs` | `Spec => []AloneInGame` |
| `TypesCorrect` | `ClientProofs` | `Spec => []TypeOK` |
| `StaysInStep` | `ClientProofs` | `Spec => []InStep` |
| `MovementIsFollowed` | `ClientProofs` | `Spec => []MovementFollows` |
| `TripsAreRound` | `ClientProofs` | `Spec => []RoundTrips` |
| `OnlyWithoutMap` | `ArenaProofs` | `Spec => []CrashesWithoutMap` |
| `PushesKeepOpen` | `ArenaProofs` | `Spec => OpenStaysOpen`, on roomy maps |
| `OpenShotsStopped` | `ArenaProofs` | `Spec => []ShotsStopped`, on roomy maps |

The receiving half. `TypeOK` is not inductive: that `read` stays within `sent` and that a pushed frame
has a number needs to know which half a receiver is at. The invariant `IInv` adds

* `Halves`: a receiver between frames has read whole frames, one at `data` half a frame, one at
  `push` at least one whole frame;
* `Entries`: beyond `size` nothing has happened yet, and a listener at `accept` has room;
* `Stages`: which threads are left at each stage of start and stop. `QueueOutlivesUsers` follows
  from it;
* `SignalSound`: a signal is pending only for a taker that has something to pop. Without it
  `TakeWakes` could pop an empty queue.

`IInv` is inductive (`Invariance`, one lemma per conjunct and one step per action). `NoMissedSignal`
and `FinishedNotRunning` are inductive relative to it.

For the queue, `Hist` says that nothing was taken that had not been pushed. `InboxExact` cannot be
inductive alone: popping the head must show that the head is the least pending event of its client,
and pushing a frame that its number is above all that are queued. So `SInv == IInv /\ Hist /\
InboxExact`. Three lemmas give the elements and the order of a sequence after `Append`, after a
push in front and after `Tail`; `PushExact` and `PopExact` apply them to `PendingEvents`; each
action of `ReceivePath` is then a push, a pop or a `QuietStep`. The refinement (`MappedInit`,
`MappedStep`) uses `SInv`: a pop of `Frame(i, n)` is `TakeFrame(i)` because the head being least
means `n = seen[i].msgs + 1`, after the connection was taken. `EventStream` has no
fairness, so no liveness is claimed by the refinement.

Threads and game. `HostInv` is the invariant of the queue with `InHand`: the event in hand is the
connection or the loss of a client, or its latest frame, that `take()` has returned. While an event
is in hand nothing is taken, so it stays the latest; and no other event is equal to it (`Distinct`).
Therefore `TakeEvent` changes nothing that `Server` sees (`TakeStutters`), `HandleMessage` is the
step of `GameServer` that takes and handles (`HandleMapped`), even where the loss of the same client
was queued in the meantime, and the steps of the library map as in `StreamImplemented`
(`LibraryMapped`). With the constants as `GameAssumption` wants them, what `GameProofs` shows of
`GameServer` holds of the threads and the game together.

The sending half. `OwnedOnce` counts, so its inductive form says why no message is in two places:
`Numbered`, messages of each kind are numbered as they are made and taken in that order, so the one
in the sender's hand is older than any of its kind that waits. `Phases` says what the sender has
at each program counter (a message to send, copies of entries, nothing at the end), `Entries` that
copies carry a descriptor, `Owned` that the allocated messages are those of the three places.
`Apart` and `OneMore` turn this into the cardinality of `OwnedOnce`.

`FreshStream` speaks of what is on the wires, and needs to know whom the sender writes to. Its
invariant is `StreamInv == SInv /\ Sockets /\ Copies /\ Untouched /\ Whole /\ Ordered /\ FreshStream`:

* `Sockets`: an open connection owns its descriptor, and the last client a descriptor was given to
  is the one that owns it. For a client on a descriptor that nobody had before, a copy with that
  descriptor is therefore a copy of its own entry, or of one that came later (`Delivery`);
* `Copies`: a copy has the descriptor of its entry, copies are in the order of the entries, and a
  message for one client has copies of that client's entry alone;
* `Untouched`: nothing was sent to a client that does not exist yet;
* `Whole`: a connected peer has an odd number of halves exactly while the sender stands between the
  two `send()` of its copy, and the last half is then of the message in hand;
* `Ordered`: what a peer has comes before the message in hand, and before the parts of it that are
  still to be sent. The messages in the queue and in the slot come after the one in hand, by
  `Numbered` of `SInv`.

TLC checked `StreamInv` as an invariant of `SendPath_safety`'s instance before it was proved.

The queue. `ListInv` says that the nodes in use lie, each once, on a path from `first` to `last`
(`Path`), with both links of each node determined by its place. `BackPushed`, `FrontPushed`,
`FrontPopped` and `Cleared` give the new path of each operation, and its content. It is joined
to the definitions of the model by `TheChain`: the longest walk is the path (a walk follows the path
step by step, which is an induction, see below, and cannot be longer than there are nodes), so that
there is one path only. The refinement then maps each operation to that of `Deque` on the content of the
path. `WellLinked` and `NothingLeaks` read the links and the nodes off the path.

The game. `GameInv` types the table of players with a health from 1 on. What `Put`, `Erase` and `Harm` return is stated once each (`PutTable`, `EraseTable`,
`HarmTable`), then what a handler and an update do to the table (`CommandTable`, `UpdateTable`):
ids stay, records are only added, only `Harm` takes health. `OnlyLateShareIds` is what is left of
`DistinctIds`: it says that the late records of section 7 are the only way to a second player with
an id. It follows from `ConnectedHasPlayer` and `GoneUnlessLate` with `Known`, that records and
projectiles are of clients whose connection was taken.

`ScoreInv` is the invariant of the scores. `KillsMatchDeaths` is not inductive without the
finiteness of the tallies, and the types of `GameTypeOK`, in which kills and deaths are at most
`MaxSpawns`, need a bound on their sum. `Balance` states both: kills and deaths, of the players and
of the departed, are equal, and deaths and players in play together are no more than spawns. A
tally is a set of pairs, so that one more kill is one more pair (`OneMore`) and a record that is
erased takes its pairs with it (`Dropped`); `BalanceSpawned`, `BalanceKilled`, `BalanceDeparted` and
`BalanceKept` are the four ways in which a step may change the sums.

The client table. `Inv` of `ClientTableProofs` adds to the types `Control`, that a thread between
`arrayLock` and `arrayUnlock` holds the mutex, which makes all the rest stable under the steps of
the other threads; `Adds`, what the listener has established by each stage of `addClient` (room for
one more client, a block with room, an entry to write the thread to); `Uses`, that a reader's index
is below `size` and its pointer points into the block in use; `Stops`, who is gone at each stage of
the end. `InsideCapacity` and `PointersValid` follow. For the refinement every
action is a step of `Table` or a stutter; the entry that `addClient` has not finished is not among
the mapped `entries`, so what it writes there does not show, and nobody else is inside meanwhile
(`AllMade`, `Looked`).

The process. `Inv` of `LifecycleProofs` relates `main`'s place to the rest: `GameThreads`, the
threads of the game live between their start and their join, and one inside holds `update_mutex`;
`Library`, between which calls the library is up, and that only a second `Game` finds it down;
`Memory`, that the last message is freed when no one is left to make another; `Early`, that before
the handler is installed nothing was sent. `FreedOnce` and `OneGameClean` are part of it as `Clean`.

The client. `IInv == TypeOK /\ Traffic /\ InStep`, where `Traffic` types what is under way. The
proof is arithmetic: how many bytes were consumed modulo the size of a frame says where the client
is. The provers know little of `%` and `\div`, so what is used is proved first (`Remainder`,
`Position`, `Forward`, `Wrap`, `Complete`, `Covering`, `Longer`), for every positive frame size.

`MovementFollows` is inductive beside `IInv`: `LastMove`, `PingIsNoMove` and `MoveObeyed` say what
sending and obeying a message do to it. For `RoundTrips` the number `echoed` at which the PINGs are
cut in two grows as the host handles one; `NextPing`, `OtherAppended`, `FirstPing`, `OtherFirst` and
`MovedUp` say what `Carries` becomes when a sequence grows or shrinks, `CutOff` that when the
connection ends between two frames the numbers up to some one stay: up to the least that is missing.
The half about the welcome and the map needs to know what is left of the greeting (`Greeting`).

The collisions. `CrashesWithoutMap` holds for every map: `(n - 1) % SizeMax` is beyond the end of a
vector of `n` points for `n = 0` alone (`BoundWraps`). Without a map all spawn at (0, 0), and the
first update with a player in play crashes before it moves anybody.

Roomy maps. The inductive invariant `ArenaInv` has the types, and of a shot fired from the open that
its centre is `Clear` of walls and border. Of the player it says nothing, since a spawn may put it
anywhere: `OpenStaysOpen` is about steps (`OpenStep`). The argument for one update of a player in
the open (`MoveOpen`):

* distance to an edge along an axis is arithmetic with two gaps (`NearInterval`, `NearFacts`,
  `FarFacts`); being in the open is to be a radius off every wall in the sense of these gaps
  (`OpenIs`, `OpenMap`);
* a step is shorter than the radius, so the player touches a wall from outside. Whatever side or
  corner it touches, the four pushes of that wall leave it a radius off, and beside it: at most a
  radius away on either axis, and not over a side that is flush with the border (`PushedFar`,
  `PushedBeside`, `PushedWithin`, `WallStep`);
* walls are two radii apart, so one who stands beside one wall is off all others (`BesideOther`).
  In the loop over the walls therefore one wall at most moves the player (`NextWall`, `AllWalls`);
* the border's four edges then clamp the centre to the map less a radius (`BorderClamps`,
  `ByBorderIs`), which takes it no nearer to a wall it is beside: `ClampGap`.

A shot starts a radius from a player in the open, on the edge of something at worst
(`ShotFromOpen`); its step is 1 and its radius at least 1, so that before its centre is over a side
`Stopped` holds (`NotStopped`), and it is taken out.

`Roomy` is needed: with the instance's second wall replaced by one from (2, 2) to (4, 3), less than
a player away from the first, TLC finds a player at (2, -1), in the open, whom the corner of the second
pushes to (-1, -1), nearer than a radius to the first.

Induction. The provers cannot instantiate the induction theorems of the library, which take an
operator. Where a proof needs one (`TheChain`, `CutOff`, the loops of `Arena`) it goes by the least counterexample: `Least`
says that a set of natural numbers that is not empty has a least one, and follows from `WFMin`.

Only model-checked, because the prover cannot do liveness under fairness, nor `ENABLED`:
`FramesReachHost`, `LossReachesHost`, `ShutdownCompletes`, `MessagesLeave`, `SenderStops`,
`SignalEndsProgram`, `EscapeEnds`. `PushedOut` is model-checked only, too: its proof would have to
follow all four edges of a wall for players that start out nearer than a radius to it.

## 9. What is not covered

* Growing array: `arraySyncClear` and `arraySyncPushBack`, which nothing calls, and a `malloc` or
  `realloc` that fails (`resize` then ends the process; `arrayCreate` does not look).
* Server wrapper: `IncomingMessageWrapper`, the owner of the data of a frame, which frees it.
* Mutex wrappers: an error ends the process; their effect is `holder` in `ClientTable` and
  `Lifecycle` and the atomicity of actions elsewhere. `initMutex` is not called by anything.
* The contents of messages, and with them both serializers and the truncation of ids and counts to
  16 bits, which takes 65536 connections to show. `handleMessage` chooses any command for a frame.
* Collision geometry: other players and round obstacles (which push along the line between two
  centres), edges at an angle, rounding and NaN. `Arena` has one player; that `checkCollisions` lets
  the dead push the living (`game.cpp:388` looks at `first_player` only) does not show in it.
  Whom a shot hits is chosen freely in `Game`.
* Python client: the messages SHOOT, SPAWN and CHANGE_ORIENTATION, the mouse, drawing, reading the
  fields of a message, and what a client that is out of step does, beyond `Astray`.
* In `ReceivePath`: `malloc` failures, errors of the mutex functions, and the fate of a socket
  whose thread failed to start, beyond its being closed. `poll()` and `accept()` failing and
  `pthread_create` failing are there. `socket()` and `bind()` failing, whose results the code does
  not look at, is a listener that never accepts.
* In `SendPath`: a `close()` of a socket while a `send()` on it is blocked, whose effect POSIX
  leaves open, and entries whose thread failed to start.
* `Timer`: how often updates and broadcasts happen is left open. The debug statistics of `Game`.
* `Test/`, `Maps/`, the makefile: read for what they expect of the library.

## 10. The plan

Done, in this order: `ReceivePath`, `EventStream`, `SendPath`, `Game`, `GameServer`, `LinkedQueue`
with `Deque`, `ClientTable` with `Table`, `Lifecycle`, `Client`, `Arena`, `GameHost`, and the proofs
of section 8. Next:

1. Extend: `Wire` (sizes and widths of the fields of the messages, and what the client reads out of
   them); `Arena` with slanted walls and round obstacles, which needs rounding; `GameHost` with
   `SendPath`, so that welcome messages and states come from the game.
2. Prove, with a prover that knows `ENABLED`: the liveness of the receiving and the sending half.
