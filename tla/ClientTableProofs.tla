------------------------- MODULE ClientTableProofs -------------------------
(***************************************************************************)
(* Proofs about the client table, for any number of threads, connections   *)
(* and heap blocks and any capacity to start with.                         *)
(***************************************************************************)
EXTENDS ClientTable, TLAPS

ListenerPC == {"idle", "push", "store", "create", "made", "garbage", "unlock", "gone"}
UserPC     == {"idle", "address", "access", "unlock", "gone"}
MainPC     == {"idle", "mark", "unlock", "join", "gone"}

(* Between arrayLock and arrayUnlock a thread holds the mutex.              *)
Control ==
  /\ at["listener"] \in ListenerPC
  /\ at["main"] \in MainPC
  /\ \A u \in Users : at[u] \in UserPC
  /\ \A t \in Threads : at[t] \notin {"idle", "join", "gone"} => holder = t

Adds ==
  /\ at["listener"] \in {"push", "store"} => size < MaxClients
  /\ at["listener"] = "store" => size < capacity
  /\ at["listener"] \in {"create", "made", "garbage"} => size > 0

Uses ==
  \A u \in Users :
    /\ at[u] \in {"address", "access"} => index[u] \in Ids /\ index[u] < size
    /\ at[u] = "access" => ptr[u] = block
    /\ at[u] # "unlock" => copy[u] = <<>>

Stops ==
  /\ at["main"] # "idle" => at["listener"] = "gone" /\ at[Sender] = "gone"
  /\ at["main"] = "gone" => \A t \in Threads : at[t] = "gone"

Inv == TypeOK /\ Control /\ Adds /\ Uses /\ Stops

-----------------------------------------------------------------------------
LEMMA Names ==
  /\ Users \subseteq Threads /\ Sender \in Users
  /\ "listener" \in Threads \ Users /\ "main" \in Threads \ Users
  /\ "nobody" \notin Threads
  /\ MaxClients \in Nat /\ StartCapacity \in Nat \ {0}
BY TableAssumption DEF Threads

(* A step of one thread leaves every other where it is.                     *)
LEMMA Moved ==
  ASSUME TypeOK, NEW t \in Threads, NEW a, NEW b, Goto(t, a, b)
  PROVE  /\ at[t] = a /\ at'[t] = b
         /\ \A s \in Threads \ {t} : at'[s] = at[s]
         /\ DOMAIN at' = Threads
BY DEF TypeOK, Goto

LEMMA FreshEntry == \A i \in Ids : Fresh(i) \in Entries
BY DEF Fresh, Entries, Statuses

LEMMA EntryMarked ==
  \A e \in Entries :
    /\ \A s \in Statuses : [e EXCEPT !.status = s] \in Entries
    /\ \A h \in {"made", "garbage"} : [e EXCEPT !.thread = h] \in Entries
BY DEF Entries

(* Writing one cell of one block leaves every other cell as it was.         *)
LEMMA CellWritten ==
  ASSUME heap \in [Blocks -> [Ids -> Entries]], NEW b \in Blocks, NEW i \in Ids,
         NEW e \in Entries
  PROVE  LET h == [heap EXCEPT ![b] = [heap[b] EXCEPT ![i] = e]] IN
         /\ h \in [Blocks -> [Ids -> Entries]]
         /\ h[b][i] = e
         /\ \A j \in Ids \ {i} : h[b][j] = heap[b][j]
OBVIOUS

LEMMA InvInit == Init => Inv
<1> SUFFICES ASSUME Init PROVE Inv
  OBVIOUS
<1>1. TypeOK
  <2>1. heap \in [Blocks -> [Ids -> Entries]]
    BY Names DEF Init, Junk, Entries, Statuses, Ids
  <2>2. copy \in [Users -> Seq(Entries)]
    BY DEF Init
  <2> QED BY <2>1, <2>2, Names DEF Init, TypeOK, Ops
<1> QED BY <1>1, Names DEF Init, Inv, Control, Adds, Uses, Stops, ListenerPC, UserPC, MainPC

-----------------------------------------------------------------------------
(* What every step keeps, but for the variables it writes.                  *)

LEMMA AddLockStep == Inv /\ AddLock => Inv'
<1> SUFFICES ASSUME Inv, AddLock PROVE Inv'
  OBVIOUS
<1> USE Names DEF Inv
<1>1. /\ at["listener"] = "idle" /\ at'["listener"] = "push"
      /\ \A s \in Threads \ {"listener"} : at'[s] = at[s]
  BY Moved DEF AddLock, Lock
<1>2. TypeOK'
  BY DEF TypeOK, AddLock, Lock, Goto, locals
<1>3. Control'
  BY <1>1 DEF Control, AddLock, Lock, ListenerPC
<1>4. Adds'
  BY <1>1 DEF AddLock, Lock, Adds
<1>5. Uses'
  BY <1>1 DEF Uses, AddLock, Lock, locals
<1>6. Stops'
  BY <1>1 DEF Stops
<1> QED BY <1>2, <1>3, <1>4, <1>5, <1>6

LEMMA GrowStep == Inv /\ Grow => Inv'
<1> SUFFICES ASSUME Inv, Grow PROVE Inv'
  OBVIOUS
<1> USE Names DEF Inv
<1>1. /\ at["listener"] = "push" /\ at'["listener"] = "store"
      /\ \A s \in Threads \ {"listener"} : at'[s] = at[s]
  BY Moved DEF Grow
<1>a. holder = "listener"
  BY <1>1 DEF Control
<1>2. capacity' \in Nat \ {0} /\ size < capacity' /\ block' \in Blocks
  BY DEF TypeOK, Grow, Resize
<1>3. heap' \in [Blocks -> [Ids -> Entries]]
  <2>1. Junk \in [Ids -> Entries]
    BY DEF Junk, Entries, Statuses, Ids
  <2>2. CASE Resize
    BY <2>1, <2>2 DEF TypeOK, Resize
  <2>3. CASE UNCHANGED heap
    BY <2>3 DEF TypeOK
  <2> QED BY <2>2, <2>3 DEF Grow
<1>4. TypeOK'
  BY <1>2, <1>3 DEF TypeOK, Grow, Goto, locals
<1>5. Control'
  BY <1>1 DEF Control, Grow, ListenerPC
<1>6. Adds'
  BY <1>1, <1>2 DEF Grow, Adds
<1>7. Uses'
  BY <1>1, <1>a DEF Uses, Grow, locals, Control, UserPC
<1>8. Stops'
  BY <1>1 DEF Stops
<1> QED BY <1>4, <1>5, <1>6, <1>7, <1>8

LEMMA StoreStep == Inv /\ Store => Inv'
<1> SUFFICES ASSUME Inv, Store PROVE Inv'
  OBVIOUS
<1> USE Names DEF Inv
<1>1. /\ at["listener"] = "store" /\ at'["listener"] = "create"
      /\ \A s \in Threads \ {"listener"} : at'[s] = at[s]
  BY Moved DEF Store
<1>2. size \in Ids /\ size + 1 \in 1 .. MaxClients /\ size + 1 <= capacity
  BY <1>1 DEF TypeOK, Adds, Ids
<1>3. heap' \in [Blocks -> [Ids -> Entries]]
  BY <1>2, FreshEntry DEF TypeOK, Store
<1>4. TypeOK'
  BY <1>2, <1>3 DEF TypeOK, Store, Goto, locals
<1>5. Control'
  BY <1>1 DEF Control, Store, ListenerPC
<1>6. Adds'
  BY <1>1, <1>2 DEF Store, Adds
<1>7. Uses'
  BY <1>1, <1>2 DEF Uses, Store, locals, TypeOK, Ids
<1>8. Stops'
  BY <1>1 DEF Stops
<1> QED BY <1>4, <1>5, <1>6, <1>7, <1>8

LEMMA CreateThreadStep == Inv /\ CreateThread => Inv'
<1> SUFFICES ASSUME Inv, CreateThread PROVE Inv'
  OBVIOUS
<1> USE Names DEF Inv
<1>1. /\ at["listener"] = "create" /\ at'["listener"] \in {"made", "garbage"}
      /\ \A s \in Threads \ {"listener"} : at'[s] = at[s]
  BY Moved DEF CreateThread
<1>2. at' \in [Threads -> {"idle", "push", "store", "create", "made", "garbage",
                           "address", "access", "unlock", "mark", "join", "gone"}]
  BY DEF CreateThread, Goto, TypeOK
<1>3. TypeOK'
  BY <1>2 DEF TypeOK, CreateThread, locals
<1>4. Control'
  BY <1>1 DEF Control, CreateThread, ListenerPC
<1>5. Adds'
  BY <1>1 DEF CreateThread, Adds
<1>6. Uses'
  BY <1>1 DEF Uses, CreateThread, locals
<1>7. Stops'
  BY <1>1 DEF Stops
<1> QED BY <1>3, <1>4, <1>5, <1>6, <1>7

LEMMA WriteThreadIdStep == Inv /\ WriteThreadId => Inv'
<1> SUFFICES ASSUME Inv, WriteThreadId PROVE Inv'
  OBVIOUS
<1> USE Names DEF Inv
<1> PICK how \in {"made", "garbage"} :
       /\ Goto("listener", how, "unlock")
       /\ heap' = [heap EXCEPT ![block][size - 1].thread = how]
  BY DEF WriteThreadId
<1>1. /\ at["listener"] = how /\ at'["listener"] = "unlock"
      /\ \A s \in Threads \ {"listener"} : at'[s] = at[s]
  BY Moved
<1>2. size - 1 \in Ids
  BY <1>1 DEF TypeOK, Adds, Ids
<1>3. heap' \in [Blocks -> [Ids -> Entries]]
  <2> DEFINE e == heap[block][size - 1]
  <2>0. e \in Entries
    BY <1>2 DEF TypeOK
  <2>1. [e EXCEPT !.thread = how] \in Entries
    BY <2>0, EntryMarked
  <2> QED BY <1>2, <2>1 DEF TypeOK
<1>4. TypeOK'
  BY <1>3 DEF TypeOK, WriteThreadId, Goto, locals
<1>5. Control'
  BY <1>1 DEF Control, WriteThreadId, ListenerPC
<1>6. Adds'
  BY <1>1 DEF WriteThreadId, Adds
<1>7. Uses'
  BY <1>1 DEF Uses, WriteThreadId, locals
<1>8. Stops'
  BY <1>1 DEF Stops
<1> QED BY <1>4, <1>5, <1>6, <1>7, <1>8

LEMMA AddUnlockStep == Inv /\ AddUnlock => Inv'
<1> SUFFICES ASSUME Inv, AddUnlock PROVE Inv'
  OBVIOUS
<1> USE Names DEF Inv
<1>1. /\ at["listener"] = "unlock" /\ at'["listener"] = "idle"
      /\ \A s \in Threads \ {"listener"} : at'[s] = at[s]
  BY Moved DEF AddUnlock, Unlock
<1>2. TypeOK'
  BY DEF TypeOK, AddUnlock, Unlock, Goto, locals
<1>3. Control'
  BY <1>1 DEF Control, AddUnlock, Unlock, ListenerPC
<1>4. Adds'
  BY <1>1 DEF Adds
<1>5. Uses'
  BY <1>1 DEF Uses, AddUnlock, Unlock, locals
<1>6. Stops'
  BY <1>1 DEF Stops
<1> QED BY <1>2, <1>3, <1>4, <1>5, <1>6

-----------------------------------------------------------------------------
(* The users.                                                               *)

LEMMA CallStep == \A u \in Users : Inv /\ Call(u) => Inv'
<1> SUFFICES ASSUME NEW u \in Users, Inv, Call(u) PROVE Inv'
  OBVIOUS
<1> USE Names DEF Inv
<1>1. /\ at[u] = "idle" /\ at'[u] = "address"
      /\ \A s \in Threads \ {u} : at'[s] = at[s]
  BY Moved DEF Call, Lock
<1> PICK o \in Ops, i \in Ids :
       /\ i < Known
       /\ op' = [op EXCEPT ![u] = o]
       /\ index' = [index EXCEPT ![u] = i]
  BY DEF Call, Choose
<1>2. i < size /\ i \in Nat
  BY DEF Known, TypeOK, Ids
<1>3. TypeOK'
  BY <1>2 DEF TypeOK, Call, Lock, Goto
<1>4. Control'
  BY <1>1 DEF Control, Call, Lock, UserPC
<1>5. Adds'
  BY <1>1 DEF Adds, Call, Lock
<1>6. Uses'
  BY <1>1, <1>2 DEF Uses, Call, Lock, TypeOK
<1>7. Stops'
  BY <1>1 DEF Stops
<1> QED BY <1>3, <1>4, <1>5, <1>6, <1>7

LEMMA AddressStep == \A u \in Users : Inv /\ Address(u) => Inv'
<1> SUFFICES ASSUME NEW u \in Users, Inv, Address(u) PROVE Inv'
  OBVIOUS
<1> USE Names DEF Inv
<1>1. /\ at[u] = "address" /\ at'[u] = "access"
      /\ \A s \in Threads \ {u} : at'[s] = at[s]
  BY Moved DEF Address
<1>2. TypeOK'
  BY DEF TypeOK, Address, Goto
<1>3. Control'
  BY <1>1 DEF Control, Address, UserPC
<1>4. Adds'
  BY <1>1 DEF Adds, Address
<1>5. Uses'
  BY <1>1 DEF Uses, Address, TypeOK
<1>6. Stops'
  BY <1>1 DEF Stops
<1> QED BY <1>2, <1>3, <1>4, <1>5, <1>6

(* The actions that end a call at its arrayUnlock.                          *)
LEMMA UseStep ==
  ASSUME Inv, NEW u \in Users, at[u] \in {"address", "access"},
         Goto(u, at[u], "unlock"),
         heap' \in [Blocks -> [Ids -> Entries]], copy' \in [Users -> Seq(Entries)],
         \A v \in Users \ {u} : copy'[v] = copy[v],
         UNCHANGED <<holder, size, capacity, block, op, index, ptr>>
  PROVE  Inv'
<1> USE Names DEF Inv
<1>1. at'[u] = "unlock" /\ \A s \in Threads \ {u} : at'[s] = at[s]
  BY Moved
<1>2. TypeOK'
  BY DEF TypeOK, Goto
<1>3. Control'
  BY <1>1 DEF Control, UserPC
<1>4. Adds'
  BY <1>1 DEF Adds
<1>5. Uses'
  BY <1>1 DEF Uses
<1>6. Stops'
  BY <1>1 DEF Stops
<1> QED BY <1>2, <1>3, <1>4, <1>5, <1>6

LEMMA GetClientStatusStep == \A u \in Users : Inv /\ GetClientStatus(u) => Inv'
<1> SUFFICES ASSUME NEW u \in Users, Inv, GetClientStatus(u) PROVE Inv'
  OBVIOUS
<1> USE Names DEF Inv
<1>1. at[u] = "access"
  BY Moved DEF GetClientStatus
<1>2. heap[ptr[u]][index[u]] \in Entries
  BY <1>1 DEF Uses, TypeOK
<1>3. copy' \in [Users -> Seq(Entries)] /\ \A v \in Users \ {u} : copy'[v] = copy[v]
  BY <1>2 DEF TypeOK, GetClientStatus
<1> QED BY <1>1, <1>3, UseStep DEF GetClientStatus, TypeOK

LEMMA MarkClientStep == \A u \in Users : Inv /\ MarkClient(u) => Inv'
<1> SUFFICES ASSUME NEW u \in Users, Inv, MarkClient(u) PROVE Inv'
  OBVIOUS
<1> USE Names DEF Inv
<1>1. at[u] = "access"
  BY Moved DEF MarkClient
<1>2. ptr[u] \in Blocks /\ index[u] \in Ids /\ heap[ptr[u]][index[u]] \in Entries
  BY <1>1 DEF Uses, TypeOK
<1>3. \A s \in Statuses : [heap[ptr[u]][index[u]] EXCEPT !.status = s] \in Entries
  <2> DEFINE e == heap[ptr[u]][index[u]]
  <2>1. e \in Entries
    BY <1>2
  <2>2. \A s \in Statuses : [e EXCEPT !.status = s] \in Entries
    BY <2>1, EntryMarked
  <2> QED BY <2>2
<1>4. heap' \in [Blocks -> [Ids -> Entries]]
  <2>1. PICK s \in Statuses : heap' = [heap EXCEPT ![ptr[u]][index[u]].status = s]
    BY DEF MarkClient, Statuses
  <2>2. heap' = [heap EXCEPT ![ptr[u]] = [heap[ptr[u]] EXCEPT ![index[u]] =
                   [heap[ptr[u]][index[u]] EXCEPT !.status = s]]]
    BY <1>2, <2>1 DEF TypeOK
  <2> QED BY <1>2, <1>3, <2>2, CellWritten DEF TypeOK
<1>5. copy' \in [Users -> Seq(Entries)] /\ \A v \in Users \ {u} : copy'[v] = copy[v]
  BY DEF MarkClient, TypeOK, locals
<1> QED BY <1>1, <1>4, <1>5, UseStep DEF MarkClient, locals

LEMMA GetClientStep == \A u \in Users : Inv /\ GetClient(u) => Inv'
<1> SUFFICES ASSUME NEW u \in Users, Inv, GetClient(u) PROVE Inv'
  OBVIOUS
<1> USE Names DEF Inv
<1>1. at[u] = "address"
  BY Moved DEF GetClient
<1>2. heap[block][index[u]] \in Entries
  BY <1>1 DEF Uses, TypeOK
<1>3. copy' \in [Users -> Seq(Entries)] /\ \A v \in Users \ {u} : copy'[v] = copy[v]
  BY <1>2 DEF TypeOK, GetClient
<1> QED BY <1>1, <1>3, UseStep DEF GetClient, TypeOK

LEMMA GetAllClientsStep == \A u \in Users : Inv /\ GetAllClients(u) => Inv'
<1> SUFFICES ASSUME NEW u \in Users, Inv, GetAllClients(u) PROVE Inv'
  OBVIOUS
<1> USE Names DEF Inv
<1>1. at[u] = "address"
  BY Moved DEF GetAllClients
<1>2. [i \in 1 .. size |-> heap[block][i - 1]] \in Seq(Entries)
  <2>1. \A i \in 1 .. size : heap[block][i - 1] \in Entries
    BY DEF TypeOK, Ids
  <2> QED BY <2>1 DEF TypeOK
<1>3. copy' \in [Users -> Seq(Entries)] /\ \A v \in Users \ {u} : copy'[v] = copy[v]
  BY <1>2 DEF TypeOK, GetAllClients
<1> QED BY <1>1, <1>3, UseStep DEF GetAllClients, TypeOK

LEMMA UserUnlockStep == \A u \in Users : Inv /\ UserUnlock(u) => Inv'
<1> SUFFICES ASSUME NEW u \in Users, Inv, UserUnlock(u) PROVE Inv'
  OBVIOUS
<1> USE Names DEF Inv
<1>1. /\ at[u] = "unlock" /\ at'[u] = "idle"
      /\ \A s \in Threads \ {u} : at'[s] = at[s]
  BY Moved DEF UserUnlock, Unlock
<1>2. TypeOK'
  BY DEF TypeOK, UserUnlock, Unlock, Goto, Ops
<1>3. Control'
  BY <1>1 DEF Control, UserUnlock, Unlock, UserPC
<1>4. Adds'
  BY <1>1 DEF Adds, UserUnlock, Unlock
<1>5. Uses'
  BY <1>1 DEF Uses, UserUnlock, Unlock, TypeOK
<1>6. Stops'
  BY <1>1 DEF Stops
<1> QED BY <1>2, <1>3, <1>4, <1>5, <1>6

-----------------------------------------------------------------------------
(* The end of a thread, and main.                                           *)

LEMMA QuitStep == \A t \in Threads : Inv /\ Quit(t) => Inv'
<1> SUFFICES ASSUME NEW t \in Threads, Inv, Quit(t) PROVE Inv'
  OBVIOUS
<1> USE Names DEF Inv
<1>1. /\ at[t] = "idle" /\ at'[t] = "gone" /\ t # "main"
      /\ \A s \in Threads \ {t} : at'[s] = at[s]
  BY Moved DEF Quit
<1>2. TypeOK'
  BY DEF TypeOK, Quit, Goto, locals
<1>3. Control'
  BY <1>1 DEF Control, Quit, UserPC, ListenerPC
<1>4. Adds'
  BY <1>1 DEF Adds, Quit
<1>5. Uses'
  BY <1>1 DEF Uses, Quit, locals
<1>6. Stops'
  BY <1>1 DEF Stops
<1> QED BY <1>2, <1>3, <1>4, <1>5, <1>6

LEMMA MarkLockStep == Inv /\ MarkLock => Inv'
<1> SUFFICES ASSUME Inv, MarkLock PROVE Inv'
  OBVIOUS
<1> USE Names DEF Inv
<1>1. /\ at["main"] = "idle" /\ at'["main"] = "mark"
      /\ \A s \in Threads \ {"main"} : at'[s] = at[s]
  BY Moved DEF MarkLock, Lock
<1>2. TypeOK'
  BY DEF TypeOK, MarkLock, Lock, Goto, locals
<1>3. Control'
  BY <1>1 DEF Control, MarkLock, Lock, MainPC
<1>4. Adds'
  BY <1>1 DEF Adds, MarkLock, Lock
<1>5. Uses'
  BY <1>1 DEF Uses, MarkLock, Lock, locals
<1>6. Stops'
  BY <1>1 DEF Stops, MarkLock
<1> QED BY <1>2, <1>3, <1>4, <1>5, <1>6

LEMMA MarkAllStep == Inv /\ MarkAll => Inv'
<1> SUFFICES ASSUME Inv, MarkAll PROVE Inv'
  OBVIOUS
<1> USE Names DEF Inv
<1>1. /\ at["main"] = "mark" /\ at'["main"] = "unlock"
      /\ \A s \in Threads \ {"main"} : at'[s] = at[s]
  BY Moved DEF MarkAll
<1>2. heap' \in [Blocks -> [Ids -> Entries]]
  <2>1. \A i \in Ids : heap[block][i] \in Entries
    BY DEF TypeOK
  <2>2. \A i \in Ids : [heap[block][i] EXCEPT !.status = "STOP"] \in Entries
    BY <2>1, EntryMarked DEF Statuses
  <2>3. [i \in Ids |-> IF i < size THEN [heap[block][i] EXCEPT !.status = "STOP"]
                                   ELSE heap[block][i]] \in [Ids -> Entries]
    BY <2>1, <2>2
  <2> QED BY <2>3 DEF TypeOK, MarkAll
<1>3. TypeOK'
  BY <1>2 DEF TypeOK, MarkAll, Goto, locals
<1>4. Control'
  BY <1>1 DEF Control, MarkAll, MainPC
<1>5. Adds'
  BY <1>1 DEF Adds, MarkAll
<1>6. Uses'
  BY <1>1 DEF Uses, MarkAll, locals
<1>7. Stops'
  BY <1>1 DEF Stops
<1> QED BY <1>3, <1>4, <1>5, <1>6, <1>7

LEMMA MarkUnlockStep == Inv /\ MarkUnlock => Inv'
<1> SUFFICES ASSUME Inv, MarkUnlock PROVE Inv'
  OBVIOUS
<1> USE Names DEF Inv
<1>1. /\ at["main"] = "unlock" /\ at'["main"] = "join"
      /\ \A s \in Threads \ {"main"} : at'[s] = at[s]
  BY Moved DEF MarkUnlock, Unlock
<1>2. TypeOK'
  BY DEF TypeOK, MarkUnlock, Unlock, Goto, locals
<1>3. Control'
  BY <1>1 DEF Control, MarkUnlock, Unlock, MainPC
<1>4. Adds'
  BY <1>1 DEF Adds, MarkUnlock, Unlock
<1>5. Uses'
  BY <1>1 DEF Uses, MarkUnlock, Unlock, locals
<1>6. Stops'
  BY <1>1 DEF Stops
<1> QED BY <1>2, <1>3, <1>4, <1>5, <1>6

LEMMA DestroyStep == Inv /\ Destroy => Inv'
<1> SUFFICES ASSUME Inv, Destroy PROVE Inv'
  OBVIOUS
<1> USE Names DEF Inv
<1>1. /\ at["main"] = "join" /\ at'["main"] = "gone"
      /\ \A s \in Threads \ {"main"} : at'[s] = at[s]
  BY Moved DEF Destroy
<1>2. TypeOK'
  BY DEF TypeOK, Destroy, Goto, locals
<1>3. Control'
  BY <1>1 DEF Control, Destroy, MainPC
<1>4. Adds'
  BY <1>1 DEF Adds, Destroy
<1>5. Uses'
  BY <1>1 DEF Uses, Destroy, locals
<1>6. Stops'
  BY <1>1 DEF Stops, Destroy, Threads
<1> QED BY <1>2, <1>3, <1>4, <1>5, <1>6

LEMMA InvStep == Inv /\ [Next]_vars => Inv'
<1> SUFFICES ASSUME Inv, [Next]_vars PROVE Inv'
  OBVIOUS
<1>1. CASE Adding
  BY <1>1, AddLockStep, GrowStep, StoreStep, CreateThreadStep, WriteThreadIdStep,
     AddUnlockStep DEF Adding
<1>2. CASE Stopping
  BY <1>2, MarkLockStep, MarkAllStep, MarkUnlockStep, DestroyStep DEF Stopping
<1>3. CASE \E t \in Threads : Quit(t)
  BY <1>3, QuitStep
<1>4. CASE \E u \in Users : Using(u)
  BY <1>4, CallStep, AddressStep, GetClientStatusStep, MarkClientStep, GetClientStep,
     GetAllClientsStep, UserUnlockStep DEF Using
<1>5. CASE UNCHANGED vars
  BY <1>5 DEF vars, Inv, TypeOK, Control, Adds, Uses, Stops
<1> QED BY <1>1, <1>2, <1>3, <1>4, <1>5 DEF Next, Terminated

(* The inductive invariant: who is inside the mutex, where everybody is, and *)
(* what that says of the size, the pointers and the copies.                 *)
THEOREM Invariance == Spec => []Inv
BY InvInit, InvStep, PTL DEF Spec

(* Types are kept, and the entries fit the array, for any table.            *)
THEOREM TypesCorrect == Spec => []TypeOK
<1>1. Inv => TypeOK
  BY DEF Inv
<1> QED BY <1>1, Invariance, PTL

(* The assertion of getIndexAddress holds at every use (server_array.c:25). *)
THEOREM StaysInsideCapacity == Spec => []InsideCapacity
<1>1. Inv => InsideCapacity
  BY DEF Inv, Adds, Uses, InsideCapacity
<1> QED BY <1>1, Invariance, PTL

(* A Client* is followed under the mutex, and not after realloc moved it.   *)
THEOREM PointersStayValid == Spec => []PointersValid
<1>1. Inv => PointersValid
  BY Names DEF Inv, Control, Uses, PointersValid
<1> QED BY <1>1, Invariance, PTL

-----------------------------------------------------------------------------
(* The refinement of Table.                                                 *)

Now == IF at["main"] = "gone" THEN <<>>
       ELSE [i \in 1 .. Made |-> heap[block][i - 1]]

(* A step that touches no finished entry does not change the table.         *)
LEMMA Stutters ==
  ASSUME Inv, at["main"] # "gone", at'["main"] # "gone", Made' = Made,
         \A i \in 1 .. Made : heap'[block'][i - 1] = heap[block][i - 1],
         copy' = copy
  PROVE  UNCHANGED Atomic!tableVars
BY DEF Atomic!tableVars

LEMMA MadeTyped ==
  ASSUME Inv
  PROVE  /\ Made \in 0 .. MaxClients /\ Made <= size
         /\ \A i \in 1 .. Made : i - 1 \in Ids /\ heap[block][i - 1] \in Entries
BY Names DEF Inv, TypeOK, Adds, Made, Ids

(* When somebody else is inside the mutex, addClient is not half done.      *)
LEMMA AllMade ==
  ASSUME Inv, NEW t \in Threads \ {"listener"}, at[t] \notin {"idle", "join", "gone"}
  PROVE  Made = size
BY Names DEF Inv, Control, Made, TypeOK

(* The entry a user looks up is one of the table's.                         *)
LEMMA Looked ==
  ASSUME Inv, NEW u \in Users, at[u] \in {"address", "access"}
  PROVE  /\ Made = size /\ index[u] \in Ids
         /\ index[u] + 1 \in 1 .. size /\ (index[u] + 1) - 1 = index[u]
         /\ at[u] = "access" => ptr[u] = block
<1>1. Made = size
  BY Names, AllMade
<1>2. index[u] \in Ids /\ index[u] < size /\ (at[u] = "access" => ptr[u] = block)
  BY DEF Inv, Uses
<1>3. size \in Nat /\ index[u] \in Nat
  BY <1>2, Names DEF Inv, TypeOK, Ids
<1> QED BY <1>1, <1>2, <1>3

LEMMA MappedInit == Init => Atomic!Init
BY Names DEF Init, Atomic!Init, Made

LEMMA MappedAdding == Inv /\ Adding => [Atomic!Next]_(Atomic!tableVars)
<1> SUFFICES ASSUME Inv, Adding PROVE Atomic!Add \/ UNCHANGED Atomic!tableVars
  BY DEF Atomic!Next
<1> USE Names
<1>0. TypeOK /\ Control /\ Adds /\ Stops
  BY DEF Inv
<1>1. at["main"] # "gone" /\ at'["main"] = at["main"] /\ copy' = copy
  BY <1>0, Moved DEF Adding, AddLock, Grow, Store, CreateThread, WriteThreadId, AddUnlock,
     Lock, Unlock, Stops, locals
<1>2. CASE AddLock
  <2>1. at["listener"] = "idle" /\ at'["listener"] = "push"
    BY <1>0, <1>2, Moved DEF AddLock, Lock
  <2> QED BY <1>1, <1>2, <2>1, Stutters DEF AddLock, Lock, Made
<1>3. CASE Grow
  <2>1. at["listener"] = "push" /\ at'["listener"] = "store"
    BY <1>0, <1>3, Moved DEF Grow
  <2>2. heap'[block'] = heap[block]
    BY <1>0, <1>3 DEF Grow, Resize, TypeOK
  <2> QED BY <1>1, <1>3, <2>1, <2>2, Stutters DEF Grow, Made
<1>4. CASE Store
  <2>1. at["listener"] = "store" /\ at'["listener"] = "create"
    BY <1>0, <1>4, Moved DEF Store
  <2>2. Made = size /\ Made' = size
    BY <1>0, <1>4, <2>1 DEF Store, Made, TypeOK
  <2>3. \A i \in 1 .. Made : heap'[block'][i - 1] = heap[block][i - 1]
    BY <1>0, <1>4, <2>2 DEF Store, TypeOK, Ids
  <2> QED BY <1>1, <2>2, <2>3, Stutters
<1>5. CASE CreateThread
  <2>1. at["listener"] = "create" /\ at'["listener"] \in {"made", "garbage"}
    BY <1>0, <1>5, Moved DEF CreateThread
  <2> QED BY <1>1, <1>5, <2>1, Stutters DEF CreateThread, Made
<1>6. CASE WriteThreadId
  <2> PICK how \in {"made", "garbage"} :
         /\ Goto("listener", how, "unlock")
         /\ heap' = [heap EXCEPT ![block][size - 1].thread = how]
    BY <1>6 DEF WriteThreadId
  <2> DEFINE old == heap[block][size - 1]
             e == [old EXCEPT !.thread = how]
  <2>1. at["listener"] = how /\ at'["listener"] = "unlock"
    BY <1>0, Moved
  <2>2. /\ size \in Nat \ {0} /\ size - 1 \in Ids /\ size' = size /\ block' = block
        /\ block \in Blocks
    BY <1>0, <1>6, <2>1 DEF TypeOK, Adds, Ids, WriteThreadId
  <2>3. Made = size - 1 /\ Made' = size
    BY <2>1, <2>2 DEF Made
  <2>4. old \in Entries
    BY <1>0, <2>2 DEF TypeOK
  <2>5. e \in Entries
    BY <2>4, EntryMarked
  <2>6. /\ heap'[block][size - 1] = e
        /\ \A i \in Ids \ {size - 1} : heap'[block][i] = heap[block][i]
    BY <1>0, <2>2 DEF TypeOK
  <2>7. /\ Now = [i \in 1 .. size - 1 |-> heap[block][i - 1]]
        /\ Now' = [i \in 1 .. size |-> heap'[block][i - 1]]
    BY <1>1, <2>2, <2>3 DEF Now
  <2>8. \A i \in 1 .. size - 1 : i - 1 \in Ids \ {size - 1} /\ heap[block][i - 1] \in Entries
    <3>1. size \in 1 .. MaxClients
      BY <1>0, <2>2 DEF TypeOK
    <3>2. \A i \in 1 .. size - 1 : i - 1 \in Ids \ {size - 1}
      BY <3>1 DEF Ids
    <3>3. \A i \in Ids : heap[block][i] \in Entries
      BY <1>0 DEF TypeOK
    <3> QED BY <3>2, <3>3
  <2>9. Now \in Seq(Entries) /\ Len(Now) = size - 1
    <3>1. size - 1 \in Nat
      BY <2>2
    <3>2. [i \in 1 .. size - 1 |-> heap[block][i - 1]] \in [1 .. size - 1 -> Entries]
      BY <2>8
    <3> QED BY <2>7, <3>1, <3>2
  <2>10. Now' = Append(Now, e)
    <3> DEFINE a == [i \in 1 .. size - 1 |-> heap[block][i - 1]]
    <3>1. Append(a, e) = [i \in 1 .. size |-> IF i = size THEN e ELSE a[i]]
      BY <2>2, <2>5, <2>7, <2>9
    <3>2. \A i \in 1 .. size : heap'[block][i - 1] = IF i = size THEN e ELSE a[i]
      BY <2>2, <2>6, <2>8
    <3> QED BY <2>7, <3>1, <3>2
  <2>11. Atomic!Add
    BY <1>1, <2>5, <2>10 DEF Atomic!Add, Now
  <2> QED BY <2>11
<1>7. CASE AddUnlock
  <2>1. at["listener"] = "unlock" /\ at'["listener"] = "idle"
    BY <1>0, <1>7, Moved DEF AddUnlock, Unlock
  <2> QED BY <1>1, <1>7, <2>1, Stutters DEF AddUnlock, Unlock, Made
<1> QED BY <1>2, <1>3, <1>4, <1>5, <1>6, <1>7 DEF Adding

LEMMA MappedUsing == \A u \in Users : Inv /\ Using(u) => [Atomic!Next]_(Atomic!tableVars)
<1> SUFFICES ASSUME NEW u \in Users, Inv, Using(u)
             PROVE \/ Atomic!Read(u) \/ Atomic!Return(u) \/ Atomic!SetStatus
                   \/ UNCHANGED Atomic!tableVars
  BY DEF Atomic!Next
<1> USE Names
<1>0. TypeOK /\ Control /\ Uses /\ Stops
  BY DEF Inv
<1>1. at["main"] # "gone" /\ at'["main"] = at["main"] /\ at'["listener"] = at["listener"]
  <2>1. /\ at[u] # "gone" /\ \A s \in Threads \ {u} : at'[s] = at[s]
    BY <1>0, Moved DEF Using, Call, Address, GetClientStatus, MarkClient, GetClient,
       GetAllClients, UserUnlock, Lock, Unlock
  <2> QED BY <1>0, <2>1 DEF Stops
<1>2. size' = size /\ block' = block /\ Made' = Made
  BY <1>1 DEF Using, Call, Address, GetClientStatus, MarkClient, GetClient,
     GetAllClients, UserUnlock, Lock, Unlock, locals, Made
<1>3. Now = [i \in 1 .. Made |-> heap[block][i - 1]]
      /\ Now' = [i \in 1 .. Made |-> heap'[block][i - 1]]
  BY <1>1, <1>2 DEF Now
<1>4. CASE Call(u) \/ Address(u)
  BY <1>1, <1>2, <1>4, Stutters DEF Call, Lock, Address
<1>5. CASE GetClientStatus(u)
  <2>1. at[u] = "access"
    BY <1>0, <1>5, Moved DEF GetClientStatus
  <2>2. Made = size /\ index[u] + 1 \in 1 .. size /\ ptr[u] = block
    BY <2>1, Looked
  <2>3. heap' = heap /\ copy' = [copy EXCEPT ![u] = <<Now[index[u] + 1]>>]
    <3>1. Now[index[u] + 1] = heap[block][index[u]]
      BY <1>3, <2>1, <2>2, Looked
    <3> QED BY <1>5, <2>2, <3>1 DEF GetClientStatus
  <2>4. Now' = Now /\ index[u] + 1 \in DOMAIN Now
    BY <1>3, <2>2, <2>3
  <2> QED BY <2>3, <2>4 DEF Atomic!Read, Now
<1>6. CASE GetClient(u)
  <2>1. at[u] = "address"
    BY <1>0, <1>6, Moved DEF GetClient
  <2>2. Made = size /\ index[u] + 1 \in 1 .. size
    BY <2>1, Looked
  <2>3. heap' = heap /\ copy' = [copy EXCEPT ![u] = <<Now[index[u] + 1]>>]
    <3>1. Now[index[u] + 1] = heap[block][index[u]]
      BY <1>3, <2>1, <2>2, Looked
    <3> QED BY <1>6, <3>1 DEF GetClient
  <2>4. Now' = Now /\ index[u] + 1 \in DOMAIN Now
    BY <1>3, <2>2, <2>3
  <2> QED BY <2>3, <2>4 DEF Atomic!Read, Now
<1>7. CASE GetAllClients(u)
  <2>1. at[u] = "address"
    BY <1>0, <1>7, Moved DEF GetAllClients
  <2>2. Made = size
    BY <2>1, AllMade
  <2>3. heap' = heap /\ copy' = [copy EXCEPT ![u] = Now]
    BY <1>3, <1>7, <2>2 DEF GetAllClients
  <2>4. Now' = Now
    BY <1>3, <2>3
  <2> QED BY <2>3, <2>4 DEF Atomic!Read, Now
<1>8. CASE MarkClient(u)
  <2>1. at[u] = "access"
    BY <1>0, <1>8, Moved DEF MarkClient
  <2>2. Made = size /\ index[u] \in Ids /\ index[u] + 1 \in 1 .. size /\ ptr[u] = block
    BY <2>1, Looked
  <2>3. copy' = copy /\ \E s \in Statuses :
          heap' = [heap EXCEPT ![block][index[u]].status = s]
    BY <1>8, <2>2 DEF MarkClient, Statuses, locals
  <2> PICK s \in Statuses : heap' = [heap EXCEPT ![block][index[u]].status = s]
    BY <2>3
  <2> DEFINE e == [heap[block][index[u]] EXCEPT !.status = s]
  <2>4. /\ heap'[block][index[u]] = e
        /\ \A i \in Ids \ {index[u]} : heap'[block][i] = heap[block][i]
    BY <1>0, <2>2 DEF TypeOK
  <2>5. \A i \in 1 .. size : i - 1 \in Ids /\ (i # index[u] + 1 => i - 1 # index[u])
    BY <1>0, <2>2 DEF TypeOK, Ids
  <2>6. Now[index[u] + 1] = heap[block][index[u]] /\ DOMAIN Now = 1 .. size
    <3>1. (index[u] + 1) - 1 = index[u]
      BY <2>2 DEF Ids
    <3> QED BY <1>3, <2>2, <3>1
  <2>7. Now' = [Now EXCEPT ![index[u] + 1].status = s]
    <3> DEFINE k == index[u] + 1
    <3>1. Now'[k] = e /\ e = [Now[k] EXCEPT !.status = s]
      BY <1>3, <2>1, <2>2, <2>4, <2>6, Looked
    <3>2. \A i \in 1 .. size : i # k => Now'[i] = Now[i]
      BY <1>3, <2>2, <2>4, <2>5
    <3> HIDE DEF e, k
    <3>3. Now' = [i \in 1 .. size |-> IF i = k THEN e ELSE Now[i]]
      <4>1. Now' = [i \in 1 .. size |-> Now'[i]]
        BY <1>3, <2>2
      <4> QED BY <3>1, <3>2, <4>1
    <3>4. [Now EXCEPT ![k] = [Now[k] EXCEPT !.status = s]]
            = [i \in 1 .. size |-> IF i = k THEN e ELSE Now[i]]
      BY <2>6, <3>1
    <3> QED BY <3>3, <3>4 DEF k
  <2>8. \E i \in DOMAIN Now, r \in Statuses : Now' = [Now EXCEPT ![i].status = r]
    BY <2>2, <2>6, <2>7
  <2>9. Atomic!SetStatus
    BY <2>3, <2>8 DEF Atomic!SetStatus, Now
  <2> QED BY <2>9
<1>9. CASE UserUnlock(u)
  <2>1. heap' = heap /\ copy' = [copy EXCEPT ![u] = <<>>]
    BY <1>9 DEF UserUnlock, Unlock
  <2>2. Now' = Now
    BY <1>3, <2>1
  <2> QED BY <2>1, <2>2 DEF Atomic!Return, Now
<1> QED BY <1>4, <1>5, <1>6, <1>7, <1>8, <1>9 DEF Using

LEMMA MappedStopping == Inv /\ Stopping => [Atomic!Next]_(Atomic!tableVars)
<1> SUFFICES ASSUME Inv, Stopping
             PROVE Atomic!SetAll \/ Atomic!Destroy \/ UNCHANGED Atomic!tableVars
  BY DEF Atomic!Next
<1> USE Names
<1>0. TypeOK /\ Control /\ Uses /\ Stops
  BY DEF Inv
<1>1. copy' = copy /\ size' = size /\ block' = block /\ at["main"] # "gone"
  BY <1>0, Moved DEF Stopping, MarkLock, MarkAll, MarkUnlock, Destroy, Lock, Unlock, locals
<1>2. at'["listener"] = at["listener"] /\ Made' = Made
  <2>1. at'["listener"] = at["listener"]
    BY <1>0, Moved DEF Stopping, MarkLock, MarkAll, MarkUnlock, Destroy, Lock, Unlock
  <2> QED BY <1>1, <2>1 DEF Made
<1>3. CASE MarkLock \/ MarkUnlock
  <2>1. heap' = heap /\ at'["main"] # "gone"
    BY <1>0, <1>3, Moved DEF MarkLock, MarkUnlock, Lock, Unlock
  <2> QED BY <1>1, <1>2, <2>1, Stutters
<1>4. CASE MarkAll
  <2>1. at["main"] = "mark" /\ at'["main"] = "unlock" /\ at["listener"] = "gone"
    BY <1>0, <1>4, Moved DEF MarkAll, Stops
  <2>2. Made = size /\ size \in 0 .. MaxClients
    BY <1>0, <2>1 DEF Made, TypeOK
  <2>3. Now = [i \in 1 .. size |-> heap[block][i - 1]]
        /\ Now' = [i \in 1 .. size |-> heap'[block][i - 1]]
    BY <1>1, <1>2, <2>1, <2>2 DEF Now
  <2>4. \A i \in Ids : i < size =>
          heap'[block][i] = [heap[block][i] EXCEPT !.status = "STOP"]
    BY <1>0, <1>4 DEF MarkAll, TypeOK
  <2>5. \A i \in 1 .. size : i - 1 \in Ids /\ i - 1 < size
    BY <2>2 DEF Ids
  <2>6. Now' = [i \in DOMAIN Now |-> [Now[i] EXCEPT !.status = "STOP"]]
    <3>1. \A i \in 1 .. size : Now'[i] = [Now[i] EXCEPT !.status = "STOP"]
      BY <2>3, <2>4, <2>5
    <3> QED BY <2>3, <3>1
  <2> QED BY <1>1, <2>6 DEF Atomic!SetAll, Now, Statuses
<1>5. CASE Destroy
  <2>1. at'["main"] = "gone"
    BY <1>0, <1>5, Moved DEF Destroy
  <2>2. Now' = <<>>
    BY <2>1 DEF Now
  <2>3. \A u \in Users : copy[u] = <<>>
    BY <1>0, <1>5 DEF Destroy, Uses
  <2> QED BY <1>1, <2>2, <2>3 DEF Atomic!Destroy, Now
<1> QED BY <1>3, <1>4, <1>5 DEF Stopping

LEMMA MappedQuit == \A t \in Threads : Inv /\ Quit(t) => UNCHANGED Atomic!tableVars
<1> SUFFICES ASSUME NEW t \in Threads, Inv, Quit(t) PROVE UNCHANGED Atomic!tableVars
  OBVIOUS
<1> USE Names
<1>0. TypeOK /\ Stops
  BY DEF Inv
<1>1. /\ t # "main" /\ at[t] = "idle" /\ at'[t] = "gone"
      /\ \A s \in Threads \ {t} : at'[s] = at[s]
  BY <1>0, Moved DEF Quit
<1>2. at["main"] # "gone" /\ at'["main"] # "gone"
  BY <1>0, <1>1 DEF Stops
<1>3. Made' = Made
  BY <1>1 DEF Quit, Made
<1> QED BY <1>2, <1>3, Stutters DEF Quit, locals

LEMMA MappedStep == Inv /\ [Next]_vars => [Atomic!Next]_(Atomic!tableVars)
<1> SUFFICES ASSUME Inv, [Next]_vars PROVE [Atomic!Next]_(Atomic!tableVars)
  OBVIOUS
<1>1. CASE \E t \in Threads : Quit(t)
  BY <1>1, MappedQuit
<1>2. CASE UNCHANGED vars
  BY <1>2 DEF vars, Atomic!tableVars, Made
<1> QED BY <1>1, <1>2, MappedAdding, MappedUsing, MappedStopping DEF Next, Terminated

(* Whatever the interleaving and wherever the array is moved, the table is  *)
(* read and written at one instant, and finished entries only.              *)
THEOREM TableImplemented == Spec => TableSpec
<1>1. Spec => []Inv
  BY Invariance
<1>2. Init => Atomic!Init
  BY MappedInit
<1>3. Inv /\ [Next]_vars => [Atomic!Next]_(Atomic!tableVars)
  BY MappedStep
<1> QED BY <1>1, <1>2, <1>3, PTL DEF Spec, TableSpec, Atomic!Spec
=============================================================================
