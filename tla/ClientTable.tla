---------------------------- MODULE ClientTable ----------------------------
(***************************************************************************)
(* The client table of the server library: a growing array of Client       *)
(* entries (server_array.c) behind a mutex (server_mutex.c), as server.c   *)
(* uses it.  The listening thread appends, the receiving and the sending   *)
(* threads read and mark entries, main marks them all, joins the threads   *)
(* and destroys the array.  Growing may move the entries to another block, *)
(* which leaves every pointer into the old one dangling.                   *)
(***************************************************************************)
EXTENDS Integers, Sequences

CONSTANTS
  Users,          (* the receiving threads and the sending thread            *)
  Sender,         (* the sending thread                                      *)
  MaxClients,     (* bound on the connections that are ever accepted         *)
  StartCapacity,  (* of the new array: 16 in runServer                       *)
  Blocks          (* heap blocks malloc and realloc choose from              *)

ASSUME TableAssumption ==
  /\ MaxClients \in Nat /\ StartCapacity \in Nat \ {0}
  /\ Sender \in Users
  /\ Users \cap {"listener", "main", "nobody"} = {}

VARIABLES
  at,         (* program counter of every thread                            *)
  holder,     (* who has locked the mutex                                   *)
  size, capacity, block,  (* the Array                                      *)
  heap,       (* the cells of every block                                   *)
  op, index,  (* what a user does with the table, and to which entry        *)
  ptr,        (* the block a user's Client* points into                     *)
  copy        (* the entries a user has copied out                          *)

locals == <<op, index, ptr, copy>>
vars == <<at, holder, size, capacity, block, heap, op, index, ptr, copy>>

Threads  == Users \cup {"listener", "main"}
Ids      == 0 .. MaxClients - 1
Statuses == {"RUNNING", "STOP", "STOPPED"}
Entries  == [socket : Ids, status : Statuses, thread : {"unset", "made", "garbage"}]
Ops      == {"getClient", "getAllClients", "getClientStatus", "stopClient",
             "signalClientToStop"}

Junk     == [i \in Ids |-> [socket |-> 0, status |-> "RUNNING", thread |-> "unset"]]

Fresh(i) == [socket |-> i, status |-> "RUNNING", thread |-> "unset"]

Init ==
  /\ at = [t \in Threads |-> "idle"]
  /\ holder = "nobody"
  /\ size = 0 /\ capacity = StartCapacity
  /\ block \in Blocks
  /\ heap = [b \in Blocks |-> Junk]
  /\ op = [u \in Users |-> "getClient"]
  /\ index = [u \in Users |-> 0]
  /\ ptr = [u \in Users |-> "null"]
  /\ copy = [u \in Users |-> <<>>]

Goto(t, from, to) == at[t] = from /\ at' = [at EXCEPT ![t] = to]

Lock(t, from, to) == /\ Goto(t, from, to)
                     /\ holder = "nobody" /\ holder' = t
                     /\ UNCHANGED <<size, capacity, block, heap>>

Unlock(t, from, to) == /\ Goto(t, from, to)
                       /\ holder' = "nobody"
                       /\ UNCHANGED <<size, capacity, block, heap>>

Quit(t) == /\ t # "main"
           /\ Goto(t, "idle", "gone")
           /\ UNCHANGED <<holder, size, capacity, block, heap, locals>>

-----------------------------------------------------------------------------
(* addClient, on the listening thread.                                      *)

AddLock == size < MaxClients /\ Lock("listener", "idle", "push") /\ UNCHANGED locals

Resize == /\ capacity' = capacity * 2
          /\ block' \in Blocks
          /\ heap' = [b \in Blocks |-> IF b = block' THEN heap[block] ELSE Junk]

(* The mutated form of Grow: the array grows one client too late.           *)
GrowLate ==
  /\ Goto("listener", "push", "store")
  /\ \/ size > capacity /\ Resize
     \/ size <= capacity /\ UNCHANGED <<capacity, block, heap>>
  /\ UNCHANGED <<holder, size, locals>>

(* arrayPushBack resizes a full array: realloc keeps the block or moves it. *)
Grow ==
  /\ Goto("listener", "push", "store")
  /\ \/ size >= capacity /\ Resize
     \/ size < capacity /\ UNCHANGED <<capacity, block, heap>>
  /\ UNCHANGED <<holder, size, locals>>

Store ==
  /\ Goto("listener", "store", "create")
  /\ heap' = [heap EXCEPT ![block][size] = Fresh(size)]
  /\ size' = size + 1
  /\ UNCHANGED <<holder, capacity, block, locals>>

(* The mutated form of CreateThread: the mutex is released first.           *)
CreateThreadUnlocked ==
  /\ Unlock("listener", "create", "made") \/ Unlock("listener", "create", "garbage")
  /\ UNCHANGED locals

(* The receiving thread may run before its thread_id is in the table.       *)
(* When it was not created, an uninitialized thread_id is written.          *)
CreateThread ==
  /\ Goto("listener", "create", "made") \/ Goto("listener", "create", "garbage")
  /\ UNCHANGED <<holder, size, capacity, block, heap, locals>>

WriteThreadId ==
  /\ \E how \in {"made", "garbage"} :
       /\ Goto("listener", how, "unlock")
       /\ heap' = [heap EXCEPT ![block][size - 1].thread = how]
  /\ UNCHANGED <<holder, size, capacity, block, locals>>

AddUnlock == Unlock("listener", "unlock", "idle") /\ UNCHANGED locals

-----------------------------------------------------------------------------
(* The other threads.  An index comes from client_id_arg or from an event,  *)
(* both of which follow pthread_create.                                     *)

Known == IF at["listener"] = "create" THEN size - 1 ELSE size

Choose(u) ==
  \E o \in Ops, i \in Ids :
    /\ i < Known
    /\ op' = [op EXCEPT ![u] = o]
    /\ index' = [index EXCEPT ![u] = i]

(* The mutated form of Call: arrayLock is left out.                         *)
CallUnlocked(u) ==
  /\ Goto(u, "idle", "address")
  /\ Choose(u)
  /\ UNCHANGED <<holder, size, capacity, block, heap, ptr, copy>>

(* One of Ops, up to and with its arrayLock.                                *)
Call(u) ==
  /\ Lock(u, "idle", "address")
  /\ Choose(u)
  /\ UNCHANGED <<ptr, copy>>

(* arraySyncUnsafeGetItem: a pointer into the array.                        *)
Address(u) ==
  /\ op[u] \notin {"getClient", "getAllClients"}
  /\ Goto(u, "address", "access")
  /\ ptr' = [ptr EXCEPT ![u] = block]
  /\ UNCHANGED <<holder, size, capacity, block, heap, op, index, copy>>

GetClientStatus(u) ==
  /\ op[u] = "getClientStatus" /\ Goto(u, "access", "unlock")
  /\ copy' = [copy EXCEPT ![u] = <<heap[ptr[u]][index[u]]>>]
  /\ UNCHANGED <<holder, size, capacity, block, heap, op, index, ptr>>

MarkClient(u) ==
  /\ Goto(u, "access", "unlock")
  /\ \/ op[u] = "stopClient"
        /\ heap' = [heap EXCEPT ![ptr[u]][index[u]].status = "STOPPED"]
     \/ op[u] = "signalClientToStop"
        /\ heap' = [heap EXCEPT ![ptr[u]][index[u]].status = "STOP"]
  /\ UNCHANGED <<holder, size, capacity, block, locals>>

GetClient(u) ==
  /\ op[u] = "getClient" /\ Goto(u, "address", "unlock")
  /\ copy' = [copy EXCEPT ![u] = <<heap[block][index[u]]>>]
  /\ UNCHANGED <<holder, size, capacity, block, heap, op, index, ptr>>

GetAllClients(u) ==
  /\ op[u] = "getAllClients" /\ Goto(u, "address", "unlock")
  /\ copy' = [copy EXCEPT ![u] = [i \in 1 .. size |-> heap[block][i - 1]]]
  /\ UNCHANGED <<holder, size, capacity, block, heap, op, index, ptr>>

(* The locals of the call end with it; what was copied out went to the      *)
(* caller.                                                                  *)
UserUnlock(u) ==
  /\ Unlock(u, "unlock", "idle")
  /\ op' = [op EXCEPT ![u] = "getClient"]
  /\ index' = [index EXCEPT ![u] = 0]
  /\ ptr' = [ptr EXCEPT ![u] = "null"]
  /\ copy' = [copy EXCEPT ![u] = <<>>]

-----------------------------------------------------------------------------
(* stopServer: main joins the listening and the sending thread, marks every *)
(* entry, joins the receiving threads and destroys the array.               *)

MarkLock == /\ at["listener"] = "gone" /\ at[Sender] = "gone"
            /\ Lock("main", "idle", "mark") /\ UNCHANGED locals

MarkAll ==
  /\ Goto("main", "mark", "unlock")
  /\ heap' = [heap EXCEPT ![block] =
       [i \in Ids |-> IF i < size THEN [heap[block][i] EXCEPT !.status = "STOP"]
                                 ELSE heap[block][i]]]
  /\ UNCHANGED <<holder, size, capacity, block, locals>>

MarkUnlock == Unlock("main", "unlock", "join") /\ UNCHANGED locals

(* The joins of stopReceivingThreads, then arraySyncDestroy.                *)
Destroy ==
  /\ \A u \in Users : at[u] = "gone"
  /\ Goto("main", "join", "gone")
  /\ UNCHANGED <<holder, size, capacity, block, heap, locals>>

Terminated == (\A t \in Threads : at[t] = "gone") /\ UNCHANGED vars

Adding == AddLock \/ Grow \/ Store \/ CreateThread \/ WriteThreadId \/ AddUnlock

Using(u) == \/ Call(u) \/ Address(u) \/ GetClientStatus(u) \/ MarkClient(u)
            \/ GetClient(u) \/ GetAllClients(u) \/ UserUnlock(u)

Stopping == MarkLock \/ MarkAll \/ MarkUnlock \/ Destroy

Next == \/ Adding \/ Stopping \/ Terminated
        \/ \E t \in Threads : Quit(t)
        \/ \E u \in Users : Using(u)

Spec == Init /\ [][Next]_vars

-----------------------------------------------------------------------------
(* The values of every variable; the entries fit the array.                 *)
TypeOK ==
  /\ at \in [Threads -> {"idle", "push", "store", "create", "made", "garbage",
                         "address", "access", "unlock", "mark", "join", "gone"}]
  /\ holder \in Threads \cup {"nobody"}
  /\ size \in 0 .. MaxClients
  /\ capacity \in Nat \ {0} /\ size <= capacity
  /\ block \in Blocks
  /\ heap \in [Blocks -> [Ids -> Entries]]
  /\ op \in [Users -> Ops]
  /\ index \in [Users -> Nat]
  /\ ptr \in [Users -> Blocks \cup {"null"}]
  /\ copy \in [Users -> Seq(Entries)]

(* "Address outside of capacity" (server_array.c:25): the assertion holds   *)
(* at every use, and more: an entry that is looked up has been appended.    *)
InsideCapacity ==
  /\ at["listener"] = "store" => size < capacity
  /\ \A u \in Users : at[u] \in {"address", "access"} =>
                        index[u] < size

(* "use only between lockArray and unlockArray!" (server_array.h:44): a     *)
(* Client* is only followed by the thread that holds the mutex, and points  *)
(* into the block the array is in now, not one that realloc has freed.      *)
PointersValid ==
  \A u \in Users : at[u] = "access" => holder = u /\ ptr[u] = block

(* The entries of the table, without the one addClient has not finished.    *)
Made == IF at["listener"] \in {"create", "made", "garbage"} THEN size - 1 ELSE size

Atomic == INSTANCE Table WITH
  entries <- IF at["main"] = "gone" THEN <<>>
             ELSE [i \in 1 .. Made |-> heap[block][i - 1]],
  view <- copy

(* The table is atomic: whatever the interleaving, and wherever realloc     *)
(* moves it, a reader sees the entries of one instant, all of them made.    *)
TableSpec == Atomic!Spec
=============================================================================
