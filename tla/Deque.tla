-------------------------------- MODULE Deque --------------------------------
(***************************************************************************)
(* What the synchronized queue (src/Server/server_queue.h) promises: a     *)
(* sequence that grows at both ends and is taken from the front.           *)
(***************************************************************************)
EXTENDS Sequences

CONSTANTS
  Values,  (* what is pushed                                                *)
  None     (* nothing was popped yet                                        *)

VARIABLES
  items,   (* what is in the queue, first to last                           *)
  out      (* what the last pop returned                                    *)

dequeVars == <<items, out>>

Init == items = <<>> /\ out = None

PushBack(v)  == items' = Append(items, v) /\ UNCHANGED out
PushFront(v) == items' = <<v>> \o items /\ UNCHANGED out

Pop ==
  /\ items # <<>>
  /\ out' = Head(items)
  /\ items' = Tail(items)

Clear == items' = <<>> /\ UNCHANGED out

Next == Pop \/ Clear \/ \E v \in Values : PushBack(v) \/ PushFront(v)

Spec == Init /\ [][Next]_dequeVars
=============================================================================
