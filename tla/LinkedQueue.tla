---------------------------- MODULE LinkedQueue ----------------------------
(***************************************************************************)
(* The synchronized queue as it is built (src/Server/server_queue.c): a    *)
(* doubly linked list whose nodes each own a copy of an element.  Every    *)
(* operation holds the queue's mutex while it touches the list, so each is *)
(* one action.  heap and element hold what malloc has given out and free   *)
(* has not taken back: a pointer outside their domains dangles.            *)
(***************************************************************************)
EXTENDS Integers, Sequences, FiniteSets

CONSTANTS
  Nodes,   (* addresses: the bound on the nodes and elements in use         *)
  Values,  (* the elements that are pushed                                  *)
  Null, None

ASSUME NullAssumption == Null \notin Nodes

VARIABLES
  first, last,  (* the ends of the list                                     *)
  heap,         (* node |-> its links previous and next                     *)
  element,      (* node |-> the copy its data points at                     *)
  held,         (* copies that queueSyncPopFront handed to its caller       *)
  out           (* what the last pop returned                               *)

vars == <<first, last, heap, element, held, out>>

Init ==
  /\ first = Null /\ last = Null
  /\ heap = [n \in {} |-> Null]
  /\ element = [n \in {} |-> None]
  /\ held = {}
  /\ out = None

(* f with f[n] = v; f without the addresses that were freed.                *)
Set(f, n, v)   == [m \in DOMAIN f \cup {n} |-> IF m = n THEN v ELSE f[m]]
Freed(f, dead) == [m \in DOMAIN f \ dead |-> f[m]]

(* malloc: an address that is in use neither as a node nor as an element.   *)
CreateNewNode(n, v) ==
  /\ n \notin DOMAIN heap \cup DOMAIN element
  /\ element' = Set(element, n, v)

-----------------------------------------------------------------------------
PushBack(n, v) ==
  /\ CreateNewNode(n, v)
  /\ LET linked == Set(heap, n, [previous |-> last, next |-> Null])
     IN heap' = IF last = Null THEN linked ELSE [linked EXCEPT ![last].next = n]
  /\ last' = n
  /\ first' = IF last = Null THEN n ELSE first
  /\ UNCHANGED <<held, out>>

(* The mutated form of PushFront: the old first node keeps its link.        *)
PushFrontOneWay(n, v) ==
  /\ CreateNewNode(n, v)
  /\ heap' = Set(heap, n, [previous |-> Null, next |-> first])
  /\ first' = n
  /\ last' = IF first = Null THEN n ELSE last
  /\ UNCHANGED <<held, out>>

(* The mutated form of PushFront: previous and next are mixed up.           *)
PushFrontBackwards(n, v) ==
  /\ CreateNewNode(n, v)
  /\ LET linked == Set(heap, n, [previous |-> first, next |-> Null])
     IN heap' = IF first = Null THEN linked ELSE [linked EXCEPT ![first].next = n]
  /\ first' = n
  /\ last' = IF first = Null THEN n ELSE last
  /\ UNCHANGED <<held, out>>

PushFront(n, v) ==
  /\ CreateNewNode(n, v)
  /\ LET linked == Set(heap, n, [previous |-> Null, next |-> first])
     IN heap' = IF first = Null THEN linked ELSE [linked EXCEPT ![first].previous = n]
  /\ first' = n
  /\ last' = IF first = Null THEN n ELSE last
  /\ UNCHANGED <<held, out>>

(* popFrontNode, and the free(front) of its only caller; "Can't pop empty   *)
(* queue!" is its assertion, which every caller has tested under the mutex. *)
PopFrontNode ==
  /\ first # Null
  /\ LET next == heap[first].next IN
       /\ first' = next
       /\ \/ first = last /\ last' = Null /\ heap' = Freed(heap, {first})
          \/ /\ first # last /\ UNCHANGED last
             /\ heap' = [Freed(heap, {first}) EXCEPT ![next].previous = Null]
  /\ out' = element[first]

(* queueSyncPopFront: "User needs to free returned pointer after use".      *)
PopFront ==
  /\ PopFrontNode
  /\ held' = held \cup {first}
  /\ UNCHANGED element

FreeElement(n) ==
  /\ n \in held
  /\ held' = held \ {n}
  /\ element' = Freed(element, {n})
  /\ UNCHANGED <<first, last, heap, out>>

(* The mutated form of PopCopyFront: the element is not freed.              *)
PopCopyFrontLeaks == PopFrontNode /\ UNCHANGED <<held, element>>

PopCopyFront ==
  /\ PopFrontNode
  /\ element' = Freed(element, {first})
  /\ UNCHANGED held

(* The nodes met on the way from first along next: the longest such way,    *)
(* which is not followed twice round.                                       *)
Walks(from, links) ==
  {s \in UNION {[1 .. k -> DOMAIN links] : k \in 0 .. Cardinality(DOMAIN links)} :
     /\ s # <<>> => s[1] = from
     /\ \A k \in 1 .. Len(s) - 1 : s[k + 1] = links[s[k]].next}

Longest(walks) == CHOOSE s \in walks : \A t \in walks : Len(t) <= Len(s)

Chain == Longest(Walks(first, heap))

Met == {Chain[k] : k \in DOMAIN Chain}

QueueClear ==
  /\ first' = Null /\ last' = Null
  /\ heap' = Freed(heap, Met)
  /\ element' = Freed(element, Met)
  /\ UNCHANGED <<held, out>>

Next ==
  \/ PopFront \/ PopCopyFront \/ QueueClear
  \/ \E n \in Nodes : FreeElement(n)
  \/ \E n \in Nodes, v \in Values : PushBack(n, v) \/ PushFront(n, v)

Spec == Init /\ [][Next]_vars

-----------------------------------------------------------------------------
(* No pointer of the queue dangles, and the list has both ends or none.     *)
TypeOK ==
  /\ DOMAIN heap \subseteq Nodes /\ DOMAIN element \subseteq Nodes
  /\ {first, last} \subseteq DOMAIN heap \cup {Null}
  /\ first = Null <=> last = Null
  /\ heap \in [DOMAIN heap -> [previous : DOMAIN heap \cup {Null},
                               next     : DOMAIN heap \cup {Null}]]
  /\ element \in [DOMAIN element -> Values]
  /\ held \subseteq DOMAIN element \ DOMAIN heap
  /\ out \in Values \cup {None}

(* previous and next agree, and only the ends lack one: the list can be     *)
(* taken apart from the front whatever was pushed at either end.            *)
WellLinked ==
  /\ TypeOK
  /\ \A n \in DOMAIN heap :
       /\ heap[n].next = Null <=> n = last
       /\ heap[n].previous = Null <=> n = first
       /\ \A m \in DOMAIN heap : heap[n].next = m <=> heap[m].previous = n

(* Every node in use can be reached from first, and every element belongs   *)
(* to one of them or to a caller: what is popped or cleared was freed.      *)
NothingLeaks ==
  /\ DOMAIN heap = Met
  /\ DOMAIN element = DOMAIN heap \cup held

(* The list is a double-ended queue; see Deque.                             *)
AsDeque == INSTANCE Deque WITH items <- [k \in DOMAIN Chain |-> element[Chain[k]]]

DequeSpec == AsDeque!Spec
=============================================================================
