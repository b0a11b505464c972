------------------------------- MODULE Table -------------------------------
(***************************************************************************)
(* What the client table promises the threads that share it: every reading *)
(* and every writing of it happens at one instant, and nobody ever sees an *)
(* entry that is still being made.                                         *)
(***************************************************************************)
EXTENDS Integers, Sequences

CONSTANTS Users,      (* the threads that read the table                    *)
          Entries,    (* the values of an entry, with a field status        *)
          Statuses

VARIABLES entries,    (* the clients, in the order they connected           *)
          view        (* the entries each user has read, until it is done   *)

tableVars == <<entries, view>>

Init == entries = <<>> /\ view = [u \in Users |-> <<>>]

Add == /\ \E e \in Entries : entries' = Append(entries, e)
       /\ UNCHANGED view

SetStatus ==
  /\ \E i \in DOMAIN entries, s \in Statuses :
       entries' = [entries EXCEPT ![i].status = s]
  /\ UNCHANGED view

SetAll ==
  /\ \E s \in Statuses :
       entries' = [i \in DOMAIN entries |-> [entries[i] EXCEPT !.status = s]]
  /\ UNCHANGED view

Read(u) ==
  /\ \/ view' = [view EXCEPT ![u] = entries]
     \/ \E i \in DOMAIN entries : view' = [view EXCEPT ![u] = <<entries[i]>>]
  /\ UNCHANGED entries

Return(u) == view' = [view EXCEPT ![u] = <<>>] /\ UNCHANGED entries

Destroy == /\ \A u \in Users : view[u] = <<>>
           /\ entries' = <<>>
           /\ UNCHANGED view

Next == Add \/ SetStatus \/ SetAll \/ Destroy \/ \E u \in Users : Read(u) \/ Return(u)

Spec == Init /\ [][Next]_tableVars
=============================================================================
