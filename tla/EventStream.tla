---------------------------- MODULE EventStream ----------------------------
(***************************************************************************)
(* What the receiving half of the library promises the host, client by     *)
(* client: take() returns the connection once, then the client's frames,   *)
(* each once and in the order they were sent; it returns the loss of the   *)
(* connection once, at any moment after the client's thread gave up, even  *)
(* before the frames, or the connection itself, that were queued earlier.  *)
(***************************************************************************)
EXTENDS Integers

CONSTANTS
  MaxClients,  (* bound on the connections that are ever accepted           *)
  MaxFrames    (* bound on the frames one client sends                      *)

VARIABLES
  new,         (* NEW_CONNECTION of each client: "no", "pending", "taken"   *)
  lost,        (* LOST_CONNECTION of each client, likewise                  *)
  pushed,      (* number of frames the server has accepted of each client   *)
  delivered    (* number of frames the host has taken of each client        *)

streamVars == <<new, lost, pushed, delivered>>

Clients == 0 .. MaxClients - 1

Init ==
  /\ new = [i \in Clients |-> "no"]
  /\ lost = [i \in Clients |-> "no"]
  /\ pushed = [i \in Clients |-> 0]
  /\ delivered = [i \in Clients |-> 0]

Announce(i) ==
  /\ new[i] = "no"
  /\ new' = [new EXCEPT ![i] = "pending"]
  /\ UNCHANGED <<lost, pushed, delivered>>

PushFrame(i) ==
  /\ new[i] # "no" /\ lost[i] = "no"
  /\ pushed[i] < MaxFrames
  /\ pushed' = [pushed EXCEPT ![i] = @ + 1]
  /\ UNCHANGED <<new, lost, delivered>>

ReportLoss(i) ==
  /\ new[i] # "no" /\ lost[i] = "no"
  /\ lost' = [lost EXCEPT ![i] = "pending"]
  /\ UNCHANGED <<new, pushed, delivered>>

TakeNew(i) ==
  /\ new[i] = "pending"
  /\ new' = [new EXCEPT ![i] = "taken"]
  /\ UNCHANGED <<lost, pushed, delivered>>

TakeFrame(i) ==
  /\ new[i] = "taken"
  /\ delivered[i] < pushed[i]
  /\ delivered' = [delivered EXCEPT ![i] = @ + 1]
  /\ UNCHANGED <<new, lost, pushed>>

TakeLoss(i) ==
  /\ lost[i] = "pending"
  /\ lost' = [lost EXCEPT ![i] = "taken"]
  /\ UNCHANGED <<new, pushed, delivered>>

Next ==
  \E i \in Clients : \/ Announce(i) \/ PushFrame(i) \/ ReportLoss(i)
                     \/ TakeNew(i) \/ TakeFrame(i) \/ TakeLoss(i)

Spec == Init /\ [][Next]_streamVars
=============================================================================
