------------------------------- MODULE Calls -------------------------------
(***************************************************************************)
(* What Rpc promises the window: a request goes to one helper at most and  *)
(* only while it is wanted, and comes to one outcome at most, which is an  *)
(* answer only if that helper has served it.                               *)
(***************************************************************************)
CONSTANTS Request, Socket  \* a socket stands for its helper

VARIABLES
  outcome,  \* what the window knows of each request
  wire,     \* requests sent to each helper
  served    \* requests a helper has answered

Init ==
  /\ outcome = [r \in Request |-> "new"]
  /\ wire = [s \in Socket |-> {}] /\ served = {}

Becomes(r, o) == outcome' = [outcome EXCEPT ![r] = o]

Sent(r) == \E s \in Socket : r \in wire[s]

Accept(r) == outcome[r] = "new" /\ Becomes(r, "pending") /\ UNCHANGED <<wire, served>>

Send(r) ==
  /\ outcome[r] \in {"new", "pending"} /\ ~Sent(r)
  /\ Becomes(r, "pending")
  /\ \E s \in Socket : wire' = [wire EXCEPT ![s] = @ \cup {r}]
  /\ UNCHANGED served

Serve(r) ==
  /\ Sent(r) /\ r \notin served
  /\ served' = served \cup {r}
  /\ UNCHANGED <<outcome, wire>>

Answer(r) ==
  /\ outcome[r] = "pending" /\ r \in served
  /\ Becomes(r, "answered") /\ UNCHANGED <<wire, served>>

\* A request that cannot be sent may fail before it was accepted.
Fail(r) ==
  /\ outcome[r] \in {"new", "pending"}
  /\ Becomes(r, "failed") /\ UNCHANGED <<wire, served>>

Cancel(r) ==
  /\ outcome[r] = "pending"
  /\ Becomes(r, "cancelled") /\ UNCHANGED <<wire, served>>

Next ==
  \E r \in Request : Accept(r) \/ Send(r) \/ Serve(r) \/ Answer(r) \/ Fail(r) \/ Cancel(r)

Spec == Init /\ [][Next]_<<outcome, wire, served>>
=============================================================================
