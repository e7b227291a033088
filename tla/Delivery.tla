------------------------------ MODULE Delivery ------------------------------
(***************************************************************************)
(* What the gateway promises, with nothing of how: a message is submitted  *)
(* at its origin, taken in once at its destination, and confirmed at the   *)
(* origin only after that.  One id names one content between two nodes.    *)
(***************************************************************************)
EXTENDS Protocol

VARIABLES submitted, received, confirmed   \* sets of data envelopes

dvars == <<submitted, received, confirmed>>

SameName(m, e) ==
  m.id = e.id /\ m.source = e.source /\ m.destination = e.destination

DInit == submitted = {} /\ received = {} /\ confirmed = {}

DSubmit(m) ==
  /\ \A e \in submitted : ~SameName(m, e)
  /\ submitted' = submitted \cup {m}
  /\ UNCHANGED <<received, confirmed>>

DReceive(m) ==
  /\ m \in submitted \ received
  /\ received' = received \cup {m}
  /\ UNCHANGED <<submitted, confirmed>>

DConfirm(m) ==
  /\ m \in received \ confirmed
  /\ confirmed' = confirmed \cup {m}
  /\ UNCHANGED <<submitted, received>>

DNext == \E m \in Messages : DSubmit(m) \/ DReceive(m) \/ DConfirm(m)

DSpec == DInit /\ [][DNext]_dvars
=============================================================================
