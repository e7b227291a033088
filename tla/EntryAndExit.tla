---------------------------- MODULE EntryAndExit ----------------------------
(***************************************************************************)
(* What delivery through relays promises a sender: the states of the       *)
(* README, entered and left, and what the sender can prove of them.        *)
(* A message is pending while it has entered and has not left; a proof     *)
(* that it left is never there before it left, it never left before it     *)
(* entered, and a proof is given up only where one for the same id is due. *)
(***************************************************************************)
CONSTANT Ids

(* An object, as sent to one recipient, is a record [to, id, digest]. *)
VARIABLES
  entered,    \* a relay took it
  left,       \* its recipient has put it together
  proofs      \* by the id of an object: the exit its sender can prove, if any

vars == <<entered, left, proofs>>

Init == entered = {} /\ left = {} /\ proofs = [i \in Ids |-> {}]

Enter(x) == entered' = entered \cup {x} /\ UNCHANGED <<left, proofs>>

Leave(x) ==
  /\ x \in entered
  /\ left' = left \cup {x}
  /\ UNCHANGED <<entered, proofs>>

(* One proof is kept for an id: the last one.                              *)
Prove(x) ==
  /\ proofs' = [proofs EXCEPT ![x.id] = {x}]
  /\ x \in left
  /\ UNCHANGED <<entered, left>>

(* The place of a proof is cleared for that of x, which may yet be lost.   *)
GiveUp(x) ==
  /\ proofs' = [proofs EXCEPT ![x.id] = {}]
  /\ x \in left
  /\ UNCHANGED <<entered, left>>

Next ==
  \/ \E x \in entered' \ entered : Enter(x)
  \/ \E x \in left' \ left : Leave(x)
  \/ \E x \in left : Prove(x) \/ GiveUp(x)

Spec == Init /\ [][Next]_vars
=============================================================================
