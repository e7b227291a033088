------------------------------ MODULE Protocol ------------------------------
(***************************************************************************)
(* The application envelopes of protocol.py that the mailbox exchanges:    *)
(* `data`, and the `receipt` bound to it.  An envelope is abstracted to    *)
(* the fields the guarantees tell apart.  A digest stands for the content  *)
(* it names (SHA-256 is taken as injective), so a data envelope needs no   *)
(* separate payload: decode refuses one whose payload and digest differ.   *)
(***************************************************************************)
EXTENDS Naturals

CONSTANTS Nodes,      \* LXMF delivery addresses
          Ids,        \* message ids (uuid4().hex unless the caller gives one)
          Digests,    \* contents, by digest
          Messages    \* the data envelopes the applications may submit

Envelope == [kind : {"data", "receipt"}, id : Ids, source : Nodes,
             destination : Nodes, expires : Nat, digest : Digests]

ASSUME MessagesAssumption ==
  Messages \subseteq {e \in Envelope : e.kind = "data"}

(* Mutant: readable at the deadline too. *)
DecodesAtDeadline(e, now) == now <= e.expires

(* decode: an envelope is readable strictly before the deadline it carries *)
(* (its fields are well formed by construction).                           *)
Decodes(e, now) == now < e.expires

(* The receipt owed for a message: the same id, digest and deadline, with  *)
(* the endpoints exchanged.                                                *)
ReceiptEnvelope(m) ==
  [kind |-> "receipt", id |-> m.id, source |-> m.destination,
   destination |-> m.source, expires |-> m.expires, digest |-> m.digest]

(* The data envelope a receipt says it answers (accept_verified rebuilds   *)
(* it only to look its row up).                                            *)
OriginalOf(r) ==
  [kind |-> "data", id |-> r.id, source |-> r.destination,
   destination |-> r.source, expires |-> r.expires, digest |-> r.digest]

(* Every envelope that can ever travel. *)
Envelopes == Messages \cup {ReceiptEnvelope(m) : m \in Messages}
=============================================================================
