------------------------------- MODULE Mailbox -------------------------------
(***************************************************************************)
(* database.py and mailbox.py: the bounded SQLite mailbox of one node.     *)
(* A table is a finite function from row keys to rows, and every operation *)
(* is ONE `BEGIN IMMEDIATE` transaction, so it is an operator from a table *)
(* to a table.  A transaction that raises is rolled back: its operator     *)
(* returns the table it was given.                                         *)
(***************************************************************************)
EXTENDS Protocol, FiniteSets, Functions

CONSTANTS MaxRows,      \* Database.max_rows
          MaxBytes,     \* Database.max_bytes
          MaxAttempts,  \* Mailbox.MAX_ATTEMPTS
          BodyLen,      \* length of the encoded envelope
          WireLen       \* length of the signed LXMF packet that carries it

ASSUME CapacityAssumption ==
  /\ MaxRows \in Nat /\ MaxBytes \in Nat /\ MaxAttempts \in Nat
  /\ BodyLen \in [Envelopes -> Nat]
  /\ WireLen \in [Envelopes -> Nat]

States == {"queued", "sending", "handed_off", "confirmed", "expired", "received"}
Settled == {"confirmed", "expired"}

Key == {"in", "out"} \X Nodes \X Nodes \X Ids \X {"data", "receipt"}
Row == [direction : {"in", "out"}, body : Envelopes, state : States,
        attempts : 0..MaxAttempts, wire : Nat]

(* Mutant: the key forgets the kind. *)
RowKeyWithoutKind(direction, e) == <<direction, e.source, e.destination, e.id>>

RowKey(direction, e) == <<direction, e.source, e.destination, e.id, e.kind>>

EmptyTable == [k \in {} |-> {}]

TableOK(t) ==
  /\ DOMAIN t \subseteq Key
  /\ \A k \in DOMAIN t :
       t[k] \in Row /\ k = RowKey(t[k].direction, t[k].body)

(* The bytes the quota counts: bodies and retained packets. *)
Used(t) ==
  FoldFunction(+, 0, [k \in DOMAIN t |-> BodyLen[t[k].body] + t[k].wire])

-----------------------------------------------------------------------------
(* Database.insert: a key already present must carry the same body; a new  *)
(* row must fit both limits.                                               *)
CanInsert(t, direction, e, wire) ==
  LET k == RowKey(direction, e) IN
  IF k \in DOMAIN t
  THEN t[k].body = e
  ELSE /\ Cardinality(DOMAIN t) < MaxRows
       /\ Used(t) + BodyLen[e] + wire <= MaxBytes

WithRow(t, k, row) ==
  [j \in DOMAIN t \cup {k} |-> IF j = k THEN row ELSE t[j]]

(* Mutant: an upsert, which replaces a conflicting body. *)
InsertOrReplace(t, direction, e, state, wire) ==
  WithRow(t, RowKey(direction, e),
          [direction |-> direction, body |-> e, state |-> state,
           attempts |-> 0, wire |-> wire])

Insert(t, direction, e, state, wire) ==
  IF CanInsert(t, direction, e, wire) /\ RowKey(direction, e) \notin DOMAIN t
  THEN WithRow(t, RowKey(direction, e),
               [direction |-> direction, body |-> e, state |-> state,
                attempts |-> 0, wire |-> wire])
  ELSE t

SetState(t, k, state) == [t EXCEPT ![k].state = state]

(* Mailbox.queue: only data whose source is this mailbox's own identity. *)
Queue(t, identity, e, now) ==
  IF Decodes(e, now) /\ e.kind = "data" /\ e.source = identity
  THEN Insert(t, "out", e, "queued", 0)
  ELSE t

-----------------------------------------------------------------------------
(* Mailbox.accept_verified for a receipt: it must match the outgoing row   *)
(* field by field, and the packet kept as proof must fit the quota.        *)
MatchesObligation(t, r) ==
  LET k == RowKey("out", OriginalOf(r)) IN
  k \in DOMAIN t /\ ReceiptEnvelope(t[k].body) = r

(* Mutant: the packet kept as proof is not counted against the quota. *)
AcceptReceiptUncounted(t, r, wire) ==
  LET k == RowKey("out", OriginalOf(r)) IN
  IF MatchesObligation(t, r)
  THEN [t EXCEPT ![k].state = "confirmed", ![k].wire = wire]
  ELSE t

AcceptReceipt(t, r, wire) ==
  LET k == RowKey("out", OriginalOf(r)) IN
  IF MatchesObligation(t, r) /\ Used(t) + wire <= MaxBytes + t[k].wire
  THEN [t EXCEPT ![k].state = "confirmed", ![k].wire = wire]
  ELSE t

(* Mutant: a repeated delivery also gives the attempts back. *)
RequeueFresh(t, k) ==
  IF k \in DOMAIN t THEN [t EXCEPT ![k].state = "queued", ![k].attempts = 0] ELSE t

(* A repeated delivery puts the receipt back in the queue while it still   *)
(* has attempts left.                                                      *)
Requeue(t, k) ==
  IF k \in DOMAIN t /\ t[k].attempts < MaxAttempts
  THEN SetState(t, k, "queued")
  ELSE t

(* Mutants: each insert commits on its own; the receipt is queued although *)
(* the inbox row was refused.                                              *)
AcceptDataInTwo(t, e, wire) ==
  LET r == ReceiptEnvelope(e) IN
  Requeue(Insert(Insert(t, "in", e, "received", wire), "out", r, "queued", 0),
          RowKey("out", r))

AcceptDataReceiptFirst(t, e, wire) ==
  LET r       == ReceiptEnvelope(e)
      receipt == Insert(t, "out", r, "queued", 0)
  IN  Requeue(Insert(receipt, "in", e, "received", wire), RowKey("out", r))

(* Mailbox.accept_verified for data: the inbox row and the receipt owed    *)
(* for it enter in one transaction, or neither does.                       *)
AcceptData(t, e, wire) ==
  LET r       == ReceiptEnvelope(e)
      inboxed == Insert(t, "in", e, "received", wire)
  IN  IF CanInsert(t, "in", e, wire) /\ CanInsert(inboxed, "out", r, 0)
      THEN Requeue(Insert(inboxed, "out", r, "queued", 0), RowKey("out", r))
      ELSE t

AcceptVerified(t, identity, e, now) ==
  IF Decodes(e, now) /\ e.destination = identity
  THEN IF e.kind = "receipt" THEN AcceptReceipt(t, e, WireLen[e])
                             ELSE AcceptData(t, e, WireLen[e])
  ELSE t

-----------------------------------------------------------------------------
(* Mailbox.pending: one scan that expires what is due and lists what may   *)
(* be attempted.                                                           *)
Outstanding(t) ==
  {k \in DOMAIN t : t[k].direction = "out" /\ t[k].state \notin Settled}

(* Mutant: rows without attempts left are skipped before the expiry check. *)
ExpireAttemptable(t, now) ==
  [k \in DOMAIN t |->
     IF /\ k \in Outstanding(t) /\ t[k].body.expires <= now
        /\ t[k].attempts < MaxAttempts
     THEN [t[k] EXCEPT !.state = "expired"]
     ELSE t[k]]

Expire(t, now) ==
  [k \in DOMAIN t |->
     IF k \in Outstanding(t) /\ t[k].body.expires <= now
     THEN [t[k] EXCEPT !.state = "expired"]
     ELSE t[k]]

Eligible(t, now) ==
  {k \in Outstanding(t) :
     /\ t[k].body.expires > now
     /\ t[k].body.kind = "data" \/ t[k].state # "handed_off"
     /\ t[k].attempts < MaxAttempts}

(* Mailbox.begin_attempt raises unless CanBegin holds. *)
CanBegin(t, k, now) ==
  /\ k \in Outstanding(t)
  /\ t[k].attempts < MaxAttempts
  /\ t[k].body.expires > now

BeginAttempt(t, k) ==
  [t EXCEPT ![k].state = "sending", ![k].attempts = @ + 1]

(* Mutant: the UPDATE without `AND state='sending'`. *)
HandoffAnyState(t, k) ==
  IF k \in DOMAIN t THEN SetState(t, k, "handed_off") ELSE t

(* Mailbox.handoff: the UPDATE touches a row only while it is `sending`. *)
Handoff(t, k) ==
  IF k \in DOMAIN t /\ t[k].state = "sending"
  THEN SetState(t, k, "handed_off")
  ELSE t
=============================================================================
