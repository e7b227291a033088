---------------------------- MODULE MailboxProofs ----------------------------
(***************************************************************************)
(* What each operation of Mailbox.tla does to a table: it keeps the table  *)
(* well typed, loses no row, changes no body, takes back no attempt and    *)
(* demotes no confirmed row (Grows), and the rows it adds or confirms are  *)
(* the ones its lemma names.                                               *)
(***************************************************************************)
EXTENDS Mailbox, NumberProofs

(* What no operation on a mailbox ever does otherwise. *)
Grows(t, u) ==
  \A k \in DOMAIN t :
    /\ k \in DOMAIN u
    /\ u[k].direction = t[k].direction
    /\ u[k].body = t[k].body
    /\ u[k].attempts >= t[k].attempts
    /\ t[k].state = "confirmed" => u[k].state = "confirmed"

LEMMA EnvelopeType ==
  /\ Envelopes \subseteq Envelope
  /\ \A e \in Envelopes : e.kind = "data" => e \in Messages
  /\ \A e \in Envelopes : e.kind = "receipt" =>
       /\ OriginalOf(e) \in Messages
       /\ ReceiptEnvelope(OriginalOf(e)) = e
  /\ \A m \in Messages : /\ ReceiptEnvelope(m) \in Envelopes
                         /\ OriginalOf(ReceiptEnvelope(m)) = m
<1>1. ASSUME NEW m \in Messages
      PROVE  /\ m \in Envelope /\ m.kind = "data"
             /\ ReceiptEnvelope(m) \in Envelope
             /\ ReceiptEnvelope(m) \in Envelopes
             /\ ReceiptEnvelope(m).kind = "receipt"
             /\ OriginalOf(ReceiptEnvelope(m)) = m
  <2>1. m \in Envelope /\ m.kind = "data"
    BY MessagesAssumption
  <2>2. m = [kind |-> "data", id |-> m.id, source |-> m.source,
             destination |-> m.destination, expires |-> m.expires,
             digest |-> m.digest]
    BY <2>1 DEF Envelope
  <2>3. QED
    BY <2>1, <2>2 DEF Envelope, Envelopes, ReceiptEnvelope, OriginalOf
<1>2. QED
  BY <1>1 DEF Envelopes

LEMMA RowKeyType ==
  ASSUME NEW direction \in {"in", "out"}, NEW e \in Envelopes
  PROVE  RowKey(direction, e) \in Key
BY EnvelopeType DEF RowKey, Key, Envelope

LEMMA RowKeyInjective ==
  ASSUME NEW d1, NEW d2, NEW e1 \in Envelopes, NEW e2 \in Envelopes,
         RowKey(d1, e1) = RowKey(d2, e2)
  PROVE  /\ d1 = d2 /\ e1.kind = e2.kind /\ e1.id = e2.id
         /\ e1.source = e2.source /\ e1.destination = e2.destination
BY DEF RowKey

LEMMA GrowsTransitive ==
  ASSUME NEW t, NEW u, NEW v, TableOK(t), TableOK(u), TableOK(v),
         Grows(t, u), Grows(u, v)
  PROVE  Grows(t, v)
BY CapacityAssumption DEF Grows, TableOK, Row

LEMMA InsertRow ==
  ASSUME NEW t, TableOK(t), NEW direction \in {"in", "out"},
         NEW e \in Envelopes, NEW state \in States, NEW w \in Nat
  PROVE  LET u == Insert(t, direction, e, state, w)
             k == RowKey(direction, e)
         IN  /\ TableOK(u)
             /\ Grows(t, u)
             /\ DOMAIN u \subseteq DOMAIN t \cup {k}
             /\ \A j \in DOMAIN t : u[j] = t[j]
             /\ k \in DOMAIN u \ DOMAIN t =>
                  u[k].direction = direction /\ u[k].body = e /\ u[k].state = state
             /\ CanInsert(t, direction, e, w) =>
                  k \in DOMAIN u /\ u[k].body = e
<1> DEFINE u == Insert(t, direction, e, state, w)
           k == RowKey(direction, e)
           row == [direction |-> direction, body |-> e, state |-> state,
                   attempts |-> 0, wire |-> w]
<1>1. k \in Key /\ row \in Row
  BY RowKeyType, CapacityAssumption DEF Row
<1>2. CASE CanInsert(t, direction, e, w) /\ k \notin DOMAIN t
  <2>1. /\ u = WithRow(t, k, row)
        /\ DOMAIN u = DOMAIN t \cup {k}
        /\ \A j \in DOMAIN t : u[j] = t[j]
        /\ u[k] = row
    BY <1>2 DEF Insert, WithRow
  <2>2. TableOK(u)
    BY <1>1, <2>1 DEF TableOK
  <2>3. Grows(t, u)
    BY <2>1, CapacityAssumption DEF Grows, TableOK, Row
  <2>4. QED
    BY <2>1, <2>2, <2>3
<1>3. CASE ~(CanInsert(t, direction, e, w) /\ k \notin DOMAIN t)
  <2>1. u = t
    BY <1>3 DEF Insert
  <2>2. Grows(t, u)
    BY <2>1, CapacityAssumption DEF Grows, TableOK, Row
  <2>3. QED
    BY <1>3, <2>1, <2>2 DEF CanInsert
<1>4. QED
  BY <1>2, <1>3

(* An operation that leaves the rows and their bodies as they are. *)
SameRows(t, u) ==
  /\ DOMAIN u = DOMAIN t
  /\ \A k \in DOMAIN t : u[k].direction = t[k].direction /\ u[k].body = t[k].body

(* No row of t becomes confirmed. *)
NoneConfirmed(t, u) ==
  \A k \in DOMAIN t : u[k].state = "confirmed" => t[k].state = "confirmed"

(* Every row of t keeps its number of attempts. *)
SameAttempts(t, u) == \A k \in DOMAIN t : u[k].attempts = t[k].attempts

LEMMA Unchanged ==
  ASSUME NEW t, TableOK(t)
  PROVE  /\ Grows(t, t) /\ SameRows(t, t) /\ NoneConfirmed(t, t)
         /\ SameAttempts(t, t)
BY CapacityAssumption
   DEF Grows, SameRows, NoneConfirmed, SameAttempts, TableOK, Row

(* The shape of every UPDATE in mailbox.py: one row, its body untouched. *)
Updates(t, u, k) ==
  /\ DOMAIN u = DOMAIN t
  /\ \A j \in DOMAIN t \ {k} : u[j] = t[j]
  /\ u[k] \in Row
  /\ u[k].direction = t[k].direction
  /\ u[k].body = t[k].body
  /\ u[k].attempts >= t[k].attempts
  /\ t[k].state = "confirmed" => u[k].state = "confirmed"

LEMMA UpdateRow ==
  ASSUME NEW t, NEW u, NEW k \in DOMAIN t, TableOK(t), Updates(t, u, k)
  PROVE  /\ TableOK(u) /\ Grows(t, u) /\ SameRows(t, u)
         /\ u[k].attempts = t[k].attempts => SameAttempts(t, u)
         /\ u[k].state # "confirmed" => NoneConfirmed(t, u)
<1>1. TableOK(u)
  BY DEF TableOK, Updates
<1>2. \A j \in DOMAIN t : t[j].attempts >= t[j].attempts
  BY CapacityAssumption DEF TableOK, Row
<1>3. Grows(t, u)
  BY <1>2 DEF Grows, Updates
<1>4. SameRows(t, u)
  BY DEF SameRows, Updates
<1>5. u[k].attempts = t[k].attempts => SameAttempts(t, u)
  BY DEF SameAttempts, Updates
<1>6. u[k].state # "confirmed" => NoneConfirmed(t, u)
  BY DEF NoneConfirmed, Updates
<1>7. QED
  BY <1>1, <1>3, <1>4, <1>5, <1>6

LEMMA SetStateRow ==
  ASSUME NEW t, TableOK(t), NEW k \in DOMAIN t, NEW state \in States,
         t[k].state = "confirmed" => state = "confirmed"
  PROVE  LET u == SetState(t, k, state)
         IN  /\ TableOK(u) /\ Grows(t, u) /\ SameRows(t, u) /\ SameAttempts(t, u)
             /\ state # "confirmed" => NoneConfirmed(t, u)
<1> DEFINE u == SetState(t, k, state)
<1>1. t[k] \in Row /\ t[k].attempts >= t[k].attempts
  BY CapacityAssumption DEF TableOK, Row
<1>2. Updates(t, u, k) /\ u[k].state = state /\ u[k].attempts = t[k].attempts
  BY <1>1 DEF SetState, Updates, Row
<1> HIDE DEF u
<1>3. /\ TableOK(u) /\ Grows(t, u) /\ SameRows(t, u) /\ SameAttempts(t, u)
      /\ state # "confirmed" => NoneConfirmed(t, u)
  BY <1>2, UpdateRow
<1>4. QED
  BY <1>3 DEF u

LEMMA QueueRow ==
  ASSUME NEW t, TableOK(t), NEW n \in Nodes, NEW m \in Messages, NEW now
  PROVE  LET u == Queue(t, n, m, now)
             k == RowKey("out", m)
         IN  /\ TableOK(u) /\ Grows(t, u)
             /\ \A j \in DOMAIN t : u[j] = t[j]
             /\ DOMAIN u # DOMAIN t =>
                  /\ m.source = n
                  /\ DOMAIN u = DOMAIN t \cup {k}
                  /\ u[k].direction = "out" /\ u[k].body = m
                  /\ u[k].state = "queued"
<1> DEFINE u == Insert(t, "out", m, "queued", 0)
           k == RowKey("out", m)
<1>1. m \in Envelopes /\ "queued" \in States /\ "out" \in {"in", "out"} /\ 0 \in Nat
  BY DEF Envelopes, States
<1>2. /\ TableOK(u) /\ Grows(t, u)
      /\ DOMAIN u \subseteq DOMAIN t \cup {k}
      /\ \A j \in DOMAIN t : u[j] = t[j]
      /\ k \in DOMAIN u \ DOMAIN t =>
           u[k].direction = "out" /\ u[k].body = m /\ u[k].state = "queued"
  BY <1>1, InsertRow
<1>3. DOMAIN t \subseteq DOMAIN u
  BY <1>2 DEF Grows
<1>4. CASE Queue(t, n, m, now) = t
  BY <1>4, Unchanged
<1>5. CASE Queue(t, n, m, now) = u /\ m.source = n
  BY <1>2, <1>3, <1>5
<1>6. QED
  BY <1>4, <1>5 DEF Queue

LEMMA AcceptReceiptRow ==
  ASSUME NEW t, TableOK(t), NEW e \in Envelopes, NEW w \in Nat
  PROVE  LET u == AcceptReceipt(t, e, w)
             k == RowKey("out", OriginalOf(e))
         IN  /\ TableOK(u) /\ Grows(t, u) /\ SameRows(t, u) /\ SameAttempts(t, u)
             /\ \A j \in DOMAIN t \ {k} : u[j] = t[j]
             /\ \/ u = t
                \/ k \in DOMAIN t /\ ReceiptEnvelope(t[k].body) = e
<1> DEFINE k == RowKey("out", OriginalOf(e))
           u == AcceptReceipt(t, e, w)
<1>1. CASE MatchesObligation(t, e) /\ Used(t) + w <= MaxBytes + t[k].wire
  <2>1. k \in DOMAIN t /\ ReceiptEnvelope(t[k].body) = e
    BY <1>1 DEF MatchesObligation
  <2>2. t[k] \in Row /\ t[k].attempts >= t[k].attempts
    BY <2>1, CapacityAssumption DEF TableOK, Row
  <2>3. u = [t EXCEPT ![k] = [[t[k] EXCEPT !.state = "confirmed"] EXCEPT !.wire = w]]
    BY <1>1, <2>1 DEF AcceptReceipt
  <2>4. Updates(t, u, k) /\ u[k].attempts = t[k].attempts
    BY <2>1, <2>2, <2>3 DEF Updates, Row, States
  <2> HIDE DEF u, k
  <2>5. TableOK(u) /\ Grows(t, u) /\ SameRows(t, u) /\ SameAttempts(t, u)
    BY <2>1, <2>4, UpdateRow
  <2>6. \A j \in DOMAIN t \ {k} : u[j] = t[j]
    BY <2>4 DEF Updates
  <2>7. QED
    BY <2>1, <2>5, <2>6 DEF u, k
<1>2. CASE ~(MatchesObligation(t, e) /\ Used(t) + w <= MaxBytes + t[k].wire)
  BY <1>2, Unchanged DEF AcceptReceipt
<1>3. QED
  BY <1>1, <1>2

(* Only outgoing data is ever confirmed: what lets a repeated delivery put *)
(* a receipt back in the queue without looking at its state.               *)
ConfirmedIsData(t) ==
  \A k \in DOMAIN t :
    t[k].state = "confirmed" => t[k].direction = "out" /\ t[k].body.kind = "data"

LEMMA ConfirmedIsDataKept ==
  ASSUME NEW t, NEW u, ConfirmedIsData(t), SameRows(t, u), NoneConfirmed(t, u)
  PROVE  ConfirmedIsData(u)
BY DEF ConfirmedIsData, SameRows, NoneConfirmed

LEMMA RequeueRow ==
  ASSUME NEW t, TableOK(t), ConfirmedIsData(t), NEW k,
         k \in DOMAIN t => t[k].body.kind = "receipt"
  PROVE  LET u == Requeue(t, k)
         IN  /\ TableOK(u) /\ Grows(t, u) /\ SameRows(t, u)
             /\ SameAttempts(t, u) /\ NoneConfirmed(t, u)
<1>1. CASE k \in DOMAIN t /\ t[k].attempts < MaxAttempts
  <2>1. t[k].state # "confirmed"
    BY <1>1 DEF ConfirmedIsData
  <2>2. "queued" \in States
    BY DEF States
  <2>3. QED
    BY <1>1, <2>1, <2>2, SetStateRow DEF Requeue
<1>2. CASE ~(k \in DOMAIN t /\ t[k].attempts < MaxAttempts)
  BY <1>2, Unchanged DEF Requeue
<1>3. QED
  BY <1>1, <1>2

LEMMA AcceptDataRows ==
  ASSUME NEW t, TableOK(t), ConfirmedIsData(t), NEW e \in Messages, NEW w \in Nat
  PROVE  LET u    == AcceptData(t, e, w)
             kin  == RowKey("in", e)
             kout == RowKey("out", ReceiptEnvelope(e))
         IN  /\ TableOK(u) /\ Grows(t, u)
             /\ NoneConfirmed(t, u) /\ SameAttempts(t, u) /\ ConfirmedIsData(u)
             /\ DOMAIN u \subseteq DOMAIN t \cup {kin, kout}
             /\ \/ u = t
                \/ /\ kin \in DOMAIN u /\ u[kin].body = e
                   /\ kout \in DOMAIN u /\ u[kout].body = ReceiptEnvelope(e)
<1> DEFINE r    == ReceiptEnvelope(e)
           kin  == RowKey("in", e)
           kout == RowKey("out", r)
           v    == Insert(t, "in", e, "received", w)
           x    == Insert(v, "out", r, "queued", 0)
           u    == Requeue(x, kout)
<1>1. CASE CanInsert(t, "in", e, w) /\ CanInsert(v, "out", r, 0)
  <2>1. /\ e \in Envelopes /\ r \in Envelopes /\ r.kind = "receipt"
        /\ "received" \in States /\ "queued" \in States
        /\ "in" \in {"in", "out"} /\ "out" \in {"in", "out"} /\ 0 \in Nat
    BY EnvelopeType DEF Envelopes, ReceiptEnvelope, States
  <2> HIDE DEF r
  <2>2. /\ TableOK(v) /\ Grows(t, v)
        /\ DOMAIN v \subseteq DOMAIN t \cup {kin}
        /\ \A j \in DOMAIN t : v[j] = t[j]
        /\ kin \in DOMAIN v \ DOMAIN t => v[kin].state = "received"
        /\ kin \in DOMAIN v /\ v[kin].body = e
    BY <1>1, <2>1, InsertRow
  <2> HIDE DEF v
  <2>3. /\ TableOK(x) /\ Grows(v, x)
        /\ DOMAIN x \subseteq DOMAIN v \cup {kout}
        /\ \A j \in DOMAIN v : x[j] = v[j]
        /\ kout \in DOMAIN x \ DOMAIN v => x[kout].state = "queued"
        /\ kout \in DOMAIN x /\ x[kout].body = r
    BY <1>1, <2>1, <2>2, InsertRow
  <2> HIDE DEF x
  <2>4. /\ DOMAIN t \subseteq DOMAIN x
        /\ \A j \in DOMAIN t : x[j] = t[j]
        /\ \A j \in DOMAIN x \ DOMAIN t : x[j].state # "confirmed"
    BY <2>2, <2>3 DEF Grows
  <2>5. ConfirmedIsData(x)
    BY <2>4 DEF ConfirmedIsData
  <2>6. /\ TableOK(u) /\ Grows(x, u) /\ SameRows(x, u)
        /\ SameAttempts(x, u) /\ NoneConfirmed(x, u)
    BY <2>1, <2>3, <2>5, RequeueRow
  <2> HIDE DEF u
  <2>7. Grows(t, u)
    BY <2>2, <2>3, <2>6, GrowsTransitive
  <2>8. NoneConfirmed(t, u) /\ SameAttempts(t, u)
    BY <2>4, <2>6 DEF NoneConfirmed, SameAttempts
  <2>9. ConfirmedIsData(u)
    BY <2>5, <2>6, ConfirmedIsDataKept
  <2>10. /\ DOMAIN x \subseteq DOMAIN t \cup {kin, kout}
         /\ kin \in DOMAIN x /\ x[kin].body = e
    BY <2>2, <2>3 DEF Grows
  <2> HIDE DEF kin, kout
  <2>11. /\ DOMAIN u \subseteq DOMAIN t \cup {kin, kout}
         /\ kin \in DOMAIN u /\ u[kin].body = e
         /\ kout \in DOMAIN u /\ u[kout].body = r
    BY <2>3, <2>10, <2>6 DEF SameRows
  <2>12. AcceptData(t, e, w) = u
    BY <1>1 DEF AcceptData, u, v, x, r, kout
  <2>13. QED
    BY <2>6, <2>7, <2>8, <2>9, <2>11, <2>12 DEF kin, kout, r
<1>2. CASE ~(CanInsert(t, "in", e, w) /\ CanInsert(v, "out", r, 0))
  BY <1>2, Unchanged DEF AcceptData
<1>3. QED
  BY <1>1, <1>2

(* accept_verified, every outcome of it: nothing happens to the rows, or    *)
(* the one row a receipt answers is confirmed, or the inbox row and the     *)
(* receipt owed for it are there together.                                  *)
LEMMA AcceptVerifiedRows ==
  ASSUME NEW t, TableOK(t), ConfirmedIsData(t), NEW n \in Nodes,
         NEW e \in Envelopes, NEW now
  PROVE  LET u    == AcceptVerified(t, n, e, now)
             m    == OriginalOf(e)
             kin  == RowKey("in", e)
             kout == RowKey("out", ReceiptEnvelope(e))
         IN  /\ TableOK(u) /\ Grows(t, u) /\ SameAttempts(t, u)
             /\ ConfirmedIsData(u)
             /\ \/ SameRows(t, u) /\ NoneConfirmed(t, u)
                \/ /\ SameRows(t, u)
                   /\ e.kind = "receipt"
                   /\ RowKey("out", m) \in DOMAIN t
                   /\ t[RowKey("out", m)].body = m
                   /\ \A j \in DOMAIN t \ {RowKey("out", m)} : u[j] = t[j]
                \/ /\ e \in Messages /\ e.destination = n
                   /\ NoneConfirmed(t, u)
                   /\ DOMAIN u \subseteq DOMAIN t \cup {kin, kout}
                   /\ kin \in DOMAIN u /\ u[kin].body = e
                   /\ kout \in DOMAIN u /\ u[kout].body = ReceiptEnvelope(e)
<1> DEFINE u == AcceptVerified(t, n, e, now)
           m == OriginalOf(e)
           k == RowKey("out", m)
<1>1. WireLen[e] \in Nat
  BY CapacityAssumption
<1>2. CASE Decodes(e, now) /\ e.destination = n /\ e.kind = "receipt"
  <2>1. u = AcceptReceipt(t, e, WireLen[e])
    BY <1>2 DEF AcceptVerified
  <2> HIDE DEF u
  <2>2. /\ TableOK(u) /\ Grows(t, u) /\ SameRows(t, u) /\ SameAttempts(t, u)
        /\ \A j \in DOMAIN t \ {k} : u[j] = t[j]
        /\ \/ u = t
           \/ k \in DOMAIN t /\ ReceiptEnvelope(t[k].body) = e
    BY <1>1, <2>1, AcceptReceiptRow
  <2>3. CASE u = t
    BY <2>2, <2>3, Unchanged DEF u
  <2>4. CASE k \in DOMAIN t /\ ReceiptEnvelope(t[k].body) = e
    <3>1. /\ t[k] \in Row /\ k = RowKey(t[k].direction, t[k].body)
          /\ t[k].direction = "out" /\ t[k].body.kind = "data"
      BY <2>4 DEF TableOK, RowKey, OriginalOf
    <3>2. t[k].body = m
      BY <2>4, <3>1, EnvelopeType DEF Row
    <3>3. ConfirmedIsData(u)
      BY <2>2, <3>1 DEF ConfirmedIsData, SameRows
    <3>4. QED
      BY <1>2, <2>2, <2>4, <3>2, <3>3 DEF u
  <2>5. QED
    BY <2>2, <2>3, <2>4
<1>3. CASE Decodes(e, now) /\ e.destination = n /\ e.kind = "data"
  <2>1. u = AcceptData(t, e, WireLen[e]) /\ e \in Messages
    BY <1>3, EnvelopeType DEF AcceptVerified
  <2>2. CASE u = t
    BY <2>2, Unchanged
  <2>3. CASE u # t
    BY <1>1, <1>3, <2>1, <2>3, AcceptDataRows
  <2>4. QED
    BY <2>2, <2>3
<1>4. CASE ~(Decodes(e, now) /\ e.destination = n)
  BY <1>4, Unchanged DEF AcceptVerified
<1>5. e.kind \in {"data", "receipt"}
  BY EnvelopeType DEF Envelope
<1>6. QED
  BY <1>2, <1>3, <1>4, <1>5

LEMMA ExpireRows ==
  ASSUME NEW t, TableOK(t), NEW now
  PROVE  LET u == Expire(t, now)
         IN  /\ TableOK(u) /\ Grows(t, u) /\ SameRows(t, u)
             /\ SameAttempts(t, u) /\ NoneConfirmed(t, u)
<1> DEFINE u == Expire(t, now)
<1>1. DOMAIN u = DOMAIN t
  BY DEF Expire
<1>2. ASSUME NEW k \in DOMAIN t
      PROVE  /\ u[k] \in Row
             /\ u[k].direction = t[k].direction /\ u[k].body = t[k].body
             /\ u[k].attempts = t[k].attempts /\ u[k].attempts >= t[k].attempts
             /\ u[k].state = "confirmed" <=> t[k].state = "confirmed"
  <2>1. t[k] \in Row /\ t[k].attempts >= t[k].attempts
    BY CapacityAssumption DEF TableOK, Row
  <2>2. CASE u[k] = t[k]
    BY <2>1, <2>2
  <2>3. CASE k \in Outstanding(t) /\ u[k] = [t[k] EXCEPT !.state = "expired"]
    BY <2>1, <2>3 DEF Row, States, Outstanding, Settled
  <2>4. QED
    BY <2>2, <2>3 DEF Expire
<1> HIDE DEF u
<1>3. TableOK(u)
  BY <1>1, <1>2 DEF TableOK
<1>4. Grows(t, u)
  BY <1>1, <1>2 DEF Grows
<1>5. SameRows(t, u) /\ SameAttempts(t, u) /\ NoneConfirmed(t, u)
  BY <1>1, <1>2 DEF SameRows, SameAttempts, NoneConfirmed
<1>6. QED
  BY <1>3, <1>4, <1>5 DEF u

LEMMA BeginAttemptRow ==
  ASSUME NEW t, TableOK(t), NEW k, NEW now, CanBegin(t, k, now)
  PROVE  LET u == BeginAttempt(t, k)
         IN  /\ TableOK(u) /\ Grows(t, u) /\ SameRows(t, u) /\ NoneConfirmed(t, u)
             /\ u[k].attempts = t[k].attempts + 1
             /\ \A j \in DOMAIN t \ {k} : u[j] = t[j]
<1> DEFINE u == BeginAttempt(t, k)
           sending == [t[k] EXCEPT !.state = "sending"]
<1>1. /\ k \in DOMAIN t /\ t[k].state # "confirmed" /\ t[k].attempts < MaxAttempts
      /\ t[k] \in Row
  BY DEF CanBegin, Outstanding, Settled, TableOK
<1>2. u = [t EXCEPT ![k] = [sending EXCEPT !.attempts = @ + 1]]
  BY <1>1 DEF BeginAttempt
<1>3. /\ sending \in Row /\ sending.state = "sending"
      /\ sending.direction = t[k].direction /\ sending.body = t[k].body
      /\ sending.attempts = t[k].attempts
  BY <1>1 DEF Row, States
<1>4. t[k].attempts + 1 \in 0..MaxAttempts /\ t[k].attempts + 1 >= t[k].attempts
  BY <1>1, CapacityAssumption DEF Row
<1> HIDE DEF sending
<1>5. /\ Updates(t, u, k)
      /\ u[k].attempts = t[k].attempts + 1 /\ u[k].state = "sending"
  BY <1>1, <1>2, <1>3, <1>4 DEF Updates, Row
<1> HIDE DEF u
<1>6. TableOK(u) /\ Grows(t, u) /\ SameRows(t, u) /\ NoneConfirmed(t, u)
  BY <1>1, <1>5, UpdateRow
<1>7. \A j \in DOMAIN t \ {k} : u[j] = t[j]
  BY <1>5 DEF Updates
<1>8. QED
  BY <1>5, <1>6, <1>7 DEF u

LEMMA HandoffRow ==
  ASSUME NEW t, TableOK(t), NEW k
  PROVE  LET u == Handoff(t, k)
         IN  /\ TableOK(u) /\ Grows(t, u) /\ SameRows(t, u)
             /\ SameAttempts(t, u) /\ NoneConfirmed(t, u)
<1>1. "handed_off" \in States
  BY DEF States
<1>2. CASE k \in DOMAIN t /\ t[k].state = "sending"
  BY <1>1, <1>2, SetStateRow DEF Handoff
<1>3. CASE ~(k \in DOMAIN t /\ t[k].state = "sending")
  BY <1>3, Unchanged DEF Handoff
<1>4. QED
  BY <1>2, <1>3

-----------------------------------------------------------------------------
(* What every transaction that takes `now` for the time does about expiry: *)
(* a row it expires is past its deadline, and one it takes back is not.    *)
ExpiryMoves(t, u, now) ==
  \A k \in DOMAIN u :
    /\ u[k].state = "expired" =>
         \/ k \in DOMAIN t /\ t[k].state = "expired"
         \/ u[k].body.expires <= now
    /\ k \in DOMAIN t /\ t[k].state = "expired" /\ u[k].state # "expired" =>
         now < u[k].body.expires

(* Transactions that leave every row of t as it is and expire none. *)
LEMMA AddedRowsExpireNone ==
  ASSUME NEW t, NEW u, NEW now, \A j \in DOMAIN t : u[j] = t[j],
         \A j \in DOMAIN u \ DOMAIN t : u[j].state # "expired"
  PROVE  ExpiryMoves(t, u, now)
BY DEF ExpiryMoves

LEMMA QueueExpiry ==
  ASSUME NEW t, TableOK(t), NEW n \in Nodes, NEW m \in Messages, NEW now
  PROVE  ExpiryMoves(t, Queue(t, n, m, now), now)
<1>1. PICK u : u = Queue(t, n, m, now)
  OBVIOUS
<1>2. /\ \A j \in DOMAIN t : u[j] = t[j]
      /\ DOMAIN u # DOMAIN t =>
           /\ DOMAIN u = DOMAIN t \cup {RowKey("out", m)}
           /\ u[RowKey("out", m)].state = "queued"
  BY <1>1, QueueRow
<1>3. QED
  BY <1>1, <1>2, AddedRowsExpireNone

LEMMA AcceptReceiptExpiry ==
  ASSUME NEW t, TableOK(t), NEW e \in Envelopes, NEW w \in Nat, NEW now,
         Decodes(e, now)
  PROVE  ExpiryMoves(t, AcceptReceipt(t, e, w), now)
<1>1. PICK k : k = RowKey("out", OriginalOf(e))
  OBVIOUS
<1>2. PICK u : u = AcceptReceipt(t, e, w)
  OBVIOUS
<1>3. CASE MatchesObligation(t, e) /\ Used(t) + w <= MaxBytes + t[k].wire
  <2>1. k \in DOMAIN t /\ ReceiptEnvelope(t[k].body) = e
    BY <1>1, <1>3 DEF MatchesObligation
  <2>2. t[k] \in Row
    BY <2>1 DEF TableOK
  <2>3. u = [t EXCEPT ![k] = [[t[k] EXCEPT !.state = "confirmed"] EXCEPT !.wire = w]]
    BY <1>1, <1>2, <1>3 DEF AcceptReceipt
  <2>4. /\ DOMAIN u = DOMAIN t
        /\ \A j \in DOMAIN t \ {k} : u[j] = t[j]
        /\ u[k].body = t[k].body /\ u[k].state = "confirmed"
    BY <2>1, <2>2, <2>3 DEF Row
  <2>5. now < u[k].body.expires
    BY <2>1, <2>4 DEF Decodes, ReceiptEnvelope
  <2>6. QED
    BY <1>2, <2>4, <2>5 DEF ExpiryMoves
<1>4. CASE ~(MatchesObligation(t, e) /\ Used(t) + w <= MaxBytes + t[k].wire)
  BY <1>1, <1>4 DEF AcceptReceipt, ExpiryMoves
<1>5. QED
  BY <1>3, <1>4

LEMMA AcceptDataExpiry ==
  ASSUME NEW t, TableOK(t), NEW e \in Messages, NEW w \in Nat, NEW now,
         Decodes(e, now)
  PROVE  ExpiryMoves(t, AcceptData(t, e, w), now)
<1> DEFINE r    == ReceiptEnvelope(e)
           kout == RowKey("out", r)
           v    == Insert(t, "in", e, "received", w)
           x    == Insert(v, "out", r, "queued", 0)
           u    == Requeue(x, kout)
<1>1. CASE CanInsert(t, "in", e, w) /\ CanInsert(v, "out", r, 0)
  <2>1. /\ e \in Envelopes /\ r \in Envelopes /\ r.expires = e.expires
        /\ "received" \in States /\ "queued" \in States
        /\ "in" \in {"in", "out"} /\ "out" \in {"in", "out"} /\ 0 \in Nat
    BY EnvelopeType DEF Envelopes, ReceiptEnvelope, States
  <2> HIDE DEF r
  <2>2. /\ TableOK(v) /\ DOMAIN t \subseteq DOMAIN v
        /\ \A j \in DOMAIN t : v[j] = t[j]
        /\ \A j \in DOMAIN v \ DOMAIN t : v[j].state # "expired"
    BY <2>1, InsertRow DEF Grows
  <2> HIDE DEF v
  <2>3. /\ TableOK(x) /\ Grows(v, x)
        /\ DOMAIN x \subseteq DOMAIN v \cup {kout}
        /\ \A j \in DOMAIN v : x[j] = v[j]
        /\ kout \in DOMAIN x \ DOMAIN v => x[kout].state = "queued"
        /\ kout \in DOMAIN x /\ x[kout].body = r
    BY <1>1, <2>1, <2>2, InsertRow
  <2> HIDE DEF x, kout
  <2>4. /\ DOMAIN t \subseteq DOMAIN x
        /\ \A j \in DOMAIN t : x[j] = t[j]
        /\ \A j \in DOMAIN x \ DOMAIN t : x[j].state # "expired"
    BY <2>2, <2>3 DEF Grows
  <2>5. /\ x[kout] \in Row
        /\ now < x[kout].body.expires
    BY <2>1, <2>3 DEF TableOK, Decodes
  <2>6. /\ DOMAIN u = DOMAIN x
        /\ \A j \in DOMAIN x \ {kout} : u[j] = x[j]
        /\ u[kout].body = x[kout].body
        /\ u[kout].state = "queued" \/ u[kout] = x[kout]
    BY <2>3, <2>5 DEF Requeue, SetState, Row
  <2> HIDE DEF u
  <2>7. ExpiryMoves(t, u, now)
    BY <2>3, <2>4, <2>5, <2>6 DEF ExpiryMoves
  <2>8. AcceptData(t, e, w) = u
    BY <1>1 DEF AcceptData, u, v, x, r, kout
  <2>9. QED
    BY <2>7, <2>8
<1>2. CASE ~(CanInsert(t, "in", e, w) /\ CanInsert(v, "out", r, 0))
  BY <1>2 DEF AcceptData, ExpiryMoves
<1>3. QED
  BY <1>1, <1>2

LEMMA AcceptVerifiedExpiry ==
  ASSUME NEW t, TableOK(t), NEW n \in Nodes, NEW e \in Envelopes, NEW now
  PROVE  ExpiryMoves(t, AcceptVerified(t, n, e, now), now)
<1>1. WireLen[e] \in Nat
  BY CapacityAssumption
<1>2. CASE Decodes(e, now) /\ e.destination = n /\ e.kind = "receipt"
  BY <1>1, <1>2, AcceptReceiptExpiry DEF AcceptVerified
<1>3. CASE Decodes(e, now) /\ e.destination = n /\ e.kind # "receipt"
  <2>1. e \in Messages
    BY <1>3, EnvelopeType DEF Envelope
  <2>2. QED
    BY <1>1, <1>3, <2>1, AcceptDataExpiry DEF AcceptVerified
<1>4. CASE ~(Decodes(e, now) /\ e.destination = n)
  BY <1>4 DEF AcceptVerified, ExpiryMoves
<1>5. QED
  BY <1>2, <1>3, <1>4

LEMMA ExpireExpiry ==
  ASSUME NEW t, TableOK(t), NEW now
  PROVE  ExpiryMoves(t, Expire(t, now), now)
<1>1. PICK u : u = Expire(t, now)
  OBVIOUS
<1>2. DOMAIN u = DOMAIN t
  BY <1>1 DEF Expire
<1>3. ASSUME NEW k \in DOMAIN t
      PROVE  \/ u[k] = t[k]
             \/ /\ u[k].state = "expired" /\ u[k].body = t[k].body
                /\ t[k].body.expires <= now
  <2>1. t[k] \in Row
    BY DEF TableOK
  <2>2. QED
    BY <1>1, <2>1 DEF Expire, Row
<1>4. QED
  BY <1>1, <1>2, <1>3 DEF ExpiryMoves

LEMMA BeginAttemptExpiry ==
  ASSUME NEW t, TableOK(t), NEW k, NEW now, CanBegin(t, k, now)
  PROVE  ExpiryMoves(t, BeginAttempt(t, k), now)
<1>1. PICK u : u = BeginAttempt(t, k)
  OBVIOUS
<1>2. k \in DOMAIN t /\ t[k].state # "expired" /\ t[k] \in Row
  BY DEF CanBegin, Outstanding, Settled, TableOK
<1>3. u = [t EXCEPT ![k] = [[t[k] EXCEPT !.state = "sending"]
                              EXCEPT !.attempts = @ + 1]]
  BY <1>1, <1>2 DEF BeginAttempt
<1>4. /\ DOMAIN u = DOMAIN t
      /\ \A j \in DOMAIN t \ {k} : u[j] = t[j]
      /\ u[k].state = "sending"
  BY <1>2, <1>3 DEF Row
<1>5. QED
  BY <1>1, <1>2, <1>4 DEF ExpiryMoves

LEMMA HandoffExpiry ==
  ASSUME NEW t, TableOK(t), NEW k, NEW now
  PROVE  ExpiryMoves(t, Handoff(t, k), now)
<1>1. PICK u : u = Handoff(t, k)
  OBVIOUS
<1>2. \/ u = t
      \/ /\ k \in DOMAIN t /\ t[k].state = "sending" /\ t[k] \in Row
         /\ u = [t EXCEPT ![k] = [t[k] EXCEPT !.state = "handed_off"]]
  BY <1>1 DEF Handoff, SetState, TableOK
<1>3. \/ u = t
      \/ /\ DOMAIN u = DOMAIN t /\ t[k].state = "sending"
         /\ \A j \in DOMAIN t \ {k} : u[j] = t[j]
         /\ u[k].state = "handed_off"
  BY <1>2 DEF Row
<1>4. QED
  BY <1>1, <1>3 DEF ExpiryMoves

-----------------------------------------------------------------------------
(* The quota: no operation takes a mailbox past either limit.              *)
Bounded(t) ==
  /\ IsFiniteSet(DOMAIN t) /\ Cardinality(DOMAIN t) <= MaxRows
  /\ Used(t) <= MaxBytes

Weights(t) == [k \in DOMAIN t |-> BodyLen[t[k].body] + t[k].wire]

LEMMA UsedIs ==
  ASSUME NEW t
  PROVE  Used(t) = SumOf(Weights(t))
BY DEF Used, SumOf, Weights

LEMMA WeightsTyped ==
  ASSUME NEW t, TableOK(t)
  PROVE  Weights(t) \in [DOMAIN t -> Nat]
<1>1. ASSUME NEW k \in DOMAIN t
      PROVE  BodyLen[t[k].body] + t[k].wire \in Nat
  <2>1. t[k].body \in Envelopes /\ t[k].wire \in Nat
    BY DEF TableOK, Row
  <2>2. BodyLen[t[k].body] \in Nat
    BY <2>1, CapacityAssumption
  <2>3. QED
    BY <2>1, <2>2
<1>2. QED
  BY <1>1 DEF Weights

(* An UPDATE that leaves bodies and packets as they are. *)
SameContents(t, u) ==
  /\ DOMAIN u = DOMAIN t
  /\ \A k \in DOMAIN t : u[k].body = t[k].body /\ u[k].wire = t[k].wire

LEMMA SameContentsBounded ==
  ASSUME NEW t, NEW u, SameContents(t, u), Bounded(t)
  PROVE  Bounded(u)
<1>1. Weights(u) = Weights(t)
  BY DEF Weights, SameContents
<1>2. Used(u) = Used(t)
  BY <1>1, UsedIs
<1>3. QED
  BY <1>2 DEF Bounded, SameContents

LEMMA InsertBounded ==
  ASSUME NEW t, TableOK(t), Bounded(t), NEW direction \in {"in", "out"},
         NEW e \in Envelopes, NEW state \in States, NEW w \in Nat
  PROVE  Bounded(Insert(t, direction, e, state, w))
<1>1. PICK k : k = RowKey(direction, e)
  OBVIOUS
<1>2. PICK u : u = Insert(t, direction, e, state, w)
  OBVIOUS
<1>3. CASE CanInsert(t, direction, e, w) /\ k \notin DOMAIN t
  <2>1. /\ DOMAIN u = DOMAIN t \cup {k}
        /\ \A j \in DOMAIN t : u[j] = t[j]
        /\ u[k].body = e /\ u[k].wire = w
    BY <1>1, <1>2, <1>3 DEF Insert, WithRow
  <2>2. /\ Cardinality(DOMAIN t) < MaxRows
        /\ Used(t) + BodyLen[e] + w <= MaxBytes
    BY <1>1, <1>3 DEF CanInsert
  <2>3. IsFiniteSet(DOMAIN t)
    BY DEF Bounded
  <2>4. /\ IsFiniteSet(DOMAIN u)
        /\ Cardinality(DOMAIN u) = Cardinality(DOMAIN t) + 1
        /\ Cardinality(DOMAIN t) \in Nat
    BY <1>3, <2>1, <2>3, FS_AddElement, FS_CardinalityType
  <2>5. TableOK(u)
    BY <1>2, InsertRow
  <2>6. PICK f, g : f = Weights(t) /\ g = Weights(u)
    OBVIOUS
  <2>7. f \in [DOMAIN t -> Nat] /\ g \in [DOMAIN t \cup {k} -> Nat]
    BY <2>1, <2>5, <2>6, WeightsTyped
  <2>8. (\A j \in DOMAIN t : g[j] = f[j]) /\ g[k] = BodyLen[e] + w
    BY <2>1, <2>6 DEF Weights
  <2>9. SumOf(f) \in Nat /\ SumOf(g) = SumOf(f) + g[k]
    BY <1>3, <2>3, <2>7, <2>8, SumOfMore
  <2>10. PICK len \in Nat : len = BodyLen[e]
    BY CapacityAssumption
  <2>11. Used(u) = Used(t) + len + w /\ Used(t) \in Nat
    BY <2>6, <2>8, <2>9, <2>10, UsedIs
  <2>12. Used(u) <= MaxBytes
    BY <2>2, <2>10, <2>11
  <2>13. QED
    BY <1>2, <2>2, <2>4, <2>12, CapacityAssumption DEF Bounded
<1>4. CASE ~(CanInsert(t, direction, e, w) /\ k \notin DOMAIN t)
  BY <1>1, <1>4 DEF Insert
<1>5. QED
  BY <1>3, <1>4

LEMMA AcceptReceiptBounded ==
  ASSUME NEW t, TableOK(t), Bounded(t), NEW e \in Envelopes, NEW w \in Nat
  PROVE  Bounded(AcceptReceipt(t, e, w))
<1>1. PICK k : k = RowKey("out", OriginalOf(e))
  OBVIOUS
<1>2. PICK u : u = AcceptReceipt(t, e, w)
  OBVIOUS
<1>3. CASE MatchesObligation(t, e) /\ Used(t) + w <= MaxBytes + t[k].wire
  <2>1. k \in DOMAIN t
    BY <1>1, <1>3 DEF MatchesObligation
  <2>2. t[k] \in Row /\ IsFiniteSet(DOMAIN t)
    BY <2>1 DEF TableOK, Bounded
  <2>3. u = [t EXCEPT ![k] = [[t[k] EXCEPT !.state = "confirmed"] EXCEPT !.wire = w]]
    BY <1>1, <1>2, <1>3 DEF AcceptReceipt
  <2>4. /\ DOMAIN u = DOMAIN t
        /\ \A j \in DOMAIN t \ {k} : u[j] = t[j]
        /\ u[k].body = t[k].body /\ u[k].wire = w
    BY <2>1, <2>2, <2>3 DEF Row
  <2>5. TableOK(u)
    BY <1>2, AcceptReceiptRow
  <2>6. PICK f, g : f = Weights(t) /\ g = Weights(u)
    OBVIOUS
  <2>7. f \in [DOMAIN t -> Nat] /\ g \in [DOMAIN t -> Nat]
    BY <2>4, <2>5, <2>6, WeightsTyped
  <2>8. /\ \A j \in DOMAIN t \ {k} : g[j] = f[j]
        /\ f[k] = BodyLen[t[k].body] + t[k].wire
        /\ g[k] = BodyLen[t[k].body] + w
    BY <2>1, <2>4, <2>6 DEF Weights
  <2>9. /\ SumOf(f) \in Nat /\ SumOf(g) \in Nat
        /\ SumOf(g) + f[k] = SumOf(f) + g[k]
    BY <2>1, <2>2, <2>7, <2>8, SumOfChanged
  <2>10. PICK len, old : /\ len \in Nat /\ old \in Nat
                         /\ len = BodyLen[t[k].body] /\ old = t[k].wire
    BY <2>2, CapacityAssumption DEF Row
  <2>11. PICK before, after : /\ before \in Nat /\ after \in Nat
                              /\ before = Used(t) /\ after = Used(u)
                              /\ after + (len + old) = before + (len + w)
    BY <2>6, <2>8, <2>9, <2>10, UsedIs
  <2>12. before + w <= MaxBytes + old
    BY <1>3, <2>10, <2>11
  <2>13. after <= MaxBytes
    BY <2>10, <2>11, <2>12, CapacityAssumption
  <2>14. QED
    BY <1>2, <2>4, <2>11, <2>13 DEF Bounded
<1>4. CASE ~(MatchesObligation(t, e) /\ Used(t) + w <= MaxBytes + t[k].wire)
  BY <1>1, <1>4 DEF AcceptReceipt
<1>5. QED
  BY <1>3, <1>4

LEMMA SetStateBounded ==
  ASSUME NEW t, TableOK(t), Bounded(t), NEW k \in DOMAIN t, NEW state
  PROVE  Bounded(SetState(t, k, state))
<1>1. t[k] \in Row
  BY DEF TableOK
<1>2. SameContents(t, SetState(t, k, state))
  BY <1>1 DEF SameContents, SetState, Row
<1>3. QED
  BY <1>2, SameContentsBounded

LEMMA RequeueBounded ==
  ASSUME NEW t, TableOK(t), Bounded(t), NEW k
  PROVE  Bounded(Requeue(t, k))
BY SetStateBounded DEF Requeue

LEMMA AcceptDataBounded ==
  ASSUME NEW t, TableOK(t), Bounded(t), NEW e \in Messages, NEW w \in Nat
  PROVE  Bounded(AcceptData(t, e, w))
<1>1. PICK r, t1, t2 : /\ r = ReceiptEnvelope(e)
                       /\ t1 = Insert(t, "in", e, "received", w)
                       /\ t2 = Insert(t1, "out", r, "queued", 0)
  OBVIOUS
<1>2. /\ e \in Envelopes /\ r \in Envelopes
      /\ "received" \in States /\ "queued" \in States
      /\ "in" \in {"in", "out"} /\ "out" \in {"in", "out"} /\ 0 \in Nat
  BY <1>1, EnvelopeType DEF Envelopes, States
<1>3. TableOK(t1) /\ Bounded(t1)
  BY <1>1, <1>2, InsertRow, InsertBounded
<1>4. TableOK(t2) /\ Bounded(t2)
  BY <1>1, <1>2, <1>3, InsertRow, InsertBounded
<1>5. AcceptData(t, e, w) = t \/ AcceptData(t, e, w) = Requeue(t2, RowKey("out", r))
  BY <1>1 DEF AcceptData
<1>6. QED
  BY <1>4, <1>5, RequeueBounded

LEMMA AcceptVerifiedBounded ==
  ASSUME NEW t, TableOK(t), Bounded(t), NEW n, NEW e \in Envelopes, NEW now
  PROVE  Bounded(AcceptVerified(t, n, e, now))
<1>1. PICK w \in Nat : w = WireLen[e]
  BY CapacityAssumption
<1>2. CASE e.kind = "receipt"
  BY <1>1, <1>2, AcceptReceiptBounded DEF AcceptVerified
<1>3. CASE e.kind # "receipt"
  <2>1. e \in Messages
    BY <1>3, EnvelopeType DEF Envelope
  <2>2. QED
    BY <1>1, <1>3, <2>1, AcceptDataBounded DEF AcceptVerified
<1>4. QED
  BY <1>2, <1>3

LEMMA QueueBounded ==
  ASSUME NEW t, TableOK(t), Bounded(t), NEW n, NEW m \in Messages, NEW now
  PROVE  Bounded(Queue(t, n, m, now))
<1>1. m \in Envelopes /\ "queued" \in States /\ "out" \in {"in", "out"} /\ 0 \in Nat
  BY DEF Envelopes, States
<1>2. QED
  BY <1>1, InsertBounded DEF Queue

LEMMA ExpireBounded ==
  ASSUME NEW t, TableOK(t), Bounded(t), NEW now
  PROVE  Bounded(Expire(t, now))
<1>1. PICK u : u = Expire(t, now)
  OBVIOUS
<1>2. ASSUME NEW k \in DOMAIN t
      PROVE  u[k].body = t[k].body /\ u[k].wire = t[k].wire
  <2>1. t[k] \in Row
    BY DEF TableOK
  <2>2. u[k] = t[k] \/ u[k] = [t[k] EXCEPT !.state = "expired"]
    BY <1>1 DEF Expire
  <2>3. QED
    BY <2>1, <2>2 DEF Row
<1>3. SameContents(t, u)
  BY <1>1, <1>2 DEF SameContents, Expire
<1>4. QED
  BY <1>1, <1>3, SameContentsBounded

LEMMA BeginAttemptBounded ==
  ASSUME NEW t, TableOK(t), Bounded(t), NEW k \in DOMAIN t
  PROVE  Bounded(BeginAttempt(t, k))
<1>1. t[k] \in Row
  BY DEF TableOK
<1>2. SameContents(t, BeginAttempt(t, k))
  BY <1>1 DEF SameContents, BeginAttempt, Row
<1>3. QED
  BY <1>2, SameContentsBounded

LEMMA HandoffBounded ==
  ASSUME NEW t, TableOK(t), Bounded(t), NEW k
  PROVE  Bounded(Handoff(t, k))
BY SetStateBounded DEF Handoff
=============================================================================
