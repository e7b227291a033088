------------------------ MODULE DirectDeliveryProofs ------------------------
(***************************************************************************)
(* Proofs about DirectDelivery, for every network, mailbox limit, retry    *)
(* budget and clock.  Since no operation loses a row or changes a body     *)
(* (MailboxProofs), what the invariant says of rows at two nodes can only  *)
(* be disturbed by a row that is new or newly confirmed.  The invariant    *)
(* follows a confirmation back to its cause: a confirmed row to an inbox   *)
(* row, a packet to the row it was sent from, a receipt row to the inbox   *)
(* row it was written with, an inbox row to the row its sender keeps.      *)
(***************************************************************************)
EXTENDS DirectDelivery, MailboxProofs

(* Node n keeps e as a row of that direction. *)
Holds(n, direction, e) ==
  /\ RowKey(direction, e) \in DOMAIN table[n]
  /\ table[n][RowKey(direction, e)].body = e

(* What each row of a mailbox owes its presence or its state to. *)
RowJustified(n, row) ==
  /\ row.direction = "out" => row.body.source = n
  /\ row.direction = "in" => row.body.destination = n /\ row.body.kind = "data"
  /\ row.direction = "in" => /\ Holds(row.body.source, "out", row.body)
                             /\ Holds(n, "out", ReceiptEnvelope(row.body))
  /\ row.body.kind = "receipt" => Holds(n, "in", OriginalOf(row.body))
  /\ row.state = "confirmed" =>
       /\ row.direction = "out" /\ row.body.kind = "data"
       /\ Holds(row.body.destination, "in", row.body)

RowsJustified ==
  \A n \in Nodes : \A k \in DOMAIN table[n] : RowJustified(n, table[n][k])

WireJustified ==
  \A e \in Envelopes : wire[e] > 0 => Holds(e.source, "out", e)

(* The attempt of the item a pump is about to transmit is already spent. *)
AttemptsSpent ==
  /\ \A n \in Nodes : \A k \in current[n] :
       /\ k \in DOMAIN table[n] /\ table[n][k].attempts >= 1
       /\ table[n][k].direction = "out"
  /\ \A e \in Envelopes :
       wire[e] > 0 =>
         LET k == RowKey("out", e) IN
         /\ wire[e] <= table[e.source][k].attempts
         /\ k \in current[e.source] => wire[e] < table[e.source][k].attempts

IInv ==
  TypeOK /\ RowsJustified /\ WireJustified /\ AttemptsSpent /\ OutcomeIsLatest

-----------------------------------------------------------------------------
LEMMA HoldsKept ==
  ASSUME NEW n \in Nodes, NEW direction, NEW e, Holds(n, direction, e),
         Grows(table[n], table'[n])
  PROVE  Holds(n, direction, e)'
BY DEF Holds, Grows

LEMMA ConfirmedIsDataHere ==
  ASSUME RowsJustified, NEW n \in Nodes
  PROVE  ConfirmedIsData(table[n])
BY DEF RowsJustified, RowJustified, ConfirmedIsData

LEMMA BodiesTyped ==
  ASSUME NEW n \in Nodes, TypeOK, NEW k \in DOMAIN table[n]
  PROVE  /\ table[n][k].body \in Envelopes
         /\ k = RowKey(table[n][k].direction, table[n][k].body)
         /\ table[n][k].body.source \in Nodes
         /\ table[n][k].body.destination \in Nodes
         /\ table[n][k].attempts \in Nat
BY EnvelopeType, CapacityAssumption DEF TypeOK, TableOK, Row, Envelope

(* A row that was there before the step keeps its justification, unless it *)
(* has just been confirmed.                                                *)
LEMMA OldRowJustified ==
  ASSUME TypeOK, RowsJustified, \A n \in Nodes : Grows(table[n], table'[n]),
         NEW n \in Nodes, NEW k \in DOMAIN table[n],
         table'[n][k].state = "confirmed" => table[n][k].state = "confirmed"
  PROVE  RowJustified(n, table[n][k])'
<1> PICK row, e : row = table[n][k] /\ e = row.body
  OBVIOUS
<1>1. /\ k \in DOMAIN table'[n]
      /\ table'[n][k].direction = row.direction /\ table'[n][k].body = e
  BY DEF Grows
<1>2. RowJustified(n, row)
  BY DEF RowsJustified
<1>3. e.source \in Nodes /\ e.destination \in Nodes
  BY BodiesTyped
<1>4. row.direction = "in" => /\ Holds(e.source, "out", e)'
                              /\ Holds(n, "out", ReceiptEnvelope(e))'
  BY <1>2, <1>3, HoldsKept DEF RowJustified
<1>5. e.kind = "receipt" => Holds(n, "in", OriginalOf(e))'
  BY <1>2, HoldsKept DEF RowJustified
<1>6. row.state = "confirmed" => Holds(e.destination, "in", e)'
  BY <1>2, <1>3, HoldsKept DEF RowJustified
<1>7. QED
  BY <1>1, <1>2, <1>4, <1>5, <1>6 DEF RowJustified

-----------------------------------------------------------------------------
(* Every step: the tables stay well typed and lose nothing. *)
TablesGrow ==
  /\ DOMAIN table' = Nodes
  /\ \A n \in Nodes : TableOK(table'[n]) /\ Grows(table[n], table'[n])

(* Most steps: no row is new, newly confirmed or attempted. *)
TablesQuiet ==
  \A n \in Nodes : /\ SameRows(table[n], table'[n])
                   /\ NoneConfirmed(table[n], table'[n])
                   /\ SameAttempts(table[n], table'[n])

LEMMA TableStep ==
  ASSUME TypeOK, NEW n \in Nodes, NEW u, TableOK(u), Grows(table[n], u),
         table' = [table EXCEPT ![n] = u]
  PROVE  /\ TablesGrow
         /\ table'[n] = u
         /\ \A p \in Nodes \ {n} : table'[p] = table[p]
<1>1. /\ DOMAIN table' = Nodes
      /\ table'[n] = u
      /\ \A p \in Nodes \ {n} : table'[p] = table[p]
  BY DEF TypeOK
<1>2. \A p \in Nodes : TableOK(table[p]) /\ Grows(table[p], table[p])
  BY Unchanged DEF TypeOK
<1>3. QED
  BY <1>1, <1>2 DEF TablesGrow

LEMMA QuietTableStep ==
  ASSUME TypeOK, NEW n \in Nodes, NEW u, TableOK(u), Grows(table[n], u),
         SameRows(table[n], u), NoneConfirmed(table[n], u),
         SameAttempts(table[n], u), table' = [table EXCEPT ![n] = u]
  PROVE  TablesGrow /\ TablesQuiet
<1>1. /\ TablesGrow
      /\ table'[n] = u
      /\ \A p \in Nodes \ {n} : table'[p] = table[p]
  BY TableStep
<1>2. \A p \in Nodes : /\ SameRows(table[p], table[p])
                       /\ NoneConfirmed(table[p], table[p])
                       /\ SameAttempts(table[p], table[p])
  BY Unchanged DEF TypeOK
<1>3. QED
  BY <1>1, <1>2 DEF TablesQuiet

LEMMA TablesUnchanged ==
  ASSUME TypeOK, table' = table
  PROVE  TablesGrow /\ TablesQuiet
BY Unchanged DEF TypeOK, TablesGrow, TablesQuiet

LEMMA WireKept ==
  ASSUME TypeOK, WireJustified, TablesGrow, wire' = wire
  PROVE  WireJustified'
<1> SUFFICES ASSUME NEW e \in Envelopes, wire[e] > 0
             PROVE  Holds(e.source, "out", e)'
  BY DEF WireJustified
<1>1. e.source \in Nodes
  BY EnvelopeType DEF Envelope
<1>2. Holds(e.source, "out", e)
  BY DEF WireJustified
<1>3. QED
  BY <1>1, <1>2, HoldsKept DEF TablesGrow

LEMMA AttemptsKept ==
  ASSUME TypeOK, WireJustified, AttemptsSpent, TablesGrow, wire' = wire,
         \A n \in Nodes : current'[n] \subseteq current[n]
  PROVE  AttemptsSpent'
<1>1. ASSUME NEW n \in Nodes, NEW k \in DOMAIN table[n]
      PROVE  /\ k \in DOMAIN table'[n]
             /\ table'[n][k].direction = table[n][k].direction
             /\ table[n][k].attempts \in Nat /\ table'[n][k].attempts \in Nat
             /\ table'[n][k].attempts >= table[n][k].attempts
  BY CapacityAssumption DEF TypeOK, TablesGrow, Grows, TableOK, Row
<1>2. ASSUME NEW n \in Nodes, NEW k \in current'[n]
      PROVE  /\ k \in DOMAIN table'[n] /\ table'[n][k].attempts >= 1
             /\ table'[n][k].direction = "out"
  BY <1>1 DEF AttemptsSpent
<1>3. ASSUME NEW e \in Envelopes, wire[e] > 0, NEW k, k = RowKey("out", e)
      PROVE  /\ wire[e] <= table'[e.source][k].attempts
             /\ k \in current'[e.source] => wire[e] < table'[e.source][k].attempts
  <2>1. e.source \in Nodes /\ wire[e] \in Nat
    BY EnvelopeType DEF Envelope, TypeOK
  <2>2. k \in DOMAIN table[e.source]
    BY <1>3 DEF WireJustified, Holds
  <2>3. /\ wire[e] <= table[e.source][k].attempts
        /\ k \in current[e.source] => wire[e] < table[e.source][k].attempts
    BY <1>3 DEF AttemptsSpent
  <2>4. QED
    BY <1>1, <2>1, <2>2, <2>3
<1>4. QED
  BY <1>2, <1>3 DEF AttemptsSpent

LEMMA OutcomeKept ==
  ASSUME OutcomeIsLatest, TablesGrow,
         \A n \in Nodes : SameAttempts(table[n], table'[n]),
         \A n \in Nodes : /\ router'[n] \subseteq router[n]
                          /\ \A o \in router'[n] : o.key \in active'[n]
  PROVE  OutcomeIsLatest'
BY DEF OutcomeIsLatest, TablesGrow, Grows, SameAttempts

-----------------------------------------------------------------------------
(* The three sets of the abstract specification, read off the tables: a    *)
(* message is where its key says it is, so each set is one Holds.          *)
Acknowledged(m) ==
  /\ Holds(m.source, "out", m)
  /\ table[m.source][RowKey("out", m)].state = "confirmed"

SetsReadOff ==
  /\ Submitted = {m \in Messages : Holds(m.source, "out", m)}
  /\ Received = {m \in Messages : Holds(m.destination, "in", m)}
  /\ Confirmed = {m \in Messages : Acknowledged(m)}

LEMMA ReadOff == IInv => SetsReadOff
<1> SUFFICES ASSUME IInv PROVE SetsReadOff
  OBVIOUS
<1> USE DEF IInv
<1>1. ASSUME NEW direction \in {"in", "out"}, NEW states \in SUBSET States,
             NEW m \in BodiesOf(direction, states)
      PROVE  /\ m \in Messages
             /\ direction = "out" =>
                  /\ Holds(m.source, "out", m)
                  /\ table[m.source][RowKey("out", m)].state \in states
             /\ direction = "in" => Holds(m.destination, "in", m)
  <2>1. PICK n \in Nodes : \E k \in DOMAIN table[n] :
          /\ m = table[n][k].body /\ m.kind = "data"
          /\ table[n][k].direction = direction /\ table[n][k].state \in states
    BY <1>1 DEF BodiesOf, Rows
  <2>2. PICK k \in DOMAIN table[n] :
          /\ m = table[n][k].body /\ m.kind = "data"
          /\ table[n][k].direction = direction /\ table[n][k].state \in states
    BY <2>1
  <2>3. m \in Messages /\ k = RowKey(direction, m)
    BY <2>2, BodiesTyped, EnvelopeType
  <2>4. /\ direction = "out" => m.source = n
        /\ direction = "in" => m.destination = n
    BY <2>2 DEF RowsJustified, RowJustified
  <2>5. QED
    BY <2>2, <2>3, <2>4 DEF Holds
<1>2. ASSUME NEW n \in Nodes, NEW direction \in {"in", "out"}, NEW m \in Messages,
             Holds(n, direction, m), NEW states \in SUBSET States,
             table[n][RowKey(direction, m)].state \in states
      PROVE  m \in BodiesOf(direction, states)
  <2>1. PICK row : row = table[n][RowKey(direction, m)]
    OBVIOUS
  <2>2. row \in Rows /\ row.body = m
    BY <1>2, <2>1 DEF Holds, Rows
  <2>3. RowKey(direction, m) = RowKey(row.direction, row.body)
    BY <1>2, <2>1 DEF Holds, TypeOK, TableOK
  <2>4. row.direction = direction
    BY <2>3 DEF RowKey
  <2>5. m.kind = "data"
    BY MessagesAssumption
  <2>6. QED
    BY <1>2, <2>1, <2>2, <2>4, <2>5 DEF BodiesOf
<1>3. ASSUME NEW n \in Nodes, NEW direction, NEW m, Holds(n, direction, m)
      PROVE  table[n][RowKey(direction, m)].state \in States
  BY <1>3 DEF Holds, TypeOK, TableOK, Row
<1>4. \A m \in Messages : m.source \in Nodes /\ m.destination \in Nodes
  BY MessagesAssumption DEF Envelope
<1>5. Submitted = {m \in Messages : Holds(m.source, "out", m)}
  BY <1>1, <1>2, <1>3, <1>4 DEF Submitted
<1>6. Received = {m \in Messages : Holds(m.destination, "in", m)}
  BY <1>1, <1>2, <1>3, <1>4 DEF Received
<1>7. {"confirmed"} \in SUBSET States
  BY DEF States
<1>8. Confirmed = {m \in Messages : Acknowledged(m)}
  BY <1>1, <1>2, <1>4, <1>7 DEF Confirmed, Acknowledged
<1>9. QED
  BY <1>5, <1>6, <1>8 DEF SetsReadOff

LEMMA ReadOffNext == IInv' => SetsReadOff'
BY ReadOff, PTL

(* What every step is to Delivery: a step of it or nothing. *)
AbstractStep == [D!DNext]_(D!dvars)

LEMMA SameRowsAbstract ==
  ASSUME IInv, IInv', TablesGrow,
         \A n \in Nodes : /\ SameRows(table[n], table'[n])
                          /\ NoneConfirmed(table[n], table'[n])
  PROVE  AbstractStep
<1>1. SetsReadOff /\ SetsReadOff'
  BY ReadOff, ReadOffNext
<1>2. ASSUME NEW n \in Nodes, NEW direction, NEW m
      PROVE  Holds(n, direction, m)' <=> Holds(n, direction, m)
  BY DEF Holds, SameRows
<1>3. ASSUME NEW n \in Nodes, NEW k \in DOMAIN table[n]
      PROVE  table'[n][k].state = "confirmed" <=> table[n][k].state = "confirmed"
  BY DEF TablesGrow, Grows, NoneConfirmed
<1>4. \A m \in Messages : m.source \in Nodes /\ m.destination \in Nodes
  BY MessagesAssumption DEF Envelope
<1>5. \A m \in Messages : Acknowledged(m)' <=> Acknowledged(m)
  BY <1>2, <1>3, <1>4 DEF Acknowledged, Holds
<1>6. UNCHANGED <<Submitted, Received, Confirmed>>
  BY <1>1, <1>2, <1>4, <1>5 DEF SetsReadOff
<1>7. QED
  BY <1>6 DEF AbstractStep, D!dvars

-----------------------------------------------------------------------------
(* What is proved of every action. *)
StepKept == IInv' /\ TablesGrow /\ AbstractStep

LEMMA QuietStep ==
  ASSUME IInv, TypeOK', TablesGrow, TablesQuiet, wire' = wire,
         \A n \in Nodes : current'[n] \subseteq current[n],
         \A n \in Nodes : /\ router'[n] \subseteq router[n]
                          /\ \A o \in router'[n] : o.key \in active'[n]
  PROVE  StepKept
<1>1. RowsJustified'
  <2> SUFFICES ASSUME NEW n \in Nodes, NEW k \in DOMAIN table'[n]
               PROVE  RowJustified(n, table[n][k])'
    BY DEF RowsJustified
  <2>1. k \in DOMAIN table[n]
    BY DEF TablesQuiet, SameRows
  <2>2. table'[n][k].state = "confirmed" => table[n][k].state = "confirmed"
    BY <2>1 DEF TablesQuiet, NoneConfirmed
  <2>3. QED
    BY <2>1, <2>2, OldRowJustified DEF IInv, TablesGrow
<1>2. WireJustified' /\ AttemptsSpent'
  BY WireKept, AttemptsKept DEF IInv
<1>3. OutcomeIsLatest'
  BY OutcomeKept DEF IInv, TablesQuiet
<1>4. IInv'
  BY <1>1, <1>2, <1>3 DEF IInv
<1>5. QED
  BY <1>4, SameRowsAbstract DEF TablesQuiet, StepKept

LEMMA SubmitStep ==
  ASSUME IInv, NEW n \in Nodes, NEW m \in Messages, Submit(n, m)
  PROVE  StepKept
<1> USE DEF IInv
<1>1. PICK now \in Recent(n) : table' = [table EXCEPT ![n] = Queue(@, n, m, now)]
  BY DEF Submit
<1>2. PICK u : u = Queue(table[n], n, m, now)
  OBVIOUS
<1>3. TableOK(table[n])
  BY DEF TypeOK
<1>4. /\ TableOK(u) /\ Grows(table[n], u)
      /\ \A j \in DOMAIN table[n] : u[j] = table[n][j]
      /\ DOMAIN u # DOMAIN table[n] =>
           /\ m.source = n
           /\ DOMAIN u = DOMAIN table[n] \cup {RowKey("out", m)}
           /\ u[RowKey("out", m)].direction = "out"
           /\ u[RowKey("out", m)].body = m
           /\ u[RowKey("out", m)].state = "queued"
  BY <1>2, <1>3, QueueRow
<1>5. /\ TablesGrow /\ table'[n] = u
      /\ \A p \in Nodes \ {n} : table'[p] = table[p]
  BY <1>1, <1>2, <1>4, TableStep
<1>6. TypeOK'
  BY <1>5 DEF TypeOK, TablesGrow, Submit, volatile
<1>7. RowsJustified'
  <2> SUFFICES ASSUME NEW p \in Nodes, NEW k \in DOMAIN table'[p]
               PROVE  RowJustified(p, table[p][k])'
    BY DEF RowsJustified
  <2>1. CASE k \in DOMAIN table[p]
    <3>1. table'[p][k] = table[p][k]
      BY <1>4, <1>5, <2>1
    <3>2. QED
      BY <1>5, <2>1, <3>1, OldRowJustified DEF TablesGrow
  <2>2. CASE k \notin DOMAIN table[p]
    <3>1. p = n /\ k = RowKey("out", m) /\ m.source = n
      BY <1>4, <1>5, <2>2
    <3>2. /\ table'[p][k].direction = "out" /\ table'[p][k].body = m
          /\ table'[p][k].state = "queued"
      BY <1>4, <1>5, <2>2, <3>1
    <3>3. m.kind = "data"
      BY MessagesAssumption
    <3>4. QED
      BY <3>1, <3>2, <3>3 DEF RowJustified
  <2>3. QED
    BY <2>1, <2>2
<1>8. UNCHANGED <<active, router, todo, current, clock, wire>>
  BY DEF Submit, volatile
<1>9. \A p \in Nodes : SameAttempts(table[p], table'[p])
  BY <1>4, <1>5 DEF SameAttempts
<1>10. WireJustified' /\ AttemptsSpent'
  BY <1>5, <1>8, WireKept, AttemptsKept
<1>11. OutcomeIsLatest'
  BY <1>5, <1>8, <1>9, OutcomeKept DEF OutcomeIsLatest
<1>12. QED
  <2>1. IInv'
    BY <1>6, <1>7, <1>10, <1>11
  <2>2. AbstractStep
    <3>1. CASE DOMAIN u = DOMAIN table[n]
      <4>1. \A p \in Nodes : /\ SameRows(table[p], table'[p])
                             /\ NoneConfirmed(table[p], table'[p])
        BY <1>4, <1>5, <3>1 DEF SameRows, NoneConfirmed
      <4>2. QED
        BY <1>5, <2>1, <4>1, SameRowsAbstract
    <3>2. CASE DOMAIN u # DOMAIN table[n]
      <4>1. SetsReadOff /\ SetsReadOff'
        BY <2>1, ReadOff, ReadOffNext
      <4>2. \A f \in Messages : f.source \in Nodes /\ f.destination \in Nodes
        BY MessagesAssumption DEF Envelope
      <4>3. /\ m.source = n /\ RowKey("out", m) \notin DOMAIN table[n]
            /\ Holds(n, "out", m)'
            /\ table'[n][RowKey("out", m)].state = "queued"
        BY <1>4, <1>5, <3>2 DEF Holds
      <4>4. ASSUME NEW f \in Messages, Holds(f.source, "out", f)'
            PROVE  f = m \/ Holds(f.source, "out", f)
        BY <1>4, <1>5, <3>2, <4>2, <4>4 DEF Holds
      <4>5. ASSUME NEW f \in Messages
            PROVE  Holds(f.destination, "in", f)' <=> Holds(f.destination, "in", f)
        <5>1. RowKey("in", f) # RowKey("out", m)
          BY DEF RowKey
        <5>2. QED
          BY <1>4, <1>5, <3>2, <4>2, <5>1 DEF Holds
      <4>6. ASSUME NEW f \in Messages
            PROVE  Acknowledged(f)' <=> Acknowledged(f)
        BY <1>4, <1>5, <3>2, <4>2, <4>3 DEF Acknowledged, Holds
      <4>7. ASSUME NEW f \in Messages, Holds(f.source, "out", f)
            PROVE  Holds(f.source, "out", f)' /\ ~D!SameName(m, f)
        <5>1. Holds(f.source, "out", f)'
          BY <1>5, <4>2, <4>7, HoldsKept DEF TablesGrow
        <5>2. m.kind = "data" /\ f.kind = "data"
          BY MessagesAssumption
        <5>3. ASSUME D!SameName(m, f) PROVE RowKey("out", m) = RowKey("out", f)
          BY <5>2, <5>3 DEF D!SameName, RowKey
        <5>4. QED
          BY <4>3, <4>7, <5>1, <5>3 DEF Holds, D!SameName
      <4>8. /\ Submitted' = Submitted \cup {m}
            /\ \A f \in Submitted : ~D!SameName(m, f)
        BY <4>1, <4>3, <4>4, <4>7 DEF SetsReadOff
      <4>9. Received' = Received /\ Confirmed' = Confirmed
        BY <4>1, <4>5, <4>6 DEF SetsReadOff
      <4>10. QED
        BY <4>8, <4>9 DEF AbstractStep, D!DNext, D!DSubmit
    <3>3. QED
      BY <3>1, <3>2
  <2>3. QED
    BY <1>5, <2>1, <2>2 DEF StepKept

LEMMA ReceiveStep ==
  ASSUME IInv, NEW n \in Nodes, NEW e \in Envelopes, Receive(n, e)
  PROVE  StepKept
<1> USE DEF IInv
<1>1. PICK now \in Recent(n) :
        table' = [table EXCEPT ![n] = AcceptVerified(@, n, e, now)]
  BY DEF Receive
<1>2. PICK u : u = AcceptVerified(table[n], n, e, now)
  OBVIOUS
<1>3. PICK m, r, kin, kout, kobl :
        /\ m = OriginalOf(e) /\ r = ReceiptEnvelope(e)
        /\ kin = RowKey("in", e) /\ kout = RowKey("out", r)
        /\ kobl = RowKey("out", m)
  OBVIOUS
<1>4. TableOK(table[n]) /\ ConfirmedIsData(table[n])
  BY ConfirmedIsDataHere DEF TypeOK
<1>5. /\ TableOK(u) /\ Grows(table[n], u) /\ SameAttempts(table[n], u)
      /\ ConfirmedIsData(u)
      /\ \/ SameRows(table[n], u) /\ NoneConfirmed(table[n], u)
         \/ /\ SameRows(table[n], u)
            /\ e.kind = "receipt"
            /\ kobl \in DOMAIN table[n] /\ table[n][kobl].body = m
            /\ \A j \in DOMAIN table[n] \ {kobl} : u[j] = table[n][j]
         \/ /\ e \in Messages /\ e.destination = n
            /\ NoneConfirmed(table[n], u)
            /\ DOMAIN u \subseteq DOMAIN table[n] \cup {kin, kout}
            /\ kin \in DOMAIN u /\ u[kin].body = e
            /\ kout \in DOMAIN u /\ u[kout].body = r
  BY <1>2, <1>3, <1>4, AcceptVerifiedRows
<1>6. /\ TablesGrow /\ table'[n] = u
      /\ \A p \in Nodes \ {n} : table'[p] = table[p]
  BY <1>1, <1>2, <1>5, TableStep
<1>7. TypeOK'
  BY <1>6 DEF TypeOK, TablesGrow, Receive, volatile
<1>8. UNCHANGED <<active, router, todo, current, clock, wire>>
  BY DEF Receive, volatile
<1>9. e.source \in Nodes /\ e.destination \in Nodes
  BY EnvelopeType DEF Envelope
<1>10. Holds(e.source, "out", e)
  BY DEF Receive, WireJustified
<1>11. RowsJustified'
  <2> SUFFICES ASSUME NEW p \in Nodes, NEW k \in DOMAIN table'[p]
               PROVE  RowJustified(p, table[p][k])'
    BY DEF RowsJustified
  <2>1. CASE k \in DOMAIN table[p] /\ table'[p][k].state # "confirmed"
    BY <1>6, <2>1, OldRowJustified DEF TablesGrow
  <2>2. CASE k \in DOMAIN table[p] /\ table[p][k].state = "confirmed"
    BY <1>6, <2>2, OldRowJustified DEF TablesGrow
  <2>3. CASE k \in DOMAIN table[p] /\ table'[p][k].state = "confirmed"
                                   /\ table[p][k].state # "confirmed"
    (* The row a receipt has just answered. *)
    <3>1. /\ p = n /\ k = kobl /\ e.kind = "receipt" /\ table[n][k].body = m
      BY <1>5, <1>6, <2>3 DEF NoneConfirmed
    <3>2. /\ table'[p][k].direction = "out" /\ table'[p][k].body = m
          /\ table[p][k].direction = "out" /\ m.kind = "data"
      BY <1>3, <1>4, <1>5, <1>6, <2>3, <3>1
         DEF Grows, TableOK, RowKey, OriginalOf
    <3>3. m.source = n
      BY <2>3, <3>1, <3>2 DEF RowsJustified, RowJustified
    <3>4. Holds(e.source, "in", m)
      BY <1>3, <1>9, <1>10, <3>1 DEF Holds, RowsJustified, RowJustified
    <3>5. m.destination = e.source
      BY <1>3 DEF OriginalOf
    <3>6. Holds(m.destination, "in", m)'
      BY <1>6, <1>9, <3>4, <3>5, HoldsKept DEF TablesGrow
    <3>7. QED
      BY <3>1, <3>2, <3>3, <3>6 DEF RowJustified
  <2>4. CASE k \notin DOMAIN table[p]
    (* The inbox row or the receipt a data envelope has just added. *)
    <3>1. /\ p = n /\ k \in {kin, kout} /\ e \in Messages /\ e.destination = n
          /\ kin \in DOMAIN u /\ u[kin].body = e
          /\ kout \in DOMAIN u /\ u[kout].body = r
      BY <1>5, <1>6, <2>4 DEF SameRows
    <3>2. e.kind = "data" /\ r.kind = "receipt" /\ r.source = n /\ OriginalOf(r) = e
      BY <1>3, <3>1, EnvelopeType, MessagesAssumption DEF ReceiptEnvelope
    <3>3. /\ kin = RowKey(u[kin].direction, e)
          /\ kout = RowKey(u[kout].direction, r)
      BY <1>5, <3>1 DEF TableOK
    <3>4. u[kin].direction = "in" /\ u[kout].direction = "out"
      BY <1>3, <3>3 DEF RowKey
    <3>5. Holds(n, "in", e)' /\ Holds(n, "out", r)'
      BY <1>3, <1>6, <3>1 DEF Holds
    <3>6. Holds(e.source, "out", e)'
      BY <1>6, <1>9, <1>10, HoldsKept DEF TablesGrow
    <3>7. u[kin].state # "confirmed" /\ u[kout].state # "confirmed"
      BY <1>5, <3>1, <3>2, <3>4 DEF ConfirmedIsData
    <3>8. CASE k = kin
      BY <1>3, <1>6, <3>1, <3>2, <3>4, <3>5, <3>6, <3>7, <3>8 DEF RowJustified
    <3>9. CASE k = kout
      BY <1>6, <3>1, <3>2, <3>4, <3>5, <3>7, <3>9 DEF RowJustified
    <3>10. QED
      BY <3>1, <3>8, <3>9
  <2>5. QED
    BY <2>1, <2>2, <2>3, <2>4
<1>12. \A p \in Nodes : SameAttempts(table[p], table'[p])
  BY <1>5, <1>6 DEF SameAttempts
<1>13. WireJustified' /\ AttemptsSpent'
  BY <1>6, <1>8, WireKept, AttemptsKept
<1>14. OutcomeIsLatest'
  BY <1>6, <1>8, <1>12, OutcomeKept DEF OutcomeIsLatest
<1>15. QED
  <2>1. IInv'
    BY <1>7, <1>11, <1>13, <1>14
  <2>2. SetsReadOff /\ SetsReadOff'
    BY <2>1, ReadOff, ReadOffNext
  <2>3. \A f \in Messages : f.source \in Nodes /\ f.destination \in Nodes
    BY MessagesAssumption DEF Envelope
  <2>4. CASE SameRows(table[n], u) /\ NoneConfirmed(table[n], u)
    <3>1. \A p \in Nodes : /\ SameRows(table[p], table[p])
                           /\ NoneConfirmed(table[p], table[p])
      BY Unchanged DEF TypeOK
    <3>2. \A p \in Nodes : /\ SameRows(table[p], table'[p])
                           /\ NoneConfirmed(table[p], table'[p])
      BY <1>6, <2>4, <3>1
    <3>3. AbstractStep
      BY <1>6, <2>1, <3>2, SameRowsAbstract
    <3>4. QED
      BY <1>6, <2>1, <3>3 DEF StepKept
  <2>5. CASE /\ SameRows(table[n], u) /\ ~NoneConfirmed(table[n], u)
             /\ e.kind = "receipt"
             /\ kobl \in DOMAIN table[n] /\ table[n][kobl].body = m
             /\ \A j \in DOMAIN table[n] \ {kobl} : u[j] = table[n][j]
    (* The obligation of m becomes confirmed: DConfirm. *)
    <3>1. /\ table[n][kobl].state # "confirmed" /\ u[kobl].state = "confirmed"
      BY <2>5 DEF NoneConfirmed
    <3>2. m \in Messages /\ m.destination = e.source
      BY <1>3, <2>5, EnvelopeType DEF OriginalOf
    <3>3. m.source = n
      <4>1. table[n][kobl].direction = "out"
        BY <1>3, <1>4, <2>5 DEF TableOK, RowKey
      <4>2. QED
        BY <2>5, <4>1 DEF RowsJustified, RowJustified
    <3>4. Holds(n, "out", m) /\ ~Acknowledged(m)
      BY <1>3, <2>5, <3>1, <3>3 DEF Holds, Acknowledged
    <3>5. Acknowledged(m)'
      BY <1>3, <1>6, <2>5, <3>1, <3>3 DEF Acknowledged, Holds, SameRows
    <3>6. Holds(m.destination, "in", m)
      BY <1>3, <1>9, <1>10, <2>5, <3>2 DEF Holds, RowsJustified, RowJustified
    <3>7. ASSUME NEW f \in Messages, NEW p \in Nodes, NEW direction
          PROVE  Holds(p, direction, f)' <=> Holds(p, direction, f)
      BY <1>6, <2>5 DEF Holds, SameRows
    <3>8. ASSUME NEW f \in Messages, f # m
          PROVE  Acknowledged(f)' <=> Acknowledged(f)
      <4>1. CASE f.source = n /\ RowKey("out", f) = kobl
        BY <1>3, <1>6, <2>5, <3>8, <4>1 DEF Acknowledged, Holds, SameRows
      <4>2. CASE f.source = n /\ RowKey("out", f) # kobl
        BY <1>6, <2>5, <4>2 DEF Acknowledged, Holds, SameRows
      <4>3. CASE f.source # n
        BY <1>6, <2>3, <4>3 DEF Acknowledged, Holds
      <4>4. QED
        BY <4>1, <4>2, <4>3
    <3>9. Submitted' = Submitted /\ Received' = Received
      BY <2>2, <2>3, <3>7 DEF SetsReadOff
    <3>10. m \in Received \ Confirmed /\ Confirmed' = Confirmed \cup {m}
      BY <2>2, <3>2, <3>4, <3>5, <3>6, <3>8 DEF SetsReadOff
    <3>11. QED
      BY <1>6, <2>1, <3>2, <3>9, <3>10
         DEF StepKept, AbstractStep, D!DNext, D!DConfirm
  <2>6. CASE /\ e \in Messages /\ e.destination = n
             /\ NoneConfirmed(table[n], u)
             /\ DOMAIN u \subseteq DOMAIN table[n] \cup {kin, kout}
             /\ kin \in DOMAIN u /\ u[kin].body = e
             /\ kout \in DOMAIN u /\ u[kout].body = r
    (* e enters the inbox, DReceive, or was there already. *)
    <3>1. Holds(n, "in", e)'
      BY <1>3, <1>6, <2>6 DEF Holds
    <3>2. r.kind = "receipt"
      BY <1>3 DEF ReceiptEnvelope
    <3>3. ASSUME NEW f \in Messages
          PROVE  RowKey("out", f) # kin /\ RowKey("out", f) # kout
                 /\ RowKey("in", f) # kout
      <4>1. f.kind = "data"
        BY MessagesAssumption
      <4>2. QED
        BY <1>3, <3>2, <4>1 DEF RowKey
    <3>4. ASSUME NEW f \in Messages
          PROVE  /\ Holds(f.source, "out", f)' <=> Holds(f.source, "out", f)
                 /\ Acknowledged(f)' <=> Acknowledged(f)
      <4>1. CASE f.source # n
        BY <1>6, <2>3, <4>1 DEF Acknowledged, Holds
      <4>2. CASE f.source = n
        <5>1. RowKey("out", f) \in DOMAIN u <=> RowKey("out", f) \in DOMAIN table[n]
          BY <1>5, <2>6, <3>3 DEF Grows
        <5>2. RowKey("out", f) \in DOMAIN table[n] =>
                LET k == RowKey("out", f) IN
                /\ u[k].body = table[n][k].body
                /\ u[k].state = "confirmed" <=> table[n][k].state = "confirmed"
          BY <1>5, <2>6 DEF Grows, NoneConfirmed
        <5>3. QED
          BY <1>6, <4>2, <5>1, <5>2 DEF Acknowledged, Holds
      <4>3. QED
        BY <4>1, <4>2
    <3>5. ASSUME NEW f \in Messages, Holds(f.destination, "in", f)
          PROVE  Holds(f.destination, "in", f)'
      BY <1>6, <2>3, <3>5, HoldsKept DEF TablesGrow
    <3>6. ASSUME NEW f \in Messages, Holds(f.destination, "in", f)', f # e
          PROVE  Holds(f.destination, "in", f)
      <4>1. CASE f.destination # n
        BY <1>6, <2>3, <3>6, <4>1 DEF Holds
      <4>2. CASE f.destination = n
        <5>1. RowKey("in", f) # kin
          BY <1>6, <2>6, <3>6, <4>2 DEF Holds
        <5>2. RowKey("in", f) \in DOMAIN table[n]
          BY <1>6, <2>6, <3>3, <3>6, <4>2, <5>1 DEF Holds
        <5>3. QED
          BY <1>5, <1>6, <3>6, <4>2, <5>2 DEF Holds, Grows
      <4>3. QED
        BY <4>1, <4>2
    <3>7. Submitted' = Submitted /\ Confirmed' = Confirmed
      BY <2>2, <3>4 DEF SetsReadOff
    <3>8. e \in Submitted /\ Received' = Received \cup {e}
      BY <1>10, <2>2, <2>6, <3>1, <3>5, <3>6 DEF SetsReadOff
    <3>9. AbstractStep
      BY <2>6, <3>7, <3>8
         DEF AbstractStep, D!DNext, D!DReceive, D!dvars
    <3>10. QED
      BY <1>6, <2>1, <3>9 DEF StepKept
  <2>7. QED
    BY <1>5, <2>4, <2>5, <2>6

LEMMA PumpBeginStep ==
  ASSUME IInv, NEW n \in Nodes, PumpBegin(n)
  PROVE  StepKept
<1> USE DEF IInv
<1>1. PICK k \in todo[n] \ active[n], now \in Recent(n) :
        /\ CanBegin(table[n], k, now)
        /\ table' = [table EXCEPT ![n] = BeginAttempt(@, k)]
        /\ current' = [current EXCEPT ![n] = {k}]
        /\ todo' = [todo EXCEPT ![n] = @ \ {k}]
  BY DEF PumpBegin
<1>2. UNCHANGED <<active, router, clock, wire>> /\ current[n] = {}
  BY DEF PumpBegin
<1>3. PICK u : u = BeginAttempt(table[n], k)
  OBVIOUS
<1>4. TableOK(table[n]) /\ k \in DOMAIN table[n] /\ table[n][k].direction = "out"
  BY <1>1 DEF TypeOK, CanBegin, Outstanding
<1>5. /\ TableOK(u) /\ Grows(table[n], u) /\ SameRows(table[n], u)
      /\ NoneConfirmed(table[n], u)
      /\ u[k].attempts = table[n][k].attempts + 1
      /\ \A j \in DOMAIN table[n] \ {k} : u[j] = table[n][j]
  BY <1>1, <1>3, <1>4, BeginAttemptRow
<1>6. /\ TablesGrow /\ table'[n] = u
      /\ \A p \in Nodes \ {n} : table'[p] = table[p]
  BY <1>1, <1>3, <1>5, TableStep
<1>7. TypeOK'
  BY <1>1, <1>2, <1>6 DEF TypeOK, TablesGrow
<1>8. RowsJustified'
  <2> SUFFICES ASSUME NEW p \in Nodes, NEW j \in DOMAIN table'[p]
               PROVE  RowJustified(p, table[p][j])'
    BY DEF RowsJustified
  <2>1. /\ j \in DOMAIN table[p]
        /\ table'[p][j].state = "confirmed" => table[p][j].state = "confirmed"
    BY <1>5, <1>6 DEF SameRows, NoneConfirmed
  <2>2. QED
    BY <1>6, <2>1, OldRowJustified DEF TablesGrow
<1>9. WireJustified'
  BY <1>2, <1>6, WireKept
<1>10. table[n][k].attempts \in Nat /\ u[k].attempts >= 1
  BY <1>4, <1>5, BodiesTyped
<1>11. AttemptsSpent'
  <2>1. ASSUME NEW p \in Nodes, NEW j \in current'[p]
        PROVE  /\ j \in DOMAIN table'[p] /\ table'[p][j].attempts >= 1
               /\ table'[p][j].direction = "out"
    <3>1. CASE p = n
      BY <1>1, <1>4, <1>5, <1>6, <1>10, <2>1, <3>1 DEF TypeOK, SameRows
    <3>2. CASE p # n
      BY <1>1, <1>6, <2>1, <3>2 DEF TypeOK, AttemptsSpent
    <3>3. QED
      BY <3>1, <3>2
  <2>2. ASSUME NEW e \in Envelopes, wire'[e] > 0, NEW j, j = RowKey("out", e)
        PROVE  /\ wire'[e] <= table'[e.source][j].attempts
               /\ j \in current'[e.source] => wire'[e] < table'[e.source][j].attempts
    <3>1. /\ e.source \in Nodes /\ wire[e] \in Nat
          /\ wire[e] <= table[e.source][j].attempts
          /\ j \in current[e.source] => wire[e] < table[e.source][j].attempts
      BY <1>2, <2>2, EnvelopeType DEF Envelope, TypeOK, AttemptsSpent
    <3>2. j \in DOMAIN table[e.source]
      BY <1>2, <2>2 DEF WireJustified, Holds
    <3>3. CASE e.source = n /\ j = k
      BY <1>2, <1>5, <1>6, <1>10, <3>1, <3>3
    <3>4. CASE e.source = n /\ j # k
      BY <1>1, <1>2, <1>5, <1>6, <3>1, <3>2, <3>4 DEF TypeOK
    <3>5. CASE e.source # n
      BY <1>1, <1>2, <1>6, <3>1, <3>5 DEF TypeOK
    <3>6. QED
      BY <3>3, <3>4, <3>5
  <2>3. QED
    BY <2>1, <2>2 DEF AttemptsSpent
<1>12. OutcomeIsLatest'
  <2> SUFFICES ASSUME NEW p \in Nodes, NEW o \in router[p]
               PROVE  /\ o.key \in active[p] /\ o.key \in DOMAIN table'[p]
                      /\ o.attempt = table'[p][o.key].attempts
    BY <1>2 DEF OutcomeIsLatest
  <2>1. /\ o.key \in active[p] /\ o.key \in DOMAIN table[p]
        /\ o.attempt = table[p][o.key].attempts
    BY DEF OutcomeIsLatest
  <2>2. p = n => o.key # k
    BY <1>1, <2>1
  <2>3. QED
    BY <1>5, <1>6, <2>1, <2>2 DEF SameRows
<1>13. QED
  <2>1. IInv'
    BY <1>7, <1>8, <1>9, <1>11, <1>12
  <2>2. \A p \in Nodes : /\ SameRows(table[p], table[p])
                         /\ NoneConfirmed(table[p], table[p])
    BY Unchanged DEF TypeOK
  <2>3. \A p \in Nodes : /\ SameRows(table[p], table'[p])
                         /\ NoneConfirmed(table[p], table'[p])
    BY <1>5, <1>6, <2>2
  <2>4. AbstractStep
    BY <1>6, <2>1, <2>3, SameRowsAbstract
  <2>5. QED
    BY <1>6, <2>1, <2>4 DEF StepKept

LEMMA TransmitStep ==
  ASSUME IInv, NEW n \in Nodes, Transmit(n)
  PROVE  StepKept
<1> USE DEF IInv
<1>1. PICK k, e :
        /\ k \in current[n]
        /\ e = table[n][k].body
        /\ active' = [active EXCEPT ![n] = @ \cup {k}]
        /\ router' = [router EXCEPT ![n] =
                        @ \cup {[key |-> k, attempt |-> table[n][k].attempts]}]
        /\ wire' = [wire EXCEPT ![e] = @ + 1]
  BY DEF Transmit
<1>2. UNCHANGED <<table, todo, clock>> /\ current' = [current EXCEPT ![n] = {}]
  BY DEF Transmit
<1>3. /\ k \in DOMAIN table[n] /\ table[n][k].attempts >= 1
      /\ table[n][k].direction = "out"
  BY <1>1 DEF AttemptsSpent
<1>4. /\ e \in Envelopes /\ k = RowKey("out", e) /\ e.source = n
      /\ k \in Key /\ table[n][k].attempts \in 1..MaxAttempts
  BY <1>1, <1>3, CapacityAssumption
     DEF TypeOK, TableOK, Row, RowsJustified, RowJustified
<1>5. TypeOK'
  <2>1. active' \in [Nodes -> SUBSET Key] /\ current' \in [Nodes -> SUBSET Key]
    BY <1>1, <1>2, <1>4 DEF TypeOK
  <2>2. router' \in [Nodes -> SUBSET Outbound]
    BY <1>1, <1>4 DEF TypeOK, Outbound
  <2>3. wire' \in [Envelopes -> Nat]
    BY <1>1, <1>4 DEF TypeOK
  <2>4. QED
    BY <1>2, <2>1, <2>2, <2>3 DEF TypeOK
<1>6. TablesGrow /\ TablesQuiet
  BY <1>2, TablesUnchanged
<1>7. RowsJustified'
  BY <1>2 DEF RowsJustified, RowJustified, Holds
<1>8. WireJustified'
  <2> SUFFICES ASSUME NEW f \in Envelopes, wire'[f] > 0
               PROVE  Holds(f.source, "out", f)
    BY <1>2 DEF WireJustified, Holds
  <2>1. CASE f = e
    BY <1>1, <1>3, <1>4, <2>1 DEF Holds
  <2>2. CASE f # e
    BY <1>1, <2>2 DEF TypeOK, WireJustified
  <2>3. QED
    BY <2>1, <2>2
<1>9. AttemptsSpent'
  <2>1. ASSUME NEW p \in Nodes, NEW j \in current'[p]
        PROVE  /\ j \in DOMAIN table[p] /\ table[p][j].attempts >= 1
               /\ table[p][j].direction = "out"
    BY <1>2, <2>1 DEF TypeOK, AttemptsSpent
  <2>2. ASSUME NEW f \in Envelopes, wire'[f] > 0, NEW j, j = RowKey("out", f)
        PROVE  /\ wire'[f] <= table[f.source][j].attempts
               /\ j \in current'[f.source] => wire'[f] < table[f.source][j].attempts
    <3>1. f.source \in Nodes /\ wire[f] \in Nat
      BY EnvelopeType DEF Envelope, TypeOK
    <3>2. CASE f = e
      <4>1. wire'[f] = wire[f] + 1 /\ j = k /\ f.source = n /\ j \notin current'[n]
        BY <1>1, <1>2, <1>4, <2>2, <3>2 DEF TypeOK
      <4>2. wire[f] < table[n][k].attempts
        <5>1. CASE wire[f] > 0
          BY <1>1, <1>4, <3>2, <5>1 DEF AttemptsSpent
        <5>2. CASE wire[f] = 0
          BY <1>3, <5>2, BodiesTyped
        <5>3. QED
          BY <3>1, <5>1, <5>2
      <4>3. QED
        BY <1>3, <3>1, <4>1, <4>2, BodiesTyped
    <3>3. CASE f # e
      <4>1. wire'[f] = wire[f]
        BY <1>1, <3>3 DEF TypeOK
      <4>2. j \in current'[f.source] => j \in current[f.source]
        BY <1>2, <3>1 DEF TypeOK
      <4>3. QED
        BY <2>2, <4>1, <4>2 DEF AttemptsSpent
    <3>4. QED
      BY <3>2, <3>3
  <2>3. QED
    BY <1>2, <2>1, <2>2 DEF AttemptsSpent
<1>10. OutcomeIsLatest'
  <2> SUFFICES ASSUME NEW p \in Nodes, NEW o \in router'[p]
               PROVE  /\ o.key \in active'[p] /\ o.key \in DOMAIN table[p]
                      /\ o.attempt = table[p][o.key].attempts
    BY <1>2 DEF OutcomeIsLatest
  <2>1. CASE o \in router[p]
    BY <1>1, <2>1 DEF OutcomeIsLatest, TypeOK
  <2>2. CASE o \notin router[p]
    <3>1. p = n /\ o = [key |-> k, attempt |-> table[n][k].attempts]
      BY <1>1, <2>2 DEF TypeOK
    <3>2. QED
      BY <1>1, <1>3, <3>1 DEF TypeOK
  <2>3. QED
    BY <2>1, <2>2
<1>11. QED
  <2>1. IInv'
    BY <1>5, <1>7, <1>8, <1>9, <1>10
  <2>2. QED
    BY <1>6, <2>1, SameRowsAbstract DEF TablesQuiet, StepKept

-----------------------------------------------------------------------------
LEMMA InitIInv == Init => IInv
<1> SUFFICES ASSUME Init PROVE IInv
  OBVIOUS
<1>1. \A n \in Nodes : DOMAIN table[n] = {}
  BY DEF Init, EmptyTable
<1>2. TypeOK
  BY <1>1, ClockAssumption DEF Init, TypeOK, TableOK
<1>3. RowsJustified
  BY <1>1 DEF RowsJustified
<1>4. WireJustified /\ AttemptsSpent /\ OutcomeIsLatest
  BY DEF Init, WireJustified, AttemptsSpent, OutcomeIsLatest
<1>5. QED
  BY <1>2, <1>3, <1>4 DEF IInv

LEMMA NextStep == IInv /\ [Next]_vars => StepKept
<1> SUFFICES ASSUME IInv, [Next]_vars PROVE StepKept
  OBVIOUS
<1> USE DEF IInv
<1>1. ASSUME NEW n \in Nodes, NEW m \in Messages, Submit(n, m) PROVE StepKept
  BY <1>1, SubmitStep
<1>2. ASSUME NEW n \in Nodes, NEW e \in Envelopes, Receive(n, e) PROVE StepKept
  BY <1>2, ReceiveStep
<1>3. ASSUME NEW n \in Nodes, PumpScan(n) PROVE StepKept
  <2>1. PICK now \in Recent(n) :
          /\ table' = [table EXCEPT ![n] = Expire(@, now)]
          /\ todo' = [todo EXCEPT ![n] = Eligible(table[n], now)]
    BY <1>3 DEF PumpScan
  <2>2. UNCHANGED <<active, router, current, clock, wire>>
    BY <1>3 DEF PumpScan
  <2>3. PICK u : u = Expire(table[n], now)
    OBVIOUS
  <2>4. TableOK(table[n])
    BY DEF TypeOK
  <2>5. /\ TableOK(u) /\ Grows(table[n], u) /\ SameRows(table[n], u)
        /\ SameAttempts(table[n], u) /\ NoneConfirmed(table[n], u)
    BY <2>3, <2>4, ExpireRows
  <2>6. TablesGrow /\ TablesQuiet
    BY <2>1, <2>3, <2>5, QuietTableStep
  <2>7. Eligible(table[n], now) \subseteq Key
    BY <2>4 DEF Eligible, Outstanding, TableOK
  <2>8. TypeOK'
    BY <2>1, <2>2, <2>6, <2>7 DEF TypeOK, TablesGrow
  <2>9. QED
    BY <2>2, <2>6, <2>8, QuietStep DEF OutcomeIsLatest
<1>4. ASSUME NEW n \in Nodes,
             PumpSkip(n) \/ PumpRaises(n) \/ TransmitNotSent(n)
               \/ TransmitRaises(n) \/ CompleteRaises(n) \/ Crash(n) \/ Tick(n)
      PROVE  StepKept
  <2>1. table' = table /\ wire' = wire
    BY <1>4 DEF PumpSkip, PumpRaises, TransmitNotSent, TransmitRaises,
                CompleteRaises, Crash, Tick
  <2>2. TablesGrow /\ TablesQuiet
    BY <2>1, TablesUnchanged
  <2>3. TypeOK'
    <3>1. CASE PumpSkip(n) \/ PumpRaises(n)
      BY <2>1, <3>1 DEF TypeOK, PumpSkip, PumpRaises
    <3>2. CASE TransmitNotSent(n) \/ TransmitRaises(n)
      BY <2>1, <3>2 DEF TypeOK, TransmitNotSent, TransmitRaises
    <3>3. CASE Crash(n)
      BY <2>1, <3>3 DEF TypeOK, Crash
    <3>4. CASE Tick(n)
      BY <2>1, <3>4, ClockAssumption DEF TypeOK, Tick, volatile
    <3>5. CASE CompleteRaises(n)
      BY <2>1, <3>5 DEF TypeOK, CompleteRaises
    <3>6. QED
      BY <1>4, <3>1, <3>2, <3>3, <3>4, <3>5
  <2>4. \A p \in Nodes : current'[p] \subseteq current[p]
    BY <1>4 DEF TypeOK, PumpSkip, PumpRaises, TransmitNotSent, TransmitRaises,
                CompleteRaises, Crash, Tick, volatile
  <2>5. \A p \in Nodes : /\ router'[p] \subseteq router[p]
                         /\ \A o \in router'[p] : o.key \in active'[p]
    BY <1>4 DEF TypeOK, OutcomeIsLatest, PumpSkip, PumpRaises, TransmitNotSent,
                TransmitRaises, CompleteRaises, Crash, Tick, volatile
  <2>6. QED
    BY <2>1, <2>2, <2>3, <2>4, <2>5, QuietStep
<1>5. ASSUME NEW n \in Nodes, PumpBegin(n) PROVE StepKept
  BY <1>5, PumpBeginStep
<1>6. ASSUME NEW n \in Nodes, Transmit(n) PROVE StepKept
  BY <1>6, TransmitStep
<1>7. ASSUME NEW n \in Nodes, NEW succeeded \in BOOLEAN, Complete(n, succeeded)
      PROVE  StepKept
  <2>1. PICK o \in router[n] :
          /\ table' = IF succeeded THEN [table EXCEPT ![n] = Handoff(@, o.key)]
                                   ELSE table
          /\ active' = [active EXCEPT ![n] = @ \ {o.key}]
          /\ router' = [router EXCEPT ![n] = @ \ {o}]
    BY <1>7 DEF Complete
  <2>2. UNCHANGED <<todo, current, clock, wire>>
    BY <1>7 DEF Complete
  <2>3. TablesGrow /\ TablesQuiet
    <3>1. CASE succeeded
      <4>1. PICK u : u = Handoff(table[n], o.key)
        OBVIOUS
      <4>2. TableOK(table[n])
        BY DEF TypeOK
      <4>3. /\ TableOK(u) /\ Grows(table[n], u) /\ SameRows(table[n], u)
            /\ SameAttempts(table[n], u) /\ NoneConfirmed(table[n], u)
        BY <4>1, <4>2, HandoffRow
      <4>4. QED
        BY <2>1, <3>1, <4>1, <4>3, QuietTableStep
    <3>2. CASE ~succeeded
      BY <2>1, <3>2, TablesUnchanged
    <3>3. QED
      BY <3>1, <3>2
  <2>4. TypeOK'
    BY <2>1, <2>2, <2>3 DEF TypeOK, TablesGrow
  <2>5. ASSUME NEW p \in Nodes, NEW q \in router'[p]
        PROVE  q \in router[p] /\ q.key \in active'[p]
    <3>1. q \in router[p] /\ q.key \in active[p] /\ (p = n => q # o)
      BY <2>1 DEF TypeOK, OutcomeIsLatest
    <3>2. p = n => q.key # o.key
      (* Two outcomes for one key would be of the same attempt: the same. *)
      <4>1. ASSUME p = n, q.key = o.key PROVE FALSE
        <5>1. q.attempt = o.attempt
          BY <3>1, <4>1 DEF OutcomeIsLatest
        <5>2. q \in Outbound /\ o \in Outbound
          BY <3>1, <4>1 DEF TypeOK
        <5>3. q = o
          BY <4>1, <5>1, <5>2 DEF Outbound
        <5>4. QED
          BY <3>1, <4>1, <5>3
      <4>2. QED
        BY <4>1
    <3>3. QED
      BY <2>1, <3>1, <3>2 DEF TypeOK
  <2>6. QED
    BY <2>2, <2>3, <2>4, <2>5, QuietStep
<1>8. CASE UNCHANGED vars
  <2>1. UNCHANGED <<table, active, router, todo, current, clock, wire>>
    BY <1>8 DEF vars, volatile
  <2>2. TablesGrow /\ TablesQuiet
    BY <2>1, TablesUnchanged
  <2>3. TypeOK'
    BY <2>1 DEF TypeOK
  <2>4. QED
    BY <2>1, <2>2, <2>3, QuietStep DEF OutcomeIsLatest
<1>9. QED
  BY <1>1, <1>2, <1>3, <1>4, <1>5, <1>6, <1>7, <1>8 DEF Next, PumpStep

LEMMA NextIInv == IInv /\ [Next]_vars => IInv'
BY NextStep DEF StepKept

-----------------------------------------------------------------------------
(* The variables of every mailbox, pump and router keep their types.       *)
THEOREM TypeCorrect == Spec => []TypeOK
<1>1. IInv => TypeOK
  BY DEF IInv
<1>2. QED
  BY <1>1, InitIInv, NextIInv, PTL DEF Spec

(* A message its origin shows as confirmed is in its destination's inbox,  *)
(* whatever crashes, late outcomes, repeated packets and full mailboxes    *)
(* came between.                                                           *)
THEOREM ConfirmationIsEndToEnd == Spec => []ConfirmedWasReceived
<1>1. IInv => ConfirmedWasReceived
  <2> SUFFICES ASSUME IInv, NEW m \in Confirmed PROVE m \in Received
    BY DEF ConfirmedWasReceived
  <2> USE DEF IInv
  <2>1. PICK n \in Nodes : \E k \in DOMAIN table[n] :
          /\ m = table[n][k].body /\ m.kind = "data"
          /\ table[n][k].state = "confirmed"
    BY DEF Confirmed, BodiesOf, Rows
  <2>2. m.destination \in Nodes /\ Holds(m.destination, "in", m)
    BY <2>1, BodiesTyped DEF RowsJustified, RowJustified
  <2>3. PICK row : /\ row = table[m.destination][RowKey("in", m)]
                   /\ RowKey("in", m) \in DOMAIN table[m.destination]
                   /\ row.body = m
    BY <2>2 DEF Holds
  <2>4. row \in Row /\ RowKey("in", m) = RowKey(row.direction, row.body)
    BY <2>2, <2>3 DEF TypeOK, TableOK
  <2>5. row.direction = "in" /\ row.state \in States
    BY <2>4 DEF RowKey, Row
  <2>6. row \in Rows
    BY <2>2, <2>3 DEF Rows
  <2>7. QED
    BY <2>1, <2>3, <2>5, <2>6 DEF Received, BodiesOf
<1>2. QED
  BY <1>1, InitIInv, NextIInv, PTL DEF Spec

(* No envelope is ever given to the router more than MaxAttempts times.    *)
THEOREM RetryBudgetHolds == Spec => []SendsWithinBudget
<1>1. IInv => SendsWithinBudget
  <2> SUFFICES ASSUME IInv, NEW e \in Envelopes, wire[e] > 0, NEW k,
                      k = RowKey("out", e)
               PROVE  /\ k \in DOMAIN table[e.source]
                      /\ wire[e] <= table[e.source][k].attempts
                      /\ table[e.source][k].attempts <= MaxAttempts
    BY DEF SendsWithinBudget
  <2> USE DEF IInv
  <2>1. e.source \in Nodes
    BY EnvelopeType DEF Envelope
  <2>2. k \in DOMAIN table[e.source]
    BY DEF WireJustified, Holds
  <2>3. wire[e] <= table[e.source][k].attempts
    BY DEF AttemptsSpent
  <2>4. table[e.source][k].attempts <= MaxAttempts
    BY <2>1, <2>2, CapacityAssumption DEF TypeOK, TableOK, Row
  <2>5. QED
    BY <2>2, <2>3, <2>4
<1>2. QED
  BY <1>1, InitIInv, NextIInv, PTL DEF Spec

(* The router never owes an outcome for an attempt that is not the row's   *)
(* latest.                                                                 *)
THEOREM OutcomesAreOfTheLatestAttempt == Spec => []OutcomeIsLatest
<1>1. IInv => OutcomeIsLatest
  BY DEF IInv
<1>2. QED
  BY <1>1, InitIInv, NextIInv, PTL DEF Spec

(* An inbox row and the receipt owed for it are written together or not    *)
(* at all.                                                                 *)
THEOREM ReceiptIsWrittenWithTheRow == Spec => []InboxHasReceipt
<1>1. IInv => InboxHasReceipt
  <2> SUFFICES ASSUME IInv, NEW n \in Nodes, NEW m \in Messages,
                      NEW kin, kin = RowKey("in", m),
                      NEW kout, kout = RowKey("out", ReceiptEnvelope(m))
               PROVE  kin \in DOMAIN table[n]
                        <=> kout \in DOMAIN table[n] /\ m.destination = n
    BY DEF InboxHasReceipt
  <2> USE DEF IInv
  <2>1. ASSUME kin \in DOMAIN table[n]
        PROVE  kout \in DOMAIN table[n] /\ m.destination = n
    <3>1. PICK b : b = table[n][kin].body
      OBVIOUS
    <3>2. RowKey("in", m) = RowKey(table[n][kin].direction, b)
      BY <2>1, <3>1, BodiesTyped
    <3>3. /\ table[n][kin].direction = "in" /\ b.id = m.id
          /\ b.source = m.source /\ b.destination = m.destination
      BY <3>2 DEF RowKey
    <3>4. Holds(n, "out", ReceiptEnvelope(b)) /\ b.destination = n
      BY <2>1, <3>1, <3>3 DEF RowsJustified, RowJustified
    <3>5. RowKey("out", ReceiptEnvelope(b)) = kout
      BY <3>3 DEF RowKey, ReceiptEnvelope
    <3>6. QED
      BY <3>3, <3>4, <3>5 DEF Holds
  <2>2. ASSUME kout \in DOMAIN table[n]
        PROVE  kin \in DOMAIN table[n]
    <3>1. PICK b : b = table[n][kout].body
      OBVIOUS
    <3>2. RowKey("out", ReceiptEnvelope(m)) = RowKey(table[n][kout].direction, b)
      BY <2>2, <3>1, BodiesTyped
    <3>3. /\ b.kind = "receipt" /\ b.id = m.id
          /\ b.source = m.destination /\ b.destination = m.source
      BY <3>2 DEF RowKey, ReceiptEnvelope
    <3>4. Holds(n, "in", OriginalOf(b))
      BY <2>2, <3>1, <3>3 DEF RowsJustified, RowJustified
    <3>5. RowKey("in", OriginalOf(b)) = kin
      BY <3>3, MessagesAssumption DEF RowKey, OriginalOf
    <3>6. QED
      BY <3>4, <3>5 DEF Holds
  <2>3. QED
    BY <2>1, <2>2
<1>2. QED
  BY <1>1, InitIInv, NextIInv, PTL DEF Spec

(* No step of any node loses a row, changes its content or takes back a    *)
(* confirmation.                                                           *)
THEOREM ConfirmationIsNeverWithdrawn == Spec => ConfirmedIsFinal
<1>1. IInv /\ [Next]_vars =>
        [\A n \in Nodes : \A k \in DOMAIN table[n] :
           /\ k \in DOMAIN table'[n]
           /\ table'[n][k].body = table[n][k].body
           /\ table[n][k].state = "confirmed" =>
                table'[n][k].state = "confirmed"]_vars
  BY NextStep DEF StepKept, TablesGrow, Grows
<1>2. QED
  BY <1>1, InitIInv, NextIInv, PTL DEF Spec, ConfirmedIsFinal

(* The mailboxes, adapters and routers of all nodes implement Delivery.    *)
THEOREM DeliveryIsImplemented == Spec => ImplementsDelivery
<1>1. Init => D!DInit
  <2> SUFFICES ASSUME Init PROVE D!DInit
    OBVIOUS
  <2>1. \A n \in Nodes : DOMAIN table[n] = {}
    BY DEF Init, EmptyTable
  <2>2. Rows = {}
    BY <2>1 DEF Rows
  <2>3. QED
    BY <2>2 DEF D!DInit, Submitted, Received, Confirmed, BodiesOf
<1>2. IInv /\ [Next]_vars => [D!DNext]_(D!dvars)
  BY NextStep DEF StepKept, AbstractStep
<1>3. QED
  BY <1>1, <1>2, InitIInv, NextIInv, PTL DEF Spec, ImplementsDelivery, D!DSpec
-----------------------------------------------------------------------------
(* Every mailbox is within its limits, as a fact its steps carry over.     *)
TablesBounded == \A n \in Nodes : Bounded(table[n])

LEMMA EmptyBounded == Bounded(EmptyTable)
<1>1. PICK t, f : t = EmptyTable /\ f = Weights(t)
  OBVIOUS
<1>2. DOMAIN t = {} /\ DOMAIN f = {}
  BY <1>1 DEF EmptyTable, Weights
<1>3. IsFiniteSet({}) /\ Cardinality({}) = 0
  BY FS_EmptySet
<1>4. CountsOn(f, DOMAIN f)
  BY <1>2, <1>3 DEF CountsOn
<1>5. PICK h : Sums(f, DOMAIN f, h)
  BY <1>4, SumsExist
<1>6. SumOf(f) = h[DOMAIN f]
  BY <1>4, <1>5, SumIs
<1>7. h[{}] = 0
  BY <1>2, <1>5 DEF Sums, SumsOver, SumStep
<1>8. Used(t) = 0
  BY <1>1, <1>2, <1>6, <1>7, UsedIs
<1>9. QED
  BY <1>1, <1>2, <1>3, <1>8, CapacityAssumption DEF Bounded

LEMMA OneTableBounded ==
  ASSUME IInv, TablesBounded, NEW n \in Nodes, NEW u, Bounded(u),
         table' = [table EXCEPT ![n] = u]
  PROVE  TablesBounded'
<1>1. DOMAIN table = Nodes
  BY DEF IInv, TypeOK
<1>2. ASSUME NEW p \in Nodes
      PROVE  Bounded(table'[p])
  BY <1>1 DEF TablesBounded
<1>3. QED
  BY <1>2 DEF TablesBounded

LEMMA InitBounded == Init => TablesBounded
BY EmptyBounded DEF Init, TablesBounded

LEMMA NextBounded == IInv /\ TablesBounded /\ [Next]_vars => TablesBounded'
<1> SUFFICES ASSUME IInv, TablesBounded, [Next]_vars PROVE TablesBounded'
  OBVIOUS
<1>1. ASSUME NEW n \in Nodes
      PROVE  TableOK(table[n]) /\ Bounded(table[n])
  BY DEF IInv, TypeOK, TablesBounded
<1>2. ASSUME table' = table
      PROVE  TablesBounded'
  BY <1>2 DEF TablesBounded
<1>3. CASE UNCHANGED vars
  BY <1>2, <1>3 DEF vars
<1>4. ASSUME NEW n \in Nodes, NEW m \in Messages, Submit(n, m)
      PROVE  TablesBounded'
  <2>1. PICK now : table' = [table EXCEPT ![n] = Queue(table[n], n, m, now)]
    BY <1>4 DEF Submit
  <2>2. Bounded(Queue(table[n], n, m, now))
    BY <1>1, QueueBounded
  <2>3. QED
    BY <2>1, <2>2, OneTableBounded
<1>5. ASSUME NEW n \in Nodes, NEW e \in Envelopes, Receive(n, e)
      PROVE  TablesBounded'
  <2>1. PICK now :
          table' = [table EXCEPT ![n] = AcceptVerified(table[n], n, e, now)]
    BY <1>5 DEF Receive
  <2>2. Bounded(AcceptVerified(table[n], n, e, now))
    BY <1>1, AcceptVerifiedBounded
  <2>3. QED
    BY <2>1, <2>2, OneTableBounded
<1>6. ASSUME NEW n \in Nodes, PumpScan(n)
      PROVE  TablesBounded'
  <2>1. PICK now : table' = [table EXCEPT ![n] = Expire(table[n], now)]
    BY <1>6 DEF PumpScan
  <2>2. Bounded(Expire(table[n], now))
    BY <1>1, ExpireBounded
  <2>3. QED
    BY <2>1, <2>2, OneTableBounded
<1>7. ASSUME NEW n \in Nodes, PumpStep(n)
      PROVE  TablesBounded'
  <2>1. CASE PumpBegin(n)
    <3>1. PICK k, now : /\ CanBegin(table[n], k, now)
                        /\ table' = [table EXCEPT ![n] = BeginAttempt(table[n], k)]
      BY <2>1 DEF PumpBegin
    <3>2. k \in DOMAIN table[n]
      BY <3>1 DEF CanBegin, Outstanding
    <3>3. Bounded(BeginAttempt(table[n], k))
      BY <1>1, <3>2, BeginAttemptBounded
    <3>4. QED
      BY <3>1, <3>3, OneTableBounded
  <2>2. CASE ~PumpBegin(n)
    BY <1>2, <1>7, <2>2
       DEF PumpStep, PumpSkip, PumpRaises, Transmit, TransmitNotSent,
           TransmitRaises
  <2>3. QED
    BY <2>1, <2>2
<1>8. ASSUME NEW n \in Nodes, NEW succeeded \in BOOLEAN, Complete(n, succeeded)
      PROVE  TablesBounded'
  <2>1. PICK o : \/ table' = [table EXCEPT ![n] = Handoff(table[n], o.key)]
                 \/ table' = table
    BY <1>8 DEF Complete
  <2>2. Bounded(Handoff(table[n], o.key))
    BY <1>1, HandoffBounded
  <2>3. QED
    BY <1>2, <2>1, <2>2, OneTableBounded
<1>9. ASSUME NEW n \in Nodes, CompleteRaises(n) \/ Crash(n) \/ Tick(n)
      PROVE  TablesBounded'
  BY <1>2, <1>9 DEF CompleteRaises, Crash, Tick
<1>10. QED
  BY <1>3, <1>4, <1>5, <1>6, <1>7, <1>8, <1>9 DEF Next

(* No mailbox outgrows its rows or its bytes, in any order of              *)
(* submissions, arrivals and restarts; the receipt packet that replaces    *)
(* what an existing row keeps is counted too.                              *)
THEOREM MailboxIsBounded == Spec => []MailboxWithinLimits
<1>1. TablesBounded => MailboxWithinLimits
  BY DEF TablesBounded, Bounded, MailboxWithinLimits
<1>2. QED
  BY <1>1, InitIInv, NextIInv, InitBounded, NextBounded, PTL DEF Spec

-----------------------------------------------------------------------------
(* Expiry and the clocks: no row is expired before its deadline, and every *)
(* step treats the rows of each mailbox as ExpiryMoves says, for a time    *)
(* that was read at most Lag ago.                                          *)
ExpiredIsDue ==
  \A n \in Nodes : \A k \in DOMAIN table[n] :
    table[n][k].state = "expired" => table[n][k].body.expires <= clock[n]

ClocksAndExpiry ==
  \A n \in Nodes :
    /\ clock'[n] >= clock[n]
    /\ \E now \in Recent(n) : ExpiryMoves(table[n], table'[n], now)

LEMMA OneTableExpiry ==
  ASSUME IInv, NEW n \in Nodes, NEW u, NEW now \in Recent(n),
         ExpiryMoves(table[n], u, now), table' = [table EXCEPT ![n] = u],
         clock' = clock
  PROVE  ClocksAndExpiry
<1>1. DOMAIN table = Nodes /\ \A p \in Nodes : clock[p] \in Nat
  BY ClockAssumption DEF IInv, TypeOK
<1>2. \A p \in Nodes : clock[p] \in Recent(p)
  BY <1>1, ClockAssumption DEF Recent
<1>3. \A p \in Nodes \ {n} : ExpiryMoves(table[p], table'[p], clock[p])
  BY <1>1 DEF ExpiryMoves
<1>4. table'[n] = u
  BY <1>1
<1>5. QED
  BY <1>1, <1>2, <1>3, <1>4 DEF ClocksAndExpiry

LEMMA SameTablesExpiry ==
  ASSUME IInv, table' = table, \A n \in Nodes : clock'[n] >= clock[n]
  PROVE  ClocksAndExpiry
<1>1. \A n \in Nodes : clock[n] \in Recent(n)
  BY ClockAssumption DEF IInv, TypeOK, Recent
<1>2. \A n \in Nodes : ExpiryMoves(table[n], table'[n], clock[n])
  BY DEF ExpiryMoves
<1>3. QED
  BY <1>1, <1>2 DEF ClocksAndExpiry

LEMMA NextExpiry == IInv /\ [Next]_vars => ClocksAndExpiry
<1> SUFFICES ASSUME IInv, [Next]_vars PROVE ClocksAndExpiry
  OBVIOUS
<1>1. ASSUME NEW n \in Nodes
      PROVE  TableOK(table[n]) /\ clock[n] \in Nat
  BY ClockAssumption DEF IInv, TypeOK
<1>2. ASSUME table' = table, clock' = clock
      PROVE  ClocksAndExpiry
  BY <1>1, <1>2, SameTablesExpiry
<1>3. CASE UNCHANGED vars
  BY <1>2, <1>3 DEF vars
<1>4. ASSUME NEW n \in Nodes, NEW m \in Messages, Submit(n, m)
      PROVE  ClocksAndExpiry
  <2>1. PICK now \in Recent(n) :
          table' = [table EXCEPT ![n] = Queue(table[n], n, m, now)]
    BY <1>4 DEF Submit
  <2>2. PICK u : u = Queue(table[n], n, m, now)
    OBVIOUS
  <2>3. ExpiryMoves(table[n], u, now)
    BY <1>1, <2>2, QueueExpiry
  <2>4. QED
    BY <1>4, <2>1, <2>2, <2>3, OneTableExpiry DEF Submit
<1>5. ASSUME NEW n \in Nodes, NEW e \in Envelopes, Receive(n, e)
      PROVE  ClocksAndExpiry
  <2>1. PICK now \in Recent(n) :
          table' = [table EXCEPT ![n] = AcceptVerified(table[n], n, e, now)]
    BY <1>5 DEF Receive
  <2>2. PICK u : u = AcceptVerified(table[n], n, e, now)
    OBVIOUS
  <2>3. ExpiryMoves(table[n], u, now)
    BY <1>1, <2>2, AcceptVerifiedExpiry
  <2>4. QED
    BY <1>5, <2>1, <2>2, <2>3, OneTableExpiry DEF Receive
<1>6. ASSUME NEW n \in Nodes, PumpScan(n)
      PROVE  ClocksAndExpiry
  <2>1. PICK now \in Recent(n) :
          table' = [table EXCEPT ![n] = Expire(table[n], now)]
    BY <1>6 DEF PumpScan
  <2>2. PICK u : u = Expire(table[n], now)
    OBVIOUS
  <2>3. ExpiryMoves(table[n], u, now)
    BY <1>1, <2>2, ExpireExpiry
  <2>4. QED
    BY <1>6, <2>1, <2>2, <2>3, OneTableExpiry DEF PumpScan
<1>7. ASSUME NEW n \in Nodes, PumpStep(n)
      PROVE  ClocksAndExpiry
  <2>1. CASE PumpBegin(n)
    <3>1. PICK k, now : /\ now \in Recent(n) /\ CanBegin(table[n], k, now)
                        /\ table' = [table EXCEPT ![n] = BeginAttempt(table[n], k)]
      BY <2>1 DEF PumpBegin
    <3>2. PICK u : u = BeginAttempt(table[n], k)
      OBVIOUS
    <3>3. ExpiryMoves(table[n], u, now)
      BY <1>1, <3>1, <3>2, BeginAttemptExpiry
    <3>4. QED
      BY <2>1, <3>1, <3>2, <3>3, OneTableExpiry DEF PumpBegin
  <2>2. CASE ~PumpBegin(n)
    BY <1>2, <1>7, <2>2
       DEF PumpStep, PumpSkip, PumpRaises, Transmit, TransmitNotSent,
           TransmitRaises
  <2>3. QED
    BY <2>1, <2>2
<1>8. ASSUME NEW n \in Nodes, NEW succeeded \in BOOLEAN, Complete(n, succeeded)
      PROVE  ClocksAndExpiry
  <2>1. PICK o : \/ table' = [table EXCEPT ![n] = Handoff(table[n], o.key)]
                 \/ table' = table
    BY <1>8 DEF Complete
  <2>2. clock' = clock
    BY <1>8 DEF Complete
  <2>3. clock[n] \in Recent(n)
    BY <1>1, ClockAssumption DEF Recent
  <2>4. PICK u : u = Handoff(table[n], o.key)
    OBVIOUS
  <2>5. ExpiryMoves(table[n], u, clock[n])
    BY <1>1, <2>4, HandoffExpiry
  <2>6. QED
    BY <1>2, <2>1, <2>2, <2>3, <2>4, <2>5, OneTableExpiry
<1>9. ASSUME NEW n \in Nodes, CompleteRaises(n) \/ Crash(n)
      PROVE  ClocksAndExpiry
  BY <1>2, <1>9 DEF CompleteRaises, Crash
<1>10. ASSUME NEW n \in Nodes, Tick(n)
       PROVE  ClocksAndExpiry
  <2>1. \A p \in Nodes : clock'[p] >= clock[p]
    BY <1>1, <1>10, ClockAssumption DEF Tick, IInv, TypeOK
  <2>2. QED
    BY <1>10, <2>1, SameTablesExpiry DEF Tick
<1>11. QED
  BY <1>3, <1>4, <1>5, <1>6, <1>7, <1>8, <1>9, <1>10 DEF Next

LEMMA NextExpiredIsDue ==
  IInv /\ StepKept /\ ExpiredIsDue /\ ClocksAndExpiry => ExpiredIsDue'
<1> SUFFICES ASSUME IInv, StepKept, IInv', ExpiredIsDue, ClocksAndExpiry,
                    NEW n \in Nodes, NEW k \in DOMAIN table'[n],
                    table'[n][k].state = "expired"
             PROVE  table'[n][k].body.expires <= clock'[n]
  BY DEF ExpiredIsDue, StepKept
<1>1. clock[n] \in Nat /\ clock'[n] \in Nat /\ clock'[n] >= clock[n]
  BY ClockAssumption DEF IInv, TypeOK, ClocksAndExpiry
<1>2. PICK now \in Recent(n) : ExpiryMoves(table[n], table'[n], now)
  BY DEF ClocksAndExpiry
<1>3. now \in Nat /\ now <= clock[n]
  BY <1>1, <1>2 DEF Recent
<1>4. table'[n][k].body.expires \in Nat
  BY EnvelopeType DEF IInv, TypeOK, TableOK, Row, Envelope
<1>5. CASE table'[n][k].body.expires <= now
  BY <1>1, <1>3, <1>4, <1>5
<1>6. CASE k \in DOMAIN table[n] /\ table[n][k].state = "expired"
  <2>1. table[n][k].body.expires <= clock[n]
    BY <1>6 DEF ExpiredIsDue
  <2>2. table'[n][k].body = table[n][k].body
    BY <1>6 DEF StepKept, TablesGrow, Grows
  <2>3. QED
    BY <1>1, <1>4, <2>1, <2>2
<1>7. QED
  BY <1>2, <1>5, <1>6 DEF ExpiryMoves

(* An expired row is past its deadline, and it can come back only from a   *)
(* transaction whose time was read before the deadline: whatever the order *)
(* of scans, arrivals, outcomes and restarts, no longer after the deadline *)
(* than the transaction waited for the database, and never when it did not *)
(* wait.                                                                   *)
THEOREM ExpiryIsFinalUpToLag == Spec => ExpiredIsFinal
<1>1. Init => ExpiredIsDue
  BY DEF Init, ExpiredIsDue, EmptyTable
<1>2. ASSUME IInv, ExpiredIsDue, [Next]_vars,
             NEW n \in Nodes, NEW k \in DOMAIN table[n],
             table[n][k].state = "expired"
      PROVE  /\ table[n][k].body.expires <= clock[n]
             /\ \/ table'[n][k].state = "expired"
                \/ clock[n] < table[n][k].body.expires + Lag
  <2>1. table[n][k].body.expires <= clock[n]
    BY <1>2 DEF ExpiredIsDue
  <2>2. PICK now \in Recent(n) : ExpiryMoves(table[n], table'[n], now)
    BY <1>2, NextExpiry DEF ClocksAndExpiry
  <2>3. k \in DOMAIN table'[n] /\ table'[n][k].body = table[n][k].body
    BY <1>2, NextStep DEF StepKept, TablesGrow, Grows
  <2>4. table[n][k].body.expires \in Nat /\ clock[n] \in Nat
    BY <1>2, EnvelopeType, ClockAssumption
       DEF IInv, TypeOK, TableOK, Row, Envelope
  <2>5. CASE table'[n][k].state # "expired"
    <3>1. now < table[n][k].body.expires
      BY <1>2, <2>2, <2>3, <2>5 DEF ExpiryMoves
    <3>2. now \in Nat /\ clock[n] <= now + Lag
      BY <2>4 DEF Recent
    <3>3. clock[n] < table[n][k].body.expires + Lag
      BY <2>4, <3>1, <3>2, ClockAssumption
    <3>4. QED
      BY <2>1, <3>3
  <2>6. QED
    BY <2>1, <2>5
<1>3. IInv /\ ExpiredIsDue /\ [Next]_vars =>
        [\A n \in Nodes : \A k \in DOMAIN table[n] :
           table[n][k].state = "expired" =>
             /\ table[n][k].body.expires <= clock[n]
             /\ \/ table'[n][k].state = "expired"
                \/ clock[n] < table[n][k].body.expires + Lag]_vars
  BY <1>2
<1>4. IInv /\ ExpiredIsDue /\ [Next]_vars => ExpiredIsDue'
  BY NextStep, NextExpiry, NextExpiredIsDue
<1>5. QED
  BY <1>1, <1>3, <1>4, InitIInv, NextIInv, PTL DEF Spec, ExpiredIsFinal
=============================================================================
