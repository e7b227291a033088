--------------------------- MODULE DirectDelivery ---------------------------
(***************************************************************************)
(* adapter.py over mailbox.py, at every node of a network: applications    *)
(* submit messages, `pump` hands the pending rows to the LXMF router under *)
(* the adapter's lock, the router's threads call back with outcomes and    *)
(* with arriving packets, and a process may die between any two of these   *)
(* steps.  The mailbox survives a crash; the set of active keys, the       *)
(* router's outbound messages and a running pump do not.                   *)
(*                                                                         *)
(* The router and the network are external.  Nothing is assumed of them:   *)
(* a packet handed over may arrive never, once or many times, in any       *)
(* order, even after its sender died, and the outcome reported to the      *)
(* sender says nothing of what the receiving application did with it.      *)
(***************************************************************************)
EXTENDS Mailbox

CONSTANTS MaxClock,   \* bound: the clocks stop here
          Lag         \* how old time.time() may be when the transaction that
                      \* uses it gets the database lock (connect(timeout=5))

ASSUME ClockAssumption == MaxClock \in Nat /\ Lag \in Nat

VARIABLES
  table,      \* Node -> the rows of its mailbox database (durable)
  active,     \* Node -> Adapter.active: keys of rows handed to the router
  router,     \* Node -> outbound messages the router still owes an outcome
  todo,       \* Node -> pending items the running pump has not reached
  current,    \* Node -> the item begin_attempt has just admitted, if any
  clock,      \* Node -> its wall clock
  wire        \* Envelope -> number of LXMF messages submitted carrying it

volatile == <<active, router, todo, current>>
vars == <<table, volatile, clock, wire>>

(* A message inside the router, for the row `key` in its attempt `attempt`. *)
Outbound == [key : Key, attempt : 1..MaxAttempts]

TypeOK ==
  /\ DOMAIN table = Nodes
  /\ \A n \in Nodes : TableOK(table[n])
  /\ active \in [Nodes -> SUBSET Key]
  /\ router \in [Nodes -> SUBSET Outbound]
  /\ todo \in [Nodes -> SUBSET Key]
  /\ current \in [Nodes -> SUBSET Key]
  /\ clock \in [Nodes -> 0..MaxClock]
  /\ wire \in [Envelopes -> Nat]

Init ==
  /\ table = [n \in Nodes |-> EmptyTable]
  /\ active = [n \in Nodes |-> {}]
  /\ router = [n \in Nodes |-> {}]
  /\ todo = [n \in Nodes |-> {}]
  /\ current = [n \in Nodes |-> {}]
  /\ clock = [n \in Nodes |-> 0]
  /\ wire = [e \in Envelopes |-> 0]

(* The values time.time() may have had when a transaction that commits now *)
(* read it.                                                                *)
Recent(n) == {now \in 0..clock[n] : clock[n] <= now + Lag}

(* pump holds the adapter's lock from its scan to its last item. *)
Pumping(n) == todo[n] \cup current[n] # {}

-----------------------------------------------------------------------------
(* The application submits a message to its own mailbox. *)
Submit(n, m) ==
  /\ \E now \in Recent(n) :
       table' = [table EXCEPT ![n] = Queue(@, n, m, now)]
  /\ UNCHANGED <<volatile, clock, wire>>

(* Adapter.receive runs in a router thread and does not take the adapter's *)
(* lock, so it may fall between any two steps of a pump.                   *)
Receive(n, e) ==
  /\ wire[e] > 0
  /\ e.destination = n
  /\ \E now \in Recent(n) :
       table' = [table EXCEPT ![n] = AcceptVerified(@, n, e, now)]
  /\ UNCHANGED <<volatile, clock, wire>>

(* Adapter.pump takes the lock and scans once. *)
PumpScan(n) ==
  /\ ~Pumping(n)
  /\ \E now \in Recent(n) :
       /\ table' = [table EXCEPT ![n] = Expire(@, now)]
       /\ todo' = [todo EXCEPT ![n] = Eligible(table[n], now)]
  /\ UNCHANGED <<active, router, current, clock, wire>>

(* An item already in the router is passed over; so is one whose           *)
(* destination identity is not known yet, which the environment decides.   *)
PumpSkip(n) ==
  /\ current[n] = {}
  /\ \E k \in todo[n] : todo' = [todo EXCEPT ![n] = @ \ {k}]
  /\ UNCHANGED <<table, active, router, current, clock, wire>>

(* Mutant: `if key in self.active: continue` is missing. *)
PumpBeginActive(n) ==
  /\ current[n] = {}
  /\ \E k \in todo[n], now \in Recent(n) :
       /\ CanBegin(table[n], k, now)
       /\ table' = [table EXCEPT ![n] = BeginAttempt(@, k)]
       /\ current' = [current EXCEPT ![n] = {k}]
       /\ todo' = [todo EXCEPT ![n] = @ \ {k}]
  /\ UNCHANGED <<active, router, clock, wire>>

(* begin_attempt reads the row again and spends an attempt before anything *)
(* leaves the node...                                                      *)
PumpBegin(n) ==
  /\ current[n] = {}
  /\ \E k \in todo[n] \ active[n], now \in Recent(n) :
       /\ CanBegin(table[n], k, now)
       /\ table' = [table EXCEPT ![n] = BeginAttempt(@, k)]
       /\ current' = [current EXCEPT ![n] = {k}]
       /\ todo' = [todo EXCEPT ![n] = @ \ {k}]
  /\ UNCHANGED <<active, router, clock, wire>>

(* ...or raises: it finds the row confirmed or expired since the scan, or  *)
(* does not get the database lock in five seconds.  Either error leaves    *)
(* pump at once, and the items behind it wait for the next one.            *)
PumpRaises(n) ==
  /\ current[n] = {}
  /\ todo[n] \ active[n] # {}
  /\ todo' = [todo EXCEPT ![n] = {}]
  /\ UNCHANGED <<table, active, router, current, clock, wire>>

(* transmit hands the envelope to the router and the key becomes active... *)
Transmit(n) ==
  /\ \E k \in current[n] :
       /\ active' = [active EXCEPT ![n] = @ \cup {k}]
       /\ router' = [router EXCEPT ![n] =
                       @ \cup {[key |-> k, attempt |-> table[n][k].attempts]}]
       /\ wire' = [wire EXCEPT ![table[n][k].body] = @ + 1]
  /\ current' = [current EXCEPT ![n] = {}]
  /\ UNCHANGED <<table, todo, clock>>

(* ...or the identity is gone by now: the key is discarded, the attempt    *)
(* stays spent, and the pump goes on...                                    *)
TransmitNotSent(n) ==
  /\ current[n] # {}
  /\ current' = [current EXCEPT ![n] = {}]
  /\ UNCHANGED <<table, active, router, todo, clock, wire>>

(* ...or the router raises: the same, and the pump is abandoned. *)
TransmitRaises(n) ==
  /\ current[n] # {}
  /\ current' = [current EXCEPT ![n] = {}]
  /\ todo' = [todo EXCEPT ![n] = {}]
  /\ UNCHANGED <<table, active, router, clock, wire>>

(* Adapter._complete, called by a router thread with the outcome of one    *)
(* message; it waits for the adapter's lock.                               *)
Complete(n, succeeded) ==
  /\ ~Pumping(n)
  /\ \E o \in router[n] :
       /\ table' = IF succeeded THEN [table EXCEPT ![n] = Handoff(@, o.key)]
                                ELSE table
       /\ active' = [active EXCEPT ![n] = @ \ {o.key}]
       /\ router' = [router EXCEPT ![n] = @ \ {o}]
  /\ UNCHANGED <<todo, current, clock, wire>>

(* The same for a handoff whose transaction does not get the lock: it      *)
(* raises before active.discard, and this process passes the row over from *)
(* now on.                                                                 *)
CompleteRaises(n) ==
  /\ ~Pumping(n)
  /\ \E o \in router[n] : router' = [router EXCEPT ![n] = @ \ {o}]
  /\ UNCHANGED <<table, active, todo, current, clock, wire>>

(* The process dies and is started again over the same database. *)
Crash(n) ==
  /\ active' = [active EXCEPT ![n] = {}]
  /\ router' = [router EXCEPT ![n] = {}]
  /\ todo' = [todo EXCEPT ![n] = {}]
  /\ current' = [current EXCEPT ![n] = {}]
  /\ UNCHANGED <<table, clock, wire>>

Tick(n) ==
  /\ clock[n] < MaxClock
  /\ clock' = [clock EXCEPT ![n] = @ + 1]
  /\ UNCHANGED <<table, volatile, wire>>

PumpStep(n) ==
  \/ PumpSkip(n) \/ PumpBegin(n) \/ PumpRaises(n)
  \/ Transmit(n) \/ TransmitNotSent(n) \/ TransmitRaises(n)

Next ==
  \E n \in Nodes :
    \/ \E m \in Messages : Submit(n, m)
    \/ \E e \in Envelopes : Receive(n, e)
    \/ PumpScan(n)
    \/ PumpStep(n)
    \/ \E succeeded \in BOOLEAN : Complete(n, succeeded)
    \/ CompleteRaises(n)
    \/ Crash(n)
    \/ Tick(n)

Spec == Init /\ [][Next]_vars
(* Fairness.  Time passes, the caller runs pump again after every pump     *)
(* (the endpoint's loop does, every turn), and a pump that started ends.   *)
Fairness ==
  \A n \in Nodes : /\ WF_vars(Tick(n))
                   /\ WF_vars(PumpScan(n))
                   /\ WF_vars(PumpStep(n))

FairSpec == Spec /\ Fairness

-----------------------------------------------------------------------------
Rows == UNION {{table[n][k] : k \in DOMAIN table[n]} : n \in Nodes}

BodiesOf(direction, states) ==
  {r.body : r \in {r \in Rows : /\ r.direction = direction
                                /\ r.body.kind = "data"
                                /\ r.state \in states}}

Submitted == BodiesOf("out", States)
Received  == BodiesOf("in", States)
Confirmed == BodiesOf("out", {"confirmed"})

D == INSTANCE Delivery WITH submitted <- Submitted, received <- Received,
                            confirmed <- Confirmed

(* The mailboxes, pumps and routers of all nodes, crashes included,        *)
(* implement what Delivery promises: an id names one content, a message is *)
(* taken in only after it was submitted and confirmed only after it was    *)
(* taken in, and none of the three is ever withdrawn.                      *)
ImplementsDelivery == D!DSpec

(* A confirmed message is in its destination's inbox with the same content *)
(* (the `confirmed` state of mailbox.py is end to end, whatever the router *)
(* reported about its packets).                                            *)
ConfirmedWasReceived == Confirmed \subseteq Received

(* The inbox row and the receipt owed for it exist together or not at all, *)
(* also when the mailbox reaches a limit between the two inserts.          *)
InboxHasReceipt ==
  \A n \in Nodes, m \in Messages :
    RowKey("in", m) \in DOMAIN table[n]
      <=> /\ RowKey("out", ReceiptEnvelope(m)) \in DOMAIN table[n]
          /\ m.destination = n

(* Over all crashes, restarts and repeated deliveries an envelope is given *)
(* to the router at most MaxAttempts times: the budget is spent before the *)
(* packet leaves and is never given back.                                  *)
SendsWithinBudget ==
  \A e \in Envelopes :
    wire[e] > 0 =>
      LET k == RowKey("out", e) IN
      /\ k \in DOMAIN table[e.source]
      /\ wire[e] <= table[e.source][k].attempts
      /\ table[e.source][k].attempts <= MaxAttempts

(* An outcome that arrives is that of the row's latest attempt: a key in   *)
(* the router stays active, so no second attempt begins behind it, even    *)
(* when a repeated delivery requeues the row meanwhile.                    *)
OutcomeIsLatest ==
  \A n \in Nodes : \A o \in router[n] :
    /\ o.key \in active[n]
    /\ o.key \in DOMAIN table[n]
    /\ o.attempt = table[n][o.key].attempts

(* Both limits hold after every transaction, the one that stores a receipt *)
(* packet in a row that already exists included.                           *)
MailboxWithinLimits ==
  \A n \in Nodes : /\ Cardinality(DOMAIN table[n]) <= MaxRows
                   /\ Used(table[n]) <= MaxBytes

(* No step loses a row or changes what it carries, and nothing demotes a   *)
(* confirmed row: not a late outcome, an expiry scan or a repeated         *)
(* receipt.                                                                *)
ConfirmedIsFinal ==
  [][\A n \in Nodes : \A k \in DOMAIN table[n] :
       /\ k \in DOMAIN table'[n]
       /\ table'[n][k].body = table[n][k].body
       /\ table[n][k].state = "confirmed" => table'[n][k].state = "confirmed"]_vars

(* A row is expired only once its deadline has passed, and an expired row  *)
(* comes back (a packet or a repeated delivery whose time was read before  *)
(* the lock wait) only while the clock is within that wait of the          *)
(* deadline.  Read under the lock (Lag = 0) the two exclude each other:    *)
(* decode and pending agree on the first instant at which an envelope is   *)
(* dead, and expiry is final.                                              *)
ExpiredIsFinal ==
  [][\A n \in Nodes : \A k \in DOMAIN table[n] :
       table[n][k].state = "expired" =>
         /\ table[n][k].body.expires <= clock[n]
         /\ \/ table'[n][k].state = "expired"
            \/ clock[n] < table[n][k].body.expires + Lag]_vars

(* Every outgoing row is confirmed or expired in the end, a row whose      *)
(* attempts are spent or lost in a crash included.                         *)
EveryRowSettles ==
  \A n \in Nodes, e \in Envelopes :
    LET k == RowKey("out", e) IN
    <>[](k \in DOMAIN table[n] => table[n][k].state \in Settled)
=============================================================================
