# TLA+ models and proofs of Dethron

Dethron delivers messages over Reticulum/LXMF and lets the sender *know*, by
signed proofs kept as files, whether a message entered the network (a relay's
custody attestation) and whether it left it (the recipient's receipt). These
modules model the code in `src/src/dethron/` that carries that claim. TLC checks
them on small instances; TLAPS proves the main safety properties for every value
of their constants.

## 1. The system

| Component | State | Operations | Modelled in |
| --- | --- | --- | --- |
| Envelopes, `protocol.py` | none | `encode`, `decode`, `receipt_envelope` | `Protocol` |
| Mailbox, `database.py`, `mailbox.py` | SQLite table of rows: direction, body, state, attempts, kept packet | `queue`, `accept_verified`, `pending`, `begin_attempt`, `handoff` | `Mailbox` |
| Adapter, `adapter.py` | set of active keys, a lock (memory) | `receive`, `pump`, `transmit`, `_complete` | `DirectDelivery` |
| Custody, `custody.py`, `handlers.py`, `Node.custody_of` | relay: answer threads, `issued.json` (only written); origin: `expected` (memory), `custody/<tid>.lxmf`, its `.relay` sidecar, the record | `request_custody`, `answer_custody`, `collect_custody`, `custody_of` | `Custody` |
| Parts, `parts.py`, `erasure.py` | none | `split`, `parity_split`, `reconstruct`, lengths in `validate` | `Splitting` |
| Assembly, `assembly.py` | SQLite tables of objects and parts | `accept_verified`, `content` | `Assembly`, `Reassembly` |
| Receiver, `receiver.py` | `packets/`, `output.bin`, `completion.lxmf`, `completion.json` | `receive`, `status` | `Receiver` |
| Delivery protocol, `node.py` | the files above, the LXMF router | `send`, `custody_of`, `fetch`, `publish_receipt`, `collect`, `on_delivery` | `RelayDelivery`, with `Custody` and `Receiver` |
| Receipts at the origin, `handlers.py` | `recipients.json`, `receipts/` | `remember_recipient`, `collect_receipt`, `publish_receipt` | `RelayDelivery` |
| Record, `endpoint.py` | rows in memory, `events.jsonl` | `emit`, `wait`, `wait_for`, `await_path` | as `custody_of` and `send` use it |
| Audit, `audit.py` | none (reads files) | `_object`, `_custody`, `_receipts` | `ObjectCheck` in `Receiver`, `CustodyCheck` in `Custody`, `ReceiptCheck` in `RelayDelivery` |
| Authentication, `wire.py` | none | `authenticate` | as the conditions it puts on a packet, in `RelayDelivery`, `Custody`, `Receiver` |
| Command line, `cli.py` | none | `send`, `fetch`, `receipts` | as the sessions of `RelayDelivery` |
| `config.py`, `lxmf_stamp.py` | none of their own | text, a library patch | not modelled (section 7) |

**How they interact.** There are two ways to deliver. *Direct* (the G1 slice):
the application queues a message in its `Mailbox`; `Adapter.pump` hands rows to
the LXMF router; threads of the router call `Adapter.receive` at the other end,
which writes the message and the receipt it owes in one transaction; the receipt
comes back the same way and confirms the row. *Through relays* (`Node`): `send`
leaves an object with a relay; `custody_of` asks that relay for an attestation;
the recipient's `fetch` collects the parts, the `Receiver` puts the object
together and writes a receipt; `publish_receipt` sends it back through a relay,
where the origin's `collect` picks it up. The halves share `protocol.py`.

**What is hard in it.** Router threads call back at any time, so a callback falls
between any two steps of `pump`, of another callback, or of a call that waits.
State is read, and used after it may have changed: a pending list, a store entry,
a record row, a clock. A database transaction is atomic; the files beside it are
written one by one and *in place*, emptied first and then filled, and a process may
end between any two of these steps. Packets are
lost, repeated and reordered, attempts and capacities are bounded, and everything
has a deadline. `PROJECT.json` lists these hazards one by one, at their lines.

What makes each part correct:

- *Mailbox and adapter*: `confirmed` means that the destination has this content
  and is never withdrawn; inbox row and receipt are written together; no more
  than `MAX_ATTEMPTS` submissions whatever crashes; an outcome belongs to the
  latest attempt; the limits hold; every outgoing row settles.
- *Custody*: an attestation is true of the relay's store; what an origin acts on
  is backed by files; a proof of entry gives way to another one only.
- *Parts, assembly and receiver*: enough chunks give back exactly the bytes that
  were split; a receipt is only ever for an object put together from the chunks
  its origin sent; limits hold; nothing assembled is lost or mixed.
- *Relays, end to end*: a receipt the origin keeps is from a recipient whose object
  it did leave with a relay, over what that recipient put together; whom it sent to
  is known to every later process; a proof of exit gives way to another one only;
  an audit agrees; and what a relay keeps ends as a proof at the sender, however the
  sessions of the two sides fall.

## 2. The modules

```
Protocol <- Delivery            the abstract promise of direct delivery
   ^          ^
   |          : refined by
Mailbox <- DirectDelivery <- MCDirectDelivery
   ^            ^
MailboxProofs <- DirectDeliveryProofs

Custody <- CustodyProofs
   : refines
ProofOfEntry                    the abstract promise of custody

Assembly <- Receiver <- Reassembly <- MCReceiver         Splitting <- Reassembly
               ^          ^     ^                            ^
    ReceiverProofs <- ReassemblyProofs -------------> SplittingProofs
                          ^     |
                          |     RelayDelivery <- MCRelayDelivery
                          |     ^    : refines
        RelayDeliveryProofs ----+    EntryAndExit    the abstract promise of delivery by relay
```

(`A <- B`: B extends A. `Disk` is below `Custody` and `Receiver`. `NumberProofs`,
below `MailboxProofs` and `SplittingProofs`, holds facts about least numbers and
sums.)

Every function that is one `BEGIN IMMEDIATE` transaction is an *operator* from a
table to a table, and a transaction that raises returns the table it was given
(`Mailbox`, `Assembly`). The modules above them give one *action* to each step
that other threads can see: a transaction, a file opened, a file written, a message
handed over.

### Disk

`Path.write_bytes` and `write_text` open the file, which makes or empties it, and then
write from its beginning. A file is therefore known by the set of contents that it has
bytes of: none when it was just opened, or was left so by a process that died; one when
it is whole; two when two writers had it open and the later content is the shorter one,
so that the tail of the earlier one still shows (`Written` allows for both lengths).
`Whole` is what a reader can make out. `output.bin`, `completion.json`, the packets and
sidecars of `custody/` and the receipts of `receipts/` are such files, and every write
of one is two actions. A file cut short in the middle of its write is not told apart
from an empty one: no reader takes either for anything. `recipients.json` has the same
two steps, with a flag for its being whole. (It is written by the caller of `send`,
one at a time.)

### Protocol, Mailbox, Delivery, DirectDelivery

An envelope is a record of its kind, id, endpoints, deadline and digest. SHA-256
is taken as injective, so a digest stands for the content it names, and signatures
as unforgeable, so an envelope on the wire was put there by its source.

A mailbox is a function from keys (`row_key`) to rows. `DirectDelivery` holds a mailbox,
an active set, the router's outstanding messages and a running pump (`todo`, `current`)
for each node. `pump` is cut at every point where a callback may fall: `PumpScan`
(`pending`), then for each item `PumpSkip` (active, or no identity), `PumpBegin`
(`begin_attempt`) or `PumpRaises`, then `Transmit`, `TransmitNotSent` or
`TransmitRaises`. `PumpRaises` and `CompleteRaises` stand also for a database whose lock
is not free within its five seconds; after the second the key stays active as long as
the process lives. `_complete` waits for the adapter's lock, so `Complete` is disabled
while a pump runs; `receive` takes no lock, so `Receive` is always enabled. `wire`
counts how often each envelope was given to the router; once there it can be received
any number of times, in any order, or never. `Crash` forgets what is in memory.

`time.time()` is read before a transaction waits for the database lock, so the
`now` a transaction uses may be up to `Lag` old (`Recent`).

`Delivery` says what all this is for, with three sets of messages: submitted,
received, confirmed. `ImplementsDelivery` is its instance over the rows of the
mailboxes, and every step of `DirectDelivery` is a step of it or a stutter.

### Custody, ProofOfEntry

Origins ask relays whether they hold a message. The thread of `answer_custody`
is cut where it can be overtaken: it waits for the entry (`FindEntry`, or
`Refuse` when it gives up), reads the file the entry named (`Attest`, or
`AnswerRaises` when it is gone or the envelope would be invalid), and sends the
answer (`SendReply`). The store is external: `Stored` and `Purged` happen at any
time. At the origin `custody_of` is `AskCustody`, then `CallReturns` or
`CallTimesOut`; `collect_custody` is `CollectReply` (the checks, and the packet is
opened), `WritePacket`, `OpenSidecar`, `NameRelay` (the sidecar is written) and
`EmitRow`, and any number of such callbacks are in `saving` at once. `OriginCrash`
keeps the files as they are and forgets the rest. A name `custody/<tid>.lxmf` is the pair
`<<tid, kind>>`, and a signature is the relay named in the answer.

`ProofOfEntry` is what custody promises, with four variables: what was asked, what
relays held and since when, what they attested, and the attestation an origin keeps
of each message. An origin keeps an attestation (`Keep`), and may give it up (`GiveUp`)
where another one about the same message was made: that is what the opening of
`custody/<tid>.lxmf` for a second answer does, and if the process dies there both are
lost. Threads, refusals, purges, sidecars and restarts are stutters of it;
`ImplementsProofOfEntry` is its instance over the questions, the answers sent and the
whole files of `Custody`.

### Assembly, Receiver

A part is a manifest and an index, as `validate` lets them through. Manifests
are those `split` and `parity_split` make, so enough chunks always pass the hash
of the whole. `Receiver` follows a thread of `receive` from its transaction
(`Receive`) to the content it reads back (`ReadContent`) and the two files that are
read by somebody (`OpenOutput`, `WriteOutput`, `OpenEnvelope`, `WriteEnvelope`); threads
overlap and die at any of these. `FetchBegins`, `FetchReturns` and `FetchTimesOut` are
`Node.fetch`, which polls for `output.bin` to exist, whole or not; what
`publish_receipt` reads is `Whole(envelope)`, in `RelayDelivery`.

### Splitting, Reassembly

`Splitting` is `split`, `parity_split` and `reconstruct` over bytes, where a byte is
the set of its bits and XOR the symmetric difference, with the padding of odd
lengths; `LengthsValidate` is what `validate` asks of the lengths in a manifest.
`Reassembly` puts the bytes under `Receiver`: every digest has a content,
and `ResultIsTheObject` compares what `reconstruct` makes of the chunks that came
with the content they were split from. `Assembly` only counts chunks; this is what
justifies it.

### RelayDelivery, EntryAndExit

`RelayDelivery` extends `Reassembly`, and so `Receiver`, whose directory is that of the
one recipient followed in detail, by an origin, by relays, and by other recipients seen
from outside. `send` is cut where other threads or the end of the process may fall:
`Send` (`remember_recipient` up to the opening of `recipients.json`), `Remember` (the
file is whole again), `NoPath` or `HandOver` (the message goes to the router, and
`wait_for` looks at the rows there are), then `SendReturns` or `SendTimesOut`. The
router hands a message over when it gets to it, to the relay that is set *then*
(`HandsOff`), perhaps without learning of it, or gives up (`RouterFails`). `Fetch`,
`Deliver`, the steps of `Receiver` and `Publish` are the recipient; `Collect`,
`CollectReceipt` (the checks, and `receipts/<id>.lxmf` is opened) and `KeepReceipt` (it
is written) are the origin coming back. `OriginCrash` and `RecipientCrash` may happen
anywhere, and a new process starts only if it can load `recipients.json` (`up`); in
between neither needs to run while the other does. The relays' stores are external: they
take what routers hand them and need never give it out.

`EntryAndExit` is the README's table of states: an object enters, then may leave,
then may be proved to have left; a proof is given up (`GiveUp`) only where another one
for its id is due. `ImplementsEntryAndExit` is its instance over `entered` (all mail of
the origin a relay took), what recipients completed, and the whole files in
`receipts/`. `KeptReceiptIsForTheBytes` follows a receipt through all of these
modules, from the file at the origin to the bytes at the recipient.

## 3. The runs

| Run | What it asks | Result |
| --- | --- | --- |
| `direct_delivery` | types, five invariants, `ConfirmedIsFinal`, refinement of `Delivery` | holds |
| `direct_delivery_live` | `EveryRowSettles`, `ExpiredIsFinal` | holds |
| `custody` | types, `AttestedWasHeld`, `RowsAreBacked`, `ReturnedIsAnAnswer`, `OneRelayRechecks`, `ProofGivesWayToProof`, refinement of `ProofOfEntry` | holds |
| `custody_silence` | `NeverSilence` | violated |
| `custody_stale_answer` | `ReturnsAnswerOfRelayAsked` | violated |
| `custody_evidence` | `EvidenceRechecks` | violated |
| `receiver` | types, `ReceiptMeansReconstructed`, `OutputWasReconstructed`, `OneObjectAudits`, `AssemblyWithinLimits`, `ResultIsTheObject`, `AssemblyIsStable` | holds |
| `receiver_audit` | `AuditPasses` | violated |
| `fetch_before_receipt` | `FetchedWithReceipt` | violated |
| `relay_delivery` | types, `KeptReceiptIsProof`, `KeptReceiptIsForTheBytes`, `SentToIsRemembered`, `ReceiptsRecheck`, `SendNamesAnEntry`, `ProofOfExitIsStable`, refinement of `EntryAndExit` | holds |
| `relay_delivery_live` | `ReceiptReachesSender`, `EntryIsProved` | holds |
| `send_stale_handoff` | `SendReturnsWhenTaken` | violated |

The six violated properties each restate a sentence of a docstring or a comment;
`findings` in `PROJECT.json` quotes it and tells the shortest story TLC found.
Four are about something read or written in two steps; `custody_stale_answer` and
`send_stale_handoff` are about a wait that takes the first row of the record that
looks right. None makes a false proof: the proofs the passing runs check stay true
in all of those behaviours.

Three of them have a counterpart that holds, which says how far the defect goes.
`EvidenceRechecks` fails where two relays answered about one message, or in a process
that died between two writes; `OneRelayRechecks` says that where one relay answered,
files that pass the audit go on passing it, but for a callback that is saving one of
them and a process that dies in that. `AuditPasses` fails where two objects meet in one
directory; `OneObjectAudits` says that with one object the directory goes on passing,
but for a delivery that is between its files and a process that dies there.
`ReturnsAnswerOfRelayAsked` fails for a stale row; `ReturnedIsAnAnswer` says that what
`custody_of` returns answers some question this process put about that message.

Since every file is written in place, no property says that a file is always whole or
never lost: a process that dies while it writes one loses what was in it before, also
when it was about to write the same again. What the properties do say is that *nothing
else* does this. `ProofGivesWayToProof`, `ProofOfExitIsStable`, `OneRelayRechecks`,
`OneObjectAudits` and `ReceiptsRecheck` are action properties for that reason: they name
the steps that may take a proof, or an audit that passes, away (the opening of the very
file by an answer that passed all checks, and the end of the process in its write) and
exclude every other step, of any order and overlap. Where two answers of different
lengths were being written to one file at once, the mix that may result fails the audit
too; `OneRelayRechecks` and `ReceiptsRecheck` leave it out, in so many words.

Every property of a passing run has a mutant, a plausible slip in one mapped
definition, under which TLC finds it violated. Mutants that need a body of their
own stand just before the definition they replace and are marked as such.

### Bounds, and why they are enough

- `direct_delivery` (235 028 states): two nodes, three messages one way, two of
  them with the same id and different contents, so that conflicts happen; room
  for three rows and 11 bytes, with lengths chosen so that an inbox row fits
  where its receipt does not and a confirmation can be refused for want of room;
  two attempts, so that one is spent, one lost and one left over; clocks up to 1,
  past the deadline of one message, with `Lag` 1. The second message with its own
  id makes a pump have items behind the one that raises.
- `direct_delivery_live` (74 960 states): messages both ways, clocks up to 3, which
  is past every deadline by more than `Lag`, and `Lag` 1. So a receipt decoded before
  the deadline does confirm a row that a later scan has expired, and `ExpiredIsFinal`
  says how long that may happen: while the clock is less than `Lag` past the deadline.
- `custody` (1 346 210 states): one origin, two relays, one message, two
  questions, deadlines at clock 2. Two questions are what it takes for an answer
  to be late for one and early for the other, for one relay to attest and the
  other to refuse, and for a message to leave and come back under a thread. A
  second origin shares no variable with the first but the relays' threads, which
  do not read each other's requests.
- `receiver` (135 804 states): contents of odd length, so that exact chunks differ
  in length and parity is padded; an object in two exact parts, another content
  under its id, one in three parity parts with a nearer deadline, and another
  origin that uses the same id; room for two objects and 14 bytes, which two
  complete objects fit and one part more does not; two deliveries at a time.

- `relay_delivery` (516 194 states): alice sends one file of one part to bob, whose
  directory is followed, and to dave; carol has left another content under the same id
  for dave, who took it before (`OtherMail`); and receipts always go to alice's contact,
  which is the wrong one for carol's. So a receipt of something alice never sent, and
  receipts of two recipients under one name, both come to be. One relay, one delivery at
  a time. The clock stands still, before the deadline: here it does nothing but close
  guards, and a step that a passed deadline forbids is a step that a behaviour may leave
  out anyway; `receiver`, `custody` and `relay_delivery_live` have it pass. A second
  relay, measured, is too large for this run; the relays differ only in what they hold,
  and the proofs have no such bound. So is a file in two parts: that nothing is put
  together before it is complete, and that the chunks make up the bytes, is what
  `receiver` asks (`OutputWasReconstructed`, `ResultIsTheObject`), over objects of one,
  two and three parts.
- `relay_delivery_live` (18 754 states): one file, bob, one relay, the deadline at clock
  1. Time is not fair, so the deadline may pass at any moment or never; the properties
  end there, since what is delivered at all must be delivered in time, and no fairness
  says how often a process may end before that.
- `send_stale_handoff`: two files under one label, two relays.

`MaxClock`, `MaxRequests` and `MaxThreads` are the bounds that the code does not
have; each stands in the guard of the action it bounds. Deadlock is checked in
every run.

### Fairness

`FairSpec` of `DirectDelivery`: time passes (`WF Tick`), the
caller calls `pump` again after each pump (`WF PumpScan`: `G1_INTEGRATION.md`
leaves the schedule to the caller, and a caller who stops calling it stops
expiry too), and a pump that began goes on to its end (`WF PumpStep`: it is a
loop with no wait for another party). Nothing is assumed of the router, the
network, the receiving node or the applications. Outcomes need not arrive:
expiry alone settles a row whose outcome never comes, or came and could not be
written.

`RelayFairSpec` of `RelayDelivery`: a call of `send` ends (`WF CallStep`: each of its
waits has a deadline), and so do a fetch that gets nothing (`WF FetchTimesOut`) and a
session of the recipient (`WF RecipientCrash`; `cli.py` ends after one command).
Sessions may be cut short any number of times, so a step is only *possible again and
again*, and what is assumed of it is strong fairness: the origin comes back to the
faithful relays, the recipient fetches from them and publishes to them, and in some
session each lasts to the next step. For the files this means that a receipt that was
opened again and again is at some time written (`SF KeepReceipt`), that of the
deliveries that have content to write one is at some time seen through to its last file
(`SeenThrough`), and that some fetch returns while the receipt is whole. That is callers
who keep trying, as the README has Alice "come back later" for the receipt; a relay is
`Faithful` when it keeps what it took and hands it over again, also after a process that
had taken it has ended. Nothing is assumed of other relays, nor that `send` is called at
all.

## 4. What is proved

TLAPS proves these for every set of nodes, messages, relays and parts, all
limits and all clocks.

- `DirectDeliveryProofs`, on the operator lemmas of `MailboxProofs`: `TypeOK`,
  `ConfirmedWasReceived`, `SendsWithinBudget`, `OutcomeIsLatest`, `InboxHasReceipt`,
  `ConfirmedIsFinal`, `ExpiredIsFinal`, and `ImplementsDelivery`, the refinement of
  `Delivery`. No invariant of these is inductive alone. `IInv` is `TypeOK` with
  `RowsJustified` (each row is at the node it belongs to, an inbox row has its sender's
  row and its receipt, a confirmed row has its inbox row), `WireJustified` (what travels
  has a row at its source), `AttemptsSpent` (counting the item just begun, never more
  packets than attempts) and `OutcomeIsLatest`. `AttemptsSpent` is needed because the
  attempt is written one step before the packet leaves; `RowsJustified` carries a
  confirmation back through the receipt to the inbox row. `MailboxProofs` states what
  each transaction does to a table: that it grows, keeps bodies, and confirms nothing
  but by a matching receipt.
- `ExpiredIsFinal`, for every `Lag`: no clock goes back, so a row found expired has a
  deadline behind it (`ExpiredIsDue`, an invariant of its own), and each transaction is
  looked at for what it can do to such a row: only one that took a packet in with a
  `now` before the deadline brings it back, and `Recent` bounds how old a `now` is.
- `MailboxWithinLimits`, in the same module. The bytes used are a fold over the rows,
  whose order the code does not fix. `NumberProofs` shows that the sum does not depend
  on it (by the smallest set on which two orders could differ, since induction over
  sets is out of reach), so an insertion adds exactly what it brings, and a receipt
  packet replaces exactly what its row had kept. It is inductive with `IInv`.
- `CustodyProofs`: `TypeOK`, `AttestedWasHeld`, `RowsAreBacked`, `ReturnedIsAnAnswer`,
  `OneRelayRechecks`, `ProofGivesWayToProof`, and `ImplementsProofOfEntry`. `IInv` is
  `TypeOK`, the finiteness of `asked` (fresh ids are its size plus one), `Truth` (what a
  thread has found was held, so the answer it composes and sends, and an origin keeps, is
  true) and `Evidence` (a packet is kept under its own name, and what is on disk for an
  answer at each step of its callback: a file it has written has bytes, unless another
  callback has it open). `Exchange` is inductive with it: every
  answer on its way, in a file or about to be named answers a question that was asked
  (`Asking`), of this process where it has reached memory (`Collecting`), and a sidecar
  names a relay its origin did ask about that message (`Naming`), which is the signer
  when there is only one. For the refinement, each action is one step of `ProofOfEntry`
  or a stutter: `AskCustody` asks, `Stored` holds, `SendReply` of an attestation attests,
  `WritePacket` of one keeps it, or gives up the one before where the two mix, and
  `CollectReply`, which empties the file, gives up what was there: it is another
  attestation, since the network delivers none twice. The same lemmas about what
  `CollectReply` opens (`Opened`) and `WritePacket` fills (`Filled`) give
  `ProofGivesWayToProof` and `OneRelayRechecks`.
- `ReceiverProofs`: `TypeOK`, `ReceiptMeansReconstructed`, `OutputWasReconstructed`,
  `OneObjectAudits`, `AssemblyWithinLimits` and `AssemblyIsStable`. `IInv` adds that a
  completed object has enough chunks, that a thread past its transaction has its object
  in the database, that one past `content` has it complete, that there are bytes in
  `completion.json` only of receipts owed for complete objects (`ReceiptsAreOwed`), and
  that a thread past `output` has left `output.bin` there, empty only while another has
  it open (`OutputIsThere`). The lemma `CountingIsEnough` links the code's test, which
  counts chunks, to the meaning used in the properties: all of them, or two different
  ones.

- `SplittingProofs`: `SplitTiles` (every chunk has a byte, every byte is in one
  chunk, and the lengths add up to the size, as `validate` asks), `SplitJoins` (the
  chunks in order are the content), `ParityValidates` (what `parity_split` makes passes
  `validate`) and `ParityRecovers` (any two of three), for every length and count. What
  `Joined`, a recursive function, computes is shown by giving the function it must be;
  the sum of the lengths by the least number of chunks at which it could be another
  than where the last one ends.
- `ReassemblyProofs`: `ResultIsTheObject`, from those and from `ReceiverProofs`.
- `RelayDeliveryProofs`: `RelayTypeOK`, `KeptReceiptIsProof`, `KeptReceiptIsForTheBytes`
  (with `ReassemblyProofs`), `SentToIsRemembered`, `ReceiptsRecheck`,
  `SendNamesAnEntry`, `ProofOfExitIsStable`, and `ImplementsEntryAndExit`. `RelayInv`
  follows a receipt backwards: what has bytes in a file, or is being written to one, is
  a receipt that a relay took and that passed the checks of `collect_receipt` (`Taken`,
  `KeptOK`); a receipt on its way was signed by a recipient over something put together
  (`MailOK`); what was put together came in parts that a relay had taken for that
  recipient (`Sent`); and whom a relay took something for was remembered before, in
  memory and in a file that is whole (`KnownOK`). Every step of `RelayDelivery` is a
  step of `Receiver` or leaves its directory alone, so `IInv` of `ReceiverProofs`
  carries over. For the refinement, one step of the recipient completes at most one
  object, and the lemmas say which; `CollectReceipt` gives up the proof of its id and
  `KeepReceipt` proves it anew, or leaves a mix that proves nothing.

The assumptions are those the modules name: `MessagesAssumption`,
`CapacityAssumption` and `ClockAssumption`; `CustodyAssumption`;
`PartsAssumption`, `AssemblyCapacityAssumption`, `ReceiverAssumption`,
`ContentAssumption` and `RelayAssumption`. They
say that constants are of their types, that a part's index is below its
manifest's count and that a parity manifest has three chunks (`validate`). TLC
evaluates them in every run.

## 5. What is only model-checked

`EveryRowSettles`, `ReceiptReachesSender` and `EntryIsProved` (liveness under
fairness is out of TLAPS's reach here) and the six violations. Every invariant, action
property and refinement that a passing run checks is stated by a theorem.

## 6. What the models assume of the environment

- LXMF's router and the network lose, delay and reorder. In `DirectDelivery` and
  `Receiver` they also repeat; in `Custody` they do not, since the router drops
  messages it has seen. Callbacks of two messages may run at the same time.
- Keys and signatures are unforgeable and SHA-256 is injective.
- SQLite transactions are atomic and durable. In `DirectDelivery` one may fail to
  get the lock; `Receiver` takes it as got, and `EveryRowSettles` that a scan gets
  it in the end.
- Every file that something reads is opened with truncation and then written, as
  `Path.write_bytes` and `write_text` do, and other threads and the end of the process
  fall between the two (`Disk`). The bytes of one write go into the file at once or not
  at all. A process that ends while it writes `recipients.json` leaves a file no later
  process can load: all its recipients are lost, and `SentToIsRemembered` and
  `ReceiptReachesSender` speak only of a file that is whole and of processes that could
  start. Contacts have one length, so one sidecar covers another. Power loss, after
  which a file that was closed may still be lost, is not modelled.
- In `RelayDelivery` a router looks up the relay when it hands a message over, and a
  relay need not hand over what it holds.
- One clock for all nodes in `Custody`, one per node in `DirectDelivery`; no
  clock goes back (`G1_INTEGRATION.md` says as much).
- In `Assembly` all manifests have one length and all parts another: the capacity
  check adds them up and compares, whatever they are.

## 7. What is not modelled

- *Parsing and well-formedness* (`decode`'s field checks, `validate` but for the
  lengths, base64, contacts and relays as text): an envelope or a part is
  well formed by construction, and one that is not is refused before any state
  changes.
- *Sizes of messages* but for the mailbox's and the assembly's limits: in particular
  that a router keeps messages larger than `attest` can state.
- *Cryptography*: `authenticate` is the conditions it checks, a signature its author.
- *`config.py`* (formats a text file), *`lxmf_stamp.py`* (patches a library whose
  source is not part of the repository), and in `cli.py` the parsing of arguments and
  the commands `identity`, `relay` and `verify`, which keep no state of a delivery.
- *`whole` mode of the receiver*, which only the laboratory uses; a node that is
  sender and receiver at once (`receive=True` hands everything to its receiver).
- *What `publish_receipt` returns* (the row of its wait), and the digest that `status`
  reports of `output.bin` to `fetch`.
- *`packets/`, `completion.lxmf` and `issued.json`*: the receiver's copies of what it
  took and signed, and the relay's of what it answered. No code reads them.
- *`events.jsonl`*, *`snapshot`* and *`status`*: reports that no code reads back.

## 8. What would come next

1. Several callers of `wait` in one process, over a record of their own module.
2. Two relays in `relay_delivery` and in its liveness run, with symmetry of
   relays for the first.
3. A busy database under `Assembly`, as `DirectDelivery` has it.
4. `Custody` and `RelayDelivery` composed: the store of the one is the `stored` of the
   other, so that a proof of entry and a proof of exit are of one object.
