------------------------------ MODULE Receiver ------------------------------
(***************************************************************************)
(* receiver.py over assembly.py, in the directory of one recipient, with   *)
(* fetch of node.py, which polls for what it writes.                       *)
(* The LXMF router delivers a part in a thread of its own, any number of   *)
(* times (an origin may send it again), and two deliveries may overlap.    *)
(* The database is one transaction at a time; the files around it are      *)
(* opened and written one by one, and the process may die at any of these  *)
(* points.  What nothing reads is left out: the packets in packets/, which *)
(* the database has too, and the packet that completion.lxmf makes of the  *)
(* receipt in completion.json.                                             *)
(***************************************************************************)
EXTENDS Assembly, Disk

CONSTANTS MaxClock,     \* bound: the clock stops here
          MaxThreads    \* bound: deliveries running at the same time

ASSUME ReceiverAssumption == MaxClock \in Nat /\ MaxThreads \in Nat

(* receipt_envelope over the whole object: the id, digest and deadline of  *)
(* the manifest and part that completed or repeated it.                    *)
Receipt == [id : Ids, digest : Digests, destination : Sources, expires : Nat]
ReceiptFor(p) == [id |-> p.manifest.id, digest |-> p.manifest.digest,
                  destination |-> p.source, expires |-> p.expires]

(* What a thread of `receive` does next, after its transaction: read the   *)
(* content, open and write output.bin, open and write completion.json.     *)
Phases == {"content", "output", "output open", "envelope", "envelope open"}
Thread == [part : Parts, phase : Phases]

VARIABLES
  clock,
  db,          \* assembly.db (durable)
  output,      \* output.bin, by digest (durable)
  envelope,    \* completion.json (durable)
  receiving,   \* threads of receive that have committed their part
  fetch        \* the fetch of this process: idle, waiting or returned

files == <<output, envelope>>
vars == <<clock, db, files, receiving, fetch>>

TypeOK ==
  /\ clock \in 0..MaxClock
  /\ DOMAIN db.objects \subseteq Keys
  /\ \A k \in DOMAIN db.objects : /\ db.objects[k] \in Object
                                  /\ k[2] = db.objects[k].manifest.id
  /\ db.parts \subseteq (DOMAIN db.objects) \X (0..31)
  /\ output \in File(Digests) /\ envelope \in File(Receipt)
  /\ receiving \subseteq Thread
  /\ fetch \in {"idle", "waiting", "returned"}

Init ==
  /\ clock = 0 /\ db = EmptyDb
  /\ output = NoFile /\ envelope = NoFile
  /\ receiving = {} /\ fetch = "idle"

-----------------------------------------------------------------------------
Step(w, phase) == receiving' = (receiving \ {w}) \cup {[w EXCEPT !.phase = phase]}
Done(w) == receiving' = receiving \ {w}

(* receive authenticates the part (which must not be past its deadline)    *)
(* and commits it; what accept_verified raises ends in `rejected`.         *)
Receive(p) ==
  /\ Cardinality(receiving) < MaxThreads
  /\ clock < p.expires
  /\ db' = AcceptVerified(db, p)
  /\ receiving' = IF Accepts(db, p)
                  THEN receiving \cup {[part |-> p, phase |-> "content"]}
                  ELSE receiving
  /\ UNCHANGED <<clock, files, fetch>>

(* Mutant: the files are written whether or not there is content. *)
ReadContentAlways ==
  /\ \E w \in receiving : w.phase = "content" /\ Step(w, "output")
  /\ UNCHANGED <<clock, db, files, fetch>>

(* It reads the content, in a second transaction; without one it is done.  *)
ReadContent ==
  /\ \E w \in receiving :
       /\ w.phase = "content"
       /\ IF HasContent(db, KeyOf(w.part)) THEN Step(w, "output") ELSE Done(w)
  /\ UNCHANGED <<clock, db, files, fetch>>

(* With content, it writes output.bin...                                   *)
OpenOutput ==
  /\ \E w \in receiving : w.phase = "output" /\ Step(w, "output open")
  /\ output' = Emptied
  /\ UNCHANGED <<clock, db, envelope, fetch>>

WriteOutput ==
  /\ \E w \in receiving :
       /\ w.phase = "output open"
       /\ output' \in Written(output, w.part.manifest.digest)
       /\ Step(w, "envelope")
  /\ UNCHANGED <<clock, db, envelope, fetch>>

(* ...and the receipt for it.                                              *)
OpenEnvelope ==
  /\ \E w \in receiving : w.phase = "envelope" /\ Step(w, "envelope open")
  /\ envelope' = Emptied
  /\ UNCHANGED <<clock, db, output, fetch>>

WriteEnvelope ==
  /\ \E w \in receiving :
       /\ w.phase = "envelope open"
       /\ envelope' \in Written(envelope, ReceiptFor(w.part))
       /\ Done(w)
  /\ UNCHANGED <<clock, db, output, fetch>>

(* Node.fetch asks the relay and polls until output.bin exists, whole or   *)
(* not, or until its timeout.                                              *)
FetchBegins ==
  /\ fetch = "idle"
  /\ fetch' = "waiting"
  /\ UNCHANGED <<clock, db, files, receiving>>

FetchReturns ==
  /\ fetch = "waiting" /\ output.there
  /\ fetch' = "returned"
  /\ UNCHANGED <<clock, db, files, receiving>>

FetchTimesOut ==
  /\ fetch = "waiting" /\ ~output.there
  /\ fetch' = "idle"
  /\ UNCHANGED <<clock, db, files, receiving>>

(* The process ends, at any point, and is started again on the directory.  *)
Crash ==
  /\ receiving' = {} /\ fetch' = "idle"
  /\ UNCHANGED <<clock, db, files>>

Tick ==
  /\ clock < MaxClock
  /\ clock' = clock + 1
  /\ UNCHANGED <<db, files, receiving, fetch>>

Next ==
  \/ \E p \in Parts : Receive(p)
  \/ ReadContent
  \/ OpenOutput \/ WriteOutput \/ OpenEnvelope \/ WriteEnvelope
  \/ FetchBegins \/ FetchReturns \/ FetchTimesOut
  \/ Crash \/ Tick

Spec == Init /\ [][Next]_vars

-----------------------------------------------------------------------------
(* Every chunk of an exact split, or two different chunks of a parity one. *)
Enough(m, have) ==
  \/ m.scheme = "exact" /\ 0..(m.count - 1) \subseteq have
  \/ m.scheme = "xor2" /\ \E a, b \in have : a # b

(* An object came from `source` under `id`, with this digest and with the  *)
(* chunks it takes to put it together.                                     *)
Reconstructed(source, id, digest) ==
  LET k == <<source, id>> IN
  /\ k \in Complete(db)
  /\ db.objects[k].manifest.digest = digest
  /\ Enough(db.objects[k].manifest, Have(db.parts, k))

(* "A receipt over the exact reconstructed bytes" (README): whatever       *)
(* deliveries overlap and wherever the process died, every receipt of      *)
(* which there are bytes in completion.json, for publish_receipt to send,  *)
(* is for an object put together here, and owed to the origin it came from. *)
ReceiptMeansReconstructed ==
  \A r \in envelope.bytes : Reconstructed(r.destination, r.id, r.digest)

(* No bytes get into output.bin but of objects put together here.  It may  *)
(* be a mix of two of them, or cut short; a whole one is one of them.      *)
OutputWasReconstructed ==
  \A d \in output.bytes : \E s \in Sources, i \in Ids : Reconstructed(s, i, d)

(* The limits hold after every transaction, the one that adds the result   *)
(* of a completed object included.                                         *)
AssemblyWithinLimits ==
  /\ Cardinality(DOMAIN db.objects) <= MaxObjects
  /\ Used(db) <= MaxBytes

(* Nothing that was assembled is lost or taken for another object: the     *)
(* manifest and deadline of an object never change, and its parts and its  *)
(* result stay.                                                            *)
AssemblyIsStable ==
  [][/\ db.parts \subseteq db'.parts
     /\ \A k \in DOMAIN db.objects :
          /\ k \in DOMAIN db'.objects
          /\ db'.objects[k].manifest = db.objects[k].manifest
          /\ db'.objects[k].expires = db.objects[k].expires
          /\ db.objects[k].complete => db'.objects[k].complete]_vars

(* audit._object: there is nothing to check until both files exist.  It    *)
(* passes a whole output.bin and a whole completion.json that agree.       *)
ObjectCheck ==
  output.there /\ envelope.there =>
    \E r \in Whole(envelope) : Whole(output) = {r.digest}

(* A thread is between opening output.bin and writing completion.json.     *)
Writing(w) == w.phase \notin {"content", "output"}

BeingWritten == \E w \in receiving : Writing(w)

Auditable == Cardinality(Complete(db)) <= 1 => ObjectCheck \/ BeingWritten

(* Where one object came together, a directory that fails the audit is     *)
(* being written, or the process died in that: nothing else makes it fail, *)
(* however often parts are repeated, deliveries overlap and sessions end.  *)
OneObjectAudits ==
  [][Auditable /\ ~(Crash /\ BeingWritten) => Auditable']_vars

-----------------------------------------------------------------------------
(* What the sources say and the code does not do. *)

(* audit.py: "What was reconstructed must be what the receipt was issued   *)
(* over."  With no delivery running, two whole files agree.                *)
AuditPasses ==
  receiving = {} =>
    \A d \in Whole(output), r \in Whole(envelope) : d = r.digest

(* cli.py: "Ask a relay for what it holds for us, reconstruct, and write a *)
(* receipt."  When fetch has returned, completion.json is there.           *)
FetchedWithReceipt == fetch = "returned" => envelope.there
=============================================================================
