--------------------------- MODULE ReceiverProofs ---------------------------
(***************************************************************************)
(* Proofs about Receiver, for every set of parts, every limit and any      *)
(* number of overlapping deliveries.  The database only grows (Grown), so  *)
(* what was reconstructed once stays so, and what is written late, by a    *)
(* delivery that began long before, still is of an object put together     *)
(* here.  A file is empty only while somebody has it open, or after the    *)
(* process died there.                                                     *)
(***************************************************************************)
EXTENDS Receiver, FiniteSetTheorems, TLAPS

(* What every transaction keeps true of the database. *)
ObjectOK(d, k) ==
  LET m == d.objects[k].manifest IN
  /\ k \in Keys /\ d.objects[k] \in Object
  /\ k[2] = m.id
  /\ m.scheme = "xor2" => m.count = 3
  /\ Have(d.parts, k) \subseteq 0..(m.count - 1)
  /\ d.objects[k].complete => Enough(m, Have(d.parts, k))

DbOK(d) ==
  /\ IsFiniteSet(DOMAIN d.objects)
  /\ \A k \in DOMAIN d.objects : ObjectOK(d, k)
  /\ d.parts \subseteq (DOMAIN d.objects) \X (0..31)

WithinLimits(d) ==
  Cardinality(DOMAIN d.objects) <= MaxObjects /\ Used(d) <= MaxBytes

(* Nothing of database d is lost or altered in database e. *)
Grown(d, e) ==
  /\ d.parts \subseteq e.parts
  /\ \A k \in DOMAIN d.objects :
       /\ k \in DOMAIN e.objects
       /\ e.objects[k].manifest = d.objects[k].manifest
       /\ e.objects[k].expires = d.objects[k].expires
       /\ d.objects[k].complete => e.objects[k].complete

(* A delivery past its transaction left its object in the database, whole  *)
(* once it writes files.                                                   *)
Begun(w) ==
  LET k == KeyOf(w.part) IN
  /\ k \in DOMAIN db.objects
  /\ db.objects[k].manifest = w.part.manifest
  /\ db.objects[k].expires = w.part.expires
  /\ w.phase # "content" => db.objects[k].complete

(* The only receipt that is made out over a complete object. *)
Owed(d, k) ==
  [id |-> k[2], digest |-> d.objects[k].manifest.digest, destination |-> k[1],
   expires |-> d.objects[k].expires]

ReceiptsAreOwed ==
  \A r \in envelope.bytes : \E k \in Complete(db) : r = Owed(db, k)

OutputOpen == \E w \in receiving : w.phase = "output open"

(* Past the write of output.bin, it is not empty but to be written again.  *)
OutputIsThere ==
  (\E w \in receiving : w.phase \in {"envelope", "envelope open"})
    => output.bytes # {} \/ OutputOpen

IInv ==
  /\ TypeOK
  /\ DbOK(db)
  /\ WithinLimits(db)
  /\ \A w \in receiving : Begun(w)
  /\ ReceiptsAreOwed
  /\ OutputWasReconstructed
  /\ OutputIsThere

-----------------------------------------------------------------------------
LEMMA PartTyped ==
  ASSUME NEW p \in Parts
  PROVE  /\ p.source \in Sources /\ p.manifest \in Manifest
         /\ p.manifest.id \in Ids /\ p.manifest.digest \in Digests
         /\ p.manifest.count \in 1..32
         /\ p.manifest.scheme \in {"exact", "xor2"}
         /\ p.index \in 0..31 /\ p.expires \in Nat
         /\ p.index \in 0..(p.manifest.count - 1)
         /\ p.manifest.scheme = "xor2" => p.manifest.count = 3
         /\ KeyOf(p) \in Keys /\ KeyOf(p)[2] = p.manifest.id
         /\ ReceiptFor(p) \in Receipt
<1>1. p \in Part
  BY PartsAssumption
<1>2. p.manifest \in Manifest /\ p.source \in Sources /\ p.index \in 0..31
      /\ p.expires \in Nat
  BY <1>1 DEF Part
<1>3. /\ p.manifest.id \in Ids /\ p.manifest.digest \in Digests
      /\ p.manifest.count \in 1..32
      /\ p.manifest.scheme \in {"exact", "xor2"}
  BY <1>2 DEF Manifest
<1>4. p.index \in 0..(p.manifest.count - 1)
  BY <1>2, <1>3, PartsAssumption
<1>5. QED
  BY <1>2, <1>3, <1>4, PartsAssumption DEF KeyOf, Keys, Receipt, ReceiptFor

(* Counting chunks, as reconstruct does, is enough: the chunks of an exact *)
(* split are then all there, and two of a parity code are different ones.  *)
LEMMA CountingIsEnough ==
  ASSUME NEW m \in Manifest, NEW have \in SUBSET (0..(m.count - 1)),
         Reconstructs(m, have)
  PROVE  Enough(m, have)
<1>1. m.count \in 1..32 /\ m.scheme \in {"exact", "xor2"}
  BY DEF Manifest
<1>2. IsFiniteSet(0..(m.count - 1)) /\ Cardinality(0..(m.count - 1)) = m.count
  <2>1. 0 \in Int /\ m.count - 1 \in Int /\ ~(0 > m.count - 1)
        /\ (m.count - 1) - 0 + 1 = m.count
    BY <1>1
  <2>2. QED
    BY <2>1, FS_Interval
<1>3. /\ IsFiniteSet(have) /\ Cardinality(have) <= m.count
      /\ Cardinality(have) = m.count => have = 0..(m.count - 1)
  BY <1>2, FS_Subset
<1>4. Cardinality(have) \in Nat
  BY <1>3, FS_CardinalityType
<1>5. CASE m.scheme = "exact"
  <2>1. Cardinality(have) >= m.count
    BY <1>5 DEF Reconstructs
  <2>2. Cardinality(have) = m.count
    <3>1. PICK c \in Nat : c = Cardinality(have)
      BY <1>4
    <3>2. m.count \in Nat
      BY <1>1
    <3>3. c >= m.count
      BY <2>1, <3>1
    <3>4. c <= m.count
      BY <1>3, <3>1
    <3>5. QED
      BY <3>1, <3>2, <3>3, <3>4
  <2>3. QED
    BY <1>3, <1>5, <2>2 DEF Enough
<1>6. CASE m.scheme = "xor2"
  <2>1. Cardinality(have) >= 2
    BY <1>6 DEF Reconstructs
  <2>2. have # {}
    BY <1>4, <2>1, FS_EmptySet
  <2>3. PICK a \in have : TRUE
    BY <2>2
  <2>4. have # {a}
    <3>1. Cardinality({a}) = 1
      BY FS_Singleton
    <3>2. QED
      BY <2>1, <3>1
  <2>5. QED
    BY <1>6, <2>3, <2>4 DEF Enough
<1>7. QED
  BY <1>1, <1>5, <1>6

LEMMA EnoughOfMore ==
  ASSUME NEW m, NEW have, NEW more, have \subseteq more, Enough(m, have)
  PROVE  Enough(m, more)
BY DEF Enough

LEMMA HaveIs ==
  ASSUME NEW parts, NEW k, NEW x
  PROVE  x \in Have(parts, k) <=> \E q \in parts : q[1] = k /\ q[2] = x
BY Zenon DEF Have

AddsPart(more, parts, k, i) == more = parts \cup {<<k, i>>}

LEMMA HaveMore ==
  ASSUME NEW more, NEW parts, NEW k, NEW i, AddsPart(more, parts, k, i)
  PROVE  /\ Have(more, k) = Have(parts, k) \cup {i}
         /\ \A j : j # k => Have(more, j) = Have(parts, j)
<1>1. ASSUME NEW j, NEW x
      PROVE  x \in Have(more, j) <=> x \in Have(parts, j) \/ (j = k /\ x = i)
  <2>1. (\E q \in more : q[1] = j /\ q[2] = x)
          <=> \/ \E q \in parts : q[1] = j /\ q[2] = x
              \/ j = k /\ x = i
    <3>1. PICK t : t = <<k, i>>
      OBVIOUS
    <3>2. t[1] = k /\ t[2] = i /\ more = parts \cup {t}
      BY <3>1 DEF AddsPart
    <3>3. QED
      BY <3>2, Zenon
  <2>2. QED
    BY <2>1, HaveIs
<1>2. ASSUME NEW x
      PROVE  x \in Have(more, k) <=> x \in Have(parts, k) \cup {i}
  BY <1>1
<1>3. ASSUME NEW j, j # k, NEW x
      PROVE  x \in Have(more, j) <=> x \in Have(parts, j)
  BY <1>1, <1>3
<1>4. Have(more, k) = Have(parts, k) \cup {i}
  BY <1>2
<1>5. QED
  BY <1>3, <1>4

-----------------------------------------------------------------------------
(* A part that is accepted: the database stays well formed and only grows. *)
LEMMA EnterObject ==
  ASSUME NEW d, DbOK(d), NEW p \in Parts, Admits(d, p)
  PROVE  /\ DbOK(Enter(d, p))
         /\ Grown(d, Enter(d, p))
         /\ KeyOf(p) \in DOMAIN Enter(d, p).objects
         /\ Enter(d, p).objects[KeyOf(p)].manifest = p.manifest
         /\ Enter(d, p).objects[KeyOf(p)].expires = p.expires
         /\ Cardinality(DOMAIN d.objects) <= MaxObjects =>
              Cardinality(DOMAIN Enter(d, p).objects) <= MaxObjects
<1>1. PICK k : k = KeyOf(p)
  OBVIOUS
<1>2. PICK m : m = p.manifest
  OBVIOUS
<1>3. PICK parts : parts = d.parts \cup {<<k, p.index>>}
  OBVIOUS
<1>4. PICK e : e = Enter(d, p)
  OBVIOUS
<1>5. PICK complete \in BOOLEAN :
        complete = ((k \in DOMAIN d.objects /\ d.objects[k].complete)
                      \/ Reconstructs(m, Have(parts, k)))
  OBVIOUS
<1>6. /\ e.parts = parts
      /\ DOMAIN e.objects = DOMAIN d.objects \cup {k}
      /\ e.objects[k].manifest = m /\ e.objects[k].expires = p.expires
      /\ e.objects[k].complete = complete
      /\ e.objects[k] = [manifest |-> m, expires |-> p.expires,
                         complete |-> complete]
      /\ \A j \in DOMAIN d.objects : j # k => e.objects[j] = d.objects[j]
  BY <1>1, <1>2, <1>3, <1>4, <1>5 DEF Enter
<1>7. /\ k \in Keys /\ m \in Manifest /\ k[2] = m.id /\ m.count \in 1..32
      /\ m.scheme = "xor2" => m.count = 3
      /\ p.index \in 0..31 /\ p.index \in 0..(m.count - 1) /\ p.expires \in Nat
  BY <1>1, <1>2, PartTyped
<1>8. k \in DOMAIN d.objects =>
        d.objects[k].manifest = m /\ d.objects[k].expires = p.expires
  BY <1>1, <1>2 DEF Admits
<1>9. /\ Have(parts, k) = Have(d.parts, k) \cup {p.index}
      /\ \A j : j # k => Have(parts, j) = Have(d.parts, j)
  <2>1. AddsPart(parts, d.parts, k, p.index)
    BY <1>3 DEF AddsPart
  <2>2. QED
    BY <2>1, HaveMore
<1>10. Have(parts, k) \subseteq 0..(m.count - 1)
  <2>1. CASE k \in DOMAIN d.objects
    BY <1>7, <1>8, <1>9, <2>1 DEF DbOK, ObjectOK
  <2>2. CASE k \notin DOMAIN d.objects
    <3>1. Have(d.parts, k) = {}
      BY <2>2 DEF DbOK, Have
    <3>2. QED
      BY <1>7, <1>9, <3>1
  <2>3. QED
    BY <2>1, <2>2
<1>11. complete => Enough(m, Have(parts, k))
  <2>1. CASE k \in DOMAIN d.objects /\ d.objects[k].complete
    <3>1. Enough(m, Have(d.parts, k))
      BY <1>8, <2>1 DEF DbOK, ObjectOK
    <3>2. QED
      BY <1>9, <3>1, EnoughOfMore
  <2>2. CASE Reconstructs(m, Have(parts, k))
    BY <1>7, <1>10, <2>2, CountingIsEnough
  <2>3. QED
    BY <1>5, <2>1, <2>2
<1>12. ObjectOK(e, k)
  <2>1. e.objects[k] \in Object
    BY <1>5, <1>6, <1>7 DEF Object
  <2>2. QED
    BY <1>6, <1>7, <1>10, <1>11, <2>1 DEF ObjectOK
<1>13. ASSUME NEW j \in DOMAIN d.objects, j # k
       PROVE  ObjectOK(e, j)
  <2>1. Have(e.parts, j) = Have(d.parts, j)
    BY <1>6, <1>9, <1>13
  <2>2. ObjectOK(d, j)
    BY DEF DbOK
  <2>3. QED
    BY <1>6, <1>13, <2>1, <2>2 DEF ObjectOK
<1>14. /\ IsFiniteSet(DOMAIN e.objects)
       /\ Cardinality(DOMAIN d.objects) <= MaxObjects =>
            Cardinality(DOMAIN e.objects) <= MaxObjects
  <2>1. IsFiniteSet(DOMAIN d.objects)
    BY DEF DbOK
  <2>2. /\ IsFiniteSet(DOMAIN d.objects \cup {k})
        /\ Cardinality(DOMAIN d.objects \cup {k}) =
             IF k \in DOMAIN d.objects THEN Cardinality(DOMAIN d.objects)
                                       ELSE Cardinality(DOMAIN d.objects) + 1
    BY <2>1, FS_AddElement
  <2>3. Cardinality(DOMAIN d.objects) \in Nat
    BY <2>1, FS_CardinalityType
  <2>4. k \notin DOMAIN d.objects => Cardinality(DOMAIN d.objects) < MaxObjects
    BY <1>1 DEF Admits
  <2>5. QED
    BY <1>6, <2>2, <2>3, <2>4, AssemblyCapacityAssumption
<1>15. e.parts \subseteq (DOMAIN e.objects) \X (0..31)
  BY <1>3, <1>6, <1>7 DEF DbOK
<1>16. DbOK(e)
  BY <1>6, <1>12, <1>13, <1>14, <1>15 DEF DbOK
<1>17. Grown(d, e)
  BY <1>3, <1>5, <1>6, <1>8 DEF Grown
<1>18. QED
  BY <1>1, <1>2, <1>4, <1>6, <1>14, <1>16, <1>17

-----------------------------------------------------------------------------
LEMMA AcceptObject ==
  ASSUME NEW d, DbOK(d), WithinLimits(d), NEW p \in Parts
  PROVE  /\ DbOK(AcceptVerified(d, p)) /\ WithinLimits(AcceptVerified(d, p))
         /\ Grown(d, AcceptVerified(d, p))
         /\ Accepts(d, p) =>
              /\ KeyOf(p) \in DOMAIN AcceptVerified(d, p).objects
              /\ AcceptVerified(d, p).objects[KeyOf(p)].manifest = p.manifest
              /\ AcceptVerified(d, p).objects[KeyOf(p)].expires = p.expires
<1>1. CASE Accepts(d, p)
  <2>1. AcceptVerified(d, p) = Enter(d, p)
    BY <1>1 DEF AcceptVerified
  <2>2. Admits(d, p) /\ Used(Enter(d, p)) <= MaxBytes
    BY <1>1 DEF Accepts
  <2>3. /\ DbOK(Enter(d, p)) /\ Grown(d, Enter(d, p))
        /\ KeyOf(p) \in DOMAIN Enter(d, p).objects
        /\ Enter(d, p).objects[KeyOf(p)].manifest = p.manifest
        /\ Enter(d, p).objects[KeyOf(p)].expires = p.expires
        /\ Cardinality(DOMAIN Enter(d, p).objects) <= MaxObjects
    BY <2>2, EnterObject DEF WithinLimits
  <2>4. QED
    BY <2>1, <2>2, <2>3 DEF WithinLimits
<1>2. CASE ~Accepts(d, p)
  <2>1. AcceptVerified(d, p) = d
    BY <1>2 DEF AcceptVerified
  <2>2. Grown(d, d)
    BY DEF Grown
  <2>3. QED
    BY <1>2, <2>1, <2>2
<1>3. QED
  BY <1>1, <1>2

LEMMA DbTyped ==
  ASSUME NEW d, DbOK(d)
  PROVE  /\ DOMAIN d.objects \subseteq Keys
         /\ \A k \in DOMAIN d.objects : /\ d.objects[k] \in Object
                                        /\ k[2] = d.objects[k].manifest.id
         /\ d.parts \subseteq (DOMAIN d.objects) \X (0..31)
BY DEF DbOK, ObjectOK

(* What is known of a complete object, and of a delivery writing files.    *)
LEMMA CompleteIsReconstructed ==
  ASSUME DbOK(db), NEW k \in Complete(db)
  PROVE  /\ k[1] \in Sources /\ k[2] \in Ids
         /\ Reconstructed(k[1], k[2], db.objects[k].manifest.digest)
<1>1. k \in DOMAIN db.objects /\ db.objects[k].complete
  BY DEF Complete
<1>2. ObjectOK(db, k)
  BY <1>1 DEF DbOK
<1>3. k \in Sources \X Ids /\ Enough(db.objects[k].manifest, Have(db.parts, k))
  BY <1>1, <1>2 DEF ObjectOK, Keys
<1>4. k = <<k[1], k[2]>> /\ k[1] \in Sources /\ k[2] \in Ids
  BY <1>3
<1>5. QED
  BY <1>3, <1>4 DEF Reconstructed

LEMMA BegunIsComplete ==
  ASSUME NEW w, Begun(w), w.phase # "content"
  PROVE  /\ KeyOf(w.part) \in Complete(db)
         /\ ReceiptFor(w.part) = Owed(db, KeyOf(w.part))
         /\ w.part.manifest.digest = db.objects[KeyOf(w.part)].manifest.digest
<1>1. PICK k : k = KeyOf(w.part)
  OBVIOUS
<1>2. /\ k \in DOMAIN db.objects /\ db.objects[k].complete
      /\ db.objects[k].manifest = w.part.manifest
      /\ db.objects[k].expires = w.part.expires
  BY <1>1 DEF Begun
<1>3. k[1] = w.part.source /\ k[2] = w.part.manifest.id
  BY <1>1 DEF KeyOf
<1>4. QED
  BY <1>1, <1>2, <1>3 DEF Complete, Owed, ReceiptFor

LEMMA CompleteKept ==
  ASSUME NEW k \in Complete(db), Grown(db, db')
  PROVE  k \in Complete(db)' /\ Owed(db, k)' = Owed(db, k)
BY DEF Complete, Grown, Owed

LEMMA ReconstructedKept ==
  ASSUME NEW s, NEW i, NEW g, Reconstructed(s, i, g), Grown(db, db')
  PROVE  Reconstructed(s, i, g)'
<1>1. PICK k : k = <<s, i>>
  OBVIOUS
<1>2. /\ k \in DOMAIN db.objects /\ db.objects[k].complete
      /\ db.objects[k].manifest.digest = g
      /\ Enough(db.objects[k].manifest, Have(db.parts, k))
  BY <1>1 DEF Reconstructed, Complete
<1>3. /\ k \in DOMAIN db'.objects /\ db'.objects[k].complete
      /\ db'.objects[k].manifest = db.objects[k].manifest
      /\ db.parts \subseteq db'.parts
  BY <1>2 DEF Grown
<1>4. Have(db.parts, k) \subseteq Have(db'.parts, k)
  <2>1. \A x : (\E q \in db.parts : q[1] = k /\ q[2] = x)
                 => \E q \in db'.parts : q[1] = k /\ q[2] = x
    BY <1>3
  <2>2. QED
    BY <2>1, HaveIs
<1>5. Enough(db'.objects[k].manifest, Have(db'.parts, k))
  <2>1. Enough(db'.objects[k].manifest, Have(db.parts, k))
    BY <1>2, <1>3
  <2>2. QED
    BY <1>4, <2>1, EnoughOfMore
<1>6. QED
  BY <1>1, <1>2, <1>3, <1>5 DEF Reconstructed, Complete

(* A delivery on its way to writing a file. *)
Delivering(w) == w \in receiving /\ w.phase # "content"

(* What is new in a file, or in a thread, comes from a delivery under way. *)
FilesFromDeliveries ==
  /\ \A r \in envelope'.bytes :
       r \in envelope.bytes \/ \E w : Delivering(w) /\ r = ReceiptFor(w.part)
  /\ \A g \in output'.bytes :
       g \in output.bytes \/ \E w : Delivering(w) /\ g = w.part.manifest.digest

ThreadsGoOn ==
  \A w \in receiving' :
    \/ w \in receiving
    \/ \E v \in receiving :
         /\ w.part = v.part
         /\ v.phase # "content" \/ db.objects[KeyOf(v.part)].complete

LEMMA EvidenceKept ==
  ASSUME IInv, Grown(db, db'), FilesFromDeliveries
  PROVE  ReceiptsAreOwed' /\ OutputWasReconstructed'
<1>1. ASSUME NEW w, Delivering(w)
      PROVE  Begun(w) /\ w.phase # "content"
  BY <1>1 DEF Delivering, IInv
<1>2. ASSUME NEW r \in envelope'.bytes
      PROVE  (\E k \in Complete(db) : r = Owed(db, k))'
  <2>1. \E k \in Complete(db) : r = Owed(db, k)
    <3>1. CASE r \in envelope.bytes
      BY <3>1 DEF IInv, ReceiptsAreOwed
    <3>2. CASE \E w : Delivering(w) /\ r = ReceiptFor(w.part)
      BY <1>1, <3>2, BegunIsComplete
    <3>3. QED
      BY <3>1, <3>2 DEF FilesFromDeliveries
  <2>2. QED
    BY <2>1, CompleteKept
<1>3. ASSUME NEW g \in output'.bytes
      PROVE  (\E s \in Sources, i \in Ids : Reconstructed(s, i, g))'
  <2>1. \E s \in Sources, i \in Ids : Reconstructed(s, i, g)
    <3>1. CASE g \in output.bytes
      BY <3>1 DEF IInv, OutputWasReconstructed
    <3>2. CASE \E w : Delivering(w) /\ g = w.part.manifest.digest
      <4>1. PICK k \in Complete(db) : g = db.objects[k].manifest.digest
        BY <1>1, <3>2, BegunIsComplete
      <4>2. QED
        BY <4>1, CompleteIsReconstructed DEF IInv
    <3>3. QED
      BY <3>1, <3>2 DEF FilesFromDeliveries
  <2>2. PICK s \in Sources, i \in Ids : Reconstructed(s, i, g)
    BY <2>1
  <2>3. Reconstructed(s, i, g)'
    BY <2>2, ReconstructedKept
  <2>4. QED
    BY <2>3
<1>4. QED
  BY <1>2, <1>3 DEF ReceiptsAreOwed, OutputWasReconstructed

LEMMA BegunKept ==
  ASSUME IInv, Grown(db, db'), ThreadsGoOn
  PROVE  \A w \in receiving' : Begun(w)'
<1> SUFFICES ASSUME NEW w \in receiving' PROVE Begun(w)'
  OBVIOUS
<1>1. PICK v \in receiving :
        /\ w.part = v.part
        /\ w.phase # "content" =>
             v.phase # "content" \/ db.objects[KeyOf(v.part)].complete
  BY DEF ThreadsGoOn
<1>2. Begun(v)
  BY DEF IInv
<1>3. PICK k : k = KeyOf(v.part)
  OBVIOUS
<1>4. /\ k \in DOMAIN db.objects
      /\ db.objects[k].manifest = w.part.manifest
      /\ db.objects[k].expires = w.part.expires
      /\ w.phase # "content" => db.objects[k].complete
  BY <1>1, <1>2, <1>3 DEF Begun
<1>5. /\ k \in DOMAIN db'.objects
      /\ db'.objects[k].manifest = w.part.manifest
      /\ db'.objects[k].expires = w.part.expires
      /\ w.phase # "content" => db'.objects[k].complete
  BY <1>4 DEF Grown
<1>6. QED
  BY <1>1, <1>3, <1>5 DEF Begun

-----------------------------------------------------------------------------
(* What the database holds are parts of a set S. *)
Sent(d, S) ==
  /\ \A k \in DOMAIN d.objects :
       \E q \in S : KeyOf(q) = k /\ q.manifest = d.objects[k].manifest
  /\ \A t \in d.parts :
       \E q \in S : /\ KeyOf(q) = t[1] /\ q.index = t[2]
                    /\ q.manifest = d.objects[t[1]].manifest

LEMMA SentMore ==
  ASSUME NEW d, NEW S, NEW T, S \subseteq T, Sent(d, S)
  PROVE  Sent(d, T)
BY Zenon DEF Sent

LEMMA AcceptSent ==
  ASSUME NEW d, DbOK(d), NEW p \in Parts, NEW S, p \in S, Sent(d, S)
  PROVE  Sent(AcceptVerified(d, p), S)
<1>1. CASE ~Accepts(d, p)
  BY <1>1 DEF AcceptVerified
<1>2. CASE Accepts(d, p)
  <2>1. PICK k : k = KeyOf(p)
    OBVIOUS
  <2>2. PICK e : e = AcceptVerified(d, p)
    OBVIOUS
  <2>3. e = Enter(d, p) /\ Admits(d, p)
    BY <1>2, <2>2 DEF AcceptVerified, Accepts
  <2>4. /\ e.parts = d.parts \cup {<<k, p.index>>}
        /\ DOMAIN e.objects = DOMAIN d.objects \cup {k}
        /\ e.objects[k].manifest = p.manifest
        /\ \A j \in DOMAIN d.objects : j # k => e.objects[j] = d.objects[j]
    BY <2>1, <2>3 DEF Enter
  <2>5. k \in DOMAIN d.objects => d.objects[k].manifest = p.manifest
    BY <2>1, <2>3 DEF Admits
  <2>6. ASSUME NEW j \in DOMAIN d.objects
        PROVE  e.objects[j].manifest = d.objects[j].manifest
    BY <2>4, <2>5
  <2>7. ASSUME NEW j \in DOMAIN e.objects
        PROVE  \E q \in S : KeyOf(q) = j /\ q.manifest = e.objects[j].manifest
    <3>1. CASE j = k
      BY <2>1, <2>4, <3>1
    <3>2. CASE j # k
      <4>1. j \in DOMAIN d.objects
        BY <2>4, <3>2
      <4>2. QED
        BY <2>6, <4>1 DEF Sent
    <3>3. QED
      BY <3>1, <3>2
  <2>8. ASSUME NEW t \in e.parts
        PROVE  \E q \in S : /\ KeyOf(q) = t[1] /\ q.index = t[2]
                            /\ q.manifest = e.objects[t[1]].manifest
    <3>1. CASE t \in d.parts
      <4>1. t[1] \in DOMAIN d.objects
        BY <3>1 DEF DbOK
      <4>2. PICK q \in S : /\ KeyOf(q) = t[1] /\ q.index = t[2]
                           /\ q.manifest = d.objects[t[1]].manifest
        BY <3>1 DEF Sent
      <4>3. QED
        BY <2>6, <4>1, <4>2
    <3>2. CASE t = <<k, p.index>>
      <4>1. t[1] = k /\ t[2] = p.index
        BY <3>2
      <4>2. QED
        BY <2>1, <2>4, <4>1
    <3>3. QED
      BY <2>4, <3>1, <3>2
  <2>9. QED
    BY <2>2, <2>7, <2>8 DEF Sent
<1>3. QED
  BY <1>1, <1>2

-----------------------------------------------------------------------------
LEMMA InitIInv == Init => IInv
<1> SUFFICES ASSUME Init PROVE IInv
  OBVIOUS
<1>1. DOMAIN db.objects = {} /\ db.parts = {}
  BY DEF Init, EmptyDb
<1>2. IsFiniteSet({}) /\ Cardinality({}) = 0
  BY FS_EmptySet
<1>3. DbOK(db)
  BY <1>1, <1>2 DEF DbOK
<1>4. WithinLimits(db)
  <2>1. Complete(db) = {}
    BY <1>1 DEF Complete
  <2>2. Used(db) = 0
    BY <1>1, <1>2, <2>1, AssemblyCapacityAssumption DEF Used
  <2>3. QED
    BY <1>1, <1>2, <2>2, AssemblyCapacityAssumption DEF WithinLimits
<1>5. TypeOK
  BY <1>1, ReceiverAssumption DEF Init, TypeOK, File, NoFile
<1>6. QED
  BY <1>3, <1>4, <1>5
     DEF Init, NoFile, IInv, ReceiptsAreOwed, OutputWasReconstructed, OutputIsThere

(* A step that leaves the database alone, seen only through what it does   *)
(* to files and threads.                                                   *)
LEMMA FilesStep ==
  ASSUME IInv, db' = db, TypeOK', FilesFromDeliveries, ThreadsGoOn, OutputIsThere'
  PROVE  IInv' /\ Grown(db, db')
<1>1. Grown(db, db')
  BY DEF Grown
<1>2. DbOK(db)' /\ WithinLimits(db)'
  BY DEF IInv
<1>3. QED
  BY <1>1, <1>2, EvidenceKept, BegunKept DEF IInv

LEMMA ReceiveStep ==
  ASSUME IInv, NEW p \in Parts, Receive(p)
  PROVE  IInv' /\ Grown(db, db')
<1>1. /\ DbOK(db)' /\ WithinLimits(db)' /\ Grown(db, db')
      /\ Accepts(db, p) => /\ KeyOf(p) \in DOMAIN db'.objects
                           /\ db'.objects[KeyOf(p)].manifest = p.manifest
                           /\ db'.objects[KeyOf(p)].expires = p.expires
  BY AcceptObject DEF IInv, Receive
<1>2. PICK w : w = [part |-> p, phase |-> "content"]
  OBVIOUS
<1>3. receiving' = receiving \/ (Accepts(db, p) /\ receiving' = receiving \cup {w})
  BY <1>2 DEF Receive
<1>4. TypeOK'
  <2>1. w \in Thread
    BY <1>2 DEF Thread, Phases
  <2>2. receiving' \subseteq Thread
    BY <1>3, <2>1 DEF IInv, TypeOK
  <2>3. /\ DOMAIN db'.objects \subseteq Keys
        /\ \A k \in DOMAIN db'.objects : /\ db'.objects[k] \in Object
                                         /\ k[2] = db'.objects[k].manifest.id
        /\ db'.parts \subseteq (DOMAIN db'.objects) \X (0..31)
    BY <1>1, DbTyped
  <2>4. QED
    BY <2>2, <2>3 DEF IInv, TypeOK, Receive, files
<1>5. FilesFromDeliveries
  BY DEF Receive, files, FilesFromDeliveries
<1>6. \A v \in receiving' : Begun(v)'
  <2>1. ASSUME NEW v \in receiving PROVE Begun(v)'
    <3>1. Begun(v)
      BY DEF IInv
    <3>2. QED
      BY <1>1, <3>1 DEF Begun, Grown
  <2>2. Accepts(db, p) => Begun(w)'
    BY <1>1, <1>2 DEF Begun
  <2>3. QED
    BY <1>3, <2>1, <2>2
<1>7. OutputIsThere'
  <2>1. output' = output
    BY DEF Receive, files
  <2>2. \A v \in receiving' : v \in receiving \/ v.phase = "content"
    BY <1>2, <1>3
  <2>3. receiving \subseteq receiving'
    BY <1>3
  <2>4. QED
    BY <2>1, <2>2, <2>3 DEF IInv, OutputIsThere, OutputOpen
<1>8. QED
  BY <1>1, <1>4, <1>5, <1>6, <1>7, EvidenceKept DEF IInv

(* The steps of a delivery after its transaction. *)
LEMMA FileWritten ==
  ASSUME NEW C, NEW file \in File(C), NEW c \in C, NEW g \in Written(file, c)
  PROVE  /\ g \in File(C) /\ g.there /\ c \in g.bytes
         /\ g.bytes = {c} \/ g.bytes = file.bytes \cup {c}
<1>1. PICK b : b = file.bytes \cup {c}
  OBVIOUS
<1>2. b \in SUBSET C /\ c \in b
  BY <1>1 DEF File
<1>3. g = [there |-> TRUE, bytes |-> {c}] \/ g = [there |-> TRUE, bytes |-> b]
  BY <1>1 DEF Written
<1>4. CASE g = [there |-> TRUE, bytes |-> {c}]
  BY <1>4 DEF File
<1>5. CASE g = [there |-> TRUE, bytes |-> b]
  BY <1>1, <1>2, <1>5 DEF File
<1>6. QED
  BY <1>3, <1>4, <1>5

(* A delivery goes from one phase to the next. *)
Goes(w, v, phase) ==
  /\ w \in receiving /\ v \in Thread /\ v.part = w.part /\ v.phase = phase
  /\ receiving' = (receiving \ {w}) \cup {v}

LEMMA StepGoes ==
  ASSUME TypeOK, NEW w \in receiving, NEW phase \in Phases, Step(w, phase)
  PROVE  \E v : Goes(w, v, phase)
<1>1. w \in Thread
  BY DEF TypeOK
<1>2. PICK v : v = [w EXCEPT !.phase = phase]
  OBVIOUS
<1>3. v \in Thread /\ v.part = w.part /\ v.phase = phase
  BY <1>1, <1>2 DEF Thread
<1>4. QED
  BY <1>2, <1>3 DEF Goes, Step

LEMMA ReadContentStep ==
  ASSUME IInv, ReadContent
  PROVE  IInv' /\ Grown(db, db')
<1>1. UNCHANGED <<clock, db, files, fetch>>
  BY DEF ReadContent
<1>2. PICK w \in receiving :
        /\ w.phase = "content"
        /\ IF HasContent(db, KeyOf(w.part)) THEN Step(w, "output") ELSE Done(w)
  BY DEF ReadContent
<1>3. CASE ~HasContent(db, KeyOf(w.part))
  <2>1. receiving' = receiving \ {w}
    BY <1>2, <1>3 DEF Done
  <2>2. OutputIsThere'
    BY <1>1, <1>2, <2>1 DEF IInv, OutputIsThere, OutputOpen, files
  <2>3. FilesFromDeliveries /\ ThreadsGoOn
    BY <1>1, <2>1 DEF FilesFromDeliveries, ThreadsGoOn, files
  <2>4. TypeOK'
    BY <1>1, <2>1 DEF IInv, TypeOK, files
  <2>5. QED
    BY <1>1, <2>2, <2>3, <2>4, FilesStep
<1>4. CASE HasContent(db, KeyOf(w.part))
  <2>1. PICK v : Goes(w, v, "output")
    BY <1>2, <1>4, StepGoes DEF IInv, Phases
  <2>2. db.objects[KeyOf(w.part)].complete
    BY <1>4 DEF HasContent, Complete
  <2>3. OutputIsThere'
    BY <1>1, <1>2, <2>1 DEF IInv, OutputIsThere, OutputOpen, Goes, files
  <2>4. FilesFromDeliveries /\ ThreadsGoOn
    BY <1>1, <2>1, <2>2 DEF FilesFromDeliveries, ThreadsGoOn, Goes, files
  <2>5. TypeOK'
    BY <1>1, <2>1 DEF IInv, TypeOK, Goes, files
  <2>6. QED
    BY <1>1, <2>3, <2>4, <2>5, FilesStep
<1>5. QED
  BY <1>3, <1>4

LEMMA OutputStep ==
  ASSUME IInv, OpenOutput \/ WriteOutput
  PROVE  IInv' /\ Grown(db, db')
<1>1. UNCHANGED <<clock, db, envelope, fetch>>
  BY DEF OpenOutput, WriteOutput
<1>2. PICK w, phase :
        /\ w \in receiving /\ w.phase # "content" /\ Step(w, phase)
        /\ \/ phase = "output open" /\ output' = Emptied
           \/ /\ phase = "envelope"
              /\ output' \in Written(output, w.part.manifest.digest)
  BY DEF OpenOutput, WriteOutput
<1>3. phase \in Phases
  BY <1>2 DEF Phases
<1>4. PICK v : Goes(w, v, phase)
  BY <1>2, <1>3, StepGoes DEF IInv
<1>5. PICK c \in Digests : c = w.part.manifest.digest
  <2>1. w.part \in Parts
    BY <1>2 DEF IInv, TypeOK, Thread
  <2>2. QED
    BY <2>1, PartTyped
<1>6. /\ output' \in File(Digests)
      /\ \A g \in output'.bytes : g \in output.bytes \/ g = c
      /\ phase = "envelope" => output'.bytes # {}
  <2>1. output \in File(Digests)
    BY DEF IInv, TypeOK
  <2>2. CASE phase = "output open" /\ output' = Emptied
    BY <2>2 DEF Emptied, File
  <2>3. CASE phase = "envelope" /\ output' \in Written(output, c)
    BY <2>1, <2>3, FileWritten
  <2>4. QED
    BY <1>2, <1>5, <2>2, <2>3
<1>7. OutputIsThere'
  <2>1. v \in receiving' /\ v.phase = phase
    BY <1>4 DEF Goes
  <2>2. phase = "output open" => OutputOpen'
    BY <2>1 DEF OutputOpen
  <2>3. QED
    BY <1>2, <1>6, <2>2 DEF OutputIsThere
<1>8. FilesFromDeliveries /\ ThreadsGoOn
  BY <1>1, <1>2, <1>4, <1>5, <1>6
     DEF FilesFromDeliveries, ThreadsGoOn, Delivering, Goes
<1>9. TypeOK'
  BY <1>1, <1>4, <1>6 DEF IInv, TypeOK, Goes
<1>10. QED
  BY <1>1, <1>7, <1>8, <1>9, FilesStep

LEMMA EnvelopeStep ==
  ASSUME IInv, OpenEnvelope \/ WriteEnvelope
  PROVE  IInv' /\ Grown(db, db')
<1>1. UNCHANGED <<clock, db, output, fetch>>
  BY DEF OpenEnvelope, WriteEnvelope
<1>2. PICK w \in receiving :
        /\ w.phase \in {"envelope", "envelope open"}
        /\ \/ envelope' = Emptied /\ Step(w, "envelope open")
           \/ envelope' \in Written(envelope, ReceiptFor(w.part)) /\ Done(w)
  BY DEF OpenEnvelope, WriteEnvelope
<1>3. PICK c \in Receipt : c = ReceiptFor(w.part)
  <2>1. w.part \in Parts
    BY <1>2 DEF IInv, TypeOK, Thread
  <2>2. QED
    BY <2>1, PartTyped
<1>4. /\ envelope' \in File(Receipt)
      /\ \A r \in envelope'.bytes : r \in envelope.bytes \/ r = c
  <2>1. envelope \in File(Receipt)
    BY DEF IInv, TypeOK
  <2>2. CASE envelope' = Emptied
    BY <2>2 DEF Emptied, File
  <2>3. CASE envelope' \in Written(envelope, c)
    BY <2>1, <2>3, FileWritten
  <2>4. QED
    BY <1>2, <1>3, <2>2, <2>3
<1>5. \/ receiving' = receiving \ {w}
      \/ \E v : Goes(w, v, "envelope open")
  <2>1. CASE Step(w, "envelope open")
    <3>1. "envelope open" \in Phases
      BY DEF Phases
    <3>2. QED
      BY <2>1, <3>1, StepGoes DEF IInv
  <2>2. CASE Done(w)
    BY <2>2 DEF Done
  <2>3. QED
    BY <1>2, <2>1, <2>2
<1>6. /\ receiving' \subseteq Thread
      /\ \A u \in receiving' : u \in receiving \/ u.part = w.part
      /\ \A u \in receiving : u \in receiving' \/ u = w
  BY <1>5 DEF IInv, TypeOK, Goes
<1>7. OutputIsThere'
  <2>1. output.bytes # {} \/ OutputOpen
    BY <1>2 DEF IInv, OutputIsThere
  <2>2. OutputOpen => OutputOpen'
    BY <1>2, <1>6 DEF OutputOpen
  <2>3. QED
    BY <1>1, <2>1, <2>2 DEF OutputIsThere
<1>8. FilesFromDeliveries
  BY <1>1, <1>2, <1>3, <1>4 DEF FilesFromDeliveries, Delivering
<1>9. ThreadsGoOn
  BY <1>2, <1>6 DEF ThreadsGoOn
<1>10. TypeOK'
  BY <1>1, <1>4, <1>6 DEF IInv, TypeOK
<1>11. QED
  BY <1>1, <1>7, <1>8, <1>9, <1>10, FilesStep

LEMMA OtherStep ==
  ASSUME IInv,
         \/ FetchBegins \/ FetchReturns \/ FetchTimesOut
         \/ Crash \/ Tick \/ UNCHANGED vars
  PROVE  IInv' /\ Grown(db, db')
<1>1. db' = db /\ UNCHANGED files
  BY DEF FetchBegins, FetchReturns, FetchTimesOut, Crash, Tick, vars
<1>2. receiving' = receiving \/ receiving' = {}
  BY DEF FetchBegins, FetchReturns, FetchTimesOut, Crash, Tick, vars
<1>3. clock' \in 0..MaxClock /\ fetch' \in {"idle", "waiting", "returned"}
  BY ReceiverAssumption
  DEF IInv, TypeOK, FetchBegins, FetchReturns, FetchTimesOut, Crash, Tick, vars
<1>4. TypeOK'
  BY <1>1, <1>2, <1>3 DEF IInv, TypeOK, files
<1>5. FilesFromDeliveries /\ ThreadsGoOn
  BY <1>1, <1>2 DEF FilesFromDeliveries, ThreadsGoOn, files
<1>6. OutputIsThere'
  BY <1>1, <1>2 DEF IInv, OutputIsThere, OutputOpen, files
<1>7. QED
  BY <1>1, <1>4, <1>5, <1>6, FilesStep

LEMMA NextIInv == IInv /\ [Next]_vars => IInv' /\ Grown(db, db')
BY ReceiveStep, ReadContentStep, OutputStep, EnvelopeStep, OtherStep DEF Next

-----------------------------------------------------------------------------
(* The database, files and threads are well formed after any number of     *)
(* overlapping deliveries and crashes.                                     *)
THEOREM TypeCorrect == Spec => []TypeOK
<1>1. IInv => TypeOK
  BY DEF IInv
<1>2. QED
  BY <1>1, InitIInv, NextIInv, PTL DEF Spec

(* Every receipt of which there are bytes in completion.json is for an     *)
(* object of which this recipient has enough different chunks, whatever    *)
(* the overlap of deliveries and wherever the process died.                *)
THEOREM ReceiptsAreForWholeObjects == Spec => []ReceiptMeansReconstructed
<1>1. IInv => ReceiptMeansReconstructed
  <2> SUFFICES ASSUME IInv, NEW r \in envelope.bytes
               PROVE  Reconstructed(r.destination, r.id, r.digest)
    BY DEF ReceiptMeansReconstructed
  <2>1. PICK k \in Complete(db) : r = Owed(db, k)
    BY DEF IInv, ReceiptsAreOwed
  <2>2. /\ r.destination = k[1] /\ r.id = k[2]
        /\ r.digest = db.objects[k].manifest.digest
    BY <2>1 DEF Owed
  <2>3. QED
    BY <2>2, CompleteIsReconstructed DEF IInv
<1>2. QED
  BY <1>1, InitIInv, NextIInv, PTL DEF Spec

(* No bytes are ever in output.bin but of such objects, so that it is one  *)
(* of them whenever it is whole.                                           *)
THEOREM OutputIsOfWholeObjects == Spec => []OutputWasReconstructed
<1>1. IInv => OutputWasReconstructed
  BY DEF IInv
<1>2. QED
  BY <1>1, InitIInv, NextIInv, PTL DEF Spec

(* With one object there, whatever is written last into the two files is   *)
(* that object and the only receipt for it.                                *)
LEMMA OneObject ==
  ASSUME IInv, Cardinality(Complete(db)) <= 1, NEW j \in Complete(db),
         NEW k \in Complete(db)
  PROVE  j = k
<1>1. PICK S : S = Complete(db)
  OBVIOUS
<1>2. IsFiniteSet(S)
  <2>1. S \subseteq DOMAIN db.objects
    BY <1>1 DEF Complete
  <2>2. QED
    BY <2>1, FS_Subset DEF IInv, DbOK
<1>3. Cardinality(S) \in Nat /\ Cardinality(S) # 0 /\ Cardinality(S) <= 1
  BY <1>1, <1>2, FS_CardinalityType, FS_EmptySet
<1>4. Cardinality(S) = 1
  BY <1>3
<1>5. QED
  BY <1>1, <1>2, <1>4, FS_Singleton

LEMMA LastWriteAgrees ==
  ASSUME IInv, WriteEnvelope, ~BeingWritten', Cardinality(Complete(db)) <= 1
  PROVE  ObjectCheck'
<1>1. PICK w \in receiving :
        /\ w.phase = "envelope open"
        /\ envelope' \in Written(envelope, ReceiptFor(w.part))
        /\ receiving' = receiving \ {w}
  BY DEF WriteEnvelope, Done
<1>2. PICK k : k = KeyOf(w.part)
  OBVIOUS
<1>3. PICK r : r = ReceiptFor(w.part)
  OBVIOUS
<1>4. /\ k \in Complete(db) /\ r = Owed(db, k)
      /\ r.digest = db.objects[k].manifest.digest
  <2>1. Begun(w)
    BY DEF IInv
  <2>2. QED
    BY <1>1, <1>2, <1>3, <2>1, BegunIsComplete DEF ReceiptFor
<1>5. output.bytes # {}
  <2>1. ~OutputOpen
    BY <1>1 DEF OutputOpen, BeingWritten, Writing
  <2>2. QED
    BY <1>1, <2>1 DEF IInv, OutputIsThere
<1>6. ASSUME NEW d \in output.bytes
      PROVE  d = r.digest
  <2>1. PICK s \in Sources, i \in Ids : Reconstructed(s, i, d)
    BY DEF IInv, OutputWasReconstructed
  <2>2. <<s, i>> \in Complete(db) /\ db.objects[<<s, i>>].manifest.digest = d
    BY <2>1 DEF Reconstructed
  <2>3. <<s, i>> = k
    BY <1>4, <2>2, OneObject
  <2>4. QED
    BY <1>4, <2>2, <2>3
<1>7. \A x \in envelope.bytes : x = r
  <2>1. ASSUME NEW x \in envelope.bytes
        PROVE  x = r
    <3>1. PICK j \in Complete(db) : x = Owed(db, j)
      BY DEF IInv, ReceiptsAreOwed
    <3>2. j = k
      BY <1>4, OneObject
    <3>3. QED
      BY <1>4, <3>1, <3>2
  <2>2. QED
    BY <2>1
<1>8. envelope'.bytes = {r}
  <2>1. envelope \in File(Receipt) /\ r \in Receipt
    <3>1. w.part \in Parts
      BY DEF IInv, TypeOK, Thread
    <3>2. QED
      BY <1>3, <3>1, PartTyped DEF IInv, TypeOK
  <2>2. envelope'.bytes = {r} \/ envelope'.bytes = envelope.bytes \cup {r}
    <3>1. envelope' \in Written(envelope, r)
      BY <1>1, <1>3
    <3>2. QED
      BY <2>1, <3>1, FileWritten
  <2>3. QED
    BY <1>7, <2>2
<1>9. output'.bytes = {r.digest}
  <2>1. output' = output
    BY DEF WriteEnvelope
  <2>2. QED
    BY <1>5, <1>6, <2>1
<1>10. Whole(envelope') = {r} /\ Whole(output') = {r.digest}
  BY <1>8, <1>9 DEF Whole
<1>11. QED
  BY <1>10 DEF ObjectCheck

(* Where one object came together, nothing but the end of the process in   *)
(* the middle of writing makes the directory fail the audit.               *)
THEOREM OneObjectPassesTheAudit == Spec => OneObjectAudits
<1>1. IInv /\ [Next]_vars =>
        [Auditable /\ ~(Crash /\ BeingWritten) => Auditable']_vars
  <2> SUFFICES ASSUME IInv, [Next]_vars, Auditable, ~(Crash /\ BeingWritten),
                      ~BeingWritten', Cardinality(Complete(db)') <= 1
               PROVE  ObjectCheck'
    BY DEF Auditable
  <2>1. Cardinality(Complete(db)) <= 1
    <3>1. Complete(db) \subseteq Complete(db)'
      BY NextIInv, CompleteKept
    <3>2. IsFiniteSet(Complete(db)')
      <4>1. Complete(db)' \subseteq DOMAIN db'.objects
        BY DEF Complete
      <4>2. IsFiniteSet(DOMAIN db'.objects)
        BY NextIInv DEF IInv, DbOK
      <4>3. QED
        BY <4>1, <4>2, FS_Subset
    <3>3. QED
      BY <3>1, <3>2, FS_Subset, FS_CardinalityType
  <2>2. ASSUME UNCHANGED files, ~BeingWritten
        PROVE  ObjectCheck'
    BY <2>1, <2>2 DEF Auditable, ObjectCheck, files
  <2>3. CASE WriteEnvelope
    BY <2>1, <2>3, LastWriteAgrees
  <2>4. CASE OpenOutput \/ WriteOutput \/ OpenEnvelope
    <3>1. PICK w, phase :
            /\ w \in receiving /\ Step(w, phase)
            /\ phase \in {"output open", "envelope", "envelope open"}
      BY <2>4 DEF OpenOutput, WriteOutput, OpenEnvelope
    <3>2. phase \in Phases /\ phase \notin {"content", "output"}
      BY <3>1 DEF Phases
    <3>3. PICK v : Goes(w, v, phase)
      BY <3>1, <3>2, StepGoes DEF IInv
    <3>4. BeingWritten'
      BY <3>2, <3>3 DEF Goes, BeingWritten, Writing
    <3>5. QED
      BY <3>4
  <2>5. CASE ReadContent
    <3>1. PICK w \in receiving :
            w.phase = "content" /\ (Step(w, "output") \/ Done(w))
      BY <2>5 DEF ReadContent
    <3>2. receiving \ {w} \subseteq receiving'
      BY <3>1 DEF Step, Done
    <3>3. ~BeingWritten
      BY <3>1, <3>2 DEF BeingWritten, Writing
    <3>4. QED
      BY <2>2, <2>5, <3>3 DEF ReadContent
  <2>6. CASE \E p \in Parts : Receive(p)
    <3>1. receiving \subseteq receiving' /\ UNCHANGED files
      BY <2>6 DEF Receive
    <3>2. QED
      BY <2>2, <3>1 DEF BeingWritten
  <2>7. CASE Crash
    BY <2>2, <2>7 DEF Crash
  <2>8. CASE FetchBegins \/ FetchReturns \/ FetchTimesOut \/ Tick \/ UNCHANGED vars
    <3>1. UNCHANGED <<files, receiving>>
      BY <2>8 DEF FetchBegins, FetchReturns, FetchTimesOut, Tick, vars
    <3>2. QED
      BY <2>2, <3>1 DEF BeingWritten
  <2>9. QED
    BY <2>3, <2>4, <2>5, <2>6, <2>7, <2>8 DEF Next
<1>2. QED
  BY <1>1, InitIInv, NextIInv, PTL DEF Spec, OneObjectAudits

(* No sequence of parts takes the database past either limit. *)
THEOREM AssemblyIsBounded == Spec => []AssemblyWithinLimits
<1>1. IInv => AssemblyWithinLimits
  BY DEF IInv, WithinLimits, AssemblyWithinLimits
<1>2. QED
  BY <1>1, InitIInv, NextIInv, PTL DEF Spec

(* No step loses a part or a result, or changes what an object is. *)
THEOREM AssemblyOnlyGrows == Spec => AssemblyIsStable
<1>1. IInv /\ [Next]_vars =>
        [/\ db.parts \subseteq db'.parts
         /\ \A k \in DOMAIN db.objects :
              /\ k \in DOMAIN db'.objects
              /\ db'.objects[k].manifest = db.objects[k].manifest
              /\ db'.objects[k].expires = db.objects[k].expires
              /\ db.objects[k].complete => db'.objects[k].complete]_vars
  BY NextIInv DEF Grown
<1>2. QED
  BY <1>1, InitIInv, NextIInv, PTL DEF Spec, AssemblyIsStable
=============================================================================
