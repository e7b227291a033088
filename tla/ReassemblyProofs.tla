-------------------------- MODULE ReassemblyProofs --------------------------
(***************************************************************************)
(* The bytes a recipient puts together are those of the object, for every  *)
(* content, any number of chunks of either split, and any order, overlap   *)
(* and repetition of deliveries: the invariant of ReceiverProofs (enough   *)
(* chunks, no others), that its manifests are those of parts that were     *)
(* sent, and the theorems of SplittingProofs.                              *)
(***************************************************************************)
EXTENDS Reassembly, ReceiverProofs, SplittingProofs

LEMMA InitSent == Init => Sent(db, Parts)
BY DEF Init, EmptyDb, Sent

LEMMA NextSent ==
  ASSUME IInv, Sent(db, Parts), [Next]_vars
  PROVE  Sent(db, Parts)'
<1>1. CASE db' = db
  BY <1>1
<1>2. CASE \E p \in Parts : Receive(p)
  <2>1. PICK p \in Parts : Receive(p)
    BY <1>2
  <2>2. db' = AcceptVerified(db, p)
    BY <2>1 DEF Receive
  <2>3. QED
    BY <2>2, AcceptSent DEF IInv
<1>3. QED
  BY <1>1, <1>2
  DEF Next, ReadContent, OpenOutput, WriteOutput, OpenEnvelope, WriteEnvelope,
      FetchBegins, FetchReturns, FetchTimesOut, Crash, Tick, vars

LEMMA ChunksMakeTheObject ==
  ASSUME NEW p \in Parts, NEW have \in SUBSET (0..(p.manifest.count - 1)),
         Enough(p.manifest, have)
  PROVE  BytesOf(p.manifest, have) = Content[p.manifest.digest]
<1>1. PICK m : m = p.manifest
  OBVIOUS
<1>2. /\ m.digest \in Digests /\ m.count \in 1..32
      /\ m.scheme \in {"exact", "xor2"}
      /\ m.scheme = "xor2" => m.count = 3
  BY <1>1, PartTyped
<1>3. PICK content \in Seq(Byte) : content = Content[m.digest]
  BY <1>2, ContentAssumption
<1>4. PICK chunks : chunks = [i \in have |-> ChunksOf(m)[i]]
  OBVIOUS
<1>5. CASE m.scheme = "exact"
  <2>1. m.count \in Nat \ {0}
    <3>1. PICK count \in 1..32 : count = m.count
      BY <1>2
    <3>2. count \in Nat \ {0}
      OBVIOUS
    <3>3. QED
      BY <3>1, <3>2
  <2>2. 0..(m.count - 1) \subseteq have
    BY <1>1, <1>5 DEF Enough
  <2>3. \A i \in 0..(m.count - 1) : chunks[i] = Split(content, m.count)[i]
    BY <1>3, <1>4, <1>5, <2>2 DEF ChunksOf
  <2>4. Joined(chunks, m.count) = content
    BY <2>1, <2>3, SplitJoins
  <2>5. QED
    BY <1>1, <1>3, <1>4, <1>5, <2>4 DEF BytesOf, Reconstruct
<1>6. CASE m.scheme = "xor2"
  <2>1. have \in SUBSET (0..2)
    BY <1>1, <1>2, <1>6
  <2>2. PICK a, b : a \in have /\ b \in have /\ a # b
    BY <1>1, <1>6 DEF Enough
  <2>3. DOMAIN chunks = have
        /\ \A i \in have : chunks[i] = ParitySplit(content)[i]
    BY <1>3, <1>4, <1>6 DEF ChunksOf
  <2>4. Reconstruct("xor2", m.count, Len(content), chunks) = content
    BY <2>1, <2>2, <2>3, ParityRecovers
  <2>5. QED
    BY <1>1, <1>3, <1>4, <1>6, <2>4 DEF BytesOf
<1>7. QED
  BY <1>2, <1>5, <1>6

LEMMA ResultsAreObjects == IInv /\ Sent(db, Parts) => ResultIsTheObject
<1> SUFFICES ASSUME IInv, Sent(db, Parts), NEW k \in Complete(db)
             PROVE  LET m == db.objects[k].manifest IN
                    BytesOf(m, Have(db.parts, k)) = Content[m.digest]
  BY DEF ResultIsTheObject
<1>1. k \in DOMAIN db.objects /\ db.objects[k].complete
  BY DEF Complete
<1>2. PICK p \in Parts : p.manifest = db.objects[k].manifest
  BY <1>1 DEF Sent
<1>3. /\ Have(db.parts, k) \in SUBSET (0..(p.manifest.count - 1))
      /\ Enough(p.manifest, Have(db.parts, k))
  BY <1>1, <1>2 DEF IInv, DbOK, ObjectOK
<1>4. QED
  BY <1>2, <1>3, ChunksMakeTheObject

(* Every complete object of a recipient is, byte for byte, what its origin *)
(* split.                                                                  *)
THEOREM ResultIsExact == Spec => []ResultIsTheObject
BY InitIInv, InitSent, NextIInv, NextSent, ResultsAreObjects, PTL DEF Spec
=============================================================================
