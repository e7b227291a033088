------------------------------ MODULE Assembly ------------------------------
(***************************************************************************)
(* assembly.py, with the parts of parts.py and erasure.py it rests on: the *)
(* database in which a recipient puts an object together.  As in Mailbox,  *)
(* an operation is one transaction and so an operator on databases, which  *)
(* returns the one it was given when the transaction is rolled back.       *)
(*                                                                         *)
(* A part is what `validate` lets through: its manifest and its index.     *)
(* The manifest holds the hash of every part and of the whole, so a part   *)
(* with a known manifest and index has a known content.  Manifests are     *)
(* those of split and parity_split, whose parts do make up the object.     *)
(***************************************************************************)
EXTENDS Naturals, FiniteSets

CONSTANTS Sources,      \* LXMF addresses of the origins
          Ids, Digests,
          Parts,        \* the parts that origins send to this recipient
          MaxObjects,   \* the 16 of accept_verified
          MaxBytes,     \* Assembly.max_bytes
          ManifestLen, PartLen, ObjectLen   \* bytes kept for each of them

Manifest == [id : Ids, digest : Digests, scheme : {"exact", "xor2"},
             count : 1..32]
Part == [source : Sources, manifest : Manifest, index : 0..31, expires : Nat]

ASSUME PartsAssumption ==
  /\ Parts \subseteq Part
  /\ \A p \in Parts : /\ p.index < p.manifest.count
                      /\ p.manifest.scheme = "xor2" => p.manifest.count = 3

ASSUME AssemblyCapacityAssumption ==
  /\ MaxObjects \in Nat /\ MaxBytes \in Nat
  /\ ManifestLen \in Nat /\ PartLen \in Nat /\ ObjectLen \in Nat

Keys == Sources \X Ids

(* Mutant: the key is made of the content's digest. *)
KeyOfContent(p) == <<p.source, p.manifest.digest>>

KeyOf(p) == <<p.source, p.manifest.id>>

Object == [manifest : Manifest, expires : Nat, complete : BOOLEAN]

(* objects: key -> row, for some keys; parts: the keys of the parts table. *)
EmptyDb == [objects |-> [k \in {} |-> {}], parts |-> {}]

(* The chunks of an object that have arrived. *)
Have(parts, k) == {q[2] : q \in {q \in parts : q[1] = k}}

(* Mutant: an exact split is joined one chunk early. *)
ReconstructsEarly(m, have) ==
  Cardinality(have) >= IF m.scheme = "exact" THEN m.count - 1 ELSE 2

(* reconstruct: every chunk of an exact split, any two of the three of the *)
(* parity code.                                                            *)
Reconstructs(m, have) ==
  IF m.scheme = "exact" THEN Cardinality(have) >= m.count
                        ELSE Cardinality(have) >= 2

Complete(db) == {k \in DOMAIN db.objects : db.objects[k].complete}

(* The bytes the limit counts: manifests, results, and parts with the      *)
(* packets that brought them.                                              *)
Used(db) ==
  Cardinality(DOMAIN db.objects) * ManifestLen
    + Cardinality(Complete(db)) * ObjectLen
    + Cardinality(db.parts) * PartLen

-----------------------------------------------------------------------------
(* Mutant: the manifest is compared by id only. *)
AdmitsAnyManifest(db, p) ==
  KeyOf(p) \notin DOMAIN db.objects => Cardinality(DOMAIN db.objects) < MaxObjects

(* An object already begun must come with the manifest and lifetime it was *)
(* begun with; there is room for MaxObjects of them.                       *)
Admits(db, p) ==
  LET k == KeyOf(p) IN
  IF k \in DOMAIN db.objects
  THEN /\ db.objects[k].manifest = p.manifest
       /\ db.objects[k].expires = p.expires
  ELSE Cardinality(DOMAIN db.objects) < MaxObjects

(* The rows of the transaction before its capacity check. *)
Enter(db, p) ==
  LET k        == KeyOf(p)
      parts    == db.parts \cup {<<k, p.index>>}
      before   == k \in DOMAIN db.objects /\ db.objects[k].complete
      complete == before \/ Reconstructs(p.manifest, Have(parts, k))
      row      == [manifest |-> p.manifest, expires |-> p.expires,
                   complete |-> complete]
  IN  [objects |-> [j \in DOMAIN db.objects \cup {k} |->
                      IF j = k THEN row ELSE db.objects[j]],
       parts   |-> parts]

(* Mutant: the capacity is checked before the part is entered. *)
AcceptsBefore(db, p) == Admits(db, p) /\ Used(db) <= MaxBytes

(* Mutant: a part that is there already is refused. *)
AcceptsFresh(db, p) ==
  /\ Admits(db, p) /\ Used(Enter(db, p)) <= MaxBytes
  /\ <<KeyOf(p), p.index>> \notin db.parts

(* Assembly.accept_verified: TRUE when it returns, FALSE when it raises. *)
Accepts(db, p) == Admits(db, p) /\ Used(Enter(db, p)) <= MaxBytes

AcceptVerified(db, p) == IF Accepts(db, p) THEN Enter(db, p) ELSE db

(* Assembly.content: there is one once the object is complete. *)
HasContent(db, k) == k \in Complete(db)
=============================================================================
