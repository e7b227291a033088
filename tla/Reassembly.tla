----------------------------- MODULE Reassembly -----------------------------
(***************************************************************************)
(* Receiver with the bytes: what Assembly leaves out by saying that enough *)
(* chunks make up the object.  Every digest has a content, every manifest  *)
(* is that of a split of it.                                               *)
(***************************************************************************)
EXTENDS Receiver, Splitting

CONSTANT Content   \* the bytes of each digest

ASSUME ContentAssumption ==
  /\ Content \in [Digests -> Seq(Byte)]
  /\ \A p \in Parts :
       LET m == p.manifest IN
       Len(Content[m.digest]) >= IF m.scheme = "exact" THEN m.count ELSE 2

ChunksOf(m) == IF m.scheme = "exact" THEN Split(Content[m.digest], m.count)
                                     ELSE ParitySplit(Content[m.digest])

(* What reconstruct makes of the chunks of m that are numbered in have. *)
BytesOf(m, have) ==
  Reconstruct(m.scheme, m.count, Len(Content[m.digest]),
              [i \in have |-> ChunksOf(m)[i]])

(* reconstruct says that it has the object by counting chunks, whichever   *)
(* they are and in whatever order they came: the bytes it then puts        *)
(* together are those of the object, padding and odd lengths included.     *)
ResultIsTheObject ==
  \A k \in Complete(db) :
    LET m == db.objects[k].manifest IN
    BytesOf(m, Have(db.parts, k)) = Content[m.digest]
=============================================================================
