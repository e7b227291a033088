--------------------------- MODULE MCRelayDelivery ---------------------------
(***************************************************************************)
(* alice sends one file to bob and to dave, under the id that its content  *)
(* gives it (cli.py); carol has left another one under the same id for     *)
(* dave, who took it.  The contact given to publish_receipt is always      *)
(* alice's, which is the wrong one for what carol sent.                    *)
(***************************************************************************)
EXTENDS RelayDelivery, TLC

CONSTANTS alice, carol, bob, dave, i, x, y, r1, r2

MCSources == {alice, carol}
MCIds == {i}
MCDigests == {x, y}

OnePart(source, id, digest) ==
  [source |-> source, index |-> 0, expires |-> 1,
   manifest |-> [id |-> id, digest |-> digest, scheme |-> "exact", count |-> 1]]

Mine == OnePart(alice, i, x)
Hers == OnePart(carol, i, y)

MCParts == {Mine, Hers}
MCErrands == {[to |-> bob, part |-> Mine], [to |-> dave, part |-> Mine]}
MCOtherMail == {Data(dave, Hers)}
MCContacts == {alice}
MCContent == x :> <<{0}, {7}>> @@ y :> <<{1}>>

(* For liveness, bob and one file; for send, two files. *)
LiveParts == {Mine}
LiveErrands == {[to |-> bob, part |-> Mine]}

TwoParts == {Mine, OnePart(alice, i, y)}
TwoErrands == {[to |-> bob, part |-> p] : p \in TwoParts}
=============================================================================
