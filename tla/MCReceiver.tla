----------------------------- MODULE MCReceiver -----------------------------
(***************************************************************************)
(* One origin sends an object in two exact parts, another content under    *)
(* the same id, and an object in three parity parts with a nearer          *)
(* deadline; another origin uses the same id.  There is room for two       *)
(* objects with two parts and a result each, and for not a part more.  The *)
(* contents have odd lengths: three bytes in two parts, five in parity.    *)
(***************************************************************************)
EXTENDS Reassembly, TLC

CONSTANTS alice, carol, i, j, x, y, z

MCSources == {alice, carol}
MCIds == {i, j}
MCDigests == {x, y, z}

PartsOf(source, id, digest, scheme, count, expires) ==
  {[source |-> source, index |-> n, expires |-> expires,
    manifest |-> [id |-> id, digest |-> digest, scheme |-> scheme,
                  count |-> count]] : n \in 0..(count - 1)}

MCParts == PartsOf(alice, i, x, "exact", 2, 2)
             \cup PartsOf(alice, i, z, "exact", 1, 2)
             \cup PartsOf(alice, j, y, "xor2", 3, 1)
             \cup PartsOf(carol, i, z, "exact", 1, 2)

MCContent == x :> <<{0}, {1}, {0, 7}>> @@ y :> <<{1}, {2}, {0, 1}, {7}, {3}>>
               @@ z :> <<{5}>>
=============================================================================
