-------------------------- MODULE MCDirectDelivery --------------------------
(***************************************************************************)
(* Two nodes, an id used for two contents, and traffic both ways.  Lengths *)
(* are chosen so that an inbox row can fit where its receipt no longer     *)
(* does, and a confirmation can be refused for want of room.               *)
(***************************************************************************)
EXTENDS DirectDelivery

CONSTANTS a, b, i, j, x, y

Data(from, to, id, digest, expires) ==
  [kind |-> "data", id |-> id, source |-> from, destination |-> to,
   expires |-> expires, digest |-> digest]

MCNodes == {a, b}
MCIds == {i, j}
MCDigests == {x, y}

MCBothWays == {Data(a, b, i, x, 2), Data(a, b, i, y, 1), Data(b, a, i, x, 1)}
MCOneWay == {Data(a, b, i, x, 2), Data(a, b, i, y, 1), Data(a, b, j, x, 2)}

MCBodyLen ==
  [e \in Envelopes |-> CASE e.kind = "receipt" -> 2
                         [] e.kind = "data" /\ e.digest = x -> 3
                         [] e.kind = "data" /\ e.digest = y -> 4]

MCWireLen == [e \in Envelopes |-> MCBodyLen[e] + 3]
=============================================================================
