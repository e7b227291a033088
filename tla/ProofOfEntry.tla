---------------------------- MODULE ProofOfEntry ----------------------------
(***************************************************************************)
(* What custody promises an origin (custody.py: "a relay attests, by       *)
(* transient id, that it holds a message").  A relay attests only when it  *)
(* was asked and only to what it held; an origin keeps only what a relay   *)
(* attested to it, in the place of the question's author and message; and  *)
(* a proof that is kept is given up only where another one about the same  *)
(* message was made, which may take its place, or be lost as well.         *)
(* Threads, refusals, purges and restarts do not show.                     *)
(***************************************************************************)
CONSTANTS Origins, Tids

VARIABLES
  asked,      \* the questions [origin, relay, tid, ...] put to relays
  held,       \* <<relay, tid, instant>>: what relays held, and since when
  attested,   \* the attestations made: a question and the instants named
  kept        \* <<origin, tid>> -> the attestation the origin has of it

vars == <<asked, held, attested, kept>>

Init ==
  /\ asked = {} /\ held = {} /\ attested = {}
  /\ kept = [p \in Origins \X Tids |-> {}]

Ask(q) == asked' = asked \cup {q} /\ UNCHANGED <<held, attested, kept>>

Hold(h) == held' = held \cup {h} /\ UNCHANGED <<asked, attested, kept>>

Attest(a) ==
  /\ a.question \in asked
  /\ a.since # {}
  /\ \A x \in a.since : <<a.question.relay, a.question.tid, x>> \in held
  /\ attested' = attested \cup {a}
  /\ UNCHANGED <<asked, held, kept>>

Keep(a) ==
  /\ a \in attested
  /\ kept' = [kept EXCEPT ![<<a.question.origin, a.question.tid>>] = {a}]
  /\ UNCHANGED <<asked, held, attested>>

(* The place is cleared for b. *)
GiveUp(a, b) ==
  /\ b \in attested /\ b # a
  /\ b.question.origin = a.question.origin /\ b.question.tid = a.question.tid
  /\ kept[<<a.question.origin, a.question.tid>>] = {a}
  /\ kept' = [kept EXCEPT ![<<a.question.origin, a.question.tid>>] = {}]
  /\ UNCHANGED <<asked, held, attested>>

Next ==
  \/ \E q \in asked' : Ask(q)
  \/ \E h \in held' : Hold(h)
  \/ \E a \in attested' : Attest(a) \/ Keep(a)
  \/ \E a, b \in attested : GiveUp(a, b)

Spec == Init /\ [][Next]_vars
=============================================================================
