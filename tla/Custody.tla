------------------------------- MODULE Custody -------------------------------
(***************************************************************************)
(* The custody conversation of handlers.py, custody.py and Node.custody_of *)
(* (node.py): an origin asks a relay whether it holds a message, a thread  *)
(* of the relay answers from its store, and the origin keeps the signed    *)
(* answer as a file, beside a second file that names the relay.            *)
(*                                                                         *)
(* External: the LXMF propagation store (a message may arrive or be purged *)
(* at any moment) and the network, which delivers a direct message late,   *)
(* out of order or never, but not twice (the LXMF router drops repeats).   *)
(* The callbacks of two messages may run at the same time.  A signature is *)
(* the `relay` field of an answer.  One clock serves every node.  The copy *)
(* of its answers that a relay keeps (issued.json) is left out, with the   *)
(* rest of what is only recorded: nothing reads it.                        *)
(***************************************************************************)
EXTENDS Naturals, Sequences, FiniteSets, Disk

CONSTANTS Origins, Relays,
          Tids,          \* transient ids of propagated messages
          Lifetime,      \* custody.LIFETIME
          MaxRequests,   \* bound: questions asked in a behaviour
          MaxClock       \* bound: the clock stops here

ASSUME CustodyAssumption ==
  Lifetime \in Nat \ {0} /\ MaxRequests \in Nat /\ MaxClock \in Nat \ {0}

Times == 1..MaxClock
Kinds == {"custody", "custody_refusal"}

Request == [id : 1..MaxRequests, origin : Origins, relay : Relays,
            tid : Tids, expires : Nat]

(* An answer carries the fields of its request; an attestation also says   *)
(* since when the message has been held.                                   *)
Reply == [kind : Kinds, request : Request, received : SUBSET Times]

(* A file of the custody directory: custody/<tid>.lxmf for an attestation, *)
(* custody/<tid>.refused.lxmf for a refusal.                               *)
Files == Tids \X Kinds

(* Mutant: one name per message, whatever the answer. *)
FileOfMessage(m) == <<m.request.tid, "custody">>

FileOf(m) == <<m.request.tid, m.kind>>

(* A thread of answer_custody: it waits until the message is indexed, has  *)
(* found its entry and will read the file, or has composed its reply.      *)
Thread == [request : Request, found : SUBSET Times, reply : SUBSET Reply]
Waiting(q) == [request |-> q, found |-> {}, reply |-> {}]

(* A callback of collect_custody and what it does next with an answer it   *)
(* took: write the packet it has open, open the sidecar, write it, emit    *)
(* the row.                                                                *)
Saving == [answer : Reply, next : {"packet", "sidecar", "contact", "row"}]

(* Throughout, an empty set is an entry or slot that is not there, and a   *)
(* set of one element is its content.                                      *)
VARIABLES
  clock,
  store,      \* Relay -> tid -> when the message it holds was received
  working,    \* Relay -> the threads of answer_custody
  asked,      \* every request sent
  answered,   \* every reply sent
  taken,      \* the requests and replies the network has delivered
  expected,   \* Origin -> the questions of this process (memory only)
  packet,     \* Origin -> file -> the packet under that name
  sidecar,    \* Origin -> file -> the .relay file beside it
  saving,     \* Origin -> its callbacks that are saving an answer
  rows,       \* Origin -> the answers in the record of this process
  call,       \* Origin -> the question custody_of is waiting on
  returned,   \* Origin -> the question and the row of its last return
  held,       \* history: what each relay's store ever held, and since when
  ended       \* history: requests whose thread has run to its end

relayVars  == <<store, working, held, ended>>
originVars == <<expected, packet, sidecar, saving, rows, call, returned>>
network    == <<asked, answered, taken>>
vars == <<clock, relayVars, originVars, network>>

TypeOK ==
  /\ clock \in Times
  /\ store \in [Relays -> [Tids -> SUBSET Times]]
  /\ working \in [Relays -> SUBSET Thread]
  /\ asked \subseteq Request /\ answered \subseteq Reply
  /\ taken \subseteq asked \cup answered
  /\ expected \in [Origins -> SUBSET Request]
  /\ packet \in [Origins -> [Files -> File(Reply)]]
  /\ sidecar \in [Origins -> [Files -> File(Relays)]]
  /\ saving \in [Origins -> SUBSET Saving]
  /\ rows \in [Origins -> Seq(Reply)]
  /\ call \in [Origins -> SUBSET Request]
  /\ returned \in [Origins -> SUBSET (Request \X Reply)]
  /\ held \subseteq Relays \X Tids \X Times
  /\ ended \subseteq Request

Init ==
  /\ clock = 1
  /\ store = [r \in Relays |-> [t \in Tids |-> {}]]
  /\ working = [r \in Relays |-> {}]
  /\ asked = {} /\ answered = {} /\ taken = {}
  /\ expected = [o \in Origins |-> {}]
  /\ packet = [o \in Origins |-> [f \in Files |-> NoFile]]
  /\ sidecar = [o \in Origins |-> [f \in Files |-> NoFile]]
  /\ saving = [o \in Origins |-> {}]
  /\ rows = [o \in Origins |-> <<>>]
  /\ call = [o \in Origins |-> {}]
  /\ returned = [o \in Origins |-> {}]
  /\ held = {} /\ ended = {}

-----------------------------------------------------------------------------
(* The relay.  A message reaches the propagation store, or leaves it with  *)
(* its file.                                                               *)
Stored(r, t) ==
  /\ store[r][t] = {}
  /\ store' = [store EXCEPT ![r][t] = {clock}]
  /\ held' = held \cup {<<r, t, clock>>}
  /\ UNCHANGED <<clock, working, ended, originVars, network>>

Purged(r, t) ==
  /\ store[r][t] # {}
  /\ store' = [store EXCEPT ![r][t] = {}]
  /\ UNCHANGED <<clock, working, held, ended, originVars, network>>

(* on_delivery peeks at the request and starts a thread, which             *)
(* authenticates it; an expired request is dropped by either.              *)
AcceptRequest(r) ==
  /\ \E q \in asked \ taken :
       /\ q.relay = r
       /\ taken' = taken \cup {q}
       /\ working' = IF clock < q.expires
                     THEN [working EXCEPT ![r] = @ \cup {Waiting(q)}]
                     ELSE working
  /\ UNCHANGED <<clock, store, held, ended, originVars, asked, answered>>

(* The thread looks its entry up, after a wait of any length... *)
FindEntry(r) ==
  /\ \E w \in working[r] :
       /\ w = Waiting(w.request)
       /\ store[r][w.request.tid] # {}
       /\ working' = [working EXCEPT ![r] =
                        (@ \ {w}) \cup {[w EXCEPT !.found = store[r][w.request.tid]]}]
  /\ UNCHANGED <<clock, store, held, ended, originVars, network>>

Compose(r, w, m) ==
  /\ working' = [working EXCEPT ![r] = (@ \ {w}) \cup {[w EXCEPT !.reply = {m}]}]

(* Mutant: a refusal carries the reception instant of no message, 0. *)
RefuseDated(r) ==
  /\ \E w \in working[r] :
       /\ w = Waiting(w.request)
       /\ store[r][w.request.tid] = {}
       /\ Compose(r, w, [kind |-> "custody_refusal", request |-> w.request,
                         received |-> {0}])
  /\ UNCHANGED <<clock, store, held, ended, originVars, network>>

(* ...or gives up and refuses.                                             *)
Refuse(r) ==
  /\ \E w \in working[r] :
       /\ w = Waiting(w.request)
       /\ store[r][w.request.tid] = {}
       /\ Compose(r, w, [kind |-> "custody_refusal", request |-> w.request,
                         received |-> {}])
  /\ UNCHANGED <<clock, store, held, ended, originVars, network>>

(* Mutant: the attestation is dated when it is made. *)
AttestNow(r) ==
  /\ \E w \in working[r] :
       /\ w.found # {} /\ w.reply = {} /\ store[r][w.request.tid] # {}
       /\ Compose(r, w, [kind |-> "custody", request |-> w.request,
                         received |-> {clock}])
  /\ UNCHANGED <<clock, store, held, ended, originVars, network>>

(* attest reads the file the entry named and dates the attestation by the  *)
(* entry.                                                                  *)
Readable(r, w) ==
  /\ store[r][w.request.tid] # {}
  /\ \A t \in w.found : t <= w.request.expires

Attest(r) ==
  /\ \E w \in working[r] :
       /\ w.found # {} /\ w.reply = {} /\ Readable(r, w)
       /\ Compose(r, w, [kind |-> "custody", request |-> w.request,
                         received |-> w.found])
  /\ UNCHANGED <<clock, store, held, ended, originVars, network>>

(* The file is gone, although the message may be back under another name,  *)
(* or the entry is younger than the deadline: the thread raises, and       *)
(* _guarded only records `rejected`.                                       *)
AnswerRaises(r) ==
  /\ \E w \in working[r] :
       /\ w.found # {} /\ w.reply = {}
       /\ ~Readable(r, w) \/ store[r][w.request.tid] # w.found
       /\ working' = [working EXCEPT ![r] = @ \ {w}]
       /\ ended' = ended \cup {w.request}
  /\ UNCHANGED <<clock, store, held, originVars, network>>

SendReply(r) ==
  /\ \E w \in working[r] :
       /\ w.reply # {}
       /\ answered' = answered \cup w.reply
       /\ working' = [working EXCEPT ![r] = @ \ {w}]
       /\ ended' = ended \cup {w.request}
  /\ UNCHANGED <<clock, store, held, originVars, asked, taken>>

(* The relay dies: its threads are lost, its store and records are not.    *)
RelayCrash(r) ==
  /\ working' = [working EXCEPT ![r] = {}]
  /\ UNCHANGED <<clock, store, held, ended, originVars, network>>

-----------------------------------------------------------------------------
(* The origin.  custody_of sends a request under a fresh id, remembers it  *)
(* in memory and waits...                                                  *)
AskCustody(o, r, t) ==
  /\ call[o] = {}
  /\ Cardinality(asked) < MaxRequests
  /\ LET q == [id |-> Cardinality(asked) + 1, origin |-> o, relay |-> r,
               tid |-> t, expires |-> clock + Lifetime]
     IN  /\ asked' = asked \cup {q}
         /\ expected' = [expected EXCEPT ![o] = @ \cup {q}]
         /\ call' = [call EXCEPT ![o] = {q}]
  /\ UNCHANGED <<clock, relayVars, answered, taken, packet, sidecar, saving,
                 rows, returned>>

(* ...for the first row of the record that is about the message... *)
About(row, q) == row.request.tid = q.tid

CallReturns(o) ==
  /\ \E q \in call[o], i \in DOMAIN rows[o] :
       /\ About(rows[o][i], q)
       /\ \A j \in 1..(i - 1) : ~About(rows[o][j], q)
       /\ returned' = [returned EXCEPT ![o] = {<<q, rows[o][i]>>}]
  /\ call' = [call EXCEPT ![o] = {}]
  /\ UNCHANGED <<clock, relayVars, expected, packet, sidecar, saving, rows,
                 network>>

(* ...or for its timeout. *)
CallTimesOut(o) ==
  /\ call[o] # {}
  /\ call' = [call EXCEPT ![o] = {}]
  /\ UNCHANGED <<clock, relayVars, expected, packet, sidecar, saving, rows,
                 returned, network>>

(* Mutant: a reply nobody of this process asked for is taken too. *)
AcceptsUnsolicited(o, m) == clock < m.request.expires

(* collect_custody: the id must have been asked about by this process, and *)
(* the answer must be signed by the relay asked, for the id asked.  Only   *)
(* the relay asked answers, so the request it carries is the one expected. *)
Accepts(o, m) == m.request \in expected[o] /\ clock < m.request.expires

Advance(o, s, phase) ==
  saving' = [saving EXCEPT ![o] = (@ \ {s}) \cup {[s EXCEPT !.next = phase]}]

(* Mutant: the row is emitted before the answer is saved. *)
CollectReplyEmitting(o) ==
  /\ \E m \in answered \ taken :
       /\ m.request.origin = o
       /\ taken' = taken \cup {m}
       /\ IF Accepts(o, m)
          THEN /\ packet' = [packet EXCEPT ![o][FileOf(m)] = Emptied]
               /\ saving' = [saving EXCEPT ![o] =
                               @ \cup {[answer |-> m, next |-> "packet"]}]
               /\ rows' = [rows EXCEPT ![o] = Append(@, m)]
          ELSE UNCHANGED <<packet, saving, rows>>
  /\ UNCHANGED <<clock, relayVars, asked, answered, expected, sidecar, call,
                 returned>>

(* The packet is opened...                                                 *)
CollectReply(o) ==
  /\ \E m \in answered \ taken :
       /\ m.request.origin = o
       /\ taken' = taken \cup {m}
       /\ IF Accepts(o, m)
          THEN /\ packet' = [packet EXCEPT ![o][FileOf(m)] = Emptied]
               /\ saving' = [saving EXCEPT ![o] =
                               @ \cup {[answer |-> m, next |-> "packet"]}]
          ELSE UNCHANGED <<packet, saving>>
  /\ UNCHANGED <<clock, relayVars, asked, answered, expected, sidecar, rows,
                 call, returned>>

(* ...and written, ...                                                     *)
WritePacket(o) ==
  /\ \E s \in saving[o] :
       /\ s.next = "packet"
       /\ \E file \in Written(packet[o][FileOf(s.answer)], s.answer) :
            packet' = [packet EXCEPT ![o][FileOf(s.answer)] = file]
       /\ Advance(o, s, "sidecar")
  /\ UNCHANGED <<clock, relayVars, network, expected, sidecar, rows, call,
                 returned>>

(* ...then the sidecar is, ...                                             *)
OpenSidecar(o) ==
  /\ \E s \in saving[o] :
       /\ s.next = "sidecar"
       /\ sidecar' = [sidecar EXCEPT ![o][FileOf(s.answer)] = Emptied]
       /\ Advance(o, s, "contact")
  /\ UNCHANGED <<clock, relayVars, network, expected, packet, rows, call,
                 returned>>

(* (contacts have one length, so the later one covers the earlier)         *)
NameRelay(o) ==
  /\ \E s \in saving[o] :
       /\ s.next = "contact"
       /\ sidecar' = [sidecar EXCEPT ![o][FileOf(s.answer)] =
                         [there |-> TRUE, bytes |-> {s.answer.request.relay}]]
       /\ Advance(o, s, "row")
  /\ UNCHANGED <<clock, relayVars, network, expected, packet, rows, call,
                 returned>>

(* ...and then comes the row that wakes custody_of.                        *)
EmitRow(o) ==
  /\ \E s \in saving[o] :
       /\ s.next = "row"
       /\ rows' = [rows EXCEPT ![o] = Append(@, s.answer)]
       /\ saving' = [saving EXCEPT ![o] = @ \ {s}]
  /\ UNCHANGED <<clock, relayVars, network, expected, packet, sidecar, call,
                 returned>>

(* The process ends, at any point, and the same directory is a new process *)
(* later: what was asked and recorded in memory is gone.                   *)
OriginCrash(o) ==
  /\ expected' = [expected EXCEPT ![o] = {}]
  /\ saving' = [saving EXCEPT ![o] = {}]
  /\ rows' = [rows EXCEPT ![o] = <<>>]
  /\ call' = [call EXCEPT ![o] = {}]
  /\ returned' = [returned EXCEPT ![o] = {}]
  /\ UNCHANGED <<clock, relayVars, network, packet, sidecar>>

Tick ==
  /\ clock < MaxClock
  /\ clock' = clock + 1
  /\ UNCHANGED <<relayVars, originVars, network>>

Answering(r) ==
  \/ AcceptRequest(r) \/ FindEntry(r) \/ Refuse(r) \/ Attest(r)
  \/ AnswerRaises(r) \/ SendReply(r)

Next ==
  \/ \E r \in Relays, t \in Tids : Stored(r, t) \/ Purged(r, t)
  \/ \E r \in Relays : Answering(r) \/ RelayCrash(r)
  \/ \E o \in Origins, r \in Relays, t \in Tids : AskCustody(o, r, t)
  \/ \E o \in Origins : \/ CallReturns(o) \/ CallTimesOut(o)
                        \/ CollectReply(o) \/ WritePacket(o)
                        \/ OpenSidecar(o) \/ NameRelay(o) \/ EmitRow(o)
                        \/ OriginCrash(o)
  \/ Tick

Spec == Init /\ [][Next]_vars

-----------------------------------------------------------------------------
(* Every answer there is: composed, sent, or with bytes of it in a file.   *)
Answers ==
  answered
    \cup (UNION {UNION {w.reply : w \in working[r]} : r \in Relays})
    \cup (UNION {packet[o][f].bytes : o \in Origins, f \in Files})

(* "A relay attests only to what is really in its store": an attestation,  *)
(* wherever it is found, names a message that relay did hold, from the     *)
(* instant it says (handlers.py answer_custody, custody.py attest).        *)
AttestedWasHeld ==
  \A m \in Answers :
    m.kind = "custody" =>
      /\ m.received # {}
      /\ \A t \in m.received : <<m.request.relay, m.request.tid, t>> \in held

(* A callback that has not done its write into the file yet. *)
PacketOpen(o, f) ==
  \E s \in saving[o] : FileOf(s.answer) = f /\ s.next = "packet"
SidecarOpen(o, f) ==
  \E s \in saving[o] : FileOf(s.answer) = f /\ s.next = "contact"

(* A row an origin can act on is backed by the files an audit will read,   *)
(* the packet under the row's name and the relay beside it: however the    *)
(* callbacks of several answers interleave, neither is empty but while     *)
(* another of them has it open, and the packet is about the row's message. *)
RowsAreBacked ==
  \A o \in Origins : \A i \in DOMAIN rows[o] :
    LET f == FileOf(rows[o][i]) IN
    /\ packet[o][f].bytes # {} \/ PacketOpen(o, f)
    /\ sidecar[o][f].bytes # {} \/ SidecarOpen(o, f)
    /\ \A m \in packet[o][f].bytes : /\ m.kind = rows[o][i].kind
                                     /\ m.request.tid = rows[o][i].request.tid

(* Proof of entry gives way to proof only: an attestation that is whole in *)
(* its file stays, whatever refusals, late answers and restarts come, but  *)
(* for another attestation about the same message that is being saved in   *)
(* its place.  (The process may die there, and then both are lost.)        *)
ProofGivesWayToProof ==
  [][\A o \in Origins, t \in Tids : \A m \in Whole(packet[o][<<t, "custody">>]) :
       \/ m \in Whole(packet'[o][<<t, "custody">>])
       \/ \E s \in saving'[o] : /\ s.answer # m /\ s.answer.kind = "custody"
                               /\ s.answer.request.tid = t]_vars

(* What custody_of returns: an answer, to a question this very process put *)
(* about the same message, which a relay did send and whose packet and     *)
(* sidecar are there by then.  So it is an answer of the relay asked       *)
(* whenever this process asked no other one about the message.             *)
ReturnedIsAnAnswer ==
  \A o \in Origins : \A x \in returned[o] :
    /\ x[2] \in answered
    /\ x[2].request \in expected[o]
    /\ x[2].request.tid = x[1].tid
    /\ packet[o][FileOf(x[2])].there /\ sidecar[o][FileOf(x[2])].there

(* audit._custody over one file with the packet m: there is a sidecar, and *)
(* m is signed by the relay in it, about this message and to this node.    *)
CustodyCheck(o, f, m) ==
  /\ Whole(sidecar[o][f]) = {m.request.relay}
  /\ m.kind = f[2] /\ m.request.tid = f[1] /\ m.request.origin = o

AuditPasses(o, f) ==
  packet[o][f].there =>
    \E m \in packet[o][f].bytes : /\ Whole(packet[o][f]) = {m}
                                 /\ CustodyCheck(o, f, m)

(* The answers about one file that o was sent come from one relay, and no  *)
(* shorter one was written over a longer one while both callbacks had it   *)
(* open.                                                                   *)
OneRelay(o, f) ==
  /\ \A m, n \in {m \in answered : m.request.origin = o /\ FileOf(m) = f} :
       m.request.relay = n.request.relay
  /\ Cardinality(packet[o][f].bytes) <= 1

BeingSaved(o, f) == \E s \in saving[o] : FileOf(s.answer) = f

Sound(o, f) == OneRelay(o, f) => AuditPasses(o, f) \/ BeingSaved(o, f)

(* Where one relay answered, a file that fails the audit is being saved,   *)
(* or the process died in that: nothing else makes it fail, in whatever    *)
(* order callbacks overlap, answers come, files are written again and      *)
(* sessions end.                                                           *)
OneRelayRechecks ==
  [][\A o \in Origins, f \in Files :
       Sound(o, f) /\ ~(OriginCrash(o) /\ BeingSaved(o, f)) => Sound(o, f)']_vars

(* What custody promises an origin, as the abstract specification of it:   *)
(* threads, stores that fill and empty, refusals, answers late or out of   *)
(* order and restarts on both sides are all steps of ProofOfEntry or none. *)
Proof(m) == [question |-> m.request, since |-> m.received]
ProofsIn(S) == {Proof(m) : m \in {m \in S : m.kind = "custody"}}

P == INSTANCE ProofOfEntry WITH
       attested <- ProofsIn(answered),
       kept <- [p \in Origins \X Tids |->
                  ProofsIn(Whole(packet[p[1]][<<p[2], "custody">>]))]

ImplementsProofOfEntry == P!Spec

-----------------------------------------------------------------------------
(* What the sources say and the code does not do. *)

(* custody.py: "Absence of custody must be explicit, never silence."  A    *)
(* thread that has ended has answered.                                     *)
NeverSilence == ended \subseteq {m.request : m \in answered}

(* node.py, custody_of: "Ask a relay to attest that it holds one message,  *)
(* and verify what comes back."  The row returned is an answer of the      *)
(* relay that was asked.                                                   *)
ReturnsAnswerOfRelayAsked ==
  \A o \in Origins : \A x \in returned[o] : x[2].request.relay = x[1].relay

(* handlers.py, collect_custody: the relay's contact is kept beside the    *)
(* packet "so the attestation can be re-checked later by somebody who was  *)
(* not here when it arrived".  With no answer being saved, the audit       *)
(* passes every attestation that is whole in its file.                     *)
EvidenceRechecks ==
  \A o \in Origins, f \in Files :
    saving[o] = {} /\ f[2] = "custody" =>
      \A m \in Whole(packet[o][f]) : CustodyCheck(o, f, m)
=============================================================================
