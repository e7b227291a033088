--------------------------- MODULE CustodyProofs ---------------------------
(***************************************************************************)
(* Proofs about Custody, for all sets of origins, relays and messages, any *)
(* number of questions and any clock.  The truth of an attestation is      *)
(* followed from the store to the thread that found the entry, the network *)
(* and the file of the origin (Truth); the evidence behind a row, from the *)
(* file an answer is saved in to the row (Evidence), a file that is empty  *)
(* being one that somebody has open.                                       *)
(***************************************************************************)
EXTENDS Custody, FiniteSetTheorems, TLAPS

Truthful(m) ==
  m.kind = "custody" =>
    /\ m.received # {}
    /\ \A t \in m.received : <<m.request.relay, m.request.tid, t>> \in held

Truth ==
  /\ \A r \in Relays, t \in Tids : \A x \in store[r][t] : <<r, t, x>> \in held
  /\ \A r \in Relays : \A w \in working[r] :
       /\ w.request.relay = r
       /\ \A x \in w.found : <<r, w.request.tid, x>> \in held
       /\ \A m \in w.reply : Truthful(m)
  /\ \A m \in answered : Truthful(m)
  /\ \A o \in Origins, f \in Files : \A m \in packet[o][f].bytes : Truthful(m)
  /\ \A o \in Origins : \A s \in saving[o] : Truthful(s.answer)

(* Neither file is empty but while a callback has it open. *)
PacketHas(o, f) == packet[o][f].bytes # {} \/ PacketOpen(o, f)
SidecarHas(o, f) == sidecar[o][f].bytes # {} \/ SidecarOpen(o, f)

(* What is on disk for an answer when its callback is about to do `next`. *)
Backed(o, f, next) ==
  /\ packet[o][f].there
  /\ next # "packet" => PacketHas(o, f)
  /\ next \in {"contact", "row"} => sidecar[o][f].there
  /\ next = "row" => SidecarHas(o, f)

Evidence ==
  /\ \A o \in Origins, f \in Files :
       /\ IsFiniteSet(packet[o][f].bytes)
       /\ \A m \in packet[o][f].bytes : FileOf(m) = f
  /\ \A o \in Origins : \A s \in saving[o] : Backed(o, FileOf(s.answer), s.next)
  /\ \A o \in Origins : \A i \in DOMAIN rows[o] :
       Backed(o, FileOf(rows[o][i]), "row")

IInv == TypeOK /\ IsFiniteSet(asked) /\ Truth /\ Evidence

-----------------------------------------------------------------------------
(* What a table of tables becomes when one of its entries is written. *)
LEMMA EntryWritten ==
  ASSUME NEW A, NEW B, NEW C, NEW f \in [A -> [B -> C]],
         NEW a \in A, NEW b \in B, NEW c \in C,
         NEW g, g = [f EXCEPT ![a][b] = c]
  PROVE  /\ g \in [A -> [B -> C]]
         /\ g[a][b] = c
         /\ \A x \in A, y \in B : x # a \/ y # b => g[x][y] = f[x][y]
<1>1. PICK h : h = [f[a] EXCEPT ![b] = c]
  OBVIOUS
<1>2. h \in [B -> C] /\ h[b] = c /\ \A y \in B : y # b => h[y] = f[a][y]
  BY <1>1
<1>3. g = [f EXCEPT ![a] = h]
  BY <1>1
<1>4. QED
  BY <1>2, <1>3

LEMMA InitIInv == Init => IInv
<1> SUFFICES ASSUME Init PROVE IInv
  OBVIOUS
<1>1. TypeOK
  BY CustodyAssumption DEF Init, TypeOK, Times, File, NoFile
<1>2. IsFiniteSet(asked)
  BY FS_EmptySet DEF Init
<1>3. \A o \in Origins, f \in Files : packet[o][f].bytes = {}
  BY DEF Init, NoFile
<1>4. Truth
  BY <1>3 DEF Init, Truth
<1>5. Evidence
  <2>1. \A o \in Origins : saving[o] = {} /\ DOMAIN rows[o] = {}
    BY DEF Init
  <2>2. \A o \in Origins, f \in Files : IsFiniteSet(packet[o][f].bytes)
    BY <1>3, FS_EmptySet
  <2>3. QED
    BY <1>3, <2>1, <2>2 DEF Evidence
<1>6. QED
  BY <1>1, <1>2, <1>4, <1>5 DEF IInv

LEMMA ReplyTyped ==
  ASSUME NEW m \in Reply
  PROVE  /\ FileOf(m) \in Files
         /\ FileOf(m) = <<m.request.tid, m.kind>>
         /\ m.request \in Request /\ m.kind \in Kinds
         /\ m.request.tid \in Tids /\ m.request.relay \in Relays
BY DEF Reply, Request, FileOf, Files

(* Threads of the relay keep their shape from one step to the next. *)
LEMMA ThreadTyped ==
  ASSUME NEW w \in Thread
  PROVE  /\ w.request \in Request /\ w.request.tid \in Tids
         /\ w.found \in SUBSET Times /\ w.reply \in SUBSET Reply
         /\ \A x \in SUBSET Times : [w EXCEPT !.found = x] \in Thread
         /\ \A x \in SUBSET Times : /\ [w EXCEPT !.found = x].request = w.request
                                    /\ [w EXCEPT !.found = x].found = x
                                    /\ [w EXCEPT !.found = x].reply = w.reply
         /\ \A m \in Reply : [w EXCEPT !.reply = {m}] \in Thread
         /\ \A m \in Reply : /\ [w EXCEPT !.reply = {m}].request = w.request
                             /\ [w EXCEPT !.reply = {m}].found = w.found
                             /\ [w EXCEPT !.reply = {m}].reply = {m}
BY DEF Thread, Request

-----------------------------------------------------------------------------
(* A step of the relays leaves the origins' evidence as it was. *)
LEMMA EvidenceUntouched ==
  ASSUME IInv, UNCHANGED <<packet, sidecar, saving, rows>>
  PROVE  Evidence'
BY DEF IInv, Evidence, Backed, PacketHas, SidecarHas, PacketOpen, SidecarOpen

LEMMA TruthOfMore ==
  ASSUME NEW m, Truthful(m), held \subseteq held'
  PROVE  Truthful(m)'
BY DEF Truthful

LEMMA StoreStep ==
  ASSUME IInv, NEW r \in Relays, NEW t \in Tids, Stored(r, t) \/ Purged(r, t)
  PROVE  IInv'
<1>1. UNCHANGED <<clock, working, ended, originVars, network>>
      /\ held \subseteq held'
  BY DEF Stored, Purged
<1>2. PICK c \in SUBSET Times :
        /\ store' = [store EXCEPT ![r][t] = c]
        /\ \A x \in c : <<r, t, x>> \in held'
  <2>1. {clock} \in SUBSET Times /\ {} \in SUBSET Times
    BY DEF IInv, TypeOK
  <2>2. QED
    BY <2>1 DEF Stored, Purged
<1>3. store \in [Relays -> [Tids -> SUBSET Times]]
  BY DEF IInv, TypeOK
<1>4. /\ store' \in [Relays -> [Tids -> SUBSET Times]]
      /\ store'[r][t] = c
      /\ \A s \in Relays, u \in Tids :
           s # r \/ u # t => store'[s][u] = store[s][u]
  BY <1>2, <1>3, EntryWritten
<1>5. \A s \in Relays, u \in Tids : \A x \in store'[s][u] : <<s, u, x>> \in held'
  BY <1>1, <1>2, <1>4 DEF IInv, Truth
<1>6. Truth'
  <2>1. ASSUME NEW m, Truthful(m) PROVE Truthful(m)'
    BY <1>1, <2>1, TruthOfMore
  <2>2. QED
    BY <1>1, <1>5, <2>1 DEF IInv, Truth, originVars, network
<1>7. TypeOK'
  <2>1. held' \subseteq Relays \X Tids \X Times
    BY DEF IInv, TypeOK, Stored, Purged
  <2>2. QED
    BY <1>1, <1>4, <2>1 DEF IInv, TypeOK, originVars, network
<1>8. QED
  BY <1>1, <1>6, <1>7, EvidenceUntouched DEF IInv, originVars, network

LEMMA AcceptRequestStep ==
  ASSUME IInv, NEW r \in Relays, AcceptRequest(r)
  PROVE  IInv'
<1>1. UNCHANGED <<clock, store, held, ended, originVars, asked, answered>>
  BY DEF AcceptRequest
<1>2. PICK q \in asked \ taken :
        /\ q.relay = r /\ taken' = taken \cup {q}
        /\ \/ working' = working
           \/ working' = [working EXCEPT ![r] = @ \cup {Waiting(q)}]
  BY DEF AcceptRequest
<1>3. q \in Request
  BY DEF IInv, TypeOK
<1>4. Waiting(q) \in Thread /\ Waiting(q).request = q
      /\ Waiting(q).found = {} /\ Waiting(q).reply = {}
  BY <1>3 DEF Waiting, Thread
<1>5. TypeOK'
  <2>1. working' \in [Relays -> SUBSET Thread]
    <3>1. working \in [Relays -> SUBSET Thread]
      BY DEF IInv, TypeOK
    <3>2. QED
      BY <1>2, <1>4, <3>1
  <2>2. taken' \subseteq asked' \cup answered'
    BY <1>1, <1>2 DEF IInv, TypeOK
  <2>3. QED
    BY <1>1, <2>1, <2>2 DEF IInv, TypeOK, originVars
<1>6. Truth'
  <2>1. ASSUME NEW m, Truthful(m) PROVE Truthful(m)'
    BY <1>1, <2>1, TruthOfMore
  <2>2. ASSUME NEW s \in Relays, NEW w \in working'[s]
        PROVE  w \in working[s] \/ (s = r /\ w = Waiting(q))
    BY <1>2, <2>2 DEF IInv, TypeOK
  <2>3. ASSUME NEW s \in Relays, NEW w \in working'[s]
        PROVE  /\ w.request.relay = s
               /\ \A x \in w.found : <<s, w.request.tid, x>> \in held'
               /\ \A m \in w.reply : Truthful(m)'
    BY <1>1, <1>2, <1>4, <2>1, <2>2, <2>3 DEF IInv, Truth
  <2>4. QED
    BY <1>1, <2>1, <2>3 DEF IInv, Truth, originVars
<1>7. QED
  BY <1>1, <1>5, <1>6, EvidenceUntouched DEF IInv, originVars

(* A thread, for relay r, of which Truth holds. *)
Honest(r, w) ==
  /\ w.request.relay = r
  /\ \A x \in w.found : <<r, w.request.tid, x>> \in held
  /\ \A m \in w.reply : Truthful(m)

LEMMA ThreadsReplaced ==
  ASSUME IInv, NEW r \in Relays, NEW w \in working[r],
         NEW S \in SUBSET Thread, \A v \in S : Honest(r, v),
         working' = [working EXCEPT ![r] = (@ \ {w}) \cup S]
  PROVE  /\ working' \in [Relays -> SUBSET Thread]
         /\ \A s \in Relays : \A v \in working'[s] : Honest(s, v)
<1>1. working \in [Relays -> SUBSET Thread]
  BY DEF IInv, TypeOK
<1>2. working' \in [Relays -> SUBSET Thread]
  BY <1>1
<1>3. ASSUME NEW s \in Relays, NEW v \in working[s]
      PROVE  Honest(s, v)
  BY DEF IInv, Truth, Honest
<1>4. ASSUME NEW s \in Relays, NEW v \in working'[s]
      PROVE  v \in working[s] \/ (s = r /\ v \in S)
  BY <1>1, <1>4
<1>5. QED
  BY <1>2, <1>3, <1>4

(* A step that rewrites the threads of one relay and what it sent, and  *)
(* nothing else.                                                           *)
LEMMA AnsweringStep ==
  ASSUME IInv, UNCHANGED <<clock, store, held, originVars, asked, taken>>,
         working' \in [Relays -> SUBSET Thread],
         \A s \in Relays : \A v \in working'[s] : Honest(s, v),
         answered \subseteq answered', answered' \subseteq Reply,
         \A m \in answered' : Truthful(m),
         ended' \subseteq Request
  PROVE  IInv'
<1>1. TypeOK'
  BY DEF IInv, TypeOK, originVars
<1>2. held' = held
  OBVIOUS
<1>3. \A m : Truthful(m) <=> Truthful(m)'
  BY <1>2 DEF Truthful
<1>4. \A s \in Relays : \A v \in working'[s] :
        /\ v.request.relay = s
        /\ \A x \in v.found : <<s, v.request.tid, x>> \in held'
        /\ \A m \in v.reply : Truthful(m)'
  BY <1>2, <1>3 DEF Honest
<1>5. Truth'
  BY <1>2, <1>3, <1>4 DEF IInv, Truth, originVars
<1>6. QED
  BY <1>1, <1>5, EvidenceUntouched DEF IInv, originVars

LEMMA FindEntryStep ==
  ASSUME IInv, NEW r \in Relays, FindEntry(r)
  PROVE  IInv'
<1>1. PICK w \in working[r] :
        /\ w = Waiting(w.request)
        /\ working' = [working EXCEPT ![r] =
             (@ \ {w}) \cup {[w EXCEPT !.found = store[r][w.request.tid]]}]
  BY DEF FindEntry
<1>2. w \in Thread /\ Honest(r, w)
  BY DEF IInv, TypeOK, Truth, Honest
<1>3. PICK x : x = store[r][w.request.tid]
  OBVIOUS
<1>4. x \in SUBSET Times /\ \A t \in x : <<r, w.request.tid, t>> \in held
  BY <1>2, <1>3, ThreadTyped DEF IInv, TypeOK, Truth
<1>5. PICK v : v = [w EXCEPT !.found = x]
  OBVIOUS
<1>6. /\ v \in Thread /\ v.request = w.request /\ v.found = x
      /\ v.reply = w.reply
  BY <1>2, <1>4, <1>5, ThreadTyped
<1>7. Honest(r, v)
  BY <1>2, <1>4, <1>6 DEF Honest
<1>8. working' = [working EXCEPT ![r] = (@ \ {w}) \cup {v}]
  BY <1>1, <1>3, <1>5
<1>9. /\ working' \in [Relays -> SUBSET Thread]
      /\ \A s \in Relays : \A u \in working'[s] : Honest(s, u)
  <2>1. {v} \in SUBSET Thread /\ \A u \in {v} : Honest(r, u)
    BY <1>6, <1>7
  <2>2. QED
    BY <1>8, <2>1, ThreadsReplaced
<1>10. UNCHANGED <<clock, store, held, ended, originVars, network>>
  BY DEF FindEntry
<1>11. QED
  BY <1>9, <1>10, AnsweringStep DEF IInv, TypeOK, Truth, network

(* Composing a truthful answer. *)
LEMMA ComposeStep ==
  ASSUME IInv, NEW r \in Relays, NEW w \in working[r],
         NEW m \in Reply, Truthful(m), Compose(r, w, m),
         UNCHANGED <<clock, store, held, ended, originVars, network>>
  PROVE  IInv'
<1>1. w \in Thread /\ Honest(r, w) /\ w.request.tid \in Tids
  <2>1. w \in Thread /\ Honest(r, w)
    BY DEF IInv, TypeOK, Truth, Honest
  <2>2. QED
    BY <2>1, ThreadTyped
<1>2. PICK v : v = [w EXCEPT !.reply = {m}]
  OBVIOUS
<1>3. /\ v \in Thread /\ v.request = w.request /\ v.found = w.found
      /\ v.reply = {m}
  BY <1>1, <1>2, ThreadTyped
<1>4. Honest(r, v)
  BY <1>1, <1>3 DEF Honest
<1>5. /\ working' \in [Relays -> SUBSET Thread]
      /\ \A s \in Relays : \A u \in working'[s] : Honest(s, u)
  <2>1. {v} \in SUBSET Thread /\ \A u \in {v} : Honest(r, u)
    BY <1>3, <1>4
  <2>2. working' = [working EXCEPT ![r] = (@ \ {w}) \cup {v}]
    BY <1>2 DEF Compose
  <2>3. QED
    BY <2>1, <2>2, ThreadsReplaced
<1>6. QED
  BY <1>5, AnsweringStep DEF IInv, TypeOK, Truth, network

LEMMA AnswerStep ==
  ASSUME IInv, NEW r \in Relays, Refuse(r) \/ Attest(r)
  PROVE  IInv'
<1>1. PICK w, m :
        /\ w \in working[r]
        /\ Compose(r, w, m)
        /\ \/ m = [kind |-> "custody_refusal", request |-> w.request,
                   received |-> {}]
           \/ /\ w.found # {}
              /\ m = [kind |-> "custody", request |-> w.request,
                      received |-> w.found]
  BY DEF Refuse, Attest
<1>2. w \in Thread /\ Honest(r, w)
  BY <1>1 DEF IInv, TypeOK, Truth, Honest
<1>3. w.request \in Request /\ w.found \in SUBSET Times
  BY <1>2, ThreadTyped
<1>4. m \in Reply
  BY <1>1, <1>3 DEF Reply, Kinds
<1>5. Truthful(m)
  BY <1>1, <1>2 DEF Truthful, Honest
<1>6. UNCHANGED <<clock, store, held, ended, originVars, network>>
  BY DEF Refuse, Attest
<1>7. QED
  BY <1>1, <1>4, <1>5, <1>6, ComposeStep

LEMMA EndStep ==
  ASSUME IInv, NEW r \in Relays,
         AnswerRaises(r) \/ SendReply(r) \/ RelayCrash(r)
  PROVE  IInv'
<1>1. UNCHANGED <<clock, store, held, originVars, asked, taken>>
  BY DEF AnswerRaises, SendReply, RelayCrash, network
<1>2. working \in [Relays -> SUBSET Thread]
  BY DEF IInv, TypeOK
<1>3. /\ working' \in [Relays -> SUBSET Thread]
      /\ \A s \in Relays : working'[s] \subseteq working[s]
  BY <1>2 DEF AnswerRaises, SendReply, RelayCrash
<1>4. \A s \in Relays : \A v \in working'[s] : Honest(s, v)
  BY <1>3 DEF IInv, Truth, Honest
<1>5. ended' \subseteq Request
  <2>1. \A w \in working[r] : w.request \in Request
    BY <1>2, ThreadTyped
  <2>2. CASE \E w \in working[r] : ended' = ended \cup {w.request}
    BY <2>1, <2>2 DEF IInv, TypeOK
  <2>3. CASE ended' = ended
    BY <2>3 DEF IInv, TypeOK
  <2>4. QED
    BY <2>2, <2>3 DEF AnswerRaises, SendReply, RelayCrash
<1>6. /\ answered \subseteq answered' /\ answered' \subseteq Reply
      /\ \A m \in answered' : Truthful(m)
  <2>1. \A w \in working[r] : w.reply \in SUBSET Reply
    BY <1>2, ThreadTyped
  <2>2. QED
    BY <2>1 DEF IInv, TypeOK, Truth, AnswerRaises, SendReply, RelayCrash, network
<1>7. QED
  BY <1>1, <1>3, <1>4, <1>5, <1>6, AnsweringStep DEF IInv, TypeOK, Truth
-----------------------------------------------------------------------------
(* What each step of an origin does to its files and callbacks.            *)
PacketBecomes(o, f, file) ==
  /\ packet' \in [Origins -> [Files -> File(Reply)]]
  /\ packet'[o][f] = file
  /\ \A p \in Origins, g \in Files : p # o \/ g # f => packet'[p][g] = packet[p][g]

SidecarBecomes(o, f, file) ==
  /\ sidecar' \in [Origins -> [Files -> File(Relays)]]
  /\ sidecar'[o][f] = file
  /\ \A p \in Origins, g \in Files : p # o \/ g # f => sidecar'[p][g] = sidecar[p][g]

SavingBecomes(o, S) ==
  /\ saving' \in [Origins -> SUBSET Saving]
  /\ saving'[o] = S
  /\ \A p \in Origins : p # o => saving'[p] = saving[p]

At(m, phase) == [answer |-> m, next |-> phase]

Moves(o, s, phase) ==
  SavingBecomes(o, (saving[o] \ {s}) \cup {At(s.answer, phase)})

LEMMA SavingTyped ==
  ASSUME NEW s \in Saving
  PROVE  /\ s.answer \in Reply /\ FileOf(s.answer) \in Files
         /\ s.answer.request.relay \in Relays /\ s.answer.request.tid \in Tids
         /\ s.next \in {"packet", "sidecar", "contact", "row"}
<1>1. s.answer \in Reply /\ s.next \in {"packet", "sidecar", "contact", "row"}
  BY DEF Saving
<1>2. QED
  BY <1>1, ReplyTyped

LEMMA AtTyped ==
  ASSUME NEW m \in Reply, NEW phase \in {"packet", "sidecar", "contact", "row"}
  PROVE  /\ At(m, phase) \in Saving
         /\ At(m, phase).answer = m /\ At(m, phase).next = phase
BY DEF At, Saving

LEMMA Advances ==
  ASSUME TypeOK, NEW o \in Origins, NEW s \in saving[o],
         NEW phase \in {"packet", "sidecar", "contact", "row"},
         Advance(o, s, phase)
  PROVE  Moves(o, s, phase)
<1>1. saving \in [Origins -> SUBSET Saving] /\ s \in Saving
  BY DEF TypeOK
<1>2. [s EXCEPT !.next = phase] = At(s.answer, phase)
  BY <1>1 DEF Saving, At
<1>3. At(s.answer, phase) \in Saving
  BY <1>1, SavingTyped, AtTyped
<1>4. saving' = [saving EXCEPT ![o] = (@ \ {s}) \cup {At(s.answer, phase)}]
  BY <1>2 DEF Advance
<1>5. QED
  BY <1>1, <1>3, <1>4 DEF Moves, SavingBecomes

LEMMA FileWritten ==
  ASSUME NEW C, NEW file \in File(C), NEW c \in C, NEW g \in Written(file, c)
  PROVE  /\ g \in File(C) /\ g.there /\ c \in g.bytes
         /\ g.bytes = {c} \/ g.bytes = file.bytes \cup {c}
<1>1. PICK b : b = file.bytes \cup {c}
  OBVIOUS
<1>2. b \in SUBSET C /\ c \in b
  BY <1>1 DEF File
<1>3. g = [there |-> TRUE, bytes |-> {c}] \/ g = [there |-> TRUE, bytes |-> b]
  BY <1>1 DEF Written
<1>4. CASE g = [there |-> TRUE, bytes |-> {c}]
  BY <1>4 DEF File
<1>5. CASE g = [there |-> TRUE, bytes |-> b]
  BY <1>1, <1>2, <1>5 DEF File
<1>6. QED
  BY <1>3, <1>4, <1>5

(* An answer that the origin takes: its packet is opened. *)
Takes(o, m) ==
  /\ m.request \in expected[o]
  /\ PacketBecomes(o, FileOf(m), Emptied)
  /\ SavingBecomes(o, saving[o] \cup {At(m, "packet")})

LEMMA CollectReplyDoes ==
  ASSUME TypeOK, NEW o \in Origins, CollectReply(o)
  PROVE  \E m \in answered \ taken :
           /\ m.request.origin = o
           /\ taken' = taken \cup {m}
           /\ UNCHANGED <<packet, saving>> \/ Takes(o, m)
<1>1. PICK m \in answered \ taken :
        /\ m.request.origin = o
        /\ taken' = taken \cup {m}
        /\ \/ UNCHANGED <<packet, saving>>
           \/ /\ m.request \in expected[o]
              /\ packet' = [packet EXCEPT ![o][FileOf(m)] = Emptied]
              /\ saving' = [saving EXCEPT ![o] = @ \cup {At(m, "packet")}]
  BY DEF CollectReply, Accepts, At
<1>2. CASE UNCHANGED <<packet, saving>>
  BY <1>1, <1>2
<1>3. CASE /\ m.request \in expected[o]
           /\ packet' = [packet EXCEPT ![o][FileOf(m)] = Emptied]
           /\ saving' = [saving EXCEPT ![o] = @ \cup {At(m, "packet")}]
  <2>1. m \in Reply
    BY DEF TypeOK
  <2>2. FileOf(m) \in Files /\ Emptied \in File(Reply)
    BY <2>1, ReplyTyped DEF File, Emptied
  <2>3. packet \in [Origins -> [Files -> File(Reply)]]
    BY DEF TypeOK
  <2>4. PacketBecomes(o, FileOf(m), Emptied)
    BY <1>3, <2>2, <2>3, EntryWritten DEF PacketBecomes
  <2>5. saving \in [Origins -> SUBSET Saving] /\ At(m, "packet") \in Saving
    BY <2>1, AtTyped DEF TypeOK
  <2>6. SavingBecomes(o, saving[o] \cup {At(m, "packet")})
    BY <1>3, <2>5 DEF SavingBecomes
  <2>7. QED
    BY <1>1, <1>3, <2>4, <2>6 DEF Takes
<1>4. QED
  BY <1>1, <1>2, <1>3

LEMMA WritePacketDoes ==
  ASSUME TypeOK, NEW o \in Origins, WritePacket(o)
  PROVE  \E s, file :
           /\ s \in saving[o] /\ s.next = "packet"
           /\ file \in Written(packet[o][FileOf(s.answer)], s.answer)
           /\ PacketBecomes(o, FileOf(s.answer), file)
           /\ Moves(o, s, "sidecar")
<1>1. PICK s, file :
        /\ s \in saving[o] /\ s.next = "packet"
        /\ file \in Written(packet[o][FileOf(s.answer)], s.answer)
        /\ packet' = [packet EXCEPT ![o][FileOf(s.answer)] = file]
        /\ Advance(o, s, "sidecar")
  BY DEF WritePacket
<1>2. s \in Saving
  BY <1>1 DEF TypeOK
<1>3. s.answer \in Reply /\ FileOf(s.answer) \in Files
  BY <1>2, SavingTyped
<1>4. PICK f : f = FileOf(s.answer)
  OBVIOUS
<1>5. packet \in [Origins -> [Files -> File(Reply)]] /\ packet[o][f] \in File(Reply)
  BY <1>3, <1>4 DEF TypeOK
<1>6. file \in File(Reply)
  BY <1>1, <1>3, <1>4, <1>5, FileWritten
<1>7. PacketBecomes(o, f, file)
  BY <1>1, <1>3, <1>4, <1>5, <1>6, EntryWritten DEF PacketBecomes
<1>8. QED
  BY <1>1, <1>4, <1>7, Advances

LEMMA OpenSidecarDoes ==
  ASSUME TypeOK, NEW o \in Origins, OpenSidecar(o)
  PROVE  \E s \in saving[o] :
           /\ s.next = "sidecar"
           /\ SidecarBecomes(o, FileOf(s.answer), Emptied)
           /\ Moves(o, s, "contact")
<1>1. PICK s \in saving[o] :
        /\ s.next = "sidecar"
        /\ sidecar' = [sidecar EXCEPT ![o][FileOf(s.answer)] = Emptied]
        /\ Advance(o, s, "contact")
  BY DEF OpenSidecar
<1>2. s \in Saving /\ Emptied \in File(Relays)
  BY <1>1 DEF TypeOK, File, Emptied
<1>3. FileOf(s.answer) \in Files
  BY <1>2, SavingTyped
<1>4. sidecar \in [Origins -> [Files -> File(Relays)]]
  BY DEF TypeOK
<1>5. SidecarBecomes(o, FileOf(s.answer), Emptied)
  BY <1>1, <1>2, <1>3, <1>4, EntryWritten DEF SidecarBecomes
<1>6. QED
  BY <1>1, <1>5, Advances

LEMMA NameRelayDoes ==
  ASSUME TypeOK, NEW o \in Origins, NameRelay(o)
  PROVE  \E s \in saving[o] :
           /\ s.next = "contact"
           /\ SidecarBecomes(o, FileOf(s.answer),
                [there |-> TRUE, bytes |-> {s.answer.request.relay}])
           /\ Moves(o, s, "row")
<1>1. PICK s \in saving[o] :
        /\ s.next = "contact"
        /\ sidecar' = [sidecar EXCEPT ![o][FileOf(s.answer)] =
                          [there |-> TRUE, bytes |-> {s.answer.request.relay}]]
        /\ Advance(o, s, "row")
  BY DEF NameRelay
<1>2. s \in Saving
  BY <1>1 DEF TypeOK
<1>3. FileOf(s.answer) \in Files /\ s.answer.request.relay \in Relays
  BY <1>2, SavingTyped
<1>4. PICK file : file = [there |-> TRUE, bytes |-> {s.answer.request.relay}]
  OBVIOUS
<1>5. file \in File(Relays)
  BY <1>3, <1>4 DEF File
<1>6. sidecar \in [Origins -> [Files -> File(Relays)]]
  BY DEF TypeOK
<1>7. SidecarBecomes(o, FileOf(s.answer), file)
  BY <1>1, <1>3, <1>4, <1>5, <1>6, EntryWritten DEF SidecarBecomes
<1>8. QED
  BY <1>1, <1>4, <1>7, Advances

LEMMA EmitRowDoes ==
  ASSUME TypeOK, NEW o \in Origins, EmitRow(o)
  PROVE  \E s \in saving[o] :
           /\ s.next = "row"
           /\ rows' \in [Origins -> Seq(Reply)]
           /\ \A p \in Origins : \A i \in DOMAIN rows'[p] :
                \/ i \in DOMAIN rows[p] /\ rows'[p][i] = rows[p][i]
                \/ p = o /\ rows'[p][i] = s.answer
           /\ SavingBecomes(o, saving[o] \ {s})
<1>1. PICK s \in saving[o] :
        /\ s.next = "row"
        /\ rows' = [rows EXCEPT ![o] = Append(@, s.answer)]
        /\ saving' = [saving EXCEPT ![o] = @ \ {s}]
  BY DEF EmitRow
<1>2. saving \in [Origins -> SUBSET Saving] /\ rows \in [Origins -> Seq(Reply)]
  BY DEF TypeOK
<1>3. PICK m \in Reply : m = s.answer
  BY <1>2, SavingTyped
<1>4. rows[o] \in Seq(Reply) /\ rows'[o] = Append(rows[o], m)
  BY <1>1, <1>2, <1>3
<1>5. \A i \in DOMAIN rows'[o] :
        \/ i \in DOMAIN rows[o] /\ rows'[o][i] = rows[o][i]
        \/ rows'[o][i] = m
  BY <1>4
<1>6. \A p \in Origins : p # o => rows'[p] = rows[p]
  BY <1>1, <1>2
<1>7. rows' \in [Origins -> Seq(Reply)]
  BY <1>1, <1>2, <1>3
<1>8. SavingBecomes(o, saving[o] \ {s})
  BY <1>1, <1>2 DEF SavingBecomes
<1>9. QED
  BY <1>1, <1>3, <1>5, <1>6, <1>7, <1>8

-----------------------------------------------------------------------------
(* A step of the origins or of the clock leaves the relays' truth alone,   *)
(* provided that what it keeps is truthful.                                *)
LEMMA TruthKept ==
  ASSUME IInv, UNCHANGED <<store, working, held, answered>>,
         \A o \in Origins, f \in Files : \A m \in packet'[o][f].bytes : Truthful(m),
         \A o \in Origins : \A s \in saving'[o] : Truthful(s.answer)
  PROVE  Truth'
<1>1. \A m : Truthful(m) <=> Truthful(m)'
  BY DEF Truthful
<1>2. QED
  BY <1>1 DEF IInv, Truth

LEMMA QuietStep ==
  ASSUME IInv,
         \/ Tick
         \/ UNCHANGED vars
         \/ \E o \in Origins : CallReturns(o) \/ CallTimesOut(o)
  PROVE  IInv'
<1>1. UNCHANGED <<relayVars, network, expected, packet, sidecar, saving, rows>>
  BY DEF Tick, vars, originVars, CallReturns, CallTimesOut
<1>2. clock' \in Times
  BY CustodyAssumption DEF IInv, TypeOK, Times, Tick, vars, CallReturns, CallTimesOut
<1>3. call' \in [Origins -> SUBSET Request]
  BY DEF IInv, TypeOK, Tick, vars, originVars, CallReturns, CallTimesOut
<1>4. returned' \in [Origins -> SUBSET (Request \X Reply)]
  <2>1. CASE returned' = returned
    BY <2>1 DEF IInv, TypeOK
  <2>2. CASE \E o \in Origins : CallReturns(o)
    <3>1. PICK o \in Origins : CallReturns(o)
      BY <2>2
    <3>2. PICK q \in call[o], i \in DOMAIN rows[o] :
            returned' = [returned EXCEPT ![o] = {<<q, rows[o][i]>>}]
      BY <3>1 DEF CallReturns
    <3>3. rows[o] \in Seq(Reply)
      BY DEF IInv, TypeOK
    <3>4. rows[o][i] \in Reply
      BY <3>2, <3>3
    <3>5. q \in Request
      BY <3>2 DEF IInv, TypeOK
    <3>6. QED
      BY <3>2, <3>4, <3>5 DEF IInv, TypeOK
  <2>3. QED
    BY <2>1, <2>2 DEF Tick, vars, originVars, CallTimesOut
<1>5. TypeOK'
  BY <1>1, <1>2, <1>3, <1>4 DEF IInv, TypeOK, relayVars, network
<1>6. Truth'
  <2>1. /\ \A o \in Origins, f \in Files :
             \A m \in packet'[o][f].bytes : Truthful(m)
        /\ \A o \in Origins : \A s \in saving'[o] : Truthful(s.answer)
    BY <1>1 DEF IInv, Truth
  <2>2. QED
    BY <1>1, <2>1, TruthKept DEF relayVars, network
<1>7. QED
  BY <1>1, <1>5, <1>6, EvidenceUntouched DEF IInv, network

LEMMA AskCustodyStep ==
  ASSUME IInv, NEW o \in Origins, NEW r \in Relays, NEW t \in Tids,
         AskCustody(o, r, t)
  PROVE  IInv'
<1>1. UNCHANGED <<clock, relayVars, answered, taken, packet, sidecar, saving,
                  rows, returned>>
  BY DEF AskCustody
<1>2. PICK q :
        /\ q = [id |-> Cardinality(asked) + 1, origin |-> o, relay |-> r,
                tid |-> t, expires |-> clock + Lifetime]
        /\ asked' = asked \cup {q}
        /\ expected' = [expected EXCEPT ![o] = @ \cup {q}]
        /\ call' = [call EXCEPT ![o] = {q}]
  BY DEF AskCustody
<1>3. q \in Request
  <2>1. Cardinality(asked) \in Nat
    BY FS_CardinalityType DEF IInv
  <2>2. Cardinality(asked) < MaxRequests
    BY DEF AskCustody
  <2>3. Cardinality(asked) + 1 \in 1..MaxRequests
    BY <2>1, <2>2, CustodyAssumption
  <2>4. clock + Lifetime \in Nat
    BY CustodyAssumption DEF IInv, TypeOK, Times
  <2>5. QED
    BY <1>2, <2>3, <2>4 DEF Request
<1>4. IsFiniteSet(asked')
  BY <1>2, FS_AddElement DEF IInv
<1>5. expected' \in [Origins -> SUBSET Request]
  <2>1. expected \in [Origins -> SUBSET Request]
    BY DEF IInv, TypeOK
  <2>2. QED
    BY <1>2, <1>3, <2>1
<1>6. call' \in [Origins -> SUBSET Request]
  <2>1. call \in [Origins -> SUBSET Request]
    BY DEF IInv, TypeOK
  <2>2. QED
    BY <1>2, <1>3, <2>1
<1>7. asked' \subseteq Request /\ taken' \subseteq asked' \cup answered'
  BY <1>1, <1>2, <1>3 DEF IInv, TypeOK
<1>8. TypeOK'
  BY <1>1, <1>5, <1>6, <1>7 DEF IInv, TypeOK, relayVars
<1>9. Truth'
  <2>1. /\ \A p \in Origins, f \in Files :
             \A m \in packet'[p][f].bytes : Truthful(m)
        /\ \A p \in Origins : \A s \in saving'[p] : Truthful(s.answer)
    BY <1>1 DEF IInv, Truth
  <2>2. QED
    BY <1>1, <2>1, TruthKept DEF relayVars
<1>10. QED
  BY <1>1, <1>4, <1>8, <1>9, EvidenceUntouched DEF IInv

-----------------------------------------------------------------------------
(* What was there under a name is there after the step, or somebody has    *)
(* it open.                                                                *)
NotLess(o, f) ==
  /\ packet[o][f].there => packet'[o][f].there
  /\ sidecar[o][f].there => sidecar'[o][f].there
  /\ PacketHas(o, f) => PacketHas(o, f)'
  /\ SidecarHas(o, f) => SidecarHas(o, f)'

LEMMA BackedStays ==
  ASSUME NEW o, NEW f, NEW next, Backed(o, f, next), NotLess(o, f)
  PROVE  Backed(o, f, next)'
BY DEF Backed, NotLess

(* Evidence after a step that takes none away.                             *)
LEMMA EvidenceGrows ==
  ASSUME IInv, TypeOK',
         \A p \in Origins, f \in Files : NotLess(p, f),
         \A p \in Origins, f \in Files :
           /\ IsFiniteSet(packet'[p][f].bytes)
           /\ \A m \in packet'[p][f].bytes : FileOf(m) = f,
         \A p \in Origins : \A s \in saving'[p] :
           s \in saving[p] \/ Backed(p, FileOf(s.answer), s.next)',
         \A p \in Origins : \A i \in DOMAIN rows'[p] :
           \/ i \in DOMAIN rows[p] /\ rows'[p][i] = rows[p][i]
           \/ \A f \in Files : f = FileOf(rows'[p][i]) => Backed(p, f, "row")'
  PROVE  Evidence'
<1>1. ASSUME NEW p \in Origins, NEW s \in saving[p]
      PROVE  Backed(p, FileOf(s.answer), s.next)'
  <2>1. s \in Saving
    BY DEF IInv, TypeOK
  <2>2. PICK f \in Files : f = FileOf(s.answer)
    BY <2>1, SavingTyped
  <2>3. Backed(p, f, s.next)
    BY <2>2 DEF IInv, Evidence
  <2>4. QED
    BY <2>2, <2>3, BackedStays
<1>2. ASSUME NEW p \in Origins, NEW i \in DOMAIN rows[p],
             NEW f \in Files, f = FileOf(rows[p][i])
      PROVE  Backed(p, f, "row")'
  <2>1. Backed(p, f, "row")
    BY <1>2 DEF IInv, Evidence
  <2>2. QED
    BY <2>1, BackedStays
<1>3. \A p \in Origins : \A s \in saving'[p] : Backed(p, FileOf(s.answer), s.next)'
  BY <1>1
<1>4. ASSUME NEW p \in Origins, NEW i \in DOMAIN rows'[p],
             NEW f \in Files, f = FileOf(rows'[p][i])
      PROVE  Backed(p, f, "row")'
  <2>1. CASE i \in DOMAIN rows[p] /\ rows'[p][i] = rows[p][i]
    BY <1>2, <1>4, <2>1
  <2>2. QED
    BY <1>4, <2>1
<1>5. ASSUME NEW p \in Origins, NEW i \in DOMAIN rows'[p]
      PROVE  FileOf(rows'[p][i]) \in Files
  <2>1. rows'[p] \in Seq(Reply)
    BY DEF TypeOK
  <2>2. rows'[p][i] \in Reply
    BY <2>1
  <2>3. QED
    BY <2>2, ReplyTyped
<1>6. (\A p \in Origins : \A i \in DOMAIN rows[p] :
         Backed(p, FileOf(rows[p][i]), "row"))'
  BY <1>4, <1>5
<1>7. QED
  BY <1>3, <1>6 DEF Evidence

LEMMA CollectReplyStep ==
  ASSUME IInv, NEW o \in Origins, CollectReply(o)
  PROVE  IInv'
<1>1. UNCHANGED <<clock, relayVars, asked, answered, expected, sidecar, rows,
                  call, returned>>
  BY DEF CollectReply
<1>2. PICK m \in answered \ taken :
        /\ taken' = taken \cup {m}
        /\ UNCHANGED <<packet, saving>> \/ Takes(o, m)
  BY CollectReplyDoes DEF IInv
<1>3. m \in Reply /\ Truthful(m)
  BY DEF IInv, TypeOK, Truth
<1>4. taken' \subseteq asked' \cup answered'
  BY <1>1, <1>2 DEF IInv, TypeOK
<1>5. CASE UNCHANGED <<packet, saving>>
  <2>1. TypeOK'
    BY <1>1, <1>4, <1>5 DEF IInv, TypeOK, relayVars
  <2>2. Truth'
    <3>1. /\ \A p \in Origins, f \in Files :
               \A n \in packet'[p][f].bytes : Truthful(n)
          /\ \A p \in Origins : \A s \in saving'[p] : Truthful(s.answer)
      BY <1>5 DEF IInv, Truth
    <3>2. QED
      BY <1>1, <3>1, TruthKept DEF relayVars
  <2>3. QED
    BY <1>1, <1>5, <2>1, <2>2, EvidenceUntouched DEF IInv
<1>6. CASE Takes(o, m)
  <2>1. PICK g \in Files : g = FileOf(m)
    BY <1>3, ReplyTyped
  <2>2. /\ packet'[o][g].there /\ packet'[o][g].bytes = {}
        /\ \A p \in Origins, f \in Files :
             p # o \/ f # g => packet'[p][f] = packet[p][f]
    BY <1>6, <2>1 DEF Takes, PacketBecomes, Emptied
  <2>3. PICK v : v = At(m, "packet")
    OBVIOUS
  <2>4. v.answer = m /\ v.next = "packet"
    BY <1>3, <2>3, AtTyped
  <2>5. /\ saving'[o] = saving[o] \cup {v}
        /\ \A p \in Origins : p # o => saving'[p] = saving[p]
    BY <1>6, <2>3 DEF Takes, SavingBecomes
  <2>6. PacketOpen(o, g)'
    BY <2>1, <2>4, <2>5 DEF PacketOpen
  <2>7. ASSUME NEW p \in Origins, NEW f \in Files
        PROVE  NotLess(p, f)
    BY <1>1, <2>2, <2>5, <2>6
       DEF NotLess, PacketHas, SidecarHas, PacketOpen, SidecarOpen
  <2>8. TypeOK'
    BY <1>1, <1>4, <1>6
       DEF IInv, TypeOK, relayVars, Takes, PacketBecomes, SavingBecomes
  <2>9. ASSUME NEW p \in Origins, NEW f \in Files
        PROVE  /\ IsFiniteSet(packet'[p][f].bytes)
               /\ \A n \in packet'[p][f].bytes : FileOf(n) = f /\ Truthful(n)
    <3>1. CASE p = o /\ f = g
      BY <2>2, <3>1, FS_EmptySet
    <3>2. CASE p # o \/ f # g
      <4>1. packet'[p][f] = packet[p][f]
        BY <2>2, <3>2
      <4>2. QED
        BY <4>1 DEF IInv, Evidence, Truth
    <3>3. QED
      BY <3>1, <3>2
  <2>10. Backed(o, FileOf(v.answer), v.next)'
    BY <2>1, <2>2, <2>4 DEF Backed
  <2>11. Evidence'
    BY <1>1, <2>5, <2>7, <2>8, <2>9, <2>10, EvidenceGrows
  <2>12. Truth'
    <3>1. \A p \in Origins : \A s \in saving'[p] : Truthful(s.answer)
      BY <1>3, <2>4, <2>5 DEF IInv, Truth
    <3>2. QED
      BY <1>1, <2>9, <3>1, TruthKept DEF relayVars
  <2>13. QED
    BY <1>1, <2>8, <2>11, <2>12 DEF IInv
<1>7. QED
  BY <1>2, <1>5, <1>6

(* The callback of s goes on to `phase`, which leaves the marks of others. *)
LEMMA OthersStayOpen ==
  ASSUME NEW o \in Origins, NEW s \in saving[o], s \in Saving,
         NEW phase \in {"packet", "sidecar", "contact", "row"},
         Moves(o, s, phase),
         NEW p \in Origins, NEW f \in Files
  PROVE  /\ \/ p # o \/ f # FileOf(s.answer) \/ s.next # "packet"
            => (PacketOpen(p, f) => PacketOpen(p, f)')
         /\ \/ p # o \/ f # FileOf(s.answer) \/ s.next # "contact"
            => (SidecarOpen(p, f) => SidecarOpen(p, f)')
         /\ phase = "contact" => SidecarOpen(o, FileOf(s.answer))'
         /\ \A v \in saving'[p] : v \in saving[p] \/ (p = o /\ v = At(s.answer, phase))
         /\ At(s.answer, phase).answer = s.answer /\ At(s.answer, phase).next = phase
<1>1. PICK v : v = At(s.answer, phase)
  OBVIOUS
<1>2. v.answer = s.answer /\ v.next = phase
  BY <1>1, SavingTyped, AtTyped
<1>3. /\ saving'[o] = (saving[o] \ {s}) \cup {v}
      /\ \A q \in Origins : q # o => saving'[q] = saving[q]
  BY <1>1 DEF Moves, SavingBecomes
<1>4. \A x \in saving[p] : x \in saving'[p] \/ (p = o /\ x = s)
  BY <1>3
<1>5. p # o \/ f # FileOf(s.answer) \/ s.next # "packet"
        => (PacketOpen(p, f) => PacketOpen(p, f)')
  BY <1>4 DEF PacketOpen
<1>6. p # o \/ f # FileOf(s.answer) \/ s.next # "contact"
        => (SidecarOpen(p, f) => SidecarOpen(p, f)')
  BY <1>4 DEF SidecarOpen
<1>7. phase = "contact" => SidecarOpen(o, FileOf(s.answer))'
  BY <1>2, <1>3 DEF SidecarOpen
<1>8. \A x \in saving'[p] : x \in saving[p] \/ (p = o /\ x = v)
  BY <1>3
<1>9. QED
  BY <1>1, <1>2, <1>5, <1>6, <1>7, <1>8

LEMMA WritePacketStep ==
  ASSUME IInv, NEW o \in Origins, WritePacket(o)
  PROVE  IInv'
<1>1. UNCHANGED <<clock, relayVars, network, expected, sidecar, rows, call,
                  returned>>
  BY DEF WritePacket
<1>2. PICK s, file :
        /\ s \in saving[o] /\ s.next = "packet"
        /\ file \in Written(packet[o][FileOf(s.answer)], s.answer)
        /\ PacketBecomes(o, FileOf(s.answer), file)
        /\ Moves(o, s, "sidecar")
  BY WritePacketDoes DEF IInv
<1>3. s \in Saving
  BY <1>2 DEF IInv, TypeOK
<1>4. PICK m \in Reply : m = s.answer
  BY <1>3, SavingTyped
<1>5. PICK g \in Files : g = FileOf(m)
  BY <1>4, ReplyTyped
<1>6. packet[o][g] \in File(Reply)
  BY DEF IInv, TypeOK
<1>7. /\ file.there /\ m \in file.bytes
      /\ file.bytes = {m} \/ file.bytes = packet[o][g].bytes \cup {m}
  <2>1. file \in Written(packet[o][g], m)
    BY <1>2, <1>4, <1>5
  <2>2. QED
    BY <1>4, <1>6, <2>1, FileWritten
<1>8. /\ packet'[o][g] = file
      /\ \A p \in Origins, f \in Files :
           p # o \/ f # g => packet'[p][f] = packet[p][f]
  BY <1>2, <1>4, <1>5 DEF PacketBecomes
<1>9. TypeOK'
  BY <1>1, <1>2
     DEF IInv, TypeOK, relayVars, network, PacketBecomes, Moves, SavingBecomes
<1>10. ASSUME NEW p \in Origins, NEW f \in Files
       PROVE  /\ p # o \/ f # g => (PacketOpen(p, f) => PacketOpen(p, f)')
              /\ SidecarOpen(p, f) => SidecarOpen(p, f)'
              /\ \A v \in saving'[p] :
                   v \in saving[p] \/ (p = o /\ v = At(m, "sidecar"))
              /\ At(m, "sidecar").answer = m /\ At(m, "sidecar").next = "sidecar"
  BY <1>2, <1>3, <1>4, <1>5, OthersStayOpen
<1>11. ASSUME NEW p \in Origins, NEW f \in Files
       PROVE  NotLess(p, f)
  <2>1. CASE p = o /\ f = g
    BY <1>1, <1>7, <1>8, <1>10, <2>1 DEF NotLess, PacketHas, SidecarHas
  <2>2. CASE p # o \/ f # g
    BY <1>1, <1>8, <1>10, <2>2 DEF NotLess, PacketHas, SidecarHas
  <2>3. QED
    BY <2>1, <2>2
<1>12. Truthful(m)
  BY <1>2, <1>4 DEF IInv, Truth
<1>13. ASSUME NEW p \in Origins, NEW f \in Files
       PROVE  /\ IsFiniteSet(packet'[p][f].bytes)
              /\ \A n \in packet'[p][f].bytes : FileOf(n) = f /\ Truthful(n)
  <2>1. CASE p = o /\ f = g
    <3>1. IsFiniteSet({m}) /\ IsFiniteSet(packet[o][g].bytes \cup {m})
      BY FS_EmptySet, FS_AddElement, FS_Singleton DEF IInv, Evidence
    <3>2. IsFiniteSet(file.bytes)
      BY <1>7, <3>1
    <3>3. \A n \in packet[o][g].bytes : FileOf(n) = g /\ Truthful(n)
      BY <1>5 DEF IInv, Evidence, Truth
    <3>4. \A n \in file.bytes : FileOf(n) = g /\ Truthful(n)
      BY <1>5, <1>7, <1>12, <3>3
    <3>5. QED
      BY <1>8, <2>1, <3>2, <3>4
  <2>2. CASE p # o \/ f # g
    <3>1. packet'[p][f] = packet[p][f]
      BY <1>8, <2>2
    <3>2. QED
      BY <3>1 DEF IInv, Evidence, Truth
  <2>3. QED
    BY <2>1, <2>2
<1>14. Backed(o, g, "sidecar")'
  BY <1>7, <1>8 DEF Backed, PacketHas
<1>15. Evidence'
  <2>1. ASSUME NEW p \in Origins, NEW v \in saving'[p]
        PROVE  v \in saving[p] \/ Backed(p, FileOf(v.answer), v.next)'
    <3>1. v \in saving[p] \/ (p = o /\ v.answer = m /\ v.next = "sidecar")
      BY <1>5, <1>10
    <3>2. QED
      BY <1>5, <1>14, <3>1
  <2>2. QED
    BY <1>1, <1>9, <1>11, <1>13, <2>1, EvidenceGrows
<1>16. Truth'
  <2>1. \A p \in Origins : \A v \in saving'[p] : Truthful(v.answer)
    BY <1>10, <1>12 DEF IInv, Truth
  <2>2. QED
    BY <1>1, <1>13, <2>1, TruthKept DEF relayVars, network
<1>17. QED
  BY <1>1, <1>9, <1>15, <1>16 DEF IInv, network

(* A step that touches one sidecar, after which its callback is at `phase`. *)
LEMMA SidecarStepKeeps ==
  ASSUME IInv, TypeOK', NEW o \in Origins, NEW s \in saving[o],
         NEW m \in Reply, m = s.answer, NEW g \in Files, g = FileOf(m), NEW phase,
         UNCHANGED <<store, working, held, asked, answered, packet, rows>>,
         \A p \in Origins, f \in Files :
           NotLess(p, f) /\ \A v \in saving'[p] : v \in saving[p]
                              \/ (p = o /\ v.answer = m /\ v.next = phase),
         Backed(o, g, phase)'
  PROVE  IInv'
<1>1. \A p \in Origins, f \in Files :
        /\ IsFiniteSet(packet'[p][f].bytes)
        /\ \A n \in packet'[p][f].bytes : FileOf(n) = f /\ Truthful(n)
  BY DEF IInv, Evidence, Truth
<1>2. ASSUME NEW p \in Origins, NEW v \in saving'[p]
      PROVE  v \in saving[p] \/ (p = o /\ v.answer = m /\ v.next = phase)
  OBVIOUS
<1>3. Evidence'
  <2>1. \A p \in Origins : \A v \in saving'[p] :
          v \in saving[p] \/ Backed(p, FileOf(v.answer), v.next)'
    BY <1>2
  <2>2. QED
    BY <1>1, <2>1, EvidenceGrows
<1>4. Truth'
  <2>1. \A p \in Origins : \A v \in saving'[p] : Truthful(v.answer)
    BY <1>2 DEF IInv, Truth
  <2>2. QED
    BY <1>1, <2>1, TruthKept
<1>5. QED
  BY <1>3, <1>4 DEF IInv

LEMMA OpenSidecarStep ==
  ASSUME IInv, NEW o \in Origins, OpenSidecar(o)
  PROVE  IInv'
<1>1. UNCHANGED <<clock, relayVars, network, expected, packet, rows, call,
                  returned>>
  BY DEF OpenSidecar
<1>2. PICK s \in saving[o] :
        /\ s.next = "sidecar"
        /\ SidecarBecomes(o, FileOf(s.answer), Emptied)
        /\ Moves(o, s, "contact")
  BY OpenSidecarDoes DEF IInv
<1>3. s \in Saving
  BY <1>2 DEF IInv, TypeOK
<1>4. PICK m \in Reply : m = s.answer
  BY <1>3, SavingTyped
<1>5. PICK g \in Files : g = FileOf(m)
  BY <1>4, ReplyTyped
<1>6. /\ sidecar'[o][g].there
      /\ \A p \in Origins, f \in Files :
           p # o \/ f # g => sidecar'[p][f] = sidecar[p][f]
  BY <1>2, <1>4, <1>5 DEF SidecarBecomes, Emptied
<1>7. ASSUME NEW p \in Origins, NEW f \in Files
      PROVE  /\ PacketOpen(p, f) => PacketOpen(p, f)'
             /\ SidecarOpen(p, f) => SidecarOpen(p, f)'
             /\ SidecarOpen(o, g)'
             /\ \A v \in saving'[p] : v \in saving[p]
                  \/ (p = o /\ v.answer = m /\ v.next = "contact")
  BY <1>2, <1>3, <1>4, <1>5, OthersStayOpen
<1>8. ASSUME NEW p \in Origins, NEW f \in Files
      PROVE  NotLess(p, f)
  <2>1. CASE p = o /\ f = g
    BY <1>1, <1>6, <1>7, <2>1 DEF NotLess, PacketHas, SidecarHas
  <2>2. CASE p # o \/ f # g
    BY <1>1, <1>6, <1>7, <2>2 DEF NotLess, PacketHas, SidecarHas
  <2>3. QED
    BY <2>1, <2>2
<1>9. Backed(o, g, "contact")'
  <2>1. Backed(o, g, "sidecar")
    BY <1>2, <1>4, <1>5 DEF IInv, Evidence
  <2>2. QED
    BY <1>6, <1>8, <2>1 DEF Backed, NotLess
<1>10. TypeOK'
  BY <1>1, <1>2
     DEF IInv, TypeOK, relayVars, network, SidecarBecomes, Moves, SavingBecomes
<1>11. QED
  BY <1>1, <1>2, <1>4, <1>5, <1>7, <1>8, <1>9, <1>10, SidecarStepKeeps
     DEF relayVars, network

LEMMA NameRelayStep ==
  ASSUME IInv, NEW o \in Origins, NameRelay(o)
  PROVE  IInv'
<1>1. UNCHANGED <<clock, relayVars, network, expected, packet, rows, call,
                  returned>>
  BY DEF NameRelay
<1>2. PICK s \in saving[o] :
        /\ s.next = "contact"
        /\ SidecarBecomes(o, FileOf(s.answer),
             [there |-> TRUE, bytes |-> {s.answer.request.relay}])
        /\ Moves(o, s, "row")
  BY NameRelayDoes DEF IInv
<1>3. s \in Saving
  BY <1>2 DEF IInv, TypeOK
<1>4. PICK m \in Reply : m = s.answer
  BY <1>3, SavingTyped
<1>5. PICK g \in Files : g = FileOf(m)
  BY <1>4, ReplyTyped
<1>6. /\ sidecar'[o][g].there /\ sidecar'[o][g].bytes # {}
      /\ \A p \in Origins, f \in Files :
           p # o \/ f # g => sidecar'[p][f] = sidecar[p][f]
  <2>1. PICK file : file = [there |-> TRUE, bytes |-> {s.answer.request.relay}]
    OBVIOUS
  <2>2. file.there /\ file.bytes # {}
    BY <2>1
  <2>3. QED
    BY <1>2, <1>4, <1>5, <2>1, <2>2 DEF SidecarBecomes
<1>7. ASSUME NEW p \in Origins, NEW f \in Files
      PROVE  /\ PacketOpen(p, f) => PacketOpen(p, f)'
             /\ p # o \/ f # g => (SidecarOpen(p, f) => SidecarOpen(p, f)')
             /\ \A v \in saving'[p] : v \in saving[p]
                  \/ (p = o /\ v.answer = m /\ v.next = "row")
  BY <1>2, <1>3, <1>4, <1>5, OthersStayOpen
<1>8. ASSUME NEW p \in Origins, NEW f \in Files
      PROVE  NotLess(p, f)
  <2>1. CASE p = o /\ f = g
    BY <1>1, <1>6, <1>7, <2>1 DEF NotLess, PacketHas, SidecarHas
  <2>2. CASE p # o \/ f # g
    BY <1>1, <1>6, <1>7, <2>2 DEF NotLess, PacketHas, SidecarHas
  <2>3. QED
    BY <2>1, <2>2
<1>9. Backed(o, g, "row")'
  <2>1. Backed(o, g, "contact")
    BY <1>2, <1>4, <1>5 DEF IInv, Evidence
  <2>2. QED
    BY <1>6, <1>8, <2>1 DEF Backed, NotLess, SidecarHas
<1>10. TypeOK'
  BY <1>1, <1>2
     DEF IInv, TypeOK, relayVars, network, SidecarBecomes, Moves, SavingBecomes
<1>11. QED
  BY <1>1, <1>2, <1>4, <1>5, <1>7, <1>8, <1>9, <1>10, SidecarStepKeeps
     DEF relayVars, network

LEMMA EmitRowStep ==
  ASSUME IInv, NEW o \in Origins, EmitRow(o)
  PROVE  IInv'
<1>1. UNCHANGED <<clock, relayVars, network, expected, packet, sidecar, call,
                  returned>>
  BY DEF EmitRow
<1>2. PICK s \in saving[o] :
        /\ s.next = "row"
        /\ rows' \in [Origins -> Seq(Reply)]
        /\ \A p \in Origins : \A i \in DOMAIN rows'[p] :
             \/ i \in DOMAIN rows[p] /\ rows'[p][i] = rows[p][i]
             \/ p = o /\ rows'[p][i] = s.answer
        /\ SavingBecomes(o, saving[o] \ {s})
  BY EmitRowDoes DEF IInv
<1>3. \A p \in Origins : \A v \in saving[p] : v \in saving'[p] \/ v.next = "row"
  BY <1>2 DEF SavingBecomes
<1>4. \A p \in Origins : saving'[p] \subseteq saving[p]
  BY <1>2 DEF SavingBecomes
<1>5. ASSUME NEW p \in Origins, NEW f \in Files
      PROVE  NotLess(p, f)
  <2>1. /\ PacketOpen(p, f) => PacketOpen(p, f)'
        /\ SidecarOpen(p, f) => SidecarOpen(p, f)'
    BY <1>3 DEF PacketOpen, SidecarOpen
  <2>2. QED
    BY <1>1, <2>1 DEF NotLess, PacketHas, SidecarHas
<1>6. ASSUME NEW f \in Files, f = FileOf(s.answer)
      PROVE  Backed(o, f, "row")'
  <2>1. Backed(o, f, "row")
    BY <1>2, <1>6 DEF IInv, Evidence
  <2>2. QED
    BY <1>5, <2>1, BackedStays
<1>7. TypeOK'
  BY <1>1, <1>2 DEF IInv, TypeOK, relayVars, network, SavingBecomes
<1>8. Evidence'
  <2>1. \A p \in Origins, f \in Files :
          /\ IsFiniteSet(packet'[p][f].bytes)
          /\ \A m \in packet'[p][f].bytes : FileOf(m) = f
    BY <1>1 DEF IInv, Evidence
  <2>2. ASSUME NEW p \in Origins, NEW i \in DOMAIN rows'[p]
        PROVE  \/ i \in DOMAIN rows[p] /\ rows'[p][i] = rows[p][i]
               \/ \A f \in Files : f = FileOf(rows'[p][i]) => Backed(p, f, "row")'
    <3>1. CASE i \in DOMAIN rows[p] /\ rows'[p][i] = rows[p][i]
      BY <3>1
    <3>2. CASE p = o /\ rows'[p][i] = s.answer
      BY <1>6, <3>2
    <3>3. QED
      BY <1>2, <3>1, <3>2
  <2>3. QED
    BY <1>4, <1>5, <1>7, <2>1, <2>2, EvidenceGrows
<1>9. Truth'
  <2>1. /\ \A p \in Origins, f \in Files :
             \A m \in packet'[p][f].bytes : Truthful(m)
        /\ \A p \in Origins : \A v \in saving'[p] : Truthful(v.answer)
    BY <1>1, <1>4 DEF IInv, Truth
  <2>2. QED
    BY <1>1, <2>1, TruthKept DEF relayVars, network
<1>10. QED
  BY <1>1, <1>7, <1>8, <1>9 DEF IInv, network

LEMMA OriginCrashStep ==
  ASSUME IInv, NEW o \in Origins, OriginCrash(o)
  PROVE  IInv'
<1>1. UNCHANGED <<clock, relayVars, network, packet, sidecar>>
  BY DEF OriginCrash
<1>2. /\ rows \in [Origins -> Seq(Reply)]
      /\ saving \in [Origins -> SUBSET Saving]
  BY DEF IInv, TypeOK
<1>3. /\ rows' \in [Origins -> Seq(Reply)]
      /\ saving' \in [Origins -> SUBSET Saving]
      /\ \A p \in Origins :
           \/ rows'[p] = rows[p] /\ saving'[p] = saving[p]
           \/ rows'[p] = <<>> /\ saving'[p] = {}
  BY <1>2 DEF OriginCrash
<1>4. /\ expected' \in [Origins -> SUBSET Request]
      /\ call' \in [Origins -> SUBSET Request]
      /\ returned' \in [Origins -> SUBSET (Request \X Reply)]
  BY DEF IInv, TypeOK, OriginCrash
<1>5. TypeOK'
  BY <1>1, <1>3, <1>4 DEF IInv, TypeOK, relayVars, network
<1>6. Truth'
  <2>1. /\ \A p \in Origins, f \in Files :
             \A m \in packet'[p][f].bytes : Truthful(m)
        /\ \A p \in Origins : \A s \in saving'[p] : Truthful(s.answer)
    BY <1>1, <1>3 DEF IInv, Truth
  <2>2. QED
    BY <1>1, <2>1, TruthKept DEF relayVars, network
<1>7. DOMAIN <<>> = {}
  OBVIOUS
<1>8. ASSUME NEW p \in Origins
      PROVE  /\ \A s \in saving'[p] : Backed(p, FileOf(s.answer), s.next)'
             /\ (\A i \in DOMAIN rows[p] : Backed(p, FileOf(rows[p][i]), "row"))'
  <2>1. CASE rows'[p] = <<>> /\ saving'[p] = {}
    BY <1>7, <2>1
  <2>2. CASE rows'[p] = rows[p] /\ saving'[p] = saving[p]
    <3>1. \A f, next : Backed(p, f, next) => Backed(p, f, next)'
      BY <1>1, <2>2
         DEF Backed, PacketHas, SidecarHas, PacketOpen, SidecarOpen
    <3>2. \A s \in saving'[p] : Backed(p, FileOf(s.answer), s.next)'
      BY <2>2, <3>1 DEF IInv, Evidence
    <3>3. ASSUME NEW i \in DOMAIN rows'[p], NEW f, f = FileOf(rows'[p][i])
          PROVE  Backed(p, f, "row")'
      BY <2>2, <3>1, <3>3 DEF IInv, Evidence
    <3>4. QED
      BY <3>2, <3>3
  <2>3. QED
    BY <1>3, <2>1, <2>2
<1>9. Evidence'
  BY <1>1, <1>8 DEF IInv, Evidence
<1>10. QED
  BY <1>1, <1>5, <1>6, <1>9 DEF IInv, network

-----------------------------------------------------------------------------
LEMMA NextIInv == IInv /\ [Next]_vars => IInv'
<1> SUFFICES ASSUME IInv, [Next]_vars PROVE IInv'
  OBVIOUS
<1>1. ASSUME NEW r \in Relays, NEW t \in Tids, Stored(r, t) \/ Purged(r, t)
      PROVE  IInv'
  BY <1>1, StoreStep
<1>2. ASSUME NEW r \in Relays, Answering(r) \/ RelayCrash(r)
      PROVE  IInv'
  BY <1>2, AcceptRequestStep, FindEntryStep, AnswerStep, EndStep DEF Answering
<1>3. ASSUME NEW o \in Origins, NEW r \in Relays, NEW t \in Tids,
             AskCustody(o, r, t)
      PROVE  IInv'
  BY <1>3, AskCustodyStep
<1>4. ASSUME NEW o \in Origins,
             \/ CollectReply(o) \/ WritePacket(o) \/ OpenSidecar(o)
             \/ NameRelay(o) \/ EmitRow(o) \/ OriginCrash(o)
      PROVE  IInv'
  BY <1>4, CollectReplyStep, WritePacketStep, OpenSidecarStep, NameRelayStep,
     EmitRowStep, OriginCrashStep
<1>5. CASE \/ Tick
           \/ UNCHANGED vars
           \/ \E o \in Origins : CallReturns(o) \/ CallTimesOut(o)
  BY <1>5, QuietStep
<1>6. QED
  BY <1>1, <1>2, <1>3, <1>4, <1>5 DEF Next

LEMMA Invariance == Spec => []IInv
<1>1. Init => IInv
  BY InitIInv
<1>2. IInv /\ [Next]_vars => IInv'
  BY NextIInv
<1>3. QED
  BY <1>1, <1>2, PTL DEF Spec

(* Every variable of relays, network and origins keeps its type, whatever  *)
(* the number of questions and of overlapping threads.                     *)
THEOREM TypeCorrect == Spec => []TypeOK
<1>1. IInv => TypeOK
  BY DEF IInv
<1>2. QED
  BY <1>1, Invariance, PTL

(* A relay attests only to what its store really held, and since when      *)
(* (answer_custody, attest), wherever the attestation is found.            *)
THEOREM AttestationsAreTrue == Spec => []AttestedWasHeld
<1>1. IInv => AttestedWasHeld
  <2> SUFFICES ASSUME IInv, NEW m \in Answers PROVE Truthful(m)
    BY DEF AttestedWasHeld, Truthful
  <2>1. CASE m \in answered
    BY <2>1 DEF IInv, Truth
  <2>2. CASE \E r \in Relays : \E w \in working[r] : m \in w.reply
    BY <2>2 DEF IInv, Truth
  <2>3. CASE \E o \in Origins, f \in Files : m \in packet[o][f].bytes
    BY <2>3 DEF IInv, Truth
  <2>4. \/ m \in answered
        \/ m \in UNION {UNION {w.reply : w \in working[r]} : r \in Relays}
        \/ m \in UNION {packet[o][f].bytes : o \in Origins, f \in Files}
    BY DEF Answers
  <2>5. m \in UNION {UNION {w.reply : w \in working[r]} : r \in Relays}
          => \E r \in Relays : \E w \in working[r] : m \in w.reply
    OBVIOUS
  <2>6. m \in UNION {packet[o][f].bytes : o \in Origins, f \in Files}
          => \E o \in Origins, f \in Files : m \in packet[o][f].bytes
    OBVIOUS
  <2>7. QED
    BY <2>1, <2>2, <2>3, <2>4, <2>5, <2>6
<1>2. QED
  BY <1>1, Invariance, PTL

(* A row that wakes custody_of has its packet and its sidecar on disk      *)
(* (collect_custody), unless another answer is just being written there.   *)
THEOREM RowsHaveEvidence == Spec => []RowsAreBacked
<1>1. IInv => RowsAreBacked
  <2> SUFFICES ASSUME IInv, NEW o \in Origins, NEW i \in DOMAIN rows[o],
                      NEW f, f = FileOf(rows[o][i])
               PROVE  /\ PacketHas(o, f) /\ SidecarHas(o, f)
                      /\ \A m \in packet[o][f].bytes :
                           /\ m.kind = rows[o][i].kind
                           /\ m.request.tid = rows[o][i].request.tid
    BY DEF RowsAreBacked, PacketHas, SidecarHas
  <2>1. rows[o][i] \in Reply
    <3>1. rows[o] \in Seq(Reply)
      BY DEF IInv, TypeOK
    <3>2. QED
      BY <3>1
  <2>2. f \in Files
    BY <2>1, ReplyTyped
  <2>3. PacketHas(o, f) /\ SidecarHas(o, f)
    BY DEF IInv, Evidence, Backed
  <2>4. ASSUME NEW m \in packet[o][f].bytes
        PROVE  m.kind = rows[o][i].kind /\ m.request.tid = rows[o][i].request.tid
    <3>1. FileOf(m) = FileOf(rows[o][i])
      BY <2>2 DEF IInv, Evidence
    <3>2. QED
      BY <3>1 DEF FileOf
  <2>5. QED
    BY <2>3, <2>4
<1>2. QED
  BY <1>1, Invariance, PTL

-----------------------------------------------------------------------------
(* Whose question an answer answers.  From the thread that took a request  *)
(* to the file and the row at the origin, every answer carries a question  *)
(* that was asked, and what an origin's process handles was asked by it.   *)
Asking ==
  /\ \A r \in Relays : \A w \in working[r] :
       /\ w.request \in asked
       /\ \A m \in w.reply : w.reply = {m} /\ m.request = w.request
  /\ \A m \in answered : m.request \in asked

(* An answer to a question that this process of o asked. *)
OwnAnswer(o, m) == m \in answered /\ m \in taken /\ m.request \in expected[o]

OnDisk(o, m) == packet[o][FileOf(m)].there /\ sidecar[o][FileOf(m)].there

Collecting ==
  \A o \in Origins :
    /\ \A q \in expected[o] : q \in asked /\ q.origin = o
    /\ \A s \in saving[o] : OwnAnswer(o, s.answer)
    /\ \A i \in DOMAIN rows[o] : OwnAnswer(o, rows[o][i])
    /\ \A x \in returned[o] : /\ OwnAnswer(o, x[2])
                              /\ x[2].request.tid = x[1].tid
                              /\ OnDisk(o, x[2])
    /\ \A f \in Files : \A m \in packet[o][f].bytes :
         m \in answered /\ m \in taken /\ m.request.origin = o

(* A sidecar names a relay that did answer about its message. *)
Naming ==
  \A o \in Origins, f \in Files : \A r \in sidecar[o][f].bytes :
    \E m \in answered :
      m.request.origin = o /\ FileOf(m) = f /\ m.request.relay = r

Exchange == Asking /\ Collecting /\ Naming

LEMMA InitExchange == Init => Exchange
<1> SUFFICES ASSUME Init PROVE Exchange
  OBVIOUS
<1>1. Asking
  BY DEF Init, Asking
<1>2. Collecting
  BY DEF Init, Collecting, NoFile
<1>3. Naming
  BY DEF Init, Naming, NoFile
<1>4. QED
  BY <1>1, <1>2, <1>3 DEF Exchange

LEMMA NamingOfMore ==
  ASSUME Naming, answered \subseteq answered', sidecar' = sidecar
  PROVE  Naming'
BY DEF Naming

(* A step of the relays or of the clock. *)
LEMMA RelaysExchange ==
  ASSUME Exchange, Asking', asked' = asked, answered \subseteq answered',
         taken \subseteq taken', UNCHANGED originVars
  PROVE  Exchange'
<1>1. Collecting'
  BY DEF Exchange, Collecting, OwnAnswer, OnDisk, originVars
<1>2. Naming'
  BY NamingOfMore DEF Exchange, originVars
<1>3. QED
  BY <1>1, <1>2 DEF Exchange

LEMMA AskingKept ==
  ASSUME Asking, UNCHANGED <<working, answered>>, asked \subseteq asked'
  PROVE  Asking'
BY DEF Asking

(* What a relay's step does to its threads: some end, at most one takes    *)
(* their place, and what is sent answers a question that was asked.        *)
ThreadsMove(r, old, new, sent) ==
  /\ new = {} \/ \E v \in Thread :
       /\ new = {v} /\ v.request \in asked
       /\ \A m \in v.reply : v.reply = {m} /\ m.request = v.request
  /\ working' = [working EXCEPT ![r] = (@ \ old) \cup new]
  /\ answered' = answered \cup sent
  /\ \A m \in sent : m.request \in asked

LEMMA AnsweringExchange ==
  ASSUME IInv, Exchange, NEW r \in Relays, Answering(r) \/ RelayCrash(r)
  PROVE  Exchange'
<1>1. working \in [Relays -> SUBSET Thread]
  BY DEF IInv, TypeOK
<1>2. asked' = asked /\ UNCHANGED originVars
  BY DEF Answering, AcceptRequest, FindEntry, Refuse, Attest, AnswerRaises,
         SendReply, RelayCrash, network
<1>3. ASSUME NEW w \in working[r]
      PROVE  /\ w \in Thread /\ w.request \in asked
             /\ \A m \in w.reply : w.reply = {m} /\ m.request = w.request
  BY <1>1 DEF Exchange, Asking
<1>4. \E old, new, sent : ThreadsMove(r, old, new, sent)
  <2>1. CASE AcceptRequest(r)
    <3>1. PICK q \in asked :
            \/ working' = working
            \/ working' = [working EXCEPT ![r] = @ \cup {Waiting(q)}]
      BY <2>1 DEF AcceptRequest
    <3>2. q \in Request
      BY DEF IInv, TypeOK
    <3>3. Waiting(q) \in Thread /\ Waiting(q).request = q /\ Waiting(q).reply = {}
      BY <3>2 DEF Waiting, Thread
    <3>4. answered' = answered \cup {}
      BY <2>1 DEF AcceptRequest
    <3>5. CASE working' = working
      <4>1. working' = [working EXCEPT ![r] = (@ \ {}) \cup {}]
        BY <1>1, <3>5
      <4>2. ThreadsMove(r, {}, {}, {})
        BY <3>4, <4>1 DEF ThreadsMove
      <4>3. QED
        BY <4>2
    <3>6. CASE working' = [working EXCEPT ![r] = @ \cup {Waiting(q)}]
      <4>1. working' = [working EXCEPT ![r] = (@ \ {}) \cup {Waiting(q)}]
        BY <3>6
      <4>2. ThreadsMove(r, {}, {Waiting(q)}, {})
        BY <3>3, <3>4, <4>1 DEF ThreadsMove
      <4>3. QED
        BY <4>2
    <3>7. QED
      BY <3>1, <3>5, <3>6
  <2>2. CASE FindEntry(r)
    <3>1. PICK w \in working[r] :
            working' = [working EXCEPT ![r] =
              (@ \ {w}) \cup {[w EXCEPT !.found = store[r][w.request.tid]]}]
      BY <2>2 DEF FindEntry
    <3>2. store[r][w.request.tid] \in SUBSET Times
      BY <1>3, ThreadTyped DEF IInv, TypeOK
    <3>3. PICK v : v = [w EXCEPT !.found = store[r][w.request.tid]]
      OBVIOUS
    <3>4. v \in Thread /\ v.request = w.request /\ v.reply = w.reply
      BY <1>3, <3>2, <3>3, ThreadTyped
    <3>5. answered' = answered \cup {}
      BY <2>2 DEF FindEntry, network
    <3>6. working' = [working EXCEPT ![r] = (@ \ {w}) \cup {v}]
      BY <3>1, <3>3
    <3>7. ThreadsMove(r, {w}, {v}, {})
      BY <1>3, <3>4, <3>5, <3>6 DEF ThreadsMove
    <3>8. QED
      BY <3>7
  <2>3. CASE Refuse(r) \/ Attest(r)
    <3>1. PICK w, m :
            /\ w \in working[r] /\ Compose(r, w, m)
            /\ \/ m = [kind |-> "custody_refusal", request |-> w.request,
                       received |-> {}]
               \/ m = [kind |-> "custody", request |-> w.request,
                       received |-> w.found]
      BY <2>3 DEF Refuse, Attest
    <3>2. m \in Reply /\ m.request = w.request
      BY <1>3, <3>1, ThreadTyped DEF Reply, Kinds
    <3>3. PICK v : v = [w EXCEPT !.reply = {m}]
      OBVIOUS
    <3>4. v \in Thread /\ v.request = w.request /\ v.reply = {m}
      BY <1>3, <3>1, <3>2, <3>3, ThreadTyped
    <3>5. answered' = answered \cup {}
      BY <2>3 DEF Refuse, Attest, network
    <3>6. working' = [working EXCEPT ![r] = (@ \ {w}) \cup {v}]
      BY <3>1, <3>3 DEF Compose
    <3>7. ThreadsMove(r, {w}, {v}, {})
      BY <1>3, <3>1, <3>2, <3>4, <3>5, <3>6 DEF ThreadsMove
    <3>8. QED
      BY <3>7
  <2>4. CASE AnswerRaises(r)
    <3>1. PICK w : working' = [working EXCEPT ![r] = @ \ {w}]
      BY <2>4 DEF AnswerRaises
    <3>2. working' = [working EXCEPT ![r] = (@ \ {w}) \cup {}]
      BY <1>1, <3>1
    <3>3. answered' = answered \cup {}
      BY <2>4 DEF AnswerRaises, network
    <3>4. ThreadsMove(r, {w}, {}, {})
      BY <3>2, <3>3 DEF ThreadsMove
    <3>5. QED
      BY <3>4
  <2>5. CASE SendReply(r)
    <3>1. PICK w \in working[r] :
            /\ working' = [working EXCEPT ![r] = @ \ {w}]
            /\ answered' = answered \cup w.reply
      BY <2>5 DEF SendReply
    <3>2. working' = [working EXCEPT ![r] = (@ \ {w}) \cup {}]
      BY <1>1, <3>1
    <3>3. \A m \in w.reply : m.request \in asked
      BY <1>3
    <3>4. ThreadsMove(r, {w}, {}, w.reply)
      BY <3>1, <3>2, <3>3 DEF ThreadsMove
    <3>5. QED
      BY <3>4
  <2>6. CASE RelayCrash(r)
    <3>1. working' = [working EXCEPT ![r] = (@ \ working[r]) \cup {}]
      BY <1>1, <2>6 DEF RelayCrash
    <3>2. answered' = answered \cup {}
      BY <2>6 DEF RelayCrash, network
    <3>3. ThreadsMove(r, working[r], {}, {})
      BY <3>1, <3>2 DEF ThreadsMove
    <3>4. QED
      BY <3>3
  <2>7. QED
    BY <2>1, <2>2, <2>3, <2>4, <2>5, <2>6 DEF Answering
<1>5. PICK old, new, sent : ThreadsMove(r, old, new, sent)
  BY <1>4
<1>6. ASSUME NEW s \in Relays, NEW w \in working'[s]
      PROVE  w \in working[s] \/ w \in new
  BY <1>1, <1>5, <1>6 DEF ThreadsMove
<1>7. Asking'
  <2>1. ASSUME NEW s \in Relays, NEW w \in working'[s]
        PROVE  /\ w.request \in asked
               /\ \A m \in w.reply : w.reply = {m} /\ m.request = w.request
    <3>1. CASE w \in working[s]
      BY <3>1 DEF Exchange, Asking
    <3>2. CASE w \in new
      BY <1>5, <3>2 DEF ThreadsMove
    <3>3. QED
      BY <1>6, <3>1, <3>2
  <2>2. \A m \in answered' : m.request \in asked
    BY <1>5 DEF ThreadsMove, Exchange, Asking
  <2>3. QED
    BY <1>2, <2>1, <2>2 DEF Asking
<1>8. answered \subseteq answered'
  BY <1>5 DEF ThreadsMove
<1>9. taken \subseteq taken'
  BY DEF Answering, AcceptRequest, FindEntry, Refuse, Attest, AnswerRaises,
         SendReply, RelayCrash, network
<1>10. QED
  BY <1>2, <1>7, <1>8, <1>9, RelaysExchange

LEMMA AskExchange ==
  ASSUME IInv, Exchange, NEW o \in Origins, NEW r \in Relays, NEW t \in Tids,
         AskCustody(o, r, t)
  PROVE  Exchange'
<1>1. UNCHANGED <<relayVars, answered, taken, packet, sidecar, saving, rows,
                  returned>>
  BY DEF AskCustody
<1>2. PICK q : /\ q.origin = o
               /\ asked' = asked \cup {q}
               /\ expected' = [expected EXCEPT ![o] = @ \cup {q}]
  BY DEF AskCustody
<1>3. expected \in [Origins -> SUBSET Request]
  BY DEF IInv, TypeOK
<1>4. \A p \in Origins : /\ expected[p] \subseteq expected'[p]
                         /\ expected'[p] \subseteq expected[p] \cup {q}
                         /\ p # o => expected'[p] = expected[p]
  BY <1>2, <1>3
<1>5. Asking' /\ Naming'
  BY <1>1, <1>2, AskingKept, NamingOfMore DEF Exchange, relayVars
<1>6. Collecting'
  BY <1>1, <1>2, <1>4 DEF Exchange, Collecting, OwnAnswer, OnDisk
<1>7. QED
  BY <1>5, <1>6 DEF Exchange

(* A file that is there is there for good. *)
FilesStay ==
  \A p \in Origins, f \in Files :
    /\ packet[p][f].there => packet'[p][f].there
    /\ sidecar[p][f].there => sidecar'[p][f].there

LEMMA OnDiskStays ==
  ASSUME IInv, Exchange, FilesStay, returned' = returned,
         NEW p \in Origins, NEW x \in returned'[p]
  PROVE  OnDisk(p, x[2])'
<1>1. x[2] \in Reply
  BY DEF IInv, TypeOK
<1>2. PICK f \in Files : f = FileOf(x[2])
  BY <1>1, ReplyTyped
<1>3. packet[p][f].there /\ sidecar[p][f].there
  BY <1>2 DEF Exchange, Collecting, OnDisk
<1>4. packet'[p][f].there /\ sidecar'[p][f].there
  BY <1>3 DEF FilesStay
<1>5. QED
  BY <1>2, <1>4 DEF OnDisk

(* What remains to be shown of a step that saves an answer. *)
LEMMA SavingExchange ==
  ASSUME IInv, Exchange, FilesStay,
         UNCHANGED <<relayVars, asked, answered, expected, returned>>,
         taken \subseteq taken',
         \A p \in Origins : \A s \in saving'[p] : OwnAnswer(p, s.answer)',
         \A p \in Origins : \A i \in DOMAIN rows'[p] :
           \A m : m = rows'[p][i] => OwnAnswer(p, m)',
         \A p \in Origins, f \in Files : \A m \in packet'[p][f].bytes :
           m \in answered /\ m \in taken' /\ m.request.origin = p,
         Naming'
  PROVE  Exchange'
<1>1. Asking'
  BY AskingKept DEF Exchange, relayVars
<1>2. ASSUME NEW p \in Origins, NEW x \in returned'[p]
      PROVE  /\ OwnAnswer(p, x[2])' /\ x[2].request.tid = x[1].tid
             /\ OnDisk(p, x[2])'
  BY <1>2, OnDiskStays DEF Exchange, Collecting, OwnAnswer
<1>3. ASSUME NEW p \in Origins
      PROVE  \A q \in expected'[p] : q \in asked' /\ q.origin = p
  BY DEF Exchange, Collecting
<1>4. \A p \in Origins : (\A i \in DOMAIN rows[p] : OwnAnswer(p, rows[p][i]))'
  OBVIOUS
<1>5. Collecting'
  BY <1>2, <1>3, <1>4 DEF Collecting
<1>6. QED
  BY <1>1, <1>5 DEF Exchange

LEMMA CollectExchange ==
  ASSUME IInv, Exchange, NEW o \in Origins, CollectReply(o)
  PROVE  Exchange'
<1>1. UNCHANGED <<relayVars, asked, answered, expected, sidecar, rows, returned>>
  BY DEF CollectReply
<1>2. PICK m \in answered :
        /\ m.request.origin = o
        /\ taken' = taken \cup {m}
        /\ UNCHANGED <<packet, saving>> \/ Takes(o, m)
  BY CollectReplyDoes DEF IInv
<1>3. m \in Reply
  BY DEF IInv, TypeOK
<1>4. PICK g \in Files : g = FileOf(m)
  BY <1>3, ReplyTyped
<1>5. PICK v : v = At(m, "packet")
  OBVIOUS
<1>6. v.answer = m
  BY <1>3, <1>5, AtTyped
<1>7. ASSUME NEW p \in Origins, NEW f \in Files
      PROVE  /\ packet'[p][f] = packet[p][f] \/ packet'[p][f] = Emptied
             /\ \A s \in saving'[p] : \/ s \in saving[p]
                                      \/ p = o /\ s = v /\ m.request \in expected[o]
  BY <1>2, <1>4, <1>5 DEF Takes, PacketBecomes, SavingBecomes
<1>8. FilesStay
  BY <1>1, <1>7 DEF FilesStay, Emptied
<1>9. Naming'
  BY <1>1, NamingOfMore DEF Exchange
<1>10. ASSUME NEW p \in Origins, NEW s \in saving'[p]
       PROVE  OwnAnswer(p, s.answer)'
  <2>1. CASE s \in saving[p]
    BY <1>1, <1>2, <2>1 DEF Exchange, Collecting, OwnAnswer
  <2>2. CASE p = o /\ s = v /\ m.request \in expected[o]
    BY <1>1, <1>2, <1>6, <2>2 DEF OwnAnswer
  <2>3. QED
    BY <1>4, <1>7, <2>1, <2>2
<1>11. ASSUME NEW p \in Origins, NEW i \in DOMAIN rows'[p], NEW n, n = rows'[p][i]
       PROVE  OwnAnswer(p, n)'
  BY <1>1, <1>2, <1>11 DEF Exchange, Collecting, OwnAnswer
<1>12. ASSUME NEW p \in Origins, NEW f \in Files, NEW n \in packet'[p][f].bytes
       PROVE  n \in answered /\ n \in taken' /\ n.request.origin = p
  <2>1. n \in packet[p][f].bytes
    BY <1>7 DEF Emptied
  <2>2. QED
    BY <1>2, <2>1 DEF Exchange, Collecting
<1>13. taken \subseteq taken'
  BY <1>2
<1>14. QED
  BY <1>1, <1>8, <1>9, <1>10, <1>11, <1>12, <1>13, SavingExchange

LEMMA WriteExchange ==
  ASSUME IInv, Exchange, NEW o \in Origins,
         WritePacket(o) \/ OpenSidecar(o) \/ NameRelay(o)
  PROVE  Exchange'
<1>1. UNCHANGED <<relayVars, asked, answered, taken, expected, rows, returned>>
  BY DEF WritePacket, OpenSidecar, NameRelay, network
<1>2. PICK s, phase :
        /\ s \in saving[o] /\ phase \in {"sidecar", "contact", "row"}
        /\ Moves(o, s, phase)
        /\ \/ /\ sidecar' = sidecar
              /\ \E file \in Written(packet[o][FileOf(s.answer)], s.answer) :
                   PacketBecomes(o, FileOf(s.answer), file)
           \/ /\ packet' = packet
              /\ SidecarBecomes(o, FileOf(s.answer), Emptied)
           \/ /\ packet' = packet
              /\ SidecarBecomes(o, FileOf(s.answer),
                   [there |-> TRUE, bytes |-> {s.answer.request.relay}])
  <2>1. CASE WritePacket(o)
    <3>1. PICK s, file :
            /\ s \in saving[o]
            /\ file \in Written(packet[o][FileOf(s.answer)], s.answer)
            /\ PacketBecomes(o, FileOf(s.answer), file)
            /\ Moves(o, s, "sidecar")
      BY <2>1, WritePacketDoes DEF IInv
    <3>2. sidecar' = sidecar
      BY <2>1 DEF WritePacket
    <3>3. QED
      BY <3>1, <3>2
  <2>2. CASE OpenSidecar(o)
    <3>1. PICK s \in saving[o] :
            /\ SidecarBecomes(o, FileOf(s.answer), Emptied)
            /\ Moves(o, s, "contact")
      BY <2>2, OpenSidecarDoes DEF IInv
    <3>2. packet' = packet
      BY <2>2 DEF OpenSidecar
    <3>3. QED
      BY <3>1, <3>2
  <2>3. CASE NameRelay(o)
    <3>1. PICK s \in saving[o] :
            /\ SidecarBecomes(o, FileOf(s.answer),
                 [there |-> TRUE, bytes |-> {s.answer.request.relay}])
            /\ Moves(o, s, "row")
      BY <2>3, NameRelayDoes DEF IInv
    <3>2. packet' = packet
      BY <2>3 DEF NameRelay
    <3>3. QED
      BY <3>1, <3>2
  <2>4. QED
    BY <2>1, <2>2, <2>3
<1>3. s \in Saving
  BY <1>2 DEF IInv, TypeOK
<1>4. PICK m \in Reply : m = s.answer
  BY <1>3, SavingTyped
<1>5. PICK g \in Files : g = FileOf(m)
  BY <1>4, ReplyTyped
<1>6. OwnAnswer(o, m) /\ m.request.origin = o
  <2>1. OwnAnswer(o, m)
    BY <1>2, <1>4 DEF Exchange, Collecting
  <2>2. QED
    BY <2>1 DEF Exchange, Collecting, OwnAnswer
<1>7. ASSUME NEW p \in Origins, NEW f \in Files
      PROVE  /\ packet[p][f].there => packet'[p][f].there
             /\ \A n \in packet'[p][f].bytes :
                  n \in packet[p][f].bytes \/ (p = o /\ n = m)
  <2>1. packet[o][g] \in File(Reply)
    BY DEF IInv, TypeOK
  <2>2. ASSUME NEW file \in Written(packet[o][g], m)
        PROVE  /\ file.there
               /\ \A n \in file.bytes : n \in packet[o][g].bytes \/ n = m
    BY <1>4, <2>1, <2>2, FileWritten
  <2>3. \/ packet' = packet
        \/ \E file \in Written(packet[o][g], m) : PacketBecomes(o, g, file)
    BY <1>2, <1>4, <1>5
  <2>4. QED
    BY <2>2, <2>3 DEF PacketBecomes
<1>8. PICK named : named = [there |-> TRUE, bytes |-> {m.request.relay}]
  OBVIOUS
<1>9. /\ named.there /\ named.bytes = {m.request.relay}
      /\ Emptied.there /\ Emptied.bytes = {}
  BY <1>8 DEF Emptied
<1>10. ASSUME NEW p \in Origins, NEW f \in Files
       PROVE  /\ sidecar[p][f].there => sidecar'[p][f].there
              /\ \A r \in sidecar'[p][f].bytes : r \in sidecar[p][f].bytes
                   \/ (p = o /\ f = g /\ r = m.request.relay)
  <2>1. \/ sidecar' = sidecar
        \/ SidecarBecomes(o, g, Emptied)
        \/ SidecarBecomes(o, g, named)
    BY <1>2, <1>4, <1>5, <1>8
  <2>2. QED
    BY <1>9, <2>1 DEF SidecarBecomes
<1>11. FilesStay
  BY <1>7, <1>10 DEF FilesStay
<1>12. Naming'
  BY <1>1, <1>5, <1>6, <1>10 DEF Exchange, Naming, OwnAnswer
<1>13. ASSUME NEW p \in Origins, NEW v \in saving'[p]
       PROVE  OwnAnswer(p, v.answer)'
  <2>1. v \in saving[p] \/ (p = o /\ v.answer = m)
    BY <1>2, <1>3, <1>4, <1>5, OthersStayOpen
  <2>2. QED
    BY <1>1, <1>6, <2>1 DEF Exchange, Collecting, OwnAnswer
<1>14. ASSUME NEW p \in Origins, NEW i \in DOMAIN rows'[p], NEW n, n = rows'[p][i]
       PROVE  OwnAnswer(p, n)'
  BY <1>1, <1>14 DEF Exchange, Collecting, OwnAnswer
<1>15. ASSUME NEW p \in Origins, NEW f \in Files, NEW n \in packet'[p][f].bytes
       PROVE  n \in answered /\ n \in taken' /\ n.request.origin = p
  <2>1. n \in packet[p][f].bytes \/ (p = o /\ n = m)
    BY <1>7
  <2>2. QED
    BY <1>1, <1>6, <2>1 DEF Exchange, Collecting, OwnAnswer
<1>16. QED
  BY <1>1, <1>11, <1>12, <1>13, <1>14, <1>15, SavingExchange

LEMMA RowExchange ==
  ASSUME IInv, Exchange, NEW o \in Origins, EmitRow(o)
  PROVE  Exchange'
<1>1. UNCHANGED <<relayVars, asked, answered, taken, expected, packet, sidecar,
                  returned>>
  BY DEF EmitRow, network
<1>2. PICK s \in saving[o] :
        /\ \A p \in Origins : \A i \in DOMAIN rows'[p] :
             \/ i \in DOMAIN rows[p] /\ rows'[p][i] = rows[p][i]
             \/ p = o /\ rows'[p][i] = s.answer
        /\ SavingBecomes(o, saving[o] \ {s})
  BY EmitRowDoes DEF IInv
<1>3. FilesStay /\ Naming'
  BY <1>1, NamingOfMore DEF Exchange, FilesStay
<1>4. ASSUME NEW p \in Origins, NEW v \in saving'[p]
      PROVE  OwnAnswer(p, v.answer)'
  <2>1. v \in saving[p]
    BY <1>2 DEF SavingBecomes
  <2>2. QED
    BY <1>1, <2>1 DEF Exchange, Collecting, OwnAnswer
<1>5. OwnAnswer(o, s.answer)
  BY DEF Exchange, Collecting
<1>6. ASSUME NEW p \in Origins, NEW i \in DOMAIN rows'[p], NEW n, n = rows'[p][i]
      PROVE  OwnAnswer(p, n)'
  <2>1. \/ i \in DOMAIN rows[p] /\ n = rows[p][i]
        \/ p = o /\ n = s.answer
    BY <1>2, <1>6
  <2>2. OwnAnswer(p, n)
    BY <1>5, <2>1 DEF Exchange, Collecting
  <2>3. QED
    BY <1>1, <2>2 DEF OwnAnswer
<1>7. ASSUME NEW p \in Origins, NEW f \in Files, NEW n \in packet'[p][f].bytes
      PROVE  n \in answered /\ n \in taken' /\ n.request.origin = p
  BY <1>1 DEF Exchange, Collecting
<1>8. QED
  BY <1>1, <1>3, <1>4, <1>6, <1>7, SavingExchange

LEMMA CrashExchange ==
  ASSUME IInv, Exchange, NEW o \in Origins, OriginCrash(o)
  PROVE  Exchange'
<1>1. UNCHANGED <<relayVars, asked, answered, taken, packet, sidecar>>
  BY DEF OriginCrash, network
<1>2. Asking' /\ Naming'
  BY <1>1, AskingKept, NamingOfMore DEF Exchange, relayVars
<1>3. ASSUME NEW p \in Origins
      PROVE  \/ /\ expected'[p] = {} /\ saving'[p] = {} /\ rows'[p] = <<>>
                /\ returned'[p] = {}
             \/ /\ expected'[p] = expected[p] /\ saving'[p] = saving[p]
                /\ rows'[p] = rows[p] /\ returned'[p] = returned[p]
  BY DEF OriginCrash, IInv, TypeOK
<1>4. DOMAIN <<>> = {}
  OBVIOUS
<1>5. Collecting'
  BY <1>1, <1>3, <1>4 DEF Exchange, Collecting, OwnAnswer, OnDisk
<1>6. QED
  BY <1>2, <1>5 DEF Exchange

LEMMA ReturnExchange ==
  ASSUME IInv, Exchange, NEW o \in Origins, CallReturns(o)
  PROVE  Exchange'
<1>1. UNCHANGED <<relayVars, asked, answered, taken, expected, packet, sidecar,
                  saving, rows>>
  BY DEF CallReturns, network
<1>2. PICK q \in call[o], i \in DOMAIN rows[o] :
        /\ About(rows[o][i], q)
        /\ returned' = [returned EXCEPT ![o] = {<<q, rows[o][i]>>}]
  BY DEF CallReturns
<1>3. PICK m : m = rows[o][i]
  OBVIOUS
<1>4. /\ OwnAnswer(o, m) /\ m.request.tid = q.tid
      /\ OnDisk(o, m)
  BY <1>2, <1>3 DEF Exchange, Collecting, About, OnDisk, IInv, Evidence, Backed
<1>5. ASSUME NEW p \in Origins, NEW x \in returned'[p]
      PROVE  x \in returned[p] \/ (p = o /\ x = <<q, m>>)
  BY <1>2, <1>3 DEF IInv, TypeOK
<1>6. Asking' /\ Naming'
  BY <1>1, AskingKept, NamingOfMore DEF Exchange, relayVars
<1>7. ASSUME NEW p \in Origins, NEW x \in returned'[p]
      PROVE  OwnAnswer(p, x[2]) /\ x[2].request.tid = x[1].tid /\ OnDisk(p, x[2])
  BY <1>4, <1>5, <1>7 DEF Exchange, Collecting
<1>8. Collecting'
  BY <1>1, <1>7 DEF Exchange, Collecting, OwnAnswer, OnDisk
<1>9. QED
  BY <1>6, <1>8 DEF Exchange

LEMMA NextExchange == IInv /\ Exchange /\ [Next]_vars => Exchange'
<1> SUFFICES ASSUME IInv, Exchange, [Next]_vars PROVE Exchange'
  OBVIOUS
<1>1. ASSUME NEW r \in Relays, NEW t \in Tids, Stored(r, t) \/ Purged(r, t)
      PROVE  Exchange'
  <2>1. UNCHANGED <<working, originVars, network>>
    BY <1>1 DEF Stored, Purged
  <2>2. Asking'
    BY <2>1, AskingKept DEF Exchange, network
  <2>3. QED
    BY <2>1, <2>2, RelaysExchange DEF network
<1>2. ASSUME NEW r \in Relays, Answering(r) \/ RelayCrash(r)
      PROVE  Exchange'
  BY <1>2, AnsweringExchange
<1>3. ASSUME NEW o \in Origins, NEW r \in Relays, NEW t \in Tids,
             AskCustody(o, r, t)
      PROVE  Exchange'
  BY <1>3, AskExchange
<1>4. ASSUME NEW o \in Origins,
             \/ CollectReply(o) \/ WritePacket(o) \/ OpenSidecar(o)
             \/ NameRelay(o) \/ EmitRow(o) \/ OriginCrash(o) \/ CallReturns(o)
      PROVE  Exchange'
  BY <1>4, CollectExchange, WriteExchange, RowExchange, CrashExchange,
     ReturnExchange
<1>5. CASE \/ Tick
           \/ UNCHANGED vars
           \/ \E o \in Origins : CallTimesOut(o)
  <2>1. UNCHANGED <<relayVars, network, expected, packet, sidecar, saving, rows,
                    returned>>
    BY <1>5 DEF Tick, vars, originVars, CallTimesOut
  <2>2. Asking' /\ Naming'
    BY <2>1, AskingKept, NamingOfMore DEF Exchange, relayVars, network
  <2>3. Collecting'
    BY <2>1 DEF Exchange, Collecting, OwnAnswer, OnDisk, network
  <2>4. QED
    BY <2>2, <2>3 DEF Exchange
<1>6. QED
  BY <1>1, <1>2, <1>3, <1>4, <1>5 DEF Next

LEMMA ExchangeInvariance == Spec => []Exchange
BY InitExchange, InitIInv, NextIInv, NextExchange, PTL DEF Spec

(* custody_of returns an answer to a question this process asked about the *)
(* message, sent by a relay, with packet and sidecar on disk.              *)
THEOREM ReturnsAreAnswers == Spec => []ReturnedIsAnAnswer
<1>1. Exchange => ReturnedIsAnAnswer
  BY DEF Exchange, Collecting, OwnAnswer, OnDisk, ReturnedIsAnAnswer
<1>2. QED
  BY <1>1, ExchangeInvariance, PTL

-----------------------------------------------------------------------------
(* What a step may do to a packet: an answer just taken opens it, or its   *)
(* callback writes what it opened.                                         *)
Opened(o, m) ==
  /\ m \in answered /\ m \notin taken /\ m.request.origin = o
  /\ PacketBecomes(o, FileOf(m), Emptied)
  /\ At(m, "packet") \in saving'[o]

Filled(o, m, file) ==
  /\ m \in answered /\ m.request.origin = o
  /\ file \in Written(packet[o][FileOf(m)], m)
  /\ PacketBecomes(o, FileOf(m), file)
  /\ At(m, "sidecar") \in saving'[o]

LEMMA PacketStep ==
  ASSUME IInv, Exchange, [Next]_vars
  PROVE  \/ packet' = packet
         \/ \E o \in Origins, m \in answered : Opened(o, m)
         \/ \E o \in Origins, m \in answered : \E file : Filled(o, m, file)
<1>1. CASE \E o \in Origins : CollectReply(o)
  <2>1. PICK o \in Origins : CollectReply(o)
    BY <1>1
  <2>2. PICK m \in answered \ taken :
          /\ m.request.origin = o
          /\ UNCHANGED <<packet, saving>> \/ Takes(o, m)
    BY <2>1, CollectReplyDoes DEF IInv
  <2>3. Takes(o, m) => Opened(o, m)
    BY <2>2 DEF Takes, Opened, SavingBecomes
  <2>4. QED
    BY <2>2, <2>3
<1>2. CASE \E o \in Origins : WritePacket(o)
  <2>1. PICK o \in Origins : WritePacket(o)
    BY <1>2
  <2>2. PICK s, file :
          /\ s \in saving[o]
          /\ file \in Written(packet[o][FileOf(s.answer)], s.answer)
          /\ PacketBecomes(o, FileOf(s.answer), file)
          /\ Moves(o, s, "sidecar")
    BY <2>1, WritePacketDoes DEF IInv
  <2>3. PICK m : m = s.answer
    OBVIOUS
  <2>4. OwnAnswer(o, m)
    BY <2>2, <2>3 DEF Exchange, Collecting
  <2>5. m \in answered /\ m.request.origin = o
    BY <2>4 DEF Exchange, Collecting, OwnAnswer
  <2>6. At(m, "sidecar") \in saving'[o]
    BY <2>2, <2>3 DEF Moves, SavingBecomes
  <2>7. Filled(o, m, file)
    BY <2>2, <2>3, <2>5, <2>6 DEF Filled
  <2>8. QED
    BY <2>5, <2>7
<1>3. CASE ~(\E o \in Origins : CollectReply(o) \/ WritePacket(o))
  BY <1>3
  DEF Next, vars, originVars, relayVars, network, Stored, Purged, Answering,
      AcceptRequest, FindEntry, Refuse, Attest, Compose, AnswerRaises, SendReply,
      RelayCrash, AskCustody, CallReturns, CallTimesOut, OpenSidecar, NameRelay,
      EmitRow, OriginCrash, Tick
<1>4. QED
  BY <1>1, <1>2, <1>3

LEMMA WholeIs ==
  ASSUME NEW file, NEW m
  PROVE  m \in Whole(file) <=> file.bytes = {m}
BY DEF Whole

(* What writing n makes of a file that somebody may have filled meanwhile. *)
LEMMA WrittenBytes ==
  ASSUME IInv, NEW o \in Origins, NEW f \in Files, NEW n \in Reply,
         NEW file \in Written(packet[o][f], n)
  PROVE  /\ n \in file.bytes
         /\ file.bytes = {n} \/ file.bytes = packet[o][f].bytes \cup {n}
<1>1. packet[o][f] \in File(Reply)
  BY DEF IInv, TypeOK
<1>2. QED
  BY <1>1, FileWritten

(* No refusal, late answer or restart takes away an attestation that is    *)
(* whole; only another one about the message does, and while it is saved.  *)
THEOREM ProofOfEntryGivesWayToProof == Spec => ProofGivesWayToProof
<1>1. IInv /\ Exchange /\ [Next]_vars =>
        [\A o \in Origins, t \in Tids :
           \A m \in Whole(packet[o][<<t, "custody">>]) :
             \/ m \in Whole(packet'[o][<<t, "custody">>])
             \/ \E s \in saving'[o] : /\ s.answer # m /\ s.answer.kind = "custody"
                                     /\ s.answer.request.tid = t]_vars
  <2> SUFFICES ASSUME IInv, Exchange, [Next]_vars,
                      NEW o \in Origins, NEW t \in Tids,
                      NEW m \in Whole(packet[o][<<t, "custody">>])
               PROVE  \/ m \in Whole(packet'[o][<<t, "custody">>])
                      \/ \E s \in saving'[o] :
                           /\ s.answer # m /\ s.answer.kind = "custody"
                           /\ s.answer.request.tid = t
    OBVIOUS
  <2>1. PICK f \in Files : f = <<t, "custody">>
    BY DEF Files, Kinds
  <2>2. packet[o][f].bytes = {m} /\ m \in taken
    BY <2>1, WholeIs DEF Exchange, Collecting
  <2>3. CASE packet' = packet
    BY <2>3
  <2>4. ASSUME NEW n \in answered, FileOf(n) = f, n # m,
               NEW phase \in {"packet", "sidecar"}, At(n, phase) \in saving'[o]
        PROVE  \E s \in saving'[o] : /\ s.answer # m /\ s.answer.kind = "custody"
                                    /\ s.answer.request.tid = t
    <3>1. n \in Reply
      BY DEF IInv, TypeOK
    <3>2. n.kind = "custody" /\ n.request.tid = t
      BY <2>1, <2>4 DEF FileOf
    <3>3. At(n, phase).answer = n
      BY <3>1, AtTyped
    <3>4. QED
      BY <2>4, <3>2, <3>3
  <2>5. ASSUME NEW p \in Origins, NEW n \in answered, NEW file,
               PacketBecomes(p, FileOf(n), file), p # o \/ FileOf(n) # f
        PROVE  m \in Whole(packet'[o][f])
    <3>1. packet'[o][f] = packet[o][f]
      BY <2>5 DEF PacketBecomes
    <3>2. QED
      BY <2>2, <3>1, WholeIs
  <2>6. CASE \E p \in Origins, n \in answered : Opened(p, n)
    <3>1. PICK p \in Origins, n \in answered : Opened(p, n)
      BY <2>6
    <3>2. n # m
      BY <2>2, <3>1 DEF Opened
    <3>3. CASE p = o /\ FileOf(n) = f
      BY <2>4, <3>1, <3>2, <3>3 DEF Opened
    <3>4. QED
      BY <2>1, <2>5, <3>1, <3>3 DEF Opened
  <2>7. CASE \E p \in Origins, n \in answered : \E file : Filled(p, n, file)
    <3>1. PICK p, n, file :
            p \in Origins /\ n \in answered /\ Filled(p, n, file)
      BY <2>7
    <3>2. CASE p = o /\ FileOf(n) = f /\ n # m
      BY <2>4, <3>1, <3>2 DEF Filled
    <3>3. CASE p = o /\ FileOf(n) = f /\ n = m
      <4>1. n \in Reply
        BY <3>1 DEF IInv, TypeOK
      <4>2. file \in Written(packet[o][f], n)
        BY <3>1, <3>3 DEF Filled
      <4>3. file.bytes = {m}
        BY <2>2, <3>3, <4>1, <4>2, WrittenBytes
      <4>4. packet'[o][f] = file
        BY <3>1, <3>3 DEF Filled, PacketBecomes
      <4>5. QED
        BY <2>1, <4>3, <4>4, WholeIs
    <3>4. QED
      <4>1. PacketBecomes(p, FileOf(n), file)
        BY <3>1 DEF Filled
      <4>2. QED
        BY <2>1, <2>5, <3>1, <3>2, <3>3, <4>1
  <2>8. QED
    BY <2>3, <2>6, <2>7, PacketStep
<1>2. QED
  BY <1>1, Invariance, ExchangeInvariance, PTL DEF Spec, ProofGivesWayToProof

-----------------------------------------------------------------------------
(* A step that leaves both files under a name as they are, and ends no     *)
(* callback that saves something there.                                    *)
Untouched(o, f) ==
  /\ packet'[o][f] = packet[o][f] /\ sidecar'[o][f] = sidecar[o][f]
  /\ answered \subseteq answered'

LEMMA UntouchedStaysSound ==
  ASSUME NEW o \in Origins, NEW f \in Files, Sound(o, f), Untouched(o, f),
         BeingSaved(o, f) => BeingSaved(o, f)'
  PROVE  Sound(o, f)'
<1>1. OneRelay(o, f)' => OneRelay(o, f)
  BY DEF OneRelay, Untouched
<1>2. AuditPasses(o, f) => AuditPasses(o, f)'
  BY DEF AuditPasses, CustodyCheck, Untouched
<1>3. QED
  BY <1>1, <1>2 DEF Sound

(* The last callback that saved something under a name leaves evidence.    *)
LEMMA LastRowIsSound ==
  ASSUME IInv, Exchange, NEW o \in Origins, NEW s \in saving[o], s.next = "row",
         NEW f \in Files, f = FileOf(s.answer),
         \A v \in saving[o] : v # s => FileOf(v.answer) # f,
         OneRelay(o, f)
  PROVE  AuditPasses(o, f)
<1>1. Backed(o, f, "row") /\ ~PacketOpen(o, f) /\ ~SidecarOpen(o, f)
  BY DEF IInv, Evidence, PacketOpen, SidecarOpen
<1>2. packet[o][f].bytes # {} /\ sidecar[o][f].bytes # {}
  BY <1>1 DEF Backed, PacketHas, SidecarHas
<1>3. PICK m \in packet[o][f].bytes : packet[o][f].bytes = {m}
  <2>1. PICK S : S = packet[o][f].bytes
    OBVIOUS
  <2>2. IsFiniteSet(S) /\ Cardinality(S) <= 1 /\ S # {}
    BY <1>2, <2>1 DEF IInv, Evidence, OneRelay
  <2>3. Cardinality(S) = 1
    BY <2>2, FS_EmptySet, FS_CardinalityType
  <2>4. QED
    BY <2>1, <2>2, <2>3, FS_Singleton
<1>4. m \in answered /\ m.request.origin = o /\ FileOf(m) = f
  BY DEF IInv, Evidence, Exchange, Collecting
<1>5. ASSUME NEW r \in sidecar[o][f].bytes
      PROVE  r = m.request.relay
  <2>1. PICK n \in answered :
          n.request.origin = o /\ FileOf(n) = f /\ n.request.relay = r
    BY DEF Exchange, Naming
  <2>2. QED
    BY <1>4, <2>1 DEF OneRelay
<1>6. sidecar[o][f].bytes = {m.request.relay}
  BY <1>2, <1>5
<1>7. Whole(packet[o][f]) = {m} /\ Whole(sidecar[o][f]) = {m.request.relay}
  BY <1>3, <1>6 DEF Whole
<1>8. m.kind = f[2] /\ m.request.tid = f[1]
  BY <1>4 DEF FileOf
<1>9. QED
  BY <1>4, <1>7, <1>8 DEF AuditPasses, CustodyCheck

(* Where one relay answered, nothing but the end of the process in the     *)
(* middle of saving makes a file fail the audit (collect_custody).         *)
THEOREM EvidenceOfOneRelayRechecks == Spec => OneRelayRechecks
<1>1. IInv /\ Exchange /\ [Next]_vars =>
        [\A o \in Origins, f \in Files :
           Sound(o, f) /\ ~(OriginCrash(o) /\ BeingSaved(o, f))
             => Sound(o, f)']_vars
  <2> SUFFICES ASSUME IInv, Exchange, [Next]_vars,
                      NEW o \in Origins, NEW f \in Files, Sound(o, f),
                      ~(OriginCrash(o) /\ BeingSaved(o, f))
               PROVE  Sound(o, f)'
    OBVIOUS
  <2>1. CASE UNCHANGED <<packet, sidecar, saving>> /\ answered \subseteq answered'
    BY <2>1, UntouchedStaysSound DEF Untouched, BeingSaved
  <2>2. ASSUME NEW p \in Origins, p # o,
               \/ CollectReply(p) \/ WritePacket(p) \/ OpenSidecar(p)
               \/ NameRelay(p) \/ EmitRow(p) \/ OriginCrash(p)
        PROVE  Sound(o, f)'
    <3>1. UNCHANGED answered
      BY <2>2 DEF CollectReply, WritePacket, OpenSidecar, NameRelay, EmitRow,
                  OriginCrash, network
    <3>2. packet'[o] = packet[o] /\ sidecar'[o] = sidecar[o] /\ saving'[o] = saving[o]
      BY <2>2 DEF CollectReply, WritePacket, OpenSidecar, NameRelay, EmitRow,
                  OriginCrash, Advance, IInv, TypeOK
    <3>3. QED
      BY <3>1, <3>2, UntouchedStaysSound DEF Untouched, BeingSaved
  <2>3. CASE CollectReply(o)
    <3>1. PICK m \in answered \ taken : UNCHANGED <<packet, saving>> \/ Takes(o, m)
      BY <2>3, CollectReplyDoes DEF IInv
    <3>2. UNCHANGED <<answered, sidecar>>
      BY <2>3 DEF CollectReply
    <3>3. CASE UNCHANGED <<packet, saving>>
      BY <2>1, <3>2, <3>3
    <3>4. CASE Takes(o, m)
      <4>1. m \in Reply
        BY DEF IInv, TypeOK
      <4>2. At(m, "packet").answer = m
        BY <4>1, AtTyped
      <4>3. saving'[o] = saving[o] \cup {At(m, "packet")}
        BY <3>4 DEF Takes, SavingBecomes
      <4>4. CASE FileOf(m) = f
        BY <4>2, <4>3, <4>4 DEF Sound, BeingSaved
      <4>5. CASE FileOf(m) # f
        <5>1. packet'[o][f] = packet[o][f]
          BY <3>4, <4>5 DEF Takes, PacketBecomes
        <5>2. BeingSaved(o, f) => BeingSaved(o, f)'
          BY <4>3 DEF BeingSaved
        <5>3. QED
          BY <3>2, <5>1, <5>2, UntouchedStaysSound DEF Untouched
      <4>6. QED
        BY <4>4, <4>5
    <3>5. QED
      BY <3>1, <3>3, <3>4
  <2>4. CASE WritePacket(o) \/ OpenSidecar(o) \/ NameRelay(o)
    <3>1. PICK s, phase :
            /\ s \in saving[o] /\ phase \in {"sidecar", "contact", "row"}
            /\ Moves(o, s, phase)
            /\ FileOf(s.answer) # f => UNCHANGED <<packet[o][f], sidecar[o][f]>>
      <4>1. CASE WritePacket(o)
        <5>1. sidecar' = sidecar
          BY <4>1 DEF WritePacket
        <5>2. PICK s, file :
                /\ s \in saving[o]
                /\ PacketBecomes(o, FileOf(s.answer), file)
                /\ Moves(o, s, "sidecar")
          BY <4>1, WritePacketDoes DEF IInv
        <5>3. FileOf(s.answer) # f => UNCHANGED <<packet[o][f], sidecar[o][f]>>
          BY <5>1, <5>2 DEF PacketBecomes
        <5>4. QED
          BY <5>2, <5>3
      <4>2. CASE OpenSidecar(o)
        <5>1. packet' = packet
          BY <4>2 DEF OpenSidecar
        <5>2. PICK s, file :
                /\ s \in saving[o]
                /\ SidecarBecomes(o, FileOf(s.answer), file)
                /\ Moves(o, s, "contact")
          BY <4>2, OpenSidecarDoes DEF IInv
        <5>3. FileOf(s.answer) # f => UNCHANGED <<packet[o][f], sidecar[o][f]>>
          BY <5>1, <5>2 DEF SidecarBecomes
        <5>4. QED
          BY <5>2, <5>3
      <4>3. CASE NameRelay(o)
        <5>1. packet' = packet
          BY <4>3 DEF NameRelay
        <5>2. PICK s, file :
                /\ s \in saving[o]
                /\ SidecarBecomes(o, FileOf(s.answer), file)
                /\ Moves(o, s, "row")
          BY <4>3, NameRelayDoes DEF IInv
        <5>3. FileOf(s.answer) # f => UNCHANGED <<packet[o][f], sidecar[o][f]>>
          BY <5>1, <5>2 DEF SidecarBecomes
        <5>4. QED
          BY <5>2, <5>3
      <4>4. QED
        BY <2>4, <4>1, <4>2, <4>3
    <3>2. UNCHANGED answered
      BY <2>4 DEF WritePacket, OpenSidecar, NameRelay, network
    <3>3. s \in Saving
      BY <3>1 DEF IInv, TypeOK
    <3>4. At(s.answer, phase).answer = s.answer
      BY <3>1, <3>3, SavingTyped, AtTyped
    <3>5. saving'[o] = (saving[o] \ {s}) \cup {At(s.answer, phase)}
      BY <3>1 DEF Moves, SavingBecomes
    <3>6. CASE FileOf(s.answer) = f
      BY <3>4, <3>5, <3>6 DEF Sound, BeingSaved
    <3>7. CASE FileOf(s.answer) # f
      <4>1. BeingSaved(o, f) => BeingSaved(o, f)'
        BY <3>5, <3>7 DEF BeingSaved
      <4>2. QED
        BY <3>1, <3>2, <3>7, <4>1, UntouchedStaysSound DEF Untouched
    <3>8. QED
      BY <3>6, <3>7
  <2>5. CASE EmitRow(o)
    <3>1. PICK s \in saving[o] :
            s.next = "row" /\ SavingBecomes(o, saving[o] \ {s})
      BY <2>5, EmitRowDoes DEF IInv
    <3>2. UNCHANGED <<answered, packet, sidecar>>
      BY <2>5 DEF EmitRow, network
    <3>3. saving'[o] = saving[o] \ {s}
      BY <3>1 DEF SavingBecomes
    <3>4. CASE BeingSaved(o, f) => BeingSaved(o, f)'
      BY <3>2, <3>4, UntouchedStaysSound DEF Untouched
    <3>5. CASE BeingSaved(o, f) /\ ~BeingSaved(o, f)'
      <4>1. FileOf(s.answer) = f /\ \A v \in saving[o] : v # s => FileOf(v.answer) # f
        BY <3>3, <3>5 DEF BeingSaved
      <4>2. OneRelay(o, f)' => OneRelay(o, f)
        BY <3>2 DEF OneRelay
      <4>3. OneRelay(o, f) => AuditPasses(o, f)
        BY <3>1, <4>1, LastRowIsSound
      <4>4. AuditPasses(o, f) => AuditPasses(o, f)'
        BY <3>2 DEF AuditPasses, CustodyCheck
      <4>5. QED
        BY <4>2, <4>3, <4>4 DEF Sound
    <3>6. QED
      BY <3>4, <3>5
  <2>6. CASE OriginCrash(o)
    <3>1. UNCHANGED <<answered, packet, sidecar>> /\ ~BeingSaved(o, f)
      BY <2>6 DEF OriginCrash, network
    <3>2. QED
      BY <3>1, UntouchedStaysSound DEF Untouched
  <2>7. CASE ~(\E p \in Origins :
                 \/ CollectReply(p) \/ WritePacket(p) \/ OpenSidecar(p)
                 \/ NameRelay(p) \/ EmitRow(p) \/ OriginCrash(p))
    <3>1. UNCHANGED <<packet, sidecar, saving>>
      BY <2>7
      DEF Next, vars, originVars, relayVars, network, Stored, Purged, Answering,
          AcceptRequest, FindEntry, Refuse, Attest, Compose, AnswerRaises,
          SendReply, RelayCrash, AskCustody, CallReturns, CallTimesOut, Tick
    <3>2. answered \subseteq answered'
      BY <2>7
      DEF Next, vars, originVars, relayVars, network, Stored, Purged, Answering,
          AcceptRequest, FindEntry, Refuse, Attest, Compose, AnswerRaises,
          SendReply, RelayCrash, AskCustody, CallReturns, CallTimesOut, Tick
    <3>3. QED
      BY <2>1, <3>1, <3>2
  <2>8. QED
    BY <2>2, <2>3, <2>4, <2>5, <2>6, <2>7
<1>2. QED
  BY <1>1, Invariance, ExchangeInvariance, PTL DEF Spec, OneRelayRechecks

-----------------------------------------------------------------------------
(* The refinement.  What an origin has of a message is the attestation     *)
(* that is whole in its custody file; a refusal goes to another file.      *)
Kept(o, t) == ProofsIn(Whole(packet[o][<<t, "custody">>]))

KeptNow == [p \in Origins \X Tids |-> Kept(p[1], p[2])]

AbstractStep == [P!Next]_(P!vars)

LEMMA ProofsOfOne ==
  ASSUME NEW m
  PROVE  /\ m.kind = "custody" => ProofsIn({m}) = {Proof(m)}
         /\ m.kind # "custody" => ProofsIn({m}) = {}
BY DEF ProofsIn

LEMMA ProofsOfMore ==
  ASSUME NEW S, NEW T
  PROVE  ProofsIn(S \cup T) = ProofsIn(S) \cup ProofsIn(T)
BY DEF ProofsIn

LEMMA Invisible ==
  ASSUME UNCHANGED <<asked, held, answered, packet>>
  PROVE  AbstractStep
BY DEF AbstractStep, P!vars, ProofsIn, Proof

(* A reply leaves a relay: an attestation made, or a refusal, which the    *)
(* abstract specification does not see.                                    *)
LEMMA SendReplyAbstract ==
  ASSUME IInv, Exchange, NEW r \in Relays, SendReply(r)
  PROVE  AbstractStep
<1>1. UNCHANGED <<asked, held, packet>>
  BY DEF SendReply, originVars
<1>2. PICK w, m : /\ w \in working[r] /\ w.reply = {m} /\ m.request = w.request
                  /\ answered' = answered \cup {m}
  <2>1. PICK w \in working[r] : w.reply # {} /\ answered' = answered \cup w.reply
    BY DEF SendReply
  <2>2. PICK m \in w.reply : TRUE
    BY <2>1
  <2>3. w.reply = {m} /\ m.request = w.request
    BY DEF Exchange, Asking
  <2>4. QED
    BY <2>1, <2>3
<1>3. m.request \in asked /\ Truthful(m)
  BY <1>2 DEF Exchange, Asking, IInv, Truth
<1>4. ProofsIn(answered') = ProofsIn(answered) \cup ProofsIn({m})
  BY <1>2, ProofsOfMore
<1>5. KeptNow' = KeptNow
  BY <1>1 DEF KeptNow, Kept, ProofsIn, Proof
<1>6. CASE m.kind = "custody"
  <2>1. PICK a : a = Proof(m)
    OBVIOUS
  <2>2. ProofsIn(answered') = ProofsIn(answered) \cup {a}
    BY <1>4, <1>6, <2>1, ProofsOfOne
  <2>3. /\ a.question \in asked /\ a.since # {}
        /\ \A x \in a.since : <<a.question.relay, a.question.tid, x>> \in held
    BY <1>3, <1>6, <2>1 DEF Proof, Truthful
  <2>4. P!Attest(a) /\ a \in ProofsIn(answered')
    BY <1>1, <1>5, <2>2, <2>3 DEF P!Attest, KeptNow, Kept
  <2>5. QED
    BY <2>4 DEF AbstractStep, P!Next
<1>7. CASE m.kind # "custody"
  <2>1. ProofsIn(answered') = ProofsIn(answered)
    BY <1>4, <1>7, ProofsOfOne
  <2>2. QED
    BY <1>1, <1>5, <2>1 DEF AbstractStep, P!vars, KeptNow, Kept
<1>8. QED
  BY <1>6, <1>7

(* A custody file of an origin is written, and nothing else shows.         *)
LEMMA KeptBecomes ==
  ASSUME NEW o \in Origins, NEW t \in Tids, NEW file,
         PacketBecomes(o, <<t, "custody">>, file)
  PROVE  KeptNow' = [KeptNow EXCEPT ![<<o, t>>] = ProofsIn(Whole(file))]
<1>1. \A u \in Tids : <<u, "custody">> \in Files
  BY DEF Files, Kinds
<1>2. PICK k : k = KeptNow
  OBVIOUS
<1>3. PICK c : c = ProofsIn(Whole(file))
  OBVIOUS
<1>4. ASSUME NEW p \in Origins \X Tids
      PROVE  KeptNow'[p] = IF p = <<o, t>> THEN c ELSE k[p]
  <2>1. p[1] \in Origins /\ p[2] \in Tids /\ p = <<p[1], p[2]>>
    OBVIOUS
  <2>2. CASE p = <<o, t>>
    <3>1. packet'[p[1]][<<p[2], "custody">>] = file
      BY <2>2 DEF PacketBecomes
    <3>2. QED
      BY <1>3, <2>2, <3>1 DEF KeptNow, Kept
  <2>3. CASE p # <<o, t>>
    <3>1. p[1] # o \/ <<p[2], "custody">> # <<t, "custody">>
      BY <2>1, <2>3
    <3>2. packet'[p[1]][<<p[2], "custody">>] = packet[p[1]][<<p[2], "custody">>]
      BY <1>1, <2>1, <3>1 DEF PacketBecomes
    <3>3. QED
      BY <1>2, <2>3, <3>2 DEF KeptNow, Kept
  <2>4. QED
    BY <2>2, <2>3
<1>5. DOMAIN k = Origins \X Tids
  BY <1>2 DEF KeptNow
<1>6. KeptNow' = [p \in Origins \X Tids |-> KeptNow'[p]]
  BY DEF KeptNow
<1>7. KeptNow' = [k EXCEPT ![<<o, t>>] = c]
  BY <1>4, <1>5, <1>6
<1>8. QED
  BY <1>2, <1>3, <1>7

LEMMA RefusalsDoNotShow ==
  ASSUME NEW o \in Origins, NEW t \in Tids, NEW file,
         PacketBecomes(o, <<t, "custody_refusal">>, file)
  PROVE  KeptNow' = KeptNow
<1>1. ASSUME NEW p \in Origins, NEW u \in Tids
      PROVE  packet'[p][<<u, "custody">>] = packet[p][<<u, "custody">>]
  <2>1. <<u, "custody">> \in Files /\ <<u, "custody">> # <<t, "custody_refusal">>
    BY DEF Files, Kinds
  <2>2. QED
    BY <2>1 DEF PacketBecomes
<1>2. QED
  BY <1>1 DEF KeptNow, Kept

LEMMA ProofDetermines ==
  ASSUME NEW m \in Reply, NEW n \in Reply, m.kind = n.kind, Proof(m) = Proof(n)
  PROVE  m = n
<1>1. Proof(m).question = m.request /\ Proof(m).since = m.received
  BY DEF Proof
<1>2. Proof(n).question = n.request /\ Proof(n).since = n.received
  BY DEF Proof
<1>3. m.request = n.request /\ m.received = n.received
  BY <1>1, <1>2
<1>4. QED
  BY <1>3 DEF Reply

(* In the place of n, which was attested, there is now n, or there is no   *)
(* whole packet: then n is coming, or the other one was lost to it.        *)
LEMMA PlaceStep ==
  ASSUME IInv, Exchange, UNCHANGED <<asked, held, answered>>,
         NEW o \in Origins, NEW t \in Tids, NEW n \in answered,
         n.kind = "custody", n.request.origin = o, n.request.tid = t,
         NEW f \in Files, f = <<t, "custody">>,
         NEW file, PacketBecomes(o, f, file),
         \/ file.bytes = {} /\ n \notin packet[o][f].bytes
         \/ file.bytes = {n}
         \/ file.bytes = packet[o][f].bytes \cup {n}
  PROVE  AbstractStep
<1>1. PICK b : b = Proof(n)
  OBVIOUS
<1>2. /\ b \in ProofsIn(answered) /\ b.question.origin = o /\ b.question.tid = t
      /\ ProofsIn(answered') = ProofsIn(answered)
  BY <1>1 DEF ProofsIn, Proof
<1>3. KeptNow' = [KeptNow EXCEPT ![<<o, t>>] = ProofsIn(Whole(file))]
  BY KeptBecomes
<1>4. CASE file.bytes = {n}
  <2>1. Whole(file) = {n}
    BY <1>4 DEF Whole
  <2>2. KeptNow' = [KeptNow EXCEPT ![<<o, t>>] = {b}]
    BY <1>1, <1>3, <2>1, ProofsOfOne
  <2>3. P!Keep(b)
    BY <1>2, <2>2 DEF P!Keep, KeptNow, Kept
  <2>4. QED
    BY <1>2, <2>3 DEF AbstractStep, P!Next
<1>5. CASE file.bytes # {n}
  <2>1. Whole(file) = {}
    BY <1>5 DEF Whole
  <2>2. KeptNow' = [KeptNow EXCEPT ![<<o, t>>] = {}]
    <3>1. ProofsIn({}) = {}
      BY DEF ProofsIn
    <3>2. QED
      BY <1>3, <2>1, <3>1
  <2>3. <<o, t>> \in Origins \X Tids /\ KeptNow[<<o, t>>] = ProofsIn(Whole(packet[o][f]))
    BY DEF KeptNow, Kept
  <2>4. CASE Whole(packet[o][f]) = {}
    <3>1. KeptNow[<<o, t>>] = {}
      BY <2>3, <2>4 DEF ProofsIn
    <3>2. KeptNow' = KeptNow
      <4>1. PICK k : k = KeptNow
        OBVIOUS
      <4>2. k = [p \in Origins \X Tids |-> k[p]] /\ k[<<o, t>>] = {}
        BY <3>1, <4>1 DEF KeptNow
      <4>3. KeptNow' = [k EXCEPT ![<<o, t>>] = {}]
        BY <2>2, <4>1
      <4>4. QED
        BY <2>3, <4>1, <4>2, <4>3
    <3>3. QED
      BY <1>2, <3>2 DEF AbstractStep, P!vars, KeptNow, Kept
  <2>5. CASE Whole(packet[o][f]) # {}
    <3>1. PICK m : m \in Whole(packet[o][f])
      BY <2>5
    <3>2. packet[o][f].bytes = {m} /\ Whole(packet[o][f]) = {m}
      BY <3>1 DEF Whole
    <3>3. m # n
      BY <1>5, <3>2
    <3>4. m \in answered /\ m.request.origin = o /\ FileOf(m) = f
      BY <3>2 DEF IInv, Evidence, Exchange, Collecting
    <3>5. m.kind = "custody" /\ m.request.tid = t
      BY <3>4 DEF FileOf
    <3>6. PICK a : a = Proof(m)
      OBVIOUS
    <3>7. a # b
      <4>1. m \in Reply /\ n \in Reply
        BY <3>4 DEF IInv, TypeOK
      <4>2. QED
        BY <1>1, <3>3, <3>5, <3>6, <4>1, ProofDetermines
    <3>8. /\ a \in ProofsIn(answered)
          /\ a.question.origin = o /\ a.question.tid = t
      BY <3>4, <3>5, <3>6 DEF ProofsIn, Proof
    <3>9. KeptNow[<<o, t>>] = {a}
      BY <2>3, <3>2, <3>5, <3>6, ProofsOfOne
    <3>10. P!GiveUp(a, b)
      BY <1>2, <2>2, <3>7, <3>8, <3>9 DEF P!GiveUp, KeptNow, Kept
    <3>11. QED
      BY <1>2, <3>8, <3>10 DEF AbstractStep, P!Next
  <2>6. QED
    BY <2>4, <2>5
<1>6. QED
  BY <1>4, <1>5

(* Writing an answer into its file, whichever file that is.                *)
LEMMA AnswerSavedAbstract ==
  ASSUME IInv, Exchange, UNCHANGED <<asked, held, answered>>,
         NEW o \in Origins, NEW n \in answered, n.request.origin = o,
         NEW file, PacketBecomes(o, FileOf(n), file),
         \/ file.bytes = {} /\ n \notin taken
         \/ file.bytes = {n}
         \/ file.bytes = packet[o][FileOf(n)].bytes \cup {n}
  PROVE  AbstractStep
<1>1. n \in Reply
  BY DEF IInv, TypeOK
<1>2. PICK t \in Tids : t = n.request.tid /\ FileOf(n) = <<t, n.kind>>
  BY <1>1, ReplyTyped
<1>3. PICK f \in Files : f = FileOf(n)
  BY <1>1, ReplyTyped
<1>4. n.kind \in Kinds
  BY <1>1, ReplyTyped
<1>5. CASE n.kind = "custody"
  <2>1. \A m \in packet[o][f].bytes : m \in taken
    BY DEF Exchange, Collecting
  <2>2. QED
    BY <1>2, <1>3, <1>5, <2>1, PlaceStep
<1>6. CASE n.kind = "custody_refusal"
  <2>1. KeptNow' = KeptNow
    BY <1>2, <1>6, RefusalsDoNotShow
  <2>2. ProofsIn(answered') = ProofsIn(answered)
    OBVIOUS
  <2>3. QED
    BY <2>1, <2>2 DEF AbstractStep, P!vars, KeptNow, Kept
<1>7. QED
  BY <1>4, <1>5, <1>6 DEF Kinds

LEMMA SavingAbstract ==
  ASSUME IInv, Exchange, [Next]_vars,
         \E o \in Origins : CollectReply(o) \/ WritePacket(o)
  PROVE  AbstractStep
<1>1. UNCHANGED <<asked, held, answered>>
  BY DEF CollectReply, WritePacket, relayVars, network
<1>2. CASE packet' = packet
  BY <1>1, <1>2, Invisible
<1>3. CASE \E o \in Origins, n \in answered : Opened(o, n)
  <2>1. PICK o \in Origins, n \in answered : Opened(o, n)
    BY <1>3
  <2>2. Emptied.bytes = {}
    BY DEF Emptied
  <2>3. QED
    BY <1>1, <2>1, <2>2, AnswerSavedAbstract DEF Opened
<1>4. CASE \E o \in Origins, n \in answered : \E file : Filled(o, n, file)
  <2>1. PICK o, n, file : o \in Origins /\ n \in answered /\ Filled(o, n, file)
    BY <1>4
  <2>2. n \in Reply
    BY <2>1 DEF IInv, TypeOK
  <2>3. PICK f \in Files : f = FileOf(n)
    BY <2>2, ReplyTyped
  <2>4. file \in Written(packet[o][f], n)
    BY <2>1, <2>3 DEF Filled
  <2>5. file.bytes = {n} \/ file.bytes = packet[o][f].bytes \cup {n}
    BY <2>1, <2>2, <2>4, WrittenBytes
  <2>6. QED
    BY <1>1, <2>1, <2>3, <2>5, AnswerSavedAbstract DEF Filled
<1>5. QED
  BY <1>2, <1>3, <1>4, PacketStep

LEMMA NextAbstract == IInv /\ Exchange /\ [Next]_vars => AbstractStep
<1> SUFFICES ASSUME IInv, Exchange, [Next]_vars PROVE AbstractStep
  OBVIOUS
<1>1. CASE \E r \in Relays, t \in Tids : Stored(r, t)
  <2>1. PICK h : held' = held \cup {h}
    BY <1>1 DEF Stored
  <2>2. UNCHANGED <<asked, answered, packet>>
    BY <1>1 DEF Stored, originVars, network
  <2>3. KeptNow' = KeptNow /\ ProofsIn(answered') = ProofsIn(answered)
    BY <2>2 DEF KeptNow, Kept, ProofsIn, Proof
  <2>4. P!Hold(h) /\ h \in held'
    BY <2>1, <2>2, <2>3 DEF P!Hold, KeptNow, Kept
  <2>5. QED
    BY <2>4 DEF AbstractStep, P!Next
<1>2. CASE \E o \in Origins, r \in Relays, t \in Tids : AskCustody(o, r, t)
  <2>1. PICK q : asked' = asked \cup {q}
    BY <1>2 DEF AskCustody
  <2>2. UNCHANGED <<held, answered, packet>>
    BY <1>2 DEF AskCustody, relayVars
  <2>3. KeptNow' = KeptNow /\ ProofsIn(answered') = ProofsIn(answered)
    BY <2>2 DEF KeptNow, Kept, ProofsIn, Proof
  <2>4. P!Ask(q) /\ q \in asked'
    BY <2>1, <2>2, <2>3 DEF P!Ask, KeptNow, Kept
  <2>5. QED
    BY <2>4 DEF AbstractStep, P!Next
<1>3. CASE \E r \in Relays : SendReply(r)
  BY <1>3, SendReplyAbstract
<1>4. CASE \E o \in Origins : CollectReply(o) \/ WritePacket(o)
  BY <1>4, SavingAbstract
<1>5. CASE /\ ~\E r \in Relays, t \in Tids : Stored(r, t)
           /\ ~\E o \in Origins, r \in Relays, t \in Tids : AskCustody(o, r, t)
           /\ ~\E r \in Relays : SendReply(r)
           /\ ~\E o \in Origins : CollectReply(o) \/ WritePacket(o)
  <2>1. UNCHANGED <<asked, held, answered, packet>>
    BY <1>5
    DEF Next, vars, originVars, relayVars, network, Purged, Answering,
        AcceptRequest, FindEntry, Refuse, Attest, Compose, AnswerRaises,
        RelayCrash, CallReturns, CallTimesOut, OpenSidecar, NameRelay, EmitRow,
        OriginCrash, Tick
  <2>2. QED
    BY <2>1, Invisible
<1>6. QED
  BY <1>1, <1>2, <1>3, <1>4, <1>5

(* Relays and origins implement ProofOfEntry: what is kept was attested,   *)
(* what was attested was asked for and held, and what is kept is given up  *)
(* only where another proof about the same message was made.               *)
THEOREM ProofOfEntryIsImplemented == Spec => ImplementsProofOfEntry
<1>1. Init => P!Init
  <2> SUFFICES ASSUME Init PROVE P!Init
    OBVIOUS
  <2>1. ProofsIn({}) = {}
    BY DEF ProofsIn
  <2>2. \A o \in Origins, t \in Tids : Whole(packet[o][<<t, "custody">>]) = {}
    BY DEF Init, Files, Kinds, NoFile, Whole
  <2>3. QED
    BY <2>1, <2>2 DEF Init, P!Init
<1>2. IInv /\ Exchange /\ [Next]_vars => [P!Next]_(P!vars)
  BY NextAbstract DEF AbstractStep
<1>3. QED
  BY <1>1, <1>2, Invariance, ExchangeInvariance, PTL
     DEF Spec, ImplementsProofOfEntry, P!Spec
=============================================================================
