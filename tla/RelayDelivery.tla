--------------------------- MODULE RelayDelivery ---------------------------
(***************************************************************************)
(* Delivery through relays, end to end (node.py, handlers.py, cli.py): an  *)
(* origin leaves objects with relays; a recipient, whose directory is that *)
(* of Receiver, fetches them and publishes receipts; the origin comes back *)
(* and collects those.  No two of them need ever run at the same time, and *)
(* each may end at any point and start again on its directory.             *)
(*                                                                         *)
(* External: the relays' propagation stores, and the LXMF router of a node *)
(* with the queue it keeps in memory.  The router looks up the relay to    *)
(* send to when it gets to a message, not when the message is queued.  A   *)
(* relay need never hand over what it holds, so one that discards it takes *)
(* no step of its own.                                                     *)
(*                                                                         *)
(* A mail is an LXMF message: only its source can have signed it.          *)
(***************************************************************************)
EXTENDS Reassembly

CONSTANTS Origin,       \* the origin followed here, one of Sources
          Recipient,    \* the recipient whose directory is Receiver's
          Others,       \* other recipients
          Relays,
          Faithful,     \* the relays that keep what they took
          Labels,       \* labels callers give to send
          Errands,      \* what the callers of send at Origin ask it to send
          OtherMail,    \* what other origins have left with the relays, and
                        \* the other recipients have taken
          Contacts      \* whom the callers of publish_receipt send it to

Recipients == {Recipient} \cup Others

Data(to, p) == [kind |-> "data", from |-> p.source, to |-> to, body |-> p]
Proof(from, to, r) == [kind |-> "receipt", from |-> from, to |-> to, body |-> r]

DataMail  == {Data(to, p) : to \in Recipients, p \in Parts}
ProofMail == [kind : {"receipt"}, from : Recipients, to : Sources, body : Receipt]
Mail      == DataMail \cup ProofMail

ASSUME RelayAssumption ==
  /\ Origin \in Sources /\ Recipient \notin Others /\ Origin \notin Recipients
  /\ Faithful \subseteq Relays
  /\ Errands \subseteq [to : Recipients, part : {p \in Parts : p.source = Origin}]
  /\ Contacts \subseteq Sources
  /\ OtherMail \subseteq {m \in DataMail : m.from # Origin}

Nodes == {Origin, Recipient}

(* A call of send, from its first step to the row it waits for. *)
Call == [mail : DataMail, via : Relays, label : Labels,
         phase : {"remember", "path", "wait"}]

VARIABLES
  stored,      \* by relay: the mail it holds (durable)
  via,         \* by node: the router's outbound propagation node, if set
  queue,       \* by node: mail the router has still to hand to a relay
  asked,       \* by node: the relays this process asked for its mail
  up,          \* the origin's process runs
  recipients,  \* node.recipients
  saved,       \* recipients.json (durable), and whether it is all there
  receipts,    \* receipts/<id>.lxmf, by id (durable)
  keeping,     \* receipts whose file this process has open
  calling,     \* the call of send in progress, if any
  rows,        \* of the record: the first handoff row of each label
  returned,    \* what the last call of send returned, if it did
  others,      \* parts that the other recipients took
  entered      \* history: all mail that a relay ever took

network == <<stored, entered>>
routers == <<via, queue, asked>>
memory  == <<up, recipients, calling, rows, returned>>
kept    == <<receipts, keeping>>
allVars == <<vars, network, routers, memory, saved, kept, others>>

RelayTypeOK ==
  /\ TypeOK
  /\ stored \in [Relays -> SUBSET Mail] /\ entered \subseteq Mail
  /\ via \in [Nodes -> SUBSET Relays] /\ asked \in [Nodes -> SUBSET Relays]
  /\ DOMAIN queue = Nodes
  /\ queue[Origin] \subseteq [mail : DataMail, label : Labels]
  /\ queue[Recipient] \subseteq [mail : ProofMail, label : {"receipt"}]
  /\ up \in BOOLEAN
  /\ recipients \subseteq Recipients
  /\ saved \in [whole : BOOLEAN, who : SUBSET Recipients]
  /\ receipts \in [Ids -> File(ProofMail)]
  /\ keeping \subseteq ProofMail
  /\ calling \subseteq Call
  /\ rows \subseteq [mail : DataMail, label : Labels]
  /\ returned \subseteq [sent : DataMail, row : DataMail]
  /\ others \subseteq Others \X Parts

RelayInit ==
  /\ Init
  /\ stored = [r \in Relays |-> OtherMail] /\ entered = OtherMail
  /\ via = [n \in Nodes |-> {}] /\ queue = [n \in Nodes |-> {}]
  /\ asked = [n \in Nodes |-> {}]
  /\ up = TRUE /\ recipients = {} /\ saved = [whole |-> TRUE, who |-> {}]
  /\ receipts = [i \in Ids |-> NoFile] /\ keeping = {}
  /\ calling = {} /\ rows = {} /\ returned = {}
  /\ others = {<<m.to, m.body>> : m \in {m \in OtherMail : m.to \in Others}}

-----------------------------------------------------------------------------
(* The origin sends.                                                       *)

(* Mutant: remember_recipient replaces the file's contents with the last. *)
RememberLast ==
  /\ \E c \in calling :
       /\ c.phase = "remember"
       /\ saved' = [whole |-> TRUE, who |-> {c.mail.to}]
       /\ calling' = {[c EXCEPT !.phase = "path"]}
  /\ UNCHANGED <<vars, network, routers, up, recipients, rows, returned,
                 kept, others>>

(* Node.send begins with remember_recipient, which adds to the memory and  *)
(* opens recipients.json, emptying it.                                     *)
Send(e, r, l) ==
  /\ up /\ calling = {}
  /\ recipients' = recipients \cup {e.to}
  /\ saved' = [whole |-> FALSE, who |-> {}]
  /\ calling' = {[mail |-> Data(e.to, e.part), via |-> r, label |-> l,
                  phase |-> "remember"]}
  /\ returned' = {}
  /\ UNCHANGED <<vars, network, routers, up, rows, kept, others>>

Remember ==
  /\ \E c \in calling :
       /\ c.phase = "remember"
       /\ saved' = [whole |-> TRUE, who |-> recipients]
       /\ calling' = {[c EXCEPT !.phase = "path"]}
  /\ UNCHANGED <<vars, network, routers, up, recipients, rows, returned,
                 kept, others>>

(* await_path raises. *)
NoPath ==
  /\ \E c \in calling : c.phase = "path" /\ calling' = {}
  /\ UNCHANGED <<vars, network, routers, up, recipients, rows, returned,
                 saved, kept, others>>

(* wait_for returns the first row with the label, whoever caused it.       *)
Returns(c, row) ==
  /\ row.label = c.label
  /\ calling' = {}
  /\ returned' = {[sent |-> c.mail, row |-> row.mail]}

(* The message goes to the router, and the wait looks at the rows that are *)
(* there already before it sleeps.                                         *)
HandOver ==
  /\ \E c \in calling :
       /\ c.phase = "path"
       /\ via' = [via EXCEPT ![Origin] = {c.via}]
       /\ queue' = [queue EXCEPT ![Origin] =
                      @ \cup {[mail |-> c.mail, label |-> c.label]}]
       /\ \/ \E row \in rows : Returns(c, row)
          \/ /\ \A row \in rows : row.label # c.label
             /\ calling' = {[c EXCEPT !.phase = "wait"]}
             /\ UNCHANGED returned
  /\ UNCHANGED <<vars, network, asked, up, recipients, rows, saved, kept,
                 others>>

SendReturns ==
  /\ \E c \in calling : c.phase = "wait" /\ \E row \in rows : Returns(c, row)
  /\ UNCHANGED <<vars, network, routers, up, recipients, rows, saved,
                 kept, others>>

(* A row that arrives as the wait ends is not seen. *)
SendTimesOut ==
  /\ \E c \in calling : c.phase = "wait" /\ calling' = {}
  /\ UNCHANGED <<vars, network, routers, up, recipients, rows, returned,
                 saved, kept, others>>

-----------------------------------------------------------------------------
(* Routers and relays.                                                     *)

(* Mutant: the handoff is recorded when the message is tried. *)
HandsOffEarly(n, known) ==
  \E q \in queue[n], r \in via[n] :
    /\ rows' = IF n # Origin \/ \E row \in rows : row.label = q.label
               THEN rows ELSE rows \cup {q}
    /\ \/ /\ stored' = [stored EXCEPT ![r] = @ \cup {q.mail}]
          /\ entered' = entered \cup {q.mail}
       \/ UNCHANGED network
    /\ queue' = IF known THEN [queue EXCEPT ![n] = @ \ {q}] ELSE queue
    /\ UNCHANGED <<vars, via, asked, up, recipients, calling, returned, saved,
                   kept, others>>

(* The router hands a message to the relay that is set now.  It may not    *)
(* learn of it (`known`), and then tries again.  The delivery callback     *)
(* records the handoff; a later row with its label is never looked at, nor *)
(* is any of the recipient's that matters here.                            *)
HandsOff(n, known) ==
  \E q \in queue[n], r \in via[n] :
    /\ stored' = [stored EXCEPT ![r] = @ \cup {q.mail}]
    /\ entered' = entered \cup {q.mail}
    /\ queue' = IF known THEN [queue EXCEPT ![n] = @ \ {q}] ELSE queue
    /\ rows' = IF known /\ n = Origin /\ \A row \in rows : row.label # q.label
               THEN rows \cup {q} ELSE rows
    /\ UNCHANGED <<vars, via, asked, up, recipients, calling, returned, saved,
                   kept, others>>

(* It gives up: send_failed, for which nobody waits. *)
RouterFails(n) ==
  /\ \E q \in queue[n] : queue' = [queue EXCEPT ![n] = @ \ {q}]
  /\ UNCHANGED <<vars, network, via, asked, memory, saved, kept, others>>

-----------------------------------------------------------------------------
(* The recipients.                                                         *)

(* Node._ask: it also sets the router's relay. *)
Ask(n, r) ==
  /\ via' = [via EXCEPT ![n] = {r}]
  /\ asked' = [asked EXCEPT ![n] = @ \cup {r}]

Offered(n, m) == \E r \in asked[n] : m \in stored[r]

Fetch(r) ==
  /\ FetchBegins
  /\ Ask(Recipient, r)
  /\ UNCHANGED <<network, queue, memory, saved, kept, others>>

(* What a relay hands over goes to Receiver.receive, on the router's       *)
(* threads, as long as the process lives.                                  *)
Deliver(p) ==
  /\ Offered(Recipient, Data(Recipient, p))
  /\ Receive(p)
  /\ UNCHANGED <<network, routers, memory, saved, kept, others>>

Inside(step) ==
  step /\ UNCHANGED <<network, routers, memory, saved, kept, others>>

(* publish_receipt sends what completion.json holds to the contact it is   *)
(* given; it raises where that is not there, or is no JSON.  The cli calls *)
(* it when fetch has returned.                                             *)
Publish(to, r) ==
  /\ fetch = "returned" /\ Whole(envelope) # {}
  /\ via' = [via EXCEPT ![Recipient] = {r}]
  /\ queue' = [queue EXCEPT ![Recipient] = @ \cup
                 {[mail |-> Proof(Recipient, to, e), label |-> "receipt"] :
                    e \in Whole(envelope)}]
  /\ UNCHANGED <<vars, network, asked, memory, saved, kept, others>>

RecipientCrash ==
  /\ Crash
  /\ via' = [via EXCEPT ![Recipient] = {}]
  /\ queue' = [queue EXCEPT ![Recipient] = {}]
  /\ asked' = [asked EXCEPT ![Recipient] = {}]
  /\ UNCHANGED <<network, memory, saved, kept, others>>

(* The other recipients run the same code, seen from outside: they take    *)
(* parts, and publish a receipt for what these make up.                    *)
OtherTakes(o, p) ==
  /\ clock < p.expires
  /\ \E r \in Relays : Data(o, p) \in stored[r]
  /\ others' = others \cup {<<o, p>>}
  /\ UNCHANGED <<vars, network, routers, memory, saved, kept>>

(* The chunks that o has of the object p is a part of. *)
HasOf(o, p) == {q.index : q \in {q \in Parts : /\ <<o, q>> \in others
                                               /\ KeyOf(q) = KeyOf(p)
                                               /\ q.manifest = p.manifest}}

OtherPublishes(o, p, to, r) ==
  /\ <<o, p>> \in others
  /\ Enough(p.manifest, HasOf(o, p))
  /\ stored' = [stored EXCEPT ![r] = @ \cup {Proof(o, to, ReceiptFor(p))}]
  /\ entered' = entered \cup {Proof(o, to, ReceiptFor(p))}
  /\ UNCHANGED <<vars, routers, memory, saved, kept, others>>

-----------------------------------------------------------------------------
(* The origin comes back.                                                  *)

(* Node.collect asks; it returns on a new file or on its timeout, with     *)
(* what is in receipts/ either way.                                        *)
Collect(r) ==
  /\ up /\ calling = {}
  /\ Ask(Origin, r)
  /\ UNCHANGED <<vars, network, queue, memory, saved, kept, others>>

(* authenticate: addressed to this node, signed by the key of `signer`,    *)
(* not past its deadline, and made out to the node it is addressed to.     *)
Authenticates(m, signer, now) ==
  /\ m.to = Origin /\ m.from = signer
  /\ now < m.body.expires
  /\ m.body.destination = Origin

(* Mutant: the endpoints of the envelope are not compared with the packet's. *)
CollectReceiptOfAny(m) ==
  /\ up
  /\ m.kind = "receipt" /\ m.to = Origin
  /\ m.from \in recipients /\ clock < m.body.expires
  /\ Offered(Origin, m)
  /\ receipts' = [receipts EXCEPT ![m.body.id] = Emptied]
  /\ keeping' = keeping \cup {m}
  /\ UNCHANGED <<vars, network, routers, memory, saved, others>>

(* Mutant: the file is named after the content. *)
CollectReceiptByDigest(m) ==
  /\ up /\ Offered(Origin, m)
  /\ m.kind = "receipt"
  /\ \E key \in recipients : Authenticates(m, key, clock)
  /\ receipts' = [i \in Ids \cup {m.body.digest} |->
                    IF i = m.body.digest THEN Emptied ELSE receipts[i]]
  /\ keeping' = keeping \cup {m}
  /\ UNCHANGED <<vars, network, routers, memory, saved, others>>

(* Mutant: the file is opened before the receipt is authenticated. *)
CollectReceiptOpening(m) ==
  /\ up /\ Offered(Origin, m)
  /\ m.kind = "receipt"
  /\ receipts' = [receipts EXCEPT ![m.body.id] = Emptied]
  /\ keeping' = IF \E key \in recipients : Authenticates(m, key, clock)
                THEN keeping \cup {m} ELSE keeping
  /\ UNCHANGED <<vars, network, routers, memory, saved, others>>

(* collect_receipt: from a recipient the node remembers; the file is named *)
(* after the id of the object alone, opened...                             *)
CollectReceipt(m) ==
  /\ up /\ Offered(Origin, m)
  /\ m.kind = "receipt"
  /\ \E key \in recipients : Authenticates(m, key, clock)
  /\ receipts' = [receipts EXCEPT ![m.body.id] = Emptied]
  /\ keeping' = keeping \cup {m}
  /\ UNCHANGED <<vars, network, routers, memory, saved, others>>

(* ...and written. *)
KeepReceipt ==
  /\ \E m \in keeping :
       /\ \E file \in Written(receipts[m.body.id], m) :
            receipts' = [receipts EXCEPT ![m.body.id] = file]
       /\ keeping' = keeping \ {m}
  /\ UNCHANGED <<vars, network, routers, memory, saved, others>>

(* Mutant: the recipients are known to the process that sent to them only. *)
OriginCrashForgets ==
  /\ up' = TRUE /\ recipients' = {}
  /\ calling' = {} /\ rows' = {} /\ returned' = {}
  /\ via' = [via EXCEPT ![Origin] = {}]
  /\ queue' = [queue EXCEPT ![Origin] = {}]
  /\ asked' = [asked EXCEPT ![Origin] = {}]
  /\ keeping' = {}
  /\ UNCHANGED <<vars, network, saved, receipts, others>>

(* The process ends, at any point, and another is started on the directory *)
(* with load_recipients, which raises when the file was not written whole. *)
OriginCrash ==
  /\ up' = saved.whole
  /\ recipients' = saved.who
  /\ calling' = {} /\ rows' = {} /\ returned' = {}
  /\ via' = [via EXCEPT ![Origin] = {}]
  /\ queue' = [queue EXCEPT ![Origin] = {}]
  /\ asked' = [asked EXCEPT ![Origin] = {}]
  /\ keeping' = {}
  /\ UNCHANGED <<vars, network, saved, receipts, others>>

RelayNext ==
  \/ \E e \in Errands, r \in Relays, l \in Labels : Send(e, r, l)
  \/ Remember \/ NoPath \/ HandOver \/ SendReturns \/ SendTimesOut
  \/ \E n \in Nodes : \/ \E known \in BOOLEAN : HandsOff(n, known)
                      \/ RouterFails(n)
  \/ \E r \in Relays : Fetch(r) \/ Collect(r)
  \/ \E p \in Parts : Deliver(p)
  \/ Inside(ReadContent) \/ Inside(OpenOutput) \/ Inside(WriteOutput)
  \/ Inside(OpenEnvelope) \/ Inside(WriteEnvelope)
  \/ Inside(FetchReturns) \/ Inside(FetchTimesOut)
  \/ \E to \in Contacts, r \in Relays : Publish(to, r)
  \/ \E o \in Others, p \in Parts :
       \/ OtherTakes(o, p)
       \/ \E to \in Contacts, r \in Relays : OtherPublishes(o, p, to, r)
  \/ \E r \in Relays : \E m \in stored[r] : CollectReceipt(m)
  \/ KeepReceipt
  \/ RecipientCrash \/ OriginCrash \/ Inside(Tick)

RelaySpec == RelayInit /\ [][RelayNext]_allVars

-----------------------------------------------------------------------------
(* Who keeps trying.  Sessions may be cut short any number of times, so    *)
(* this is strong fairness: a step that is possible again and again is     *)
(* taken at some time.                                                     *)
(* A call ends: each of its waits has a deadline. *)
CallStep == Remember \/ NoPath \/ HandOver \/ SendReturns \/ SendTimesOut

(* The origin comes back to the faithful relays, and in some session stays *)
(* long enough to be handed what they have for it and to write it.         *)
OriginReturns ==
  /\ WF_allVars(CallStep)
  /\ \A r \in Faithful : SF_allVars(Collect(r))
  /\ SF_allVars(\E r \in Faithful : \E m \in stored[r] : CollectReceipt(m))
  /\ SF_allVars(KeepReceipt)

(* A delivery has content to write; if that is so again and again, one of  *)
(* them is at some time seen through to its last file.                     *)
HasToWrite ==
  \E w \in receiving : w.phase # "content" \/ HasContent(db, KeyOf(w.part))

SeenThrough == []<>HasToWrite => []<><<Inside(WriteEnvelope)>>_allVars

(* The recipient fetches from them and publishes to them; its sessions     *)
(* end, and some fetch ends when the receipt is whole.                     *)
RecipientReturns ==
  /\ \A r \in Faithful : SF_allVars(Fetch(r)) /\ SF_allVars(Publish(Origin, r))
  /\ WF_allVars(RecipientCrash)
  /\ \A p \in Parts : SF_allVars(Deliver(p))
  /\ SeenThrough
  /\ SF_allVars(Whole(envelope) # {} /\ Inside(FetchReturns))
  /\ WF_allVars(Inside(FetchTimesOut))
  /\ SF_allVars(via[Recipient] \subseteq Faithful /\ HandsOff(Recipient, TRUE))

RelayFairSpec == RelaySpec /\ OriginReturns /\ RecipientReturns

-----------------------------------------------------------------------------
(* What holds, however the sessions of the nodes fall.                     *)

FromOrigin == {m \in entered : m.kind = "data" /\ m.from = Origin}

(* The origin's own parts of an object that a relay took for `to`. *)
Entered(to, manifest) ==
  {m.body.index : m \in {m \in FromOrigin : m.to = to /\ m.body.manifest = manifest}}

(* "Proof of exit: signed by a recipient this node actually sent to, over  *)
(* these bytes" (audit.py); "no false proof appeared" (V1_RECEIPT_RETURN): *)
(* a receipt with bytes in a file is of an object of which enough parts    *)
(* went in at a relay for the very recipient who signed it, and which came *)
(* out whole there.                                                        *)
KeptReceiptIsProof ==
  \A i \in Ids : \A m \in receipts[i].bytes :
    /\ m.body.id = i /\ m.body.destination = Origin
    /\ m.from = Recipient => Reconstructed(Origin, i, m.body.digest)
    /\ \E manifest \in {p.manifest : p \in Parts} :
         /\ manifest.id = i /\ manifest.digest = m.body.digest
         /\ Enough(manifest, Entered(m.from, manifest))

(* The chunks that recipient n has of the object p is a part of. *)
HeldAt(n, p) ==
  IF n # Recipient THEN HasOf(n, p)
  ELSE {j \in Have(db.parts, KeyOf(p)) : db.objects[KeyOf(p)].manifest = p.manifest}

(* "A receipt over the exact reconstructed bytes" (README), end to end:    *)
(* whoever signed a receipt that the origin keeps has chunks of the        *)
(* origin's own object of that id, all of which a relay took for this very *)
(* recipient, and they make up, byte for byte, the content whose digest    *)
(* the receipt names.                                                      *)
KeptReceiptIsForTheBytes ==
  \A i \in Ids : \A m \in receipts[i].bytes :
    \E p \in Parts :
      LET have == HeldAt(m.from, p) IN
      /\ p.source = Origin /\ p.manifest.id = i
      /\ have \subseteq Entered(m.from, p.manifest)
      /\ Enough(p.manifest, have)
      /\ BytesOf(p.manifest, have) = Content[m.body.digest]

(* "Whom the origin sent to must outlive the origin's process": as long as *)
(* recipients.json is not lost with a process that dies writing it, no     *)
(* process of the origin refuses a receipt of somebody whose object a      *)
(* relay took, now or after the next restart.                              *)
SentToIsRemembered ==
  \A m \in FromOrigin : /\ up => m.to \in recipients
                        /\ saved.whole => m.to \in saved.who

(* audit._receipts over one packet: the first recipient of recipients.json *)
(* whose key it authenticates with, inside its own deadline.               *)
ReceiptCheck(m) ==
  /\ \E d \in saved.who : Authenticates(m, d, m.body.expires - 1)
  /\ m.kind = "receipt"

(* verify_directory passes the file of id i, unless recipients.json or the *)
(* file is not whole because it is being written, or because a shorter     *)
(* receipt went over a longer one while both callbacks had it open.        *)
BeingKept(i) == \E m \in keeping : m.body.id = i

ReceiptSound(i) ==
  \/ ~receipts[i].there \/ BeingKept(i) \/ Cardinality(receipts[i].bytes) > 1
  \/ \E m \in Whole(receipts[i]) : saved.whole => ReceiptCheck(m)

(* It stays so, whoever is sent to, whatever arrives and wherever a        *)
(* process ends, except in the middle of writing this very file.           *)
ReceiptsRecheck ==
  [][\A i \in Ids : ReceiptSound(i) /\ ~(OriginCrash /\ BeingKept(i))
                     => ReceiptSound(i)']_allVars

(* What send returns is the handoff of a message that a relay did take,    *)
(* which custody_of can ask about next.                                    *)
SendNamesAnEntry == \A c \in returned : c.row \in FromOrigin

(* A receipt that is whole in its file gives way only to another one, for  *)
(* the same id, that is being kept there (if the process dies in that, the *)
(* one is lost with the other): no restart, and nothing else that arrives, *)
(* costs the origin a proof.  What a recipient says has left under an id   *)
(* never changes.                                                          *)
ProofOfExitIsStable ==
  [][\A i \in Ids : \A m \in Whole(receipts[i]) :
       m \in Whole(receipts'[i])
         \/ \E n \in keeping \cup keeping' :
              /\ n.body.id = i
              /\ m.from = Recipient /\ n.from = Recipient
                   => n.body.digest = m.body.digest]_allVars

(* Entry and exit: the objects of the origin, at its recipients. *)
ObjectFor(to, id, digest) == [to |-> to, id |-> id, digest |-> digest]

Left ==
  {ObjectFor(Recipient, k[2], db.objects[k].manifest.digest) :
     k \in {k \in Complete(db) : k[1] = Origin}}
  \cup {ObjectFor(q[1], q[2].manifest.id, q[2].manifest.digest) :
     q \in {q \in others : /\ q[2].source = Origin
                           /\ Enough(q[2].manifest, HasOf(q[1], q[2]))}}

EE == INSTANCE EntryAndExit WITH
  entered <- {ObjectFor(m.to, m.body.manifest.id, m.body.manifest.digest) :
                m \in FromOrigin},
  left    <- Left,
  proofs  <- [i \in Ids |-> {ObjectFor(m.from, i, m.body.digest) :
                               m \in Whole(receipts[i])}]

(* The origin never holds a proof of exit for what did not leave, nor does *)
(* anything leave that did not enter.                                      *)
ImplementsEntryAndExit == EE!Spec

(* "A receipt over the exact reconstructed bytes, which reaches the sender *)
(* through any relay carrying it" (README), through whatever restarts of   *)
(* the sender: unless its deadline passes, or recipients.json was lost     *)
(* with one of the sender's processes, and with it every later process.    *)
ReceiptReachesSender ==
  \A n \in Recipients, p \in {p \in Parts : p.source = Origin} :
    (/\ \E r \in Faithful : Proof(n, Origin, ReceiptFor(p)) \in stored[r]
     /\ up /\ n \in recipients)
      ~> (Whole(receipts[p.manifest.id]) # {} \/ ~up \/ p.expires <= clock)

(* "When delivery happened, the proof exists at the destination and is     *)
(* obtained by the origin from any relay carrying a copy"                  *)
(* (V1_RECEIPT_RETURN): an object whose last part has reached a relay that *)
(* keeps it ends as a proof at the sender, for this content or for one     *)
(* that took its id before.                                                *)
EntryIsProved ==
  \A p \in {p \in Parts : p.source = Origin} :
    (\E r \in Faithful :
       \A q \in {q \in Parts : KeyOf(q) = KeyOf(p) /\ q.manifest = p.manifest} :
         Data(Recipient, q) \in stored[r])
      ~> (Whole(receipts[p.manifest.id]) # {} \/ ~up \/ p.expires <= clock)

-----------------------------------------------------------------------------
(* What the sources say and the code does not do. *)

(* node.py: "`send` returns when the relay has taken the object". *)
SendReturnsWhenTaken == \A c \in returned : c.sent \in entered
=============================================================================
