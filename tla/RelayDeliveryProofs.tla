------------------------ MODULE RelayDeliveryProofs ------------------------
(***************************************************************************)
(* Proofs about RelayDelivery, for every set of relays, recipients, parts  *)
(* and errands.  The invariant follows a receipt backwards: from the file  *)
(* at the origin to a relay, from there to the recipient who signed it     *)
(* over what was put together, and from its parts to the mail of the       *)
(* origin that a relay took.  Every link of this chain stays once it is    *)
(* there, which is what makes it hold over sessions that never overlap.    *)
(***************************************************************************)
EXTENDS RelayDelivery, ReassemblyProofs

(* The parts that a relay took for Recipient. *)
Given == {p \in Parts : Data(Recipient, p) \in entered}

(* Who has signed this receipt, and over what. *)
SignedHere(m) ==
  m.from = Recipient /\ \E k \in Complete(db) : m.body = Owed(db, k)
SignedBy(m, o, p) ==
  /\ m.from = o /\ m.body = ReceiptFor(p)
  /\ <<o, p>> \in others /\ Enough(p.manifest, HasOf(o, p))
Signed(m) == SignedHere(m) \/ \E o \in Others, p \in Parts : SignedBy(m, o, p)

(* What travels has been sent by somebody. *)
MailOK ==
  /\ \A r \in Relays : stored[r] \subseteq entered
  /\ \A o \in Others, p \in Parts : <<o, p>> \in others => Data(o, p) \in entered
  /\ \A m \in entered : m.kind = "receipt" => Signed(m)
  /\ \A q \in queue[Recipient] : SignedHere(q.mail)
  /\ \A q \in queue[Origin] : q.mail.from = Origin
  /\ \A c \in calling : c.mail.from = Origin
  /\ \A row \in rows : row.mail \in FromOrigin
  /\ \A c \in returned : c.row \in FromOrigin

(* Whom the origin's process knows, and its file. *)
KnownOK ==
  /\ saved.whole => up /\ saved.who = recipients
  /\ calling # {} => up
  /\ \A c \in calling : c.mail.to \in recipients
  /\ \A q \in queue[Origin] : q.mail.to \in recipients
  /\ \A m \in FromOrigin : up => m.to \in recipients

(* A receipt that collect_receipt took. *)
Taken(m) ==
  /\ m \in entered /\ m.kind = "receipt"
  /\ m.to = Origin /\ m.body.destination = Origin
  /\ up => m.from \in recipients

KeptOK ==
  /\ \A m \in keeping : Taken(m)
  /\ \A i \in Ids : /\ IsFiniteSet(receipts[i].bytes)
                    /\ \A m \in receipts[i].bytes : Taken(m) /\ m.body.id = i

RelayInv ==
  /\ RelayTypeOK /\ IInv
  /\ MailOK
  /\ Sent(db, Given)
  /\ KnownOK
  /\ KeptOK

-----------------------------------------------------------------------------
(* The recipient's directory changes only as Receiver says. *)
LEMMA StepOfReceiver == [RelayNext]_allVars => [Next]_vars
<1> SUFFICES ASSUME [RelayNext]_allVars PROVE [Next]_vars
  OBVIOUS
<1>1. CASE UNCHANGED vars
  BY <1>1
<1>2. CASE \E p \in Parts : Deliver(p)
  BY <1>2 DEF Deliver, Next
<1>3. CASE \E r \in Relays : Fetch(r)
  BY <1>3 DEF Fetch, Next
<1>4. CASE \E to \in Contacts, r \in Relays : Publish(to, r)
  BY <1>4 DEF Publish, Next
<1>5. CASE RecipientCrash
  BY <1>5 DEF RecipientCrash, Next
<1>6. CASE \/ Inside(ReadContent) \/ Inside(OpenOutput) \/ Inside(WriteOutput)
           \/ Inside(OpenEnvelope) \/ Inside(WriteEnvelope)
           \/ Inside(FetchReturns) \/ Inside(FetchTimesOut) \/ Inside(Tick)
  BY <1>6 DEF Inside, Next
<1>7. QED
  BY <1>1, <1>2, <1>3, <1>4, <1>5, <1>6
  DEF RelayNext, allVars, Send, Remember, NoPath, HandOver, SendReturns,
      SendTimesOut, HandsOff, RouterFails, Collect, OtherTakes,
      OtherPublishes, CollectReceipt, KeepReceipt, OriginCrash

LEMMA DataTyped ==
  ASSUME NEW to \in Recipients, NEW p \in Parts
  PROVE  /\ Data(to, p) \in DataMail /\ Data(to, p) \in Mail
         /\ Data(to, p).kind = "data" /\ Data(to, p).from = p.source
         /\ Data(to, p).to = to /\ Data(to, p).body = p
BY DEF Data, DataMail, Mail

LEMMA ProofTyped ==
  ASSUME NEW from \in Recipients, NEW to \in Sources, NEW r \in Receipt
  PROVE  /\ Proof(from, to, r) \in ProofMail /\ Proof(from, to, r) \in Mail
         /\ Proof(from, to, r).kind = "receipt" /\ Proof(from, to, r).from = from
         /\ Proof(from, to, r).to = to /\ Proof(from, to, r).body = r
BY DEF Proof, ProofMail, Mail

LEMMA DataMailIs ==
  ASSUME NEW m \in DataMail
  PROVE  /\ m.kind = "data" /\ m.to \in Recipients
         /\ m.body \in Parts /\ m.from = m.body.source
         /\ m = Data(m.to, m.body)
BY DEF DataMail, Data

LEMMA ProofMailIs ==
  ASSUME NEW m \in ProofMail
  PROVE  /\ m.kind = "receipt" /\ m.from \in Recipients /\ m.to \in Sources
         /\ m.body \in Receipt /\ m.body.id \in Ids /\ m.body.digest \in Digests
         /\ m.body.destination \in Sources /\ m.body.expires \in Nat
BY DEF ProofMail, Receipt

LEMMA KindOfMail ==
  ASSUME NEW m \in Mail
  PROVE  /\ m.kind = "receipt" => m \in ProofMail
         /\ m.kind = "data" => m \in DataMail
BY DataMailIs, ProofMailIs DEF Mail

LEMMA TwoNodes == Origin # Recipient /\ Origin \in Nodes /\ Recipient \in Nodes
BY RelayAssumption DEF Recipients, Nodes

-----------------------------------------------------------------------------
(* What is new in a step, and where it comes from. *)
NewMail ==
  \A m \in entered' :
    \/ m \in entered
    \/ \E n \in Nodes : \E q \in queue[n] : m = q.mail
    \/ m.kind = "receipt" /\ \E o \in Others, p \in Parts : SignedBy(m, o, p)
NewStored == \A r \in Relays : stored'[r] \subseteq stored[r] \cup entered'
NewOthers ==
  \A o \in Others, p \in Parts :
    <<o, p>> \in others' =>
      <<o, p>> \in others \/ \E r \in Relays : Data(o, p) \in stored[r]
NewQueue ==
  /\ \A q \in queue'[Recipient] :
       \/ q \in queue[Recipient]
       \/ SignedHere(q.mail)
  /\ \A q \in queue'[Origin] :
       q \in queue[Origin] \/ \E c \in calling : q.mail = c.mail
NewCall == \A c \in calling' : c.mail.from = Origin
NewRows ==
  \A row \in rows' : row \in rows \/ (row \in queue[Origin] /\ row.mail \in entered')
NewReturn ==
  \A c \in returned' : c \in returned \/ \E row \in rows : c.row = row.mail

Foot ==
  /\ entered \subseteq entered' /\ others \subseteq others'
  /\ NewMail /\ NewStored /\ NewOthers /\ NewQueue /\ NewCall /\ NewRows
  /\ NewReturn

LEMMA HasOfIs ==
  ASSUME NEW o, NEW p, NEW x
  PROVE  x \in HasOf(o, p) <=>
           \E q \in Parts : /\ <<o, q>> \in others /\ KeyOf(q) = KeyOf(p)
                            /\ q.manifest = p.manifest /\ q.index = x
BY DEF HasOf

LEMMA HasOfIsNext ==
  ASSUME NEW o, NEW p, NEW x
  PROVE  x \in HasOf(o, p)' <=>
           \E q \in Parts : /\ <<o, q>> \in others' /\ KeyOf(q) = KeyOf(p)
                            /\ q.manifest = p.manifest /\ q.index = x
BY DEF HasOf

LEMMA HasOfGrows ==
  ASSUME others \subseteq others', NEW o, NEW p
  PROVE  HasOf(o, p) \subseteq HasOf(o, p)'
<1> SUFFICES ASSUME NEW x \in HasOf(o, p) PROVE x \in HasOf(o, p)'
  OBVIOUS
<1>1. PICK q \in Parts : /\ <<o, q>> \in others /\ KeyOf(q) = KeyOf(p)
                         /\ q.manifest = p.manifest /\ q.index = x
  BY DEF HasOf
<1>2. <<o, q>> \in others'
  BY <1>1
<1>3. QED
  BY <1>1, <1>2, HasOfIsNext

LEMMA SignedByKept ==
  ASSUME others \subseteq others', NEW m, NEW o \in Others, NEW p \in Parts,
         SignedBy(m, o, p)
  PROVE  SignedBy(m, o, p)'
<1>1. Enough(p.manifest, HasOf(o, p)')
  BY HasOfGrows, EnoughOfMore DEF SignedBy
<1>2. QED
  BY <1>1 DEF SignedBy

LEMMA SignedHereKept ==
  ASSUME Grown(db, db'), NEW m, SignedHere(m)
  PROVE  SignedHere(m)'
<1>1. PICK k \in Complete(db) : m.body = Owed(db, k)
  BY DEF SignedHere
<1>2. k \in Complete(db)' /\ m.body = Owed(db, k)'
  BY <1>1, CompleteKept
<1>3. QED
  BY <1>2 DEF SignedHere

LEMMA SignedKept ==
  ASSUME Grown(db, db'), others \subseteq others', NEW m, Signed(m)
  PROVE  Signed(m)'
<1>1. CASE SignedHere(m)
  BY <1>1, SignedHereKept DEF Signed
<1>2. CASE \E o \in Others, p \in Parts : SignedBy(m, o, p)
  BY <1>2, SignedByKept DEF Signed
<1>3. QED
  BY <1>1, <1>2 DEF Signed

LEMMA MailKept ==
  ASSUME RelayTypeOK, MailOK, Foot, Grown(db, db')
  PROVE  MailOK'
<1>1. entered \subseteq entered' /\ others \subseteq others'
  BY DEF Foot
<1>2. \A r \in Relays : stored'[r] \subseteq entered'
  BY <1>1 DEF Foot, NewStored, MailOK
<1>3. \A o \in Others, p \in Parts : <<o, p>> \in others' => Data(o, p) \in entered'
  BY <1>1 DEF Foot, NewOthers, MailOK
<1>4. ASSUME NEW q \in queue[Recipient]
      PROVE  SignedHere(q.mail)'
  BY SignedHereKept DEF MailOK
<1>5. ASSUME NEW m \in entered', m.kind = "receipt"
      PROVE  Signed(m)'
  <2>1. CASE m \in entered
    BY <1>1, <1>5, <2>1, SignedKept DEF MailOK
  <2>2. CASE \E n \in Nodes : \E q \in queue[n] : m = q.mail
    <3>1. PICK n \in Nodes : \E q \in queue[n] : m = q.mail
      BY <2>2
    <3>2. PICK q \in queue[n] : m = q.mail
      BY <3>1
    <3>3. n = Recipient
      <4>1. SUFFICES ASSUME n = Origin PROVE FALSE
        BY DEF Nodes
      <4>2. q.mail \in DataMail
        BY <3>2, <4>1 DEF RelayTypeOK
      <4>3. QED
        BY <1>5, <3>2, <4>2, DataMailIs
    <3>4. QED
      BY <1>4, <3>2, <3>3 DEF Signed
  <2>3. CASE \E o \in Others, p \in Parts : SignedBy(m, o, p)
    BY <1>1, <2>3, SignedByKept DEF Signed
  <2>4. QED
    BY <1>5, <2>1, <2>2, <2>3 DEF Foot, NewMail
<1>6. \A q \in queue'[Recipient] : SignedHere(q.mail)'
  <2>1. ASSUME NEW q \in queue'[Recipient] PROVE SignedHere(q.mail)'
    <3>1. CASE q \in queue[Recipient]
      BY <1>4, <3>1
    <3>2. CASE SignedHere(q.mail)
      BY <3>2, SignedHereKept
    <3>3. QED
      BY <3>1, <3>2 DEF Foot, NewQueue
  <2>2. QED
    BY <2>1
<1>7. \A q \in queue'[Origin] : q.mail.from = Origin
  BY DEF Foot, NewQueue, MailOK
<1>8. \A c \in calling' : c.mail.from = Origin
  BY DEF Foot, NewCall
<1>9. \A row \in rows : row.mail \in FromOrigin'
  BY <1>1 DEF MailOK, FromOrigin
<1>10. \A row \in rows' : row.mail \in FromOrigin'
  <2>1. ASSUME NEW row \in rows', row \in queue[Origin], row.mail \in entered'
        PROVE  row.mail \in FromOrigin'
    <3>1. row.mail \in DataMail /\ row.mail.from = Origin
      BY <2>1 DEF RelayTypeOK, MailOK
    <3>2. QED
      BY <2>1, <3>1, DataMailIs DEF FromOrigin
  <2>2. QED
    BY <1>9, <2>1 DEF Foot, NewRows
<1>11. \A c \in returned' : c.row \in FromOrigin'
  <2>1. \A c \in returned : c.row \in FromOrigin'
    BY <1>1 DEF MailOK, FromOrigin
  <2>2. QED
    BY <1>9, <2>1 DEF Foot, NewReturn
<1>12. QED
  BY <1>2, <1>3, <1>5, <1>6, <1>7, <1>8, <1>10, <1>11 DEF MailOK

-----------------------------------------------------------------------------
(* The database is made of what relays took for Recipient. *)
LEMMA GivenGrows ==
  ASSUME entered \subseteq entered'
  PROVE  Given \subseteq Given'
BY DEF Given

LEMMA SentKept ==
  ASSUME Sent(db, Given), entered \subseteq entered', db' = db
  PROVE  Sent(db, Given)'
<1>1. Sent(db, Given')
  BY GivenGrows, SentMore
<1>2. QED
  BY <1>1

(* What the origin remembers, and what it keeps. *)
LEMMA KnownKept ==
  ASSUME RelayTypeOK, KnownOK, Foot,
         up' = up, saved' = saved, recipients' = recipients,
         \A c \in calling' : \E b \in calling : c.mail = b.mail
  PROVE  KnownOK'
<1>1. ASSUME NEW q \in queue'[Origin]
      PROVE  q.mail.to \in recipients
  BY DEF Foot, NewQueue, KnownOK
<1>2. ASSUME NEW m \in entered', m.kind = "data", m.from = Origin, up
      PROVE  m.to \in recipients
  <2>1. CASE m \in entered
    BY <1>2, <2>1 DEF KnownOK, FromOrigin
  <2>2. CASE \E n \in Nodes : \E q \in queue[n] : m = q.mail
    <3>1. PICK n \in Nodes : \E q \in queue[n] : m = q.mail
      BY <2>2
    <3>2. PICK q \in queue[n] : m = q.mail
      BY <3>1
    <3>3. n = Origin
      <4>1. SUFFICES ASSUME n = Recipient PROVE FALSE
        BY DEF Nodes
      <4>2. q.mail \in ProofMail
        BY <3>2, <4>1 DEF RelayTypeOK
      <4>3. QED
        BY <1>2, <3>2, <4>2, ProofMailIs
    <3>4. QED
      BY <3>2, <3>3 DEF KnownOK
  <2>3. QED
    BY <1>2, <2>1, <2>2 DEF Foot, NewMail
<1>3. \A m \in FromOrigin' : up' => m.to \in recipients'
  BY <1>2 DEF FromOrigin
<1>4. calling' # {} => up'
  BY DEF KnownOK
<1>5. \A c \in calling' : c.mail.to \in recipients'
  BY DEF KnownOK
<1>6. saved'.whole => up' /\ saved'.who = recipients'
  BY DEF KnownOK
<1>7. QED
  BY <1>1, <1>3, <1>4, <1>5, <1>6 DEF KnownOK

LEMMA TakenKept ==
  ASSUME entered \subseteq entered', up' => up /\ recipients \subseteq recipients',
         NEW m, Taken(m)
  PROVE  Taken(m)'
BY DEF Taken

LEMMA KeptKept ==
  ASSUME KeptOK, receipts' = receipts, keeping' \subseteq keeping,
         entered \subseteq entered', up' => up /\ recipients \subseteq recipients'
  PROVE  KeptOK'
BY TakenKept DEF KeptOK

LEMMA SameDb ==
  ASSUME db' = db
  PROVE  Grown(db, db')
BY DEF Grown

(* A step that leaves the origin's process and its directory as they are,  *)
(* and the database too, seen through its footprint.                       *)
LEMMA QuietStep ==
  ASSUME RelayInv, RelayTypeOK', IInv', Foot, db' = db,
         UNCHANGED <<up, saved, recipients, receipts, keeping>>,
         \A c \in calling' : \E b \in calling : c.mail = b.mail
  PROVE  RelayInv'
<1>1. MailOK'
  BY MailKept, SameDb DEF RelayInv
<1>2. Sent(db, Given)'
  BY SentKept DEF RelayInv, Foot
<1>3. KnownOK'
  BY KnownKept DEF RelayInv
<1>4. KeptOK'
  BY KeptKept DEF RelayInv, Foot
<1>5. QED
  BY <1>1, <1>2, <1>3, <1>4 DEF RelayInv

-----------------------------------------------------------------------------
(* Calls of send. *)
LEMMA CallTyped ==
  ASSUME RelayTypeOK, NEW c \in calling
  PROVE  /\ c.mail \in DataMail /\ c.via \in Relays /\ c.label \in Labels
         /\ \A phase \in {"remember", "path", "wait"} :
              /\ [c EXCEPT !.phase = phase] \in Call
              /\ [c EXCEPT !.phase = phase].mail = c.mail
<1>1. c \in Call
  BY DEF RelayTypeOK
<1>2. QED
  BY <1>1 DEF Call

LEMMA QueueTyped ==
  ASSUME RelayTypeOK
  PROVE  /\ \A q \in queue[Origin] : q.mail \in DataMail /\ q.label \in Labels
         /\ \A q \in queue[Recipient] : q.mail \in ProofMail
         /\ \A row \in rows : row.mail \in DataMail /\ row.label \in Labels
         /\ \A c \in returned : c.row \in DataMail
BY DEF RelayTypeOK

LEMMA SendStep ==
  ASSUME RelayInv, IInv', NEW e \in Errands, NEW r \in Relays, NEW l \in Labels,
         Send(e, r, l)
  PROVE  RelayInv'
<1>1. e.to \in Recipients /\ e.part \in Parts /\ e.part.source = Origin
  BY RelayAssumption
<1>2. PICK m : m = Data(e.to, e.part)
  OBVIOUS
<1>3. m \in DataMail /\ m.from = Origin /\ m.to = e.to
  BY <1>1, <1>2, DataTyped
<1>4. PICK c : c = [mail |-> m, via |-> r, label |-> l, phase |-> "remember"]
  OBVIOUS
<1>5. c \in Call /\ c.mail = m
  BY <1>3, <1>4 DEF Call
<1>6. /\ up /\ recipients' = recipients \cup {e.to}
      /\ saved' = [whole |-> FALSE, who |-> {}]
      /\ calling' = {c} /\ returned' = {}
      /\ UNCHANGED <<db, stored, entered, via, queue, asked, up,
                     rows, receipts, keeping, others>>
  BY <1>2, <1>4 DEF Send, vars, network, routers, kept
<1>7. RelayTypeOK'
  <2>1. saved' \in [whole : BOOLEAN, who : SUBSET Recipients]
    BY <1>6
  <2>2. recipients' \subseteq Recipients
    BY <1>1, <1>6 DEF RelayInv, RelayTypeOK
  <2>3. calling' \subseteq Call /\ returned' \subseteq [sent : DataMail, row : DataMail]
    BY <1>5, <1>6
  <2>4. QED
    BY <1>6, <2>1, <2>2, <2>3 DEF RelayInv, RelayTypeOK, IInv
<1>8. Foot
  <2>1. NewCall
    BY <1>3, <1>5, <1>6 DEF NewCall
  <2>2. QED
    BY <1>6, <2>1 DEF Foot, NewMail, NewStored, NewOthers, NewQueue, NewRows,
                      NewReturn
<1>9. MailOK'
  BY <1>6, <1>8, MailKept, SameDb DEF RelayInv
<1>10. Sent(db, Given)'
  BY <1>6, SentKept DEF RelayInv
<1>11. KnownOK'
  <2>1. ~saved'.whole
    BY <1>6
  <2>2. \A d \in calling' : d.mail.to \in recipients'
    BY <1>3, <1>5, <1>6
  <2>3. \A q \in queue'[Origin] : q.mail.to \in recipients'
    BY <1>6 DEF RelayInv, KnownOK
  <2>4. \A n \in FromOrigin' : up' => n.to \in recipients'
    BY <1>6 DEF RelayInv, KnownOK, FromOrigin
  <2>5. QED
    BY <1>6, <2>1, <2>2, <2>3, <2>4 DEF KnownOK
<1>12. KeptOK'
  BY <1>6, KeptKept DEF RelayInv
<1>13. QED
  BY <1>7, <1>9, <1>10, <1>11, <1>12 DEF RelayInv

LEMMA RememberStep ==
  ASSUME RelayInv, IInv', Remember
  PROVE  RelayInv'
<1>1. PICK c \in calling :
        /\ saved' = [whole |-> TRUE, who |-> recipients]
        /\ calling' = {[c EXCEPT !.phase = "path"]}
  BY DEF Remember
<1>2. UNCHANGED <<db, stored, entered, via, queue, asked, up,
                  recipients, rows, returned, receipts, keeping, others>>
  BY DEF Remember, vars, network, routers, kept
<1>3. PICK d : d = [c EXCEPT !.phase = "path"]
  OBVIOUS
<1>4. d \in Call /\ d.mail = c.mail
  BY <1>3, CallTyped DEF RelayInv
<1>5. RelayTypeOK'
  <2>1. saved' \in [whole : BOOLEAN, who : SUBSET Recipients]
    BY <1>1 DEF RelayInv, RelayTypeOK
  <2>2. calling' \subseteq Call
    BY <1>1, <1>3, <1>4
  <2>3. QED
    BY <1>2, <2>1, <2>2 DEF RelayInv, RelayTypeOK, IInv
<1>6. Foot
  <2>1. NewCall
    BY <1>1, <1>3, <1>4 DEF NewCall, RelayInv, MailOK
  <2>2. QED
    BY <1>2, <2>1 DEF Foot, NewMail, NewStored, NewOthers, NewQueue, NewRows,
                      NewReturn
<1>7. MailOK'
  BY <1>2, <1>6, MailKept, SameDb DEF RelayInv
<1>8. Sent(db, Given)'
  BY <1>2, SentKept DEF RelayInv
<1>9. KnownOK'
  <2>1. up /\ saved'.who = recipients
    BY <1>1 DEF RelayInv, KnownOK
  <2>2. \A b \in calling' : b.mail.to \in recipients
    BY <1>1, <1>3, <1>4 DEF RelayInv, KnownOK
  <2>3. \A n \in FromOrigin' : up' => n.to \in recipients'
    BY <1>2 DEF RelayInv, KnownOK, FromOrigin
  <2>4. \A q \in queue'[Origin] : q.mail.to \in recipients'
    BY <1>2 DEF RelayInv, KnownOK
  <2>5. QED
    BY <1>2, <2>1, <2>2, <2>3, <2>4 DEF KnownOK
<1>10. KeptOK'
  BY <1>2, KeptKept DEF RelayInv
<1>11. QED
  BY <1>5, <1>7, <1>8, <1>9, <1>10 DEF RelayInv

LEMMA ReturnTyped ==
  ASSUME RelayTypeOK, NEW c \in calling, NEW row \in rows, Returns(c, row)
  PROVE  /\ calling' = {}
         /\ returned' \subseteq [sent : DataMail, row : DataMail]
         /\ \A d \in returned' : d.row = row.mail
<1>1. c.mail \in DataMail /\ row.mail \in DataMail
  BY CallTyped, QueueTyped
<1>2. QED
  BY <1>1 DEF Returns

LEMMA HandOverStep ==
  ASSUME RelayInv, IInv', HandOver
  PROVE  RelayInv'
<1>1. PICK c \in calling :
        /\ via' = [via EXCEPT ![Origin] = {c.via}]
        /\ queue' = [queue EXCEPT ![Origin] =
                       @ \cup {[mail |-> c.mail, label |-> c.label]}]
        /\ \/ \E row \in rows : Returns(c, row)
           \/ /\ calling' = {[c EXCEPT !.phase = "wait"]}
              /\ UNCHANGED returned
  BY DEF HandOver
<1>2. UNCHANGED <<db, stored, entered, asked, up, recipients, rows,
                  saved, receipts, keeping, others>>
  BY DEF HandOver, vars, network, kept
<1>3. /\ c.mail \in DataMail /\ c.via \in Relays /\ c.label \in Labels
      /\ [c EXCEPT !.phase = "wait"] \in Call
      /\ [c EXCEPT !.phase = "wait"].mail = c.mail
  BY CallTyped DEF RelayInv
<1>4. /\ calling' \subseteq Call
      /\ \A d \in calling' : \E b \in calling : d.mail = b.mail
      /\ returned' \subseteq [sent : DataMail, row : DataMail]
      /\ \A d \in returned' : d \in returned \/ \E row \in rows : d.row = row.mail
  <2>1. CASE \E row \in rows : Returns(c, row)
    <3>1. PICK row \in rows : Returns(c, row)
      BY <2>1
    <3>2. QED
      BY <3>1, ReturnTyped DEF RelayInv
  <2>2. CASE calling' = {[c EXCEPT !.phase = "wait"]} /\ UNCHANGED returned
    BY <1>3, <2>2 DEF RelayInv, RelayTypeOK
  <2>3. QED
    BY <1>1, <2>1, <2>2
<1>5. PICK new : new = [mail |-> c.mail, label |-> c.label]
  OBVIOUS
<1>6. new \in [mail : DataMail, label : Labels] /\ new.mail = c.mail
  BY <1>3, <1>5
<1>7. /\ DOMAIN queue' = Nodes
      /\ queue'[Origin] = queue[Origin] \cup {new}
      /\ queue'[Recipient] = queue[Recipient]
  BY <1>1, <1>5, TwoNodes DEF RelayInv, RelayTypeOK
<1>8. via' \in [Nodes -> SUBSET Relays]
  <2>1. via \in [Nodes -> SUBSET Relays]
    BY DEF RelayInv, RelayTypeOK
  <2>2. QED
    BY <1>1, <1>3, <2>1
<1>9. RelayTypeOK'
  BY <1>2, <1>4, <1>6, <1>7, <1>8 DEF RelayInv, RelayTypeOK, IInv
<1>10. Foot
  <2>1. NewQueue
    BY <1>6, <1>7 DEF NewQueue
  <2>2. NewCall
    BY <1>4 DEF NewCall, RelayInv, MailOK
  <2>3. NewReturn
    BY <1>4 DEF NewReturn
  <2>4. QED
    BY <1>2, <2>1, <2>2, <2>3 DEF Foot, NewMail, NewStored, NewOthers, NewRows
<1>11. QED
  BY <1>2, <1>4, <1>9, <1>10, QuietStep

(* The call ends, with a row or without. *)
LEMMA CallEnds ==
  ASSUME RelayInv, IInv', NoPath \/ SendReturns \/ SendTimesOut
  PROVE  RelayInv'
<1>1. UNCHANGED <<db, stored, entered, via, queue, asked, up,
                  recipients, rows, saved, receipts, keeping, others>>
  BY DEF NoPath, SendReturns, SendTimesOut, vars, network, routers, kept
<1>2. /\ calling' = {}
      /\ returned' \subseteq [sent : DataMail, row : DataMail]
      /\ \A d \in returned' : d \in returned \/ \E row \in rows : d.row = row.mail
  <2>1. CASE SendReturns
    <3>1. PICK c, row : c \in calling /\ row \in rows /\ Returns(c, row)
      BY <2>1 DEF SendReturns
    <3>2. QED
      BY <3>1, ReturnTyped DEF RelayInv
  <2>2. CASE NoPath \/ SendTimesOut
    BY <2>2 DEF NoPath, SendTimesOut, RelayInv, RelayTypeOK
  <2>3. QED
    BY <2>1, <2>2
<1>3. RelayTypeOK'
  BY <1>1, <1>2 DEF RelayInv, RelayTypeOK, IInv
<1>4. Foot
  BY <1>1, <1>2 DEF Foot, NewMail, NewStored, NewOthers, NewQueue, NewCall,
                    NewRows, NewReturn
<1>5. QED
  BY <1>1, <1>2, <1>3, <1>4, QuietStep

-----------------------------------------------------------------------------
(* Routers and relays. *)

(* Routers take mail from their queues only. *)
LEMMA QueueShrinks ==
  ASSUME RelayTypeOK, NEW n \in Nodes, NEW q \in queue[n],
         queue' = [queue EXCEPT ![n] = @ \ {q}] \/ queue' = queue
  PROVE  DOMAIN queue' = Nodes /\ \A k \in Nodes : queue'[k] \subseteq queue[k]
BY DEF RelayTypeOK

LEMMA QueueTypedKept ==
  ASSUME RelayTypeOK, \A k \in Nodes : queue'[k] \subseteq queue[k]
  PROVE  /\ queue'[Origin] \subseteq [mail : DataMail, label : Labels]
         /\ queue'[Recipient] \subseteq [mail : ProofMail, label : {"receipt"}]
         /\ NewQueue
<1>1. queue'[Origin] \subseteq queue[Origin]
      /\ queue'[Recipient] \subseteq queue[Recipient]
  BY TwoNodes
<1>2. QED
  BY <1>1 DEF RelayTypeOK, NewQueue

LEMMA HandsOffStep ==
  ASSUME RelayInv, IInv', NEW n \in Nodes, NEW known \in BOOLEAN,
         HandsOff(n, known)
  PROVE  RelayInv'
<1>1. PICK q, r :
        /\ q \in queue[n] /\ r \in via[n]
        /\ stored' = [stored EXCEPT ![r] = @ \cup {q.mail}]
        /\ entered' = entered \cup {q.mail}
        /\ queue' = [queue EXCEPT ![n] = @ \ {q}] \/ queue' = queue
        /\ \/ rows' = rows
           \/ n = Origin /\ rows' = rows \cup {q}
  BY DEF HandsOff
<1>2. UNCHANGED <<db, via, asked, up, recipients, calling, returned,
                  saved, receipts, keeping, others>>
  BY DEF HandsOff, vars, kept
<1>3. r \in Relays
  BY <1>1 DEF RelayInv, RelayTypeOK
<1>4. q.mail \in Mail
  <2>1. q.mail \in DataMail \/ q.mail \in ProofMail
    BY <1>1, QueueTyped DEF RelayInv, Nodes
  <2>2. QED
    BY <2>1 DEF Mail
<1>5. PICK new : new = q.mail
  OBVIOUS
<1>6. /\ stored' \in [Relays -> SUBSET Mail]
      /\ \A k \in Relays : stored'[k] \subseteq stored[k] \cup {new}
  <2>1. stored \in [Relays -> SUBSET Mail]
    BY DEF RelayInv, RelayTypeOK
  <2>2. QED
    BY <1>1, <1>3, <1>4, <1>5, <2>1
<1>7. DOMAIN queue' = Nodes /\ \A k \in Nodes : queue'[k] \subseteq queue[k]
  BY <1>1, QueueShrinks DEF RelayInv
<1>8. /\ queue'[Origin] \subseteq [mail : DataMail, label : Labels]
      /\ queue'[Recipient] \subseteq [mail : ProofMail, label : {"receipt"}]
      /\ NewQueue
  BY <1>7, QueueTypedKept DEF RelayInv
<1>9. entered' \subseteq Mail
  BY <1>1, <1>4 DEF RelayInv, RelayTypeOK
<1>10. rows' \subseteq [mail : DataMail, label : Labels]
  BY <1>1 DEF RelayInv, RelayTypeOK
<1>11. RelayTypeOK'
  BY <1>2, <1>6, <1>7, <1>8, <1>9, <1>10 DEF RelayInv, RelayTypeOK, IInv
<1>12. Foot
  <2>1. NewMail
    BY <1>1 DEF NewMail
  <2>2. NewStored
    BY <1>1, <1>5, <1>6 DEF NewStored
  <2>3. NewRows
    BY <1>1 DEF NewRows
  <2>4. NewCall
    BY <1>2 DEF NewCall, RelayInv, MailOK
  <2>5. entered \subseteq entered'
    BY <1>1
  <2>6. QED
    BY <1>2, <1>8, <2>1, <2>2, <2>3, <2>4, <2>5 DEF Foot, NewOthers, NewReturn
<1>13. QED
  BY <1>2, <1>11, <1>12, QuietStep

LEMMA RouterFailsStep ==
  ASSUME RelayInv, IInv', NEW n \in Nodes, RouterFails(n)
  PROVE  RelayInv'
<1>1. PICK q \in queue[n] : queue' = [queue EXCEPT ![n] = @ \ {q}]
  BY DEF RouterFails
<1>2. UNCHANGED <<db, stored, entered, via, asked, up, recipients,
                  calling, rows, returned, saved, receipts, keeping, others>>
  BY DEF RouterFails, vars, network, memory, kept
<1>3. DOMAIN queue' = Nodes /\ \A k \in Nodes : queue'[k] \subseteq queue[k]
  BY <1>1, QueueShrinks DEF RelayInv
<1>4. /\ queue'[Origin] \subseteq [mail : DataMail, label : Labels]
      /\ queue'[Recipient] \subseteq [mail : ProofMail, label : {"receipt"}]
      /\ NewQueue
  BY <1>3, QueueTypedKept DEF RelayInv
<1>5. RelayTypeOK'
  BY <1>2, <1>3, <1>4 DEF RelayInv, RelayTypeOK, IInv
<1>6. Foot
  BY <1>2, <1>4 DEF Foot, NewMail, NewStored, NewOthers, NewCall, NewRows,
                    NewReturn, RelayInv, MailOK
<1>7. QED
  BY <1>2, <1>5, <1>6, QuietStep

-----------------------------------------------------------------------------
(* Sessions of the recipient, and of the origin when it comes back. *)
LEMMA AskTyped ==
  ASSUME RelayTypeOK, NEW n \in Nodes, NEW r \in Relays,
         via' = [via EXCEPT ![n] = {r}],
         asked' = [asked EXCEPT ![n] = @ \cup {r}]
  PROVE  via' \in [Nodes -> SUBSET Relays] /\ asked' \in [Nodes -> SUBSET Relays]
<1>1. via \in [Nodes -> SUBSET Relays] /\ asked \in [Nodes -> SUBSET Relays]
  BY DEF RelayTypeOK
<1>2. QED
  BY <1>1

LEMMA AskStep ==
  ASSUME RelayInv, IInv', NEW r \in Relays, Fetch(r) \/ Collect(r)
  PROVE  RelayInv'
<1>1. PICK n \in Nodes : Ask(n, r)
  BY TwoNodes DEF Fetch, Collect
<1>2. UNCHANGED <<db, stored, entered, queue, up, recipients,
                  calling, rows, returned, saved, receipts, keeping, others>>
  BY DEF Fetch, FetchBegins, Collect, vars, network, memory, kept
<1>3. via' \in [Nodes -> SUBSET Relays] /\ asked' \in [Nodes -> SUBSET Relays]
  BY <1>1, AskTyped DEF Ask, RelayInv
<1>4. RelayTypeOK'
  BY <1>2, <1>3 DEF RelayInv, RelayTypeOK, IInv
<1>5. Foot
  BY <1>2 DEF Foot, NewMail, NewStored, NewOthers, NewQueue, NewCall, NewRows,
              NewReturn, RelayInv, MailOK
<1>6. QED
  BY <1>2, <1>4, <1>5, QuietStep

LEMMA InsideStep ==
  ASSUME RelayInv, IInv',
         \/ Inside(ReadContent) \/ Inside(OpenOutput) \/ Inside(WriteOutput)
         \/ Inside(OpenEnvelope) \/ Inside(WriteEnvelope)
         \/ Inside(FetchReturns) \/ Inside(FetchTimesOut) \/ Inside(Tick)
         \/ UNCHANGED allVars
  PROVE  RelayInv'
<1>1. db' = db
  BY DEF Inside, ReadContent, OpenOutput, WriteOutput, OpenEnvelope,
         WriteEnvelope, FetchReturns, FetchTimesOut, Tick, allVars, vars
<1>2. UNCHANGED <<stored, entered, via, queue, asked, up, recipients, calling,
                  rows, returned, saved, receipts, keeping, others>>
  BY DEF Inside, allVars, network, routers, memory, kept
<1>3. RelayTypeOK'
  BY <1>2 DEF RelayInv, RelayTypeOK, IInv
<1>4. Foot
  BY <1>1, <1>2 DEF Foot, NewMail, NewStored, NewOthers, NewQueue, NewCall,
                    NewRows, NewReturn, RelayInv, MailOK
<1>5. QED
  BY <1>1, <1>2, <1>3, <1>4, QuietStep

LEMMA PublishStep ==
  ASSUME RelayInv, IInv', NEW to \in Contacts, NEW r \in Relays, Publish(to, r)
  PROVE  RelayInv'
<1>1. PICK new : new = {[mail |-> Proof(Recipient, to, e), label |-> "receipt"] :
                          e \in Whole(envelope)}
  OBVIOUS
<1>2. /\ via' = [via EXCEPT ![Recipient] = {r}]
      /\ queue' = [queue EXCEPT ![Recipient] = @ \cup new]
  BY <1>1 DEF Publish
<1>3. UNCHANGED <<db, stored, entered, asked, up, recipients, calling, rows,
                  returned, saved, receipts, keeping, others>>
  BY DEF Publish, vars, network, memory, kept
<1>4. ASSUME NEW q \in new
      PROVE  /\ q \in [mail : ProofMail, label : {"receipt"}]
             /\ SignedHere(q.mail)
  <2>1. PICK e \in envelope.bytes :
          q = [mail |-> Proof(Recipient, to, e), label |-> "receipt"]
    BY <1>1 DEF Whole
  <2>2. e \in Receipt /\ to \in Sources /\ Recipient \in Recipients
    BY RelayAssumption DEF RelayInv, IInv, TypeOK, File, Recipients
  <2>3. /\ Proof(Recipient, to, e) \in ProofMail
        /\ Proof(Recipient, to, e).from = Recipient
        /\ Proof(Recipient, to, e).body = e
    BY <2>2, ProofTyped
  <2>4. \E k \in Complete(db) : e = Owed(db, k)
    BY DEF RelayInv, IInv, ReceiptsAreOwed
  <2>5. QED
    BY <2>1, <2>3, <2>4 DEF SignedHere
<1>5. /\ DOMAIN queue' = Nodes
      /\ queue'[Recipient] = queue[Recipient] \cup new
      /\ queue'[Origin] = queue[Origin]
  BY <1>2, TwoNodes DEF RelayInv, RelayTypeOK
<1>6. via' \in [Nodes -> SUBSET Relays]
  <2>1. via \in [Nodes -> SUBSET Relays]
    BY DEF RelayInv, RelayTypeOK
  <2>2. QED
    BY <1>2, <2>1
<1>7. queue'[Recipient] \subseteq [mail : ProofMail, label : {"receipt"}]
  BY <1>4, <1>5 DEF RelayInv, RelayTypeOK
<1>8. RelayTypeOK'
  BY <1>3, <1>5, <1>6, <1>7 DEF RelayInv, RelayTypeOK, IInv
<1>9. Foot
  <2>1. NewQueue
    BY <1>4, <1>5 DEF NewQueue
  <2>2. QED
    BY <1>3, <2>1 DEF Foot, NewMail, NewStored, NewOthers, NewCall,
                      NewRows, NewReturn, RelayInv, MailOK
<1>10. QED
  BY <1>3, <1>8, <1>9, QuietStep

(* A node that ends forgets what its router had to send. *)
LEMMA RouterEnds ==
  ASSUME RelayTypeOK, NEW n \in Nodes,
         via' = [via EXCEPT ![n] = {}], asked' = [asked EXCEPT ![n] = {}],
         queue' = [queue EXCEPT ![n] = {}]
  PROVE  /\ via' \in [Nodes -> SUBSET Relays] /\ asked' \in [Nodes -> SUBSET Relays]
         /\ DOMAIN queue' = Nodes
         /\ queue'[n] = {} /\ \A k \in Nodes : queue'[k] \subseteq queue[k]
<1>1. via \in [Nodes -> SUBSET Relays] /\ asked \in [Nodes -> SUBSET Relays]
      /\ DOMAIN queue = Nodes
  BY DEF RelayTypeOK
<1>2. QED
  BY <1>1

LEMMA RecipientCrashStep ==
  ASSUME RelayInv, IInv', RecipientCrash
  PROVE  RelayInv'
<1>1. UNCHANGED <<db, stored, entered, up, recipients, calling,
                  rows, returned, saved, receipts, keeping, others>>
  BY DEF RecipientCrash, Crash, network, memory, kept
<1>2. /\ via' \in [Nodes -> SUBSET Relays] /\ asked' \in [Nodes -> SUBSET Relays]
      /\ DOMAIN queue' = Nodes
      /\ \A k \in Nodes : queue'[k] \subseteq queue[k]
  BY TwoNodes, RouterEnds DEF RecipientCrash, RelayInv
<1>3. /\ queue'[Origin] \subseteq [mail : DataMail, label : Labels]
      /\ queue'[Recipient] \subseteq [mail : ProofMail, label : {"receipt"}]
      /\ NewQueue
  BY <1>2, QueueTypedKept DEF RelayInv
<1>4. RelayTypeOK'
  BY <1>1, <1>2, <1>3 DEF RelayInv, RelayTypeOK, IInv
<1>5. Foot
  BY <1>1, <1>3 DEF Foot, NewMail, NewStored, NewOthers, NewCall, NewRows,
                    NewReturn, RelayInv, MailOK
<1>6. QED
  BY <1>1, <1>4, <1>5, QuietStep

(* A part is delivered: the one step that changes the database. *)
LEMMA DeliverStep ==
  ASSUME RelayInv, IInv', Grown(db, db'), NEW p \in Parts, Deliver(p)
  PROVE  RelayInv'
<1>1. db' = AcceptVerified(db, p)
  BY DEF Deliver, Receive
<1>2. UNCHANGED <<stored, entered, via, queue, asked, up, recipients, calling,
                  rows, returned, saved, receipts, keeping, others>>
  BY DEF Deliver, network, routers, memory, kept
<1>3. p \in Given
  <2>1. PICK r \in Relays : Data(Recipient, p) \in stored[r]
    BY TwoNodes DEF Deliver, Offered, RelayInv, RelayTypeOK
  <2>2. QED
    BY <2>1 DEF RelayInv, MailOK, Given
<1>4. Sent(db, Given)'
  <2>1. Sent(db', Given)
    BY <1>1, <1>3, AcceptSent DEF RelayInv, IInv
  <2>2. Given' = Given
    BY <1>2 DEF Given
  <2>3. QED
    BY <2>1, <2>2
<1>5. RelayTypeOK'
  BY <1>2 DEF RelayInv, RelayTypeOK, IInv
<1>6. Foot
  BY <1>1, <1>2 DEF Foot, NewMail, NewStored, NewOthers, NewQueue, NewCall,
                    NewRows, NewReturn, RelayInv, MailOK
<1>7. MailOK'
  BY <1>6, MailKept DEF RelayInv
<1>8. KnownOK'
  BY <1>2, <1>6, KnownKept DEF RelayInv
<1>9. KeptOK'
  BY <1>2, KeptKept DEF RelayInv
<1>10. QED
  BY <1>4, <1>5, <1>7, <1>8, <1>9 DEF RelayInv

-----------------------------------------------------------------------------
(* The other recipients. *)
LEMMA OtherTakesStep ==
  ASSUME RelayInv, IInv', NEW o \in Others, NEW p \in Parts, OtherTakes(o, p)
  PROVE  RelayInv'
<1>1. /\ \E r \in Relays : Data(o, p) \in stored[r]
      /\ others' = others \cup {<<o, p>>}
  BY DEF OtherTakes
<1>2. UNCHANGED <<db, stored, entered, via, queue, asked, up,
                  recipients, calling, rows, returned, saved, receipts, keeping>>
  BY DEF OtherTakes, vars, network, routers, memory, kept
<1>3. others' \subseteq Others \X Parts
  BY <1>1 DEF RelayInv, RelayTypeOK
<1>4. RelayTypeOK'
  BY <1>2, <1>3 DEF RelayInv, RelayTypeOK, IInv
<1>5. NewOthers
  <2>1. ASSUME NEW a \in Others, NEW b \in Parts, <<a, b>> \in others'
        PROVE  \/ <<a, b>> \in others
               \/ \E r \in Relays : Data(a, b) \in stored[r]
    <3>1. <<a, b>> \in others \/ (a = o /\ b = p)
      BY <1>1, <2>1
    <3>2. QED
      BY <1>1, <3>1
  <2>2. QED
    BY <2>1 DEF NewOthers
<1>6. Foot
  <2>1. others \subseteq others'
    BY <1>1
  <2>2. QED
    BY <1>2, <1>5, <2>1 DEF Foot, NewMail, NewStored, NewQueue, NewCall,
                            NewRows, NewReturn, RelayInv, MailOK
<1>7. QED
  BY <1>2, <1>4, <1>6, QuietStep

LEMMA OtherPublishesStep ==
  ASSUME RelayInv, IInv', NEW o \in Others, NEW p \in Parts, NEW to \in Contacts,
         NEW r \in Relays, OtherPublishes(o, p, to, r)
  PROVE  RelayInv'
<1>1. PICK m : m = Proof(o, to, ReceiptFor(p))
  OBVIOUS
<1>2. /\ <<o, p>> \in others /\ Enough(p.manifest, HasOf(o, p))
      /\ stored' = [stored EXCEPT ![r] = @ \cup {m}]
      /\ entered' = entered \cup {m}
  BY <1>1 DEF OtherPublishes
<1>3. UNCHANGED <<db, via, queue, asked, up, recipients, calling,
                  rows, returned, saved, receipts, keeping, others>>
  BY DEF OtherPublishes, vars, routers, memory, kept
<1>4. /\ m \in Mail /\ m.kind = "receipt" /\ m.from = o
      /\ m.body = ReceiptFor(p)
  <2>1. o \in Recipients /\ to \in Sources /\ ReceiptFor(p) \in Receipt
    BY RelayAssumption, PartTyped DEF Recipients
  <2>2. QED
    BY <1>1, <2>1, ProofTyped
<1>5. SignedBy(m, o, p)
  BY <1>2, <1>4 DEF SignedBy
<1>6. /\ stored' \in [Relays -> SUBSET Mail]
      /\ \A k \in Relays : stored'[k] \subseteq stored[k] \cup {m}
  <2>1. stored \in [Relays -> SUBSET Mail]
    BY DEF RelayInv, RelayTypeOK
  <2>2. QED
    BY <1>2, <1>4, <2>1
<1>7. entered' \subseteq Mail
  BY <1>2, <1>4 DEF RelayInv, RelayTypeOK
<1>8. RelayTypeOK'
  BY <1>3, <1>6, <1>7 DEF RelayInv, RelayTypeOK, IInv
<1>9. Foot
  <2>1. NewMail
    BY <1>2, <1>4, <1>5 DEF NewMail
  <2>2. NewStored
    BY <1>2, <1>6 DEF NewStored
  <2>3. entered \subseteq entered'
    BY <1>2
  <2>4. QED
    BY <1>3, <2>1, <2>2, <2>3 DEF Foot, NewOthers, NewQueue, NewCall, NewRows,
                                  NewReturn, RelayInv, MailOK
<1>10. QED
  BY <1>3, <1>8, <1>9, QuietStep

-----------------------------------------------------------------------------
(* Receipts at the origin. *)
(* Steps on receipts/ leave the rest alone. *)
LEMMA KeepingStep ==
  ASSUME RelayInv, IInv', RelayTypeOK', KeptOK',
         UNCHANGED <<db, stored, entered, via, queue, asked, up, recipients,
                     calling, rows, returned, saved, others>>
  PROVE  RelayInv'
<1>1. Foot
  BY DEF Foot, NewMail, NewStored, NewOthers, NewQueue, NewCall, NewRows,
         NewReturn, RelayInv, MailOK
<1>2. MailOK'
  BY <1>1, MailKept, SameDb DEF RelayInv
<1>3. Sent(db, Given)'
  BY SentKept DEF RelayInv
<1>4. KnownOK'
  BY <1>1, KnownKept DEF RelayInv
<1>5. QED
  BY <1>2, <1>3, <1>4 DEF RelayInv

(* One file changes: to f, which has nothing new in it but what is taken.  *)
LEMMA FileKept ==
  ASSUME RelayInv, NEW i \in Ids, NEW f \in File(ProofMail),
         receipts' = [receipts EXCEPT ![i] = f],
         UNCHANGED <<up, recipients, entered>>,
         IsFiniteSet(f.bytes),
         \A m \in f.bytes : m \in receipts[i].bytes \/ (Taken(m) /\ m.body.id = i),
         \A m \in keeping' : Taken(m)
  PROVE  /\ receipts' \in [Ids -> File(ProofMail)]
         /\ KeptOK'
<1>1. /\ receipts \in [Ids -> File(ProofMail)]
      /\ receipts' \in [Ids -> File(ProofMail)]
      /\ receipts'[i] = f /\ \A j \in Ids : j # i => receipts'[j] = receipts[j]
  BY DEF RelayInv, RelayTypeOK
<1>2. ASSUME NEW m, Taken(m)
      PROVE  Taken(m)'
  BY <1>2 DEF Taken
<1>3. ASSUME NEW j \in Ids
      PROVE  /\ IsFiniteSet(receipts'[j].bytes)
             /\ \A m \in receipts'[j].bytes : Taken(m)' /\ m.body.id = j
  <2>1. CASE j = i
    BY <1>1, <1>2, <2>1 DEF RelayInv, KeptOK
  <2>2. CASE j # i
    BY <1>1, <1>2, <2>2 DEF RelayInv, KeptOK
  <2>3. QED
    BY <2>1, <2>2
<1>4. \A m \in keeping' : Taken(m)'
  BY <1>2
<1>5. QED
  BY <1>1, <1>3, <1>4 DEF KeptOK

LEMMA CollectTakes ==
  ASSUME RelayInv, NEW r \in Relays, NEW m \in stored[r], CollectReceipt(m)
  PROVE  m \in ProofMail /\ m.body.id \in Ids /\ Taken(m)
<1>1. PICK key \in recipients : Authenticates(m, key, clock)
  BY DEF CollectReceipt
<1>2. m \in entered /\ m \in Mail /\ m.kind = "receipt"
  BY DEF RelayInv, MailOK, RelayTypeOK, CollectReceipt
<1>3. m \in ProofMail /\ m.body.id \in Ids
  BY <1>2, KindOfMail, ProofMailIs
<1>4. m.to = Origin /\ m.from \in recipients /\ m.body.destination = Origin
  BY <1>1 DEF Authenticates
<1>5. QED
  BY <1>2, <1>3, <1>4 DEF Taken

LEMMA CollectReceiptStep ==
  ASSUME RelayInv, IInv', NEW r \in Relays, NEW m \in stored[r], CollectReceipt(m)
  PROVE  RelayInv'
<1>1. PICK i \in Ids : i = m.body.id
  BY CollectTakes
<1>2. receipts' = [receipts EXCEPT ![i] = Emptied] /\ keeping' = keeping \cup {m}
  BY <1>1 DEF CollectReceipt
<1>3. UNCHANGED <<db, stored, entered, via, queue, asked, up, recipients,
                  calling, rows, returned, saved, others>>
  BY DEF CollectReceipt, vars, network, routers, memory
<1>4. Emptied \in File(ProofMail) /\ Emptied.bytes = {} /\ IsFiniteSet({})
  BY FS_EmptySet DEF Emptied, File
<1>5. \A n \in keeping' : Taken(n)
  BY <1>2, CollectTakes DEF RelayInv, KeptOK
<1>6. receipts' \in [Ids -> File(ProofMail)] /\ KeptOK'
  BY <1>2, <1>3, <1>4, <1>5, FileKept
<1>7. keeping' \subseteq ProofMail
  BY <1>2, CollectTakes DEF RelayInv, RelayTypeOK
<1>8. RelayTypeOK'
  BY <1>3, <1>6, <1>7 DEF RelayInv, RelayTypeOK, IInv
<1>9. QED
  BY <1>3, <1>6, <1>8, KeepingStep

(* A receipt m that was taken goes into its file, which becomes f. *)
Keeps(m, f) ==
  /\ m \in keeping /\ m \in ProofMail /\ m.body.id \in Ids
  /\ f \in File(ProofMail) /\ f.there /\ m \in f.bytes
  /\ f.bytes = {m} \/ f.bytes = receipts[m.body.id].bytes \cup {m}
  /\ receipts' = [receipts EXCEPT ![m.body.id] = f]
  /\ keeping' = keeping \ {m}

LEMMA KeepReceiptIs ==
  ASSUME RelayInv, KeepReceipt
  PROVE  \E m, f : Keeps(m, f)
<1>1. PICK m \in keeping :
        /\ \E file \in Written(receipts[m.body.id], m) :
             receipts' = [receipts EXCEPT ![m.body.id] = file]
        /\ keeping' = keeping \ {m}
  BY DEF KeepReceipt
<1>2. PICK f \in Written(receipts[m.body.id], m) :
        receipts' = [receipts EXCEPT ![m.body.id] = f]
  BY <1>1
<1>3. m \in ProofMail /\ m.body.id \in Ids
  BY <1>1, ProofMailIs DEF RelayInv, RelayTypeOK
<1>4. receipts[m.body.id] \in File(ProofMail)
  BY <1>3 DEF RelayInv, RelayTypeOK
<1>5. /\ f \in File(ProofMail) /\ f.there /\ m \in f.bytes
      /\ f.bytes = {m} \/ f.bytes = receipts[m.body.id].bytes \cup {m}
  BY <1>2, <1>3, <1>4, FileWritten
<1>6. QED
  BY <1>1, <1>2, <1>3, <1>5 DEF Keeps

LEMMA KeepReceiptStep ==
  ASSUME RelayInv, IInv', KeepReceipt
  PROVE  RelayInv'
<1>1. PICK m, f : Keeps(m, f)
  BY KeepReceiptIs
<1>2. UNCHANGED <<db, stored, entered, via, queue, asked, up, recipients,
                  calling, rows, returned, saved, others>>
  BY DEF KeepReceipt, vars, network, routers, memory
<1>3. PICK i \in Ids : i = m.body.id
  BY <1>1 DEF Keeps
<1>4. Taken(m) /\ \A n \in keeping' : Taken(n)
  BY <1>1 DEF Keeps, RelayInv, KeptOK
<1>5. IsFiniteSet(f.bytes)
  <2>1. IsFiniteSet(receipts[i].bytes)
    BY DEF RelayInv, KeptOK
  <2>2. IsFiniteSet({m}) /\ IsFiniteSet(receipts[i].bytes \cup {m})
    BY <2>1, FS_Singleton, FS_AddElement
  <2>3. QED
    BY <1>1, <1>3, <2>2 DEF Keeps
<1>6. \A n \in f.bytes : n \in receipts[i].bytes \/ (Taken(n) /\ n.body.id = i)
  BY <1>1, <1>3, <1>4 DEF Keeps
<1>7. f \in File(ProofMail) /\ receipts' = [receipts EXCEPT ![i] = f]
  BY <1>1, <1>3 DEF Keeps
<1>8. receipts' \in [Ids -> File(ProofMail)] /\ KeptOK'
  BY <1>2, <1>4, <1>5, <1>6, <1>7, FileKept
<1>9. keeping' \subseteq ProofMail
  BY <1>1 DEF Keeps, RelayInv, RelayTypeOK
<1>10. RelayTypeOK'
  BY <1>2, <1>8, <1>9 DEF RelayInv, RelayTypeOK, IInv
<1>11. QED
  BY <1>2, <1>8, <1>10, KeepingStep

LEMMA OriginCrashStep ==
  ASSUME RelayInv, IInv', OriginCrash
  PROVE  RelayInv'
<1>1. /\ up' = saved.whole /\ recipients' = saved.who
      /\ calling' = {} /\ rows' = {} /\ returned' = {} /\ keeping' = {}
  BY DEF OriginCrash
<1>2. UNCHANGED <<db, stored, entered, saved, receipts, others>>
  BY DEF OriginCrash, vars, network
<1>3. /\ via' \in [Nodes -> SUBSET Relays] /\ asked' \in [Nodes -> SUBSET Relays]
      /\ DOMAIN queue' = Nodes /\ queue'[Origin] = {}
      /\ \A k \in Nodes : queue'[k] \subseteq queue[k]
  BY TwoNodes, RouterEnds DEF OriginCrash, RelayInv
<1>4. /\ queue'[Origin] \subseteq [mail : DataMail, label : Labels]
      /\ queue'[Recipient] \subseteq [mail : ProofMail, label : {"receipt"}]
      /\ NewQueue
  BY <1>3, QueueTypedKept DEF RelayInv
<1>5. RelayTypeOK'
  <2>1. up' \in BOOLEAN /\ recipients' \subseteq Recipients
    BY <1>1 DEF RelayInv, RelayTypeOK
  <2>2. /\ calling' \subseteq Call
        /\ rows' \subseteq [mail : DataMail, label : Labels]
        /\ returned' \subseteq [sent : DataMail, row : DataMail]
        /\ keeping' \subseteq ProofMail
    BY <1>1
  <2>3. QED
    BY <1>2, <1>3, <1>4, <2>1, <2>2 DEF RelayInv, RelayTypeOK, IInv
<1>6. Foot
  BY <1>1, <1>2, <1>4 DEF Foot, NewMail, NewStored, NewOthers, NewCall,
                          NewRows, NewReturn
<1>7. up' => up /\ recipients' = recipients
  BY <1>1 DEF RelayInv, KnownOK
<1>8. MailOK'
  BY <1>2, <1>6, MailKept, SameDb DEF RelayInv
<1>9. Sent(db, Given)'
  BY <1>2, SentKept DEF RelayInv
<1>10. KnownOK'
  <2>1. \A n \in FromOrigin' : up' => n.to \in recipients'
    BY <1>2, <1>7 DEF RelayInv, KnownOK, FromOrigin
  <2>2. QED
    BY <1>1, <1>2, <1>3, <2>1 DEF KnownOK
<1>11. KeptOK'
  BY <1>1, <1>2, <1>7, KeptKept DEF RelayInv
<1>12. QED
  BY <1>5, <1>8, <1>9, <1>10, <1>11 DEF RelayInv

-----------------------------------------------------------------------------
LEMMA InitRelayInv == RelayInit => RelayInv
<1> SUFFICES ASSUME RelayInit PROVE RelayInv
  OBVIOUS
<1>1. IInv /\ TypeOK /\ db = EmptyDb
  BY InitIInv DEF RelayInit, IInv, Init
<1>2. OtherMail \subseteq DataMail /\ \A m \in OtherMail : m.from # Origin
  BY RelayAssumption
<1>3. RelayTypeOK
  <2>1. /\ stored \in [Relays -> SUBSET Mail] /\ entered \subseteq Mail
    BY <1>2 DEF RelayInit, Mail
  <2>2. /\ via \in [Nodes -> SUBSET Relays] /\ asked \in [Nodes -> SUBSET Relays]
        /\ DOMAIN queue = Nodes /\ queue[Origin] = {} /\ queue[Recipient] = {}
    BY TwoNodes DEF RelayInit
  <2>3. saved \in [whole : BOOLEAN, who : SUBSET Recipients]
    BY DEF RelayInit
  <2>4. receipts \in [Ids -> File(ProofMail)] /\ keeping \subseteq ProofMail
    BY DEF RelayInit, NoFile, File
  <2>5. /\ up \in BOOLEAN /\ recipients \subseteq Recipients
        /\ calling \subseteq Call
        /\ rows \subseteq [mail : DataMail, label : Labels]
        /\ returned \subseteq [sent : DataMail, row : DataMail]
    BY DEF RelayInit
  <2>6. others \subseteq Others \X Parts
    BY <1>2, DataMailIs DEF RelayInit
  <2>7. QED
    BY <1>1, <2>1, <2>2, <2>3, <2>4, <2>5, <2>6 DEF RelayTypeOK
<1>4. MailOK
  <2>1. \A m \in entered : m.kind # "receipt"
    BY <1>2, DataMailIs DEF RelayInit
  <2>2. queue[Origin] = {} /\ queue[Recipient] = {}
    BY TwoNodes DEF RelayInit
  <2>3. \A o \in Others, p \in Parts : <<o, p>> \in others => Data(o, p) \in entered
    BY <1>2, DataMailIs DEF RelayInit
  <2>4. QED
    BY <2>1, <2>2, <2>3 DEF RelayInit, MailOK
<1>5. Sent(db, Given)
  BY <1>1 DEF EmptyDb, Sent
<1>6. KnownOK
  <2>1. FromOrigin = {}
    BY <1>2 DEF RelayInit, FromOrigin
  <2>2. queue[Origin] = {}
    BY TwoNodes DEF RelayInit
  <2>3. QED
    BY <2>1, <2>2 DEF RelayInit, KnownOK
<1>7. KeptOK
  BY FS_EmptySet DEF RelayInit, KeptOK, NoFile
<1>8. QED
  BY <1>1, <1>3, <1>4, <1>5, <1>6, <1>7 DEF RelayInv

LEMMA NextRelayInv ==
  RelayInv /\ [RelayNext]_allVars => RelayInv' /\ Grown(db, db')
<1> SUFFICES ASSUME RelayInv, [RelayNext]_allVars
             PROVE  RelayInv' /\ Grown(db, db')
  OBVIOUS
<1>1. IInv' /\ Grown(db, db')
  BY StepOfReceiver, NextIInv DEF RelayInv
<1>2. CASE UNCHANGED allVars
  BY <1>1, <1>2, InsideStep
<1>3. CASE RelayNext
  BY <1>1, <1>3, SendStep, RememberStep, HandOverStep, CallEnds, HandsOffStep,
     RouterFailsStep, AskStep, InsideStep, PublishStep, RecipientCrashStep,
     DeliverStep, OtherTakesStep, OtherPublishesStep, CollectReceiptStep,
     KeepReceiptStep, OriginCrashStep
  DEF RelayNext
<1>4. QED
  BY <1>1, <1>2, <1>3

-----------------------------------------------------------------------------
(* From a receipt back to what entered. *)
LEMMA PartEntered ==
  ASSUME NEW o \in Recipients, NEW q \in Parts, q.source = Origin,
         Data(o, q) \in entered
  PROVE  q.index \in Entered(o, q.manifest)
<1>1. PICK m : m = Data(o, q)
  OBVIOUS
<1>2. m \in entered /\ m.kind = "data" /\ m.from = Origin /\ m.to = o /\ m.body = q
  BY <1>1, DataTyped
<1>3. QED
  BY <1>2 DEF Entered, FromOrigin

LEMMA LeftHere ==
  ASSUME RelayInv, NEW i, NEW g, Reconstructed(Origin, i, g)
  PROVE  \E p \in Given :
           /\ p.source = Origin /\ p.manifest.id = i /\ p.manifest.digest = g
           /\ HeldAt(Recipient, p) \subseteq Entered(Recipient, p.manifest)
           /\ HeldAt(Recipient, p) \subseteq 0..(p.manifest.count - 1)
           /\ Enough(p.manifest, HeldAt(Recipient, p))
<1>1. PICK k : k = <<Origin, i>>
  OBVIOUS
<1>2. /\ k \in DOMAIN db.objects /\ db.objects[k].manifest.digest = g
      /\ Enough(db.objects[k].manifest, Have(db.parts, k))
  BY <1>1 DEF Reconstructed, Complete
<1>3. PICK p \in Given : KeyOf(p) = k /\ p.manifest = db.objects[k].manifest
  BY <1>2 DEF RelayInv, Sent
<1>4. p.source = Origin /\ p.manifest.id = i
  BY <1>1, <1>3 DEF KeyOf
<1>5. Have(db.parts, k) \subseteq Entered(Recipient, p.manifest)
  <2> SUFFICES ASSUME NEW x \in Have(db.parts, k)
               PROVE  x \in Entered(Recipient, p.manifest)
    OBVIOUS
  <2>1. PICK t \in db.parts : t[1] = k /\ t[2] = x
    BY HaveIs
  <2>2. PICK q \in Given : /\ KeyOf(q) = k /\ q.index = x
                           /\ q.manifest = db.objects[k].manifest
    BY <2>1 DEF RelayInv, Sent
  <2>3. q.source = Origin /\ q \in Parts /\ Data(Recipient, q) \in entered
    BY <1>1, <2>2 DEF KeyOf, Given
  <2>4. QED
    BY <1>3, <2>2, <2>3, PartEntered DEF Recipients
<1>6. HeldAt(Recipient, p) = Have(db.parts, k)
  BY <1>3 DEF HeldAt
<1>7. Have(db.parts, k) \subseteq 0..(p.manifest.count - 1)
  BY <1>2, <1>3 DEF RelayInv, IInv, DbOK, ObjectOK
<1>8. QED
  BY <1>2, <1>3, <1>4, <1>5, <1>6, <1>7

LEMMA SignedHereMeans ==
  ASSUME RelayInv, NEW m, SignedHere(m), m.body.destination = Origin
  PROVE  /\ <<Origin, m.body.id>> \in Complete(db)
         /\ db.objects[<<Origin, m.body.id>>].manifest.digest = m.body.digest
         /\ Reconstructed(Origin, m.body.id, m.body.digest)
<1>1. PICK k \in Complete(db) : m.body = Owed(db, k)
  BY DEF SignedHere
<1>2. /\ k[1] = Origin /\ k[2] = m.body.id
      /\ db.objects[k].manifest.digest = m.body.digest
  BY <1>1 DEF Owed
<1>3. Reconstructed(Origin, m.body.id, m.body.digest)
  BY <1>1, <1>2, CompleteIsReconstructed DEF RelayInv, IInv
<1>4. QED
  BY <1>3 DEF Reconstructed

LEMMA LeftElsewhere ==
  ASSUME RelayInv, NEW o \in Others, NEW p \in Parts, p.source = Origin,
         Enough(p.manifest, HasOf(o, p))
  PROVE  /\ HasOf(o, p) \subseteq Entered(o, p.manifest)
         /\ HasOf(o, p) \subseteq 0..(p.manifest.count - 1)
<1>1. ASSUME NEW x \in HasOf(o, p)
      PROVE  x \in Entered(o, p.manifest) /\ x \in 0..(p.manifest.count - 1)
  <2>1. PICK q \in Parts : /\ <<o, q>> \in others /\ KeyOf(q) = KeyOf(p)
                           /\ q.manifest = p.manifest /\ q.index = x
    BY HasOfIs
  <2>2. q.source = Origin /\ Data(o, q) \in entered
    BY <2>1 DEF KeyOf, RelayInv, MailOK
  <2>3. QED
    BY <2>1, <2>2, PartEntered, PartTyped DEF Recipients
<1>2. QED
  BY <1>1

(* Behind every receipt kept: who signed it, and the chunks he did it for. *)
SignedFor(i, m, p) ==
  /\ p.source = Origin /\ p.manifest.id = i /\ p.manifest.digest = m.body.digest
  /\ HeldAt(m.from, p) \subseteq Entered(m.from, p.manifest)
  /\ HeldAt(m.from, p) \subseteq 0..(p.manifest.count - 1)
  /\ Enough(p.manifest, HeldAt(m.from, p))

LEMMA KeptIsSigned ==
  ASSUME RelayInv, NEW i \in Ids, NEW m \in receipts[i].bytes
  PROVE  /\ m.body.id = i /\ m.body.destination = Origin
         /\ m.from = Recipient => Reconstructed(Origin, i, m.body.digest)
         /\ \E p \in Parts : SignedFor(i, m, p)
<1>1. m \in entered /\ m.kind = "receipt" /\ m.body.id = i /\ m.body.destination = Origin
  BY DEF RelayInv, KeptOK, Taken
<1>2. CASE SignedHere(m)
  <2>1. Reconstructed(Origin, i, m.body.digest)
    BY <1>1, <1>2, SignedHereMeans
  <2>2. PICK p \in Given :
          /\ p.source = Origin
          /\ p.manifest.id = i /\ p.manifest.digest = m.body.digest
          /\ HeldAt(Recipient, p) \subseteq Entered(Recipient, p.manifest)
          /\ HeldAt(Recipient, p) \subseteq 0..(p.manifest.count - 1)
          /\ Enough(p.manifest, HeldAt(Recipient, p))
    BY <2>1, LeftHere
  <2>3. p \in Parts /\ SignedFor(i, m, p)
    BY <1>2, <2>2 DEF SignedHere, Given, SignedFor
  <2>4. QED
    BY <1>1, <2>1, <2>3
<1>3. CASE \E o \in Others, p \in Parts : SignedBy(m, o, p)
  <2>1. PICK o, p : o \in Others /\ p \in Parts /\ SignedBy(m, o, p)
    BY <1>3
  <2>2. m.from = o /\ o # Recipient
    BY <2>1, RelayAssumption DEF SignedBy
  <2>3. m.body = ReceiptFor(p)
    BY <2>1 DEF SignedBy
  <2>4. /\ p.source = Origin /\ p.manifest.id = i
        /\ p.manifest.digest = m.body.digest
    BY <1>1, <2>3 DEF ReceiptFor
  <2>5. /\ HasOf(o, p) \subseteq Entered(o, p.manifest)
        /\ HasOf(o, p) \subseteq 0..(p.manifest.count - 1)
        /\ Enough(p.manifest, HasOf(o, p))
    BY <2>1, <2>4, LeftElsewhere DEF SignedBy
  <2>6. HeldAt(m.from, p) = HasOf(o, p)
    BY <2>2 DEF HeldAt
  <2>7. SignedFor(i, m, p)
    BY <2>2, <2>4, <2>5, <2>6 DEF SignedFor
  <2>8. QED
    BY <1>1, <2>1, <2>2, <2>7
<1>4. QED
  BY <1>1, <1>2, <1>3 DEF RelayInv, MailOK, Signed

LEMMA KeptIsProof == RelayInv => KeptReceiptIsProof
<1> SUFFICES ASSUME RelayInv, NEW i \in Ids, NEW m \in receipts[i].bytes
             PROVE  /\ m.body.id = i /\ m.body.destination = Origin
                    /\ m.from = Recipient => Reconstructed(Origin, i, m.body.digest)
                    /\ \E manifest \in {p.manifest : p \in Parts} :
                         /\ manifest.id = i /\ manifest.digest = m.body.digest
                         /\ Enough(manifest, Entered(m.from, manifest))
  BY DEF KeptReceiptIsProof
<1>1. PICK p \in Parts : SignedFor(i, m, p)
  BY KeptIsSigned
<1>2. /\ p.manifest.id = i /\ p.manifest.digest = m.body.digest
      /\ Enough(p.manifest, Entered(m.from, p.manifest))
  BY <1>1, EnoughOfMore DEF SignedFor
<1>3. QED
  BY <1>2, KeptIsSigned

LEMMA KeptIsForTheBytes == RelayInv => KeptReceiptIsForTheBytes
<1> SUFFICES ASSUME RelayInv, NEW i \in Ids, NEW m \in receipts[i].bytes
             PROVE  \E p \in Parts :
                      LET have == HeldAt(m.from, p) IN
                      /\ p.source = Origin /\ p.manifest.id = i
                      /\ have \subseteq Entered(m.from, p.manifest)
                      /\ Enough(p.manifest, have)
                      /\ BytesOf(p.manifest, have) = Content[m.body.digest]
  BY DEF KeptReceiptIsForTheBytes
<1>1. PICK p \in Parts : SignedFor(i, m, p)
  BY KeptIsSigned
<1>2. PICK have : have = HeldAt(m.from, p)
  OBVIOUS
<1>3. have \in SUBSET (0..(p.manifest.count - 1)) /\ Enough(p.manifest, have)
      /\ have \subseteq Entered(m.from, p.manifest)
      /\ p.source = Origin /\ p.manifest.id = i /\ p.manifest.digest = m.body.digest
  BY <1>1, <1>2 DEF SignedFor
<1>4. BytesOf(p.manifest, have) = Content[m.body.digest]
  BY <1>3, ChunksMakeTheObject
<1>5. QED
  BY <1>2, <1>3, <1>4

-----------------------------------------------------------------------------
(* Mail, files and memory are well formed, however the sessions fall. *)
THEOREM RelayTypeCorrect == RelaySpec => []RelayTypeOK
<1>1. RelayInv => RelayTypeOK
  BY DEF RelayInv
<1>2. QED
  BY <1>1, InitRelayInv, NextRelayInv, PTL DEF RelaySpec

(* A receipt that the origin keeps is of an object of which enough parts   *)
(* went in at a relay for the recipient who signed it, and that came out   *)
(* whole there: collect_receipt keeps no false proof of exit.              *)
THEOREM KeptReceiptsAreProofs == RelaySpec => []KeptReceiptIsProof
BY KeptIsProof, InitRelayInv, NextRelayInv, PTL DEF RelaySpec

(* And it is for the bytes of that object: those of its chunks that went   *)
(* in for the recipient, put together, are the content it names.           *)
THEOREM KeptReceiptsAreForTheBytes == RelaySpec => []KeptReceiptIsForTheBytes
BY KeptIsForTheBytes, InitRelayInv, NextRelayInv, PTL DEF RelaySpec

(* Nobody whose object a relay took is forgotten by a process of the       *)
(* origin, as long as load_recipients finds recipients.json whole.         *)
THEOREM RecipientsAreRemembered == RelaySpec => []SentToIsRemembered
<1>1. RelayInv => SentToIsRemembered
  BY DEF RelayInv, KnownOK, SentToIsRemembered
<1>2. QED
  BY <1>1, InitRelayInv, NextRelayInv, PTL DEF RelaySpec

(* send returns the handoff of a message of this origin that a relay took. *)
THEOREM SendReturnsAnEntry == RelaySpec => []SendNamesAnEntry
<1>1. RelayInv => SendNamesAnEntry
  BY DEF RelayInv, MailOK, SendNamesAnEntry
<1>2. QED
  BY <1>1, InitRelayInv, NextRelayInv, PTL DEF RelaySpec

-----------------------------------------------------------------------------
(* What becomes of the files in receipts/. *)
LEMMA StepsOnReceipts ==
  ASSUME [RelayNext]_allVars
  PROVE  \/ UNCHANGED kept
         \/ \E r \in Relays : \E m \in stored[r] : CollectReceipt(m)
         \/ KeepReceipt
         \/ OriginCrash
BY DEF RelayNext, allVars, Send, Remember, NoPath, HandOver, SendReturns,
   SendTimesOut, HandsOff, RouterFails, Fetch, Collect, Deliver, Inside,
   Publish, OtherTakes, OtherPublishes, RecipientCrash

LEMMA OtherFilesStay ==
  ASSUME RelayTypeOK, NEW i \in Ids, NEW f, receipts' = [receipts EXCEPT ![i] = f]
  PROVE  receipts'[i] = f /\ \A j \in Ids : j # i => receipts'[j] = receipts[j]
BY DEF RelayTypeOK

(* A file with bytes in it passes, or is a mix of two. *)
LEMMA WrittenIsSound ==
  ASSUME RelayInv, NEW i \in Ids, receipts[i].bytes # {}
  PROVE  ReceiptSound(i)
<1>1. PICK m \in receipts[i].bytes : TRUE
  OBVIOUS
<1>2. CASE receipts[i].bytes = {m}
  <2>1. m \in Whole(receipts[i])
    BY <1>2 DEF Whole
  <2>2. m \in ProofMail
    BY <1>1 DEF RelayInv, RelayTypeOK, File
  <2>3. PICK expires \in Nat : expires = m.body.expires
    BY <2>2, ProofMailIs
  <2>4. expires - 1 < expires
    OBVIOUS
  <2>5. Taken(m)
    BY <1>1 DEF RelayInv, KeptOK
  <2>6. ASSUME saved.whole PROVE ReceiptCheck(m)
    <3>1. /\ m.kind = "receipt" /\ m.to = Origin /\ m.body.destination = Origin
          /\ m.from \in saved.who
      BY <2>5, <2>6 DEF Taken, RelayInv, KnownOK
    <3>2. Authenticates(m, m.from, m.body.expires - 1)
      BY <2>3, <2>4, <3>1 DEF Authenticates
    <3>3. QED
      BY <3>1, <3>2 DEF ReceiptCheck
  <2>7. QED
    BY <2>1, <2>6 DEF ReceiptSound
<1>3. CASE receipts[i].bytes # {m}
  <2>1. IsFiniteSet(receipts[i].bytes)
    BY DEF RelayInv, KeptOK
  <2>2. PICK n : n = Cardinality(receipts[i].bytes)
    OBVIOUS
  <2>3. n \in Nat /\ n # 0 /\ n # 1
    BY <1>1, <1>3, <2>1, <2>2, FS_CardinalityType, FS_EmptySet, FS_Singleton
  <2>4. n > 1
    BY <2>3
  <2>5. QED
    BY <2>2, <2>4 DEF ReceiptSound
<1>4. QED
  BY <1>2, <1>3

(* So one that does not was left empty. *)
SoundIs ==
  \A i \in Ids :
    ReceiptSound(i) <=> ~receipts[i].there \/ BeingKept(i) \/ receipts[i].bytes # {}

LEMMA UnsoundIsEmpty == RelayInv => SoundIs
<1> SUFFICES ASSUME RelayInv, NEW i \in Ids
             PROVE  ReceiptSound(i) <=>
                      ~receipts[i].there \/ BeingKept(i) \/ receipts[i].bytes # {}
  BY DEF SoundIs
<1>1. Cardinality({}) = 0 /\ Whole([there |-> TRUE, bytes |-> {}]) = {}
  BY FS_EmptySet DEF Whole
<1>2. ReceiptSound(i) => ~receipts[i].there \/ BeingKept(i) \/ receipts[i].bytes # {}
  BY <1>1 DEF ReceiptSound, Whole
<1>3. QED
  BY <1>2, WrittenIsSound DEF ReceiptSound

(* The audit goes on passing a receipt, unless the process dies in the     *)
(* middle of writing it, when its file was emptied already.                *)
THEOREM KeptReceiptsRecheck == RelaySpec => ReceiptsRecheck
<1>1. RelayInv /\ RelayInv' /\ [RelayNext]_allVars =>
        [\A i \in Ids : ReceiptSound(i) /\ ~(OriginCrash /\ BeingKept(i))
                          => ReceiptSound(i)']_allVars
  <2>0. RelayInv /\ RelayInv' => SoundIs /\ SoundIs'
    BY UnsoundIsEmpty, PTL
  <2> SUFFICES ASSUME RelayInv, RelayInv', [RelayNext]_allVars, NEW i \in Ids,
                      ~receipts[i].there \/ BeingKept(i) \/ receipts[i].bytes # {},
                      ~(OriginCrash /\ BeingKept(i)),
                      receipts'[i].there, receipts'[i].bytes = {}
               PROVE  BeingKept(i)'
    BY <2>0 DEF SoundIs
  <2>1. CASE UNCHANGED kept
    BY <2>1 DEF kept, BeingKept
  <2>2. CASE OriginCrash
    BY <2>2 DEF OriginCrash
  <2>3. CASE \E r \in Relays : \E m \in stored[r] : CollectReceipt(m)
    <3>1. PICK r \in Relays : \E m \in stored[r] : CollectReceipt(m)
      BY <2>3
    <3>2. PICK m \in stored[r] : CollectReceipt(m)
      BY <3>1
    <3>3. /\ m.body.id \in Ids /\ keeping' = keeping \cup {m}
          /\ receipts' = [receipts EXCEPT ![m.body.id] = Emptied]
      BY <3>2, CollectTakes DEF CollectReceipt
    <3>4. CASE i = m.body.id
      BY <3>3, <3>4 DEF BeingKept
    <3>5. CASE i # m.body.id
      <4>1. receipts'[i] = receipts[i]
        BY <3>3, <3>5, OtherFilesStay DEF RelayInv
      <4>2. QED
        BY <3>3, <4>1 DEF BeingKept
    <3>6. QED
      BY <3>4, <3>5
  <2>4. CASE KeepReceipt
    <3>1. PICK m, f : Keeps(m, f)
      BY <2>4, KeepReceiptIs
    <3>2. i # m.body.id
      <4>1. i = m.body.id => receipts'[i] = f
        BY <3>1, OtherFilesStay DEF Keeps, RelayInv
      <4>2. QED
        BY <3>1, <4>1 DEF Keeps
    <3>3. receipts'[i] = receipts[i]
      BY <3>1, <3>2, OtherFilesStay DEF Keeps, RelayInv
    <3>4. BeingKept(i)
      BY <3>3
    <3>5. QED
      BY <3>1, <3>2, <3>4 DEF BeingKept, Keeps
  <2>5. QED
    BY <2>1, <2>2, <2>3, <2>4, StepsOnReceipts
<1>2. QED
  BY <1>1, InitRelayInv, NextRelayInv, PTL DEF RelaySpec, ReceiptsRecheck

(* Recipient signs one digest only under an id of the origin. *)
LEMMA OneExit ==
  ASSUME RelayInv, NEW m, NEW n, Taken(m), Taken(n), m.body.id = n.body.id,
         m.from = Recipient, n.from = Recipient
  PROVE  n.body.digest = m.body.digest
<1>1. ASSUME NEW x, Taken(x), x.from = Recipient
      PROVE  SignedHere(x) /\ x.body.destination = Origin
  <2>1. Signed(x)
    BY <1>1 DEF Taken, RelayInv, MailOK
  <2>2. \A o \in Others, p \in Parts : ~SignedBy(x, o, p)
    BY <1>1, RelayAssumption DEF SignedBy
  <2>3. QED
    BY <1>1, <2>1, <2>2 DEF Signed, Taken
<1>2. QED
  BY <1>1, SignedHereMeans

(* A whole receipt gives way only to another that was taken for the same   *)
(* id, and one that Recipient signed to none of his over other content,    *)
(* whatever is delivered late or more than once.                           *)
THEOREM ProofsAreStable == RelaySpec => ProofOfExitIsStable
<1>1. RelayInv /\ [RelayNext]_allVars =>
        [\A i \in Ids : \A m \in Whole(receipts[i]) :
           m \in Whole(receipts'[i])
             \/ \E n \in keeping \cup keeping' :
                  /\ n.body.id = i
                  /\ m.from = Recipient /\ n.from = Recipient
                       => n.body.digest = m.body.digest]_allVars
  <2> SUFFICES ASSUME RelayInv, [RelayNext]_allVars, NEW i \in Ids,
                      NEW m \in Whole(receipts[i]), receipts'[i] # receipts[i]
               PROVE  \E n \in keeping \cup keeping' :
                        /\ n.body.id = i
                        /\ m.from = Recipient /\ n.from = Recipient
                             => n.body.digest = m.body.digest
    OBVIOUS
  <2>1. Taken(m) /\ m.body.id = i
    BY DEF Whole, RelayInv, KeptOK
  <2>2. \E n \in keeping \cup keeping' : n.body.id = i /\ Taken(n)
    <3>1. CASE \E r \in Relays : \E n \in stored[r] : CollectReceipt(n)
      <4>1. PICK r \in Relays : \E n \in stored[r] : CollectReceipt(n)
        BY <3>1
      <4>2. PICK n \in stored[r] : CollectReceipt(n)
        BY <4>1
      <4>3. /\ n.body.id \in Ids /\ Taken(n) /\ keeping' = keeping \cup {n}
            /\ receipts' = [receipts EXCEPT ![n.body.id] = Emptied]
        BY <4>2, CollectTakes DEF CollectReceipt
      <4>4. i = n.body.id
        BY <4>3, OtherFilesStay DEF RelayInv
      <4>5. QED
        BY <4>3, <4>4
    <3>2. CASE KeepReceipt
      <4>1. PICK n, f : Keeps(n, f)
        BY <3>2, KeepReceiptIs
      <4>2. i = n.body.id
        BY <4>1, OtherFilesStay DEF RelayInv, Keeps
      <4>3. Taken(n) /\ n \in keeping
        BY <4>1 DEF Keeps, RelayInv, KeptOK
      <4>4. QED
        BY <4>2, <4>3
    <3>3. QED
      BY <3>1, <3>2, StepsOnReceipts DEF kept, OriginCrash
  <2>3. QED
    BY <2>1, <2>2, OneExit
<1>2. QED
  BY <1>1, InitRelayInv, NextRelayInv, PTL DEF RelaySpec, ProofOfExitIsStable

-----------------------------------------------------------------------------
(* Entry and exit: the state of EntryAndExit, and the steps it can take.   *)
AbstractEntered ==
  {ObjectFor(m.to, m.body.manifest.id, m.body.manifest.digest) : m \in FromOrigin}
AbstractProofs ==
  [i \in Ids |-> {ObjectFor(m.from, i, m.body.digest) : m \in Whole(receipts[i])}]
AbstractStep == [EE!Next]_(EE!vars)

LeftHereAs(x) ==
  \E k \in Complete(db) :
    k[1] = Origin /\ x = ObjectFor(Recipient, k[2], db.objects[k].manifest.digest)
LeftAs(x, o, p) ==
  /\ <<o, p>> \in others /\ p.source = Origin
  /\ Enough(p.manifest, HasOf(o, p))
  /\ x = ObjectFor(o, p.manifest.id, p.manifest.digest)
LeftIs ==
  \A x : x \in Left <=> \/ LeftHereAs(x)
                        \/ \E o \in Others, p \in Parts : LeftAs(x, o, p)

LEMMA MembersOfLeft == RelayTypeOK => LeftIs
<1> SUFFICES ASSUME RelayTypeOK, NEW x
             PROVE  x \in Left <=> \/ LeftHereAs(x)
                                   \/ \E o \in Others, p \in Parts : LeftAs(x, o, p)
  BY DEF LeftIs
<1>1. others \subseteq Others \X Parts
  BY DEF RelayTypeOK
<1>2. ASSUME NEW q \in others, q[2].source = Origin,
             Enough(q[2].manifest, HasOf(q[1], q[2])),
             x = ObjectFor(q[1], q[2].manifest.id, q[2].manifest.digest)
      PROVE  \E o \in Others, p \in Parts : LeftAs(x, o, p)
  <2>1. q[1] \in Others /\ q[2] \in Parts /\ <<q[1], q[2]>> \in others
    BY <1>1
  <2>2. LeftAs(x, q[1], q[2])
    BY <1>2, <2>1 DEF LeftAs
  <2>3. QED
    BY <2>1, <2>2
<1>3. ASSUME NEW o \in Others, NEW p \in Parts, LeftAs(x, o, p)
      PROVE  \E q \in others :
               /\ q[2].source = Origin /\ Enough(q[2].manifest, HasOf(q[1], q[2]))
               /\ x = ObjectFor(q[1], q[2].manifest.id, q[2].manifest.digest)
  <2>1. PICK q : q = <<o, p>>
    OBVIOUS
  <2>2. q[1] = o /\ q[2] = p
    BY <2>1
  <2>3. QED
    BY <1>3, <2>1, <2>2 DEF LeftAs
<1>4. x \in Left <=>
        \/ LeftHereAs(x)
        \/ \E q \in others :
             /\ q[2].source = Origin /\ Enough(q[2].manifest, HasOf(q[1], q[2]))
             /\ x = ObjectFor(q[1], q[2].manifest.id, q[2].manifest.digest)
  BY Zenon DEF Left, LeftHereAs
<1>5. QED
  BY <1>2, <1>3, <1>4

LEMMA ObjectTyped ==
  ASSUME NEW to \in Recipients, NEW id \in Ids, NEW digest \in Digests
  PROVE  /\ ObjectFor(to, id, digest) \in [to : Recipients, id : Ids, digest : Digests]
         /\ ObjectFor(to, id, digest).id = id
BY DEF ObjectFor

LEMMA Stutters ==
  ASSUME AbstractEntered' = AbstractEntered, Left' = Left,
         AbstractProofs' = AbstractProofs
  PROVE  AbstractStep
BY DEF AbstractStep, EE!vars, AbstractEntered, AbstractProofs

LEMMA LeftSame ==
  ASSUME db' = db, others' = others
  PROVE  Left' = Left
BY DEF Left, HasOf, Complete

LEMMA ProofsSame ==
  ASSUME receipts' = receipts
  PROVE  AbstractProofs' = AbstractProofs
BY DEF AbstractProofs

LEMMA EnteredSame ==
  ASSUME FromOrigin' = FromOrigin
  PROVE  AbstractEntered' = AbstractEntered
BY DEF AbstractEntered

LEMMA Leaves ==
  ASSUME entered' = entered, receipts' = receipts,
         NEW x \in [to : Recipients, id : Ids, digest : Digests],
         Left \subseteq Left',
         \A y \in Left' : y \in Left \/ y = x,
         x \in Left' \ Left => x \in AbstractEntered
  PROVE  AbstractStep
<1>1. AbstractEntered' = AbstractEntered /\ AbstractProofs' = AbstractProofs
  BY EnteredSame, ProofsSame DEF FromOrigin
<1>2. CASE x \in Left' \ Left
  <2>1. Left' = Left \cup {x}
    BY <1>2
  <2>2. EE!Leave(x)
    BY <1>1, <1>2, <2>1 DEF EE!Leave, AbstractEntered, AbstractProofs
  <2>3. QED
    BY <1>2, <2>2 DEF AbstractStep, EE!Next
<1>3. CASE x \notin Left' \ Left
  <2>1. Left' = Left
    BY <1>3
  <2>2. QED
    BY <1>1, <2>1, Stutters
<1>4. QED
  BY <1>2, <1>3

LEMMA InEntered ==
  ASSUME NEW o \in Recipients, NEW p \in Parts, p.source = Origin,
         Data(o, p) \in entered
  PROVE  ObjectFor(o, p.manifest.id, p.manifest.digest) \in AbstractEntered
<1>1. PICK m : m = Data(o, p)
  OBVIOUS
<1>2. m \in FromOrigin /\ m.to = o /\ m.body = p
  BY <1>1, DataTyped DEF FromOrigin
<1>3. QED
  BY <1>2 DEF AbstractEntered

(* A part that completes an object at Recipient. *)
LEMMA DeliverLeaves ==
  ASSUME RelayInv, RelayInv', Grown(db, db'), NEW p \in Parts, Deliver(p)
  PROVE  AbstractStep
<1>1. PICK k, x : /\ k = KeyOf(p)
                  /\ x = ObjectFor(Recipient, p.manifest.id, p.manifest.digest)
  OBVIOUS
<1>2. k[1] = p.source /\ k[2] = p.manifest.id
  BY <1>1 DEF KeyOf
<1>3. /\ db' = AcceptVerified(db, p)
      /\ UNCHANGED <<entered, others, receipts>>
  BY DEF Deliver, Receive, network, kept
<1>4. Data(Recipient, p) \in entered
  <2>1. PICK r \in Relays : Data(Recipient, p) \in stored[r]
    BY TwoNodes DEF Deliver, Offered, RelayInv, RelayTypeOK
  <2>2. QED
    BY <2>1 DEF RelayInv, MailOK
<1>5. /\ \A j \in Complete(db) : /\ j \in Complete(db')
                                 /\ db'.objects[j].manifest = db.objects[j].manifest
      /\ \A j \in Complete(db') :
           j \in Complete(db) \/ (j = k /\ db'.objects[k].manifest = p.manifest)
  <2>1. CASE ~Accepts(db, p)
    BY <1>3, <2>1 DEF AcceptVerified
  <2>2. CASE Accepts(db, p)
    <3>1. /\ DOMAIN db'.objects = DOMAIN db.objects \cup {k}
          /\ db'.objects[k].manifest = p.manifest
          /\ \A j \in DOMAIN db.objects : j # k => db'.objects[j] = db.objects[j]
      BY <1>1, <1>3, <2>2 DEF AcceptVerified, Enter
    <3>2. QED
      BY <3>1 DEF Complete, Grown
  <2>3. QED
    BY <2>1, <2>2
<1>6. LeftIs /\ LeftIs'
  BY MembersOfLeft, PTL DEF RelayInv
<1>7. \A y, o, q : LeftAs(y, o, q)' <=> LeftAs(y, o, q)
  BY <1>3 DEF LeftAs, HasOf
<1>8. ASSUME NEW y \in Left PROVE y \in Left'
  <2>1. LeftHereAs(y) => LeftHereAs(y)'
    BY <1>5 DEF LeftHereAs
  <2>2. QED
    BY <1>6, <1>7, <2>1 DEF LeftIs
<1>9. ASSUME NEW y \in Left', y \notin Left
      PROVE  y = x /\ p.source = Origin
  <2>1. LeftHereAs(y)' /\ ~LeftHereAs(y)
    BY <1>6, <1>7, <1>9 DEF LeftIs
  <2>2. PICK j \in Complete(db') :
          /\ j[1] = Origin
          /\ y = ObjectFor(Recipient, j[2], db'.objects[j].manifest.digest)
    BY <2>1 DEF LeftHereAs
  <2>3. j \notin Complete(db)
    BY <1>5, <2>1, <2>2 DEF LeftHereAs
  <2>4. QED
    BY <1>1, <1>2, <1>5, <2>2, <2>3
<1>10. x \in [to : Recipients, id : Ids, digest : Digests]
  BY <1>1, PartTyped, ObjectTyped DEF Recipients
<1>11. x \in Left' \ Left => x \in AbstractEntered
  BY <1>1, <1>4, <1>9, InEntered DEF Recipients
<1>12. QED
  BY <1>3, <1>8, <1>9, <1>10, <1>11, Leaves

(* A part that completes an object at another recipient. *)
LEMMA OtherLeaves ==
  ASSUME RelayInv, RelayInv', NEW o \in Others, NEW p \in Parts, OtherTakes(o, p)
  PROVE  AbstractStep
<1>1. PICK x : x = ObjectFor(o, p.manifest.id, p.manifest.digest)
  OBVIOUS
<1>2. /\ others' = others \cup {<<o, p>>}
      /\ UNCHANGED <<db, entered, receipts, keeping>>
  BY DEF OtherTakes, vars, network, kept
<1>3. Data(o, p) \in entered
  BY DEF OtherTakes, RelayInv, MailOK
<1>4. LeftIs /\ LeftIs'
  BY MembersOfLeft, PTL DEF RelayInv
<1>5. \A y : LeftHereAs(y)' <=> LeftHereAs(y)
  BY <1>2 DEF LeftHereAs, Complete
<1>6. ASSUME NEW y \in Left PROVE y \in Left'
  <2>1. ASSUME NEW a \in Others, NEW b \in Parts, LeftAs(y, a, b)
        PROVE  LeftAs(y, a, b)'
    <3>1. Enough(b.manifest, HasOf(a, b)')
      BY <1>2, <2>1, HasOfGrows, EnoughOfMore DEF LeftAs
    <3>2. QED
      BY <1>2, <2>1, <3>1 DEF LeftAs
  <2>2. QED
    BY <1>4, <1>5, <2>1 DEF LeftIs
<1>7. ASSUME NEW y \in Left', y \notin Left
      PROVE  y = x /\ p.source = Origin
  <2>1. PICK a, b : a \in Others /\ b \in Parts /\ LeftAs(y, a, b)'
    BY <1>4, <1>5, <1>7 DEF LeftIs
  <2>2. /\ <<a, b>> \in others' /\ b.source = Origin
        /\ Enough(b.manifest, HasOf(a, b)')
        /\ y = ObjectFor(a, b.manifest.id, b.manifest.digest)
    BY <2>1 DEF LeftAs
  <2>3. ~LeftAs(y, a, b)
    BY <1>4, <1>7, <2>1 DEF LeftIs
  <2>4. CASE a = o /\ KeyOf(b) = KeyOf(p) /\ b.manifest = p.manifest
    BY <1>1, <2>2, <2>4 DEF KeyOf
  <2>5. CASE ~(a = o /\ KeyOf(b) = KeyOf(p) /\ b.manifest = p.manifest)
    <3>1. \A q : <<a, q>> \in others' => <<a, q>> \in others \/ (a = o /\ q = p)
      BY <1>2
    <3>2. <<a, b>> \in others
      BY <2>2, <2>5, <3>1
    <3>3. \A i : i \in HasOf(a, b)' => i \in HasOf(a, b)
      BY <2>5, <3>1, HasOfIs, HasOfIsNext
    <3>4. Enough(b.manifest, HasOf(a, b))
      BY <2>2, <3>3, EnoughOfMore
    <3>5. QED
      BY <2>2, <2>3, <3>2, <3>4 DEF LeftAs
  <2>6. QED
    BY <2>4, <2>5
<1>8. x \in [to : Recipients, id : Ids, digest : Digests]
  BY <1>1, PartTyped, ObjectTyped DEF Recipients
<1>9. x \in Left' \ Left => x \in AbstractEntered
  BY <1>1, <1>3, <1>7, InEntered DEF Recipients
<1>10. QED
  BY <1>2, <1>6, <1>7, <1>8, <1>9, Leaves

(* A mail that a relay takes, if it is the origin's. *)
LEMMA Enters ==
  ASSUME RelayInv, UNCHANGED <<db, others, receipts>>,
         NEW m, entered' = entered \cup {m},
         m \in DataMail => m.from = Origin,
         m \in DataMail \/ m.kind = "receipt"
  PROVE  AbstractStep
<1>1. Left' = Left /\ AbstractProofs' = AbstractProofs
  BY LeftSame, ProofsSame
<1>2. CASE m.kind = "receipt"
  <2>1. FromOrigin' = FromOrigin
    BY <1>2 DEF FromOrigin
  <2>2. QED
    BY <1>1, <2>1, EnteredSame, Stutters
<1>3. CASE m \in DataMail
  <2>1. PICK x : x = ObjectFor(m.to, m.body.manifest.id, m.body.manifest.digest)
    OBVIOUS
  <2>2. m.kind = "data" /\ m.from = Origin /\ m.to \in Recipients /\ m.body \in Parts
    BY <1>3, DataMailIs
  <2>3. x \in [to : Recipients, id : Ids, digest : Digests]
    BY <2>1, <2>2, PartTyped, ObjectTyped
  <2>4. FromOrigin' = FromOrigin \cup {m}
    BY <2>2 DEF FromOrigin
  <2>5. AbstractEntered' = AbstractEntered \cup {x}
    BY <2>1, <2>4 DEF AbstractEntered
  <2>6. EE!Enter(x)
    BY <1>1, <2>5 DEF EE!Enter, AbstractEntered, AbstractProofs
  <2>7. CASE x \in AbstractEntered
    BY <1>1, <2>5, <2>7, Stutters
  <2>8. CASE x \notin AbstractEntered
    BY <2>5, <2>6, <2>8 DEF AbstractStep, EE!Next, AbstractEntered
  <2>9. QED
    BY <2>7, <2>8
<1>4. QED
  BY <1>2, <1>3

LEMMA HandsOffEnters ==
  ASSUME RelayInv, NEW n \in Nodes, NEW known \in BOOLEAN, HandsOff(n, known)
  PROVE  AbstractStep
<1>1. PICK q \in queue[n] : entered' = entered \cup {q.mail}
  BY DEF HandsOff
<1>2. UNCHANGED <<db, others, receipts>>
  BY DEF HandsOff, vars, kept
<1>3. CASE n = Origin
  BY <1>1, <1>2, <1>3, QueueTyped, Enters DEF RelayInv, MailOK
<1>4. CASE n = Recipient
  <2>1. q.mail.kind = "receipt" /\ q.mail \notin DataMail
    BY <1>1, <1>4, QueueTyped, ProofMailIs, DataMailIs DEF RelayInv
  <2>2. QED
    BY <1>1, <1>2, <2>1, Enters
<1>5. QED
  BY <1>3, <1>4 DEF Nodes

LEMMA OtherPublishesEnters ==
  ASSUME RelayInv, NEW o \in Others, NEW p \in Parts, NEW to \in Contacts,
         NEW r \in Relays, OtherPublishes(o, p, to, r)
  PROVE  AbstractStep
<1>1. PICK m : m = Proof(o, to, ReceiptFor(p))
  OBVIOUS
<1>2. m.kind = "receipt" /\ m \notin DataMail
  <2>1. m.kind = "receipt"
    BY <1>1 DEF Proof
  <2>2. QED
    BY <2>1, DataMailIs
<1>3. entered' = entered \cup {m} /\ UNCHANGED <<db, others, receipts>>
  BY <1>1 DEF OtherPublishes, vars, kept
<1>4. QED
  BY <1>2, <1>3, Enters

(* What a receipt at a relay says has left has left. *)
LEMMA SignedMeansLeft ==
  ASSUME RelayInv, NEW m \in entered, m.kind = "receipt",
         m.body.destination = Origin
  PROVE  ObjectFor(m.from, m.body.id, m.body.digest) \in Left
<1>1. PICK x : x = ObjectFor(m.from, m.body.id, m.body.digest)
  OBVIOUS
<1>2. LeftIs
  BY MembersOfLeft DEF RelayInv
<1>3. CASE SignedHere(m)
  <2>1. PICK k : k = <<Origin, m.body.id>>
    OBVIOUS
  <2>2. /\ k \in Complete(db) /\ db.objects[k].manifest.digest = m.body.digest
        /\ k[1] = Origin /\ k[2] = m.body.id
    BY <1>3, <2>1, SignedHereMeans
  <2>3. LeftHereAs(x)
    BY <1>1, <1>3, <2>2 DEF SignedHere, LeftHereAs
  <2>4. QED
    BY <1>1, <1>2, <2>3 DEF LeftIs
<1>4. CASE \E o \in Others, p \in Parts : SignedBy(m, o, p)
  <2>1. PICK o, p : o \in Others /\ p \in Parts /\ SignedBy(m, o, p)
    BY <1>4
  <2>2. m.from = o /\ m.body = ReceiptFor(p)
    BY <2>1 DEF SignedBy
  <2>3. /\ p.source = Origin /\ p.manifest.id = m.body.id
        /\ p.manifest.digest = m.body.digest
    BY <2>2 DEF ReceiptFor
  <2>4. LeftAs(x, o, p)
    BY <1>1, <2>1, <2>2, <2>3 DEF SignedBy, LeftAs
  <2>5. QED
    BY <1>1, <1>2, <2>1, <2>4 DEF LeftIs
<1>5. QED
  BY <1>3, <1>4 DEF RelayInv, MailOK, Signed

(* What a receipt that was taken speaks of. *)
LEMMA TakenMeansLeft ==
  ASSUME RelayInv, NEW m \in ProofMail, Taken(m)
  PROVE  \E x \in Left : /\ x = ObjectFor(m.from, m.body.id, m.body.digest)
                         /\ x \in [to : Recipients, id : Ids, digest : Digests]
                         /\ x.id = m.body.id
<1>1. PICK x : x = ObjectFor(m.from, m.body.id, m.body.digest)
  OBVIOUS
<1>2. x \in Left
  BY <1>1, SignedMeansLeft DEF Taken
<1>3. x \in [to : Recipients, id : Ids, digest : Digests] /\ x.id = m.body.id
  BY <1>1, ProofMailIs, ObjectTyped
<1>4. QED
  BY <1>1, <1>2, <1>3

LEMMA CollectReceiptGivesUp ==
  ASSUME RelayInv, NEW r \in Relays, NEW m \in stored[r], CollectReceipt(m)
  PROVE  AbstractStep
<1>1. PICK i \in Ids : i = m.body.id
  BY CollectTakes
<1>2. PICK x \in Left :
        x \in [to : Recipients, id : Ids, digest : Digests] /\ x.id = i
  BY <1>1, CollectTakes, TakenMeansLeft
<1>3. receipts' = [receipts EXCEPT ![i] = Emptied]
  BY <1>1 DEF CollectReceipt
<1>4. AbstractProofs' = [AbstractProofs EXCEPT ![x.id] = {}]
  <2>1. receipts'[i] = Emptied /\ \A j \in Ids : j # i => receipts'[j] = receipts[j]
    BY <1>3, OtherFilesStay DEF RelayInv
  <2>2. Whole(Emptied) = {}
    BY DEF Whole, Emptied
  <2>3. QED
    BY <1>2, <2>1, <2>2 DEF AbstractProofs
<1>5. UNCHANGED <<db, entered, others>>
  BY DEF CollectReceipt, vars, network
<1>6. Left' = Left /\ AbstractEntered' = AbstractEntered
  BY <1>5, LeftSame, EnteredSame DEF FromOrigin
<1>7. EE!GiveUp(x)
  BY <1>4, <1>6 DEF EE!GiveUp, AbstractEntered, AbstractProofs
<1>8. QED
  BY <1>7 DEF AbstractStep, EE!Next

LEMMA KeepReceiptProves ==
  ASSUME RelayInv, KeepReceipt
  PROVE  AbstractStep
<1>1. PICK m, f : Keeps(m, f)
  BY KeepReceiptIs
<1>2. PICK i \in Ids : i = m.body.id
  BY <1>1 DEF Keeps
<1>3. m \in ProofMail /\ Taken(m)
  BY <1>1 DEF Keeps, RelayInv, KeptOK
<1>4. PICK x \in Left :
        x = ObjectFor(m.from, i, m.body.digest) /\ x.id = i
  BY <1>2, <1>3, TakenMeansLeft
<1>5. receipts'[i] = f /\ \A j \in Ids : j # i => receipts'[j] = receipts[j]
  BY <1>1, <1>2, OtherFilesStay DEF Keeps, RelayInv
<1>6. Whole(f) = {m} \/ Whole(f) = {}
  BY <1>1 DEF Keeps, Whole
<1>7. \/ AbstractProofs' = [AbstractProofs EXCEPT ![x.id] = {x}]
      \/ AbstractProofs' = [AbstractProofs EXCEPT ![x.id] = {}]
  <2>1. CASE Whole(f) = {m}
    <3>1. {ObjectFor(n.from, i, n.body.digest) : n \in Whole(f)} = {x}
      BY <1>4, <2>1
    <3>2. PICK P : P = [j \in Ids |-> {ObjectFor(n.from, j, n.body.digest) :
                                         n \in Whole(receipts'[j])}]
      OBVIOUS
    <3>3. P[i] = {x} /\ \A j \in Ids : j # i => P[j] = AbstractProofs[j]
      BY <1>5, <3>1, <3>2 DEF AbstractProofs
    <3>4. P = [AbstractProofs EXCEPT ![i] = {x}]
      BY <3>2, <3>3 DEF AbstractProofs
    <3>5. AbstractProofs' = P
      BY <3>2 DEF AbstractProofs
    <3>6. QED
      BY <1>4, <3>4, <3>5
  <2>2. CASE Whole(f) = {}
    BY <1>4, <1>5, <2>2 DEF AbstractProofs
  <2>3. QED
    BY <1>6, <2>1, <2>2
<1>8. UNCHANGED <<db, entered, others>>
  BY DEF KeepReceipt, vars, network
<1>9. Left' = Left /\ AbstractEntered' = AbstractEntered
  BY <1>8, LeftSame, EnteredSame DEF FromOrigin
<1>10. EE!Prove(x) \/ EE!GiveUp(x)
  BY <1>7, <1>9 DEF EE!Prove, EE!GiveUp, AbstractEntered, AbstractProofs
<1>11. QED
  BY <1>10 DEF AbstractStep, EE!Next

LEMMA RestStutters ==
  ASSUME UNCHANGED <<db, entered, others, receipts>>
  PROVE  AbstractStep
BY LeftSame, ProofsSame, EnteredSame, Stutters DEF FromOrigin

LEMMA EveryStepIsAbstract ==
  RelayInv /\ RelayInv' /\ Grown(db, db') /\ [RelayNext]_allVars => AbstractStep
<1> SUFFICES ASSUME RelayInv, RelayInv', Grown(db, db'), [RelayNext]_allVars
             PROVE  AbstractStep
  OBVIOUS
<1>1. CASE \E n \in Nodes, known \in BOOLEAN : HandsOff(n, known)
  BY <1>1, HandsOffEnters
<1>2. CASE \E p \in Parts : Deliver(p)
  BY <1>2, DeliverLeaves
<1>3. CASE \E o \in Others, p \in Parts : OtherTakes(o, p)
  BY <1>3, OtherLeaves
<1>4. CASE \E o \in Others, p \in Parts, to \in Contacts, r \in Relays :
             OtherPublishes(o, p, to, r)
  BY <1>4, OtherPublishesEnters
<1>5. CASE \E r \in Relays : \E m \in stored[r] : CollectReceipt(m)
  BY <1>5, CollectReceiptGivesUp
<1>6. CASE UNCHANGED <<db, entered, others, receipts>>
  BY <1>6, RestStutters
<1>7. CASE \/ \E e \in Errands, r \in Relays, l \in Labels : Send(e, r, l)
           \/ Remember \/ NoPath \/ HandOver \/ SendReturns \/ SendTimesOut
           \/ \E n \in Nodes : RouterFails(n)
           \/ \E r \in Relays : Collect(r)
           \/ OriginCrash \/ UNCHANGED allVars
  BY <1>6, <1>7
  DEF allVars, vars, network, kept, Send, Remember, NoPath, HandOver, SendReturns,
      SendTimesOut, RouterFails, Collect, OriginCrash
<1>8. CASE \/ \E r \in Relays : Fetch(r)
           \/ \E to \in Contacts, r \in Relays : Publish(to, r)
           \/ Inside(ReadContent) \/ Inside(OpenOutput) \/ Inside(WriteOutput)
           \/ Inside(OpenEnvelope) \/ Inside(WriteEnvelope)
           \/ Inside(FetchReturns) \/ Inside(FetchTimesOut) \/ Inside(Tick)
           \/ RecipientCrash
  BY <1>6, <1>8
  DEF network, kept, vars, Fetch, FetchBegins, Publish, Inside, ReadContent,
      OpenOutput, WriteOutput, OpenEnvelope, WriteEnvelope, FetchReturns,
      FetchTimesOut, Tick, RecipientCrash, Crash
<1>9. CASE KeepReceipt
  BY <1>9, KeepReceiptProves
<1>10. QED
  BY <1>1, <1>2, <1>3, <1>4, <1>5, <1>7, <1>8, <1>9 DEF RelayNext

(* Delivery through relays implements entry and exit: the origin never     *)
(* holds a proof of exit for what did not leave, nor does anything leave   *)
(* that did not enter.                                                     *)
THEOREM EntryAndExitAreImplemented == RelaySpec => ImplementsEntryAndExit
<1>1. RelayInit => EE!Init
  <2> SUFFICES ASSUME RelayInit PROVE EE!Init
    OBVIOUS
  <2>1. FromOrigin = {}
    BY RelayAssumption DEF RelayInit, FromOrigin
  <2>2. Left = {}
    <3>1. \A q \in others : q[2].source # Origin
      BY RelayAssumption, DataMailIs DEF RelayInit
    <3>2. QED
      BY <3>1 DEF RelayInit, Init, EmptyDb, Left, Complete
  <2>3. [i \in Ids |-> {ObjectFor(m.from, i, m.body.digest) :
                         m \in Whole(receipts[i])}] = [i \in Ids |-> {}]
    BY DEF RelayInit, NoFile, Whole
  <2>4. QED
    BY <2>1, <2>2, <2>3 DEF EE!Init
<1>2. QED
  BY <1>1, InitRelayInv, NextRelayInv, EveryStepIsAbstract, PTL
  DEF RelaySpec, ImplementsEntryAndExit, EE!Spec, AbstractStep
=============================================================================
