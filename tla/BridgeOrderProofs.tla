-------------------------- MODULE BridgeOrderProofs --------------------------
(***************************************************************************)
(* The order in which a bridge session writes to its adapters, and in      *)
(* which their answers come back, for every set of documents, versions and *)
(* lines, every capacity, retry limit and mode.  What a session holds, and *)
(* that it loses nothing, is taken from BridgeSessionProofs.               *)
(***************************************************************************)
EXTENDS BridgeSessionProofs

-----------------------------------------------------------------------------
(* The messages on their way to the adapter: those drained, and the request *)
(* that comes behind them.                                                  *)
Drained == batch \cup Some(sending)

InFlight == batch \cup Some(sending) \cup Some(request)

(* What one turn of the loop carries: pushes of different documents, and    *)
(* behind them at most one message of another kind, which is the youngest.  *)
Loaded(b, s, r) ==
    /\ s \notin b
    /\ \A h \in b : h.type = "push"
    /\ \A h \in Some(s) : h.type # "push" => b = {}
    /\ \A h \in Some(r) : h.type # "push"
    /\ \A h, k \in b \cup Some(s) : SameDocument(h, k) => h = k
    /\ \A h \in b \cup Some(s), k \in Some(r) : h # k
    /\ \A h \in b \cup Some(s), k \in Some(r) : SameDocument(h, k) => h.id < k.id

(* A message is written once and is in one place until then; the queue and  *)
(* what is on its way concern different documents.                          *)
Written ==
    /\ \A i \in DOMAIN sent : sent[i].message.id <= Len(input)
    /\ \A i, j \in DOMAIN sent : i < j => sent[i].message # sent[j].message
    /\ \A i \in DOMAIN sent : sent[i].message \notin Held

Apart ==
    /\ Loaded(batch, sending, request)
    /\ OnePerUri(pending)
    /\ MessagesOf(pending) \cap InFlight = {}
    /\ \A h \in MessagesOf(pending), k \in InFlight : ~SameDocument(h, k)

(* Nothing held is older than what was written of its document. *)
Behind ==
    \A i \in DOMAIN sent : \A h \in Held :
        SameDocument(sent[i].message, h) => sent[i].message.id < h.id

(* A check on its way is preceded by the newest text of its document. *)
Prepared ==
    \A c \in Some(sending) \cup Some(request) : c.type = "check" =>
        \A k \in DOMAIN input :
            /\ input[k].type = "push" /\ input[k].id < c.id /\ input[k].uri = c.uri
            => \/ SentFor(input[k])
               \/ \E h \in Drained : h.type = "push" /\ Covers(h, input[k])

OrderInv == Written /\ Apart /\ Behind /\ DocumentOrder

CheckInv == Prepared /\ CheckSeesLatestPush

-----------------------------------------------------------------------------
(* Proceed takes one message of a load and leaves a load. *)
LEMMA ProceedLoads ==
    ASSUME NEW b \in SUBSET Message, NEW r \in Message \cup {NoMessage},
           NEW closing \in BOOLEAN, Proceed(b, r, closing), Loaded(b, NoMessage, r)
    PROVE  Loaded(batch, sending, request)'
<1>1. Some(NoMessage) = {} /\ NoMessage \notin Message
  BY NoMessageAssumption DEF Some
<1>2. CASE b # {}
  <2>1. PICK m \in b : sending' = m /\ batch' = b \ {m}
    BY <1>2 DEF Proceed
  <2>2. request' = r
    BY <1>2 DEF Proceed
  <2>3. Some(m) = {m}
    BY <1>1 DEF Some
  <2>4. batch' \cup Some(sending') = b /\ Some(sending') = {m}
    BY <2>1, <2>3
  <2>5. /\ \A h \in b : h.type = "push"
        /\ \A h \in Some(r) : h.type # "push"
        /\ \A h, k \in b : SameDocument(h, k) => h = k
        /\ \A h \in b, k \in Some(r) : h # k
        /\ \A h \in b, k \in Some(r) : SameDocument(h, k) => h.id < k.id
    BY <1>1 DEF Loaded
  <2>6. Loaded(batch', sending', request')
    <3> HIDE DEF Some
    <3>1. sending' \notin batch' /\ \A h \in batch' : h.type = "push"
      BY <2>1, <2>5
    <3>2. \A h \in Some(sending') : h.type # "push" => batch' = {}
      BY <2>1, <2>4, <2>5
    <3> QED BY <2>2, <2>4, <2>5, <3>1, <3>2 DEF Loaded
  <2> QED BY <2>6
<1>3. CASE b = {} /\ r # NoMessage
  <2>1. sending' = r /\ batch' = {} /\ request' = NoMessage
    BY <1>3 DEF Proceed
  <2>2. Some(r) = {r}
    BY <1>3 DEF Some
  <2> QED BY <1>1, <2>1, <2>2 DEF Loaded
<1>4. CASE b = {} /\ r = NoMessage
  <2>1. sending' = NoMessage /\ batch' = {} /\ request' = NoMessage
    BY <1>4 DEF Proceed
  <2> QED BY <1>1, <2>1 DEF Loaded
<1> QED BY <1>2, <1>3, <1>4

LEMMA SameDocumentSymmetric ==
    ASSUME NEW m, NEW n PROVE SameDocument(m, n) <=> SameDocument(n, m)
BY DEF SameDocument

(* A queue of one push per document: messages identify their entries. *)
LEMMA OneEntry ==
    ASSUME NEW q, NEW r \in SUBSET q, OnePerUri(q)
    PROVE  /\ OnePerUri(q \ r)
           /\ MessagesOf(q \ r) \cap MessagesOf(r) = {}
           /\ \A h \in MessagesOf(q \ r), k \in MessagesOf(r) : ~SameDocument(h, k)
           /\ \A h, k \in MessagesOf(r) : SameDocument(h, k) => h = k
BY DEF OnePerUri, MessagesOf, SameDocument

LEMMA EnqueueOnePerUri ==
    ASSUME NEW q, NEW m, OnePerUri(q)
    PROVE  OnePerUri(Enqueue(q, m))
<1>1. Entry(m, 0).message = m
  BY DEF Entry
<1> QED BY <1>1 DEF Enqueue, OnePerUri, EntriesFor

LEMMA ElapseOnePerUri ==
    ASSUME NEW q \in SUBSET [message: Message, age: 0..Debounce], OnePerUri(q)
    PROVE  OnePerUri(Elapse(q))
<1> DEFINE older(e) == [e EXCEPT !.age = IF e.age < Debounce THEN e.age + 1 ELSE e.age]
<1>1. \A e \in q : older(e).message = e.message
  OBVIOUS
<1>2. Elapse(q) = {older(e) : e \in q}
  BY DEF Elapse
<1> HIDE DEF older
<1>3. SUFFICES ASSUME NEW e \in q, NEW f \in q,
                      older(e).message.uri = older(f).message.uri
               PROVE  older(e) = older(f)
  BY <1>2 DEF OnePerUri
<1>4. e = f
  BY <1>1, <1>3 DEF OnePerUri
<1> QED BY <1>4

-----------------------------------------------------------------------------
(* Steps that hold what was held. *)
LEMMA KeptOrder ==
    ASSUME OrderInv, UNCHANGED <<input, batch, sending, request, sent>>,
           MessagesOf(pending') = MessagesOf(pending), OnePerUri(pending')
    PROVE  OrderInv'
<1>1. Held' = Held /\ InFlight' = InFlight
  BY DEF Held, InFlight
<1>2. Written' /\ Behind' /\ DocumentOrder'
  BY <1>1 DEF OrderInv, Written, Behind, DocumentOrder
<1>3. Apart'
  BY <1>1 DEF OrderInv, Apart
<1> QED BY <1>2, <1>3 DEF OrderInv

(* A turn of the loop that drains r and takes along req, which is either    *)
(* nothing or younger than everything of its document, none of which stays. *)
LEMMA TurnOrder ==
    ASSUME Basics, OrderInv, QueuedPushes, phase = "select",
           NEW r \in SUBSET pending, NEW req \in Message \cup {NoMessage},
           NEW closing \in BOOLEAN,
           Proceed(MessagesOf(r), req, closing), pending' = pending \ r, sent' = sent,
           \A i \in DOMAIN sent : sent[i].message.id <= Len(input'),
           \A k \in Some(req) :
              /\ k.type # "push" /\ k \notin Held
              /\ \A i \in DOMAIN sent : sent[i].message # k
              /\ \A i \in DOMAIN sent : SameDocument(sent[i].message, k)
                                          => sent[i].message.id < k.id
              /\ \A h \in MessagesOf(r) : SameDocument(h, k) => h.id < k.id
              /\ \A h \in MessagesOf(pending \ r) : ~SameDocument(h, k)
    PROVE  OrderInv'
<1>1. /\ batch = {} /\ sending = NoMessage /\ request = NoMessage
      /\ pending \in SUBSET [message: Message, age: 0..Debounce]
  BY DEF Basics, TypeOK, Phases
<1>2. Some(NoMessage) = {} /\ NoMessage \notin Message
  BY NoMessageAssumption DEF Some
<1>3. Held = MessagesOf(pending)
  BY <1>1, <1>2 DEF Held
<1>4. MessagesOf(r) \in SUBSET Message /\ OnePerUri(pending)
  BY <1>1, MessagesTyped DEF OrderInv, Apart
<1>5. /\ OnePerUri(pending \ r)
      /\ MessagesOf(pending \ r) \cap MessagesOf(r) = {}
      /\ \A h \in MessagesOf(pending \ r), k \in MessagesOf(r) : ~SameDocument(h, k)
      /\ \A h, k \in MessagesOf(r) : SameDocument(h, k) => h = k
  BY <1>4, OneEntry
<1>6. /\ MessagesOf(pending \ r) \cup MessagesOf(r) = MessagesOf(pending)
      /\ MessagesOf(pending \ r) \subseteq MessagesOf(pending)
  BY MessagesSplit
<1>7. InFlight' = MessagesOf(r) \cup Some(req)
  BY <1>4, ProceedKeeps DEF InFlight
<1>8. Held' = Held \cup Some(req)
  BY <1>3, <1>6, <1>7 DEF Held, InFlight
<1>9. Loaded(MessagesOf(r), NoMessage, req)
  <2>1. \A h \in MessagesOf(r) : h.type = "push"
    BY DEF QueuedPushes, MessagesOf
  <2> QED BY <1>2, <1>4, <1>5, <2>1 DEF Loaded
<1>10. Apart'
  <2>1. Loaded(batch, sending, request)'
    BY <1>4, <1>9, ProceedLoads
  <2>2. MessagesOf(pending') \cap InFlight' = {}
    BY <1>3, <1>5, <1>6, <1>7
  <2>3. \A h \in MessagesOf(pending'), k \in InFlight' : ~SameDocument(h, k)
    BY <1>5, <1>7
  <2> QED BY <1>5, <2>1, <2>2, <2>3 DEF Apart
<1>11. Written'
  BY <1>8 DEF OrderInv, Written
<1>12. Behind' /\ DocumentOrder'
  BY <1>8 DEF OrderInv, Behind, DocumentOrder
<1> QED BY <1>10, <1>11, <1>12 DEF OrderInv

LEMMA DrainOrder ==
    ASSUME Basics, LossInv, OrderInv, ReadEof \/ FlushTick
    PROVE  OrderInv'
<1>1. phase = "select" /\ input' = input /\ sent' = sent
  BY DEF ReadEof, FlushTick
<1>2. PICK r \in SUBSET pending, closing \in BOOLEAN :
        pending' = pending \ r /\ Proceed(MessagesOf(r), NoMessage, closing)
  <2>1. CASE ReadEof
    <3>1. pending' = pending \ pending /\ Proceed(MessagesOf(pending), NoMessage, TRUE)
      BY <2>1 DEF ReadEof, EmptyQueue
    <3> QED BY <3>1
  <2>2. CASE FlushTick
    <3>1. Ready(pending) \in SUBSET pending
      BY DEF Ready
    <3> QED BY <2>2, <3>1 DEF FlushTick
  <2> QED BY <2>1, <2>2
<1>3. Some(NoMessage) = {}
  BY DEF Some
<1>4. \A i \in DOMAIN sent : sent[i].message.id <= Len(input')
  BY <1>1 DEF OrderInv, Written
<1>5. QueuedPushes
  BY DEF LossInv
<1> QED BY <1>1, <1>2, <1>3, <1>4, <1>5, TurnOrder

LEMMA ElementTyped ==
    ASSUME NEW S, NEW s \in Seq(S), NEW i \in DOMAIN s
    PROVE  s[i] \in S
OBVIOUS

LEMMA SentTyped ==
    ASSUME Basics, NEW i \in DOMAIN sent
    PROVE  sent[i].message \in Message /\ sent[i].message.id \in Nat
<1>1. sent \in Seq([message: Message, gen: Nat, at: Nat])
  BY DEF Basics, TypeOK
<1>2. sent[i] \in [message: Message, gen: Nat, at: Nat]
  BY <1>1, ElementTyped
<1> QED BY <1>2 DEF Message

(* The write sequence after a recorded write. *)
LEMMA SentIndexes ==
    ASSUME Basics, phase = "writing", RecordSent
    PROVE  /\ Len(sent) \in Nat /\ DOMAIN sent = 1..Len(sent)
           /\ DOMAIN sent' = DOMAIN sent \cup {Len(sent) + 1}
           /\ \A i \in DOMAIN sent : sent'[i] = sent[i]
           /\ sent'[Len(sent) + 1].message = sending
           /\ sent'[Len(sent) + 1].gen = Current
<1> DEFINE r == [message |-> sending, gen |-> Current, at |-> Len(input)]
<1>1. sent \in Seq([message: Message, gen: Nat, at: Nat])
  BY DEF Basics, TypeOK
<1>2. sending \in Message /\ Current \in Nat /\ Len(input) \in Nat
  BY DEF Basics, TypeOK, Phases, Current
<1>3. r \in [message: Message, gen: Nat, at: Nat]
  BY <1>2
<1>4. sent' = Append(sent, r)
  BY DEF RecordSent
<1>5. r.message = sending /\ r.gen = Current
  OBVIOUS
<1> HIDE DEF r
<1>6. /\ Len(sent') = Len(sent) + 1 /\ Len(sent) \in Nat
      /\ DOMAIN sent = 1..Len(sent) /\ DOMAIN sent' = 1..(Len(sent) + 1)
      /\ \A i \in DOMAIN sent : sent'[i] = sent[i]
      /\ sent'[Len(sent) + 1] = r
  BY <1>1, <1>3, <1>4, AppendProperties
<1> QED BY <1>5, <1>6

(* A write takes the message that may come next from what is held. *)
LEMMA WriteOrder ==
    ASSUME Basics, LossInv, OrderInv, WriteOk \/ WriteLost
    PROVE  OrderInv'
<1>1. /\ phase = "writing" /\ RecordSent /\ Proceed(batch, request, eof)
      /\ input' = input /\ pending' = pending
  BY DEF WriteOk, WriteLost, queueVars
<1>2. /\ sending \in Message /\ sending # NoMessage /\ batch \in SUBSET Message
      /\ request \in Message \cup {NoMessage} /\ eof \in BOOLEAN
  BY <1>1 DEF Basics, TypeOK, Phases
<1>3. /\ Len(sent) \in Nat /\ DOMAIN sent = 1..Len(sent)
      /\ DOMAIN sent' = DOMAIN sent \cup {Len(sent) + 1}
      /\ \A i \in DOMAIN sent : sent'[i] = sent[i]
      /\ sent'[Len(sent) + 1].message = sending
  BY <1>1, SentIndexes
<1>4. Some(sending) = {sending} /\ Some(NoMessage) = {}
  BY <1>2 DEF Some
<1>5. InFlight' = batch \cup Some(request)
  <2>1. batch' \cup Some(sending') \cup Some(request') = batch \cup Some(request)
    BY <1>1, <1>2, NextInDrain
  <2> QED BY <2>1 DEF InFlight
<1>6. /\ sending \notin batch
      /\ \A h, k \in batch \cup {sending} : SameDocument(h, k) => h = k
      /\ \A h \in batch \cup {sending}, k \in Some(request) : h # k
      /\ \A h \in batch \cup {sending}, k \in Some(request) : SameDocument(h, k) => h.id < k.id
  BY <1>4 DEF OrderInv, Apart, Loaded
<1>7. /\ MessagesOf(pending) \cap InFlight = {}
      /\ \A h \in MessagesOf(pending), k \in InFlight : ~SameDocument(h, k)
  BY DEF OrderInv, Apart
<1>8. /\ Held' = MessagesOf(pending) \cup batch \cup Some(request)
      /\ Held = Held' \cup {sending}
      /\ InFlight = InFlight' \cup {sending}
  BY <1>1, <1>4, <1>5 DEF Held, InFlight
<1>9. sending \notin Held'
  BY <1>6, <1>7, <1>8
<1>10. \A h \in Held' : SameDocument(sending, h) => sending.id < h.id
  <2> SUFFICES ASSUME NEW h \in Held', SameDocument(sending, h) PROVE sending.id < h.id
    OBVIOUS
  <2>1. h \notin MessagesOf(pending)
    BY <1>7, <1>8, SameDocumentSymmetric
  <2>2. h \notin batch
    BY <1>6
  <2> QED BY <1>6, <1>8, <2>1, <2>2
<1>11. Written'
  <2>1. sending.id <= Len(input)
    BY <1>8 DEF LossInv, HeldWasRead
  <2>2. \A i \in DOMAIN sent' : sent'[i].message.id <= Len(input')
    BY <1>1, <1>3, <2>1 DEF OrderInv, Written
  <2>3. \A i \in DOMAIN sent' : sent'[i].message \notin Held'
    BY <1>3, <1>8, <1>9 DEF OrderInv, Written
  <2>4. \A i, j \in DOMAIN sent' : i < j => sent'[i].message # sent'[j].message
    <3> SUFFICES ASSUME NEW i \in DOMAIN sent', NEW j \in DOMAIN sent', i < j
                 PROVE  sent'[i].message # sent'[j].message
      OBVIOUS
    <3>1. i \in DOMAIN sent
      BY <1>3
    <3>2. CASE j \in DOMAIN sent
      BY <1>3, <3>1, <3>2 DEF OrderInv, Written
    <3>3. CASE j = Len(sent) + 1
      BY <1>3, <1>8, <3>1, <3>3 DEF OrderInv, Written
    <3> QED BY <1>3, <3>2, <3>3
  <2> QED BY <2>2, <2>3, <2>4 DEF Written
<1>12. Apart'
  <2>1. Loaded(batch, NoMessage, request)
    BY <1>2, <1>4, NoMessageAssumption DEF OrderInv, Apart, Loaded
  <2>2. Loaded(batch, sending, request)'
    BY <1>1, <1>2, <2>1, ProceedLoads
  <2>3. /\ MessagesOf(pending') \cap InFlight' = {}
        /\ \A h \in MessagesOf(pending'), k \in InFlight' : ~SameDocument(h, k)
    BY <1>1, <1>7, <1>8
  <2> QED BY <1>1, <2>2, <2>3 DEF OrderInv, Apart
<1>13. Behind'
  <2> SUFFICES ASSUME NEW i \in DOMAIN sent', NEW h \in Held',
                      SameDocument(sent'[i].message, h)
               PROVE  sent'[i].message.id < h.id
    BY DEF Behind
  <2>1. CASE i \in DOMAIN sent
    BY <1>3, <1>8, <2>1 DEF OrderInv, Behind
  <2>2. CASE i = Len(sent) + 1
    BY <1>3, <1>10, <2>2
  <2> QED BY <1>3, <2>1, <2>2
<1>14. DocumentOrder'
  <2> SUFFICES ASSUME NEW i \in DOMAIN sent', NEW j \in DOMAIN sent', i < j,
                      SameDocument(sent'[i].message, sent'[j].message)
               PROVE  sent'[i].message.id < sent'[j].message.id
    BY DEF DocumentOrder
  <2>1. i \in DOMAIN sent
    BY <1>3
  <2>2. CASE j \in DOMAIN sent
    BY <1>3, <2>1, <2>2 DEF OrderInv, DocumentOrder
  <2>3. CASE j = Len(sent) + 1
    BY <1>3, <1>8, <2>1, <2>3 DEF OrderInv, Behind
  <2> QED BY <1>3, <2>2, <2>3
<1> QED BY <1>11, <1>12, <1>13, <1>14 DEF OrderInv

-----------------------------------------------------------------------------
(* A line that is read: it is younger than everything there is. *)
LineOf(line) ==
    [id |-> Len(input) + 1, type |-> line.type, uri |-> line.uri, version |-> line.version]

(* The message m of a line, and what there is to know about it. *)
Reads(m) ==
    /\ m \in Message /\ m.id = Len(input) + 1
    /\ Len(input') = Len(input) + 1
    /\ DOMAIN input' = DOMAIN input \cup {Len(input) + 1}
    /\ \A k \in DOMAIN input : input'[k] = input[k] /\ input[k] \in Message
    /\ input'[Len(input) + 1] = m
    /\ ReadPush(m) \/ ReadCheck(m) \/ ReadOther(m)

LEMMA LineRead ==
    ASSUME Basics, ReadLine
    PROVE  /\ \E m : Reads(m)
           /\ phase = "select" /\ batch = {} /\ sending = NoMessage /\ request = NoMessage
           /\ sent' = sent /\ Len(input) \in Nat
<1>1. PICK line \in Lines :
        LET m == [id |-> Len(input) + 1, type |-> line.type,
                  uri |-> line.uri, version |-> line.version]
        IN /\ input' = Append(input, m)
           /\ ReadPush(m) \/ ReadCheck(m) \/ ReadOther(m)
  BY DEF ReadLine
<1> DEFINE m == LineOf(line)
<1>2. /\ input \in Seq(Message) /\ Len(input) \in Nat
      /\ phase = "select" /\ batch = {} /\ sending = NoMessage /\ request = NoMessage
  BY DEF Basics, TypeOK, Phases, ReadLine
<1>3. m \in Message /\ m.id = Len(input) + 1
  BY <1>2, SessionAssumption DEF Message, LineOf
<1>4. input' = Append(input, m) /\ (ReadPush(m) \/ ReadCheck(m) \/ ReadOther(m))
  BY <1>1 DEF LineOf
<1> HIDE DEF m
<1>5. /\ DOMAIN input = 1..Len(input) /\ DOMAIN input' = 1..(Len(input) + 1)
      /\ Len(input') = Len(input) + 1
      /\ \A i \in DOMAIN input : input'[i] = input[i] /\ input[i] \in Message
      /\ input'[Len(input) + 1] = m
  BY <1>2, <1>3, <1>4, AppendProperties
<1>6. DOMAIN input' = DOMAIN input \cup {Len(input) + 1}
  BY <1>2, <1>5
<1>7. sent' = sent
  BY <1>4 DEF ReadPush, ReadCheck, ReadOther, sendVars
<1>8. Reads(m)
  BY <1>3, <1>4, <1>5, <1>6 DEF Reads
<1> QED BY <1>2, <1>7, <1>8

(* What is held, or was written, is older than the line. *)
LEMMA LineIsNew ==
    ASSUME Basics, LossInv, OrderInv, NEW m, Reads(m)
    PROVE  /\ \A h \in Held : h.id < m.id
           /\ \A i \in DOMAIN sent : sent[i].message.id < m.id
           /\ \A i \in DOMAIN sent : sent[i].message.id <= Len(input')
           /\ m \notin Held
           /\ \A i \in DOMAIN sent : sent[i].message # m
<1>1. /\ Len(input) \in Nat
      /\ sent \in Seq([message: Message, gen: Nat, at: Nat])
      /\ pending \in SUBSET [message: Message, age: 0..Debounce] /\ batch \subseteq Message
      /\ request \in Message \cup {NoMessage} /\ sending \in Message \cup {NoMessage}
  BY DEF Basics, TypeOK
<1>2. Held \subseteq Message
  BY <1>1, MessagesTyped DEF Held, Some
<1>3. \A h \in Held : h.id \in Nat /\ h.id <= Len(input)
  BY <1>2 DEF LossInv, HeldWasRead, Message
<1>4. \A i \in DOMAIN sent : sent[i].message \in Message
  BY SentTyped
<1>5. \A i \in DOMAIN sent : sent[i].message.id \in Nat /\ sent[i].message.id <= Len(input)
  BY <1>4 DEF OrderInv, Written, Message
<1>6. m.id = Len(input) + 1 /\ Len(input') = Len(input) + 1
  BY DEF Reads
<1>7. \A h \in Held : h.id < m.id
  BY <1>1, <1>3, <1>6
<1>8. \A i \in DOMAIN sent : /\ sent[i].message.id < m.id
                             /\ sent[i].message.id <= Len(input')
  BY <1>1, <1>5, <1>6
<1>9. m \notin Held
  BY <1>1, <1>3, <1>6
<1>10. \A i \in DOMAIN sent : sent[i].message # m
  BY <1>1, <1>5, <1>6
<1> QED BY <1>7, <1>8, <1>9, <1>10

LEMMA ReadPushOrder ==
    ASSUME Basics, LossInv, OrderInv, ReadLine, NEW m, Reads(m), ReadPush(m)
    PROVE  OrderInv'
<1>1. /\ sent' = sent /\ batch = {} /\ sending = NoMessage /\ request = NoMessage
      /\ UNCHANGED <<batch, sending, request>>
  BY LineRead DEF ReadPush, sendVars
<1>2. /\ \A i \in DOMAIN sent : /\ sent[i].message.id < m.id
                                /\ sent[i].message.id <= Len(input')
                                /\ sent[i].message # m
  BY LineIsNew
<1>3. OnePerUri(pending') /\ MessagesOf(pending') \subseteq MessagesOf(pending) \cup {m}
  <2>1. OnePerUri(pending)
    BY DEF OrderInv, Apart
  <2>2. CASE pending' = pending
    BY <2>1, <2>2
  <2>3. CASE pending' = Enqueue(pending, m)
    <3>1. MessagesOf(Enqueue(pending, m)) \subseteq MessagesOf(pending) \cup {m}
      BY DEF Enqueue, Entry, EntriesFor, MessagesOf
    <3> QED BY <2>1, <2>3, <3>1, EnqueueOnePerUri
  <2> QED BY <2>2, <2>3 DEF ReadPush
<1>4. InFlight = {} /\ InFlight' = {} /\ Held' \subseteq Held \cup {m}
  BY <1>1, <1>3 DEF InFlight, Held, Some
<1>5. Written'
  BY <1>1, <1>2, <1>4 DEF OrderInv, Written
<1>6. Apart'
  BY <1>1, <1>3, <1>4 DEF OrderInv, Apart
<1>7. Behind' /\ DocumentOrder'
  BY <1>1, <1>2, <1>4 DEF OrderInv, Behind, DocumentOrder
<1> QED BY <1>5, <1>6, <1>7 DEF OrderInv

(* A check takes along all there is of its document; nothing else is of a  *)
(* document whose order matters.                                           *)
LEMMA ReadRequestOrder ==
    ASSUME Basics, LossInv, OrderInv, ReadLine, NEW m, Reads(m), ReadCheck(m) \/ ReadOther(m)
    PROVE  OrderInv'
<1>1. phase = "select" /\ sent' = sent /\ Len(input) \in Nat
  BY LineRead
<1>2. /\ \A h \in Held : h.id < m.id
      /\ \A i \in DOMAIN sent : sent[i].message.id < m.id
      /\ \A i \in DOMAIN sent : sent[i].message.id <= Len(input')
      /\ m \notin Held
      /\ \A i \in DOMAIN sent : sent[i].message # m
  BY LineIsNew
<1>3. m \in Message /\ m.type # "push"
  BY DEF Reads, ReadCheck, ReadOther
<1>4. PICK r \in SUBSET pending :
        /\ Proceed(MessagesOf(r), m, FALSE) /\ pending' = pending \ r
        /\ \A h \in MessagesOf(pending \ r) : ~SameDocument(h, m)
  <2>1. CASE ReadCheck(m)
    <3>1. EntriesFor(pending, m.uri) \in SUBSET pending
      BY DEF EntriesFor
    <3>2. \A h \in MessagesOf(pending \ EntriesFor(pending, m.uri)) : ~SameDocument(h, m)
      BY DEF EntriesFor, MessagesOf, SameDocument
    <3> QED BY <2>1, <3>1, <3>2 DEF ReadCheck
  <2>2. CASE ReadOther(m)
    <3>1. MessagesOf({}) = {} /\ pending' = pending \ {} /\ Proceed({}, m, FALSE)
      BY <2>2 DEF ReadOther, MessagesOf
    <3>2. \A h : ~SameDocument(h, m)
      BY <2>2 DEF ReadOther, SameDocument
    <3> QED BY <3>1, <3>2
  <2> QED BY <2>1, <2>2
<1>5. \A h \in MessagesOf(r) : h.id < m.id
  BY <1>2, <1>4 DEF Held, MessagesOf
<1>6. Some(m) = {m}
  BY <1>3, NoMessageAssumption DEF Some
<1>7. QueuedPushes
  BY DEF LossInv
<1> QED BY <1>1, <1>2, <1>3, <1>4, <1>5, <1>6, <1>7, TurnOrder

LEMMA ReadLineOrder ==
    ASSUME Basics, LossInv, OrderInv, ReadLine
    PROVE  OrderInv'
<1>1. PICK m : Reads(m)
  BY LineRead
<1> QED BY <1>1, ReadPushOrder, ReadRequestOrder DEF Reads

LEMMA OtherOrder ==
    ASSUME Basics, OrderInv,
           \/ StartSession \/ ReadError \/ Killed \/ TimePasses \/ WriteFails \/ Restart
           \/ StopSession \/ TryWait \/ TakeAnswer \/ DeliverAnswer \/ Terminated
           \/ UNCHANGED vars
           \/ \E g \in DOMAIN adapters : Reader(g) \/ Adapter(g) \/ Accident(g)
    PROVE  OrderInv'
<1>1. pending \in SUBSET [message: Message, age: 0..Debounce] /\ OnePerUri(pending)
  BY DEF Basics, TypeOK, OrderInv, Apart
<1>2. CASE TimePasses
  <2>1. MessagesOf(pending') = MessagesOf(pending) /\ OnePerUri(pending')
    BY <1>1, <1>2, ElapseTyped, ElapseOnePerUri DEF TimePasses
  <2>2. UNCHANGED <<input, batch, sending, request, sent>>
    BY <1>2 DEF TimePasses, sendVars
  <2> QED BY <2>1, <2>2, KeptOrder
<1>3. CASE ~TimePasses
  <2>1. UNCHANGED <<input, pending, batch, sending, request, sent>>
    BY <1>3, OtherKeepsHeld
  <2>2. MessagesOf(pending') = MessagesOf(pending) /\ OnePerUri(pending')
    BY <1>1, <2>1
  <2> QED BY <2>1, <2>2, KeptOrder
<1> QED BY <1>2, <1>3

LEMMA NextOrder == Basics /\ LossInv /\ OrderInv /\ [Next]_vars => OrderInv'
BY ReadLineOrder, DrainOrder, WriteOrder, OtherOrder DEF Next, Loop

LEMMA InitOrder == Init => OrderInv
<1> SUFFICES ASSUME Init PROVE OrderInv
  OBVIOUS
<1>1. DOMAIN sent = {} /\ batch = {} /\ pending = {}
  BY DEF Init, EmptyQueue
<1>2. Some(sending) = {} /\ Some(request) = {} /\ MessagesOf(pending) = {}
  BY <1>1 DEF Init, Some, MessagesOf
<1>3. Written /\ Behind /\ DocumentOrder
  BY <1>1 DEF Written, Behind, DocumentOrder
<1>4. Apart
  BY <1>1, <1>2 DEF Apart, Loaded, OnePerUri
<1> QED BY <1>3, <1>4 DEF OrderInv

LEMMA LossCorrect == Spec => []LossInv
BY InitLoss, NextLoss, BasicsCorrect, PTL DEF Spec

LEMMA OrderCorrect == Spec => []OrderInv
BY InitOrder, NextOrder, BasicsCorrect, LossCorrect, PTL DEF Spec

(* Pushes and checks of a document are written in the order they were read, *)
(* each at most once, through debouncing, the drain in front of a check,    *)
(* retries and restarts (main.rs 200-252, process.rs 138-164).              *)
THEOREM DocumentOrderCorrect == Spec => []DocumentOrder
<1>1. OrderInv => DocumentOrder
  BY DEF OrderInv
<1> QED BY <1>1, OrderCorrect, PTL

-----------------------------------------------------------------------------
(* What a check follows.  That its text was written or is drained in front *)
(* of it comes from NothingLost at the moment the check is read.           *)
LEMMA KeptChecks ==
    ASSUME Basics, OrderInv, CheckSeesLatestPush, sent' = sent,
           \A k \in DOMAIN input' : \/ k \in DOMAIN input /\ input'[k] = input[k]
                                    \/ /\ input'[k].id \in Nat
                                       /\ \A i \in DOMAIN sent :
                                            sent[i].message.id < input'[k].id
    PROVE  CheckSeesLatestPush'
<1> SUFFICES ASSUME NEW j \in DOMAIN sent, NEW k \in DOMAIN input',
                    sent[j].message.type = "check",
                    input'[k].type = "push", input'[k].id < sent[j].message.id,
                    input'[k].uri = sent[j].message.uri
             PROVE  \E i \in 1..(j - 1) : /\ sent[i].message.type = "push"
                                          /\ Covers(sent[i].message, input'[k])
                                          /\ sent[i].at >= input'[k].id
  BY DEF CheckSeesLatestPush
<1>1. CASE k \in DOMAIN input /\ input'[k] = input[k]
  BY <1>1 DEF CheckSeesLatestPush
<1>2. CASE /\ input'[k].id \in Nat
           /\ \A i \in DOMAIN sent : sent[i].message.id < input'[k].id
  BY <1>2, SentTyped
<1> QED BY <1>1, <1>2

(* Steps after which no check is on its way. *)
LEMMA NoCheckPrepared ==
    ASSUME \A c \in Some(sending') \cup Some(request') : c.type # "check"
    PROVE  Prepared'
BY DEF Prepared

LEMMA DrainChecks ==
    ASSUME Basics, LossInv, OrderInv, CheckInv, ReadEof \/ FlushTick
    PROVE  CheckInv'
<1>1. input' = input /\ sent' = sent
  BY DEF ReadEof, FlushTick
<1>2. PICK r \in SUBSET pending, closing \in BOOLEAN : Proceed(MessagesOf(r), NoMessage, closing)
  <2>1. CASE ReadEof
    BY <2>1 DEF ReadEof
  <2>2. CASE FlushTick
    BY <2>2 DEF FlushTick, Ready
  <2> QED BY <2>1, <2>2
<1>3. pending \in SUBSET [message: Message, age: 0..Debounce] /\ Some(NoMessage) = {}
  BY DEF Basics, TypeOK, Some
<1>4. MessagesOf(r) \in SUBSET Message
  BY <1>3, MessagesTyped
<1>5. batch' \cup Some(sending') \cup Some(request') = MessagesOf(r)
  BY <1>2, <1>3, <1>4, ProceedKeeps
<1>6. \A h \in MessagesOf(r) : h.type = "push"
  BY DEF LossInv, QueuedPushes, MessagesOf
<1>7. Prepared'
  BY <1>5, <1>6, NoCheckPrepared
<1>8. CheckSeesLatestPush'
  BY <1>1, KeptChecks DEF CheckInv
<1> QED BY <1>7, <1>8 DEF CheckInv

LEMMA ReadLineSees ==
    ASSUME Basics, LossInv, OrderInv, CheckInv, ReadLine, NEW m, Reads(m)
    PROVE  CheckSeesLatestPush'
<1>1. sent' = sent
  BY LineRead
<1>2. m.id \in Nat /\ \A i \in DOMAIN sent : sent[i].message.id < m.id
  BY LineIsNew DEF Reads, Message
<1>3. \A k \in DOMAIN input' : \/ k \in DOMAIN input /\ input'[k] = input[k]
                               \/ input'[k] = m
  BY DEF Reads
<1> QED BY <1>1, <1>2, <1>3, KeptChecks DEF CheckInv

LEMMA ReadPushChecks ==
    ASSUME Basics, LossInv, OrderInv, CheckInv, ReadLine, NEW m, Reads(m), ReadPush(m)
    PROVE  CheckInv'
<1>1. sending' = NoMessage /\ request' = NoMessage
  BY LineRead DEF ReadPush, sendVars
<1>2. Prepared'
  BY <1>1, NoCheckPrepared DEF Some
<1> QED BY <1>2, ReadLineSees DEF CheckInv

(* The check that is read: what stands for a push of its document has been *)
(* written, or is in the queue and therefore drained in front of it.       *)
LEMMA ReadRequestChecks ==
    ASSUME Basics, LossInv, OrderInv, CheckInv, OrderInv', ReadLine, NEW m, Reads(m),
           ReadCheck(m) \/ ReadOther(m)
    PROVE  CheckInv'
<1>1. /\ phase = "select" /\ batch = {} /\ sending = NoMessage /\ request = NoMessage
      /\ sent' = sent /\ Len(input) \in Nat
  BY LineRead
<1>2. m \in Message /\ Some(m) = {m} /\ m.id = Len(input) + 1
  BY NoMessageAssumption DEF Reads, Some
<1>3. /\ pending \in SUBSET [message: Message, age: 0..Debounce]
      /\ Held = MessagesOf(pending)
  BY <1>1 DEF Basics, TypeOK, Held, Some
<1>4. CASE ReadOther(m)
  <2>1. Proceed({}, m, FALSE) /\ m.type # "check"
    BY <1>4 DEF ReadOther
  <2>2. batch' \cup Some(sending') \cup Some(request') = {m}
    BY <1>2, <2>1, ProceedKeeps
  <2>3. Prepared'
    BY <2>1, <2>2, NoCheckPrepared
  <2> QED BY <2>3, ReadLineSees DEF CheckInv
<1>5. CASE ReadCheck(m)
  <2> DEFINE r == EntriesFor(pending, m.uri)
  <2>1. Proceed(MessagesOf(r), m, FALSE)
    BY <1>5 DEF ReadCheck
  <2>2. r \in SUBSET pending
    BY DEF EntriesFor
  <2>3. MessagesOf(r) \in SUBSET Message /\ \A h \in MessagesOf(r) : h.type = "push"
    BY <1>3, <2>2, MessagesTyped DEF LossInv, QueuedPushes, MessagesOf
  <2>4. \A h \in Held : h.uri = m.uri => h \in MessagesOf(r)
    BY <1>3 DEF EntriesFor, MessagesOf
  <2> HIDE DEF r
  <2>5. batch' \cup Some(sending') \cup Some(request') = MessagesOf(r) \cup {m}
    BY <1>2, <2>1, <2>3, ProceedKeeps
  <2>6. \A h \in Some(request') : h.type # "push"
    BY DEF OrderInv, Apart, Loaded
  <2>7. MessagesOf(r) \subseteq Drained'
    BY <2>3, <2>5, <2>6 DEF Drained
  <2>8. Prepared'
    <3> SUFFICES ASSUME NEW c \in Some(sending') \cup Some(request'), c.type = "check",
                        NEW k \in DOMAIN input',
                        input'[k].type = "push", input'[k].id < c.id, input'[k].uri = c.uri
                 PROVE  \/ SentFor(input[k])'
                        \/ \E h \in Drained' : h.type = "push" /\ Covers(h, input'[k])
      BY DEF Prepared
    <3>1. c = m
      BY <2>3, <2>5
    <3>2. k \in DOMAIN input
      BY <1>2, <3>1 DEF Reads
    <3> DEFINE p == input[k]
    <3>3. input'[k] = p
      BY <3>2 DEF Reads
    <3>4. SentFor(p) \/ HeldFor(p)
      BY <1>1, <3>2, <3>3 DEF LossInv, NothingLost
    <3> HIDE DEF p
    <3>5. CASE SentFor(p)
      BY <1>1, <3>3, <3>5 DEF SentFor
    <3>6. CASE HeldFor(p)
      <4>1. PICK h \in Held : h.type = "push" /\ Covers(h, p)
        BY <3>6 DEF HeldFor
      <4>2. h.uri = m.uri
        BY <3>1, <3>3, <4>1 DEF Covers
      <4> QED BY <2>4, <2>7, <3>3, <4>1, <4>2
    <3> QED BY <3>4, <3>5, <3>6
  <2> QED BY <2>8, ReadLineSees DEF CheckInv
<1> QED BY <1>4, <1>5

(* The write of what is drained makes the push written that a check needs, *)
(* and the check itself comes last.                                        *)
LEMMA WriteChecks ==
    ASSUME Basics, LossInv, OrderInv, CheckInv, WriteOk \/ WriteLost
    PROVE  CheckInv'
<1>1. /\ phase = "writing" /\ RecordSent /\ Proceed(batch, request, eof)
      /\ input' = input
  BY DEF WriteOk, WriteLost, queueVars
<1>2. /\ sending \in Message /\ sending # NoMessage /\ batch \in SUBSET Message
      /\ request \in Message \cup {NoMessage} /\ eof \in BOOLEAN
      /\ input \in Seq(Message)
  BY <1>1 DEF Basics, TypeOK, Phases
<1>3. /\ Len(sent) \in Nat /\ DOMAIN sent = 1..Len(sent)
      /\ DOMAIN sent' = DOMAIN sent \cup {Len(sent) + 1}
      /\ \A i \in DOMAIN sent : sent'[i] = sent[i]
      /\ sent'[Len(sent) + 1].message = sending
  BY <1>1, SentIndexes
<1>4. Some(sending) = {sending}
  BY <1>2 DEF Some
<1>5. batch' \cup Some(sending') \cup Some(request') = batch \cup Some(request)
  BY <1>1, <1>2, NextInDrain
<1>6. /\ \A h \in batch : h.type = "push"
      /\ \A h \in Some(request) : h.type # "push"
      /\ sending.type # "push" => batch = {}
  BY <1>4 DEF OrderInv, Apart, Loaded
<1>7. \A h \in Some(request') : h.type # "push"
  <2>1. Loaded(batch, NoMessage, request)
    BY <1>2, <1>4, NoMessageAssumption DEF OrderInv, Apart, Loaded, Some
  <2>2. Loaded(batch, sending, request)'
    BY <1>1, <1>2, <2>1, ProceedLoads
  <2> QED BY <2>2 DEF Loaded
<1>8. batch \subseteq Drained'
  BY <1>5, <1>6, <1>7 DEF Drained
<1>9. \A k \in DOMAIN input : input[k].id <= Len(input) /\ Len(input) >= input[k].id
  <2>1. \A k \in DOMAIN input : input[k].id = k /\ k \in 1..Len(input)
    BY <1>2 DEF LossInv, Numbered
  <2> QED BY <1>2, <2>1
<1>10. Prepared'
  <2> SUFFICES ASSUME NEW c \in Some(sending') \cup Some(request'), c.type = "check",
                      NEW k \in DOMAIN input,
                      input[k].type = "push", input[k].id < c.id, input[k].uri = c.uri
               PROVE  \/ SentFor(input[k])'
                      \/ \E h \in Drained' : h.type = "push" /\ Covers(h, input[k])
    BY <1>1 DEF Prepared
  <2>1. c \in Some(request)
    BY <1>5, <1>6
  <2>2. \/ SentFor(input[k])
        \/ \E h \in Drained : h.type = "push" /\ Covers(h, input[k])
    BY <2>1 DEF CheckInv, Prepared
  <2> DEFINE p == input[k]
  <2>3. p' = p /\ Len(input) >= p.id
    BY <1>1, <1>9
  <2>4. SentFor(p) \/ \E h \in Drained : h.type = "push" /\ Covers(h, p)
    BY <2>2
  <2> SUFFICES SentFor(p)' \/ \E h \in Drained' : h.type = "push" /\ Covers(h, p)
    OBVIOUS
  <2> HIDE DEF p
  <2>5. CASE SentFor(p)
    <3>1. PICK i \in DOMAIN sent : /\ sent[i].message.type = "push"
                                   /\ Covers(sent[i].message, p) /\ sent[i].at >= p.id
      BY <2>5 DEF SentFor
    <3> QED BY <1>3, <2>3, <3>1 DEF SentFor
  <2>6. ASSUME NEW h \in Drained, h.type = "push", Covers(h, p)
        PROVE  SentFor(p)' \/ \E g \in Drained' : g.type = "push" /\ Covers(g, p)
    <3>1. CASE h \in batch
      BY <1>8, <2>6, <3>1
    <3>2. CASE h = sending
      BY <1>1, <2>3, <2>6, <3>2, SentGrows DEF SentFor
    <3> QED BY <1>4, <3>1, <3>2 DEF Drained
  <2> QED BY <2>4, <2>5, <2>6
<1>11. CheckSeesLatestPush'
  <2> SUFFICES ASSUME NEW j \in DOMAIN sent', NEW k \in DOMAIN input,
                      sent'[j].message.type = "check",
                      input[k].type = "push", input[k].id < sent'[j].message.id,
                      input[k].uri = sent'[j].message.uri
               PROVE  \E i \in 1..(j - 1) : /\ sent'[i].message.type = "push"
                                            /\ Covers(sent'[i].message, input[k])
                                            /\ sent'[i].at >= input[k].id
    BY <1>1 DEF CheckSeesLatestPush
  <2>1. CASE j \in DOMAIN sent
    <3>1. PICK i \in 1..(j - 1) : /\ sent[i].message.type = "push"
                                  /\ Covers(sent[i].message, input[k])
                                  /\ sent[i].at >= input[k].id
      BY <1>3, <2>1 DEF CheckInv, CheckSeesLatestPush
    <3>2. i \in DOMAIN sent
      BY <1>3, <2>1
    <3> QED BY <1>3, <3>1, <3>2
  <2>2. CASE j = Len(sent) + 1
    <3>1. sending.type = "check" /\ Drained = {sending}
      BY <1>3, <1>4, <1>6, <2>2 DEF Drained
    <3>2. SentFor(input[k])
      BY <1>3, <1>4, <2>2, <3>1 DEF CheckInv, Prepared
    <3>3. PICK i \in DOMAIN sent : /\ sent[i].message.type = "push"
                                   /\ Covers(sent[i].message, input[k])
                                   /\ sent[i].at >= input[k].id
      BY <3>2 DEF SentFor
    <3>4. i \in 1..(j - 1)
      BY <1>3, <2>2
    <3> QED BY <1>3, <3>3, <3>4
  <2> QED BY <1>3, <2>1, <2>2
<1> QED BY <1>10, <1>11 DEF CheckInv

LEMMA OtherChecks ==
    ASSUME CheckInv,
           \/ StartSession \/ ReadError \/ Killed \/ TimePasses \/ WriteFails \/ Restart
           \/ StopSession \/ TryWait \/ TakeAnswer \/ DeliverAnswer \/ Terminated
           \/ UNCHANGED vars
           \/ \E g \in DOMAIN adapters : Reader(g) \/ Adapter(g) \/ Accident(g)
    PROVE  CheckInv'
<1>1. UNCHANGED <<input, batch, sending, request, sent>>
  BY OtherKeepsHeld DEF TimePasses, sendVars
<1>2. Prepared'
  BY <1>1 DEF CheckInv, Prepared, SentFor, Drained
<1>3. CheckSeesLatestPush'
  BY <1>1 DEF CheckInv, CheckSeesLatestPush
<1> QED BY <1>2, <1>3 DEF CheckInv

LEMMA NextChecks ==
    Basics /\ LossInv /\ OrderInv /\ OrderInv' /\ CheckInv /\ [Next]_vars => CheckInv'
<1> SUFFICES ASSUME Basics, LossInv, OrderInv, OrderInv', CheckInv, [Next]_vars PROVE CheckInv'
  OBVIOUS
<1>1. CASE ReadLine
  <2>1. PICK m : Reads(m)
    BY <1>1, LineRead
  <2> QED BY <1>1, <2>1, ReadPushChecks, ReadRequestChecks DEF Reads
<1>2. CASE ReadEof \/ FlushTick \/ WriteOk \/ WriteLost
  BY <1>2, DrainChecks, WriteChecks
<1> QED BY <1>1, <1>2, OtherChecks DEF Next, Loop

LEMMA InitChecks == Init => CheckInv
BY DEF Init, CheckInv, Prepared, CheckSeesLatestPush, Some

(* A check that has been written comes behind the newest push of its       *)
(* document that was read before it, or one that push gave way to          *)
(* (main.rs 208-222).                                                      *)
THEOREM CheckSeesLatestPushCorrect == Spec => []CheckSeesLatestPush
<1>1. CheckInv => CheckSeesLatestPush
  BY DEF CheckInv
<1> QED BY <1>1, InitChecks, NextChecks, BasicsCorrect, LossCorrect, OrderCorrect, PTL DEF Spec

-----------------------------------------------------------------------------
(* The way of the answers.  What an adapter was asked, what it is working  *)
(* on and what it has answered are different messages, all written to it:  *)
(* w is what was written, g the adapter's number.                          *)
Members(s) == {s[i] : i \in DOMAIN s}

Once(s) == \A i, j \in DOMAIN s : i < j => s[i] # s[j]

Wrote(w, g, m) == \E i \in DOMAIN w : w[i].message = m /\ w[i].gen = g

Asked(w, g, a) ==
    /\ \A m \in a.handling \cup Members(a.stdin) \cup Members(a.told) : Wrote(w, g, m)
    /\ Once(a.stdin) /\ Once(a.told)
    /\ a.handling \cap Members(a.stdin) = {}
    /\ Members(a.told) \cap (a.handling \cup Members(a.stdin)) = {}

AskedInv == \A g \in DOMAIN adapters : Asked(sent, g, adapters[g])

(* From there on the answers keep the order t in which they were given. *)
Before(t, m, n) == \E i, j \in DOMAIN t : i < j /\ t[i] = m /\ t[j] = n

InOrder(t, s) == \A i, j \in DOMAIN s : i < j => Before(t, s[i], s[j])

Ahead(t, first, second) == \A m \in first, n \in second : Before(t, m, n)

(* What adapter a has out, in the channel and beyond; what its reader task *)
(* holds; what waits in its stdout.                                        *)
Given(a, out) ==
    /\ out \cup Some(a.reader) \cup Members(a.stdout) \subseteq Members(a.told)
    /\ InOrder(a.told, a.stdout)
    /\ Ahead(a.told, out, Some(a.reader) \cup Members(a.stdout))
    /\ Ahead(a.told, Some(a.reader), Members(a.stdout))

(* The answers of adapter g among those delivered, d, the one being written *)
(* to the editor, o, and those in the channel, c.                           *)
PutOut(d, o, c, g) == {x.message : x \in {y \in Members(d) \cup o \cup Members(c) : y.gen = g}}

Lanes(as, d, o, c) == \A g \in DOMAIN as : Given(as[g], PutOut(d, o, c, g))

Gave(as, x) == x.gen \in DOMAIN as /\ x.message \in Members(as[x.gen].told)

Sooner(as, x, y) == x.gen = y.gen => Before(as[x.gen].told, x.message, y.message)

OutOrder(as, s) == \A i, j \in DOMAIN s : i < j => Sooner(as, s[i], s[j])

Answers(as, d, o, c) ==
    /\ \A x \in Members(d) \cup o \cup Members(c) : Gave(as, x)
    /\ OutOrder(as, d) /\ OutOrder(as, c)
    /\ \A x \in Members(d), y \in o \cup Members(c) : Sooner(as, x, y)
    /\ \A x \in o, y \in Members(c) : Sooner(as, x, y)

GivenInv ==
    /\ Lanes(adapters, delivered, Some(answer), channel)
    /\ Answers(adapters, delivered, Some(answer), channel)

-----------------------------------------------------------------------------
(* Sequences and their members. *)
LEMMA MembersEmpty == Members(<<>>) = {} /\ Once(<<>>) /\ \A t : InOrder(t, <<>>)
BY EmptySeq DEF Members, Once, InOrder

(* t is s with m behind it. *)
Appended(t, s, m) ==
    \E n \in Nat : /\ DOMAIN s = 1..n /\ DOMAIN t = 1..(n + 1)
                   /\ \A i \in DOMAIN s : t[i] = s[i]
                   /\ t[n + 1] = m

LEMMA AppendIs ==
    ASSUME NEW S, NEW s \in Seq(S), NEW m \in S, NEW t, t = Append(s, m)
    PROVE  Appended(t, s, m)
<1>1. /\ Len(s) \in Nat /\ DOMAIN s = 1..Len(s) /\ DOMAIN t = 1..(Len(s) + 1)
      /\ \A i \in DOMAIN s : t[i] = s[i]
      /\ t[Len(s) + 1] = m
  BY AppendProperties
<1> QED BY <1>1 DEF Appended

LEMMA MembersAppend ==
    ASSUME NEW s, NEW m, NEW t, Appended(t, s, m)
    PROVE  /\ Members(t) = Members(s) \cup {m}
           /\ \A w : InOrder(w, s) /\ Ahead(w, Members(s), {m}) => InOrder(w, t)
           /\ Once(s) /\ m \notin Members(s) => Once(t)
<1>1. PICK n \in Nat : /\ DOMAIN s = 1..n /\ DOMAIN t = 1..(n + 1)
                       /\ \A i \in DOMAIN s : t[i] = s[i]
                       /\ t[n + 1] = m
  BY DEF Appended
<1>2. DOMAIN t = DOMAIN s \cup {n + 1}
  BY <1>1
<1>3. Members(t) = Members(s) \cup {m}
  BY <1>1, <1>2 DEF Members
<1>4. ASSUME NEW w, InOrder(w, s), Ahead(w, Members(s), {m})
      PROVE  InOrder(w, t)
  <2> SUFFICES ASSUME NEW i \in DOMAIN t, NEW j \in DOMAIN t, i < j
               PROVE  Before(w, t[i], t[j])
    BY DEF InOrder
  <2>1. i \in DOMAIN s
    BY <1>1, <1>2
  <2>2. CASE j \in DOMAIN s
    BY <1>1, <1>4, <2>1, <2>2 DEF InOrder
  <2>3. CASE j = n + 1
    BY <1>1, <1>4, <2>1, <2>3 DEF Ahead, Members
  <2> QED BY <1>2, <2>2, <2>3
<1>5. ASSUME Once(s), m \notin Members(s)
      PROVE  Once(t)
  <2> SUFFICES ASSUME NEW i \in DOMAIN t, NEW j \in DOMAIN t, i < j
               PROVE  t[i] # t[j]
    BY DEF Once
  <2>1. i \in DOMAIN s
    BY <1>1, <1>2
  <2>2. CASE j \in DOMAIN s
    BY <1>1, <1>5, <2>1, <2>2 DEF Once
  <2>3. CASE j = n + 1
    BY <1>1, <1>5, <2>1, <2>3 DEF Members
  <2> QED BY <1>2, <2>2, <2>3
<1> QED BY <1>3, <1>4, <1>5

LEMMA TailIndexes ==
    ASSUME NEW S, NEW s \in Seq(S), s # <<>>
    PROVE  /\ Tail(s) \in Seq(S) /\ Head(s) \in S
           /\ 1 \in DOMAIN s /\ Head(s) = s[1]
           /\ \A i \in DOMAIN Tail(s) :
                /\ i \in Nat \ {0}
                /\ i + 1 \in DOMAIN s /\ Tail(s)[i] = s[i + 1]
           /\ \A i \in DOMAIN s : /\ i \in Nat
                                  /\ i = 1 \/ (i - 1 \in DOMAIN Tail(s) /\ Tail(s)[i - 1] = s[i])
<1>1. /\ Tail(s) \in Seq(S) /\ Head(s) \in S /\ Len(s) \in Nat /\ Len(s) >= 1
      /\ Len(Tail(s)) = Len(s) - 1 /\ Head(s) = s[1]
      /\ \A i \in 1..Len(Tail(s)) : Tail(s)[i] = s[i + 1]
      /\ DOMAIN s = 1..Len(s) /\ DOMAIN Tail(s) = 1..Len(Tail(s))
  BY HeadTailProperties, EmptySeq
<1> DEFINE t == Tail(s)
<1> HIDE DEF t
<1>2. /\ Len(t) = Len(s) - 1 /\ DOMAIN t = 1..Len(t)
      /\ \A i \in 1..Len(t) : t[i] = s[i + 1]
  BY <1>1 DEF t
<1>3. \A i \in DOMAIN t : i \in Nat \ {0} /\ i + 1 \in DOMAIN s /\ t[i] = s[i + 1]
  BY <1>1, <1>2
<1>4. \A i \in DOMAIN s : i \in Nat /\ (i = 1 \/ (i - 1 \in DOMAIN t /\ t[i - 1] = s[i]))
  <2> SUFFICES ASSUME NEW i \in DOMAIN s, i # 1
               PROVE  i - 1 \in DOMAIN t /\ t[i - 1] = s[i]
    BY <1>1
  <2>1. i - 1 \in 1..Len(t) /\ (i - 1) + 1 = i
    BY <1>1, <1>2
  <2> QED BY <1>2, <2>1
<1>5. 1 \in DOMAIN s
  BY <1>1
<1> QED BY <1>1, <1>3, <1>4, <1>5 DEF t

LEMMA MembersTail ==
    ASSUME NEW S, NEW s \in Seq(S), s # <<>>
    PROVE  /\ Members(s) = {Head(s)} \cup Members(Tail(s))
           /\ \A w : InOrder(w, s) => InOrder(w, Tail(s)) /\ Ahead(w, {Head(s)}, Members(Tail(s)))
           /\ Once(s) => Once(Tail(s)) /\ Head(s) \notin Members(Tail(s))
<1> DEFINE t == Tail(s)
           h == Head(s)
<1>1. /\ 1 \in DOMAIN s /\ h = s[1]
      /\ \A i \in DOMAIN t : i \in Nat \ {0} /\ i + 1 \in DOMAIN s /\ t[i] = s[i + 1]
      /\ \A i \in DOMAIN s : i \in Nat /\ (i = 1 \/ (i - 1 \in DOMAIN t /\ t[i - 1] = s[i]))
  BY TailIndexes
<1> HIDE DEF t, h
<1>2. Members(s) = {h} \cup Members(t)
  BY <1>1 DEF Members
<1>3. /\ \A i, j \in DOMAIN t : i < j => i + 1 < j + 1
      /\ \A i \in DOMAIN t : 1 < i + 1
  BY <1>1
<1>4. ASSUME NEW w, InOrder(w, s)
      PROVE  InOrder(w, t) /\ Ahead(w, {h}, Members(t))
  <2>1. ASSUME NEW i \in DOMAIN t, NEW j \in DOMAIN t, i < j
        PROVE  Before(w, t[i], t[j])
    BY <1>1, <1>3, <1>4, <2>1 DEF InOrder
  <2>2. ASSUME NEW i \in DOMAIN t
        PROVE  Before(w, h, t[i])
    BY <1>1, <1>3, <1>4, <2>2 DEF InOrder
  <2> QED BY <2>1, <2>2 DEF InOrder, Ahead, Members
<1>5. ASSUME Once(s)
      PROVE  Once(t) /\ h \notin Members(t)
  <2>1. ASSUME NEW i \in DOMAIN t, NEW j \in DOMAIN t, i < j
        PROVE  t[i] # t[j]
    BY <1>1, <1>3, <1>5, <2>1 DEF Once
  <2>2. ASSUME NEW i \in DOMAIN t
        PROVE  h # t[i]
    BY <1>1, <1>3, <1>5, <2>2 DEF Once
  <2> QED BY <2>1, <2>2 DEF Once, Members
<1> QED BY <1>2, <1>4, <1>5 DEF t, h

Extends(v, w) == \A i \in DOMAIN w : i \in DOMAIN v /\ v[i] = w[i]

LEMMA AppendExtends ==
    ASSUME NEW s, NEW m, NEW t, Appended(t, s, m)
    PROVE  /\ Extends(t, s)
           /\ \A n \in Members(s) : Before(t, n, m)
<1>1. PICK n \in Nat : /\ DOMAIN s = 1..n /\ DOMAIN t = 1..(n + 1)
                       /\ \A i \in DOMAIN s : t[i] = s[i]
                       /\ t[n + 1] = m
  BY DEF Appended
<1>2. DOMAIN t = DOMAIN s \cup {n + 1} /\ \A i \in DOMAIN s : i < n + 1
  BY <1>1
<1>3. Extends(t, s)
  BY <1>1, <1>2 DEF Extends
<1>4. \A i \in DOMAIN s : Before(t, s[i], m)
  BY <1>1, <1>2 DEF Before
<1> QED BY <1>3, <1>4 DEF Members

LEMMA ExtendsKeeps ==
    ASSUME NEW v, NEW w, Extends(v, w)
    PROVE  /\ \A g, m : Wrote(w, g, m) => Wrote(v, g, m)
           /\ \A m, n : Before(w, m, n) => Before(v, m, n)
           /\ Members(w) \subseteq Members(v)
BY DEF Extends, Wrote, Before, Members

-----------------------------------------------------------------------------
(* What is asked of one adapter. *)
LEMMA AskedGrows ==
    ASSUME NEW v, NEW w, Extends(v, w), NEW g, NEW a, Asked(w, g, a)
    PROVE  Asked(v, g, a)
BY ExtendsKeeps DEF Asked

(* Less may be being handled and unread. *)
LEMMA AskedShrinks ==
    ASSUME NEW w, NEW g, NEW a, NEW b, Asked(w, g, a),
           b.told = a.told, b.handling \subseteq a.handling, b.stdin \in {a.stdin, <<>>}
    PROVE  Asked(w, g, b)
<1>1. Members(b.stdin) \subseteq Members(a.stdin) /\ (Once(a.stdin) => Once(b.stdin))
  BY MembersEmpty
<1> QED BY <1>1 DEF Asked

LEMMA AskedGone ==
    ASSUME NEW w, NEW g, NEW a \in Adapters, NEW state, Asked(w, g, a)
    PROVE  Asked(w, g, Gone(a, state))
<1> DEFINE b == Gone(a, state)
<1>1. b.told = a.told /\ b.handling = {} /\ b.stdin = <<>>
  BY DEF Gone, Adapters
<1> HIDE DEF b
<1>2. Asked(w, g, b)
  BY <1>1, AskedShrinks
<1> QED BY <1>2 DEF b

LEMMA AskedReaped ==
    ASSUME NEW w, NEW g, NEW a \in Adapters, Asked(w, g, a)
    PROVE  Asked(w, g, Reaped(a))
<1>1. Asked(w, g, Gone(a, "exited"))
  BY AskedGone
<1>2. Asked(w, g, [a EXCEPT !.sbt = FALSE])
  <2> DEFINE b == [a EXCEPT !.sbt = FALSE]
  <2>1. b.told = a.told /\ b.handling = a.handling /\ b.stdin = a.stdin
    BY DEF Adapters
  <2> HIDE DEF b
  <2>2. Asked(w, g, b)
    BY <2>1, AskedShrinks
  <2> QED BY <2>2 DEF b
<1> QED BY <1>1, <1>2 DEF Reaped

LEMMA AskedNew ==
    ASSUME NEW w, NEW g
    PROVE  Asked(w, g, NewAdapter)
<1>1. NewAdapter.told = <<>> /\ NewAdapter.handling = {} /\ NewAdapter.stdin = <<>>
  BY DEF NewAdapter
<1> QED BY <1>1, MembersEmpty DEF Asked

(* write_line: the message was not written before. *)
LEMMA AskedFed ==
    ASSUME NEW w, NEW v, Extends(v, w), NEW g, NEW a \in Adapters, NEW m \in Message,
           Asked(w, g, a), Wrote(v, g, m), ~Wrote(w, g, m)
    PROVE  Asked(v, g, Fed(a, m))
<1> DEFINE b == Fed(a, m)
<1>1. /\ b.told = a.told /\ b.handling = a.handling
      /\ b.stdin = Append(a.stdin, m) /\ a.stdin \in Seq(Message)
  BY DEF Fed, Adapters
<1> HIDE DEF b
<1>2. Asked(v, g, a)
  BY AskedGrows
<1>3. m \notin a.handling \cup Members(a.stdin) \cup Members(a.told)
  BY DEF Asked
<1>4. Appended(b.stdin, a.stdin, m)
  BY <1>1, AppendIs
<1>5. Members(b.stdin) = Members(a.stdin) \cup {m} /\ (Once(a.stdin) => Once(b.stdin))
  BY <1>3, <1>4, MembersAppend
<1>6. Asked(v, g, b)
  BY <1>1, <1>2, <1>3, <1>5 DEF Asked
<1> QED BY <1>6 DEF b

(* The adapter reads a line, and answers one of those it has read. *)
LEMMA AskedRead ==
    ASSUME NEW w, NEW g, NEW a \in Adapters, Asked(w, g, a), a.stdin # <<>>
    PROVE  Asked(w, g, Read(a))
<1> DEFINE m == Head(a.stdin)
           b == [a EXCEPT !.stdin = Tail(a.stdin),
                          !.handling = a.handling \cup {n \in {m} : Answered(n)}]
<1>1. Read(a) = Gone(a, "closing") \/ Read(a) = b
  BY DEF Read
<1>2. Asked(w, g, Gone(a, "closing"))
  BY AskedGone
<1>3. /\ b.told = a.told /\ b.stdin = Tail(a.stdin) /\ a.stdin \in Seq(Message)
      /\ b.handling = a.handling \cup {n \in {m} : Answered(n)}
  BY DEF Adapters
<1> HIDE DEF b
<1>4. /\ Members(a.stdin) = {m} \cup Members(b.stdin)
      /\ Once(a.stdin) => Once(b.stdin) /\ m \notin Members(b.stdin)
  <2> DEFINE s == a.stdin
  <2>1. s \in Seq(Message) /\ s # <<>> /\ b.stdin = Tail(s) /\ m = Head(s)
    BY <1>3
  <2> HIDE DEF s, m
  <2>2. /\ Members(s) = {Head(s)} \cup Members(Tail(s))
        /\ Once(s) => Once(Tail(s)) /\ Head(s) \notin Members(Tail(s))
    BY <2>1, MembersTail
  <2> QED BY <2>1, <2>2 DEF s
<1> HIDE DEF m
<1>5. b.handling \subseteq a.handling \cup {m}
  BY <1>3
<1>6. Asked(w, g, b)
  BY <1>3, <1>4, <1>5 DEF Asked
<1> QED BY <1>1, <1>2, <1>6

LEMMA AskedTold ==
    ASSUME NEW w, NEW g, NEW a \in Adapters, Asked(w, g, a), NEW m \in a.handling
    PROVE  Asked(w, g, Told(a, m))
<1> DEFINE b == Told(a, m)
<1>1. /\ b.told = Append(a.told, m) /\ b.handling = a.handling \ {m} /\ b.stdin = a.stdin
      /\ a.told \in Seq(Message) /\ m \in Message
  BY DEF Told, Adapters
<1> HIDE DEF b
<1>2. m \notin Members(a.stdin) \cup Members(a.told)
  BY DEF Asked
<1>3. Appended(b.told, a.told, m)
  BY <1>1, AppendIs
<1>4. Members(b.told) = Members(a.told) \cup {m} /\ (Once(a.told) => Once(b.told))
  BY <1>2, <1>3, MembersAppend
<1>5. Asked(w, g, b)
  BY <1>1, <1>2, <1>4 DEF Asked
<1> QED BY <1>5 DEF b

(* The steps.  One record changes. *)
LEMMA RecordAsked ==
    ASSUME AskedInv, NEW g \in DOMAIN adapters, NEW b,
           adapters' = [adapters EXCEPT ![g] = b], UNCHANGED sent, Asked(sent, g, b)
    PROVE  AskedInv'
BY DEF AskedInv

LEMMA SenderAsked ==
    ASSUME Basics, AskedInv, StartSession \/ WriteFails \/ Restart \/ StopSession
    PROVE  AskedInv'
<1>1. UNCHANGED sent
  BY DEF StartSession, WriteFails, Restart, StopSession, sendVars
<1>2. AdapterTypes
  BY TypeParts DEF Basics
<1>3. \/ adapters' = adapters \/ adapters' = Stopped
      \/ adapters' = Append(Stopped, NewAdapter)
  BY DEF StartSession, WriteFails, Restart, StopSession
<1>4. \A g \in DOMAIN Stopped : Asked(sent, g, Stopped[g])
  <2>1. CASE Current = 0
    BY <2>1 DEF Stopped, AskedInv
  <2>2. CASE Current # 0
    <3>1. Current \in DOMAIN adapters
      BY <1>2, <2>2 DEF AdapterTypes, Current
    <3>2. Stopped = [adapters EXCEPT ![Current] = Reaped(adapters[Current])]
      BY <2>2 DEF Stopped
    <3>3. Asked(sent, Current, Reaped(adapters[Current]))
      BY <1>2, <3>1, AdapterTyped, AskedReaped DEF AskedInv
    <3>4. /\ DOMAIN Stopped = DOMAIN adapters
          /\ \A g \in DOMAIN adapters :
               Stopped[g] = IF g = Current THEN Reaped(adapters[Current]) ELSE adapters[g]
      BY <3>1, <3>2
    <3> QED BY <3>3, <3>4 DEF AskedInv
  <2> QED BY <2>1, <2>2
<1>5. CASE adapters' = Append(Stopped, NewAdapter)
  <2>1. Stopped \in Seq(Adapters)
    BY <1>2, StoppedTyped
  <2>2. NewAdapter \in Adapters
    BY EmptySeq DEF NewAdapter, Adapters
  <2>3. \A g : Asked(sent, g, NewAdapter)
    BY AskedNew
  <2> HIDE DEF NewAdapter
  <2>4. Appended(adapters', Stopped, NewAdapter)
    BY <1>5, <2>1, <2>2, AppendIs
  <2>5. PICK n \in Nat : /\ DOMAIN Stopped = 1..n /\ DOMAIN adapters' = 1..(n + 1)
                         /\ \A g \in DOMAIN Stopped : adapters'[g] = Stopped[g]
                         /\ adapters'[n + 1] = NewAdapter
    BY <2>4 DEF Appended
  <2>6. \A g \in DOMAIN adapters' : g \in DOMAIN Stopped \/ g = n + 1
    BY <2>5
  <2> QED BY <1>1, <1>4, <2>3, <2>5, <2>6 DEF AskedInv
<1> QED BY <1>1, <1>3, <1>4, <1>5 DEF AskedInv

LEMMA AdapterAsked ==
    ASSUME Basics, AskedInv, NEW g \in DOMAIN adapters,
           Reader(g) \/ Adapter(g) \/ Accident(g)
    PROVE  AskedInv'
<1> DEFINE a == adapters[g]
<1>1. UNCHANGED sent
  BY DEF Reader, Adapter, Accident, ReaderTakes, ReaderPuts, AdapterReads, AdapterAnswers,
         AdapterSeesEof, AdapterExits, RequestFails, AdapterQuits, SbtExits, sendVars
<1>2. a \in Adapters /\ Asked(sent, g, a)
  BY AdapterTyped, TypeParts DEF Basics, AskedInv
<1>3. ASSUME NEW b, adapters' = [adapters EXCEPT ![g] = b], Asked(sent, g, b)
      PROVE  AskedInv'
  BY <1>1, <1>3, RecordAsked
<1>4. ASSUME NEW b, b.told = a.told, b.handling \subseteq a.handling, b.stdin \in {a.stdin, <<>>}
      PROVE  Asked(sent, g, b)
  <2> HIDE DEF a
  <2> QED BY <1>2, <1>4, AskedShrinks
<1>5. \A state : Asked(sent, g, Gone(a, state))
  <2> HIDE DEF a
  <2> QED BY <1>2, AskedGone
<1>6. CASE ReaderTakes(g)
  <2>1. adapters' = [adapters EXCEPT ![g] = Taken(a)]
    BY <1>6 DEF ReaderTakes
  <2>2. LET b == Taken(a) IN b.told = a.told /\ b.handling = a.handling /\ b.stdin = a.stdin
    BY <1>2 DEF Taken, Adapters
  <2> QED BY <1>3, <1>4, <2>1, <2>2
<1>7. CASE ReaderPuts(g)
  <2> DEFINE b == [a EXCEPT !.reader = NoMessage]
  <2>1. adapters' = [adapters EXCEPT ![g] = b]
    BY <1>7 DEF ReaderPuts
  <2>2. b.told = a.told /\ b.handling = a.handling /\ b.stdin = a.stdin
    BY <1>2 DEF Adapters
  <2> HIDE DEF a, b
  <2> QED BY <1>3, <1>4, <2>1, <2>2
<1>8. CASE AdapterReads(g)
  <2>1. adapters' = [adapters EXCEPT ![g] = Read(a)] /\ a.stdin # <<>>
    BY <1>8 DEF AdapterReads
  <2>2. Asked(sent, g, Read(a))
    <3> HIDE DEF a
    <3> QED BY <1>2, <2>1, AskedRead
  <2> QED BY <1>3, <2>1, <2>2
<1>9. CASE AdapterAnswers(g)
  <2>1. PICK m \in a.handling : \/ adapters' = [adapters EXCEPT ![g] = Told(a, m)]
                                \/ adapters' = [adapters EXCEPT ![g] = Gone(a, "closing")]
    BY <1>9 DEF AdapterAnswers
  <2>2. Asked(sent, g, Told(a, m))
    <3> HIDE DEF a
    <3> QED BY <1>2, AskedTold
  <2> QED BY <1>3, <1>5, <2>1, <2>2
<1>10. CASE AdapterSeesEof(g) \/ AdapterQuits(g)
  <2>1. adapters' = [adapters EXCEPT ![g] = Gone(a, "closing")]
    BY <1>10 DEF AdapterSeesEof, AdapterQuits
  <2> QED BY <1>3, <1>5, <2>1
<1>11. CASE AdapterExits(g)
  <2> DEFINE b == [a EXCEPT !.state = "exited"]
  <2>1. adapters' = [adapters EXCEPT ![g] = b]
    BY <1>11 DEF AdapterExits
  <2>2. b.told = a.told /\ b.handling = a.handling /\ b.stdin = a.stdin
    BY <1>2 DEF Adapters
  <2> HIDE DEF a, b
  <2> QED BY <1>3, <1>4, <2>1, <2>2
<1>12. CASE RequestFails(g)
  <2>1. PICK m \in a.handling : adapters' = [adapters EXCEPT ![g] = Dropped(a, m)]
    BY <1>12 DEF RequestFails
  <2>2. LET b == Dropped(a, m)
        IN b.told = a.told /\ b.handling = a.handling \ {m} /\ b.stdin = a.stdin
    BY <1>2 DEF Dropped, Adapters
  <2> HIDE DEF a
  <2> QED BY <1>3, <1>4, <2>1, <2>2
<1>13. CASE SbtExits(g)
  <2> DEFINE b == [a EXCEPT !.sbt = FALSE]
  <2>1. adapters' = [adapters EXCEPT ![g] = b]
    BY <1>13 DEF SbtExits
  <2>2. b.told = a.told /\ b.handling = a.handling /\ b.stdin = a.stdin
    BY <1>2 DEF Adapters
  <2> HIDE DEF a, b
  <2> QED BY <1>3, <1>4, <2>1, <2>2
<1> QED BY <1>6, <1>7, <1>8, <1>9, <1>10, <1>11, <1>12, <1>13 DEF Reader, Adapter, Accident

LEMMA WriteAsked ==
    ASSUME Basics, Written, AskedInv, WriteOk \/ WriteLost
    PROVE  AskedInv'
<1>1. phase = "writing" /\ RecordSent
  BY DEF WriteOk, WriteLost
<1>2. /\ Len(sent) \in Nat /\ DOMAIN sent = 1..Len(sent)
      /\ DOMAIN sent' = DOMAIN sent \cup {Len(sent) + 1}
      /\ \A i \in DOMAIN sent : sent'[i] = sent[i]
      /\ sent'[Len(sent) + 1].message = sending
      /\ sent'[Len(sent) + 1].gen = Current
  BY <1>1, SentIndexes
<1>3. Extends(sent', sent) /\ Wrote(sent', Current, sending)
  BY <1>2 DEF Extends, Wrote
<1>4. \A g \in DOMAIN adapters : Asked(sent', g, adapters[g])
  BY <1>3, AskedGrows DEF AskedInv
<1>5. CASE WriteLost
  BY <1>4, <1>5 DEF WriteLost, adapterVars, AskedInv
<1>6. CASE WriteOk
  <2> DEFINE a == adapters[Current]
  <2>1. sending \in Message /\ Current \in DOMAIN adapters
    BY <1>1, TypeParts, EmptySeq DEF Basics, TypeOK, Phases, Current, AdapterTypes
  <2>2. a \in Adapters /\ Asked(sent, Current, a)
    BY <2>1, AdapterTyped, TypeParts DEF Basics, AskedInv
  <2>3. ~Wrote(sent, Current, sending)
    <3>1. sending \in Held
      BY <2>1, NoMessageAssumption DEF Held, Some
    <3> QED BY <3>1 DEF Wrote, Written
  <2>4. adapters' = [adapters EXCEPT ![Current] = Fed(a, sending)]
    BY <1>6 DEF WriteOk
  <2> HIDE DEF a
  <2>5. Asked(sent', Current, Fed(a, sending))
    BY <1>3, <2>1, <2>2, <2>3, AskedFed
  <2>6. /\ DOMAIN adapters' = DOMAIN adapters
        /\ \A g \in DOMAIN adapters :
             adapters'[g] = IF g = Current THEN Fed(a, sending) ELSE adapters[g]
    BY <2>1, <2>4
  <2> QED BY <1>4, <2>5, <2>6 DEF AskedInv
<1> QED BY <1>5, <1>6

(* Steps that touch neither the adapters nor what was written. *)
LEMMA OutsideSteps ==
    ASSUME \/ ReadLine \/ ReadEof \/ ReadError \/ FlushTick \/ TimePasses \/ Killed
           \/ TryWait \/ Terminated \/ UNCHANGED vars
    PROVE  UNCHANGED <<sent, adapters, channel, answer, delivered>>
BY DEF ReadLine, ReadPush, ReadCheck, ReadOther, ReadEof, ReadError, FlushTick, TimePasses,
       Killed, TryWait, Terminated, vars, sendVars, adapterVars, outVars

LEMMA NextAsked == Basics /\ OrderInv /\ AskedInv /\ [Next]_vars => AskedInv'
<1> SUFFICES ASSUME Basics, OrderInv, AskedInv, [Next]_vars PROVE AskedInv'
  OBVIOUS
<1>1. CASE \/ ReadLine \/ ReadEof \/ ReadError \/ FlushTick \/ TimePasses \/ Killed
           \/ TryWait \/ Terminated \/ UNCHANGED vars
  BY <1>1, OutsideSteps DEF AskedInv
<1>2. CASE TakeAnswer \/ DeliverAnswer
  BY <1>2 DEF TakeAnswer, DeliverAnswer, sendVars, adapterVars, AskedInv
<1>3. CASE WriteOk \/ WriteLost
  BY <1>3, WriteAsked DEF OrderInv
<1> QED BY <1>1, <1>2, <1>3, SenderAsked, AdapterAsked DEF Next, Loop

-----------------------------------------------------------------------------
(* The order of what was given. *)
LEMMA AnswersGrow ==
    ASSUME NEW as, NEW bs, NEW d, NEW o, NEW c, Answers(as, d, o, c),
           \A g \in DOMAIN as : g \in DOMAIN bs /\ Extends(bs[g].told, as[g].told)
    PROVE  Answers(bs, d, o, c)
<1>1. \A x : Gave(as, x) => Gave(bs, x)
  BY ExtendsKeeps DEF Gave
<1>2. \A x, y : Gave(as, x) /\ Sooner(as, x, y) => Sooner(bs, x, y)
  BY ExtendsKeeps DEF Gave, Sooner
<1>3. ASSUME NEW s, OutOrder(as, s), \A x \in Members(s) : Gave(as, x)
      PROVE  OutOrder(bs, s)
  BY <1>2, <1>3 DEF OutOrder, Members
<1>4. OutOrder(bs, d) /\ OutOrder(bs, c)
  BY <1>3 DEF Answers
<1> QED BY <1>1, <1>2, <1>4 DEF Answers

LEMMA SameTold == ASSUME NEW t PROVE Extends(t, t)
BY DEF Extends

LEMMA GivenSame ==
    ASSUME NEW a, NEW b, NEW out, Given(a, out),
           b.told = a.told, b.stdout = a.stdout, b.reader = a.reader
    PROVE  Given(b, out)
BY DEF Given

(* The answers stay where they are, in every adapter and beyond. *)
LEMMA KeptGiven ==
    ASSUME GivenInv, UNCHANGED <<channel, answer, delivered>>,
           DOMAIN adapters' = DOMAIN adapters,
           \A g \in DOMAIN adapters :
              /\ adapters'[g].told = adapters[g].told
              /\ adapters'[g].stdout = adapters[g].stdout
              /\ adapters'[g].reader = adapters[g].reader
    PROVE  GivenInv'
<1>1. Lanes(adapters', delivered, Some(answer), channel)
  BY GivenSame DEF GivenInv, Lanes
<1>2. Answers(adapters', delivered, Some(answer), channel)
  BY AnswersGrow, SameTold DEF GivenInv
<1> QED BY <1>1, <1>2 DEF GivenInv

LEMMA GivenTold ==
    ASSUME NEW a \in Adapters, NEW m \in a.handling, NEW out, Given(a, out)
    PROVE  /\ Given(Told(a, m), out)
           /\ Extends(Told(a, m).told, a.told)
<1> DEFINE b == Told(a, m)
<1>1. /\ b.told = Append(a.told, m) /\ b.stdout = Append(a.stdout, m) /\ b.reader = a.reader
      /\ a.told \in Seq(Message) /\ a.stdout \in Seq(Message) /\ m \in Message
  BY DEF Told, Adapters
<1> HIDE DEF b
<1>2. Appended(b.told, a.told, m) /\ Appended(b.stdout, a.stdout, m)
  BY <1>1, AppendIs
<1>3. Extends(b.told, a.told) /\ \A n \in Members(a.told) : Before(b.told, n, m)
  BY <1>2, AppendExtends
<1>4. /\ Members(b.told) = Members(a.told) \cup {m}
      /\ Members(b.stdout) = Members(a.stdout) \cup {m}
  BY <1>2, MembersAppend
<1>5. \A x, y : Before(a.told, x, y) => Before(b.told, x, y)
  BY <1>3, ExtendsKeeps
<1>6. InOrder(b.told, b.stdout)
  <2>1. InOrder(b.told, a.stdout)
    BY <1>5 DEF Given, InOrder
  <2>2. Ahead(b.told, Members(a.stdout), {m})
    BY <1>3 DEF Given, Ahead
  <2> QED BY <1>2, <2>1, <2>2, MembersAppend
<1>7. Given(b, out)
  BY <1>1, <1>3, <1>4, <1>5, <1>6 DEF Given, Ahead
<1> QED BY <1>3, <1>7 DEF b

LEMMA GivenTaken ==
    ASSUME NEW a \in Adapters, NEW out, Given(a, out), a.reader = NoMessage, a.stdout # <<>>
    PROVE  Given(Taken(a), out) /\ Taken(a).told = a.told
<1> DEFINE b == Taken(a)
<1>1. /\ b.reader = Head(a.stdout) /\ b.stdout = Tail(a.stdout) /\ b.told = a.told
      /\ a.stdout \in Seq(Message)
  BY DEF Taken, Adapters
<1> HIDE DEF b
<1>2. /\ Members(a.stdout) = {b.reader} \cup Members(b.stdout)
      /\ \A t : InOrder(t, a.stdout) => /\ InOrder(t, b.stdout)
                                        /\ Ahead(t, {b.reader}, Members(b.stdout))
  <2> DEFINE s == a.stdout
  <2>1. s \in Seq(Message) /\ s # <<>> /\ b.stdout = Tail(s) /\ b.reader = Head(s)
    BY <1>1
  <2> HIDE DEF s
  <2>2. /\ Members(s) = {Head(s)} \cup Members(Tail(s))
        /\ \A t : InOrder(t, s) => InOrder(t, Tail(s)) /\ Ahead(t, {Head(s)}, Members(Tail(s)))
    BY <2>1, MembersTail
  <2> QED BY <2>1, <2>2 DEF s
<1>3. Some(b.reader) \subseteq {b.reader}
  BY DEF Some
<1>4. Given(b, out)
  BY <1>1, <1>2, <1>3 DEF Given, Ahead
<1> QED BY <1>1, <1>4 DEF b

LEMMA GivenPut ==
    ASSUME NEW a \in Adapters, NEW out, Given(a, out), a.reader # NoMessage
    PROVE  Given([a EXCEPT !.reader = NoMessage], out \cup {a.reader})
<1> DEFINE b == [a EXCEPT !.reader = NoMessage]
<1>1. b.reader = NoMessage /\ b.stdout = a.stdout /\ b.told = a.told
  BY DEF Adapters
<1> HIDE DEF b
<1>2. Some(b.reader) = {} /\ Some(a.reader) = {a.reader}
  BY <1>1 DEF Some
<1>3. Given(b, out \cup {a.reader})
  BY <1>1, <1>2 DEF Given, Ahead
<1> QED BY <1>3 DEF b

LEMMA GivenNew == Given(NewAdapter, {})
<1>1. NewAdapter.told = <<>> /\ NewAdapter.reader = NoMessage /\ NewAdapter.stdout = <<>>
  BY DEF NewAdapter
<1>2. Some(NoMessage) = {}
  BY DEF Some
<1> QED BY <1>1, <1>2, MembersEmpty DEF Given, Ahead

(* stop() takes no answer away, start() adds an adapter that gave none. *)
LEMMA StoppedSame ==
    ASSUME AdapterTypes
    PROVE  /\ DOMAIN Stopped = DOMAIN adapters
           /\ \A g \in DOMAIN adapters :
                /\ Stopped[g].told = adapters[g].told
                /\ Stopped[g].stdout = adapters[g].stdout
                /\ Stopped[g].reader = adapters[g].reader
<1>1. CASE Current = 0
  BY <1>1 DEF Stopped
<1>2. CASE Current # 0
  <2>1. Current \in DOMAIN adapters /\ adapters[Current] \in Adapters
    BY <1>2, AdapterTyped DEF AdapterTypes, Current
  <2> DEFINE a == adapters[Current]
             b == Reaped(a)
  <2>2. b.told = a.told /\ b.stdout = a.stdout /\ b.reader = a.reader
    <3>1. CASE Mode = "child"
      BY <2>1, <3>1 DEF Reaped, Gone, Adapters
    <3>2. CASE Mode # "child"
      BY <2>1, <3>2 DEF Reaped, Adapters
    <3> QED BY <3>1, <3>2
  <2>3. Stopped = [adapters EXCEPT ![Current] = b]
    BY <1>2 DEF Stopped
  <2> HIDE DEF b
  <2>4. /\ DOMAIN Stopped = DOMAIN adapters
        /\ \A g \in DOMAIN adapters : Stopped[g] = IF g = Current THEN b ELSE adapters[g]
    BY <2>1, <2>3
  <2> QED BY <2>2, <2>4
<1> QED BY <1>1, <1>2

LEMMA SenderGiven ==
    ASSUME Basics, GivenInv, StartSession \/ WriteFails \/ Restart \/ StopSession
    PROVE  GivenInv'
<1>1. UNCHANGED <<channel, answer, delivered>>
  BY DEF StartSession, WriteFails, Restart, StopSession, outVars
<1>2. AdapterTypes
  BY TypeParts DEF Basics
<1>3. \/ adapters' = adapters \/ adapters' = Stopped
      \/ adapters' = Append(Stopped, NewAdapter)
  BY DEF StartSession, WriteFails, Restart, StopSession
<1>4. CASE adapters' = adapters \/ adapters' = Stopped
  BY <1>1, <1>2, <1>4, StoppedSame, KeptGiven
<1>5. CASE adapters' = Append(Stopped, NewAdapter)
  <2>1. Stopped \in Seq(Adapters)
    BY <1>2, StoppedTyped
  <2>2. NewAdapter \in Adapters
    BY EmptySeq DEF NewAdapter, Adapters
  <2>3. Given(NewAdapter, {})
    BY GivenNew
  <2> HIDE DEF NewAdapter
  <2>4. Appended(adapters', Stopped, NewAdapter)
    BY <1>5, <2>1, <2>2, AppendIs
  <2>5. PICK n \in Nat : /\ DOMAIN Stopped = 1..n /\ DOMAIN adapters' = 1..(n + 1)
                         /\ \A g \in DOMAIN Stopped : adapters'[g] = Stopped[g]
                         /\ adapters'[n + 1] = NewAdapter
    BY <2>4 DEF Appended
  <2>6. /\ \A g \in DOMAIN adapters' : g \in DOMAIN adapters \/ g = n + 1
        /\ \A g \in DOMAIN adapters : g \in DOMAIN adapters'
        /\ n + 1 \notin DOMAIN adapters
    BY <1>2, <2>5, StoppedSame
  <2>7. \A g \in DOMAIN adapters : /\ adapters'[g].told = adapters[g].told
                                   /\ adapters'[g].stdout = adapters[g].stdout
                                   /\ adapters'[g].reader = adapters[g].reader
    BY <1>2, <2>5, StoppedSame
  <2>8. Answers(adapters', delivered, Some(answer), channel)
    BY <2>6, <2>7, AnswersGrow, SameTold DEF GivenInv
  <2>9. PutOut(delivered, Some(answer), channel, n + 1) = {}
    BY <2>6 DEF GivenInv, Answers, Gave, PutOut
  <2>10. Lanes(adapters', delivered, Some(answer), channel)
    <3> SUFFICES ASSUME NEW g \in DOMAIN adapters'
                 PROVE  Given(adapters'[g], PutOut(delivered, Some(answer), channel, g))
      BY DEF Lanes
    <3>1. CASE g \in DOMAIN adapters
      BY <2>7, <3>1, GivenSame DEF GivenInv, Lanes
    <3>2. CASE g = n + 1
      BY <2>3, <2>5, <2>9, <3>2
    <3> QED BY <2>6, <3>1, <3>2
  <2> QED BY <1>1, <2>8, <2>10 DEF GivenInv
<1> QED BY <1>3, <1>4, <1>5

(* A record changes without a change to its answers. *)
LEMMA RecordSame ==
    ASSUME GivenInv, UNCHANGED <<channel, answer, delivered>>, NEW g \in DOMAIN adapters,
           NEW b, adapters' = [adapters EXCEPT ![g] = b],
           b.told = adapters[g].told, b.stdout = adapters[g].stdout,
           b.reader = adapters[g].reader
    PROVE  GivenInv'
<1>1. DOMAIN adapters' = DOMAIN adapters
  OBVIOUS
<1>2. \A h \in DOMAIN adapters : adapters'[h] = IF h = g THEN b ELSE adapters[h]
  OBVIOUS
<1> QED BY <1>1, <1>2, KeptGiven

(* A record changes, its answers are given further. *)
LEMMA RecordGiven ==
    ASSUME GivenInv, UNCHANGED <<channel, answer, delivered>>, NEW g \in DOMAIN adapters,
           NEW b, adapters' = [adapters EXCEPT ![g] = b],
           Given(b, PutOut(delivered, Some(answer), channel, g)),
           Extends(b.told, adapters[g].told)
    PROVE  GivenInv'
<1>1. DOMAIN adapters' = DOMAIN adapters
  OBVIOUS
<1>2. \A h \in DOMAIN adapters : adapters'[h] = IF h = g THEN b ELSE adapters[h]
  OBVIOUS
<1>3. Lanes(adapters', delivered, Some(answer), channel)
  BY <1>1, <1>2 DEF GivenInv, Lanes
<1>4. \A h \in DOMAIN adapters : Extends(adapters'[h].told, adapters[h].told)
  BY <1>2, SameTold
<1>5. Answers(adapters', delivered, Some(answer), channel)
  BY <1>1, <1>4, AnswersGrow DEF GivenInv
<1> QED BY <1>3, <1>5 DEF GivenInv

LEMMA AdapterGiven ==
    ASSUME Basics, GivenInv, NEW g \in DOMAIN adapters, Adapter(g) \/ Accident(g)
    PROVE  GivenInv'
<1> DEFINE a == adapters[g]
           out == PutOut(delivered, Some(answer), channel, g)
<1>1. UNCHANGED <<channel, answer, delivered>>
  BY DEF Adapter, Accident, AdapterReads, AdapterAnswers, AdapterSeesEof, AdapterExits,
         RequestFails, AdapterQuits, SbtExits, outVars
<1>2. a \in Adapters /\ Given(a, out)
  BY AdapterTyped, TypeParts DEF Basics, GivenInv, Lanes
<1>3. ASSUME NEW b, adapters' = [adapters EXCEPT ![g] = b],
             b.told = a.told, b.stdout = a.stdout, b.reader = a.reader
      PROVE  GivenInv'
  BY <1>1, <1>3, RecordSame
<1>4. LET b == Gone(a, "closing")
      IN b.told = a.told /\ b.stdout = a.stdout /\ b.reader = a.reader
  BY <1>2 DEF Gone, Adapters
<1>5. CASE AdapterReads(g)
  <2>1. adapters' = [adapters EXCEPT ![g] = Read(a)]
    BY <1>5 DEF AdapterReads
  <2>2. LET b == Read(a) IN b.told = a.told /\ b.stdout = a.stdout /\ b.reader = a.reader
    BY <1>2, <1>4 DEF Read, Adapters
  <2> QED BY <1>3, <2>1, <2>2
<1>6. CASE AdapterAnswers(g)
  <2>1. PICK m \in a.handling : \/ adapters' = [adapters EXCEPT ![g] = Told(a, m)]
                                \/ adapters' = [adapters EXCEPT ![g] = Gone(a, "closing")]
    BY <1>6 DEF AdapterAnswers
  <2>2. Given(Told(a, m), out) /\ Extends(Told(a, m).told, a.told)
    <3> HIDE DEF a, out
    <3> QED BY <1>2, GivenTold
  <2>3. CASE adapters' = [adapters EXCEPT ![g] = Told(a, m)]
    BY <1>1, <2>2, <2>3, RecordGiven
  <2> QED BY <1>3, <1>4, <2>1, <2>3
<1>7. CASE AdapterSeesEof(g) \/ AdapterQuits(g)
  <2>1. adapters' = [adapters EXCEPT ![g] = Gone(a, "closing")]
    BY <1>7 DEF AdapterSeesEof, AdapterQuits
  <2> QED BY <1>3, <1>4, <2>1
<1>8. CASE AdapterExits(g)
  <2> DEFINE b == [a EXCEPT !.state = "exited"]
  <2>1. adapters' = [adapters EXCEPT ![g] = b]
    BY <1>8 DEF AdapterExits
  <2>2. b.told = a.told /\ b.stdout = a.stdout /\ b.reader = a.reader
    BY <1>2 DEF Adapters
  <2> HIDE DEF a, b
  <2> QED BY <1>3, <2>1, <2>2
<1>9. CASE RequestFails(g)
  <2>1. PICK m \in a.handling : adapters' = [adapters EXCEPT ![g] = Dropped(a, m)]
    BY <1>9 DEF RequestFails
  <2>2. LET b == Dropped(a, m)
        IN b.told = a.told /\ b.stdout = a.stdout /\ b.reader = a.reader
    BY <1>2 DEF Dropped, Adapters
  <2> QED BY <1>3, <2>1, <2>2
<1>10. CASE SbtExits(g)
  <2> DEFINE b == [a EXCEPT !.sbt = FALSE]
  <2>1. adapters' = [adapters EXCEPT ![g] = b]
    BY <1>10 DEF SbtExits
  <2>2. b.told = a.told /\ b.stdout = a.stdout /\ b.reader = a.reader
    BY <1>2 DEF Adapters
  <2> HIDE DEF a, b
  <2> QED BY <1>3, <2>1, <2>2
<1> QED BY <1>5, <1>6, <1>7, <1>8, <1>9, <1>10 DEF Adapter, Accident

(* The reader task puts its answer behind those that are out. *)
LEMMA AnswerPut ==
    ASSUME NEW as, NEW d, NEW o, NEW c, NEW t, NEW x, Appended(t, c, x), Answers(as, d, o, c),
           Gave(as, x), \A y \in Members(d) \cup o \cup Members(c) : Sooner(as, y, x)
    PROVE  Answers(as, d, o, t)
<1>1. Members(t) = Members(c) \cup {x}
  BY MembersAppend
<1>2. OutOrder(as, t)
  <2>1. PICK n \in Nat : /\ DOMAIN c = 1..n /\ DOMAIN t = 1..(n + 1)
                         /\ \A i \in DOMAIN c : t[i] = c[i]
                         /\ t[n + 1] = x
    BY DEF Appended
  <2> SUFFICES ASSUME NEW i \in DOMAIN t, NEW j \in DOMAIN t, i < j
               PROVE  Sooner(as, t[i], t[j])
    BY DEF OutOrder
  <2>2. i \in DOMAIN c
    BY <2>1
  <2>3. CASE j \in DOMAIN c
    BY <2>1, <2>2, <2>3 DEF Answers, OutOrder
  <2>4. CASE j = n + 1
    <3>1. c[i] \in Members(c)
      BY <2>2 DEF Members
    <3> QED BY <2>1, <2>2, <2>4, <3>1
  <2>5. j \in DOMAIN c \/ j = n + 1
    BY ONLY <2>1, j \in DOMAIN t
  <2> QED BY <2>3, <2>4, <2>5
<1> QED BY <1>1, <1>2 DEF Answers

LEMMA ReaderGiven ==
    ASSUME Basics, GivenInv, NEW g \in DOMAIN adapters, Reader(g)
    PROVE  GivenInv'
<1> DEFINE o == Some(answer)
           out == PutOut(delivered, o, channel, g)
           a == adapters[g]
<1>1. a \in Adapters /\ Given(a, out)
  BY AdapterTyped, TypeParts DEF Basics, GivenInv, Lanes
<1>2. CASE ReaderTakes(g)
  <2>1. /\ adapters' = [adapters EXCEPT ![g] = Taken(a)] /\ a.reader = NoMessage /\ a.stdout # <<>>
        /\ UNCHANGED <<channel, answer, delivered>>
    BY <1>2 DEF ReaderTakes, outVars
  <2>2. Given(Taken(a), out) /\ Extends(Taken(a).told, a.told)
    <3> HIDE DEF a, out
    <3> QED BY <1>1, <2>1, GivenTaken, SameTold
  <2> QED BY <2>1, <2>2, RecordGiven
<1>3. CASE ReaderPuts(g)
  <2> DEFINE b == [a EXCEPT !.reader = NoMessage]
             x == [gen |-> g, message |-> a.reader]
             t == channel'
  <2>1. /\ adapters' = [adapters EXCEPT ![g] = b] /\ a.reader # NoMessage
        /\ channel' = Append(channel, x) /\ UNCHANGED <<answer, delivered>>
    BY <1>3 DEF ReaderPuts
  <2>2. channel \in Seq(Deliveries) /\ g \in Nat
    BY TypeParts DEF Basics, TypeOK, AdapterTypes
  <2>3. a.reader \in Message
    BY <1>1, <2>1 DEF Adapters
  <2>4. x \in Deliveries /\ x.gen = g /\ x.message = a.reader
    BY <2>2, <2>3 DEF Deliveries
  <2>5. Given(b, out \cup {a.reader}) /\ b.told = a.told
    <3> HIDE DEF a, out
    <3>1. Given(b, out \cup {a.reader})
      BY <1>1, <2>1, GivenPut
    <3> QED BY <1>1, <3>1 DEF Adapters
  <2>6. Gave(adapters, x) /\ \A y \in Members(delivered) \cup o \cup Members(channel) :
                                Sooner(adapters, y, x)
    <3>1. Some(a.reader) = {a.reader}
      BY <2>1 DEF Some
    <3>2. a.reader \in Members(a.told) /\ Ahead(a.told, out, {a.reader})
      BY <1>1, <3>1 DEF Given, Ahead
    <3>3. Gave(adapters, x)
      BY <2>4, <3>2 DEF Gave
    <3>4. \A y \in Members(delivered) \cup o \cup Members(channel) : Sooner(adapters, y, x)
      BY <2>4, <3>2 DEF Ahead, PutOut, Sooner
    <3> QED BY <3>3, <3>4
  <2> HIDE DEF x, b
  <2>7. Appended(t, channel, x)
    <3> HIDE DEF a
    <3>1. t = Append(channel, x)
      BY <2>1
    <3> HIDE DEF t
    <3> QED BY <2>2, <2>4, <3>1, AppendIs
  <2>8. Answers(adapters, delivered, o, t)
    <3>1. Answers(adapters, delivered, o, channel)
      BY DEF GivenInv
    <3> HIDE DEF a, out, o, t
    <3> QED BY <2>6, <2>7, <3>1, AnswerPut
  <2>9. /\ PutOut(delivered, o, t, g) = out \cup {a.reader}
        /\ \A h : h # g => PutOut(delivered, o, t, h) = PutOut(delivered, o, channel, h)
    <3>1. Members(t) = Members(channel) \cup {x}
      BY <2>7, MembersAppend
    <3> HIDE DEF a, o, t
    <3> QED BY <2>4, <3>1 DEF PutOut
  <2>10. /\ DOMAIN adapters' = DOMAIN adapters
         /\ \A h \in DOMAIN adapters : adapters'[h] = IF h = g THEN b ELSE adapters[h]
    BY <2>1
  <2>11. Lanes(adapters', delivered, o, t)
    <3> SUFFICES ASSUME NEW h \in DOMAIN adapters
                 PROVE  Given(adapters'[h], PutOut(delivered, o, t, h))
      BY <2>10 DEF Lanes
    <3>1. CASE h = g
      BY <2>5, <2>9, <2>10, <3>1
    <3>2. CASE h # g
      BY <2>9, <2>10, <3>2 DEF GivenInv, Lanes
    <3> QED BY <3>1, <3>2
  <2>12. \A h \in DOMAIN adapters : Extends(adapters'[h].told, adapters[h].told)
    BY <2>5, <2>10, SameTold
  <2>13. Answers(adapters', delivered, o, t)
    <3> HIDE DEF a, out, o, t
    <3> QED BY <2>8, <2>10, <2>12, AnswersGrow
  <2> QED BY <2>1, <2>11, <2>13 DEF GivenInv
<1> QED BY <1>2, <1>3 DEF Reader

(* Fewer answers out leave an adapter's answers in order. *)
LEMMA LanesShrink ==
    ASSUME NEW as, NEW d, NEW o, NEW c, NEW e, NEW p, NEW t, Lanes(as, d, o, c),
           Members(e) \cup p \cup Members(t) \subseteq Members(d) \cup o \cup Members(c)
    PROVE  Lanes(as, e, p, t)
<1>1. \A g : PutOut(e, p, t, g) \subseteq PutOut(d, o, c, g)
  BY DEF PutOut
<1>2. \A a, out, less : Given(a, out) /\ less \subseteq out => Given(a, less)
  BY DEF Given, Ahead
<1> QED BY <1>1, <1>2 DEF Lanes

(* recv: the first of the channel is the one to deliver. *)
LEMMA AnswerTaken ==
    ASSUME NEW S, NEW c \in Seq(S), c # <<>>, NEW as, NEW d, NEW o, Answers(as, d, o, c)
    PROVE  /\ Answers(as, d, {Head(c)}, Tail(c))
           /\ Members(c) = {Head(c)} \cup Members(Tail(c))
<1> DEFINE t == Tail(c)
           h == Head(c)
<1>1. /\ 1 \in DOMAIN c /\ h = c[1]
      /\ \A i \in DOMAIN t : i \in Nat \ {0} /\ i + 1 \in DOMAIN c /\ t[i] = c[i + 1]
  BY TailIndexes
<1>2. Members(c) = {h} \cup Members(t)
  BY MembersTail
<1> HIDE DEF t, h
<1>3. /\ \A i, j \in DOMAIN t : i < j => i + 1 < j + 1
      /\ \A i \in DOMAIN t : 1 < i + 1
  BY <1>1
<1>4. OutOrder(as, t)
  BY <1>1, <1>3 DEF Answers, OutOrder
<1>5. \A y \in Members(t) : Sooner(as, h, y)
  <2>1. \A i \in DOMAIN t : Sooner(as, c[1], c[i + 1])
    BY <1>1, <1>3 DEF Answers, OutOrder
  <2> QED BY <1>1, <2>1 DEF Members
<1>6. Answers(as, d, {h}, t)
  BY <1>2, <1>4, <1>5 DEF Answers
<1> QED BY <1>2, <1>6 DEF t, h

LEMMA TakeGiven ==
    ASSUME Basics, GivenInv, TakeAnswer
    PROVE  GivenInv'
<1>1. /\ channel \in Seq(Deliveries) /\ channel # <<>>
      /\ channel' = Tail(channel) /\ answer' = Head(channel) /\ UNCHANGED <<adapters, delivered>>
  BY DEF TakeAnswer, Basics, TypeOK, adapterVars
<1>2. /\ Answers(adapters, delivered, {Head(channel)}, Tail(channel))
      /\ Members(channel) = {Head(channel)} \cup Members(Tail(channel))
  BY <1>1, AnswerTaken DEF GivenInv
<1>3. Lanes(adapters, delivered, {Head(channel)}, Tail(channel))
  <2>1. Lanes(adapters, delivered, Some(answer), channel)
    BY DEF GivenInv
  <2> QED BY <1>2, <2>1, LanesShrink
<1>4. Some(answer') = {Head(channel)}
  BY <1>1, TailIndexes, NoDelivery DEF Some
<1> QED BY <1>1, <1>2, <1>3, <1>4 DEF GivenInv

(* It is written to the editor, or the bridge fails. *)
LEMMA AnswerDelivered ==
    ASSUME NEW as, NEW d, NEW e, NEW x, NEW c, Appended(e, d, x), Answers(as, d, {x}, c)
    PROVE  Answers(as, e, {}, c) /\ Members(e) = Members(d) \cup {x}
<1>1. Members(e) = Members(d) \cup {x}
  BY MembersAppend
<1>2. OutOrder(as, e)
  <2>1. PICK n \in Nat : /\ DOMAIN d = 1..n /\ DOMAIN e = 1..(n + 1)
                         /\ \A i \in DOMAIN d : e[i] = d[i]
                         /\ e[n + 1] = x
    BY DEF Appended
  <2> SUFFICES ASSUME NEW i \in DOMAIN e, NEW j \in DOMAIN e, i < j
               PROVE  Sooner(as, e[i], e[j])
    BY DEF OutOrder
  <2>2. i \in DOMAIN d
    BY <2>1
  <2>3. CASE j \in DOMAIN d
    BY <2>1, <2>2, <2>3 DEF Answers, OutOrder
  <2>4. CASE j = n + 1
    <3>1. d[i] \in Members(d)
      BY <2>2 DEF Members
    <3> QED BY <2>1, <2>2, <2>4, <3>1 DEF Answers
  <2>5. j \in DOMAIN d \/ j = n + 1
    BY ONLY <2>1, j \in DOMAIN e
  <2> QED BY <2>3, <2>4, <2>5
<1> QED BY <1>1, <1>2 DEF Answers

LEMMA DeliverGiven ==
    ASSUME Basics, GivenInv, DeliverAnswer
    PROVE  GivenInv'
<1>1. /\ delivered \in Seq(Deliveries) /\ answer \in Deliveries
      /\ answer' = NoMessage /\ UNCHANGED <<adapters, channel>>
      /\ delivered' = Append(delivered, answer) \/ delivered' = delivered
  BY DEF DeliverAnswer, Basics, TypeOK, Phases, adapterVars
<1>2. Some(answer) = {answer} /\ Some(answer') = {}
  BY <1>1, NoDelivery DEF Some
<1>3. /\ Lanes(adapters, delivered, {answer}, channel)
      /\ Answers(adapters, delivered, {answer}, channel)
  BY <1>2 DEF GivenInv
<1>4. CASE delivered' = delivered
  <2>1. Answers(adapters, delivered, {}, channel)
    BY <1>3 DEF Answers
  <2>2. Lanes(adapters, delivered, {}, channel)
    BY <1>3, LanesShrink
  <2> QED BY <1>1, <1>2, <1>4, <2>1, <2>2 DEF GivenInv
<1>5. CASE delivered' = Append(delivered, answer)
  <2> DEFINE e == delivered'
  <2>1. Appended(e, delivered, answer)
    <3>1. e = Append(delivered, answer)
      BY <1>5
    <3> HIDE DEF e
    <3> QED BY <1>1, <3>1, AppendIs
  <2> HIDE DEF e
  <2>2. Answers(adapters, e, {}, channel) /\ Members(e) = Members(delivered) \cup {answer}
    BY <1>3, <2>1, AnswerDelivered
  <2>3. Lanes(adapters, e, {}, channel)
    BY <1>3, <2>2, LanesShrink
  <2> QED BY <1>1, <1>2, <2>2, <2>3 DEF GivenInv, e
<1> QED BY <1>1, <1>4, <1>5

LEMMA WriteGiven ==
    ASSUME Basics, GivenInv, WriteOk \/ WriteLost
    PROVE  GivenInv'
<1>1. phase = "writing" /\ UNCHANGED <<channel, answer, delivered>>
  BY DEF WriteOk, WriteLost, outVars
<1>2. CASE WriteLost
  BY <1>1, <1>2, KeptGiven DEF WriteLost, adapterVars
<1>3. CASE WriteOk
  <2> DEFINE a == adapters[Current]
             b == Fed(a, sending)
  <2>1. Current \in DOMAIN adapters
    BY <1>1, TypeParts, EmptySeq DEF Basics, TypeOK, Phases, Current, AdapterTypes
  <2>2. a \in Adapters
    BY <2>1, AdapterTyped, TypeParts DEF Basics
  <2>3. b.told = a.told /\ b.stdout = a.stdout /\ b.reader = a.reader
    BY <2>2 DEF Fed, Adapters
  <2>4. adapters' = [adapters EXCEPT ![Current] = b]
    BY <1>3 DEF WriteOk
  <2> HIDE DEF b
  <2> QED BY <1>1, <2>1, <2>3, <2>4, RecordSame
<1> QED BY <1>2, <1>3

LEMMA NextGiven == Basics /\ GivenInv /\ [Next]_vars => GivenInv'
<1> SUFFICES ASSUME Basics, GivenInv, [Next]_vars PROVE GivenInv'
  OBVIOUS
<1>1. CASE \/ ReadLine \/ ReadEof \/ ReadError \/ FlushTick \/ TimePasses \/ Killed
           \/ TryWait \/ Terminated \/ UNCHANGED vars
  BY <1>1, OutsideSteps DEF GivenInv
<1>2. CASE \E g \in DOMAIN adapters : Reader(g) \/ Adapter(g) \/ Accident(g)
  BY <1>2, ReaderGiven, AdapterGiven
<1> QED BY <1>1, <1>2, SenderGiven, TakeGiven, DeliverGiven, WriteGiven DEF Next, Loop

LEMMA InitAnswers == Init => AskedInv /\ GivenInv
<1> SUFFICES ASSUME Init PROVE AskedInv /\ GivenInv
  OBVIOUS
<1>1. DOMAIN adapters = {} /\ DOMAIN channel = {} /\ DOMAIN delivered = {}
  BY DEF Init
<1>2. Members(delivered) = {} /\ Members(channel) = {} /\ Some(answer) = {}
  BY <1>1 DEF Init, Members, Some
<1> QED BY <1>1, <1>2 DEF AskedInv, GivenInv, Lanes, Answers, OutOrder

(* An adapter answers a message once, and a message is written to one      *)
(* adapter: the place of an answer is a matter of the answer alone.        *)
LEMMA ToldAtIs ==
    ASSUME Basics, AskedInv, NEW x, x.gen \in DOMAIN adapters,
           NEW i \in DOMAIN adapters[x.gen].told, adapters[x.gen].told[i] = x.message
    PROVE  ToldAt(x) = i
<1> DEFINE t == adapters[x.gen].told
<1>1. Once(t) /\ DOMAIN t \subseteq Nat
  <2>1. adapters[x.gen] \in Adapters
    BY AdapterTyped, TypeParts DEF Basics
  <2> QED BY <2>1 DEF AskedInv, Asked, Adapters
<1>2. \A j \in DOMAIN t : t[j] = x.message => j = i
  <2> SUFFICES ASSUME NEW j \in DOMAIN t, t[j] = x.message, j # i PROVE FALSE
    OBVIOUS
  <2>1. i \in Nat /\ j \in Nat
    BY <1>1
  <2>2. i < j \/ j < i
    BY <2>1
  <2> QED BY <1>1, <2>2 DEF Once
<1> QED BY <1>2 DEF ToldAt

LEMMA AnswersFollow == Basics /\ Written /\ AskedInv /\ GivenInv => AnswersFollowRequests
<1> SUFFICES ASSUME Basics, Written, AskedInv, GivenInv PROVE AnswersFollowRequests
  OBVIOUS
<1>1. DOMAIN sent \subseteq Nat
  BY DEF Basics, TypeOK
<1>2. \A i \in DOMAIN delivered : Gave(adapters, delivered[i])
  BY DEF GivenInv, Answers, Members
<1>3. \A i \in DOMAIN delivered :
        \E k \in DOMAIN sent : /\ sent[k].message = delivered[i].message
                               /\ sent[k].gen = delivered[i].gen
  <2>1. \A x : Gave(adapters, x) => Wrote(sent, x.gen, x.message)
    BY DEF Gave, AskedInv, Asked
  <2> QED BY <1>2, <2>1 DEF Wrote
<1>4. ASSUME NEW i \in DOMAIN delivered, NEW j \in DOMAIN delivered, i < j
      PROVE  /\ delivered[i].message # delivered[j].message
             /\ delivered[i].gen = delivered[j].gen => ToldAt(delivered[i]) < ToldAt(delivered[j])
  <2> DEFINE x == delivered[i]
             y == delivered[j]
  <2>1. ASSUME x.gen = y.gen
        PROVE  x.message # y.message /\ ToldAt(x) < ToldAt(y)
    <3>1. x.gen \in DOMAIN adapters /\ y.gen \in DOMAIN adapters
      BY <1>2 DEF Gave
    <3>2. Before(adapters[x.gen].told, x.message, y.message)
      BY <1>4, <2>1 DEF GivenInv, Answers, OutOrder, Sooner
    <3> HIDE DEF x, y
    <3>3. PICK k \in DOMAIN adapters[x.gen].told, l \in DOMAIN adapters[x.gen].told :
            /\ k < l /\ adapters[x.gen].told[k] = x.message
            /\ adapters[x.gen].told[l] = y.message
      BY <3>2 DEF Before
    <3>4. ToldAt(x) = k
      BY <3>1, <3>3, ToldAtIs
    <3>5. ToldAt(y) = l
      BY <2>1, <3>1, <3>3, ToldAtIs
    <3>6. Once(adapters[x.gen].told)
      BY <3>1 DEF AskedInv, Asked
    <3> QED BY <3>3, <3>4, <3>5, <3>6 DEF Once
  <2>2. ASSUME x.gen # y.gen
        PROVE  x.message # y.message
    <3>1. PICK k \in DOMAIN sent : sent[k].message = x.message /\ sent[k].gen = x.gen
      BY <1>3
    <3>2. PICK l \in DOMAIN sent : sent[l].message = y.message /\ sent[l].gen = y.gen
      BY <1>3
    <3>3. k # l
      BY <2>2, <3>1, <3>2
    <3>4. k < l \/ l < k
      BY <1>1, <3>3
    <3> QED BY <3>1, <3>2, <3>4 DEF Written
  <2> QED BY <2>1, <2>2
<1> QED BY <1>3, <1>4 DEF AnswersFollowRequests

(* Neither a restart nor the reader task of an adapter that is gone turns  *)
(* an answer into another's or repeats it: what comes from one adapter     *)
(* answers what was written to it, in the order in which that adapter gave *)
(* its answers (process.rs 332-408, 435-441).                              *)
THEOREM AnswersFollowRequestsCorrect == Spec => []AnswersFollowRequests
<1>1. Spec => []AskedInv
  BY InitAnswers, NextAsked, BasicsCorrect, OrderCorrect, PTL DEF Spec
<1>2. Spec => []GivenInv
  BY InitAnswers, NextGiven, BasicsCorrect, PTL DEF Spec
<1>3. OrderInv => Written
  BY DEF OrderInv
<1> QED BY <1>1, <1>2, <1>3, AnswersFollow, BasicsCorrect, OrderCorrect, PTL
==============================================================================
