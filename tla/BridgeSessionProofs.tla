------------------------- MODULE BridgeSessionProofs -------------------------
(***************************************************************************)
(* What holds of a bridge session for every set of documents, versions and *)
(* lines, every capacity, retry limit and mode.                            *)
(***************************************************************************)
EXTENDS BridgeSession, SequenceTheorems, TLAPS

-----------------------------------------------------------------------------
(* Where run_session stands decides what it holds. *)
Phases ==
    /\ phase \notin {"sending", "writing", "backoff", "failed"} =>
         batch = {} /\ sending = NoMessage /\ request = NoMessage
    /\ phase \in {"sending", "writing", "backoff"} => sending # NoMessage
    /\ phase = "backoff" => attempts < MaxRetries
    /\ phase \in {"stopping", "ended"} => eof
    /\ phase \in {"starting", "select", "delivering"} => ~eof
    /\ phase = "delivering" => answer # NoMessage
    /\ eof => pending = {}
    /\ phase \notin {"starting", "failed"} => adapters # <<>>

(* The types of what the loop and send() own, and of what lies beyond them. *)
LoopTypes ==
    /\ phase \in {"starting", "select", "sending", "writing", "backoff",
                  "delivering", "stopping", "ended", "failed"}
    /\ eof \in BOOLEAN
    /\ attempts \in 0..MaxRetries
    /\ input \in Seq(Message)
    /\ pending \subseteq [message: Message, age: 0..Debounce]
    /\ batch \subseteq Message
    /\ request \in Message \cup {NoMessage}
    /\ sending \in Message \cup {NoMessage}
    /\ sent \in Seq([message: Message, gen: Nat, at: Nat])

OutputTypes ==
    /\ crashes \in 0..MaxCrashes
    /\ channel \in Seq(Deliveries) /\ Len(channel) <= ChannelCapacity
    /\ answer \in Deliveries \cup {NoMessage}
    /\ delivered \in Seq(Deliveries)

AdapterTypes == adapters \in Seq(Adapters)

LEMMA TypeParts == TypeOK <=> LoopTypes /\ OutputTypes /\ AdapterTypes
BY DEF TypeOK, LoopTypes, OutputTypes, AdapterTypes

(* Proceed moves messages from the drain to the wire and loses none. *)
LEMMA ProceedKeeps ==
    ASSUME NEW drained \in SUBSET Message, NEW req \in Message \cup {NoMessage},
           NEW closing \in BOOLEAN, Proceed(drained, req, closing)
    PROVE  /\ batch' \subseteq Message
           /\ request' \in Message \cup {NoMessage}
           /\ sending' \in Message \cup {NoMessage}
           /\ batch' \cup Some(sending') \cup Some(request') = drained \cup Some(req)
           /\ attempts' = 0
           /\ \/ phase' = "sending" /\ sending' # NoMessage
              \/ /\ phase' = IF closing THEN "stopping" ELSE "select"
                 /\ batch' = {} /\ sending' = NoMessage /\ request' = NoMessage
<1>1. CASE drained # {}
  <2>1. PICK m \in drained : sending' = m /\ batch' = drained \ {m}
    BY <1>1 DEF Proceed
  <2>2. request' = req /\ phase' = "sending" /\ attempts' = 0
    BY <1>1 DEF Proceed
  <2> QED BY <2>1, <2>2, NoMessageAssumption DEF Some
<1>2. CASE drained = {} /\ req # NoMessage
  BY <1>2 DEF Proceed, Some
<1>3. CASE drained = {} /\ req = NoMessage
  BY <1>3 DEF Proceed, Some
<1> QED BY <1>1, <1>2, <1>3

LEMMA MessagesTyped ==
    ASSUME NEW q \in SUBSET [message: Message, age: 0..Debounce]
    PROVE  MessagesOf(q) \in SUBSET Message
BY DEF MessagesOf

LEMMA EnqueueTyped ==
    ASSUME NEW q \in SUBSET [message: Message, age: 0..Debounce], NEW m \in Message
    PROVE  Enqueue(q, m) \in SUBSET [message: Message, age: 0..Debounce]
BY DebounceAssumption DEF Enqueue, Entry, EntriesFor

LEMMA ElapseTyped ==
    ASSUME NEW q \in SUBSET [message: Message, age: 0..Debounce]
    PROVE  /\ Elapse(q) \in SUBSET [message: Message, age: 0..Debounce]
           /\ MessagesOf(Elapse(q)) = MessagesOf(q)
<1> DEFINE older(e) == [e EXCEPT !.age = IF e.age < Debounce THEN e.age + 1 ELSE e.age]
<1>1. \A e \in q : /\ older(e) \in [message: Message, age: 0..Debounce]
                   /\ older(e).message = e.message
  BY DebounceAssumption
<1>2. Elapse(q) = {older(e) : e \in q}
  BY DEF Elapse
<1> HIDE DEF older
<1> QED BY <1>1, <1>2 DEF MessagesOf

-----------------------------------------------------------------------------
(* The sequence of adapters under the updates the actions make. *)
LEMMA GoneTyped ==
    ASSUME NEW a \in Adapters, NEW state \in {"running", "closing", "exited"}
    PROVE  Gone(a, state) \in Adapters
BY EmptySeq DEF Gone, Adapters

LEMMA AdapterUpdated ==
    ASSUME AdapterTypes, NEW g \in DOMAIN adapters, NEW a \in Adapters
    PROVE  /\ [adapters EXCEPT ![g] = a] \in Seq(Adapters)
           /\ [adapters EXCEPT ![g] = a] # <<>>
<1>1. g \in 1..Len(adapters)
  BY DEF AdapterTypes
<1>2. adapters \in Seq(Adapters)
  BY DEF AdapterTypes
<1> QED BY <1>1, <1>2, ExceptSeq, EmptySeq

LEMMA AdapterTyped ==
    ASSUME AdapterTypes, NEW g \in DOMAIN adapters
    PROVE  adapters[g] \in Adapters
BY DEF AdapterTypes

LEMMA ReapedTyped ==
    ASSUME NEW a \in Adapters
    PROVE  Reaped(a) \in Adapters
<1>1. Gone(a, "exited") \in Adapters
  BY GoneTyped
<1>2. [a EXCEPT !.sbt = FALSE] \in Adapters
  BY DEF Adapters
<1> QED BY <1>1, <1>2 DEF Reaped

LEMMA StoppedTyped ==
    ASSUME AdapterTypes
    PROVE  /\ Stopped \in Seq(Adapters)
           /\ adapters # <<>> => Stopped # <<>>
           /\ Append(Stopped, NewAdapter) \in Seq(Adapters)
           /\ Append(Stopped, NewAdapter) # <<>>
<1>1. NewAdapter \in Adapters
  BY EmptySeq DEF NewAdapter, Adapters
<1>2. Stopped \in Seq(Adapters) /\ (adapters # <<>> => Stopped # <<>>)
  <2>1. CASE Current # 0
    <3>1. Current \in DOMAIN adapters
      BY <2>1 DEF AdapterTypes, Current
    <3>2. Reaped(adapters[Current]) \in Adapters
      BY <3>1, AdapterTyped, ReapedTyped
    <3>3. Stopped = [adapters EXCEPT ![Current] = Reaped(adapters[Current])]
      BY <2>1 DEF Stopped
    <3> QED BY <3>1, <3>2, <3>3, AdapterUpdated
  <2>2. CASE Current = 0
    BY <2>2 DEF Stopped, AdapterTypes
  <2> QED BY <2>1, <2>2
<1> HIDE DEF NewAdapter
<1> QED BY <1>1, <1>2, AppendProperties, EmptySeq

LEMMA NoDelivery == \A x \in Deliveries : x # NoMessage
BY NoMessageAssumption

-----------------------------------------------------------------------------
(* Types and phases are inductive together: that a message being sent is a *)
(* message, and that the restarts stay within the limit, is a matter of    *)
(* the phase.                                                              *)
Basics == TypeOK /\ Phases

LEMMA InitBasics == Init => Basics
<1> SUFFICES ASSUME Init PROVE Basics
  OBVIOUS
<1>1. LoopTypes
  <2>1. input \in Seq(Message) /\ sent \in Seq([message: Message, gen: Nat, at: Nat])
    BY EmptySeq DEF Init
  <2>2. attempts \in 0..MaxRetries
    BY SessionAssumption DEF Init
  <2>3. pending \subseteq [message: Message, age: 0..Debounce] /\ batch \subseteq Message
    BY DEF Init, EmptyQueue
  <2>4. request \in Message \cup {NoMessage} /\ sending \in Message \cup {NoMessage}
    BY DEF Init
  <2>5. /\ eof \in BOOLEAN
        /\ phase \in {"starting", "select", "sending", "writing", "backoff",
                  "delivering", "stopping", "ended", "failed"}
    BY DEF Init
  <2> QED BY <2>1, <2>2, <2>3, <2>4, <2>5 DEF LoopTypes
<1>2. OutputTypes /\ AdapterTypes
  BY EmptySeq, SessionAssumption DEF Init, OutputTypes, AdapterTypes
<1>3. Phases
  BY DEF Init, Phases, EmptyQueue
<1> QED BY <1>1, <1>2, <1>3, TypeParts DEF Basics

LEMMA StartSessionBasics == Basics /\ StartSession => Basics'
<1> SUFFICES ASSUME Basics, StartSession PROVE Basics'
  OBVIOUS
<1> USE DEF Basics
<1>1. LoopTypes /\ OutputTypes /\ AdapterTypes
  BY TypeParts
<1>2. LoopTypes' /\ OutputTypes'
  BY <1>1 DEF StartSession, LoopTypes, OutputTypes, queueVars, sendVars, outVars, Fail
<1>3. AdapterTypes' /\ (phase' # "failed" => adapters' # <<>>)
  BY <1>1, StoppedTyped DEF StartSession, AdapterTypes, Fail
<1>4. Phases'
  BY <1>3 DEF StartSession, Phases, queueVars, sendVars, Fail
<1> QED BY <1>2, <1>3, <1>4, TypeParts DEF TypeOK, LoopTypes, OutputTypes, AdapterTypes

(* The select arms that drain: what they hand to Proceed is typed. *)
LEMMA DrainBasics ==
    ASSUME Basics, NEW drained \in SUBSET Message, NEW req \in Message \cup {NoMessage},
           phase \in {"select", "writing"}, eof' \in BOOLEAN,
           Proceed(drained, req, eof'),
           input' \in Seq(Message),
           pending' \in SUBSET [message: Message, age: 0..Debounce],
           sent' \in Seq([message: Message, gen: Nat, at: Nat]),
           eof' => pending' = {},
           adapters' \in Seq(Adapters), adapters' # <<>>,
           UNCHANGED <<crashes, channel, answer, delivered>>
    PROVE  Basics'
<1> USE DEF Basics
<1>1. /\ batch' \subseteq Message
      /\ request' \in Message \cup {NoMessage}
      /\ sending' \in Message \cup {NoMessage}
      /\ attempts' = 0
      /\ \/ phase' = "sending" /\ sending' # NoMessage
         \/ /\ phase' = IF eof' THEN "stopping" ELSE "select"
            /\ batch' = {} /\ sending' = NoMessage /\ request' = NoMessage
  BY ProceedKeeps
<1>2. attempts' \in 0..MaxRetries
  BY <1>1, SessionAssumption
<1>3. phase' \in {"sending", "stopping", "select"}
  BY <1>1
<1>4. LoopTypes'
  BY <1>1, <1>2, <1>3 DEF LoopTypes
<1>5. OutputTypes' /\ AdapterTypes'
  BY TypeParts DEF OutputTypes, AdapterTypes
<1>6. Phases'
  BY <1>1 DEF Phases
<1> QED BY <1>4, <1>5, <1>6 DEF TypeOK, LoopTypes, OutputTypes, AdapterTypes

LEMMA ReadLineBasics == Basics /\ ReadLine => Basics'
<1> SUFFICES ASSUME Basics, ReadLine PROVE Basics'
  OBVIOUS
<1>0. LoopTypes /\ OutputTypes /\ AdapterTypes /\ Phases
  BY TypeParts DEF Basics
<1>1. PICK line \in Lines :
        LET m == [id |-> Len(input) + 1, type |-> line.type,
                  uri |-> line.uri, version |-> line.version]
        IN /\ input' = Append(input, m)
           /\ ReadPush(m) \/ ReadCheck(m) \/ ReadOther(m)
  BY DEF ReadLine
<1> DEFINE m == [id |-> Len(input) + 1, type |-> line.type,
                 uri |-> line.uri, version |-> line.version]
<1>2. m \in Message
  BY <1>0, LenProperties, SessionAssumption DEF LoopTypes, Message
<1> HIDE DEF m
<1>3. input' \in Seq(Message)
  BY <1>0, <1>1, <1>2, AppendProperties DEF LoopTypes, m
<1>4. /\ phase = "select" /\ ~eof /\ adapters # <<>>
      /\ UNCHANGED <<eof, adapters, crashes, channel, answer, delivered>>
  BY <1>0 DEF ReadLine, Phases, adapterVars, outVars
<1>41. /\ eof' = FALSE /\ phase \in {"select", "writing"}
       /\ adapters' \in Seq(Adapters) /\ adapters' # <<>>
       /\ UNCHANGED <<crashes, channel, answer, delivered>>
  BY <1>0, <1>4 DEF AdapterTypes
<1>5. CASE ReadPush(m)
  <2>1. pending' \in SUBSET [message: Message, age: 0..Debounce]
    BY <1>0, <1>2, <1>5, EnqueueTyped DEF ReadPush, LoopTypes
  <2>2. UNCHANGED <<batch, request, sending, attempts, sent>> /\ phase' \in {"select", "failed"}
    BY <1>4, <1>5 DEF ReadPush, Fail, sendVars
  <2>3. LoopTypes'
    BY <1>0, <1>3, <1>4, <2>1, <2>2 DEF LoopTypes
  <2>4. Phases'
    BY <1>0, <1>4, <2>2 DEF Phases
  <2> QED BY <1>0, <1>4, <2>3, <2>4, TypeParts
          DEF Basics, OutputTypes, AdapterTypes, TypeOK, LoopTypes
<1>6. CASE ReadCheck(m)
  <2> DEFINE drained == EntriesFor(pending, m.uri)
  <2>1. pending' = pending \ drained /\ Proceed(MessagesOf(drained), m, FALSE) /\ sent' = sent
    BY <1>6 DEF ReadCheck
  <2>2. drained \in SUBSET [message: Message, age: 0..Debounce]
    BY <1>0 DEF LoopTypes, EntriesFor
  <2>3. MessagesOf(drained) \in SUBSET Message
    BY <2>2, MessagesTyped
  <2>4. pending' \in SUBSET [message: Message, age: 0..Debounce]
    BY <1>0, <2>1 DEF LoopTypes
  <2>5. sent' \in Seq([message: Message, gen: Nat, at: Nat])
    BY <1>0, <2>1 DEF LoopTypes
  <2> HIDE DEF drained
  <2>6. Proceed(MessagesOf(drained), m, eof')
    BY <1>41, <2>1
  <2> QED BY <1>2, <1>3, <1>41, <2>6, <2>3, <2>4, <2>5, DrainBasics
<1>7. CASE ReadOther(m)
  <2>1. Proceed({}, m, FALSE) /\ pending' = pending /\ sent' = sent
    BY <1>7 DEF ReadOther
  <2>2. pending' \in SUBSET [message: Message, age: 0..Debounce]
    BY <1>0, <2>1 DEF LoopTypes
  <2>3. sent' \in Seq([message: Message, gen: Nat, at: Nat])
    BY <1>0, <2>1 DEF LoopTypes
  <2>4. Proceed({}, m, eof')
    BY <1>41, <2>1
  <2> QED BY <1>2, <1>3, <1>41, <2>2, <2>3, <2>4, DrainBasics
<1> QED BY <1>1, <1>5, <1>6, <1>7 DEF m

LEMMA ReadEofBasics == Basics /\ ReadEof => Basics'
<1> SUFFICES ASSUME Basics, ReadEof PROVE Basics'
  OBVIOUS
<1>0. LoopTypes /\ OutputTypes /\ AdapterTypes /\ Phases
  BY TypeParts DEF Basics
<1>1. /\ phase = "select" /\ eof' = TRUE /\ pending' = {}
      /\ Proceed(MessagesOf(pending), NoMessage, eof')
      /\ UNCHANGED <<input, sent, adapters, crashes, channel, answer, delivered>>
  BY DEF ReadEof, EmptyQueue, adapterVars, outVars
<1>2. MessagesOf(pending) \in SUBSET Message
  BY <1>0, MessagesTyped DEF LoopTypes
<1>3. adapters # <<>>
  BY <1>0, <1>1 DEF Phases
<1>4. pending' \in SUBSET [message: Message, age: 0..Debounce]
  BY <1>1
<1> QED BY <1>0, <1>1, <1>2, <1>3, <1>4, DrainBasics DEF LoopTypes, AdapterTypes

LEMMA FlushTickBasics == Basics /\ FlushTick => Basics'
<1> SUFFICES ASSUME Basics, FlushTick PROVE Basics'
  OBVIOUS
<1>0. LoopTypes /\ OutputTypes /\ AdapterTypes /\ Phases
  BY TypeParts DEF Basics
<1>1. /\ phase = "select" /\ ~eof /\ adapters # <<>>
      /\ pending' = pending \ Ready(pending)
      /\ Proceed(MessagesOf(Ready(pending)), NoMessage, FALSE)
      /\ UNCHANGED <<eof, input, sent, adapters, crashes, channel, answer, delivered>>
  BY <1>0 DEF FlushTick, Phases, adapterVars, outVars
<1>2. Ready(pending) \in SUBSET [message: Message, age: 0..Debounce]
  BY <1>0 DEF LoopTypes, Ready
<1>3. MessagesOf(Ready(pending)) \in SUBSET Message
  BY <1>2, MessagesTyped
<1>4. pending' \in SUBSET [message: Message, age: 0..Debounce]
  BY <1>0, <1>1 DEF LoopTypes
<1> QED BY <1>0, <1>1, <1>3, <1>4, DrainBasics DEF LoopTypes, AdapterTypes

(* Steps that only touch what lies beyond the loop: one adapter's record,  *)
(* and perhaps the channel.                                                *)
LEMMA BeyondBasics ==
    ASSUME Basics, adapters' \in Seq(Adapters), adapters # <<>> => adapters' # <<>>,
           UNCHANGED <<phase, eof, queueVars, sendVars, answer, delivered>>,
           crashes' \in 0..MaxCrashes,
           channel' \in Seq(Deliveries), Len(channel') <= ChannelCapacity
    PROVE  Basics'
<1>0. LoopTypes /\ OutputTypes /\ AdapterTypes /\ Phases
  BY TypeParts DEF Basics
<1>1. UNCHANGED <<phase, eof, attempts, input, pending, batch, request, sending, sent, answer,
                  delivered>>
  BY DEF queueVars, sendVars
<1>2. LoopTypes'
  BY <1>0, <1>1 DEF LoopTypes
<1>3. OutputTypes' /\ AdapterTypes'
  BY <1>0, <1>1 DEF OutputTypes, AdapterTypes
<1>4. Phases'
  BY <1>0, <1>1 DEF Phases
<1> QED BY <1>2, <1>3, <1>4 DEF Basics, TypeOK, LoopTypes, OutputTypes, AdapterTypes

LEMMA ReaderBasics ==
    ASSUME Basics, NEW g \in DOMAIN adapters, Reader(g)
    PROVE  Basics'
<1>0. LoopTypes /\ OutputTypes /\ AdapterTypes /\ Phases
  BY TypeParts DEF Basics
<1>1. adapters[g] \in Adapters
  BY <1>0, AdapterTyped
<1>2. CASE ReaderTakes(g)
  <2>1. adapters' = [adapters EXCEPT ![g] = Taken(adapters[g])] /\ adapters[g].stdout # <<>>
    BY <1>2 DEF ReaderTakes
  <2>2. adapters[g].stdout \in Seq(Message)
    BY <1>1 DEF Adapters
  <2>3. Head(adapters[g].stdout) \in Message /\ Tail(adapters[g].stdout) \in Seq(Message)
    BY <2>1, <2>2, HeadTailProperties
  <2>4. Taken(adapters[g]) \in Adapters
    BY <1>1, <2>3 DEF Adapters, Taken
  <2>5. UNCHANGED <<phase, eof, queueVars, sendVars, answer, delivered, crashes, channel>>
    BY <1>2 DEF ReaderTakes, outVars
  <2> QED BY <1>0, <2>1, <2>4, <2>5, AdapterUpdated, BeyondBasics DEF OutputTypes
<1>3. CASE ReaderPuts(g)
  <2> DEFINE a == [adapters[g] EXCEPT !.reader = NoMessage]
  <2>1. adapters' = [adapters EXCEPT ![g] = a] /\ adapters[g].reader # NoMessage
    BY <1>3 DEF ReaderPuts
  <2>2. a \in Adapters /\ adapters[g].reader \in Message
    BY <1>1, <2>1 DEF Adapters
  <2> HIDE DEF a
  <2>3. g \in Nat
    BY <1>0 DEF AdapterTypes
  <2>4. channel' = Append(channel, [gen |-> g, message |-> adapters[g].reader])
    BY <1>3 DEF ReaderPuts
  <2>7. [gen |-> g, message |-> adapters[g].reader] \in Deliveries
    BY <2>2, <2>3 DEF Deliveries
  <2>5. channel' \in Seq(Deliveries) /\ Len(channel') <= ChannelCapacity
    <3>1. channel \in Seq(Deliveries) /\ Len(channel) \in Nat
      BY <1>0 DEF OutputTypes
    <3>2. Len(channel') = Len(channel) + 1 /\ channel' \in Seq(Deliveries)
      BY <2>4, <2>7, <3>1, AppendProperties
    <3>3. Len(channel) < ChannelCapacity
      BY <1>3 DEF ReaderPuts
    <3> QED BY <3>1, <3>2, <3>3, SessionAssumption
  <2>6. UNCHANGED <<phase, eof, queueVars, sendVars, answer, delivered, crashes>>
    BY <1>3 DEF ReaderPuts
  <2> QED BY <1>0, <2>1, <2>2, <2>5, <2>6, AdapterUpdated, BeyondBasics DEF OutputTypes
<1> QED BY <1>2, <1>3 DEF Reader

LEMMA ToldTyped ==
    ASSUME NEW a \in Adapters, NEW m \in a.handling
    PROVE  Told(a, m) \in Adapters
<1>1. m \in Message /\ a.told \in Seq(Message) /\ a.stdout \in Seq(Message)
  BY DEF Adapters
<1>2. Append(a.told, m) \in Seq(Message) /\ Append(a.stdout, m) \in Seq(Message)
  BY <1>1, AppendProperties
<1> QED BY <1>2 DEF Told, Adapters

LEMMA ReadTyped ==
    ASSUME NEW a \in Adapters, a.stdin # <<>>
    PROVE  Read(a) \in Adapters
<1>1. a.stdin \in Seq(Message)
  BY DEF Adapters
<1>2. Head(a.stdin) \in Message /\ Tail(a.stdin) \in Seq(Message)
  BY <1>1, HeadTailProperties
<1>3. Gone(a, "closing") \in Adapters
  BY GoneTyped
<1>4. {n \in {Head(a.stdin)} : Answered(n)} \in SUBSET Message
  BY <1>2
<1> QED BY <1>2, <1>3, <1>4 DEF Adapters, Read

LEMMA AdapterBasics ==
    ASSUME Basics, NEW g \in DOMAIN adapters, Adapter(g) \/ Accident(g)
    PROVE  Basics'
<1>0. LoopTypes /\ OutputTypes /\ AdapterTypes /\ Phases
  BY TypeParts DEF Basics
<1>1. adapters[g] \in Adapters
  BY <1>0, AdapterTyped
<1>2. \A state \in {"running", "closing", "exited"} : Gone(adapters[g], state) \in Adapters
  BY <1>1, GoneTyped
<1>3. ASSUME NEW a \in Adapters, adapters' = [adapters EXCEPT ![g] = a],
             UNCHANGED <<phase, eof, queueVars, sendVars, outVars>>,
             crashes' \in 0..MaxCrashes
      PROVE  Basics'
  <2>1. UNCHANGED <<answer, delivered, channel>>
    BY <1>3 DEF outVars
  <2> QED BY <1>0, <1>3, <2>1, AdapterUpdated, BeyondBasics DEF OutputTypes
<1>4. crashes \in 0..MaxCrashes
  BY <1>0 DEF OutputTypes
<1>5. CASE AdapterReads(g)
  <2>1. adapters[g].stdin \in Seq(Message) /\ adapters[g].stdin # <<>>
    BY <1>1, <1>5 DEF Adapters, AdapterReads
  <2>2. Head(adapters[g].stdin) \in Message /\ Tail(adapters[g].stdin) \in Seq(Message)
    BY <2>1, HeadTailProperties
  <2>3. Read(adapters[g]) \in Adapters
    BY <1>1, <2>1, ReadTyped
  <2> QED BY <1>3, <1>4, <1>5, <2>3 DEF AdapterReads
<1>6. CASE AdapterAnswers(g)
  <2>1. PICK m \in adapters[g].handling :
          \/ adapters' = [adapters EXCEPT ![g] = Told(adapters[g], m)]
          \/ adapters' = [adapters EXCEPT ![g] = Gone(adapters[g], "closing")]
    BY <1>6 DEF AdapterAnswers
  <2>2. Told(adapters[g], m) \in Adapters
    BY <1>1, ToldTyped
  <2> QED BY <1>2, <1>3, <1>4, <1>6, <2>1, <2>2 DEF AdapterAnswers
<1>10. CASE RequestFails(g)
  <2>1. PICK m \in adapters[g].handling :
          adapters' = [adapters EXCEPT ![g] = Dropped(adapters[g], m)]
    BY <1>10 DEF RequestFails
  <2>2. Dropped(adapters[g], m) \in Adapters
    BY <1>1 DEF Dropped, Adapters
  <2> QED BY <1>3, <1>4, <1>10, <2>1, <2>2 DEF RequestFails
<1>11. CASE SbtExits(g)
  <2> DEFINE a == [adapters[g] EXCEPT !.sbt = FALSE]
  <2>1. a \in Adapters
    BY <1>1 DEF Adapters
  <2>2. adapters' = [adapters EXCEPT ![g] = a]
    BY <1>11 DEF SbtExits
  <2> HIDE DEF a
  <2>3. crashes' \in 0..MaxCrashes
    BY <1>4, <1>11, SessionAssumption DEF SbtExits
  <2> QED BY <1>3, <1>11, <2>1, <2>2, <2>3 DEF SbtExits
<1>7. CASE AdapterSeesEof(g)
  BY <1>2, <1>3, <1>4, <1>7 DEF AdapterSeesEof
<1>8. CASE AdapterExits(g)
  <2> DEFINE reaped == [adapters[g] EXCEPT !.state = "exited"]
  <2>1. reaped \in Adapters
    BY <1>1 DEF Adapters
  <2>2. adapters' = [adapters EXCEPT ![g] = reaped]
    BY <1>8 DEF AdapterExits
  <2> HIDE DEF reaped
  <2> QED BY <1>3, <1>4, <1>8, <2>1, <2>2 DEF AdapterExits
<1>9. CASE AdapterQuits(g)
  <2>1. crashes' \in 0..MaxCrashes
    BY <1>4, <1>9, SessionAssumption DEF AdapterQuits
  <2> QED BY <1>2, <1>3, <1>9, <2>1 DEF AdapterQuits
<1> QED BY <1>5, <1>6, <1>7, <1>8, <1>9, <1>10, <1>11 DEF Adapter, Accident

(* A write that returned Ok is recorded, and the drain goes on. *)
LEMMA WriteBasics ==
    ASSUME Basics, WriteOk \/ WriteLost
    PROVE  Basics'
<1>0. LoopTypes /\ OutputTypes /\ AdapterTypes /\ Phases
  BY TypeParts DEF Basics
<1>1. /\ phase = "writing" /\ RecordSent /\ Proceed(batch, request, eof)
      /\ UNCHANGED <<eof, queueVars, crashes, outVars>>
  BY DEF WriteOk, WriteLost, adapterVars
<1>2. UNCHANGED <<eof, input, pending, crashes, channel, answer, delivered>>
  BY <1>1 DEF queueVars, outVars
<1>3. sending \in Message /\ Current \in Nat /\ Current \in DOMAIN adapters
  BY <1>0, <1>1, EmptySeq DEF Phases, LoopTypes, AdapterTypes, Current
<1>4. Len(input) \in Nat
  BY <1>0 DEF LoopTypes
<1>5. [message |-> sending, gen |-> Current, at |-> Len(input)]
        \in [message: Message, gen: Nat, at: Nat]
  BY <1>3, <1>4
<1>6. sent' \in Seq([message: Message, gen: Nat, at: Nat])
  BY <1>0, <1>1, <1>5, AppendProperties DEF LoopTypes, RecordSent
<1>7. adapters' \in Seq(Adapters) /\ adapters' # <<>>
  <2>1. adapters[Current] \in Adapters
    BY <1>0, <1>3, AdapterTyped
  <2>2. CASE WriteOk
    <3>1. adapters[Current].stdin \in Seq(Message)
      BY <2>1 DEF Adapters
    <3>2. Append(adapters[Current].stdin, sending) \in Seq(Message)
      BY <1>3, <3>1, AppendProperties
    <3>3. Fed(adapters[Current], sending) \in Adapters
      BY <2>1, <3>2 DEF Adapters, Fed
    <3> QED BY <1>0, <1>3, <2>2, <3>3, AdapterUpdated DEF WriteOk
  <2>3. CASE WriteLost
    BY <1>0, <1>1, <2>3 DEF WriteLost, adapterVars, AdapterTypes, Phases
  <2> QED BY <2>2, <2>3
<1>8. /\ pending' \in SUBSET [message: Message, age: 0..Debounce]
      /\ input' \in Seq(Message)
      /\ batch \in SUBSET Message /\ request \in Message \cup {NoMessage}
      /\ eof' \in BOOLEAN /\ (eof' => pending' = {})
  BY <1>0, <1>2 DEF LoopTypes, Phases
<1>9. Proceed(batch, request, eof')
  BY <1>1, <1>2
<1> QED BY <1>1, <1>2, <1>6, <1>7, <1>8, <1>9, DrainBasics

(* The steps that move the phase without draining anything. *)
LEMMA MoveBasics ==
    ASSUME Basics,
           \/ ReadError \/ Killed \/ TimePasses \/ TryWait \/ TakeAnswer \/ DeliverAnswer
           \/ WriteFails \/ Restart \/ StopSession
    PROVE  Basics'
<1>0. LoopTypes /\ OutputTypes /\ AdapterTypes /\ Phases
  BY TypeParts DEF Basics
<1>1. CASE ReadError \/ Killed
  <2>1. /\ phase' = "failed"
        /\ UNCHANGED <<eof, input, pending, batch, request, sending, attempts, sent,
                       adapters, crashes, channel, answer, delivered>>
    BY <1>1 DEF ReadError, Killed, Fail, queueVars, sendVars, adapterVars, outVars
  <2>2. LoopTypes' /\ OutputTypes' /\ AdapterTypes'
    BY <1>0, <2>1 DEF LoopTypes, OutputTypes, AdapterTypes
  <2>3. Phases'
    BY <1>0, <2>1 DEF Phases
  <2> QED BY <2>2, <2>3 DEF Basics, TypeOK, LoopTypes, OutputTypes, AdapterTypes
<1>2. CASE TimePasses
  <2>1. /\ pending' = Elapse(pending)
        /\ UNCHANGED <<phase, eof, input, batch, request, sending, attempts, sent,
                       adapters, crashes, channel, answer, delivered>>
    BY <1>2 DEF TimePasses, sendVars, adapterVars, outVars
  <2>2. pending' \in SUBSET [message: Message, age: 0..Debounce]
    BY <1>0, <2>1, ElapseTyped DEF LoopTypes
  <2>3. LoopTypes' /\ OutputTypes' /\ AdapterTypes'
    BY <1>0, <2>1, <2>2 DEF LoopTypes, OutputTypes, AdapterTypes
  <2>4. pending = {} => pending' = {}
    BY <2>1 DEF Elapse
  <2>5. Phases'
    BY <1>0, <2>1, <2>4 DEF Phases
  <2> QED BY <2>3, <2>5 DEF Basics, TypeOK, LoopTypes, OutputTypes, AdapterTypes
<1>3. CASE WriteFails
  <2>1. /\ phase \in {"sending", "writing"}
        /\ \/ phase' = "failed" /\ adapters' = adapters
           \/ phase' = "backoff" /\ adapters' = Stopped /\ ~(attempts >= MaxRetries)
        /\ UNCHANGED <<eof, input, pending, batch, request, sending, attempts, sent,
                       crashes, channel, answer, delivered>>
    BY <1>3 DEF WriteFails, CannotWrite, Fail, queueVars, sendVars, outVars
  <2>2. adapters' \in Seq(Adapters) /\ (adapters # <<>> => adapters' # <<>>)
    BY <1>0, <2>1, StoppedTyped DEF AdapterTypes
  <2>3. LoopTypes' /\ OutputTypes' /\ AdapterTypes'
    BY <1>0, <2>1, <2>2 DEF LoopTypes, OutputTypes, AdapterTypes
  <2>4. attempts \in Nat
    BY <1>0 DEF LoopTypes
  <2>5. Phases'
    BY <1>0, <2>1, <2>2, <2>4, SessionAssumption DEF Phases
  <2> QED BY <2>3, <2>5 DEF Basics, TypeOK, LoopTypes, OutputTypes, AdapterTypes
<1>4. CASE Restart
  <2>1. /\ phase = "backoff"
        /\ \/ /\ adapters' = Append(Stopped, NewAdapter)
              /\ attempts' = attempts + 1 /\ phase' = "sending"
           \/ adapters' = Stopped /\ attempts' = attempts /\ phase' = "failed"
        /\ UNCHANGED <<eof, input, pending, batch, request, sending, sent,
                       crashes, channel, answer, delivered>>
    BY <1>4 DEF Restart, Fail, queueVars, outVars
  <2>2. adapters' \in Seq(Adapters) /\ (phase' # "failed" => adapters' # <<>>)
    BY <1>0, <2>1, StoppedTyped
  <2>3. attempts' \in 0..MaxRetries
    BY <1>0, <2>1, SessionAssumption DEF LoopTypes, Phases
  <2>4. LoopTypes' /\ OutputTypes' /\ AdapterTypes'
    BY <1>0, <2>1, <2>2, <2>3 DEF LoopTypes, OutputTypes, AdapterTypes
  <2>5. Phases'
    BY <1>0, <2>1, <2>2 DEF Phases
  <2> QED BY <2>4, <2>5 DEF Basics, TypeOK, LoopTypes, OutputTypes, AdapterTypes
<1>5. CASE StopSession
  <2>1. /\ phase = "stopping" /\ phase' = "ended" /\ adapters' = Stopped
        /\ UNCHANGED <<eof, input, pending, batch, request, sending, attempts, sent,
                       crashes, channel, answer, delivered>>
    BY <1>5 DEF StopSession, queueVars, sendVars, outVars
  <2>2. adapters' \in Seq(Adapters) /\ (adapters # <<>> => adapters' # <<>>)
    BY <1>0, <2>1, StoppedTyped
  <2>3. LoopTypes' /\ OutputTypes' /\ AdapterTypes'
    BY <1>0, <2>1, <2>2 DEF LoopTypes, OutputTypes, AdapterTypes
  <2>4. Phases'
    BY <1>0, <2>1, <2>2 DEF Phases
  <2> QED BY <2>3, <2>4 DEF Basics, TypeOK, LoopTypes, OutputTypes, AdapterTypes
<1>6. CASE TakeAnswer
  <2>1. /\ phase = "select" /\ phase' = "delivering"
        /\ channel # <<>> /\ channel' = Tail(channel) /\ answer' = Head(channel)
        /\ UNCHANGED <<eof, input, pending, batch, request, sending, attempts, sent,
                       adapters, crashes, delivered>>
    BY <1>6 DEF TakeAnswer, queueVars, sendVars, adapterVars
  <2>2. channel \in Seq(Deliveries) /\ Len(channel) \in Nat /\ Len(channel) <= ChannelCapacity
    BY <1>0 DEF OutputTypes
  <2>3. /\ Head(channel) \in Deliveries /\ Tail(channel) \in Seq(Deliveries)
        /\ Len(Tail(channel)) = Len(channel) - 1
    BY <2>1, <2>2, HeadTailProperties
  <2>4. Len(channel') <= ChannelCapacity
    BY <2>1, <2>2, <2>3, SessionAssumption
  <2>5. LoopTypes' /\ OutputTypes' /\ AdapterTypes'
    BY <1>0, <2>1, <2>3, <2>4 DEF LoopTypes, OutputTypes, AdapterTypes
  <2>6. answer' # NoMessage
    BY <2>1, <2>3, NoDelivery
  <2>7. Phases'
    BY <1>0, <2>1, <2>6 DEF Phases
  <2> QED BY <2>5, <2>7 DEF Basics, TypeOK, LoopTypes, OutputTypes, AdapterTypes
<1>7. CASE DeliverAnswer
  <2>1. /\ phase = "delivering" /\ answer' = NoMessage
        /\ \/ delivered' = Append(delivered, answer) /\ phase' = "select"
           \/ phase' = "failed" /\ delivered' = delivered
        /\ UNCHANGED <<eof, input, pending, batch, request, sending, attempts, sent,
                       adapters, crashes, channel>>
    BY <1>7 DEF DeliverAnswer, Fail, queueVars, sendVars, adapterVars
  <2>2. answer \in Deliveries /\ delivered \in Seq(Deliveries)
    BY <1>0, <2>1 DEF OutputTypes, Phases
  <2>3. delivered' \in Seq(Deliveries)
    BY <2>1, <2>2, AppendProperties
  <2>4. LoopTypes' /\ OutputTypes' /\ AdapterTypes'
    BY <1>0, <2>1, <2>3 DEF LoopTypes, OutputTypes, AdapterTypes
  <2>5. Phases'
    BY <1>0, <2>1 DEF Phases
  <2> QED BY <2>4, <2>5 DEF Basics, TypeOK, LoopTypes, OutputTypes, AdapterTypes
<1>8. CASE TryWait
  <2>1. /\ phase = "sending" /\ phase' = "writing"
        /\ UNCHANGED <<eof, input, pending, batch, request, sending, attempts, sent,
                       adapters, crashes, channel, answer, delivered>>
    BY <1>8 DEF TryWait, queueVars, sendVars, adapterVars, outVars
  <2>2. LoopTypes' /\ OutputTypes' /\ AdapterTypes'
    BY <1>0, <2>1 DEF LoopTypes, OutputTypes, AdapterTypes
  <2>3. Phases'
    BY <1>0, <2>1 DEF Phases
  <2> QED BY <2>2, <2>3 DEF Basics, TypeOK, LoopTypes, OutputTypes, AdapterTypes
<1> QED BY <1>1, <1>2, <1>3, <1>4, <1>5, <1>6, <1>7, <1>8

LEMMA StutterBasics == Basics /\ UNCHANGED vars => Basics'
BY DEF Basics, TypeOK, Phases, vars, queueVars, sendVars, adapterVars, outVars

LEMMA NextBasics == Basics /\ [Next]_vars => Basics'
<1> SUFFICES ASSUME Basics, [Next]_vars PROVE Basics'
  OBVIOUS
<1>1. CASE Loop
  BY <1>1, StartSessionBasics, ReadEofBasics, FlushTickBasics, WriteBasics, MoveBasics DEF Loop
<1>2. CASE ReadLine
  BY <1>2, ReadLineBasics
<1>3. CASE TimePasses \/ Killed
  BY <1>3, MoveBasics
<1>4. CASE \E g \in DOMAIN adapters : Reader(g) \/ Adapter(g) \/ Accident(g)
  BY <1>4, ReaderBasics, AdapterBasics
<1>5. CASE Terminated \/ UNCHANGED vars
  BY <1>5, StutterBasics DEF Terminated
<1> QED BY <1>1, <1>2, <1>3, <1>4, <1>5 DEF Next

(* Every reachable state is well typed, and what the loop holds agrees     *)
(* with where it stands (main.rs 178-269, process.rs 138-164).             *)
THEOREM BasicsCorrect == Spec => []Basics
BY InitBasics, NextBasics, PTL DEF Spec

(* Every reachable state is well typed; in particular no message costs     *)
(* more than MaxRetries restarts, and the channel never holds more than    *)
(* ChannelCapacity lines.                                                  *)
THEOREM TypeCorrect == Spec => []TypeOK
<1>1. Basics => TypeOK
  BY DEF Basics
<1> QED BY <1>1, BasicsCorrect, PTL

-----------------------------------------------------------------------------
(* Nothing is lost.  The property is inductive once it is known that lines *)
(* are numbered in the order they are read, that everything held has been  *)
(* read, and that the queue holds pushes.                                  *)
Numbered == \A i \in DOMAIN input : input[i].id = i

HeldWasRead == \A h \in Held : h.id <= Len(input)

QueuedPushes == \A e \in pending : e.message.type = "push"

LossInv == Numbered /\ HeldWasRead /\ QueuedPushes /\ NothingLost

(* A push read after p that replaces what covers p covers p itself. *)
LEMMA CoversReplaced ==
    ASSUME NEW p \in Message, NEW q \in Message, NEW m \in Message,
           Covers(q, p), q.uri = m.uri, ~(q.version > m.version), p.id < m.id
    PROVE  Covers(m, p)
<1>1. /\ p.id \in Nat /\ q.id \in Nat /\ m.id \in Nat
      /\ p.version \in Nat /\ q.version \in Nat /\ m.version \in Nat
  BY SessionAssumption DEF Message
<1> QED BY <1>1 DEF Covers

(* Enqueue: what was covered stays covered, and the new push is covered,   *)
(* by itself or by the newer one that kept its place.                      *)
LEMMA EnqueueCovers ==
    ASSUME NEW q \in SUBSET [message: Message, age: 0..Debounce], NEW m \in Message,
           m.type = "push",
           \A e \in q : e.message.type = "push" /\ e.message.id < m.id
    PROVE  /\ \E e \in Enqueue(q, m) : e.message.type = "push" /\ Covers(e.message, m)
           /\ \A p \in Message : \A e \in q :
                p.id < m.id /\ Covers(e.message, p) =>
                    \E f \in Enqueue(q, m) : f.message.type = "push" /\ Covers(f.message, p)
           /\ MessagesOf(Enqueue(q, m)) \subseteq MessagesOf(q) \cup {m}
<1>1. m.id \in Nat /\ m.version \in Nat
  BY SessionAssumption DEF Message
<1>2. \A e \in q : e.message \in Message /\ e.message.id \in Nat /\ e.message.version \in Nat
  BY SessionAssumption DEF Message
<1>3. CASE Stale(q, m)
  <2>1. Enqueue(q, m) = q
    BY <1>3 DEF Enqueue
  <2>2. PICK e \in q : e.message.uri = m.uri /\ e.message.version > m.version
    BY <1>3 DEF Stale, EntriesFor
  <2>3. e.message.id < m.id
    OBVIOUS
  <2>4. Covers(e.message, m)
    BY <1>1, <1>2, <2>2, <2>3 DEF Covers
  <2> QED BY <2>1, <2>4 DEF MessagesOf
<1>4. CASE ~Stale(q, m)
  <2>1. Enqueue(q, m) = (q \ EntriesFor(q, m.uri)) \cup {Entry(m, 0)}
    BY <1>4 DEF Enqueue
  <2>2. Entry(m, 0).message = m /\ Entry(m, 0) \in Enqueue(q, m)
    BY <2>1 DEF Entry
  <2>3. Covers(m, m)
    BY DEF Covers
  <2>4. ASSUME NEW p \in Message, NEW e \in q, p.id < m.id, Covers(e.message, p)
        PROVE  \E f \in Enqueue(q, m) : f.message.type = "push" /\ Covers(f.message, p)
    <3>1. CASE e.message.uri = m.uri
      <4>1. ~(e.message.version > m.version)
        BY <1>4, <3>1 DEF Stale, EntriesFor
      <4>2. Covers(m, p)
        BY <1>2, <2>4, <3>1, <4>1, CoversReplaced
      <4> QED BY <2>2, <4>2
    <3>2. CASE e.message.uri # m.uri
      BY <2>1, <2>4, <3>2 DEF EntriesFor
    <3> QED BY <3>1, <3>2
  <2>5. MessagesOf(Enqueue(q, m)) \subseteq MessagesOf(q) \cup {m}
    BY <2>1, <2>2 DEF MessagesOf
  <2> QED BY <2>2, <2>3, <2>4, <2>5
<1> QED BY <1>3, <1>4

(* A recorded write adds to what was sent and takes nothing away. *)
LEMMA SentGrows ==
    ASSUME Basics, phase = "writing", RecordSent
    PROVE  /\ SentMessages' = SentMessages \cup {sending}
           /\ \A p : SentFor(p) => SentFor(p)'
           /\ \A p : sending.type = "push" /\ Covers(sending, p) /\ Len(input) >= p.id
                     => SentFor(p)'
<1> DEFINE r == [message |-> sending, gen |-> Current, at |-> Len(input)]
<1>1. sent \in Seq([message: Message, gen: Nat, at: Nat])
  BY DEF Basics, TypeOK
<1>2. sending \in Message /\ Current \in Nat /\ Len(input) \in Nat
  BY DEF Basics, TypeOK, Phases, Current
<1>3. r \in [message: Message, gen: Nat, at: Nat]
  BY <1>2
<1>4. sent' = Append(sent, r)
  BY DEF RecordSent
<1>5. r.message = sending /\ r.at = Len(input)
  OBVIOUS
<1> HIDE DEF r
<1>6. /\ Len(sent') = Len(sent) + 1 /\ Len(sent) \in Nat
      /\ DOMAIN sent = 1..Len(sent) /\ DOMAIN sent' = 1..(Len(sent) + 1)
      /\ \A i \in DOMAIN sent : sent'[i] = sent[i]
      /\ sent'[Len(sent) + 1] = r
  BY <1>1, <1>3, <1>4, AppendProperties
<1>7. DOMAIN sent' = DOMAIN sent \cup {Len(sent) + 1}
  BY <1>6
<1>8. SentMessages' = SentMessages \cup {sending}
  BY <1>5, <1>6, <1>7 DEF SentMessages
<1>9. \A p : SentFor(p) => SentFor(p)'
  BY <1>6, <1>7 DEF SentFor
<1>10. \A p : sending.type = "push" /\ Covers(sending, p) /\ Len(input) >= p.id
               => SentFor(p)'
  BY <1>5, <1>6, <1>7 DEF SentFor
<1> QED BY <1>8, <1>9, <1>10

(* Steps that read nothing and hold what was held. *)
LEMMA KeptLoss ==
    ASSUME Basics, LossInv, input' = input, sent' = sent, Held' = Held,
           MessagesOf(pending') \subseteq MessagesOf(pending),
           phase = "failed" => phase' = "failed"
    PROVE  LossInv'
<1>1. Numbered' /\ HeldWasRead'
  BY DEF LossInv, Numbered, HeldWasRead
<1>2. QueuedPushes'
  BY DEF LossInv, QueuedPushes, MessagesOf
<1>3. NothingLost'
  BY DEF LossInv, NothingLost, SentFor, HeldFor, SentMessages
<1> QED BY <1>1, <1>2, <1>3 DEF LossInv

LEMMA MessagesSplit ==
    ASSUME NEW q, NEW r, r \subseteq q
    PROVE  /\ MessagesOf(q \ r) \cup MessagesOf(r) = MessagesOf(q)
           /\ MessagesOf(q \ r) \subseteq MessagesOf(q)
BY DEF MessagesOf

(* The arms that drain without reading a message: end of input, the tick. *)
LEMMA DrainLoss ==
    ASSUME Basics, LossInv, ReadEof \/ FlushTick
    PROVE  LossInv'
<1>1. /\ phase = "select" /\ batch = {} /\ sending = NoMessage /\ request = NoMessage
      /\ pending \in SUBSET [message: Message, age: 0..Debounce]
  BY DEF Basics, TypeOK, Phases, ReadEof, FlushTick
<1>2. Held = MessagesOf(pending)
  BY <1>1 DEF Held, Some
<1>3. PICK r \in SUBSET pending, closing \in BOOLEAN :
        pending' = pending \ r /\ Proceed(MessagesOf(r), NoMessage, closing)
  <2>1. CASE ReadEof
    <3>1. pending' = pending \ pending /\ Proceed(MessagesOf(pending), NoMessage, TRUE)
      BY <2>1 DEF ReadEof, EmptyQueue
    <3> QED BY <3>1
  <2>2. CASE FlushTick
    <3>1. Ready(pending) \in SUBSET pending
      BY DEF Ready
    <3> QED BY <2>2, <3>1 DEF FlushTick
  <2> QED BY <2>1, <2>2
<1>4. MessagesOf(r) \in SUBSET Message
  BY <1>1, <1>3, MessagesTyped
<1>5. /\ batch' \cup Some(sending') \cup Some(request') = MessagesOf(r) \cup Some(NoMessage)
      /\ phase' # "failed"
  BY <1>3, <1>4, ProceedKeeps
<1>6. Some(NoMessage) = {}
  BY DEF Some
<1>7. Held' = Held
  BY <1>2, <1>3, <1>5, <1>6, MessagesSplit DEF Held
<1>8. MessagesOf(pending') \subseteq MessagesOf(pending)
  BY <1>3, MessagesSplit
<1>9. input' = input /\ sent' = sent
  BY DEF ReadEof, FlushTick
<1> QED BY <1>1, <1>7, <1>8, <1>9, KeptLoss

LEMMA NextInDrain ==
    ASSUME NEW closing \in BOOLEAN, Proceed(batch, request, closing),
           batch \in SUBSET Message, request \in Message \cup {NoMessage}
    PROVE  batch' \cup Some(sending') \cup Some(request') = batch \cup Some(request)
BY ProceedKeeps

LEMMA WriteLoss ==
    ASSUME Basics, LossInv, WriteOk \/ WriteLost
    PROVE  LossInv'
<1>1. /\ phase = "writing" /\ RecordSent /\ Proceed(batch, request, eof)
      /\ input' = input /\ pending' = pending
  BY DEF WriteOk, WriteLost, queueVars
<1>2. /\ sending \in Message /\ batch \in SUBSET Message
      /\ request \in Message \cup {NoMessage} /\ eof \in BOOLEAN
      /\ input \in Seq(Message)
  BY <1>1 DEF Basics, TypeOK, Phases
<1>3. batch' \cup Some(sending') \cup Some(request') = batch \cup Some(request)
  BY <1>1, <1>2, NextInDrain
<1>4. Held = Held' \cup {sending}
  BY <1>1, <1>2, <1>3, NoMessageAssumption DEF Held, Some
<1>5. Numbered' /\ HeldWasRead' /\ QueuedPushes'
  BY <1>1, <1>4 DEF LossInv, Numbered, HeldWasRead, QueuedPushes
<1>6. NothingLost'
  <2> SUFFICES ASSUME NEW i \in DOMAIN input
               PROVE  IF input[i].type = "push"
                        THEN SentFor(input[i])' \/ HeldFor(input[i])'
                        ELSE input[i] \in SentMessages' \cup Held'
    BY <1>1 DEF NothingLost
  <2> DEFINE p == input[i]
  <2>1. p \in Message /\ p.id <= Len(input)
    BY <1>2 DEF LossInv, Numbered
  <2>2. IF p.type = "push" THEN SentFor(p) \/ HeldFor(p)
                           ELSE p \in SentMessages \cup Held
    BY <1>1 DEF LossInv, NothingLost
  <2>3. Len(input) >= p.id
    BY <1>2, <2>1 DEF Message
  <2>4. p' = p
    BY <1>1
  <2> HIDE DEF p
  <2>5. CASE p.type = "push"
    <3>1. CASE SentFor(p)
      BY <1>1, <2>4, <2>5, <3>1, SentGrows DEF p, SentFor
    <3>2. CASE HeldFor(p)
      <4>1. PICK h \in Held : h.type = "push" /\ Covers(h, p)
        BY <3>2 DEF HeldFor
      <4> QED BY <1>1, <1>4, <2>3, <2>4, <2>5, <4>1, SentGrows DEF p, HeldFor, SentFor
    <3> QED BY <2>2, <2>5, <3>1, <3>2
  <2>6. CASE p.type # "push"
    BY <1>1, <1>4, <2>2, <2>4, <2>6, SentGrows DEF p
  <2> QED BY <2>5, <2>6 DEF p
<1> QED BY <1>5, <1>6 DEF LossInv

(* A line read is accounted for: in the queue, or behind what it drains.   *)
LEMMA ReadLineLoss ==
    ASSUME Basics, LossInv, ReadLine
    PROVE  LossInv'
<1>1. PICK line \in Lines :
        LET m == [id |-> Len(input) + 1, type |-> line.type,
                  uri |-> line.uri, version |-> line.version]
        IN /\ input' = Append(input, m)
           /\ ReadPush(m) \/ ReadCheck(m) \/ ReadOther(m)
  BY DEF ReadLine
<1> DEFINE m == [id |-> Len(input) + 1, type |-> line.type,
                 uri |-> line.uri, version |-> line.version]
<1>2. /\ input \in Seq(Message) /\ Len(input) \in Nat
      /\ pending \in SUBSET [message: Message, age: 0..Debounce]
      /\ phase = "select" /\ batch = {} /\ sending = NoMessage /\ request = NoMessage
  BY DEF Basics, TypeOK, Phases, ReadLine
<1>3. m \in Message /\ m.id = Len(input) + 1
  BY <1>2, SessionAssumption DEF Message
<1>4. input' = Append(input, m) /\ (ReadPush(m) \/ ReadCheck(m) \/ ReadOther(m))
  BY <1>1
<1> HIDE DEF m
<1>5. /\ DOMAIN input = 1..Len(input) /\ DOMAIN input' = 1..(Len(input) + 1)
      /\ Len(input') = Len(input) + 1
      /\ \A i \in DOMAIN input : input'[i] = input[i] /\ input[i] \in Message
      /\ input'[Len(input) + 1] = m
  BY <1>2, <1>3, <1>4, AppendProperties
<1>6. DOMAIN input' = DOMAIN input \cup {Len(input) + 1}
  BY <1>2, <1>5
<1>7. Numbered'
  BY <1>3, <1>5, <1>6 DEF LossInv, Numbered
<1>8. Held = MessagesOf(pending)
  BY <1>2 DEF Held, Some
<1>9. \A h \in Held : h \in Message /\ h.id <= Len(input) /\ h.id \in Nat
  BY <1>2, <1>8, MessagesTyped DEF LossInv, HeldWasRead, Message
<1>10. sent' = sent
  BY <1>4 DEF ReadPush, ReadCheck, ReadOther, sendVars
<1>11. \A p : (SentFor(p) => SentFor(p)') /\ SentMessages' = SentMessages
  BY <1>10 DEF SentFor, SentMessages
<1>12. CASE ReadPush(m)
  <2>1. m.type = "push" /\ UNCHANGED <<batch, sending, request>>
    BY <1>12 DEF ReadPush, sendVars
  <2>2. CASE m.uri = NoUri
    <3>1. phase' = "failed" /\ pending' = pending
      BY <1>12, <2>2 DEF ReadPush, Fail
    <3>2. Held' = Held
      BY <2>1, <3>1 DEF Held
    <3>3. HeldWasRead'
      BY <1>2, <1>5, <1>9, <3>2 DEF HeldWasRead
    <3>4. QueuedPushes' /\ NothingLost'
      BY <3>1 DEF LossInv, QueuedPushes, NothingLost
    <3> QED BY <1>7, <3>3, <3>4 DEF LossInv
  <2>3. CASE m.uri # NoUri
    <3>1. pending' = Enqueue(pending, m)
      BY <1>12, <2>3 DEF ReadPush
    <3>2. Held' = MessagesOf(pending')
      BY <1>2, <2>1 DEF Held, Some
    <3>3. \A e \in pending : e.message.type = "push" /\ e.message.id < m.id
      BY <1>2, <1>3, <1>8, <1>9 DEF LossInv, QueuedPushes, MessagesOf
    <3>4. /\ \E e \in pending' : e.message.type = "push" /\ Covers(e.message, m)
          /\ \A p \in Message : \A e \in pending :
               p.id < m.id /\ Covers(e.message, p) =>
                   \E f \in pending' : f.message.type = "push" /\ Covers(f.message, p)
          /\ MessagesOf(pending') \subseteq MessagesOf(pending) \cup {m}
      BY <1>2, <1>3, <2>1, <3>1, <3>3, EnqueueCovers
    <3>5. HeldWasRead'
      BY <1>2, <1>3, <1>5, <1>8, <1>9, <3>2, <3>4 DEF HeldWasRead
    <3>6. QueuedPushes'
      BY <1>8, <2>1, <3>4 DEF LossInv, QueuedPushes, MessagesOf
    <3>7. NothingLost'
      <4> SUFFICES ASSUME NEW i \in DOMAIN input', NEW p, p = input'[i]
                   PROVE  IF p.type = "push" THEN SentFor(p)' \/ HeldFor(p)'
                                             ELSE p \in SentMessages' \cup Held'
        BY DEF NothingLost, SentFor, HeldFor
      <4>1. CASE i = Len(input) + 1
        <5>1. p = m
          BY <1>5, <4>1
        <5>2. \E h \in Held' : h.type = "push" /\ Covers(h, p)
          BY <3>2, <3>4, <5>1 DEF MessagesOf
        <5> QED BY <2>1, <5>1, <5>2 DEF HeldFor
      <4>2. CASE i \in DOMAIN input
        <5>1. input[i] = p /\ p \in Message /\ p.id < m.id
          BY <1>2, <1>3, <1>5, <4>2 DEF LossInv, Numbered
        <5>2. IF p.type = "push" THEN SentFor(p) \/ HeldFor(p)
                                 ELSE p \in SentMessages \cup Held
          BY <1>2, <4>2, <5>1 DEF LossInv, NothingLost
        <5>3. HeldFor(p) => \E f \in pending' : f.message.type = "push" /\ Covers(f.message, p)
          BY <1>8, <3>4, <5>1 DEF HeldFor, MessagesOf
        <5>4. HeldFor(p) => \E h \in Held' : h.type = "push" /\ Covers(h, p)
          BY <3>2, <5>3 DEF MessagesOf
        <5>5. p.type # "push" => p \notin Held
          BY <1>8, <3>3 DEF MessagesOf
        <5> QED BY <1>11, <5>2, <5>4, <5>5 DEF HeldFor
      <4> QED BY <1>6, <4>1, <4>2
    <3> QED BY <1>7, <3>5, <3>6, <3>7 DEF LossInv
  <2> QED BY <2>2, <2>3
<1>13. CASE ReadCheck(m) \/ ReadOther(m)
  <2>1. PICK r \in SUBSET pending :
          pending' = pending \ r /\ Proceed(MessagesOf(r), m, FALSE)
    <3>1. CASE ReadCheck(m)
      <4>1. EntriesFor(pending, m.uri) \in SUBSET pending
        BY DEF EntriesFor
      <4> QED BY <3>1, <4>1 DEF ReadCheck
    <3>2. CASE ReadOther(m)
      <4>1. MessagesOf({}) = {} /\ pending' = pending \ {} /\ Proceed({}, m, FALSE)
        BY <3>2 DEF ReadOther, MessagesOf
      <4> QED BY <4>1
    <3> QED BY <1>13, <3>1, <3>2
  <2>2. MessagesOf(r) \in SUBSET Message
    BY <1>2, <2>1, MessagesTyped
  <2>3. batch' \cup Some(sending') \cup Some(request') = MessagesOf(r) \cup Some(m)
    BY <1>3, <2>1, <2>2, ProceedKeeps
  <2>4. Some(m) = {m}
    BY <1>3, NoMessageAssumption DEF Some
  <2>5. Held' = Held \cup {m}
    BY <1>8, <2>1, <2>3, <2>4, MessagesSplit DEF Held
  <2>6. HeldWasRead'
    BY <1>2, <1>3, <1>5, <1>9, <2>5 DEF HeldWasRead
  <2>7. QueuedPushes'
    BY <2>1 DEF LossInv, QueuedPushes
  <2>8. m.type # "push"
    BY <1>13 DEF ReadCheck, ReadOther
  <2>9. NothingLost'
    <3> SUFFICES ASSUME NEW i \in DOMAIN input', NEW p, p = input'[i]
                 PROVE  IF p.type = "push" THEN SentFor(p)' \/ HeldFor(p)'
                                           ELSE p \in SentMessages' \cup Held'
      BY DEF NothingLost, SentFor, HeldFor
    <3>1. CASE i = Len(input) + 1
      BY <1>5, <2>5, <2>8, <3>1
    <3>2. CASE i \in DOMAIN input
      <4>1. input[i] = p
        BY <1>5, <3>2
      <4>2. IF p.type = "push" THEN SentFor(p) \/ HeldFor(p)
                               ELSE p \in SentMessages \cup Held
        BY <1>2, <3>2, <4>1 DEF LossInv, NothingLost
      <4>3. HeldFor(p) => \E h \in Held' : h.type = "push" /\ Covers(h, p)
        BY <2>5 DEF HeldFor
      <4> QED BY <1>11, <2>5, <4>2, <4>3 DEF HeldFor
    <3> QED BY <1>6, <3>1, <3>2
  <2> QED BY <1>7, <2>6, <2>7, <2>9 DEF LossInv
<1> QED BY <1>4, <1>12, <1>13

(* The steps of the adapters, the readers and the restarts, and the end of  *)
(* the session, leave what was read, is held and was written as it is.      *)
LEMMA OtherKeepsHeld ==
    ASSUME \/ StartSession \/ ReadError \/ Killed \/ WriteFails \/ Restart
           \/ StopSession \/ TryWait \/ TakeAnswer \/ DeliverAnswer \/ Terminated
           \/ UNCHANGED vars
           \/ \E g \in DOMAIN adapters : Reader(g) \/ Adapter(g) \/ Accident(g)
    PROVE  /\ UNCHANGED <<input, pending, batch, sending, request, sent>>
           /\ phase = "failed" => phase' = "failed"
<1>1. CASE StartSession
  BY <1>1 DEF StartSession, queueVars, sendVars
<1>2. CASE ReadError \/ Killed
  BY <1>2 DEF ReadError, Killed, Fail, Over, queueVars, sendVars
<1>3. CASE WriteFails
  BY <1>3 DEF WriteFails, CannotWrite, queueVars, sendVars
<1>4. CASE Restart
  BY <1>4 DEF Restart, queueVars
<1>5. CASE StopSession
  BY <1>5 DEF StopSession, queueVars, sendVars
<1>6. CASE TryWait \/ TakeAnswer \/ DeliverAnswer
  BY <1>6 DEF TryWait, TakeAnswer, DeliverAnswer, queueVars, sendVars
<1>7. CASE Terminated \/ UNCHANGED vars
  BY <1>7 DEF Terminated, vars, queueVars, sendVars
<1>8. ASSUME NEW g \in DOMAIN adapters, Reader(g)
      PROVE  UNCHANGED <<phase, queueVars, sendVars>>
  BY <1>8 DEF Reader, ReaderTakes, ReaderPuts
<1>9. ASSUME NEW g \in DOMAIN adapters, Adapter(g) \/ Accident(g)
      PROVE  UNCHANGED <<phase, queueVars, sendVars>>
  BY <1>9 DEF Adapter, Accident, AdapterReads, AdapterAnswers, AdapterSeesEof, AdapterExits,
              RequestFails, AdapterQuits, SbtExits
<1> QED BY <1>1, <1>2, <1>3, <1>4, <1>5, <1>6, <1>7, <1>8, <1>9 DEF queueVars, sendVars

LEMMA OtherLoss ==
    ASSUME Basics, LossInv,
           \/ StartSession \/ ReadError \/ Killed \/ TimePasses \/ WriteFails \/ Restart
           \/ StopSession \/ TryWait \/ TakeAnswer \/ DeliverAnswer \/ Terminated
           \/ UNCHANGED vars
           \/ \E g \in DOMAIN adapters : Reader(g) \/ Adapter(g) \/ Accident(g)
    PROVE  LossInv'
<1>1. pending \in SUBSET [message: Message, age: 0..Debounce]
  BY DEF Basics, TypeOK
<1>2. CASE TimePasses
  <2>1. MessagesOf(pending') = MessagesOf(pending)
    BY <1>1, <1>2, ElapseTyped DEF TimePasses
  <2>2. UNCHANGED <<phase, input, batch, sending, request, sent>>
    BY <1>2 DEF TimePasses, sendVars
  <2>3. Held' = Held
    BY <2>1, <2>2 DEF Held
  <2> QED BY <2>1, <2>2, <2>3, KeptLoss
<1>3. CASE ~TimePasses
  <2>1. /\ UNCHANGED <<input, pending, batch, sending, request, sent>>
        /\ phase = "failed" => phase' = "failed"
    BY <1>3, OtherKeepsHeld
  <2>2. Held' = Held
    BY <2>1 DEF Held
  <2> QED BY <2>1, <2>2, KeptLoss
<1> QED BY <1>2, <1>3

LEMMA NextLoss == Basics /\ LossInv /\ [Next]_vars => LossInv'
BY ReadLineLoss, DrainLoss, WriteLoss, OtherLoss DEF Next, Loop

LEMMA InitLoss == Init => LossInv
BY DEF Init, LossInv, Numbered, HeldWasRead, QueuedPushes, NothingLost, Held, MessagesOf,
       Some, EmptyQueue

(* Debouncing, draining, retrying and flushing lose nothing: until an      *)
(* error ends the session every message read has been written, is held, or *)
(* is a push that gave way to one that is not older.                       *)
THEOREM NothingLostCorrect == Spec => []NothingLost
<1>1. LossInv => NothingLost
  BY DEF LossInv
<1> QED BY <1>1, InitLoss, NextLoss, BasicsCorrect, PTL DEF Spec

(* A session that ended without an error has written everything it read,   *)
(* or something that stands for it.                                        *)
THEOREM EofFlushesCorrect == Spec => []EofFlushes
<1>1. Basics /\ NothingLost => EofFlushes
  <2> SUFFICES ASSUME Basics, NothingLost, phase = "ended" PROVE EofFlushes
    BY DEF EofFlushes
  <2>1. Held = {}
    BY DEF Basics, Phases, Held, MessagesOf, Some
  <2> QED BY <2>1 DEF EofFlushes, NothingLost, HeldFor
<1> QED BY <1>1, BasicsCorrect, NothingLostCorrect, PTL
-----------------------------------------------------------------------------
(* At most one child.  stop() leaves none, start() adds one, and nothing    *)
(* brings a reaped child back.                                              *)
LEMMA ReapedDead ==
    ASSUME NEW a \in Adapters
    PROVE  ~ChildLives(Reaped(a))
<1>1. CASE Mode = "child"
  BY <1>1 DEF ChildLives, Reaped, Gone, Adapters
<1>2. CASE Mode # "child"
  BY <1>2 DEF ChildLives, Reaped, Adapters
<1> QED BY <1>1, <1>2

LEMMA StoppedReaps ==
    ASSUME AdapterTypes, AtMostOneChild
    PROVE  /\ Stopped \in Seq(Adapters) /\ Len(Stopped) = Len(adapters)
           /\ \A g \in DOMAIN Stopped : ~ChildLives(Stopped[g])
<1>1. Stopped \in Seq(Adapters)
  BY StoppedTyped
<1>2. CASE Current # 0
  <2>1. Current \in DOMAIN adapters /\ adapters[Current] \in Adapters
    BY <1>2, AdapterTyped DEF AdapterTypes, Current
  <2>2. Stopped = [adapters EXCEPT ![Current] = Reaped(adapters[Current])]
    BY <1>2 DEF Stopped
  <2>3. ~ChildLives(Reaped(adapters[Current]))
    BY <2>1, ReapedDead
  <2>4. \A g \in DOMAIN adapters : g # Current => ~ChildLives(adapters[g])
    BY DEF AtMostOneChild
  <2>5. DOMAIN Stopped = DOMAIN adapters
    BY <2>2
  <2>6. Len(Stopped) = Len(adapters)
    BY <1>1, <2>5 DEF AdapterTypes
  <2>7. \A g \in DOMAIN adapters :
          Stopped[g] = IF g = Current THEN Reaped(adapters[Current]) ELSE adapters[g]
    BY <2>1, <2>2
  <2> QED BY <1>1, <2>3, <2>4, <2>5, <2>6, <2>7
<1>3. CASE Current = 0
  BY <1>1, <1>3 DEF Stopped, Current, AdapterTypes
<1> QED BY <1>2, <1>3

LEMMA StartAddsOne ==
    ASSUME AdapterTypes, AtMostOneChild, adapters' = Append(Stopped, NewAdapter)
    PROVE  \A g \in DOMAIN adapters' : ChildLives(adapters'[g]) => g = Current'
<1>1. /\ Stopped \in Seq(Adapters)
      /\ \A g \in DOMAIN Stopped : ~ChildLives(Stopped[g])
  BY StoppedReaps
<1>2. NewAdapter \in Adapters
  BY EmptySeq DEF NewAdapter, Adapters
<1> HIDE DEF NewAdapter
<1>3. /\ Len(adapters') = Len(Stopped) + 1
      /\ \A g \in 1..Len(Stopped) : adapters'[g] = Stopped[g]
      /\ adapters' \in Seq(Adapters)
  BY <1>1, <1>2, AppendProperties
<1>4. ASSUME NEW g \in DOMAIN adapters', ChildLives(adapters'[g])
      PROVE  g = Current'
  <2>1. g \in 1..(Len(Stopped) + 1) /\ Len(Stopped) \in Nat
    BY <1>1, <1>3, <1>4
  <2>2. g \notin 1..Len(Stopped)
    BY <1>1, <1>3, <1>4
  <2> QED BY <1>3, <2>1, <2>2 DEF Current
<1> QED BY <1>4

(* One adapter's record changes, without a child coming back to life. *)
LEMMA RecordKeepsOne ==
    ASSUME AdapterTypes, AtMostOneChild, UNCHANGED phase, NEW g \in DOMAIN adapters,
           NEW a \in Adapters, adapters' = [adapters EXCEPT ![g] = a],
           ChildLives(a) => ChildLives(adapters[g])
    PROVE  AtMostOneChild'
<1>1. DOMAIN adapters' = DOMAIN adapters
  OBVIOUS
<1>2. adapters' \in Seq(Adapters)
  BY AdapterUpdated
<1>3. Current' = Current
  BY <1>1, <1>2 DEF Current, AdapterTypes
<1>4. \A h \in DOMAIN adapters : adapters'[h] = IF h = g THEN a ELSE adapters[h]
  OBVIOUS
<1>5. ASSUME NEW h \in DOMAIN adapters', ChildLives(adapters'[h])
      PROVE  h = Current' /\ phase' \notin {"starting", "backoff", "ended"}
  <2>1. h \in DOMAIN adapters /\ ChildLives(adapters[h])
    BY <1>1, <1>4, <1>5
  <2> QED BY <1>3, <2>1 DEF AtMostOneChild
<1> QED BY <1>5 DEF AtMostOneChild, ChildLives

(* The adapters stay as they are, and the phase does not become one in     *)
(* which no child may live.                                                *)
LEMMA SameAdaptersKeepOne ==
    ASSUME AtMostOneChild, adapters' = adapters,
           phase' = phase \/ phase' \notin {"starting", "backoff", "ended"}
    PROVE  AtMostOneChild'
BY DEF AtMostOneChild, ChildLives, Current

LEMMA AdapterKeepsOne ==
    ASSUME Basics, AtMostOneChild, NEW g \in DOMAIN adapters,
           Reader(g) \/ Adapter(g) \/ Accident(g)
    PROVE  AtMostOneChild'
<1>1. AdapterTypes /\ Basics' /\ UNCHANGED phase
  <2>1. Basics'
    BY ReaderBasics, AdapterBasics
  <2>2. UNCHANGED phase
    BY DEF Reader, Adapter, Accident, ReaderTakes, ReaderPuts, AdapterReads, AdapterAnswers,
           AdapterSeesEof, AdapterExits, RequestFails, AdapterQuits, SbtExits
  <2> QED BY <2>1, <2>2, TypeParts DEF Basics
<1>2. adapters[g] \in Adapters /\ AdapterTypes'
  BY <1>1, AdapterTyped, TypeParts DEF Basics, TypeOK, AdapterTypes
<1>3. PICK a : /\ adapters' = [adapters EXCEPT ![g] = a]
               /\ ChildLives(a) => ChildLives(adapters[g])
  <2>1. CASE ReaderTakes(g)
    <3>1. adapters' = [adapters EXCEPT ![g] = Taken(adapters[g])]
      BY <2>1 DEF ReaderTakes
    <3>2. ChildLives(Taken(adapters[g])) = ChildLives(adapters[g])
      BY <1>2 DEF Taken, Adapters, ChildLives
    <3> QED BY <3>1, <3>2
  <2>2. CASE ReaderPuts(g)
    <3> DEFINE emptied == [adapters[g] EXCEPT !.reader = NoMessage]
    <3>1. adapters' = [adapters EXCEPT ![g] = emptied]
      BY <2>2 DEF ReaderPuts
    <3>2. ChildLives(emptied) = ChildLives(adapters[g])
      BY <1>2 DEF Adapters, ChildLives
    <3> HIDE DEF emptied
    <3> QED BY <3>1, <3>2
  <2>3. ASSUME adapters[g].state = "running"
        PROVE  \A a \in Adapters : a.sbt = adapters[g].sbt =>
                  (ChildLives(a) => ChildLives(adapters[g]))
    BY <2>3 DEF ChildLives
  <2>4. Gone(adapters[g], "closing").sbt = adapters[g].sbt
    BY <1>2 DEF Gone, Adapters
  <2>5. Gone(adapters[g], "closing") \in Adapters
    BY <1>2, GoneTyped
  <2>6. CASE AdapterReads(g)
    <3>1. Read(adapters[g]).sbt = adapters[g].sbt
      BY <1>2, <2>4 DEF Read, Adapters
    <3>2. Read(adapters[g]) \in Adapters
      BY <1>2, <2>6, ReadTyped DEF AdapterReads
    <3> QED BY <2>3, <2>6, <3>1, <3>2 DEF AdapterReads
  <2>7. CASE AdapterAnswers(g)
    <3>1. \A m : Told(adapters[g], m).sbt = adapters[g].sbt
      BY <1>2 DEF Told, Adapters
    <3>2. \A m \in adapters[g].handling : Told(adapters[g], m) \in Adapters
      BY <1>2, ToldTyped
    <3>3. PICK m \in adapters[g].handling :
            \/ adapters' = [adapters EXCEPT ![g] = Told(adapters[g], m)]
            \/ adapters' = [adapters EXCEPT ![g] = Gone(adapters[g], "closing")]
      BY <2>7 DEF AdapterAnswers
    <3>4. adapters[g].state = "running"
      BY <2>7 DEF AdapterAnswers
    <3>5. ChildLives(Told(adapters[g], m)) => ChildLives(adapters[g])
      BY <2>3, <3>1, <3>2, <3>4
    <3>6. ChildLives(Gone(adapters[g], "closing")) => ChildLives(adapters[g])
      BY <2>3, <2>4, <2>5, <3>4
    <3> QED BY <3>3, <3>5, <3>6
  <2>8. CASE AdapterSeesEof(g) \/ AdapterQuits(g)
    <3>1. /\ adapters[g].state = "running"
          /\ adapters' = [adapters EXCEPT ![g] = Gone(adapters[g], "closing")]
      BY <2>8 DEF AdapterSeesEof, AdapterQuits
    <3> QED BY <2>3, <2>4, <2>5, <3>1
  <2>9. CASE AdapterExits(g)
    <3> DEFINE reaped == [adapters[g] EXCEPT !.state = "exited"]
    <3>1. adapters' = [adapters EXCEPT ![g] = reaped]
      BY <2>9 DEF AdapterExits
    <3>2. ChildLives(reaped) => ChildLives(adapters[g])
      BY <1>2, <2>9 DEF AdapterExits, Adapters, ChildLives
    <3> HIDE DEF reaped
    <3> QED BY <3>1, <3>2
  <2>10. CASE RequestFails(g)
    <3>1. PICK m \in adapters[g].handling :
            adapters' = [adapters EXCEPT ![g] = Dropped(adapters[g], m)]
      BY <2>10 DEF RequestFails
    <3>2. ChildLives(Dropped(adapters[g], m)) = ChildLives(adapters[g])
      BY <1>2 DEF Dropped, Adapters, ChildLives
    <3> QED BY <3>1, <3>2
  <2>11. CASE SbtExits(g)
    <3> DEFINE alone == [adapters[g] EXCEPT !.sbt = FALSE]
    <3>1. adapters' = [adapters EXCEPT ![g] = alone]
      BY <2>11 DEF SbtExits
    <3>2. ChildLives(alone) => ChildLives(adapters[g])
      BY <1>2 DEF Adapters, ChildLives
    <3> HIDE DEF alone
    <3> QED BY <3>1, <3>2
  <2> QED BY <2>1, <2>2, <2>6, <2>7, <2>8, <2>9, <2>10, <2>11 DEF Reader, Adapter, Accident
<1>4. a \in Adapters
  <2>1. g \in DOMAIN adapters' /\ adapters'[g] = a
    BY <1>3
  <2> QED BY <1>2, <2>1 DEF AdapterTypes
<1> QED BY <1>1, <1>3, <1>4, RecordKeepsOne

(* The loop: stop() on the way into a backoff and out of the session,      *)
(* start() on the way into the loop and back to the write.                 *)
LEMMA LoopKeepsOne ==
    ASSUME Basics, AtMostOneChild, Loop \/ ReadLine \/ TimePasses \/ Killed
    PROVE  AtMostOneChild'
<1>1. AdapterTypes /\ Phases
  BY TypeParts DEF Basics
<1>2. ASSUME adapters' = Stopped PROVE AtMostOneChild'
  <2>1. \A g \in DOMAIN adapters' : ~ChildLives(adapters'[g])
    BY <1>1, <1>2, StoppedReaps
  <2> QED BY <2>1 DEF AtMostOneChild, ChildLives
<1>3. ASSUME adapters' = Append(Stopped, NewAdapter),
             phase' \notin {"starting", "backoff", "ended"}
      PROVE  AtMostOneChild'
  <2>1. \A g \in DOMAIN adapters' : ChildLives(adapters'[g]) => g = Current'
    BY <1>1, <1>3, StartAddsOne
  <2> QED BY <1>3, <2>1 DEF AtMostOneChild, ChildLives
<1>4. CASE StartSession \/ Restart \/ StopSession
  BY <1>2, <1>3, <1>4 DEF StartSession, Restart, StopSession
<1>5. CASE WriteFails
  <2>1. CASE adapters' = adapters /\ phase' = "failed"
    BY <2>1, SameAdaptersKeepOne
  <2> QED BY <1>2, <1>5, <2>1 DEF WriteFails, Fail
<1>6. CASE \/ ReadLine \/ ReadEof \/ ReadError \/ FlushTick \/ WriteLost \/ TimePasses
           \/ TryWait \/ TakeAnswer \/ DeliverAnswer \/ Killed
  <2>1. adapters' = adapters
    BY <1>6 DEF ReadLine, ReadEof, ReadError, FlushTick, WriteLost, TimePasses, TryWait,
                TakeAnswer, DeliverAnswer, Killed, adapterVars
  <2>2. phase' = phase \/ phase' \notin {"starting", "backoff", "ended"}
    <3>1. CASE ReadLine
      BY <3>1 DEF ReadLine, ReadPush, ReadCheck, ReadOther, Proceed, Fail
    <3>2. CASE ReadEof \/ FlushTick \/ WriteLost
      BY <3>2 DEF ReadEof, FlushTick, WriteLost, Proceed
    <3>3. CASE ReadError \/ TimePasses \/ TryWait \/ TakeAnswer \/ DeliverAnswer \/ Killed
      BY <3>3 DEF ReadError, TimePasses, TryWait, TakeAnswer, DeliverAnswer, Killed, Fail
    <3> QED BY <1>6, <3>1, <3>2, <3>3
  <2> QED BY <2>1, <2>2, SameAdaptersKeepOne
<1>7. CASE WriteOk
  <2>1. /\ adapters' = [adapters EXCEPT ![Current] = Fed(adapters[Current], sending)]
        /\ phase' \notin {"starting", "backoff", "ended"} /\ phase = "writing"
    BY <1>7 DEF WriteOk, Proceed
  <2>2. Current \in DOMAIN adapters /\ adapters[Current] \in Adapters
    BY <1>1, <1>7, EmptySeq, AdapterTyped DEF WriteOk, Phases, AdapterTypes, Current
  <2>3. ChildLives(Fed(adapters[Current], sending)) = ChildLives(adapters[Current])
    BY <2>2 DEF Fed, Adapters, ChildLives
  <2>4. DOMAIN adapters' = DOMAIN adapters
    BY <2>1
  <2>5. adapters' \in Seq(Adapters)
    BY <1>7, WriteBasics, TypeParts DEF Basics, TypeOK
  <2>6. Current' = Current
    BY <1>1, <2>4, <2>5 DEF Current, AdapterTypes
  <2>7. \A g \in DOMAIN adapters :
          adapters'[g] = IF g = Current THEN Fed(adapters[Current], sending) ELSE adapters[g]
    BY <2>1, <2>2
  <2>8. ASSUME NEW g \in DOMAIN adapters', ChildLives(adapters'[g])
        PROVE  g = Current'
    <3>1. g \in DOMAIN adapters /\ ChildLives(adapters[g])
      BY <2>3, <2>4, <2>7, <2>8
    <3> QED BY <2>6, <3>1 DEF AtMostOneChild
  <2> QED BY <2>1, <2>8 DEF AtMostOneChild, ChildLives
<1> QED BY <1>4, <1>5, <1>6, <1>7 DEF Loop

LEMMA NextKeepsOne == Basics /\ AtMostOneChild /\ [Next]_vars => AtMostOneChild'
<1>1. Basics /\ AtMostOneChild /\ (Terminated \/ UNCHANGED vars) => AtMostOneChild'
  BY SameAdaptersKeepOne DEF Terminated, vars, adapterVars
<1> QED BY <1>1, AdapterKeepsOne, LoopKeepsOne DEF Next

(* A restart never leaves a second child process beside the new one, and   *)
(* no backoff and no session that ended without an error has any (process.rs *)
(* 112-113, 166-173, 410-416, 435-441).  In the sbt mode the child is sbt.  *)
THEOREM AtMostOneChildCorrect == Spec => []AtMostOneChild
<1>1. Init => AtMostOneChild
  BY DEF Init, AtMostOneChild
<1> QED BY <1>1, NextKeepsOne, BasicsCorrect, PTL DEF Spec
=============================================================================
